\* Two projects, two brokers, a terminal and what they start, with --config and
\* without, bare file names included; files edited, the last edit may leave none
\* to serve.  Every command and answer; two agents of different names.
SPECIFICATION MCSpec
CONSTANTS
    d1 = d1  d2 = d2  x = x
    Dirs = {d1, d2}
    Ids = {x}
    Shells = {p, q}
    Brokers = {a, b}
    None = None
    Bare = Bare
    ConfigFlags = {d1, d2, Bare}
    MaxEdits = 2
    EmptyPrompts = TRUE
    MaxVersions = 2
    Configs <- MCConfigs
    plain = plain  other = other  slashed = slashed
CHECK_DEADLOCK FALSE
SYMMETRY Swaps
INVARIANTS ChildrenBound ProjectsApart PromptOrFailure AnswerKept IdComplete PromptReceived
