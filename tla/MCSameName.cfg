\* Two agents of one name, which share a boot prompt file.
SPECIFICATION MCSpec
CONSTANTS
    d1 = d1  d2 = d2  x = x
    Dirs = {d1, d2}
    Ids = {x}
    Shells = {p, q, r}
    Brokers = {a, b}
    None = None
    Bare = Bare
    ConfigFlags = {d1, d2}
    MaxEdits = 1
    EmptyPrompts = TRUE
    MaxVersions = 2
    Configs <- MCEqualNames
    plain = plain  other = other  slashed = slashed
SYMMETRY Swaps
INVARIANTS IdComplete
