\* A printed command that is pasted below another broker's agent.
SPECIFICATION Spec
CONSTANTS
    d1 = d1  d2 = d2  x = x
    Dirs = {d1, d2}
    Ids = {x}
    Shells = {p, q, r}
    Brokers = {a, b}
    None = None
    Bare = Bare
    ConfigFlags = {d1, d2}
    MaxEdits = 1
SYMMETRY Swaps
INVARIANTS HookAgreesWithClient
