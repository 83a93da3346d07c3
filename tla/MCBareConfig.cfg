\* Two projects whose brokers are started with a bare --config file name.
SPECIFICATION Spec
CONSTANTS
    Dirs = {d1, d2}
    Ids = {x}
    Shells = {p, q, r}
    Brokers = {a, b}
    None = None
    Bare = Bare
    ConfigFlags = {d1, d2, Bare}
    MaxEdits = 1
SYMMETRY Swaps
INVARIANTS OwnCell
