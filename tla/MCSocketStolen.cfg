\* Two starts that overlap.
SPECIFICATION Spec
CONSTANTS
    None = None
    Procs = {p1, p2}
    Clients = {c1}
PROPERTIES
    RemovesOnlyStale
