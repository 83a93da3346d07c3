\* Three serve processes and a client; processes crash and start again.
SPECIFICATION Spec
CONSTANTS
    None = None
    Procs = {p1, p2, p3}
    Clients = {c1}
INVARIANTS AloneSucceeds Reachable
PROPERTIES EveryoneDecided
