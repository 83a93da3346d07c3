\* Two requests, one of which its client may abandon, and a shutdown.
SPECIFICATION Spec
CONSTANTS
    None = None
    Launcher = Launcher
    Names = {w}
    Configured = {w}
    Managed = {}
    LaunchNames = {w}
    Requests = {r1, r2}
    Droppable = {r1}
    Sups = {s1, s2}
    MaxAttempts = 1
    LeasesEnd = FALSE
INVARIANTS RestartBudget
PROPERTIES RequestsAnswered ShutdownEnds
