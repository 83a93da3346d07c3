SPECIFICATION Spec
CONSTANTS
    w = w
    r1 = r1
    s1 = s1
    s2 = s2
    s3 = s3
    s4 = s4
    None = None
    Launcher = Launcher
    Names = {w}
    Configured = {w}
    Managed = {w}
    LaunchNames = {w}
    Requests = {r1}
    Droppable = {r1}
    Sups = {s1, s2, s3, s4}
    MaxAttempts = 2
    LeasesEnd = TRUE
INVARIANTS
    StartExclusion
SYMMETRY Slots
