SPECIFICATION Spec
CONSTANTS
    w = w
    r1 = r1
    s1 = s1
    s2 = s2
    s3 = s3
    None = None
    Launcher = Launcher
    Names = {w}
    Configured = {w}
    Managed = {w}
    LaunchNames = {w}
    Requests = {r1}
    Droppable = {}
    Sups = {s1, s2, s3}
    MaxAttempts = 5
    LeasesEnd = TRUE
INVARIANTS
    GivesUpAfterBudget
SYMMETRY Slots
