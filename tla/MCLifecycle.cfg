SPECIFICATION Spec
CONSTANTS
    w = w
    r1 = r1
    r2 = r2
    s1 = s1
    s2 = s2
    s3 = s3
    None = None
    Launcher = Launcher
    Names = {w}
    Configured = {w}
    Managed = {w}
    LaunchNames = {w}
    Requests = {r1, r2}
    Droppable = {}
    Sups = {s1, s2, s3}
    MaxAttempts = 1
    LeasesEnd = TRUE
INVARIANTS
    TypeOK
    StartExclusion
    ReservationOwned
    EveryChildAttended
    NoZombieRecord
SYMMETRY SlotsAndRequests
