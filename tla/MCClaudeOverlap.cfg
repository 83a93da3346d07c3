\* Two installs at the same time.
SPECIFICATION Spec
CONSTANTS
    Procs = {p1, p2}
    None = None
    SharesEntry = FALSE
    MaxEdits = 0
INVARIANTS OverlapsKeepEntries
