\* A user who adds a command to our matcher entry.
SPECIFICATION Spec
CONSTANTS
    Procs = {p1}
    None = None
    SharesEntry = TRUE
    MaxEdits = 2
INVARIANTS UserEntriesKept
