\* A settings.json that appears after the hook was installed.
SPECIFICATION Spec
CONSTANTS
    Procs = {p1}
    None = None
    SharesEntry = FALSE
    MaxEdits = 1
INVARIANTS HookGone
