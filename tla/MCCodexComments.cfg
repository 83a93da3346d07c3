\* Table headers that are followed by a comment.
SPECIFICATION Spec
CONSTANTS
    None = None
    Lines = {"[features] #", "[other] #", "codex_hooks = false"}
    MaxLines = 3
    MaxEdits = 0
INVARIANTS InstallEnables
