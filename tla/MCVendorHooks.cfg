\* Two commands on Claude's files, or one after another on Codex's, killed
\* anywhere, on every config.toml of up to three lines.
SPECIFICATION MCSpec
CONSTANTS
    Procs = {p1, p2}
    None = None
    SharesEntry = FALSE
    MaxEdits = 1
    Lines = {"[features]", "[other]", "codex_hooks = true", "codex_hooks = false", "codex_hooks_extra"}
    MaxLines = 3
INVARIANTS UserPartKept CommandsTakeEffect
PROPERTIES NotClobbered
