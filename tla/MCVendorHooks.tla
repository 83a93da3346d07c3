--------------------------- MODULE MCVendorHooks ---------------------------
(***************************************************************************)
(* The hooks of both vendors for TLC.  Their commands share no file, so    *)
(* that a behaviour is about a user who has one of the two vendors; the    *)
(* files of the other one are missing and stay so.                         *)
(***************************************************************************)
EXTENDS ClaudeHooks

CONSTANTS Lines, MaxLines

VARIABLES vendor, hooks, config, pc, op, json, text, result, codexMine, kept, killed, codexEdits

claudeVars == vars
codexVars == <<hooks, config, pc, op, json, text, result, codexMine, kept, killed, codexEdits>>

Codex == INSTANCE CodexHooks WITH mine <- codexMine, edits <- codexEdits

ASSUME FilesAssumption == Codex!CodexAssumption

MCInit ==
    /\ vendor \in {"claude", "codex"}
    /\ Init /\ Codex!Init
    /\ vendor = "claude" => hooks = Missing /\ config = <<>>
    /\ vendor = "codex" => \A path \in Paths : file[path] = Missing

MCNext ==
    \/ vendor = "claude" /\ Next /\ UNCHANGED <<vendor, codexVars>>
    \/ vendor = "codex" /\ Codex!Next /\ UNCHANGED <<vendor, claudeVars>>

MCSpec == MCInit /\ [][MCNext]_<<vendor, claudeVars, codexVars>>

\* Both type invariants: files are tidy, whatever was killed half-way.
TypesOK == TypeOK /\ Codex!TypeOK

\* What the user wrote into either vendor's files survives our commands.
UserPartKept == UserEntriesKept /\ Codex!UserConfigKept

\* An install that reports success leaves our hook, once, where the vendor's
\* program loads it; an uninstall leaves nothing of ours in Codex's files.
CommandsTakeEffect ==
    /\ InstallTakesEffect /\ NeverTwice
    /\ Codex!InstallEnables /\ Codex!UninstallRemoves
=============================================================================
