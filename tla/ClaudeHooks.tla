---------------------------- MODULE ClaudeHooks ----------------------------
(***************************************************************************)
(* `dispatch claude-hook install` and `uninstall`, run one after another,  *)
(* at the same time, or killed half-way, on settings files that the user   *)
(* edits.  tokio::fs::write truncates the file first and writes it then.   *)
(*                                                                         *)
(* A definition called Mutant... is a mistake the code could have made in  *)
(* the definition after it; no specification uses it.                      *)
(***************************************************************************)
EXTENDS HookFile

CONSTANTS
    Procs,         \* hook commands, each may be run again
    None,
    SharesEntry,   \* whether the user adds commands to our matcher entry
    MaxEdits       \* bound: edits by the user

ASSUME HooksAssumption ==
    /\ SharesEntry \in BOOLEAN
    /\ MaxEdits \in Nat

Paths == {"settings.json", "settings.local.json"}

VARIABLES
    file,    \* the settings files
    proc,    \* the commands
    mine,    \* history: what the user last put into each file
    faults,  \* history: whether commands have overlapped, or been killed
    edits    \* number of edits so far

vars == <<file, proc, mine, faults, edits>>

Idle == [pc |-> "idle", op |-> None, path |-> None, json |-> EmptyObject, result |-> None]

TypeOK ==
    /\ \A path \in Paths : IsFile(file[path])
    /\ proc \in [Procs ->
            [pc: {"idle", "read", "truncate", "write", "remove", "done"},
             op: {"install", "uninstall", None},
             path: Paths \cup {None},
             json: Object,
             result: {"ok", "none", "error", None}]]
    /\ faults \subseteq {"overlap", "kill"}
    /\ edits \in 0 .. MaxEdits

\* The user has no file, or one that is not ours to change, or a first hook.
InitialFiles ==
    {Missing, Empty, Broken, Array,
     Json([EmptyObject EXCEPT !.rest = TRUE]),
     Json([EmptyObject EXCEPT !.hooks = "other"]),
     Json([EmptyObject EXCEPT !.hooks = "object", !.stop = "other"]),
     Json([EmptyObject EXCEPT !.hooks = "object", !.stop = "array", !.entries = <<{Yours}>>])}

Init ==
    /\ file \in [Paths -> InitialFiles]
    /\ file["settings.local.json"] \in {Missing, Json([EmptyObject EXCEPT !.rest = TRUE])}
    /\ proc = [p \in Procs |-> Idle]
    /\ mine = [path \in Paths |-> Owned(file[path])]
    /\ faults = {}
    /\ edits = 0

-----------------------------------------------------------------------------
(* The commands.                                                           *)

Running(p) == proc[p].pc \notin {"idle", "done"}
Quiet == \A p \in Procs : ~ Running(p)

\* A private file unless there is a shared one already.
SettingsPath ==
    IF file["settings.json"].kind # "missing" THEN "settings.json" ELSE "settings.local.json"

Finish(p, result) == proc' = [proc EXCEPT ![p].pc = "done", ![p].result = result]

Begin(p) ==
    /\ ~ Running(p)
    /\ \E op \in {"install", "uninstall"} :
        proc' = [q \in Procs |->
                    IF q = p
                    THEN [Idle EXCEPT !.pc = "read", !.op = op, !.path = SettingsPath]
                    ELSE IF Running(q) THEN proc[q] ELSE Idle]
    /\ faults' = IF Quiet THEN faults ELSE faults \cup {"overlap"}
    /\ UNCHANGED <<file, mine, edits>>

MutantIfNone(o) ==
    [o EXCEPT !.hooks = "object", !.stop = "array",
              !.entries = IF @ = <<>> THEN <<{Ours}>> ELSE @]
Installed(o) == AddStop(o, {Ours})

Removable(o) == o.hooks = "object" /\ o.stop = "array" /\ OursIn(o.entries) # {}
Uninstalled(o) ==
    DropEmptyHooks(DropEmptyStop([o EXCEPT !.entries = Without(@)]))

Compute(p, o) ==
    IF proc[p].op = "install"
    THEN IF Accepts(o)
         THEN proc' = [proc EXCEPT ![p].pc = "truncate", ![p].json = Installed(o)]
         ELSE Finish(p, "error")
    ELSE IF Removable(o)
         THEN proc' = [proc EXCEPT
                ![p].pc = IF Uninstalled(o) = EmptyObject THEN "remove" ELSE "truncate",
                ![p].json = Uninstalled(o)]
         ELSE Finish(p, "none")

MutantTolerant(p) ==
    /\ proc[p].pc = "read"
    /\ Compute(p, Load(file[proc[p].path]))
    /\ UNCHANGED <<file, mine, faults, edits>>
Read(p) ==
    /\ proc[p].pc = "read"
    /\ LET f == file[proc[p].path]
       IN  CASE f.kind = "missing" /\ proc[p].op = "uninstall" -> Finish(p, "none")
             [] ~ Loads(f)    -> Finish(p, "error")
             [] ~ IsObject(f) -> Finish(p, IF proc[p].op = "install" THEN "error" ELSE "none")
             [] OTHER         -> Compute(p, Load(f))
    /\ UNCHANGED <<file, mine, faults, edits>>

Truncate(p) ==
    /\ proc[p].pc = "truncate"
    /\ file' = [file EXCEPT ![proc[p].path] = Empty]
    /\ proc' = [proc EXCEPT ![p].pc = "write"]
    /\ UNCHANGED <<mine, faults, edits>>

Write(p) ==
    /\ proc[p].pc = "write"
    /\ file' = [file EXCEPT ![proc[p].path] = Json(proc[p].json)]
    /\ Finish(p, "ok")
    /\ UNCHANGED <<mine, faults, edits>>

\* remove_file; it fails if another command has removed the file.
Remove(p) ==
    /\ proc[p].pc = "remove"
    /\ file' = [file EXCEPT ![proc[p].path] = Missing]
    /\ Finish(p, IF file[proc[p].path].kind = "missing" THEN "error" ELSE "ok")
    /\ UNCHANGED <<mine, faults, edits>>

Killed(p) ==
    /\ Running(p)
    /\ proc' = [proc EXCEPT ![p] = Idle]
    /\ faults' = faults \cup {"kill"}
    /\ UNCHANGED <<file, mine, edits>>

-----------------------------------------------------------------------------
(* The user, between commands.                                             *)

Edited(path, o) ==
    /\ file' = [file EXCEPT ![path] = Json(o)]
    /\ mine' = [mine EXCEPT ![path] = Owned(Json(o))]

Edit(path) ==
    LET o == file[path].json
    IN  /\ Quiet
        /\ edits < MaxEdits
        /\ edits' = edits + 1
        /\ file[path].kind \notin {"broken", "array"}
        /\ Accepts(o)
        /\ \/ Edited(path, [o EXCEPT !.rest = TRUE])
           \/ Edited(path, [o EXCEPT !.hooks = "object", !.others = TRUE])
           \/ Edited(path, [o EXCEPT !.hooks = "object", !.stop = "array",
                                     !.entries = Append(@, {Yours})])
           \/ /\ SharesEntry
              /\ \E i \in OursIn(o.entries) :
                    Edited(path, [o EXCEPT !.entries[i] = {Ours, Yours}])
        /\ proc' = [p \in Procs |-> Idle]
        /\ UNCHANGED faults

-----------------------------------------------------------------------------

Next ==
    \/ \E p \in Procs :
        Begin(p) \/ Read(p) \/ Truncate(p) \/ Write(p) \/ Remove(p) \/ Killed(p)
    \/ \E path \in Paths : Edit(path)

Spec == Init /\ [][Next]_vars

-----------------------------------------------------------------------------
(* Properties.                                                             *)

\* The type invariant above includes that no command leaves dangling keys.

\* "Idempotent: re-running does not duplicate the entry": whatever commands
\* run, overlap or are killed, no file ever holds our hook twice.
NeverTwice == \A path \in Paths : Cardinality(OursIn(file[path].json.entries)) <= 1

\* "Existing keys outside our hook entry are preserved", "leaves other hooks,
\* matchers, and settings untouched": after commands that ran one by one to
\* their ends the user has everything that the last edit left in each file.
UserEntriesKept ==
    Quiet /\ faults = {} => \A path \in Paths : Owned(file[path]) = mine[path]

\* "User-authored config isn't silently clobbered": what a command does not
\* understand it never overwrites or removes.
NotClobbered ==
    [][\A path \in Paths :
        file[path].kind \in {"broken", "array"} \/ ~ Accepts(file[path].json)
            => file'[path] = file[path]]_vars

\* "Idempotent", "leaves other hooks ... untouched", of commands that overlap.
OverlapsKeepEntries ==
    Quiet /\ "kill" \notin faults => \A path \in Paths : Owned(file[path]) = mine[path]

\* "Remove the Stop hook entry": after an uninstall our hook is in neither of
\* the two files that Claude Code reads.
HookGone ==
    \A p \in Procs :
        proc[p].pc = "done" /\ proc[p].op = "uninstall" /\ proc[p].result # "error"
            => \A path \in Paths : OursIn(file[path].json.entries) = {}

\* An install that reports success has put our hook into the settings, also
\* after commands that were killed half-way.
InstallTakesEffect ==
    Quiet /\ "overlap" \notin faults =>
        \A p \in Procs :
            proc[p].pc = "done" /\ proc[p].op = "install" /\ proc[p].result = "ok"
                /\ (\A q \in Procs \ {p} : proc[q].pc = "idle")
            => OursIn(file[proc[p].path].json.entries) # {}
=============================================================================
