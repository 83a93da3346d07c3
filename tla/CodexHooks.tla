----------------------------- MODULE CodexHooks -----------------------------
(***************************************************************************)
(* `dispatch codex-hook install` and `uninstall` on .codex/hooks.json and  *)
(* .codex/config.toml: two files, one after the other, by commands that    *)
(* may be killed, between edits of the user.  The TOML file is edited line *)
(* by line; what it means is defined beside, for comparison.               *)
(*                                                                         *)
(* A definition called Mutant... is a mistake the code could have made in  *)
(* the definition after it; no specification uses it.                      *)
(***************************************************************************)
EXTENDS HookFile

CONSTANTS
    None,
    Lines,         \* kinds of lines that the user's config.toml has
    MaxLines,      \* bound: lines of that file at first
    MaxEdits       \* bound: edits by the user

\* A line is a table header, with a comment or not, the feature's key with
\* some value, or another key of the table it is in.
AllLines == {"[features]", "[features] #", "[other]", "[other] #",
             "codex_hooks = true", "codex_hooks = false", "codex_hooks_extra"}

CodexAssumption ==
    /\ Lines \subseteq AllLines
    /\ MaxLines \in Nat /\ MaxEdits \in Nat
    /\ None \notin {"features", "other"}

VARIABLES
    hooks,     \* .codex/hooks.json
    config,    \* .codex/config.toml, <<>> if there is none
    pc,        \* where the command is
    op,        \* which command it is
    json,      \* what it writes to hooks.json
    text,      \* what it writes to config.toml
    result,    \* how it ended
    mine,      \* history: what the user last put into hooks.json
    kept,      \* history: the lines of config.toml that are not about the feature
    killed,    \* history: whether a command was killed
    edits

vars == <<hooks, config, pc, op, json, text, result, mine, kept, killed, edits>>

KeyLines == {"codex_hooks = true", "codex_hooks = false"}

TypeOK ==
    /\ IsFile(hooks)
    /\ config \in Seq(AllLines)
    /\ pc \in {"idle", "read", "truncate", "write", "remove", "config",
            "truncate_config", "write_config", "done"}
    /\ op \in {"install", "uninstall", None}
    /\ json \in Object
    /\ text \in Seq(AllLines)
    /\ result \in {"ok", "none", "error", None}
    /\ kept \in Seq(AllLines)
    /\ killed \in BOOLEAN
    /\ edits \in 0 .. MaxEdits

-----------------------------------------------------------------------------
(* What config.toml means: the table of a line is the last header before   *)
(* it; no table and no key of a table may come twice.                      *)

Table(l) ==
    CASE l \in {"[features]", "[features] #"} -> "features"
      [] l \in {"[other]", "[other] #"} -> "other"
      [] OTHER -> None

TableOf(c, i) ==
    LET headers == {j \in 1 .. i - 1 : Table(c[j]) # None}
    IN  IF headers = {} THEN None ELSE Table(c[CHOOSE j \in headers : \A k \in headers : k <= j])

FeatureKeys(c) == {i \in DOMAIN c : c[i] \in KeyLines /\ TableOf(c, i) = "features"}

ValidToml(c) ==
    /\ \A i, j \in DOMAIN c : Table(c[i]) # None /\ Table(c[i]) = Table(c[j]) => i = j
    /\ \A i, j \in DOMAIN c : c[i] \in KeyLines /\ c[j] \in KeyLines
            /\ TableOf(c, i) = TableOf(c, j) => i = j

\* The lines that are neither the feature's nor its table's header.
Foreign(c) == Picked(c, {i \in DOMAIN c : i \notin FeatureKeys(c) /\ c[i] # "[features]"})

FeatureOn(c) == \E i \in FeatureKeys(c) : c[i] = "codex_hooks = true"

-----------------------------------------------------------------------------
(* ensure_codex_hooks_feature.                                             *)

\* A header is a line from "[" to "]"; a comment after it hides it.
IsHeader(l) == l \in {"[features]", "[other]"}

Headers(c) == {i \in DOMAIN c : IsHeader(c[i])}
Last(S)  == CHOOSE i \in S : \A j \in S : j <= i
First(S) == CHOOSE i \in S : \A j \in S : i <= j

InFeatures(c, i) ==
    LET before == {j \in Headers(c) : j < i}
    IN  before # {} /\ c[Last(before)] = "[features]"

\* The key itself and not a longer one that begins like it.
MutantPrefix(l) == l \in KeyLines \cup {"codex_hooks_extra"}
IsKey(l) == l \in KeyLines

ExistingKeys(c) == {i \in DOMAIN c : ~ IsHeader(c[i]) /\ InFeatures(c, i) /\ IsKey(c[i])}

FeaturesHeaders(c) == {i \in DOMAIN c : c[i] = "[features]"}

\* The line after which the last [features] table ends.
FeaturesEnd(c) ==
    LET next == {i \in Headers(c) : i > Last(FeaturesHeaders(c))}
    IN  IF next = {} THEN Len(c) ELSE First(next) - 1

InsertAfter(c, i, l) == SubSeq(c, 1, i) \o <<l>> \o SubSeq(c, i + 1, Len(c))

EnsureFeature(c) ==
    IF ExistingKeys(c) # {}
    THEN [c EXCEPT ![Last(ExistingKeys(c))] = "codex_hooks = true"]
    ELSE IF FeaturesHeaders(c) # {}
    THEN InsertAfter(c, FeaturesEnd(c), "codex_hooks = true")
    ELSE c \o <<"[features]", "codex_hooks = true">>

-----------------------------------------------------------------------------
(* The commands, one at a time.                                            *)

InitialObjects ==
    {EmptyObject,
     [EmptyObject EXCEPT !.rest = TRUE],
     [EmptyObject EXCEPT !.hooks = "other"],
     [EmptyObject EXCEPT !.legacy = <<{Ours}>>],
     [EmptyObject EXCEPT !.hooks = "object", !.others = TRUE, !.legacy = <<{Yours}, {Ours}>>],
     [EmptyObject EXCEPT !.hooks = "object", !.stop = "array", !.entries = <<{Yours}>>]}

Init ==
    /\ hooks \in {Missing, Empty, Broken, Array} \cup {Json(o) : o \in InitialObjects \ {EmptyObject}}
    /\ config \in {c \in UNION {[1 .. n -> Lines] : n \in 0 .. MaxLines} : ValidToml(c)}
    /\ pc = "idle" /\ op = None /\ json = EmptyObject /\ text = <<>> /\ result = None
    /\ mine = Owned(hooks)
    /\ kept = Foreign(config)
    /\ killed = FALSE
    /\ edits = 0

Quiet == pc \in {"idle", "done"}

Goto(l) == pc' = l /\ UNCHANGED result
Finish(r) == pc' = "done" /\ result' = r

Begin ==
    /\ Quiet
    /\ op' \in {"install", "uninstall"}
    /\ pc' = "read" /\ result' = None
    /\ UNCHANGED <<hooks, config, json, text, mine, kept, killed, edits>>

\* Entries of before 0.5.2 go, and the container with the last of them.
Installed(o) == AddStop([o EXCEPT !.legacy = Without(@)], {Ours})

Uninstalled(o) ==
    DropEmptyHooks(DropEmptyStop([o EXCEPT !.entries = Without(@), !.legacy = Without(@)]))

Removable(o) == OursIn(o.entries) \cup OursIn(o.legacy) # {}

Compute(o) ==
    IF op = "install"
    THEN IF Accepts(o)
         THEN json' = Installed(o) /\ Goto("truncate")
         ELSE Finish("error") /\ UNCHANGED json
    ELSE IF Removable(o)
         THEN /\ json' = Uninstalled(o)
              /\ Goto(IF json' = EmptyObject THEN "remove" ELSE "truncate")
         ELSE Finish("none") /\ UNCHANGED json

Read ==
    /\ pc = "read"
    /\ CASE hooks.kind = "missing" /\ op = "uninstall" -> Finish("none") /\ UNCHANGED json
         [] ~ Loads(hooks) -> Finish("error") /\ UNCHANGED json
         [] ~ IsObject(hooks) ->
                Finish(IF op = "install" THEN "error" ELSE "none") /\ UNCHANGED json
         [] OTHER -> Compute(Load(hooks))
    /\ UNCHANGED <<hooks, config, op, text, mine, kept, killed, edits>>

Truncate ==
    /\ pc = "truncate"
    /\ hooks' = Empty
    /\ Goto("write")
    /\ UNCHANGED <<config, op, json, text, mine, kept, killed, edits>>

Write ==
    /\ pc = "write"
    /\ hooks' = Json(json)
    /\ IF op = "install" THEN Goto("config") ELSE Finish("ok")
    /\ UNCHANGED <<config, op, json, text, mine, kept, killed, edits>>

Remove ==
    /\ pc = "remove"
    /\ hooks' = Missing
    /\ Finish("ok")
    /\ UNCHANGED <<config, op, json, text, mine, kept, killed, edits>>

\* The feature flag, written only if that changes the file.
Config ==
    /\ pc = "config"
    /\ text' = EnsureFeature(config)
    /\ IF text' = config THEN Finish("ok") ELSE Goto("truncate_config")
    /\ UNCHANGED <<hooks, config, op, json, mine, kept, killed, edits>>

TruncateConfig ==
    /\ pc = "truncate_config"
    /\ config' = <<>>
    /\ Goto("write_config")
    /\ UNCHANGED <<hooks, op, json, text, mine, kept, killed, edits>>

WriteConfig ==
    /\ pc = "write_config"
    /\ config' = text
    /\ Finish("ok")
    /\ UNCHANGED <<hooks, op, json, text, mine, kept, killed, edits>>

Killed ==
    /\ ~ Quiet
    /\ pc' = "idle" /\ result' = None
    /\ killed' = TRUE
    /\ UNCHANGED <<hooks, config, op, json, text, mine, kept, edits>>

\* The user turns the feature off or adds a hook, between commands.
Edit ==
    /\ Quiet
    /\ edits < MaxEdits
    /\ edits' = edits + 1
    /\ \/ /\ hooks.kind \notin {"broken", "array"}
          /\ Accepts(hooks.json)
          /\ LET o == [hooks.json EXCEPT !.hooks = "object", !.stop = "array",
                                         !.entries = Append(@, {Yours})]
             IN  hooks' = Json(o) /\ mine' = Owned(Json(o))
          /\ UNCHANGED config
       \/ /\ \E i \in FeatureKeys(config) : config' = [config EXCEPT ![i] = "codex_hooks = false"]
          /\ UNCHANGED <<hooks, mine>>
    /\ kept' = Foreign(config')
    /\ pc' = "idle" /\ result' = None
    /\ UNCHANGED <<op, json, text, killed>>

Next ==
    \/ Begin \/ Read \/ Truncate \/ Write \/ Remove
    \/ Config \/ TruncateConfig \/ WriteConfig \/ Killed \/ Edit

Spec == Init /\ [][Next]_vars

-----------------------------------------------------------------------------
(* Properties.                                                             *)

Succeeded(o) == pc = "done" /\ op = o /\ result = "ok"

\* After an install Codex loads our hook, whatever the files were like and
\* wherever an earlier command was killed: there is one entry of ours, none
\* in the old place, and the feature is on in a config.toml that parses.
InstallEnables ==
    Succeeded("install") =>
        /\ Cardinality(OursIn(hooks.json.entries)) = 1
        /\ OursIn(hooks.json.legacy) = {}
        /\ ValidToml(config)
        /\ FeatureOn(config)

\* Nothing of ours is left after an uninstall.
UninstallRemoves ==
    pc = "done" /\ op = "uninstall" /\ result # "error" =>
        OursIn(hooks.json.entries) \cup OursIn(hooks.json.legacy) = {}

\* "Preserving any other Stop entries and any other hook categories the user
\* has registered", "comments, ordering, and formatting of unrelated config
\* are preserved": what the user wrote survives every command that runs to its
\* end, in order.
UserConfigKept ==
    Quiet /\ ~ killed => Owned(hooks) = mine /\ Foreign(config) = kept
=============================================================================
