------------------------------ MODULE HookFile ------------------------------
(***************************************************************************)
(* A vendor's JSON file with Stop hooks, as the hook commands see it: which *)
(* containers are there, which matcher entries `Stop` has, and whether the *)
(* user keeps anything else in the file.  A matcher entry is the set of    *)
(* whose commands it runs.                                                 *)
(***************************************************************************)
EXTENDS Naturals, Sequences, FiniteSets

Ours  == "dispatch"
Yours == "user"
Entries == (SUBSET {Ours, Yours}) \ {{}}

\* `legacy` are the entries of a top-level "Stop" array, absent if empty.
Object == [hooks: {"absent", "object", "other"},
           stop: {"absent", "array", "other"},
           entries: Seq(Entries),
           legacy: Seq(Entries),
           others: BOOLEAN,      \* other categories below "hooks"
           rest: BOOLEAN]        \* other top-level keys

EmptyObject == [hooks |-> "absent", stop |-> "absent", entries |-> <<>>,
                legacy |-> <<>>, others |-> FALSE, rest |-> FALSE]

Missing == [kind |-> "missing", json |-> EmptyObject]
Empty   == [kind |-> "empty", json |-> EmptyObject]
Broken  == [kind |-> "broken", json |-> EmptyObject]    \* no JSON
Array   == [kind |-> "array", json |-> EmptyObject]     \* JSON, but no object
Json(o) == [kind |-> "json", json |-> o]

\* No dangling containers, like `"hooks": {}`.
Tidy(o) ==
    /\ o.stop = "array" <=> o.entries # <<>>
    /\ o.stop # "absent" \/ o.others => o.hooks = "object"
    /\ o.hooks = "object" => o.stop # "absent" \/ o.others

IsFile(f) ==
    /\ f.kind \in {"missing", "empty", "broken", "array", "json"}
    /\ f.json \in Object
    /\ Tidy(f.json)

\* load_json: a missing or empty file is an empty object.
Loads(f)    == f.kind # "broken"
IsObject(f) == f.kind # "array"
Load(f)     == f.json

\* The entries of a sequence at some positions, in order.
Picked(s, positions) ==
    LET pick[i \in 0 .. Len(s)] ==
            IF i = 0 THEN <<>>
            ELSE IF i \in positions THEN Append(pick[i - 1], s[i]) ELSE pick[i - 1]
    IN  pick[Len(s)]

OursIn(entries) == {i \in DOMAIN entries : Ours \in entries[i]}
Without(entries) == Picked(entries, DOMAIN entries \ OursIn(entries))

\* require_object and require_array: absent containers are created, others
\* of the wrong type are refused.
Accepts(o) == o.hooks # "other" /\ o.stop # "other"
AddStop(o, e) ==
    [o EXCEPT !.hooks = "object", !.stop = "array",
              !.entries = IF OursIn(@) = {} THEN Append(@, e) ELSE @]

\* Drop our entries and the containers that this leaves empty.
DropEmptyStop(o)  == IF o.entries = <<>> THEN [o EXCEPT !.stop = "absent"] ELSE o
DropEmptyHooks(o) ==
    IF o.stop = "absent" /\ ~ o.others THEN [o EXCEPT !.hooks = "absent"] ELSE o

\* What the user has in a file.
Owned(f) ==
    [commands |-> Cardinality({i \in DOMAIN f.json.entries : Yours \in f.json.entries[i]}),
     legacy   |-> Cardinality({i \in DOMAIN f.json.legacy : Yours \in f.json.legacy[i]}),
     others   |-> f.json.others,
     rest     |-> f.json.rest]
=============================================================================
