----------------------------- MODULE MCCommands -----------------------------
(***************************************************************************)
(* Three parts of a dispatch process for TLC: the resolution of its cell,  *)
(* one client command, the launch of agents.  They share no state, so that *)
(* a behaviour is about one of them and the others keep their first state. *)
(***************************************************************************)
EXTENDS MCCellResolution, Sequences

CONSTANTS EmptyPrompts, MaxVersions, Configs, plain, other, slashed

VARIABLES
    part,
    command, pc, sent, line, decoded, stdout, code, error,
    config, file, phase, cursor, agents, registered, boot, process, got, printed, rejected

cellVars == vars
clientVars == <<command, pc, sent, line, decoded, stdout, code, error>>
launchVars == <<config, file, phase, cursor, agents, registered, boot, process, got, printed, rejected>>

Client == INSTANCE ClientSession

-----------------------------------------------------------------------------
(* The [[agents]] tables, two to a file.                                   *)

Table(n, kind, tokens, inline, from, launched, asks) ==
    [name |-> n, adapter |-> kind, command |-> tokens, prompt |-> inline,
     prompt_file |-> from, launch |-> launched, interactive |-> asks]

\* An agent of a vendor, with or without a prompt file, launched or printed.
Vendors(n) ==
    {Table(n, "claude", None, FALSE, f, l, FALSE) : f, l \in BOOLEAN} \cup
    {Table(n, "codex", None, FALSE, TRUE, TRUE, TRUE),
     Table(n, "codex", None, FALSE, TRUE, FALSE, TRUE),
     Table(n, "claude", None, TRUE, FALSE, TRUE, FALSE)}
\* Scripts whose tokens have what they stand for, or not even a command.
Scripts(n) ==
    {Table(n, "command", {"{prompt}"}, TRUE, FALSE, TRUE, FALSE),
     Table(n, "command", {"{prompt_file}"}, FALSE, TRUE, FALSE, FALSE),
     Table(n, "command", {"{prompt_file}"}, FALSE, TRUE, TRUE, FALSE),
     Table(n, "command", {"{prompt}"}, TRUE, TRUE, TRUE, FALSE),
     Table(n, "command", None, FALSE, FALSE, TRUE, FALSE)}

SafeNames == {plain, other}
OtherNames == {slashed}
\* The slash becomes the character that plain has there.
FileName == [n \in SafeNames \cup OtherNames |-> IF n = slashed THEN plain ELSE n]

\* Agents meet in their names only: one of each kind that has a record is
\* enough to meet every other table.
Partners(n) == {Table(n, "claude", None, FALSE, TRUE, l, FALSE) : l \in BOOLEAN}

MCConfigs ==
    {<<a, b>> : a \in Vendors(plain), b \in Partners(other) \cup Partners(slashed)} \cup
    {<<a, b>> : a \in Partners(plain), b \in Scripts(other)}
\* Two agents of one name, which the configuration does not reject.
MCEqualNames == {<<a, b>> : a, b \in Partners(plain)}

-----------------------------------------------------------------------------

Agent == INSTANCE AgentLaunch WITH MaxEdits <- MaxVersions

ASSUME ClientAssumption == Client!SessionAssumption
ASSUME AgentAssumption == Agent!LaunchAssumption

MCInit ==
    /\ part \in {"cell", "client", "launch"}
    /\ IF part = "cell" THEN TRUE
       ELSE conf = [d \in Dirs |-> Plain] /\ shell = [s \in Shells |-> [Free EXCEPT !.kind = "terminal"]]
    /\ IF part = "launch" THEN TRUE
       ELSE config = (CHOOSE c \in Configs : TRUE) /\ file = [i \in DOMAIN config |-> 0]
    /\ Init /\ Client!Init /\ Agent!Init

MCNext ==
    \/ part = "cell" /\ Next /\ UNCHANGED <<part, clientVars, launchVars>>
    \/ part = "client" /\ Client!Next /\ UNCHANGED <<part, cellVars, launchVars>>
    \/ part = "launch" /\ Agent!Next /\ UNCHANGED <<part, cellVars, clientVars>>

MCSpec == MCInit /\ [][MCNext]_<<part, cellVars, clientVars, launchVars>>

\* An agent that registers gets its prompt, or a failure (see ClientSession).
PromptOrFailure == Client!PromptOrFailure

\* The client takes and prints each response for what it is (see ClientSession).
AnswerKept == Client!AnswerKept

\* The boot prompt is read exactly by those given an id (see AgentLaunch).
IdComplete == Agent!IdComplete

\* An agent gets the prompt it was started for or none (see AgentLaunch).
PromptReceived == Agent!PromptReceived
=============================================================================
