---------------------------- MODULE AgentLaunch ----------------------------
(***************************************************************************)
(* From an [[agents]] table to a process: what the configuration rejects,  *)
(* what an adapter makes of the rest, and what each agent is given on its  *)
(* stdin and in its environment when serve launches it, a request starts   *)
(* it, its supervisor respawns it, or the user pastes the printed command; *)
(* and what of it an agent gets that registers with the id it was given.   *)
(*                                                                         *)
(* Agent i is the i-th of the file.  A command is the set of its tokens, a *)
(* prompt file a version of its text, an id the agent it was last made     *)
(* for.  Orchestrator models when these things happen, and how they        *)
(* overlap; this module what they do.                                      *)
(*                                                                         *)
(* A definition called Mutant... is a mistake the code could have made in  *)
(* the definition after it; no specification uses it.                      *)
(***************************************************************************)
EXTENDS Naturals, Sequences, FiniteSets

CONSTANTS
    None,
    SafeNames,  \* names of letters, digits, - and _ only
    OtherNames,
    FileName,   \* what sanitize_name makes of a name
    Configs,    \* the [[agents]] a user may write
    MaxEdits    \* bound of the prompt files' versions

AgentConfig ==
    [name: SafeNames \cup OtherNames, adapter: {"command", "claude", "codex"},
     command: SUBSET {"{prompt}", "{prompt_file}"} \cup {None},
     prompt: BOOLEAN, prompt_file: BOOLEAN, launch: BOOLEAN, interactive: BOOLEAN]

\* What is given to a process: its mode, stdin, worker id and prompt version.
Given == [how: {"supervised", "pasted"}, headless: BOOLEAN, stdin: {None, "boot", "prompt"},
          id: Nat \cup {None}, prompt: Nat \cup {None}]

LaunchAssumption ==
    /\ SafeNames \cap OtherNames = {}
    /\ \A n \in SafeNames : FileName[n] = n
    /\ None \notin Nat \cup {"boot", "prompt", "inline", "name"} \cup Given
    /\ \A c \in Configs : c \in Seq(AgentConfig)
    /\ MaxEdits \in Nat

VARIABLES
    config,      \* the agents of the file
    file,        \* version of each agent's prompt file, 0: there is none
    phase,       \* of dispatch serve
    cursor,      \* the agent that launch_all or the banner comes to next
    agents,      \* the resolved agents
    registered,  \* the broker's record under each agent's id: its prompt's version,
                 \* 0 without a prompt, None without a record
    boot,        \* boot prompt files: whose they are, by file name
    process,     \* each agent's process, or None
    got,         \* the prompt its registration returned: a version, 0: none;
                 \* None: it has not registered
    printed,     \* the command printed for each agent, or None
    rejected     \* why serve ended, or None

vars == <<config, file, phase, cursor, agents, registered, boot, process, got, printed, rejected>>

Agents == DOMAIN config

-----------------------------------------------------------------------------
(* Names and adapters.                                                     *)

IsSafeName(n) == n \in SafeNames
SanitizeName(n) == FileName[n]

\* What is wrong with an agent's table, or None.  A missing prompt file is
\* found while resolving.
ConfigError(a, version) ==
    IF ~IsSafeName(a.name) THEN "name"
    ELSE IF a.adapter = "command" /\ a.command = None THEN "command"
    ELSE IF a.adapter # "command" /\ a.prompt /\ ~a.prompt_file THEN "prompt"
    ELSE IF a.prompt /\ a.prompt_file THEN "both"
    ELSE IF a.prompt_file /\ version = 0 THEN "file"
    ELSE None

\* launch wins over interactive.
Interactive(a) == a.interactive /\ ~a.launch

\* ResolvedAgentConfig: the prompt's text, and the file to read on stdin.
Resolved(a, version) ==
    [name |-> a.name, adapter |-> a.adapter, command |-> a.command,
     prompt |-> IF a.prompt THEN "inline" ELSE IF a.prompt_file THEN version ELSE None,
     prompt_file |-> IF a.prompt_file THEN "prompt" ELSE None,
     launch |-> a.launch, interactive |-> Interactive(a)]

\* Launch: the program's mode and its stdin, or the adapter's error.
Launch(a) ==
    IF a.adapter # "command"
    THEN [error |-> None, headless |-> ~a.interactive, stdin |-> a.prompt_file]
    ELSE [error |->
            IF "{prompt_file}" \in a.command /\ a.prompt_file = None THEN "MissingPromptFile"
            ELSE IF "{prompt}" \in a.command /\ a.prompt = None THEN "MissingPromptInline"
            ELSE None,
          headless |-> TRUE, stdin |-> None]

-----------------------------------------------------------------------------

TypeOK ==
    /\ phase \in {"configured", "launching", "banner", "serving", "failed"}
    /\ \A i \in Agents : file[i] \in 0 .. MaxEdits
    /\ agents # <<>> =>
        /\ DOMAIN agents = Agents
        /\ \A i \in Agents : agents[i].interactive => ~agents[i].launch
    /\ \A i \in Agents :
        /\ registered[i] \in 0 .. MaxEdits \cup {None}
        /\ got[i] # None => process[i] # None /\ process[i].id = i
        /\ process[i] # None => process[i].id \in {i, None}
    /\ \A f \in DOMAIN boot : boot[f] \in Agents
    /\ (phase = "failed") = (rejected # None)

Init ==
    /\ config \in Configs
    /\ file \in [DOMAIN config -> {0, 1}]
    /\ phase = "configured" /\ cursor = 1
    /\ agents = <<>>
    /\ registered = [i \in DOMAIN config |-> None]
    /\ boot = [f \in {} |-> None]
    /\ process = [i \in DOMAIN config |-> None]
    /\ got = [i \in DOMAIN config |-> None]
    /\ printed = [i \in DOMAIN config |-> None]
    /\ rejected = None

\* The user edits or removes a prompt file.
EditPrompt(i) ==
    /\ phase \in {"launching", "banner", "serving"}
    /\ config[i].prompt_file
    /\ \/ file[i] < MaxEdits /\ file' = [file EXCEPT ![i] = @ + 1]
       \/ file[i] > 0 /\ file' = [file EXCEPT ![i] = 0]
    /\ UNCHANGED <<config, phase, cursor, agents, registered, boot, process, got, printed, rejected>>

ErrorOf(i) == ConfigError(config[i], file[i])

\* resolve_config: the first agent in error ends serve.
Resolve ==
    /\ phase = "configured"
    /\ IF \E i \in Agents : ErrorOf(i) # None
       THEN /\ phase' = "failed"
            /\ rejected' = ErrorOf(CHOOSE i \in Agents :
                    ErrorOf(i) # None /\ \A j \in 1 .. i - 1 : ErrorOf(j) = None)
            /\ UNCHANGED agents
       ELSE /\ phase' = "launching"
            /\ agents' = [i \in Agents |-> Resolved(config[i], file[i])]
            /\ UNCHANGED rejected
    /\ UNCHANGED <<config, file, cursor, registered, boot, process, got, printed>>

\* The record that is there keeps its prompt.
MutantKeepsPrompt(i, version) ==
    [j \in Agents |-> IF j = i THEN IF registered[i] = None THEN version ELSE registered[i]
                      ELSE IF agents[j].name = agents[i].name THEN None ELSE registered[j]]
\* register_worker with evict and a new id: records of the same name go.
RecordOf(i, version) ==
    [j \in Agents |-> IF j = i THEN version
                      ELSE IF agents[j].name = agents[i].name THEN None ELSE registered[j]]

\* register_worker with evict and an id that may still have its record: it is
\* claimed, before others are evicted, and its prompt stored again.
Renewed(i, version) ==
    IF registered[i] # None THEN [registered EXCEPT ![i] = version] ELSE RecordOf(i, version)

WithBoot(i) ==
    LET f == SanitizeName(agents[i].name)
    IN  [g \in DOMAIN boot \cup {f} |-> IF g = f THEN i ELSE boot[g]]

PreRegisters(a) == a.launch /\ a.prompt_file # None

\* The adapter's command, its stdin pointing to the boot prompt if there is one.
MutantKeepsPromptFile(a, bootstrapped) == a
SpawnConfig(a, bootstrapped) ==
    IF bootstrapped THEN [a EXCEPT !.prompt_file = "boot"] ELSE a

\* The prompt file is read again for every launch.
PromptText(i) == file[i]

Process(i, bootstrapped, how) ==
    LET launch == Launch(SpawnConfig(agents[i], bootstrapped))
    IN  [how |-> how, headless |-> launch.headless, stdin |-> launch.stdin,
         id |-> IF bootstrapped THEN i ELSE None,
         prompt |-> IF bootstrapped THEN PromptText(i) ELSE None]

\* remove_worker, after a spawn that failed.
Removed(records, i) == [records EXCEPT ![i] = None]

\* build_pending_agent: nothing is registered before the prompt is read and
\* the boot prompt written; a spawn that fails removes the record.
Built(i) ==
    /\ PreRegisters(agents[i]) => file[i] > 0
    /\ Launch(agents[i]).error = None
    /\ agents[i].prompt_file # None /\ agents[i].adapter # "command" => file[i] > 0
    /\ IF PreRegisters(agents[i])
       THEN registered' = RecordOf(i, PromptText(i)) /\ boot' = WithBoot(i)
       ELSE UNCHANGED <<registered, boot>>
    /\ process' = [process EXCEPT ![i] = Process(i, PreRegisters(agents[i]), "supervised")]

BuildFails(i) ==
    /\ UNCHANGED process
    /\ \/ /\ PreRegisters(agents[i]) /\ file[i] = 0    \* PromptFileNotFound
          /\ UNCHANGED <<registered, boot>>
       \/ /\ PreRegisters(agents[i]) /\ file[i] > 0    \* cannot write the boot prompt
          /\ UNCHANGED <<registered, boot>>
       \/ /\ PreRegisters(agents[i]) /\ file[i] > 0    \* cannot spawn
          /\ boot' = WithBoot(i)
          /\ registered' = Removed(RecordOf(i, PromptText(i)), i)
       \/ /\ ~PreRegisters(agents[i])
          /\ UNCHANGED <<registered, boot>>

\* launch_all, in the order of the configuration.
LaunchNext ==
    /\ phase = "launching" /\ cursor \in Agents
    /\ \/ /\ ~agents[cursor].launch
          /\ cursor' = cursor + 1
          /\ UNCHANGED <<registered, boot, process, phase, rejected>>
       \/ /\ agents[cursor].launch
          /\ Built(cursor)
          /\ cursor' = cursor + 1
          /\ UNCHANGED <<phase, rejected>>
       \/ /\ agents[cursor].launch
          /\ BuildFails(cursor)
          /\ phase' = "failed"
          /\ rejected' = IF Launch(agents[cursor]).error # None
                         THEN Launch(agents[cursor]).error ELSE "spawn"
          /\ UNCHANGED cursor
    /\ UNCHANGED <<config, file, agents, got, printed>>

EndLaunch ==
    /\ phase = "launching" /\ cursor \notin Agents
    /\ phase' = "banner" /\ cursor' = 1
    /\ UNCHANGED <<config, file, agents, registered, boot, process, got, printed, rejected>>

PrintCommand(i, bootstrapped) ==
    printed' = [printed EXCEPT ![i] =
        IF Launch(agents[i]).error # None THEN None ELSE Process(i, bootstrapped, "pasted")]

\* The banner: pre_register_unmanaged, or the plain command if that fails.
PrintNext ==
    /\ phase = "banner" /\ cursor \in Agents
    /\ cursor' = cursor + 1
    /\ \/ /\ agents[cursor].launch
          /\ UNCHANGED <<registered, boot, printed>>
       \/ /\ ~agents[cursor].launch /\ agents[cursor].prompt_file # None /\ file[cursor] > 0
          /\ boot' = WithBoot(cursor)
          /\ registered' = RecordOf(cursor, PromptText(cursor))
          /\ PrintCommand(cursor, TRUE)
       \/ /\ ~agents[cursor].launch
          /\ PrintCommand(cursor, FALSE)
          /\ UNCHANGED <<registered, boot>>
    /\ UNCHANGED <<config, file, phase, agents, process, got, rejected>>

EndBanner ==
    /\ phase = "banner" /\ cursor \notin Agents
    /\ phase' = "serving"
    /\ UNCHANGED <<config, file, cursor, agents, registered, boot, process, got, printed, rejected>>

-----------------------------------------------------------------------------
(* Requests, supervisors, agents and the user.                             *)

Serving == phase = "serving"
\* The monitor answers before the agents are launched, but launch_all holds
\* the orchestrator's lock.
Answering == phase \in {"banner", "serving"}
Up == phase \in {"launching", "banner", "serving"}

Supervised(i) == process[i] # None /\ process[i].how = "supervised"

\* AgentStart and POST /api/agents/{name}/start: the first agent of that name.
StartAgent(i) ==
    /\ Answering /\ process[i] = None
    /\ \A j \in Agents : agents[j].name = agents[i].name => j >= i /\ process[j] = None
    /\ Built(i) \/ BuildFails(i)
    /\ UNCHANGED <<config, file, phase, cursor, agents, got, printed, rejected>>

\* The child exits and is respawned from the same SpawnConfig; the record and
\* its prompt are renewed first.
Respawn(i) ==
    /\ Up /\ Supervised(i)
    /\ process[i].stdin = "prompt" => file[i] > 0
    /\ registered' = IF process[i].id = None THEN registered ELSE Renewed(i, process[i].prompt)
    /\ got' = [got EXCEPT ![i] = None]
    /\ UNCHANGED <<config, file, phase, cursor, agents, boot, process, printed, rejected>>

Gone(i) ==
    /\ process' = [process EXCEPT ![i] = None]
    /\ got' = [got EXCEPT ![i] = None]

\* A respawn that fails removes the record it has renewed.
RespawnFails(i) ==
    /\ Up /\ Supervised(i)
    /\ Gone(i)
    /\ registered' = IF process[i].id = None THEN registered
                     ELSE Removed(Renewed(i, process[i].prompt), i)
    /\ UNCHANGED <<config, file, phase, cursor, agents, boot, printed, rejected>>

\* The last child of the budget exits; its record stays until its lease ends.
GiveUp(i) ==
    /\ Up /\ Supervised(i)
    /\ Gone(i)
    /\ UNCHANGED <<config, file, phase, cursor, agents, registered, boot, printed, rejected>>

\* A stop, by name, ends the child and leaves the record, too.
StopAgent(i) ==
    /\ Answering /\ Supervised(i)
    /\ Gone(i)
    /\ UNCHANGED <<config, file, phase, cursor, agents, registered, boot, printed, rejected>>

\* The lease of a record ends, claimed or not: the agent was silent or slow,
\* or the child that held it is gone.
Expire(i) ==
    /\ Up /\ registered[i] # None
    /\ registered' = Removed(registered, i)
    /\ UNCHANGED <<config, file, phase, cursor, agents, boot, process, got, printed, rejected>>

\* dispatch register --worker-id --for-agent: a record that is there is claimed
\* and its prompt returned, else one without a prompt is inserted.
Claim(i) ==
    /\ Serving /\ process[i] # None /\ process[i].id # None
    /\ got' = [got EXCEPT ![i] = IF registered[i] = None THEN 0 ELSE registered[i]]
    /\ registered' = [registered EXCEPT ![i] = IF @ = None THEN 0 ELSE @]
    /\ UNCHANGED <<config, file, phase, cursor, agents, boot, process, printed, rejected>>

\* The user pastes the printed command, or quits what was pasted.
Paste(i) ==
    /\ Serving /\ process[i] = None
    /\ printed[i] # None
    /\ process' = [process EXCEPT ![i] = printed[i]]
    /\ UNCHANGED <<config, file, phase, cursor, agents, registered, boot, got, printed, rejected>>

Quit(i) ==
    /\ process[i] # None /\ process[i].how = "pasted"
    /\ Gone(i)
    /\ UNCHANGED <<config, file, phase, cursor, agents, registered, boot, printed, rejected>>

\* serve has ended, or waits for requests.
Idle == phase \in {"failed", "serving"} /\ UNCHANGED vars

Next ==
    \/ Resolve \/ LaunchNext \/ EndLaunch \/ PrintNext \/ EndBanner
    \/ \E i \in Agents :
        \/ EditPrompt(i) \/ StartAgent(i) \/ Respawn(i) \/ RespawnFails(i) \/ GiveUp(i)
        \/ StopAgent(i) \/ Expire(i) \/ Claim(i) \/ Paste(i) \/ Quit(i)
    \/ Idle

Spec == Init /\ [][Next]_vars

-----------------------------------------------------------------------------
(* Properties.                                                             *)

Vendor(i) == agents[i].adapter # "command"

\* A vendor's CLI reads the boot prompt exactly if DISPATCH_WORKER_ID is in
\* its environment, however it was started: told to register, it has the id
\* of its record; not told, it reads its whole prompt and registers anew.
BootstrapComplete ==
    \A i \in Agents : process[i] # None /\ Vendor(i) =>
        (process[i].id # None) = (process[i].stdin = "boot")

\* An agent that is told by a boot prompt reads its own.
BootIsOwn ==
    \A i \in Agents : process[i] # None /\ process[i].stdin = "boot" =>
        boot[SanitizeName(agents[i].name)] = i

\* Told its id, an agent reads a boot prompt, and it is its own.
IdComplete == BootstrapComplete /\ BootIsOwn

\* An agent that registers with its id gets the prompt it was started for, or
\* none if the lease has run out in between: never the text of an earlier or a
\* later start, however often the prompt file was edited, the agent stopped,
\* started again and respawned, or its record lost and inserted again.
PromptReceived ==
    \A i \in Agents : got[i] # None => got[i] \in {0, process[i].prompt}
=============================================================================
