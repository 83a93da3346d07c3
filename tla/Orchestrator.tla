---------------------------- MODULE Orchestrator ----------------------------
(***************************************************************************)
(* The agent orchestrator of `dispatch serve` and its supervisors.         *)
(*                                                                         *)
(* A request to start, stop or restart an agent (over the socket or over   *)
(* HTTP) takes the orchestrator's mutex for short critical sections only:  *)
(* it reserves the name, builds the child without the mutex, and commits;  *)
(* or it signals a supervisor and waits for it without the mutex.  The     *)
(* start-up launch and the final shutdown hold the mutex throughout.  Each *)
(* child has a supervisor task, which restarts it with a budget until it   *)
(* is signalled.  The worker records are those that these tasks put into   *)
(* the broker (see module Broker for the registry itself).                 *)
(*                                                                         *)
(* A definition called Mutant... is a mistake the code could have made in  *)
(* the definition after it; no specification uses it.                      *)
(***************************************************************************)
EXTENDS Naturals, FiniteSets

CONSTANTS
    Names,        \* names of agents that a request can mention
    Configured,   \* those in the configuration
    Managed,      \* launch = true with a prompt_file: they have a worker record
    LaunchNames,  \* launch = true
    Requests,     \* request handlers, one request each at a time
    Droppable,    \* handlers that are dropped when their HTTP client goes away
    Launcher,     \* the serve task while it launches agents
    Sups,         \* slots for supervisors; a slot is also its worker id
    None,
    MaxAttempts,  \* MAX_RESTART_ATTEMPTS
    LeasesEnd     \* whether worker records may expire

ASSUME NamesAssumption ==
    /\ Configured \subseteq Names
    /\ LaunchNames \subseteq Configured
    /\ Managed \subseteq LaunchNames
ASSUME RequestsAssumption ==
    /\ Droppable \subseteq Requests
    /\ Launcher \notin Requests
    /\ None \notin Requests \cup {Launcher} \cup Sups \cup Names
ASSUME BudgetAssumption == MaxAttempts \in Nat /\ LeasesEnd \in BOOLEAN

VARIABLES
    serve,        \* what the serve task does
    lock,         \* who holds the orchestrator's mutex across an await
    toLaunch,     \* agents that launch_all has still to launch
    starting,     \* reserved names
    agents,       \* supervisors in the tracked set
    sup,          \* the supervisor tasks
    permit,       \* supervisors whose shutdown Notify holds a permit
    child,        \* the child process of each supervisor
    records,      \* worker records in the broker that a supervisor owns
    req           \* what each request handler does

vars == <<serve, lock, toLaunch, starting, agents, sup, permit, child, records, req>>

Handlers == Requests \cup {Launcher}

Finished == {"stopped", "exhausted", "crashed"}

\* A supervisor: its place in supervise_agent, the attempt counter, and two
\* history fields: the failures and the restarts in a row, since the start or a
\* stable run.
Supervisor ==
    [name: Names \cup {None},
     st: {"none", "running", "killing", "backoff", "sleeping", "registering",
          "spawning", "dropping"} \cup Finished,
     attempt: 0 .. MaxAttempts + 1,
     failures: 0 .. MaxAttempts + 1,
     restarts: 0 .. MaxAttempts]

Request ==
    [op: {"none", "start", "stop", "restart", "launch"},
     pc: {"idle", "signal", "await", "start", "build", "spawn", "cleanup",
          "cancel", "commit"},
     name: Names \cup {None},
     new: Sups \cup {None},
     old: Sups \cup {None}]

Idle == [op |-> "none", pc |-> "idle", name |-> None, new |-> None, old |-> None]

Unused == [name |-> None, st |-> "none", attempt |-> 0, failures |-> 0, restarts |-> 0]

TypeOK ==
    /\ serve \in {"boot", "launching", "serving", "stopping", "stopped",
                "failed", "exited"}
    /\ lock \in {None, Launcher}
    /\ toLaunch \subseteq LaunchNames
    /\ starting \subseteq Names
    /\ agents \subseteq Sups
    /\ sup \in [Sups -> Supervisor]
    /\ permit \subseteq Sups
    /\ child \in [Sups -> {"none", "alive", "dead"}]
    /\ records \subseteq Sups
    /\ req \in [Handlers -> Request]

Init ==
    /\ serve = "boot"
    /\ lock = None
    /\ toLaunch = LaunchNames
    /\ starting = {}
    /\ agents = {}
    /\ sup = [s \in Sups |-> Unused]
    /\ permit = {}
    /\ child = [s \in Sups |-> "none"]
    /\ records = {}
    /\ req = [r \in Handlers |-> Idle]

-----------------------------------------------------------------------------
(* Helpers.                                                                *)

LockFree(r) == lock \in {None, r}

\* JoinHandle::is_finished of a supervisor.
IsFinished(s) == sup[s].st \in Finished

\* A slot that nothing refers to any more stands for a fresh UUID.
Fresh(s) ==
    /\ s \notin agents \cup records
    /\ IsFinished(s) \/ sup[s].st = "none"
    /\ \A r \in Handlers : s \notin {req[r].new, req[r].old}

Goto(r, pc) == req' = [req EXCEPT ![r].pc = pc]
Answer(r)   == req' = [req EXCEPT ![r] = Idle]
Become(s, st) == sup' = [sup EXCEPT ![s].st = st]

\* The task returns, and its locals are gone.
Return(s, st) == sup' = [sup EXCEPT ![s] = [Unused EXCEPT !.name = sup[s].name, !.st = st]]

\* register_worker with evict = true: a record under the same id is claimed,
\* otherwise every record of the same name goes.
Registered(s) ==
    IF s \in records THEN records
    ELSE {t \in records : sup[t].name # sup[s].name} \cup {s}

-----------------------------------------------------------------------------
(* Requests.                                                               *)

\* A request arrives and its target is resolved to a name.  The socket is
\* only accepted from while serve selects; HTTP is served before and after.
\* Bound: a slot stays free for every agent that is still to be launched.
Receive(r) ==
    /\ serve # "exited"
    /\ r \in Droppable \/ serve = "serving"
    /\ req[r].pc = "idle"
    /\ Cardinality({t \in Sups : Fresh(t)}) > Cardinality(toLaunch)
    /\ \E n \in Names, s \in {t \in Sups : Fresh(t)} :
        \/ /\ req' = [req EXCEPT ![r] =
                [op |-> "start", pc |-> "start", name |-> n, new |-> s, old |-> None]]
           /\ sup' = [sup EXCEPT ![s] = [Unused EXCEPT !.name = n]]
        \/ /\ req' = [req EXCEPT ![r] =
                [op |-> "restart", pc |-> "signal", name |-> n, new |-> s, old |-> None]]
           /\ sup' = [sup EXCEPT ![s] = [Unused EXCEPT !.name = n]]
        \/ /\ req' = [req EXCEPT ![r] =
                [op |-> "stop", pc |-> "signal", name |-> n, new |-> None, old |-> None]]
           /\ UNCHANGED sup
    /\ UNCHANGED <<serve, lock, toLaunch, starting, agents, permit, child, records>>

\* notify_waiters instead of notify_one.
MutantNoPermit(r, s) ==
    /\ s \in agents
    /\ sup[s].name = req[r].name
    /\ agents' = agents \ {s}
    /\ permit' = IF sup[s].st \in {"running", "sleeping"} THEN permit \cup {s} ELSE permit
    /\ req' = [req EXCEPT ![r].pc = "await", ![r].old = s]
\* signal_stop_by_name: untrack the agent, leave a permit, hand out the handle.
SignalStop(r, s) ==
    /\ s \in agents
    /\ sup[s].name = req[r].name
    /\ agents' = agents \ {s}
    /\ permit' = permit \cup {s}
    /\ req' = [req EXCEPT ![r].pc = "await", ![r].old = s]

Tracked(n) == \E s \in agents : sup[s].name = n

\* First critical section of stop and restart.
Signal(r) ==
    /\ serve # "exited"
    /\ req[r].pc = "signal"
    /\ LockFree(r)
    /\ \/ req[r].name \in Configured /\ \E s \in agents : SignalStop(r, s)
       \/ /\ req[r].name \in Configured => ~ Tracked(req[r].name)
          /\ IF req[r].op = "restart" /\ req[r].name \in Configured
             THEN Goto(r, "start")
             ELSE Answer(r)
          /\ UNCHANGED <<agents, permit>>
    /\ UNCHANGED <<serve, lock, toLaunch, starting, sup, child, records>>

\* The JoinHandle resolves.
Awaited(r) ==
    /\ serve # "exited"
    /\ req[r].pc = "await"
    /\ IsFinished(req[r].old)
    /\ IF req[r].op = "stop"
       THEN Answer(r)
       ELSE req' = [req EXCEPT ![r].pc = "start", ![r].old = None]
    /\ UNCHANGED <<serve, lock, toLaunch, starting, agents, sup, permit, child, records>>

MutantNoReservation(n, live) ==
    n \in Configured /\ \A s \in live : sup[s].name # n
Startable(n, live) ==
    n \in Configured \ starting /\ \A s \in live : sup[s].name # n

\* check_can_start: reap, reject, or reserve.
CheckCanStart(r) ==
    LET live == {s \in agents : ~ IsFinished(s)}
        n    == req[r].name
    IN  /\ serve # "exited"
        /\ req[r].pc = "start"
        /\ LockFree(r)
        /\ agents' = live
        /\ IF Startable(n, live)
           THEN starting' = starting \cup {n} /\ Goto(r, "build")
           ELSE Answer(r) /\ UNCHANGED starting
        /\ UNCHANGED <<serve, lock, toLaunch, sup, permit, child, records>>

-----------------------------------------------------------------------------
(* build_pending_agent, without the mutex (the launcher holds it).         *)

PreRegister(r) ==
    /\ serve # "exited"
    /\ req[r].pc = "build"
    /\ records' = IF req[r].name \in Managed THEN Registered(req[r].new) ELSE records
    /\ Goto(r, "spawn")
    /\ UNCHANGED <<serve, lock, toLaunch, starting, agents, sup, permit, child>>

\* No prompt file, or the boot prompt cannot be written: nothing to undo yet.
PromptFails(r) ==
    /\ serve # "exited"
    /\ req[r].pc = "build"
    /\ req[r].name \in Managed
    /\ Goto(r, "cancel")
    /\ UNCHANGED <<serve, lock, toLaunch, starting, agents, sup, permit, child, records>>

Spawn(r) ==
    /\ serve # "exited"
    /\ req[r].pc = "spawn"
    /\ Become(req[r].new, "running")
    /\ child' = [child EXCEPT ![req[r].new] = "alive"]
    /\ permit' = permit \ {req[r].new}
    /\ Goto(r, "commit")
    /\ UNCHANGED <<serve, lock, toLaunch, starting, agents, records>>

SpawnFails(r) ==
    /\ serve # "exited"
    /\ req[r].pc = "spawn"
    /\ Goto(r, IF req[r].name \in Managed THEN "cleanup" ELSE "cancel")
    /\ UNCHANGED <<serve, lock, toLaunch, starting, agents, sup, permit, child, records>>

CleanUp(r) ==
    /\ serve # "exited"
    /\ req[r].pc = "cleanup"
    /\ records' = records \ {req[r].new}
    /\ Goto(r, "cancel")
    /\ UNCHANGED <<serve, lock, toLaunch, starting, agents, sup, permit, child>>

\* register_pending and cancel_start.
RegisterPending(r) ==
    /\ serve # "exited"
    /\ req[r].pc = "commit"
    /\ LockFree(r)
    /\ starting' = starting \ {req[r].name}
    /\ agents' = agents \cup {req[r].new}
    /\ Answer(r)
    /\ UNCHANGED <<serve, lock, toLaunch, sup, permit, child, records>>

MutantKeepsReservation(r) ==
    /\ serve # "exited"
    /\ r # Launcher
    /\ req[r].pc = "cancel"
    /\ Answer(r)
    /\ UNCHANGED <<serve, lock, toLaunch, starting, agents, sup, permit, child, records>>
CancelStart(r) ==
    /\ serve # "exited"
    /\ r # Launcher
    /\ req[r].pc = "cancel"
    /\ LockFree(r)
    /\ starting' = starting \ {req[r].name}
    /\ Answer(r)
    /\ UNCHANGED <<serve, lock, toLaunch, agents, sup, permit, child, records>>

\* The HTTP client goes away and the server drops the handler where it
\* waits.  A supervisor that was spawned goes on without its JoinHandle.
Dropped(r) ==
    /\ serve # "exited"
    /\ r \in Droppable
    /\ req[r].pc # "idle"
    /\ Answer(r)
    /\ UNCHANGED <<serve, lock, toLaunch, starting, agents, sup, permit, child, records>>

-----------------------------------------------------------------------------
(* supervise_agent.                                                        *)

\* The child ends by itself.
ChildDies(s) ==
    /\ child[s] = "alive"
    /\ child' = [child EXCEPT ![s] = "dead"]
    /\ UNCHANGED <<serve, lock, toLaunch, starting, agents, sup, permit, records, req>>

\* select!: the shutdown branch takes the permit.  If the child is dead as
\* well, either branch may win.
SeesShutdown(s) ==
    /\ serve # "exited"
    /\ sup[s].st = "running"
    /\ s \in permit
    /\ permit' = permit \ {s}
    /\ Become(s, "killing")
    /\ UNCHANGED <<serve, lock, toLaunch, starting, agents, child, records, req>>

\* No SIGKILL: a child that ignores SIGTERM is waited for.
MutantTermOnly(s) ==
    /\ serve # "exited"
    /\ sup[s].st = "killing" /\ child[s] = "dead"
    /\ Return(s, "stopped")
    /\ UNCHANGED <<serve, lock, toLaunch, starting, agents, permit, child, records, req>>
\* SIGTERM, half a second, SIGKILL, wait.
KillProcessGroup(s) ==
    /\ serve # "exited"
    /\ sup[s].st = "killing"
    /\ child' = [child EXCEPT ![s] = "dead"]
    /\ Return(s, "stopped")
    /\ UNCHANGED <<serve, lock, toLaunch, starting, agents, permit, records, req>>

MutantNeverReset(s, ranStable) == sup[s].attempt + 1
NextAttempt(s, ranStable) == IF ranStable THEN 1 ELSE sup[s].attempt + 1

MutantUnlimited(attempt) == FALSE
Exhausted(attempt) == attempt > MaxAttempts

\* select!: the child has exited, after a run of STABLE_AFTER or not.
SeesExit(s) ==
    /\ serve # "exited"
    /\ sup[s].st = "running"
    /\ child[s] = "dead"
    /\ \E ranStable \in BOOLEAN :
        sup' = [sup EXCEPT
            ![s].attempt  = NextAttempt(s, ranStable),
            ![s].st       = IF Exhausted(NextAttempt(s, ranStable))
                            THEN "exhausted" ELSE "backoff",
            ![s].failures = IF ranStable THEN 0 ELSE @ + 1,
            ![s].restarts = IF ranStable THEN 0 ELSE @]
    /\ UNCHANGED <<serve, lock, toLaunch, starting, agents, permit, child, records, req>>

\* The inner select!.  Its first poll finds a stored permit before the sleep
\* can have ended; later, permit and timer may race.
FirstPoll(s) ==
    /\ serve # "exited"
    /\ sup[s].st = "backoff"
    /\ IF s \in permit THEN Return(s, "stopped") ELSE Become(s, "sleeping")
    /\ permit' = permit \ {s}
    /\ UNCHANGED <<serve, lock, toLaunch, starting, agents, child, records, req>>

StopsInBackoff(s) ==
    /\ serve # "exited"
    /\ sup[s].st = "sleeping"
    /\ s \in permit
    /\ permit' = permit \ {s}
    /\ Return(s, "stopped")
    /\ UNCHANGED <<serve, lock, toLaunch, starting, agents, child, records, req>>

BackoffEnds(s) ==
    /\ serve # "exited"
    /\ sup[s].st = "sleeping"
    /\ Become(s, IF sup[s].name \in Managed THEN "registering" ELSE "spawning")
    /\ UNCHANGED <<serve, lock, toLaunch, starting, agents, permit, child, records, req>>

ReRegister(s) ==
    /\ serve # "exited"
    /\ sup[s].st = "registering"
    /\ records' = Registered(s)
    /\ Become(s, "spawning")
    /\ UNCHANGED <<serve, lock, toLaunch, starting, agents, permit, child, req>>

\* The lease ended and the id was registered again under another name.
ReRegisterFails(s) ==
    /\ serve # "exited"
    /\ sup[s].st = "registering"
    /\ LeasesEnd
    /\ s \notin records
    /\ Return(s, "crashed")
    /\ UNCHANGED <<serve, lock, toLaunch, starting, agents, permit, child, records, req>>

Respawn(s) ==
    /\ serve # "exited"
    /\ sup[s].st = "spawning"
    /\ child' = [child EXCEPT ![s] = "alive"]
    /\ sup' = [sup EXCEPT ![s].st = "running", ![s].restarts = @ + 1]
    /\ UNCHANGED <<serve, lock, toLaunch, starting, agents, permit, records, req>>

MutantLeavesRecord(s) ==
    /\ serve # "exited"
    /\ sup[s].st = "spawning"
    /\ Return(s, "crashed")
    /\ UNCHANGED <<serve, lock, toLaunch, starting, agents, permit, child, records, req>>
RespawnFails(s) ==
    /\ serve # "exited"
    /\ sup[s].st = "spawning"
    /\ IF sup[s].name \in Managed THEN Become(s, "dropping") ELSE Return(s, "crashed")
    /\ UNCHANGED <<serve, lock, toLaunch, starting, agents, permit, child, records, req>>

DropRecord(s) ==
    /\ serve # "exited"
    /\ sup[s].st = "dropping"
    /\ records' = records \ {s}
    /\ Return(s, "crashed")
    /\ UNCHANGED <<serve, lock, toLaunch, starting, agents, permit, child, req>>

\* The lease of a record ends and some request evicts it.
Expire(s) ==
    /\ serve # "exited"
    /\ LeasesEnd
    /\ s \in records
    /\ records' = records \ {s}
    /\ UNCHANGED <<serve, lock, toLaunch, starting, agents, sup, permit, child, req>>

-----------------------------------------------------------------------------
(* serve.                                                                  *)

\* launch_all runs under the mutex from before the first child to the last.
BeginLaunch ==
    /\ serve = "boot"
    /\ serve' = "launching"
    /\ lock' = Launcher
    /\ UNCHANGED <<toLaunch, starting, agents, sup, permit, child, records, req>>

\* spawn_agent: no check_can_start, so neither `starting` nor `agents` is read.
LaunchNext ==
    /\ serve = "launching"
    /\ req[Launcher].pc = "idle"
    /\ \E n \in toLaunch, s \in {t \in Sups : Fresh(t)} :
        /\ req' = [req EXCEPT ![Launcher] =
                [op |-> "launch", pc |-> "build", name |-> n, new |-> s, old |-> None]]
        /\ sup' = [sup EXCEPT ![s] = [Unused EXCEPT !.name = n]]
        /\ toLaunch' = toLaunch \ {n}
    /\ UNCHANGED <<serve, lock, starting, agents, permit, child, records>>

\* The first failure ends serve with an error, and nobody stops the others.
LaunchFails ==
    /\ serve = "launching"
    /\ req[Launcher].pc = "cancel"
    /\ serve' = "exited"
    /\ UNCHANGED <<lock, toLaunch, starting, agents, sup, permit, child, records, req>>

EndLaunch ==
    /\ serve = "launching"
    /\ req[Launcher].pc = "idle"
    /\ toLaunch = {}
    /\ serve' = "serving"
    /\ lock' = None
    /\ UNCHANGED <<toLaunch, starting, agents, sup, permit, child, records, req>>

MutantOnlyWaiting == {s \in agents : sup[s].st \in {"running", "sleeping"}}
ToSignal == agents

\* A signal or POST /api/shutdown: shutdown_all takes the mutex, signals
\* every tracked supervisor, and keeps the mutex until all have finished.
BeginShutdown ==
    /\ serve = "serving"
    /\ lock = None
    /\ serve' = "stopping"
    /\ lock' = Launcher
    /\ permit' = permit \cup ToSignal
    /\ UNCHANGED <<toLaunch, starting, agents, sup, child, records, req>>

EndShutdown ==
    /\ serve = "stopping"
    /\ \A s \in agents : IsFinished(s)
    /\ agents' = {}
    /\ serve' = "stopped"
    /\ lock' = None
    /\ UNCHANGED <<toLaunch, starting, sup, permit, child, records, req>>

\* accept() returns an error: serve ends without shutdown_all.
AcceptFails ==
    /\ serve = "serving"
    /\ serve' = "failed"
    /\ UNCHANGED <<lock, toLaunch, starting, agents, sup, permit, child, records, req>>

\* SIGINT before the first poll of shutdown_signal, which installs the
\* handler: the process dies.
EarlySignal ==
    /\ serve \in {"boot", "launching"}
    /\ serve' = "exited"
    /\ UNCHANGED <<lock, toLaunch, starting, agents, sup, permit, child, records, req>>

\* serve returns, the process ends, and every task with it.
Exit ==
    /\ serve \in {"stopped", "failed"}
    /\ serve' = "exited"
    /\ UNCHANGED <<lock, toLaunch, starting, agents, sup, permit, child, records, req>>

Gone == serve = "exited" /\ UNCHANGED vars

-----------------------------------------------------------------------------

HandlerStep(r) ==
    \/ Signal(r) \/ Awaited(r) \/ CheckCanStart(r)
    \/ PreRegister(r) \/ PromptFails(r) \/ Spawn(r) \/ SpawnFails(r) \/ CleanUp(r)
    \/ RegisterPending(r) \/ CancelStart(r)

SupervisorStep(s) ==
    \/ SeesShutdown(s) \/ KillProcessGroup(s) \/ SeesExit(s)
    \/ FirstPoll(s) \/ StopsInBackoff(s) \/ BackoffEnds(s)
    \/ ReRegister(s) \/ ReRegisterFails(s)
    \/ Respawn(s) \/ RespawnFails(s) \/ DropRecord(s)

ServeStep ==
    \/ BeginLaunch \/ LaunchNext \/ LaunchFails \/ EndLaunch
    \/ EndShutdown \/ Exit

Next ==
    \/ \E r \in Requests : Receive(r) \/ Dropped(r)
    \/ \E r \in Handlers : HandlerStep(r)
    \/ \E s \in Sups : ChildDies(s) \/ SupervisorStep(s) \/ Expire(s)
    \/ ServeStep \/ BeginShutdown \/ AcceptFails \/ EarlySignal \/ Gone

\* The runtime polls every woken task again and serve's own steps are not
\* delayed forever.  Nothing makes children die, requests arrive or serve end.
Fairness ==
    /\ \A r \in Handlers : WF_vars(HandlerStep(r))
    /\ \A s \in Sups : WF_vars(SupervisorStep(s))
    /\ WF_vars(ServeStep)

Spec == Init /\ [][Next]_vars /\ Fairness

-----------------------------------------------------------------------------
(* Safety.                                                                 *)

InBuild == {"build", "spawn", "cleanup", "cancel", "commit"}

\* At most one agent of a name is tracked or being started: what the
\* reservation of check_can_start is for, across the unlocked build.
StartExclusion ==
    \A n \in Names :
        /\ \A s, t \in agents : sup[s].name = n /\ sup[t].name = n => s = t
        /\ n \in starting => ~ Tracked(n)

\* A name is reserved exactly while one request builds a child for it, so no
\* failed start blocks the name for ever (check_can_start: the caller must
\* call register_pending or cancel_start).
ReservationOwned ==
    \A n \in Names :
        LET builders == {r \in Requests : req[r].pc \in InBuild /\ req[r].name = n}
        IN  /\ n \in starting <=> builders # {}
            /\ \A r, q \in builders : r = q

\* A living child always has a supervisor at work, and somebody who can end
\* it: it is tracked, about to be, or its supervisor has been signalled.  No
\* interleaving of stops, restarts, crashes and respawns loses a child.
EveryChildAttended ==
    serve # "exited" =>
        \A s \in Sups : child[s] = "alive" =>
            /\ sup[s].st \in {"running", "killing"}
            /\ \/ s \in agents
               \/ s \in permit
               \/ sup[s].st = "killing"
               \/ \E r \in Handlers : req[r].new = s /\ req[r].pc = "commit"

\* A worker record never outlives a child that could not be spawned (the
\* "no zombie state" invariant of build_pending_agent and of the supervisor).
NoZombieRecord ==
    \A s \in records :
        /\ sup[s].st # "crashed"
        /\ sup[s].st = "none" =>
            \E r \in Handlers : req[r].new = s /\ req[r].pc \in {"spawn", "cleanup"}

\* Never two living children of one agent.
OneChildPerName ==
    \A s, t \in Sups :
        child[s] = "alive" /\ child[t] = "alive" /\ sup[s].name = sup[t].name => s = t

\* "Maximum consecutive restart attempts before marking an agent as crashed": an
\* agent is restarted MaxAttempts times in a row but not more often, and is not
\* given up earlier; only a stable run starts the count again.  The failures are
\* one more than the restarts if there was no stable run: GivesUpAfterBudget.
RestartBudget ==
    \A s \in Sups :
        /\ sup[s].st \notin Finished => sup[s].restarts <= MaxAttempts
        /\ sup[s].st = "exhausted" => sup[s].restarts = MaxAttempts

\* "Gives up after MAX_RESTART_ATTEMPTS consecutive unstable failures", and in
\* the README: "After 5 consecutive unstable failures the supervisor gives up".
GivesUpAfterBudget ==
    \A s \in Sups : sup[s].failures >= MaxAttempts => IsFinished(s)

\* CHANGELOG: shutdown kills process groups and reaps children.
NoChildAfterShutdown ==
    serve = "stopped" => \A s \in Sups : child[s] # "alive"

-----------------------------------------------------------------------------
(* Liveness.                                                               *)

\* Every request is answered: stops wait for supervisors, starts for the
\* mutex, and the mutex is held while shutdown_all waits for supervisors, but
\* nobody waits for somebody who waits for them.
RequestsAnswered ==
    \A r \in Requests : req[r].pc # "idle" ~> (req[r].pc = "idle" \/ serve = "exited")

\* A shutdown ends, whatever the supervisors are doing when it begins.
ShutdownEnds == serve = "stopping" ~> serve = "exited"

=============================================================================
