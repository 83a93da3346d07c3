------------------------- MODULE OrchestratorProofs -------------------------
(***************************************************************************)
(* Proofs about Orchestrator for any agents, requests, supervisors and     *)
(* restart budget.                                                         *)
(***************************************************************************)
EXTENDS Orchestrator, TLAPS

USE NamesAssumption, RequestsAssumption, BudgetAssumption

\* What a request in progress refers to: a stop has no child to build, any
\* other operation has the slot of one.
RequestsOK ==
    \A r \in Handlers :
        /\ req[r].pc = "idle" <=> req[r].op = "none"
        /\ req[r].op = "none" => req[r].new = None
        /\ req[r].op = "stop" => req[r].pc \in {"signal", "await"} /\ req[r].new = None
        /\ req[r].op \in {"start", "restart", "launch"} => req[r].new \in Sups
        /\ req[r].pc # "idle" => req[r].name \in Names
        /\ req[r].pc = "await" => req[r].old \in Sups

\* A slot belongs to one request at a time, and nothing runs in it before it
\* is spawned.
SlotsOK ==
    /\ \A r, q \in Handlers :
        r # q /\ req[r].new # None => req[r].new # req[q].new
    /\ \A r \in Handlers :
        req[r].new # None /\ req[r].pc # "commit" => sup[req[r].new].st = "none"

\* The failures in a row are the attempts, but for the one after a stable run.
\* A child that runs is the result of its last attempt; between an exit and a
\* respawn an attempt has begun.
CountsOK ==
    \A s \in Sups :
        /\ sup[s].failures <= sup[s].attempt
        /\ sup[s].st \in {"none", "running", "killing"} => sup[s].attempt = sup[s].restarts
        /\ sup[s].st \in {"backoff", "sleeping", "registering", "spawning", "dropping"} =>
                sup[s].attempt = sup[s].restarts + 1
        /\ sup[s].st \notin Finished => sup[s].attempt <= MaxAttempts
        /\ sup[s].st = "exhausted" => sup[s].attempt = MaxAttempts + 1 /\ sup[s].restarts = MaxAttempts

BudgetInv == TypeOK /\ RequestsOK /\ SlotsOK /\ CountsOK

LEMMA InitBudget == Init => BudgetInv
BY DEF Init, BudgetInv, TypeOK, RequestsOK, SlotsOK, CountsOK, Idle, Unused, Request, Supervisor,
    Handlers, Finished

\* A request that goes on or is answered, without a supervisor.
LEMMA RequestBudget ==
    ASSUME BudgetInv, NEW r \in Handlers, UNCHANGED sup,
           Signal(r) \/ Awaited(r) \/ CheckCanStart(r) \/ PreRegister(r) \/ PromptFails(r)
           \/ SpawnFails(r) \/ CleanUp(r) \/ RegisterPending(r) \/ CancelStart(r) \/ Dropped(r)
    PROVE  BudgetInv'
<1> USE DEF BudgetInv
<1>1. CASE Signal(r)
    <2>1. ASSUME NEW s \in agents, SignalStop(r, s) PROVE BudgetInv'
        BY <1>1, <2>1 DEF Signal, SignalStop, TypeOK, RequestsOK, SlotsOK, CountsOK, Request, Handlers
    <2>2. CASE UNCHANGED <<agents, permit>> /\ ((Goto(r, "start") /\ req[r].op = "restart") \/ Answer(r))
        BY <1>1, <2>2 DEF Signal, Goto, Answer, Idle, TypeOK, RequestsOK, SlotsOK, CountsOK, Request, Handlers
    <2> QED
        BY <1>1, <2>1, <2>2 DEF Signal
<1>2. CASE Awaited(r)
    BY <1>2 DEF Awaited, Answer, Idle, TypeOK, RequestsOK, SlotsOK, CountsOK, Request, Handlers
<1>3. CASE CheckCanStart(r)
    BY <1>3 DEF CheckCanStart, Startable, Goto, Answer, Idle, TypeOK, RequestsOK, SlotsOK, CountsOK, Request, Handlers
<1>4. CASE PreRegister(r)
    BY <1>4 DEF PreRegister, Registered, Goto, TypeOK, RequestsOK, SlotsOK, CountsOK, Request, Handlers
<1>5. CASE PromptFails(r) \/ SpawnFails(r) \/ CleanUp(r)
    BY <1>5 DEF PromptFails, SpawnFails, CleanUp, Goto, TypeOK, RequestsOK, SlotsOK, CountsOK, Request, Handlers
<1>6. CASE RegisterPending(r) \/ CancelStart(r) \/ Dropped(r)
    BY <1>6 DEF RegisterPending, CancelStart, Dropped, Answer, Idle, TypeOK, RequestsOK, SlotsOK, CountsOK, Request, Handlers
<1> QED
    BY <1>1, <1>2, <1>3, <1>4, <1>5, <1>6

\* A request that arrives, or the launch of an agent, takes a fresh slot.
LEMMA TakeSlotBudget ==
    ASSUME BudgetInv, NEW r \in Handlers, req[r].pc = "idle",
           NEW n \in Names, NEW s \in Sups, Fresh(s),
           NEW op \in {"start", "restart", "launch"}, NEW pc \in {"start", "signal", "build"},
           req' = [req EXCEPT ![r] = [op |-> op, pc |-> pc, name |-> n, new |-> s, old |-> None]],
           sup' = [sup EXCEPT ![s] = [Unused EXCEPT !.name = n]]
    PROVE  req' \in [Handlers -> Request] /\ sup' \in [Sups -> Supervisor]
           /\ RequestsOK' /\ SlotsOK' /\ CountsOK'
<1> USE DEF BudgetInv
<1>1. sup'[s] = [name |-> n, st |-> "none", attempt |-> 0, failures |-> 0, restarts |-> 0]
    BY DEF TypeOK, Unused
<1>2. sup' \in [Sups -> Supervisor] /\ \A t \in Sups : t # s => sup'[t] = sup[t]
    BY DEF TypeOK, Supervisor, Unused
<1>3. req' \in [Handlers -> Request] /\ \A q \in Handlers : q # r => req'[q] = req[q]
    BY DEF TypeOK, Request
<1>4. req'[r] = [op |-> op, pc |-> pc, name |-> n, new |-> s, old |-> None]
    BY DEF TypeOK
<1>5. \A q \in Handlers : req[q].new # s
    BY DEF Fresh
<1>6. RequestsOK'
    BY <1>3, <1>4 DEF RequestsOK
<1>7. SlotsOK'
    <2>1. \A q \in Handlers : q # r /\ req[q].new # None => req[q].new \in Sups
        BY DEF TypeOK, Request
    <2> QED
        BY <1>1, <1>2, <1>3, <1>4, <1>5, <2>1 DEF SlotsOK
<1>8. CountsOK'
    BY <1>1, <1>2 DEF CountsOK, Finished
<1> QED
    BY <1>2, <1>3, <1>6, <1>7, <1>8

LEMMA ReceiveBudget ==
    ASSUME BudgetInv, NEW r \in Requests, Receive(r)
    PROVE  BudgetInv'
<1>1. req[r].pc = "idle" /\ r \in Handlers
    BY DEF Receive, Handlers
<1>2. UNCHANGED <<serve, lock, toLaunch, starting, agents, permit, child, records>>
    BY DEF Receive
<1>3. PICK n \in Names, s \in {t \in Sups : Fresh(t)} :
        \/ \E op \in {"start", "restart", "launch"}, pc \in {"start", "signal", "build"} :
            /\ req' = [req EXCEPT ![r] = [op |-> op, pc |-> pc, name |-> n, new |-> s, old |-> None]]
            /\ sup' = [sup EXCEPT ![s] = [Unused EXCEPT !.name = n]]
        \/ /\ req' = [req EXCEPT ![r] =
                [op |-> "stop", pc |-> "signal", name |-> n, new |-> None, old |-> None]]
           /\ UNCHANGED sup
    BY DEF Receive
<1>4. CASE UNCHANGED sup /\ req' = [req EXCEPT ![r] =
            [op |-> "stop", pc |-> "signal", name |-> n, new |-> None, old |-> None]]
    BY <1>1, <1>2, <1>4 DEF BudgetInv, TypeOK, RequestsOK, SlotsOK, CountsOK, Request
<1>5. ASSUME NEW op \in {"start", "restart", "launch"}, NEW pc \in {"start", "signal", "build"},
             req' = [req EXCEPT ![r] = [op |-> op, pc |-> pc, name |-> n, new |-> s, old |-> None]],
             sup' = [sup EXCEPT ![s] = [Unused EXCEPT !.name = n]]
      PROVE  BudgetInv'
    <2>1. req' \in [Handlers -> Request] /\ sup' \in [Sups -> Supervisor]
          /\ RequestsOK' /\ SlotsOK' /\ CountsOK'
        BY <1>1, <1>3, <1>5, TakeSlotBudget
    <2> QED
        BY <1>2, <2>1 DEF BudgetInv, TypeOK
<1> QED
    BY <1>3, <1>4, <1>5

LEMMA LaunchNextBudget == BudgetInv /\ LaunchNext => BudgetInv'
<1> SUFFICES ASSUME BudgetInv, LaunchNext PROVE BudgetInv'
    OBVIOUS
<1>1. req[Launcher].pc = "idle" /\ Launcher \in Handlers
    BY DEF LaunchNext, Handlers
<1>2. PICK n \in toLaunch, s \in {t \in Sups : Fresh(t)} :
        /\ req' = [req EXCEPT ![Launcher] =
                [op |-> "launch", pc |-> "build", name |-> n, new |-> s, old |-> None]]
        /\ sup' = [sup EXCEPT ![s] = [Unused EXCEPT !.name = n]]
        /\ toLaunch' = toLaunch \ {n}
    BY DEF LaunchNext
<1>3. n \in Names
    BY DEF BudgetInv, TypeOK
<1>4. req' \in [Handlers -> Request] /\ sup' \in [Sups -> Supervisor]
      /\ RequestsOK' /\ SlotsOK' /\ CountsOK'
    BY <1>1, <1>2, <1>3, TakeSlotBudget
<1> QED
    BY <1>2, <1>4 DEF LaunchNext, BudgetInv, TypeOK

LEMMA SpawnBudget ==
    ASSUME BudgetInv, NEW r \in Handlers, Spawn(r)
    PROVE  BudgetInv'
<1> USE DEF BudgetInv
<1>1. req[r].op \in {"start", "restart", "launch"}
    BY DEF Spawn, TypeOK, RequestsOK, Request
<1> DEFINE s == req[r].new
<1>2. s \in Sups /\ s # None /\ sup[s].st = "none" /\ req[r].pc = "spawn"
    BY <1>1 DEF Spawn, RequestsOK, SlotsOK
<1>3. /\ req' \in [Handlers -> Request]
      /\ \A q \in Handlers : q # r => req'[q] = req[q]
      /\ req'[r] = [req[r] EXCEPT !.pc = "commit"]
    BY DEF Spawn, Goto, TypeOK, Request
<1>4. /\ sup' \in [Sups -> Supervisor]
      /\ \A t \in Sups : t # s => sup'[t] = sup[t]
      /\ sup'[s] = [sup[s] EXCEPT !.st = "running"]
    BY <1>2 DEF Spawn, Become, TypeOK, Supervisor
<1>5. TypeOK'
    BY <1>2, <1>3, <1>4 DEF Spawn, TypeOK
<1>6. RequestsOK'
    BY <1>1, <1>2, <1>3 DEF RequestsOK, TypeOK, Request
<1>7. SlotsOK'
    BY <1>2, <1>3, <1>4 DEF SlotsOK, TypeOK, Request
<1>8. CountsOK'
    BY <1>2, <1>4 DEF CountsOK, TypeOK, Supervisor, Finished
<1> QED
    BY <1>5, <1>6, <1>7, <1>8

\* A step of a supervisor leaves every slot alone that is still to be used.
LEMMA SupervisorBudget ==
    ASSUME BudgetInv, NEW s \in Sups, SupervisorStep(s)
    PROVE  BudgetInv'
<1> USE DEF BudgetInv
<1>1. /\ UNCHANGED <<serve, lock, toLaunch, starting, agents, req>>
      /\ sup[s].st \in {"running", "killing", "backoff", "sleeping", "registering",
                        "spawning", "dropping"}
    BY DEF SupervisorStep, SeesShutdown, KillProcessGroup, SeesExit, FirstPoll, StopsInBackoff,
        BackoffEnds, ReRegister, ReRegisterFails, Respawn, RespawnFails, DropRecord
<1>2. permit' \subseteq Sups /\ child' \in [Sups -> {"none", "alive", "dead"}] /\ records' \subseteq Sups
    BY DEF SupervisorStep, SeesShutdown, KillProcessGroup, SeesExit, FirstPoll, StopsInBackoff,
        BackoffEnds, ReRegister, ReRegisterFails, Respawn, RespawnFails, DropRecord, TypeOK, Registered
<1>3. sup[s] \in Supervisor /\ sup \in [Sups -> Supervisor]
    BY DEF TypeOK
<1>4. sup[s].attempt <= MaxAttempts /\ sup[s].failures <= MaxAttempts
    <2>1. sup[s].attempt <= MaxAttempts
        BY <1>1 DEF CountsOK, Finished
    <2>2. sup[s].attempt \in Nat /\ sup[s].failures \in Nat /\ sup[s].failures <= sup[s].attempt
        BY <1>3 DEF CountsOK, Supervisor
    <2> QED
        BY <2>1, <2>2
<1> DEFINE Between == {"backoff", "sleeping", "registering", "spawning", "dropping"}
<1>5. \/ \E st : /\ Become(s, st)
                 /\ \/ sup[s].st = "running" /\ st = "killing"
                    \/ sup[s].st \in Between /\ st \in Between
      \/ \E st \in {"stopped", "crashed"} : Return(s, st)
      \/ SeesExit(s)
      \/ Respawn(s)
    BY DEF SupervisorStep, SeesShutdown, KillProcessGroup, FirstPoll, StopsInBackoff,
        BackoffEnds, ReRegister, ReRegisterFails, RespawnFails, DropRecord
<1> DEFINE Counted ==
        /\ sup' \in [Sups -> Supervisor]
        /\ \A t \in Sups : t # s => sup'[t] = sup[t]
        /\ sup'[s].st # "none"
        /\ sup'[s].failures <= sup'[s].attempt
        /\ sup'[s].st \in {"running", "killing"} => sup'[s].attempt = sup'[s].restarts
        /\ sup'[s].st \in Between => sup'[s].attempt = sup'[s].restarts + 1
        /\ sup'[s].st \notin Finished => sup'[s].attempt <= MaxAttempts
        /\ sup'[s].st = "exhausted" =>
                sup'[s].attempt = MaxAttempts + 1 /\ sup'[s].restarts = MaxAttempts
<1>6. Counted
    <2>1. ASSUME NEW st, Become(s, st),
                 \/ sup[s].st = "running" /\ st = "killing"
                 \/ sup[s].st \in Between /\ st \in Between
          PROVE  Counted
        BY <1>3, <1>4, <2>1 DEF Become, Supervisor, CountsOK, Finished
    <2>2. ASSUME NEW st \in {"stopped", "crashed"}, Return(s, st)
          PROVE  Counted
        <3>1. sup'[s] = [name |-> sup[s].name, st |-> st, attempt |-> 0, failures |-> 0, restarts |-> 0]
            BY <1>3, <2>2 DEF Return, Unused
        <3>2. sup'[s] \in Supervisor
            BY <1>3, <3>1 DEF Supervisor, Finished
        <3>3. sup' \in [Sups -> Supervisor] /\ \A t \in Sups : t # s => sup'[t] = sup[t]
            BY <1>3, <2>2, <3>1, <3>2 DEF Return
        <3> QED
            BY <3>1, <3>3
    <2>3. CASE SeesExit(s)
        <3>1. PICK ranStable \in BOOLEAN :
                sup' = [sup EXCEPT
                    ![s].attempt  = NextAttempt(s, ranStable),
                    ![s].st       = IF Exhausted(NextAttempt(s, ranStable))
                                    THEN "exhausted" ELSE "backoff",
                    ![s].failures = IF ranStable THEN 0 ELSE @ + 1,
                    ![s].restarts = IF ranStable THEN 0 ELSE @]
            BY <2>3 DEF SeesExit
        <3>2. /\ sup[s].attempt \in Nat /\ sup[s].failures \in Nat /\ sup[s].restarts \in 0 .. MaxAttempts
              /\ sup[s].attempt = sup[s].restarts
            BY <1>3, <2>3 DEF Supervisor, CountsOK, SeesExit
        <3>3. /\ sup'[s].attempt = NextAttempt(s, ranStable)
              /\ sup'[s].failures = IF ranStable THEN 0 ELSE sup[s].failures + 1
              /\ sup'[s].restarts = IF ranStable THEN 0 ELSE sup[s].restarts
              /\ sup'[s].st = IF Exhausted(NextAttempt(s, ranStable)) THEN "exhausted" ELSE "backoff"
              /\ \A t \in Sups : t # s => sup'[t] = sup[t]
            BY <1>3, <3>1 DEF Supervisor
        <3>4. NextAttempt(s, ranStable) \in 0 .. MaxAttempts + 1
            BY <1>4, <3>2 DEF NextAttempt
        <3>5. (IF ranStable THEN 0 ELSE sup[s].failures + 1) \in 0 .. MaxAttempts + 1
            BY <1>4, <3>2
        <3>6. sup' \in [Sups -> Supervisor]
            <4>1. (IF ranStable THEN 0 ELSE sup[s].restarts) \in 0 .. MaxAttempts
                BY <3>2
            <4>2. sup'[s] = [name |-> sup[s].name, st |-> sup'[s].st, attempt |-> sup'[s].attempt,
                             failures |-> sup'[s].failures, restarts |-> sup'[s].restarts]
                BY <1>3, <3>1 DEF Supervisor
            <4>3. sup[s].name \in Names \cup {None}
                BY <1>3 DEF Supervisor
            <4>4. sup'[s] \in Supervisor
                BY <3>3, <3>4, <3>5, <4>1, <4>2, <4>3 DEF Supervisor, Finished
            <4> QED
                BY <1>3, <3>1, <4>4
        <3>7. sup'[s].failures <= sup'[s].attempt /\ sup'[s].attempt = sup'[s].restarts + 1
            BY <3>2, <3>3 DEF NextAttempt, CountsOK
        <3>8. sup'[s].st = "exhausted" =>
                    sup'[s].attempt = MaxAttempts + 1 /\ sup'[s].restarts = MaxAttempts
            BY <1>4, <3>2, <3>3, <3>4, <3>7 DEF Exhausted
        <3>9. sup'[s].st \notin Finished => sup'[s].attempt <= MaxAttempts
            BY <3>3, <3>4 DEF Exhausted, Finished
        <3>10. sup'[s].st \in {"exhausted", "backoff"}
            BY <3>3
        <3> QED
            BY <3>3, <3>6, <3>7, <3>8, <3>9, <3>10
    <2>4. CASE Respawn(s)
        <3>1. sup' = [sup EXCEPT ![s].st = "running", ![s].restarts = @ + 1] /\ sup[s].st = "spawning"
            BY <2>4 DEF Respawn
        <3>2. /\ sup[s].restarts \in Nat /\ sup[s].attempt = sup[s].restarts + 1
              /\ sup[s].failures <= sup[s].attempt /\ sup[s].attempt \in Nat
            BY <1>3, <3>1 DEF CountsOK, Supervisor
        <3>3. /\ sup'[s] = [sup[s] EXCEPT !.st = "running", !.restarts = @ + 1]
              /\ \A t \in Sups : t # s => sup'[t] = sup[t]
            BY <1>3, <3>1
        <3>4. sup[s].restarts + 1 \in 0 .. MaxAttempts
            BY <1>4, <3>2
        <3>5. /\ sup'[s] \in Supervisor /\ sup'[s].st = "running"
              /\ sup'[s].restarts = sup[s].restarts + 1
              /\ sup'[s].attempt = sup[s].attempt /\ sup'[s].failures = sup[s].failures
            BY <1>3, <3>3, <3>4 DEF Supervisor
        <3>6. sup' \in [Sups -> Supervisor]
            BY <1>3, <3>1, <3>5
        <3> QED
            BY <1>4, <3>2, <3>3, <3>5, <3>6
    <2> QED
        BY <1>5, <2>1, <2>2, <2>3, <2>4
<1>7. TypeOK'
    BY <1>1, <1>2, <1>6 DEF TypeOK
<1>8. RequestsOK'
    BY <1>1 DEF RequestsOK
<1>9. SlotsOK'
    BY <1>1, <1>6 DEF SlotsOK, TypeOK, Request
<1>10. CountsOK'
    BY <1>6 DEF CountsOK
<1> QED
    BY <1>7, <1>8, <1>9, <1>10

\* What is left changes neither a request nor a supervisor.
LEMMA OtherBudget ==
    ASSUME BudgetInv, UNCHANGED <<sup, req>>,
           \/ \E s \in Sups : ChildDies(s) \/ Expire(s)
           \/ BeginLaunch \/ LaunchFails \/ EndLaunch \/ EndShutdown \/ Exit
           \/ BeginShutdown \/ AcceptFails \/ EarlySignal \/ UNCHANGED vars
    PROVE  BudgetInv'
<1>1. TypeOK'
    BY DEF BudgetInv, TypeOK, ChildDies, Expire, BeginLaunch, LaunchFails, EndLaunch, EndShutdown,
        Exit, BeginShutdown, AcceptFails, EarlySignal, vars, ToSignal
<1> QED
    BY <1>1 DEF BudgetInv, RequestsOK, SlotsOK, CountsOK

LEMMA StepBudget == BudgetInv /\ [Next]_vars => BudgetInv'
<1> SUFFICES ASSUME BudgetInv, [Next]_vars PROVE BudgetInv'
    OBVIOUS
<1>1. ASSUME NEW r \in Requests, Receive(r) \/ Dropped(r) PROVE BudgetInv'
    <2>1. CASE Dropped(r)
        <3>1. UNCHANGED sup /\ r \in Handlers
            BY <2>1 DEF Dropped, Handlers
        <3> QED
            BY <2>1, <3>1, RequestBudget
    <2> QED
        BY <1>1, <2>1, ReceiveBudget
<1>2. ASSUME NEW r \in Handlers, HandlerStep(r) PROVE BudgetInv'
    <2>1. CASE Spawn(r)
        BY <2>1, SpawnBudget
    <2>2. CASE ~ Spawn(r)
        <3>1. UNCHANGED sup
            BY <1>2, <2>2 DEF HandlerStep, Signal, Awaited, CheckCanStart, PreRegister, PromptFails,
                SpawnFails, CleanUp, RegisterPending, CancelStart
        <3> QED
            BY <1>2, <2>2, <3>1, RequestBudget DEF HandlerStep
    <2> QED
        BY <2>1, <2>2
<1>3. ASSUME NEW s \in Sups, ChildDies(s) \/ Expire(s) PROVE BudgetInv'
    <2>1. UNCHANGED <<sup, req>>
        BY <1>3 DEF ChildDies, Expire
    <2> QED
        BY <1>3, <2>1, OtherBudget
<1>4. CASE BeginLaunch \/ LaunchFails \/ EndLaunch \/ EndShutdown \/ Exit
           \/ BeginShutdown \/ AcceptFails \/ EarlySignal \/ UNCHANGED vars
    <2>1. UNCHANGED <<sup, req>>
        BY <1>4 DEF BeginLaunch, LaunchFails, EndLaunch, EndShutdown, Exit, BeginShutdown,
            AcceptFails, EarlySignal, vars
    <2> QED
        BY <1>4, <2>1, OtherBudget
<1> QED
    BY <1>1, <1>2, <1>3, <1>4, LaunchNextBudget, SupervisorBudget DEF Next, ServeStep, Gone

LEMMA BudgetInvariance == Spec => []BudgetInv
BY InitBudget, StepBudget, PTL DEF Spec

\* Every variable keeps its type, whatever requests, children and the serve
\* task do.
THEOREM TypeCorrect == Spec => []TypeOK
<1>1. BudgetInv => TypeOK
    BY DEF BudgetInv
<1> QED
    BY <1>1, BudgetInvariance, PTL

\* However starts, exits, stable runs and stops interleave, an agent is restarted
\* MAX_RESTART_ATTEMPTS times in a row before it is given up, neither more nor less.
THEOREM RestartBudgetHolds == Spec => []RestartBudget
<1>1. BudgetInv => RestartBudget
    <2> SUFFICES ASSUME BudgetInv, NEW s \in Sups
                 PROVE  /\ sup[s].st \notin Finished => sup[s].restarts <= MaxAttempts
                        /\ sup[s].st = "exhausted" => sup[s].restarts = MaxAttempts
        BY DEF RestartBudget
    <2>1. sup[s].restarts \in 0 .. MaxAttempts
        BY DEF BudgetInv, TypeOK, Supervisor
    <2> QED
        BY <2>1 DEF BudgetInv, CountsOK
<1> QED
    BY <1>1, BudgetInvariance, PTL

-----------------------------------------------------------------------------
(* What holds when requests come over the socket only, which is served once  *)
(* the agents are launched and whose handlers are never dropped.           *)

NoneDropped == Droppable = {}

\* Requests are served after the launch only, and the launcher only launches.
PhasesOK ==
    /\ serve \in {"boot", "launching"} =>
        starting = {} /\ \A r \in Requests : req[r].pc = "idle"
    /\ serve \notin {"launching", "exited"} => req[Launcher].pc = "idle"
    /\ req[Launcher].op \in {"none", "launch"}
    /\ \A r \in Requests : req[r].op # "launch"
    /\ req[Launcher].pc \in InBuild \cup {"idle"}

\* The slot of a request bears the name it was asked for.
NamesOK == \A r \in Handlers : req[r].new # None => sup[req[r].new].name = req[r].name

\* How the steps of the handlers move the place where a handler is.
LEMMA HandlerMoves ==
    ASSUME BudgetInv, PhasesOK, NEW r \in Handlers, HandlerStep(r)
    PROVE  /\ serve # "exited" /\ req[r].pc # "idle" /\ UNCHANGED <<serve, toLaunch>>
           /\ \A q \in Handlers : q # r => req'[q] = req[q]
           /\ \/ req'[r] = Idle
              \/ /\ req'[r].pc \in {"await", "start", "build", "spawn", "cleanup", "cancel", "commit"}
                 /\ req'[r].op = req[r].op /\ req'[r].name = req[r].name /\ req'[r].new = req[r].new
                 /\ req[r].pc \in InBuild => req'[r].pc \in InBuild
           /\ UNCHANGED starting \/ r \in Requests \/ starting' \subseteq starting
<1>1. req \in [Handlers -> Request] /\ Launcher \in Handlers
    BY DEF BudgetInv, TypeOK, Handlers
<1>2. CASE Signal(r)
    BY <1>1, <1>2 DEF Signal, SignalStop, Goto, Answer, Request, InBuild
<1>3. CASE Awaited(r) \/ PreRegister(r) \/ PromptFails(r)
    BY <1>1, <1>3 DEF Awaited, PreRegister, PromptFails, Goto, Answer, Request, InBuild
<1>4. CASE CheckCanStart(r)
    <2>1. r \in Requests \/ req[r].pc # "start"
        BY DEF PhasesOK, InBuild, Handlers
    <2> QED
        BY <1>1, <1>4, <2>1 DEF CheckCanStart, Goto, Answer, Request, InBuild
<1>5. CASE Spawn(r) \/ SpawnFails(r) \/ CleanUp(r)
    BY <1>1, <1>5 DEF Spawn, SpawnFails, CleanUp, Goto, Request, InBuild
<1>6. CASE RegisterPending(r) \/ CancelStart(r)
    BY <1>1, <1>6 DEF RegisterPending, CancelStart, Answer, InBuild
<1> QED
    BY <1>2, <1>3, <1>4, <1>5, <1>6 DEF HandlerStep

\* Of the handlers' steps only a spawn concerns a supervisor.
LEMMA HandlerSups ==
    ASSUME BudgetInv, NEW r \in Handlers, HandlerStep(r)
    PROVE  /\ \A s \in Sups : sup'[s].name = sup[s].name
           /\ UNCHANGED <<sup, child>> \/ Spawn(r)
<1>1. CASE Spawn(r)
    BY <1>1 DEF Spawn, Become, BudgetInv, TypeOK, Supervisor
<1>2. CASE ~ Spawn(r)
    BY <1>2 DEF HandlerStep, Signal, Awaited, CheckCanStart, PreRegister, PromptFails,
        SpawnFails, CleanUp, RegisterPending, CancelStart
<1> QED
    BY <1>1, <1>2

LEMMA ReturnMeans ==
    ASSUME BudgetInv, NEW s \in Sups, NEW st, Return(s, st)
    PROVE  sup'[s] = [name |-> sup[s].name, st |-> st, attempt |-> 0, failures |-> 0, restarts |-> 0]
BY DEF Return, Unused, BudgetInv, TypeOK

LEMMA ReturnEnds ==
    ASSUME BudgetInv, NEW s \in Sups,
           \/ KillProcessGroup(s) \/ StopsInBackoff(s) \/ ReRegisterFails(s) \/ DropRecord(s)
           \/ FirstPoll(s) /\ s \in permit
    PROVE  sup'[s].st \in {"stopped", "crashed"}
<1>1. Return(s, "stopped") \/ Return(s, "crashed")
    BY DEF KillProcessGroup, StopsInBackoff, ReRegisterFails, DropRecord, FirstPoll
<1>2. ASSUME NEW st, Return(s, st) PROVE sup'[s].st = st
    <2>1. sup'[s] = [name |-> sup[s].name, st |-> st, attempt |-> 0, failures |-> 0, restarts |-> 0]
        BY <1>2, ReturnMeans
    <2> QED
        BY <2>1
<1> QED
    BY <1>1, <1>2

LEMMA BecomeMeans ==
    ASSUME BudgetInv, NEW s \in Sups, NEW st, Become(s, st)
    PROVE  sup'[s].st = st /\ sup'[s].name = sup[s].name
BY DEF Become, BudgetInv, TypeOK, Supervisor

LEMMA RespawnMeans ==
    ASSUME BudgetInv, NEW s \in Sups, Respawn(s)
    PROVE  sup'[s].st = "running" /\ sup'[s].name = sup[s].name
BY DEF Respawn, BudgetInv, TypeOK, Supervisor

\* A step of a supervisor is on its own slot, and keeps its name.
LEMMA SupervisorMoves ==
    ASSUME BudgetInv, NEW s \in Sups, SupervisorStep(s)
    PROVE  /\ UNCHANGED <<serve, lock, toLaunch, starting, agents, req>>
           /\ serve # "exited"
           /\ \A t \in Sups : t # s => sup'[t] = sup[t]
           /\ sup'[s].name = sup[s].name
           /\ sup[s].st \notin Finished \cup {"none"} /\ sup'[s].st # "none"
<1>1. UNCHANGED <<serve, lock, toLaunch, starting, agents, req>> /\ serve # "exited"
      /\ sup[s].st \notin Finished \cup {"none"}
    BY DEF SupervisorStep, SeesShutdown, KillProcessGroup, SeesExit, FirstPoll, StopsInBackoff,
        BackoffEnds, ReRegister, ReRegisterFails, Respawn, RespawnFails, DropRecord, Finished
<1>2. sup \in [Sups -> Supervisor]
    BY DEF BudgetInv, TypeOK
<1>3. ASSUME NEW st \in {"running", "killing", "backoff", "sleeping", "registering",
                         "spawning", "dropping"}, Become(s, st)
      PROVE  /\ \A t \in Sups : t # s => sup'[t] = sup[t]
             /\ sup'[s].name = sup[s].name /\ sup'[s].st # "none"
    BY <1>2, <1>3 DEF Become, Supervisor
<1>4. ASSUME NEW st \in {"stopped", "crashed"}, Return(s, st)
      PROVE  /\ \A t \in Sups : t # s => sup'[t] = sup[t]
             /\ sup'[s].name = sup[s].name /\ sup'[s].st # "none"
    BY <1>2, <1>4 DEF Return, Unused, Supervisor
<1>5. CASE SeesExit(s)
    <2>1. PICK ranStable \in BOOLEAN :
            sup' = [sup EXCEPT
                ![s].attempt  = NextAttempt(s, ranStable),
                ![s].st       = IF Exhausted(NextAttempt(s, ranStable)) THEN "exhausted" ELSE "backoff",
                ![s].failures = IF ranStable THEN 0 ELSE @ + 1,
                ![s].restarts = IF ranStable THEN 0 ELSE @]
        BY <1>5 DEF SeesExit
    <2>2. /\ \A t \in Sups : t # s => sup'[t] = sup[t]
          /\ sup'[s].name = sup[s].name /\ sup'[s].st # "none"
        BY <1>2, <2>1 DEF Supervisor
    <2> QED
        BY <1>1, <2>2
<1>6. CASE Respawn(s)
    <2>1. sup' = [sup EXCEPT ![s].st = "running", ![s].restarts = @ + 1]
        BY <1>6 DEF Respawn
    <2>2. /\ \A t \in Sups : t # s => sup'[t] = sup[t]
          /\ sup'[s].name = sup[s].name /\ sup'[s].st # "none"
        BY <1>2, <2>1 DEF Supervisor
    <2> QED
        BY <1>1, <2>2
<1>7. CASE ~ SeesExit(s) /\ ~ Respawn(s)
    <2>1. \/ \E st \in {"running", "killing", "backoff", "sleeping", "registering",
                         "spawning", "dropping"} : Become(s, st)
          \/ \E st \in {"stopped", "crashed"} : Return(s, st)
        BY <1>7 DEF SupervisorStep, SeesShutdown, KillProcessGroup, FirstPoll, StopsInBackoff,
            BackoffEnds, ReRegister, ReRegisterFails, RespawnFails, DropRecord
    <2> QED
        BY <1>1, <1>3, <1>4, <2>1
<1> QED
    BY <1>5, <1>6, <1>7

LEMMA PhasesStep == NoneDropped /\ BudgetInv /\ PhasesOK /\ [Next]_vars => PhasesOK'
<1> SUFFICES ASSUME NoneDropped, BudgetInv, PhasesOK, [Next]_vars PROVE PhasesOK'
    OBVIOUS
<1> USE DEF PhasesOK
<1>1. ASSUME NEW r \in Requests, Receive(r) PROVE PhasesOK'
    BY <1>1 DEF Receive, NoneDropped, BudgetInv, TypeOK, Handlers
<1>2. ASSUME NEW r \in Handlers, HandlerStep(r) PROVE PhasesOK'
    BY <1>2, HandlerMoves DEF Handlers, Idle, InBuild
<1>3. ASSUME NEW s \in Sups, ChildDies(s) \/ SupervisorStep(s) \/ Expire(s) PROVE PhasesOK'
    BY <1>3, SupervisorMoves DEF ChildDies, Expire
<1>4. CASE LaunchNext
    BY <1>4 DEF LaunchNext, BudgetInv, TypeOK, Handlers, InBuild
<1>5. CASE BeginLaunch \/ LaunchFails \/ EndLaunch \/ EndShutdown \/ Exit
           \/ BeginShutdown \/ AcceptFails \/ EarlySignal \/ UNCHANGED vars
    BY <1>5 DEF BeginLaunch, LaunchFails, EndLaunch, EndShutdown, Exit, BeginShutdown, AcceptFails,
        EarlySignal, vars
<1>6. ~ \E r \in Requests : Dropped(r)
    BY DEF Dropped, NoneDropped
<1> QED
    BY <1>1, <1>2, <1>3, <1>4, <1>5, <1>6 DEF Next, ServeStep, Gone

LEMMA NamesStep == NoneDropped /\ BudgetInv /\ PhasesOK /\ NamesOK /\ [Next]_vars => NamesOK'
<1> SUFFICES ASSUME NoneDropped, BudgetInv, PhasesOK, NamesOK, [Next]_vars PROVE NamesOK'
    OBVIOUS
<1> USE DEF NamesOK
<1>0. \A r \in Handlers : req[r].new # None => req[r].new \in Sups
    BY DEF BudgetInv, TypeOK, Request
<1>1. ASSUME NEW r \in Handlers, NEW n, NEW s \in Sups, Fresh(s), NEW op, NEW pc,
             req' = [req EXCEPT ![r] = [op |-> op, pc |-> pc, name |-> n, new |-> s, old |-> None]],
             sup' = [sup EXCEPT ![s] = [Unused EXCEPT !.name = n]]
      PROVE  NamesOK'
    BY <1>0, <1>1 DEF Fresh, Unused, BudgetInv, TypeOK
<1>2. ASSUME NEW r \in Requests, Receive(r) PROVE NamesOK'
    <2>1. r \in Handlers
        BY DEF Handlers
    <2>2. ASSUME NEW n \in Names, UNCHANGED sup, req' = [req EXCEPT ![r] =
                [op |-> "stop", pc |-> "signal", name |-> n, new |-> None, old |-> None]]
          PROVE  NamesOK'
        BY <2>1, <2>2 DEF BudgetInv, TypeOK
    <2> QED
        BY <1>1, <1>2, <2>1, <2>2 DEF Receive
<1>3. CASE LaunchNext
    <2>1. Launcher \in Handlers
        BY DEF Handlers
    <2>2. PICK n \in toLaunch, s \in {t \in Sups : Fresh(t)} :
            /\ req' = [req EXCEPT ![Launcher] =
                    [op |-> "launch", pc |-> "build", name |-> n, new |-> s, old |-> None]]
            /\ sup' = [sup EXCEPT ![s] = [Unused EXCEPT !.name = n]]
        BY <1>3 DEF LaunchNext
    <2> QED
        BY <1>1, <2>1, <2>2
<1>4. ASSUME NEW r \in Handlers, HandlerStep(r) PROVE NamesOK'
    <2>1. \A s \in Sups : sup'[s].name = sup[s].name
        BY <1>4, HandlerSups
    <2> QED
        BY <1>0, <1>4, <2>1, HandlerMoves DEF Idle
<1>5. ASSUME NEW s \in Sups, SupervisorStep(s) PROVE NamesOK'
    BY <1>0, <1>5, SupervisorMoves
<1>6. CASE UNCHANGED <<sup, req>>
    BY <1>6
<1>7. ~ \E r \in Requests : Dropped(r)
    BY DEF Dropped, NoneDropped
<1> QED
    BY <1>2, <1>3, <1>4, <1>5, <1>6, <1>7 DEF Next, ServeStep, Gone, ChildDies, Expire, BeginLaunch, LaunchFails, EndLaunch,
        EndShutdown, Exit, BeginShutdown, AcceptFails, EarlySignal, vars

\* How a reservation moves: taken by the request that goes on to build, and
\* given back by the one that ends.
LEMMA StartingMoves ==
    ASSUME BudgetInv, PhasesOK, NEW r \in Handlers, HandlerStep(r)
    PROVE  \/ /\ UNCHANGED starting
              /\ req[r].pc \in InBuild <=> req'[r].pc \in InBuild
           \/ /\ r \in Requests /\ req[r].name \notin starting
              /\ starting' = starting \cup {req[r].name}
              /\ req[r].pc \notin InBuild /\ req'[r].pc \in InBuild /\ req'[r].name = req[r].name
           \/ /\ starting' = starting \ {req[r].name}
              /\ req[r].pc \in InBuild /\ req'[r] = Idle
<1>1. req \in [Handlers -> Request] /\ Launcher \in Handlers
    BY DEF BudgetInv, TypeOK, Handlers
<1>2. CASE Signal(r)
    BY <1>1, <1>2 DEF Signal, SignalStop, Goto, Answer, Request, InBuild, Idle
<1>3. CASE Awaited(r) \/ PreRegister(r) \/ PromptFails(r)
    BY <1>1, <1>3 DEF Awaited, PreRegister, PromptFails, Goto, Answer, Request, InBuild, Idle
<1>4. CASE CheckCanStart(r)
    <2>1. r \in Requests \/ req[r].pc # "start"
        BY DEF PhasesOK, InBuild, Handlers
    <2> QED
        BY <1>1, <1>4, <2>1 DEF CheckCanStart, Startable, Goto, Answer, Request, InBuild, Idle
<1>5. CASE Spawn(r) \/ SpawnFails(r) \/ CleanUp(r)
    BY <1>1, <1>5 DEF Spawn, SpawnFails, CleanUp, Goto, Request, InBuild
<1>6. CASE RegisterPending(r) \/ CancelStart(r)
    BY <1>1, <1>6 DEF RegisterPending, CancelStart, Answer, InBuild
<1> QED
    BY <1>2, <1>3, <1>4, <1>5, <1>6 DEF HandlerStep

\* Steps of the other actors take no reservation and begin no build of a request.
LEMMA OthersStart ==
    ASSUME NoneDropped, BudgetInv, [Next]_vars, ~ \E r \in Handlers : HandlerStep(r)
    PROVE  /\ UNCHANGED starting
           /\ \A r \in Requests :
                \/ req'[r] = req[r]
                \/ req[r].pc = "idle" /\ req'[r].pc \in {"start", "signal"}
<1> USE DEF BudgetInv, TypeOK, Handlers
<1>1. ASSUME NEW q \in Requests, Receive(q), NEW r \in Requests
      PROVE  \/ req'[r] = req[r]
             \/ req[r].pc = "idle" /\ req'[r].pc \in {"start", "signal"}
    BY <1>1 DEF Receive
<1>2. CASE LaunchNext
    BY <1>2 DEF LaunchNext
<1>3. ASSUME NEW q \in Requests, Receive(q) PROVE UNCHANGED starting
    BY <1>3 DEF Receive
<1>4. ~ \E r \in Requests : Dropped(r)
    BY DEF Dropped, NoneDropped
<1>5. CASE UNCHANGED <<starting, req>>
    BY <1>5
<1> QED
    BY <1>1, <1>2, <1>3, <1>4, <1>5, SupervisorMoves DEF Next, ServeStep, Gone, ChildDies, Expire,
        BeginLaunch, LaunchFails, EndLaunch, EndShutdown, Exit, BeginShutdown, AcceptFails, EarlySignal, vars

\* ReservationOwned, without its LET.
OwnedOK ==
    /\ \A n \in starting : \E r \in Requests : req[r].pc \in InBuild /\ req[r].name = n
    /\ \A r \in Requests : req[r].pc \in InBuild => req[r].name \in starting
    /\ \A r, q \in Requests :
        req[r].pc \in InBuild /\ req[q].pc \in InBuild /\ req[r].name = req[q].name => r = q

LEMMA OwnedStep == NoneDropped /\ BudgetInv /\ PhasesOK /\ OwnedOK /\ [Next]_vars => OwnedOK'
<1> SUFFICES ASSUME NoneDropped, BudgetInv, PhasesOK, OwnedOK, [Next]_vars PROVE OwnedOK'
    OBVIOUS
<1>1. CASE ~ \E r \in Handlers : HandlerStep(r)
    BY <1>1, OthersStart DEF OwnedOK, InBuild
<1>2. ASSUME NEW r \in Requests, HandlerStep(r) PROVE OwnedOK'
    <2>1. r \in Handlers /\ \A q \in Requests : q # r => req'[q] = req[q]
        BY <1>2, HandlerMoves DEF Handlers
    <2>2. CASE UNCHANGED starting /\ req'[r].pc \in InBuild /\ req[r].pc \in InBuild
        <3>1. req'[r].name = req[r].name
            BY <1>2, <2>1, <2>2, HandlerMoves DEF Idle, InBuild
        <3> QED
            BY <2>1, <2>2, <3>1 DEF OwnedOK
    <2>3. CASE UNCHANGED starting /\ req'[r].pc \notin InBuild /\ req[r].pc \notin InBuild
        BY <2>1, <2>3 DEF OwnedOK
    <2>4. CASE /\ r \in Requests /\ req[r].name \notin starting
               /\ starting' = starting \cup {req[r].name}
               /\ req[r].pc \notin InBuild /\ req'[r].pc \in InBuild /\ req'[r].name = req[r].name
        BY <2>1, <2>4 DEF OwnedOK
    <2>5. CASE starting' = starting \ {req[r].name} /\ req[r].pc \in InBuild /\ req'[r] = Idle
        <3>1. req'[r].pc \notin InBuild
            BY <2>5 DEF Idle, InBuild
        <3> QED
            BY <2>1, <2>5, <3>1 DEF OwnedOK
    <2> QED
        BY <1>2, <2>1, <2>2, <2>3, <2>4, <2>5, StartingMoves
<1>3. CASE HandlerStep(Launcher)
    <2>1. Launcher \in Handlers /\ Launcher \notin Requests /\ Requests \subseteq Handlers
        BY DEF Handlers
    <2>2. \A q \in Requests : req'[q] = req[q]
        BY <1>3, <2>1, HandlerMoves
    <2>3. req[Launcher].pc # "idle" /\ serve # "exited"
        BY <1>3, <2>1, HandlerMoves
    <2>4. serve \in {"boot", "launching"} /\ starting = {}
        BY <2>3 DEF PhasesOK
    <2>5. starting' = {}
        BY <1>3, <2>1, <2>4, StartingMoves
    <2> QED
        BY <2>2, <2>4, <2>5 DEF OwnedOK
<1> QED
    BY <1>1, <1>2, <1>3 DEF Handlers

\* Names are tracked once, not while they are reserved, and not while their
\* launch is still to come.
ExclusionOK ==
    /\ \A s, t \in agents : sup[s].name = sup[t].name => s = t
    /\ \A s \in agents : sup[s].name \notin starting
    /\ serve \in {"boot", "launching"} =>
        /\ \A s \in agents :
            /\ sup[s].name \notin toLaunch
            /\ req[Launcher].pc # "idle" => sup[s].name # req[Launcher].name
        /\ req[Launcher].pc # "idle" => req[Launcher].name \notin toLaunch

LifeInv1 == BudgetInv /\ PhasesOK /\ NamesOK /\ OwnedOK

LEMMA ExclusionHandler ==
    ASSUME LifeInv1, ExclusionOK, NEW r \in Handlers, HandlerStep(r)
    PROVE  ExclusionOK'
<1> USE DEF LifeInv1
<1>1. /\ serve # "exited" /\ req[r].pc # "idle" /\ UNCHANGED <<serve, toLaunch>>
      /\ \A q \in Handlers : q # r => req'[q] = req[q]
      /\ req'[r] = Idle \/ req'[r].name = req[r].name
    BY HandlerMoves
<1>2. agents \subseteq Sups /\ \A s \in Sups : sup'[s].name = sup[s].name
    BY HandlerSups DEF BudgetInv, TypeOK
<1>3. serve \in {"boot", "launching"} => r = Launcher /\ starting = {}
    BY <1>1 DEF PhasesOK, Handlers
<1>4. Launcher \in Handlers /\ (r = Launcher \/ r \in Requests)
    BY DEF Handlers
<1>5. CASE RegisterPending(r)
    <2> DEFINE s == req[r].new
    <2>1. /\ agents' = agents \cup {s} /\ starting' = starting \ {req[r].name}
          /\ req[r].pc = "commit" /\ req'[r] = Idle
        BY <1>5 DEF RegisterPending, Answer, BudgetInv, TypeOK
    <2>2. s \in Sups /\ s # None
        BY <2>1 DEF BudgetInv, TypeOK, RequestsOK, Request
    <2>3. sup[s].name = req[r].name
        BY <2>2 DEF NamesOK
    <2>4. \A t \in agents : sup[t].name # req[r].name
        <3>1. CASE r \in Requests
            BY <2>1, <3>1 DEF OwnedOK, ExclusionOK, InBuild
        <3>2. CASE r = Launcher
            <4>1. serve \in {"boot", "launching"}
                BY <1>1, <3>2 DEF PhasesOK
            <4> QED
                BY <1>1, <3>2, <4>1 DEF ExclusionOK
        <3> QED
            BY <1>4, <3>1, <3>2
    <2>5. \A u, t \in agents' : sup'[u].name = sup'[t].name => u = t
        BY <1>2, <2>1, <2>2, <2>3, <2>4 DEF ExclusionOK
    <2>6. \A t \in agents' : sup'[t].name \notin starting'
        BY <1>2, <2>1, <2>2, <2>3 DEF ExclusionOK
    <2>7. ASSUME serve \in {"boot", "launching"}
          PROVE  \A t \in agents' : sup'[t].name \notin toLaunch'
        BY <1>1, <1>2, <1>3, <2>1, <2>2, <2>3, <2>7 DEF ExclusionOK
    <2>8. serve \in {"boot", "launching"} => req'[Launcher].pc = "idle"
        BY <1>3, <2>1 DEF Idle
    <2> QED
        BY <1>1, <2>5, <2>6, <2>7, <2>8 DEF ExclusionOK
<1>6. CASE ~ RegisterPending(r)
    <2>1. agents' \subseteq agents
        BY <1>6 DEF HandlerStep, Signal, SignalStop, Awaited, CheckCanStart, PreRegister, PromptFails,
            Spawn, SpawnFails, CleanUp, CancelStart
    <2>2. \A s \in agents' : sup'[s].name = sup[s].name /\ sup'[s].name \notin starting'
        <3>1. CASE CheckCanStart(r)
            <4>1. agents' = {s \in agents : ~ IsFinished(s)}
                BY <3>1 DEF CheckCanStart
            <4>2. UNCHANGED starting \/ /\ starting' = starting \cup {req[r].name}
                                        /\ \A s \in agents' : sup[s].name # req[r].name
                BY <3>1 DEF CheckCanStart, Startable
            <4> QED
                BY <1>2, <2>1, <4>2 DEF ExclusionOK
        <3>2. CASE ~ CheckCanStart(r)
            <4>1. starting' \subseteq starting
                BY <1>6, <3>2 DEF HandlerStep, Signal, Awaited, PreRegister, PromptFails,
                    Spawn, SpawnFails, CleanUp, CancelStart
            <4> QED
                BY <1>2, <2>1, <4>1 DEF ExclusionOK
        <3> QED
            BY <3>1, <3>2
    <2>3. \A s, t \in agents' : sup'[s].name = sup'[t].name => s = t
        BY <2>1, <2>2 DEF ExclusionOK
    <2>4. ASSUME serve \in {"boot", "launching"}, req'[Launcher].pc # "idle"
          PROVE  req'[Launcher].name = req[Launcher].name /\ req[Launcher].pc # "idle"
        BY <1>1, <1>3, <2>4 DEF Idle
    <2> QED
        BY <1>1, <2>1, <2>2, <2>3, <2>4 DEF ExclusionOK
<1> QED
    BY <1>5, <1>6

LEMMA ExclusionStep == NoneDropped /\ LifeInv1 /\ ExclusionOK /\ [Next]_vars => ExclusionOK'
<1> SUFFICES ASSUME NoneDropped, LifeInv1, ExclusionOK, [Next]_vars PROVE ExclusionOK'
    OBVIOUS
<1>0. agents \subseteq Sups /\ sup \in [Sups -> Supervisor] /\ req \in [Handlers -> Request]
      /\ Launcher \in Handlers
    BY DEF LifeInv1, BudgetInv, TypeOK, Handlers
<1>1. ASSUME NEW r \in Requests, Receive(r) PROVE ExclusionOK'
    <2>1. UNCHANGED <<serve, toLaunch, starting, agents>> /\ req'[Launcher] = req[Launcher]
        BY <1>0, <1>1 DEF Receive
    <2>2. \A s \in agents : sup'[s] = sup[s]
        BY <1>0, <1>1 DEF Receive, Fresh
    <2> QED
        BY <2>1, <2>2 DEF ExclusionOK
<1>2. CASE LaunchNext
    <2>1. PICK n \in toLaunch, s \in {t \in Sups : Fresh(t)} :
            /\ req' = [req EXCEPT ![Launcher] =
                    [op |-> "launch", pc |-> "build", name |-> n, new |-> s, old |-> None]]
            /\ sup' = [sup EXCEPT ![s] = [Unused EXCEPT !.name = n]]
            /\ toLaunch' = toLaunch \ {n}
        BY <1>2 DEF LaunchNext
    <2>2. UNCHANGED <<serve, starting, agents>> /\ serve = "launching"
        BY <1>2 DEF LaunchNext
    <2>3. \A t \in agents : sup'[t] = sup[t]
        BY <1>0, <2>1 DEF Fresh
    <2>4. req'[Launcher].name = n /\ n \notin toLaunch' /\ toLaunch' \subseteq toLaunch
        BY <1>0, <2>1
    <2>5. \A t \in agents : sup[t].name \notin toLaunch /\ sup[t].name # n
        BY <2>2 DEF ExclusionOK
    <2>6. \A t \in agents : sup'[t].name \notin toLaunch' /\ sup'[t].name # req'[Launcher].name
        BY <2>3, <2>4, <2>5
    <2>7. \A t, u \in agents : sup'[u].name = sup'[t].name => u = t
        BY <2>3 DEF ExclusionOK
    <2>8. \A t \in agents : sup'[t].name \notin starting
        BY <2>3 DEF ExclusionOK
    <2> QED
        BY <2>2, <2>4, <2>6, <2>7, <2>8 DEF ExclusionOK
<1>3. ASSUME NEW s \in Sups, SupervisorStep(s) PROVE ExclusionOK'
    <2>1. \A t \in agents : sup'[t].name = sup[t].name
        BY <1>0, <1>3, SupervisorMoves DEF LifeInv1
    <2>2. UNCHANGED <<serve, toLaunch, starting, agents, req>>
        BY <1>3, SupervisorMoves DEF LifeInv1
    <2> QED
        BY <2>1, <2>2 DEF ExclusionOK
<1>4. ASSUME NEW s \in Sups, ChildDies(s) \/ Expire(s) PROVE ExclusionOK'
    BY <1>4 DEF ChildDies, Expire, ExclusionOK
<1>5. CASE BeginLaunch \/ LaunchFails \/ EndLaunch \/ EndShutdown \/ Exit
           \/ BeginShutdown \/ AcceptFails \/ EarlySignal \/ UNCHANGED vars
    BY <1>5 DEF BeginLaunch, LaunchFails, EndLaunch, EndShutdown, Exit, BeginShutdown, AcceptFails,
        EarlySignal, vars, ExclusionOK
<1>6. ~ \E r \in Requests : Dropped(r)
    BY DEF Dropped, NoneDropped
<1> QED
    BY <1>1, <1>2, <1>3, <1>4, <1>5, <1>6, ExclusionHandler DEF Next, ServeStep, Gone

\* A supervisor at work can be reached: it is tracked, it has its permit, or
\* the handler that spawned it is about to track it.
AtWork == {"running", "backoff", "sleeping", "registering", "spawning"}
Reached(s) ==
    \/ s \in agents \cup permit
    \/ \E r \in Handlers : req[r].new = s /\ req[r].pc = "commit"

AttendedOK ==
    /\ \A s \in Sups : child[s] = "alive" => sup[s].st \in {"running", "killing"}
    /\ serve # "exited" => \A s \in Sups : sup[s].st \in AtWork => Reached(s)

LEMMA AttendedHandler ==
    ASSUME LifeInv1, AttendedOK, NEW r \in Handlers, HandlerStep(r)
    PROVE  AttendedOK'
<1> USE DEF LifeInv1
<1>0. agents \subseteq Sups /\ sup \in [Sups -> Supervisor] /\ req \in [Handlers -> Request]
      /\ child \in [Sups -> {"none", "alive", "dead"}]
    BY DEF BudgetInv, TypeOK
<1>1. serve # "exited" /\ UNCHANGED serve /\ \A q \in Handlers : q # r => req'[q] = req[q]
    BY HandlerMoves
<1>2. CASE Spawn(r)
    <2> DEFINE s == req[r].new
    <2>1. s \in Sups /\ req[r].pc = "spawn"
        BY <1>2 DEF Spawn, BudgetInv, RequestsOK, TypeOK, Request
    <2>2. /\ sup'[s].st = "running" /\ \A t \in Sups : t # s => sup'[t] = sup[t]
          /\ \A t \in Sups : t # s => child'[t] = child[t]
        BY <1>0, <1>2, <2>1 DEF Spawn, Become, Supervisor
    <2>3. req'[r].new = s /\ req'[r].pc = "commit"
        BY <1>0, <1>2 DEF Spawn, Goto, Request
    <2>4. UNCHANGED agents /\ permit' = permit \ {s}
        BY <1>2 DEF Spawn
    <2>5. \A t \in Sups : t # s /\ Reached(t) => Reached(t)'
        BY <1>1, <2>1, <2>3, <2>4 DEF Reached
    <2> QED
        BY <1>1, <2>1, <2>2, <2>3, <2>5 DEF AttendedOK, Reached
<1>3. CASE ~ Spawn(r)
    <2>1. UNCHANGED <<sup, child>>
        BY <1>3, HandlerSups
    <2>2. ASSUME NEW s \in Sups, Reached(s), sup[s].st \in AtWork PROVE Reached(s)'
        <3>1. CASE RegisterPending(r)
            BY <1>1, <2>2, <3>1 DEF RegisterPending, Reached
        <3>2. CASE ~ RegisterPending(r)
            <4>1. req[r].pc # "commit" \/ Awaited(r)
                BY <1>3, <3>2 DEF HandlerStep, Signal, CheckCanStart, PreRegister, PromptFails,
                    SpawnFails, CleanUp, CancelStart
            <4>2. req[r].pc # "commit"
                BY <4>1 DEF Awaited
            <4>3. s \in agents \cup permit => s \in agents' \cup permit'
                BY <1>3, <2>2, <3>2 DEF HandlerStep, Signal, SignalStop, Awaited, CheckCanStart,
                    PreRegister, PromptFails, SpawnFails, CleanUp, CancelStart, IsFinished, Finished, AtWork
            <4> QED
                BY <1>1, <2>2, <4>2, <4>3 DEF Reached
        <3> QED
            BY <3>1, <3>2
    <2> QED
        BY <1>1, <2>1, <2>2 DEF AttendedOK
<1> QED
    BY <1>2, <1>3

LEMMA AttendedSupervisor ==
    ASSUME LifeInv1, AttendedOK, NEW s \in Sups, SupervisorStep(s)
    PROVE  AttendedOK'
<1> USE DEF LifeInv1
<1>0. sup \in [Sups -> Supervisor] /\ child \in [Sups -> {"none", "alive", "dead"}]
    BY DEF BudgetInv, TypeOK
<1>1. /\ UNCHANGED <<serve, agents, req>> /\ serve # "exited"
      /\ \A t \in Sups : t # s => sup'[t] = sup[t]
      /\ sup[s].st \notin Finished \cup {"none"}
    BY SupervisorMoves
<1>2. (\A t \in Sups : t # s => child'[t] = child[t]) /\ permit \ {s} \subseteq permit'
    BY <1>0 DEF SupervisorStep, SeesShutdown, KillProcessGroup, SeesExit, FirstPoll, StopsInBackoff,
        BackoffEnds, ReRegister, ReRegisterFails, Respawn, RespawnFails, DropRecord
<1>3. \A t \in Sups : t # s /\ Reached(t) => Reached(t)'
    BY <1>1, <1>2 DEF Reached
<1>4. sup'[s].st \in AtWork /\ s \in permit => s \in permit'
    <2>1. CASE SeesShutdown(s)
        BY <2>1, BecomeMeans DEF SeesShutdown, AtWork
    <2>2. CASE KillProcessGroup(s) \/ StopsInBackoff(s) \/ ReRegisterFails(s) \/ DropRecord(s)
        BY <2>2, ReturnEnds DEF AtWork
    <2>3. CASE FirstPoll(s)
        <3>1. s \in permit => sup'[s].st \notin AtWork
            BY <2>3, ReturnEnds DEF AtWork
        <3> QED
            BY <3>1
    <2>4. CASE SeesExit(s) \/ BackoffEnds(s) \/ ReRegister(s) \/ Respawn(s) \/ RespawnFails(s)
        BY <2>4 DEF SeesExit, BackoffEnds, ReRegister, Respawn, RespawnFails
    <2> QED
        BY <2>1, <2>2, <2>3, <2>4 DEF SupervisorStep
<1>5. sup'[s].st \in AtWork => sup[s].st \in AtWork
    <2>1. sup[s].st \in AtWork \cup {"killing", "dropping"}
        BY <1>0, <1>1 DEF Supervisor, AtWork, Finished
    <2>2. CASE sup[s].st \in {"killing", "dropping"}
        <3>1. KillProcessGroup(s) \/ DropRecord(s)
            BY <2>2 DEF SupervisorStep, SeesShutdown, SeesExit, FirstPoll, StopsInBackoff,
                BackoffEnds, ReRegister, ReRegisterFails, Respawn, RespawnFails
        <3> QED
            BY <3>1, ReturnEnds DEF AtWork
    <2> QED
        BY <2>1, <2>2
<1>6. sup'[s].st \in AtWork => (Reached(s) => Reached(s)')
    BY <1>1, <1>4, <1>5 DEF Reached
<1>7. child'[s] = "alive" => sup'[s].st \in {"running", "killing"}
    <2>1. CASE sup[s].st \in {"running", "killing"}
        <3>1. SeesShutdown(s) \/ KillProcessGroup(s) \/ SeesExit(s)
            BY <2>1 DEF SupervisorStep, FirstPoll, StopsInBackoff, BackoffEnds, ReRegister,
                ReRegisterFails, Respawn, RespawnFails, DropRecord
        <3>2. CASE SeesShutdown(s)
            BY <3>2, BecomeMeans DEF SeesShutdown
        <3>3. CASE KillProcessGroup(s) \/ SeesExit(s)
            BY <1>0, <3>3 DEF KillProcessGroup, SeesExit
        <3> QED
            BY <3>1, <3>2, <3>3
    <2>2. CASE sup[s].st \notin {"running", "killing"}
        <3>1. child[s] # "alive"
            BY <2>2 DEF AttendedOK
        <3>2. UNCHANGED child \/ Respawn(s)
            BY <2>2 DEF SupervisorStep, SeesShutdown, KillProcessGroup, SeesExit, FirstPoll,
                StopsInBackoff, BackoffEnds, ReRegister, ReRegisterFails, RespawnFails, DropRecord
        <3> QED
            BY <3>1, <3>2, RespawnMeans DEF Respawn
    <2> QED
        BY <2>1, <2>2
<1> QED
    BY <1>1, <1>2, <1>3, <1>5, <1>6, <1>7 DEF AttendedOK

LEMMA AttendedStep == NoneDropped /\ LifeInv1 /\ AttendedOK /\ [Next]_vars => AttendedOK'
<1> SUFFICES ASSUME NoneDropped, LifeInv1, AttendedOK, [Next]_vars PROVE AttendedOK'
    OBVIOUS
<1>0. sup \in [Sups -> Supervisor] /\ req \in [Handlers -> Request] /\ Launcher \in Handlers
      /\ child \in [Sups -> {"none", "alive", "dead"}] /\ Requests \subseteq Handlers
    BY DEF LifeInv1, BudgetInv, TypeOK, Handlers
<1>1. ASSUME NEW r \in Handlers, req[r].pc = "idle", req'[r].pc # "commit",
             \A q \in Handlers : q # r => req'[q] = req[q],
             UNCHANGED <<serve, agents, permit, child>>,
             NEW s \in Sups, Fresh(s), sup'[s].st = "none", \A t \in Sups : t # s => sup'[t] = sup[t]
      PROVE  AttendedOK'
    <2>1. child[s] # "alive"
        BY <1>1 DEF AttendedOK, Fresh, IsFinished, Finished
    <2>2. \A t \in Sups : Reached(t) => Reached(t)'
        BY <1>1 DEF Reached
    <2> QED
        BY <1>1, <2>1, <2>2 DEF AttendedOK, AtWork
<1>2. ASSUME NEW r \in Requests, Receive(r) PROVE AttendedOK'
    <2>1. PICK n \in Names, s \in {t \in Sups : Fresh(t)} :
            \/ /\ \E op, pc \in {"start", "restart", "signal"} : req' = [req EXCEPT ![r] =
                    [op |-> op, pc |-> pc, name |-> n, new |-> s, old |-> None]]
               /\ sup' = [sup EXCEPT ![s] = [Unused EXCEPT !.name = n]]
            \/ /\ req' = [req EXCEPT ![r] =
                    [op |-> "stop", pc |-> "signal", name |-> n, new |-> None, old |-> None]]
               /\ UNCHANGED sup
        BY <1>2 DEF Receive
    <2>2. /\ req[r].pc = "idle" /\ req'[r].pc # "commit"
          /\ \A q \in Handlers : q # r => req'[q] = req[q]
          /\ UNCHANGED <<serve, agents, permit, child>>
        BY <1>0, <1>2, <2>1 DEF Receive
    <2>3. CASE UNCHANGED sup
        <3>1. \A t \in Sups : Reached(t) => Reached(t)'
            BY <2>2 DEF Reached
        <3> QED
            BY <2>2, <2>3, <3>1 DEF AttendedOK
    <2>4. CASE sup' = [sup EXCEPT ![s] = [Unused EXCEPT !.name = n]]
        <3>1. sup'[s].st = "none" /\ \A t \in Sups : t # s => sup'[t] = sup[t]
            BY <1>0, <2>4 DEF Unused
        <3> QED
            BY <1>0, <1>1, <2>2, <3>1
    <2> QED
        BY <2>1, <2>3, <2>4
<1>3. CASE LaunchNext
    <2>1. PICK n \in toLaunch, s \in {t \in Sups : Fresh(t)} :
            /\ req' = [req EXCEPT ![Launcher] =
                    [op |-> "launch", pc |-> "build", name |-> n, new |-> s, old |-> None]]
            /\ sup' = [sup EXCEPT ![s] = [Unused EXCEPT !.name = n]]
        BY <1>3 DEF LaunchNext
    <2>2. /\ req[Launcher].pc = "idle" /\ req'[Launcher].pc # "commit"
          /\ \A q \in Handlers : q # Launcher => req'[q] = req[q]
          /\ UNCHANGED <<agents, permit, child, serve>>
        BY <1>0, <1>3, <2>1 DEF LaunchNext
    <2>3. sup'[s].st = "none" /\ \A t \in Sups : t # s => sup'[t] = sup[t]
        BY <1>0, <2>1 DEF Unused
    <2> QED
        BY <1>0, <1>1, <2>2, <2>3
<1>4. ASSUME NEW s \in Sups, ChildDies(s) \/ Expire(s) PROVE AttendedOK'
    BY <1>0, <1>4 DEF ChildDies, Expire, AttendedOK, Reached
<1>5. CASE EndShutdown
    BY <1>5 DEF EndShutdown, AttendedOK, Reached, IsFinished, Finished, AtWork
<1>6. CASE BeginLaunch \/ LaunchFails \/ EndLaunch \/ Exit
           \/ BeginShutdown \/ AcceptFails \/ EarlySignal \/ UNCHANGED vars
    BY <1>6 DEF BeginLaunch, LaunchFails, EndLaunch, Exit, BeginShutdown, AcceptFails,
        EarlySignal, vars, AttendedOK, Reached
<1>7. ~ \E r \in Requests : Dropped(r)
    BY DEF Dropped, NoneDropped
<1> QED
    BY <1>2, <1>3, <1>4, <1>5, <1>6, <1>7, AttendedHandler, AttendedSupervisor DEF Next, ServeStep, Gone

\* Only managed agents have records, and a record belongs to a child that is
\* being started or has been.
RecordsOK ==
    /\ \A s \in records : sup[s].name \in Managed
    /\ \A s \in Sups : sup[s].st \in {"registering", "dropping"} => sup[s].name \in Managed
    /\ NoZombieRecord

\* A witness that a record without a child is being worked on.
Building(s) == \E r \in Handlers : req[r].new = s /\ req[r].pc \in {"spawn", "cleanup"}

LEMMA RecordsHandler ==
    ASSUME LifeInv1, RecordsOK, NEW r \in Handlers, HandlerStep(r)
    PROVE  RecordsOK'
<1> USE DEF LifeInv1
<1>0. records \subseteq Sups /\ sup \in [Sups -> Supervisor] /\ req \in [Handlers -> Request]
    BY DEF BudgetInv, TypeOK
<1>1. /\ \A q \in Handlers : q # r => req'[q] = req[q]
      /\ \A s \in Sups : sup'[s].name = sup[s].name
      /\ UNCHANGED sup \/ Spawn(r)
    BY HandlerMoves, HandlerSups
<1>2. \A s \in records : sup[s].st # "crashed" /\ (sup[s].st = "none" => Building(s))
    BY DEF RecordsOK, NoZombieRecord, Building
<1>3. ASSUME \A s \in records' : sup'[s].st # "crashed" /\ (sup'[s].st = "none" => Building(s)')
      PROVE  NoZombieRecord'
    BY <1>3 DEF NoZombieRecord, Building
<1>4. CASE PreRegister(r)
    <2> DEFINE n == req[r].new
    <2>1. UNCHANGED sup /\ req[r].pc = "build" /\ req'[r].pc = "spawn" /\ req'[r].new = n
        BY <1>0, <1>4 DEF PreRegister, Goto, Request
    <2>2. n \in Sups /\ n # None /\ sup[n].st = "none" /\ sup[n].name = req[r].name
        BY <2>1 DEF BudgetInv, RequestsOK, SlotsOK, NamesOK, TypeOK, Request
    <2>3. records' \subseteq records \cup {n} /\ (n \in records' => (req[r].name \in Managed \/ n \in records))
        BY <1>4 DEF PreRegister, Registered
    <2>4. \A s \in Sups : Building(s) => Building(s)'
        BY <1>1, <2>1 DEF Building
    <2>5. Building(n)'
        BY <2>1 DEF Building
    <2>6. NoZombieRecord'
        BY <1>0, <1>2, <1>3, <2>1, <2>2, <2>3, <2>4, <2>5
    <2> QED
        BY <2>1, <2>2, <2>3, <2>6 DEF RecordsOK
<1>5. CASE Spawn(r)
    <2> DEFINE n == req[r].new
    <2>1. n \in Sups /\ n # None /\ sup[n].st = "none"
        BY <1>5 DEF Spawn, BudgetInv, RequestsOK, SlotsOK, TypeOK, Request
    <2>2. sup'[n].st = "running" /\ (\A s \in Sups : s # n => sup'[s] = sup[s]) /\ UNCHANGED records
        BY <1>0, <1>5, <2>1 DEF Spawn, Become, Supervisor
    <2>3. \A s \in Sups : s # n /\ Building(s) => Building(s)'
        BY <1>1 DEF Building
    <2>4. NoZombieRecord'
        BY <1>0, <1>2, <1>3, <2>2, <2>3
    <2> QED
        BY <1>0, <1>1, <2>1, <2>2, <2>4 DEF RecordsOK
<1>6. CASE SpawnFails(r) \/ CleanUp(r)
    <2>1. /\ UNCHANGED sup /\ req[r].pc \in {"spawn", "cleanup"}
          /\ records' = IF req[r].pc = "cleanup" THEN records \ {req[r].new} ELSE records
          /\ req'[r] = [req[r] EXCEPT !.pc =
                IF req[r].pc = "spawn" /\ req[r].name \in Managed THEN "cleanup" ELSE "cancel"]
        BY <1>0, <1>6 DEF SpawnFails, CleanUp, Goto, Request
    <2>2. req'[r].new = req[r].new /\ req'[r].pc =
                IF req[r].pc = "spawn" /\ req[r].name \in Managed THEN "cleanup" ELSE "cancel"
        BY <1>0, <2>1 DEF Request
    <2>3. \A s \in Sups : s # req[r].new /\ Building(s) => Building(s)'
        BY <1>1 DEF Building
    <2>4. req[r].new \in records' => Building(req[r].new)'
        <3> SUFFICES ASSUME req[r].new \in records' PROVE Building(req[r].new)'
            OBVIOUS
        <3>1. req[r].pc = "spawn" /\ req[r].new \in records
            BY <2>1
        <3>2. req[r].name \in Managed
            BY <1>0, <3>1 DEF RecordsOK, NamesOK
        <3> QED
            BY <2>2, <3>1, <3>2 DEF Building
    <2>5. records' \subseteq records
        BY <2>1
    <2>6. NoZombieRecord'
        BY <1>0, <1>2, <1>3, <2>1, <2>3, <2>4, <2>5
    <2> QED
        BY <2>1, <2>5, <2>6 DEF RecordsOK
<1>7. CASE ~ PreRegister(r) /\ ~ Spawn(r) /\ ~ SpawnFails(r) /\ ~ CleanUp(r)
    <2>1. /\ UNCHANGED <<records, sup>>
          /\ req[r].pc \notin {"spawn", "cleanup"}
        BY <1>7 DEF HandlerStep, Signal, Awaited, CheckCanStart, PromptFails, RegisterPending, CancelStart
    <2>2. \A s \in Sups : Building(s) => Building(s)'
        BY <1>1, <2>1 DEF Building
    <2>3. NoZombieRecord'
        BY <1>0, <1>2, <1>3, <2>1, <2>2
    <2> QED
        BY <2>1, <2>3 DEF RecordsOK
<1> QED
    BY <1>4, <1>5, <1>6, <1>7

LEMMA RecordsSupervisor ==
    ASSUME LifeInv1, RecordsOK, NEW s \in Sups, SupervisorStep(s)
    PROVE  RecordsOK'
<1> USE DEF LifeInv1
<1>0. records \subseteq Sups /\ sup \in [Sups -> Supervisor]
    BY DEF BudgetInv, TypeOK
<1>1. /\ UNCHANGED req /\ sup'[s].name = sup[s].name /\ sup'[s].st # "none"
      /\ \A t \in Sups : t # s => sup'[t] = sup[t]
      /\ sup[s].st \notin Finished
    BY SupervisorMoves
<1>2. sup'[s].st \in {"registering", "dropping"} => sup[s].name \in Managed
    <2>1. CASE BackoffEnds(s)
        BY <2>1, BecomeMeans DEF BackoffEnds
    <2>2. CASE RespawnFails(s)
        <3>1. CASE sup[s].name \notin Managed
            <4>1. Return(s, "crashed")
                BY <2>2, <3>1 DEF RespawnFails
            <4>2. sup'[s] = [name |-> sup[s].name, st |-> "crashed", attempt |-> 0, failures |-> 0, restarts |-> 0]
                BY <4>1, ReturnMeans
            <4> QED
                BY <4>2
        <3> QED
            BY <3>1
    <2>3. CASE SeesShutdown(s) \/ ReRegister(s) \/ Respawn(s) \/ (FirstPoll(s) /\ s \notin permit)
        <3>1. Become(s, "killing") \/ Become(s, "spawning") \/ Respawn(s) \/ Become(s, "sleeping")
            BY <2>3 DEF SeesShutdown, ReRegister, FirstPoll
        <3> QED
            BY <3>1, BecomeMeans, RespawnMeans
    <2>4. CASE KillProcessGroup(s) \/ StopsInBackoff(s) \/ ReRegisterFails(s) \/ DropRecord(s)
               \/ (FirstPoll(s) /\ s \in permit)
        BY <2>4, ReturnEnds
    <2>5. CASE SeesExit(s)
        <3>1. PICK ranStable \in BOOLEAN :
                sup' = [sup EXCEPT
                    ![s].attempt  = NextAttempt(s, ranStable),
                    ![s].st       = IF Exhausted(NextAttempt(s, ranStable)) THEN "exhausted" ELSE "backoff",
                    ![s].failures = IF ranStable THEN 0 ELSE @ + 1,
                    ![s].restarts = IF ranStable THEN 0 ELSE @]
            BY <2>5 DEF SeesExit
        <3>2. sup'[s].st \in {"exhausted", "backoff"}
            BY <1>0, <3>1 DEF Supervisor
        <3> QED
            BY <3>2
    <2> QED
        BY <2>1, <2>2, <2>3, <2>4, <2>5 DEF SupervisorStep
<1>3. records' \subseteq records \cup {s} /\ (s \in records' => sup[s].name \in Managed)
    <2>1. CASE ReRegister(s)
        BY <2>1 DEF ReRegister, Registered, RecordsOK
    <2>2. CASE ~ ReRegister(s)
        BY <2>2 DEF SupervisorStep, SeesShutdown, KillProcessGroup, SeesExit, FirstPoll, StopsInBackoff,
            BackoffEnds, ReRegisterFails, Respawn, RespawnFails, DropRecord, RecordsOK
    <2> QED
        BY <2>1, <2>2
<1>4. s \in records' => sup'[s].st # "crashed"
    <2>1. CASE ReRegisterFails(s) \/ DropRecord(s)
        BY <2>1 DEF ReRegisterFails, DropRecord
    <2>2. CASE RespawnFails(s)
        <3>1. CASE sup[s].name \in Managed
            BY <2>2, <3>1, BecomeMeans DEF RespawnFails
        <3> QED
            BY <1>3, <3>1
    <2>3. CASE BackoffEnds(s) \/ SeesShutdown(s) \/ ReRegister(s) \/ Respawn(s) \/ (FirstPoll(s) /\ s \notin permit)
        <3>1. \/ \E st \in {"killing", "spawning", "sleeping", "registering"} : Become(s, st)
              \/ Respawn(s)
            BY <2>3 DEF BackoffEnds, SeesShutdown, ReRegister, FirstPoll
        <3> QED
            BY <3>1, BecomeMeans, RespawnMeans
    <2>4. CASE KillProcessGroup(s) \/ StopsInBackoff(s) \/ (FirstPoll(s) /\ s \in permit)
        <3>1. Return(s, "stopped")
            BY <2>4 DEF KillProcessGroup, StopsInBackoff, FirstPoll
        <3>2. sup'[s] = [name |-> sup[s].name, st |-> "stopped", attempt |-> 0, failures |-> 0, restarts |-> 0]
            BY <3>1, ReturnMeans
        <3> QED
            BY <3>2
    <2>5. CASE SeesExit(s)
        <3>1. PICK ranStable \in BOOLEAN :
                sup' = [sup EXCEPT
                    ![s].attempt  = NextAttempt(s, ranStable),
                    ![s].st       = IF Exhausted(NextAttempt(s, ranStable)) THEN "exhausted" ELSE "backoff",
                    ![s].failures = IF ranStable THEN 0 ELSE @ + 1,
                    ![s].restarts = IF ranStable THEN 0 ELSE @]
            BY <2>5 DEF SeesExit
        <3>2. sup'[s].st \in {"exhausted", "backoff"}
            BY <1>0, <3>1 DEF Supervisor
        <3> QED
            BY <3>2
    <2> QED
        BY <2>1, <2>2, <2>3, <2>4, <2>5 DEF SupervisorStep
<1>5. \A t \in Sups : Building(t) => Building(t)'
    BY <1>1 DEF Building
<1>6. \A t \in records' : sup'[t].st # "crashed" /\ (sup'[t].st = "none" => Building(t)')
    <2> TAKE t \in records'
    <2>1. CASE t = s
        BY <1>1, <1>4, <2>1
    <2>2. CASE t # s
        <3>1. t \in records /\ t \in Sups /\ sup'[t] = sup[t]
            BY <1>0, <1>1, <1>3, <2>2
        <3>2. sup[t].st # "crashed" /\ (sup[t].st = "none" => Building(t))
            BY <3>1 DEF RecordsOK, NoZombieRecord, Building
        <3> QED
            BY <1>5, <3>1, <3>2
    <2> QED
        BY <2>1, <2>2
<1>7. NoZombieRecord'
    BY <1>6 DEF NoZombieRecord, Building
<1>8. \A t \in records' : sup'[t].name \in Managed
    BY <1>0, <1>1, <1>3 DEF RecordsOK
<1>9. \A t \in Sups : sup'[t].st \in {"registering", "dropping"} => sup'[t].name \in Managed
    BY <1>1, <1>2 DEF RecordsOK
<1> QED
    BY <1>7, <1>8, <1>9 DEF RecordsOK

LEMMA RecordsStep == NoneDropped /\ LifeInv1 /\ RecordsOK /\ [Next]_vars => RecordsOK'
<1> SUFFICES ASSUME NoneDropped, LifeInv1, RecordsOK, [Next]_vars PROVE RecordsOK'
    OBVIOUS
<1>0. records \subseteq Sups /\ sup \in [Sups -> Supervisor] /\ req \in [Handlers -> Request]
      /\ Launcher \in Handlers /\ Requests \subseteq Handlers
    BY DEF LifeInv1, BudgetInv, TypeOK, Handlers
<1>1. ASSUME NEW r \in Handlers, req[r].pc = "idle", \A q \in Handlers : q # r => req'[q] = req[q],
             records' = records, NEW s \in Sups, Fresh(s), sup'[s].st = "none",
             \A t \in Sups : t # s => sup'[t] = sup[t]
      PROVE  RecordsOK'
    <2>1. s \notin records
        BY <1>1 DEF Fresh
    <2>2. \A t \in Sups : Building(t) => Building(t)'
        BY <1>1 DEF Building
    <2>3. \A t \in records : sup[t].st # "crashed" /\ (sup[t].st = "none" => Building(t))
        BY DEF RecordsOK, NoZombieRecord, Building
    <2>4. \A t \in records' : sup'[t].st # "crashed" /\ (sup'[t].st = "none" => Building(t)')
        BY <1>0, <1>1, <2>1, <2>2, <2>3
    <2>5. NoZombieRecord'
        BY <2>4 DEF NoZombieRecord, Building
    <2> QED
        BY <1>0, <1>1, <2>1, <2>5 DEF RecordsOK
<1>2. ASSUME NEW r \in Requests, Receive(r) PROVE RecordsOK'
    <2>1. PICK n \in Names, s \in {t \in Sups : Fresh(t)} :
            \/ /\ \E op, pc \in {"start", "restart", "signal"} : req' = [req EXCEPT ![r] =
                    [op |-> op, pc |-> pc, name |-> n, new |-> s, old |-> None]]
               /\ sup' = [sup EXCEPT ![s] = [Unused EXCEPT !.name = n]]
            \/ /\ req' = [req EXCEPT ![r] =
                    [op |-> "stop", pc |-> "signal", name |-> n, new |-> None, old |-> None]]
               /\ UNCHANGED sup
        BY <1>2 DEF Receive
    <2>2. /\ req[r].pc = "idle" /\ UNCHANGED records
          /\ \A q \in Handlers : q # r => req'[q] = req[q]
        BY <1>0, <1>2, <2>1 DEF Receive
    <2>3. CASE UNCHANGED sup
        <3>1. \A t \in Sups : Building(t) => Building(t)'
            BY <2>2 DEF Building
        <3>2. \A t \in records : sup[t].st # "crashed" /\ (sup[t].st = "none" => Building(t))
            BY DEF RecordsOK, NoZombieRecord, Building
        <3>3. \A t \in records' : sup'[t].st # "crashed" /\ (sup'[t].st = "none" => Building(t)')
            BY <1>0, <2>2, <2>3, <3>1, <3>2
        <3>4. NoZombieRecord'
            BY <3>3 DEF NoZombieRecord, Building
        <3> QED
            BY <2>2, <2>3, <3>4 DEF RecordsOK
    <2>4. CASE sup' = [sup EXCEPT ![s] = [Unused EXCEPT !.name = n]]
        <3>1. sup'[s].st = "none" /\ \A t \in Sups : t # s => sup'[t] = sup[t]
            BY <1>0, <2>4 DEF Unused
        <3> QED
            BY <1>0, <1>1, <2>2, <3>1
    <2> QED
        BY <2>1, <2>3, <2>4
<1>3. CASE LaunchNext
    <2>1. PICK n \in toLaunch, s \in {t \in Sups : Fresh(t)} :
            /\ req' = [req EXCEPT ![Launcher] =
                    [op |-> "launch", pc |-> "build", name |-> n, new |-> s, old |-> None]]
            /\ sup' = [sup EXCEPT ![s] = [Unused EXCEPT !.name = n]]
        BY <1>3 DEF LaunchNext
    <2>2. /\ req[Launcher].pc = "idle" /\ UNCHANGED records
          /\ \A q \in Handlers : q # Launcher => req'[q] = req[q]
        BY <1>0, <1>3, <2>1 DEF LaunchNext
    <2>3. sup'[s].st = "none" /\ \A t \in Sups : t # s => sup'[t] = sup[t]
        BY <1>0, <2>1 DEF Unused
    <2> QED
        BY <1>0, <1>1, <2>2, <2>3
<1>4. CASE UNCHANGED <<sup, req>> /\ records' \subseteq records
    BY <1>4 DEF RecordsOK, NoZombieRecord
<1>5. ~ \E r \in Requests : Dropped(r)
    BY DEF Dropped, NoneDropped
<1> QED
    BY <1>2, <1>3, <1>4, <1>5, RecordsHandler, RecordsSupervisor DEF Next, ServeStep, Gone, ChildDies, Expire,
        BeginLaunch, LaunchFails, EndLaunch, EndShutdown, Exit, BeginShutdown, AcceptFails, EarlySignal, vars

-----------------------------------------------------------------------------

LifeInv == LifeInv1 /\ ExclusionOK /\ AttendedOK /\ RecordsOK

LEMMA InitLife == Init => LifeInv
<1> SUFFICES ASSUME Init PROVE LifeInv
    OBVIOUS
<1>1. BudgetInv
    BY InitBudget
<1>2. PhasesOK /\ NamesOK /\ OwnedOK /\ ExclusionOK /\ AttendedOK /\ RecordsOK
    BY DEF Init, PhasesOK, NamesOK, OwnedOK, ExclusionOK, AttendedOK, RecordsOK, NoZombieRecord,
        Idle, Unused, Handlers, InBuild, AtWork
<1> QED
    BY <1>1, <1>2 DEF LifeInv, LifeInv1

LEMMA StepLife == NoneDropped /\ LifeInv /\ [Next]_vars => LifeInv'
BY StepBudget, PhasesStep, NamesStep, OwnedStep, ExclusionStep, AttendedStep, RecordsStep
    DEF LifeInv, LifeInv1

LEMMA LifeInvariance == NoneDropped /\ Spec => []LifeInv
<1> SUFFICES ASSUME NoneDropped PROVE Spec => []LifeInv
    OBVIOUS
<1>1. LifeInv /\ [Next]_vars => LifeInv'
    BY StepLife
<1> QED
    BY <1>1, InitLife, PTL DEF Spec

\* No interleaving of requests tracks two agents of one name, or starts one
\* that is tracked.
THEOREM StartExclusionHolds == NoneDropped /\ Spec => []StartExclusion
<1>1. LifeInv => StartExclusion
    BY DEF LifeInv, ExclusionOK, StartExclusion, Tracked
<1> QED
    BY <1>1, LifeInvariance, PTL

\* A name is reserved exactly as long as one request builds a child for it.
THEOREM ReservationOwnedHolds == NoneDropped /\ Spec => []ReservationOwned
<1>1. LifeInv => ReservationOwned
    BY DEF LifeInv, LifeInv1, OwnedOK, ReservationOwned
<1> QED
    BY <1>1, LifeInvariance, PTL

\* No living child is ever lost: somebody can always end it.
THEOREM EveryChildAttendedHolds == NoneDropped /\ Spec => []EveryChildAttended
<1>1. LifeInv => EveryChildAttended
    BY DEF LifeInv, AttendedOK, EveryChildAttended, Reached, AtWork
<1> QED
    BY <1>1, LifeInvariance, PTL

\* No failed start or restart leaves its worker record behind.
THEOREM NoZombieRecordHolds == NoneDropped /\ Spec => []NoZombieRecord
<1>1. LifeInv => NoZombieRecord
    BY DEF LifeInv, RecordsOK
<1> QED
    BY <1>1, LifeInvariance, PTL
=============================================================================
