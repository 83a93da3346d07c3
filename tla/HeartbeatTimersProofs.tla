----------------------- MODULE HeartbeatTimersProofs -----------------------
(***************************************************************************)
(* Proofs about HeartbeatTimers for any heartbeats and any intervals: the  *)
(* commands of a heartbeat never overlap, keep their distance, and at most *)
(* one of them starts after the timer was aborted.                         *)
(***************************************************************************)
EXTENDS MCTasks, TLAPS

\* A command runs only under a task that waits for it, or was dropped with
\* its task.  What a sleeping timer has waited and what it has left to wait
\* make up its interval.
TimersInv ==
    /\ Timers!TypeOK
    /\ \A h \in Heartbeats :
        /\ running[h] <= 1
        /\ pc[h] \in {"none", "sleeping", "reporting", "aborting"} => running[h] = 0
        /\ pc[h] \in {"sleeping", "aborting"} => idle[h] + left[h] >= Every[h]
        /\ pc[h] = "aborting" => left[h] = 0
        /\ late[h] <= 1 /\ (late[h] = 1 => pc[h] = "aborted")
    /\ phase = "reaping" => \A h \in Heartbeats : pc[h] \in {"aborting", "aborted"}
    /\ phase = "launching" => \A h \in Heartbeats : pc[h] = "none" /\ idle[h] = Age

LEMMA InitInv == Timers!Init => TimersInv
BY HeartbeatsAssumption DEF Timers!Init, TimersInv, Timers!TypeOK, Timers!TimersAssumption

LEMMA FirstDelayType == \A h \in Heartbeats : Timers!FirstDelay(h) \in Nat
BY HeartbeatsAssumption DEF Timers!FirstDelay, Timers!AfterOf, Timers!TimersAssumption

LEMMA StartInv == TimersInv /\ Timers!StartHeartbeats => TimersInv'
<1> SUFFICES ASSUME TimersInv, Timers!StartHeartbeats PROVE TimersInv'
    OBVIOUS
<1>1. \A h \in Heartbeats : pc'[h] = "sleeping" /\ left'[h] \in Nat
    BY FirstDelayType DEF Timers!StartHeartbeats
<1>2. \A h \in Heartbeats : idle'[h] = Age /\ running'[h] = 0
    BY DEF Timers!StartHeartbeats, TimersInv
<1>3. \A h \in Heartbeats : idle'[h] + left'[h] >= Every[h]
    <2> SUFFICES ASSUME NEW h \in Heartbeats PROVE idle'[h] + left'[h] >= Every[h]
        OBVIOUS
    <2>1. left'[h] \in Nat /\ idle'[h] = Age /\ Age \in Nat /\ Every[h] \in Nat /\ Every[h] < Age
        BY <1>1, <1>2, HeartbeatsAssumption DEF Timers!TimersAssumption
    <2> QED
        BY <2>1
<1>4. Timers!TypeOK'
    BY FirstDelayType DEF Timers!StartHeartbeats, TimersInv, Timers!TypeOK
<1> QED
    BY <1>1, <1>2, <1>3, <1>4 DEF Timers!StartHeartbeats, TimersInv

LEMMA TickInv == TimersInv /\ Timers!Tick => TimersInv'
<1> SUFFICES ASSUME TimersInv, Timers!Tick PROVE TimersInv'
    OBVIOUS
<1>1. left' \in [Heartbeats -> Nat]
    BY DEF Timers!Tick, TimersInv, Timers!TypeOK
<1>2. idle' \in [Heartbeats -> 0 .. Age]
    BY HeartbeatsAssumption DEF
        Timers!Tick, TimersInv, Timers!TypeOK, Timers!Older, Timers!TimersAssumption
<1>3. ASSUME NEW h \in Heartbeats, pc[h] \in {"sleeping", "aborting"}
      PROVE  idle'[h] + left'[h] >= Every[h]
    <2>1. idle[h] \in 0 .. Age /\ idle'[h] = Timers!Older(idle[h])
        BY <1>3 DEF Timers!Tick, TimersInv, Timers!TypeOK
    <2>2. idle[h] + left[h] >= Every[h] /\ Every[h] \in Nat /\ Every[h] < Age /\ Age \in Nat
        BY <1>3, HeartbeatsAssumption DEF TimersInv, Timers!TimersAssumption
    <2>3. \/ left[h] \in Nat /\ left[h] > 0 /\ left'[h] = left[h] - 1
          \/ left[h] = 0 /\ left'[h] = 0
        BY <1>3 DEF Timers!Tick, Timers!Asleep, TimersInv, Timers!TypeOK
    <2> QED
        BY <2>1, <2>2, <2>3 DEF Timers!Older
<1>4. \A h \in Heartbeats : pc[h] = "aborting" => left'[h] = 0
    BY DEF Timers!Tick, TimersInv
<1> QED
    BY <1>1, <1>2, <1>3, <1>4 DEF Timers!Tick, TimersInv, Timers!TypeOK

LEMMA StepInv == TimersInv /\ [Timers!Next]_(Timers!vars) => TimersInv'
<1> SUFFICES ASSUME TimersInv, [Timers!Next]_(Timers!vars) PROVE TimersInv'
    OBVIOUS
<1> USE HeartbeatsAssumption DEF Timers!TimersAssumption
<1>1. CASE Timers!LaunchFails
    BY <1>1 DEF Timers!LaunchFails, TimersInv, Timers!TypeOK
<1>2. ASSUME NEW h \in Heartbeats, Timers!Fire(h) PROVE TimersInv'
    <2>1. running[h] = 0 /\ phase \in {"serving", "stopping"} /\ late[h] = 0
        BY <1>2 DEF Timers!Fire, Timers!Due, TimersInv, Timers!TypeOK
    <2>2. CASE Timers!Spawn(h) /\ pc' = [pc EXCEPT ![h] = "running"]
        BY <1>2, <2>1, <2>2 DEF Timers!Fire, Timers!Spawn, Timers!Due, TimersInv, Timers!TypeOK
    <2>3. CASE pc' = [pc EXCEPT ![h] = "reporting"] /\ UNCHANGED <<running, late>>
        BY <1>2, <2>1, <2>3 DEF Timers!Fire, Timers!Due, TimersInv, Timers!TypeOK
    <2> QED
        BY <1>2, <2>2, <2>3 DEF Timers!Fire
<1>3. ASSUME NEW h \in Heartbeats, Timers!CommandEnds(h) PROVE TimersInv'
    <2>1. running[h] = 1 /\ pc[h] \in {"running", "aborted"}
        BY <1>3 DEF Timers!CommandEnds, TimersInv, Timers!TypeOK
    <2> QED
        BY <1>3, <2>1 DEF Timers!CommandEnds, TimersInv, Timers!TypeOK
<1>4. ASSUME NEW h \in Heartbeats, Timers!Report(h) PROVE TimersInv'
    <2>1. phase \in {"serving", "stopping"}
        BY <1>4 DEF Timers!Report, TimersInv, Timers!TypeOK
    <2>2. idle[h] \in Nat /\ Every[h] \in Nat
        BY DEF TimersInv, Timers!TypeOK
    <2> QED
        BY <1>4, <2>1, <2>2 DEF Timers!Report, Timers!Again, TimersInv, Timers!TypeOK
<1>5. CASE Timers!Shutdown
    BY <1>5 DEF Timers!Shutdown, TimersInv, Timers!TypeOK
<1>6. CASE Timers!Abort
    <2>1. PICK polled \in SUBSET {h \in Heartbeats : Timers!Due(h)} : pc' = Timers!Aborted(polled)
        BY <1>6 DEF Timers!Abort
    <2>2. \A h \in Heartbeats : pc'[h] = "aborting" => Timers!Due(h)
        BY <2>1 DEF Timers!Aborted
    <2> QED
        BY <1>6, <2>1, <2>2 DEF Timers!Abort, Timers!Aborted, Timers!Due, TimersInv, Timers!TypeOK
<1>8. ASSUME NEW h \in Heartbeats, Timers!LastPoll(h) PROVE TimersInv'
    <2>1. running[h] = 0 /\ phase \notin {"launching", "ended"} /\ late[h] = 0
        BY <1>8 DEF Timers!LastPoll, TimersInv, Timers!TypeOK
    <2>2. CASE Timers!Spawn(h)
        BY <1>8, <2>1, <2>2 DEF Timers!LastPoll, Timers!Spawn, TimersInv, Timers!TypeOK
    <2>3. CASE UNCHANGED <<running, late>>
        BY <1>8, <2>1, <2>3 DEF Timers!LastPoll, TimersInv, Timers!TypeOK
    <2> QED
        BY <1>8, <2>2, <2>3 DEF Timers!LastPoll
<1>9. CASE Timers!Exit
    BY <1>9 DEF Timers!Exit, TimersInv, Timers!TypeOK
<1>7. CASE UNCHANGED Timers!vars
    BY <1>7 DEF Timers!vars, TimersInv, Timers!TypeOK
<1> QED
    BY StartInv, TickInv, <1>1, <1>2, <1>3, <1>4, <1>5, <1>6, <1>7, <1>8, <1>9
        DEF Timers!Next, Timers!Done

LEMMA Invariance == Timers!Spec => []TimersInv
BY InitInv, StepInv, PTL DEF Timers!Spec

\* Every variable keeps its type, and timers run only while the broker does.
THEOREM TypeCorrect == Timers!Spec => []Timers!TypeOK
<1>1. TimersInv => Timers!TypeOK
    BY DEF TimersInv
<1> QED
    BY <1>1, Invariance, PTL

\* However long a command takes, the next one of its heartbeat waits for it.
THEOREM NeverOverlapsHolds == Timers!Spec => []Timers!NeverOverlaps
<1>1. TimersInv => Timers!NeverOverlaps
    BY DEF TimersInv, Timers!NeverOverlaps
<1> QED
    BY <1>1, Invariance, PTL

\* Only a poll whose sleep is over starts a command.
LEMMA OnlyPollsStart ==
    ASSUME TimersInv, [Timers!Next]_(Timers!vars), NEW h \in Heartbeats, running'[h] > running[h]
    PROVE  pc[h] \in {"sleeping", "aborting"} /\ left[h] = 0
<1>1. running[h] \in Nat
    BY DEF TimersInv, Timers!TypeOK
<1>2. ASSUME NEW g \in Heartbeats, Timers!Fire(g) PROVE g = h
    BY <1>2 DEF Timers!Fire, Timers!Spawn, TimersInv, Timers!TypeOK
<1>3. ASSUME NEW g \in Heartbeats, Timers!CommandEnds(g) PROVE FALSE
    BY <1>1, <1>3 DEF Timers!CommandEnds, TimersInv, Timers!TypeOK
<1>4. CASE UNCHANGED running
    BY <1>1, <1>4
<1>5. ASSUME NEW g \in Heartbeats, Timers!LastPoll(g) PROVE g = h
    BY <1>5 DEF Timers!LastPoll, Timers!Spawn, TimersInv, Timers!TypeOK
<1>6. ASSUME NEW g \in Heartbeats, Timers!LastPoll(g) PROVE pc[g] = "aborting" /\ left[g] = 0
    BY <1>6 DEF Timers!LastPoll, TimersInv
<1> QED
    BY <1>1, <1>2, <1>3, <1>4, <1>5, <1>6 DEF
        Timers!Next, Timers!StartHeartbeats, Timers!LaunchFails, Timers!Tick, Timers!Report,
        Timers!Shutdown, Timers!Abort, Timers!Exit, Timers!Done, Timers!vars, Timers!Fire, Timers!Due

\* Each command starts at least Every seconds after the one before was over,
\* and the first one likewise after the start: no burst makes up for lost time.
THEOREM SpacedHolds == Timers!Spec => Spaced
<1>1. TimersInv /\ [Timers!Next]_(Timers!vars) =>
        [\A h \in Heartbeats : running'[h] > running[h] => idle[h] >= Every[h]]_(Timers!vars)
    <2> SUFFICES ASSUME TimersInv, [Timers!Next]_(Timers!vars),
                        NEW h \in Heartbeats, running'[h] > running[h]
                 PROVE  idle[h] >= Every[h]
        OBVIOUS
    <2>1. pc[h] \in {"sleeping", "aborting"} /\ left[h] = 0
        BY OnlyPollsStart
    <2>2. idle[h] \in Nat /\ Every[h] \in Nat
        BY HeartbeatsAssumption DEF TimersInv, Timers!TypeOK, Timers!TimersAssumption
    <2> QED
        BY <2>1, <2>2 DEF TimersInv
<1> QED
    BY <1>1, Invariance, PTL DEF Timers!Spec, Spaced, Timers!Spaced

\* However many polls the aborts come too late for, and however long the
\* agents take to be reaped, a timer starts at most one command more.
THEOREM TimersWindDownHolds == Timers!Spec => []TimersWindDown
<1>1. TimersInv => TimersWindDown
    BY DEF TimersInv, TimersWindDown, Timers!TimersWindDown
<1> QED
    BY <1>1, Invariance, PTL
=============================================================================
