-------------------------- MODULE HeartbeatTimers --------------------------
(***************************************************************************)
(* The [[heartbeats]] of a configuration: one task each that sleeps, runs  *)
(* a shell command to its end, reports it and sleeps again, from the time  *)
(* the agents are launched until shutdown_all aborts the tasks.            *)
(*                                                                         *)
(* Time is what each timer has left to wait; ticks have no end.  Commands  *)
(* are processes of their own: a task that is aborted drops its command,   *)
(* and a command that was dropped runs on.                                 *)
(*                                                                         *)
(* A definition called Mutant... is a mistake the code could have made in  *)
(* the definition after it; no specification uses it.                      *)
(***************************************************************************)
EXTENDS Naturals, FiniteSets

CONSTANTS
    None,
    Heartbeats,
    Every,     \* seconds between executions, by heartbeat
    After,     \* the initial delay or None, by heartbeat
    Age        \* bound of the ages observed, above every Every

TimersAssumption ==
    /\ Every \in [Heartbeats -> Nat]
    /\ After \in [Heartbeats -> Nat \cup {None}]
    /\ Age \in Nat /\ \A h \in Heartbeats : Every[h] < Age
    /\ None \notin Nat

VARIABLES
    phase,    \* of serve
    pc,       \* where each timer's task is
    left,     \* seconds its sleep has left
    running,  \* number of its commands that run, under the task or dropped
    idle,     \* seconds since its last command was over, up to Age
    late      \* commands it started after its handle was aborted

vars == <<phase, pc, left, running, idle, late>>

TypeOK ==
    /\ phase \in {"launching", "serving", "stopping", "reaping", "ended"}
    /\ pc \in [Heartbeats -> {"none", "sleeping", "running", "reporting", "aborting", "aborted"}]
    /\ left \in [Heartbeats -> Nat]
    /\ running \in [Heartbeats -> 0 .. 2]
    /\ idle \in [Heartbeats -> 0 .. Age]
    /\ late \in [Heartbeats -> 0 .. 2]
    /\ \A h \in Heartbeats : pc[h] = "running" => running[h] > 0
    /\ phase \in {"launching", "ended"} => \A h \in Heartbeats : pc[h] \in {"none", "aborted"}

Init ==
    /\ phase = "launching"
    /\ pc = [h \in Heartbeats |-> "none"]
    /\ left = [h \in Heartbeats |-> 0]
    /\ running = [h \in Heartbeats |-> 0]
    /\ idle = [h \in Heartbeats |-> Age]
    /\ late = [h \in Heartbeats |-> 0]

AfterOf(h) == IF After[h] = None THEN 0 ELSE After[h]
FirstDelay(h) == IF AfterOf(h) > 0 THEN AfterOf(h) ELSE Every[h]

\* start_heartbeats, once launch_all has returned.
StartHeartbeats ==
    /\ phase = "launching"
    /\ phase' = "serving"
    /\ pc' = [h \in Heartbeats |-> "sleeping"]
    /\ left' = [h \in Heartbeats |-> FirstDelay(h)]
    /\ UNCHANGED <<running, idle, late>>

LaunchFails ==
    /\ phase = "launching"
    /\ phase' = "ended"
    /\ UNCHANGED <<pc, left, running, idle, late>>

Older(a) == IF a < Age THEN a + 1 ELSE a
Asleep(h) == pc[h] = "sleeping" /\ left[h] > 0

\* A second passes; a sleep ends in the second it is due.
Tick ==
    /\ phase \in {"serving", "stopping", "reaping"}
    /\ \A h \in Heartbeats : pc[h] \in {"sleeping", "reporting"} => Asleep(h)
    /\ left' = [h \in Heartbeats |-> IF left[h] > 0 THEN left[h] - 1 ELSE 0]
    /\ idle' = [h \in Heartbeats |-> IF running[h] = 0 THEN Older(idle[h]) ELSE 0]
    /\ UNCHANGED <<phase, pc, running, late>>

\* sh -c command is spawned, to be awaited by status().
Spawn(h) ==
    /\ running[h] < 2 /\ late[h] < 2
    /\ running' = [running EXCEPT ![h] = @ + 1]
    /\ late' = IF phase = "reaping" THEN [late EXCEPT ![h] = @ + 1] ELSE late

\* The task is polled when its sleep is over, until it waits again.
Due(h) == pc[h] = "sleeping" /\ left[h] = 0

Fire(h) ==
    /\ Due(h)
    /\ \/ Spawn(h) /\ pc' = [pc EXCEPT ![h] = "running"]
       \/ pc' = [pc EXCEPT ![h] = "reporting"] /\ UNCHANGED <<running, late>>  \* cannot spawn
    /\ UNCHANGED <<phase, left, idle>>

\* A command ends, whoever waits for it.
CommandEnds(h) ==
    /\ running[h] > 0
    /\ running' = [running EXCEPT ![h] = @ - 1]
    /\ idle' = [idle EXCEPT ![h] = 0]
    /\ pc' = [pc EXCEPT ![h] = IF @ = "running" THEN "reporting" ELSE @]
    /\ UNCHANGED <<phase, left, late>>

\* A run that failed is the last one.
MutantStopsOnError(h) ==
    pc' = [pc EXCEPT ![h] = IF running[h] = 0 /\ idle[h] > 0 THEN "none" ELSE "sleeping"]
\* The outcome is broadcast, whatever it is.
Again(h) == pc' = [pc EXCEPT ![h] = "sleeping"]

MutantReportAtOnce(h) ==
    /\ pc[h] = "reporting"
    /\ Again(h)
    /\ UNCHANGED <<phase, left, running, idle, late>>
Report(h) ==
    /\ pc[h] = "reporting"
    /\ Again(h)
    /\ left' = [left EXCEPT ![h] = Every[h]]
    /\ UNCHANGED <<phase, running, idle, late>>

\* A signal or POST /api/shutdown; the orchestrator's lock may be taken.
Shutdown ==
    /\ phase = "serving"
    /\ phase' = "stopping"
    /\ UNCHANGED <<pc, left, running, idle, late>>

\* The handles are dropped, which lets the tasks run on.
MutantDetached(polled) == pc
\* JoinHandle::abort, which nobody awaits: a task that waits is dropped, one
\* that is being polled goes on until it waits again.
Aborted(polled) == [h \in Heartbeats |-> IF h \in polled THEN "aborting" ELSE "aborted"]

\* shutdown_all: the handles are aborted before the agents are awaited.  An
\* accept error drops the tasks with the runtime, which ends their polls too.
Abort ==
    /\ phase \in {"serving", "stopping"}
    /\ phase' = "reaping"
    /\ \E polled \in SUBSET {h \in Heartbeats : Due(h)} : pc' = Aborted(polled)
    /\ UNCHANGED <<left, running, idle, late>>

\* The poll that was under way ends: it may start its command.
LastPoll(h) ==
    /\ pc[h] = "aborting"
    /\ pc' = [pc EXCEPT ![h] = "aborted"]
    /\ Spawn(h) \/ UNCHANGED <<running, late>>
    /\ UNCHANGED <<phase, left, idle>>

\* The supervisors are reaped and serve returns.
Exit ==
    /\ phase = "reaping" /\ \A h \in Heartbeats : pc[h] # "aborting"
    /\ phase' = "ended"
    /\ pc' = [h \in Heartbeats |-> "aborted"]
    /\ UNCHANGED <<left, running, idle, late>>

Done == phase = "ended" /\ UNCHANGED vars

Next ==
    \/ StartHeartbeats \/ LaunchFails \/ Tick
    \/ \E h \in Heartbeats : Fire(h) \/ CommandEnds(h) \/ Report(h) \/ LastPoll(h)
    \/ Shutdown \/ Abort \/ Exit \/ Done

\* Time passes, and the runtime polls a task that can go on.  Nothing makes a
\* command end.
Fairness ==
    /\ WF_vars(Tick)
    /\ \A h \in Heartbeats : WF_vars(Fire(h)) /\ WF_vars(Report(h))

Spec == Init /\ [][Next]_vars /\ Fairness

-----------------------------------------------------------------------------
(* Properties.                                                             *)

\* A slow command never overlaps the next run of its heartbeat.
NeverOverlaps == \A h \in Heartbeats : running[h] <= 1

\* Each run starts at least Every seconds after the one before it was over,
\* however long that one took: no burst of runs makes up for lost time.
Spaced ==
    [][\A h \in Heartbeats : running'[h] > running[h] => idle[h] >= Every[h]]_vars

\* While the agents are reaped, whatever time that takes, each timer starts at
\* most the one command whose poll its abort came too late for, and a timer
\* that is no longer in such a poll starts none: the aborts are not awaited,
\* and they need not be.
TimersWindDown ==
    /\ \A h \in Heartbeats : late[h] <= 1
    /\ phase \in {"reaping", "ended"} =>
        \A h \in Heartbeats : late[h] = 1 => pc[h] = "aborted"

\* While the broker serves, a heartbeat fires again and again, whatever comes
\* of its command and of the other heartbeats, unless the command hangs.
KeepsFiring ==
    \A h \in Heartbeats :
        []<>(phase # "serving" \/ pc[h] \in {"running", "reporting"})

\* "Shutdown kills process groups ... and reaps children."
NoCommandLeft == phase = "ended" => \A h \in Heartbeats : running[h] = 0
=============================================================================
