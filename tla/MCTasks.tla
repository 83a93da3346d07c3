------------------------------ MODULE MCTasks ------------------------------
(***************************************************************************)
(* Two parts of a serve process for TLC: what can be learnt of its past,   *)
(* and its heartbeats.  They share no state, so that a behaviour is about  *)
(* one of them and the other keeps its first state, in which no task has   *)
(* anything to do: the fairness of the one asks nothing of the other.      *)
(***************************************************************************)
EXTENDS EventFeed

CONSTANTS Heartbeats, Every, After, Age, often, seldom

VARIABLES part, phase, pc, left, running, idle, late

feedVars == vars
timerVars == <<phase, pc, left, running, idle, late>>

\* One heartbeat at once and often, one late and seldom.
MCEvery == [h \in {often, seldom} |-> IF h = often THEN 1 ELSE 3]
MCAfter == [h \in {often, seldom} |-> IF h = often THEN None ELSE 2]

Timers == INSTANCE HeartbeatTimers

ASSUME HeartbeatsAssumption == Timers!TimersAssumption

MCInit == part \in {"feed", "timers"} /\ Init /\ Timers!Init

MCNext ==
    \/ part = "feed" /\ Next /\ UNCHANGED <<part, timerVars>>
    \/ part = "timers" /\ Timers!Next /\ UNCHANGED <<part, feedVars>>

MCSpec ==
    /\ MCInit /\ [][MCNext]_<<part, feedVars, timerVars>>
    /\ Fairness /\ Timers!Fairness

\* Runs of a heartbeat keep their distance (see HeartbeatTimers).
Spaced == Timers!Spaced

\* After the abort a timer starts one command at most (see HeartbeatTimers).
TimersWindDown == Timers!TimersWindDown

\* A heartbeat fires again and again (see HeartbeatTimers).
KeepsFiring == Timers!KeepsFiring

\* A shutdown leaves no command behind (see HeartbeatTimers).
NoCommandLeft == Timers!NoCommandLeft
=============================================================================
