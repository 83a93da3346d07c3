------------------------- MODULE ServeSocketProofs -------------------------
(***************************************************************************)
(* Proofs about ServeSocket for any number of processes and clients: its   *)
(* types; that a process that starts alone gets to serve; and that, while  *)
(* starts do not overlap, each broker keeps the file it has bound.         *)
(***************************************************************************)
EXTENDS ServeSocket, TLAPS

\* The state that clients leave alone.
ProcVars == <<file, pc, result, alone, overlapped>>

\* A process that ends closes its connections and leaves the others alone.
LEMMA EndKeepsClients ==
    ASSUME TypeOK, NEW p \in Procs, NEW r, End(p, r)
    PROVE  /\ conn' \in [Clients -> Procs \cup {None}]
           /\ client' \in [Clients -> {"idle", "answered", "not_running", "closed"} \cup Pending]
           /\ \A c \in Clients : client'[c] \in Pending =>
                    conn'[c] \in Procs /\ pc'[conn'[c]] \in Listening
<1>1. conn' = [c \in Clients |-> IF conn[c] = p THEN None ELSE conn[c]]
    BY DEF End
<1>2. client' = [c \in Clients |->
            IF conn[c] = p /\ client[c] \in Pending THEN "closed" ELSE client[c]]
    BY DEF End
<1>3. pc' = [pc EXCEPT ![p] = "off"]
    BY DEF End, Goto
<1>4. ASSUME NEW c \in Clients, client'[c] \in Pending
      PROVE  conn'[c] \in Procs /\ pc'[conn'[c]] \in Listening
    <2>1. conn[c] # p /\ client[c] \in Pending
        BY <1>2, <1>4 DEF Pending
    <2>2. conn'[c] = conn[c] /\ conn[c] \in Procs /\ pc[conn[c]] \in Listening
        BY <1>1, <2>1 DEF TypeOK
    <2> QED
        BY <1>3, <2>1, <2>2 DEF TypeOK
<1> QED
    BY <1>1, <1>2, <1>4 DEF TypeOK, Pending

\* A step of a process among the listening ones keeps its clients.
LEMMA ListeningStep ==
    ASSUME TypeOK, NEW p \in Procs, NEW l \in Listening, Goto(p, l), UNCHANGED <<conn, client>>
    PROVE  /\ pc' \in [Procs -> {"off"} \cup Starting \cup Listening]
           /\ \A c \in Clients : client'[c] \in Pending =>
                    conn'[c] \in Procs /\ pc'[conn'[c]] \in Listening
<1>1. pc' = [pc EXCEPT ![p] = l]
    BY DEF Goto
<1> QED
    BY <1>1 DEF TypeOK

\* A process that does not listen has no clients.
LEMMA StartingStep ==
    ASSUME TypeOK, NEW p \in Procs, NEW l \in {"off"} \cup Starting \cup Listening,
           pc[p] \notin Listening, Goto(p, l), UNCHANGED <<conn, client>>
    PROVE  /\ pc' \in [Procs -> {"off"} \cup Starting \cup Listening]
           /\ \A c \in Clients : client'[c] \in Pending =>
                    conn'[c] \in Procs /\ pc'[conn'[c]] \in Listening
<1>1. pc' = [pc EXCEPT ![p] = l]
    BY DEF Goto
<1> QED
    BY <1>1 DEF TypeOK

Results == {"none", "ok", "already_running", "io_error", "launch_error", "killed"}

LEMMA EndType ==
    ASSUME TypeOK, NEW p \in Procs, NEW r \in Results, End(p, r), file' \in Procs \cup {None},
           UNCHANGED <<alone, overlapped>>
    PROVE  TypeOK'
<1>1. pc' = [pc EXCEPT ![p] = "off"] /\ result' = [result EXCEPT ![p] = r]
    BY DEF End, Goto
<1>2. /\ pc' \in [Procs -> {"off"} \cup Starting \cup Listening]
      /\ result' \in [Procs -> Results]
    BY <1>1 DEF TypeOK, Results
<1> QED
    BY <1>2, EndKeepsClients DEF TypeOK, Results

LEMMA GoonType ==
    ASSUME TypeOK, NEW p \in Procs, NEW l \in Starting \cup Listening,
           pc[p] \in Listening => l \in Listening, Goto(p, l),
           file' \in Procs \cup {None}, UNCHANGED <<result, alone, overlapped, conn, client>>
    PROVE  TypeOK'
<1>1. CASE pc[p] \in Listening
    BY <1>1, ListeningStep DEF TypeOK
<1>2. CASE pc[p] \notin Listening
    BY <1>2, StartingStep DEF TypeOK
<1> QED
    BY <1>1, <1>2

LEMMA TypeStep == TypeOK /\ [Next]_vars => TypeOK'
<1> SUFFICES ASSUME TypeOK, [Next]_vars PROVE TypeOK'
    OBVIOUS
<1> USE DEF Starting, Listening, Results
<1>1. ASSUME NEW p \in Procs, Begin(p) PROVE TypeOK'
    <2>1. /\ pc' \in [Procs -> {"off"} \cup Starting \cup Listening]
          /\ \A c \in Clients : client'[c] \in Pending =>
                    conn'[c] \in Procs /\ pc'[conn'[c]] \in Listening
        BY <1>1, StartingStep DEF Begin
    <2> QED
        BY <1>1, <2>1 DEF Begin, TypeOK
<1>2. ASSUME NEW p \in Procs, Exists(p) PROVE TypeOK'
    <2>1. CASE file = None
        BY <1>2, <2>1, GoonType DEF Exists, TypeOK
    <2>2. CASE file # None
        BY <1>2, <2>2, GoonType DEF Exists, TypeOK
    <2> QED
        BY <2>1, <2>2
<1>3. ASSUME NEW p \in Procs, Probe(p) PROVE TypeOK'
    <2>1. CASE Connects
        BY <1>3, <2>1, EndType DEF Probe, TypeOK
    <2>2. CASE ~Connects
        BY <1>3, <2>2, GoonType DEF Probe, TypeOK
    <2> QED
        BY <2>1, <2>2
<1>4. ASSUME NEW p \in Procs, Remove(p) PROVE TypeOK'
    <2>1. CASE file = None
        BY <1>4, <2>1, EndType DEF Remove, TypeOK
    <2>2. CASE file # None
        BY <1>4, <2>2, GoonType DEF Remove, TypeOK
    <2> QED
        BY <2>1, <2>2
<1>5. ASSUME NEW p \in Procs, Bind(p) PROVE TypeOK'
    <2>1. CASE file # None
        BY <1>5, <2>1, EndType DEF Bind, TypeOK
    <2>2. CASE file = None
        BY <1>5, <2>2, GoonType DEF Bind, TypeOK
    <2> QED
        BY <2>1, <2>2
<1>6. ASSUME NEW p \in Procs, Listen(p) PROVE TypeOK'
    BY <1>6, GoonType DEF Listen, TypeOK
<1>7. ASSUME NEW p \in Procs, Launched(p) PROVE TypeOK'
    <2>1. CASE Goto(p, "serving") /\ UNCHANGED <<result, conn, client>>
        BY <1>7, <2>1, GoonType DEF Launched, TypeOK
    <2>2. CASE End(p, "launch_error")
        BY <1>7, <2>2, EndType DEF Launched, TypeOK
    <2> QED
        BY <1>7, <2>1, <2>2 DEF Launched
<1>8. ASSUME NEW p \in Procs, Stop(p) PROVE TypeOK'
    BY <1>8, GoonType DEF Stop, TypeOK
<1>9. ASSUME NEW p \in Procs, ShutDown(p) PROVE TypeOK'
    BY <1>9, GoonType DEF ShutDown, TypeOK
<1>10. ASSUME NEW p \in Procs, CleanUp(p) PROVE TypeOK'
    <2>1. CASE file = None
        BY <1>10, <2>1, EndType DEF CleanUp, TypeOK
    <2>2. CASE file # None
        BY <1>10, <2>2, GoonType DEF CleanUp, TypeOK
    <2> QED
        BY <2>1, <2>2
<1>11. ASSUME NEW p \in Procs, Unlink(p) PROVE TypeOK'
    BY <1>11, EndType DEF Unlink, TypeOK
<1>12. ASSUME NEW p \in Procs, Kill(p) PROVE TypeOK'
    BY <1>12, EndType DEF Kill, TypeOK
<1>13. ASSUME NEW c \in Clients, Connect(c) PROVE TypeOK'
    BY <1>13 DEF Connect, Connects, TypeOK, Pending
<1>14. ASSUME NEW c \in Clients, Accept(c) PROVE TypeOK'
    BY <1>14 DEF Accept, TypeOK, Pending
<1>15. ASSUME NEW c \in Clients, Answer(c) PROVE TypeOK'
    BY <1>15 DEF Answer, TypeOK, Pending
<1>16. ASSUME NEW c \in Clients, Done(c) PROVE TypeOK'
    BY <1>16 DEF Done, TypeOK, Pending
<1>17. CASE UNCHANGED vars
    BY <1>17 DEF vars, TypeOK, Pending
<1> QED
    BY <1>1, <1>2, <1>3, <1>4, <1>5, <1>6, <1>7, <1>8, <1>9, <1>10, <1>11, <1>12, <1>13,
       <1>14, <1>15, <1>16, <1>17 DEF Next, ProcStep, ClientStep

\* Every variable keeps its type, and a client that waits is connected to a
\* process that is up.
THEOREM TypeCorrect == Spec => []TypeOK
<1>1. Init => TypeOK
    BY DEF Init, TypeOK, Pending
<1> QED
    BY <1>1, TypeStep, PTL DEF Spec

-----------------------------------------------------------------------------
(* A process that starts alone.                                            *)

\* Nobody else is up, so the file changes in its own steps only: it probes and
\* removes a file that is there and binds a path that is free.
AloneInv ==
    \A p \in Procs : alone[p] =>
        /\ \A q \in Procs \ {p} : pc[q] = "off"
        /\ pc[p] \in {"probe", "remove"} => file # None
        /\ pc[p] = "bind" => file = None
        /\ result[p] \notin {"already_running", "io_error"}

LEMMA AloneStep == TypeOK /\ AloneInv /\ [Next]_vars => AloneInv'
<1> SUFFICES ASSUME TypeOK, AloneInv, [Next]_vars PROVE AloneInv'
    OBVIOUS
<1> USE SocketAssumption DEF Starting, Listening
<1>1. ASSUME NEW p \in Procs, Begin(p) PROVE AloneInv'
    <2>1. alone' = [q \in Procs |-> q = p /\ \A o \in Procs : pc[o] = "off"]
        BY <1>1 DEF Begin
    <2>2. pc' = [pc EXCEPT ![p] = "start"] /\ result' = [result EXCEPT ![p] = "none"]
        BY <1>1 DEF Begin, Goto
    <2> QED
        BY <2>1, <2>2 DEF AloneInv, TypeOK
<1>2. ASSUME NEW p \in Procs, Exists(p) PROVE AloneInv'
    BY <1>2 DEF Exists, Goto, AloneInv, TypeOK
<1>3. ASSUME NEW p \in Procs, Probe(p) PROVE AloneInv'
    <2>1. CASE Connects
        <3>1. \A q \in Procs : ~alone[q]
            <4> SUFFICES ASSUME NEW q \in Procs, alone[q] PROVE FALSE
                OBVIOUS
            <4>1. q = p
                BY <1>3 DEF Probe, AloneInv
            <4> QED
                BY <1>3, <2>1, <4>1 DEF Probe, Connects, AloneInv, TypeOK
        <3> QED
            BY <1>3, <3>1 DEF Probe, AloneInv
    <2>2. CASE ~Connects
        BY <1>3, <2>2 DEF Probe, Goto, Connects, AloneInv, TypeOK
    <2> QED
        BY <2>1, <2>2
<1>4. ASSUME NEW p \in Procs, Remove(p) PROVE AloneInv'
    BY <1>4 DEF Remove, End, Goto, AloneInv, TypeOK
<1>5. ASSUME NEW p \in Procs, Bind(p) PROVE AloneInv'
    BY <1>5 DEF Bind, End, Goto, AloneInv, TypeOK
<1>6. ASSUME NEW p \in Procs, Listen(p) PROVE AloneInv'
    BY <1>6 DEF Listen, Goto, AloneInv, TypeOK
<1>7. ASSUME NEW p \in Procs, Launched(p) PROVE AloneInv'
    BY <1>7 DEF Launched, End, Goto, AloneInv, TypeOK
<1>8. ASSUME NEW p \in Procs, Stop(p) PROVE AloneInv'
    BY <1>8 DEF Stop, Goto, AloneInv, TypeOK
<1>9. ASSUME NEW p \in Procs, ShutDown(p) PROVE AloneInv'
    BY <1>9 DEF ShutDown, Goto, AloneInv, TypeOK
<1>10. ASSUME NEW p \in Procs, CleanUp(p) PROVE AloneInv'
    BY <1>10 DEF CleanUp, End, Goto, AloneInv, TypeOK
<1>11. ASSUME NEW p \in Procs, Unlink(p) PROVE AloneInv'
    BY <1>11 DEF Unlink, End, Goto, AloneInv, TypeOK
<1>12. ASSUME NEW p \in Procs, Kill(p) PROVE AloneInv'
    BY <1>12 DEF Kill, End, Goto, AloneInv, TypeOK
<1>13. CASE UNCHANGED ProcVars
    BY <1>13 DEF ProcVars, AloneInv
<1> QED
    BY <1>1, <1>2, <1>3, <1>4, <1>5, <1>6, <1>7, <1>8, <1>9, <1>10, <1>11, <1>12, <1>13
    DEF Next, ProcStep, ClientStep, Connect, Accept, Answer, Done, vars, ProcVars

\* A process that starts while no other is up never reports that a broker is
\* running and never fails to bind, whatever file it finds.
THEOREM AloneSucceedsHolds == Spec => []AloneSucceeds
<1>1. Init => TypeOK /\ AloneInv
    BY DEF Init, TypeOK, Pending, AloneInv
<1>2. AloneInv => AloneSucceeds
    BY DEF AloneInv, AloneSucceeds
<1>3. TypeOK /\ AloneInv /\ [Next]_vars => TypeOK' /\ AloneInv'
    BY TypeStep, AloneStep
<1> QED
    BY <1>1, <1>2, <1>3, PTL DEF Spec

-----------------------------------------------------------------------------
(* Starts that do not overlap.                                             *)

Bound == Listening \cup {"listen"}

\* One process starts at a time; who has bound the path keeps it, and nobody
\* is about to remove or bind while another one has it.
SerialInv ==
    ~overlapped =>
        /\ \A p, q \in Procs : pc[p] \in Starting /\ pc[q] \in Starting => p = q
        /\ \A p \in Procs : pc[p] \in Bound => file = p
        /\ \A p, q \in Procs : pc[p] \in {"remove", "bind"} => pc[q] \notin Bound

LEMMA SerialStep == TypeOK /\ SerialInv /\ [Next]_vars => SerialInv'
<1> SUFFICES ASSUME TypeOK, SerialInv, [Next]_vars, ~overlapped' PROVE SerialInv'
    BY DEF SerialInv
<1> USE SocketAssumption DEF Starting, Listening, Bound
<1>0. ~overlapped
    BY DEF Next, ProcStep, ClientStep, Begin, Exists, Probe, Remove, Bind, Listen, Launched,
        Stop, ShutDown, CleanUp, Unlink, Kill, Connect, Accept, Answer, Done, vars
<1>1. ASSUME NEW p \in Procs, Begin(p) PROVE SerialInv'
    <2>1. \A q \in Procs : pc[q] \notin Starting
        BY <1>1 DEF Begin
    <2>2. pc' = [pc EXCEPT ![p] = "start"] /\ file' = file
        BY <1>1 DEF Begin, Goto
    <2> QED
        BY <1>0, <2>1, <2>2 DEF SerialInv, TypeOK
<1>2. ASSUME NEW p \in Procs, Exists(p) PROVE SerialInv'
    BY <1>0, <1>2 DEF Exists, Goto, SerialInv, TypeOK
<1>3. ASSUME NEW p \in Procs, Probe(p) PROVE SerialInv'
    <2>1. CASE Connects
        BY <1>0, <1>3, <2>1 DEF Probe, End, Goto, SerialInv, TypeOK
    <2>2. CASE ~Connects
        <3>1. \A q \in Procs : pc[q] \notin Bound
            BY <1>0, <1>3, <2>2 DEF Probe, Connects, SerialInv, TypeOK
        <3>2. pc' = [pc EXCEPT ![p] = "remove"] /\ file' = file
            BY <1>3, <2>2 DEF Probe, Goto
        <3> QED
            BY <1>0, <1>3, <3>1, <3>2 DEF Probe, SerialInv, TypeOK
    <2> QED
        BY <2>1, <2>2
<1>4. ASSUME NEW p \in Procs, Remove(p) PROVE SerialInv'
    BY <1>0, <1>4 DEF Remove, End, Goto, SerialInv, TypeOK
<1>5. ASSUME NEW p \in Procs, Bind(p) PROVE SerialInv'
    BY <1>0, <1>5 DEF Bind, End, Goto, SerialInv, TypeOK
<1>6. ASSUME NEW p \in Procs, Listen(p) PROVE SerialInv'
    BY <1>0, <1>6 DEF Listen, Goto, SerialInv, TypeOK
<1>7. ASSUME NEW p \in Procs, Launched(p) PROVE SerialInv'
    BY <1>0, <1>7 DEF Launched, End, Goto, SerialInv, TypeOK
<1>8. ASSUME NEW p \in Procs, Stop(p) PROVE SerialInv'
    BY <1>0, <1>8 DEF Stop, Goto, SerialInv, TypeOK
<1>9. ASSUME NEW p \in Procs, ShutDown(p) PROVE SerialInv'
    BY <1>0, <1>9 DEF ShutDown, Goto, SerialInv, TypeOK
<1>10. ASSUME NEW p \in Procs, CleanUp(p) PROVE SerialInv'
    BY <1>0, <1>10 DEF CleanUp, End, Goto, SerialInv, TypeOK
<1>11. ASSUME NEW p \in Procs, Unlink(p) PROVE SerialInv'
    BY <1>0, <1>11 DEF Unlink, End, Goto, SerialInv, TypeOK
<1>12. ASSUME NEW p \in Procs, Kill(p) PROVE SerialInv'
    BY <1>0, <1>12 DEF Kill, End, Goto, SerialInv, TypeOK
<1>13. CASE UNCHANGED ProcVars
    BY <1>13 DEF ProcVars, SerialInv
<1> QED
    BY <1>1, <1>2, <1>3, <1>4, <1>5, <1>6, <1>7, <1>8, <1>9, <1>10, <1>11, <1>12, <1>13
    DEF Next, ProcStep, ClientStep, Connect, Accept, Answer, Done, vars, ProcVars

\* While no start has overlapped another, a broker that listens is the one the
\* path leads to: no probe, clean-up or crash of another takes its file away.
THEOREM ReachableHolds == Spec => []Reachable
<1>1. Init => TypeOK /\ SerialInv
    BY DEF Init, TypeOK, Pending, SerialInv, Starting, Bound, Listening
<1>2. SerialInv => Reachable
    BY DEF SerialInv, Reachable, Bound
<1>3. TypeOK /\ SerialInv /\ [Next]_vars => TypeOK' /\ SerialInv'
    BY TypeStep, SerialStep
<1> QED
    BY <1>1, <1>2, <1>3, PTL DEF Spec
=============================================================================
