---------------------------- MODULE ServeSocket ----------------------------
(***************************************************************************)
(* The socket of a cell: `dispatch serve` processes that probe, unlink,    *)
(* bind and clean up one path, and clients that connect to it.             *)
(*                                                                         *)
(* `file` is the process that bound the inode now at the path.  Its        *)
(* listener answers from listen() until the process ends, whether or not   *)
(* the path still leads to it.                                             *)
(*                                                                         *)
(* A definition called Mutant... is a mistake the code could have made in  *)
(* the definition after it; no specification uses it.                      *)
(***************************************************************************)
EXTENDS Naturals, FiniteSets

CONSTANTS
    Procs,     \* serve processes of one cell; a process that ended may be started again
    Clients,   \* client commands
    None

ASSUME SocketAssumption == None \notin Procs

VARIABLES
    file,      \* who bound the socket file, None if there is no file
    pc,        \* where in serve() each process is
    result,    \* how its last run ended
    alone,     \* history: no other process was up since it began
    overlapped,  \* history: one process began while another was starting
    conn,      \* which process a client is connected to
    client     \* what a client command does

vars == <<file, pc, result, alone, overlapped, conn, client>>

Starting  == {"start", "probe", "remove", "bind", "listen"}
Listening == {"launching", "serving", "stopping", "cleanup", "unlink"}
Pending   == {"connected", "accepted"}

TypeOK ==
    /\ file \in Procs \cup {None}
    /\ pc \in [Procs -> {"off"} \cup Starting \cup Listening]
    /\ result \in [Procs -> {"none", "ok", "already_running", "io_error", "launch_error", "killed"}]
    /\ alone \in [Procs -> BOOLEAN]
    /\ overlapped \in BOOLEAN
    /\ conn \in [Clients -> Procs \cup {None}]
    /\ client \in [Clients -> {"idle", "answered", "not_running", "closed"} \cup Pending]
    /\ \A c \in Clients : client[c] \in Pending =>
          conn[c] \in Procs /\ pc[conn[c]] \in Listening

Init ==
    /\ file = None
    /\ pc = [p \in Procs |-> "off"]
    /\ result = [p \in Procs |-> "none"]
    /\ alone = [p \in Procs |-> FALSE]
    /\ overlapped = FALSE
    /\ conn = [c \in Clients |-> None]
    /\ client = [c \in Clients |-> "idle"]

-----------------------------------------------------------------------------
(* serve.                                                                  *)

\* A connection is refused unless the file's process listens: a bound socket
\* without listen() refuses, and so does one whose process is gone.
Connects == file # None /\ pc[file] \in Listening

Goto(p, l) == pc' = [pc EXCEPT ![p] = l]

\* The process ends: its listener and its connections close.
End(p, r) ==
    /\ Goto(p, "off")
    /\ result' = [result EXCEPT ![p] = r]
    /\ client' = [c \in Clients |->
                    IF conn[c] = p /\ client[c] \in Pending THEN "closed" ELSE client[c]]
    /\ conn' = [c \in Clients |-> IF conn[c] = p THEN None ELSE conn[c]]

Begin(p) ==
    /\ pc[p] = "off"
    /\ Goto(p, "start")
    /\ result' = [result EXCEPT ![p] = "none"]
    /\ overlapped' = (overlapped \/ \E q \in Procs : pc[q] \in Starting)
    /\ alone' = [q \in Procs |-> q = p /\ \A o \in Procs : pc[o] = "off"]
    /\ UNCHANGED <<file, conn, client>>

MutantUnlinkFirst(p) ==
    /\ pc[p] = "start"
    /\ Goto(p, IF file = None THEN "bind" ELSE "remove")
    /\ UNCHANGED <<file, result, alone, overlapped, conn, client>>
\* check_no_existing_broker: exists, connect, remove_file.
Exists(p) ==
    /\ pc[p] = "start"
    /\ Goto(p, IF file = None THEN "bind" ELSE "probe")
    /\ UNCHANGED <<file, result, alone, overlapped, conn, client>>

MutantProbe(p) ==
    /\ pc[p] = "probe"
    /\ End(p, "already_running")
    /\ UNCHANGED <<file, alone, overlapped>>
Probe(p) ==
    /\ pc[p] = "probe"
    /\ IF Connects
       THEN End(p, "already_running")
       ELSE Goto(p, "remove") /\ UNCHANGED <<result, conn, client>>
    /\ UNCHANGED <<file, alone, overlapped>>

Remove(p) ==
    /\ pc[p] = "remove"
    /\ IF file = None
       THEN End(p, "io_error") /\ UNCHANGED file
       ELSE Goto(p, "bind") /\ file' = None /\ UNCHANGED <<result, conn, client>>
    /\ UNCHANGED <<alone, overlapped>>

\* UnixListener::bind: bind() creates the file or fails, listen() follows.
Bind(p) ==
    /\ pc[p] = "bind"
    /\ IF file = None
       THEN Goto(p, "listen") /\ file' = p /\ UNCHANGED <<result, conn, client>>
       ELSE End(p, "io_error") /\ UNCHANGED file
    /\ UNCHANGED <<alone, overlapped>>

Listen(p) ==
    /\ pc[p] = "listen"
    /\ Goto(p, "launching")
    /\ UNCHANGED <<file, result, alone, overlapped, conn, client>>

\* launch_all; its error leaves serve by `?`, past the clean-up.
Launched(p) ==
    /\ pc[p] = "launching"
    /\ \/ Goto(p, "serving") /\ UNCHANGED <<result, conn, client>>
       \/ End(p, "launch_error")
    /\ UNCHANGED <<file, alone, overlapped>>

\* A signal or the monitor: accept_loop is dropped, shutdown_all runs.  An
\* error of accept() skips shutdown_all.
Stop(p) ==
    /\ pc[p] = "serving"
    /\ \E l \in {"stopping", "cleanup"} : Goto(p, l)
    /\ UNCHANGED <<file, result, alone, overlapped, conn, client>>

MutantGraceful(p) ==
    /\ pc[p] = "stopping"
    /\ \A c \in Clients : conn[c] # p
    /\ Goto(p, "cleanup")
    /\ UNCHANGED <<file, result, alone, overlapped, conn, client>>
ShutDown(p) ==
    /\ pc[p] = "stopping"
    /\ Goto(p, "cleanup")
    /\ UNCHANGED <<file, result, alone, overlapped, conn, client>>

CleanUp(p) ==
    /\ pc[p] = "cleanup"
    /\ IF file = None
       THEN End(p, "ok")
       ELSE Goto(p, "unlink") /\ UNCHANGED <<result, conn, client>>
    /\ UNCHANGED <<file, alone, overlapped>>

\* remove_file by path: whoever's file is there now.  A failure is logged.
Unlink(p) ==
    /\ pc[p] = "unlink"
    /\ file' = None
    /\ End(p, "ok")
    /\ UNCHANGED <<alone, overlapped>>

\* The process is killed anywhere; a bound file stays behind.
Kill(p) ==
    /\ pc[p] # "off"
    /\ End(p, "killed")
    /\ UNCHANGED <<file, alone, overlapped>>

-----------------------------------------------------------------------------
(* Clients: send_request.                                                  *)

Connect(c) ==
    /\ client[c] = "idle"
    /\ IF Connects
       THEN /\ conn' = [conn EXCEPT ![c] = file]
            /\ client' = [client EXCEPT ![c] = "connected"]
       ELSE client' = [client EXCEPT ![c] = "not_running"] /\ UNCHANGED conn
    /\ UNCHANGED <<file, pc, result, alone, overlapped>>

\* accept_loop takes the connection from the backlog and spawns its handler.
Accept(c) ==
    /\ client[c] = "connected"
    /\ pc[conn[c]] = "serving"
    /\ client' = [client EXCEPT ![c] = "accepted"]
    /\ UNCHANGED <<file, pc, result, alone, overlapped, conn>>

\* The handler answers; it runs on through the shutdown until the process ends.
Answer(c) ==
    /\ client[c] = "accepted"
    /\ client' = [client EXCEPT ![c] = "answered"]
    /\ conn' = [conn EXCEPT ![c] = None]
    /\ UNCHANGED <<file, pc, result, alone, overlapped>>

\* The command has printed its outcome; another one may follow.
Done(c) ==
    /\ client[c] \in {"answered", "not_running", "closed"}
    /\ client' = [client EXCEPT ![c] = "idle"]
    /\ UNCHANGED <<file, pc, result, alone, overlapped, conn>>

-----------------------------------------------------------------------------

ProcStep(p) ==
    \/ Exists(p) \/ Probe(p) \/ Remove(p) \/ Bind(p) \/ Listen(p)
    \/ Launched(p) \/ ShutDown(p) \/ CleanUp(p) \/ Unlink(p)

ClientStep(c) == Accept(c) \/ Answer(c)

Next ==
    \/ \E p \in Procs : Begin(p) \/ ProcStep(p) \/ Stop(p) \/ Kill(p)
    \/ \E c \in Clients : Connect(c) \/ ClientStep(c) \/ Done(c)

\* A process goes on until it serves, and goes on ending; a serving process
\* accepts, and its handlers answer.  Nothing makes processes begin or end.
Fairness ==
    /\ \A p \in Procs : WF_vars(ProcStep(p))
    /\ \A c \in Clients : WF_vars(ClientStep(c))

Spec == Init /\ [][Next]_vars /\ Fairness

-----------------------------------------------------------------------------
(* Properties.                                                             *)

\* The type invariant is above; it includes that a pending client is connected
\* to a process that is up.

\* A process that starts while nobody else is up gets to serve, whatever
\* files earlier crashes, failed launches and half-finished clean-ups left.
AloneSucceeds ==
    \A p \in Procs : alone[p] => result[p] \notin {"already_running", "io_error"}

\* While starts have not overlapped, at most one process serves the cell, and
\* it stays reachable until it has cleaned up: nobody else's probe, unlink or
\* clean-up takes its file away, whatever processes crash meanwhile.
Reachable ==
    ~ overlapped => \A p \in Procs : pc[p] \in Listening => file = p

\* "Stale socket file from a previous crashed run -- remove it": the file a
\* starting process removes belongs to nobody that is up.
RemovesOnlyStale ==
    [][\A p \in Procs :
        pc[p] = "remove" /\ pc'[p] = "bind" => pc[file] \notin Listening \cup {"listen"}]_vars

\* A client that got a connection gets an answer or an error, even one that
\* sits in the backlog of a process that no longer accepts.
ClientsDecided ==
    \A c \in Clients : client[c] \in Pending ~> client[c] \notin Pending

\* Every start is decided: it serves or reports why not.
StartsDecided ==
    \A p \in Procs : pc[p] \in Starting ~> pc[p] \in {"serving", "off"}

\* Nobody waits for ever: every client and every start is decided.
EveryoneDecided == ClientsDecided /\ StartsDecided
=============================================================================
