----------------------------- MODULE Mailboxes -----------------------------
(***************************************************************************)
(* What the broker promises about mail, without leases, notifiers, locks   *)
(* or histories: every message is in one place at a time, a worker's mail  *)
(* is handed out oldest first, nothing that was handed out comes back, and *)
(* what is lost was queued for a worker that went away or was in the hands *)
(* of a connection that could not write it.                                *)
(***************************************************************************)
EXTENDS Naturals, Sequences

CONSTANTS
    WorkerIds,   \* recipients
    Clients      \* connections that ask for mail

VARIABLES
    posted,      \* the recipient of every message sent so far
    where        \* where each of them is

vars == <<posted, where>>

Queued         == <<"queued">>
Lost           == <<"lost">>
HeldBy(c)      == <<"held", c>>
DeliveredTo(c) == <<"delivered", c>>

TypeOK ==
    /\ posted \in Seq(WorkerIds)
    /\ where \in [1 .. Len(posted) ->
            {Queued, Lost} \cup {HeldBy(c) : c \in Clients} \cup {DeliveredTo(c) : c \in Clients}]

Init == posted = <<>> /\ where = <<>>

\* Any request may find that workers are gone, and their mail goes with them.
Discarded(gone) ==
    [m \in DOMAIN where |->
        IF where[m] = Queued /\ posted[m] \in gone THEN Lost ELSE where[m]]

Discard(gone) ==
    /\ where' = Discarded(gone)
    /\ UNCHANGED posted

Post(to, gone) ==
    /\ to \notin gone
    /\ posted' = Append(posted, to)
    /\ where' = [m \in 1 .. Len(posted) + 1 |->
                    IF m = Len(posted) + 1 THEN Queued ELSE Discarded(gone)[m]]

Oldest(m) ==
    /\ where[m] = Queued
    /\ \A k \in DOMAIN where : k < m /\ posted[k] = posted[m] => where[k] # Queued

Take(c, gone) ==
    /\ \A m \in DOMAIN where : where[m] # HeldBy(c)
    /\ \E m \in DOMAIN where :
        /\ Oldest(m)
        /\ posted[m] \notin gone
        /\ where' = [Discarded(gone) EXCEPT ![m] = HeldBy(c)]
    /\ UNCHANGED posted

Deliver(c) ==
    /\ \E m \in DOMAIN where :
        where[m] = HeldBy(c) /\ where' = [where EXCEPT ![m] = DeliveredTo(c)]
    /\ UNCHANGED posted

Drop(c) ==
    /\ \E m \in DOMAIN where :
        where[m] = HeldBy(c) /\ where' = [where EXCEPT ![m] = Lost]
    /\ UNCHANGED posted

Next ==
    \/ \E gone \in SUBSET WorkerIds :
        \/ Discard(gone)
        \/ \E to \in WorkerIds : Post(to, gone)
        \/ \E c \in Clients : Take(c, gone)
    \/ \E c \in Clients : Deliver(c) \/ Drop(c)

Spec == Init /\ [][Next]_vars
=============================================================================
