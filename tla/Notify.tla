------------------------------- MODULE Notify -------------------------------
(***************************************************************************)
(* tokio::sync::Notify, the single-permit wake-up object the broker keeps  *)
(* for each worker that somebody listens for.  The library is not part of  *)
(* the repository; it is modelled from the calls local.rs makes: notify_one*)
(* when a message is queued, notified() inside tokio::time::timeout, and   *)
(* the drop of a Notified future whose timeout has elapsed.                *)
(*                                                                         *)
(*   permit    the one permit a notify_one with nobody waiting leaves      *)
(*   waiters   futures polled at least once and not yet notified, in order *)
(*   notified  futures notified and not polled since                       *)
(***************************************************************************)
EXTENDS Naturals, Sequences, SequencesExt

NotifyState(Waiter) ==
    [permit: BOOLEAN, waiters: Seq(Waiter), notified: SUBSET Waiter]

NewNotify == [permit |-> FALSE, waiters |-> <<>>, notified |-> {}]

\* Wake the longest waiting future, or leave the permit (it does not add up).
NotifyOne(n) ==
    IF n.waiters = <<>>
    THEN [n EXCEPT !.permit = TRUE]
    ELSE [n EXCEPT !.waiters = Tail(@), !.notified = @ \cup {Head(n.waiters)}]

\* First poll of a Notified future: take the permit, or join the queue.
TakePermit(n) == [n EXCEPT !.permit = FALSE]
JoinWaiters(n, c) == [n EXCEPT !.waiters = Append(@, c)]

\* A later poll of a future that has been notified: it is ready.
Resolve(n, c) == [n EXCEPT !.notified = @ \ {c}]

\* A future stands in the queue once, so which index is chosen is no choice.
Unlink(waiters, c) ==
    IF c \in ToSet(waiters)
    THEN RemoveAt(waiters, CHOOSE i \in DOMAIN waiters : waiters[i] = c)
    ELSE waiters

\* Drop of a future that never became ready: a notification it had received
\* meanwhile goes to the next waiter.
DropNotified(n, c) ==
    IF c \in n.notified
    THEN NotifyOne(Resolve(n, c))
    ELSE [n EXCEPT !.waiters = Unlink(@, c)]

=============================================================================
