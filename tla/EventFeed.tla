----------------------------- MODULE EventFeed -----------------------------
(***************************************************************************)
(* What can be learnt of a broker's past: the bounded histories and the    *)
(* queries on them, the broadcast channel and the browsers that stream it, *)
(* and a user who follows the log by polling it.  Broker models the        *)
(* requests themselves; here they only leave their traces.                 *)
(*                                                                         *)
(* Event n is the n-th one emitted, message m the m-th one sent.           *)
(*                                                                         *)
(* A definition called Mutant... is a mistake the code could have made in  *)
(* the definition after it; no specification uses it.                      *)
(***************************************************************************)
EXTENDS Naturals, Sequences, FiniteSets, SequencesExt

CONSTANTS
    None,
    Workers,
    Browsers,       \* clients of GET /api/events
    Capacity,       \* of broadcast::channel
    EventMax,       \* event_history_max
    MessageMax,     \* message_history_max
    DefaultLimit,   \* of a query without --limit: 100
    Window,         \* a user asks for the last Window seconds, or None:
                    \* since the newest event that the user has seen
    WordMax,        \* u64::MAX
    MaxEvents,      \* bound of the events emitted
    MaxNow          \* bound of the clock

ASSUME FeedAssumption ==
    /\ {Capacity, EventMax, MessageMax, DefaultLimit} \subseteq Nat \ {0}
    /\ {WordMax, MaxEvents, MaxNow} \subseteq Nat
    /\ Window \in Nat \cup {None} /\ None \notin Workers \cup Nat \cup {"s"}

VARIABLES
    now,
    event_history, message_history,   \* bounded, oldest first
    emitted,     \* all events broadcast so far
    posted,      \* number of messages sent so far
    next,        \* position of each browser's receiver, or None
    streamed,    \* the events each browser received, in order
    since,       \* --since of the user's query in flight, or None
    followed,    \* the events the user has seen
    newest,      \* timestamp of the newest of them
    covered      \* the time that the user's queries cover: from, up to

vars == <<now, event_history, message_history, emitted, posted, next, streamed,
          since, followed, newest, covered>>
user == <<since, followed, newest, covered>>

-----------------------------------------------------------------------------
(* Queries.                                                                *)

LeastOf(a, b) == IF a <= b THEN a ELSE b
First(s, n) == SubSeq(s, 1, LeastOf(n, Len(s)))

Earliest(from, at) == from = None \/ at >= from
Wanted(x, y) == x = None \/ x = y

MutantStrictSince(from, to, kind, worker, e) ==
    /\ from = None \/ e.timestamp > from
    /\ to = None \/ e.timestamp <= to
    /\ Wanted(kind, e.kind)
    /\ Wanted(worker, e.worker)
EventMatches(from, to, kind, worker, e) ==
    /\ Earliest(from, e.timestamp)
    /\ to = None \/ e.timestamp <= to
    /\ Wanted(kind, e.kind)
    /\ Wanted(worker, e.worker)

MutantOldestFirst(history, matching) ==
    LET ahead[i \in 0 .. Len(history)] ==
            IF i = 0 THEN <<>>
            ELSE IF i \in matching THEN Append(ahead[i - 1], history[i]) ELSE ahead[i - 1]
    IN  ahead[Len(history)]
\* iter().rev().filter(): the entries at the matching positions, newest first.
Backwards(history, matching) ==
    LET back[i \in 0 .. Len(history)] ==
            IF i = 0 THEN <<>>
            ELSE IF i \in matching THEN <<history[i]>> \o back[i - 1] ELSE back[i - 1]
    IN  back[Len(history)]

Limited(limit) == IF limit = None THEN DefaultLimit ELSE limit

QueryEvents(history, from, to, kind, worker, limit) ==
    First(Backwards(history, {i \in DOMAIN history :
            EventMatches(from, to, kind, worker, history[i])}), Limited(limit))

MessageMatches(worker, unacked, sent, from, m) ==
    /\ IF sent THEN m.from = worker ELSE m.to = worker
    /\ unacked => m.delivered /\ ~m.acked
    /\ Earliest(from, m.sent_at)

\* A lookup by id ignores every other filter.
QueryMessages(history, worker, unacked, sent, from, limit, id) ==
    IF id # None THEN SelectSeq(history, LAMBDA m : m.id = id)
    ELSE First(Backwards(history, {i \in DOMAIN history :
            MessageMatches(worker, unacked, sent, from, history[i])}), Limited(limit))

\* What --since takes: a number of seconds, or one of a unit before now.
Seconds == [s |-> 1, m |-> 60, h |-> 3600, d |-> 86400]
MutantWrappingSub(t) ==
    IF t.unit = None THEN t.n
    ELSE IF t.n * Seconds[t.unit] > WordMax THEN None
    ELSE (now + WordMax + 1 - t.n * Seconds[t.unit]) % (WordMax + 1)
ParseTimestamp(t) ==
    IF t.unit = None THEN t.n
    ELSE IF t.n * Seconds[t.unit] > WordMax THEN None
    ELSE IF t.n * Seconds[t.unit] > now THEN 0
    ELSE now - t.n * Seconds[t.unit]

-----------------------------------------------------------------------------

Event(kind, worker) == [n |-> Len(emitted) + 1, kind |-> kind, worker |-> worker, timestamp |-> now]

LastOf(s, n) == IF Len(s) > n THEN SubSeq(s, Len(s) - n + 1, Len(s)) ELSE s

\* emit_and_record: broadcast and keep.
EmitAndRecord(kind, worker) ==
    /\ Len(emitted) < MaxEvents
    /\ emitted' = Append(emitted, Event(kind, worker))
    /\ event_history' = LastOf(Append(event_history, Event(kind, worker)), EventMax)

\* Sender::send alone.
EmitOnly(kind, worker) ==
    /\ Len(emitted) < MaxEvents
    /\ emitted' = Append(emitted, Event(kind, worker))
    /\ UNCHANGED event_history

TypeOK ==
    /\ now \in 0 .. MaxNow /\ posted <= Len(emitted)
    /\ \A i \in DOMAIN event_history : event_history[i] = emitted[event_history[i].n]
    /\ Len(event_history) <= EventMax /\ Len(message_history) <= MessageMax
    /\ \A b \in Browsers : next[b] = None \/ next[b] <= Len(emitted) + 1
    /\ followed \subseteq 1 .. Len(emitted)
    /\ since = None \/ since <= now
    /\ covered.from <= covered.upto + 1 /\ covered.upto <= now

Init ==
    /\ now = 0
    /\ event_history = <<>> /\ message_history = <<>>
    /\ emitted = <<>> /\ posted = 0
    /\ next = [b \in Browsers |-> None]
    /\ streamed = [b \in Browsers |-> <<>>]
    /\ since = None /\ followed = {} /\ newest = 0
    /\ covered = [from |-> 0, upto |-> 0]

Tick ==
    /\ now < MaxNow
    /\ now' = now + 1
    /\ UNCHANGED <<event_history, message_history, emitted, posted, next, streamed, user>>

Send(from, to) ==
    /\ EmitAndRecord("send", to)
    /\ posted' = posted + 1
    /\ message_history' = LastOf(Append(message_history,
            [id |-> posted + 1, from |-> from, to |-> to, sent_at |-> now,
             delivered |-> FALSE, acked |-> FALSE]), MessageMax)
    /\ UNCHANGED <<now, next, streamed, user>>

\* pop_message and its event; a message that was trimmed is still delivered.
Deliver(i) ==
    /\ ~message_history[i].delivered
    /\ EmitAndRecord("deliver", message_history[i].to)
    /\ message_history' = [message_history EXCEPT ![i].delivered = TRUE]
    /\ UNCHANGED <<now, posted, next, streamed, user>>

Ack(i) ==
    /\ EmitAndRecord("ack", message_history[i].to)
    /\ message_history' = [message_history EXCEPT ![i].acked = TRUE]
    /\ UNCHANGED <<now, posted, next, streamed, user>>

\* A worker's lease runs out: listen records it.
Expire(w) ==
    /\ EmitAndRecord("expire", w)
    /\ UNCHANGED <<now, message_history, posted, next, streamed, user>>

\* api_team's evictions and the heartbeat timers reach only the channel.
ExpireInTeam(w) ==
    /\ EmitOnly("expire", w)
    /\ UNCHANGED <<now, message_history, posted, next, streamed, user>>

TimerFired ==
    /\ EmitOnly("heartbeat", None)
    /\ UNCHANGED <<now, message_history, posted, next, streamed, user>>

-----------------------------------------------------------------------------
(* The stream of /api/events.                                              *)

Subscribe(b) ==
    /\ next[b] = None
    /\ next' = [next EXCEPT ![b] = Len(emitted) + 1]
    /\ streamed' = [streamed EXCEPT ![b] = <<>>]
    /\ UNCHANGED <<now, event_history, message_history, emitted, posted, user>>

\* The channel keeps the last Capacity events.
OldestKept == IF Len(emitted) > Capacity THEN Len(emitted) - Capacity + 1 ELSE 1

\* A receiver that lagged is closed.
MutantEndsOnLag(b) ==
    IF next[b] < OldestKept
    THEN /\ next' = [next EXCEPT ![b] = Len(emitted) + 2]
         /\ UNCHANGED streamed
    ELSE /\ streamed' = [streamed EXCEPT ![b] = Append(@, next[b])]
         /\ next' = [next EXCEPT ![b] = @ + 1]
\* rx.recv() in a loop: Lagged moves the receiver to the oldest event kept.
Receive(b) ==
    LET n == IF next[b] < OldestKept THEN OldestKept ELSE next[b]
    IN  /\ streamed' = [streamed EXCEPT ![b] = Append(@, n)]
        /\ next' = [next EXCEPT ![b] = n + 1]

Stream(b) ==
    /\ next[b] # None /\ next[b] <= Len(emitted)
    /\ Receive(b)
    /\ UNCHANGED <<now, event_history, message_history, emitted, posted, user>>

Disconnect(b) ==
    /\ next[b] # None
    /\ next' = [next EXCEPT ![b] = None]
    /\ UNCHANGED <<now, event_history, message_history, emitted, posted, streamed, user>>

-----------------------------------------------------------------------------
(* A user who runs dispatch events again and again.  The client turns      *)
(* --since into seconds before the request leaves.                         *)

AskSince ==
    /\ since = None
    /\ since' = ParseTimestamp(IF Window = None THEN [n |-> newest, unit |-> None]
                               ELSE [n |-> Window, unit |-> "s"])
    /\ UNCHANGED <<now, event_history, message_history, emitted, posted, next, streamed,
                   followed, newest, covered>>

Answer == QueryEvents(event_history, since, None, None, None, None)

\* A full answer may have left out events, the oldest ones that match: it
\* covers the time after its own oldest event only.
Start == IF Len(Answer) = DefaultLimit THEN Answer[Len(Answer)].timestamp + 1 ELSE since

GetEvents ==
    /\ since # None
    /\ followed' = followed \cup {Answer[i].n : i \in DOMAIN Answer}
    /\ newest' = IF Answer = <<>> THEN newest ELSE Answer[1].timestamp
    /\ covered' = [from |-> IF Start <= covered.upto THEN LeastOf(covered.from, Start) ELSE Start,
                   upto |-> now]
    /\ since' = None
    /\ UNCHANGED <<now, event_history, message_history, emitted, posted, next, streamed>>

-----------------------------------------------------------------------------

Done == Len(emitted) = MaxEvents /\ now = MaxNow /\ UNCHANGED vars

Next ==
    \/ Tick
    \/ \E v, w \in Workers : Send(v, w)
    \/ \E i \in DOMAIN message_history : Deliver(i) \/ Ack(i)
    \/ \E w \in Workers : Expire(w) \/ ExpireInTeam(w)
    \/ TimerFired
    \/ \E b \in Browsers : Subscribe(b) \/ Stream(b) \/ Disconnect(b)
    \/ AskSince \/ GetEvents
    \/ Done

\* An open stream is polled whenever an event waits.
Fairness == \A b \in Browsers : WF_vars(Stream(b))
Spec == Init /\ [][Next]_vars /\ Fairness

-----------------------------------------------------------------------------
(* Properties.                                                             *)

Times == 0 .. now
Limits == {None, 0, 1, EventMax + MessageMax}
\* What a query may answer: of the entries that match, the newest, newest
\* first, and no match is left out unless the limit is reached.
Answers(answer, history, Match(_), limit) ==
    LET all == {i \in DOMAIN history : Match(history[i])}
        most == IF limit = None THEN DefaultLimit ELSE limit
        chosen == {i \in all : Cardinality({j \in all : j > i}) < most}
    IN  /\ Len(answer) = Cardinality(chosen)
        /\ \A k \in DOMAIN answer :
            \E i \in chosen :
                /\ answer[k] = history[i]
                /\ Cardinality({j \in chosen : j > i}) = k - 1

\* Queries of events answer the newest matches, whatever the filters.
EventsAnswered ==
    \A from, to \in Times \cup {None}, k \in {None, "send", "expire"},
       w \in Workers \cup {None}, l \in Limits :
        LET Match(e) == /\ from # None => e.timestamp >= from
                        /\ to # None => e.timestamp <= to
                        /\ k \in {None, e.kind}
                        /\ w \in {None, e.worker}
        IN  Answers(QueryEvents(event_history, from, to, k, w, l), event_history, Match, l)

\* Queries of messages answer the newest matches; the unacknowledged ones are
\* those the worker was handed and has not acknowledged, so that a worker can
\* tell from them what is left to do.
MessagesAnswered ==
    \A w \in Workers, unacked, sent \in BOOLEAN, from \in Times \cup {None}, l \in Limits :
        LET Match(m) == /\ w = (IF sent THEN m.from ELSE m.to)
                        /\ ~(unacked /\ (m.acked \/ ~m.delivered))
                        /\ from # None => m.sent_at >= from
        IN  Answers(QueryMessages(message_history, w, unacked, sent, from, l, None),
                    message_history, Match, l)

\* A user who follows the log, one query after the other and none with a
\* limit, has seen every event that was recorded in the time the queries
\* cover, unless it left the history before the query: the second a query was
\* made in is asked for again by the next one.  A query covers the time it
\* asks for, or, when its answer has as many events as a query gives, only the
\* time after the oldest of them: what is left out is older than all of them.
FollowerMissesNothing ==
    \A i \in DOMAIN event_history :
        LET e == event_history[i]
        IN  covered.from <= e.timestamp /\ e.timestamp < covered.upto => e.n \in followed

\* Not so of the code: whoever asks for what is new since the newest event seen
\* has seen all that was recorded before the last query and is still kept.  An
\* answer gives the newest events that match, as many as the limit allows, and
\* the events between these and the newest one seen are never asked for again.
NothingCut ==
    \A i \in DOMAIN event_history :
        event_history[i].timestamp < covered.upto => event_history[i].n \in followed

\* A browser that falls behind loses events, not the stream: it is given the
\* newest event in the end.
StreamCatchesUp ==
    \A b \in Browsers :
        []<>(\/ next[b] = None
             \/ /\ next[b] = Len(emitted) + 1
                /\ streamed[b] = <<>> \/ Last(streamed[b]) = Len(emitted))
=============================================================================
