---------------------------- MODULE BrokerProofs ----------------------------
(***************************************************************************)
(* Theorems about Broker, for every value of its constants.                *)
(***************************************************************************)
EXTENDS Broker, TLAPS, FiniteSetTheorems, SequenceTheorems

USE DEF NoMsg, NoNotify

-----------------------------------------------------------------------------
(* Partial maps and bounded queues *)

\* Inserting into a map keeps its type and adds the one key.
LEMMA PutType ==
    ASSUME NEW T, NEW f, f \in [DOMAIN f -> T], NEW k, NEW v \in T
    PROVE  /\ Put(f, k, v) \in [DOMAIN Put(f, k, v) -> T]
           /\ DOMAIN Put(f, k, v) = DOMAIN f \cup {k}
BY DEF Put

\* Removing keys from a map keeps its type.
LEMMA WithoutType ==
    ASSUME NEW T, NEW f, f \in [DOMAIN f -> T], NEW S
    PROVE  /\ Without(f, S) \in [DOMAIN Without(f, S) -> T]
           /\ DOMAIN Without(f, S) = DOMAIN f \ S
           /\ \A x \in DOMAIN f \ S : Without(f, S)[x] = f[x]
BY DEF Without

\* A trimmed queue is a queue of the same elements within the cap.
LEMMA LastNType ==
    ASSUME NEW T, NEW s \in Seq(T), NEW n \in Nat
    PROVE  LastN(s, n) \in Seq(T) /\ Len(LastN(s, n)) <= n
BY DEF LastN

\* Recording typed events keeps the event history typed and within its cap.
LEMMA RecordedType ==
    ASSUME event_history \in Seq(Event), NEW events \in Seq(Event)
    PROVE  Recorded(events) \in Seq(Event) /\ Len(Recorded(events)) <= EventHistoryMax
<1>1. event_history \o events \in Seq(Event)
  OBVIOUS
<1> QED
  BY <1>1, LastNType, BoundsAssumption DEF Recorded

\* ... and one event in particular.
LEMMA RecordedOne ==
    ASSUME event_history \in Seq(Event), NEW e \in Event
    PROVE  Recorded(<<e>>) \in Seq(Event) /\ Len(Recorded(<<e>>)) <= EventHistoryMax
<1>1. <<e>> \in Seq(Event)
  OBVIOUS
<1> QED
  BY <1>1, RecordedType

\* The expire events of a listen are recorded like any others.
LEMMA RecordExpiredType ==
    ASSUME TypeOK, RecordExpired
    PROVE  event_history' \in Seq(Event) /\ Len(event_history') <= EventHistoryMax
<1>1. Expired \subseteq WorkerIds
  BY DEF TypeOK, RegistryTypeOK, Expired, ExpiredIn
<1>2. PICK order \in SetToSeqs(Expired) : event_history' = Recorded(ExpireEvents(order))
  BY DEF RecordExpired
<1>3. Cardinality(Expired) \in Nat
  BY <1>1, IdsAssumption, FS_Subset, FS_CardinalityType
<1>4. order \in [1..Cardinality(Expired) -> Expired]
  BY <1>2 DEF SetToSeqs
<1>5. \A i \in 1..Cardinality(Expired) : ExpireEvents(order)[i] \in Event
  BY <1>1, <1>4 DEF ExpireEvents, Ev, Event
<1>6. ExpireEvents(order) \in [1..Cardinality(Expired) -> Event]
  BY <1>4, <1>5 DEF ExpireEvents
<1>7. ExpireEvents(order) \in Seq(Event)
  BY <1>3, <1>6
<1> QED
  BY <1>2, <1>7, RecordedType DEF TypeOK, HistoryTypeOK

-----------------------------------------------------------------------------
(* Notify objects *)

\* Removing a waiter from the queue leaves a queue of waiters.
LEMMA UnlinkType ==
    ASSUME NEW W, NEW s \in Seq(W), NEW c
    PROVE  Unlink(s, c) \in Seq(W)
<1>1. CASE c \notin ToSet(s)
  BY <1>1 DEF Unlink
<1>2. CASE c \in ToSet(s)
  <2> DEFINE i == CHOOSE i \in DOMAIN s : s[i] = c
  <2>1. i \in 1..Len(s)
    BY <1>2 DEF ToSet
  <2>2. Unlink(s, c) = SubSeq(s, 1, i - 1) \o SubSeq(s, i + 1, Len(s))
    BY <1>2 DEF Unlink, RemoveAt
  <2> HIDE DEF i
  <2>3. \A j \in 1..Len(s) : s[j] \in W
    OBVIOUS
  <2>4. SubSeq(s, 1, i - 1) \in Seq(W)
    BY <2>1, <2>3, SubSeqProperties
  <2>5. SubSeq(s, i + 1, Len(s)) \in Seq(W)
    BY <2>1, <2>3, SubSeqProperties
  <2> QED
    BY <2>2, <2>4, <2>5, ConcatProperties
<1> QED
  BY <1>1, <1>2

\* Waking somebody, or leaving a permit, keeps the object typed.
LEMMA NotifyOneType ==
    ASSUME NEW W, NEW n \in NotifyState(W)
    PROVE  NotifyOne(n) \in NotifyState(W)
<1>1. CASE n.waiters = <<>>
  BY <1>1 DEF NotifyOne, NotifyState
<1>2. CASE n.waiters # <<>>
  <2>1. n.waiters \in Seq(W) /\ n.notified \in SUBSET W /\ n.permit \in BOOLEAN
    BY DEF NotifyState
  <2>2. Tail(n.waiters) \in Seq(W) /\ Head(n.waiters) \in W
    BY <1>2, <2>1
  <2> QED
    BY <1>2, <2>1, <2>2 DEF NotifyOne, NotifyState
<1> QED
  BY <1>1, <1>2

\* So does joining the queue.
LEMMA JoinWaitersType ==
    ASSUME NEW W, NEW n \in NotifyState(W), NEW c \in W
    PROVE  JoinWaiters(n, c) \in NotifyState(W)
<1>1. Append(n.waiters, c) \in Seq(W)
  BY DEF NotifyState
<1> QED
  BY <1>1 DEF JoinWaiters, NotifyState

\* So does dropping a future that never became ready.
LEMMA DropNotifiedType ==
    ASSUME NEW W, NEW n \in NotifyState(W), NEW c \in W
    PROVE  DropNotified(n, c) \in NotifyState(W)
<1>1. Resolve(n, c) \in NotifyState(W)
  BY DEF Resolve, NotifyState
<1>2. Unlink(n.waiters, c) \in Seq(W)
  BY UnlinkType DEF NotifyState
<1> QED
  BY <1>1, <1>2, NotifyOneType DEF DropNotified, NotifyState

-----------------------------------------------------------------------------
(* The registry *)

\* What remove_worker leaves of the four maps is typed.
LEMMA RemainderType ==
    ASSUME RegistryTypeOK, NEW S
    PROVE  /\ WorkersWithout(S) \in [DOMAIN workers \ S -> Worker]
           /\ MailboxesWithout(S) \in [DOMAIN mailboxes \ S -> Seq(Nat)]
           /\ NotifiersWithout(S) \in [DOMAIN notifiers \ S -> NotifyIds]
           /\ PromptsWithout(S) \in [DOMAIN role_prompts \ S -> Names]
BY DEF RegistryTypeOK, WorkersWithout, MailboxesWithout, NotifiersWithout,
       PromptsWithout, Without

\* An eviction keeps the registry typed.
LEMMA RemoveWorkersType ==
    ASSUME RegistryTypeOK, NEW S, RemoveWorkers(S)
    PROVE  RegistryTypeOK'
<1>1. workers' \in [DOMAIN workers \ S -> Worker]
  BY RemainderType DEF RemoveWorkers
<1>2. mailboxes' \in [DOMAIN mailboxes \ S -> Seq(Nat)]
  BY RemainderType DEF RemoveWorkers
<1>3. notifiers' \in [DOMAIN notifiers \ S -> NotifyIds]
  BY RemainderType DEF RemoveWorkers
<1>4. role_prompts' \in [DOMAIN role_prompts \ S -> Names]
  BY RemainderType DEF RemoveWorkers
<1> QED
  BY <1>1, <1>2, <1>3, <1>4 DEF RegistryTypeOK

\* A renewed lease keeps the registry's records typed.
LEMMA RenewedType ==
    ASSUME NEW ws, ws \in [DOMAIN ws -> Worker], now \in Nat, NEW w
    PROVE  Renewed(ws, w) \in [DOMAIN ws -> Worker]
<1>1. CASE w \notin DOMAIN ws
  BY <1>1 DEF Renewed
<1>2. CASE w \in DOMAIN ws
  <2>1. ws[w] \in Worker /\ now + ws[w].ttl \in Nat
    BY <1>2 DEF Worker
  <2>2. [ws[w] EXCEPT !.expires_at = now + ws[w].ttl] \in Worker
    BY <2>1 DEF Worker
  <2> QED
    BY <1>2, <2>2 DEF Renewed
<1> QED
  BY <1>1, <1>2

\* Storing a prompt keeps the prompts typed.
LEMMA StorePromptType ==
    ASSUME NEW prompts, prompts \in [DOMAIN prompts -> Names], NEW w,
           NEW reg \in Registration, StorePrompt(prompts, w, reg)
    PROVE  role_prompts' \in [DOMAIN role_prompts' -> Names]
<1>1. reg.name \in Names
  BY DEF Registration
<1> QED
  BY <1>1, PutType DEF StorePrompt

\* Both outcomes of register_worker that return an id keep the types.
LEMMA RegisterWorkerType ==
    ASSUME TypeOK, NEW reg \in Registrations, NEW w \in WorkerIds, RegisterWorker(reg, w)
    PROVE  RegistryTypeOK' /\ issued' \in SUBSET WorkerIds
<1>1. reg \in Registration
  BY InputsAssumption
<1>2. /\ reg.name \in Names /\ reg.role \in Roles /\ reg.ttl \in Nat
      /\ now + reg.ttl \in Nat
  <2>1. reg.name \in Names /\ reg.role \in Roles /\ reg.ttl \in Ttls
    BY <1>1 DEF Registration
  <2>2. reg.ttl \in Nat
    BY <2>1, InputsAssumption
  <2>3. now \in Nat
    BY DEF TypeOK
  <2> QED
    BY <2>1, <2>2, <2>3
<1>3. CASE Claim(reg, w)
  <2>1. w \in DOMAIN workers \ Expired /\ workers[w] \in Worker
    BY <1>3 DEF Claim, Live, TypeOK, RegistryTypeOK
  <2>2. [workers[w] EXCEPT !.ttl = reg.ttl, !.expires_at = now + reg.ttl, !.claimed = TRUE] \in Worker
    BY <1>2, <2>1 DEF Worker
  <2>3. WorkersWithout(Expired)[w] = workers[w]
    BY <2>1 DEF WorkersWithout, Without
  <2>4. workers' \in [DOMAIN workers \ Expired -> Worker]
    <3>1. WorkersWithout(Expired) \in [DOMAIN workers \ Expired -> Worker]
      BY RemainderType DEF TypeOK
    <3>2. workers' = [WorkersWithout(Expired) EXCEPT
                        ![w] = [workers[w] EXCEPT !.ttl = reg.ttl,
                                  !.expires_at = now + reg.ttl, !.claimed = TRUE]]
      BY <1>3, <2>1, <2>3, <3>1 DEF Claim, Worker
    <3> QED
      BY <2>1, <2>2, <3>1, <3>2
  <2>5. role_prompts' \in [DOMAIN role_prompts' -> Names]
    BY <1>1, <1>3, RemainderType, StorePromptType DEF Claim, TypeOK
  <2>6. mailboxes' \in [DOMAIN mailboxes \ Expired -> Seq(Nat)]
    BY <1>3, RemainderType DEF Claim, TypeOK
  <2>7. notifiers' \in [DOMAIN notifiers \ Expired -> NotifyIds]
    BY <1>3, RemainderType DEF Claim, TypeOK
  <2>8. issued' \in SUBSET WorkerIds
    BY <1>3 DEF Claim, TypeOK
  <2> QED
    BY <2>4, <2>5, <2>6, <2>7, <2>8 DEF TypeOK, RegistryTypeOK
<1>4. CASE Insert(reg, w)
  <2> DEFINE gone == Superseded(reg)
  <2>1. NewWorker(reg) \in Worker
    BY <1>2 DEF NewWorker, Worker
  <2>2. workers' \in [(DOMAIN workers \ gone) \cup {w} -> Worker]
    <3>1. WorkersWithout(gone) \in [DOMAIN workers \ gone -> Worker]
      BY RemainderType DEF TypeOK
    <3>2. workers' = Put(WorkersWithout(gone), w, NewWorker(reg))
      BY <1>4 DEF Insert
    <3> HIDE DEF gone
    <3> QED
      BY <2>1, <3>1, <3>2 DEF Put
  <2>3. role_prompts' \in [DOMAIN role_prompts' -> Names]
    BY <1>1, <1>4, RemainderType, StorePromptType DEF Insert, TypeOK
  <2>4. issued' \in SUBSET WorkerIds
    BY <1>4 DEF Insert, TypeOK
  <2>5. mailboxes' \in [DOMAIN mailboxes \ gone -> Seq(Nat)]
    BY <1>4, RemainderType DEF Insert, TypeOK
  <2>6. notifiers' \in [DOMAIN notifiers \ gone -> NotifyIds]
    BY <1>4, RemainderType DEF Insert, TypeOK
  <2> HIDE DEF gone
  <2> QED
    BY <2>2, <2>3, <2>4, <2>5, <2>6 DEF TypeOK, RegistryTypeOK
<1> QED
  BY <1>3, <1>4 DEF RegisterWorker

-----------------------------------------------------------------------------
(* Each kind of request keeps the types *)

\* Renewing the caller and evicting the rest keeps the types.
LEMMA TeamType ==
    ASSUME TypeOK, NEW from, Team(from)
    PROVE  TypeOK'
<1> DEFINE ws == Renewed(workers, from)
           gone == ExpiredIn(ws)
<1>1. ws \in [DOMAIN workers -> Worker]
  BY RenewedType DEF TypeOK, RegistryTypeOK
<1>2. workers' = Without(ws, gone)
  BY DEF Team
<1>3. /\ mailboxes' \in [DOMAIN mailboxes \ gone -> Seq(Nat)]
      /\ notifiers' \in [DOMAIN notifiers \ gone -> NotifyIds]
      /\ role_prompts' \in [DOMAIN role_prompts \ gone -> Names]
  BY RemainderType DEF Team, TypeOK
<1> HIDE DEF ws, gone
<1>4. workers' \in [DOMAIN workers \ gone -> Worker]
  BY <1>1, <1>2 DEF Without
<1>5. RegistryTypeOK'
  BY <1>3, <1>4 DEF TypeOK, RegistryTypeOK
<1> QED
  BY <1>5 DEF Team, TypeOK, HistoryTypeOK, LedgerTypeOK, ListenTypeOK

\* Queuing a message appends to the history and the recipient's mailbox.
LEMMA SendType ==
    ASSUME TypeOK, NEW to \in WorkerIds, NEW from, Send(to, from)
    PROVE  TypeOK'
<1> DEFINE ws == Renewed(workers, from)
           gone == ExpiredIn(ws)
           m == Len(sent) + 1
<1>1. ws \in [DOMAIN workers -> Worker]
  BY RenewedType DEF TypeOK, RegistryTypeOK
<1>2. workers' = Without(ws, gone)
  BY DEF Send
<1>3. /\ MailboxesWithout(gone) \in [DOMAIN mailboxes \ gone -> Seq(Nat)]
      /\ notifiers' \in [DOMAIN notifiers \ gone -> NotifyIds]
      /\ role_prompts' \in [DOMAIN role_prompts \ gone -> Names]
  BY RemainderType DEF Send, TypeOK
<1>4. m \in Nat
  BY DEF TypeOK, LedgerTypeOK
<1>5. Mailbox(to) \in Seq(Nat)
  BY DEF Mailbox, TypeOK, RegistryTypeOK
<1>6. mailboxes' = Put(MailboxesWithout(gone), to, Append(Mailbox(to), m))
  BY DEF Send, Enqueued
<1>7. sent' \in Seq(WorkerIds)
  BY DEF Send, TypeOK, LedgerTypeOK
<1>8. message_history' \in Seq(HistoryEntry) /\ Len(message_history') <= MessageHistoryMax
  <2>1. [id |-> m, delivered |-> FALSE, acked |-> FALSE] \in HistoryEntry
    BY <1>4 DEF HistoryEntry
  <2>2. Append(message_history, [id |-> m, delivered |-> FALSE, acked |-> FALSE]) \in Seq(HistoryEntry)
    BY <2>1 DEF TypeOK, HistoryTypeOK
  <2> QED
    BY <2>2, LastNType, BoundsAssumption DEF Send, TrimHistory
<1>9. event_history' \in Seq(Event) /\ Len(event_history') <= EventHistoryMax
  <2>1. Ev("send", to, m) \in Event
    BY <1>4 DEF Ev, Event
  <2>2. event_history' = Recorded(<<Ev("send", to, m)>>)
    BY DEF Send
  <2> QED
    BY <2>1, <2>2, RecordedOne DEF TypeOK, HistoryTypeOK
<1>10. notify' \in [NotifyIds -> NotifyState(Clients)]
  <2>1. notify' = WakeListener(to)
    BY DEF Send
  <2>2. CASE to \notin DOMAIN notifiers
    BY <2>1, <2>2 DEF WakeListener, TypeOK, ListenTypeOK
  <2>3. CASE to \in DOMAIN notifiers
    <3>1. notifiers[to] \in NotifyIds /\ notify[notifiers[to]] \in NotifyState(Clients)
      BY <2>3 DEF TypeOK, RegistryTypeOK, ListenTypeOK
    <3>2. NotifyOne(notify[notifiers[to]]) \in NotifyState(Clients)
      BY <3>1, NotifyOneType
    <3> QED
      BY <2>1, <2>3, <3>2 DEF WakeListener, TypeOK, ListenTypeOK
  <2> QED
    BY <2>2, <2>3
<1> HIDE DEF ws, gone, m
<1>11. workers' \in [DOMAIN workers \ gone -> Worker]
  BY <1>1, <1>2 DEF Without
<1>12. mailboxes' \in [(DOMAIN mailboxes \ gone) \cup {to} -> Seq(Nat)]
  <2>1. Append(Mailbox(to), m) \in Seq(Nat)
    BY <1>4, <1>5
  <2> QED
    BY <1>3, <1>6, <2>1 DEF Put
<1>13. RegistryTypeOK'
  BY <1>3, <1>11, <1>12 DEF TypeOK, RegistryTypeOK
<1> QED
  BY <1>7, <1>8, <1>9, <1>10, <1>13
     DEF Send, TypeOK, HistoryTypeOK, LedgerTypeOK, ListenTypeOK

\* A heartbeat's tagline lands in a ring of taglines.
LEMMA WithStatusType ==
    ASSUME NEW r \in Worker, NEW s \in Statuses \cup {None}
    PROVE  WithStatus(r, s) \in Worker
<1>1. CASE s \in {None, r.last_status}
  BY <1>1 DEF WithStatus
<1>2. CASE s \notin {None, r.last_status}
  <2> DEFINE h == IF r.last_status = None THEN r.status_history
                  ELSE PushStatus(r.status_history, r.last_status)
  <2>1. r.status_history \in Seq(Statuses) /\ r.last_status \in Statuses \cup {None}
    BY DEF Worker
  <2>2. h \in Seq(Statuses)
    <3>1. CASE r.last_status = None
      BY <2>1, <3>1
    <3>2. CASE r.last_status # None
      <4>1. Append(r.status_history, r.last_status) \in Seq(Statuses)
        BY <2>1, <3>2
      <4>2. LastN(Append(r.status_history, r.last_status), StatusHistoryMax) \in Seq(Statuses)
        BY <4>1, LastNType, BoundsAssumption
      <4> QED
        BY <2>1, <3>2, <4>2 DEF PushStatus
    <3> QED
      BY <3>1, <3>2
  <2>3. WithStatus(r, s) = [r EXCEPT !.last_status = s, !.status_history = h]
    BY <1>2 DEF WithStatus
  <2> HIDE DEF h
  <2> QED
    BY <1>2, <2>2, <2>3 DEF Worker
<1> QED
  BY <1>1, <1>2

\* A live worker's record is updated, the expired ones are dropped.
LEMMA UpdatedType ==
    ASSUME TypeOK, NEW w, NEW r \in Worker
    PROVE  [WorkersWithout(Expired) EXCEPT ![w] = r] \in [DOMAIN workers \ Expired -> Worker]
BY RemainderType DEF TypeOK

\* An eviction, followed by the update of the other three maps.
LEMMA RestType ==
    ASSUME TypeOK, workers' \in [DOMAIN workers \ Expired -> Worker],
           mailboxes' \in [DOMAIN mailboxes' -> Seq(Nat)],
           notifiers' \in [DOMAIN notifiers' -> NotifyIds],
           role_prompts' = PromptsWithout(Expired)
    PROVE  RegistryTypeOK'
<1>1. role_prompts' \in [DOMAIN role_prompts \ Expired -> Names]
  BY RemainderType DEF TypeOK
<1> QED
  BY <1>1 DEF TypeOK, RegistryTypeOK

\* A heartbeat renews the lease and may set the tagline.
LEMMA HeartbeatType ==
    ASSUME TypeOK, NEW w \in WorkerIds, NEW s \in Statuses \cup {None}, Heartbeat(w, s)
    PROVE  TypeOK'
<1>1. w \in DOMAIN workers \ Expired /\ workers[w] \in Worker /\ now + workers[w].ttl \in Nat
  BY DEF Heartbeat, Live, TypeOK, RegistryTypeOK, Worker
<1>2. [WithStatus(workers[w], s) EXCEPT !.expires_at = now + workers[w].ttl, !.claimed = TRUE] \in Worker
  BY <1>1, WithStatusType DEF Worker
<1>3. workers' \in [DOMAIN workers \ Expired -> Worker]
  BY <1>2, UpdatedType DEF Heartbeat
<1>4. RegistryTypeOK'
  BY <1>3, RemainderType, RestType DEF Heartbeat, TypeOK
<1>5. Ev("heartbeat", w, NoMsg) \in Event
  BY DEF Ev, Event
<1>6. event_history' \in Seq(Event) /\ Len(event_history') <= EventHistoryMax
  BY <1>5, RecordedOne DEF Heartbeat, TypeOK, HistoryTypeOK
<1> QED
  BY <1>4, <1>6 DEF Heartbeat, TypeOK, HistoryTypeOK, LedgerTypeOK, ListenTypeOK

\* Clearing a tagline touches nothing else of the record.
LEMMA ClearStatusType ==
    ASSUME TypeOK, NEW w \in WorkerIds, ClearStatus(w)
    PROVE  TypeOK'
<1>1. w \in DOMAIN workers \ Expired /\ workers[w] \in Worker
  BY DEF ClearStatus, Live, TypeOK, RegistryTypeOK
<1>2. [workers[w] EXCEPT !.last_status = None] \in Worker
  BY <1>1 DEF Worker
<1>3. workers' = [WorkersWithout(Expired) EXCEPT ![w] = [workers[w] EXCEPT !.last_status = None]]
  BY <1>1 DEF ClearStatus, WorkersWithout, Without
<1>4. workers' \in [DOMAIN workers \ Expired -> Worker]
  BY <1>2, <1>3, UpdatedType
<1>5. RegistryTypeOK'
  BY <1>4, RemainderType, RestType DEF ClearStatus, TypeOK
<1> QED
  BY <1>5 DEF ClearStatus, TypeOK, HistoryTypeOK, LedgerTypeOK, ListenTypeOK

\* Marking an entry keeps the history a typed sequence of the same length.
LEMMA MarkType ==
    ASSUME TypeOK, NEW m
    PROVE  /\ MarkAcked(m) \in Seq(HistoryEntry) /\ Len(MarkAcked(m)) <= MessageHistoryMax
           /\ MarkDelivered(m) \in Seq(HistoryEntry) /\ Len(MarkDelivered(m)) <= MessageHistoryMax
<1>1. message_history \in Seq(HistoryEntry) /\ Len(message_history) <= MessageHistoryMax
  BY DEF TypeOK, HistoryTypeOK
<1>2. /\ DOMAIN message_history = 1..Len(message_history)
      /\ \A i \in 1..Len(message_history) : message_history[i] \in HistoryEntry
  BY <1>1
<1>3. \A h \in HistoryEntry : /\ [h EXCEPT !.acked = TRUE] \in HistoryEntry
                              /\ [h EXCEPT !.delivered = TRUE] \in HistoryEntry
  BY DEF HistoryEntry
<1>4. MarkAcked(m) \in [1..Len(message_history) -> HistoryEntry]
  BY <1>2, <1>3 DEF MarkAcked
<1>5. MarkDelivered(m) \in [1..Len(message_history) -> HistoryEntry]
  BY <1>2, <1>3 DEF MarkDelivered
<1> QED
  BY <1>1, <1>4, <1>5

\* An acknowledgement is recorded in the log, the history and the events.
LEMMA AckType ==
    ASSUME TypeOK, NEW w \in WorkerIds, NEW m \in MsgIds, Ack(w, m)
    PROVE  TypeOK'
<1>1. m \in Nat
  BY DEF MsgIds, TypeOK, LedgerTypeOK
<1>2. RegistryTypeOK'
  BY RemoveWorkersType DEF Ack, TypeOK
<1>3. ack_log' \in [DOMAIN ack_log' -> WorkerIds]
  BY PutType DEF Ack, TypeOK, LedgerTypeOK
<1>4. message_history' \in Seq(HistoryEntry) /\ Len(message_history') <= MessageHistoryMax
  BY MarkType DEF Ack
<1>5. Ev("ack", w, m) \in Event
  BY <1>1 DEF Ev, Event
<1>6. event_history' \in Seq(Event) /\ Len(event_history') <= EventHistoryMax
  BY <1>5, RecordedOne DEF Ack, TypeOK, HistoryTypeOK
<1> QED
  BY <1>2, <1>3, <1>4, <1>6 DEF Ack, TypeOK, HistoryTypeOK, LedgerTypeOK, ListenTypeOK

-----------------------------------------------------------------------------
(* Listen and its handler keep the types *)

\* Fetching or creating a notifier keeps both heaps typed.
LEMMA GetNotifierType ==
    ASSUME TypeOK, NEW w, GetNotifier(w)
    PROVE  /\ NotifierOf(w) \in NotifyIds
           /\ notifiers' \in [DOMAIN notifiers' -> NotifyIds]
           /\ notify' \in [NotifyIds -> NotifyState(Clients)]
<1>1. FreeNotify \in NotifyIds
  BY DEF GetNotifier, FreeNotify
<1>2. NotifierOf(w) \in NotifyIds
  <2>1. CASE w \in DOMAIN notifiers
    BY <2>1 DEF NotifierOf, TypeOK, RegistryTypeOK
  <2>2. CASE w \notin DOMAIN notifiers
    BY <1>1, <2>2 DEF NotifierOf
  <2> QED
    BY <2>1, <2>2
<1>3. NotifiersWithout(Expired) \in [DOMAIN notifiers \ Expired -> NotifyIds]
  BY RemainderType DEF TypeOK
<1>4. notifiers' \in [DOMAIN notifiers' -> NotifyIds]
  BY <1>2, <1>3, PutType DEF GetNotifier
<1>5. NewNotify \in NotifyState(Clients)
  BY DEF NewNotify, NotifyState
<1>6. notify' \in [NotifyIds -> NotifyState(Clients)]
  BY <1>5 DEF GetNotifier, TypeOK, ListenTypeOK
<1> QED
  BY <1>2, <1>4, <1>6

\* A worker with mail has a mailbox whose head is a message.
LEMMA HeadType ==
    ASSUME RegistryTypeOK, NEW w, HasMail(w)
    PROVE  /\ w \in DOMAIN mailboxes /\ mailboxes[w] \in Seq(Nat) /\ mailboxes[w] # <<>>
           /\ Mailbox(w) = mailboxes[w]
           /\ Head(Mailbox(w)) \in Nat /\ Popped(mailboxes[w]) \in Seq(Nat)
BY DEF HasMail, Mailbox, Popped, RegistryTypeOK

\* All three outcomes of listen's first critical section keep the types.
LEMMA ListenType ==
    ASSUME TypeOK, NEW c \in Clients, NEW w \in WorkerIds, Listen(c, w)
    PROVE  TypeOK'
<1>1. CASE ListenRejected(c, w)
  <2>1. RegistryTypeOK'
    BY <1>1, RemoveWorkersType DEF ListenRejected, TypeOK
  <2>2. event_history' \in Seq(Event) /\ Len(event_history') <= EventHistoryMax
    BY <1>1, RecordExpiredType DEF ListenRejected
  <2> QED
    BY <1>1, <2>1, <2>2 DEF ListenRejected, TypeOK, HistoryTypeOK, LedgerTypeOK, ListenTypeOK
<1>2. ASSUME workers' = Renewed(WorkersWithout(Expired), w)
      PROVE  workers' \in [DOMAIN workers \ Expired -> Worker]
  <2>1. WorkersWithout(Expired) \in [DOMAIN workers \ Expired -> Worker]
    BY RemainderType DEF TypeOK
  <2> QED
    BY <1>2, <2>1, RenewedType DEF TypeOK
<1>3. CASE ListenImmediate(c, w)
  <2>1. /\ notifiers' \in [DOMAIN notifiers' -> NotifyIds]
        /\ notify' \in [NotifyIds -> NotifyState(Clients)]
    BY <1>3, GetNotifierType DEF ListenImmediate
  <2>2. /\ Head(Mailbox(w)) \in Nat /\ Popped(mailboxes[w]) \in Seq(Nat)
    BY <1>3, HeadType DEF ListenImmediate, TypeOK
  <2>3. mailboxes' \in [DOMAIN mailboxes \ Expired -> Seq(Nat)]
    <3>1. MailboxesWithout(Expired) \in [DOMAIN mailboxes \ Expired -> Seq(Nat)]
      BY RemainderType DEF TypeOK
    <3>2. w \in DOMAIN mailboxes \ Expired
      BY <1>3, HeadType DEF ListenImmediate, TypeOK, Live
    <3>3. MailboxesWithout(Expired)[w] = mailboxes[w]
      BY <3>2 DEF MailboxesWithout, Without
    <3> QED
      BY <1>3, <2>2, <3>1, <3>3 DEF ListenImmediate
  <2>4. RegistryTypeOK'
    BY <1>2, <1>3, <2>1, <2>3, RestType DEF ListenImmediate
  <2>5. event_history' \in Seq(Event) /\ Len(event_history') <= EventHistoryMax
    BY <1>3, RecordExpiredType DEF ListenImmediate
  <2>6. message_history' \in Seq(HistoryEntry) /\ Len(message_history') <= MessageHistoryMax
    BY <1>3, MarkType DEF ListenImmediate
  <2>7. task' \in [Clients -> Task]
    BY <1>3, <2>2 DEF ListenImmediate, Task, TypeOK, ListenTypeOK
  <2> QED
    BY <1>3, <2>1, <2>4, <2>5, <2>6, <2>7
       DEF ListenImmediate, TypeOK, HistoryTypeOK, LedgerTypeOK, ListenTypeOK
<1>4. CASE ListenEmpty(c, w)
  <2>1. /\ NotifierOf(w) \in NotifyIds
        /\ notifiers' \in [DOMAIN notifiers' -> NotifyIds]
        /\ notify' \in [NotifyIds -> NotifyState(Clients)]
    BY <1>4, GetNotifierType DEF ListenEmpty
  <2>2. mailboxes' \in [DOMAIN mailboxes \ Expired -> Seq(Nat)]
    BY <1>4, RemainderType DEF ListenEmpty, TypeOK
  <2>3. RegistryTypeOK'
    BY <1>2, <1>4, <2>1, <2>2, RestType DEF ListenEmpty
  <2>4. event_history' \in Seq(Event) /\ Len(event_history') <= EventHistoryMax
    BY <1>4, RecordExpiredType DEF ListenEmpty
  <2>5. task' \in [Clients -> Task]
    BY <1>4, <2>1 DEF ListenEmpty, Task, TypeOK, ListenTypeOK
  <2> QED
    BY <1>4, <2>1, <2>3, <2>4, <2>5
       DEF ListenEmpty, TypeOK, HistoryTypeOK, LedgerTypeOK, ListenTypeOK
<1> QED
  BY <1>1, <1>3, <1>4 DEF Listen

\* The end of the handler.
LEMMA ReplyType ==
    ASSUME TypeOK, NEW c \in Clients, NEW m \in Nat, task[c].pc # "idle", Reply(c, m)
    PROVE  task' \in [Clients -> Task]
<1>1. [task[c] EXCEPT !.pc = "replying", !.notify = NoNotify, !.msg = m] \in Task
  <2>1. task[c] \in Task /\ task[c] # Idle
    BY DEF TypeOK, ListenTypeOK, Idle
  <2> QED
    BY <2>1 DEF Task
<1>2. task' = [task EXCEPT ![c] = [task[c] EXCEPT !.pc = "replying", !.notify = NoNotify, !.msg = m]]
  BY DEF Reply, TypeOK, ListenTypeOK
<1> QED
  BY <1>1, <1>2 DEF TypeOK, ListenTypeOK

\* A task moves between the steps of its wait.
LEMMA MoveType ==
    ASSUME TypeOK, NEW c \in Clients, NEW l \in {"woken", "waiting", "elapsed"},
           task[c].pc # "idle", task' = [task EXCEPT ![c].pc = l]
    PROVE  task' \in [Clients -> Task]
<1>1. [task[c] EXCEPT !.pc = l] \in Task
  BY DEF TypeOK, ListenTypeOK, Task, Idle
<1> QED
  BY <1>1 DEF TypeOK, ListenTypeOK

\* Updating the object a waiting task refers to keeps the heap typed.
LEMMA NotifyUpdateType ==
    ASSUME TypeOK, NEW n, NEW v, n \in NotifyIds => v \in NotifyState(Clients),
           notify' = [notify EXCEPT ![n] = v]
    PROVE  notify' \in [NotifyIds -> NotifyState(Clients)]
BY DEF TypeOK, ListenTypeOK

\* Every step of the task that serves a listen keeps the types.
LEMMA HandlerStepType ==
    ASSUME TypeOK, NEW c \in Clients, HandlerStep(c)
    PROVE  TypeOK'
<1> DEFINE n == task[c].notify
           w == task[c].worker
<1> USE DEF registry
<1>1. /\ task[c] \in Task /\ task[c].msg \in Nat
      /\ \A i \in NotifyIds : notify[i] \in NotifyState(Clients)
  BY DEF TypeOK, ListenTypeOK, Task, Idle
<1>2. ASSUME task[c].pc # "idle", NEW m \in Nat,
             event_history' = Recorded(<<Ev("deliver", w, m)>>)
      PROVE  event_history' \in Seq(Event) /\ Len(event_history') <= EventHistoryMax
  <2>1. w \in WorkerIds
    BY <1>2 DEF TypeOK, ListenTypeOK, Task, Idle
  <2>2. Ev("deliver", w, m) \in Event
    BY <2>1 DEF Ev, Event
  <2> QED
    BY <1>2, <2>2, RecordedOne DEF TypeOK, HistoryTypeOK
<1>3. CASE CountImmediate(c)
  <2>1. event_history' \in Seq(Event) /\ Len(event_history') <= EventHistoryMax
    BY <1>1, <1>3, <1>2 DEF CountImmediate
  <2>2. task' \in [Clients -> Task]
    BY <1>1, <1>3, ReplyType DEF CountImmediate
  <2> QED
    BY <1>3, <2>1, <2>2 DEF CountImmediate, CountDelivery, TypeOK, RegistryTypeOK,
                            HistoryTypeOK, LedgerTypeOK, ListenTypeOK
<1>4. CASE PopAfterWake(c)
  <2>1. /\ w \in DOMAIN mailboxes /\ mailboxes[w] \in Seq(Nat)
        /\ Head(Mailbox(w)) \in Nat /\ Popped(mailboxes[w]) \in Seq(Nat)
    BY <1>4, HeadType DEF PopAfterWake, TypeOK
  <2>2. mailboxes' \in [DOMAIN mailboxes -> Seq(Nat)]
    BY <1>4, <2>1 DEF PopAfterWake, TypeOK, RegistryTypeOK
  <2>3. event_history' \in Seq(Event) /\ Len(event_history') <= EventHistoryMax
    BY <1>2, <1>4, <2>1 DEF PopAfterWake
  <2>4. task' \in [Clients -> Task]
    BY <1>4, <2>1, ReplyType DEF PopAfterWake
  <2>5. message_history' \in Seq(HistoryEntry) /\ Len(message_history') <= MessageHistoryMax
    BY <1>4, MarkType DEF PopAfterWake
  <2> QED
    BY <1>4, <2>2, <2>3, <2>4, <2>5 DEF PopAfterWake, CountDelivery, TypeOK, RegistryTypeOK,
                                        LedgerTypeOK, HistoryTypeOK, ListenTypeOK
<1>5. CASE PollNotified(c)
  <2>1. CASE notify[n].permit
    <3>1. n \in NotifyIds => TakePermit(notify[n]) \in NotifyState(Clients)
      BY <1>1 DEF TakePermit, NotifyState
    <3>2. notify' = [notify EXCEPT ![n] = TakePermit(notify[n])] /\ task' = [task EXCEPT ![c].pc = "woken"]
      BY <1>5, <2>1 DEF PollNotified
    <3>3. notify' \in [NotifyIds -> NotifyState(Clients)]
      BY <3>1, <3>2, NotifyUpdateType
    <3>4. task' \in [Clients -> Task]
      BY <1>5, <3>2, MoveType DEF PollNotified
    <3> QED
      BY <1>5, <3>3, <3>4 DEF PollNotified, TypeOK, RegistryTypeOK, HistoryTypeOK,
                              LedgerTypeOK, ListenTypeOK
  <2>2. CASE ~notify[n].permit
    <3>1. n \in NotifyIds => JoinWaiters(notify[n], c) \in NotifyState(Clients)
      BY <1>1, JoinWaitersType
    <3>2. notify' = [notify EXCEPT ![n] = JoinWaiters(notify[n], c)] /\ task' = [task EXCEPT ![c].pc = "waiting"]
      BY <1>5, <2>2 DEF PollNotified
    <3>3. notify' \in [NotifyIds -> NotifyState(Clients)]
      BY <3>1, <3>2, NotifyUpdateType
    <3>4. task' \in [Clients -> Task]
      BY <1>5, <3>2, MoveType DEF PollNotified
    <3> QED
      BY <1>5, <3>3, <3>4 DEF PollNotified, TypeOK, RegistryTypeOK, HistoryTypeOK,
                              LedgerTypeOK, ListenTypeOK
  <2> QED
    BY <2>1, <2>2
<1>6. CASE NotifiedReady(c)
  <2>1. n \in NotifyIds => Resolve(notify[n], c) \in NotifyState(Clients)
    BY <1>1 DEF Resolve, NotifyState
  <2>2. notify' = [notify EXCEPT ![n] = Resolve(notify[n], c)] /\ task' = [task EXCEPT ![c].pc = "woken"]
    BY <1>6 DEF NotifiedReady
  <2>3. notify' \in [NotifyIds -> NotifyState(Clients)]
    BY <2>1, <2>2, NotifyUpdateType
  <2>4. task' \in [Clients -> Task]
    BY <1>6, <2>2, MoveType DEF NotifiedReady
  <2> QED
    BY <1>6, <2>3, <2>4 DEF NotifiedReady, TypeOK, RegistryTypeOK, HistoryTypeOK,
                            LedgerTypeOK, ListenTypeOK
<1>7. CASE TimerElapsed(c)
  BY <1>7, MoveType DEF TimerElapsed, TypeOK, RegistryTypeOK, HistoryTypeOK,
                          LedgerTypeOK, ListenTypeOK
<1>8. CASE TimedOut(c)
  <2>1. n \in NotifyIds => DropNotified(notify[n], c) \in NotifyState(Clients)
    BY <1>1, DropNotifiedType
  <2>2. notify' = [notify EXCEPT ![n] = DropNotified(notify[n], c)]
    BY <1>8 DEF TimedOut
  <2>3. notify' \in [NotifyIds -> NotifyState(Clients)]
    BY <2>1, <2>2, NotifyUpdateType
  <2>4. task' \in [Clients -> Task]
    BY <1>8, ReplyType DEF TimedOut
  <2> QED
    BY <1>8, <2>3, <2>4 DEF TimedOut, TypeOK, RegistryTypeOK, HistoryTypeOK,
                            LedgerTypeOK, ListenTypeOK
<1>9. CASE SpuriousWake(c)
  BY <1>9, ReplyType DEF SpuriousWake, TypeOK, RegistryTypeOK, HistoryTypeOK,
                           LedgerTypeOK, ListenTypeOK
<1>10. CASE WriteResponse(c)
  <2>1. task' \in [Clients -> Task]
    BY <1>10 DEF WriteResponse, TypeOK, ListenTypeOK, Task
  <2>2. received' \in [Clients -> Seq(Nat)]
    BY <1>1, <1>10 DEF WriteResponse, TypeOK, LedgerTypeOK
  <2> QED
    BY <1>10, <2>1, <2>2 DEF WriteResponse, TypeOK, RegistryTypeOK, HistoryTypeOK,
                            LedgerTypeOK, ListenTypeOK
<1>11. CASE WriteFails(c)
  <2>1. task' \in [Clients -> Task]
    BY <1>11 DEF WriteFails, TypeOK, ListenTypeOK, Task
  <2> QED
    BY <1>11, <2>1 DEF WriteFails, TypeOK, RegistryTypeOK, HistoryTypeOK,
                      LedgerTypeOK, ListenTypeOK
<1> QED
  BY <1>3, <1>5, <1>6, <1>7, <1>8, <1>9, <1>10, <1>4, <1>11 DEF HandlerStep

-----------------------------------------------------------------------------
(* Type correctness *)

\* The broker starts well typed.
LEMMA InitType == Init => TypeOK
<1> SUFFICES ASSUME Init PROVE TypeOK
  OBVIOUS
<1>1. RegistryTypeOK
  BY DEF Init, RegistryTypeOK
<1>2. HistoryTypeOK
  BY BoundsAssumption DEF Init, HistoryTypeOK
<1>3. LedgerTypeOK
  BY DEF Init, LedgerTypeOK
<1>4. ListenTypeOK
  BY DEF Init, ListenTypeOK, NewNotify, NotifyState, Task
<1> QED
  BY <1>1, <1>2, <1>3, <1>4 DEF Init, TypeOK

\* Every step of the broker keeps the types.
LEMMA NextType == TypeOK /\ [Next]_vars => TypeOK'
<1> SUFFICES ASSUME TypeOK, [Next]_vars PROVE TypeOK'
  OBVIOUS
<1>1. CASE Tick
  BY <1>1 DEF Tick, registry, TypeOK, RegistryTypeOK, HistoryTypeOK, LedgerTypeOK, ListenTypeOK
<1>2. CASE EvictExpired
  <2>1. RegistryTypeOK'
    BY <1>2, RemoveWorkersType DEF EvictExpired, TypeOK
  <2> QED
    BY <1>2, <2>1 DEF EvictExpired, TypeOK, HistoryTypeOK, LedgerTypeOK, ListenTypeOK
<1>3. ASSUME NEW reg \in Registrations, Register(reg)
      PROVE  TypeOK'
  <2>1. PICK w \in WorkerIds :
          RegisterWorker(reg, w) /\ event_history' = Recorded(<<Ev("register", w, NoMsg)>>)
    BY <1>3 DEF Register
  <2>2. RegistryTypeOK' /\ issued' \in SUBSET WorkerIds
    BY <2>1, RegisterWorkerType
  <2>3. Ev("register", w, NoMsg) \in Event
    BY DEF Ev, Event
  <2>4. event_history' \in Seq(Event) /\ Len(event_history') <= EventHistoryMax
    BY <2>1, <2>3, RecordedOne DEF TypeOK, HistoryTypeOK
  <2> QED
    BY <1>3, <2>2, <2>4 DEF Register, TypeOK, HistoryTypeOK, LedgerTypeOK, ListenTypeOK
<1>4. ASSUME NEW reg \in Registrations, PreRegister(reg)
      PROVE  TypeOK'
  <2>1. reg.id \in WorkerIds
    BY <1>4, InputsAssumption DEF PreRegister, Registration
  <2>2. RegistryTypeOK' /\ issued' \in SUBSET WorkerIds
    BY <1>4, <2>1, RegisterWorkerType DEF PreRegister
  <2> QED
    BY <1>4, <2>2 DEF PreRegister, TypeOK, HistoryTypeOK, LedgerTypeOK, ListenTypeOK
<1>5. ASSUME NEW reg \in Registrations, RegisterCollision(reg)
      PROVE  TypeOK'
  <2>1. RegistryTypeOK'
    BY <1>5, RemoveWorkersType DEF RegisterCollision, TypeOK
  <2> QED
    BY <1>5, <2>1 DEF RegisterCollision, TypeOK, HistoryTypeOK, LedgerTypeOK, ListenTypeOK
<1>6. ASSUME NEW w \in WorkerIds, RemoveWorker(w)
      PROVE  TypeOK'
  <2>1. RegistryTypeOK'
    BY <1>6, RemoveWorkersType DEF RemoveWorker, TypeOK
  <2> QED
    BY <1>6, <2>1 DEF RemoveWorker, TypeOK, HistoryTypeOK, LedgerTypeOK, ListenTypeOK
<1>7. ASSUME NEW w \in WorkerIds, NEW from \in WorkerIds \cup {None}, SendRejected(w, from)
      PROVE  TypeOK'
  BY <1>7, TeamType DEF SendRejected
<1>8. CASE UNCHANGED vars
  BY <1>8 DEF vars, registry, TypeOK, RegistryTypeOK, HistoryTypeOK, LedgerTypeOK, ListenTypeOK
<1> QED
  BY <1>1, <1>2, <1>3, <1>4, <1>5, <1>6, <1>7, <1>8, TeamType, ClearStatusType,
     HeartbeatType, AckType, SendType, ListenType, HandlerStepType DEF Next

\* TypeOK holds in every reachable state, whatever the constants.
THEOREM TypeCorrect == Spec => []TypeOK
BY InitType, NextType, PTL DEF Spec

-----------------------------------------------------------------------------
(* No partial state, and prompts that belong to their worker *)

\* Both invariants speak of the four maps only, and each strengthens what the
\* other needs: a prompt belongs to a registered worker, and it is its own.
RegistryInv == NoPartialState /\ PromptBelongs

\* Any set of workers can be removed, and any names kept.
LEMMA RemovalInv ==
    ASSUME RegistryInv, NEW S, NEW ws, ws \in [DOMAIN workers -> Worker],
           \A w \in DOMAIN workers : ws[w].name = workers[w].name,
           workers' = Without(ws, S), mailboxes' = MailboxesWithout(S),
           notifiers' = NotifiersWithout(S), role_prompts' = PromptsWithout(S)
    PROVE  RegistryInv'
BY DEF RegistryInv, NoPartialState, PromptBelongs, Without, MailboxesWithout,
       NotifiersWithout, PromptsWithout

\* remove_worker keeps both.
LEMMA RemoveWorkersInv ==
    ASSUME TypeOK, RegistryInv, NEW S, RemoveWorkers(S)
    PROVE  RegistryInv'
BY RemovalInv DEF RemoveWorkers, WorkersWithout, TypeOK, RegistryTypeOK

\* A renewed lease changes no name and no key.
LEMMA RenewedNames ==
    ASSUME NEW ws, ws \in [DOMAIN ws -> Worker], now \in Nat, NEW v
    PROVE  /\ Renewed(ws, v) \in [DOMAIN ws -> Worker]
           /\ \A w \in DOMAIN ws : Renewed(ws, v)[w].name = ws[w].name
<1>1. Renewed(ws, v) \in [DOMAIN ws -> Worker]
  BY RenewedType
<1>2. \A w \in DOMAIN ws : Renewed(ws, v)[w].name = ws[w].name
  BY DEF Renewed, Worker
<1> QED
  BY <1>1, <1>2

\* Registration: the prompt stored is the registrant's own.
LEMMA RegisterInv ==
    ASSUME TypeOK, RegistryInv, NEW reg \in Registrations, NEW w \in WorkerIds,
           RegisterWorker(reg, w)
    PROVE  RegistryInv'
<1>1. CASE Claim(reg, w)
  <2>1. /\ w \in DOMAIN workers \ Expired /\ workers[w] \in Worker
        /\ workers[w].name = reg.name
    BY <1>1 DEF Claim, SameAgent, Live, TypeOK, RegistryTypeOK
  <2>2. /\ DOMAIN workers' = DOMAIN workers \ Expired
        /\ \A v \in DOMAIN workers \ Expired : workers'[v].name = workers[v].name
    BY <1>1, <2>1 DEF Claim, WorkersWithout, Without, TypeOK, RegistryTypeOK, Worker
  <2>3. /\ DOMAIN role_prompts' \subseteq (DOMAIN role_prompts \ Expired) \cup {w}
        /\ \A v \in DOMAIN role_prompts' :
             role_prompts'[v] = IF v = w /\ reg.prompted THEN reg.name ELSE role_prompts[v]
        /\ reg.prompted \/ DOMAIN role_prompts' = DOMAIN role_prompts \ Expired
    BY <1>1 DEF Claim, StorePrompt, PromptsWithout, Without, Put
  <2>4. /\ DOMAIN mailboxes' = DOMAIN mailboxes \ Expired
        /\ DOMAIN notifiers' = DOMAIN notifiers \ Expired
    BY <1>1 DEF Claim, MailboxesWithout, NotifiersWithout, Without
  <2> QED
    BY <2>1, <2>2, <2>3, <2>4 DEF RegistryInv, NoPartialState, PromptBelongs
<1>2. CASE Insert(reg, w)
  <2> DEFINE gone == Superseded(reg)
  <2>1. /\ DOMAIN workers' = (DOMAIN workers \ gone) \cup {w}
        /\ workers'[w].name = reg.name
        /\ \A v \in DOMAIN workers \ gone : v # w => workers'[v] = workers[v]
    BY <1>2 DEF Insert, WorkersWithout, Without, Put, NewWorker
  <2>2. w \notin DOMAIN workers \ gone
    BY <1>2 DEF Insert, Superseded, Live
  <2>3. /\ DOMAIN role_prompts' = (DOMAIN role_prompts \ gone) \cup IF reg.prompted THEN {w} ELSE {}
        /\ \A v \in DOMAIN role_prompts' :
             role_prompts'[v] = IF v = w /\ reg.prompted THEN reg.name ELSE role_prompts[v]
    BY <1>2 DEF Insert, StorePrompt, PromptsWithout, Without, Put
  <2>4. /\ DOMAIN mailboxes' = DOMAIN mailboxes \ gone
        /\ DOMAIN notifiers' = DOMAIN notifiers \ gone
    BY <1>2 DEF Insert, MailboxesWithout, NotifiersWithout, Without
  <2> HIDE DEF gone
  <2> QED
    BY <2>1, <2>2, <2>3, <2>4 DEF RegistryInv, NoPartialState, PromptBelongs
<1> QED
  BY <1>1, <1>2 DEF RegisterWorker

\* A live worker's record changes but not its name, and its mailbox or
\* notifier may be created.
LEMMA UpdateInv ==
    ASSUME RegistryInv, NEW w \in Live,
           DOMAIN workers' = DOMAIN workers \ Expired,
           \A v \in DOMAIN workers \ Expired : workers'[v].name = workers[v].name,
           DOMAIN mailboxes' \subseteq (DOMAIN mailboxes \ Expired) \cup {w},
           DOMAIN notifiers' \subseteq (DOMAIN notifiers \ Expired) \cup {w},
           role_prompts' = PromptsWithout(Expired)
    PROVE  RegistryInv'
BY DEF RegistryInv, NoPartialState, PromptBelongs, PromptsWithout, Without, Live

\* Listen creates a notifier only for the live worker it renews.
LEMMA ListenInv ==
    ASSUME TypeOK, RegistryInv, NEW c \in Clients, NEW w \in WorkerIds, Listen(c, w)
    PROVE  RegistryInv'
<1>1. CASE ListenRejected(c, w)
  BY <1>1, RemoveWorkersInv DEF ListenRejected
<1>2. ASSUME workers' = Renewed(WorkersWithout(Expired), w)
      PROVE  /\ DOMAIN workers' = DOMAIN workers \ Expired
             /\ \A v \in DOMAIN workers \ Expired : workers'[v].name = workers[v].name
  <2>1. WorkersWithout(Expired) \in [DOMAIN workers \ Expired -> Worker]
    BY RemainderType DEF TypeOK
  <2>2. \A v \in DOMAIN workers \ Expired : WorkersWithout(Expired)[v] = workers[v]
    BY DEF WorkersWithout, Without
  <2>3. now \in Nat
    BY DEF TypeOK
  <2> QED
    BY <1>2, <2>1, <2>2, <2>3, RenewedNames
<1>3. ASSUME GetNotifier(w)
      PROVE  DOMAIN notifiers' = (DOMAIN notifiers \ Expired) \cup {w}
  BY <1>3 DEF GetNotifier, NotifiersWithout, Without, Put
<1>4. CASE ListenImmediate(c, w)
  <2>1. DOMAIN mailboxes' = DOMAIN mailboxes \ Expired
    BY <1>4 DEF ListenImmediate, MailboxesWithout, Without
  <2> QED
    BY <1>2, <1>3, <1>4, <2>1, UpdateInv DEF ListenImmediate
<1>5. CASE ListenEmpty(c, w)
  <2>1. DOMAIN mailboxes' = DOMAIN mailboxes \ Expired
    BY <1>5 DEF ListenEmpty, MailboxesWithout, Without
  <2> QED
    BY <1>2, <1>3, <1>5, <2>1, UpdateInv DEF ListenEmpty
<1> QED
  BY <1>1, <1>4, <1>5 DEF Listen

\* Team renews a lease and evicts.
LEMMA TeamInv ==
    ASSUME TypeOK, RegistryInv, NEW from, Team(from)
    PROVE  RegistryInv'
<1>1. /\ Renewed(workers, from) \in [DOMAIN workers -> Worker]
      /\ \A w \in DOMAIN workers : Renewed(workers, from)[w].name = workers[w].name
  BY RenewedNames DEF TypeOK, RegistryTypeOK
<1> QED
  BY <1>1, RemovalInv DEF Team

\* Send does too, and may create the mailbox of a registered recipient.
LEMMA SendInv ==
    ASSUME TypeOK, RegistryInv, NEW to \in WorkerIds, NEW from, Send(to, from)
    PROVE  RegistryInv'
<1> DEFINE ws == Renewed(workers, from)
           gone == ExpiredIn(ws)
<1>1. /\ ws \in [DOMAIN workers -> Worker]
      /\ \A w \in DOMAIN workers : ws[w].name = workers[w].name
  BY RenewedNames DEF TypeOK, RegistryTypeOK
<1>2. to \in DOMAIN ws \ gone
  BY DEF Send, CanReceive
<1>3. /\ workers' = Without(ws, gone)
      /\ DOMAIN mailboxes' = (DOMAIN mailboxes \ gone) \cup {to}
      /\ DOMAIN notifiers' = DOMAIN notifiers \ gone
      /\ role_prompts' = PromptsWithout(gone)
  BY DEF Send, MailboxesWithout, NotifiersWithout, Without, Put
<1> HIDE DEF ws, gone
<1> QED
  BY <1>1, <1>2, <1>3 DEF RegistryInv, NoPartialState, PromptBelongs, PromptsWithout, Without

\* A heartbeat and a clear keep the worker's name.
LEMMA HeartbeatInv ==
    ASSUME TypeOK, RegistryInv, NEW w \in WorkerIds, NEW s \in Statuses \cup {None},
           Heartbeat(w, s) \/ ClearStatus(w)
    PROVE  RegistryInv'
<1>1. w \in Live /\ w \in DOMAIN workers \ Expired /\ workers[w] \in Worker
  BY DEF Heartbeat, ClearStatus, Live, TypeOK, RegistryTypeOK
<1>2. WithStatus(workers[w], s).name = workers[w].name /\ WithStatus(workers[w], s) \in Worker
  BY <1>1, WithStatusType DEF WithStatus, Worker
<1>3. /\ DOMAIN workers' = DOMAIN workers \ Expired
      /\ \A v \in DOMAIN workers \ Expired : workers'[v].name = workers[v].name
  <2>1. CASE Heartbeat(w, s)
    BY <1>1, <1>2, <2>1 DEF Heartbeat, WorkersWithout, Without, Worker
  <2>2. CASE ClearStatus(w)
    BY <1>1, <2>2 DEF ClearStatus, WorkersWithout, Without, Worker
  <2> QED
    BY <2>1, <2>2
<1>4. /\ DOMAIN mailboxes' = DOMAIN mailboxes \ Expired
      /\ DOMAIN notifiers' = DOMAIN notifiers \ Expired
      /\ role_prompts' = PromptsWithout(Expired)
  BY DEF Heartbeat, ClearStatus, MailboxesWithout, NotifiersWithout, Without
<1> QED
  BY <1>1, <1>3, <1>4, UpdateInv

\* A listen handler never creates an entry: pop_message uses get_mut.
LEMMA HandlerStepInv ==
    ASSUME RegistryInv, NEW c \in Clients, HandlerStep(c)
    PROVE  RegistryInv'
<1>1. CASE PopAfterWake(c)
  <2>1. DOMAIN mailboxes' = DOMAIN mailboxes /\ UNCHANGED <<workers, notifiers, role_prompts>>
    BY <1>1 DEF PopAfterWake
  <2> QED
    BY <2>1 DEF RegistryInv, NoPartialState, PromptBelongs
<1>2. CASE ~PopAfterWake(c)
  <2>1. UNCHANGED registry
    BY <1>2 DEF HandlerStep, CountImmediate, PollNotified, NotifiedReady, TimerElapsed,
                TimedOut, SpuriousWake, WriteResponse, WriteFails
  <2> QED
    BY <2>1 DEF registry, RegistryInv, NoPartialState, PromptBelongs
<1> QED
  BY <1>1, <1>2

\* Every step keeps the registry's invariant.
LEMMA NextInv == TypeOK /\ RegistryInv /\ [Next]_vars => RegistryInv'
<1> SUFFICES ASSUME TypeOK, RegistryInv, [Next]_vars PROVE RegistryInv'
  OBVIOUS
<1>1. CASE Tick \/ UNCHANGED vars
  BY <1>1 DEF Tick, vars, registry, RegistryInv, NoPartialState, PromptBelongs
<1>2. CASE EvictExpired
  BY <1>2, RemoveWorkersInv DEF EvictExpired
<1>3. ASSUME NEW reg \in Registrations, Register(reg)
      PROVE  RegistryInv'
  BY <1>3, RegisterInv DEF Register
<1>4. ASSUME NEW reg \in Registrations, PreRegister(reg)
      PROVE  RegistryInv'
  <2>1. reg.id \in WorkerIds
    BY <1>4, InputsAssumption DEF PreRegister, Registration
  <2> QED
    BY <1>4, <2>1, RegisterInv DEF PreRegister
<1>5. ASSUME NEW reg \in Registrations, RegisterCollision(reg)
      PROVE  RegistryInv'
  BY <1>5, RemoveWorkersInv DEF RegisterCollision
<1>6. ASSUME NEW w \in WorkerIds, RemoveWorker(w)
      PROVE  RegistryInv'
  BY <1>6, RemoveWorkersInv DEF RemoveWorker
<1>7. ASSUME NEW w \in WorkerIds, NEW from \in WorkerIds \cup {None}, SendRejected(w, from)
      PROVE  RegistryInv'
  BY <1>7, TeamInv DEF SendRejected
<1>8. ASSUME NEW w \in WorkerIds, NEW m \in MsgIds, Ack(w, m)
      PROVE  RegistryInv'
  BY <1>8, RemoveWorkersInv DEF Ack
<1>9. ASSUME NEW w \in WorkerIds, ClearStatus(w)
      PROVE  RegistryInv'
  BY <1>9, HeartbeatInv
<1> QED
  BY <1>1, <1>2, <1>3, <1>4, <1>5, <1>6, <1>7, <1>8, <1>9, TeamInv, SendInv,
     HeartbeatInv, ListenInv, HandlerStepInv DEF Next

\* The inductive invariant holds throughout.
LEMMA RegistryCorrect == Spec => []RegistryInv
<1>1. Init => RegistryInv
  BY DEF Init, RegistryInv, NoPartialState, PromptBelongs
<1> QED
  BY <1>1, NextInv, TypeCorrect, PTL DEF Spec

\* The broker never keeps a mailbox, notifier or prompt of a worker that is
\* not registered, for any workers, registrations, listeners and clock.
THEOREM NoPartialStateHolds == Spec => []NoPartialState
BY RegistryCorrect, PTL DEF RegistryInv

\* No registration ever gets the prompt of an agent with another name.
THEOREM PromptBelongsHolds == Spec => []PromptBelongs
BY RegistryCorrect, PTL DEF RegistryInv

-----------------------------------------------------------------------------
(* Acknowledgements and leases *)

\* The ack log names the recipient of a message that was sent: sent only
\* grows, and ack_message compares the two before it inserts.
THEOREM AckByRecipientHolds == Spec => []AckByRecipient
<1>1. Init => AckByRecipient
  BY DEF Init, AckByRecipient
<1>2. TypeOK /\ AckByRecipient /\ [Next]_vars => AckByRecipient'
  <2> SUFFICES ASSUME TypeOK, AckByRecipient, [Next]_vars PROVE AckByRecipient'
    OBVIOUS
  <2>1. ASSUME NEW w \in WorkerIds, NEW m \in MsgIds, Ack(w, m)
        PROVE  AckByRecipient'
    BY <2>1 DEF Ack, AckAllowed, Put, MsgIds, AckByRecipient
  <2>2. ASSUME NEW to \in WorkerIds, NEW from \in WorkerIds \cup {None}, Send(to, from)
        PROVE  AckByRecipient'
    <3>1. sent \in Seq(WorkerIds) /\ sent' = Append(sent, to) /\ ack_log' = ack_log
      BY <2>2 DEF Send, TypeOK, LedgerTypeOK
    <3>2. MsgIds \subseteq MsgIds' /\ \A m \in MsgIds : sent'[m] = sent[m]
      BY <3>1 DEF MsgIds
    <3> QED
      BY <3>1, <3>2 DEF AckByRecipient
  <2>3. ASSUME UNCHANGED <<ack_log, sent>>
        PROVE  AckByRecipient'
    BY <2>3 DEF AckByRecipient, MsgIds
  <2>4. ASSUME NEW c \in Clients, HandlerStep(c)
        PROVE  UNCHANGED <<ack_log, sent>>
    BY <2>4 DEF HandlerStep, CountImmediate, PollNotified, NotifiedReady, TimerElapsed,
                TimedOut, PopAfterWake, SpuriousWake, WriteResponse, WriteFails
  <2>5. ASSUME NEW c \in Clients, NEW w \in WorkerIds, Listen(c, w)
        PROVE  UNCHANGED <<ack_log, sent>>
    BY <2>5 DEF Listen, ListenRejected, ListenImmediate, ListenEmpty
  <2>6. CASE UNCHANGED vars
    BY <2>3, <2>6 DEF vars
  <2> QED
    BY <2>1, <2>2, <2>3, <2>4, <2>5, <2>6
       DEF Next, Tick, EvictExpired, Register, PreRegister, RegisterCollision,
           RemoveWorker, Team, ClearStatus, Heartbeat, SendRejected
<1> QED
  BY <1>1, <1>2, TypeCorrect, PTL DEF Spec

\* A message is queued only for a worker whose lease runs beyond the step:
\* send_message evicts first, whoever's lease its caller has just renewed.
THEOREM MailOnlyToLiveHolds == Spec => MailOnlyToLive
<1> DEFINE QueuedForLive == sent' # sent => LET to == Last(sent') IN
                to \in DOMAIN workers' /\ workers'[to].expires_at > now
<1>1. TypeOK /\ [Next]_vars => [QueuedForLive]_vars
  <2> SUFFICES ASSUME TypeOK, Next PROVE QueuedForLive
    OBVIOUS
  <2>1. ASSUME NEW to \in WorkerIds, NEW from \in WorkerIds \cup {None}, Send(to, from)
        PROVE  QueuedForLive
    <3> DEFINE ws == Renewed(workers, from)
    <3>1. sent \in Seq(WorkerIds) /\ sent' = Append(sent, to)
      BY <2>1 DEF Send, TypeOK, LedgerTypeOK
    <3>2. Last(sent') = to
      BY <3>1 DEF Last
    <3>3. ws \in [DOMAIN workers -> Worker] /\ now \in Nat
      BY RenewedType DEF TypeOK, RegistryTypeOK
    <3>4. workers' = Without(ws, ExpiredIn(ws)) /\ to \in DOMAIN ws \ ExpiredIn(ws)
      BY <2>1 DEF Send, CanReceive
    <3>5. to \in DOMAIN workers' /\ workers'[to] = ws[to]
      BY <3>4 DEF Without
    <3>6. ws[to].expires_at \in Nat /\ ~(ws[to].expires_at <= now)
      BY <3>3, <3>4 DEF ExpiredIn, Worker
    <3> QED
      BY <3>2, <3>3, <3>5, <3>6
  <2>2. ASSUME NEW c \in Clients, HandlerStep(c)
        PROVE  sent' = sent
    BY <2>2 DEF HandlerStep, CountImmediate, PollNotified, NotifiedReady, TimerElapsed,
                TimedOut, PopAfterWake, SpuriousWake, WriteResponse, WriteFails
  <2>3. ASSUME NEW c \in Clients, NEW w \in WorkerIds, Listen(c, w)
        PROVE  sent' = sent
    BY <2>3 DEF Listen, ListenRejected, ListenImmediate, ListenEmpty
  <2> QED
    BY <2>1, <2>2, <2>3
       DEF Next, Tick, EvictExpired, Register, PreRegister, RegisterCollision,
           RemoveWorker, Team, ClearStatus, Heartbeat, Ack, SendRejected
<1> QED
  BY <1>1, TypeCorrect, PTL DEF Spec, MailOnlyToLive

-----------------------------------------------------------------------------
(* Removals, names and new registrations *)

\* A request that evicts, and at most renews or updates one worker that stays.
EvictingStep ==
    /\ now' = now
    /\ DOMAIN workers' = DOMAIN workers \ Expired
    /\ \A w \in DOMAIN workers' :
        /\ workers'[w].name = workers[w].name
        /\ workers'[w].ttl = workers[w].ttl
        /\ workers'[w].expires_at \in {workers[w].expires_at, now + workers[w].ttl}

\* What the renewal at the start of team and send changes.
LEMMA RenewedLease ==
    ASSUME TypeOK, NEW from
    PROVE  LET ws == Renewed(workers, from) IN
           /\ DOMAIN ws = DOMAIN workers
           /\ \A w \in DOMAIN workers :
                /\ ws[w].name = workers[w].name /\ ws[w].ttl = workers[w].ttl
                /\ w # from => ws[w] = workers[w]
                /\ w = from => ws[w].expires_at = now + workers[w].ttl
<1> DEFINE ws == Renewed(workers, from)
<1>1. workers \in [DOMAIN workers -> Worker]
  BY DEF TypeOK, RegistryTypeOK
<1>2. CASE from \notin DOMAIN workers
  BY <1>1, <1>2 DEF Renewed
<1>3. CASE from \in DOMAIN workers
  <2>1. ws = [workers EXCEPT ![from].expires_at = now + workers[from].ttl]
    BY <1>3 DEF Renewed
  <2>2. workers[from] \in Worker
    BY <1>1, <1>3
  <2>3. ws[from] = [workers[from] EXCEPT !.expires_at = now + workers[from].ttl]
    BY <1>1, <1>3, <2>1
  <2>4. /\ ws[from].name = workers[from].name /\ ws[from].ttl = workers[from].ttl
        /\ ws[from].expires_at = now + workers[from].ttl
    BY <2>2, <2>3 DEF Worker
  <2> QED
    BY <1>1, <2>1, <2>4
<1> QED
  BY <1>2, <1>3

\* Requests of workers that stay registered only evict.
LEMMA ListenEvicts ==
    ASSUME TypeOK, NEW c, NEW w, Listen(c, w)
    PROVE  EvictingStep
<1>1. workers \in [DOMAIN workers -> Worker]
  BY DEF TypeOK, RegistryTypeOK
<1>2. CASE ListenRejected(c, w)
  BY <1>1, <1>2 DEF ListenRejected, RemoveWorkers, WorkersWithout, Without, EvictingStep
<1>3. CASE ListenImmediate(c, w) \/ ListenEmpty(c, w)
  <2>1. workers' = Renewed(WorkersWithout(Expired), w) /\ now' = now
    BY <1>3 DEF ListenImmediate, ListenEmpty
  <2> DEFINE kept == WorkersWithout(Expired)
  <2>2. /\ kept \in [DOMAIN workers \ Expired -> Worker]
        /\ \A v \in DOMAIN workers \ Expired : kept[v] = workers[v]
    BY <1>1 DEF WorkersWithout, Without
  <2>3. CASE w \notin DOMAIN kept
    BY <2>1, <2>2, <2>3 DEF Renewed, EvictingStep
  <2>4. CASE w \in DOMAIN kept
    <3>1. workers' = [kept EXCEPT ![w].expires_at = now + kept[w].ttl]
      BY <2>1, <2>4 DEF Renewed
    <3>2. kept[w] \in Worker /\ kept[w] = workers[w]
      BY <2>2, <2>4
    <3>3. workers'[w] = [workers[w] EXCEPT !.expires_at = now + workers[w].ttl]
      BY <2>2, <2>4, <3>1, <3>2
    <3>4. /\ workers'[w].name = workers[w].name /\ workers'[w].ttl = workers[w].ttl
          /\ workers'[w].expires_at = now + workers[w].ttl
      BY <3>2, <3>3 DEF Worker
    <3> QED
      BY <2>1, <2>2, <3>1, <3>4 DEF EvictingStep
  <2> QED
    BY <2>3, <2>4
<1> QED
  BY <1>2, <1>3 DEF Listen

\* A heartbeat renews one live worker, a cleared status none; both only evict.
LEMMA HeartbeatEvicts ==
    ASSUME TypeOK, NEW w \in WorkerIds, NEW s \in Statuses \cup {None},
           Heartbeat(w, s) \/ ClearStatus(w)
    PROVE  EvictingStep
<1>1. /\ workers \in [DOMAIN workers -> Worker] /\ w \in DOMAIN workers \ Expired
      /\ workers[w] \in Worker
  BY DEF Heartbeat, ClearStatus, Live, TypeOK, RegistryTypeOK
<1>2. /\ WithStatus(workers[w], s) \in Worker
      /\ WithStatus(workers[w], s).name = workers[w].name
      /\ WithStatus(workers[w], s).ttl = workers[w].ttl
  BY <1>1, WithStatusType DEF WithStatus, Worker
<1>3. \E r : /\ workers' = [WorkersWithout(Expired) EXCEPT ![w] = r]
             /\ r.name = workers[w].name /\ r.ttl = workers[w].ttl
             /\ r.expires_at \in {workers[w].expires_at, now + workers[w].ttl}
  <2>1. CASE Heartbeat(w, s)
    <3> DEFINE r == [WithStatus(workers[w], s) EXCEPT
                        !.expires_at = now + workers[w].ttl, !.claimed = TRUE]
    <3>1. /\ r.name = workers[w].name /\ r.ttl = workers[w].ttl
          /\ r.expires_at = now + workers[w].ttl
      BY <1>2 DEF Worker
    <3>2. workers' = [WorkersWithout(Expired) EXCEPT ![w] = r]
      BY <2>1 DEF Heartbeat
    <3> QED
      BY <3>1, <3>2
  <2>2. CASE ClearStatus(w)
    <3> DEFINE r == [workers[w] EXCEPT !.last_status = None]
    <3>1. /\ r.name = workers[w].name /\ r.ttl = workers[w].ttl
          /\ r.expires_at = workers[w].expires_at
      BY <1>1 DEF Worker
    <3>2. workers' = [WorkersWithout(Expired) EXCEPT ![w] = r]
      BY <1>1, <2>2 DEF ClearStatus, WorkersWithout, Without
    <3> QED
      BY <3>1, <3>2
  <2> QED
    BY <2>1, <2>2
<1>4. now' = now
  BY DEF Heartbeat, ClearStatus
<1> QED
  BY <1>1, <1>3, <1>4 DEF EvictingStep, WorkersWithout, Without

\* How a step may change who is registered.
LEMMA RegistrySteps ==
    ASSUME TypeOK, Next
    PROVE  \/ workers' = workers /\ now' \in {now, now + 1}
           \/ EvictingStep
           \/ \E reg \in Registrations, w \in WorkerIds : RegisterWorker(reg, w) /\ now' = now
           \/ \E w \in OrchestratorIds : RemoveWorker(w)
           \/ \E w : Team(w)
           \/ \E to \in WorkerIds, from \in WorkerIds \cup {None} : Send(to, from)
<1>1. workers \in [DOMAIN workers -> Worker]
  BY DEF TypeOK, RegistryTypeOK
<1>2. ASSUME RemoveWorkers(Expired), now' = now
      PROVE  EvictingStep
  BY <1>1, <1>2 DEF RemoveWorkers, WorkersWithout, Without, EvictingStep
<1>3. CASE Tick
  BY <1>3 DEF Tick, registry
<1>4. CASE EvictExpired
  BY <1>2, <1>4 DEF EvictExpired
<1>5. ASSUME NEW reg \in Registrations, Register(reg) \/ PreRegister(reg)
      PROVE  \E w \in WorkerIds : RegisterWorker(reg, w) /\ now' = now
  <2>1. CASE Register(reg)
    BY <2>1 DEF Register
  <2>2. CASE PreRegister(reg)
    <3>1. reg.id \in WorkerIds
      BY <2>2, InputsAssumption DEF PreRegister, Registration
    <3> QED
      BY <2>2, <3>1 DEF PreRegister
  <2> QED
    BY <1>5, <2>1, <2>2
<1>6. ASSUME NEW reg \in Registrations, RegisterCollision(reg)
      PROVE  EvictingStep
  BY <1>2, <1>6 DEF RegisterCollision
<1>7. ASSUME NEW w \in WorkerIds, NEW m \in MsgIds, Ack(w, m)
      PROVE  EvictingStep
  BY <1>2, <1>7 DEF Ack
<1>8. ASSUME NEW c \in Clients, HandlerStep(c)
      PROVE  workers' = workers /\ now' = now
  BY <1>8 DEF HandlerStep, CountImmediate, PollNotified, NotifiedReady, TimerElapsed, TimedOut,
      PopAfterWake, SpuriousWake, WriteResponse, WriteFails, registry
<1> QED
  BY <1>3, <1>4, <1>5, <1>6, <1>7, <1>8, ListenEvicts, HeartbeatEvicts DEF Next, SendRejected

\* A lease never runs longer than the worker's ttl.
LeaseInv == \A w \in DOMAIN workers : workers[w].expires_at <= now + workers[w].ttl

\* A registration gives the lease it asks for and leaves the others alone.
LEMMA RegisteredLease ==
    ASSUME TypeOK, NEW reg \in Registrations, NEW w \in WorkerIds, RegisterWorker(reg, w)
    PROVE  /\ DOMAIN workers' \subseteq DOMAIN workers \cup {w}
           /\ w \in DOMAIN workers'
           /\ workers'[w].name = reg.name /\ workers'[w].ttl = reg.ttl
           /\ workers'[w].expires_at = now + reg.ttl
           /\ \A v \in DOMAIN workers' \ {w} : workers'[v] = workers[v] /\ v \notin Expired
           /\ reg.ttl \in Nat
<1>1. workers \in [DOMAIN workers -> Worker]
  BY DEF TypeOK, RegistryTypeOK
<1>2. reg.ttl \in Nat
  BY InputsAssumption DEF Registration
<1>3. CASE Claim(reg, w)
  <2>1. w \in DOMAIN workers \ Expired /\ workers[w] \in Worker /\ workers[w].name = reg.name
    BY <1>1, <1>3 DEF Claim, Live, SameAgent
  <2>2. workers' = [WorkersWithout(Expired) EXCEPT
                     ![w].ttl = reg.ttl, ![w].expires_at = now + reg.ttl, ![w].claimed = TRUE]
    BY <1>3 DEF Claim
  <2>3. /\ DOMAIN WorkersWithout(Expired) = DOMAIN workers \ Expired
        /\ \A v \in DOMAIN workers \ Expired : WorkersWithout(Expired)[v] = workers[v]
    BY DEF WorkersWithout, Without
  <2>4. workers'[w] = [workers[w] EXCEPT !.ttl = reg.ttl, !.expires_at = now + reg.ttl,
                                         !.claimed = TRUE]
    BY <2>1, <2>2, <2>3
  <2>5. /\ workers'[w].name = reg.name /\ workers'[w].ttl = reg.ttl
        /\ workers'[w].expires_at = now + reg.ttl
    BY <2>1, <2>4 DEF Worker
  <2> QED
    BY <1>2, <2>1, <2>2, <2>3, <2>5
<1>4. CASE Insert(reg, w)
  <2>1. workers' = Put(WorkersWithout(Superseded(reg)), w, NewWorker(reg))
    BY <1>4 DEF Insert
  <2> QED
    BY <1>1, <1>2, <2>1 DEF Put, WorkersWithout, Without, Superseded, NewWorker
<1> QED
  BY <1>3, <1>4 DEF RegisterWorker

\* Every step keeps the lease bound: time only shortens what is left of a lease.
LEMMA NextLease == TypeOK /\ LeaseInv /\ [Next]_vars => LeaseInv'
<1> SUFFICES ASSUME TypeOK, LeaseInv, [Next]_vars PROVE LeaseInv'
  OBVIOUS
<1>1. /\ now \in Nat
      /\ \A w \in DOMAIN workers : workers[w].ttl \in Nat /\ workers[w].expires_at \in Nat
  BY DEF TypeOK, RegistryTypeOK, Worker
<1>2. CASE workers' = workers /\ now' \in {now, now + 1}
  BY <1>1, <1>2 DEF LeaseInv
<1>3. CASE EvictingStep
  <2> SUFFICES ASSUME NEW w \in DOMAIN workers'
               PROVE  workers'[w].expires_at <= now' + workers'[w].ttl
    BY DEF LeaseInv
  <2>1. /\ now' = now /\ w \in DOMAIN workers /\ workers'[w].ttl = workers[w].ttl
        /\ workers'[w].expires_at \in {workers[w].expires_at, now + workers[w].ttl}
    BY <1>3 DEF EvictingStep
  <2> QED
    BY <1>1, <2>1 DEF LeaseInv
<1>4. ASSUME NEW reg \in Registrations, NEW w \in WorkerIds, RegisterWorker(reg, w), now' = now
      PROVE  LeaseInv'
  <2>1. /\ DOMAIN workers' \subseteq DOMAIN workers \cup {w}
        /\ workers'[w].expires_at = now + reg.ttl /\ workers'[w].ttl = reg.ttl
        /\ \A v \in DOMAIN workers' \ {w} : workers'[v] = workers[v]
        /\ reg.ttl \in Nat
    BY <1>4, RegisteredLease
  <2> QED
    BY <1>1, <1>4, <2>1 DEF LeaseInv
<1>5. ASSUME NEW w \in OrchestratorIds, RemoveWorker(w)
      PROVE  LeaseInv'
  BY <1>5 DEF RemoveWorker, RemoveWorkers, WorkersWithout, Without, LeaseInv
<1>6. ASSUME NEW from, NEW S, workers' = Without(Renewed(workers, from), S), now' = now
      PROVE  LeaseInv'
  <2> DEFINE ws == Renewed(workers, from)
  <2> SUFFICES ASSUME NEW w \in DOMAIN workers'
               PROVE  workers'[w].expires_at <= now + workers'[w].ttl
    BY <1>6 DEF LeaseInv
  <2>1. workers'[w] = ws[w] /\ w \in DOMAIN workers
    BY <1>6, RenewedLease DEF Without
  <2>2. /\ ws[w].ttl = workers[w].ttl
        /\ ws[w].expires_at \in {workers[w].expires_at, now + workers[w].ttl}
    BY <2>1, RenewedLease
  <2> QED
    BY <1>1, <2>1, <2>2 DEF LeaseInv
<1>7. ASSUME NEW w, Team(w) PROVE LeaseInv'
  BY <1>6, <1>7 DEF Team
<1>8. ASSUME NEW to, NEW from, Send(to, from) PROVE LeaseInv'
  BY <1>6, <1>8 DEF Send
<1>9. CASE UNCHANGED vars
  BY <1>2, <1>9 DEF vars, registry
<1> QED
  BY <1>2, <1>3, <1>4, <1>5, <1>7, <1>8, <1>9, RegistrySteps

\* The lease bound holds in every state.
LEMMA LeaseCorrect == Spec => []LeaseInv
<1>1. Init => LeaseInv
  BY DEF Init, LeaseInv
<1> QED
  BY <1>1, NextLease, TypeCorrect, PTL DEF Spec

\* Whoever disappears has let the lease run out, has been superseded under
\* the same name, or has been removed by the orchestrator.
THEOREM RemovalJustifiedHolds == Spec => RemovalJustified
<1> DEFINE Justified == \A w \in DOMAIN workers \ DOMAIN workers' :
        \/ workers[w].expires_at <= now
        \/ \E v \in DOMAIN workers' \ Live : workers'[v].name = workers[w].name
        \/ w \in OrchestratorIds /\ RemoveWorker(w)
<1>1. TypeOK /\ LeaseInv /\ [Next]_vars => [Justified]_vars
  <2> SUFFICES ASSUME TypeOK, LeaseInv, Next, NEW w \in DOMAIN workers \ DOMAIN workers'
               PROVE  \/ workers[w].expires_at <= now
                      \/ \E v \in DOMAIN workers' \ Live : workers'[v].name = workers[w].name
                      \/ w \in OrchestratorIds /\ RemoveWorker(w)
    OBVIOUS
  <2>1. /\ now \in Nat /\ workers[w].ttl \in Nat /\ workers[w].expires_at \in Nat
        /\ workers[w].expires_at <= now + workers[w].ttl
    BY DEF TypeOK, RegistryTypeOK, Worker, LeaseInv
  <2>2. CASE workers' = workers
    BY <2>2
  <2>3. CASE EvictingStep
    BY <2>3 DEF EvictingStep, Expired, ExpiredIn
  <2>4. ASSUME NEW reg \in Registrations, NEW v \in WorkerIds, RegisterWorker(reg, v),
               workers[w].expires_at > now
        PROVE  \E u \in DOMAIN workers' \ Live : workers'[u].name = workers[w].name
    <3>1. w \in Live
      BY <2>1, <2>4 DEF Live, Expired, ExpiredIn
    <3>2. ~ Claim(reg, v)
      BY <3>1 DEF Claim, Live, WorkersWithout, Without
    <3>3. Insert(reg, v)
      BY <2>4, <3>2 DEF RegisterWorker
    <3>4. w \in Superseded(reg)
      BY <3>3 DEF Insert, Put, WorkersWithout, Without
    <3>5. workers[w].name = reg.name
      BY <3>1, <3>4 DEF Superseded, Live
    <3>6. v \in DOMAIN workers' /\ workers'[v].name = reg.name
      BY <2>4, RegisteredLease
    <3> QED
      BY <3>3, <3>5, <3>6 DEF Insert
  <2>5. ASSUME NEW v \in OrchestratorIds, RemoveWorker(v)
        PROVE  w \in OrchestratorIds /\ RemoveWorker(w)
    BY <2>5 DEF RemoveWorker, RemoveWorkers, WorkersWithout, Without
  <2>6. ASSUME NEW from, workers' = Without(Renewed(workers, from), ExpiredIn(Renewed(workers, from)))
        PROVE  workers[w].expires_at <= now
    <3>1. w \in ExpiredIn(Renewed(workers, from))
      BY <2>6, RenewedLease DEF Without
    <3>2. Renewed(workers, from)[w].expires_at <= now
      BY <3>1 DEF ExpiredIn
    <3> QED
      BY <2>1, <3>2, RenewedLease
  <2>7. ASSUME NEW v, Team(v) PROVE workers[w].expires_at <= now
    BY <2>6, <2>7 DEF Team
  <2>8. ASSUME NEW to, NEW from, Send(to, from) PROVE workers[w].expires_at <= now
    BY <2>6, <2>8 DEF Send
  <2> QED
    BY <2>1, <2>2, <2>3, <2>4, <2>5, <2>7, <2>8, RegistrySteps
<1> QED
  BY <1>1, TypeCorrect, LeaseCorrect, PTL DEF Spec, RemovalJustified

\* Nobody inherits mail or a notifier with the id of an expired worker.
THEOREM FreshStartHolds == Spec => FreshStart
<1> DEFINE Fresh == \A w \in Expired :
        (w \in DOMAIN workers' /\ workers'[w].expires_at # workers[w].expires_at)
            => \/ Team(w)
               \/ \E to \in WorkerIds : Send(to, w)
               \/ w \notin DOMAIN mailboxes' \cup DOMAIN notifiers'
<1>1. TypeOK /\ [Next]_vars => [Fresh]_vars
  <2> SUFFICES ASSUME TypeOK, Next, NEW w \in Expired, w \in DOMAIN workers',
                      workers'[w].expires_at # workers[w].expires_at
               PROVE  \/ Team(w)
                      \/ \E to \in WorkerIds : Send(to, w)
                      \/ w \notin DOMAIN mailboxes' \cup DOMAIN notifiers'
    OBVIOUS
  <2>1. w \in DOMAIN workers /\ workers[w].expires_at <= now /\ w \notin Live
    BY DEF Expired, ExpiredIn, Live
  <2>2. workers' # workers
    OBVIOUS
  <2>3. ~ EvictingStep
    BY DEF EvictingStep
  <2>4. ASSUME NEW reg \in Registrations, NEW v \in WorkerIds, RegisterWorker(reg, v)
        PROVE  w \notin DOMAIN mailboxes' \cup DOMAIN notifiers'
    <3>1. v = w
      BY <2>4, RegisteredLease
    <3>2. Insert(reg, w)
      BY <2>1, <2>4, <3>1 DEF RegisterWorker, Claim
    <3> QED
      BY <3>2 DEF Insert, Superseded, MailboxesWithout, NotifiersWithout, Without
  <2>5. ASSUME NEW v \in OrchestratorIds, RemoveWorker(v)
        PROVE  FALSE
    BY <2>5 DEF RemoveWorker, RemoveWorkers, WorkersWithout, Without
  <2>6. ASSUME NEW from, workers' = Without(Renewed(workers, from), ExpiredIn(Renewed(workers, from)))
        PROVE  from = w
    <3>1. w \notin ExpiredIn(Renewed(workers, from))
      BY <2>6 DEF Without
    <3> QED
      BY <2>1, <3>1, RenewedLease DEF ExpiredIn
  <2>7. ASSUME NEW v, Team(v) PROVE Team(w)
    BY <2>6, <2>7 DEF Team
  <2>8. ASSUME NEW to \in WorkerIds, NEW from, Send(to, from) PROVE Send(to, w)
    <3>1. from = w
      BY <2>6, <2>8 DEF Send
    <3> QED
      BY <2>8, <3>1
  <2> QED
    BY <2>2, <2>3, <2>4, <2>5, <2>7, <2>8, RegistrySteps
<1> QED
  BY <1>1, TypeCorrect, PTL DEF Spec, FreshStart

\* If every registration evicts, as dispatch-comms.md advises, a name stands
\* for one worker at most.
AllEvict == \A reg \in Registrations : reg.evict

\* Under that assumption, no request ever leaves two workers with one name: a
\* registration removes whoever has the name, or claims that very worker.
THEOREM UniqueNamesHolds == AllEvict /\ Spec => []UniqueNames
<1> SUFFICES ASSUME AllEvict PROVE Spec => []UniqueNames
  OBVIOUS
<1>1. Init => UniqueNames
  BY DEF Init, UniqueNames
<1>2. TypeOK /\ UniqueNames /\ [Next]_vars => UniqueNames'
  <2> SUFFICES ASSUME TypeOK, UniqueNames, [Next]_vars PROVE UniqueNames'
    OBVIOUS
  <2>1. CASE workers' = workers
    BY <2>1 DEF UniqueNames
  <2>2. CASE EvictingStep
    BY <2>2 DEF EvictingStep, UniqueNames
  <2>3. ASSUME NEW reg \in Registrations, NEW w \in WorkerIds, RegisterWorker(reg, w)
        PROVE  UniqueNames'
    <3>1. /\ DOMAIN workers' \subseteq DOMAIN workers \cup {w}
          /\ workers'[w].name = reg.name
          /\ \A v \in DOMAIN workers' \ {w} : workers'[v] = workers[v]
      BY <2>3, RegisteredLease
    <3>2. ASSUME NEW v \in DOMAIN workers' \ {w}
          PROVE  workers[v].name # reg.name
      <4>1. CASE Claim(reg, w)
        BY <3>1, <4>1 DEF Claim, SameAgent, Live, UniqueNames
      <4>2. CASE Insert(reg, w)
        <5>1. v \in DOMAIN workers \ Superseded(reg)
          BY <4>2 DEF Insert, Put, WorkersWithout, Without
        <5> QED
          BY <5>1 DEF AllEvict, Superseded, Live
      <4> QED
        BY <2>3, <4>1, <4>2 DEF RegisterWorker
    <3> QED
      BY <3>1, <3>2 DEF UniqueNames
  <2>4. ASSUME NEW w \in OrchestratorIds, RemoveWorker(w)
        PROVE  UniqueNames'
    BY <2>4 DEF RemoveWorker, RemoveWorkers, WorkersWithout, Without, UniqueNames
  <2>5. ASSUME NEW from, NEW S, workers' = Without(Renewed(workers, from), S)
        PROVE  UniqueNames'
    <3>1. /\ DOMAIN workers' \subseteq DOMAIN workers
          /\ \A w \in DOMAIN workers' : workers'[w].name = workers[w].name
      BY <2>5, RenewedLease DEF Without
    <3> QED
      BY <3>1 DEF UniqueNames
  <2>6. ASSUME NEW w, Team(w) PROVE UniqueNames'
    BY <2>5, <2>6 DEF Team
  <2>7. ASSUME NEW to, NEW from, Send(to, from) PROVE UniqueNames'
    BY <2>5, <2>7 DEF Send
  <2>8. CASE UNCHANGED vars
    BY <2>1, <2>8 DEF vars, registry
  <2> QED
    BY <2>1, <2>2, <2>3, <2>4, <2>6, <2>7, <2>8, RegistrySteps
<1> QED
  BY <1>1, <1>2, TypeCorrect, PTL DEF Spec

-----------------------------------------------------------------------------
(* The ring of taglines *)

\* Within the cap, and no entry twice in a row.
RingOK(h) == Len(h) <= StatusHistoryMax /\ \A i \in 1..Len(h) - 1 : h[i] # h[i + 1]

\* Dropping the oldest entries brings no two equal ones together.
LEMMA LastNRing ==
    ASSUME NEW h \in Seq(Statuses), \A i \in 1..Len(h) - 1 : h[i] # h[i + 1]
    PROVE  RingOK(LastN(h, StatusHistoryMax))
<1>1. StatusHistoryMax \in Nat /\ Len(h) \in Nat
  BY BoundsAssumption
<1>2. CASE Len(h) <= StatusHistoryMax
  BY <1>1, <1>2 DEF LastN, RingOK
<1>3. CASE Len(h) > StatusHistoryMax
  <2> DEFINE first == Len(h) - StatusHistoryMax + 1
             last == SubSeq(h, first, Len(h))
  <2>1. first \in 1..Len(h) + 1
    BY <1>1, <1>3
  <2>2. /\ Len(last) = StatusHistoryMax
        /\ \A i \in 1..StatusHistoryMax : last[i] = h[first + i - 1]
    BY <1>1, <1>3, <2>1
  <2>3. LastN(h, StatusHistoryMax) = last
    BY <1>1, <1>3 DEF LastN
  <2> HIDE DEF last
  <2>4. ASSUME NEW i \in 1..StatusHistoryMax - 1
        PROVE  last[i] # last[i + 1]
    <3>1. /\ i \in 1..StatusHistoryMax /\ i + 1 \in 1..StatusHistoryMax
          /\ first + i - 1 \in 1..Len(h) - 1 /\ first + (i + 1) - 1 = (first + i - 1) + 1
      BY <1>1, <1>3, <2>1
    <3>2. last[i] = h[first + i - 1] /\ last[i + 1] = h[first + (i + 1) - 1]
      BY <2>2, <3>1
    <3> HIDE DEF first
    <3> QED
      BY <3>1, <3>2
  <2> QED
    BY <1>1, <2>2, <2>3, <2>4 DEF RingOK
<1> QED
  BY <1>1, <1>2, <1>3

\* push_status_history keeps the ring: it skips a repeated tagline, then trims.
LEMMA PushRing ==
    ASSUME NEW h \in Seq(Statuses), NEW s \in Statuses, RingOK(h)
    PROVE  RingOK(PushStatus(h, s))
<1>1. CASE h # <<>> /\ Last(h) = s
  BY <1>1 DEF PushStatus
<1>2. CASE ~(h # <<>> /\ Last(h) = s)
  <2>1. /\ Append(h, s) \in Seq(Statuses) /\ Len(Append(h, s)) = Len(h) + 1
        /\ Append(h, s)[Len(h) + 1] = s
        /\ \A i \in 1..Len(h) : Append(h, s)[i] = h[i]
    OBVIOUS
  <2>2. h # <<>> => h[Len(h)] # s
    BY <1>2 DEF Last
  <2>3. ASSUME NEW i \in 1..Len(h)
        PROVE  Append(h, s)[i] # Append(h, s)[i + 1]
    <3>1. CASE i = Len(h)
      BY <2>1, <2>2, <3>1
    <3>2. CASE i # Len(h)
      <4>1. i \in 1..Len(h) - 1 /\ i + 1 \in 1..Len(h)
        BY <3>2
      <4> QED
        BY <2>1, <4>1 DEF RingOK
    <3> QED
      BY <3>1, <3>2
  <2>4. RingOK(LastN(Append(h, s), StatusHistoryMax))
    <3>1. Len(Append(h, s)) - 1 = Len(h)
      BY <2>1
    <3> HIDE DEF RingOK
    <3> QED
      BY <2>1, <2>3, <3>1, LastNRing
  <2> QED
    BY <1>2, <2>4 DEF PushStatus
<1> QED
  BY <1>1, <1>2

\* What a step may do to a worker's ring: start it, leave it, or push one tagline.
RingStep ==
    \A w \in DOMAIN workers' :
        \/ workers'[w].status_history = <<>>
        \/ /\ w \in DOMAIN workers
           /\ \/ workers'[w].status_history = workers[w].status_history
              \/ \E s \in Statuses :
                    workers'[w].status_history = PushStatus(workers[w].status_history, s)

\* A lease renewal leaves the rings alone.
LEMMA RenewedRing ==
    ASSUME TypeOK, NEW from, NEW w \in DOMAIN workers
    PROVE  /\ DOMAIN Renewed(workers, from) = DOMAIN workers
           /\ Renewed(workers, from)[w].status_history = workers[w].status_history
<1>1. workers \in [DOMAIN workers -> Worker] /\ workers[w] \in Worker
  BY DEF TypeOK, RegistryTypeOK
<1>2. CASE from \in DOMAIN workers
  <2>1. Renewed(workers, from) = [workers EXCEPT ![from].expires_at = now + workers[from].ttl]
    BY <1>2 DEF Renewed
  <2>2. /\ DOMAIN Renewed(workers, from) = DOMAIN workers
        /\ w # from => Renewed(workers, from)[w] = workers[w]
        /\ w = from => Renewed(workers, from)[w]
                        = [workers[w] EXCEPT !.expires_at = now + workers[w].ttl]
    BY <1>1, <1>2, <2>1
  <2>3. [workers[w] EXCEPT !.expires_at = now + workers[w].ttl].status_history
          = workers[w].status_history
    BY <1>1 DEF Worker
  <2> QED
    BY <2>2, <2>3
<1>3. CASE from \notin DOMAIN workers
  BY <1>3 DEF Renewed
<1> QED
  BY <1>2, <1>3

\* Every step does no more than that to the rings.
LEMMA NextRing == TypeOK /\ [Next]_vars => RingStep
<1> SUFFICES ASSUME TypeOK, [Next]_vars PROVE RingStep
  OBVIOUS
<1>1. workers \in [DOMAIN workers -> Worker]
  BY DEF TypeOK, RegistryTypeOK
<1>2. CASE workers' = workers
  BY <1>2 DEF RingStep
<1>3. ASSUME NEW S, workers' = WorkersWithout(S)
      PROVE  RingStep
  BY <1>1, <1>3 DEF WorkersWithout, Without, RingStep
<1>4. ASSUME NEW from, NEW S, workers' = Without(Renewed(workers, from), S)
      PROVE  RingStep
  <2> SUFFICES ASSUME NEW w \in DOMAIN workers'
               PROVE  /\ w \in DOMAIN workers
                      /\ workers'[w].status_history = workers[w].status_history
    BY DEF RingStep
  <2>1. /\ DOMAIN Renewed(workers, from) = DOMAIN workers
        /\ \A v \in DOMAIN workers :
            Renewed(workers, from)[v].status_history = workers[v].status_history
    <3>1. CASE DOMAIN workers = {}
      BY <3>1 DEF Renewed
    <3>2. CASE DOMAIN workers # {}
      BY <3>2, RenewedRing
    <3> QED
      BY <3>1, <3>2
  <2>2. w \in DOMAIN Renewed(workers, from) /\ workers'[w] = Renewed(workers, from)[w]
    BY <1>4 DEF Without
  <2> QED
    BY <2>1, <2>2
<1>5. ASSUME NEW w \in DOMAIN workers \ Expired, NEW r,
             workers' = [WorkersWithout(Expired) EXCEPT ![w] = r],
             \/ r.status_history = workers[w].status_history
             \/ \E s \in Statuses : r.status_history = PushStatus(workers[w].status_history, s)
      PROVE  RingStep
  <2>1. /\ DOMAIN workers' = DOMAIN workers \ Expired /\ workers'[w] = r
        /\ \A v \in DOMAIN workers' \ {w} : workers'[v] = workers[v]
    BY <1>5 DEF WorkersWithout, Without
  <2> QED
    BY <1>5, <2>1 DEF RingStep
<1>6. ASSUME NEW w \in WorkerIds, NEW s \in Statuses \cup {None}, Heartbeat(w, s)
      PROVE  RingStep
  <2> DEFINE r == [WithStatus(workers[w], s) EXCEPT
                     !.expires_at = now + workers[w].ttl, !.claimed = TRUE]
  <2>1. w \in DOMAIN workers \ Expired /\ workers[w] \in Worker
    BY <1>1, <1>6 DEF Heartbeat, Live
  <2>2. r.status_history = WithStatus(workers[w], s).status_history
    BY <2>1, WithStatusType DEF Worker
  <2>3. \/ WithStatus(workers[w], s).status_history = workers[w].status_history
        \/ \E t \in Statuses : WithStatus(workers[w], s).status_history
                                = PushStatus(workers[w].status_history, t)
    <3>1. CASE s \in {None, workers[w].last_status}
      BY <3>1 DEF WithStatus
    <3>2. CASE s \notin {None, workers[w].last_status}
      <4>1. WithStatus(workers[w], s).status_history =
              IF workers[w].last_status = None THEN workers[w].status_history
              ELSE PushStatus(workers[w].status_history, workers[w].last_status)
        BY <2>1, <3>2 DEF WithStatus, Worker
      <4>2. workers[w].last_status \in Statuses \cup {None}
        BY <2>1 DEF Worker
      <4> QED
        BY <4>1, <4>2
    <3> QED
      BY <3>1, <3>2
  <2>4. workers' = [WorkersWithout(Expired) EXCEPT ![w] = r]
    BY <1>6 DEF Heartbeat
  <2> QED
    BY <1>5, <2>1, <2>2, <2>3, <2>4
<1>7. ASSUME NEW w \in WorkerIds, ClearStatus(w)
      PROVE  RingStep
  <2>1. w \in DOMAIN workers \ Expired /\ workers[w] \in Worker
    BY <1>1, <1>7 DEF ClearStatus, Live
  <2>2. [workers[w] EXCEPT !.last_status = None].status_history = workers[w].status_history
    BY <2>1 DEF Worker
  <2>3. workers' = [WorkersWithout(Expired) EXCEPT ![w] = [workers[w] EXCEPT !.last_status = None]]
    BY <1>7, <2>1 DEF ClearStatus, WorkersWithout, Without
  <2> QED
    BY <1>5, <2>1, <2>2, <2>3
<1>8. ASSUME NEW c, NEW w, Listen(c, w)
      PROVE  RingStep
  <2>1. CASE ListenRejected(c, w)
    BY <1>3, <2>1 DEF ListenRejected, RemoveWorkers
  <2>2. CASE ListenImmediate(c, w) \/ ListenEmpty(c, w)
    <3>1. workers' = Renewed(WorkersWithout(Expired), w) /\ w \in DOMAIN workers \ Expired
      BY <2>2 DEF ListenImmediate, ListenEmpty, Live
    <3>2. WorkersWithout(Expired)[w] = workers[w] /\ w \in DOMAIN WorkersWithout(Expired)
      BY <3>1 DEF WorkersWithout, Without
    <3> DEFINE r == [workers[w] EXCEPT !.expires_at = now + workers[w].ttl]
    <3>3. workers' = [WorkersWithout(Expired) EXCEPT ![w] = r]
      BY <3>1, <3>2 DEF Renewed
    <3>4. r.status_history = workers[w].status_history
      BY <1>1, <3>1 DEF Worker
    <3> QED
      BY <1>5, <3>1, <3>3, <3>4
  <2> QED
    BY <1>8, <2>1, <2>2 DEF Listen
<1>9. ASSUME NEW reg \in Registrations, NEW w \in WorkerIds, RegisterWorker(reg, w)
      PROVE  RingStep
  <2>1. CASE Claim(reg, w)
    <3>1. w \in DOMAIN workers \ Expired /\ workers[w] \in Worker
      BY <1>1, <2>1 DEF Claim, Live
    <3> DEFINE r == [workers[w] EXCEPT !.ttl = reg.ttl, !.expires_at = now + reg.ttl,
                                       !.claimed = TRUE]
    <3>2. workers' = [WorkersWithout(Expired) EXCEPT ![w].ttl = reg.ttl,
                        ![w].expires_at = now + reg.ttl, ![w].claimed = TRUE]
      BY <2>1 DEF Claim
    <3>3. w \in DOMAIN WorkersWithout(Expired) /\ WorkersWithout(Expired)[w] = workers[w]
      BY <3>1 DEF WorkersWithout, Without
    <3>4. workers' = [WorkersWithout(Expired) EXCEPT ![w] = r]
      BY <3>2, <3>3 DEF WorkersWithout, Without
    <3>5. r.status_history = workers[w].status_history
      BY <3>1 DEF Worker
    <3> QED
      BY <1>5, <3>1, <3>4, <3>5
  <2>2. CASE Insert(reg, w)
    <3>1. workers' = Put(WorkersWithout(Superseded(reg)), w, NewWorker(reg))
      BY <2>2 DEF Insert
    <3>2. NewWorker(reg).status_history = <<>>
      BY DEF NewWorker
    <3>3. /\ workers'[w] = NewWorker(reg)
          /\ \A v \in DOMAIN workers' \ {w} : v \in DOMAIN workers /\ workers'[v] = workers[v]
      BY <3>1 DEF Put, WorkersWithout, Without
    <3> QED
      BY <3>2, <3>3 DEF RingStep
  <2> QED
    BY <1>9, <2>1, <2>2 DEF RegisterWorker
<1>10. CASE Tick \/ UNCHANGED vars
  BY <1>2, <1>10 DEF Tick, vars, registry
<1>11. CASE EvictExpired
  BY <1>3, <1>11 DEF EvictExpired, RemoveWorkers
<1>12. ASSUME NEW reg \in Registrations,
              Register(reg) \/ PreRegister(reg) \/ RegisterCollision(reg)
       PROVE  RingStep
  <2>1. CASE Register(reg)
    BY <1>9, <2>1 DEF Register
  <2>2. CASE PreRegister(reg)
    BY <1>9, <2>2, InputsAssumption DEF PreRegister, Registration
  <2>3. CASE RegisterCollision(reg)
    BY <1>3, <2>3 DEF RegisterCollision, RemoveWorkers
  <2> QED
    BY <1>12, <2>1, <2>2, <2>3
<1>13. ASSUME NEW w, RemoveWorker(w) PROVE RingStep
  BY <1>3, <1>13 DEF RemoveWorker, RemoveWorkers
<1>14. ASSUME NEW w, Team(w) PROVE RingStep
  BY <1>4, <1>14 DEF Team
<1>15. ASSUME NEW to, NEW from, Send(to, from) PROVE RingStep
  BY <1>4, <1>15 DEF Send
<1>16. ASSUME NEW w, NEW m, Ack(w, m) PROVE RingStep
  BY <1>3, <1>16 DEF Ack, RemoveWorkers
<1>17. ASSUME NEW c \in Clients, HandlerStep(c) PROVE RingStep
  BY <1>2, <1>17 DEF HandlerStep, CountImmediate, PollNotified, NotifiedReady, TimerElapsed,
     TimedOut, PopAfterWake, SpuriousWake, WriteResponse, WriteFails, registry
<1> QED
  BY <1>6, <1>7, <1>8, <1>10, <1>11, <1>12, <1>13, <1>14, <1>15, <1>16, <1>17
     DEF Next, SendRejected

\* The ring of recent taglines never repeats an entry back to back and stays
\* within its cap, across heartbeats, clears and re-registrations.
THEOREM StatusRingHolds == Spec => []StatusRing
<1>1. Init => StatusRing
  BY DEF Init, StatusRing
<1>2. TypeOK /\ StatusRing /\ [Next]_vars => StatusRing'
  <2> SUFFICES ASSUME TypeOK, StatusRing, [Next]_vars, NEW w \in DOMAIN workers'
               PROVE  RingOK(workers'[w].status_history)
    BY DEF StatusRing, RingOK
  <2>1. RingStep
    BY NextRing
  <2>2. CASE workers'[w].status_history = <<>>
    BY <2>2, BoundsAssumption DEF RingOK
  <2>3. ASSUME w \in DOMAIN workers
        PROVE  /\ workers[w].status_history \in Seq(Statuses)
               /\ RingOK(workers[w].status_history)
    BY <2>3 DEF TypeOK, RegistryTypeOK, Worker, StatusRing, RingOK
  <2> QED
    BY <2>1, <2>2, <2>3, PushRing DEF RingStep
<1> QED
  BY <1>1, <1>2, TypeCorrect, PTL DEF Spec

=============================================================================
