------------------------------- MODULE Broker -------------------------------
(***************************************************************************)
(* The embedded broker of src/backend/local.rs: the worker registry with   *)
(* its TTL leases, the per-worker mailboxes, the long-poll listen, message *)
(* acknowledgements, the bounded histories and the role prompts.           *)
(*                                                                         *)
(* BrokerState sits behind one tokio Mutex, so a request that takes the    *)
(* lock once is one action.  Listen gives the lock up between its steps:   *)
(* the connection task that serves it is kept in task[c] and each of its   *)
(* critical sections, the polls of its Notified future and the write of    *)
(* the response are actions that interleave with everybody else's.         *)
(*                                                                         *)
(* The m-th message sent is message m: sent[m] is its recipient, and       *)
(* messages_sent = Len(sent).  Timestamps of messages, bodies, senders,    *)
(* descriptions, capabilities and requests_handled are left out.           *)
(*                                                                         *)
(* A definition called Mutant... is a mistake the code could have made in  *)
(* the definition that follows it; nothing in the specification uses one.  *)
(***************************************************************************)
EXTENDS Naturals, Sequences, FiniteSets, SequencesExt, Notify

CONSTANTS
    WorkerIds,          \* worker ids: generated UUIDs and ids a caller supplies
    Names, Roles,       \* worker names and roles
    Ttls,               \* values of ttl_secs.unwrap_or(default_ttl)
    Statuses,           \* status taglines
    None,               \* Option::None
    Registrations,      \* the registrations callers make, a set of Registration
    Clients,            \* connections that serve listen requests
    ListensAs,          \* the worker ids a client listens as
    NotifyIds,          \* the pool of Notify objects (bound)
    MessageHistoryMax,  \* message_history_max
    EventHistoryMax,    \* event_history_max
    StatusHistoryMax,   \* STATUS_HISTORY_MAX
    MaxNow,             \* bound of the clock
    MaxMsgs             \* bound of the messages sent

Registration ==
    [name: Names, role: Roles, ttl: Ttls, evict: BOOLEAN,
     id: WorkerIds \cup {None}, prompted: BOOLEAN]

ASSUME NoneAssumption ==
    None \notin WorkerIds \cup Names \cup Statuses
ASSUME IdsAssumption ==
    IsFiniteSet(WorkerIds) /\ NotifyIds \subseteq Nat \ {0}
ASSUME InputsAssumption ==
    /\ Ttls \subseteq Nat
    /\ Registrations \subseteq Registration
    /\ ListensAs \in [Clients -> SUBSET WorkerIds]
ASSUME BoundsAssumption ==
    /\ MessageHistoryMax \in Nat /\ EventHistoryMax \in Nat
    /\ StatusHistoryMax \in Nat /\ MaxNow \in Nat /\ MaxMsgs \in Nat

VARIABLES
    now,                 \* now_secs()
    workers,             \* registered workers by id
    mailboxes,           \* undelivered messages by worker id
    notifiers,           \* Notify object by worker id
    role_prompts,        \* role prompt by worker id: the name it was written for
    ack_log,             \* acknowledging worker by message
    message_history,     \* bounded, oldest first
    event_history,       \* bounded, oldest first
    messages_delivered,  \* counter shown by the monitor
    sent,                \* recipient of every message sent so far
    issued,              \* worker ids in use so far: a fresh UUID is none of them
    notify,              \* the Notify objects
    task,                \* the listen request each client's connection serves
    received             \* messages whose response reached the client

registry == <<workers, mailboxes, notifiers, role_prompts>>
vars == <<now, registry, ack_log, message_history, event_history,
          messages_delivered, sent, issued, notify, task, received>>

-----------------------------------------------------------------------------
NoNotify == 0
NoMsg == 0
MsgIds == 1..Len(sent)

Worker ==
    [name: Names, role: Roles, ttl: Nat, expires_at: Nat, claimed: BOOLEAN,
     last_status: Statuses \cup {None}, status_history: Seq(Statuses)]
HistoryEntry == [id: Nat, delivered: BOOLEAN, acked: BOOLEAN]
Event ==
    [kind: {"register", "send", "deliver", "expire", "heartbeat", "ack"},
     worker: WorkerIds, msg: Nat]
Idle == [pc |-> "idle", worker |-> None, notify |-> NoNotify, msg |-> NoMsg]
Task == {Idle} \cup
    [pc: {"popped", "polling", "waiting", "elapsed", "woken", "replying"},
     worker: WorkerIds, notify: NotifyIds \cup {NoNotify}, msg: Nat]

Put(f, k, v) == [x \in DOMAIN f \cup {k} |-> IF x = k THEN v ELSE f[x]]
Without(f, S) == [x \in DOMAIN f \ S |-> f[x]]
\* What is left of a VecDeque after "while len > max { pop_front }".
LastN(s, n) == IF Len(s) > n THEN SubSeq(s, Len(s) - n + 1, Len(s)) ELSE s

-----------------------------------------------------------------------------
(* Registry helpers *)

MutantExpiresEarly(ws) == {w \in DOMAIN ws : ws[w].expires_at <= now + 1}
\* evict_expired's filter.
ExpiredIn(ws) == {w \in DOMAIN ws : ws[w].expires_at <= now}
Expired == ExpiredIn(workers)
Live == DOMAIN workers \ Expired

\* remove_worker for every id of S, one operator per map.
WorkersWithout(S) == Without(workers, S)
MailboxesWithout(S) == Without(mailboxes, S)
NotifiersWithout(S) == Without(notifiers, S)
MutantKeepsPrompts(S) == role_prompts
PromptsWithout(S) == Without(role_prompts, S)
RemoveWorkers(S) ==
    /\ workers' = WorkersWithout(S)
    /\ mailboxes' = MailboxesWithout(S)
    /\ notifiers' = NotifiersWithout(S)
    /\ role_prompts' = PromptsWithout(S)

\* A caller that names itself gets a new lease, if the registry knows it.
Renewed(ws, w) ==
    IF w \in DOMAIN ws THEN [ws EXCEPT ![w].expires_at = now + ws[w].ttl] ELSE ws

\* emit_and_record.
Ev(kind, w, m) == [kind |-> kind, worker |-> w, msg |-> m]
Recorded(events) == LastN(event_history \o events, EventHistoryMax)

-----------------------------------------------------------------------------
(* Registration *)

MutantAnyAgent(w, reg) == TRUE
SameAgent(w, reg) == workers[w].name = reg.name /\ workers[w].role = reg.role
MutantNoExpiry(reg) == IF reg.evict THEN {w \in Live : workers[w].name = reg.name} ELSE {}
\* The same-name pass: it runs after the expired workers are gone.
Superseded(reg) ==
    Expired \cup IF reg.evict THEN {w \in Live : workers[w].name = reg.name} ELSE {}

StorePrompt(prompts, w, reg) ==
    role_prompts' = IF reg.prompted THEN Put(prompts, w, reg.name) ELSE prompts

NewWorker(reg) ==
    [name |-> reg.name, role |-> reg.role, ttl |-> reg.ttl,
     expires_at |-> now + reg.ttl, claimed |-> reg.id = None,
     last_status |-> None, status_history |-> <<>>]

\* The idempotent claim: the id is live under the same name and role.
Claim(reg, w) ==
    /\ w = reg.id /\ w \in Live /\ SameAgent(w, reg)
    /\ workers' = [WorkersWithout(Expired) EXCEPT
                     ![w].ttl = reg.ttl, ![w].expires_at = now + reg.ttl,
                     ![w].claimed = TRUE]
    /\ mailboxes' = MailboxesWithout(Expired)
    /\ notifiers' = NotifiersWithout(Expired)
    /\ StorePrompt(PromptsWithout(Expired), w, reg)
    /\ UNCHANGED issued

\* A new record, under the supplied id or a fresh one.
Insert(reg, w) ==
    /\ w \notin Live
    /\ IF reg.id = None THEN w \in WorkerIds \ issued ELSE w = reg.id
    /\ LET gone == Superseded(reg)
       IN  /\ workers' = Put(WorkersWithout(gone), w, NewWorker(reg))
           /\ mailboxes' = MailboxesWithout(gone)
           /\ notifiers' = NotifiersWithout(gone)
           /\ StorePrompt(PromptsWithout(gone), w, reg)
    /\ issued' = issued \cup {w}

RegisterWorker(reg, w) == Claim(reg, w) \/ Insert(reg, w)

\* WorkerIdCollision: only the eviction has happened.
RegisterCollision(reg) ==
    /\ reg.id \in Live /\ ~SameAgent(reg.id, reg)
    /\ RemoveWorkers(Expired)
    /\ UNCHANGED <<now, ack_log, message_history, event_history,
                   messages_delivered, sent, issued, notify, task, received>>

\* A client's register request.
Register(reg) ==
    \E w \in WorkerIds :
        /\ RegisterWorker(reg, w)
        /\ event_history' = Recorded(<<Ev("register", w, NoMsg)>>)
        /\ UNCHANGED <<now, ack_log, message_history, messages_delivered, sent,
                       notify, task, received>>

\* The orchestrator and its supervisors register an agent directly: always
\* with an id, a prompt and evict, and without an event.
PreRegister(reg) ==
    /\ reg.id # None /\ reg.prompted /\ reg.evict
    /\ RegisterWorker(reg, reg.id)
    /\ UNCHANGED <<now, ack_log, message_history, event_history,
                   messages_delivered, sent, notify, task, received>>

\* The ids the orchestrator generates for the agents it starts.
OrchestratorIds ==
    {reg.id : reg \in {r \in Registrations : r.id # None /\ r.prompted /\ r.evict}}

\* The orchestrator gives up on an agent whose process could not be spawned.
RemoveWorker(w) ==
    /\ RemoveWorkers({w})
    /\ UNCHANGED <<now, ack_log, message_history, event_history,
                   messages_delivered, sent, issued, notify, task, received>>

-----------------------------------------------------------------------------
(* Requests answered in one critical section *)

\* A request whose only effect is the eviction: a status query, the monitor's
\* api_team, and any heartbeat, ack, clear or anonymous team that changes
\* nothing else (unknown or expired worker, unknown message, not addressed).
EvictExpired ==
    /\ RemoveWorkers(Expired)
    /\ UNCHANGED <<now, ack_log, message_history, event_history,
                   messages_delivered, sent, issued, notify, task, received>>

\* The caller's lease is renewed before list_workers evicts.
Team(from) ==
    LET ws == Renewed(workers, from)
        gone == ExpiredIn(ws)
    IN  /\ workers' = Without(ws, gone)
        /\ mailboxes' = MailboxesWithout(gone)
        /\ notifiers' = NotifiersWithout(gone)
        /\ role_prompts' = PromptsWithout(gone)
        /\ UNCHANGED <<now, ack_log, message_history, event_history,
                       messages_delivered, sent, issued, notify, task, received>>

MutantNoLeaseCheck(to, ws) == to \in DOMAIN ws
CanReceive(to, ws) == to \in DOMAIN ws \ ExpiredIn(ws)
Mailbox(w) == IF w \in DOMAIN mailboxes THEN mailboxes[w] ELSE <<>>
MutantPushFront(box, m) == <<m>> \o box
Enqueued(box, m) == Append(box, m)
MutantUntrimmed(history) == history
TrimHistory(history) == LastN(history, MessageHistoryMax)
\* notify_waiters() in place of notify_one(): no permit for a later poll.
MutantNoPermit(to) ==
    IF to \in DOMAIN notifiers /\ notify[notifiers[to]].waiters # <<>>
    THEN [notify EXCEPT ![notifiers[to]] = NotifyOne(@)]
    ELSE notify
\* Wake any long-polling listener for the worker.
WakeListener(to) ==
    IF to \in DOMAIN notifiers
    THEN [notify EXCEPT ![notifiers[to]] = NotifyOne(@)]
    ELSE notify

\* Here too the sender's lease is renewed before send_message evicts.
Send(to, from) ==
    LET ws == Renewed(workers, from)
        gone == ExpiredIn(ws)
        m == Len(sent) + 1
    IN  /\ CanReceive(to, ws)
        /\ m <= MaxMsgs
        /\ sent' = Append(sent, to)
        /\ workers' = Without(ws, gone)
        /\ mailboxes' = Put(MailboxesWithout(gone), to, Enqueued(Mailbox(to), m))
        /\ notifiers' = NotifiersWithout(gone)
        /\ role_prompts' = PromptsWithout(gone)
        /\ message_history' = TrimHistory(Append(message_history,
                [id |-> m, delivered |-> FALSE, acked |-> FALSE]))
        /\ notify' = WakeListener(to)
        /\ event_history' = Recorded(<<Ev("send", to, m)>>)
        /\ UNCHANGED <<now, ack_log, messages_delivered, issued, task, received>>

SendRejected(to, from) ==
    /\ ~CanReceive(to, Renewed(workers, from))
    /\ Team(from)

\* push_status_history: dedupe against the newest entry, then cap.
PushStatus(history, s) ==
    IF history # <<>> /\ Last(history) = s
    THEN history
    ELSE LastN(Append(history, s), StatusHistoryMax)

WithStatus(worker, s) ==
    IF s \in {None, worker.last_status}
    THEN worker
    ELSE [worker EXCEPT
            !.last_status = s,
            !.status_history = IF worker.last_status = None THEN @
                               ELSE PushStatus(@, worker.last_status)]

Heartbeat(w, s) ==
    /\ w \in Live
    /\ workers' = [WorkersWithout(Expired) EXCEPT
                     ![w] = [WithStatus(workers[w], s) EXCEPT
                               !.expires_at = now + workers[w].ttl,
                               !.claimed = TRUE]]
    /\ mailboxes' = MailboxesWithout(Expired)
    /\ notifiers' = NotifiersWithout(Expired)
    /\ role_prompts' = PromptsWithout(Expired)
    /\ event_history' = Recorded(<<Ev("heartbeat", w, NoMsg)>>)
    /\ UNCHANGED <<now, ack_log, message_history, messages_delivered, sent,
                   issued, notify, task, received>>

\* The history of taglines is left alone.
ClearStatus(w) ==
    /\ w \in Live
    /\ workers' = [WorkersWithout(Expired) EXCEPT ![w].last_status = None]
    /\ mailboxes' = MailboxesWithout(Expired)
    /\ notifiers' = NotifiersWithout(Expired)
    /\ role_prompts' = PromptsWithout(Expired)
    /\ UNCHANGED <<now, ack_log, message_history, event_history,
                   messages_delivered, sent, issued, notify, task, received>>

MutantAnybodyAcks(w, m) ==
    w \in Live /\ \E i \in DOMAIN message_history : message_history[i].id = m
\* The checks of ack_message, in its order.
AckAllowed(w, m) ==
    /\ w \in Live
    /\ \E i \in DOMAIN message_history : message_history[i].id = m
    /\ sent[m] = w

MutantNotMarked(m) == message_history
MarkAcked(m) ==
    [i \in DOMAIN message_history |->
        IF message_history[i].id = m
        THEN [message_history[i] EXCEPT !.acked = TRUE]
        ELSE message_history[i]]

Ack(w, m) ==
    /\ AckAllowed(w, m)
    /\ RemoveWorkers(Expired)
    /\ ack_log' = Put(ack_log, m, w)
    /\ message_history' = MarkAcked(m)
    /\ event_history' = Recorded(<<Ev("ack", w, m)>>)
    /\ UNCHANGED <<now, messages_delivered, sent, issued, notify, task, received>>

-----------------------------------------------------------------------------
(* Listen: the long poll *)

\* One event for each evicted worker, in HashMap order.
ExpireEvents(order) == [i \in DOMAIN order |-> Ev("expire", order[i], NoMsg)]
RecordExpired ==
    \E order \in SetToSeqs(Expired) : event_history' = Recorded(ExpireEvents(order))

MutantLeavesLast(w) == Len(Mailbox(w)) > 1
\* pop_message: there may be no mailbox, and nothing looks at the lease.
HasMail(w) == Mailbox(w) # <<>>
MutantPeek(box) == box
Popped(box) == Tail(box)
MarkDelivered(m) ==
    [i \in DOMAIN message_history |->
        IF message_history[i].id = m
        THEN [message_history[i] EXCEPT !.delivered = TRUE]
        ELSE message_history[i]]

\* get_notifier: an object nobody refers to any more is a new one.
InUse == {notifiers[w] : w \in DOMAIN notifiers} \cup {task[c].notify : c \in Clients}
FreeNotify == CHOOSE n \in NotifyIds : n \notin InUse
NotifierOf(w) == IF w \in DOMAIN notifiers THEN notifiers[w] ELSE FreeNotify
GetNotifier(w) ==
    /\ NotifyIds \ InUse # {}
    /\ notifiers' = Put(NotifiersWithout(Expired), w, NotifierOf(w))
    /\ notify' = IF w \in DOMAIN notifiers THEN notify
                 ELSE [notify EXCEPT ![FreeNotify] = NewNotify]

\* First critical section: the worker is gone.
ListenRejected(c, w) ==
    /\ task[c] = Idle /\ w \in ListensAs[c]
    /\ w \notin Live
    /\ RemoveWorkers(Expired)
    /\ RecordExpired
    /\ UNCHANGED <<now, ack_log, message_history, messages_delivered, sent,
                   issued, notify, task, received>>

\* ... or it is renewed, its notifier fetched or created, and
\* either a message was waiting, ...
ListenImmediate(c, w) ==
    /\ task[c] = Idle /\ w \in ListensAs[c]
    /\ w \in Live /\ HasMail(w)
    /\ workers' = Renewed(WorkersWithout(Expired), w)
    /\ mailboxes' = [MailboxesWithout(Expired) EXCEPT ![w] = Popped(@)]
    /\ role_prompts' = PromptsWithout(Expired)
    /\ GetNotifier(w)
    /\ RecordExpired
    /\ message_history' = MarkDelivered(Head(Mailbox(w)))
    /\ task' = [task EXCEPT ![c] = [pc |-> "popped", worker |-> w,
                                    notify |-> NoNotify, msg |-> Head(Mailbox(w))]]
    /\ UNCHANGED <<now, ack_log, messages_delivered, sent, issued, received>>

\* ... or the lock is released with a Notified future still to be polled.
ListenEmpty(c, w) ==
    /\ task[c] = Idle /\ w \in ListensAs[c]
    /\ w \in Live /\ ~HasMail(w)
    /\ workers' = Renewed(WorkersWithout(Expired), w)
    /\ mailboxes' = MailboxesWithout(Expired)
    /\ role_prompts' = PromptsWithout(Expired)
    /\ GetNotifier(w)
    /\ RecordExpired
    /\ task' = [task EXCEPT ![c] = [pc |-> "polling", worker |-> w,
                                    notify |-> NotifierOf(w), msg |-> NoMsg]]
    /\ UNCHANGED <<now, ack_log, message_history, messages_delivered, sent,
                   issued, received>>

Listen(c, w) == ListenRejected(c, w) \/ ListenImmediate(c, w) \/ ListenEmpty(c, w)

\* The end of the handler: a response with message m, or a timeout response.
Reply(c, m) ==
    task' = [task EXCEPT ![c].pc = "replying", ![c].notify = NoNotify, ![c].msg = m]

CountDelivery == messages_delivered' = messages_delivered + 1

\* Second critical section of an immediate delivery.
CountImmediate(c) ==
    /\ task[c].pc = "popped"
    /\ CountDelivery
    /\ event_history' = Recorded(<<Ev("deliver", task[c].worker, task[c].msg)>>)
    /\ Reply(c, task[c].msg)
    /\ UNCHANGED <<now, registry, ack_log, message_history, sent, issued, notify, received>>

\* timeout() polls notified() first: a stored permit ends the wait at once.
PollNotified(c) ==
    LET n == task[c].notify
    IN  /\ task[c].pc = "polling"
        /\ \/ /\ notify[n].permit
              /\ notify' = [notify EXCEPT ![n] = TakePermit(@)]
              /\ task' = [task EXCEPT ![c].pc = "woken"]
           \/ /\ ~notify[n].permit
              /\ notify' = [notify EXCEPT ![n] = JoinWaiters(@, c)]
              /\ task' = [task EXCEPT ![c].pc = "waiting"]
        /\ UNCHANGED <<now, registry, ack_log, message_history, event_history,
                       messages_delivered, sent, issued, received>>

NotifiedReady(c) ==
    LET n == task[c].notify
    IN  /\ task[c].pc = "waiting" /\ c \in notify[n].notified
        /\ notify' = [notify EXCEPT ![n] = Resolve(@, c)]
        /\ task' = [task EXCEPT ![c].pc = "woken"]
        /\ UNCHANGED <<now, registry, ack_log, message_history, event_history,
                       messages_delivered, sent, issued, received>>

MutantNoTimeout(c) == FALSE
\* The timer is tokio's, not the broker's wall clock: it may fire at any time.
TimerElapsed(c) ==
    /\ task[c].pc = "waiting" /\ c \notin notify[task[c].notify].notified
    /\ task' = [task EXCEPT ![c].pc = "elapsed"]
    /\ UNCHANGED <<now, registry, ack_log, message_history, event_history,
                   messages_delivered, sent, issued, notify, received>>

\* A notification that came between the timer's poll and this drop moves on.
TimedOut(c) ==
    /\ task[c].pc = "elapsed"
    /\ notify' = [notify EXCEPT ![task[c].notify] = DropNotified(@, c)]
    /\ Reply(c, NoMsg)
    /\ UNCHANGED <<now, registry, ack_log, message_history, event_history,
                   messages_delivered, sent, issued, received>>

\* The critical section after a notification: deliver, ...
PopAfterWake(c) ==
    LET w == task[c].worker
        m == Head(Mailbox(w))
    IN  /\ task[c].pc = "woken" /\ HasMail(w)
        /\ mailboxes' = [mailboxes EXCEPT ![w] = Popped(@)]
        /\ message_history' = MarkDelivered(m)
        /\ CountDelivery
        /\ event_history' = Recorded(<<Ev("deliver", w, m)>>)
        /\ Reply(c, m)
        /\ UNCHANGED <<now, workers, notifiers, role_prompts, ack_log, sent,
                       issued, notify, received>>

\* ... or "spurious wake, treat as timeout".
SpuriousWake(c) ==
    /\ task[c].pc = "woken" /\ ~HasMail(task[c].worker)
    /\ Reply(c, NoMsg)
    /\ UNCHANGED <<now, registry, ack_log, message_history, event_history,
                   messages_delivered, sent, issued, notify, received>>

\* handle_connection writes the response; the client may be gone by then.
WriteResponse(c) ==
    /\ task[c].pc = "replying"
    /\ task' = [task EXCEPT ![c] = Idle]
    /\ received' = IF task[c].msg = NoMsg THEN received
                   ELSE [received EXCEPT ![c] = Append(@, task[c].msg)]
    /\ UNCHANGED <<now, registry, ack_log, message_history, event_history,
                   messages_delivered, sent, issued, notify>>

WriteFails(c) ==
    /\ task[c].pc = "replying"
    /\ task' = [task EXCEPT ![c] = Idle]
    /\ UNCHANGED <<now, registry, ack_log, message_history, event_history,
                   messages_delivered, sent, issued, notify, received>>

-----------------------------------------------------------------------------
Tick ==
    /\ now < MaxNow
    /\ now' = now + 1
    /\ UNCHANGED <<registry, ack_log, message_history, event_history,
                   messages_delivered, sent, issued, notify, task, received>>

Init ==
    /\ now = 0
    /\ workers = <<>> /\ mailboxes = <<>> /\ notifiers = <<>> /\ role_prompts = <<>>
    /\ ack_log = <<>> /\ message_history = <<>> /\ event_history = <<>>
    /\ messages_delivered = 0 /\ sent = <<>> /\ issued = {}
    /\ notify = [n \in NotifyIds |-> NewNotify]
    /\ task = [c \in Clients |-> Idle]
    /\ received = [c \in Clients |-> <<>>]

\* One step of the task that serves client c's listen request.
HandlerStep(c) ==
    \/ CountImmediate(c) \/ PollNotified(c) \/ NotifiedReady(c)
    \/ TimerElapsed(c) \/ TimedOut(c) \/ PopAfterWake(c) \/ SpuriousWake(c)
    \/ WriteResponse(c) \/ WriteFails(c)

Next ==
    \/ Tick
    \/ EvictExpired
    \/ \E reg \in Registrations : Register(reg) \/ PreRegister(reg) \/ RegisterCollision(reg)
    \/ \E w \in WorkerIds :
        \/ w \in OrchestratorIds /\ RemoveWorker(w)
        \/ Team(w)
        \/ ClearStatus(w)
        \/ \E s \in Statuses \cup {None} : Heartbeat(w, s)
        \/ \E m \in MsgIds : Ack(w, m)
        \/ \E from \in WorkerIds \cup {None} : Send(w, from) \/ SendRejected(w, from)
        \/ \E c \in Clients : Listen(c, w)
    \/ \E c \in Clients : HandlerStep(c)

Spec == Init /\ [][Next]_vars

\* tokio schedules every spawned task, and a long poll has a timer.
HandlerFairness == \A c \in Clients : WF_vars(HandlerStep(c))
\* Agents call listen again after every response, as dispatch-comms.md tells them.
ClientFairness == \A c \in Clients : WF_vars(\E w \in ListensAs[c] : Listen(c, w))
FairSpec == Spec /\ HandlerFairness /\ ClientFairness

-----------------------------------------------------------------------------
(* Properties *)

RegistryTypeOK ==
    /\ workers \in [DOMAIN workers -> Worker] /\ DOMAIN workers \subseteq WorkerIds
    /\ mailboxes \in [DOMAIN mailboxes -> Seq(Nat)]
    /\ notifiers \in [DOMAIN notifiers -> NotifyIds]
    /\ role_prompts \in [DOMAIN role_prompts -> Names]
HistoryTypeOK ==
    /\ message_history \in Seq(HistoryEntry) /\ Len(message_history) <= MessageHistoryMax
    /\ event_history \in Seq(Event) /\ Len(event_history) <= EventHistoryMax
LedgerTypeOK ==
    /\ ack_log \in [DOMAIN ack_log -> WorkerIds]
    /\ messages_delivered \in Nat
    /\ sent \in Seq(WorkerIds)
    /\ received \in [Clients -> Seq(Nat)]
ListenTypeOK ==
    /\ notify \in [NotifyIds -> NotifyState(Clients)]
    /\ task \in [Clients -> Task]

\* Every variable keeps its type; the histories respect their caps.
TypeOK ==
    /\ now \in Nat
    /\ issued \in SUBSET WorkerIds
    /\ RegistryTypeOK
    /\ HistoryTypeOK
    /\ LedgerTypeOK
    /\ ListenTypeOK

\* The broker never retains partial state for a worker that no longer exists:
\* whatever handler ran last, a mailbox, a notifier or a role prompt belongs
\* to a registered worker (the invariant remove_worker's comment states).
NoPartialState ==
    /\ DOMAIN mailboxes \subseteq DOMAIN workers
    /\ DOMAIN notifiers \subseteq DOMAIN workers
    /\ DOMAIN role_prompts \subseteq DOMAIN workers

\* The prompt a registration gets back was written for the agent registered
\* under that id: claims, collisions, evictions and re-use of an id never hand
\* one agent's instructions to another.
PromptBelongs ==
    \A w \in DOMAIN role_prompts :
        w \in DOMAIN workers /\ role_prompts[w] = workers[w].name

\* The messages that connection c's handler holds, has written, or that wait
\* in a mailbox.
Held(c) == IF task[c].msg = NoMsg THEN {} ELSE {task[c].msg}
Written(c) == ToSet(received[c])
Queued == UNION {ToSet(mailboxes[w]) : w \in DOMAIN mailboxes}

\* "Delivered once": no message reaches two clients, or one client twice, or
\* is delivered and still queued, however listeners race for a mailbox.
AtMostOnce ==
    /\ \A c \in Clients : IsInjective(received[c]) /\ Held(c) \cap Written(c) = {}
    /\ \A c, d \in Clients :
        c # d => (Held(c) \cup Written(c)) \cap (Held(d) \cup Written(d)) = {}
    /\ \A c \in Clients : (Held(c) \cup Written(c)) \cap Queued = {}

\* "Via FIFO": a client gets the messages of a worker in the order they were
\* sent, and what is still queued was sent later.
DeliveredInOrder ==
    /\ \A c \in Clients : \A i, j \in DOMAIN received[c] :
        (i < j /\ sent[received[c][i]] = sent[received[c][j]])
            => received[c][i] < received[c][j]
    /\ \A w \in DOMAIN mailboxes : \A m \in ToSet(mailboxes[w]) :
        \A c \in Clients : \A d \in Written(c) : sent[d] = w => d < m

\* The history the monitor and "messages --unacked" read agrees with the
\* queues and the ack log, trimmed or not.
HistoryAgrees ==
    \A i \in DOMAIN message_history : LET h == message_history[i] IN
        /\ h.acked <=> h.id \in DOMAIN ack_log
        /\ h.delivered => h.id \notin Queued
        /\ (\E c \in Clients : h.id \in Held(c) \cup Written(c)) => h.delivered

\* Only the recipient of a message is on record as having acknowledged it.
AckByRecipient ==
    \A m \in DOMAIN ack_log : m \in MsgIds /\ ack_log[m] = sent[m]

\* What has been counted as delivered and is on its way to a client or there,
\* and what may still be counted.
Counted ==
    {m \in MsgIds : \E c \in Clients :
        m \in Written(c) \/ (task[c].pc = "replying" /\ m \in Held(c))}
Uncounted ==
    {m \in MsgIds : m \in Queued \/ \E c \in Clients : task[c].pc = "popped" /\ m \in Held(c)}

\* The two counters of the monitor bracket what happened: everything handed
\* to a client has been counted, and nothing is counted that was not sent.
CountersAgree ==
    /\ Cardinality(Counted) <= messages_delivered
    /\ messages_delivered + Cardinality(Uncounted) <= Len(sent)

\* The bounded history, the acknowledgements and the counters all tell what
\* has become of each message.
BooksAgree == HistoryAgrees /\ CountersAgree

\* Whoever sleeps on the notifier of a worker that has mail has been notified
\* (with one listener for each worker): no wake-up is lost between the release
\* of the lock and the first poll, nor when the timer races a send.
NoLostWakeup ==
    \A c \in Clients : LET w == task[c].worker IN
        (/\ task[c].pc = "waiting" /\ HasMail(w)
         /\ w \in DOMAIN notifiers /\ notifiers[w] = task[c].notify)
            => c \in notify[task[c].notify].notified

\* A message is queued only for a worker whose lease is running once the
\* request is done.
MailOnlyToLive ==
    [][sent' # sent => LET to == Last(sent') IN
        to \in DOMAIN workers' /\ workers'[to].expires_at > now]_vars

\* A worker disappears only because its lease ran out, because a registration
\* superseded its name, or because the orchestrator removed it.
RemovalJustified ==
    [][\A w \in DOMAIN workers \ DOMAIN workers' :
        \/ workers[w].expires_at <= now
        \/ \E v \in DOMAIN workers' \ Live : workers'[v].name = workers[w].name
        \/ w \in OrchestratorIds /\ RemoveWorker(w)]_vars

\* A registration that takes over the id of an expired worker starts blank: it
\* inherits neither mail nor a notifier.  (A worker that names itself in team
\* or send before anybody evicts it is renewed instead.)
FreshStart ==
    [][\A w \in Expired :
        (w \in DOMAIN workers' /\ workers'[w].expires_at # workers[w].expires_at)
            => \/ Team(w)
               \/ \E to \in WorkerIds : Send(to, w)
               \/ w \notin DOMAIN mailboxes' \cup DOMAIN notifiers']_vars

\* When every registration evicts, a name stands for one worker at most, even
\* with claims of supplied ids and expired records in between.
UniqueNames ==
    \A v, w \in DOMAIN workers : workers[v].name = workers[w].name => v = w

\* The event log tells a consistent story of a message: sent before delivered
\* or acknowledged, and delivered once.
EventsOf(kind, m) ==
    {i \in DOMAIN event_history : event_history[i].kind = kind /\ event_history[i].msg = m}
EventCausality ==
    \A m \in MsgIds :
        /\ Cardinality(EventsOf("deliver", m)) <= 1
        /\ \A i \in EventsOf("send", m), j \in EventsOf("deliver", m) \cup EventsOf("ack", m) : i < j

\* The ring of recent taglines never repeats an entry back to back and stays
\* within its cap, across heartbeats, clears and re-registrations.
StatusRing ==
    \A w \in DOMAIN workers : LET h == workers[w].status_history IN
        /\ Len(h) <= StatusHistoryMax
        /\ \A i \in 1..Len(h) - 1 : h[i] # h[i + 1]

\* Every listen request is answered.
ListenAnswered == \A c \in Clients : task[c] # Idle ~> task[c] = Idle

\* While its agent keeps listening, mail does not stay in a mailbox for ever.
MailDrained == \A m \in 1..MaxMsgs : m \in Queued ~> m \notin Queued

-----------------------------------------------------------------------------
(* What comments and documents say, and the code does not do *)

\* "The listen command long-polls: it blocks until a message arrives or the
\* timeout is reached": no wait ends early without a message.
BlocksUntilMessageOrTimeout ==
    [][\A c \in Clients :
        (task[c].pc = "woken" /\ task'[c].pc = "replying") => task'[c].msg # NoMsg]_vars

\* "Every other broker entry point prunes expired workers up front": after a
\* team or send request no worker whose lease had run out is registered.
PrunedUpFront ==
    [][(\E from, to \in WorkerIds : Team(from) \/ Send(to, from))
        => \A w \in Expired : w \notin DOMAIN workers']_vars

\* "Wake any long-polling listener for this worker": nobody sleeps through a
\* message queued for the worker it listens as.
ListenerWoken ==
    \A c \in Clients :
        (task[c].pc = "waiting" /\ HasMail(task[c].worker))
            => c \in notify[task[c].notify].notified

\* delivered_at is when "the message was delivered to the recipient": what is
\* marked delivered has reached, or is on its way to, a client.
DeliveredReachesClient ==
    \A i \in DOMAIN message_history :
        message_history[i].delivered
            => \E c \in Clients : message_history[i].id \in Held(c) \cup Written(c)

=============================================================================
