--------------------------- MODULE DeliveryProofs ---------------------------
(***************************************************************************)
(* How messages reach connections: delivery at most once and in order, no  *)
(* lost wake-up, a history and counters that agree with both, and that the *)
(* broker implements Mailboxes.  Theorems about Broker for every number of *)
(* workers, connections and messages.                                      *)
(***************************************************************************)
EXTENDS BrokerProofs, FiniteSetTheorems, MailboxesRefinement

USE DEF NoMsg

Hand(c) == Held(c) \cup Written(c)

\* A mailbox holds messages sent to its worker, in the order they were sent.
MailboxInv ==
    \A w \in DOMAIN mailboxes :
        /\ \A i \in 1..Len(mailboxes[w]) :
            mailboxes[w][i] \in MsgIds /\ sent[mailboxes[w][i]] = w
        /\ \A i, j \in 1..Len(mailboxes[w]) :
            i < j => mailboxes[w][i] < mailboxes[w][j]

\* What a connection holds or has written was sent before what is queued.
HandInv ==
    \A c \in Clients : \A d \in Hand(c) :
        /\ d \in MsgIds
        /\ \A w \in DOMAIN mailboxes : \A i \in 1..Len(mailboxes[w]) :
            sent[d] = w => d < mailboxes[w][i]

\* What a connection has written, it has written once and in order, and what
\* it holds comes after.
ClientInv ==
    \A c \in Clients :
        /\ \A i, j \in 1..Len(received[c]) : i < j =>
            /\ received[c][i] # received[c][j]
            /\ sent[received[c][i]] = sent[received[c][j]]
                => received[c][i] < received[c][j]
        /\ \A i \in 1..Len(received[c]) : \A d \in Held(c) :
            /\ received[c][i] # d
            /\ sent[received[c][i]] = sent[d] => received[c][i] < d

\* No two connections share a message.
DisjointInv == \A c, d \in Clients : c # d => Hand(c) \cap Hand(d) = {}

MailInv == MailboxInv /\ HandInv /\ ClientInv /\ DisjointInv

\* The elements of a sequence are those at its positions.
LEMMA ToSetIs ==
    ASSUME NEW T, NEW s \in Seq(T)
    PROVE  ToSet(s) = {s[i] : i \in 1..Len(s)}
BY DEF ToSet

-----------------------------------------------------------------------------
(* The four ways a step moves messages *)

\* Nothing moves but the mailboxes of removed workers, and maybe a response
\* that is dropped.
LEMMA LessMail ==
    ASSUME MailInv, NEW S, mailboxes' = Without(mailboxes, S),
           sent' = sent, received' = received,
           \A c \in Clients : Held(c)' \subseteq Held(c)
    PROVE  MailInv'
<1>1. /\ DOMAIN mailboxes' \subseteq DOMAIN mailboxes
      /\ \A w \in DOMAIN mailboxes' : mailboxes'[w] = mailboxes[w]
  BY DEF Without
<1>2. MsgIds' = MsgIds
  BY DEF MsgIds
<1>3. \A c \in Clients : Written(c)' = Written(c) /\ Hand(c)' \subseteq Hand(c)
  BY DEF Written, Hand
<1>4. MailboxInv'
  BY <1>1, <1>2 DEF MailInv, MailboxInv
<1>5. HandInv'
  BY <1>1, <1>2, <1>3 DEF MailInv, HandInv
<1>6. ClientInv'
  BY DEF MailInv, ClientInv
<1>7. DisjointInv'
  BY <1>3 DEF MailInv, DisjointInv
<1> QED
  BY <1>4, <1>5, <1>6, <1>7 DEF MailInv

\* A message that was just sent is younger than all others.
LEMMA MoreMail ==
    ASSUME TypeOK, MailInv, NEW to \in WorkerIds, NEW from, Send(to, from)
    PROVE  MailInv'
<1> DEFINE m == Len(sent) + 1
           gone == ExpiredIn(Renewed(workers, from))
           box == mailboxes'
<1>1. /\ sent \in Seq(WorkerIds) /\ sent' = Append(sent, to)
      /\ task' = task /\ received' = received
      /\ box = Put(MailboxesWithout(gone), to, Append(Mailbox(to), m))
  BY DEF Send, TypeOK, LedgerTypeOK, Enqueued
<1>2. /\ MsgIds' = MsgIds \cup {m} /\ sent'[m] = to
      /\ \A k \in MsgIds : sent'[k] = sent[k] /\ k < m /\ k \in Nat
  BY <1>1 DEF MsgIds
<1>3. Mailbox(to) \in Seq(Nat)
  BY DEF Mailbox, TypeOK, RegistryTypeOK
<1>4. /\ to \in DOMAIN box /\ box[to] = Append(Mailbox(to), m)
      /\ \A w \in DOMAIN box \ {to} : w \in DOMAIN mailboxes /\ box[w] = mailboxes[w]
  BY <1>1 DEF Put, MailboxesWithout, Without
<1>5. /\ Len(box[to]) = Len(Mailbox(to)) + 1 /\ box[to][Len(Mailbox(to)) + 1] = m
      /\ \A i \in 1..Len(Mailbox(to)) : box[to][i] = Mailbox(to)[i]
  BY <1>1, <1>3, <1>4
<1>6. /\ \A i \in 1..Len(Mailbox(to)) : Mailbox(to)[i] \in MsgIds /\ sent[Mailbox(to)[i]] = to
      /\ \A i, j \in 1..Len(Mailbox(to)) : i < j => Mailbox(to)[i] < Mailbox(to)[j]
      /\ \A c \in Clients : \A d \in Hand(c) : \A i \in 1..Len(Mailbox(to)) :
            sent[d] = to => d < Mailbox(to)[i]
  BY DEF Mailbox, MailInv, MailboxInv, HandInv
<1>7. \A c \in Clients : Held(c)' = Held(c) /\ Written(c)' = Written(c) /\ Hand(c)' = Hand(c)
  BY <1>1 DEF Held, Written, Hand
<1>8. \A c \in Clients : Hand(c) \subseteq MsgIds
  BY DEF MailInv, HandInv
<1>9. MailboxInv'
  <2>1. ASSUME NEW w \in DOMAIN box, w # to, NEW i \in 1..Len(box[w])
        PROVE  box[w][i] \in MsgIds' /\ sent'[box[w][i]] = w
    BY <1>2, <1>4, <2>1 DEF MailInv, MailboxInv
  <2>2. ASSUME NEW i \in 1..Len(box[to])
        PROVE  box[to][i] \in MsgIds' /\ sent'[box[to][i]] = to
    BY <1>2, <1>3, <1>5, <1>6
  <2>3. ASSUME NEW w \in DOMAIN box, w # to, NEW i \in 1..Len(box[w]), NEW j \in 1..Len(box[w]), i < j
        PROVE  box[w][i] < box[w][j]
    BY <1>4, <2>3 DEF MailInv, MailboxInv
  <2>4. ASSUME NEW i \in 1..Len(box[to]), NEW j \in 1..Len(box[to]), i < j
        PROVE  box[to][i] < box[to][j]
    <3>1. Len(Mailbox(to)) \in Nat
      BY <1>3
    <3>2. i \in 1..Len(Mailbox(to)) /\ box[to][i] = Mailbox(to)[i]
      BY <1>5, <2>4, <3>1
    <3>3. CASE j \in 1..Len(Mailbox(to))
      BY <1>5, <1>6, <2>4, <3>2, <3>3
    <3>4. CASE j = Len(Mailbox(to)) + 1
      BY <1>2, <1>5, <1>6, <3>2, <3>4
    <3> QED
      BY <1>5, <3>1, <3>3, <3>4
  <2> QED
    BY <2>1, <2>2, <2>3, <2>4 DEF MailboxInv
<1>10. HandInv'
  <2> SUFFICES ASSUME NEW c \in Clients, NEW d \in Hand(c)
               PROVE  /\ d \in MsgIds'
                      /\ \A w \in DOMAIN box : \A i \in 1..Len(box[w]) :
                            sent'[d] = w => d < box[w][i]
    BY <1>7 DEF HandInv
  <2>1. d \in MsgIds /\ d < m /\ sent'[d] = sent[d]
    BY <1>2, <1>8
  <2>2. \A w \in DOMAIN box \ {to} : \A i \in 1..Len(box[w]) : sent[d] = w => d < box[w][i]
    BY <1>4 DEF MailInv, HandInv
  <2>3. \A i \in 1..Len(box[to]) : sent[d] = to => d < box[to][i]
    BY <1>3, <1>5, <1>6, <2>1
  <2> QED
    BY <1>2, <2>1, <2>2, <2>3
<1>11. ClientInv'
  <2>1. \A c \in Clients : \A i \in 1..Len(received[c]) : received[c][i] \in Hand(c)
    BY DEF Hand, Written, ToSet, TypeOK, LedgerTypeOK
  <2>2. \A c \in Clients : Held(c) \subseteq Hand(c)
    BY DEF Hand
  <2>3. \A c \in Clients : \A i \in 1..Len(received[c]) : sent'[received[c][i]] = sent[received[c][i]]
    BY <1>2, <1>8, <2>1
  <2>4. \A c \in Clients : \A d \in Held(c) : sent'[d] = sent[d]
    BY <1>2, <1>8, <2>2
  <2>5. received' = received
    BY <1>1
  <2> QED
    BY <1>7, <2>3, <2>4, <2>5 DEF MailInv, ClientInv
<1>12. DisjointInv'
  BY <1>7 DEF MailInv, DisjointInv
<1> QED
  BY <1>9, <1>10, <1>11, <1>12 DEF MailInv

\* The oldest message of a mailbox goes into one connection's hands.
LEMMA PoppedMail ==
    ASSUME TypeOK, MailInv, NEW S, NEW c \in Clients, NEW w \in DOMAIN mailboxes \ S,
           mailboxes[w] # <<>>,
           mailboxes' = [Without(mailboxes, S) EXCEPT ![w] = Tail(mailboxes[w])],
           sent' = sent, received' = received,
           Held(c)' = {Head(mailboxes[w])},
           \A d \in Clients \ {c} : Held(d)' = Held(d)
    PROVE  MailInv'
<1> DEFINE h == Head(mailboxes[w])
           box == mailboxes'
<1>1. mailboxes[w] \in Seq(Nat)
  BY DEF TypeOK, RegistryTypeOK
<1>2. /\ DOMAIN box \subseteq DOMAIN mailboxes /\ w \in DOMAIN box
      /\ box[w] = Tail(mailboxes[w])
      /\ \A v \in DOMAIN box \ {w} : box[v] = mailboxes[v]
  BY DEF Without
<1>3. /\ Len(mailboxes[w]) \in Nat \ {0} /\ Len(box[w]) = Len(mailboxes[w]) - 1
      /\ h = mailboxes[w][1]
      /\ \A i \in 1..Len(box[w]) : box[w][i] = mailboxes[w][i + 1]
  BY <1>1, <1>2
<1>4. h \in MsgIds /\ sent[h] = w /\ h \in Nat
  BY <1>3 DEF MailInv, MailboxInv, MsgIds
<1>5. ASSUME NEW i \in 1..Len(box[w])
      PROVE  h < box[w][i]
  <2>1. 1 \in 1..Len(mailboxes[w]) /\ i + 1 \in 1..Len(mailboxes[w]) /\ 1 < i + 1
    BY <1>3
  <2>2. mailboxes[w][1] < mailboxes[w][i + 1]
    BY <2>1 DEF MailInv, MailboxInv
  <2> QED
    BY <1>3, <2>2
<1>6. MsgIds' = MsgIds
  BY DEF MsgIds
<1>7. /\ \A d \in Clients : Written(d)' = Written(d)
      /\ \A d \in Clients \ {c} : Hand(d)' = Hand(d)
      /\ Hand(c)' \subseteq Hand(c) \cup {h}
  BY DEF Written, Hand
<1>8. \A d \in Clients : \A e \in Hand(d) : e # h /\ (sent[e] = w => e < h)
  BY <1>3, <1>4 DEF MailInv, HandInv
<1>9. MailboxInv'
  <2>1. ASSUME NEW v \in DOMAIN box, NEW i \in 1..Len(box[v])
        PROVE  box[v][i] \in MsgIds /\ sent[box[v][i]] = v
    BY <1>2, <1>3 DEF MailInv, MailboxInv
  <2>2. ASSUME NEW v \in DOMAIN box, NEW i \in 1..Len(box[v]), NEW j \in 1..Len(box[v]), i < j
        PROVE  box[v][i] < box[v][j]
    BY <1>2, <1>3, <2>2 DEF MailInv, MailboxInv
  <2> QED
    BY <1>6, <2>1, <2>2 DEF MailboxInv
<1>10. HandInv'
  <2>1. ASSUME NEW d \in Clients, NEW e \in Hand(d), NEW v \in DOMAIN box,
               NEW i \in 1..Len(box[v]), sent[e] = v
        PROVE  e < box[v][i]
    BY <1>2, <1>3, <2>1 DEF MailInv, HandInv
  <2>2. ASSUME NEW v \in DOMAIN box, NEW i \in 1..Len(box[v]), sent[h] = v
        PROVE  h < box[v][i]
    BY <1>4, <1>5, <2>2
  <2>3. \A d \in Clients : Hand(d) \subseteq MsgIds
    BY DEF MailInv, HandInv
  <2>4. ASSUME NEW d \in Clients, NEW e \in Hand(d)'
        PROVE  e \in MsgIds' /\ (e = h \/ e \in Hand(d))
    BY <1>4, <1>6, <1>7, <2>3, <2>4
  <2>5. ASSUME NEW d \in Clients, NEW e \in Hand(d)',
               NEW v \in DOMAIN mailboxes', NEW i \in 1..Len(mailboxes'[v]), sent'[e] = v
        PROVE  e < mailboxes'[v][i]
    BY <2>1, <2>2, <2>4, <2>5
  <2> QED
    BY <2>4, <2>5 DEF HandInv
<1>11. ClientInv'
  <2>1. \A d \in Clients : \A i \in 1..Len(received[d]) : received[d][i] \in Hand(d)
    BY DEF Hand, Written, ToSet, TypeOK, LedgerTypeOK
  <2>2. ASSUME NEW i \in 1..Len(received[c])
        PROVE  received[c][i] # h /\ (sent[received[c][i]] = sent[h] => received[c][i] < h)
    BY <1>4, <1>8, <2>1
  <2> QED
    BY <2>2 DEF MailInv, ClientInv
<1>12. DisjointInv'
  BY <1>7, <1>8 DEF MailInv, DisjointInv
<1> QED
  BY <1>9, <1>10, <1>11, <1>12 DEF MailInv

\* A connection writes what it holds to its client.
LEMMA WrittenMail ==
    ASSUME TypeOK, MailInv, NEW c \in Clients, WriteResponse(c)
    PROVE  MailInv'
<1> DEFINE m == task[c].msg
<1>1. /\ mailboxes' = mailboxes /\ sent' = sent
      /\ task' = [task EXCEPT ![c] = Idle] /\ task \in [Clients -> Task]
      /\ received \in [Clients -> Seq(Nat)] /\ m \in Nat
  BY DEF WriteResponse, registry, TypeOK, ListenTypeOK, LedgerTypeOK, Task, Idle
<1>2. Held(c)' = {} /\ \A d \in Clients \ {c} : Held(d)' = Held(d)
  BY <1>1 DEF Held, Idle
<1>3. CASE m = NoMsg
  <2>1. received' = received
    BY <1>3 DEF WriteResponse
  <2>2. mailboxes' = Without(mailboxes, {})
    BY <1>1 DEF Without, TypeOK, RegistryTypeOK
  <2> QED
    BY <1>1, <1>2, <2>1, <2>2, LessMail
<1>4. CASE m # NoMsg
  <2>1. /\ received'[c] = Append(received[c], m)
        /\ \A d \in Clients \ {c} : received'[d] = received[d]
    BY <1>1, <1>4 DEF WriteResponse
  <2>2. /\ Len(received'[c]) = Len(received[c]) + 1 /\ received'[c][Len(received[c]) + 1] = m
        /\ \A i \in 1..Len(received[c]) : received'[c][i] = received[c][i]
        /\ Len(received[c]) \in Nat
    BY <1>1, <2>1
  <2>3. Held(c) = {m}
    BY <1>4 DEF Held
  <2>4. Written(c)' = Written(c) \cup {m}
    <3>1. received[c] \in Seq(Nat) /\ received'[c] \in Seq(Nat)
      BY <1>1, <2>1
    <3>2. Written(c) = {received[c][i] : i \in 1..Len(received[c])}
      BY <3>1 DEF Written, ToSet
    <3>3. Written(c)' = {received'[c][i] : i \in 1..Len(received'[c])}
      BY <3>1 DEF Written, ToSet
    <3>4. 1..Len(received'[c]) = 1..Len(received[c]) \cup {Len(received[c]) + 1}
      BY <2>2
    <3> QED
      BY <2>2, <3>2, <3>3, <3>4
  <2>5. \A d \in Clients : Hand(d)' = Hand(d)
    <3>1. \A d \in Clients \ {c} : Written(d)' = Written(d)
      BY <2>1 DEF Written
    <3> QED
      BY <1>2, <2>3, <2>4, <3>1 DEF Hand
  <2>6. MsgIds' = MsgIds
    BY <1>1 DEF MsgIds
  <2>7. MailboxInv' /\ HandInv' /\ DisjointInv'
    BY <1>1, <2>5, <2>6 DEF MailInv, MailboxInv, HandInv, DisjointInv
  <2>8. ASSUME NEW i \in 1..Len(received[c])
        PROVE  received[c][i] # m /\ (sent[received[c][i]] = sent[m] => received[c][i] < m)
    BY <2>3 DEF MailInv, ClientInv
  <2>9. ASSUME NEW i \in 1..Len(received'[c]), NEW j \in 1..Len(received'[c]), i < j
        PROVE  /\ received'[c][i] # received'[c][j]
               /\ sent[received'[c][i]] = sent[received'[c][j]]
                    => received'[c][i] < received'[c][j]
    <3>1. i \in 1..Len(received[c]) /\ received'[c][i] = received[c][i]
      BY <2>2, <2>9
    <3>2. CASE j \in 1..Len(received[c])
      BY <2>2, <2>9, <3>1, <3>2 DEF MailInv, ClientInv
    <3>3. CASE j = Len(received[c]) + 1
      BY <2>2, <2>8, <3>1, <3>3
    <3> QED
      BY <2>2, <3>2, <3>3
  <2>10. ClientInv'
    <3>1. ASSUME NEW d \in Clients \ {c}
          PROVE  received'[d] = received[d] /\ Held(d)' = Held(d)
      BY <1>2, <2>1
    <3>2. sent' = sent
      BY <1>1
    <3> QED
      BY <1>2, <2>9, <3>1, <3>2 DEF MailInv, ClientInv
  <2> QED
    BY <2>7, <2>10 DEF MailInv
<1> QED
  BY <1>3, <1>4

-----------------------------------------------------------------------------
(* Every step is one of them *)

\* A step that leaves the mailboxes alone.
LEMMA SameMail ==
    ASSUME TypeOK, MailInv, mailboxes' = mailboxes, sent' = sent, received' = received,
           \A c \in Clients : Held(c)' \subseteq Held(c)
    PROVE  MailInv'
<1>1. mailboxes' = Without(mailboxes, {})
  BY DEF Without, TypeOK, RegistryTypeOK
<1> QED
  BY <1>1, LessMail

\* A request that removes workers and concerns no listener.
LEMMA RequestMail ==
    ASSUME MailInv, NEW S, mailboxes' = MailboxesWithout(S),
           sent' = sent, received' = received, task' = task
    PROVE  MailInv'
<1>1. \A c \in Clients : Held(c)' = Held(c)
  BY DEF Held
<1> QED
  BY <1>1, LessMail DEF MailboxesWithout

\* A worker with mail has a mailbox whose oldest message is a message.
LEMMA HeadMail ==
    ASSUME TypeOK, MailInv, NEW w, HasMail(w)
    PROVE  /\ w \in DOMAIN mailboxes /\ mailboxes[w] # <<>> /\ Mailbox(w) = mailboxes[w]
           /\ Head(mailboxes[w]) \in Nat \ {NoMsg}
<1>1. w \in DOMAIN mailboxes /\ mailboxes[w] # <<>> /\ Mailbox(w) = mailboxes[w]
  BY DEF HasMail, Mailbox
<1>2. mailboxes[w] \in Seq(Nat)
  BY <1>1 DEF TypeOK, RegistryTypeOK
<1>3. 1 \in 1..Len(mailboxes[w]) /\ Head(mailboxes[w]) = mailboxes[w][1]
  BY <1>1, <1>2
<1>4. mailboxes[w][1] \in MsgIds
  BY <1>1, <1>3 DEF MailInv, MailboxInv
<1>5. Len(sent) \in Nat
  BY DEF TypeOK, LedgerTypeOK
<1>6. mailboxes[w][1] \in Nat \ {NoMsg}
  BY <1>4, <1>5 DEF MsgIds
<1> QED
  BY <1>1, <1>3, <1>6

\* The first critical section of a listen.
LEMMA ListenMail ==
    ASSUME TypeOK, MailInv, NEW c \in Clients, NEW w \in WorkerIds, Listen(c, w)
    PROVE  MailInv'
<1>1. task \in [Clients -> Task]
  BY DEF TypeOK, ListenTypeOK
<1>2. CASE ListenRejected(c, w)
  BY <1>2, RequestMail DEF ListenRejected, RemoveWorkers
<1>3. CASE ListenEmpty(c, w)
  <2>1. /\ mailboxes' = Without(mailboxes, Expired) /\ sent' = sent /\ received' = received
        /\ task'[c].msg = NoMsg
        /\ \A d \in Clients \ {c} : task'[d] = task[d]
    BY <1>1, <1>3 DEF ListenEmpty, MailboxesWithout
  <2>2. \A d \in Clients : Held(d)' \subseteq Held(d)
    BY <2>1 DEF Held
  <2> QED
    BY <2>1, <2>2, LessMail
<1>4. CASE ListenImmediate(c, w)
  <2>1. /\ w \in DOMAIN mailboxes /\ mailboxes[w] # <<>> /\ Mailbox(w) = mailboxes[w]
        /\ Head(mailboxes[w]) \in Nat \ {NoMsg}
    BY <1>4, HeadMail DEF ListenImmediate
  <2>2. w \notin Expired
    BY <1>4 DEF ListenImmediate, Live
  <2>3. mailboxes' = [Without(mailboxes, Expired) EXCEPT ![w] = Tail(mailboxes[w])]
    BY <1>4, <2>1, <2>2 DEF ListenImmediate, MailboxesWithout, Without, Popped
  <2>4. /\ sent' = sent /\ received' = received
        /\ task'[c].msg = Head(mailboxes[w])
        /\ \A d \in Clients \ {c} : task'[d] = task[d]
    BY <1>1, <1>4, <2>1 DEF ListenImmediate
  <2>5. Held(c)' = {Head(mailboxes[w])} /\ \A d \in Clients \ {c} : Held(d)' = Held(d)
    BY <2>1, <2>4 DEF Held
  <2> QED
    BY <2>1, <2>2, <2>3, <2>4, <2>5, PoppedMail
<1> QED
  BY <1>2, <1>3, <1>4 DEF Listen

\* The steps of the task that serves a listen.
LEMMA HandlerMail ==
    ASSUME TypeOK, MailInv, NEW c \in Clients, HandlerStep(c)
    PROVE  MailInv'
<1>1. task \in [Clients -> Task]
  BY DEF TypeOK, ListenTypeOK
<1>2. ASSUME mailboxes' = mailboxes, sent' = sent, received' = received,
             task'[c].msg \in {task[c].msg, NoMsg},
             \A d \in Clients \ {c} : task'[d] = task[d]
      PROVE  MailInv'
  <2>1. \A d \in Clients : Held(d)' \subseteq Held(d)
    BY <1>2 DEF Held
  <2> QED
    BY <1>2, <2>1, SameMail
<1>3. CASE CountImmediate(c)
  BY <1>1, <1>2, <1>3 DEF CountImmediate, Reply, registry, Task, Idle
<1>4. CASE PollNotified(c)
  <2>1. \E p \in {"woken", "waiting"} : task' = [task EXCEPT ![c].pc = p]
    BY <1>4 DEF PollNotified
  <2>2. task'[c].msg = task[c].msg /\ \A d \in Clients \ {c} : task'[d] = task[d]
    BY <1>1, <2>1 DEF Task, Idle
  <2> QED
    BY <1>2, <1>4, <2>2 DEF PollNotified, registry
<1>5. CASE NotifiedReady(c)
  BY <1>1, <1>2, <1>5 DEF NotifiedReady, registry, Task, Idle
<1>6. CASE TimerElapsed(c)
  BY <1>1, <1>2, <1>6 DEF TimerElapsed, registry, Task, Idle
<1>7. CASE TimedOut(c)
  BY <1>1, <1>2, <1>7 DEF TimedOut, Reply, registry, Task, Idle
<1>8. CASE SpuriousWake(c)
  BY <1>1, <1>2, <1>8 DEF SpuriousWake, Reply, registry, Task, Idle
<1>9. CASE WriteFails(c)
  BY <1>1, <1>2, <1>9 DEF WriteFails, registry, Idle
<1>10. CASE WriteResponse(c)
  BY <1>10, WrittenMail
<1>11. CASE PopAfterWake(c)
  <2> DEFINE w == task[c].worker
  <2>1. /\ w \in DOMAIN mailboxes /\ mailboxes[w] # <<>> /\ Mailbox(w) = mailboxes[w]
        /\ Head(mailboxes[w]) \in Nat \ {NoMsg}
    BY <1>11, HeadMail DEF PopAfterWake
  <2>2. Without(mailboxes, {}) = mailboxes
    BY DEF Without, TypeOK, RegistryTypeOK
  <2>3. mailboxes' = [Without(mailboxes, {}) EXCEPT ![w] = Tail(mailboxes[w])]
    BY <1>11, <2>2 DEF PopAfterWake, Popped
  <2>4. /\ sent' = sent /\ received' = received
        /\ task'[c].msg = Head(mailboxes[w])
        /\ \A d \in Clients \ {c} : task'[d] = task[d]
    BY <1>1, <1>11, <2>1 DEF PopAfterWake, Reply, Task, Idle
  <2>5. Held(c)' = {Head(mailboxes[w])} /\ \A d \in Clients \ {c} : Held(d)' = Held(d)
    BY <2>1, <2>4 DEF Held
  <2> QED
    BY <2>1, <2>3, <2>4, <2>5, PoppedMail, w \in DOMAIN mailboxes \ {}
<1> QED
  BY <1>3, <1>4, <1>5, <1>6, <1>7, <1>8, <1>9, <1>10, <1>11 DEF HandlerStep

\* Every step keeps the invariant.
LEMMA NextMail == TypeOK /\ MailInv /\ [Next]_vars => MailInv'
<1> SUFFICES ASSUME TypeOK, MailInv, [Next]_vars PROVE MailInv'
  OBVIOUS
<1>1. CASE Tick \/ UNCHANGED vars
  <2>1. /\ mailboxes' = mailboxes /\ sent' = sent /\ received' = received
        /\ \A c \in Clients : Held(c)' = Held(c)
    BY <1>1 DEF Tick, vars, registry, Held
  <2> QED
    BY <2>1, SameMail
<1>2. CASE EvictExpired
  BY <1>2, RequestMail DEF EvictExpired, RemoveWorkers
<1>3. ASSUME NEW reg, NEW w, RegisterWorker(reg, w)
      PROVE  \E S : mailboxes' = MailboxesWithout(S)
  BY <1>3 DEF RegisterWorker, Claim, Insert
<1>4. ASSUME NEW reg \in Registrations, Register(reg) \/ PreRegister(reg)
      PROVE  MailInv'
  <2>1. /\ \E w : RegisterWorker(reg, w)
        /\ sent' = sent /\ received' = received /\ task' = task
    BY <1>4 DEF Register, PreRegister
  <2> QED
    BY <1>3, <2>1, RequestMail
<1>5. ASSUME NEW reg \in Registrations, RegisterCollision(reg)
      PROVE  MailInv'
  BY <1>5, RequestMail DEF RegisterCollision, RemoveWorkers
<1>6. ASSUME NEW w \in WorkerIds, RemoveWorker(w)
      PROVE  MailInv'
  BY <1>6, RequestMail DEF RemoveWorker, RemoveWorkers
<1>7. ASSUME NEW from, Team(from)
      PROVE  MailInv'
  BY <1>7, RequestMail DEF Team
<1>8. ASSUME NEW w \in WorkerIds, ClearStatus(w)
      PROVE  MailInv'
  BY <1>8, RequestMail DEF ClearStatus
<1>9. ASSUME NEW w \in WorkerIds, NEW s \in Statuses \cup {None}, Heartbeat(w, s)
      PROVE  MailInv'
  BY <1>9, RequestMail DEF Heartbeat
<1>10. ASSUME NEW w \in WorkerIds, NEW m \in MsgIds, Ack(w, m)
       PROVE  MailInv'
  BY <1>10, RequestMail DEF Ack, RemoveWorkers
<1> QED
  BY <1>1, <1>2, <1>4, <1>5, <1>6, <1>7, <1>8, <1>9, <1>10, MoreMail, ListenMail,
     HandlerMail DEF Next, SendRejected

\* The broker starts without mail.
LEMMA InitMail == Init => MailInv
BY DEF Init, MailInv, MailboxInv, HandInv, ClientInv, DisjointInv, Hand, Held, Written,
       ToSet, Idle

\* The inductive invariant holds throughout.
LEMMA MailCorrect == Spec => []MailInv
BY InitMail, NextMail, TypeCorrect, PTL DEF Spec

\* No message is delivered twice, to two connections, or while it is queued,
\* however many connections listen as one worker.
THEOREM AtMostOnceHolds == Spec => []AtMostOnce
<1>1. TypeOK /\ MailInv => AtMostOnce
  <2> SUFFICES ASSUME TypeOK, MailInv PROVE AtMostOnce
    OBVIOUS
  <2>1. ASSUME NEW c \in Clients
        PROVE  /\ received[c] \in Seq(Nat)
               /\ Written(c) = {received[c][i] : i \in 1..Len(received[c])}
    <3>1. received[c] \in Seq(Nat)
      BY DEF TypeOK, LedgerTypeOK
    <3> QED
      BY <3>1, ToSetIs DEF Written
  <2>2. \A c \in Clients : IsInjective(received[c])
    <3> SUFFICES ASSUME NEW c \in Clients, NEW i \in 1..Len(received[c]),
                        NEW j \in 1..Len(received[c]), received[c][i] = received[c][j]
                 PROVE  i = j
      BY <2>1 DEF IsInjective
    <3>1. ~(i < j) /\ ~(j < i)
      BY DEF MailInv, ClientInv
    <3> QED
      BY <2>1, <3>1
  <2>3. \A c \in Clients : Held(c) \cap Written(c) = {}
    BY <2>1 DEF MailInv, ClientInv
  <2>4. \A c \in Clients : Hand(c) \cap Queued = {}
    <3> SUFFICES ASSUME NEW c \in Clients, NEW d \in Hand(c), NEW w \in DOMAIN mailboxes,
                        d \in ToSet(mailboxes[w])
                 PROVE  FALSE
      BY DEF Queued
    <3>1. mailboxes[w] \in Seq(Nat)
      BY DEF TypeOK, RegistryTypeOK
    <3>2. PICK i \in 1..Len(mailboxes[w]) : d = mailboxes[w][i]
      BY <3>1, ToSetIs
    <3>3. sent[d] = w /\ d \in MsgIds
      BY <3>2 DEF MailInv, MailboxInv
    <3>4. d < d
      BY <3>2, <3>3 DEF MailInv, HandInv
    <3> QED
      BY <3>3, <3>4 DEF MsgIds
  <2> QED
    BY <2>2, <2>3, <2>4 DEF AtMostOnce, MailInv, DisjointInv, Hand
<1> QED
  BY <1>1, MailCorrect, TypeCorrect, PTL

\* Each connection gets a worker's messages in the order they were sent, and
\* everything still queued was sent later.
THEOREM DeliveredInOrderHolds == Spec => []DeliveredInOrder
<1>1. TypeOK /\ MailInv => DeliveredInOrder
  <2> SUFFICES ASSUME TypeOK, MailInv PROVE DeliveredInOrder
    OBVIOUS
  <2>1. \A c \in Clients : DOMAIN received[c] = 1..Len(received[c])
    BY DEF TypeOK, LedgerTypeOK
  <2>2. ASSUME NEW w \in DOMAIN mailboxes, NEW m \in ToSet(mailboxes[w]),
               NEW c \in Clients, NEW d \in Written(c), sent[d] = w
        PROVE  d < m
    <3>1. mailboxes[w] \in Seq(Nat)
      BY DEF TypeOK, RegistryTypeOK
    <3>2. PICK i \in 1..Len(mailboxes[w]) : m = mailboxes[w][i]
      BY <3>1, ToSetIs, <2>2
    <3> QED
      BY <2>2, <3>2 DEF MailInv, HandInv, Hand
  <2> QED
    BY <2>1, <2>2 DEF DeliveredInOrder, MailInv, ClientInv
<1> QED
  BY <1>1, MailCorrect, TypeCorrect, PTL

-----------------------------------------------------------------------------
(* No lost wake-up *)

\* No two connections listen as one worker.
OneListenerEach == \A c, d \in Clients : c # d => ListensAs[c] \cap ListensAs[d] = {}

\* Who may be queued in its Notify object: its future has been polled and not dropped.
Parked(c) == task[c].pc \in {"waiting", "elapsed"}

\* A Notify object serves one worker and is held by one connection, which
\* listens as that worker.
OwnerInv ==
    /\ \A c \in Clients : task[c].notify # NoNotify =>
        task[c].notify \in NotifyIds /\ task[c].worker \in ListensAs[c]
    /\ \A c \in Clients :
        task[c].pc \in {"polling", "waiting", "elapsed"} => task[c].notify # NoNotify
    /\ \A c, d \in Clients :
        (task[c].notify = task[d].notify /\ task[c].notify # NoNotify) => c = d
    /\ \A v \in DOMAIN notifiers, c \in Clients :
        notifiers[v] = task[c].notify => v = task[c].worker
    /\ \A v, w \in DOMAIN notifiers : notifiers[v] = notifiers[w] => v = w

\* A parked connection is queued or notified, not both, and nobody else is.
QueueInv ==
    /\ \A c \in Clients : Parked(c) =>
        \/ notify[task[c].notify].waiters = <<c>> /\ notify[task[c].notify].notified = {}
        \/ notify[task[c].notify].waiters = <<>> /\ notify[task[c].notify].notified = {c}
    /\ \A n \in NotifyIds :
        (\A c \in Clients : Parked(c) => task[c].notify # n)
            => notify[n].waiters = <<>> /\ notify[n].notified = {}

\* Mail that came after the lock was released has left a permit for the first
\* poll, or has notified the sleeper.
PermitInv ==
    \A c \in Clients :
        (/\ task[c].worker \in DOMAIN mailboxes /\ mailboxes[task[c].worker] # <<>>
         /\ task[c].worker \in DOMAIN notifiers
         /\ notifiers[task[c].worker] = task[c].notify)
            => /\ task[c].pc = "polling" => notify[task[c].notify].permit
               /\ task[c].pc = "waiting" => c \in notify[task[c].notify].notified

WakeInv == OwnerInv /\ QueueInv /\ PermitInv

\* No step of this kind brings mail.
NoNewMail ==
    \A w \in DOMAIN mailboxes' :
        mailboxes'[w] # <<>> => w \in DOMAIN mailboxes /\ mailboxes[w] # <<>>

\* A request that only removes workers wakes nobody and needs to wake nobody.
LEMMA RequestWake ==
    ASSUME WakeInv, NEW S, mailboxes' = MailboxesWithout(S), notifiers' = NotifiersWithout(S),
           notify' = notify, task' = task
    PROVE  WakeInv'
<1>1. /\ DOMAIN mailboxes' \subseteq DOMAIN mailboxes
      /\ \A w \in DOMAIN mailboxes' : mailboxes'[w] = mailboxes[w]
      /\ DOMAIN notifiers' \subseteq DOMAIN notifiers
      /\ \A w \in DOMAIN notifiers' : notifiers'[w] = notifiers[w]
  BY DEF MailboxesWithout, NotifiersWithout, Without
<1>2. OwnerInv'
  BY <1>1 DEF WakeInv, OwnerInv
<1>3. QueueInv'
  BY DEF WakeInv, QueueInv, Parked
<1>4. PermitInv'
  BY <1>1 DEF WakeInv, PermitInv
<1> QED
  BY <1>2, <1>3, <1>4 DEF WakeInv

\* What a message does to the Notify object of its recipient.
LEMMA NotifyOneFacts ==
    ASSUME NEW n, NEW c, n \in NotifyState(Clients)
    PROVE  /\ n.waiters = <<>> => /\ NotifyOne(n).permit
                                  /\ NotifyOne(n).waiters = n.waiters
                                  /\ NotifyOne(n).notified = n.notified
           /\ (n.waiters = <<c>> /\ n.notified = {})
                => NotifyOne(n).waiters = <<>> /\ NotifyOne(n).notified = {c}
<1>1. CASE n.waiters = <<>>
  BY <1>1 DEF NotifyOne, NotifyState
<1>2. CASE n.waiters = <<c>> /\ n.notified = {}
  <2>1. Tail(<<c>>) = <<>> /\ Head(<<c>>) = c /\ <<c>> # <<>>
    OBVIOUS
  <2>2. NotifyOne(n) = [n EXCEPT !.waiters = <<>>, !.notified = n.notified \cup {c}]
    BY <1>2, <2>1 DEF NotifyOne
  <2>3. NotifyOne(n).waiters = <<>> /\ NotifyOne(n).notified = n.notified \cup {c}
    BY <2>2 DEF NotifyState
  <2> QED
    BY <1>2, <2>1, <2>3
<1> QED
  BY <1>1, <1>2

\* A message leaves a permit for a connection that has not polled yet, and
\* notifies the one that sleeps.
LEMMA SendWake ==
    ASSUME TypeOK, WakeInv, NEW to \in WorkerIds, NEW from, Send(to, from)
    PROVE  WakeInv'
<1> DEFINE n == notifiers[to]
<1>1. PICK gone :
        /\ mailboxes' = Put(MailboxesWithout(gone), to, Enqueued(Mailbox(to), Len(sent) + 1))
        /\ notifiers' = NotifiersWithout(gone)
        /\ notify' = WakeListener(to) /\ task' = task
  BY DEF Send
<1>2. /\ DOMAIN notifiers' \subseteq DOMAIN notifiers
      /\ \A w \in DOMAIN notifiers' : notifiers'[w] = notifiers[w]
      /\ \A w \in DOMAIN mailboxes' \ {to} : w \in DOMAIN mailboxes /\ mailboxes'[w] = mailboxes[w]
  BY <1>1 DEF Put, MailboxesWithout, NotifiersWithout, Without
<1>3. OwnerInv'
  BY <1>1, <1>2 DEF WakeInv, OwnerInv
<1>4. CASE to \notin DOMAIN notifiers
  <2>1. notify' = notify
    BY <1>1, <1>4 DEF WakeListener
  <2>2. QueueInv'
    BY <1>1, <2>1 DEF WakeInv, QueueInv, Parked
  <2>3. PermitInv'
    BY <1>1, <1>2, <1>4, <2>1 DEF WakeInv, PermitInv
  <2> QED
    BY <1>3, <2>2, <2>3 DEF WakeInv
<1>5. CASE to \in DOMAIN notifiers
  <2>1. /\ n \in NotifyIds /\ notify[n] \in NotifyState(Clients)
        /\ notify \in [NotifyIds -> NotifyState(Clients)]
    BY <1>5 DEF TypeOK, RegistryTypeOK, ListenTypeOK
  <2>2. /\ notify'[n] = NotifyOne(notify[n])
        /\ \A m \in NotifyIds \ {n} : notify'[m] = notify[m]
    BY <1>1, <1>5, <2>1 DEF WakeListener
  <2>3. n # NoNotify
    BY <2>1, IdsAssumption DEF NoNotify
  <2>4. QueueInv'
    <3>1. ASSUME NEW c \in Clients, Parked(c)
          PROVE  \/ notify'[task[c].notify].waiters = <<c>> /\ notify'[task[c].notify].notified = {}
                 \/ notify'[task[c].notify].waiters = <<>> /\ notify'[task[c].notify].notified = {c}
      <4>1. task[c].notify \in NotifyIds
        BY <3>1 DEF WakeInv, OwnerInv, Parked
      <4>2. CASE task[c].notify # n
        BY <2>2, <3>1, <4>1, <4>2 DEF WakeInv, QueueInv
      <4>3. CASE task[c].notify = n
        <5>1. \/ notify[n].waiters = <<c>> /\ notify[n].notified = {}
              \/ notify[n].waiters = <<>> /\ notify[n].notified = {c}
          BY <3>1, <4>3 DEF WakeInv, QueueInv
        <5> HIDE DEF n
        <5> QED
          BY <2>1, <2>2, <4>3, <5>1, NotifyOneFacts
      <4> QED
        BY <4>2, <4>3
    <3>2. ASSUME NEW m \in NotifyIds, \A c \in Clients : Parked(c) => task[c].notify # m
          PROVE  notify'[m].waiters = <<>> /\ notify'[m].notified = {}
      <4>1. notify[m].waiters = <<>> /\ notify[m].notified = {}
        BY <3>2 DEF WakeInv, QueueInv
      <4> HIDE DEF n
      <4> QED
        BY <2>1, <2>2, <4>1, NotifyOneFacts
    <3> QED
      BY <1>1, <3>1, <3>2 DEF QueueInv, Parked
  <2>5. PermitInv'
    <3> SUFFICES ASSUME NEW c \in Clients,
                        task[c].worker \in DOMAIN mailboxes', mailboxes'[task[c].worker] # <<>>,
                        task[c].worker \in DOMAIN notifiers',
                        notifiers'[task[c].worker] = task[c].notify
                 PROVE  /\ task[c].pc = "polling" => notify'[task[c].notify].permit
                        /\ task[c].pc = "waiting" => c \in notify'[task[c].notify].notified
      BY <1>1 DEF PermitInv
    <3>1. task[c].notify = notifiers[task[c].worker] /\ task[c].notify \in NotifyIds
      BY <1>2 DEF TypeOK, RegistryTypeOK
    <3>2. CASE task[c].worker # to
      <4>1. task[c].notify # n
        BY <1>2, <1>5, <3>1, <3>2 DEF WakeInv, OwnerInv
      <4> QED
        BY <1>2, <2>2, <3>1, <3>2, <4>1 DEF WakeInv, PermitInv
    <3>3. CASE task[c].worker = to
      <4>1. task[c].notify = n
        BY <3>1, <3>3
      <4>2. CASE task[c].pc = "polling"
        <5>1. \A d \in Clients : Parked(d) => task[d].notify # n
          BY <2>3, <4>1, <4>2 DEF WakeInv, OwnerInv, Parked
        <5>2. notify[n].waiters = <<>>
          BY <2>1, <5>1 DEF WakeInv, QueueInv
        <5> HIDE DEF n
        <5> QED
          BY <2>1, <2>2, <4>1, <4>2, <5>2, NotifyOneFacts
      <4>3. CASE task[c].pc = "waiting"
        <5>1. \/ notify[n].waiters = <<c>> /\ notify[n].notified = {}
              \/ notify[n].waiters = <<>> /\ notify[n].notified = {c}
          BY <4>1, <4>3 DEF WakeInv, QueueInv, Parked
        <5>2. NotifyOne(notify[n]).notified = {c}
          BY <2>1, <5>1, NotifyOneFacts
        <5> HIDE DEF n
        <5> QED
          BY <2>2, <4>1, <4>3, <5>2
      <4> QED
        BY <4>2, <4>3
    <3> QED
      BY <3>2, <3>3
  <2> QED
    BY <1>3, <2>4, <2>5 DEF WakeInv
<1> QED
  BY <1>4, <1>5

\* A listen request takes the worker's Notify object, which nobody else holds,
\* or a fresh one; if it goes on to wait there is no mail.
LEMMA ListenWake ==
    ASSUME OneListenerEach, TypeOK, WakeInv, NEW c \in Clients, NEW w \in WorkerIds, Listen(c, w)
    PROVE  WakeInv'
<1>1. CASE ListenRejected(c, w)
  BY <1>1, RequestWake DEF ListenRejected, RemoveWorkers
<1>2. CASE ListenImmediate(c, w) \/ ListenEmpty(c, w)
  <2>1. PICK n : n = NotifierOf(w)
    OBVIOUS
  <2>2. /\ task[c] = Idle /\ w \in ListensAs[c] /\ task \in [Clients -> Task]
        /\ notify \in [NotifyIds -> NotifyState(Clients)]
        /\ notifiers \in [DOMAIN notifiers -> NotifyIds]
        /\ NotifyIds \ InUse # {}
        /\ notifiers' = Put(NotifiersWithout(Expired), w, n)
    BY <1>2, <2>1 DEF ListenImmediate, ListenEmpty, GetNotifier, TypeOK, RegistryTypeOK,
       ListenTypeOK
  <2>3. FreeNotify \in NotifyIds \ InUse
    BY <2>2 DEF FreeNotify
  <2>4. n \in NotifyIds /\ n # NoNotify
    BY <2>1, <2>2, <2>3, IdsAssumption DEF NotifierOf, NoNotify
  <2>5. /\ task' = [task EXCEPT ![c] = task'[c]]
        /\ task'[c].pc \in {"popped", "polling"}
        /\ task'[c].worker = w
        /\ task'[c].pc = "popped" => task'[c].notify = NoNotify
        /\ task'[c].pc = "polling" => task'[c].notify = n
    BY <1>2, <2>1, <2>2 DEF ListenImmediate, ListenEmpty
  <2>6. \A d \in Clients \ {c} : task'[d] = task[d]
    BY <2>2, <2>5
  <2>7. \A d \in Clients \ {c} : task[d].notify # n
    <3> SUFFICES ASSUME NEW d \in Clients \ {c}, task[d].notify = n PROVE FALSE
      OBVIOUS
    <3>1. CASE w \in DOMAIN notifiers
      <4>1. task[d].worker = w /\ w \in ListensAs[d]
        BY <2>1, <2>4, <3>1 DEF NotifierOf, WakeInv, OwnerInv
      <4> QED
        BY <2>2, <4>1 DEF OneListenerEach
    <3>2. CASE w \notin DOMAIN notifiers
      BY <2>1, <2>3, <3>2 DEF NotifierOf, InUse
    <3> QED
      BY <3>1, <3>2
  <2>8. \A v \in DOMAIN notifiers \ {w} : notifiers[v] # n
    <3>1. CASE w \in DOMAIN notifiers
      BY <2>1, <3>1 DEF NotifierOf, WakeInv, OwnerInv
    <3>2. CASE w \notin DOMAIN notifiers
      BY <2>1, <2>3, <3>2 DEF NotifierOf, InUse
    <3> QED
      BY <3>1, <3>2
  <2>9. /\ \A v \in DOMAIN notifiers' \ {w} : v \in DOMAIN notifiers /\ notifiers'[v] = notifiers[v]
        /\ notifiers'[w] = n
    BY <2>2 DEF Put, NotifiersWithout, Without
  <2>10. OwnerInv'
    <3>1. \A d \in Clients : task'[d].notify # NoNotify =>
            task'[d].notify \in NotifyIds /\ task'[d].worker \in ListensAs[d]
      BY <2>2, <2>4, <2>5, <2>6 DEF WakeInv, OwnerInv
    <3>2. \A d \in Clients :
            task'[d].pc \in {"polling", "waiting", "elapsed"} => task'[d].notify # NoNotify
      BY <2>4, <2>5, <2>6 DEF WakeInv, OwnerInv
    <3>3. \A d, e \in Clients :
            (task'[d].notify = task'[e].notify /\ task'[d].notify # NoNotify) => d = e
      BY <2>5, <2>6, <2>7 DEF WakeInv, OwnerInv
    <3>4. \A v \in DOMAIN notifiers', d \in Clients :
            notifiers'[v] = task'[d].notify => v = task'[d].worker
      <4> SUFFICES ASSUME NEW v \in DOMAIN notifiers', NEW d \in Clients,
                          notifiers'[v] = task'[d].notify
                   PROVE  v = task'[d].worker
        OBVIOUS
      <4>1. CASE v = w
        BY <2>5, <2>6, <2>7, <2>9, <4>1
      <4>2. CASE v # w /\ d = c
        <5>1. notifiers[v] # NoNotify
          BY <2>2, <2>9, <4>2, IdsAssumption DEF NoNotify
        <5> QED
          BY <2>5, <2>8, <2>9, <4>2, <5>1
      <4>3. CASE v # w /\ d # c
        BY <2>6, <2>9, <4>3 DEF WakeInv, OwnerInv
      <4> QED
        BY <4>1, <4>2, <4>3
    <3>5. \A v, u \in DOMAIN notifiers' : notifiers'[v] = notifiers'[u] => v = u
      BY <2>8, <2>9 DEF WakeInv, OwnerInv
    <3> QED
      BY <3>1, <3>2, <3>3, <3>4, <3>5 DEF OwnerInv
  <2>11. /\ notify[n].waiters = <<>> /\ notify[n].notified = {}
         /\ notify'[n] \in {notify[n], NewNotify}
         /\ \A m \in NotifyIds \ {n} : notify'[m] = notify[m]
    <3>1. notify' = IF w \in DOMAIN notifiers THEN notify
                    ELSE [notify EXCEPT ![FreeNotify] = NewNotify]
      BY <1>2 DEF ListenImmediate, ListenEmpty, GetNotifier
    <3>2. ~Parked(c)
      BY <2>2 DEF Parked, Idle
    <3>3. notify[n].waiters = <<>> /\ notify[n].notified = {}
      BY <2>4, <2>7, <3>2 DEF WakeInv, QueueInv
    <3> QED
      BY <2>1, <2>2, <2>4, <3>1, <3>3 DEF NotifierOf
  <2>12. QueueInv'
    <3>1. \A d \in Clients : Parked(d)' <=> d # c /\ Parked(d)
      BY <2>2, <2>5, <2>6 DEF Parked, Idle
    <3>2. ASSUME NEW d \in Clients \ {c}, Parked(d)
          PROVE  task'[d] = task[d] /\ notify'[task[d].notify] = notify[task[d].notify]
      <4>1. task[d].notify \in NotifyIds \ {n}
        BY <2>7, <3>2 DEF Parked, WakeInv, OwnerInv
      <4> QED
        BY <2>6, <2>11, <4>1
    <3>3. ASSUME NEW m \in NotifyIds,
                 \A d \in Clients : Parked(d)' => task'[d].notify # m
          PROVE  notify'[m].waiters = <<>> /\ notify'[m].notified = {}
      <4>1. CASE m = n
        BY <2>11, <4>1 DEF NewNotify
      <4>2. CASE m # n
        <5>1. \A d \in Clients : Parked(d) => task[d].notify # m
          BY <2>2, <2>6, <3>1, <3>3 DEF Parked, Idle
        <5> QED
          BY <2>11, <4>2, <5>1 DEF WakeInv, QueueInv
      <4> QED
        BY <4>1, <4>2
    <3>4. ASSUME NEW d \in Clients, Parked(d)'
          PROVE  \/ notify'[task'[d].notify].waiters = <<d>> /\ notify'[task'[d].notify].notified = {}
                 \/ notify'[task'[d].notify].waiters = <<>> /\ notify'[task'[d].notify].notified = {d}
      <4>1. d # c /\ Parked(d)
        BY <3>1, <3>4
      <4>2. task'[d] = task[d] /\ notify'[task[d].notify] = notify[task[d].notify]
        BY <3>2, <4>1
      <4>3. \/ notify[task[d].notify].waiters = <<d>> /\ notify[task[d].notify].notified = {}
            \/ notify[task[d].notify].waiters = <<>> /\ notify[task[d].notify].notified = {d}
        BY <4>1 DEF WakeInv, QueueInv
      <4> QED
        BY <4>2, <4>3
    <3> QED
      BY <3>3, <3>4 DEF QueueInv
  <2>13. PermitInv'
    <3> SUFFICES ASSUME NEW d \in Clients,
                        task'[d].worker \in DOMAIN mailboxes', mailboxes'[task'[d].worker] # <<>>,
                        task'[d].worker \in DOMAIN notifiers',
                        notifiers'[task'[d].worker] = task'[d].notify
                 PROVE  /\ task'[d].pc = "polling" => notify'[task'[d].notify].permit
                        /\ task'[d].pc = "waiting" => d \in notify'[task'[d].notify].notified
      BY DEF PermitInv
    <3>1. CASE d # c
      <4>1. task'[d] = task[d] /\ task[d].worker # w
        BY <2>6, <2>7, <2>9, <3>1
      <4>2. /\ task[d].worker \in DOMAIN mailboxes /\ mailboxes[task[d].worker] # <<>>
        BY <1>2, <4>1 DEF ListenImmediate, ListenEmpty, MailboxesWithout, Without
      <4>3. /\ task[d].worker \in DOMAIN notifiers /\ notifiers[task[d].worker] = task[d].notify
            /\ task[d].notify \in NotifyIds \ {n}
        BY <2>2, <2>7, <2>9, <3>1, <4>1
      <4> QED
        BY <2>11, <4>1, <4>2, <4>3 DEF WakeInv, PermitInv
    <3>2. CASE d = c
      <4>1. CASE ListenImmediate(c, w)
        BY <3>2, <4>1, <2>2 DEF ListenImmediate
      <4>2. CASE ListenEmpty(c, w)
        BY <3>2, <4>2, <2>5 DEF ListenEmpty, HasMail, Mailbox, MailboxesWithout, Without
      <4> QED
        BY <1>2, <4>1, <4>2
    <3> QED
      BY <3>1, <3>2
  <2> QED
    BY <2>10, <2>12, <2>13 DEF WakeInv
<1> QED
  BY <1>1, <1>2 DEF Listen

\* A handler's own step touches its task and its Notify object only.
LEMMA LocalWake ==
    ASSUME TypeOK, WakeInv, NEW c \in Clients, notifiers' = notifiers, NoNewMail,
           \A d \in Clients \ {c} : task'[d] = task[d],
           \A n \in NotifyIds \ {task[c].notify} : notify'[n] = notify[n],
           \/ task'[c].notify = NoNotify
           \/ task'[c].notify = task[c].notify /\ task'[c].worker = task[c].worker,
           task'[c].pc \in {"polling", "waiting", "elapsed"} => task'[c].notify # NoNotify,
           Parked(c)' => \/ /\ notify'[task[c].notify].waiters = <<c>>
                            /\ notify'[task[c].notify].notified = {}
                         \/ /\ notify'[task[c].notify].waiters = <<>>
                            /\ notify'[task[c].notify].notified = {c},
           (task[c].notify # NoNotify /\ ~Parked(c)')
                => /\ notify'[task[c].notify].waiters = <<>>
                   /\ notify'[task[c].notify].notified = {},
           task'[c].pc # "polling",
           (/\ task[c].worker \in DOMAIN mailboxes /\ mailboxes[task[c].worker] # <<>>
            /\ task[c].worker \in DOMAIN notifiers
            /\ notifiers[task[c].worker] = task[c].notify
            /\ task'[c].pc = "waiting")
                => c \in notify'[task[c].notify].notified
    PROVE  WakeInv'
<1>1. OwnerInv'
  <2>1. \A v \in DOMAIN notifiers : notifiers[v] \in NotifyIds /\ notifiers[v] # NoNotify
    BY IdsAssumption DEF TypeOK, RegistryTypeOK, NoNotify
  <2>2. \A d \in Clients :
          \/ task'[d].notify = NoNotify
          \/ task'[d].notify = task[d].notify /\ task'[d].worker = task[d].worker
    OBVIOUS
  <2>3. \A d \in Clients :
          task'[d].pc \in {"polling", "waiting", "elapsed"} => task'[d].notify # NoNotify
    BY DEF WakeInv, OwnerInv
  <2> QED
    BY <2>1, <2>2, <2>3 DEF WakeInv, OwnerInv
<1>2. \A d \in Clients \ {c} : Parked(d)' <=> Parked(d)
  BY DEF Parked
<1>3. \A d \in Clients \ {c} : task[d].notify # NoNotify =>
        notify'[task[d].notify] = notify[task[d].notify]
  BY DEF WakeInv, OwnerInv
<1>4. Parked(c)' => task'[c].notify = task[c].notify
  BY DEF Parked
<1>5. QueueInv'
  <2>1. ASSUME NEW d \in Clients, Parked(d)'
        PROVE  \/ notify'[task'[d].notify].waiters = <<d>> /\ notify'[task'[d].notify].notified = {}
               \/ notify'[task'[d].notify].waiters = <<>> /\ notify'[task'[d].notify].notified = {d}
    <3>1. CASE d = c
      BY <1>4, <2>1, <3>1
    <3>2. CASE d # c
      <4>1. Parked(d) /\ task[d].notify # NoNotify
        BY <1>2, <2>1, <3>2 DEF Parked, WakeInv, OwnerInv
      <4>2. task'[d] = task[d] /\ notify'[task[d].notify] = notify[task[d].notify]
        BY <1>3, <3>2, <4>1
      <4>3. \/ notify[task[d].notify].waiters = <<d>> /\ notify[task[d].notify].notified = {}
            \/ notify[task[d].notify].waiters = <<>> /\ notify[task[d].notify].notified = {d}
        BY <4>1 DEF WakeInv, QueueInv
      <4> QED
        BY <4>2, <4>3
    <3> QED
      BY <3>1, <3>2
  <2>2. ASSUME NEW n \in NotifyIds, \A d \in Clients : Parked(d)' => task'[d].notify # n
        PROVE  notify'[n].waiters = <<>> /\ notify'[n].notified = {}
    <3>1. CASE n = task[c].notify
      <4>1. n # NoNotify
        BY IdsAssumption DEF NoNotify
      <4>2. ~Parked(c)'
        BY <1>4, <2>2, <3>1
      <4> QED
        BY <3>1, <4>1, <4>2
    <3>2. CASE n # task[c].notify
      <4>1. \A d \in Clients : Parked(d) => task[d].notify # n
        BY <1>2, <2>2, <3>2
      <4> QED
        BY <3>2, <4>1 DEF WakeInv, QueueInv
    <3> QED
      BY <3>1, <3>2
  <2> QED
    BY <2>1, <2>2 DEF QueueInv
<1>6. PermitInv'
  <2> SUFFICES ASSUME NEW d \in Clients,
                      task'[d].worker \in DOMAIN mailboxes', mailboxes'[task'[d].worker] # <<>>,
                      task'[d].worker \in DOMAIN notifiers',
                      notifiers'[task'[d].worker] = task'[d].notify
               PROVE  /\ task'[d].pc = "polling" => notify'[task'[d].notify].permit
                      /\ task'[d].pc = "waiting" => d \in notify'[task'[d].notify].notified
    BY DEF PermitInv
  <2>1. task'[d].notify \in NotifyIds /\ task'[d].notify # NoNotify
    BY IdsAssumption DEF TypeOK, RegistryTypeOK, NoNotify
  <2>2. task'[d].worker \in DOMAIN mailboxes /\ mailboxes[task'[d].worker] # <<>>
    BY DEF NoNewMail
  <2>3. CASE d = c
    BY <2>1, <2>2, <2>3
  <2>4. CASE d # c
    BY <1>3, <2>1, <2>2, <2>4 DEF WakeInv, PermitInv
  <2> QED
    BY <2>3, <2>4
<1> QED
  BY <1>1, <1>5, <1>6 DEF WakeInv

\* A future that stands alone in the queue leaves it empty when it is dropped.
LEMMA UnlinkAlone == ASSUME NEW c PROVE Unlink(<<c>>, c) = <<>>
<1>1. c \in ToSet(<<c>>) /\ DOMAIN <<c>> = {1} /\ Len(<<c>>) = 1
  BY DEF ToSet
<1>2. (CHOOSE i \in DOMAIN <<c>> : <<c>>[i] = c) = 1
  BY <1>1
<1>3. Unlink(<<c>>, c) = SubSeq(<<c>>, 1, 0) \o SubSeq(<<c>>, 2, 1)
  BY <1>1, <1>2 DEF Unlink, RemoveAt
<1>4. SubSeq(<<c>>, 1, 0) = <<>> /\ SubSeq(<<c>>, 2, 1) = <<>>
  OBVIOUS
<1> QED
  BY <1>3, <1>4

\* Dropping a parked future leaves its Notify object without anybody queued.
LEMMA DropFacts ==
    ASSUME NEW n \in NotifyState(Clients), NEW c \in Clients,
           \/ n.waiters = <<c>> /\ n.notified = {}
           \/ n.waiters = <<>> /\ n.notified = {c}
    PROVE  DropNotified(n, c).waiters = <<>> /\ DropNotified(n, c).notified = {}
<1>1. CASE n.waiters = <<c>> /\ n.notified = {}
  <2>1. DropNotified(n, c) = [n EXCEPT !.waiters = <<>>]
    BY <1>1, UnlinkAlone DEF DropNotified
  <2> QED
    BY <1>1, <2>1 DEF NotifyState
<1>2. CASE n.waiters = <<>> /\ n.notified = {c}
  <2>1. /\ DropNotified(n, c) = NotifyOne(Resolve(n, c))
        /\ Resolve(n, c) \in NotifyState(Clients)
        /\ Resolve(n, c).waiters = <<>> /\ Resolve(n, c).notified = {}
    BY <1>2 DEF DropNotified, Resolve, NotifyState
  <2> HIDE DEF Resolve
  <2> QED
    BY <2>1, NotifyOneFacts
<1> QED
  BY <1>1, <1>2

\* The steps of a handler neither lose a notification nor leave one behind.
LEMMA HandlerWake ==
    ASSUME TypeOK, WakeInv, NEW c \in Clients, HandlerStep(c)
    PROVE  WakeInv'
<1>1. /\ task \in [Clients -> Task] /\ notify \in [NotifyIds -> NotifyState(Clients)]
      /\ mailboxes \in [DOMAIN mailboxes -> Seq(Nat)]
  BY DEF TypeOK, ListenTypeOK, RegistryTypeOK
<1>2. task[c].notify # NoNotify =>
        /\ task[c].notify \in NotifyIds
        /\ notify[task[c].notify] \in NotifyState(Clients)
        /\ ~Parked(c) => /\ notify[task[c].notify].waiters = <<>>
                         /\ notify[task[c].notify].notified = {}
  <2> SUFFICES ASSUME task[c].notify # NoNotify
               PROVE  /\ task[c].notify \in NotifyIds
                      /\ notify[task[c].notify] \in NotifyState(Clients)
                      /\ ~Parked(c) => /\ notify[task[c].notify].waiters = <<>>
                                       /\ notify[task[c].notify].notified = {}
    OBVIOUS
  <2>1. task[c].notify \in NotifyIds
    BY DEF WakeInv, OwnerInv
  <2>2. ASSUME ~Parked(c)
        PROVE  \A d \in Clients : Parked(d) => task[d].notify # task[c].notify
    BY <2>2 DEF WakeInv, OwnerInv
  <2> QED
    BY <1>1, <2>1, <2>2 DEF WakeInv, QueueInv
<1>3. ASSUME ~Parked(c), task' = [task EXCEPT ![c] = task'[c]],
             task'[c].notify = NoNotify, task'[c].pc \in {"replying", "idle"},
             notify' = notify, notifiers' = notifiers, NoNewMail
      PROVE  WakeInv'
  <2>1. \A d \in Clients \ {c} : task'[d] = task[d]
    BY <1>1, <1>3
  <2>2. ~Parked(c)'
    BY <1>3 DEF Parked
  <2> QED
    BY <1>2, <1>3, <2>1, <2>2, LocalWake
<1>4. CASE CountImmediate(c) \/ SpuriousWake(c) \/ WriteResponse(c) \/ WriteFails(c)
  <2>1. /\ ~Parked(c) /\ task' = [task EXCEPT ![c] = task'[c]]
        /\ task'[c].notify = NoNotify /\ task'[c].pc \in {"replying", "idle"}
    BY <1>1, <1>4 DEF CountImmediate, SpuriousWake, WriteResponse, WriteFails, Reply, Idle,
       Parked, Task, NoNotify
  <2>2. notify' = notify /\ notifiers' = notifiers /\ NoNewMail
    BY <1>4 DEF CountImmediate, SpuriousWake, WriteResponse, WriteFails, registry, NoNewMail
  <2> QED
    BY <1>3, <2>1, <2>2
<1>5. CASE PopAfterWake(c)
  <2>1. /\ ~Parked(c) /\ task' = [task EXCEPT ![c] = task'[c]]
        /\ task'[c].notify = NoNotify /\ task'[c].pc \in {"replying", "idle"}
    <3>1. /\ task[c].pc = "woken" /\ task[c] \in Task
          /\ task' = [task EXCEPT ![c].pc = "replying", ![c].notify = NoNotify,
                                 ![c].msg = Head(Mailbox(task[c].worker))]
      BY <1>1, <1>5 DEF PopAfterWake, Reply
    <3>2. \A m : task' = [task EXCEPT ![c].pc = "replying", ![c].notify = NoNotify, ![c].msg = m]
            => /\ task' = [task EXCEPT ![c] = task'[c]]
               /\ task'[c].notify = NoNotify /\ task'[c].pc = "replying"
      BY <1>1, <3>1 DEF Task, Idle, NoNotify
    <3> QED
      BY <3>1, <3>2 DEF Parked
  <2>2. notify' = notify /\ notifiers' = notifiers
    BY <1>5 DEF PopAfterWake
  <2>3. NoNewMail
    BY <1>5 DEF PopAfterWake, NoNewMail, HasMail, Mailbox
  <2> QED
    BY <1>3, <2>1, <2>2, <2>3
<1>6. ASSUME NEW pc \in {"woken", "waiting", "elapsed"}, task[c].pc \in {"polling", "waiting"}, task' = [task EXCEPT ![c].pc = pc],
             NEW s, notify' = [notify EXCEPT ![task[c].notify] = s],
             mailboxes' = mailboxes, notifiers' = notifiers,
             pc # "woken" => \/ s.waiters = <<c>> /\ s.notified = {}
                             \/ s.waiters = <<>> /\ s.notified = {c},
             pc = "woken" => s.waiters = <<>> /\ s.notified = {},
             (/\ task[c].worker \in DOMAIN mailboxes /\ mailboxes[task[c].worker] # <<>>
              /\ task[c].worker \in DOMAIN notifiers
              /\ notifiers[task[c].worker] = task[c].notify /\ pc = "waiting")
                => c \in s.notified
      PROVE  WakeInv'
  <2>1. task[c].notify # NoNotify /\ task[c].notify \in NotifyIds
    BY <1>2, <1>6 DEF WakeInv, OwnerInv
  <2>2. notify'[task[c].notify] = s
    BY <1>1, <1>6, <2>1
  <2>3. /\ \A d \in Clients \ {c} : task'[d] = task[d]
        /\ \A n \in NotifyIds \ {task[c].notify} : notify'[n] = notify[n]
    BY <1>1, <1>6
  <2>4. /\ task'[c].notify = task[c].notify /\ task'[c].worker = task[c].worker
        /\ task'[c].pc = pc
    BY <1>1, <1>6 DEF Task, Idle
  <2>5. Parked(c)' <=> pc # "woken"
    BY <1>6, <2>4 DEF Parked
  <2>6. NoNewMail
    BY <1>6 DEF NoNewMail
  <2> QED
    BY <1>6, <2>1, <2>2, <2>3, <2>4, <2>5, <2>6, LocalWake
<1>7. CASE PollNotified(c)
  <2>1. /\ task[c].notify \in NotifyIds /\ ~Parked(c) /\ task[c].pc = "polling"
        /\ mailboxes' = mailboxes /\ notifiers' = notifiers
    BY <1>2, <1>7 DEF PollNotified, Parked, WakeInv, OwnerInv, registry
  <2>2. /\ notify[task[c].notify].waiters = <<>> /\ notify[task[c].notify].notified = {}
        /\ notify[task[c].notify] \in NotifyState(Clients)
    BY <1>1, <1>2, <1>7, <2>1 DEF PollNotified, WakeInv, OwnerInv
  <2>3. CASE /\ notify[task[c].notify].permit
             /\ notify' = [notify EXCEPT ![task[c].notify] = TakePermit(@)]
             /\ task' = [task EXCEPT ![c].pc = "woken"]
    <3>1. /\ TakePermit(notify[task[c].notify]).waiters = <<>>
          /\ TakePermit(notify[task[c].notify]).notified = {}
      BY <2>2 DEF TakePermit, NotifyState
    <3> QED
      BY <1>6, <2>1, <2>3, <3>1
  <2>4. CASE /\ ~notify[task[c].notify].permit
             /\ notify' = [notify EXCEPT ![task[c].notify] = JoinWaiters(@, c)]
             /\ task' = [task EXCEPT ![c].pc = "waiting"]
    <3>1. /\ JoinWaiters(notify[task[c].notify], c).waiters = Append(<<>>, c)
          /\ JoinWaiters(notify[task[c].notify], c).notified = {}
      BY <2>2 DEF JoinWaiters, NotifyState
    <3>2. Append(<<>>, c) = <<c>>
      OBVIOUS
    <3>3. ~(/\ task[c].worker \in DOMAIN mailboxes /\ mailboxes[task[c].worker] # <<>>
            /\ task[c].worker \in DOMAIN notifiers
            /\ notifiers[task[c].worker] = task[c].notify)
      BY <2>1, <2>4 DEF WakeInv, PermitInv
    <3> QED
      BY <1>6, <2>1, <2>4, <3>1, <3>2, <3>3
  <2> QED
    BY <1>7, <2>3, <2>4 DEF PollNotified
<1>8. CASE NotifiedReady(c)
  <2>1. /\ task[c].pc = "waiting" /\ Parked(c) /\ c \in notify[task[c].notify].notified
        /\ notify' = [notify EXCEPT ![task[c].notify] = Resolve(@, c)]
        /\ task' = [task EXCEPT ![c].pc = "woken"]
        /\ mailboxes' = mailboxes /\ notifiers' = notifiers
    BY <1>8 DEF NotifiedReady, Parked, registry
  <2>2. /\ notify[task[c].notify].waiters = <<>> /\ notify[task[c].notify].notified = {c}
        /\ notify[task[c].notify] \in NotifyState(Clients)
    BY <1>2, <2>1 DEF WakeInv, QueueInv, OwnerInv
  <2>3. /\ Resolve(notify[task[c].notify], c).waiters = <<>>
        /\ Resolve(notify[task[c].notify], c).notified = {}
    BY <2>2 DEF Resolve, NotifyState
  <2> QED
    BY <1>6, <2>1, <2>3
<1>9. CASE TimerElapsed(c)
  <2>1. /\ task[c].pc = "waiting" /\ Parked(c)
        /\ task' = [task EXCEPT ![c].pc = "elapsed"] /\ notify' = notify
        /\ mailboxes' = mailboxes /\ notifiers' = notifiers
    BY <1>9 DEF TimerElapsed, Parked, registry
  <2>2. \/ notify[task[c].notify].waiters = <<c>> /\ notify[task[c].notify].notified = {}
        \/ notify[task[c].notify].waiters = <<>> /\ notify[task[c].notify].notified = {c}
    BY <2>1 DEF WakeInv, QueueInv
  <2>3. notify' = [notify EXCEPT ![task[c].notify] = notify[task[c].notify]]
    BY <1>1, <2>1
  <2> QED
    BY <1>6, <2>1, <2>2, <2>3
<1>10. CASE TimedOut(c)
  <2>1. /\ task[c].pc = "elapsed" /\ Parked(c)
        /\ notify' = [notify EXCEPT ![task[c].notify] = DropNotified(@, c)]
        /\ task' = [task EXCEPT ![c].pc = "replying", ![c].notify = NoNotify, ![c].msg = NoMsg]
        /\ mailboxes' = mailboxes /\ notifiers' = notifiers
    BY <1>10 DEF TimedOut, Reply, Parked, registry
  <2>2. /\ \/ notify[task[c].notify].waiters = <<c>> /\ notify[task[c].notify].notified = {}
           \/ notify[task[c].notify].waiters = <<>> /\ notify[task[c].notify].notified = {c}
        /\ notify[task[c].notify] \in NotifyState(Clients) /\ task[c].notify \in NotifyIds
    BY <1>2, <2>1 DEF WakeInv, QueueInv, OwnerInv
  <2>3. /\ notify'[task[c].notify].waiters = <<>> /\ notify'[task[c].notify].notified = {}
    <3>1. notify'[task[c].notify] = DropNotified(notify[task[c].notify], c)
      BY <1>1, <2>1, <2>2
    <3> QED
      BY <2>2, <3>1, DropFacts
  <2>4. /\ \A d \in Clients \ {c} : task'[d] = task[d]
        /\ \A n \in NotifyIds \ {task[c].notify} : notify'[n] = notify[n]
    BY <1>1, <2>1
  <2>5. task'[c].notify = NoNotify /\ task'[c].pc = "replying"
    BY <1>1, <2>1 DEF Task, Idle
  <2>6. ~Parked(c)' /\ NoNewMail
    BY <2>1, <2>5 DEF Parked, NoNewMail
  <2> QED
    BY <2>1, <2>3, <2>4, <2>5, <2>6, LocalWake
<1> QED
  BY <1>4, <1>5, <1>7, <1>8, <1>9, <1>10 DEF HandlerStep

\* Every step preserves the invariant, if no two connections listen as one worker.
LEMMA NextWake == OneListenerEach /\ TypeOK /\ WakeInv /\ [Next]_vars => WakeInv'
<1> SUFFICES ASSUME OneListenerEach, TypeOK, WakeInv, [Next]_vars PROVE WakeInv'
  OBVIOUS
<1>1. CASE Tick \/ UNCHANGED vars
  <2>1. mailboxes' = mailboxes /\ notifiers' = notifiers /\ notify' = notify /\ task' = task
    BY <1>1 DEF Tick, vars, registry
  <2>2. mailboxes' = MailboxesWithout({}) /\ notifiers' = NotifiersWithout({})
    BY <2>1 DEF MailboxesWithout, NotifiersWithout, Without, TypeOK, RegistryTypeOK
  <2> QED
    BY <2>1, <2>2, RequestWake
<1>2. CASE EvictExpired
  BY <1>2, RequestWake DEF EvictExpired, RemoveWorkers
<1>3. ASSUME NEW reg, NEW w, RegisterWorker(reg, w)
      PROVE  \E S : mailboxes' = MailboxesWithout(S) /\ notifiers' = NotifiersWithout(S)
  BY <1>3 DEF RegisterWorker, Claim, Insert
<1>4. ASSUME NEW reg \in Registrations, Register(reg) \/ PreRegister(reg)
      PROVE  WakeInv'
  <2>1. /\ \E w : RegisterWorker(reg, w)
        /\ notify' = notify /\ task' = task
    BY <1>4 DEF Register, PreRegister
  <2> QED
    BY <1>3, <2>1, RequestWake
<1>5. ASSUME NEW reg \in Registrations, RegisterCollision(reg)
      PROVE  WakeInv'
  BY <1>5, RequestWake DEF RegisterCollision, RemoveWorkers
<1>6. ASSUME NEW w \in WorkerIds, RemoveWorker(w)
      PROVE  WakeInv'
  BY <1>6, RequestWake DEF RemoveWorker, RemoveWorkers
<1>7. ASSUME NEW from, Team(from)
      PROVE  WakeInv'
  BY <1>7, RequestWake DEF Team
<1>8. ASSUME NEW w \in WorkerIds, ClearStatus(w)
      PROVE  WakeInv'
  BY <1>8, RequestWake DEF ClearStatus
<1>9. ASSUME NEW w \in WorkerIds, NEW s \in Statuses \cup {None}, Heartbeat(w, s)
      PROVE  WakeInv'
  BY <1>9, RequestWake DEF Heartbeat
<1>10. ASSUME NEW w \in WorkerIds, NEW m \in MsgIds, Ack(w, m)
       PROVE  WakeInv'
  BY <1>10, RequestWake DEF Ack, RemoveWorkers
<1> QED
  BY <1>1, <1>2, <1>4, <1>5, <1>6, <1>7, <1>8, <1>9, <1>10, SendWake, ListenWake,
     HandlerWake DEF Next, SendRejected

\* The broker starts with nobody parked.
LEMMA InitWake == Init => WakeInv
BY IdsAssumption DEF Init, WakeInv, OwnerInv, QueueInv, PermitInv, Parked, Idle, NewNotify, NoNotify

\* Whoever sleeps on the notifier of a worker that has mail has been notified,
\* for any number of workers, connections and messages, as long as no two
\* connections listen as one worker.
THEOREM NoLostWakeupHolds == OneListenerEach /\ Spec => []NoLostWakeup
<1> SUFFICES ASSUME OneListenerEach PROVE Spec => []NoLostWakeup
  OBVIOUS
<1>1. TypeOK /\ WakeInv /\ [Next]_vars => WakeInv'
  BY NextWake
<1>2. WakeInv => NoLostWakeup
  BY DEF WakeInv, PermitInv, NoLostWakeup, HasMail, Mailbox
<1> QED
  BY InitWake, <1>1, <1>2, TypeCorrect, PTL DEF Spec

-----------------------------------------------------------------------------
(* The history agrees with the queues and the ack log *)

\* The entries of the history, with what has become of their messages.
HistInv ==
    \A i \in DOMAIN message_history :
        /\ message_history[i].id \in MsgIds
        /\ message_history[i].acked <=> message_history[i].id \in DOMAIN ack_log
        /\ message_history[i].delivered => message_history[i].id \notin Queued
        /\ \A c \in Clients : message_history[i].id \in Hand(c) => message_history[i].delivered

\* What is queued, by position.
LEMMA QueuedAt ==
    \A d : d \in Queued <=> \E w \in DOMAIN mailboxes : \E i \in DOMAIN mailboxes[w] :
                                d = mailboxes[w][i]
BY DEF Queued, ToSet

\* Removing workers queues nothing.
LEMMA LessQueued ==
    ASSUME NEW S, mailboxes' = Without(mailboxes, S)
    PROVE  Queued' \subseteq Queued
BY DEF Without, Queued

\* A message sent is in one more mailbox, and in no other place.
LEMMA SentQueue ==
    ASSUME TypeOK, NEW to, NEW m, NEW gone,
           mailboxes' = Put(MailboxesWithout(gone), to, Append(Mailbox(to), m))
    PROVE  Queued' \subseteq Queued \cup {m}
<1>1. mailboxes \in [DOMAIN mailboxes -> Seq(Nat)]
  BY DEF TypeOK, RegistryTypeOK
<1> SUFFICES ASSUME NEW w \in DOMAIN mailboxes', NEW i \in DOMAIN mailboxes'[w]
             PROVE  mailboxes'[w][i] \in Queued \cup {m}
  BY DEF Queued, ToSet
<1>2. CASE w # to
  <2>1. w \in DOMAIN mailboxes /\ mailboxes'[w] = mailboxes[w]
    BY <1>2 DEF Put, MailboxesWithout, Without
  <2> QED
    BY <2>1, QueuedAt
<1>3. CASE w = to
  <2>1. mailboxes'[to] = Append(Mailbox(to), m)
    BY DEF Put
  <2>2. Mailbox(to) \in Seq(Nat)
    BY <1>1 DEF Mailbox
  <2>3. \/ mailboxes'[to][i] = m
        \/ i \in 1..Len(Mailbox(to)) /\ mailboxes'[to][i] = Mailbox(to)[i]
    BY <1>3, <2>1, <2>2
  <2>4. ASSUME i \in 1..Len(Mailbox(to))
        PROVE  Mailbox(to)[i] \in Queued
    <3>1. to \in DOMAIN mailboxes /\ Mailbox(to) = mailboxes[to]
      BY <2>4 DEF Mailbox
    <3> QED
      BY <1>1, <2>4, <3>1, QueuedAt
  <2> QED
    BY <1>3, <2>3, <2>4
<1> QED
  BY <1>2, <1>3

\* What a connection pops leaves the only queue it is in.
LEMMA PoppedQueue ==
    ASSUME TypeOK, MailInv, NEW S, NEW w \in DOMAIN mailboxes \ S, mailboxes[w] # <<>>,
           mailboxes' = [Without(mailboxes, S) EXCEPT ![w] = Tail(mailboxes[w])]
    PROVE  Queued' \subseteq Queued \ {Head(mailboxes[w])}
<1>1. PICK m : m = Head(mailboxes[w])
  OBVIOUS
<1>2. mailboxes[w] \in Seq(Nat)
  BY DEF TypeOK, RegistryTypeOK
<1>3. m = mailboxes[w][1] /\ Len(mailboxes[w]) \in Nat \ {0} /\ sent[m] = w
  BY <1>1, <1>2 DEF MailInv, MailboxInv
<1>4. Queued' \subseteq Queued \ {m}
  <2> SUFFICES ASSUME NEW v \in DOMAIN mailboxes', NEW i \in DOMAIN mailboxes'[v]
               PROVE  mailboxes'[v][i] \in Queued \ {m}
    BY DEF Queued, ToSet
  <2>1. CASE v = w
    <3>1. mailboxes'[w] = Tail(mailboxes[w])
      BY DEF Without
    <3>2. i \in 1..Len(mailboxes[w]) - 1 /\ mailboxes'[w][i] = mailboxes[w][i + 1]
      BY <1>2, <1>3, <2>1, <3>1
    <3>3. i + 1 \in 1..Len(mailboxes[w]) /\ 1 \in 1..Len(mailboxes[w]) /\ 1 < i + 1
      BY <1>3, <3>2
    <3>4. mailboxes[w][1] < mailboxes[w][i + 1]
      BY <3>3 DEF MailInv, MailboxInv
    <3>5. mailboxes[w][i + 1] \in Queued
      BY <1>2, <3>3, QueuedAt
    <3>6. mailboxes[w][1] \in Nat /\ mailboxes[w][i + 1] \in Nat
      BY <1>2, <3>3
    <3> QED
      BY <1>3, <2>1, <3>2, <3>4, <3>5, <3>6
  <2>2. CASE v # w
    <3>1. v \in DOMAIN mailboxes /\ mailboxes'[v] = mailboxes[v] /\ mailboxes[v] \in Seq(Nat)
      BY <2>2 DEF Without, TypeOK, RegistryTypeOK
    <3>2. sent[mailboxes[v][i]] = v /\ mailboxes[v][i] \in Queued
      BY <3>1, QueuedAt DEF MailInv, MailboxInv
    <3> QED
      BY <1>3, <2>2, <3>1, <3>2
  <2> QED
    BY <2>1, <2>2
<1> QED
  BY <1>1, <1>4

\* A trimmed queue holds entries of the queue.
LEMMA LastNFrom ==
    ASSUME NEW T, NEW s \in Seq(T), NEW n \in Nat, NEW i \in DOMAIN LastN(s, n)
    PROVE  \E j \in DOMAIN s : LastN(s, n)[i] = s[j]
<1>1. CASE Len(s) <= n
  BY <1>1 DEF LastN
<1>2. CASE Len(s) > n
  <2> DEFINE first == Len(s) - n + 1
  <2>1. LastN(s, n) = SubSeq(s, first, Len(s)) /\ first \in 1..Len(s) + 1
    BY <1>2 DEF LastN
  <2>2. Len(SubSeq(s, first, Len(s))) = n
    BY <1>2, <2>1
  <2>3. i \in 1..n
    BY <2>1, <2>2
  <2>4. SubSeq(s, first, Len(s))[i] = s[first + i - 1] /\ first + i - 1 \in 1..Len(s)
    BY <1>2, <2>1, <2>3
  <2> QED
    BY <2>1, <2>4
<1> QED
  BY <1>1, <1>2

\* A step that moves no message into a queue or a hand.
LEMMA QuietHistory ==
    ASSUME HistInv, message_history' = message_history, ack_log' = ack_log, sent' = sent,
           Queued' \subseteq Queued, \A c \in Clients : Hand(c)' \subseteq Hand(c)
    PROVE  HistInv'
<1>1. MsgIds' = MsgIds
  BY DEF MsgIds
<1> QED
  BY <1>1 DEF HistInv

\* A request that only removes workers.
LEMMA RequestHistory ==
    ASSUME HistInv, NEW S, mailboxes' = MailboxesWithout(S), message_history' = message_history,
           ack_log' = ack_log, sent' = sent, received' = received, task' = task
    PROVE  HistInv'
<1>1. \A c \in Clients : Hand(c)' = Hand(c)
  BY DEF Hand, Held, Written
<1> QED
  BY <1>1, LessQueued, QuietHistory DEF MailboxesWithout

\* A message enters its mailbox and the history together, under a new id.
LEMMA SendHistory ==
    ASSUME TypeOK, MailInv, AckByRecipient, HistInv, NEW to \in WorkerIds, NEW from, Send(to, from)
    PROVE  HistInv'
<1>1. PICK m, gone :
        /\ m = Len(sent) + 1 /\ sent' = Append(sent, to)
        /\ mailboxes' = Put(MailboxesWithout(gone), to, Append(Mailbox(to), m))
        /\ message_history' = LastN(Append(message_history,
               [id |-> m, delivered |-> FALSE, acked |-> FALSE]), MessageHistoryMax)
        /\ ack_log' = ack_log /\ task' = task /\ received' = received
  BY DEF Send, TrimHistory, Enqueued
<1>2. /\ sent \in Seq(WorkerIds) /\ message_history \in Seq(HistoryEntry)
      /\ mailboxes \in [DOMAIN mailboxes -> Seq(Nat)]
  BY DEF TypeOK, RegistryTypeOK, HistoryTypeOK, LedgerTypeOK
<1>3. m \notin MsgIds /\ MsgIds' = MsgIds \cup {m} /\ m \in Nat
  BY <1>1, <1>2 DEF MsgIds
<1>4. \A c \in Clients : Hand(c)' = Hand(c) /\ m \notin Hand(c)
  BY <1>1, <1>3 DEF Hand, Held, Written, MailInv, HandInv
<1>5. Queued' \subseteq Queued \cup {m}
  BY <1>1, SentQueue
<1>6. ASSUME NEW i \in DOMAIN message_history'
      PROVE  \/ \E j \in DOMAIN message_history : message_history'[i] = message_history[j]
             \/ message_history'[i] = [id |-> m, delivered |-> FALSE, acked |-> FALSE]
  <2> DEFINE e == [id |-> m, delivered |-> FALSE, acked |-> FALSE]
             all == Append(message_history, e)
  <2>1. e \in HistoryEntry
    BY <1>3 DEF HistoryEntry
  <2>2. all \in Seq(HistoryEntry)
    BY <1>2, <2>1
  <2>3. PICK j \in DOMAIN all : LastN(all, MessageHistoryMax)[i] = all[j]
    <3> HIDE DEF all
    <3>1. message_history' = LastN(all, MessageHistoryMax)
      BY <1>1 DEF all
    <3> QED
      BY <2>2, <3>1, <1>6, LastNFrom, BoundsAssumption
  <2>4. all[j] = e \/ (j \in DOMAIN message_history /\ all[j] = message_history[j])
    <3> HIDE DEF e
    <3> QED
      BY <1>2, <2>1
  <2> QED
    BY <1>1, <2>3, <2>4
<1>7. m \notin DOMAIN ack_log
  BY <1>3 DEF AckByRecipient
<1>8. ASSUME NEW i \in DOMAIN message_history'
      PROVE  /\ message_history'[i].id \in MsgIds \cup {m}
             /\ message_history'[i].acked <=> message_history'[i].id \in DOMAIN ack_log
             /\ message_history'[i].delivered => message_history'[i].id \notin Queued \cup {m}
             /\ \A c \in Clients :
                  message_history'[i].id \in Hand(c) => message_history'[i].delivered
  <2>1. CASE \E j \in DOMAIN message_history : message_history'[i] = message_history[j]
    BY <1>3, <2>1 DEF HistInv
  <2>2. CASE message_history'[i] = [id |-> m, delivered |-> FALSE, acked |-> FALSE]
    BY <1>4, <1>7, <2>2
  <2> QED
    BY <1>6, <1>8, <2>1, <2>2
<1>9. ASSUME NEW i \in DOMAIN message_history'
      PROVE  /\ message_history'[i].id \in MsgIds'
             /\ message_history'[i].acked <=> message_history'[i].id \in DOMAIN ack_log'
             /\ message_history'[i].delivered => message_history'[i].id \notin Queued'
             /\ \A c \in Clients :
                  message_history'[i].id \in Hand(c)' => message_history'[i].delivered
  <2>1. ack_log' = ack_log
    BY <1>1
  <2> QED
    BY <1>3, <1>4, <1>5, <1>8, <2>1
<1> QED
  BY <1>9 DEF HistInv

\* An acknowledgement marks the entry and enters the ack log together.
LEMMA AckHistory ==
    ASSUME TypeOK, HistInv, NEW w, NEW m, Ack(w, m)
    PROVE  HistInv'
<1>1. /\ message_history' = MarkAcked(m) /\ DOMAIN ack_log' = DOMAIN ack_log \cup {m}
      /\ sent' = sent /\ received' = received /\ task' = task
      /\ mailboxes' = Without(mailboxes, Expired)
  BY DEF Ack, Put, RemoveWorkers, MailboxesWithout
<1>2. /\ MsgIds' = MsgIds /\ Queued' \subseteq Queued
      /\ \A c \in Clients : Hand(c)' = Hand(c)
  BY <1>1, LessQueued DEF MsgIds, Hand, Held, Written
<1>3. message_history \in Seq(HistoryEntry)
  BY DEF TypeOK, HistoryTypeOK
<1>4. ASSUME NEW i \in DOMAIN message_history
      PROVE  /\ i \in DOMAIN MarkAcked(m)
             /\ MarkAcked(m)[i].id = message_history[i].id
             /\ MarkAcked(m)[i].delivered = message_history[i].delivered
             /\ MarkAcked(m)[i].acked <=> message_history[i].acked \/ message_history[i].id = m
  <2>1. message_history[i] \in HistoryEntry
    BY <1>3
  <2>2. MarkAcked(m)[i] = IF message_history[i].id = m
                          THEN [message_history[i] EXCEPT !.acked = TRUE] ELSE message_history[i]
    BY DEF MarkAcked
  <2> QED
    BY <2>1, <2>2 DEF MarkAcked, HistoryEntry
<1>5. DOMAIN message_history' = DOMAIN message_history
  BY <1>1 DEF MarkAcked
<1>6. ASSUME NEW i \in DOMAIN message_history
      PROVE  /\ message_history'[i].id \in MsgIds
             /\ message_history'[i].acked <=> message_history'[i].id \in DOMAIN ack_log'
             /\ message_history'[i].delivered => message_history'[i].id \notin Queued
             /\ \A c \in Clients :
                  message_history'[i].id \in Hand(c) => message_history'[i].delivered
  BY <1>1, <1>4 DEF HistInv
<1> QED
  BY <1>2, <1>5, <1>6 DEF HistInv

\* A pop marks the entry and takes the message from the only queue it is in.
LEMMA PopHistory ==
    ASSUME TypeOK, MailInv, HistInv, NEW S, NEW c \in Clients, NEW w \in DOMAIN mailboxes \ S,
           mailboxes[w] # <<>>,
           mailboxes' = [Without(mailboxes, S) EXCEPT ![w] = Tail(mailboxes[w])],
           message_history' = MarkDelivered(Head(mailboxes[w])),
           ack_log' = ack_log, sent' = sent, received' = received,
           Held(c)' = {Head(mailboxes[w])},
           \A d \in Clients \ {c} : Held(d)' = Held(d)
    PROVE  HistInv'
<1>1. PICK m : m = Head(mailboxes[w])
  OBVIOUS
<1>2. mailboxes[w] \in Seq(Nat) /\ message_history \in Seq(HistoryEntry)
  BY DEF TypeOK, RegistryTypeOK, HistoryTypeOK
<1>3. m = mailboxes[w][1] /\ Len(mailboxes[w]) \in Nat \ {0} /\ sent[m] = w
  BY <1>1, <1>2 DEF MailInv, MailboxInv
<1>4. Queued' \subseteq Queued \ {m}
  BY <1>1, PoppedQueue
<1>5. /\ MsgIds' = MsgIds
      /\ \A d \in Clients : Hand(d)' \subseteq Hand(d) \cup {m}
  BY <1>1 DEF MsgIds, Hand, Written
<1>6. ASSUME NEW i \in DOMAIN message_history
      PROVE  /\ MarkDelivered(m)[i].id = message_history[i].id
             /\ MarkDelivered(m)[i].acked = message_history[i].acked
             /\ MarkDelivered(m)[i].delivered
                  <=> message_history[i].delivered \/ message_history[i].id = m
  <2>1. message_history[i] \in HistoryEntry
    BY <1>2
  <2>2. MarkDelivered(m)[i] = IF message_history[i].id = m
                              THEN [message_history[i] EXCEPT !.delivered = TRUE]
                              ELSE message_history[i]
    BY DEF MarkDelivered
  <2> QED
    BY <2>1, <2>2 DEF HistoryEntry
<1>7. DOMAIN message_history' = DOMAIN message_history /\ message_history' = MarkDelivered(m)
  BY <1>1 DEF MarkDelivered
<1>8. ASSUME NEW i \in DOMAIN message_history
      PROVE  /\ message_history'[i].id \in MsgIds
             /\ message_history'[i].acked <=> message_history'[i].id \in DOMAIN ack_log
             /\ message_history'[i].delivered => message_history'[i].id \notin Queued \ {m}
             /\ \A d \in Clients :
                  message_history'[i].id \in Hand(d) \cup {m} => message_history'[i].delivered
  BY <1>6, <1>7 DEF HistInv
<1> QED
  BY <1>4, <1>5, <1>7, <1>8 DEF HistInv

\* The first critical section of a listen.
LEMMA ListenHistory ==
    ASSUME TypeOK, MailInv, HistInv, NEW c \in Clients, NEW w \in WorkerIds, Listen(c, w)
    PROVE  HistInv'
<1>1. task \in [Clients -> Task]
  BY DEF TypeOK, ListenTypeOK
<1>2. CASE ListenRejected(c, w)
  BY <1>2, RequestHistory DEF ListenRejected, RemoveWorkers
<1>3. CASE ListenEmpty(c, w)
  <2>1. /\ mailboxes' = Without(mailboxes, Expired) /\ sent' = sent /\ received' = received
        /\ message_history' = message_history /\ ack_log' = ack_log
        /\ task'[c].msg = NoMsg
        /\ \A d \in Clients \ {c} : task'[d] = task[d]
    BY <1>1, <1>3 DEF ListenEmpty, MailboxesWithout
  <2>2. \A d \in Clients : Hand(d)' \subseteq Hand(d)
    BY <2>1 DEF Hand, Held, Written
  <2> QED
    BY <2>1, <2>2, LessQueued, QuietHistory
<1>4. CASE ListenImmediate(c, w)
  <2>1. /\ w \in DOMAIN mailboxes /\ mailboxes[w] # <<>> /\ Mailbox(w) = mailboxes[w]
        /\ Head(mailboxes[w]) \in Nat \ {NoMsg}
    BY <1>4, HeadMail DEF ListenImmediate
  <2>2. w \notin Expired
    BY <1>4 DEF ListenImmediate, Live
  <2>3. mailboxes' = [Without(mailboxes, Expired) EXCEPT ![w] = Tail(mailboxes[w])]
    BY <1>4, <2>1, <2>2 DEF ListenImmediate, MailboxesWithout, Without, Popped
  <2>4. /\ sent' = sent /\ received' = received /\ ack_log' = ack_log
        /\ message_history' = MarkDelivered(Head(mailboxes[w]))
        /\ task'[c].msg = Head(mailboxes[w])
        /\ \A d \in Clients \ {c} : task'[d] = task[d]
    BY <1>1, <1>4, <2>1 DEF ListenImmediate
  <2>5. Held(c)' = {Head(mailboxes[w])} /\ \A d \in Clients \ {c} : Held(d)' = Held(d)
    BY <2>1, <2>4 DEF Held
  <2> QED
    BY <2>1, <2>2, <2>3, <2>4, <2>5, PopHistory
<1> QED
  BY <1>2, <1>3, <1>4 DEF Listen

\* The steps of the task that serves a listen.
LEMMA HandlerHistory ==
    ASSUME TypeOK, MailInv, HistInv, NEW c \in Clients, HandlerStep(c)
    PROVE  HistInv'
<1>1. task \in [Clients -> Task] /\ received \in [Clients -> Seq(Nat)]
  BY DEF TypeOK, ListenTypeOK, LedgerTypeOK
<1>2. ASSUME mailboxes' = mailboxes, sent' = sent, received' = received,
             message_history' = message_history, ack_log' = ack_log,
             task'[c].msg \in {task[c].msg, NoMsg},
             \A d \in Clients \ {c} : task'[d] = task[d]
      PROVE  HistInv'
  <2>1. \A d \in Clients : Hand(d)' \subseteq Hand(d)
    BY <1>2 DEF Hand, Held, Written
  <2>2. Queued' = Queued
    BY <1>2 DEF Queued
  <2> QED
    BY <1>2, <2>1, <2>2, QuietHistory
<1>3. CASE CountImmediate(c)
  BY <1>1, <1>2, <1>3 DEF CountImmediate, Reply, registry, Task, Idle
<1>4. CASE PollNotified(c)
  <2>1. \E p \in {"woken", "waiting"} : task' = [task EXCEPT ![c].pc = p]
    BY <1>4 DEF PollNotified
  <2>2. task'[c].msg = task[c].msg /\ \A d \in Clients \ {c} : task'[d] = task[d]
    BY <1>1, <2>1 DEF Task, Idle
  <2> QED
    BY <1>2, <1>4, <2>2 DEF PollNotified, registry
<1>5. CASE NotifiedReady(c)
  BY <1>1, <1>2, <1>5 DEF NotifiedReady, registry, Task, Idle
<1>6. CASE TimerElapsed(c)
  BY <1>1, <1>2, <1>6 DEF TimerElapsed, registry, Task, Idle
<1>7. CASE TimedOut(c)
  BY <1>1, <1>2, <1>7 DEF TimedOut, Reply, registry, Task, Idle
<1>8. CASE SpuriousWake(c)
  BY <1>1, <1>2, <1>8 DEF SpuriousWake, Reply, registry, Task, Idle
<1>9. CASE WriteFails(c)
  BY <1>1, <1>2, <1>9 DEF WriteFails, registry, Idle
<1>10. CASE WriteResponse(c)
  <2>1. /\ mailboxes' = mailboxes /\ sent' = sent /\ message_history' = message_history
        /\ ack_log' = ack_log /\ task'[c] = Idle
        /\ \A d \in Clients \ {c} : task'[d] = task[d] /\ received'[d] = received[d]
        /\ \/ received'[c] = received[c]
           \/ task[c].msg # NoMsg /\ received'[c] = Append(received[c], task[c].msg)
    BY <1>1, <1>10 DEF WriteResponse, registry
  <2>2. \A d \in Clients \ {c} : Hand(d)' = Hand(d)
    BY <2>1 DEF Hand, Held, Written
  <2>3. Hand(c)' \subseteq Hand(c)
    <3>1. Held(c)' = {}
      BY <2>1 DEF Held, Idle
    <3>2. CASE received'[c] = received[c]
      BY <3>1, <3>2 DEF Hand, Written
    <3>3. CASE task[c].msg # NoMsg /\ received'[c] = Append(received[c], task[c].msg)
      <4>1. received[c] \in Seq(Nat)
        BY <1>1
      <4>2. ToSet(Append(received[c], task[c].msg)) \subseteq ToSet(received[c]) \cup {task[c].msg}
        BY <4>1 DEF ToSet
      <4>3. Written(c)' = ToSet(Append(received[c], task[c].msg))
        BY <3>3 DEF Written
      <4> QED
        BY <3>1, <3>3, <4>2, <4>3 DEF Hand, Held, Written
    <3> QED
      BY <2>1, <3>2, <3>3
  <2>4. Queued' = Queued
    BY <2>1 DEF Queued
  <2> QED
    BY <2>1, <2>2, <2>3, <2>4, QuietHistory
<1>11. CASE PopAfterWake(c)
  <2> DEFINE w == task[c].worker
  <2>1. /\ w \in DOMAIN mailboxes /\ mailboxes[w] # <<>> /\ Mailbox(w) = mailboxes[w]
        /\ Head(mailboxes[w]) \in Nat \ {NoMsg}
    BY <1>11, HeadMail DEF PopAfterWake
  <2>2. Without(mailboxes, {}) = mailboxes
    BY DEF Without, TypeOK, RegistryTypeOK
  <2>3. mailboxes' = [Without(mailboxes, {}) EXCEPT ![w] = Tail(mailboxes[w])]
    BY <1>11, <2>2 DEF PopAfterWake, Popped
  <2>4. /\ sent' = sent /\ received' = received /\ ack_log' = ack_log
        /\ message_history' = MarkDelivered(Head(mailboxes[w]))
        /\ task'[c].msg = Head(mailboxes[w])
        /\ \A d \in Clients \ {c} : task'[d] = task[d]
    BY <1>1, <1>11, <2>1 DEF PopAfterWake, Reply, Task, Idle
  <2>5. Held(c)' = {Head(mailboxes[w])} /\ \A d \in Clients \ {c} : Held(d)' = Held(d)
    BY <2>1, <2>4 DEF Held
  <2> QED
    BY <2>1, <2>3, <2>4, <2>5, PopHistory, w \in DOMAIN mailboxes \ {}
<1> QED
  BY <1>3, <1>4, <1>5, <1>6, <1>7, <1>8, <1>9, <1>10, <1>11 DEF HandlerStep

\* Every step keeps the history in agreement.
LEMMA NextHistory == TypeOK /\ MailInv /\ AckByRecipient /\ HistInv /\ [Next]_vars => HistInv'
<1> SUFFICES ASSUME TypeOK, MailInv, AckByRecipient, HistInv, [Next]_vars PROVE HistInv'
  OBVIOUS
<1>1. CASE Tick \/ UNCHANGED vars
  <2>1. /\ mailboxes' = mailboxes /\ sent' = sent /\ received' = received /\ task' = task
        /\ message_history' = message_history /\ ack_log' = ack_log
    BY <1>1 DEF Tick, vars, registry
  <2>2. mailboxes' = MailboxesWithout({})
    BY <2>1 DEF MailboxesWithout, Without, TypeOK, RegistryTypeOK
  <2> QED
    BY <2>1, <2>2, RequestHistory
<1>2. CASE EvictExpired
  BY <1>2, RequestHistory DEF EvictExpired, RemoveWorkers
<1>3. ASSUME NEW reg, NEW w, RegisterWorker(reg, w)
      PROVE  \E S : mailboxes' = MailboxesWithout(S)
  BY <1>3 DEF RegisterWorker, Claim, Insert
<1>4. ASSUME NEW reg \in Registrations, Register(reg) \/ PreRegister(reg)
      PROVE  HistInv'
  <2>1. /\ \E w : RegisterWorker(reg, w)
        /\ sent' = sent /\ received' = received /\ task' = task
        /\ message_history' = message_history /\ ack_log' = ack_log
    BY <1>4 DEF Register, PreRegister
  <2> QED
    BY <1>3, <2>1, RequestHistory
<1>5. ASSUME NEW reg \in Registrations, RegisterCollision(reg)
      PROVE  HistInv'
  BY <1>5, RequestHistory DEF RegisterCollision, RemoveWorkers
<1>6. ASSUME NEW w \in WorkerIds, RemoveWorker(w)
      PROVE  HistInv'
  BY <1>6, RequestHistory DEF RemoveWorker, RemoveWorkers
<1>7. ASSUME NEW from, Team(from)
      PROVE  HistInv'
  BY <1>7, RequestHistory DEF Team
<1>8. ASSUME NEW w \in WorkerIds, ClearStatus(w)
      PROVE  HistInv'
  BY <1>8, RequestHistory DEF ClearStatus
<1>9. ASSUME NEW w \in WorkerIds, NEW s \in Statuses \cup {None}, Heartbeat(w, s)
      PROVE  HistInv'
  BY <1>9, RequestHistory DEF Heartbeat
<1> QED
  BY <1>1, <1>2, <1>4, <1>5, <1>6, <1>7, <1>8, <1>9, SendHistory, AckHistory, ListenHistory,
     HandlerHistory DEF Next, SendRejected

\* The history the monitor reads agrees with the queues and the ack log,
\* whatever has been trimmed and however the deliveries interleave.
THEOREM HistoryAgreesHolds == Spec => []HistoryAgrees
<1>1. Init => HistInv
  BY DEF Init, HistInv
<1>2. HistInv => HistoryAgrees
  BY DEF HistInv, HistoryAgrees, Hand
<1> QED
  BY <1>1, <1>2, NextHistory, TypeCorrect, MailCorrect, AckByRecipientHolds, PTL DEF Spec

-----------------------------------------------------------------------------
(* What is counted: the monitor's counters and the messages they stand for. *)

\* A connection that has popped a message has it in hand until it is counted.
PoppedHolds == \A c \in Clients : task[c].pc = "popped" => task[c].msg # NoMsg
CounterInv == CountersAgree /\ PoppedHolds

\* The messages are finite in number, so what is counted of them is.
LEMMA MessagesFinite ==
    ASSUME TypeOK
    PROVE  /\ IsFiniteSet(Counted) /\ Cardinality(Counted) \in Nat
           /\ IsFiniteSet(Uncounted) /\ Cardinality(Uncounted) \in Nat
<1>1. Len(sent) \in Nat
  BY DEF TypeOK, LedgerTypeOK
<1>2. IsFiniteSet(MsgIds)
  BY <1>1, FS_Interval DEF MsgIds
<1>3. Counted \in SUBSET MsgIds /\ Uncounted \in SUBSET MsgIds
  BY DEF Counted, Uncounted
<1> QED
  BY <1>2, <1>3, FS_Subset, FS_CardinalityType

\* One more element adds one at most.
LEMMA OneMore ==
    ASSUME NEW S, IsFiniteSet(S), NEW x
    PROVE  IsFiniteSet(S \cup {x}) /\ Cardinality(S \cup {x}) <= Cardinality(S) + 1
<1>1. /\ IsFiniteSet(S \cup {x})
      /\ Cardinality(S \cup {x}) = IF x \in S THEN Cardinality(S) ELSE Cardinality(S) + 1
  BY FS_AddElement
<1>2. Cardinality(S) \in Nat
  BY FS_CardinalityType
<1> QED
  BY <1>1, <1>2

\* A step that counts nothing and sends nothing.
LEMMA QuietCounters ==
    ASSUME TypeOK, CountersAgree, messages_delivered' = messages_delivered, sent' = sent,
           Counted' \subseteq Counted, Uncounted' \subseteq Uncounted
    PROVE  CountersAgree'
<1>1. PICK K, U : K = Counted' /\ U = Uncounted'
  OBVIOUS
<1>2. /\ Cardinality(K) \in Nat /\ Cardinality(K) <= Cardinality(Counted)
      /\ Cardinality(U) \in Nat /\ Cardinality(U) <= Cardinality(Uncounted)
  BY <1>1, MessagesFinite, FS_Subset, FS_CardinalityType
<1>3. messages_delivered \in Nat /\ Len(sent) \in Nat
  BY DEF TypeOK, LedgerTypeOK
<1> QED
  BY <1>1, <1>2, <1>3, MessagesFinite DEF CountersAgree

\* A message sent is one more that may be counted.
LEMMA SentCounters ==
    ASSUME TypeOK, CountersAgree, NEW to, messages_delivered' = messages_delivered,
           sent' = Append(sent, to), Counted' \subseteq Counted,
           Uncounted' \subseteq Uncounted \cup {Len(sent) + 1}
    PROVE  CountersAgree'
<1>1. PICK K, U, m : K = Counted' /\ U = Uncounted' /\ m = Len(sent) + 1
  OBVIOUS
<1>2. Cardinality(K) \in Nat /\ Cardinality(K) <= Cardinality(Counted)
  BY <1>1, MessagesFinite, FS_Subset, FS_CardinalityType
<1>3. IsFiniteSet(Uncounted \cup {m}) /\ Cardinality(Uncounted \cup {m}) <= Cardinality(Uncounted) + 1
  BY MessagesFinite, OneMore
<1>4. /\ Cardinality(U) \in Nat /\ Cardinality(U) <= Cardinality(Uncounted \cup {m})
      /\ Cardinality(Uncounted \cup {m}) \in Nat
  BY <1>1, <1>3, FS_Subset, FS_CardinalityType
<1>5. messages_delivered \in Nat /\ Len(sent) \in Nat /\ Len(sent') = Len(sent) + 1
  BY DEF TypeOK, LedgerTypeOK
<1>6. Cardinality(K) <= messages_delivered
  BY <1>2, <1>5, MessagesFinite DEF CountersAgree
<1>7. messages_delivered + Cardinality(U) <= Len(sent) + 1
  BY <1>3, <1>4, <1>5, MessagesFinite DEF CountersAgree
<1> QED
  BY <1>1, <1>5, <1>6, <1>7 DEF CountersAgree

\* A message counted could be counted before, and cannot any more.
LEMMA CountedOnce ==
    ASSUME TypeOK, CountersAgree, NEW m \in Uncounted,
           messages_delivered' = messages_delivered + 1, sent' = sent,
           Counted' \subseteq Counted \cup {m}, Uncounted' \subseteq Uncounted \ {m}
    PROVE  CountersAgree'
<1>1. PICK K, U : K = Counted' /\ U = Uncounted'
  OBVIOUS
<1>2. IsFiniteSet(Counted \cup {m}) /\ Cardinality(Counted \cup {m}) <= Cardinality(Counted) + 1
  BY MessagesFinite, OneMore
<1>3. /\ Cardinality(K) \in Nat /\ Cardinality(K) <= Cardinality(Counted \cup {m})
      /\ Cardinality(Counted \cup {m}) \in Nat
  BY <1>1, <1>2, FS_Subset, FS_CardinalityType
<1>4. IsFiniteSet(Uncounted \ {m}) /\ Cardinality(Uncounted \ {m}) = Cardinality(Uncounted) - 1
  BY MessagesFinite, FS_RemoveElement
<1>5. /\ Cardinality(U) \in Nat /\ Cardinality(U) <= Cardinality(Uncounted \ {m})
      /\ Cardinality(Uncounted \ {m}) \in Nat
  BY <1>1, <1>4, FS_Subset, FS_CardinalityType
<1>6. messages_delivered \in Nat /\ Len(sent) \in Nat
  BY DEF TypeOK, LedgerTypeOK
<1>7. Cardinality(K) <= messages_delivered + 1
  BY <1>2, <1>3, <1>6, MessagesFinite DEF CountersAgree
<1>8. messages_delivered + 1 + Cardinality(U) <= Len(sent)
  BY <1>4, <1>5, <1>6, MessagesFinite DEF CountersAgree
<1> QED
  BY <1>1, <1>6, <1>7, <1>8 DEF CountersAgree

\* Connections that keep, write or lose what they have in hand, and mailboxes
\* that keep or lose mail.
LEMMA LooseCounters ==
    ASSUME TypeOK, CounterInv, messages_delivered' = messages_delivered, sent' = sent,
           Queued' \subseteq Queued,
           \A c \in Clients :
              /\ task'[c].pc = "popped" => task[c].pc = "popped" /\ task'[c].msg = task[c].msg
              /\ task'[c].pc = "replying" /\ task'[c].msg # NoMsg =>
                    task[c].pc = "replying" /\ task'[c].msg = task[c].msg
              /\ Written(c)' \subseteq Written(c) \cup IF task[c].pc = "replying" THEN Held(c) ELSE {}
    PROVE  CounterInv'
<1>1. MsgIds' = MsgIds
  BY DEF MsgIds
<1>2. \A c \in Clients : task'[c].pc = "popped" => Held(c)' = Held(c)
  BY DEF Held
<1>3. \A c \in Clients : task'[c].pc = "replying" =>
          Held(c)' = {} \/ (task[c].pc = "replying" /\ Held(c)' = Held(c))
  BY DEF Held
<1>4. Counted' \subseteq Counted
  BY <1>1, <1>3 DEF Counted
<1>5. Uncounted' \subseteq Uncounted
  BY <1>1, <1>2 DEF Uncounted
<1>6. PoppedHolds'
  BY DEF CounterInv, PoppedHolds
<1> QED
  BY <1>4, <1>5, <1>6, QuietCounters DEF CounterInv

\* Requests that change mailboxes at most by removing them.
LEMMA RequestCounters ==
    ASSUME TypeOK, CounterInv, NEW S, mailboxes' = MailboxesWithout(S),
           messages_delivered' = messages_delivered, sent' = sent, received' = received,
           task' = task
    PROVE  CounterInv'
<1>1. Queued' \subseteq Queued
  BY LessQueued DEF MailboxesWithout
<1>2. \A c \in Clients : Written(c)' = Written(c)
  BY DEF Written
<1> QED
  BY <1>1, <1>2, LooseCounters

\* A message sent waits in a mailbox.
LEMMA SendCounters ==
    ASSUME TypeOK, MailInv, CounterInv, NEW to \in WorkerIds, NEW from, Send(to, from)
    PROVE  CounterInv'
<1>1. PICK m, gone :
        /\ m = Len(sent) + 1 /\ sent' = Append(sent, to)
        /\ mailboxes' = Put(MailboxesWithout(gone), to, Append(Mailbox(to), m))
        /\ messages_delivered' = messages_delivered /\ received' = received /\ task' = task
  BY DEF Send, Enqueued
<1>2. sent \in Seq(WorkerIds)
  BY DEF TypeOK, LedgerTypeOK
<1>3. m \notin MsgIds /\ MsgIds' = MsgIds \cup {m}
  BY <1>1, <1>2 DEF MsgIds
<1>4. \A c \in Clients : Held(c)' = Held(c) /\ Written(c)' = Written(c)
  BY <1>1 DEF Held, Written
<1>5. \A c \in Clients : m \notin Held(c) \cup Written(c)
  BY <1>3 DEF MailInv, HandInv, Hand
<1>6. Counted' \subseteq Counted
  BY <1>1, <1>3, <1>4, <1>5 DEF Counted
<1>7. Uncounted' \subseteq Uncounted \cup {Len(sent) + 1}
  BY <1>1, <1>3, <1>4, SentQueue DEF Uncounted
<1>8. PoppedHolds'
  BY <1>1 DEF CounterInv, PoppedHolds
<1> QED
  BY <1>1, <1>6, <1>7, <1>8, SentCounters DEF CounterInv

\* An immediate delivery pops first and is counted later: in between its
\* message is in a connection's hand instead of the mailbox.
LEMMA ListenCounters ==
    ASSUME TypeOK, MailInv, CounterInv, NEW c \in Clients, NEW w \in WorkerIds, Listen(c, w)
    PROVE  CounterInv'
<1>1. task \in [Clients -> Task]
  BY DEF TypeOK, ListenTypeOK
<1>2. CASE ListenRejected(c, w)
  BY <1>2, RequestCounters DEF ListenRejected, RemoveWorkers
<1>3. CASE ListenEmpty(c, w)
  <2>1. /\ mailboxes' = Without(mailboxes, Expired) /\ sent' = sent /\ received' = received
        /\ messages_delivered' = messages_delivered /\ task'[c].pc = "polling"
        /\ \A d \in Clients \ {c} : task'[d] = task[d]
    BY <1>1, <1>3 DEF ListenEmpty, MailboxesWithout
  <2>2. \A d \in Clients : Written(d)' = Written(d)
    BY <2>1 DEF Written
  <2> QED
    BY <2>1, <2>2, LessQueued, LooseCounters
<1>4. CASE ListenImmediate(c, w)
  <2>1. /\ w \in DOMAIN mailboxes /\ mailboxes[w] # <<>> /\ Mailbox(w) = mailboxes[w]
        /\ Head(mailboxes[w]) \in Nat \ {NoMsg}
    BY <1>4, HeadMail DEF ListenImmediate
  <2>2. w \in DOMAIN mailboxes \ Expired
    BY <1>4, <2>1 DEF ListenImmediate, Live
  <2>3. mailboxes' = [Without(mailboxes, Expired) EXCEPT ![w] = Tail(mailboxes[w])]
    BY <1>4, <2>1, <2>2 DEF ListenImmediate, MailboxesWithout, Without, Popped
  <2>4. /\ sent' = sent /\ received' = received /\ messages_delivered' = messages_delivered
        /\ task'[c].msg = Head(mailboxes[w]) /\ task'[c].pc = "popped"
        /\ \A d \in Clients \ {c} : task'[d] = task[d]
    BY <1>1, <1>4, <2>1 DEF ListenImmediate
  <2>5. Head(mailboxes[w]) \in Queued
    <3>1. mailboxes[w] \in Seq(Nat)
      BY <2>1 DEF TypeOK, RegistryTypeOK
    <3>2. 1 \in DOMAIN mailboxes[w] /\ Head(mailboxes[w]) = mailboxes[w][1]
      BY <2>1, <3>1
    <3> QED
      BY <2>1, <3>2, QueuedAt
  <2>6. Queued' \subseteq Queued
    BY <2>1, <2>2, <2>3, PoppedQueue
  <2>7. /\ \A d \in Clients : Written(d)' = Written(d)
        /\ \A d \in Clients \ {c} : Held(d)' = Held(d)
        /\ Held(c)' = {Head(mailboxes[w])}
        /\ MsgIds' = MsgIds
    BY <2>1, <2>4 DEF Written, Held, MsgIds
  <2>8. Counted' \subseteq Counted
    BY <2>4, <2>7 DEF Counted
  <2>9. Uncounted' \subseteq Uncounted
    BY <2>4, <2>5, <2>6, <2>7 DEF Uncounted
  <2>10. PoppedHolds'
    BY <2>1, <2>4 DEF CounterInv, PoppedHolds
  <2> QED
    BY <2>4, <2>8, <2>9, <2>10, QuietCounters DEF CounterInv
<1> QED
  BY <1>2, <1>3, <1>4 DEF Listen

\* The second critical section of an immediate delivery counts its message.
LEMMA CountsImmediate ==
    ASSUME TypeOK, MailInv, AtMostOnce, CounterInv, NEW c \in Clients, CountImmediate(c)
    PROVE  CounterInv'
<1>1. task \in [Clients -> Task]
  BY DEF TypeOK, ListenTypeOK
<1>2. PICK m : m = task[c].msg
  OBVIOUS
<1>3. m # NoMsg /\ Held(c) = {m}
  BY <1>2 DEF CountImmediate, CounterInv, PoppedHolds, Held
<1>4. m \in Uncounted
  BY <1>3 DEF Uncounted, CountImmediate, MailInv, HandInv, Hand
<1>5. /\ sent' = sent /\ received' = received /\ mailboxes' = mailboxes
      /\ messages_delivered' = messages_delivered + 1
      /\ task'[c].msg = m /\ task'[c].pc = "replying"
      /\ \A d \in Clients \ {c} : task'[d] = task[d]
  BY <1>1, <1>2 DEF CountImmediate, CountDelivery, Reply, registry, Task, Idle
<1>6. /\ \A d \in Clients : Written(d)' = Written(d) /\ Held(d)' = Held(d)
      /\ MsgIds' = MsgIds /\ Queued' = Queued
  BY <1>2, <1>5 DEF Written, Held, MsgIds, Queued
<1>7. Counted' \subseteq Counted \cup {m}
  BY <1>3, <1>5, <1>6 DEF Counted
<1>8. m \notin Queued /\ \A d \in Clients \ {c} : m \notin Held(d)
  BY <1>3 DEF AtMostOnce
<1>9. Uncounted' \subseteq Uncounted \ {m}
  BY <1>5, <1>6, <1>8 DEF Uncounted
<1>10. PoppedHolds'
  BY <1>5 DEF CounterInv, PoppedHolds
<1> QED
  BY <1>4, <1>5, <1>7, <1>9, <1>10, CountedOnce DEF CounterInv

\* After a wake-up one critical section pops and counts.
LEMMA CountsAfterWake ==
    ASSUME TypeOK, MailInv, AtMostOnce, CounterInv, NEW c \in Clients, PopAfterWake(c)
    PROVE  CounterInv'
<1> DEFINE w == task[c].worker
<1>1. task \in [Clients -> Task]
  BY DEF TypeOK, ListenTypeOK
<1>2. /\ w \in DOMAIN mailboxes /\ mailboxes[w] # <<>> /\ Mailbox(w) = mailboxes[w]
      /\ Head(mailboxes[w]) \in Nat \ {NoMsg}
  BY HeadMail DEF PopAfterWake
<1>3. PICK m : m = Head(mailboxes[w])
  OBVIOUS
<1>4. m \in Queued /\ m \in MsgIds
  <2>1. mailboxes[w] \in Seq(Nat)
    BY <1>2 DEF TypeOK, RegistryTypeOK
  <2>2. 1 \in DOMAIN mailboxes[w] /\ m = mailboxes[w][1] /\ 1 \in 1..Len(mailboxes[w])
    BY <1>2, <1>3, <2>1
  <2> QED
    BY <1>2, <2>2, QueuedAt DEF MailInv, MailboxInv
<1>5. Queued' \subseteq Queued \ {m}
  <2>1. mailboxes' = [Without(mailboxes, {}) EXCEPT ![w] = Tail(mailboxes[w])]
    BY DEF PopAfterWake, Popped, Without, TypeOK, RegistryTypeOK
  <2>2. w \in DOMAIN mailboxes \ {}
    BY <1>2
  <2> QED
    BY <1>2, <1>3, <2>1, <2>2, PoppedQueue
<1>6. /\ sent' = sent /\ received' = received /\ messages_delivered' = messages_delivered + 1
      /\ task'[c].msg = m /\ task'[c].pc = "replying" /\ task[c].pc = "woken"
      /\ \A d \in Clients \ {c} : task'[d] = task[d]
  BY <1>1, <1>2, <1>3 DEF PopAfterWake, CountDelivery, Reply, Task, Idle
<1>7. /\ \A d \in Clients : Written(d)' = Written(d)
      /\ \A d \in Clients \ {c} : Held(d)' = Held(d)
      /\ Held(c)' \subseteq {m} /\ MsgIds' = MsgIds
  BY <1>6 DEF Written, Held, MsgIds
<1>8. Counted' \subseteq Counted \cup {m}
  BY <1>6, <1>7 DEF Counted
<1>9. \A d \in Clients : m \notin Held(d)
  BY <1>4 DEF AtMostOnce
<1>10. Uncounted' \subseteq Uncounted \ {m}
  BY <1>5, <1>6, <1>7, <1>9 DEF Uncounted
<1>11. PoppedHolds'
  BY <1>6 DEF CounterInv, PoppedHolds
<1>12. m \in Uncounted
  BY <1>4 DEF Uncounted
<1> QED
  BY <1>6, <1>8, <1>10, <1>11, <1>12, CountedOnce DEF CounterInv

\* The steps of the task that serves a listen.
LEMMA HandlerCounters ==
    ASSUME TypeOK, MailInv, AtMostOnce, CounterInv, NEW c \in Clients, HandlerStep(c)
    PROVE  CounterInv'
<1>1. task \in [Clients -> Task] /\ received \in [Clients -> Seq(Nat)]
  BY DEF TypeOK, ListenTypeOK, LedgerTypeOK
<1>2. ASSUME mailboxes' = mailboxes, sent' = sent, received' = received,
             messages_delivered' = messages_delivered,
             task'[c].pc # "popped", task'[c].pc = "replying" => task'[c].msg = NoMsg,
             \A d \in Clients \ {c} : task'[d] = task[d]
      PROVE  CounterInv'
  <2>1. Queued' = Queued /\ \A d \in Clients : Written(d)' = Written(d)
    BY <1>2 DEF Queued, Written
  <2> QED
    BY <1>2, <2>1, LooseCounters
<1>3. CASE CountImmediate(c)
  BY <1>3, CountsImmediate
<1>4. CASE PollNotified(c)
  <2>1. \E p \in {"woken", "waiting"} : task' = [task EXCEPT ![c].pc = p]
    BY <1>4 DEF PollNotified
  <2>2. task'[c].pc \in {"woken", "waiting"} /\ \A d \in Clients \ {c} : task'[d] = task[d]
    BY <1>1, <2>1 DEF Task, Idle
  <2> QED
    BY <1>2, <1>4, <2>2 DEF PollNotified, registry
<1>5. CASE NotifiedReady(c)
  BY <1>1, <1>2, <1>5 DEF NotifiedReady, registry, Task, Idle
<1>6. CASE TimerElapsed(c)
  BY <1>1, <1>2, <1>6 DEF TimerElapsed, registry, Task, Idle
<1>7. CASE TimedOut(c)
  BY <1>1, <1>2, <1>7 DEF TimedOut, Reply, registry, Task, Idle
<1>8. CASE SpuriousWake(c)
  BY <1>1, <1>2, <1>8 DEF SpuriousWake, Reply, registry, Task, Idle
<1>9. CASE WriteFails(c)
  BY <1>1, <1>2, <1>9 DEF WriteFails, registry, Idle
<1>10. CASE PopAfterWake(c)
  BY <1>10, CountsAfterWake
<1>11. CASE WriteResponse(c)
  <2>1. /\ mailboxes' = mailboxes /\ sent' = sent /\ messages_delivered' = messages_delivered
        /\ task'[c] = Idle /\ task[c].pc = "replying"
        /\ \A d \in Clients \ {c} : task'[d] = task[d] /\ received'[d] = received[d]
        /\ \/ received'[c] = received[c]
           \/ task[c].msg # NoMsg /\ received'[c] = Append(received[c], task[c].msg)
    BY <1>1, <1>11 DEF WriteResponse, registry
  <2>2. \A d \in Clients \ {c} : Written(d)' = Written(d)
    BY <2>1 DEF Written
  <2>3. Written(c)' \subseteq Written(c) \cup Held(c)
    <3>1. CASE received'[c] = received[c]
      BY <3>1 DEF Written
    <3>2. CASE task[c].msg # NoMsg /\ received'[c] = Append(received[c], task[c].msg)
      <4>1. received[c] \in Seq(Nat)
        BY <1>1
      <4>2. ToSet(Append(received[c], task[c].msg)) \subseteq ToSet(received[c]) \cup {task[c].msg}
        BY <4>1 DEF ToSet
      <4>3. Written(c)' = ToSet(Append(received[c], task[c].msg))
        BY <3>2 DEF Written
      <4> QED
        BY <3>2, <4>2, <4>3 DEF Held, Written
    <3> QED
      BY <2>1, <3>1, <3>2
  <2>4. Queued' = Queued
    BY <2>1 DEF Queued
  <2>5. task'[c].pc # "popped" /\ task'[c].pc # "replying"
    BY <2>1 DEF Idle
  <2> QED
    BY <2>1, <2>2, <2>3, <2>4, <2>5, LooseCounters
<1> QED
  BY <1>3, <1>4, <1>5, <1>6, <1>7, <1>8, <1>9, <1>10, <1>11 DEF HandlerStep

\* Every step keeps the counters in agreement.
LEMMA NextCounters == TypeOK /\ MailInv /\ AtMostOnce /\ CounterInv /\ [Next]_vars => CounterInv'
<1> SUFFICES ASSUME TypeOK, MailInv, AtMostOnce, CounterInv, [Next]_vars PROVE CounterInv'
  OBVIOUS
<1>1. CASE Tick \/ UNCHANGED vars
  <2>1. /\ mailboxes' = mailboxes /\ sent' = sent /\ received' = received /\ task' = task
        /\ messages_delivered' = messages_delivered
    BY <1>1 DEF Tick, vars, registry
  <2>2. mailboxes' = MailboxesWithout({})
    BY <2>1 DEF MailboxesWithout, Without, TypeOK, RegistryTypeOK
  <2> QED
    BY <2>1, <2>2, RequestCounters
<1>2. CASE EvictExpired
  BY <1>2, RequestCounters DEF EvictExpired, RemoveWorkers
<1>3. ASSUME NEW reg, NEW w, RegisterWorker(reg, w)
      PROVE  \E S : mailboxes' = MailboxesWithout(S)
  BY <1>3 DEF RegisterWorker, Claim, Insert
<1>4. ASSUME NEW reg \in Registrations, Register(reg) \/ PreRegister(reg)
      PROVE  CounterInv'
  <2>1. /\ \E w : RegisterWorker(reg, w)
        /\ sent' = sent /\ received' = received /\ task' = task
        /\ messages_delivered' = messages_delivered
    BY <1>4 DEF Register, PreRegister
  <2> QED
    BY <1>3, <2>1, RequestCounters
<1>5. ASSUME NEW reg \in Registrations, RegisterCollision(reg)
      PROVE  CounterInv'
  BY <1>5, RequestCounters DEF RegisterCollision, RemoveWorkers
<1>6. ASSUME NEW w \in WorkerIds, RemoveWorker(w)
      PROVE  CounterInv'
  BY <1>6, RequestCounters DEF RemoveWorker, RemoveWorkers
<1>7. ASSUME NEW from, Team(from)
      PROVE  CounterInv'
  BY <1>7, RequestCounters DEF Team
<1>8. ASSUME NEW w \in WorkerIds, ClearStatus(w)
      PROVE  CounterInv'
  BY <1>8, RequestCounters DEF ClearStatus
<1>9. ASSUME NEW w \in WorkerIds, NEW s \in Statuses \cup {None}, Heartbeat(w, s)
      PROVE  CounterInv'
  BY <1>9, RequestCounters DEF Heartbeat
<1>10. ASSUME NEW w \in WorkerIds, NEW m, Ack(w, m)
       PROVE  CounterInv'
  BY <1>10, RequestCounters DEF Ack, RemoveWorkers
<1> QED
  BY <1>1, <1>2, <1>4, <1>5, <1>6, <1>7, <1>8, <1>9, <1>10, SendCounters, ListenCounters,
     HandlerCounters DEF Next, SendRejected

\* The history agrees with the queues and the acknowledgements, and the two
\* counters bracket what was delivered, whatever has been trimmed and however
\* deliveries interleave.
THEOREM BooksAgreeHolds == Spec => []BooksAgree
<1>1. Init => CounterInv
  <2> SUFFICES ASSUME Init PROVE CounterInv
    OBVIOUS
  <2>1. sent = <<>> /\ messages_delivered = 0 /\ task = [c \in Clients |-> Idle]
    BY DEF Init
  <2>2. MsgIds = {} /\ Len(sent) = 0
    BY <2>1 DEF MsgIds
  <2>3. Counted = {} /\ Uncounted = {}
    BY <2>2 DEF Counted, Uncounted
  <2>4. PoppedHolds
    BY <2>1 DEF PoppedHolds, Idle
  <2> QED
    BY <2>1, <2>2, <2>3, <2>4, FS_EmptySet DEF CounterInv, CountersAgree
<1>2. CounterInv => CountersAgree
  BY DEF CounterInv
<1>3. HistoryAgrees /\ CountersAgree => BooksAgree
  BY DEF BooksAgree
<1> QED
  BY <1>1, <1>2, <1>3, NextCounters, TypeCorrect, MailCorrect, AtMostOnceHolds,
     HistoryAgreesHolds, PTL DEF Spec

-----------------------------------------------------------------------------
(* The broker implements Mailboxes: under the invariants above each step   *)
(* moves messages as one step of Mailboxes does.                           *)

\* Where a message is tells which of the four it is.
LEMMA PlacesDiffer ==
    /\ <<"queued">> # <<"lost">>
    /\ \A c : /\ <<"queued">> # <<"held", c>> /\ <<"queued">> # <<"delivered", c>>
              /\ <<"lost">> # <<"held", c>> /\ <<"lost">> # <<"delivered", c>>
    /\ \A c, d : /\ <<"held", c>> # <<"delivered", d>>
                 /\ <<"held", c>> = <<"held", d>> => c = d
                 /\ <<"delivered", c>> = <<"delivered", d>> => c = d
OBVIOUS

\* The place of a message, without CHOOSE.
PlaceFacts ==
    \A m \in MsgIds :
        /\ m \in Queued => MailPlace(m) = <<"queued">>
        /\ \A c \in Clients : m \in Held(c) => MailPlace(m) = <<"held", c>>
        /\ \A c \in Clients : m \in Written(c) => MailPlace(m) = <<"delivered", c>>
        /\ m \notin Queued /\ (\A c \in Clients : m \notin Hand(c)) => MailPlace(m) = <<"lost">>

LEMMA ToSetHas ==
    ASSUME NEW s \in Seq(Nat), NEW m
    PROVE  m \in ToSet(s) <=> \E i \in 1..Len(s) : s[i] = m
<1>1. ToSet(s) = {s[i] : i \in 1..Len(s)}
    BY ToSetIs
<1> QED
    BY <1>1

\* What is queued is in the mailbox of its recipient, and in nobody's hands.
LEMMA QueuedIs ==
    ASSUME TypeOK, MailInv, NEW m \in Queued
    PROVE  /\ m \in MsgIds /\ sent[m] \in DOMAIN mailboxes
           /\ \E i \in 1..Len(mailboxes[sent[m]]) : mailboxes[sent[m]][i] = m
           /\ \A c \in Clients : m \notin Hand(c)
<1>1. PICK w \in DOMAIN mailboxes : m \in ToSet(mailboxes[w])
    BY DEF Queued
<1>2. mailboxes[w] \in Seq(Nat)
    BY DEF TypeOK, RegistryTypeOK
<1>3. PICK i \in 1..Len(mailboxes[w]) : mailboxes[w][i] = m
    BY <1>1, <1>2, ToSetIs
<1>4. m \in MsgIds /\ sent[m] = w
    BY <1>3 DEF MailInv, MailboxInv
<1>5. ASSUME NEW c \in Clients, m \in Hand(c) PROVE FALSE
    <2>1. m < m
        BY <1>3, <1>4, <1>5 DEF MailInv, HandInv
    <2> QED
        BY <1>4, <2>1 DEF MsgIds
<1> QED
    BY <1>3, <1>4, <1>5

LEMMA InQueued ==
    ASSUME TypeOK, NEW w \in DOMAIN mailboxes, NEW i \in 1..Len(mailboxes[w])
    PROVE  mailboxes[w][i] \in Queued
<1>1. mailboxes[w] \in Seq(Nat)
    BY DEF TypeOK, RegistryTypeOK
<1>2. mailboxes[w][i] \in ToSet(mailboxes[w])
    BY <1>1, ToSetIs
<1> QED
    BY <1>2 DEF Queued

LEMMA HeldNotWritten ==
    ASSUME TypeOK, MailInv, NEW c \in Clients, NEW m \in Held(c)
    PROVE  m \notin Written(c)
<1>1. received[c] \in Seq(Nat)
    BY DEF TypeOK, LedgerTypeOK
<1>2. Written(c) = {received[c][i] : i \in 1..Len(received[c])}
    BY <1>1, ToSetIs DEF Written
<1> QED
    BY <1>2 DEF MailInv, ClientInv

LEMMA PlaceIs == TypeOK /\ MailInv => PlaceFacts
<1> SUFFICES ASSUME TypeOK, MailInv, NEW m \in MsgIds
             PROVE  /\ m \in Queued => MailPlace(m) = <<"queued">>
                    /\ \A c \in Clients : m \in Held(c) => MailPlace(m) = <<"held", c>>
                    /\ \A c \in Clients : m \in Written(c) => MailPlace(m) = <<"delivered", c>>
                    /\ m \notin Queued /\ (\A c \in Clients : m \notin Hand(c))
                        => MailPlace(m) = <<"lost">>
    BY DEF PlaceFacts
<1>1. ASSUME NEW p, Places(m) = {p} PROVE MailPlace(m) = p
    BY <1>1 DEF MailPlace
<1>2. ASSUME m \in Queued PROVE Places(m) = {<<"queued">>}
    <2>1. \A c \in Clients : m \notin Held(c) /\ m \notin Written(c)
        BY <1>2, QueuedIs DEF Hand
    <2> QED
        BY <1>2, <2>1 DEF Places
<1>3. ASSUME NEW c \in Clients, m \in Hand(c)
      PROVE  m \notin Queued /\ \A d \in Clients : d # c => m \notin Held(d) /\ m \notin Written(d)
    BY <1>3, QueuedIs DEF MailInv, DisjointInv, Hand
<1>4. ASSUME NEW c \in Clients, m \in Held(c) PROVE Places(m) = {<<"held", c>>}
    <2>1. m \notin Written(c)
        BY <1>4, HeldNotWritten
    <2> QED
        BY <1>3, <1>4, <2>1 DEF Places, Hand
<1>5. ASSUME NEW c \in Clients, m \in Written(c) PROVE Places(m) = {<<"delivered", c>>}
    <2>1. m \notin Held(c)
        BY <1>5, HeldNotWritten
    <2> QED
        BY <1>3, <1>5, <2>1 DEF Places, Hand
<1>6. ASSUME m \notin Queued, \A c \in Clients : m \notin Hand(c) PROVE Places(m) = {}
    BY <1>6 DEF Places, Hand
<1>7. Places(m) = {} => MailPlace(m) = <<"lost">>
    BY DEF MailPlace
<1> QED
    BY <1>1, <1>2, <1>4, <1>5, <1>6, <1>7

LEMMA PlaceIsNext == TypeOK' /\ MailInv' => PlaceFacts'
BY PlaceIs, PTL

\* A message in no place but one of the four.
LEMMA PlaceCases ==
    ASSUME NEW m
    PROVE  \/ m \in Queued
           \/ \E c \in Clients : m \in Held(c)
           \/ \E c \in Clients : m \in Written(c)
           \/ m \notin Queued /\ \A c \in Clients : m \notin Hand(c)
BY DEF Hand

-----------------------------------------------------------------------------
(* The steps of Mailboxes that a step of the broker is                     *)

Before == TypeOK /\ MailInv /\ PlaceFacts
After  == MsgIds' = MsgIds /\ MailInv' /\ TypeOK' /\ PlaceFacts'

\* Nothing moves.
LEMMA StutterStep ==
    ASSUME Before, After, sent' = sent, mailboxes' = mailboxes, received' = received,
           \A c \in Clients : Held(c)' = Held(c)
    PROVE  UNCHANGED Mail!vars
<1>1. Queued' = Queued
    BY DEF Queued
<1>2. \A c \in Clients : Written(c)' = Written(c)
    BY DEF Written
<1>3. ASSUME NEW m \in MsgIds PROVE MailPlace(m)' = MailPlace(m)
    BY <1>1, <1>2, PlaceCases DEF Before, After, PlaceFacts, Hand
<1>4. mailWhere' = mailWhere
    BY <1>3 DEF mailWhere, After
<1> QED
    BY <1>4 DEF Mail!vars

\* Workers are gone, and their mail with them.
LEMMA DiscardStep ==
    ASSUME Before, After, NEW S, sent' = sent, mailboxes' = Without(mailboxes, S),
           received' = received, \A c \in Clients : Held(c)' = Held(c)
    PROVE  \E gone \in SUBSET WorkerIds : Mail!Discard(gone)
<1> DEFINE gone == S \cap WorkerIds
<1>1. \A c \in Clients : Written(c)' = Written(c) /\ Hand(c)' = Hand(c)
    BY DEF Written, Hand
<1>2. \A m \in MsgIds : sent[m] \in WorkerIds
    BY DEF Before, TypeOK, LedgerTypeOK, MsgIds
<1>3. \A m \in Queued' : m \in Queued /\ sent[m] \notin S
    <2> SUFFICES ASSUME NEW m \in Queued' PROVE m \in Queued /\ sent[m] \notin S
        OBVIOUS
    <2>1. PICK w \in DOMAIN mailboxes' : m \in ToSet(mailboxes'[w])
        BY DEF Queued
    <2>2. w \in DOMAIN mailboxes /\ w \notin S /\ mailboxes'[w] = mailboxes[w]
        BY DEF Without
    <2>3. mailboxes[w] \in Seq(Nat)
        BY <2>2 DEF Before, TypeOK, RegistryTypeOK
    <2>4. PICK i \in 1..Len(mailboxes[w]) : mailboxes[w][i] = m
        BY <2>1, <2>2, <2>3, ToSetIs
    <2>5. sent[m] = w
        BY <2>2, <2>4 DEF Before, MailInv, MailboxInv
    <2> QED
        BY <2>1, <2>2, <2>5 DEF Queued
<1>4. ASSUME NEW m \in Queued, sent[m] \notin S PROVE m \in Queued'
    <2>1. sent[m] \in DOMAIN mailboxes /\ \E i \in 1..Len(mailboxes[sent[m]]) : mailboxes[sent[m]][i] = m
        BY QueuedIs DEF Before
    <2>2. sent[m] \in DOMAIN mailboxes' /\ mailboxes'[sent[m]] = mailboxes[sent[m]]
        BY <1>4, <2>1 DEF Without
    <2>3. mailboxes[sent[m]] \in Seq(Nat)
        BY <2>1 DEF Before, TypeOK, RegistryTypeOK
    <2>4. m \in ToSet(mailboxes'[sent[m]])
        BY <2>1, <2>2, <2>3, ToSetIs
    <2> QED
        BY <2>2, <2>4 DEF Queued
<1>5. ASSUME NEW m \in MsgIds
      PROVE  MailPlace(m)' = IF MailPlace(m) = <<"queued">> /\ sent[m] \in gone
                             THEN <<"lost">> ELSE MailPlace(m)
    <2>1. CASE m \in Queued
        <3>1. \A c \in Clients : m \notin Hand(c)
            BY <2>1, QueuedIs DEF Before
        <3> QED
            BY <1>1, <1>2, <1>3, <1>4, <2>1, <3>1 DEF Before, After, PlaceFacts
    <2>2. CASE m \notin Queued
        <3>1. m \notin Queued'
            BY <1>3, <2>2
        <3> QED
            BY <1>1, <2>2, <3>1, PlaceCases, PlacesDiffer DEF Before, After, PlaceFacts
    <2> QED
        BY <2>1, <2>2
<1>6. mailWhere' = Mail!Discarded(gone)
    BY <1>5 DEF mailWhere, After, Mail!Discarded, Mail!Queued, Mail!Lost
<1>7. Mail!Discard(gone)
    BY <1>6 DEF Mail!Discard
<1> QED
    BY <1>7

LEMMA AppendIs ==
    ASSUME NEW s \in Seq(Nat), NEW e \in Nat
    PROVE  /\ Len(s) \in Nat /\ Len(Append(s, e)) = Len(s) + 1
           /\ Append(s, e)[Len(s) + 1] = e
           /\ \A i \in 1..Len(s) : i \in 1..Len(Append(s, e)) /\ Append(s, e)[i] = s[i]
OBVIOUS

\* A message goes to a worker that is not among those found gone.
LEMMA PostStep ==
    ASSUME Before, TypeOK', MailInv', PlaceFacts', NEW to \in WorkerIds, NEW from, Send(to, from)
    PROVE  \E gone \in SUBSET WorkerIds : Mail!Post(to, gone)
<1>0. Len(sent) + 1 \in Nat
    BY DEF Before, TypeOK, LedgerTypeOK
<1> SUFFICES ASSUME NEW new \in Nat, new = Len(sent) + 1
             PROVE  \E gone \in SUBSET WorkerIds : Mail!Post(to, gone)
    BY <1>0
<1> DEFINE S == ExpiredIn(Renewed(workers, from))
           gone == S \cap WorkerIds
<1>1. /\ sent \in Seq(WorkerIds) /\ sent' = Append(sent, to) /\ to \notin S
      /\ task' = task /\ received' = received
      /\ mailboxes' = Put(MailboxesWithout(S), to, Append(Mailbox(to), new))
    BY DEF Send, CanReceive, Before, TypeOK, LedgerTypeOK, Enqueued
<1>2. /\ MsgIds' = MsgIds \cup {new} /\ sent'[new] = to /\ new \notin MsgIds
      /\ \A k \in MsgIds : sent'[k] = sent[k] /\ sent[k] \in WorkerIds
      /\ MsgIds' = 1 .. Len(sent) + 1
    BY <1>1 DEF MsgIds
<1>3. \A c \in Clients : Held(c)' = Held(c) /\ Written(c)' = Written(c) /\ Hand(c)' = Hand(c)
    BY <1>1 DEF Held, Written, Hand
<1>4. Mailbox(to) \in Seq(Nat) /\ (to \in DOMAIN mailboxes => Mailbox(to) = mailboxes[to])
    BY DEF Mailbox, Before, TypeOK, RegistryTypeOK
<1>5. /\ to \in DOMAIN mailboxes' /\ mailboxes'[to] = Append(Mailbox(to), new)
      /\ \A w \in DOMAIN mailboxes' \ {to} :
            w \in DOMAIN mailboxes /\ w \notin S /\ mailboxes'[w] = mailboxes[w]
      /\ \A w \in DOMAIN mailboxes \ S : w \in DOMAIN mailboxes'
    BY <1>1 DEF Put, MailboxesWithout, Without
<1>6. ASSUME NEW m \in Queued, sent[m] \notin S PROVE m \in Queued'
    <2> DEFINE w == sent[m]
    <2>1. w \in DOMAIN mailboxes /\ \E i \in 1..Len(mailboxes[w]) : mailboxes[w][i] = m
        BY QueuedIs DEF Before
    <2>2. mailboxes[w] \in Seq(Nat)
        BY <2>1 DEF Before, TypeOK, RegistryTypeOK
    <2>3. PICK i \in 1..Len(mailboxes[w]) : mailboxes[w][i] = m
        BY <2>1
    <2>4. w \in DOMAIN mailboxes' /\ i \in 1..Len(mailboxes'[w]) /\ mailboxes'[w][i] = m
        <3>1. CASE w = to
            <4>1. mailboxes'[w] = Append(mailboxes[w], new)
                BY <1>4, <1>5, <2>1, <3>1
            <4> QED
                BY <2>2, <2>3, <4>1, <1>5, <3>1, AppendIs
        <3>2. CASE w # to
            BY <1>5, <1>6, <2>1, <2>3, <3>2
        <3> QED
            BY <3>1, <3>2
    <2>5. mailboxes'[w] \in Seq(Nat)
        BY <2>4 DEF TypeOK, RegistryTypeOK
    <2>6. m \in ToSet(mailboxes'[w])
        BY <2>4, <2>5, ToSetIs
    <2> QED
        BY <2>4, <2>6 DEF Queued
<1>7. \A m \in Queued' : m = new \/ (m \in Queued /\ sent[m] \notin S)
    <2> SUFFICES ASSUME NEW m \in Queued' PROVE m = new \/ (m \in Queued /\ sent[m] \notin S)
        OBVIOUS
    <2>1. PICK w \in DOMAIN mailboxes' : m \in ToSet(mailboxes'[w])
        BY DEF Queued
    <2>2. mailboxes'[w] \in Seq(Nat)
        BY <2>1 DEF TypeOK, RegistryTypeOK
    <2>3. PICK i \in 1..Len(mailboxes'[w]) : mailboxes'[w][i] = m
        BY <2>1, <2>2, ToSetIs
    <2>4. CASE w # to
        <3>1. w \in DOMAIN mailboxes /\ w \notin S /\ i \in 1..Len(mailboxes[w]) /\ mailboxes[w][i] = m
            BY <1>5, <2>3, <2>4
        <3>2. sent[m] = w
            BY <3>1 DEF Before, MailInv, MailboxInv
        <3> QED
            BY <3>1, <3>2, InQueued DEF Before
    <2>5. CASE w = to
        <3>1. Len(Mailbox(to)) \in Nat /\ Len(mailboxes'[to]) = Len(Mailbox(to)) + 1
              /\ mailboxes'[to][Len(Mailbox(to)) + 1] = new
              /\ \A k \in 1..Len(Mailbox(to)) : mailboxes'[to][k] = Mailbox(to)[k]
            BY <1>4, <1>5, AppendIs
        <3>2. CASE i = Len(Mailbox(to)) + 1
            BY <2>3, <2>5, <3>1, <3>2
        <3>3. CASE i # Len(Mailbox(to)) + 1
            <4>1. i \in 1..Len(Mailbox(to)) /\ Mailbox(to)[i] = m
                BY <2>3, <2>5, <3>1, <3>3
            <4>2. to \in DOMAIN mailboxes /\ mailboxes[to][i] = m /\ i \in 1..Len(mailboxes[to])
                BY <4>1 DEF Mailbox
            <4>3. sent[m] = to
                BY <4>2 DEF Before, MailInv, MailboxInv
            <4> QED
                BY <1>1, <4>2, <4>3, InQueued DEF Before
        <3> QED
            BY <3>2, <3>3
    <2> QED
        BY <2>4, <2>5
<1>8. MailPlace(new)' = <<"queued">>
    <2>1. mailboxes'[to] \in Seq(Nat)
        BY <1>5 DEF TypeOK, RegistryTypeOK
    <2>2. \E i \in 1..Len(mailboxes'[to]) : mailboxes'[to][i] = new
        <3>1. Len(Mailbox(to)) \in Nat /\ Len(mailboxes'[to]) = Len(Mailbox(to)) + 1
              /\ mailboxes'[to][Len(Mailbox(to)) + 1] = new
            BY <1>4, <1>5, AppendIs
        <3>2. Len(Mailbox(to)) + 1 \in 1..Len(mailboxes'[to])
            BY <3>1
        <3> QED
            BY <3>1, <3>2
    <2>3. new \in ToSet(mailboxes'[to])
        BY <2>1, <2>2, ToSetIs
    <2>4. new \in Queued'
        BY <1>5, <2>3 DEF Queued
    <2> QED
        BY <1>2, <2>4 DEF PlaceFacts
<1>9. ASSUME NEW m \in MsgIds
      PROVE  MailPlace(m)' = IF MailPlace(m) = <<"queued">> /\ sent[m] \in gone
                             THEN <<"lost">> ELSE MailPlace(m)
    <2>1. CASE m \in Queued
        <3>1. \A c \in Clients : m \notin Hand(c)
            BY <2>1, QueuedIs DEF Before
        <3>2. m \in MsgIds' /\ m # new /\ sent[m] \in WorkerIds
            BY <1>2
        <3> QED
            BY <1>3, <1>6, <1>7, <2>1, <3>1, <3>2 DEF Before, PlaceFacts
    <2>2. CASE m \notin Queued
        <3>1. m \notin Queued' /\ m \in MsgIds'
            BY <1>2, <1>7, <2>2
        <3> QED
            BY <1>3, <2>2, <3>1, PlaceCases, PlacesDiffer DEF Before, PlaceFacts
    <2> QED
        BY <2>1, <2>2
<1>10. DOMAIN mailWhere = MsgIds /\ \A m \in MsgIds : mailWhere[m] = MailPlace(m)
    BY DEF mailWhere
<1>11. \A m \in MsgIds : Mail!Discarded(gone)[m] = MailPlace(m)'
    BY <1>9, <1>10 DEF Mail!Discarded, Mail!Queued, Mail!Lost
<1>12. mailWhere' = [m \in 1 .. Len(sent) + 1 |->
            IF m = Len(sent) + 1 THEN Mail!Queued ELSE Mail!Discarded(gone)[m]]
    BY <1>2, <1>8, <1>11 DEF mailWhere, Mail!Queued
<1>13. Mail!Post(to, gone)
    BY <1>1, <1>12 DEF Mail!Post
<1> QED
    BY <1>13

\* The oldest message of a mailbox goes into the hands of a connection that
\* held nothing.
LEMMA TakeStep ==
    ASSUME Before, After, NEW S, NEW c \in Clients, NEW w \in DOMAIN mailboxes \ S,
           mailboxes[w] # <<>>,
           mailboxes' = [Without(mailboxes, S) EXCEPT ![w] = Tail(mailboxes[w])],
           sent' = sent, received' = received,
           Held(c) = {}, Held(c)' = {Head(mailboxes[w])},
           \A d \in Clients \ {c} : Held(d)' = Held(d)
    PROVE  \E gone \in SUBSET WorkerIds : Mail!Take(c, gone)
<1>0. mailboxes[w] \in Seq(Nat)
    BY DEF Before, TypeOK, RegistryTypeOK
<1> SUFFICES ASSUME NEW h \in Nat, h = Head(mailboxes[w])
             PROVE  \E gone \in SUBSET WorkerIds : Mail!Take(c, gone)
    BY <1>0
<1> DEFINE gone == S \cap WorkerIds
<1>1. /\ Len(mailboxes[w]) \in Nat \ {0} /\ h = mailboxes[w][1]
      /\ Len(Tail(mailboxes[w])) = Len(mailboxes[w]) - 1
      /\ \A i \in 1..Len(Tail(mailboxes[w])) : Tail(mailboxes[w])[i] = mailboxes[w][i + 1]
    BY <1>0
<1>2. /\ w \in DOMAIN mailboxes' /\ mailboxes'[w] = Tail(mailboxes[w])
      /\ \A v \in DOMAIN mailboxes' \ {w} :
            v \in DOMAIN mailboxes /\ v \notin S /\ mailboxes'[v] = mailboxes[v]
      /\ \A v \in DOMAIN mailboxes \ S : v \in DOMAIN mailboxes'
    BY DEF Without
<1>3. h \in MsgIds /\ sent[h] = w /\ h \in Queued
    <2>1. 1 \in 1..Len(mailboxes[w])
        BY <1>1
    <2> QED
        BY <1>1, <2>1, InQueued DEF Before, MailInv, MailboxInv
<1>4. \A m \in MsgIds : sent[m] \in WorkerIds
    BY DEF Before, TypeOK, LedgerTypeOK, MsgIds
<1>5. /\ \A d \in Clients : Written(d)' = Written(d)
      /\ \A d \in Clients \ {c} : Hand(d)' = Hand(d)
      /\ Hand(c)' = Hand(c) \cup {h}
    BY DEF Written, Hand
<1>6. \A m \in Queued : sent[m] = w => m = h \/ h < m
    <2> SUFFICES ASSUME NEW m \in Queued, sent[m] = w PROVE m = h \/ h < m
        OBVIOUS
    <2>1. PICK i \in 1..Len(mailboxes[w]) : mailboxes[w][i] = m
        BY QueuedIs DEF Before
    <2>2. CASE i = 1
        BY <1>1, <2>1, <2>2
    <2>3. CASE i # 1
        <3>1. 1 \in 1..Len(mailboxes[w]) /\ 1 < i
            BY <1>1, <2>3
        <3>2. mailboxes[w][1] < mailboxes[w][i]
            BY <3>1 DEF Before, MailInv, MailboxInv
        <3> QED
            BY <1>1, <2>1, <3>2
    <2> QED
        BY <2>2, <2>3
<1>7. \A m \in Queued' : m # h /\ m \in Queued /\ sent[m] \notin S
    <2> SUFFICES ASSUME NEW m \in Queued' PROVE m # h /\ m \in Queued /\ sent[m] \notin S
        OBVIOUS
    <2>1. PICK v \in DOMAIN mailboxes' : m \in ToSet(mailboxes'[v])
        BY DEF Queued
    <2>2. mailboxes'[v] \in Seq(Nat)
        BY <2>1 DEF After, TypeOK, RegistryTypeOK
    <2>3. PICK i \in 1..Len(mailboxes'[v]) : mailboxes'[v][i] = m
        BY <2>1, <2>2, ToSetHas
    <2>4. CASE v # w
        <3>1. v \in DOMAIN mailboxes /\ v \notin S /\ i \in 1..Len(mailboxes[v]) /\ mailboxes[v][i] = m
            BY <1>2, <2>3, <2>4
        <3>2. sent[m] = v
            BY <3>1 DEF Before, MailInv, MailboxInv
        <3> QED
            BY <1>3, <2>4, <3>1, <3>2, InQueued DEF Before
    <2>5. CASE v = w
        <3>1. i + 1 \in 1..Len(mailboxes[w]) /\ 1 \in 1..Len(mailboxes[w]) /\ 1 < i + 1
              /\ mailboxes[w][i + 1] = m
            BY <1>1, <1>2, <2>3, <2>5
        <3>2. sent[m] = w /\ mailboxes[w][1] < m
            BY <3>1 DEF Before, MailInv, MailboxInv
        <3> QED
            BY <1>1, <3>1, <3>2, InQueued DEF Before
    <2> QED
        BY <2>4, <2>5
<1>8. ASSUME NEW m \in Queued, m # h, sent[m] \notin S PROVE m \in Queued'
    <2> DEFINE v == sent[m]
    <2>1. v \in DOMAIN mailboxes /\ \E i \in 1..Len(mailboxes[v]) : mailboxes[v][i] = m
        BY QueuedIs DEF Before
    <2>2. PICK i \in 1..Len(mailboxes[v]) : mailboxes[v][i] = m
        BY <2>1
    <2>3. v \in DOMAIN mailboxes'
        BY <1>2, <1>8, <2>1
    <2>4. \E j \in 1..Len(mailboxes'[v]) : mailboxes'[v][j] = m
        <3>1. CASE v = w
            <4>1. i # 1 /\ i \in 1..Len(mailboxes[w])
                BY <1>1, <1>8, <2>2, <3>1
            <4>2. i - 1 \in 1..Len(Tail(mailboxes[w])) /\ i - 1 + 1 = i
                BY <1>1, <4>1
            <4>3. Tail(mailboxes[w])[i - 1] = m
                BY <1>1, <2>2, <3>1, <4>2
            <4> QED
                BY <1>2, <3>1, <4>2, <4>3
        <3>2. CASE v # w
            BY <1>2, <2>2, <2>3, <3>2
        <3> QED
            BY <3>1, <3>2
    <2>5. mailboxes'[v] \in Seq(Nat)
        BY <2>3 DEF After, TypeOK, RegistryTypeOK
    <2>6. m \in ToSet(mailboxes'[v])
        BY <2>4, <2>5, ToSetHas
    <2> QED
        BY <2>3, <2>6 DEF Queued
<1>9. MailPlace(h)' = <<"held", c>>
    BY <1>3 DEF After, PlaceFacts
<1>10. ASSUME NEW m \in MsgIds, m # h
       PROVE  MailPlace(m)' = IF MailPlace(m) = <<"queued">> /\ sent[m] \in gone
                              THEN <<"lost">> ELSE MailPlace(m)
    <2>1. CASE m \in Queued
        <3>1. \A d \in Clients : m \notin Hand(d) /\ m \notin Hand(d)'
            BY <1>5, <1>10, <2>1, QueuedIs DEF Before
        <3> QED
            BY <1>4, <1>7, <1>8, <1>10, <2>1, <3>1 DEF Before, After, PlaceFacts
    <2>2. CASE m \notin Queued
        <3>1. m \notin Queued'
            BY <1>7, <2>2
        <3>2. \A d \in Clients : /\ m \in Held(d) => m \in Held(d)'
                                 /\ m \in Written(d) => m \in Written(d)'
                                 /\ m \notin Hand(d) => m \notin Hand(d)'
            BY <1>5, <1>10
        <3> QED
            BY <2>2, <3>1, <3>2, PlaceCases, PlacesDiffer DEF Before, After, PlaceFacts
    <2> QED
        BY <2>1, <2>2
<1>11. DOMAIN mailWhere = MsgIds /\ \A m \in MsgIds : mailWhere[m] = MailPlace(m)
    BY DEF mailWhere
<1>12. mailWhere' = [Mail!Discarded(gone) EXCEPT ![h] = Mail!HeldBy(c)]
    BY <1>3, <1>9, <1>10, <1>11 DEF mailWhere, After, Mail!Discarded, Mail!Queued, Mail!Lost, Mail!HeldBy
<1>13. ASSUME NEW m \in MsgIds PROVE MailPlace(m) # <<"held", c>>
    BY PlaceCases, PlacesDiffer DEF Before, PlaceFacts
<1>14. Mail!Oldest(h)
    <2>1. MailPlace(h) = <<"queued">>
        BY <1>3 DEF Before, PlaceFacts
    <2>2. ASSUME NEW k \in MsgIds, k < h, sent[k] = sent[h] PROVE MailPlace(k) # <<"queued">>
        <3>1. k \in Nat
            BY DEF MsgIds
        <3>2. k \notin Queued
            BY <1>3, <1>6, <2>2, <3>1
        <3> QED
            BY <3>2, PlaceCases, PlacesDiffer DEF Before, PlaceFacts
    <2> QED
        BY <1>3, <1>11, <2>1, <2>2 DEF Mail!Oldest, Mail!Queued
<1>15. \A m \in DOMAIN mailWhere : mailWhere[m] # Mail!HeldBy(c)
    BY <1>11, <1>13 DEF Mail!HeldBy
<1>16. h \in DOMAIN mailWhere /\ sent[h] \notin gone
    BY <1>3, <1>11
<1>17. Mail!Take(c, gone)
    BY <1>12, <1>14, <1>15, <1>16 DEF Mail!Take
<1> QED
    BY <1>17

\* The response with a message is written, or it is not.
LEMMA EndStep ==
    ASSUME Before, After, NEW c \in Clients, NEW m, Held(c) = {m}, Held(c)' = {},
           sent' = sent, mailboxes' = mailboxes,
           \A d \in Clients \ {c} : Held(d)' = Held(d) /\ Written(d)' = Written(d)
    PROVE  /\ Written(c)' = Written(c) \cup {m} => Mail!Deliver(c)
           /\ Written(c)' = Written(c) => Mail!Drop(c)
<1>1. m \in MsgIds /\ m \in Hand(c)
    BY DEF Before, MailInv, HandInv, Hand
<1>2. Queued' = Queued
    BY DEF Queued
<1>3. m \notin Queued /\ m \notin Written(c) /\ MailPlace(m) = <<"held", c>>
    BY <1>1, QueuedIs, HeldNotWritten DEF Before, PlaceFacts
<1>4. \A d \in Clients \ {c} : m \notin Hand(d) /\ Hand(d)' = Hand(d)
    BY <1>1 DEF Before, MailInv, DisjointInv, Hand
<1>5. ASSUME NEW k \in MsgIds, k # m, Written(c)' \in {Written(c), Written(c) \cup {m}}
      PROVE  MailPlace(k)' = MailPlace(k)
    <2>1. \A d \in Clients : /\ k \in Held(d) <=> k \in Held(d)'
                             /\ k \in Written(d) <=> k \in Written(d)'
                             /\ k \in Hand(d) <=> k \in Hand(d)'
        BY <1>5 DEF Hand
    <2> QED
        BY <1>2, <2>1, PlaceCases DEF Before, After, PlaceFacts
<1>6. DOMAIN mailWhere = MsgIds /\ \A k \in MsgIds : mailWhere[k] = MailPlace(k)
    BY DEF mailWhere
<1>7. ASSUME Written(c)' = Written(c) \cup {m} PROVE Mail!Deliver(c)
    <2>1. MailPlace(m)' = <<"delivered", c>>
        BY <1>1, <1>7 DEF After, PlaceFacts
    <2>2. mailWhere' = [mailWhere EXCEPT ![m] = <<"delivered", c>>]
        BY <1>1, <1>5, <1>6, <1>7, <2>1 DEF mailWhere, After
    <2> QED
        BY <1>1, <1>3, <1>6, <2>2 DEF Mail!Deliver, Mail!HeldBy, Mail!DeliveredTo
<1>8. ASSUME Written(c)' = Written(c) PROVE Mail!Drop(c)
    <2>1. \A d \in Clients : m \notin Hand(d)'
        BY <1>3, <1>4, <1>8 DEF Hand
    <2>2. MailPlace(m)' = <<"lost">>
        BY <1>1, <1>2, <1>3, <2>1 DEF After, PlaceFacts
    <2>3. mailWhere' = [mailWhere EXCEPT ![m] = <<"lost">>]
        BY <1>1, <1>5, <1>6, <1>8, <2>2 DEF mailWhere, After
    <2> QED
        BY <1>1, <1>3, <1>6, <2>3 DEF Mail!Drop, Mail!HeldBy, Mail!Lost
<1> QED
    BY <1>7, <1>8

-----------------------------------------------------------------------------
(* Every step of the broker is one of them                                 *)

\* A handler holds no message before it has popped one.
WaitingInv ==
    \A c \in Clients :
        task[c].pc \in {"idle", "polling", "waiting", "elapsed", "woken"} => task[c].msg = NoMsg

LEMMA HandlerWaiting ==
    ASSUME TypeOK, WaitingInv, NEW c \in Clients, HandlerStep(c)
    PROVE  WaitingInv'
<1>1. task \in [Clients -> Task] /\ task[c] \in Task
    BY DEF TypeOK, ListenTypeOK
<1>2. CASE CountImmediate(c) \/ TimedOut(c) \/ SpuriousWake(c)
    BY <1>1, <1>2 DEF CountImmediate, TimedOut, SpuriousWake, Reply, WaitingInv, Task, Idle
<1>3. CASE PopAfterWake(c)
    BY <1>1, <1>3 DEF PopAfterWake, Reply, WaitingInv, Task, Idle
<1>4. CASE WriteResponse(c) \/ WriteFails(c)
    BY <1>1, <1>4 DEF WriteResponse, WriteFails, WaitingInv, Idle
<1>5. CASE NotifiedReady(c) \/ TimerElapsed(c)
    BY <1>1, <1>5 DEF NotifiedReady, TimerElapsed, WaitingInv, Task, Idle
<1>6. CASE PollNotified(c)
    <2>1. task[c].pc = "polling" /\ \E p \in {"woken", "waiting"} : task' = [task EXCEPT ![c].pc = p]
        BY <1>6 DEF PollNotified
    <2> QED
        BY <1>1, <2>1 DEF WaitingInv, Task, Idle
<1> QED
    BY <1>2, <1>3, <1>4, <1>5, <1>6 DEF HandlerStep

LEMMA NextWaiting == TypeOK /\ WaitingInv /\ [Next]_vars => WaitingInv'
<1> SUFFICES ASSUME TypeOK, WaitingInv, [Next]_vars PROVE WaitingInv'
    OBVIOUS
<1>1. task \in [Clients -> Task]
    BY DEF TypeOK, ListenTypeOK
<1>2. CASE task' = task
    BY <1>2 DEF WaitingInv
<1>3. ASSUME NEW c \in Clients, NEW w \in WorkerIds, Listen(c, w) PROVE WaitingInv'
    BY <1>1, <1>2, <1>3 DEF Listen, ListenRejected, ListenImmediate, ListenEmpty, WaitingInv
<1> QED
    BY <1>2, <1>3, HandlerWaiting DEF Next, vars, Tick, EvictExpired, Register, PreRegister,
        RegisterCollision, RemoveWorker, Team, ClearStatus, Heartbeat, Ack, Send, SendRejected

LEMMA WaitingCorrect == Spec => []WaitingInv
<1>1. Init => WaitingInv
    BY DEF Init, WaitingInv, Idle
<1> QED
    BY <1>1, NextWaiting, TypeCorrect, PTL DEF Spec

\* A step that removes workers, or nothing, and moves no message.
LEMMA RequestStep ==
    ASSUME TypeOK, MailInv, TypeOK', MailInv', NEW S, mailboxes' = MailboxesWithout(S),
           sent' = sent, received' = received, \A c \in Clients : Held(c)' = Held(c)
    PROVE  Mail!Next
<1>1. Before /\ After
    BY PlaceIs, PlaceIsNext DEF Before, After, MsgIds
<1> QED
    BY <1>1, DiscardStep DEF MailboxesWithout, Mail!Next

LEMMA QuietStep ==
    ASSUME TypeOK, MailInv, TypeOK', MailInv', mailboxes' = mailboxes,
           sent' = sent, received' = received, \A c \in Clients : Held(c)' = Held(c)
    PROVE  UNCHANGED Mail!vars
<1>1. Before /\ After
    BY PlaceIs, PlaceIsNext DEF Before, After, MsgIds
<1> QED
    BY <1>1, StutterStep

LEMMA ListenRefines ==
    ASSUME TypeOK, MailInv, TypeOK', MailInv', WaitingInv,
           NEW c \in Clients, NEW w \in WorkerIds, Listen(c, w)
    PROVE  Mail!Next
<1>1. task \in [Clients -> Task]
    BY DEF TypeOK, ListenTypeOK
<1>2. CASE ListenRejected(c, w)
    <2>1. \A d \in Clients : Held(d)' = Held(d)
        BY <1>2 DEF ListenRejected, Held
    <2> QED
        BY <1>2, <2>1, RequestStep DEF ListenRejected, RemoveWorkers
<1>3. CASE ListenEmpty(c, w)
    <2>1. \A d \in Clients : Held(d)' = Held(d)
        BY <1>1, <1>3 DEF ListenEmpty, Held, Idle
    <2> QED
        BY <1>3, <2>1, RequestStep DEF ListenEmpty
<1>4. CASE ListenImmediate(c, w)
    <2>1. /\ w \in DOMAIN mailboxes /\ mailboxes[w] # <<>> /\ Mailbox(w) = mailboxes[w]
          /\ Head(mailboxes[w]) \in Nat \ {NoMsg}
        BY <1>4, HeadMail DEF ListenImmediate
    <2>2. w \notin Expired
        BY <1>4 DEF ListenImmediate, Live
    <2>3. mailboxes' = [Without(mailboxes, Expired) EXCEPT ![w] = Tail(mailboxes[w])]
        BY <1>4, <2>1, <2>2 DEF ListenImmediate, MailboxesWithout, Without, Popped
    <2>4. /\ sent' = sent /\ received' = received /\ task[c] = Idle
          /\ task'[c].msg = Head(mailboxes[w])
          /\ \A d \in Clients \ {c} : task'[d] = task[d]
        BY <1>1, <1>4, <2>1 DEF ListenImmediate
    <2>5. Held(c) = {} /\ Held(c)' = {Head(mailboxes[w])} /\ \A d \in Clients \ {c} : Held(d)' = Held(d)
        <3>1. task[c].msg = NoMsg
            BY <2>4 DEF Idle
        <3> QED
            BY <2>1, <2>4, <3>1 DEF Held
    <2>6. Before /\ After
        BY <2>4, PlaceIs, PlaceIsNext DEF Before, After, MsgIds
    <2>7. \E gone \in SUBSET WorkerIds : Mail!Take(c, gone)
        BY <2>1, <2>2, <2>3, <2>4, <2>5, <2>6, TakeStep
    <2> QED
        BY <2>7 DEF Mail!Next
<1> QED
    BY <1>2, <1>3, <1>4 DEF Listen

LEMMA HandlerRefines ==
    ASSUME TypeOK, MailInv, TypeOK', MailInv', WaitingInv, NEW c \in Clients, HandlerStep(c)
    PROVE  Mail!Next \/ UNCHANGED Mail!vars
<1>1. task \in [Clients -> Task] /\ task[c] \in Task /\ received \in [Clients -> Seq(Nat)]
    BY DEF TypeOK, ListenTypeOK, LedgerTypeOK
<1>2. ASSUME mailboxes' = mailboxes, sent' = sent, received' = received,
             task'[c].msg = task[c].msg,
             \A d \in Clients \ {c} : task'[d] = task[d]
      PROVE  UNCHANGED Mail!vars
    <2>1. \A d \in Clients : Held(d)' = Held(d)
        BY <1>2 DEF Held
    <2> QED
        BY <1>2, <2>1, QuietStep
<1>3. CASE CountImmediate(c)
    BY <1>1, <1>2, <1>3 DEF CountImmediate, Reply, registry, Task, Idle
<1>4. CASE PollNotified(c)
    <2>1. \E p \in {"woken", "waiting"} : task' = [task EXCEPT ![c].pc = p]
        BY <1>4 DEF PollNotified
    <2>2. task'[c].msg = task[c].msg /\ \A d \in Clients \ {c} : task'[d] = task[d]
        BY <1>1, <2>1 DEF Task, Idle
    <2> QED
        BY <1>2, <1>4, <2>2 DEF PollNotified, registry
<1>5. CASE NotifiedReady(c) \/ TimerElapsed(c)
    BY <1>1, <1>2, <1>5 DEF NotifiedReady, TimerElapsed, registry, Task, Idle
<1>6. CASE TimedOut(c) \/ SpuriousWake(c)
    <2>1. task[c].msg = NoMsg
        BY <1>6 DEF TimedOut, SpuriousWake, WaitingInv
    <2>2. task'[c].msg = NoMsg /\ \A d \in Clients \ {c} : task'[d] = task[d]
        BY <1>1, <1>6 DEF TimedOut, SpuriousWake, Reply, Task, Idle
    <2> QED
        BY <1>2, <1>6, <2>1, <2>2 DEF TimedOut, SpuriousWake, registry
<1>7. CASE PopAfterWake(c)
    <2> DEFINE w == task[c].worker
    <2>1. /\ w \in DOMAIN mailboxes /\ mailboxes[w] # <<>> /\ Mailbox(w) = mailboxes[w]
          /\ Head(mailboxes[w]) \in Nat \ {NoMsg}
        BY <1>7, HeadMail DEF PopAfterWake
    <2>2. Without(mailboxes, {}) = mailboxes
        BY DEF Without, TypeOK, RegistryTypeOK
    <2>3. mailboxes' = [Without(mailboxes, {}) EXCEPT ![w] = Tail(mailboxes[w])]
        BY <1>7, <2>2 DEF PopAfterWake, Popped
    <2>4. /\ sent' = sent /\ received' = received /\ task[c].pc = "woken"
          /\ task'[c].msg = Head(mailboxes[w])
          /\ \A d \in Clients \ {c} : task'[d] = task[d]
        BY <1>1, <1>7, <2>1 DEF PopAfterWake, Reply, Task, Idle
    <2>5. Held(c) = {} /\ Held(c)' = {Head(mailboxes[w])} /\ \A d \in Clients \ {c} : Held(d)' = Held(d)
        BY <2>1, <2>4 DEF Held, WaitingInv
    <2>6. Before /\ After
        BY <2>4, PlaceIs, PlaceIsNext DEF Before, After, MsgIds
    <2>7. w \in DOMAIN mailboxes \ {}
        BY <2>1
    <2>8. \E gone \in SUBSET WorkerIds : Mail!Take(c, gone)
        BY <2>1, <2>3, <2>4, <2>5, <2>6, <2>7, TakeStep
    <2> QED
        BY <2>8 DEF Mail!Next
<1>8. CASE WriteResponse(c) \/ WriteFails(c)
    <2>1. /\ sent' = sent /\ mailboxes' = mailboxes /\ task'[c].msg = NoMsg
          /\ \A d \in Clients \ {c} : task'[d] = task[d] /\ received'[d] = received[d]
          /\ \/ received' = received
             \/ /\ task[c].msg # NoMsg
                /\ received'[c] = Append(received[c], task[c].msg)
        BY <1>1, <1>8 DEF WriteResponse, WriteFails, registry, Idle
    <2>2. CASE task[c].msg = NoMsg
        BY <1>2, <2>1, <2>2
    <2>3. CASE task[c].msg # NoMsg
        <3> SUFFICES ASSUME NEW m \in Nat, m = task[c].msg, m # NoMsg PROVE Mail!Next
            BY <1>1, <2>3 DEF Task, Idle
        <3>1. Held(c) = {m} /\ Held(c)' = {}
            BY <2>1 DEF Held
        <3>2. \A d \in Clients \ {c} : Held(d)' = Held(d) /\ Written(d)' = Written(d)
            BY <2>1 DEF Held, Written
        <3>3. Before /\ After
            BY <2>1, PlaceIs, PlaceIsNext DEF Before, After, MsgIds
        <3>4. CASE received' = received
            <4>1. Written(c)' = Written(c)
                BY <3>4 DEF Written
            <4>2. Mail!Drop(c)
                BY <2>1, <3>1, <3>2, <3>3, <4>1, EndStep
            <4> QED
                BY <4>2 DEF Mail!Next
        <3>5. CASE received'[c] = Append(received[c], m)
            <4>1. received[c] \in Seq(Nat) /\ received'[c] \in Seq(Nat)
                BY <1>1 DEF TypeOK, LedgerTypeOK
            <4>2. \A k : k \in Written(c)' <=> k \in Written(c) \cup {m}
                <5>1. \A k : k \in ToSet(received[c]) <=> \E i \in 1..Len(received[c]) : received[c][i] = k
                    BY <4>1, ToSetHas
                <5>2. \A k : k \in ToSet(received'[c]) <=>
                            \E i \in 1..Len(received'[c]) : received'[c][i] = k
                    BY <4>1, ToSetHas
                <5>3. /\ Len(received[c]) \in Nat /\ Len(received'[c]) = Len(received[c]) + 1
                      /\ received'[c][Len(received[c]) + 1] = m
                      /\ \A i \in 1..Len(received[c]) :
                            i \in 1..Len(received'[c]) /\ received'[c][i] = received[c][i]
                    BY <3>5, <4>1, AppendIs
                <5>4. \A i \in 1..Len(received'[c]) : i \in 1..Len(received[c]) \/ i = Len(received[c]) + 1
                    BY <5>3
                <5>5. Len(received[c]) + 1 \in 1..Len(received'[c])
                    BY <5>3
                <5> QED
                    BY <5>1, <5>2, <5>3, <5>4, <5>5 DEF Written
            <4>3. Written(c)' = Written(c) \cup {m}
                BY <4>2
            <4>4. Mail!Deliver(c)
                BY <2>1, <3>1, <3>2, <3>3, <4>3, EndStep
            <4> QED
                BY <4>4 DEF Mail!Next
        <3> QED
            BY <2>1, <3>4, <3>5
    <2> QED
        BY <2>2, <2>3
<1> QED
    BY <1>3, <1>4, <1>5, <1>6, <1>7, <1>8 DEF HandlerStep

LEMMA StepRefines ==
    TypeOK /\ MailInv /\ WaitingInv /\ TypeOK' /\ MailInv' /\ [Next]_vars => [Mail!Next]_(Mail!vars)
<1> SUFFICES ASSUME TypeOK, MailInv, WaitingInv, TypeOK', MailInv', [Next]_vars
             PROVE  Mail!Next \/ UNCHANGED Mail!vars
    OBVIOUS
<1>1. CASE Tick \/ UNCHANGED vars
    <2>1. /\ mailboxes' = mailboxes /\ sent' = sent /\ received' = received
          /\ \A c \in Clients : Held(c)' = Held(c)
        BY <1>1 DEF Tick, vars, registry, Held
    <2> QED
        BY <2>1, QuietStep
<1>2. ASSUME NEW S, mailboxes' = MailboxesWithout(S), sent' = sent, received' = received, task' = task
      PROVE  Mail!Next
    <2>1. \A c \in Clients : Held(c)' = Held(c)
        BY <1>2 DEF Held
    <2> QED
        BY <1>2, <2>1, RequestStep
<1>3. CASE EvictExpired
    BY <1>2, <1>3 DEF EvictExpired, RemoveWorkers
<1>4. ASSUME NEW reg \in Registrations, Register(reg) \/ PreRegister(reg)
      PROVE  Mail!Next
    <2>1. /\ \E w : RegisterWorker(reg, w)
          /\ sent' = sent /\ received' = received /\ task' = task
        BY <1>4 DEF Register, PreRegister
    <2>2. \E S : mailboxes' = MailboxesWithout(S)
        BY <2>1 DEF RegisterWorker, Claim, Insert
    <2> QED
        BY <1>2, <2>1, <2>2
<1>5. ASSUME NEW reg \in Registrations, RegisterCollision(reg)
      PROVE  Mail!Next
    BY <1>2, <1>5 DEF RegisterCollision, RemoveWorkers
<1>6. ASSUME NEW w \in WorkerIds, RemoveWorker(w)
      PROVE  Mail!Next
    BY <1>2, <1>6 DEF RemoveWorker, RemoveWorkers
<1>7. ASSUME NEW from, Team(from)
      PROVE  Mail!Next
    BY <1>2, <1>7 DEF Team
<1>8. ASSUME NEW w \in WorkerIds, ClearStatus(w)
      PROVE  Mail!Next
    BY <1>2, <1>8 DEF ClearStatus
<1>9. ASSUME NEW w \in WorkerIds, NEW s \in Statuses \cup {None}, Heartbeat(w, s)
      PROVE  Mail!Next
    BY <1>2, <1>9 DEF Heartbeat
<1>10. ASSUME NEW w \in WorkerIds, NEW m \in MsgIds, Ack(w, m)
       PROVE  Mail!Next
    BY <1>2, <1>10 DEF Ack, RemoveWorkers
<1>11. ASSUME NEW w \in WorkerIds, NEW from, Send(w, from)
       PROVE  Mail!Next
    <2>1. Before /\ PlaceFacts'
        BY PlaceIs, PlaceIsNext DEF Before
    <2>2. \E gone \in SUBSET WorkerIds : Mail!Post(w, gone)
        BY <1>11, <2>1, PostStep
    <2> QED
        BY <2>2 DEF Mail!Next
<1> QED
    BY <1>1, <1>3, <1>4, <1>5, <1>6, <1>7, <1>8, <1>9, <1>10, <1>11, ListenRefines,
        HandlerRefines DEF Next, SendRejected

LEMMA InitRefines == Init => Mail!Init
BY DEF Init, Mail!Init, mailWhere, MsgIds

\* The broker implements at-most-once mail in order: whatever requests,
\* evictions, listeners and failing connections do, each message goes from its
\* queue to one connection's hands to its client, or is lost on the way.
THEOREM ImplementsMailboxesHolds == Spec => ImplementsMailboxes
<1>1. Spec => [](TypeOK /\ MailInv /\ WaitingInv)
    BY TypeCorrect, MailCorrect, WaitingCorrect, PTL
<1> QED
    BY <1>1, InitRefines, StepRefines, PTL DEF Spec, ImplementsMailboxes, Mail!Spec
=============================================================================
