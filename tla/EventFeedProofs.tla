--------------------------- MODULE EventFeedProofs ---------------------------
(***************************************************************************)
(* A query answers the newest matching entries of a history, for every     *)
(* history, filter and limit, and a user who follows the log misses        *)
(* nothing that is recorded, for all bounds of histories and channel.      *)
(***************************************************************************)
EXTENDS EventFeed, SequenceTheorems, FiniteSetTheorems, WellFoundedInduction, TLAPS

(* Queries.                                                                *)

\* Every set of numbers has a least element: the induction that follows uses
\* it for the set of numbers without the property.
LEMMA Least ==
    ASSUME NEW T, T \subseteq Nat, T # {}
    PROVE  \E n \in T : \A m \in T : n <= m
<1> DEFINE R == OpToRel(<, Nat)
<1>1. \E n \in T : \A m \in T : ~ (<<m, n>> \in R)
  BY NatLessThanWellFounded, WFMin
<1>2. \A m, n \in Nat : m < n => <<m, n>> \in R
  BY DEF OpToRel
<1> HIDE DEF R
<1>3. \E n \in T : \A m \in T : ~ (m < n)
  BY <1>1, <1>2, Zenon
<1>4. \A m, n \in Nat : ~ (m < n) => n <= m
  OBVIOUS
<1> QED
  BY <1>3, <1>4

\* f is the function that Backwards defines, up to n.
Follows(f, n, history, matching) ==
    f = [i \in 0 .. n |->
            IF i = 0 THEN <<>>
            ELSE IF i \in matching THEN <<history[i]>> \o f[i - 1] ELSE f[i - 1]]

\* There is such a function.
LEMMA FollowsExists ==
    ASSUME NEW h, NEW matching, NEW n \in Nat
    PROVE  \E f : Follows(f, n, h, matching)
<1> DEFINE T == {k \in Nat : ~ \E f : Follows(f, k, h, matching)}
<1> SUFFICES ASSUME T # {} PROVE FALSE
  OBVIOUS
<1>1. PICK k \in T : \A m \in T : k <= m
  BY Least
<1>2. CASE k = 0
  <2>1. Follows([i \in 0 .. 0 |-> <<>>], 0, h, matching)
    BY DEF Follows
  <2> QED
    BY <1>1, <1>2, <2>1
<1>3. CASE k # 0
  <2>1. k \in Nat /\ k - 1 \in Nat /\ k - 1 \notin T
    BY <1>1, <1>3
  <2>2. PICK f : Follows(f, k - 1, h, matching)
    BY <2>1
  <2> DEFINE last == IF k \in matching THEN <<h[k]>> \o f[k - 1] ELSE f[k - 1]
             g == [i \in 0 .. k |-> IF i = k THEN last ELSE f[i]]
  <2>3. ASSUME NEW i \in 0 .. k
        PROVE  g[i] = IF i = 0 THEN <<>>
                      ELSE IF i \in matching THEN <<h[i]>> \o g[i - 1] ELSE g[i - 1]
    <3>1. CASE i = k
      <4>1. g[k] = last /\ g[k - 1] = f[k - 1]
        BY <2>1
      <4> QED
        BY <1>3, <3>1, <4>1
    <3>2. CASE i # k
      <4>1. i \in 0 .. k - 1 /\ g[i] = f[i] /\ (i # 0 => g[i - 1] = f[i - 1])
        BY <2>1, <3>2
      <4> HIDE DEF g
      <4> QED
        BY <2>1, <2>2, <4>1 DEF Follows
    <3> QED
      BY <3>1, <3>2
  <2>4. Follows(g, k, h, matching)
    <3> HIDE DEF last
    <3> QED
      BY <2>3 DEF Follows
  <2> QED
    BY <1>1, <2>4
<1> QED
  BY <1>2, <1>3

\* The matching positions up to n, and those from i on.
UpTo(matching, n) == {i \in 1 .. n : i \in matching}
From(matching, n, i) == {j \in UpTo(matching, n) : j >= i}

\* b has the entries at the matching positions up to n, newest first.
NewestFirst(b, h, matching, n) ==
    /\ Len(b) = Cardinality(UpTo(matching, n))
    /\ \A i \in UpTo(matching, n) :
        LET k == Cardinality(From(matching, n, i))
        IN  k \in 1 .. Len(b) /\ b[k] = h[i]
    /\ \A k \in 1 .. Len(b) :
        \E i \in UpTo(matching, n) : b[k] = h[i] /\ Cardinality(From(matching, n, i)) = k

\* Sets of positions are finite.
LEMMA UpToFinite ==
    ASSUME NEW matching, NEW n \in Nat
    PROVE  /\ IsFiniteSet(UpTo(matching, n)) /\ Cardinality(UpTo(matching, n)) \in Nat
           /\ \A i : /\ IsFiniteSet(From(matching, n, i))
                     /\ Cardinality(From(matching, n, i)) \in Nat
<1>1. IsFiniteSet(1 .. n)
  BY FS_Interval
<1>2. UpTo(matching, n) \subseteq 1 .. n /\ \A i : From(matching, n, i) \subseteq 1 .. n
  BY DEF UpTo, From
<1> QED
  BY <1>1, <1>2, FS_Subset, FS_CardinalityType

\* One more entry, which matches or not.
LEMMA OneMoreEntry ==
    ASSUME NEW S, NEW h \in Seq(S), NEW matching, NEW n \in 1 .. Len(h), NEW b \in Seq(S),
           NewestFirst(b, h, matching, n - 1)
    PROVE  /\ n \notin matching => NewestFirst(b, h, matching, n)
           /\ n \in matching => NewestFirst(<<h[n]>> \o b, h, matching, n)
<1>1. n \in Nat /\ n - 1 \in Nat /\ h[n] \in S
  BY LenProperties, ElementOfSeq
<1>2. ASSUME n \notin matching
      PROVE  /\ UpTo(matching, n) = UpTo(matching, n - 1)
             /\ \A i : From(matching, n, i) = From(matching, n - 1, i)
  BY <1>1, <1>2 DEF UpTo, From
<1>3. ASSUME n \in matching
      PROVE  NewestFirst(<<h[n]>> \o b, h, matching, n)
  <2> DEFINE c == <<h[n]>> \o b
             M == UpTo(matching, n - 1)
  <2>1. /\ c \in Seq(S) /\ Len(c) = Len(b) + 1 /\ Len(b) \in Nat
        /\ c[1] = h[n] /\ \A k \in 1 .. Len(b) : c[k + 1] = b[k]
        /\ \A k \in 2 .. Len(c) : k - 1 \in 1 .. Len(b) /\ c[k] = b[k - 1]
    BY <1>1
  <2>2. UpTo(matching, n) = M \cup {n} /\ n \notin M /\ M \subseteq 1 .. n - 1
    BY <1>1, <1>3 DEF UpTo
  <2>3. Len(c) = Cardinality(UpTo(matching, n))
    <3>1. IsFiniteSet(M) /\ Len(b) = Cardinality(M)
      BY <1>1, UpToFinite DEF NewestFirst
    <3>2. Cardinality(M \cup {n}) = Cardinality(M) + 1
      BY <2>2, <3>1, FS_AddElement
    <3> HIDE DEF c, M
    <3> QED
      BY <2>1, <2>2, <3>1, <3>2
  <2>4. Cardinality(From(matching, n, n)) = 1
    <3>1. From(matching, n, n) = {n}
      BY <1>1, <2>2 DEF From
    <3> QED
      BY <3>1, FS_Singleton
  <2>5. ASSUME NEW i \in M
        PROVE  Cardinality(From(matching, n, i)) = Cardinality(From(matching, n - 1, i)) + 1
    <3>1. From(matching, n, i) = From(matching, n - 1, i) \cup {n} /\ n \notin From(matching, n - 1, i)
      BY <1>1, <2>2 DEF From
    <3> QED
      BY <1>1, <3>1, UpToFinite, FS_AddElement
  <2>6. ASSUME NEW i \in UpTo(matching, n)
        PROVE  /\ Cardinality(From(matching, n, i)) \in 1 .. Len(c)
               /\ c[Cardinality(From(matching, n, i))] = h[i]
    <3>1. CASE i = n
      BY <2>1, <2>4, <3>1
    <3>2. CASE i \in M
      <4> PICK k : k = Cardinality(From(matching, n - 1, i))
        OBVIOUS
      <4>1. k \in 1 .. Len(b) /\ b[k] = h[i]
        BY <3>2 DEF NewestFirst
      <4>2. Cardinality(From(matching, n, i)) = k + 1
        BY <2>5, <3>2
      <4> QED
        BY <2>1, <4>1, <4>2
    <3> QED
      BY <2>2, <3>1, <3>2
  <2>7. ASSUME NEW k \in 1 .. Len(c)
        PROVE  \E i \in UpTo(matching, n) : c[k] = h[i] /\ Cardinality(From(matching, n, i)) = k
    <3>1. CASE k = 1
      BY <2>1, <2>2, <2>4, <3>1
    <3>2. CASE k # 1
      <4>1. k \in 2 .. Len(c) /\ k \in Nat
        BY <2>1, <3>2
      <4>2. k - 1 \in 1 .. Len(b) /\ c[k] = b[k - 1]
        BY <2>1, <4>1
      <4>3. PICK i \in M : b[k - 1] = h[i] /\ Cardinality(From(matching, n - 1, i)) = k - 1
        BY <4>2 DEF NewestFirst
      <4>4. Cardinality(From(matching, n, i)) = k
        BY <2>5, <4>1, <4>3
      <4> QED
        BY <2>2, <4>2, <4>3, <4>4
    <3> QED
      BY <3>1, <3>2
  <2> HIDE DEF c
  <2> QED
    BY <2>3, <2>6, <2>7 DEF NewestFirst, c
<1> QED
  BY <1>2, <1>3 DEF NewestFirst

\* What Backwards computes: the matching entries, newest first.
LEMMA BackwardsFacts ==
    ASSUME NEW S, NEW h \in Seq(S), NEW matching
    PROVE  /\ Backwards(h, matching) \in Seq(S)
           /\ NewestFirst(Backwards(h, matching), h, matching, Len(h))
<1> PICK m : m = Len(h)
  OBVIOUS
<1>1. m \in Nat
  BY LenProperties
<1> DEFINE back == CHOOSE f : Follows(f, m, h, matching)
<1>2. Backwards(h, matching) = back[m]
  BY DEF Backwards, Follows
<1>3. Follows(back, m, h, matching)
  BY <1>1, FollowsExists, Zenon
<1> HIDE DEF back
<1> DEFINE Good(n) == back[n] \in Seq(S) /\ NewestFirst(back[n], h, matching, n)
           T == {n \in 0 .. m : ~ Good(n)}
<1>4. back[0] = <<>>
  BY <1>1, <1>3 DEF Follows
<1>5. Good(0)
  <2>1. UpTo(matching, 0) = {}
    BY DEF UpTo
  <2>2. Cardinality(UpTo(matching, 0)) = 0
    BY <2>1, FS_EmptySet
  <2> QED
    BY <1>4, <2>1, <2>2 DEF NewestFirst
<1>6. ASSUME NEW n \in 1 .. m, Good(n - 1)
      PROVE  Good(n)
  <2>1. back[n] = IF n \in matching THEN <<h[n]>> \o back[n - 1] ELSE back[n - 1]
    <3>1. n \in 0 .. m /\ n # 0
      BY <1>1
    <3>2. \A i \in 0 .. m :
            back[i] = IF i = 0 THEN <<>>
                      ELSE IF i \in matching THEN <<h[i]>> \o back[i - 1] ELSE back[i - 1]
      BY <1>3, Zenon DEF Follows
    <3> QED
      BY <3>1, <3>2
  <2>2. h[n] \in S
    BY ElementOfSeq
  <2>3. back[n] \in Seq(S)
    BY <1>6, <2>1, <2>2
  <2> QED
    BY <1>6, <2>1, <2>3, OneMoreEntry
<1> HIDE DEF Good
<1>7. T = {}
  <2> SUFFICES ASSUME T # {} PROVE FALSE
    OBVIOUS
  <2>1. T \subseteq Nat
    BY <1>1
  <2>2. PICK n \in T : \A k \in T : n <= k
    BY <2>1, Least
  <2>3. n # 0 /\ n \in 1 .. m
    BY <1>1, <1>5, <2>2
  <2>4. n - 1 \in 0 .. m /\ n - 1 \notin T
    BY <1>1, <2>2, <2>3
  <2>5. Good(n - 1)
    BY <2>4
  <2> QED
    BY <1>6, <2>2, <2>3, <2>5
<1>8. Good(m)
  BY <1>1, <1>7
<1> QED
  BY <1>2, <1>8 DEF Good

\* The answer has matching entries only.  One that is left out is older than
\* the last one of an answer that is full.
Answering(answer, S, h, matching, limit) ==
    /\ answer \in Seq(S)
    /\ \A k \in DOMAIN answer : \E i \in matching : answer[k] = h[i]
    /\ \A i \in matching :
        \/ \E k \in DOMAIN answer : answer[k] = h[i]
        \/ /\ Len(answer) = limit
           /\ \E j \in matching : i < j /\ answer[limit] = h[j]

\* What a query answers.
LEMMA QueryFacts ==
    ASSUME NEW S, NEW h \in Seq(S), NEW matching \in SUBSET DOMAIN h, NEW limit \in Nat \ {0}
    PROVE  Answering(First(Backwards(h, matching), limit), S, h, matching, limit)
<1> DEFINE b == Backwards(h, matching)
<1>1. b \in Seq(S) /\ NewestFirst(b, h, matching, Len(h)) /\ Len(h) \in Nat /\ Len(b) \in Nat
  BY BackwardsFacts, LenProperties
<1>2. UpTo(matching, Len(h)) = matching
  BY LenProperties DEF UpTo
<1>4. PICK n \in 0 .. Len(b) :
        n = LeastOf(limit, Len(b)) /\ n <= limit /\ (n < Len(b) => n = limit)
  BY <1>1 DEF LeastOf
<1> DEFINE answer == First(b, limit)
<1> HIDE DEF b
<1>5. /\ answer \in Seq(S) /\ DOMAIN answer = 1 .. n
      /\ \A k \in 1 .. n : k \in 1 .. Len(b) /\ answer[k] = b[k]
  BY <1>1, <1>4, SubSeqProperties DEF First
<1>6. ASSUME NEW k \in DOMAIN answer
      PROVE  \E i \in matching : answer[k] = h[i]
  BY <1>1, <1>2, <1>5 DEF NewestFirst
<1>7. ASSUME NEW i \in matching
      PROVE  \/ \E k \in DOMAIN answer : answer[k] = h[i]
             \/ Len(answer) = limit /\ \E j \in matching : i < j /\ answer[limit] = h[j]
  <2>1. PICK k \in 1 .. Len(b) : k = Cardinality(From(matching, Len(h), i)) /\ b[k] = h[i]
    BY <1>1, <1>2 DEF NewestFirst
  <2>2. CASE k <= n
    <3>1. k \in DOMAIN answer /\ answer[k] = h[i]
      BY <1>5, <2>1, <2>2
    <3> QED
      BY <3>1
  <2>3. CASE ~ (k <= n)
    <3>1. n = limit /\ limit \in 1 .. n /\ limit \in 1 .. Len(b) /\ limit < k
      BY <1>1, <1>4, <2>1, <2>3
    <3>2. Len(answer) = limit /\ answer[limit] = b[limit]
      BY <1>5, <3>1, LenProperties
    <3>3. PICK j \in matching : b[limit] = h[j] /\ Cardinality(From(matching, Len(h), j)) = limit
      BY <1>1, <1>2, <3>1 DEF NewestFirst
    <3>4. i \in Nat /\ j \in Nat
      BY <1>2 DEF UpTo
    <3>5. i < j
      <4> SUFFICES ASSUME j <= i PROVE FALSE
        BY <3>4
      <4>1. From(matching, Len(h), i) \subseteq From(matching, Len(h), j)
        BY <3>4 DEF From, UpTo
      <4>2. Cardinality(From(matching, Len(h), i)) <= Cardinality(From(matching, Len(h), j))
        BY <1>1, <4>1, UpToFinite, FS_Subset
      <4> QED
        BY <2>1, <3>1, <3>3, <4>2
    <3> QED
      BY <3>2, <3>3, <3>5
  <2> QED
    BY <2>2, <2>3
<1> QED
  BY <1>5, <1>6, <1>7 DEF b, Answering

-----------------------------------------------------------------------------
(* Following the log.                                                      *)

EventType ==
    [n: Nat, kind: {"send", "deliver", "ack", "expire", "heartbeat"},
     worker: Workers \cup {None}, timestamp: Nat]
MessageType ==
    [id: Nat, from: Workers, to: Workers, sent_at: Nat, delivered: BOOLEAN, acked: BOOLEAN]

\* The entries are in the order of their times.
Sorted(h) == \A i, j \in 1 .. Len(h) : i <= j => h[i].timestamp <= h[j].timestamp

\* Events are numbered and have the time they were emitted at, and the history
\* has some of them, in their order.
LogInv ==
    /\ now \in 0 .. MaxNow
    /\ emitted \in Seq(EventType)
    /\ \A n \in 1 .. Len(emitted) : emitted[n].n = n /\ emitted[n].timestamp <= now
    /\ event_history \in Seq(EventType) /\ Len(event_history) <= EventMax
    /\ Sorted(event_history)
    /\ \A i \in 1 .. Len(event_history) :
        /\ event_history[i].n \in 1 .. Len(emitted)
        /\ event_history[i] = emitted[event_history[i].n]

MailInv ==
    /\ message_history \in Seq(MessageType) /\ Len(message_history) <= MessageMax
    /\ posted \in Nat /\ posted <= Len(emitted)

StreamInv ==
    /\ next \in [Browsers -> (Nat \ {0}) \cup {None}]
    /\ \A b \in Browsers : next[b] # None => next[b] <= Len(emitted) + 1

\* The user asks for the time up to now, and has what was recorded of it.
UserInv ==
    /\ followed \subseteq 1 .. Len(emitted)
    /\ since \in Nat \cup {None} /\ (since # None => since <= now)
    /\ newest \in Nat /\ newest <= now
    /\ covered \in [from: Nat, upto: Nat]
    /\ covered.from <= covered.upto + 1 /\ covered.upto <= now
    /\ \A i \in 1 .. Len(event_history) :
        /\ covered.from <= event_history[i].timestamp
        /\ event_history[i].timestamp < covered.upto
        => event_history[i].n \in followed

FeedInv == LogInv /\ MailInv /\ StreamInv /\ UserInv

\* The invariant is as strong as the properties.
LEMMA FeedProperties == FeedInv => TypeOK /\ FollowerMissesNothing
<1> SUFFICES ASSUME FeedInv PROVE TypeOK /\ FollowerMissesNothing
  OBVIOUS
<1>1. DOMAIN event_history = 1 .. Len(event_history)
  BY LenProperties DEF FeedInv, LogInv
<1>2. TypeOK
  BY <1>1 DEF FeedInv, LogInv, MailInv, StreamInv, UserInv, TypeOK
<1>3. FollowerMissesNothing
  BY <1>1 DEF FeedInv, UserInv, FollowerMissesNothing
<1> QED
  BY <1>2, <1>3

\* An entry of kept is e or one of h.
OldOrNew(kept, h, e) ==
    \A i \in 1 .. Len(kept) : kept[i] = e \/ \E j \in 1 .. Len(h) : kept[i] = h[j]

\* kept is the end of s.
Suffix(kept, s) ==
    \E d \in Nat : \A i \in 1 .. Len(kept) : i + d \in 1 .. Len(s) /\ kept[i] = s[i + d]

\* A history that is cut keeps the last entries.
LEMMA LastOfFacts ==
    ASSUME NEW S, NEW h \in Seq(S), NEW e \in S, NEW n \in Nat \ {0}
    PROVE  LET kept == LastOf(Append(h, e), n)
           IN  /\ kept \in Seq(S) /\ Len(kept) <= n
               /\ OldOrNew(kept, h, e) /\ Suffix(kept, Append(h, e))
<1> DEFINE s == Append(h, e)
<1>1. /\ s \in Seq(S) /\ Len(s) = Len(h) + 1 /\ Len(h) \in Nat /\ Len(s) \in Nat
      /\ s[Len(h) + 1] = e /\ \A i \in 1 .. Len(h) : s[i] = h[i]
  OBVIOUS
<1>2. OldOrNew(s, h, e)
  <2> SUFFICES ASSUME NEW i \in 1 .. Len(s) PROVE s[i] = e \/ \E j \in 1 .. Len(h) : s[i] = h[j]
    BY DEF OldOrNew
  <2>1. i \in 1 .. Len(h) \/ i = Len(h) + 1
    BY <1>1
  <2> QED
    BY <1>1, <2>1
<1> HIDE DEF s
<1>3. CASE Len(s) > n
  <2> DEFINE m == Len(s) - n + 1
             kept == SubSeq(s, m, Len(s))
  <2>1. m \in 1 .. Len(s) + 1 /\ m - 1 \in Nat /\ Len(s) - m + 1 = n
    BY <1>1, <1>3
  <2>2. /\ kept \in Seq(S) /\ Len(kept) = n
        /\ \A i \in 1 .. n : kept[i] = s[m + i - 1] /\ m + i - 1 \in 1 .. Len(s)
    BY <1>1, <1>3, <2>1, SubSeqProperties
  <2>3. LastOf(s, n) = kept
    BY <1>3 DEF LastOf
  <2> HIDE DEF kept
  <2>4. OldOrNew(kept, h, e)
    <3>1. ASSUME NEW i \in 1 .. n
          PROVE  kept[i] = e \/ \E j \in 1 .. Len(h) : kept[i] = h[j]
      <4>1. PICK k \in 1 .. Len(s) : k = m + i - 1 /\ kept[i] = s[k]
        BY <2>2
      <4> QED
        BY <1>2, <4>1 DEF OldOrNew
    <3> QED
      BY <2>2, <3>1 DEF OldOrNew
  <2>5. Len(kept) <= n
    BY <2>2
  <2>6. LastOf(Append(h, e), n) = kept
    BY <2>3 DEF s
  <2>7. Suffix(kept, s)
    <3>1. ASSUME NEW i \in 1 .. Len(kept)
          PROVE  i + (m - 1) \in 1 .. Len(s) /\ kept[i] = s[i + (m - 1)]
      <4>1. i + (m - 1) = m + i - 1 /\ i \in 1 .. n
        BY <1>1, <2>1, <2>2
      <4> QED
        BY <2>2, <4>1
    <3> QED
      BY <2>1, <3>1 DEF Suffix
  <2> QED
    BY <2>2, <2>4, <2>5, <2>6, <2>7 DEF s
<1>4. CASE ~ (Len(s) > n)
  <2>1. LastOf(s, n) = s
    BY <1>4 DEF LastOf
  <2>2. Suffix(s, s)
    <3>1. \A i \in 1 .. Len(s) : i + 0 \in 1 .. Len(s) /\ s[i] = s[i + 0]
      BY <1>1
    <3> QED
      BY <3>1 DEF Suffix
  <2> QED
    BY <1>1, <1>2, <1>4, <2>1, <2>2 DEF s
<1> QED
  BY <1>3, <1>4

\* A history stays in the order of its times when it takes a later entry and
\* loses its first ones.
LEMMA SortedKept ==
    ASSUME NEW h \in Seq(EventType), NEW e \in EventType, NEW kept \in Seq(EventType),
           Sorted(h), \A i \in 1 .. Len(h) : h[i].timestamp <= e.timestamp,
           Suffix(kept, Append(h, e))
    PROVE  Sorted(kept)
<1> PICK s : s = Append(h, e)
  OBVIOUS
<1>1. /\ Len(s) = Len(h) + 1 /\ Len(h) \in Nat /\ Len(kept) \in Nat
      /\ s[Len(h) + 1] = e /\ \A i \in 1 .. Len(h) : s[i] = h[i]
  OBVIOUS
<1>2. ASSUME NEW i \in 1 .. Len(s), NEW j \in 1 .. Len(s), i <= j
      PROVE  s[i].timestamp <= s[j].timestamp
  <2>1. CASE j \in 1 .. Len(h)
    <3>1. i \in 1 .. Len(h)
      BY <1>1, <1>2, <2>1
    <3> QED
      BY <1>1, <1>2, <2>1, <3>1 DEF Sorted
  <2>2. CASE j = Len(h) + 1 /\ i \in 1 .. Len(h)
    BY <1>1, <2>2
  <2>3. CASE j = Len(h) + 1 /\ i = j
    <3>1. e.timestamp <= e.timestamp
      BY DEF EventType
    <3> QED
      BY <1>1, <2>3, <3>1
  <2> QED
    BY <1>1, <1>2, <2>1, <2>2, <2>3
<1>3. PICK d \in Nat : \A i \in 1 .. Len(kept) : i + d \in 1 .. Len(s) /\ kept[i] = s[i + d]
  BY DEF Suffix
<1> SUFFICES ASSUME NEW i \in 1 .. Len(kept), NEW j \in 1 .. Len(kept), i <= j
             PROVE  kept[i].timestamp <= kept[j].timestamp
  BY DEF Sorted
<1>4. i + d <= j + d
  BY <1>1, <1>3
<1> QED
  BY <1>2, <1>3, <1>4

\* What the log is after an event, recorded or broadcast only.
LEMMA EmitFacts ==
    ASSUME LogInv, now' = now,
           NEW kind \in {"send", "deliver", "ack", "expire", "heartbeat"},
           NEW worker \in Workers \cup {None},
           EmitAndRecord(kind, worker) \/ EmitOnly(kind, worker)
    PROVE  /\ LogInv'
           /\ Len(emitted) \in Nat /\ Len(emitted') = Len(emitted) + 1
           /\ \A i \in 1 .. Len(event_history') :
                \/ event_history'[i].timestamp = now
                \/ \E j \in 1 .. Len(event_history) : event_history'[i] = event_history[j]
<1> PICK e : e = Event(kind, worker)
  OBVIOUS
<1>1. Len(emitted) \in Nat /\ now \in Nat /\ EventMax \in Nat \ {0}
  BY LenProperties, FeedAssumption DEF LogInv
<1>2. e \in EventType /\ e.n = Len(emitted) + 1 /\ e.timestamp = now
  BY <1>1 DEF Event, EventType
<1>3. emitted' = Append(emitted, e)
  BY DEF EmitAndRecord, EmitOnly
<1>4. /\ emitted' \in Seq(EventType) /\ Len(emitted') = Len(emitted) + 1
      /\ emitted'[Len(emitted) + 1] = e
      /\ \A n \in 1 .. Len(emitted) : emitted'[n] = emitted[n]
  BY <1>2, <1>3, AppendProperties DEF LogInv
<1>5. ASSUME NEW n \in 1 .. Len(emitted')
      PROVE  emitted'[n].n = n /\ emitted'[n].timestamp <= now
  <2>1. n \in 1 .. Len(emitted) \/ n = Len(emitted) + 1
    BY <1>1, <1>4
  <2> QED
    BY <1>1, <1>2, <1>4, <2>1 DEF LogInv
<1>6. /\ event_history' \in Seq(EventType) /\ Len(event_history') <= EventMax
      /\ OldOrNew(event_history', event_history, e)
      /\ Sorted(event_history')
  <2>1. CASE EmitAndRecord(kind, worker)
    <3>1. event_history' = LastOf(Append(event_history, e), EventMax)
      BY <2>1 DEF EmitAndRecord
    <3>2. event_history \in Seq(EventType) /\ Sorted(event_history)
      BY DEF LogInv
    <3>3. /\ event_history' \in Seq(EventType) /\ Len(event_history') <= EventMax
          /\ OldOrNew(event_history', event_history, e)
          /\ Suffix(event_history', Append(event_history, e))
      BY <1>1, <1>2, <3>1, <3>2, LastOfFacts
    <3>4. \A i \in 1 .. Len(event_history) : event_history[i].timestamp <= e.timestamp
      BY <1>2 DEF LogInv
    <3>5. Sorted(event_history')
      BY <1>2, <3>2, <3>3, <3>4, SortedKept
    <3> QED
      BY <3>3, <3>5
  <2>2. CASE EmitOnly(kind, worker)
    BY <2>2 DEF EmitOnly, LogInv, OldOrNew
  <2> QED
    BY <2>1, <2>2
<1>7. ASSUME NEW i \in 1 .. Len(event_history')
      PROVE  /\ event_history'[i].n \in 1 .. Len(emitted')
             /\ event_history'[i] = emitted'[event_history'[i].n]
  <2>1. CASE event_history'[i] = e
    BY <1>1, <1>2, <1>4, <2>1
  <2>2. ASSUME NEW j \in 1 .. Len(event_history), event_history'[i] = event_history[j]
        PROVE  /\ event_history'[i].n \in 1 .. Len(emitted')
               /\ event_history'[i] = emitted'[event_history'[i].n]
    <3>1. /\ event_history[j].n \in 1 .. Len(emitted)
          /\ event_history[j] = emitted[event_history[j].n]
      BY DEF LogInv
    <3> QED
      BY <1>1, <1>4, <2>2, <3>1
  <2> QED
    BY <1>6, <2>1, <2>2 DEF OldOrNew
<1>8. LogInv'
  BY <1>4, <1>5, <1>6, <1>7 DEF LogInv
<1>9. \A i \in 1 .. Len(event_history') :
        \/ event_history'[i].timestamp = now
        \/ \E j \in 1 .. Len(event_history) : event_history'[i] = event_history[j]
  BY <1>2, <1>6 DEF OldOrNew
<1> QED
  BY <1>1, <1>4, <1>8, <1>9

\* An event that is emitted now is none that the user asked for before.
LEMMA EmitKeeps ==
    ASSUME FeedInv, UNCHANGED <<now, next, user>>,
           NEW kind \in {"send", "deliver", "ack", "expire", "heartbeat"},
           NEW worker \in Workers \cup {None},
           EmitAndRecord(kind, worker) \/ EmitOnly(kind, worker)
    PROVE  LogInv' /\ StreamInv' /\ UserInv' /\ Len(emitted') = Len(emitted) + 1 /\ Len(emitted) \in Nat
<1>1. /\ LogInv'
      /\ Len(emitted) \in Nat /\ Len(emitted') = Len(emitted) + 1
      /\ \A i \in 1 .. Len(event_history') :
            \/ event_history'[i].timestamp = now
            \/ \E j \in 1 .. Len(event_history) : event_history'[i] = event_history[j]
  BY EmitFacts DEF FeedInv
<1>2. StreamInv'
  BY <1>1, FeedAssumption DEF FeedInv, StreamInv
<1>3. now \in Nat /\ covered.upto \in Nat /\ covered.upto <= now
  BY DEF FeedInv, LogInv, UserInv
<1>4. ASSUME NEW i \in 1 .. Len(event_history'),
             covered.from <= event_history'[i].timestamp,
             event_history'[i].timestamp < covered.upto
      PROVE  event_history'[i].n \in followed
  <2>1. event_history'[i].timestamp # now
    BY <1>3, <1>4
  <2>2. PICK j \in 1 .. Len(event_history) : event_history'[i] = event_history[j]
    BY <1>1, <2>1
  <2> QED
    BY <1>4, <2>2 DEF FeedInv, UserInv
<1>5. UserInv'
  BY <1>1, <1>3, <1>4 DEF FeedInv, UserInv, user
<1> QED
  BY <1>1, <1>2, <1>5

\* The log and the histories stay.
LEMMA LogKept ==
    ASSUME FeedInv, UNCHANGED <<now, event_history, message_history, emitted, posted>>
    PROVE  LogInv' /\ MailInv'
BY DEF FeedInv, LogInv, MailInv

\* Sending leaves a history of messages that is not too long.
LEMMA SendKeeps ==
    ASSUME FeedInv, NEW v \in Workers, NEW w \in Workers, Send(v, w)
    PROVE  FeedInv'
<1> PICK m : m = [id |-> posted + 1, from |-> v, to |-> w, sent_at |-> now,
                  delivered |-> FALSE, acked |-> FALSE]
  OBVIOUS
<1>1. /\ message_history \in Seq(MessageType) /\ posted \in Nat /\ posted <= Len(emitted)
      /\ now \in Nat /\ MessageMax \in Nat \ {0}
  BY FeedAssumption DEF FeedInv, MailInv, LogInv
<1>2. LogInv' /\ StreamInv' /\ UserInv' /\ Len(emitted') = Len(emitted) + 1 /\ Len(emitted) \in Nat
  BY EmitKeeps DEF Send
<1>3. m \in MessageType
  BY <1>1 DEF MessageType
<1>4. message_history' = LastOf(Append(message_history, m), MessageMax) /\ posted' = posted + 1
  BY DEF Send
<1>5. message_history' \in Seq(MessageType) /\ Len(message_history') <= MessageMax
  BY <1>1, <1>3, <1>4, LastOfFacts
<1>6. MailInv'
  BY <1>1, <1>2, <1>4, <1>5 DEF MailInv
<1> QED
  BY <1>2, <1>6 DEF FeedInv

\* So does marking a message delivered or acknowledged.
LEMMA MarkKeeps ==
    ASSUME FeedInv, NEW i \in DOMAIN message_history, Deliver(i) \/ Ack(i)
    PROVE  FeedInv'
<1>1. /\ message_history \in Seq(MessageType) /\ Len(message_history) <= MessageMax
      /\ posted \in Nat /\ posted <= Len(emitted)
  BY DEF FeedInv, MailInv
<1>2. message_history[i] \in MessageType /\ Len(message_history) \in Nat
      /\ DOMAIN message_history = 1 .. Len(message_history)
  BY <1>1, LenProperties, ElementOfSeq
<1>3. message_history[i].to \in Workers \cup {None}
  BY <1>2 DEF MessageType
<1>4. LogInv' /\ StreamInv' /\ UserInv' /\ Len(emitted') = Len(emitted) + 1 /\ Len(emitted) \in Nat
  <2>1. /\ UNCHANGED <<now, next, user>>
        /\ \/ EmitAndRecord("deliver", message_history[i].to)
           \/ EmitAndRecord("ack", message_history[i].to)
    BY DEF Deliver, Ack
  <2> QED
    BY <1>3, <2>1, EmitKeeps
<1>5. PICK m \in MessageType : message_history' = [message_history EXCEPT ![i] = m]
  <2>1. CASE Deliver(i)
    <3>1. [message_history[i] EXCEPT !.delivered = TRUE] \in MessageType
      BY <1>2 DEF MessageType
    <3>2. message_history' = [message_history EXCEPT ![i] = [message_history[i] EXCEPT !.delivered = TRUE]]
      BY <2>1 DEF Deliver
    <3> QED
      BY <3>1, <3>2
  <2>2. CASE Ack(i)
    <3>1. [message_history[i] EXCEPT !.acked = TRUE] \in MessageType
      BY <1>2 DEF MessageType
    <3>2. message_history' = [message_history EXCEPT ![i] = [message_history[i] EXCEPT !.acked = TRUE]]
      BY <2>2 DEF Ack
    <3> QED
      BY <3>1, <3>2
  <2> QED
    BY <2>1, <2>2
<1>6. message_history' \in Seq(MessageType) /\ Len(message_history') = Len(message_history)
  BY <1>1, <1>2, <1>5, ExceptSeq
<1>7. MailInv'
  <2>1. posted' = posted
    BY DEF Deliver, Ack
  <2> QED
    BY <1>1, <1>4, <1>6, <2>1 DEF MailInv
<1> QED
  BY <1>4, <1>7 DEF FeedInv

\* Leases and timers leave an event, recorded or not.
LEMMA LeaseKeeps ==
    ASSUME FeedInv, (\E w \in Workers : Expire(w) \/ ExpireInTeam(w)) \/ TimerFired
    PROVE  FeedInv'
<1>1. PICK kind \in {"send", "deliver", "ack", "expire", "heartbeat"}, worker \in Workers \cup {None} :
        /\ UNCHANGED <<now, message_history, posted, next, user>>
        /\ EmitAndRecord(kind, worker) \/ EmitOnly(kind, worker)
  <2>1. CASE \E w \in Workers : Expire(w) \/ ExpireInTeam(w)
    <3>1. PICK w \in Workers : Expire(w) \/ ExpireInTeam(w)
      BY <2>1
    <3>2. /\ UNCHANGED <<now, message_history, posted, next, user>>
          /\ EmitAndRecord("expire", w) \/ EmitOnly("expire", w)
      BY <3>1 DEF Expire, ExpireInTeam
    <3> QED
      BY <3>2
  <2>2. CASE TimerFired
    <3>1. /\ UNCHANGED <<now, message_history, posted, next, user>>
          /\ EmitOnly("heartbeat", None)
      BY <2>2 DEF TimerFired
    <3> QED
      BY <3>1
  <2> QED
    BY <2>1, <2>2
<1>2. LogInv' /\ StreamInv' /\ UserInv' /\ Len(emitted') = Len(emitted) + 1 /\ Len(emitted) \in Nat
  BY <1>1, EmitKeeps
<1>3. MailInv'
  BY <1>1, <1>2 DEF FeedInv, MailInv
<1> QED
  BY <1>2, <1>3 DEF FeedInv

\* A receiver is never ahead of the channel.
LEMMA BrowserKeeps ==
    ASSUME FeedInv, NEW b \in Browsers, Subscribe(b) \/ Stream(b) \/ Disconnect(b)
    PROVE  FeedInv'
<1>1. LogInv' /\ MailInv'
  BY LogKept DEF Subscribe, Stream, Disconnect
<1>2. UserInv'
  BY DEF FeedInv, UserInv, user, Subscribe, Stream, Disconnect
<1>3. /\ next \in [Browsers -> (Nat \ {0}) \cup {None}] /\ Len(emitted) \in Nat
      /\ next[b] # None => next[b] <= Len(emitted) + 1
      /\ None \notin Nat /\ Capacity \in Nat \ {0}
  BY LenProperties, FeedAssumption DEF FeedInv, StreamInv, LogInv
<1>4. /\ emitted' = emitted
      /\ \E n \in (Nat \ {0}) \cup {None} :
            (n # None => n <= Len(emitted) + 1) /\ next' = [next EXCEPT ![b] = n]
  <2>1. CASE Subscribe(b)
    <3>1. Len(emitted) + 1 \in Nat \ {0} /\ Len(emitted) + 1 <= Len(emitted) + 1
      BY <1>3
    <3> QED
      BY <2>1, <3>1 DEF Subscribe
  <2>2. CASE Stream(b)
    <3>1. next[b] \in Nat \ {0} /\ next[b] <= Len(emitted)
      BY <1>3, <2>2 DEF Stream
    <3>2. PICK n \in Nat \ {0} : n <= Len(emitted) /\ next' = [next EXCEPT ![b] = n + 1]
      <4>1. OldestKept \in Nat \ {0} /\ OldestKept <= Len(emitted)
        BY <1>3, <3>1 DEF OldestKept
      <4> DEFINE n == IF next[b] < OldestKept THEN OldestKept ELSE next[b]
      <4>2. n \in Nat \ {0} /\ n <= Len(emitted) /\ next' = [next EXCEPT ![b] = n + 1]
        BY <2>2, <3>1, <4>1 DEF Stream, Receive
      <4> HIDE DEF n
      <4> QED
        BY <4>2
    <3>3. n + 1 \in Nat \ {0} /\ n + 1 <= Len(emitted) + 1
      BY <1>3, <3>2
    <3> QED
      BY <2>2, <3>2, <3>3 DEF Stream
  <2>3. CASE Disconnect(b)
    BY <2>3 DEF Disconnect
  <2> QED
    BY <2>1, <2>2, <2>3
<1>5. StreamInv'
  BY <1>3, <1>4 DEF FeedInv, StreamInv
<1> QED
  BY <1>1, <1>2, <1>5 DEF FeedInv

\* The user asks for a time that is not to come.
LEMMA AskKeeps ==
    ASSUME FeedInv, AskSince
    PROVE  FeedInv'
<1>1. LogInv' /\ MailInv' /\ StreamInv'
  BY LogKept DEF AskSince, FeedInv, StreamInv
<1>2. /\ now \in Nat /\ newest \in Nat /\ newest <= now /\ None \notin Nat
      /\ WordMax \in Nat /\ Window \in Nat \cup {None}
  BY FeedAssumption DEF FeedInv, LogInv, UserInv
<1>3. since' \in Nat \cup {None} /\ (since' # None => since' <= now)
  <2>1. CASE Window = None
    <3>1. since' = newest
      BY <2>1 DEF AskSince, ParseTimestamp
    <3> QED
      BY <1>2, <3>1
  <2>2. CASE Window # None
    <3>1. Seconds["s"] = 1
      BY DEF Seconds
    <3>2. Window * Seconds["s"] = Window /\ Window \in Nat
      BY <1>2, <2>2, <3>1
    <3>3. since' = IF Window > WordMax THEN None ELSE IF Window > now THEN 0 ELSE now - Window
      BY <2>2, <3>2, FeedAssumption DEF AskSince, ParseTimestamp
    <3> QED
      BY <1>2, <3>2, <3>3
  <2> QED
    BY <2>1, <2>2
<1>4. UserInv'
  BY <1>2, <1>3 DEF FeedInv, UserInv, AskSince
<1> QED
  BY <1>1, <1>4 DEF FeedInv

\* What the user has not seen of the time that was asked for is answered, if
\* it is still kept.
LEMMA GetKeeps ==
    ASSUME FeedInv, GetEvents
    PROVE  FeedInv'
<1>1. LogInv' /\ MailInv' /\ StreamInv'
  BY LogKept DEF GetEvents, FeedInv, StreamInv
<1>2. /\ now \in Nat /\ since \in Nat /\ since <= now /\ None \notin Nat
      /\ newest \in Nat /\ newest <= now /\ covered \in [from: Nat, upto: Nat]
      /\ covered.from <= covered.upto + 1 /\ covered.upto <= now
      /\ Len(emitted) \in Nat /\ Len(event_history) \in Nat /\ DefaultLimit \in Nat \ {0}
  BY LenProperties, FeedAssumption DEF FeedInv, LogInv, UserInv, GetEvents
<1>3. /\ event_history \in Seq(EventType) /\ Len(event_history) <= EventMax
      /\ DOMAIN event_history = 1 .. Len(event_history)
  BY LenProperties DEF FeedInv, LogInv
<1> DEFINE matching == {i \in DOMAIN event_history :
                            EventMatches(since, None, None, None, event_history[i])}
<1>4. ASSUME NEW i \in 1 .. Len(event_history)
      PROVE  /\ event_history[i].n \in 1 .. Len(emitted)
             /\ event_history[i].timestamp \in Nat /\ event_history[i].timestamp <= now
             /\ i \in matching <=> event_history[i].timestamp >= since
  <2>1. event_history[i] \in EventType
    BY <1>3, ElementOfSeq
  <2>2. event_history[i].n \in 1 .. Len(emitted) /\ event_history[i] = emitted[event_history[i].n]
    BY DEF FeedInv, LogInv
  <2>3. event_history[i].timestamp <= now
    BY <2>2 DEF FeedInv, LogInv
  <2>4. i \in matching <=> event_history[i].timestamp >= since
    BY <1>2, <1>3 DEF EventMatches, Earliest, Wanted
  <2> QED
    BY <2>1, <2>2, <2>3, <2>4 DEF EventType
<1>5. Answer = First(Backwards(event_history, matching), DefaultLimit)
  BY DEF Answer, QueryEvents, Limited
<1>6. matching \in SUBSET DOMAIN event_history
  OBVIOUS
<1> HIDE DEF matching
<1>7. /\ Answer \in Seq(EventType)
      /\ \A k \in DOMAIN Answer : \E i \in matching : Answer[k] = event_history[i]
      /\ \A i \in matching :
            \/ \E k \in DOMAIN Answer : Answer[k] = event_history[i]
            \/ /\ Len(Answer) = DefaultLimit
               /\ \E j \in matching : i < j /\ Answer[DefaultLimit] = event_history[j]
  <2>1. Answering(Answer, EventType, event_history, matching, DefaultLimit)
    BY <1>2, <1>3, <1>5, <1>6, QueryFacts
  <2> QED
    BY <2>1 DEF Answering
<1>8. followed' = followed \cup {Answer[i].n : i \in DOMAIN Answer} /\ followed' \subseteq 1 .. Len(emitted)
  <2>1. followed' = followed \cup {Answer[i].n : i \in DOMAIN Answer}
    BY DEF GetEvents
  <2>2. ASSUME NEW k \in DOMAIN Answer PROVE Answer[k].n \in 1 .. Len(emitted)
    BY <1>3, <1>4, <1>6, <1>7
  <2> QED
    BY <2>1, <2>2 DEF FeedInv, UserInv
<1>9. newest' \in Nat /\ newest' <= now
  <2>1. CASE Answer = <<>>
    BY <1>2, <2>1 DEF GetEvents
  <2>2. CASE Answer # <<>>
    <3>1. 1 \in DOMAIN Answer
      BY <1>7, <2>2, EmptySeq, LenProperties
    <3>2. PICK i \in matching : Answer[1] = event_history[i]
      BY <1>7, <3>1
    <3>3. newest' = event_history[i].timestamp
      BY <2>2, <3>2 DEF GetEvents
    <3> QED
      BY <1>3, <1>4, <1>6, <3>2, <3>3
  <2> QED
    BY <2>1, <2>2
<1>10. /\ Start \in Nat /\ since <= Start /\ Start <= now + 1
       /\ \A i \in matching :
            Start <= event_history[i].timestamp
            => \E k \in DOMAIN Answer : Answer[k] = event_history[i]
  <2>1. CASE Len(Answer) = DefaultLimit
    <3>1. DefaultLimit \in DOMAIN Answer
      BY <1>2, <1>7, <2>1, LenProperties
    <3>2. PICK j \in matching : Answer[DefaultLimit] = event_history[j]
      BY <1>7, <3>1
    <3>3. Start = event_history[j].timestamp + 1
      BY <2>1, <3>2 DEF Start
    <3>4. /\ j \in 1 .. Len(event_history) /\ event_history[j].timestamp \in Nat
          /\ since <= event_history[j].timestamp /\ event_history[j].timestamp <= now
      BY <1>3, <1>4, <1>6, <3>2
    <3>5. ASSUME NEW i \in matching, Start <= event_history[i].timestamp,
                 ~ \E k \in DOMAIN Answer : Answer[k] = event_history[i]
          PROVE  FALSE
      <4>1. PICK l \in matching : i < l /\ Answer[DefaultLimit] = event_history[l]
        BY <1>7, <3>5
      <4>2. /\ i \in 1 .. Len(event_history) /\ l \in 1 .. Len(event_history) /\ i <= l
            /\ event_history[i].timestamp \in Nat /\ event_history[l].timestamp \in Nat
        BY <1>3, <1>4, <1>6, <4>1
      <4>3. event_history[i].timestamp <= event_history[l].timestamp
        BY <4>2 DEF FeedInv, LogInv, Sorted
      <4>4. event_history[l].timestamp = event_history[j].timestamp
        BY <3>2, <4>1
      <4> QED
        BY <3>3, <3>4, <3>5, <4>2, <4>3, <4>4
    <3> QED
      BY <1>2, <3>3, <3>4, <3>5
  <2>2. CASE Len(Answer) # DefaultLimit
    <3>1. Start = since
      BY <2>2 DEF Start
    <3> QED
      BY <1>2, <1>7, <2>2, <3>1
  <2> QED
    BY <2>1, <2>2
<1>11. /\ covered' \in [from: Nat, upto: Nat] /\ covered'.upto = now
       /\ covered'.from <= now + 1
       /\ Start > covered.upto => covered'.from = Start
       /\ Start <= covered.upto => covered'.from = covered.from \/ covered'.from = Start
  <2>1. covered' = [from |-> IF Start <= covered.upto THEN LeastOf(covered.from, Start) ELSE Start,
                    upto |-> now]
    BY DEF GetEvents
  <2>2. covered.from \in Nat /\ covered.upto \in Nat /\ covered.from <= now + 1
    BY <1>2
  <2> HIDE DEF Start
  <2> QED
    BY <1>2, <1>10, <2>1, <2>2 DEF LeastOf
<1>12. ASSUME NEW i \in 1 .. Len(event_history), covered'.from <= event_history[i].timestamp
       PROVE  event_history[i].n \in followed'
  <2>1. CASE Start <= event_history[i].timestamp
    <3>1. i \in matching
      BY <1>2, <1>4, <1>10, <2>1
    <3>2. PICK k \in DOMAIN Answer : Answer[k] = event_history[i]
      BY <1>10, <2>1, <3>1
    <3> QED
      BY <1>8, <3>2
  <2>2. CASE event_history[i].timestamp < Start
    <3>1. event_history[i].timestamp \in Nat
      BY <1>4
    <3>2. Start <= covered.upto /\ covered'.from = covered.from
      BY <1>2, <1>10, <1>11, <1>12, <2>2, <3>1
    <3>3. event_history[i].timestamp < covered.upto
      BY <1>2, <1>10, <2>2, <3>1, <3>2
    <3>4. event_history[i].n \in followed
      BY <1>12, <3>2, <3>3 DEF FeedInv, UserInv
    <3> QED
      BY <1>8, <3>4
  <2> QED
    BY <1>4, <1>10, <2>1, <2>2
<1>13. UserInv'
  <2>1. UNCHANGED <<now, event_history, emitted>> /\ since' = None
    BY DEF GetEvents
  <2>2. followed' \subseteq 1 .. Len(emitted')
    BY <1>8, <2>1
  <2> QED
    BY <1>2, <1>9, <1>11, <1>12, <2>1, <2>2 DEF UserInv
<1> QED
  BY <1>1, <1>13 DEF FeedInv

\* Time passes.
LEMMA TickKeeps ==
    ASSUME FeedInv, Tick
    PROVE  FeedInv'
<1>1. /\ now \in Nat /\ now' = now + 1 /\ now' \in 0 .. MaxNow
      /\ UNCHANGED <<event_history, message_history, emitted, posted, next, user>>
  BY FeedAssumption DEF Tick, FeedInv, LogInv
<1>2. LogInv'
  <2>1. ASSUME NEW n \in 1 .. Len(emitted) PROVE emitted[n].n = n /\ emitted[n].timestamp <= now + 1
    <3>1. emitted[n] \in EventType
      BY ElementOfSeq DEF FeedInv, LogInv
    <3> QED
      BY <1>1, <3>1 DEF FeedInv, LogInv, EventType
  <2> QED
    BY <1>1, <2>1 DEF FeedInv, LogInv
<1>3. MailInv' /\ StreamInv'
  BY <1>1 DEF FeedInv, MailInv, StreamInv
<1>4. UserInv'
  BY <1>1 DEF FeedInv, UserInv, user
<1> QED
  BY <1>2, <1>3, <1>4 DEF FeedInv

LEMMA InitFeed == Init => FeedInv
<1> SUFFICES ASSUME Init PROVE FeedInv
  OBVIOUS
<1>1. /\ <<>> \in Seq(EventType) /\ <<>> \in Seq(MessageType) /\ Len(<<>>) = 0
      /\ EventMax \in Nat /\ MessageMax \in Nat /\ MaxNow \in Nat
  BY FeedAssumption, EmptySeq
<1>2. LogInv /\ MailInv /\ StreamInv /\ UserInv
  BY <1>1 DEF Init, LogInv, Sorted, MailInv, StreamInv, UserInv
<1> QED
  BY <1>2 DEF FeedInv

\* Every step preserves the invariant.
LEMMA NextKeeps == FeedInv /\ [Next]_vars => FeedInv'
<1> SUFFICES ASSUME FeedInv, [Next]_vars PROVE FeedInv'
  OBVIOUS
<1>1. CASE Tick
  BY <1>1, TickKeeps
<1>2. CASE \E v, w \in Workers : Send(v, w)
  BY <1>2, SendKeeps
<1>3. CASE \E i \in DOMAIN message_history : Deliver(i) \/ Ack(i)
  BY <1>3, MarkKeeps
<1>4. CASE \E w \in Workers : Expire(w) \/ ExpireInTeam(w)
  BY <1>4, LeaseKeeps
<1>5. CASE TimerFired
  BY <1>5, LeaseKeeps
<1>6. CASE \E b \in Browsers : Subscribe(b) \/ Stream(b) \/ Disconnect(b)
  BY <1>6, BrowserKeeps
<1>7. CASE AskSince
  BY <1>7, AskKeeps
<1>8. CASE GetEvents
  BY <1>8, GetKeeps
<1>9. CASE UNCHANGED vars
  BY <1>9 DEF vars, FeedInv, LogInv, MailInv, StreamInv, UserInv
<1> QED
  BY <1>1, <1>2, <1>3, <1>4, <1>5, <1>6, <1>7, <1>8, <1>9 DEF Next, Done

\* The invariant holds in every state.
LEMMA FeedInvHolds == Spec => []FeedInv
<1> QED
  BY InitFeed, NextKeeps, PTL DEF Spec

\* The types, and what relates the histories to the events emitted: an entry
\* of the history is the event that was broadcast under its number, histories
\* stay within their bounds, and no receiver is ahead of the channel.
THEOREM TypeCorrect == Spec => []TypeOK
<1>1. FeedInv => TypeOK
  BY FeedProperties
<1> QED
  BY <1>1, FeedInvHolds, PTL

\* A user who follows the log, one query of dispatch events after the other,
\* has seen all that was recorded in the time covered and is still kept,
\* whatever an answer's limit: a full answer covers only the time after its
\* oldest event.
THEOREM FollowerMissesNothingHolds == Spec => []FollowerMissesNothing
<1>1. FeedInv => FollowerMissesNothing
  BY FeedProperties
<1> QED
  BY <1>1, FeedInvHolds, PTL

-----------------------------------------------------------------------------
(* What every query answers, whatever the limit.                           *)

\* The matches after i; the limit cuts those with too many after them.
After(matching, n, i) == {j \in UpTo(matching, n) : j > i}
Chosen(matching, n, limit) ==
    {i \in UpTo(matching, n) : Cardinality(After(matching, n, i)) < limit}

\* From i on there is one match more than after i.
LEMMA AfterOne ==
    ASSUME NEW matching, NEW n \in Nat, NEW i \in UpTo(matching, n)
    PROVE  /\ IsFiniteSet(After(matching, n, i))
           /\ Cardinality(After(matching, n, i)) \in Nat
           /\ Cardinality(From(matching, n, i)) = Cardinality(After(matching, n, i)) + 1
<1> DEFINE after == After(matching, n, i)
<1>1. i \in Nat
  BY DEF UpTo
<1>2. ASSUME NEW j \in UpTo(matching, n)
      PROVE  j >= i <=> j > i \/ j = i
  <2>1. j \in Nat
    BY DEF UpTo
  <2> QED
    BY <1>1, <2>1
<1>3. From(matching, n, i) = after \cup {i} /\ i \notin after
  <2>1. i >= i /\ ~ (i > i)
    BY <1>1
  <2>2. i \notin after
    BY <2>1 DEF After
  <2>3. ASSUME NEW j \in UpTo(matching, n)
        PROVE  j \in From(matching, n, i) <=> j \in after \cup {i}
    BY <1>2, <2>1, <2>3 DEF From, After
  <2>4. From(matching, n, i) \subseteq UpTo(matching, n) /\ after \subseteq UpTo(matching, n)
    BY DEF From, After
  <2> HIDE DEF after
  <2> QED
    BY <2>2, <2>3, <2>4
<1>4. IsFiniteSet(after)
  BY <1>3, UpToFinite, FS_Subset
<1> HIDE DEF after
<1>5. Cardinality(after) \in Nat /\ Cardinality(after \cup {i}) = Cardinality(after) + 1
  BY <1>3, <1>4, FS_AddElement, FS_CardinalityType
<1> QED
  BY <1>3, <1>4, <1>5 DEF after

\* A match is followed by fewer matches than an older one.
LEMMA AfterFewer ==
    ASSUME NEW matching, NEW n \in Nat,
           NEW i \in UpTo(matching, n), NEW j \in UpTo(matching, n), i < j
    PROVE  Cardinality(After(matching, n, j))
             < Cardinality(After(matching, n, i))
<1> DEFINE after == After(matching, n, i)
<1>1. i \in Nat /\ j \in Nat
  BY DEF UpTo
<1>2. ASSUME NEW k \in From(matching, n, j)
      PROVE  k \in after
  <2>1. k \in UpTo(matching, n) /\ k \in Nat /\ k >= j
    BY DEF From, UpTo
  <2>2. k > i
    BY <1>1, <2>1
  <2> QED
    BY <2>1, <2>2 DEF After
<1>3. IsFiniteSet(after) /\ Cardinality(after) \in Nat
  BY AfterOne
<1>4. Cardinality(From(matching, n, j)) <= Cardinality(after)
  <2>1. From(matching, n, j) \subseteq after
    BY <1>2
  <2> QED
    BY <1>3, <2>1, FS_Subset
<1>5. /\ Cardinality(After(matching, n, j)) \in Nat
      /\ Cardinality(From(matching, n, j)) = Cardinality(After(matching, n, j)) + 1
  BY AfterOne
<1> HIDE DEF after
<1>6. Cardinality(After(matching, n, j)) < Cardinality(after)
  BY <1>3, <1>4, <1>5
<1> QED
  BY <1>6 DEF after

\* What a query chooses is the newest part: as many matches as the limit
\* allows, and after each of them only chosen ones.
LEMMA ChosenFacts ==
    ASSUME NEW S, NEW b \in Seq(S), NEW h, NEW matching, NEW n \in Nat, NEW limit \in Nat,
           NewestFirst(b, h, matching, n)
    PROVE  /\ Cardinality(Chosen(matching, n, limit)) = LeastOf(limit, Len(b))
           /\ \A i \in Chosen(matching, n, limit) :
                {j \in Chosen(matching, n, limit) : j > i} = After(matching, n, i)
<1> DEFINE M == UpTo(matching, n)
           rank(i) == Cardinality(After(matching, n, i))
           C == Chosen(matching, n, limit)
<1>1. /\ IsFiniteSet(M) /\ Len(b) \in Nat /\ Cardinality(M) = Len(b)
      /\ \A i \in M : i \in 1 .. n
  BY UpToFinite DEF NewestFirst, UpTo
<1>2. ASSUME NEW i \in M
      PROVE  rank(i) \in Nat /\ Cardinality(From(matching, n, i)) = rank(i) + 1
  BY AfterOne
<1>3. ASSUME NEW i \in M, NEW j \in M, i < j
      PROVE  rank(j) < rank(i)
  BY <1>3, AfterFewer
<1>4. C \subseteq M /\ \A i \in M : i \in C <=> rank(i) < limit
  BY DEF Chosen
<1> HIDE DEF C
<1>5. ASSUME NEW i \in M
      PROVE  rank(i) < Len(b)
  <2>1. Cardinality(From(matching, n, i)) \in 1 .. Len(b)
    BY DEF NewestFirst
  <2> QED
    BY <1>1, <1>2, <2>1
<1> HIDE DEF rank
<1>6. ASSUME NEW i \in C
      PROVE  {j \in C : j > i} = After(matching, n, i)
  <2> SUFFICES ASSUME NEW j \in M, j > i PROVE j \in C
    BY <1>4 DEF After
  <2>1. i \in M /\ i < j /\ rank(i) < limit
    BY <1>1, <1>4
  <2>2. rank(j) < rank(i)
    BY <1>3, <2>1
  <2> QED
    BY <1>2, <1>4, <2>1, <2>2
<1>7. Cardinality(C) = LeastOf(limit, Len(b))
  <2>1. CASE Len(b) <= limit
    <3>1. C = M
      <4>1. ASSUME NEW i \in M PROVE i \in C
        BY <1>1, <1>2, <1>4, <1>5, <2>1
      <4> QED
        BY <1>4, <4>1
    <3>2. LeastOf(limit, Len(b)) = Len(b)
      BY <1>1, <2>1 DEF LeastOf
    <3> QED
      BY <1>1, <3>1, <3>2
  <2>2. CASE limit < Len(b)
    <3>1. LeastOf(limit, Len(b)) = limit
      BY <1>1, <2>2 DEF LeastOf
    <3>2. CASE limit = 0
      <4>1. C = {}
        BY <1>2, <1>4, <3>2
      <4> QED
        BY <3>1, <3>2, <4>1, FS_EmptySet
    <3>3. CASE limit # 0
      <4>1. limit \in 1 .. Len(b)
        BY <1>1, <2>2, <3>3
      <4>2. PICK i \in M : Cardinality(From(matching, n, i)) = limit
        BY <4>1 DEF NewestFirst
      <4>3. rank(i) = limit - 1
        BY <1>2, <4>2
      <4>4. ASSUME NEW j \in M PROVE j \in C <=> j >= i
        <5>1. i \in Nat /\ j \in Nat
          BY <1>1
        <5>2. CASE j = i
          BY <1>4, <4>3, <5>1, <5>2
        <5>3. CASE j < i
          <6>1. rank(i) < rank(j)
            BY <1>3, <5>3
          <6> QED
            BY <1>2, <1>4, <4>3, <5>1, <5>3, <6>1
        <5>4. CASE j > i
          <6>1. rank(j) < rank(i)
            BY <1>3, <5>1, <5>4
          <6> QED
            BY <1>2, <1>4, <4>3, <5>1, <5>4, <6>1
        <5> QED
          BY <5>1, <5>2, <5>3, <5>4
      <4>5. C = From(matching, n, i)
        BY <1>4, <4>4 DEF From
      <4> QED
        BY <3>1, <4>2, <4>5
    <3> QED
      BY <3>2, <3>3
  <2> QED
    BY <1>1, <2>1, <2>2
<1> QED
  BY <1>6, <1>7 DEF C

\* The answer is what Answers says of it, for the positions that match.
Newest(answer, h, matching, limit) ==
    LET chosen == {i \in matching : Cardinality({j \in matching : j > i}) < limit}
    IN  /\ Len(answer) = Cardinality(chosen)
        /\ \A k \in DOMAIN answer :
            \E i \in chosen :
                /\ answer[k] = h[i]
                /\ Cardinality({j \in chosen : j > i}) = k - 1

\* Queries answer what they should, whatever matches and whatever the limit.
LEMMA QueryAnswers ==
    ASSUME NEW S, NEW h \in Seq(S), NEW matching \in SUBSET DOMAIN h, NEW limit \in Nat
    PROVE  Newest(First(Backwards(h, matching), limit), h, matching, limit)
<1> PICK answer : answer = First(Backwards(h, matching), limit)
  OBVIOUS
<1> PICK chosen : chosen = {i \in matching : Cardinality({j \in matching : j > i}) < limit}
  OBVIOUS
<1> PICK b : b = Backwards(h, matching)
  OBVIOUS
<1>1. /\ b \in Seq(S) /\ NewestFirst(b, h, matching, Len(h))
      /\ Len(h) \in Nat /\ Len(b) \in Nat
  BY BackwardsFacts, LenProperties
<1>2. UpTo(matching, Len(h)) = matching
  BY LenProperties DEF UpTo
<1>3. chosen = Chosen(matching, Len(h), limit) /\ chosen \subseteq matching
  BY <1>2 DEF Chosen, After
<1>4. PICK n \in 0 .. Len(b) : n = LeastOf(limit, Len(b)) /\ n <= limit
  BY <1>1 DEF LeastOf
<1>5. /\ Len(answer) = n /\ DOMAIN answer = 1 .. n
      /\ \A k \in 1 .. n : k \in 1 .. Len(b) /\ answer[k] = b[k]
  BY <1>1, <1>4, SubSeqProperties DEF First
<1>6. /\ Cardinality(chosen) = n
      /\ \A i \in chosen : {j \in chosen : j > i} = After(matching, Len(h), i)
  <2>1. Cardinality(Chosen(matching, Len(h), limit)) = n
    BY <1>1, <1>4, ChosenFacts
  <2>2. \A i \in Chosen(matching, Len(h), limit) :
            {j \in Chosen(matching, Len(h), limit) : j > i} = After(matching, Len(h), i)
    BY <1>1, ChosenFacts
  <2> QED
    BY <1>3, <2>1, <2>2
<1>7. ASSUME NEW k \in DOMAIN answer
      PROVE  \E i \in chosen : answer[k] = h[i] /\ Cardinality({j \in chosen : j > i}) = k - 1
  <2>1. k \in 1 .. n /\ k \in 1 .. Len(b) /\ answer[k] = b[k]
    BY <1>5
  <2>2. PICK i \in matching : b[k] = h[i] /\ Cardinality(From(matching, Len(h), i)) = k
    BY <1>1, <1>2, <2>1 DEF NewestFirst
  <2>3. /\ Cardinality(After(matching, Len(h), i)) \in Nat
        /\ Cardinality(After(matching, Len(h), i)) + 1 = k
    BY <1>1, <1>2, <2>2, AfterOne
  <2>4. Cardinality(After(matching, Len(h), i)) < limit
    BY <1>4, <2>1, <2>3
  <2>5. i \in chosen
    BY <1>2, <1>3, <2>4 DEF Chosen
  <2>6. Cardinality({j \in chosen : j > i}) = k - 1
    <3>1. {j \in chosen : j > i} = After(matching, Len(h), i)
      BY <1>6, <2>5
    <3>2. Cardinality(After(matching, Len(h), i)) = k - 1
      BY <2>1, <2>3
    <3> QED
      BY <3>1, <3>2
  <2> QED
    BY <2>1, <2>2, <2>5, <2>6
<1>8. Len(answer) = Cardinality(chosen)
  BY <1>5, <1>6
<1> QED
  BY <1>7, <1>8 DEF Newest

\* Every query gives a number of entries.
LEMMA LimitType ==
    ASSUME NEW l \in Limits
    PROVE  Limited(l) \in Nat /\ Limited(l) = IF l = None THEN DefaultLimit ELSE l
BY FeedAssumption DEF Limits, Limited

\* Queries of events answer the newest matches, whatever the filters and the
\* limit; for histories of any length.
THEOREM EventsAnsweredHolds == Spec => []EventsAnswered
<1>1. FeedInv => EventsAnswered
  <2> SUFFICES ASSUME FeedInv, NEW from \in Times \cup {None}, NEW to \in Times \cup {None},
                      NEW k \in {None, "send", "expire"}, NEW w \in Workers \cup {None},
                      NEW l \in Limits
               PROVE  LET Match(e) == /\ from # None => e.timestamp >= from
                                      /\ to # None => e.timestamp <= to
                                      /\ k \in {None, e.kind}
                                      /\ w \in {None, e.worker}
                      IN  Answers(QueryEvents(event_history, from, to, k, w, l),
                                  event_history, Match, l)
    BY DEF EventsAnswered
  <2> DEFINE Match(e) == /\ from # None => e.timestamp >= from
                         /\ to # None => e.timestamp <= to
                         /\ k \in {None, e.kind}
                         /\ w \in {None, e.worker}
             found == {i \in DOMAIN event_history :
                            EventMatches(from, to, k, w, event_history[i])}
             all == {i \in DOMAIN event_history : Match(event_history[i])}
  <2> PICK answer : answer = QueryEvents(event_history, from, to, k, w, l)
    OBVIOUS
  <2>1. found = all
    <3>1. ASSUME NEW e PROVE EventMatches(from, to, k, w, e) <=> Match(e)
      BY Zenon DEF EventMatches, Earliest, Wanted
    <3> QED
      BY <3>1
  <2>2. answer = First(Backwards(event_history, all), Limited(l)) /\ all \in SUBSET DOMAIN event_history
    BY <2>1 DEF QueryEvents
  <2>3. event_history \in Seq(EventType) /\ Limited(l) \in Nat
    BY LimitType DEF FeedInv, LogInv
  <2> HIDE DEF all
  <2>4. Newest(answer, event_history, all, Limited(l))
    BY <2>2, <2>3, QueryAnswers
  <2> QED
    BY <2>4, Zenon DEF Answers, Newest, Limited, all
<1> QED
  BY <1>1, FeedInvHolds, PTL

\* Queries of messages answer the newest matches; what is asked for as
\* unacknowledged was delivered and is not acknowledged.
THEOREM MessagesAnsweredHolds == Spec => []MessagesAnswered
<1>1. FeedInv => MessagesAnswered
  <2> SUFFICES ASSUME FeedInv, NEW w \in Workers, NEW unacked \in BOOLEAN, NEW sent \in BOOLEAN,
                      NEW from \in Times \cup {None}, NEW l \in Limits
               PROVE  LET Match(m) == /\ w = (IF sent THEN m.from ELSE m.to)
                                      /\ ~(unacked /\ (m.acked \/ ~m.delivered))
                                      /\ from # None => m.sent_at >= from
                      IN  Answers(QueryMessages(message_history, w, unacked, sent, from, l, None),
                                  message_history, Match, l)
    BY DEF MessagesAnswered
  <2> DEFINE Match(m) == /\ w = (IF sent THEN m.from ELSE m.to)
                         /\ ~(unacked /\ (m.acked \/ ~m.delivered))
                         /\ from # None => m.sent_at >= from
             found == {i \in DOMAIN message_history :
                            MessageMatches(w, unacked, sent, from, message_history[i])}
             all == {i \in DOMAIN message_history : Match(message_history[i])}
  <2> PICK answer : answer = QueryMessages(message_history, w, unacked, sent, from, l, None)
    OBVIOUS
  <2>1. found = all
    <3>1. ASSUME NEW m PROVE MessageMatches(w, unacked, sent, from, m) <=> Match(m)
      BY Zenon DEF MessageMatches, Earliest
    <3> QED
      BY <3>1
  <2>2. answer = First(Backwards(message_history, all), Limited(l)) /\ all \in SUBSET DOMAIN message_history
    BY <2>1 DEF QueryMessages
  <2>3. message_history \in Seq(MessageType) /\ Limited(l) \in Nat
    BY LimitType DEF FeedInv, MailInv
  <2> HIDE DEF all
  <2>4. Newest(answer, message_history, all, Limited(l))
    BY <2>2, <2>3, QueryAnswers
  <2> QED
    BY <2>4, Zenon DEF Answers, Newest, Limited, all
<1> QED
  BY <1>1, FeedInvHolds, PTL
=============================================================================
