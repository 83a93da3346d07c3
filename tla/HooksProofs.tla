----------------------------- MODULE HooksProofs -----------------------------
(***************************************************************************)
(* The hook commands keep the user's part of the vendors' files and take   *)
(* effect, for files with any number of entries and lines, any number of   *)
(* commands and edits.                                                     *)
(***************************************************************************)
EXTENDS MCVendorHooks, SequenceTheorems, FiniteSetTheorems, WellFoundedInduction, TLAPS

(* Picking entries of a sequence.                                          *)

\* Induction up to a bound, for a set of numbers.
LEMMA Induction ==
    ASSUME NEW G, NEW m \in Nat, 0 \in G, \A n \in 1 .. m : n - 1 \in G => n \in G
    PROVE  \A n \in 0 .. m : n \in G
<1> DEFINE T == {n \in 0 .. m : n \notin G}
           R == OpToRel(<, Nat)
<1> SUFFICES ASSUME T # {} PROVE FALSE
  OBVIOUS
<1>1. T \subseteq Nat
  OBVIOUS
<1>2. PICK n \in T : \A k \in T : ~ (<<k, n>> \in R)
  BY <1>1, NatLessThanWellFounded, WFMin
<1>3. n \in 1 .. m /\ n - 1 \in 0 .. m /\ n - 1 \in Nat /\ n \in Nat /\ n - 1 < n
  <2>1. n # 0
    OBVIOUS
  <2> QED
    BY <2>1
<1>4. <<n - 1, n>> \in R
  BY <1>3 DEF OpToRel
<1> QED
  BY <1>2, <1>3, <1>4

\* f is the function that Picked defines, up to n.
Picks(f, n, s, positions) ==
    f = [i \in 0 .. n |->
            IF i = 0 THEN <<>>
            ELSE IF i \in positions THEN Append(f[i - 1], s[i]) ELSE f[i - 1]]

\* There is such a function.
LEMMA PicksExists ==
    ASSUME NEW s, NEW positions, NEW m \in Nat
    PROVE  \E f : Picks(f, m, s, positions)
<1> DEFINE G == {n \in Nat : \E f : Picks(f, n, s, positions)}
<1>1. 0 \in G
  <2>1. Picks([i \in 0 .. 0 |-> <<>>], 0, s, positions)
    BY DEF Picks
  <2> QED
    BY <2>1
<1>2. ASSUME NEW n \in 1 .. m, n - 1 \in G
      PROVE  n \in G
  <2>1. n \in Nat /\ n # 0
    OBVIOUS
  <2>2. PICK f : Picks(f, n - 1, s, positions)
    BY <1>2
  <2> DEFINE last == IF n \in positions THEN Append(f[n - 1], s[n]) ELSE f[n - 1]
             g == [i \in 0 .. n |-> IF i = n THEN last ELSE f[i]]
  <2>3. ASSUME NEW i \in 0 .. n
        PROVE  g[i] = IF i = 0 THEN <<>>
                      ELSE IF i \in positions THEN Append(g[i - 1], s[i]) ELSE g[i - 1]
    <3>1. CASE i = n
      <4>1. g[n] = last /\ g[n - 1] = f[n - 1]
        BY <2>1
      <4> QED
        BY <2>1, <3>1, <4>1
    <3>2. CASE i # n
      <4>1. i \in 0 .. n - 1 /\ g[i] = f[i] /\ (i # 0 => g[i - 1] = f[i - 1])
        BY <2>1, <3>2
      <4> HIDE DEF g
      <4> QED
        BY <2>1, <2>2, <4>1 DEF Picks
    <3> QED
      BY <3>1, <3>2
  <2>4. Picks(g, n, s, positions)
    <3> HIDE DEF last
    <3> QED
      BY <2>3 DEF Picks
  <2> QED
    BY <2>1, <2>4
<1> HIDE DEF G
<1>3. m \in G
  BY <1>1, <1>2, Induction
<1> QED
  BY <1>3 DEF G

\* What Picked computes, entry by entry: pick[n] is picked of the first n.
Picking(pick, s, positions) ==
    /\ pick[0] = <<>>
    /\ \A n \in 1 .. Len(s) :
            pick[n] = IF n \in positions THEN Append(pick[n - 1], s[n]) ELSE pick[n - 1]

\* The positions of a sequence, picked one by one.
LEMMA PickedSteps ==
    ASSUME NEW s, NEW positions, Len(s) \in Nat
    PROVE  \E pick : Picking(pick, s, positions) /\ Picked(s, positions) = pick[Len(s)]
<1> PICK m \in Nat : m = Len(s)
  OBVIOUS
<1> DEFINE pick == CHOOSE f : Picks(f, m, s, positions)
<1>1. Picked(s, positions) = pick[m]
  BY DEF Picked, Picks
<1>2. Picks(pick, m, s, positions)
  BY PicksExists, Zenon
<1> HIDE DEF pick
<1>3. \A i \in 0 .. m :
        pick[i] = IF i = 0 THEN <<>>
                  ELSE IF i \in positions THEN Append(pick[i - 1], s[i]) ELSE pick[i - 1]
  BY <1>2, Zenon DEF Picks
<1>4. pick[0] = <<>>
  BY <1>3
<1>5. ASSUME NEW n \in 1 .. m
      PROVE  pick[n] = IF n \in positions THEN Append(pick[n - 1], s[n]) ELSE pick[n - 1]
  <2>1. n \in 0 .. m /\ n # 0
    OBVIOUS
  <2> QED
    BY <1>3, <2>1
<1> QED
  BY <1>1, <1>4, <1>5 DEF Picking

\* Where a sequence has a member of V.
Hits(s, V) == {i \in DOMAIN s : s[i] \in V}

\* One more entry is one more hit, if it is one.
LEMMA AppendHits ==
    ASSUME NEW T, NEW s \in Seq(T), NEW e \in T, NEW V
    PROVE  /\ IsFiniteSet(Hits(s, V)) /\ Cardinality(Hits(s, V)) \in Nat
           /\ e \in V => Cardinality(Hits(Append(s, e), V)) = Cardinality(Hits(s, V)) + 1
           /\ e \notin V => Hits(Append(s, e), V) = Hits(s, V)
<1>1. /\ Len(s) \in Nat /\ DOMAIN s = 1 .. Len(s)
      /\ DOMAIN Append(s, e) = 1 .. Len(s) + 1
      /\ Append(s, e)[Len(s) + 1] = e
      /\ \A i \in 1 .. Len(s) : Append(s, e)[i] = s[i]
  BY LenProperties, AppendProperties
<1>2. IsFiniteSet(Hits(s, V)) /\ Cardinality(Hits(s, V)) \in Nat
  <2>1. IsFiniteSet(1 .. Len(s))
    BY <1>1, FS_Interval
  <2>2. Hits(s, V) \subseteq 1 .. Len(s)
    BY <1>1 DEF Hits
  <2> QED
    BY <2>1, <2>2, FS_Subset, FS_CardinalityType
<1>3. DOMAIN Append(s, e) = DOMAIN s \cup {Len(s) + 1} /\ Len(s) + 1 \notin DOMAIN s
  BY <1>1
<1>4. ASSUME e \in V
      PROVE  Cardinality(Hits(Append(s, e), V)) = Cardinality(Hits(s, V)) + 1
  <2>1. Hits(Append(s, e), V) = Hits(s, V) \cup {Len(s) + 1} /\ Len(s) + 1 \notin Hits(s, V)
    BY <1>1, <1>3, <1>4 DEF Hits
  <2> QED
    BY <1>2, <2>1, FS_AddElement
<1>5. ASSUME e \notin V
      PROVE  Hits(Append(s, e), V) = Hits(s, V)
  BY <1>1, <1>3, <1>5 DEF Hits
<1> QED
  BY <1>2, <1>4, <1>5

\* What is picked is of the sequence, and as often as it is there.
LEMMA PickedFacts ==
    ASSUME NEW T, NEW s \in Seq(T), NEW positions, NEW V
    PROVE  /\ Picked(s, positions) \in Seq(T)
           /\ \A k \in DOMAIN Picked(s, positions) :
                \E i \in DOMAIN s : i \in positions /\ Picked(s, positions)[k] = s[i]
           /\ Cardinality(Hits(Picked(s, positions), V)) =
                Cardinality({i \in Hits(s, V) : i \in positions})
<1>1. Len(s) \in Nat /\ DOMAIN s = 1 .. Len(s)
  BY LenProperties
<1> PICK m \in Nat : m = Len(s)
  BY <1>1
<1>2. PICK pick : Picking(pick, s, positions) /\ Picked(s, positions) = pick[m]
  BY <1>1, PickedSteps
<1> DEFINE from(n) == {i \in Hits(s, V) : i \in positions /\ i <= n}
           Good(n) == /\ pick[n] \in Seq(T)
                      /\ \A k \in DOMAIN pick[n] :
                            \E i \in DOMAIN s : i \in positions /\ pick[n][k] = s[i]
                      /\ Cardinality(Hits(pick[n], V)) = Cardinality(from(n))
           G == {n \in 0 .. m : Good(n)}
<1>3. 0 \in G
  <2>1. pick[0] = <<>>
    BY <1>2 DEF Picking
  <2>2. from(0) = {} /\ Hits(<<>>, V) = {}
    BY <1>1 DEF Hits
  <2>3. <<>> \in Seq(T) /\ DOMAIN <<>> = {}
    BY EmptySeq
  <2>4. Good(0)
    <3> HIDE DEF from
    <3>1. /\ pick[0] \in Seq(T) /\ DOMAIN pick[0] = {}
          /\ Cardinality(Hits(pick[0], V)) = Cardinality(from(0))
      BY <2>1, <2>2, <2>3
    <3> QED
      BY <3>1
  <2> HIDE DEF Good
  <2> QED
    BY <2>4
<1>4. ASSUME NEW n \in 1 .. m, n - 1 \in G
      PROVE  n \in G
  <2>1. n \in Nat /\ n \in DOMAIN s /\ s[n] \in T /\ n - 1 \in Nat
    BY <1>1, ElementOfSeq
  <2>2. pick[n] = IF n \in positions THEN Append(pick[n - 1], s[n]) ELSE pick[n - 1]
    BY <1>2 DEF Picking
  <2>3. Good(n - 1)
    BY <1>4
  <2> PICK q : q = pick[n - 1]
    OBVIOUS
  <2>4. q \in Seq(T) /\ Len(q) \in Nat /\ DOMAIN q = 1 .. Len(q)
    BY <2>3, LenProperties
  <2>5. ASSUME NEW i \in Hits(s, V)
        PROVE  i <= n <=> i <= n - 1 \/ i = n
    <3>1. i \in Nat
      BY <1>1 DEF Hits
    <3> QED
      BY <2>1, <3>1
  <2>6. CASE n \in positions
    <3>1. pick[n] = Append(q, s[n]) /\ pick[n] \in Seq(T)
      BY <2>1, <2>2, <2>4, <2>6
    <3>2. /\ DOMAIN pick[n] = 1 .. Len(q) + 1 /\ pick[n][Len(q) + 1] = s[n]
          /\ \A k \in 1 .. Len(q) : pick[n][k] = q[k]
      BY <2>1, <2>4, <3>1, AppendProperties
    <3>3. ASSUME NEW k \in DOMAIN pick[n]
          PROVE  \E i \in DOMAIN s : i \in positions /\ pick[n][k] = s[i]
      <4>1. k \in 1 .. Len(q) \/ k = Len(q) + 1
        BY <2>4, <3>2
      <4> QED
        BY <2>1, <2>3, <2>4, <2>6, <3>2, <4>1
    <3>4. Cardinality(Hits(pick[n], V)) = Cardinality(from(n))
      <4>1. CASE s[n] \in V
        <5>1. n \in Hits(s, V) /\ n \notin from(n - 1)
          BY <2>1, <4>1 DEF Hits
        <5>2. from(n) = from(n - 1) \cup {n}
          BY <2>5, <2>6, <5>1, <2>1
        <5>3. IsFiniteSet(from(n - 1))
          BY <2>1, AppendHits, FS_Subset
        <5>4. Cardinality(from(n)) = Cardinality(from(n - 1)) + 1
          <6> HIDE DEF from
          <6> QED
            BY <5>1, <5>2, <5>3, FS_AddElement
        <5>5. Cardinality(Hits(Append(q, s[n]), V)) = Cardinality(Hits(q, V)) + 1
          BY <2>1, <2>4, <4>1, AppendHits
        <5> HIDE DEF from
        <5> QED
          BY <2>3, <3>1, <5>4, <5>5
      <4>2. CASE s[n] \notin V
        <5>1. from(n) = from(n - 1)
          BY <2>5, <4>2 DEF Hits
        <5>2. Hits(Append(q, s[n]), V) = Hits(q, V)
          BY <2>1, <2>4, <4>2, AppendHits
        <5> HIDE DEF from
        <5> QED
          BY <2>3, <3>1, <5>1, <5>2
      <4> QED
        BY <4>1, <4>2
    <3> HIDE DEF from
    <3>5. Good(n)
      BY <3>1, <3>3, <3>4, Zenon
    <3> HIDE DEF Good
    <3> QED
      BY <2>1, <3>5
  <2>7. CASE n \notin positions
    <3>1. from(n) = from(n - 1)
      BY <2>5, <2>7
    <3> HIDE DEF from
    <3> QED
      BY <2>2, <2>3, <2>7, <3>1
  <2> QED
    BY <2>6, <2>7
<1>5. m \in G
  <2> HIDE DEF G
  <2>1. \A n \in 0 .. m : n \in G
    BY <1>3, <1>4, Induction
  <2> QED
    BY <2>1
<1>6. from(m) = {i \in Hits(s, V) : i \in positions}
  <2>1. ASSUME NEW i \in Hits(s, V) PROVE i <= m
    BY <1>1 DEF Hits
  <2> QED
    BY <2>1
<1> HIDE DEF from
<1> QED
  BY <1>2, <1>5, <1>6

-----------------------------------------------------------------------------
(* Files: HookFile.                                                        *)

\* The commands of the user in a list of matcher entries.
Commands(entries) == Cardinality({i \in DOMAIN entries : Yours \in entries[i]})
\* No entry has both our command and the user's.
Pure(entries) == \A i \in DOMAIN entries : ~ (Ours \in entries[i] /\ Yours \in entries[i])
\* Our command is in one entry at most.
AtMostOne(entries) == \A i, j \in OursIn(entries) : i = j

\* The entries with a command of the user's.
WithYours == {e \in Entries : Yours \in e}

\* The commands, the entries and the empty sequence are what they are named for.
LEMMA EntryFacts ==
    /\ Ours # Yours /\ {Ours} \in Entries /\ {Yours} \in Entries /\ {Ours, Yours} \in Entries
    /\ {Ours} \notin WithYours /\ {Yours} \in WithYours
    /\ <<>> \in Seq(Entries) /\ DOMAIN <<>> = {}
<1>1. Ours # Yours
  BY DEF Ours, Yours
<1>2. {Ours} \in Entries /\ {Yours} \in Entries /\ {Ours, Yours} \in Entries
  <2> QED
    BY DEF Entries
<1> QED
  BY <1>1, <1>2, EmptySeq DEF WithYours

\* The user's commands are where a sequence hits the entries with one.
LEMMA CommandsAreHits ==
    ASSUME NEW es \in Seq(Entries)
    PROVE  Commands(es) = Cardinality(Hits(es, WithYours)) /\ Commands(es) \in Nat
<1>1. \A i \in DOMAIN es : es[i] \in Entries
  BY ElementOfSeq, LenProperties
<1>2. {i \in DOMAIN es : Yours \in es[i]} = Hits(es, WithYours)
  BY <1>1 DEF Hits, WithYours
<1>3. Cardinality(Hits(es, WithYours)) \in Nat
  BY AppendHits, EntryFacts, Zenon
<1> QED
  BY <1>2, <1>3 DEF Commands

\* Without keeps the user's commands and none of ours.
LEMMA WithoutFacts ==
    ASSUME NEW es \in Seq(Entries)
    PROVE  /\ Without(es) \in Seq(Entries)
           /\ OursIn(Without(es)) = {}
           /\ Pure(Without(es)) /\ AtMostOne(Without(es))
           /\ Pure(es) => Commands(Without(es)) = Commands(es)
           /\ DOMAIN es = {} => DOMAIN Without(es) = {}
<1> PICK positions : positions = DOMAIN es \ OursIn(es)
  OBVIOUS
<1>0. Without(es) = Picked(es, positions)
  BY DEF Without
<1>1. /\ Without(es) \in Seq(Entries)
      /\ \A k \in DOMAIN Without(es) :
            \E i \in DOMAIN es : i \in positions /\ Without(es)[k] = es[i]
      /\ Cardinality(Hits(Without(es), WithYours)) =
            Cardinality({i \in Hits(es, WithYours) : i \in positions})
  <2>1. Picked(es, positions) \in Seq(Entries)
    BY PickedFacts
  <2>2. Cardinality(Hits(Picked(es, positions), WithYours)) =
            Cardinality({i \in Hits(es, WithYours) : i \in positions})
    BY PickedFacts
  <2>3. \A k \in DOMAIN Picked(es, positions) :
            \E i \in DOMAIN es : i \in positions /\ Picked(es, positions)[k] = es[i]
    BY <2>2, PickedFacts
  <2> QED
    BY <1>0, <2>1, <2>2, <2>3
<1>2. \A k \in DOMAIN Without(es) : Ours \notin Without(es)[k]
  BY <1>1 DEF OursIn
<1>3. OursIn(Without(es)) = {} /\ Pure(Without(es)) /\ AtMostOne(Without(es))
  BY <1>2 DEF OursIn, Pure, AtMostOne
<1>4. ASSUME Pure(es)
      PROVE  Commands(Without(es)) = Commands(es)
  <2>1. {i \in Hits(es, WithYours) : i \in positions} = Hits(es, WithYours)
    BY <1>4 DEF Pure, Hits, WithYours, OursIn
  <2> QED
    BY <1>1, <2>1, CommandsAreHits
<1> QED
  BY <1>1, <1>3, <1>4

\* One more entry of ours or of the user.
LEMMA AppendEntry ==
    ASSUME NEW es \in Seq(Entries), NEW e \in {{Ours}, {Yours}}
    PROVE  /\ Append(es, e) \in Seq(Entries) /\ Append(es, e) # <<>>
           /\ Pure(es) => Pure(Append(es, e))
           /\ e = {Ours} => /\ OursIn(Append(es, e)) # {}
                            /\ Commands(Append(es, e)) = Commands(es)
                            /\ OursIn(es) = {} => AtMostOne(Append(es, e))
           /\ e = {Yours} => OursIn(Append(es, e)) = OursIn(es)
<1>0. e \in Entries
  BY EntryFacts
<1>1. /\ Len(es) \in Nat /\ DOMAIN es = 1 .. Len(es)
      /\ DOMAIN Append(es, e) = 1 .. Len(es) + 1
      /\ Append(es, e)[Len(es) + 1] = e
      /\ \A i \in 1 .. Len(es) : Append(es, e)[i] = es[i]
  BY <1>0, LenProperties, AppendProperties
<1>2. Append(es, e) \in Seq(Entries) /\ Append(es, e) # <<>>
  BY <1>0, <1>1, AppendProperties
<1>3. DOMAIN Append(es, e) = DOMAIN es \cup {Len(es) + 1} /\ Len(es) + 1 \notin DOMAIN es
  BY <1>1
<1>4. ASSUME Pure(es)
      PROVE  Pure(Append(es, e))
  BY <1>1, <1>3, <1>4, EntryFacts DEF Pure
<1>5. ASSUME e = {Ours}
      PROVE  /\ OursIn(Append(es, e)) = OursIn(es) \cup {Len(es) + 1}
             /\ Commands(Append(es, e)) = Commands(es)
  <2>1. OursIn(Append(es, e)) = OursIn(es) \cup {Len(es) + 1}
    BY <1>1, <1>3, <1>5 DEF OursIn
  <2>2. Hits(Append(es, e), WithYours) = Hits(es, WithYours)
    BY <1>0, <1>5, AppendHits, EntryFacts
  <2>3. Commands(Append(es, e)) = Commands(es)
    BY <1>2, <2>2, CommandsAreHits
  <2> QED
    BY <2>1, <2>3
<1>6. ASSUME e = {Yours}
      PROVE  OursIn(Append(es, e)) = OursIn(es)
  BY <1>1, <1>3, <1>6, EntryFacts DEF OursIn
<1> QED
  BY <1>2, <1>4, <1>5, <1>6 DEF AtMostOne

\* What the user has in a file, part by part.
LEMMA OwnedFacts ==
    ASSUME NEW f, NEW g, f.json \in Object, g.json \in Object,
           Commands(f.json.entries) = Commands(g.json.entries),
           Commands(f.json.legacy) = Commands(g.json.legacy),
           f.json.others = g.json.others, f.json.rest = g.json.rest
    PROVE  Owned(f) = Owned(g)
BY DEF Owned, Commands

\* Objects with other entries.
LEMMA ObjectFields ==
    ASSUME NEW o \in Object
    PROVE  /\ o.hooks \in {"absent", "object", "other"} /\ o.stop \in {"absent", "array", "other"}
           /\ o.entries \in Seq(Entries) /\ o.legacy \in Seq(Entries)
           /\ o.others \in BOOLEAN /\ o.rest \in BOOLEAN
           /\ o = [hooks |-> o.hooks, stop |-> o.stop, entries |-> o.entries,
                   legacy |-> o.legacy, others |-> o.others, rest |-> o.rest]
BY DEF Object

\* The object of an empty or absent file has no entry of anybody's.
LEMMA EmptyFacts ==
    /\ EmptyObject \in Object /\ Tidy(EmptyObject) /\ Accepts(EmptyObject)
    /\ OursIn(EmptyObject.entries) = {} /\ OursIn(EmptyObject.legacy) = {}
    /\ Pure(EmptyObject.entries) /\ Pure(EmptyObject.legacy) /\ AtMostOne(EmptyObject.entries)
    /\ \A f \in {Missing, Empty, Broken, Array} : f.json = EmptyObject /\ IsFile(f)
    /\ Missing.kind = "missing" /\ Empty.kind = "empty"
    /\ Broken.kind = "broken" /\ Array.kind = "array"
<1>1. EmptyObject \in Object
  BY EntryFacts DEF EmptyObject, Object
<1>2. Tidy(EmptyObject) /\ Accepts(EmptyObject)
  BY DEF EmptyObject, Tidy, Accepts
<1>3. OursIn(<<>>) = {} /\ Pure(<<>>)
  BY EntryFacts DEF OursIn, Pure
<1>4. EmptyObject.entries = <<>> /\ EmptyObject.legacy = <<>>
  BY DEF EmptyObject
<1>5. AtMostOne(<<>>)
  BY <1>3 DEF AtMostOne
<1>6. ASSUME NEW f \in {Missing, Empty, Broken, Array}
      PROVE  f.json = EmptyObject /\ IsFile(f)
  BY <1>1, <1>2 DEF Missing, Empty, Broken, Array, IsFile
<1>7. /\ Missing.kind = "missing" /\ Empty.kind = "empty"
      /\ Broken.kind = "broken" /\ Array.kind = "array"
  BY DEF Missing, Empty, Broken, Array
<1> QED
  BY <1>1, <1>2, <1>3, <1>4, <1>5, <1>6, <1>7

\* A JSON file has its object.
LEMMA JsonFacts ==
    ASSUME NEW o \in Object
    PROVE  Json(o).json = o /\ Json(o).kind = "json" /\ (Tidy(o) => IsFile(Json(o)))
BY DEF Json, IsFile

\* An entry of ours is added, unless there is one.
LEMMA AddStopFacts ==
    ASSUME NEW o \in Object, Accepts(o), Tidy(o), NEW n, n = AddStop(o, {Ours})
    PROVE  /\ n \in Object /\ Tidy(n) /\ Accepts(n)
           /\ OursIn(n.entries) # {}
           /\ AtMostOne(o.entries) => AtMostOne(n.entries)
           /\ Pure(o.entries) => Pure(n.entries)
           /\ Owned(Json(n)) = Owned(Json(o)) /\ n.legacy = o.legacy
<1> PICK es : es = IF OursIn(o.entries) = {} THEN Append(o.entries, {Ours}) ELSE o.entries
  OBVIOUS
<1>1. /\ es \in Seq(Entries) /\ es # <<>> /\ OursIn(es) # {}
      /\ AtMostOne(o.entries) => AtMostOne(es)
      /\ Pure(o.entries) => Pure(es)
      /\ Commands(es) = Commands(o.entries)
  <2>1. CASE OursIn(o.entries) = {}
    BY <2>1, ObjectFields, AppendEntry
  <2>2. CASE OursIn(o.entries) # {}
    <3>1. o.entries # <<>>
      BY <2>2, EmptyFacts DEF EmptyObject
    <3> QED
      BY <2>2, <3>1, ObjectFields
  <2> QED
    BY <2>1, <2>2
<1>2. n = [o EXCEPT !.hooks = "object", !.stop = "array", !.entries = es]
  BY DEF AddStop
<1>3. /\ n \in Object /\ n.hooks = "object" /\ n.stop = "array" /\ n.entries = es
      /\ n.legacy = o.legacy /\ n.others = o.others /\ n.rest = o.rest
  BY <1>1, <1>2 DEF Object
<1>4. Tidy(n) /\ Accepts(n)
  BY <1>1, <1>3 DEF Tidy, Accepts
<1>5. Owned(Json(n)) = Owned(Json(o))
  BY <1>1, <1>3, JsonFacts, OwnedFacts
<1> QED
  BY <1>1, <1>3, <1>4, <1>5

\* Our entries and the containers that this leaves empty are dropped.
LEMMA DropFacts ==
    ASSUME NEW o \in Object, Accepts(o), Tidy(o),
           NEW m \in Object, m.hooks = o.hooks, m.stop = o.stop,
           m.entries = Without(o.entries), Commands(m.legacy) = Commands(o.legacy),
           m.others = o.others, m.rest = o.rest,
           NEW n, n = DropEmptyHooks(DropEmptyStop(m))
    PROVE  /\ n \in Object /\ Tidy(n) /\ Accepts(n)
           /\ n.entries = Without(o.entries) /\ n.legacy = m.legacy
           /\ OursIn(n.entries) = {} /\ Pure(n.entries) /\ AtMostOne(n.entries)
           /\ Pure(o.entries) => Owned(Json(n)) = Owned(Json(o))
<1>1. /\ Without(o.entries) \in Seq(Entries) /\ OursIn(Without(o.entries)) = {}
      /\ Pure(Without(o.entries)) /\ AtMostOne(Without(o.entries))
      /\ Pure(o.entries) => Commands(Without(o.entries)) = Commands(o.entries)
  BY ObjectFields, WithoutFacts
<1> PICK d : d = DropEmptyStop(m)
  OBVIOUS
<1>3. /\ d \in Object /\ d.hooks = o.hooks /\ d.entries = m.entries /\ d.legacy = m.legacy
      /\ d.others = o.others /\ d.rest = o.rest
      /\ d.stop = IF m.entries = <<>> THEN "absent" ELSE o.stop
  BY DEF DropEmptyStop, Object
<1>4. /\ n \in Object /\ n.entries = d.entries /\ n.legacy = m.legacy
      /\ n.others = o.others /\ n.rest = o.rest /\ n.stop = d.stop
      /\ n.hooks = IF d.stop = "absent" /\ ~ o.others THEN "absent" ELSE o.hooks
  BY <1>3 DEF DropEmptyHooks, Object
<1>5. o.stop # "array" => Without(o.entries) = <<>>
  <2>1. ASSUME o.entries = <<>>
        PROVE  Without(o.entries) = <<>>
    <3>1. DOMAIN Without(o.entries) = {}
      BY <2>1, EntryFacts, ObjectFields, WithoutFacts
    <3> QED
      BY <1>1, <3>1, EmptySeq, LenProperties
  <2> QED
    BY <2>1 DEF Tidy
<1>6. Tidy(n) /\ Accepts(n)
  <2>1. o.hooks \in {"absent", "object"} /\ o.stop \in {"absent", "array"} /\ o.others \in BOOLEAN
    BY ObjectFields DEF Accepts
  <2>2. (o.hooks = "object" <=> o.stop # "absent" \/ o.others) /\ (o.stop = "array" <=> o.entries # <<>>)
    BY DEF Tidy
  <2> QED
    BY <1>3, <1>4, <1>5, <2>1, <2>2 DEF Tidy, Accepts
<1>7. ASSUME Pure(o.entries)
      PROVE  Owned(Json(n)) = Owned(Json(o))
  BY <1>1, <1>3, <1>4, <1>7, JsonFacts, OwnedFacts
<1> QED
  BY <1>1, <1>3, <1>4, <1>6, <1>7

-----------------------------------------------------------------------------
(* Claude's files: ClaudeHooks.                                            *)

\* A command may change a file that it understands.
Writable(f) == f.kind \notin {"broken", "array"} /\ Accepts(f.json)

\* What every list of stop entries keeps.
EntriesOK(entries) == AtMostOne(entries) /\ (~ SharesEntry => Pure(entries))
FileOK(f) == IsFile(f) /\ EntriesOK(f.json.entries)
JsonOK(o) == o \in Object /\ Tidy(o) /\ Accepts(o) /\ EntriesOK(o.entries)

\* A command that is going to write, or in the middle of it; one that has begun and not ended.
Writing(r) == r.pc \in {"truncate", "write", "remove"}
Active(r) == r.pc = "read" \/ Writing(r)

\* What holds of a command wherever it is.
ProcOK(r) ==
    /\ r \in [pc: {"idle", "read", "truncate", "write", "remove", "done"},
              op: {"install", "uninstall", None},
              path: Paths \cup {None},
              json: Object,
              result: {"ok", "none", "error", None}]
    /\ Active(r) => r.op \in {"install", "uninstall"} /\ r.path \in Paths
    /\ Writing(r) => JsonOK(r.json)
    /\ Writing(r) /\ r.op = "install" => OursIn(r.json.entries) # {} /\ r.pc # "remove"
    /\ r.pc = "remove" => r.json = EmptyObject

StateOK ==
    /\ file = [path \in Paths |-> file[path]]
    /\ mine = [path \in Paths |-> mine[path]]
    /\ proc = [p \in Procs |-> proc[p]]
    /\ \A path \in Paths : FileOK(file[path])
    /\ \A p \in Procs : ProcOK(proc[p])
    /\ faults \subseteq {"overlap", "kill"}
    /\ edits \in 0 .. MaxEdits

\* What a command is about to write, it may still write.
MayWrite == \A p \in Procs : Writing(proc[p]) => Writable(file[proc[p].path])

\* Without overlaps there is one command at a time.
Alone ==
    "overlap" \notin faults =>
        \A p, q \in Procs : proc[p].pc # "idle" /\ proc[q].pc # "idle" => p = q

\* The result of an install is there until the next command or edit.
InstallDone(r) == r.pc = "done" /\ r.op = "install" /\ r.result = "ok"
InEffect ==
    "overlap" \notin faults =>
        \A p \in Procs : InstallDone(proc[p]) =>
            proc[p].path \in Paths /\ OursIn(file[proc[p].path].json.entries) # {}

\* Every file has the user's part, or a command is about to write it back.
InHands ==
    ~ SharesEntry /\ faults = {} =>
        /\ \A path \in Paths :
            \/ Owned(file[path]) = mine[path]
            \/ \E p \in Procs : proc[p].pc = "write" /\ proc[p].path = path
        /\ \A p \in Procs : Writing(proc[p]) => Owned(Json(proc[p].json)) = mine[proc[p].path]

ClaudeInv == StateOK /\ MayWrite /\ Alone /\ InEffect /\ InHands

\* The parts of ProcOK for records with other fields.
LEMMA IdleFacts == ProcOK(Idle) /\ Idle.pc = "idle" /\ ~ Writing(Idle)
BY EmptyFacts DEF Idle, ProcOK, Active, Writing

\* Owned looks at the object of a file only.
LEMMA OwnedJson ==
    ASSUME NEW f
    PROVE  Owned(f) = Owned(Json(f.json))
BY DEF Owned, Json

\* The invariant holds at first.
LEMMA ClaudeInit == Init => ClaudeInv
<1> SUFFICES ASSUME Init PROVE ClaudeInv
  OBVIOUS
<1> USE HooksAssumption DEF HooksAssumption
<1>1. ASSUME NEW f \in InitialFiles
      PROVE  FileOK(f)
  <2>1. CASE f \in {Missing, Empty, Broken, Array}
    BY <2>1, EmptyFacts DEF FileOK, EntriesOK
  <2>2. CASE f \notin {Missing, Empty, Broken, Array}
    <3>1. /\ <<{Yours}>> \in Seq(Entries) /\ DOMAIN <<{Yours}>> = {1} /\ <<{Yours}>>[1] = {Yours}
          /\ <<{Yours}>> # <<>>
      BY EntryFacts
    <3>2. OursIn(<<{Yours}>>) = {} /\ Pure(<<{Yours}>>) /\ OursIn(<<>>) = {} /\ Pure(<<>>)
      BY <3>1, EntryFacts DEF OursIn, Pure
    <3>3. AtMostOne(<<{Yours}>>) /\ AtMostOne(<<>>)
      BY <3>2 DEF AtMostOne
    <3>4. PICK o : /\ f = Json(o) /\ o \in Object /\ Tidy(o)
                   /\ o.entries \in {<<>>, <<{Yours}>>}
      <4>1. \A o : o = [EmptyObject EXCEPT !.rest = TRUE] =>
                o \in Object /\ Tidy(o) /\ o.entries = <<>>
        BY EntryFacts DEF EmptyObject, Object, Tidy
      <4>2. \A o : o = [EmptyObject EXCEPT !.hooks = "other"] =>
                o \in Object /\ Tidy(o) /\ o.entries = <<>>
        BY EntryFacts DEF EmptyObject, Object, Tidy
      <4>3. \A o : o = [EmptyObject EXCEPT !.hooks = "object", !.stop = "other"] =>
                o \in Object /\ Tidy(o) /\ o.entries = <<>>
        BY EntryFacts DEF EmptyObject, Object, Tidy
      <4>4. \A o : o = [EmptyObject EXCEPT !.hooks = "object", !.stop = "array",
                                           !.entries = <<{Yours}>>] =>
                o \in Object /\ Tidy(o) /\ o.entries = <<{Yours}>>
        BY <3>1, EntryFacts DEF EmptyObject, Object, Tidy
      <4> QED
        BY <2>2, <4>1, <4>2, <4>3, <4>4, Zenon DEF InitialFiles
    <3>5. EntriesOK(o.entries)
      BY <3>2, <3>3, <3>4 DEF EntriesOK
    <3> QED
      BY <3>4, <3>5, JsonFacts DEF FileOK
  <2> QED
    BY <2>1, <2>2
<1>2. StateOK
  BY <1>1, IdleFacts DEF Init, StateOK
<1>3. \A p \in Procs : proc[p] = Idle
  BY DEF Init
<1>4. MayWrite /\ Alone /\ InEffect /\ InHands
  BY <1>2, <1>3, IdleFacts DEF Init, MayWrite, Alone, InEffect, InHands, InstallDone, StateOK
<1> QED
  BY <1>2, <1>4 DEF ClaudeInv

\* A step of a command that leaves it at r and its file at f.
LEMMA CommandStep ==
    ASSUME ClaudeInv, NEW p \in Procs, NEW path \in Paths, NEW r, NEW f,
           Active(proc[p]), path = proc[p].path,
           proc' = [q \in Procs |-> IF q = p THEN r ELSE proc[q]],
           file' = [k \in Paths |-> IF k = path THEN f ELSE file[k]],
           mine' = mine, edits' = edits,
           faults \subseteq faults', faults' \subseteq {"overlap", "kill"},
           ProcOK(r), FileOK(f),
           Writable(file[path]) => Writable(f),
           Writing(r) => r.path = path /\ Writable(f),
           InstallDone(r) => r.path = path /\ OursIn(f.json.entries) # {},
           ~ SharesEntry /\ faults' = {} =>
                /\ Owned(f) = mine[path] \/ r.pc = "write"
                /\ Writing(r) => Owned(Json(r.json)) = mine[path]
    PROVE  ClaudeInv'
<1>1. StateOK'
  <2>1. file' = [k \in Paths |-> file'[k]] /\ proc' = [q \in Procs |-> proc'[q]]
    BY Zenon
  <2> QED
    BY <2>1 DEF ClaudeInv, StateOK
<1>2. MayWrite'
  <2> SUFFICES ASSUME NEW q \in Procs, Writing(proc'[q])
               PROVE  Writable(file'[proc'[q].path])
    BY DEF MayWrite, Writing
  <2>1. CASE q = p
    BY <2>1
  <2>2. CASE q # p
    <3>1. proc'[q] = proc[q] /\ Writable(file[proc[q].path]) /\ proc[q].path \in Paths
      BY <2>2 DEF ClaudeInv, MayWrite, StateOK, ProcOK, Active
    <3> QED
      BY <3>1
  <2> QED
    BY <2>1, <2>2
<1>3. proc[p].pc # "idle"
  BY DEF Active, Writing
<1>4. Alone'
  BY <1>3 DEF ClaudeInv, Alone
<1>5. InEffect'
  <2> SUFFICES ASSUME "overlap" \notin faults', NEW q \in Procs, InstallDone(proc'[q])
               PROVE  proc'[q].path \in Paths /\ OursIn(file'[proc'[q].path].json.entries) # {}
    BY DEF InEffect, InstallDone
  <2>1. CASE q = p
    BY <2>1
  <2>2. CASE q # p
    <3>1. proc'[q] = proc[q] /\ proc[q].pc # "idle"
      BY <2>2 DEF InstallDone
    <3> QED
      BY <1>3, <2>2, <3>1 DEF ClaudeInv, Alone
  <2> QED
    BY <2>1, <2>2
<1>6. InHands'
  <2> SUFFICES ASSUME ~ SharesEntry, faults' = {}
               PROVE  /\ \A k \in Paths :
                            \/ Owned(file'[k]) = mine[k]
                            \/ \E q \in Procs : proc'[q].pc = "write" /\ proc'[q].path = k
                      /\ \A q \in Procs : Writing(proc'[q]) =>
                            Owned(Json(proc'[q].json)) = mine[proc'[q].path]
    BY Zenon DEF InHands, Writing, Owned, Json
  <2>1. ASSUME NEW q \in Procs, proc[q].pc # "idle"
        PROVE  q = p
    BY <1>3, <2>1 DEF ClaudeInv, Alone
  <2>2. ASSUME NEW k \in Paths
        PROVE  \/ Owned(file'[k]) = mine[k]
               \/ \E q \in Procs : proc'[q].pc = "write" /\ proc'[q].path = k
    <3>1. CASE k = path
      <4>1. file'[k] = f /\ proc'[p] = r
        BY <3>1
      <4>2. r.pc = "write" => r.path = path
        BY DEF Writing
      <4> QED
        BY <3>1, <4>1, <4>2
    <3>2. CASE k # path
      <4>1. Owned(file[k]) = mine[k]
        BY <2>1, <3>2 DEF ClaudeInv, InHands
      <4> QED
        BY <3>2, <4>1
    <3> QED
      BY <3>1, <3>2
  <2>3. ASSUME NEW q \in Procs, Writing(proc'[q])
        PROVE  Owned(Json(proc'[q].json)) = mine[proc'[q].path]
    <3>1. CASE q = p
      BY <2>3, <3>1
    <3>2. CASE q # p
      <4>1. proc'[q] = proc[q] /\ proc[q].pc = "idle"
        BY <2>1, <3>2
      <4> QED
        BY <2>3, <4>1 DEF Writing
    <3> QED
      BY <3>1, <3>2
  <2> QED
    BY <2>2, <2>3
<1> QED
  BY <1>1, <1>2, <1>4, <1>5, <1>6 DEF ClaudeInv

\* Before it writes, the user's part is still in the file of a lone command.
LEMMA StillMine ==
    ASSUME ClaudeInv, NEW p \in Procs, Active(proc[p]), proc[p].pc # "write",
           ~ SharesEntry, faults = {}
    PROVE  Owned(file[proc[p].path]) = mine[proc[p].path]
<1>1. proc[p].pc # "idle" /\ proc[p].path \in Paths
  BY DEF Active, Writing, ClaudeInv, StateOK, ProcOK
<1>2. \A q \in Procs : proc[q].pc = "write" => q = p
  BY <1>1 DEF ClaudeInv, Alone
<1> QED
  BY <1>1, <1>2 DEF ClaudeInv, InHands

\* A command that ends without having changed anything.
LEMMA FinishUnchanged ==
    ASSUME ClaudeInv, NEW p \in Procs, proc[p].pc = "read",
           NEW result0 \in {"ok", "none", "error"}, Finish(p, result0),
           proc[p].op = "install" => result0 # "ok",
           UNCHANGED <<file, mine, faults, edits>>
    PROVE  ClaudeInv'
<1> PICK r : r = [proc[p] EXCEPT !.pc = "done", !.result = result0]
  OBVIOUS
<1> PICK path : path = proc[p].path
  OBVIOUS
<1>1. /\ StateOK /\ ProcOK(proc[p]) /\ path \in Paths /\ FileOK(file[path])
      /\ Active(proc[p]) /\ faults \subseteq {"overlap", "kill"}
      /\ proc = [q \in Procs |-> proc[q]] /\ file = [k \in Paths |-> file[k]]
  BY DEF ClaudeInv, StateOK, ProcOK, Active
<1>2. r.pc = "done" /\ r.op = proc[p].op /\ r.path = path /\ r.result = result0 /\ ProcOK(r)
  BY <1>1 DEF ProcOK, Active, Writing
<1>3. proc' = [q \in Procs |-> IF q = p THEN r ELSE proc[q]]
  BY <1>1 DEF Finish
<1>4. file' = [k \in Paths |-> IF k = path THEN file[path] ELSE file[k]]
  BY <1>1
<1>5. ~ Writing(r) /\ ~ InstallDone(r)
  BY <1>2 DEF Writing, InstallDone
<1>6. ~ SharesEntry /\ faults = {} => Owned(file[path]) = mine[path]
  BY <1>1, StillMine
<1> QED
  BY <1>1, <1>2, <1>3, <1>4, <1>5, <1>6, CommandStep

\* A command that has read its file and computed what it writes.
LEMMA ComputedStep ==
    ASSUME ClaudeInv, NEW p \in Procs, proc[p].pc = "read",
           NEW o, o = file[proc[p].path].json, Writable(file[proc[p].path]),
           NEW n, JsonOK(n), ~ SharesEntry => Owned(Json(n)) = Owned(Json(o)),
           NEW pc0 \in {"truncate", "remove"}, pc0 = "remove" => n = EmptyObject,
           proc[p].op = "install" => OursIn(n.entries) # {} /\ pc0 = "truncate",
           proc' = [proc EXCEPT ![p].pc = pc0, ![p].json = n],
           UNCHANGED <<file, mine, faults, edits>>
    PROVE  ClaudeInv'
<1> PICK r : r = [proc[p] EXCEPT !.pc = pc0, !.json = n]
  OBVIOUS
<1> PICK path : path = proc[p].path
  OBVIOUS
<1>1. /\ StateOK /\ ProcOK(proc[p]) /\ path \in Paths /\ FileOK(file[path])
      /\ Active(proc[p]) /\ faults \subseteq {"overlap", "kill"}
      /\ proc = [q \in Procs |-> proc[q]] /\ file = [k \in Paths |-> file[k]]
  BY DEF ClaudeInv, StateOK, ProcOK, Active
<1>2. /\ r.pc = pc0 /\ r.op = proc[p].op /\ r.path = path /\ r.json = n
      /\ r.result = proc[p].result
      /\ r = [pc |-> pc0, op |-> proc[p].op, path |-> path, json |-> n, result |-> proc[p].result]
  BY <1>1 DEF ProcOK
<1>3. n \in Object
  BY DEF JsonOK
<1>4. ProcOK(r)
  BY <1>1, <1>2, <1>3 DEF ProcOK, Active, Writing
<1>5. proc' = [q \in Procs |-> IF q = p THEN r ELSE proc[q]]
  BY <1>1
<1>6. file' = [k \in Paths |-> IF k = path THEN file[path] ELSE file[k]]
  BY <1>1
<1>7. ~ InstallDone(r) /\ Writable(file[path])
  BY <1>2 DEF InstallDone
<1>8. ~ SharesEntry /\ faults = {} =>
        Owned(file[path]) = mine[path] /\ Owned(Json(r.json)) = mine[path]
  BY <1>1, <1>2, StillMine, OwnedJson
<1> QED
  BY <1>1, <1>2, <1>4, <1>5, <1>6, <1>7, <1>8, CommandStep

\* Reading a file and computing what to write preserves the invariant.
LEMMA ReadStep ==
    ASSUME ClaudeInv, NEW p \in Procs, Read(p)
    PROVE  ClaudeInv'
<1> PICK f : f = file[proc[p].path]
  OBVIOUS
<1>1. /\ proc[p].pc = "read" /\ UNCHANGED <<file, mine, faults, edits>>
      /\ CASE f.kind = "missing" /\ proc[p].op = "uninstall" -> Finish(p, "none")
           [] ~ Loads(f)    -> Finish(p, "error")
           [] ~ IsObject(f) -> Finish(p, IF proc[p].op = "install" THEN "error" ELSE "none")
           [] OTHER         -> Compute(p, f.json)
  BY DEF Read, Load
<1>2. FileOK(f) /\ IsFile(f) /\ proc[p].path \in Paths /\ proc[p].op \in {"install", "uninstall"}
  BY <1>1 DEF ClaudeInv, StateOK, ProcOK, Active, FileOK
<1>3. CASE Finish(p, "none") /\ proc[p].op = "uninstall"
  BY <1>1, <1>3, FinishUnchanged
<1>4. CASE Finish(p, "error")
  BY <1>1, <1>4, FinishUnchanged
<1>5. CASE Compute(p, f.json) /\ Loads(f) /\ IsObject(f)
  <2> PICK o : o = f.json
    OBVIOUS
  <2>1. o \in Object /\ Tidy(o) /\ EntriesOK(o.entries)
    BY <1>2 DEF FileOK, IsFile
  <2>2. CASE proc[p].op = "install" /\ Accepts(o)
    <3> PICK n : n = Installed(o)
      OBVIOUS
    <3>1. proc' = [proc EXCEPT ![p].pc = "truncate", ![p].json = n]
      BY <1>5, <2>2 DEF Compute
    <3>2. JsonOK(n) /\ OursIn(n.entries) # {} /\ Owned(Json(n)) = Owned(Json(o))
      BY <2>1, <2>2, AddStopFacts DEF Installed, JsonOK, EntriesOK
    <3>3. Writable(f)
      BY <1>5, <2>2 DEF Writable, Loads, IsObject
    <3> QED
      BY <1>1, <3>1, <3>2, <3>3, ComputedStep
  <2>3. CASE proc[p].op = "install" /\ ~ Accepts(o)
    BY <1>4, <1>5, <2>3 DEF Compute
  <2>4. CASE proc[p].op = "uninstall" /\ Removable(o)
    <3> PICK n : n = Uninstalled(o)
      OBVIOUS
    <3> PICK pc0 : pc0 = IF n = EmptyObject THEN "remove" ELSE "truncate"
      OBVIOUS
    <3>1. proc' = [proc EXCEPT ![p].pc = pc0, ![p].json = n]
      BY <1>5, <2>4 DEF Compute
    <3>2. Accepts(o)
      BY <2>4 DEF Removable, Accepts
    <3>3. PICK m : m = [o EXCEPT !.entries = Without(@)]
      OBVIOUS
    <3>4. /\ m \in Object /\ m.hooks = o.hooks /\ m.stop = o.stop
          /\ m.entries = Without(o.entries) /\ m.legacy = o.legacy
          /\ m.others = o.others /\ m.rest = o.rest
      BY <2>1, <3>3, ObjectFields, WithoutFacts DEF Object
    <3>5. n = DropEmptyHooks(DropEmptyStop(m))
      BY <3>3 DEF Uninstalled
    <3>6. /\ n \in Object /\ Tidy(n) /\ Accepts(n) /\ Pure(n.entries) /\ AtMostOne(n.entries)
          /\ Pure(o.entries) => Owned(Json(n)) = Owned(Json(o))
      BY <2>1, <3>2, <3>4, <3>5, DropFacts
    <3>7. JsonOK(n) /\ (~ SharesEntry => Owned(Json(n)) = Owned(Json(o)))
      BY <2>1, <3>6 DEF JsonOK, EntriesOK
    <3>8. Writable(f)
      BY <1>5, <3>2 DEF Writable, Loads, IsObject
    <3> QED
      BY <1>1, <2>4, <3>1, <3>7, <3>8, ComputedStep
  <2>5. CASE proc[p].op = "uninstall" /\ ~ Removable(o)
    BY <1>3, <1>5, <2>5 DEF Compute
  <2> QED
    BY <1>2, <2>2, <2>3, <2>4, <2>5
<1> QED
  BY <1>1, <1>2, <1>3, <1>4, <1>5

\* Truncating a file that is about to be written preserves it.
LEMMA TruncateStep ==
    ASSUME ClaudeInv, NEW p \in Procs, Truncate(p)
    PROVE  ClaudeInv'
<1> PICK r : r = [proc[p] EXCEPT !.pc = "write"]
  OBVIOUS
<1> PICK path : path = proc[p].path
  OBVIOUS
<1>1. /\ StateOK /\ ProcOK(proc[p]) /\ path \in Paths
      /\ Active(proc[p]) /\ Writing(proc[p]) /\ faults \subseteq {"overlap", "kill"}
      /\ proc = [q \in Procs |-> proc[q]] /\ file = [k \in Paths |-> file[k]]
  BY DEF Truncate, ClaudeInv, StateOK, ProcOK, Active, Writing
<1>2. /\ r.pc = "write" /\ r.op = proc[p].op /\ r.path = path /\ r.json = proc[p].json
      /\ ProcOK(r) /\ ~ InstallDone(r)
  BY <1>1 DEF ProcOK, Active, Writing, InstallDone
<1>3. proc' = [q \in Procs |-> IF q = p THEN r ELSE proc[q]]
  BY <1>1 DEF Truncate
<1>4. file' = [k \in Paths |-> IF k = path THEN Empty ELSE file[k]]
  BY <1>1 DEF Truncate
<1>5. FileOK(Empty) /\ Writable(Empty)
  BY EmptyFacts DEF FileOK, EntriesOK, Writable
<1>6. ~ SharesEntry /\ faults = {} => Owned(Json(r.json)) = mine[path]
  BY <1>1, <1>2 DEF ClaudeInv, InHands
<1>9. faults' = faults /\ mine' = mine /\ edits' = edits
  BY DEF Truncate
<1> QED
  BY <1>1, <1>2, <1>3, <1>4, <1>5, <1>6, <1>9, CommandStep

\* Writing out the computed object preserves it.
LEMMA WriteStep ==
    ASSUME ClaudeInv, NEW p \in Procs, Write(p)
    PROVE  ClaudeInv'
<1> PICK r : r = [proc[p] EXCEPT !.pc = "done", !.result = "ok"]
  OBVIOUS
<1> PICK path : path = proc[p].path
  OBVIOUS
<1> PICK f : f = Json(proc[p].json)
  OBVIOUS
<1>1. /\ StateOK /\ ProcOK(proc[p]) /\ path \in Paths
      /\ Active(proc[p]) /\ Writing(proc[p]) /\ faults \subseteq {"overlap", "kill"}
      /\ proc = [q \in Procs |-> proc[q]] /\ file = [k \in Paths |-> file[k]]
  BY DEF Write, ClaudeInv, StateOK, ProcOK, Active, Writing
<1>2. r.pc = "done" /\ r.op = proc[p].op /\ r.path = path /\ ProcOK(r) /\ ~ Writing(r)
  BY <1>1 DEF ProcOK, Active, Writing
<1>3. proc' = [q \in Procs |-> IF q = p THEN r ELSE proc[q]]
  BY <1>1 DEF Write, Finish
<1>4. file' = [k \in Paths |-> IF k = path THEN f ELSE file[k]]
  BY <1>1 DEF Write
<1>5. f.json = proc[p].json /\ f.kind = "json" /\ FileOK(f) /\ Writable(f)
  BY <1>1, JsonFacts DEF ProcOK, JsonOK, FileOK, Writable
<1>6. ~ SharesEntry /\ faults = {} => Owned(f) = mine[path]
  BY <1>1 DEF ClaudeInv, InHands
<1>7. InstallDone(r) => OursIn(f.json.entries) # {}
  BY <1>1, <1>2, <1>5 DEF InstallDone, ProcOK
<1>9. faults' = faults /\ mine' = mine /\ edits' = edits
  BY DEF Write
<1> QED
  BY <1>1, <1>2, <1>3, <1>4, <1>5, <1>6, <1>7, <1>9, CommandStep

\* Removing a file that would be left empty preserves it.
LEMMA RemoveStep ==
    ASSUME ClaudeInv, NEW p \in Procs, Remove(p)
    PROVE  ClaudeInv'
<1> PICK path : path = proc[p].path
  OBVIOUS
<1> PICK result0 : result0 = IF file[path].kind = "missing" THEN "error" ELSE "ok"
  OBVIOUS
<1> PICK r : r = [proc[p] EXCEPT !.pc = "done", !.result = result0]
  OBVIOUS
<1>1. /\ StateOK /\ ProcOK(proc[p]) /\ path \in Paths
      /\ Active(proc[p]) /\ Writing(proc[p]) /\ faults \subseteq {"overlap", "kill"}
      /\ proc = [q \in Procs |-> proc[q]] /\ file = [k \in Paths |-> file[k]]
  BY DEF Remove, ClaudeInv, StateOK, ProcOK, Active, Writing
<1>2. r.pc = "done" /\ r.op = proc[p].op /\ r.path = path /\ ProcOK(r) /\ ~ Writing(r)
  BY <1>1 DEF ProcOK, Active, Writing
<1>3. proc' = [q \in Procs |-> IF q = p THEN r ELSE proc[q]]
  BY <1>1 DEF Remove, Finish
<1>4. file' = [k \in Paths |-> IF k = path THEN Missing ELSE file[k]]
  BY <1>1 DEF Remove
<1>5. FileOK(Missing) /\ Writable(Missing) /\ Missing.json = EmptyObject
  BY EmptyFacts DEF FileOK, EntriesOK, Writable
<1>6. proc[p].json = EmptyObject /\ proc[p].op # "install" /\ ~ InstallDone(r)
  BY <1>1, <1>2 DEF Remove, ProcOK, InstallDone
<1>7. ~ SharesEntry /\ faults = {} => Owned(Missing) = mine[path]
  BY <1>1, <1>5, <1>6, OwnedJson DEF ClaudeInv, InHands
<1>9. faults' = faults /\ mine' = mine /\ edits' = edits
  BY DEF Remove
<1> QED
  BY <1>1, <1>2, <1>3, <1>4, <1>5, <1>6, <1>7, <1>9, CommandStep

\* A command killed anywhere, its file written in part, preserves it.
LEMMA KilledStep ==
    ASSUME ClaudeInv, NEW p \in Procs, Killed(p)
    PROVE  ClaudeInv'
<1> PICK path : path = proc[p].path
  OBVIOUS
<1>1. /\ StateOK /\ ProcOK(proc[p]) /\ faults \subseteq {"overlap", "kill"}
      /\ proc = [q \in Procs |-> proc[q]] /\ file = [k \in Paths |-> file[k]]
  BY DEF ClaudeInv, StateOK
<1>2. Active(proc[p]) /\ path \in Paths /\ FileOK(file[path])
  BY <1>1 DEF Killed, Running, ProcOK, Active, Writing, StateOK
<1>3. proc' = [q \in Procs |-> IF q = p THEN Idle ELSE proc[q]]
  BY <1>1 DEF Killed
<1>4. file' = [k \in Paths |-> IF k = path THEN file[path] ELSE file[k]]
  BY <1>1 DEF Killed
<1>5. ~ InstallDone(Idle) /\ ~ Writing(Idle)
  BY IdleFacts DEF InstallDone
<1>6. faults \subseteq faults' /\ faults' \subseteq {"overlap", "kill"} /\ faults' # {}
  BY <1>1 DEF Killed
<1> QED
  BY <1>1, <1>2, <1>3, <1>4, <1>5, <1>6, IdleFacts, CommandStep DEF Killed

\* A command that starts preserves it.
LEMMA BeginStep ==
    ASSUME ClaudeInv, NEW p \in Procs, Begin(p)
    PROVE  ClaudeInv'
<1>1. PICK op0 \in {"install", "uninstall"} :
        proc' = [q \in Procs |->
                    IF q = p
                    THEN [Idle EXCEPT !.pc = "read", !.op = op0, !.path = SettingsPath]
                    ELSE IF Running(q) THEN proc[q] ELSE Idle]
  BY DEF Begin
<1> PICK r : r = [Idle EXCEPT !.pc = "read", !.op = op0, !.path = SettingsPath]
  OBVIOUS
<1>2. ~ Running(p) /\ UNCHANGED <<file, mine, edits>>
      /\ faults' = IF Quiet THEN faults ELSE faults \cup {"overlap"}
  BY DEF Begin
<1>3. SettingsPath \in Paths
  BY DEF SettingsPath, Paths
<1>4. r.pc = "read" /\ ProcOK(r) /\ ~ Writing(r) /\ ~ InstallDone(r)
  <2>1. r = [pc |-> "read", op |-> op0, path |-> SettingsPath, json |-> EmptyObject, result |-> None]
    BY DEF Idle
  <2> QED
    BY <1>3, <2>1, EmptyFacts DEF ProcOK, Active, Writing, InstallDone
<1>5. \A q \in Procs : proc'[q] = IF q = p THEN r ELSE IF Running(q) THEN proc[q] ELSE Idle
  BY <1>1
<1>6. StateOK'
  <2>1. proc' = [q \in Procs |-> proc'[q]]
    BY <1>1, <1>5
  <2>2. \A q \in Procs : ProcOK(proc'[q])
    BY <1>4, <1>5, IdleFacts DEF ClaudeInv, StateOK
  <2> QED
    BY <1>2, <2>1, <2>2 DEF ClaudeInv, StateOK
<1>7. ASSUME NEW q \in Procs, Writing(proc'[q])
      PROVE  proc'[q] = proc[q]
  BY <1>4, <1>5, <1>7, IdleFacts
<1>8. MayWrite'
  <2> SUFFICES ASSUME NEW q \in Procs, Writing(proc'[q])
               PROVE  Writable(file'[proc'[q].path])
    BY DEF MayWrite, Writing
  <2> QED
    BY <1>2, <1>7 DEF ClaudeInv, MayWrite
<1>9. Alone'
  <2>1. ASSUME "overlap" \notin faults', NEW q \in Procs, proc'[q].pc # "idle"
        PROVE  q = p
    <3>1. ~ Running(q)
      BY <1>2, <2>1 DEF Quiet
    <3> QED
      BY <1>5, <2>1, <3>1, IdleFacts
  <2> QED
    BY <2>1 DEF Alone
<1>10. InEffect'
  <2>1. ASSUME NEW q \in Procs
        PROVE  ~ InstallDone(proc'[q])
    BY <1>4, <1>5, IdleFacts DEF Running, InstallDone
  <2> QED
    BY <2>1 DEF InEffect, InstallDone
<1>11. InHands'
  <2> SUFFICES ASSUME ~ SharesEntry, faults' = {}
               PROVE  /\ \A k \in Paths :
                            \/ Owned(file'[k]) = mine[k]
                            \/ \E q \in Procs : proc'[q].pc = "write" /\ proc'[q].path = k
                      /\ \A q \in Procs : Writing(proc'[q]) =>
                            Owned(Json(proc'[q].json)) = mine[proc'[q].path]
    BY <1>2, Zenon DEF InHands, Writing, Owned, Json
  <2>1. Quiet /\ faults = {}
    BY <1>2
  <2>2. \A q \in Procs : proc[q].pc # "write"
    BY <2>1 DEF Quiet, Running
  <2>3. \A k \in Paths : Owned(file[k]) = mine[k]
    BY <2>1, <2>2 DEF ClaudeInv, InHands
  <2>4. \A q \in Procs : Writing(proc'[q]) => Owned(Json(proc'[q].json)) = mine[proc'[q].path]
    BY <1>7, <2>1 DEF ClaudeInv, InHands
  <2> QED
    BY <1>2, <2>3, <2>4
<1> QED
  BY <1>6, <1>8, <1>9, <1>10, <1>11 DEF ClaudeInv

\* The user's edits keep an entry of ours where it is.
LEMMA EditedOK ==
    ASSUME NEW o \in Object, Tidy(o), Accepts(o), EntriesOK(o.entries), NEW n,
           \/ n = [o EXCEPT !.rest = TRUE]
           \/ n = [o EXCEPT !.hooks = "object", !.others = TRUE]
           \/ n = [o EXCEPT !.hooks = "object", !.stop = "array", !.entries = Append(@, {Yours})]
           \/ SharesEntry /\ \E i \in OursIn(o.entries) : n = [o EXCEPT !.entries[i] = {Ours, Yours}]
    PROVE  n \in Object /\ Tidy(n) /\ EntriesOK(n.entries)
<1>1. CASE n = [o EXCEPT !.rest = TRUE]
  BY <1>1 DEF Object, Tidy
<1>2. CASE n = [o EXCEPT !.hooks = "object", !.others = TRUE]
  BY <1>2, ObjectFields DEF Object, Tidy
<1>3. CASE n = [o EXCEPT !.hooks = "object", !.stop = "array", !.entries = Append(@, {Yours})]
  <2> PICK es : es = Append(o.entries, {Yours})
    OBVIOUS
  <2>1. es \in Seq(Entries) /\ es # <<>> /\ (Pure(o.entries) => Pure(es)) /\ OursIn(es) = OursIn(o.entries)
    BY ObjectFields, AppendEntry
  <2>2. n \in Object /\ n.entries = es /\ n.stop = "array" /\ n.hooks = "object"
    BY <1>3, <2>1 DEF Object
  <2>3. Tidy(n)
    BY <2>1, <2>2 DEF Tidy
  <2> QED
    BY <2>1, <2>2, <2>3 DEF EntriesOK, AtMostOne
<1>4. CASE SharesEntry /\ \E i \in OursIn(o.entries) : n = [o EXCEPT !.entries[i] = {Ours, Yours}]
  <2>1. PICK i \in OursIn(o.entries) : n = [o EXCEPT !.entries[i] = {Ours, Yours}]
    BY <1>4
  <2> PICK es : es = [o.entries EXCEPT ![i] = {Ours, Yours}]
    OBVIOUS
  <2>2. o.entries \in Seq(Entries) /\ i \in DOMAIN o.entries
    BY ObjectFields DEF OursIn
  <2>3. es \in Seq(Entries) /\ DOMAIN es = DOMAIN o.entries
    BY <2>2, EntryFacts, ExceptSeq
  <2>4. OursIn(es) = OursIn(o.entries)
    BY <2>2, <2>3 DEF OursIn
  <2>5. es # <<>>
    BY <2>2, <2>3, EntryFacts
  <2>6. n \in Object /\ n.entries = es /\ n.stop = o.stop /\ n.hooks = o.hooks /\ n.others = o.others
    BY <2>1, <2>3 DEF Object
  <2>7. o.entries # <<>>
    BY <2>2, EntryFacts
  <2>8. Tidy(n)
    BY <2>5, <2>6, <2>7 DEF Tidy
  <2> QED
    BY <1>4, <2>4, <2>6, <2>8 DEF EntriesOK, AtMostOne
<1> QED
  BY <1>1, <1>2, <1>3, <1>4

\* An edit of the user between two commands preserves it.
LEMMA EditStep ==
    ASSUME ClaudeInv, NEW path \in Paths, Edit(path)
    PROVE  ClaudeInv'
<1> PICK o : o = file[path].json
  OBVIOUS
<1>1. PICK n : /\ \/ n = [o EXCEPT !.rest = TRUE]
                  \/ n = [o EXCEPT !.hooks = "object", !.others = TRUE]
                  \/ n = [o EXCEPT !.hooks = "object", !.stop = "array", !.entries = Append(@, {Yours})]
                  \/ SharesEntry /\ \E i \in OursIn(o.entries) : n = [o EXCEPT !.entries[i] = {Ours, Yours}]
               /\ Edited(path, n)
  BY Zenon DEF Edit
<1>2. /\ Quiet /\ Accepts(o) /\ edits' = edits + 1 /\ edits < MaxEdits
      /\ proc' = [q \in Procs |-> Idle] /\ UNCHANGED faults
  BY DEF Edit
<1>3. FileOK(Json(n))
  <2>1. o \in Object /\ Tidy(o) /\ EntriesOK(o.entries)
    BY DEF ClaudeInv, StateOK, FileOK, IsFile
  <2>2. n \in Object /\ Tidy(n) /\ EntriesOK(n.entries)
    BY <1>1, <1>2, <2>1, EditedOK
  <2> QED
    BY <2>2, JsonFacts DEF FileOK
<1>4. /\ file' = [k \in Paths |-> IF k = path THEN Json(n) ELSE file[k]]
      /\ mine' = [k \in Paths |-> IF k = path THEN Owned(Json(n)) ELSE mine[k]]
  BY <1>1 DEF Edited, ClaudeInv, StateOK
<1>5. \A q \in Procs : proc'[q] = Idle
  BY <1>2
<1>6. StateOK'
  <2>1. /\ file' = [k \in Paths |-> file'[k]] /\ mine' = [k \in Paths |-> mine'[k]]
        /\ proc' = [q \in Procs |-> proc'[q]]
    BY <1>2, <1>4, <1>5
  <2>2. edits' \in 0 .. MaxEdits
    BY <1>2, HooksAssumption DEF HooksAssumption, ClaudeInv, StateOK
  <2>3. \A k \in Paths : FileOK(file'[k])
    BY <1>3, <1>4 DEF ClaudeInv, StateOK
  <2> QED
    BY <1>2, <1>5, <2>1, <2>2, <2>3, IdleFacts DEF ClaudeInv, StateOK
<1>7. MayWrite' /\ Alone' /\ InEffect'
  BY <1>5, IdleFacts DEF MayWrite, Alone, InEffect, InstallDone, Writing
<1>8. InHands'
  <2> SUFFICES ASSUME ~ SharesEntry, faults = {}
               PROVE  /\ \A k \in Paths : Owned(file'[k]) = mine'[k]
                      /\ \A q \in Procs : ~ Writing(proc'[q])
    BY <1>2, Zenon DEF InHands, Writing, Owned, Json
  <2>1. \A q \in Procs : proc[q].pc # "write"
    BY <1>2 DEF Quiet, Running
  <2>2. \A k \in Paths : Owned(file[k]) = mine[k]
    BY <2>1 DEF ClaudeInv, InHands
  <2>3. ASSUME NEW k \in Paths
        PROVE  Owned(file'[k]) = mine'[k]
    BY <1>4, <2>2
  <2> QED
    BY <1>5, <2>3, IdleFacts
<1> QED
  BY <1>6, <1>7, <1>8 DEF ClaudeInv

\* Every step keeps the invariant.
LEMMA ClaudeStep == ClaudeInv /\ [Next]_claudeVars => ClaudeInv'
<1> SUFFICES ASSUME ClaudeInv, [Next]_claudeVars PROVE ClaudeInv'
  OBVIOUS
<1>1. CASE UNCHANGED claudeVars
  <2>1. file' = file /\ proc' = proc /\ mine' = mine /\ faults' = faults /\ edits' = edits
    BY <1>1 DEF claudeVars, vars
  <2> QED
    BY <2>1 DEF ClaudeInv, StateOK, MayWrite, Alone, InEffect, InHands
<1>2. CASE Next
  <2>1. ASSUME NEW p \in Procs, Begin(p) \/ Read(p) \/ Truncate(p) \/ Write(p) \/ Remove(p) \/ Killed(p)
        PROVE  ClaudeInv'
    BY <2>1, BeginStep, ReadStep, TruncateStep, WriteStep, RemoveStep, KilledStep
  <2>2. ASSUME NEW path \in Paths, Edit(path)
        PROVE  ClaudeInv'
    BY <2>2, EditStep
  <2> QED
    BY <1>2, <2>1, <2>2, Zenon DEF Next
<1> QED
  BY <1>1, <1>2

\* A step changes files only where a command or the user understands them.
LEMMA ClobbersNothing ==
    ClaudeInv /\ [Next]_claudeVars =>
        \A path \in Paths :
            file[path].kind \in {"broken", "array"} \/ ~ Accepts(file[path].json)
                => file'[path] = file[path]
<1> SUFFICES ASSUME ClaudeInv, [Next]_claudeVars, NEW path \in Paths, ~ Writable(file[path])
             PROVE  file'[path] = file[path]
  BY DEF Writable
<1>1. CASE UNCHANGED claudeVars
  BY <1>1 DEF claudeVars, vars
<1>2. ASSUME NEW p \in Procs, Begin(p) \/ Read(p) \/ Killed(p)
      PROVE  file'[path] = file[path]
  BY <1>2 DEF Begin, Read, Killed
<1>3. ASSUME NEW p \in Procs, Truncate(p) \/ Write(p) \/ Remove(p)
      PROVE  file'[path] = file[path]
  <2>1. Writing(proc[p])
    BY <1>3 DEF Truncate, Write, Remove, Writing
  <2>2. path # proc[p].path
    BY <2>1 DEF ClaudeInv, MayWrite
  <2> QED
    BY <1>3, <2>2 DEF Truncate, Write, Remove, ClaudeInv, StateOK
<1>4. ASSUME NEW k \in Paths, Edit(k)
      PROVE  file'[path] = file[path]
  <2>1. path # k
    BY <1>4 DEF Edit, Writable
  <2> QED
    BY <1>4, <2>1 DEF Edit, Edited, ClaudeInv, StateOK
<1> QED
  BY <1>1, <1>2, <1>3, <1>4, Zenon DEF Next

-----------------------------------------------------------------------------
(* Codex's hooks.json: CodexHooks, whose operators on files are those above. *)

\* The instance of CodexHooks counts as this module does.
LEMMA SameCardinality == \A S : Codex!Cardinality(S) = Cardinality(S)
BY DEF Codex!Cardinality, Cardinality

\* They are defined alike.
LEMMA SameOperators ==
    /\ Codex!Object = Object /\ Codex!EmptyObject = EmptyObject
    /\ Codex!Missing = Missing /\ Codex!Empty = Empty
    /\ Codex!Broken = Broken /\ Codex!Array = Array
    /\ Codex!Ours = Ours /\ Codex!Yours = Yours
    /\ \A o : Codex!Json(o) = Json(o)
    /\ \A f : Codex!IsFile(f) <=> IsFile(f)
    /\ \A f : Codex!Owned(f) = Owned(f)
    /\ \A o : Codex!Accepts(o) <=> Accepts(o)
    /\ \A es : Codex!OursIn(es) = OursIn(es)
    /\ \A es : Codex!Without(es) = Without(es)
    /\ \A es, positions : Codex!Picked(es, positions) = Picked(es, positions)
    /\ \A o, e : Codex!AddStop(o, e) = AddStop(o, e)
    /\ \A o : Codex!DropEmptyHooks(Codex!DropEmptyStop(o)) = DropEmptyHooks(DropEmptyStop(o))
<1>1. Codex!Ours = Ours /\ Codex!Yours = Yours
  BY DEF Codex!Ours, Ours, Codex!Yours, Yours
<1>2. Codex!Entries = Entries
  BY <1>1 DEF Codex!Entries, Entries
<1>3. Codex!Object = Object
  BY <1>2 DEF Codex!Object, Object
<1>4. Codex!EmptyObject = EmptyObject
  BY DEF Codex!EmptyObject, EmptyObject
<1>5. \A es, positions : Codex!Picked(es, positions) = Picked(es, positions)
  BY DEF Codex!Picked, Picked
<1>6. \A es : Codex!OursIn(es) = OursIn(es)
  BY <1>1 DEF Codex!OursIn, OursIn
<1>7. \A es : Codex!Without(es) = Without(es)
  BY <1>5, <1>6 DEF Codex!Without, Without
<1>8. \A o : Codex!Accepts(o) <=> Accepts(o)
  BY DEF Codex!Accepts, Accepts
<1>9. \A f : Codex!IsFile(f) <=> IsFile(f)
  BY <1>3 DEF Codex!IsFile, IsFile, Codex!Tidy, Tidy
<1>10. /\ Codex!Missing = Missing /\ Codex!Empty = Empty
       /\ Codex!Broken = Broken /\ Codex!Array = Array
  BY <1>4 DEF Codex!Missing, Missing, Codex!Empty, Empty, Codex!Broken, Broken,
              Codex!Array, Array
<1>11. \A o : Codex!Json(o) = Json(o)
  BY DEF Codex!Json, Json
<1>12. \A f : Codex!Owned(f) = Owned(f)
  BY SameCardinality DEF Codex!Owned, Owned, Codex!Yours, Yours
<1>13. \A o, e : Codex!AddStop(o, e) = AddStop(o, e)
  BY <1>6 DEF Codex!AddStop, AddStop
<1>14. \A o : Codex!DropEmptyHooks(Codex!DropEmptyStop(o)) = DropEmptyHooks(DropEmptyStop(o))
  BY DEF Codex!DropEmptyHooks, DropEmptyHooks, Codex!DropEmptyStop, DropEmptyStop
<1> QED
  BY <1>1, <1>3, <1>4, <1>5, <1>6, <1>7, <1>8, <1>9, <1>10, <1>11, <1>12, <1>13, <1>14

\* What every object in hooks.json keeps.
ObjectOK(o) ==
    /\ o \in Object /\ Tidy(o)
    /\ AtMostOne(o.entries) /\ Pure(o.entries) /\ Pure(o.legacy)
    /\ o.legacy = <<>> \/ Accepts(o)

\* Our hook where Codex looks for it, and nowhere.
Installs(o) == OursIn(o.entries) # {} /\ OursIn(o.legacy) = {}
Clean(o)    == OursIn(o.entries) = {} /\ OursIn(o.legacy) = {}

CodexWriting == pc \in {"truncate", "write", "remove"}
CodexConfig  == pc \in {"config", "truncate_config", "write_config"}

JsonInv ==
    /\ IsFile(hooks) /\ ObjectOK(hooks.json)
    /\ hooks.kind # "json" => hooks.json = EmptyObject
    /\ pc \in {"idle", "read", "done"} \/ CodexWriting \/ CodexConfig
    /\ op \in {"install", "uninstall", None}
    /\ json \in Object
    /\ result \in {"ok", "none", "error", None}
    /\ killed \in BOOLEAN
    /\ codexEdits \in 0 .. MaxEdits
    /\ pc \notin {"idle", "done"} => op \in {"install", "uninstall"}
    /\ CodexWriting =>
        /\ ObjectOK(json)
        /\ op = "install" => Installs(json) /\ pc # "remove"
        /\ op = "uninstall" => Clean(json)
        /\ pc = "remove" => json = EmptyObject
    /\ CodexConfig => op = "install" /\ Installs(hooks.json)
    /\ pc = "done" /\ op = "install" /\ result = "ok" => Installs(hooks.json)
    /\ pc = "done" /\ op = "uninstall" /\ result # "error" => Clean(hooks.json)
    /\ ~ killed =>
        /\ pc = "write" \/ Owned(hooks) = codexMine
        /\ CodexWriting => Owned(Json(json)) = codexMine

\* A file without entries of ours.
LEMMA CleanFiles ==
    /\ ObjectOK(EmptyObject) /\ Clean(EmptyObject)
    /\ \A f \in {Missing, Empty, Broken, Array} :
            IsFile(f) /\ f.json = EmptyObject /\ f.kind # "json"
BY EmptyFacts DEF ObjectOK, Clean, Missing, Empty, Broken, Array

\* What install writes to hooks.json has our entry, once, nothing of the old layout,
\* and all that is the user's.
LEMMA InstalledOK ==
    ASSUME NEW o, ObjectOK(o), Accepts(o), NEW n, n = Codex!Installed(o)
    PROVE  ObjectOK(n) /\ Installs(n) /\ Owned(Json(n)) = Owned(Json(o))
<1> PICK m : m = [o EXCEPT !.legacy = Without(@)]
  OBVIOUS
<1>1. n = AddStop(m, {Ours})
  BY SameOperators DEF Codex!Installed
<1>2. o \in Object /\ Tidy(o) /\ o.legacy \in Seq(Entries)
  BY ObjectFields DEF ObjectOK
<1>3. /\ Without(o.legacy) \in Seq(Entries) /\ OursIn(Without(o.legacy)) = {}
      /\ Pure(Without(o.legacy)) /\ Commands(Without(o.legacy)) = Commands(o.legacy)
  BY <1>2, WithoutFacts DEF ObjectOK
<1>4. /\ m \in Object /\ m.hooks = o.hooks /\ m.stop = o.stop /\ m.entries = o.entries
      /\ m.legacy = Without(o.legacy) /\ m.others = o.others /\ m.rest = o.rest
  BY <1>2, <1>3 DEF Object
<1>5. Tidy(m) /\ Accepts(m)
  BY <1>2, <1>4 DEF Tidy, Accepts
<1>6. /\ n \in Object /\ Tidy(n) /\ Accepts(n) /\ OursIn(n.entries) # {}
      /\ AtMostOne(n.entries) /\ Pure(n.entries) /\ n.legacy = m.legacy
      /\ Owned(Json(n)) = Owned(Json(m))
  BY <1>1, <1>4, <1>5, AddStopFacts DEF ObjectOK
<1>7. Owned(Json(m)) = Owned(Json(o))
  BY <1>2, <1>3, <1>4, JsonFacts, OwnedFacts
<1> QED
  BY <1>3, <1>4, <1>6, <1>7 DEF ObjectOK, Installs

\* What uninstall writes to hooks.json has nothing of ours and all that is the user's.
LEMMA UninstalledOK ==
    ASSUME NEW o, ObjectOK(o), Codex!Removable(o), NEW n, n = Codex!Uninstalled(o)
    PROVE  ObjectOK(n) /\ Clean(n) /\ Owned(Json(n)) = Owned(Json(o))
<1>0. PICK m : m = [o EXCEPT !.entries = Without(@), !.legacy = Without(@)]
  OBVIOUS
<1>1. n = DropEmptyHooks(DropEmptyStop(m))
  BY <1>0, SameOperators DEF Codex!Uninstalled
<1>2. o \in Object /\ Tidy(o) /\ o.entries \in Seq(Entries) /\ o.legacy \in Seq(Entries)
  BY ObjectFields DEF ObjectOK
<1>3. /\ Without(o.legacy) \in Seq(Entries) /\ OursIn(Without(o.legacy)) = {}
      /\ Pure(Without(o.legacy)) /\ Commands(Without(o.legacy)) = Commands(o.legacy)
      /\ Without(o.entries) \in Seq(Entries)
  BY <1>2, WithoutFacts DEF ObjectOK
<1>4. /\ m \in Object /\ m.hooks = o.hooks /\ m.stop = o.stop
      /\ m.entries = Without(o.entries) /\ m.legacy = Without(o.legacy)
      /\ m.others = o.others /\ m.rest = o.rest
      /\ Commands(m.legacy) = Commands(o.legacy)
  BY <1>0, <1>2, <1>3 DEF Object
<1>5. Accepts(o)
  <2>1. CASE o.legacy # <<>>
    BY <2>1 DEF ObjectOK
  <2>2. CASE o.legacy = <<>>
    <3>1. OursIn(o.entries) # {}
      BY <2>2, EmptyFacts, SameOperators DEF Codex!Removable, EmptyObject
    <3>2. o.entries # <<>>
      BY <3>1, EmptyFacts DEF EmptyObject
    <3> QED
      BY <1>2, <3>2 DEF Tidy, Accepts
  <2> QED
    BY <2>1, <2>2
<1>6. /\ n \in Object /\ Tidy(n) /\ Accepts(n) /\ n.legacy = m.legacy
      /\ OursIn(n.entries) = {} /\ Pure(n.entries) /\ AtMostOne(n.entries)
      /\ Owned(Json(n)) = Owned(Json(o))
  <2>1. Pure(o.entries)
    BY DEF ObjectOK
  <2>2. /\ n \in Object /\ Tidy(n) /\ Accepts(n) /\ n.legacy = m.legacy
        /\ OursIn(n.entries) = {} /\ Pure(n.entries) /\ AtMostOne(n.entries)
        /\ Pure(o.entries) => Owned(Json(n)) = Owned(Json(o))
    BY <1>1, <1>2, <1>4, <1>5, DropFacts
  <2> QED
    BY <2>1, <2>2
<1> QED
  BY <1>3, <1>4, <1>6 DEF ObjectOK, Clean

\* The invariant of hooks.json holds initially.
LEMMA JsonInit == Codex!Init => JsonInv
<1> SUFFICES ASSUME Codex!Init PROVE JsonInv
  OBVIOUS
<1>1. /\ hooks \in {Missing, Empty, Broken, Array} \cup
                {Json(o) : o \in Codex!InitialObjects \ {EmptyObject}}
      /\ pc = "idle" /\ op = None /\ json = EmptyObject /\ result = None
      /\ codexMine = Owned(hooks) /\ killed = FALSE /\ codexEdits = 0
  BY SameOperators DEF Codex!Init
<1>2. ASSUME NEW o \in Codex!InitialObjects
      PROVE  ObjectOK(o)
  <2>1. /\ <<>> \in Seq(Entries) /\ <<{Ours}>> \in Seq(Entries)
        /\ <<{Yours}>> \in Seq(Entries) /\ <<{Yours}, {Ours}>> \in Seq(Entries)
        /\ <<{Yours}>> # <<>>
    BY EntryFacts
  <2>2. /\ OursIn(<<>>) = {} /\ OursIn(<<{Yours}>>) = {}
        /\ Pure(<<>>) /\ Pure(<<{Ours}>>) /\ Pure(<<{Yours}>>) /\ Pure(<<{Yours}, {Ours}>>)
    <3>1. OursIn(<<>>) = {} /\ Pure(<<>>)
      BY EntryFacts DEF OursIn, Pure
    <3>2. OursIn(<<{Yours}>>) = {} /\ Pure(<<{Yours}>>) /\ Pure(<<{Ours}>>)
      BY EntryFacts DEF OursIn, Pure
    <3>3. Pure(<<{Yours}, {Ours}>>)
      BY EntryFacts DEF Pure
    <3> QED
      BY <3>1, <3>2, <3>3
  <2>3. AtMostOne(<<>>) /\ AtMostOne(<<{Yours}>>)
    BY <2>2 DEF AtMostOne
  <2>4. o \in {EmptyObject,
               [EmptyObject EXCEPT !.rest = TRUE],
               [EmptyObject EXCEPT !.hooks = "other"],
               [EmptyObject EXCEPT !.legacy = <<{Ours}>>],
               [EmptyObject EXCEPT !.hooks = "object", !.others = TRUE,
                                   !.legacy = <<{Yours}, {Ours}>>],
               [EmptyObject EXCEPT !.hooks = "object", !.stop = "array",
                                   !.entries = <<{Yours}>>]}
    BY SameOperators DEF Codex!InitialObjects
  <2>5. /\ o.hooks \in {"absent", "object", "other"} /\ o.stop \in {"absent", "array"}
        /\ o.entries \in {<<>>, <<{Yours}>>}
        /\ o.legacy \in {<<>>, <<{Ours}>>, <<{Yours}, {Ours}>>}
        /\ o.others \in BOOLEAN /\ o.rest \in BOOLEAN
        /\ o = [hooks |-> o.hooks, stop |-> o.stop, entries |-> o.entries,
                legacy |-> o.legacy, others |-> o.others, rest |-> o.rest]
        /\ o.stop = "array" <=> o.entries = <<{Yours}>>
        /\ o.hooks = "object" <=> o.stop = "array" \/ o.others
        /\ o.hooks # "other" \/ o.legacy = <<>>
    <3>1. CASE o = EmptyObject
      BY <2>1, <3>1 DEF EmptyObject
    <3>6. CASE o = [EmptyObject EXCEPT !.rest = TRUE]
      BY <2>1, <3>6 DEF EmptyObject
    <3>5. CASE o = [EmptyObject EXCEPT !.hooks = "other"]
      BY <2>1, <3>5 DEF EmptyObject
    <3>2. CASE o = [EmptyObject EXCEPT !.legacy = <<{Ours}>>]
      BY <2>1, <3>2 DEF EmptyObject
    <3>3. CASE o = [EmptyObject EXCEPT !.hooks = "object", !.others = TRUE,
                                       !.legacy = <<{Yours}, {Ours}>>]
      BY <2>1, <3>3 DEF EmptyObject
    <3>4. CASE o = [EmptyObject EXCEPT !.hooks = "object", !.stop = "array",
                                       !.entries = <<{Yours}>>]
      BY <2>1, <3>4 DEF EmptyObject
    <3> QED
      BY <2>4, <3>1, <3>2, <3>3, <3>4, <3>5, <3>6
  <2>6. o \in Object /\ Tidy(o)
    BY <2>1, <2>5 DEF Object, Tidy
  <2> QED
    BY <2>2, <2>3, <2>5, <2>6 DEF ObjectOK, Accepts
<1>3. IsFile(hooks) /\ ObjectOK(hooks.json) /\ (hooks.kind # "json" => hooks.json = EmptyObject)
  <2>1. CASE hooks \in {Missing, Empty, Broken, Array}
    BY <2>1, CleanFiles
  <2>2. CASE hooks \in {Json(o) : o \in Codex!InitialObjects \ {EmptyObject}}
    BY <1>2, <2>2, JsonFacts DEF ObjectOK
  <2> QED
    BY <1>1, <2>1, <2>2
<1>4. json \in Object /\ codexEdits \in 0 .. MaxEdits
  BY <1>1, EmptyFacts, HooksAssumption DEF HooksAssumption
<1> QED
  BY <1>1, <1>3, <1>4 DEF JsonInv, CodexWriting, CodexConfig

\* Reading hooks.json and computing what to write preserves it.
LEMMA JsonRead == JsonInv /\ Codex!Read => JsonInv'
<1> SUFFICES ASSUME JsonInv, Codex!Read PROVE JsonInv'
  OBVIOUS
<1>1. /\ pc = "read" /\ UNCHANGED <<hooks, op, codexMine, killed, codexEdits>>
      /\ op \in {"install", "uninstall"}
      /\ ~ killed => Owned(hooks) = codexMine
  BY DEF Codex!Read, JsonInv, CodexWriting
<1>2. \/ /\ pc' = "done" /\ json' = json
         /\ \/ result' = "error"
            \/ result' = "none" /\ op = "uninstall" /\ Clean(hooks.json)
      \/ /\ op = "install" /\ Accepts(hooks.json) /\ json' = Codex!Installed(hooks.json)
         /\ pc' = "truncate" /\ result' = result
      \/ /\ op = "uninstall" /\ Codex!Removable(hooks.json)
         /\ json' = Codex!Uninstalled(hooks.json) /\ result' = result
         /\ pc' = IF json' = EmptyObject THEN "remove" ELSE "truncate"
  <2>1. CASE hooks.kind = "missing" /\ op = "uninstall"
    <3>1. Clean(hooks.json)
      BY <2>1, CleanFiles DEF JsonInv
    <3>2. Codex!Finish("none") /\ json' = json
      BY <2>1 DEF Codex!Read, Codex!Loads, Codex!IsObject
    <3>3. pc' = "done" /\ result' = "none"
      BY <3>2 DEF Codex!Finish
    <3> QED
      BY <2>1, <3>1, <3>2, <3>3
  <2>2. CASE ~ (hooks.kind = "missing" /\ op = "uninstall") /\ hooks.kind = "broken"
    BY <1>1, <2>2 DEF Codex!Read, Codex!Finish, Codex!Loads, Codex!IsObject
  <2>3. CASE hooks.kind = "array"
    BY <1>1, <2>3, CleanFiles DEF Codex!Read, Codex!Finish, Codex!Loads, Codex!IsObject, JsonInv
  <2>4. CASE ~ (hooks.kind = "missing" /\ op = "uninstall") /\ hooks.kind \notin {"broken", "array"}
    <3>1. Codex!Compute(hooks.json)
      BY <2>4 DEF Codex!Read, Codex!Loads, Codex!IsObject, Codex!Load
    <3>2. CASE op = "install"
      BY <3>1, <3>2, SameOperators DEF Codex!Compute, Codex!Finish, Codex!Goto
    <3>3. CASE op = "uninstall" /\ Codex!Removable(hooks.json)
      BY <3>1, <3>3, SameOperators DEF Codex!Compute, Codex!Goto
    <3>4. CASE op = "uninstall" /\ ~ Codex!Removable(hooks.json)
      <4>1. Clean(hooks.json)
        BY <3>4, SameOperators DEF Codex!Removable, Clean
      <4> QED
        BY <3>1, <3>4, <4>1 DEF Codex!Compute, Codex!Finish
    <3> QED
      BY <1>1, <3>2, <3>3, <3>4
  <2> QED
    BY <2>1, <2>2, <2>3, <2>4
<1>3. Owned(hooks) = Owned(Json(hooks.json)) /\ ObjectOK(hooks.json)
  BY OwnedJson DEF JsonInv
<1>4. CASE pc' = "done"
  BY <1>1, <1>2, <1>4 DEF JsonInv, CodexWriting, CodexConfig
<1>5. CASE op = "install" /\ Accepts(hooks.json) /\ json' = Codex!Installed(hooks.json)
           /\ pc' = "truncate" /\ result' = result
  <2>1. ObjectOK(json') /\ Installs(json') /\ Owned(Json(json')) = Owned(Json(hooks.json))
    BY <1>3, <1>5, InstalledOK
  <2> QED
    BY <1>1, <1>3, <1>5, <2>1 DEF JsonInv, CodexWriting, CodexConfig, ObjectOK
<1>6. CASE op = "uninstall" /\ Codex!Removable(hooks.json)
           /\ json' = Codex!Uninstalled(hooks.json) /\ result' = result
           /\ pc' = IF json' = EmptyObject THEN "remove" ELSE "truncate"
  <2>1. ObjectOK(json') /\ Clean(json') /\ Owned(Json(json')) = Owned(Json(hooks.json))
    BY <1>3, <1>6, UninstalledOK
  <2> QED
    BY <1>1, <1>3, <1>6, <2>1 DEF JsonInv, CodexWriting, CodexConfig, ObjectOK
<1> QED
  BY <1>2, <1>4, <1>5, <1>6

\* Truncating, writing or removing hooks.json, and a kill, preserve it.
LEMMA JsonWrites ==
    JsonInv /\ (Codex!Truncate \/ Codex!Write \/ Codex!Remove) => JsonInv'
<1> SUFFICES ASSUME JsonInv, Codex!Truncate \/ Codex!Write \/ Codex!Remove PROVE JsonInv'
  OBVIOUS
<1>1. CASE Codex!Truncate
  <2>1. /\ pc = "truncate" /\ pc' = "write" /\ hooks' = Empty
        /\ UNCHANGED <<op, json, result, codexMine, killed, codexEdits>>
    BY <1>1, SameOperators DEF Codex!Truncate, Codex!Goto
  <2> QED
    BY <2>1, CleanFiles DEF JsonInv, CodexWriting, CodexConfig
<1>2. CASE Codex!Write
  <2>1. /\ pc = "write" /\ hooks' = Json(json)
        /\ pc' = IF op = "install" THEN "config" ELSE "done"
        /\ result' = IF op = "install" THEN result ELSE "ok"
        /\ UNCHANGED <<op, json, codexMine, killed, codexEdits>>
    BY <1>2, SameOperators DEF Codex!Write, Codex!Goto, Codex!Finish
  <2>2. ObjectOK(json) /\ op \in {"install", "uninstall"}
    BY <2>1 DEF JsonInv, CodexWriting
  <2>3. IsFile(hooks') /\ hooks'.json = json /\ hooks'.kind = "json"
    BY <2>1, <2>2, JsonFacts DEF ObjectOK
  <2> QED
    BY <2>1, <2>2, <2>3 DEF JsonInv, CodexWriting, CodexConfig
<1>3. CASE Codex!Remove
  <2>1. /\ pc = "remove" /\ pc' = "done" /\ hooks' = Missing /\ result' = "ok"
        /\ UNCHANGED <<op, json, codexMine, killed, codexEdits>>
    BY <1>3, SameOperators DEF Codex!Remove, Codex!Finish
  <2>2. json = EmptyObject /\ op = "uninstall"
    BY <2>1 DEF JsonInv, CodexWriting
  <2>3. Owned(Missing) = Owned(Json(EmptyObject))
    BY EmptyFacts, OwnedJson
  <2> QED
    BY <2>1, <2>2, <2>3, CleanFiles DEF JsonInv, CodexWriting, CodexConfig
<1> QED
  BY <1>1, <1>2, <1>3

\* The steps that leave hooks.json alone.
LEMMA JsonOthers ==
    ASSUME JsonInv,
           Codex!Begin \/ Codex!Config \/ Codex!TruncateConfig \/ Codex!WriteConfig \/ Codex!Killed
               \/ UNCHANGED codexVars
    PROVE  JsonInv'
<1>1. CASE Codex!Begin
  BY <1>1 DEF Codex!Begin, Codex!Quiet, JsonInv, CodexWriting, CodexConfig
<1>2. CASE Codex!Config
  <2>1. /\ pc = "config" /\ UNCHANGED <<hooks, op, json, codexMine, killed, codexEdits>>
        /\ \/ pc' = "done" /\ result' = "ok"
           \/ pc' = "truncate_config" /\ result' = result
    BY <1>2 DEF Codex!Config, Codex!Finish, Codex!Goto
  <2> QED
    BY <2>1 DEF JsonInv, CodexWriting, CodexConfig
<1>3. CASE Codex!TruncateConfig
  BY <1>3 DEF Codex!TruncateConfig, Codex!Goto, JsonInv, CodexWriting, CodexConfig
<1>4. CASE Codex!WriteConfig
  BY <1>4 DEF Codex!WriteConfig, Codex!Finish, JsonInv, CodexWriting, CodexConfig
<1>5. CASE Codex!Killed
  BY <1>5 DEF Codex!Killed, JsonInv, CodexWriting, CodexConfig
<1>6. CASE UNCHANGED codexVars
  BY <1>6 DEF codexVars, JsonInv, CodexWriting, CodexConfig
<1> QED
  BY <1>1, <1>2, <1>3, <1>4, <1>5, <1>6

\* An edit of the user between two commands preserves it.
LEMMA JsonEdit == JsonInv /\ Codex!Edit => JsonInv'
<1> SUFFICES ASSUME JsonInv, Codex!Edit PROVE JsonInv'
  OBVIOUS
<1>1. /\ pc \in {"idle", "done"} /\ pc' = "idle" /\ result' = None
      /\ UNCHANGED <<op, json, killed>>
      /\ codexEdits' \in 0 .. MaxEdits
  <2>1. /\ pc \in {"idle", "done"} /\ pc' = "idle" /\ result' = None
        /\ UNCHANGED <<op, json, killed>>
        /\ codexEdits < MaxEdits /\ codexEdits' = codexEdits + 1
    BY Zenon DEF Codex!Edit, Codex!Quiet
  <2>2. codexEdits \in 0 .. MaxEdits
    BY DEF JsonInv
  <2> QED
    BY <2>1, <2>2, HooksAssumption DEF HooksAssumption
<1>2. CASE UNCHANGED <<hooks, codexMine>>
  BY <1>1, <1>2 DEF JsonInv, CodexWriting, CodexConfig
<1>3. CASE ~ UNCHANGED <<hooks, codexMine>>
  <2> PICK o : o = hooks.json
    OBVIOUS
  <2> PICK n : n = [o EXCEPT !.hooks = "object", !.stop = "array", !.entries = Append(@, {Yours})]
    OBVIOUS
  <2>1. Accepts(o) /\ hooks' = Json(n) /\ codexMine' = Owned(Json(n))
    BY <1>3, SameOperators DEF Codex!Edit
  <2>2. ObjectOK(o) /\ o \in Object /\ o.entries \in Seq(Entries)
    BY ObjectFields DEF JsonInv, ObjectOK
  <2> PICK es : es = Append(o.entries, {Yours})
    OBVIOUS
  <2>3. es \in Seq(Entries) /\ es # <<>> /\ Pure(es) /\ OursIn(es) = OursIn(o.entries)
    BY <2>2, AppendEntry DEF ObjectOK
  <2>4. /\ n \in Object /\ n.entries = es /\ n.stop = "array" /\ n.hooks = "object"
        /\ n.legacy = o.legacy
    BY <2>2, <2>3 DEF Object
  <2>5. Tidy(n) /\ Accepts(n)
    BY <2>3, <2>4 DEF Tidy, Accepts
  <2>6. ObjectOK(n)
    BY <2>2, <2>3, <2>4, <2>5 DEF ObjectOK, AtMostOne
  <2>7. IsFile(hooks') /\ hooks'.json = n /\ hooks'.kind = "json"
    BY <2>1, <2>4, <2>5, JsonFacts
  <2> QED
    BY <1>1, <2>1, <2>6, <2>7 DEF JsonInv, CodexWriting, CodexConfig
<1> QED
  BY <1>2, <1>3

\* Every step of Codex's commands preserves it.
LEMMA JsonStep == JsonInv /\ [Codex!Next]_codexVars => JsonInv'
BY JsonRead, JsonWrites, JsonOthers, JsonEdit DEF Codex!Next

-----------------------------------------------------------------------------
(* Lines of Codex's config.toml.                                           *)

\* Sequences that agree where one picks.
Agree(s, t, P, Q) ==
    /\ Len(s) \in Nat /\ Len(t) = Len(s)
    /\ \A i \in 1 .. Len(s) : (i \in P <=> i \in Q) /\ (i \in P => s[i] = t[i])

\* The same is picked from them.
LEMMA PickedAgree ==
    ASSUME NEW s, NEW t, NEW P, NEW Q, Agree(s, t, P, Q)
    PROVE  Picked(s, P) = Picked(t, Q)
<1> USE DEF Agree
<1> PICK m \in Nat : m = Len(s)
  OBVIOUS
<1>1. PICK f : Picking(f, s, P) /\ Picked(s, P) = f[m]
  BY PickedSteps
<1>2. PICK g : Picking(g, t, Q) /\ Picked(t, Q) = g[m]
  BY PickedSteps
<1> DEFINE G == {n \in 0 .. m : f[n] = g[n]}
<1>3. 0 \in G
  BY <1>1, <1>2 DEF Picking
<1>4. ASSUME NEW n \in 1 .. m, n - 1 \in G
      PROVE  n \in G
  <2>1. f[n - 1] = g[n - 1] /\ (n \in P <=> n \in Q) /\ (n \in P => s[n] = t[n])
    BY <1>4
  <2>2. f[n] = IF n \in P THEN Append(f[n - 1], s[n]) ELSE f[n - 1]
    BY <1>1 DEF Picking
  <2>3. g[n] = IF n \in Q THEN Append(g[n - 1], t[n]) ELSE g[n - 1]
    BY <1>2 DEF Picking
  <2> QED
    BY <2>1, <2>2, <2>3
<1>5. m \in G
  <2> HIDE DEF G
  <2>1. \A n \in 0 .. m : n \in G
    BY <1>3, <1>4, Induction
  <2> QED
    BY <2>1
<1> QED
  BY <1>1, <1>2, <1>5

\* Sequences that agree but for an entry after e, which is not picked.
AgreeAround(s, t, e, P, Q) ==
    /\ Len(s) \in Nat /\ Len(t) = Len(s) + 1 /\ e \in 0 .. Len(s)
    /\ e + 1 \notin Q
    /\ \A i \in 1 .. Len(s) : i <= e => (i \in P <=> i \in Q) /\ (i \in P => s[i] = t[i])
    /\ \A i \in 1 .. Len(s) :
            i > e => (i \in P <=> i + 1 \in Q) /\ (i \in P => s[i] = t[i + 1])

\* The same is picked from them.
LEMMA PickedInsert ==
    ASSUME NEW s, NEW t, NEW e, NEW P, NEW Q, AgreeAround(s, t, e, P, Q)
    PROVE  Picked(s, P) = Picked(t, Q)
<1> USE DEF AgreeAround
<1> PICK m \in Nat : m = Len(s)
  OBVIOUS
<1>1. PICK f : Picking(f, s, P) /\ Picked(s, P) = f[m]
  BY PickedSteps
<1>2. PICK g : Picking(g, t, Q) /\ Picked(t, Q) = g[m + 1]
  <2>1. Len(t) \in Nat
    OBVIOUS
  <2> QED
    BY <2>1, PickedSteps
<1> DEFINE G == {n \in 0 .. m : (n <= e => f[n] = g[n]) /\ (n >= e => f[n] = g[n + 1])}
<1>3. g[e + 1] = g[e]
  <2>1. e + 1 \in 1 .. Len(t) /\ (e + 1) - 1 = e
    OBVIOUS
  <2> QED
    BY <1>2, <2>1 DEF Picking
<1>4. 0 \in G
  BY <1>1, <1>2, <1>3 DEF Picking
<1>5. ASSUME NEW n \in 1 .. m, n - 1 \in G
      PROVE  n \in G
  <2>1. f[n] = IF n \in P THEN Append(f[n - 1], s[n]) ELSE f[n - 1]
    BY <1>1 DEF Picking
  <2>2. CASE n <= e
    <3>1. f[n - 1] = g[n - 1] /\ (n \in P <=> n \in Q) /\ (n \in P => s[n] = t[n])
      BY <1>5, <2>2
    <3>2. n \in 1 .. Len(t)
      OBVIOUS
    <3>3. g[n] = IF n \in Q THEN Append(g[n - 1], t[n]) ELSE g[n - 1]
      BY <1>2, <3>2 DEF Picking
    <3>4. f[n] = g[n]
      BY <2>1, <3>1, <3>3
    <3> QED
      BY <1>3, <2>2, <3>4
  <2>3. CASE n > e
    <3>1. f[n - 1] = g[n] /\ (n \in P <=> n + 1 \in Q) /\ (n \in P => s[n] = t[n + 1])
      <4>1. n - 1 >= e /\ (n - 1) + 1 = n
        BY <2>3
      <4> QED
        BY <1>5, <2>3, <4>1
    <3>2. n + 1 \in 1 .. Len(t) /\ (n + 1) - 1 = n
      OBVIOUS
    <3>3. g[n + 1] = IF n + 1 \in Q THEN Append(g[n], t[n + 1]) ELSE g[n]
      <4> PICK k : k = n + 1
        OBVIOUS
      <4>1. k \in 1 .. Len(t) /\ k - 1 = n
        BY <3>2
      <4>2. g[k] = IF k \in Q THEN Append(g[k - 1], t[k]) ELSE g[k - 1]
        BY <1>2, <4>1 DEF Picking
      <4> QED
        BY <4>1, <4>2
    <3>4. f[n] = g[n + 1]
      BY <2>1, <3>1, <3>3
    <3> QED
      BY <2>3, <3>4
  <2> QED
    BY <2>2, <2>3
<1>6. m \in G
  <2> HIDE DEF G
  <2>1. \A n \in 0 .. m : n \in G
    BY <1>4, <1>5, Induction
  <2> QED
    BY <2>1
<1> QED
  BY <1>1, <1>2, <1>6

\* The least and the greatest of some line numbers.
LEMMA FirstLast ==
    ASSUME NEW m \in Nat, NEW S, S \subseteq 1 .. m, S # {}
    PROVE  /\ Codex!First(S) \in S /\ \A j \in S : Codex!First(S) <= j
           /\ Codex!Last(S) \in S /\ \A j \in S : j <= Codex!Last(S)
<1> DEFINE R == OpToRel(<, Nat)
<1>1. ASSUME NEW T, T \subseteq Nat, T # {}
      PROVE  \E n \in T : \A k \in T : n <= k
  <2>1. PICK n \in T : \A k \in T : ~ (<<k, n>> \in R)
    BY <1>1, NatLessThanWellFounded, WFMin
  <2>2. ASSUME NEW k \in T
        PROVE  n <= k
    <3>1. n \in Nat /\ k \in Nat /\ <<k, n>> \notin R
      BY <1>1, <2>1
    <3>2. k < n => <<k, n>> \in R
      BY <3>1 DEF OpToRel
    <3> HIDE DEF R
    <3> QED
      BY <3>1, <3>2
  <2> QED
    BY <2>2
<1> HIDE DEF R
<1>2. \E i \in S : \A j \in S : i <= j
  <2>1. S \subseteq Nat
    OBVIOUS
  <2> QED
    BY <1>1, <2>1
<1>3. \E i \in S : \A j \in S : j <= i
  <2> DEFINE T == {n \in 0 .. m : m - n \in S}
  <2>1. \A i \in S : m - i \in T
    OBVIOUS
  <2>2. T # {} /\ T \subseteq Nat
    <3>1. PICK i \in S : TRUE
      OBVIOUS
    <3>2. m - i \in T
      BY <2>1
    <3>3. T \subseteq Nat
      OBVIOUS
    <3> HIDE DEF T
    <3> QED
      BY <3>2, <3>3
  <2>3. PICK n \in T : \A k \in T : n <= k
    BY <1>1, <2>2
  <2>4. ASSUME NEW j \in S
        PROVE  j <= m - n
    <3>1. n <= m - j
      BY <2>1, <2>3
    <3> QED
      BY <3>1
  <2> QED
    BY <2>3, <2>4
<1> QED
  BY <1>2, <1>3, Zenon DEF Codex!First, Codex!Last

\* Lines without comments after a header.
Plain == Codex!AllLines \ {"[features] #", "[other] #"}
NoComments == Lines \cap {"[features] #", "[other] #"} = {}

IsTable(l) == Codex!Table(l) # None

\* The lines of config.toml that matter, told apart.
LEMMA LineFacts ==
    /\ \A l \in Codex!KeyLines : ~ IsTable(l) /\ l # "[features]" /\ ~ Codex!IsHeader(l)
            /\ l \in Plain /\ Codex!IsKey(l)
    /\ \A l \in Plain : (IsTable(l) <=> Codex!IsHeader(l))
            /\ (Codex!Table(l) = "features" <=> l = "[features]")
    /\ IsTable("[features]") /\ Codex!Table("[features]") = "features"
    /\ None # "features"
    /\ "[features]" \in Plain /\ "codex_hooks = true" \in Codex!KeyLines
    /\ "codex_hooks = false" \in Codex!KeyLines
    /\ Plain \subseteq Codex!AllLines
<1>1. None \notin {"features", "other"}
  BY FilesAssumption DEF Codex!CodexAssumption
<1>2. /\ Codex!Table("[features]") = "features" /\ Codex!Table("[other]") = "other"
      /\ \A l : l \notin {"[features]", "[features] #", "[other]", "[other] #"} =>
                    Codex!Table(l) = None
  BY DEF Codex!Table
<1> QED
  BY <1>1, <1>2 DEF IsTable, Codex!KeyLines, Codex!IsHeader, Codex!IsKey, Plain, Codex!AllLines

\* j is the header of the table that line i is in.
HeaderOf(c, i, j) ==
    /\ j \in DOMAIN c /\ j < i /\ IsTable(c[j])
    /\ \A k \in DOMAIN c : k < i /\ IsTable(c[k]) => k <= j
\* No header above line i.
NoHeader(c, i) == \A k \in DOMAIN c : k < i => ~ IsTable(c[k])

\* The table of a line is that of the last header at or above it.
LEMMA TableOfFacts ==
    ASSUME NEW T, NEW c \in Seq(T), NEW i \in DOMAIN c
    PROVE  /\ NoHeader(c, i) => Codex!TableOf(c, i) = None
           /\ \A j : HeaderOf(c, i, j) => Codex!TableOf(c, i) = Codex!Table(c[j])
           /\ NoHeader(c, i) \/ \E j : HeaderOf(c, i, j)
<1>1. Len(c) \in Nat /\ DOMAIN c = 1 .. Len(c) /\ i \in Nat
  BY LenProperties
<1> DEFINE headers == {j \in 1 .. i - 1 : Codex!Table(c[j]) # None}
<1>2. headers \subseteq 1 .. Len(c) /\ \A j \in DOMAIN c : j \in headers <=> j < i /\ IsTable(c[j])
  BY <1>1 DEF IsTable
<1>3. Codex!TableOf(c, i) =
        IF headers = {} THEN None ELSE Codex!Table(c[Codex!Last(headers)])
  BY DEF Codex!TableOf, Codex!Last
<1> HIDE DEF headers
<1>4. CASE headers = {}
  BY <1>1, <1>2, <1>3, <1>4 DEF NoHeader, HeaderOf
<1>5. CASE headers # {}
  <2> PICK j : j = Codex!Last(headers)
    OBVIOUS
  <2>1. j \in headers /\ \A k \in headers : k <= j
    BY <1>1, <1>2, <1>5, FirstLast
  <2>2. HeaderOf(c, i, j) /\ ~ NoHeader(c, i)
    BY <1>1, <1>2, <2>1 DEF NoHeader, HeaderOf
  <2>3. ASSUME NEW k, HeaderOf(c, i, k)
        PROVE  k = j
    <3>1. k \in DOMAIN c /\ k < i /\ IsTable(c[k]) /\ j \in DOMAIN c /\ j < i /\ IsTable(c[j])
      BY <2>2, <2>3 DEF HeaderOf
    <3>2. j <= k
      BY <2>3, <3>1 DEF HeaderOf
    <3>3. k <= j
      BY <1>2, <2>1, <3>1
    <3> QED
      BY <1>1, <3>1, <3>2, <3>3
  <2> QED
    BY <1>3, <1>5, <2>2, <2>3
<1> QED
  BY <1>4, <1>5

\* Whether a line is in the table, read line by line or by its meaning.
LEMMA SameKeys ==
    ASSUME NEW c \in Seq(Plain)
    PROVE  /\ Codex!ExistingKeys(c) = Codex!FeatureKeys(c)
           /\ \A i \in Codex!FeatureKeys(c) : \E h \in DOMAIN c : c[h] = "[features]"
<1>1. Len(c) \in Nat /\ DOMAIN c = 1 .. Len(c) /\ \A i \in DOMAIN c : c[i] \in Plain
  BY LenProperties, ElementOfSeq
<1>2. ASSUME NEW i \in DOMAIN c
      PROVE  /\ Codex!InFeatures(c, i) <=> Codex!TableOf(c, i) = "features"
             /\ Codex!TableOf(c, i) = "features" => \E h \in DOMAIN c : c[h] = "[features]"
  <2> PICK before : before = {j \in Codex!Headers(c) : j < i}
    OBVIOUS
  <2>1. /\ before \subseteq 1 .. Len(c)
        /\ \A j \in DOMAIN c : j \in before <=> j < i /\ IsTable(c[j])
    BY <1>1, LineFacts DEF Codex!Headers
  <2>2. Codex!InFeatures(c, i) <=> before # {} /\ c[Codex!Last(before)] = "[features]"
    BY DEF Codex!InFeatures
  <2>3. CASE before = {}
    <3>1. NoHeader(c, i)
      BY <2>1, <2>3 DEF NoHeader
    <3> QED
      BY <2>2, <2>3, <3>1, TableOfFacts, LineFacts
  <2>4. CASE before # {}
    <3> PICK j : j = Codex!Last(before)
      OBVIOUS
    <3>1. j \in before /\ \A k \in before : k <= j
      BY <1>1, <2>1, <2>4, FirstLast
    <3>2. HeaderOf(c, i, j) /\ c[j] \in Plain
      BY <1>1, <2>1, <3>1 DEF HeaderOf
    <3>3. Codex!TableOf(c, i) = Codex!Table(c[j])
      BY <3>2, TableOfFacts
    <3> QED
      BY <2>2, <2>4, <3>2, <3>3, LineFacts DEF HeaderOf
  <2> QED
    BY <2>3, <2>4
<1>3. ASSUME NEW i \in DOMAIN c
      PROVE  i \in Codex!ExistingKeys(c) <=> i \in Codex!FeatureKeys(c)
  <2>1. Codex!IsKey(c[i]) <=> c[i] \in Codex!KeyLines
    BY DEF Codex!IsKey
  <2> QED
    BY <1>2, <2>1, LineFacts DEF Codex!ExistingKeys, Codex!FeatureKeys
<1> QED
  BY <1>2, <1>3 DEF Codex!ExistingKeys, Codex!FeatureKeys

\* Where the user's lines are.
Positions(c) == {i \in DOMAIN c : i \notin Codex!FeatureKeys(c) /\ c[i] # "[features]"}

\* The user's lines are those at the positions that are not ours.
LEMMA ForeignIs == \A c : Codex!Foreign(c) = Picked(c, Positions(c))
BY SameOperators DEF Codex!Foreign, Positions

\* Our keys are the key lines of the features table.
LEMMA FeatureKeysIs ==
    \A c, i : i \in Codex!FeatureKeys(c) <=>
        i \in DOMAIN c /\ c[i] \in Codex!KeyLines /\ Codex!TableOf(c, i) = "features"
BY DEF Codex!FeatureKeys

\* Another value for the key of the feature.
LineSet(c, k, l, t) == t = [c EXCEPT ![k] = l]

\* It changes nothing else.
LEMMA KeySet ==
    ASSUME NEW T, NEW c \in Seq(T), Codex!ValidToml(c), NEW k \in Codex!FeatureKeys(c),
           NEW l \in T, l \in Codex!KeyLines, NEW t, LineSet(c, k, l, t)
    PROVE  /\ t \in Seq(T) /\ k \in Codex!FeatureKeys(t) /\ t[k] = l
           /\ Codex!ValidToml(t) /\ Codex!Foreign(t) = Codex!Foreign(c)
<1>1. /\ Len(c) \in Nat /\ DOMAIN c = 1 .. Len(c)
      /\ k \in DOMAIN c /\ c[k] \in Codex!KeyLines
  BY LenProperties, FeatureKeysIs
<1>2. /\ t \in Seq(T) /\ Len(t) = Len(c) /\ DOMAIN t = DOMAIN c
      /\ t[k] = l /\ \A i \in DOMAIN c : i # k => t[i] = c[i]
  BY <1>1, ExceptSeq DEF LineSet
<1>3. ASSUME NEW i \in DOMAIN c
      PROVE  /\ IsTable(t[i]) <=> IsTable(c[i])
             /\ IsTable(c[i]) => t[i] = c[i]
             /\ t[i] = "[features]" <=> c[i] = "[features]"
             /\ t[i] \in Codex!KeyLines <=> c[i] \in Codex!KeyLines
             /\ i = k \/ t[i] = c[i]
  BY <1>1, <1>2, LineFacts
<1>4. ASSUME NEW i \in DOMAIN c
      PROVE  Codex!TableOf(t, i) = Codex!TableOf(c, i)
  <2>1. CASE NoHeader(c, i)
    <3>1. NoHeader(t, i)
      BY <1>2, <1>3, <2>1 DEF NoHeader
    <3> QED
      BY <1>2, <2>1, <3>1, TableOfFacts
  <2>2. ASSUME NEW j, HeaderOf(c, i, j)
        PROVE  Codex!TableOf(t, i) = Codex!TableOf(c, i)
    <3>1. HeaderOf(t, i, j) /\ t[j] = c[j]
      BY <1>2, <1>3, <2>2 DEF HeaderOf
    <3>2. Codex!TableOf(t, i) = Codex!Table(t[j])
      BY <1>2, <3>1, TableOfFacts
    <3>3. Codex!TableOf(c, i) = Codex!Table(c[j])
      BY <2>2, TableOfFacts
    <3> QED
      BY <3>1, <3>2, <3>3
  <2> QED
    BY <2>1, <2>2, TableOfFacts
<1>5. \A i \in DOMAIN c : i \in Codex!FeatureKeys(t) <=> i \in Codex!FeatureKeys(c)
  BY <1>2, <1>3, <1>4, FeatureKeysIs
<1>6. Codex!ValidToml(t)
  <2>1. ASSUME NEW i \in DOMAIN c, NEW j \in DOMAIN c, IsTable(t[i]),
               Codex!Table(t[i]) = Codex!Table(t[j])
        PROVE  i = j
    <3>1. IsTable(t[j]) /\ t[i] = c[i] /\ t[j] = c[j]
      BY <1>3, <2>1 DEF IsTable
    <3> QED
      BY <2>1, <3>1 DEF Codex!ValidToml, IsTable
  <2>2. ASSUME NEW i \in DOMAIN c, NEW j \in DOMAIN c,
               t[i] \in Codex!KeyLines, t[j] \in Codex!KeyLines,
               Codex!TableOf(t, i) = Codex!TableOf(t, j)
        PROVE  i = j
    <3>1. /\ c[i] \in Codex!KeyLines /\ c[j] \in Codex!KeyLines
          /\ Codex!TableOf(c, i) = Codex!TableOf(c, j)
      BY <1>3, <1>4, <2>2
    <3> QED
      BY <3>1 DEF Codex!ValidToml
  <2> QED
    BY <1>2, <2>1, <2>2 DEF Codex!ValidToml, IsTable
<1>7. Codex!Foreign(t) = Codex!Foreign(c)
  <2>1. ASSUME NEW i \in 1 .. Len(c)
        PROVE  /\ i \in Positions(c) <=> i \in Positions(t)
               /\ i \in Positions(c) => c[i] = t[i]
    <3>1. /\ i \in DOMAIN c /\ i \in DOMAIN t
          /\ i \in Codex!FeatureKeys(t) <=> i \in Codex!FeatureKeys(c)
          /\ t[i] = "[features]" <=> c[i] = "[features]"
          /\ i = k \/ t[i] = c[i]
      BY <1>1, <1>2, <1>3, <1>5
    <3> QED
      BY <3>1 DEF Positions
  <2>2. Picked(c, Positions(c)) = Picked(t, Positions(t))
    <3> PICK P, Q : P = Positions(c) /\ Q = Positions(t)
      OBVIOUS
    <3>1. Agree(c, t, P, Q)
      BY <1>1, <1>2, <2>1 DEF Agree
    <3> QED
      BY <3>1, PickedAgree
  <2> QED
    BY <2>2, ForeignIs
<1> QED
  BY <1>1, <1>2, <1>5, <1>6, <1>7

\* One line more, after line e.
Inserted(c, e, l, t) ==
    /\ Len(t) = Len(c) + 1 /\ DOMAIN t = 1 .. Len(c) + 1
    /\ t[e + 1] = l
    /\ \A i \in 1 .. Len(c) : (i <= e => t[i] = c[i]) /\ (i > e => t[i + 1] = c[i])

\* The lines go on, in order.
LEMMA InsertedTables ==
    ASSUME NEW T, NEW c \in Seq(T), NEW t \in Seq(T), NEW e \in 0 .. Len(c), NEW l,
           Inserted(c, e, l, t)
    PROVE  /\ \A i \in DOMAIN c : i <= e => Codex!TableOf(t, i) = Codex!TableOf(c, i)
           /\ ~ IsTable(l) => \A i \in DOMAIN c :
                    i > e => Codex!TableOf(t, i + 1) = Codex!TableOf(c, i)
<1>1. /\ Len(c) \in Nat /\ DOMAIN c = 1 .. Len(c) /\ e \in Nat /\ e <= Len(c)
      /\ DOMAIN t = 1 .. Len(c) + 1
  BY LenProperties DEF Inserted
<1>2. ASSUME NEW i \in DOMAIN c, i <= e
      PROVE  Codex!TableOf(t, i) = Codex!TableOf(c, i)
  <2>1. i \in DOMAIN t /\ \A k \in DOMAIN t : k < i => k \in DOMAIN c /\ t[k] = c[k]
    BY <1>1, <1>2 DEF Inserted
  <2>2. \A k \in DOMAIN c : k < i => k \in DOMAIN t /\ t[k] = c[k]
    BY <1>1, <1>2 DEF Inserted
  <2>3. CASE NoHeader(c, i)
    <3>1. NoHeader(t, i)
      BY <2>1, <2>3 DEF NoHeader
    <3> QED
      BY <2>1, <2>3, <3>1, TableOfFacts
  <2>4. ASSUME NEW j, HeaderOf(c, i, j)
        PROVE  Codex!TableOf(t, i) = Codex!TableOf(c, i)
    <3>1. HeaderOf(t, i, j) /\ t[j] = c[j]
      BY <2>1, <2>2, <2>4 DEF HeaderOf
    <3> QED
      BY <2>1, <2>4, <3>1, TableOfFacts
  <2> QED
    BY <2>3, <2>4, TableOfFacts
<1>3. ASSUME ~ IsTable(l), NEW i \in DOMAIN c, i > e
      PROVE  Codex!TableOf(t, i + 1) = Codex!TableOf(c, i)
  <2> PICK n : n = i + 1
    OBVIOUS
  <2>1. n \in DOMAIN t /\ i \in Nat /\ n \in Nat
    BY <1>1
  <2>2. ASSUME NEW k \in DOMAIN t, k < n, IsTable(t[k])
        PROVE  \E k0 \in DOMAIN c : k0 < i /\ t[k] = c[k0] /\ k = IF k0 <= e THEN k0 ELSE k0 + 1
    <3>1. k # e + 1
      BY <1>3, <2>2 DEF Inserted
    <3>2. CASE k <= e
      BY <1>1, <1>3, <2>2, <3>2 DEF Inserted
    <3>3. CASE k > e + 1
      <4>1. k - 1 \in DOMAIN c /\ k - 1 < i /\ k - 1 > e /\ (k - 1) + 1 = k
        BY <1>1, <2>2, <3>3
      <4>2. t[k] = c[k - 1]
        BY <1>1, <4>1 DEF Inserted
      <4> QED
        BY <1>1, <4>1, <4>2
    <3> QED
      BY <1>1, <3>1, <3>2, <3>3
  <2>3. CASE NoHeader(c, i)
    <3>1. NoHeader(t, n)
      BY <2>2, <2>3 DEF NoHeader
    <3> QED
      BY <2>1, <2>3, <3>1, TableOfFacts
  <2>4. ASSUME NEW j, HeaderOf(c, i, j)
        PROVE  Codex!TableOf(t, n) = Codex!TableOf(c, i)
    <3> PICK j1 : j1 = IF j <= e THEN j ELSE j + 1
      OBVIOUS
    <3>1. /\ j \in DOMAIN c /\ j < i /\ IsTable(c[j])
          /\ \A k \in DOMAIN c : k < i /\ IsTable(c[k]) => k <= j
      BY <2>4 DEF HeaderOf
    <3>2. j1 \in DOMAIN t /\ j1 < n /\ t[j1] = c[j]
      BY <1>1, <3>1 DEF Inserted
    <3>3. ASSUME NEW k \in DOMAIN t, k < n, IsTable(t[k])
          PROVE  k <= j1
      <4>1. PICK k0 \in DOMAIN c : k0 < i /\ t[k] = c[k0] /\ k = IF k0 <= e THEN k0 ELSE k0 + 1
        BY <2>2, <3>3
      <4>2. k0 <= j
        BY <3>1, <3>3, <4>1
      <4> QED
        BY <1>1, <3>1, <4>1, <4>2
    <3>4. HeaderOf(t, n, j1)
      BY <3>1, <3>2, <3>3 DEF HeaderOf
    <3> QED
      BY <2>1, <2>4, <3>2, <3>4, TableOfFacts
  <2> QED
    BY <2>3, <2>4, TableOfFacts
<1> QED
  BY <1>2, <1>3

\* The lines that are written.
Header == "[features]"
KeyOn  == "codex_hooks = true"

\* The lines that install writes are lines of the file.
LEMMA WrittenFacts ==
    /\ KeyOn \in Codex!KeyLines /\ KeyOn \in Plain /\ ~ IsTable(KeyOn) /\ KeyOn # Header
    /\ Header \in Plain /\ IsTable(Header) /\ Header \notin Codex!KeyLines
    /\ Codex!Table(Header) = "features" /\ None # "features"
    /\ \A l \in Codex!KeyLines : ~ IsTable(l)
    /\ \A l \in Plain : Codex!Table(l) = "features" <=> l = Header
    /\ \A c : Positions(c) = {i \in DOMAIN c : i \notin Codex!FeatureKeys(c) /\ c[i] # Header}
    /\ \A c : Codex!FeatureOn(c) <=> \E i \in Codex!FeatureKeys(c) : c[i] = KeyOn
<1>1. KeyOn \in Codex!KeyLines /\ Header \in Plain
  BY LineFacts, Zenon DEF KeyOn, Header
<1>2. KeyOn \in Plain /\ ~ IsTable(KeyOn) /\ KeyOn # Header
  BY <1>1, LineFacts, Zenon DEF Header
<1>3. /\ IsTable(Header) /\ Codex!Table(Header) = "features" /\ None # "features"
      /\ \A l \in Codex!KeyLines : ~ IsTable(l)
  BY LineFacts, Zenon DEF Header
<1>4. Header \notin Codex!KeyLines
  BY <1>3, LineFacts, Zenon
<1>5. \A l \in Plain : Codex!Table(l) = "features" <=> l = Header
  BY LineFacts, Zenon DEF Header
<1>6. \A c : Positions(c) = {i \in DOMAIN c : i \notin Codex!FeatureKeys(c) /\ c[i] # Header}
  BY Zenon DEF Positions, Header
<1>7. \A c : Codex!FeatureOn(c) <=> \E i \in Codex!FeatureKeys(c) : c[i] = KeyOn
  BY Zenon DEF Codex!FeatureOn, KeyOn
<1> QED
  BY <1>1, <1>2, <1>3, <1>4, <1>5, <1>6, <1>7, Zenon

\* The feature is on, in a file that parses.
Enabled(c) == c \in Seq(Plain) /\ Codex!ValidToml(c) /\ Codex!FeatureOn(c)

\* The key, at the end of a table [features] that does not have it.
LEMMA KeyInserted ==
    ASSUME NEW c \in Seq(Plain), Codex!ValidToml(c), Codex!FeatureKeys(c) = {},
           NEW h \in DOMAIN c, c[h] = Header, NEW e \in 0 .. Len(c), h <= e,
           \A j \in DOMAIN c : j > h /\ j <= e => ~ IsTable(c[j]),
           NEW t \in Seq(Plain), Inserted(c, e, KeyOn, t)
    PROVE  Enabled(t) /\ Codex!Foreign(t) = Codex!Foreign(c)
<1> PICK l : l = KeyOn
  OBVIOUS
<1>1. /\ Len(c) \in Nat /\ DOMAIN c = 1 .. Len(c) /\ e \in Nat /\ e <= Len(c) /\ h \in Nat
      /\ DOMAIN t = 1 .. Len(c) + 1 /\ Len(t) = Len(c) + 1 /\ e + 1 \in DOMAIN t /\ t[e + 1] = l
      /\ l \in Codex!KeyLines /\ ~ IsTable(l) /\ l # Header
  BY LenProperties, WrittenFacts DEF Inserted
<1> DEFINE at(i) == IF i <= e THEN i ELSE i + 1
<1>2. ASSUME NEW i \in DOMAIN c
      PROVE  /\ at(i) \in DOMAIN t /\ at(i) # e + 1 /\ t[at(i)] = c[i]
             /\ Codex!TableOf(t, at(i)) = Codex!TableOf(c, i)
  <2>1. at(i) \in DOMAIN t /\ at(i) # e + 1 /\ t[at(i)] = c[i]
    BY <1>1 DEF Inserted
  <2>2. Codex!TableOf(t, at(i)) = Codex!TableOf(c, i)
    <3>1. CASE i <= e
      BY <1>1, <3>1, InsertedTables
    <3>2. CASE i > e
      <4>1. Codex!TableOf(t, i + 1) = Codex!TableOf(c, i)
        BY <1>1, <3>2, InsertedTables
      <4> QED
        BY <1>1, <3>2, <4>1
    <3> QED
      BY <1>1, <3>1, <3>2
  <2> QED
    BY <2>1, <2>2
<1>3. ASSUME NEW n \in DOMAIN t, n # e + 1
      PROVE  \E i \in DOMAIN c : n = at(i)
  <2>1. CASE n <= e
    BY <1>1, <2>1
  <2>2. CASE n > e + 1
    <3>1. n - 1 \in DOMAIN c /\ ~ (n - 1 <= e) /\ (n - 1) + 1 = n
      BY <1>1, <2>2
    <3> QED
      BY <3>1
  <2> QED
    BY <1>1, <1>3, <2>1, <2>2
<1>4. \A i, j \in DOMAIN c : at(i) = at(j) => i = j
  BY <1>1
<1> HIDE DEF at
<1>5. Codex!TableOf(t, e + 1) = "features"
  <2>1. h \in DOMAIN t /\ h < e + 1 /\ t[h] = Header
    BY <1>1 DEF Inserted
  <2>2. ASSUME NEW k \in DOMAIN t, k < e + 1, IsTable(t[k])
        PROVE  k <= h
    <3>1. k \in DOMAIN c /\ k <= e /\ t[k] = c[k]
      BY <1>1, <2>2 DEF Inserted
    <3> QED
      BY <1>1, <2>2, <3>1
  <2>3. HeaderOf(t, e + 1, h)
    BY <2>1, <2>2, WrittenFacts DEF HeaderOf
  <2> QED
    BY <1>1, <2>1, <2>3, TableOfFacts, WrittenFacts
<1>6. ASSUME NEW n \in DOMAIN t, n # e + 1
      PROVE  n \notin Codex!FeatureKeys(t)
  <2>1. PICK i \in DOMAIN c : n = at(i)
    BY <1>3, <1>6
  <2> QED
    BY <1>2, <2>1, FeatureKeysIs
<1>7. e + 1 \in Codex!FeatureKeys(t) /\ Codex!FeatureOn(t)
  <2>1. e + 1 \in Codex!FeatureKeys(t)
    BY <1>1, <1>5, FeatureKeysIs
  <2> QED
    BY <1>1, <2>1, WrittenFacts
<1>8. Codex!ValidToml(t)
  <2>1. ASSUME NEW m \in DOMAIN t, NEW n \in DOMAIN t, IsTable(t[m]),
               Codex!Table(t[m]) = Codex!Table(t[n])
        PROVE  m = n
    <3>1. m # e + 1 /\ n # e + 1
      BY <1>1, <2>1 DEF IsTable
    <3>2. PICK i \in DOMAIN c, j \in DOMAIN c : m = at(i) /\ n = at(j)
      BY <1>3, <3>1
    <3>3. t[m] = c[i] /\ t[n] = c[j]
      BY <1>2, <3>2
    <3>4. i = j
      BY <2>1, <3>3 DEF Codex!ValidToml, IsTable
    <3> QED
      BY <3>2, <3>4
  <2>2. ASSUME NEW m \in DOMAIN t, NEW n \in DOMAIN t,
               t[m] \in Codex!KeyLines, t[n] \in Codex!KeyLines,
               Codex!TableOf(t, m) = Codex!TableOf(t, n)
        PROVE  m = n
    <3>1. CASE m = e + 1 \/ n = e + 1
      BY <1>5, <1>6, <2>2, <3>1, FeatureKeysIs
    <3>2. CASE m # e + 1 /\ n # e + 1
      <4>1. PICK i \in DOMAIN c, j \in DOMAIN c : m = at(i) /\ n = at(j)
        BY <1>3, <3>2
      <4>2. /\ c[i] \in Codex!KeyLines /\ c[j] \in Codex!KeyLines
            /\ Codex!TableOf(c, i) = Codex!TableOf(c, j)
        BY <1>2, <2>2, <4>1
      <4>3. i = j
        BY <4>2 DEF Codex!ValidToml
      <4> QED
        BY <4>1, <4>3
    <3> QED
      BY <3>1, <3>2
  <2> QED
    BY <2>1, <2>2 DEF Codex!ValidToml, IsTable
<1>9. Codex!Foreign(t) = Codex!Foreign(c)
  <2> PICK P, Q : P = Positions(c) /\ Q = Positions(t)
    OBVIOUS
  <2>1. ASSUME NEW i \in DOMAIN c
        PROVE  i \in P <=> at(i) \in Q
    BY <1>2, <1>6, WrittenFacts
  <2>2. e + 1 \notin Q
    BY <1>7, WrittenFacts
  <2>3. AgreeAround(c, t, e, P, Q)
    <3>1. ASSUME NEW i \in 1 .. Len(c), i <= e
          PROVE  (i \in P <=> i \in Q) /\ c[i] = t[i]
      BY <1>1, <1>2, <2>1, <3>1 DEF at
    <3>2. ASSUME NEW i \in 1 .. Len(c), i > e
          PROVE  (i \in P <=> i + 1 \in Q) /\ c[i] = t[i + 1]
      <4>1. at(i) = i + 1
        BY <1>1, <3>2 DEF at
      <4> QED
        BY <1>1, <1>2, <2>1, <4>1
    <3> QED
      BY <1>1, <2>2, <3>1, <3>2 DEF AgreeAround
  <2>4. Picked(c, P) = Picked(t, Q)
    BY <2>3, PickedInsert
  <2> QED
    BY <2>4, ForeignIs
<1> QED
  BY <1>7, <1>8, <1>9 DEF Enabled

\* Two lines at the end are two lines more.
LEMMA AppendTwo ==
    ASSUME NEW T, NEW c \in Seq(T), NEW a \in T, NEW b \in T
    PROVE  \E u \in Seq(T) :
                /\ Inserted(c, Len(c), a, u)
                /\ Inserted(u, Len(c) + 1, b, c \o <<a, b>>)
                /\ c \o <<a, b>> \in Seq(T) /\ Len(u) = Len(c) + 1
<1> PICK m \in Nat : m = Len(c)
  BY LenProperties
<1> DEFINE u == Append(c, a)
<1>1. /\ DOMAIN c = 1 .. m /\ u \in Seq(T) /\ Len(u) = m + 1 /\ DOMAIN u = 1 .. m + 1
      /\ u[m + 1] = a /\ \A i \in 1 .. m : u[i] = c[i]
  BY LenProperties, AppendProperties
<1> HIDE DEF u
<1> PICK d, t : d = <<a, b>> /\ t = c \o d
  OBVIOUS
<1>2. d \in Seq(T) /\ Len(d) = 2 /\ d[1] = a /\ d[2] = b
  OBVIOUS
<1>3. /\ t \in Seq(T) /\ Len(t) = m + 2
      /\ \A i \in 1 .. m + 2 : t[i] = IF i <= m THEN c[i] ELSE d[i - m]
  BY <1>2, ConcatProperties
<1>4. DOMAIN t = 1 .. m + 2 /\ t[m + 1] = a /\ t[m + 2] = b /\ \A i \in 1 .. m : t[i] = c[i]
  BY <1>2, <1>3, LenProperties
<1>5. Inserted(c, m, a, u)
  BY <1>1 DEF Inserted
<1>6. Inserted(u, m + 1, b, t)
  BY <1>1, <1>3, <1>4 DEF Inserted
<1> QED
  BY <1>1, <1>3, <1>5, <1>6

\* The table and the key, at the end of a file without the table.
LEMMA TableAppended ==
    ASSUME NEW c \in Seq(Plain), Codex!ValidToml(c), \A i \in DOMAIN c : c[i] # Header,
           NEW u \in Seq(Plain), NEW t \in Seq(Plain), Len(u) = Len(c) + 1,
           Inserted(c, Len(c), Header, u), Inserted(u, Len(c) + 1, KeyOn, t)
    PROVE  Enabled(t) /\ Codex!Foreign(t) = Codex!Foreign(c)
<1> PICK l : l = KeyOn
  OBVIOUS
<1> PICK m \in Nat : m = Len(c)
  BY LenProperties
<1>1. /\ DOMAIN c = 1 .. m /\ u \in Seq(Plain) /\ t \in Seq(Plain)
      /\ Len(u) = m + 1 /\ DOMAIN u = 1 .. m + 1 /\ u[m + 1] = Header
      /\ \A i \in 1 .. m : u[i] = c[i]
  BY LenProperties DEF Inserted
<1>2. /\ Len(t) = m + 2 /\ DOMAIN t = 1 .. m + 2 /\ t[m + 1] = Header /\ t[m + 2] = l
      /\ \A i \in 1 .. m : t[i] = c[i]
  <2>1. /\ Len(t) = (m + 1) + 1 /\ DOMAIN t = 1 .. (m + 1) + 1 /\ t[(m + 1) + 1] = l
        /\ \A i \in 1 .. m + 1 : i <= m + 1 => t[i] = u[i]
    BY <1>1 DEF Inserted
  <2> QED
    BY <1>1, <2>1
<1>3. l \in Codex!KeyLines /\ ~ IsTable(l) /\ IsTable(Header) /\ l # Header
      /\ Header \notin Codex!KeyLines
  BY WrittenFacts
<1>4. \A i \in DOMAIN c : Codex!TableOf(t, i) = Codex!TableOf(c, i)
  <2>1. Inserted(c, m, Header, u)
    OBVIOUS
  <2>2. ASSUME NEW i \in DOMAIN c
        PROVE  Codex!TableOf(u, i) = Codex!TableOf(c, i)
    <3>1. m \in 0 .. Len(c) /\ i <= m
      BY <1>1
    <3> QED
      BY <1>1, <2>1, <3>1, InsertedTables
  <2>3. Inserted(u, m + 1, l, t)
    OBVIOUS
  <2>4. ASSUME NEW i \in DOMAIN u
        PROVE  Codex!TableOf(t, i) = Codex!TableOf(u, i)
    <3>1. m + 1 \in 0 .. Len(u) /\ i <= m + 1
      BY <1>1
    <3> QED
      BY <1>1, <2>3, <3>1, InsertedTables
  <2>5. DOMAIN c \subseteq DOMAIN u
    BY <1>1
  <2> QED
    BY <2>2, <2>4, <2>5
<1>5. \A i \in DOMAIN c : Codex!TableOf(c, i) # "features"
  <2> SUFFICES ASSUME NEW i \in DOMAIN c PROVE Codex!TableOf(c, i) # "features"
    OBVIOUS
  <2>1. CASE NoHeader(c, i)
    BY <2>1, TableOfFacts, WrittenFacts
  <2>2. ASSUME NEW j, HeaderOf(c, i, j)
        PROVE  Codex!TableOf(c, i) # "features"
    <3>1. j \in DOMAIN c /\ c[j] \in Plain
      BY <2>2, <1>1, ElementOfSeq DEF HeaderOf
    <3>2. Codex!TableOf(c, i) = Codex!Table(c[j])
      BY <2>2, TableOfFacts
    <3> QED
      BY <3>1, <3>2, WrittenFacts
  <2> QED
    BY <2>1, <2>2, TableOfFacts
<1>6. Codex!TableOf(t, m + 2) = "features"
  <2>1. \A k \in DOMAIN t : k < m + 2 /\ IsTable(t[k]) => k <= m + 1
    BY <1>2
  <2> PICK n, h : n = m + 2 /\ h = m + 1
    OBVIOUS
  <2>2. HeaderOf(t, n, h) /\ n \in DOMAIN t
    BY <1>2, <1>3, <2>1 DEF HeaderOf
  <2>3. Codex!TableOf(t, n) = Codex!Table(t[h])
    BY <1>1, <2>2, TableOfFacts
  <2>4. t[h] = Header
    BY <1>2
  <2> QED
    BY <2>3, <2>4, WrittenFacts
<1>7. m + 2 \in Codex!FeatureKeys(t) /\ Codex!FeatureOn(t)
      /\ \A i \in 1 .. m : i \notin Codex!FeatureKeys(t) /\ i \notin Codex!FeatureKeys(c)
  <2>1. m + 2 \in Codex!FeatureKeys(t)
    <3>1. m + 2 \in DOMAIN t /\ t[m + 2] \in Codex!KeyLines
      BY <1>2, <1>3
    <3> QED
      BY <1>6, <3>1, FeatureKeysIs
  <2>2. \A i \in 1 .. m : i \notin Codex!FeatureKeys(t) /\ i \notin Codex!FeatureKeys(c)
    BY <1>1, <1>4, <1>5, FeatureKeysIs
  <2> QED
    BY <1>2, <2>1, <2>2, WrittenFacts
<1>8. Codex!ValidToml(t)
  <2>0. ASSUME NEW i \in DOMAIN t
        PROVE  i \in DOMAIN c \/ i = m + 1 \/ i = m + 2
    BY <1>1, <1>2
  <2>1. ASSUME NEW i \in DOMAIN t, NEW j \in DOMAIN t, IsTable(t[i]),
               Codex!Table(t[i]) = Codex!Table(t[j])
        PROVE  i = j
    <3>1. i # m + 2 /\ j # m + 2
      BY <1>2, <1>3, <2>1 DEF IsTable
    <3>2. \A k \in DOMAIN c : t[k] = c[k] /\ Codex!Table(c[k]) # "features"
      <4> SUFFICES ASSUME NEW k \in DOMAIN c PROVE t[k] = c[k] /\ Codex!Table(c[k]) # "features"
      OBVIOUS
    <4>1. c[k] \in Plain
      BY <1>1, ElementOfSeq
    <4>2. c[k] # Header
      OBVIOUS
    <4> QED
      BY <1>1, <1>2, <4>1, <4>2, WrittenFacts
    <3>3. CASE i = m + 1 \/ j = m + 1
      BY <1>2, <2>0, <2>1, <3>1, <3>2, <3>3, WrittenFacts
    <3>4. CASE i \in DOMAIN c /\ j \in DOMAIN c
      BY <2>1, <3>2, <3>4 DEF Codex!ValidToml, IsTable
    <3> QED
      BY <2>0, <3>1, <3>3, <3>4
  <2>2. ASSUME NEW i \in DOMAIN t, NEW j \in DOMAIN t,
               t[i] \in Codex!KeyLines, t[j] \in Codex!KeyLines,
               Codex!TableOf(t, i) = Codex!TableOf(t, j)
        PROVE  i = j
    <3>1. i # m + 1 /\ j # m + 1
      BY <1>2, <1>3, <2>2
    <3>2. \A k \in DOMAIN c : t[k] = c[k] /\ Codex!TableOf(t, k) = Codex!TableOf(c, k)
                               /\ Codex!TableOf(t, k) # "features"
      BY <1>1, <1>2, <1>4, <1>5
    <3>3. CASE i = m + 2 \/ j = m + 2
      BY <1>6, <2>0, <2>2, <3>1, <3>2, <3>3
    <3>4. CASE i \in DOMAIN c /\ j \in DOMAIN c
      BY <2>2, <3>2, <3>4 DEF Codex!ValidToml
    <3> QED
      BY <2>0, <3>1, <3>3, <3>4
  <2> QED
    BY <2>1, <2>2 DEF Codex!ValidToml, IsTable
<1>9. Codex!Foreign(t) = Codex!Foreign(c)
  <2> PICK P, Q : P = Positions(c) /\ Q = Positions(t)
    OBVIOUS
  <2>0. /\ \A i : i \in P <=> i \in DOMAIN c /\ i \notin Codex!FeatureKeys(c) /\ c[i] # Header
        /\ \A i : i \in Q <=> i \in DOMAIN t /\ i \notin Codex!FeatureKeys(t) /\ t[i] # Header
    <3>1. /\ P = {i \in DOMAIN c : i \notin Codex!FeatureKeys(c) /\ c[i] # Header}
          /\ Q = {i \in DOMAIN t : i \notin Codex!FeatureKeys(t) /\ t[i] # Header}
      BY WrittenFacts
    <3> QED
      BY <3>1
  <2>1. m + 1 \notin Q /\ m + 2 \notin Q
    BY <1>2, <1>7, <2>0
  <2>2. \A i \in 1 .. m : (i \in P <=> i \in Q) /\ c[i] = t[i]
    BY <1>1, <1>2, <1>7, <2>0
  <2>3. AgreeAround(c, u, m, P, Q)
    BY <1>1, <1>2, <2>1, <2>2 DEF AgreeAround
  <2>4. AgreeAround(u, t, m + 1, Q, Q)
    BY <1>1, <1>2, <2>1, <2>2 DEF AgreeAround
  <2>5. Picked(c, P) = Picked(u, Q) /\ Picked(u, Q) = Picked(t, Q)
    BY <2>3, <2>4, PickedInsert
  <2> QED
    BY <2>5, ForeignIs
<1> QED
  BY <1>1, <1>7, <1>8, <1>9 DEF Enabled

\* In plain files the two ways to see a table agree.
LEMMA PlainHeaders == \A l \in Plain : IsTable(l) <=> Codex!IsHeader(l)
BY LineFacts, Zenon

\* EnsureFeature by cases.
LEMMA EnsureCases ==
    ASSUME NEW c
    PROVE  /\ Codex!ExistingKeys(c) # {} =>
                Codex!EnsureFeature(c) = [c EXCEPT ![Codex!Last(Codex!ExistingKeys(c))] = KeyOn]
           /\ Codex!ExistingKeys(c) = {} /\ Codex!FeaturesHeaders(c) # {} =>
                Codex!EnsureFeature(c) = Codex!InsertAfter(c, Codex!FeaturesEnd(c), KeyOn)
           /\ Codex!ExistingKeys(c) = {} /\ Codex!FeaturesHeaders(c) = {} =>
                Codex!EnsureFeature(c) = c \o <<Header, KeyOn>>
           /\ Codex!ExistingKeys(c) \subseteq DOMAIN c
           /\ Codex!FeaturesHeaders(c) = {i \in DOMAIN c : c[i] = Header}
<1>1. Codex!ExistingKeys(c) # {} =>
        Codex!EnsureFeature(c) = [c EXCEPT ![Codex!Last(Codex!ExistingKeys(c))] = KeyOn]
  BY Zenon DEF Codex!EnsureFeature, KeyOn
<1>2. Codex!ExistingKeys(c) = {} /\ Codex!FeaturesHeaders(c) # {} =>
        Codex!EnsureFeature(c) = Codex!InsertAfter(c, Codex!FeaturesEnd(c), KeyOn)
  BY Zenon DEF Codex!EnsureFeature, KeyOn
<1>3. Codex!ExistingKeys(c) = {} /\ Codex!FeaturesHeaders(c) = {} =>
        Codex!EnsureFeature(c) = c \o <<Header, KeyOn>>
  BY Zenon DEF Codex!EnsureFeature, Header, KeyOn
<1>4. Codex!ExistingKeys(c) \subseteq DOMAIN c
  BY Zenon DEF Codex!ExistingKeys
<1>5. Codex!FeaturesHeaders(c) = {i \in DOMAIN c : c[i] = Header}
  BY Zenon DEF Codex!FeaturesHeaders, Header
<1> QED
  BY <1>1, <1>2, <1>3, <1>4, <1>5, Zenon

\* Where the table ends.
LEMMA EndOfTable ==
    ASSUME NEW T, NEW c \in Seq(T), Codex!FeaturesHeaders(c) # {},
           NEW h, h = Codex!Last(Codex!FeaturesHeaders(c)), NEW e, e = Codex!FeaturesEnd(c)
    PROVE  /\ h \in DOMAIN c /\ c[h] = Header /\ e \in 0 .. Len(c) /\ h <= e
           /\ \A j \in DOMAIN c : j > h /\ j <= e => ~ Codex!IsHeader(c[j])
<1> PICK next : next = {i \in Codex!Headers(c) : i > h}
  OBVIOUS
<1>1. Len(c) \in Nat /\ DOMAIN c = 1 .. Len(c)
  BY LenProperties
<1>2. h \in DOMAIN c /\ c[h] = Header
  <2>1. Codex!FeaturesHeaders(c) \subseteq 1 .. Len(c)
    BY <1>1, EnsureCases
  <2>2. h \in Codex!FeaturesHeaders(c)
    BY <1>1, <2>1, FirstLast
  <2> QED
    BY <2>2, EnsureCases
<1>3. e = IF next = {} THEN Len(c) ELSE Codex!First(next) - 1
  BY DEF Codex!FeaturesEnd
<1>4. /\ next \subseteq 1 .. Len(c)
      /\ \A j \in DOMAIN c : j \in next <=> j > h /\ Codex!IsHeader(c[j])
  BY <1>1 DEF Codex!Headers
<1>5. CASE next = {}
  BY <1>1, <1>2, <1>3, <1>4, <1>5
<1>6. CASE next # {}
  <2> PICK f : f = Codex!First(next)
    OBVIOUS
  <2>1. f \in next /\ \A j \in next : f <= j
    BY <1>1, <1>4, <1>6, FirstLast
  <2>2. f \in 1 .. Len(c) /\ f > h /\ e = f - 1
    BY <1>1, <1>3, <1>4, <1>6, <2>1
  <2> QED
    <3>1. ASSUME NEW j \in DOMAIN c, j > h, j <= e
          PROVE  ~ Codex!IsHeader(c[j])
      <4>1. ~ (f <= j) /\ j \notin next
        BY <1>1, <2>1, <2>2, <3>1
      <4> QED
        BY <1>4, <3>1, <4>1
    <3>2. e \in 0 .. Len(c) /\ h <= e
      BY <1>1, <1>2, <2>2
    <3> QED
      BY <1>2, <3>1, <3>2
<1> QED
  BY <1>5, <1>6

\* Inserting a line moves the later ones one down and leaves the rest.
LEMMA InsertAfterFacts ==
    ASSUME NEW T, NEW c \in Seq(T), NEW e \in 0 .. Len(c), NEW l \in T
    PROVE  /\ Codex!InsertAfter(c, e, l) \in Seq(T)
           /\ Inserted(c, e, l, Codex!InsertAfter(c, e, l))
<1>0. PICK a, b, m : a = SubSeq(c, 1, e) /\ m = <<l>> /\ b = SubSeq(c, e + 1, Len(c))
  OBVIOUS
<1>1. PICK n \in Nat : n = Len(c) /\ DOMAIN c = 1 .. n /\ e \in Nat /\ e <= n
  BY LenProperties
<1>2. /\ a \in Seq(T) /\ Len(a) = e /\ \A i \in 1 .. e : a[i] = c[i]
  <2>1. 1 \in 1 .. Len(c) + 1 /\ e \in 1 - 1 .. Len(c)
    BY <1>1
  <2>2. /\ SubSeq(c, 1, e) \in Seq(T) /\ Len(SubSeq(c, 1, e)) = e - 1 + 1
        /\ \A i \in 1 .. e - 1 + 1 : SubSeq(c, 1, e)[i] = c[1 + i - 1]
    BY <2>1, SubSeqProperties
  <2> QED
    BY <1>0, <1>1, <2>2
<1>3. /\ b \in Seq(T) /\ Len(b) = n - e
      /\ \A i \in 1 .. n - e : b[i] = c[e + i]
  <2>1. e + 1 \in 1 .. Len(c) + 1 /\ Len(c) \in (e + 1) - 1 .. Len(c)
    BY <1>1
  <2>2. /\ SubSeq(c, e + 1, Len(c)) \in Seq(T)
        /\ Len(SubSeq(c, e + 1, Len(c))) = Len(c) - (e + 1) + 1
        /\ \A i \in 1 .. Len(c) - (e + 1) + 1 :
                SubSeq(c, e + 1, Len(c))[i] = c[(e + 1) + i - 1]
    BY <2>1, SubSeqProperties
  <2>3. /\ b \in Seq(T) /\ Len(b) = n - (e + 1) + 1
        /\ \A i \in 1 .. n - (e + 1) + 1 : b[i] = c[(e + 1) + i - 1]
    BY <1>0, <1>1, <2>2
  <2>4. n - (e + 1) + 1 = n - e
    BY <1>1
  <2>5. ASSUME NEW i \in 1 .. n - e
        PROVE  b[i] = c[e + i]
    <3>1. (e + 1) + i - 1 = e + i
      BY <1>1
    <3> QED
      BY <2>3, <2>4, <3>1
  <2> QED
    BY <2>3, <2>4, <2>5
<1>4. m \in Seq(T) /\ Len(m) = 1 /\ m[1] = l
  BY <1>0
<1>00. PICK am, t : am = a \o m /\ t = am \o b
  OBVIOUS
<1>5. am \in Seq(T) /\ Len(am) = e + 1 /\ am[e + 1] = l /\ \A i \in 1 .. e : am[i] = c[i]
  <2>1. /\ a \o m \in Seq(T) /\ Len(a \o m) = Len(a) + Len(m)
        /\ \A i \in 1 .. Len(a) + Len(m) :
                (a \o m)[i] = IF i <= Len(a) THEN a[i] ELSE m[i - Len(a)]
    BY <1>2, <1>4, ConcatProperties
  <2>2. /\ am \in Seq(T) /\ Len(am) = e + 1
        /\ \A i \in 1 .. e + 1 : am[i] = IF i <= e THEN a[i] ELSE m[i - e]
    BY <1>00, <1>2, <1>4, <2>1
  <2>3. am[e + 1] = l
    <3>1. e + 1 \in 1 .. e + 1 /\ ~ (e + 1 <= e) /\ (e + 1) - e = 1
      BY <1>1
    <3> QED
      BY <1>4, <2>2, <3>1
  <2>4. \A i \in 1 .. e : i \in 1 .. e + 1 /\ i <= e
    BY <1>1
  <2> QED
    BY <1>2, <2>2, <2>3, <2>4
<1>6. /\ t \in Seq(T) /\ Len(t) = n + 1
      /\ \A i \in 1 .. n + 1 : t[i] = IF i <= e + 1 THEN am[i] ELSE b[i - (e + 1)]
  <2>1. /\ am \o b \in Seq(T) /\ Len(am \o b) = Len(am) + Len(b)
        /\ \A i \in 1 .. Len(am) + Len(b) :
                (am \o b)[i] = IF i <= Len(am) THEN am[i] ELSE b[i - Len(am)]
    BY <1>3, <1>5, ConcatProperties
  <2>2. Len(am) + Len(b) = n + 1
    BY <1>1, <1>3, <1>5
  <2> QED
    BY <1>00, <1>5, <2>1, <2>2
<1>7. DOMAIN t = 1 .. n + 1
  BY <1>6, LenProperties
<1>8. ASSUME NEW i \in 1 .. n
      PROVE  (i <= e => t[i] = c[i]) /\ (i > e => t[i + 1] = c[i])
  <2>1. CASE i <= e
    BY <1>1, <1>5, <1>6, <2>1
  <2>2. CASE i > e
    <3>1. t[i + 1] = b[(i + 1) - (e + 1)]
      BY <1>1, <1>6, <2>2
    <3>2. (i + 1) - (e + 1) = i - e /\ i - e \in 1 .. n - e /\ e + (i - e) = i
      BY <1>1, <2>2
    <3>3. b[i - e] = c[e + (i - e)]
      BY <1>3, <3>2
    <3>4. t[i + 1] = b[i - e]
      BY <3>1, <3>2
    <3> QED
      BY <1>1, <2>2, <3>2, <3>3, <3>4
  <2> QED
    BY <1>1, <2>1, <2>2
<1>9. t[e + 1] = l
  BY <1>1, <1>5, <1>6
<1>10. Inserted(c, e, l, t)
  BY <1>1, <1>6, <1>7, <1>8, <1>9 DEF Inserted
<1>11. t = Codex!InsertAfter(c, e, l)
  BY <1>0, <1>00 DEF Codex!InsertAfter
<1> QED
  BY <1>6, <1>10, <1>11

\* ensure_codex_hooks_feature writes lines of the same kinds.
LEMMA EnsureType ==
    ASSUME NEW T, Header \in T, KeyOn \in T, NEW c \in Seq(T)
    PROVE  Codex!EnsureFeature(c) \in Seq(T)
<1>1. Len(c) \in Nat /\ DOMAIN c = 1 .. Len(c)
  BY LenProperties
<1>2. CASE Codex!ExistingKeys(c) # {}
  <2> PICK k : k = Codex!Last(Codex!ExistingKeys(c))
    OBVIOUS
  <2>1. k \in DOMAIN c
    BY <1>1, <1>2, EnsureCases, FirstLast
  <2>2. [c EXCEPT ![k] = KeyOn] \in Seq(T)
    BY <2>1, ExceptSeq
  <2> QED
    BY <1>2, <2>2, EnsureCases
<1>3. CASE Codex!ExistingKeys(c) = {} /\ Codex!FeaturesHeaders(c) # {}
  <2>1. Codex!FeaturesEnd(c) \in 0 .. Len(c)
    BY <1>3, EndOfTable
  <2>2. Codex!InsertAfter(c, Codex!FeaturesEnd(c), KeyOn) \in Seq(T)
    BY <2>1, InsertAfterFacts
  <2> QED
    BY <1>3, <2>2, EnsureCases
<1>4. CASE Codex!ExistingKeys(c) = {} /\ Codex!FeaturesHeaders(c) = {}
  <2>1. c \o <<Header, KeyOn>> \in Seq(T)
    BY AppendTwo
  <2> QED
    BY <1>4, <2>1, EnsureCases
<1> QED
  BY <1>2, <1>3, <1>4

\* It turns the feature on, in a file that parses before and after, and keeps
\* every other line.
LEMMA EnsureOK ==
    ASSUME NEW c \in Seq(Plain), Codex!ValidToml(c), NEW t, t = Codex!EnsureFeature(c)
    PROVE  Enabled(t) /\ Codex!Foreign(t) = Codex!Foreign(c)
<1>1. /\ Len(c) \in Nat /\ DOMAIN c = 1 .. Len(c) /\ \A i \in DOMAIN c : c[i] \in Plain
  BY LenProperties, ElementOfSeq
<1>2. Header \in Plain /\ KeyOn \in Plain /\ KeyOn \in Codex!KeyLines
  BY WrittenFacts
<1>3. Codex!ExistingKeys(c) = Codex!FeatureKeys(c)
  BY SameKeys
<1>4. CASE Codex!ExistingKeys(c) # {}
  <2> PICK k : k = Codex!Last(Codex!ExistingKeys(c))
    OBVIOUS
  <2>1. Codex!ExistingKeys(c) \subseteq 1 .. Len(c)
    BY <1>1, EnsureCases
  <2>2. k \in Codex!FeatureKeys(c)
    BY <1>1, <1>3, <1>4, <2>1, FirstLast
  <2>3. LineSet(c, k, KeyOn, t)
    BY <1>4, EnsureCases, Zenon DEF LineSet
  <2>4. /\ t \in Seq(Plain) /\ k \in Codex!FeatureKeys(t) /\ t[k] = KeyOn
        /\ Codex!ValidToml(t) /\ Codex!Foreign(t) = Codex!Foreign(c)
    BY <1>2, <2>2, <2>3, KeySet
  <2> QED
    BY <2>4, WrittenFacts DEF Enabled
<1>5. CASE Codex!ExistingKeys(c) = {} /\ Codex!FeaturesHeaders(c) # {}
  <2> PICK h, e : h = Codex!Last(Codex!FeaturesHeaders(c)) /\ e = Codex!FeaturesEnd(c)
    OBVIOUS
  <2>1. /\ h \in DOMAIN c /\ c[h] = Header /\ e \in 0 .. Len(c) /\ h <= e
        /\ \A j \in DOMAIN c : j > h /\ j <= e => ~ Codex!IsHeader(c[j])
    BY <1>5, EndOfTable
  <2>2. \A j \in DOMAIN c : j > h /\ j <= e => ~ IsTable(c[j])
    BY <1>1, <2>1, PlainHeaders
  <2>3. t = Codex!InsertAfter(c, e, KeyOn)
    BY <1>5, EnsureCases
  <2>4. t \in Seq(Plain) /\ Inserted(c, e, KeyOn, t)
    BY <1>2, <2>1, <2>3, InsertAfterFacts
  <2> QED
    BY <1>3, <1>5, <2>1, <2>2, <2>4, KeyInserted
<1>6. CASE Codex!ExistingKeys(c) = {} /\ Codex!FeaturesHeaders(c) = {}
  <2>1. t = c \o <<Header, KeyOn>> /\ \A i \in DOMAIN c : c[i] # Header
    BY <1>6, EnsureCases
  <2>2. PICK u \in Seq(Plain) :
            /\ Inserted(c, Len(c), Header, u) /\ Inserted(u, Len(c) + 1, KeyOn, t)
            /\ t \in Seq(Plain) /\ Len(u) = Len(c) + 1
    BY <1>2, <2>1, AppendTwo
  <2> QED
    BY <2>1, <2>2, TableAppended
<1> QED
  BY <1>4, <1>5, <1>6

-----------------------------------------------------------------------------
(* Codex's config.toml: CodexHooks.                                        *)

TomlWriting == pc \in {"truncate_config", "write_config"}

TomlInv ==
    /\ config \in Seq(Codex!AllLines) /\ text \in Seq(Codex!AllLines) /\ kept \in Seq(Codex!AllLines)
    /\ NoComments =>
        /\ config \in Seq(Plain) /\ Codex!ValidToml(config)
        /\ TomlWriting => Enabled(text)
        /\ pc = "done" /\ op = "install" /\ result = "ok" => Enabled(config)
        /\ ~ killed =>
            /\ pc = "write_config" \/ Codex!Foreign(config) = kept
            /\ TomlWriting => Codex!Foreign(text) = kept

\* The user's lines are lines.
LEMMA ForeignType ==
    ASSUME NEW T, NEW c \in Seq(T)
    PROVE  Codex!Foreign(c) \in Seq(T)
<1> PICK P : P = Positions(c)
  OBVIOUS
<1>1. Picked(c, P) \in Seq(T)
  BY PickedFacts
<1> QED
  BY <1>1, ForeignIs

\* An empty file parses.
LEMMA EmptyToml == <<>> \in Seq(Plain) /\ <<>> \in Seq(Codex!AllLines) /\ Codex!ValidToml(<<>>)
BY EntryFacts DEF Codex!ValidToml

\* Lines without comments are lines.
LEMMA PlainLines ==
    /\ \A c \in Seq(Plain) : c \in Seq(Codex!AllLines)
    /\ Header \in Codex!AllLines /\ KeyOn \in Codex!AllLines
<1>1. Plain \subseteq Codex!AllLines
  BY LineFacts, Zenon
<1> QED
  BY <1>1, WrittenFacts

\* The invariant of config.toml holds initially.
LEMMA TomlInit == Codex!Init => TomlInv
<1> SUFFICES ASSUME Codex!Init PROVE TomlInv
  OBVIOUS
<1>1. /\ \E n \in 0 .. MaxLines : config \in [1 .. n -> Lines]
      /\ Codex!ValidToml(config)
      /\ pc = "idle" /\ text = <<>> /\ kept = Codex!Foreign(config)
  BY DEF Codex!Init
<1>2. Lines \subseteq Codex!AllLines /\ MaxLines \in Nat
  BY FilesAssumption DEF Codex!CodexAssumption
<1>3. NoComments => Lines \subseteq Plain
  BY <1>2, Zenon DEF NoComments, Plain
<1>4. ASSUME NEW T, Lines \subseteq T
      PROVE  config \in Seq(T)
  <2>1. PICK n \in 0 .. MaxLines : config \in [1 .. n -> Lines]
    BY <1>1
  <2>2. n \in Nat /\ config \in [1 .. n -> T]
    BY <1>2, <1>4, <2>1
  <2> QED
    BY <2>2, SeqDef
<1>5. config \in Seq(Codex!AllLines) /\ (NoComments => config \in Seq(Plain))
  BY <1>2, <1>3, <1>4
<1>6. kept \in Seq(Codex!AllLines)
  BY <1>1, <1>5, ForeignType
<1> QED
  BY <1>1, <1>5, <1>6, EmptyToml DEF TomlInv, TomlWriting

\* The steps that leave config.toml alone.
LEMMA TomlOthers ==
    ASSUME JsonInv, TomlInv,
           Codex!Begin \/ Codex!Read \/ Codex!Truncate \/ Codex!Write \/ Codex!Remove
               \/ Codex!Killed \/ UNCHANGED codexVars
    PROVE  TomlInv'
<1> SUFFICES ASSUME ~ UNCHANGED codexVars
             PROVE  TomlInv'
  BY DEF TomlInv, TomlWriting, codexVars
<1>1. /\ UNCHANGED <<config, text, kept>>
      /\ pc # "write_config" \/ killed'
      /\ ~ TomlWriting'
      /\ killed => killed'
      /\ ~ (pc' = "done" /\ op' = "install" /\ result' = "ok")
  <2>1. CASE Codex!Begin
    BY <2>1 DEF Codex!Begin, Codex!Quiet, TomlWriting
  <2>2. CASE Codex!Read
    <3>1. pc = "read" /\ UNCHANGED <<config, text, kept, killed, op>>
      BY <2>2 DEF Codex!Read
    <3>2. \/ pc' = "done" /\ result' \in {"none", "error"}
          \/ pc' \in {"truncate", "remove"}
      BY <2>2, Zenon DEF Codex!Read, Codex!Compute, Codex!Finish, Codex!Goto
    <3> QED
      BY <3>1, <3>2 DEF TomlWriting
  <2>3. CASE Codex!Truncate
    BY <2>3 DEF Codex!Truncate, Codex!Goto, TomlWriting
  <2>4. CASE Codex!Write
    BY <2>4 DEF Codex!Write, Codex!Goto, Codex!Finish, TomlWriting
  <2>5. CASE Codex!Remove
    <3>1. op # "install"
      BY <2>5 DEF Codex!Remove, JsonInv, CodexWriting
    <3> QED
      BY <2>5, <3>1 DEF Codex!Remove, Codex!Finish, TomlWriting
  <2>6. CASE Codex!Killed
    BY <2>6 DEF Codex!Killed, TomlWriting
  <2> QED
    BY <2>1, <2>2, <2>3, <2>4, <2>5, <2>6
<1>0. config' = config /\ text' = text /\ kept' = kept
  BY <1>1
<1>2. ASSUME ~ killed'
      PROVE  ~ killed /\ pc # "write_config"
  BY <1>1, <1>2
<1>3. ASSUME NoComments
      PROVE  /\ config \in Seq(Plain) /\ Codex!ValidToml(config)
             /\ ~ killed' => Codex!Foreign(config) = kept
  BY <1>2, <1>3 DEF TomlInv
<1>4. ASSUME NoComments
      PROVE  /\ config' \in Seq(Plain) /\ Codex!ValidToml(config')
             /\ ~ killed' => Codex!Foreign(config') = kept'
  BY <1>0, <1>3, <1>4, Zenon
<1>5. config' \in Seq(Codex!AllLines) /\ text' \in Seq(Codex!AllLines) /\ kept' \in Seq(Codex!AllLines)
  BY <1>0 DEF TomlInv
<1> QED
  BY <1>1, <1>4, <1>5, Zenon DEF TomlInv

\* Reading config.toml and computing the lines to write preserves it.
LEMMA TomlConfig == JsonInv /\ TomlInv /\ Codex!Config => TomlInv'
<1> SUFFICES ASSUME JsonInv, TomlInv, Codex!Config PROVE TomlInv'
  OBVIOUS
<1> PICK t : t = Codex!EnsureFeature(config)
  OBVIOUS
<1>1. /\ pc = "config" /\ text' = t /\ UNCHANGED <<config, kept, killed, op>>
      /\ \/ t = config /\ pc' = "done"
         \/ pc' = "truncate_config" /\ result' = result
  BY DEF Codex!Config, Codex!Finish, Codex!Goto
<1>2. t \in Seq(Codex!AllLines)
  BY PlainLines, EnsureType DEF TomlInv
<1>3. NoComments => Enabled(t) /\ Codex!Foreign(t) = Codex!Foreign(config)
  BY EnsureOK DEF TomlInv
<1>4. CASE t = config /\ pc' = "done"
  BY <1>1, <1>2, <1>3, <1>4 DEF TomlInv, TomlWriting
<1>5. CASE pc' = "truncate_config"
  BY <1>1, <1>2, <1>3, <1>5 DEF TomlInv, TomlWriting
<1> QED
  BY <1>1, <1>4, <1>5

\* Truncating and writing config.toml preserve it.
LEMMA TomlWrites ==
    JsonInv /\ TomlInv /\ (Codex!TruncateConfig \/ Codex!WriteConfig) => TomlInv'
<1> SUFFICES ASSUME JsonInv, TomlInv, Codex!TruncateConfig \/ Codex!WriteConfig PROVE TomlInv'
  OBVIOUS
<1>1. CASE Codex!TruncateConfig
  <2>1. /\ pc = "truncate_config" /\ pc' = "write_config" /\ config' = <<>>
        /\ UNCHANGED <<text, kept, killed, op>>
    BY <1>1 DEF Codex!TruncateConfig, Codex!Goto
  <2> QED
    BY <2>1, EmptyToml DEF TomlInv, TomlWriting
<1>2. CASE Codex!WriteConfig
  <2>1. /\ pc = "write_config" /\ pc' = "done" /\ config' = text
        /\ UNCHANGED <<text, kept, killed, op>>
    BY <1>2 DEF Codex!WriteConfig, Codex!Finish
  <2> QED
    BY <2>1 DEF TomlInv, TomlWriting, Enabled
<1> QED
  BY <1>1, <1>2

\* The user turns the feature off.
KeyOff == "codex_hooks = false"

\* An edit of the user between two commands preserves it.
LEMMA TomlEdit == TomlInv /\ Codex!Edit => TomlInv'
<1> SUFFICES ASSUME TomlInv, Codex!Edit PROVE TomlInv'
  OBVIOUS
<1>1. /\ \/ config' = config
         \/ \E i \in Codex!FeatureKeys(config) : LineSet(config, i, KeyOff, config')
      /\ kept' = Codex!Foreign(config') /\ pc' = "idle" /\ text' = text
  BY Zenon DEF Codex!Edit, LineSet, KeyOff
<1>2. KeyOff \in Codex!KeyLines /\ KeyOff \in Plain /\ KeyOff \in Codex!AllLines
  <2>1. KeyOff \in Codex!KeyLines
    BY LineFacts, Zenon DEF KeyOff
  <2> QED
    BY <2>1, LineFacts, Zenon
<1>3. config' \in Seq(Codex!AllLines)
  <2>1. ASSUME NEW i \in Codex!FeatureKeys(config), LineSet(config, i, KeyOff, config')
        PROVE  config' \in Seq(Codex!AllLines)
    BY <1>2, <2>1, FeatureKeysIs, ExceptSeq DEF LineSet, TomlInv
  <2> QED
    BY <1>1, <2>1 DEF TomlInv
<1>4. NoComments => config' \in Seq(Plain) /\ Codex!ValidToml(config')
  <2>1. ASSUME NoComments, NEW i \in Codex!FeatureKeys(config),
               LineSet(config, i, KeyOff, config')
        PROVE  config' \in Seq(Plain) /\ Codex!ValidToml(config')
    <3> PICK c, t : c = config /\ t = config'
      OBVIOUS
    <3>1. c \in Seq(Plain) /\ Codex!ValidToml(c)
      BY <2>1 DEF TomlInv
    <3>2. i \in Codex!FeatureKeys(c) /\ LineSet(c, i, KeyOff, t)
      BY <2>1
    <3>3. t \in Seq(Plain) /\ Codex!ValidToml(t)
      BY <1>2, <3>1, <3>2, KeySet
    <3> QED
      BY <3>3
  <2> QED
    BY <1>1, <2>1 DEF TomlInv
<1>5. kept' \in Seq(Codex!AllLines)
  BY <1>1, <1>3, ForeignType
<1> QED
  BY <1>1, <1>3, <1>4, <1>5 DEF TomlInv, TomlWriting

\* Every step of Codex's commands preserves it.
LEMMA TomlStep == JsonInv /\ TomlInv /\ [Codex!Next]_codexVars => TomlInv'
BY TomlOthers, TomlConfig, TomlWrites, TomlEdit DEF Codex!Next

-----------------------------------------------------------------------------
(* Both vendors.                                                           *)

HooksInv == ClaudeInv /\ JsonInv /\ TomlInv

\* Nothing is visible of the other vendor's commands.
LEMMA HooksInductive ==
    /\ MCInit => HooksInv
    /\ HooksInv /\ [MCNext]_<<vendor, claudeVars, codexVars>> => HooksInv'
<1>1. MCInit => HooksInv
  BY ClaudeInit, JsonInit, TomlInit DEF MCInit, HooksInv
<1>2. ASSUME HooksInv, [MCNext]_<<vendor, claudeVars, codexVars>>
      PROVE  HooksInv'
  <2>1. [Next]_claudeVars /\ [Codex!Next]_codexVars
    BY <1>2 DEF MCNext
  <2> QED
    BY <1>2, <2>1, ClaudeStep, JsonStep, TomlStep DEF HooksInv
<1> QED
  BY <1>1, <1>2

\* The invariant of both vendors' commands.
LEMMA HooksHold == MCSpec => []HooksInv
<1>1. MCInit => HooksInv
  BY HooksInductive
<1>2. HooksInv /\ [MCNext]_<<vendor, claudeVars, codexVars>> => HooksInv'
  BY HooksInductive
<1> QED
  BY <1>1, <1>2, PTL DEF MCSpec

\* The types, and that the files are tidy wherever a command was killed.
THEOREM TypesOKHolds == MCSpec => []TypesOK
<1>1. HooksInv => TypeOK
  <2> SUFFICES ASSUME HooksInv PROVE TypeOK
    OBVIOUS
  <2>1. \A path \in Paths : IsFile(file[path])
    BY DEF HooksInv, ClaudeInv, StateOK, FileOK
  <2>2. proc \in [Procs ->
            [pc: {"idle", "read", "truncate", "write", "remove", "done"},
             op: {"install", "uninstall", None},
             path: Paths \cup {None},
             json: Object,
             result: {"ok", "none", "error", None}]]
    BY DEF HooksInv, ClaudeInv, StateOK, ProcOK
  <2> QED
    BY <2>1, <2>2 DEF TypeOK, HooksInv, ClaudeInv, StateOK
<1>2. HooksInv => Codex!TypeOK
  <2> SUFFICES ASSUME HooksInv PROVE Codex!TypeOK
    OBVIOUS
  <2>1. Codex!IsFile(hooks) /\ json \in Codex!Object
    BY SameOperators DEF HooksInv, JsonInv
  <2>2. pc \in {"idle", "read", "truncate", "write", "remove", "config",
            "truncate_config", "write_config", "done"}
    BY DEF HooksInv, JsonInv, CodexWriting, CodexConfig
  <2> QED
    BY <2>1, <2>2 DEF Codex!TypeOK, HooksInv, JsonInv, TomlInv
<1>3. HooksInv => TypesOK
  BY <1>1, <1>2 DEF TypesOK
<1> QED
  BY <1>3, HooksHold, PTL

\* Whatever commands run to their ends, the user keeps every hook, setting and
\* line of both vendors' files: claude.rs and codex.rs, for users who keep
\* their commands out of our matcher entry and comments off TOML headers.
THEOREM UserPartKeptHolds == ~ SharesEntry /\ NoComments /\ MCSpec => []UserPartKept
<1> SUFFICES ASSUME ~ SharesEntry, NoComments
             PROVE  MCSpec => []UserPartKept
  OBVIOUS
<1>1. ~ SharesEntry /\ HooksInv => UserEntriesKept
  <2> SUFFICES ASSUME ~ SharesEntry, HooksInv, Quiet, faults = {}, NEW path \in Paths
               PROVE  Owned(file[path]) = mine[path]
    BY DEF UserEntriesKept
  <2>1. \A p \in Procs : proc[p].pc # "write"
    BY DEF Quiet, Running
  <2> QED
    BY <2>1 DEF HooksInv, ClaudeInv, InHands
<1>2. NoComments /\ HooksInv => Codex!UserConfigKept
  <2> SUFFICES ASSUME NoComments, HooksInv, pc \in {"idle", "done"}, ~ killed
               PROVE  Owned(hooks) = codexMine /\ Codex!Foreign(config) = kept
    BY SameOperators DEF Codex!UserConfigKept, Codex!Quiet
  <2> QED
    BY DEF HooksInv, JsonInv, TomlInv
<1>3. HooksInv => UserPartKept
  BY <1>1, <1>2 DEF UserPartKept
<1> QED
  BY <1>3, HooksHold, PTL

\* An install that reports success leaves our hook, once, where the vendor's
\* program loads it; an uninstall leaves nothing of ours in Codex's files:
\* however many commands ran before and wherever they were killed.
THEOREM CommandsTakeEffectHolds == NoComments /\ MCSpec => []CommandsTakeEffect
<1> SUFFICES ASSUME NoComments
             PROVE  MCSpec => []CommandsTakeEffect
  OBVIOUS
<1>0. ASSUME NEW es \in Seq(Entries), AtMostOne(es)
      PROVE  /\ Cardinality(OursIn(es)) <= 1
             /\ OursIn(es) # {} => Cardinality(OursIn(es)) = 1
  <2>1. CASE OursIn(es) = {}
    BY <2>1, FS_EmptySet
  <2>2. CASE OursIn(es) # {}
    <3>1. PICK i : i \in OursIn(es)
      BY <2>2
    <3>2. \A j \in OursIn(es) : j = i
      BY <1>0, <3>1 DEF AtMostOne
    <3>3. OursIn(es) = {i}
      BY <3>1, <3>2
    <3>4. Cardinality({i}) = 1
      BY FS_Singleton
    <3> QED
      BY <3>3, <3>4
  <2> QED
    BY <2>1, <2>2
<1>1. HooksInv => NeverTwice
  <2> SUFFICES ASSUME HooksInv, NEW path \in Paths
               PROVE  Cardinality(OursIn(file[path].json.entries)) <= 1
    BY DEF NeverTwice
  <2>1. file[path].json \in Object /\ AtMostOne(file[path].json.entries)
    BY DEF HooksInv, ClaudeInv, StateOK, FileOK, EntriesOK, IsFile
  <2> QED
    BY <1>0, <2>1, ObjectFields
<1>2. HooksInv => InstallTakesEffect
  BY DEF HooksInv, ClaudeInv, InEffect, InstallTakesEffect, InstallDone
<1>3. NoComments /\ HooksInv => Codex!InstallEnables
  <2> SUFFICES ASSUME NoComments, HooksInv, pc = "done", op = "install", result = "ok"
               PROVE  /\ Cardinality(OursIn(hooks.json.entries)) = 1
                      /\ OursIn(hooks.json.legacy) = {}
                      /\ Codex!ValidToml(config)
                      /\ Codex!FeatureOn(config)
    BY SameOperators, SameCardinality DEF Codex!InstallEnables, Codex!Succeeded
  <2>1. /\ OursIn(hooks.json.entries) # {} /\ OursIn(hooks.json.legacy) = {}
        /\ hooks.json.entries \in Seq(Entries) /\ AtMostOne(hooks.json.entries)
    BY ObjectFields DEF HooksInv, JsonInv, Installs, ObjectOK
  <2>2. Codex!ValidToml(config) /\ Codex!FeatureOn(config)
    BY DEF HooksInv, TomlInv, Enabled
  <2> QED
    BY <1>0, <2>1, <2>2
<1>4. HooksInv => Codex!UninstallRemoves
  BY SameOperators DEF HooksInv, JsonInv, Clean, Codex!UninstallRemoves
<1>5. HooksInv => CommandsTakeEffect
  BY <1>1, <1>2, <1>3, <1>4 DEF CommandsTakeEffect
<1> QED
  BY <1>5, HooksHold, PTL

\* A settings file that the command does not understand is never overwritten
\* or removed: the early returns of claude.rs, whatever other commands do.
THEOREM NotClobberedHolds == MCSpec => NotClobbered
<1>1. HooksInv /\ [MCNext]_<<vendor, claudeVars, codexVars>> =>
        [\A path \in Paths :
            file[path].kind \in {"broken", "array"} \/ ~ Accepts(file[path].json)
                => file'[path] = file[path]]_vars
  <2> SUFFICES ASSUME HooksInv, [MCNext]_<<vendor, claudeVars, codexVars>>
               PROVE  \A path \in Paths :
                        file[path].kind \in {"broken", "array"} \/ ~ Accepts(file[path].json)
                            => file'[path] = file[path]
    OBVIOUS
  <2>1. [Next]_claudeVars
    BY DEF MCNext
  <2> QED
    BY <2>1, ClobbersNothing DEF HooksInv
<1> QED
  BY <1>1, HooksHold, PTL DEF MCSpec, NotClobbered
=============================================================================
