----------------------------- MODULE HubStreams -----------------------------
(***************************************************************************)
(* Proofs about what subscribers of Hub receive: a stream continues after  *)
(* the event that was named without a gap or a duplicate, and the hub      *)
(* implements EventLog.  They rest on lemmas about After, the loop that    *)
(* picks the events of a replay, by induction over the sequence.           *)
(***************************************************************************)
EXTENDS HubProofs, WellFoundedInduction

-----------------------------------------------------------------------------
(* Induction over sets, from the well-foundedness of the natural numbers.  *)

LEMMA LeastNatural ==
  ASSUME NEW T \in SUBSET Nat, T # {}
  PROVE  \E n \in T : \A m \in T : n <= m
PROOF
  <1> DEFINE R == OpToRel(<, Nat)
  <1>1. IsWellFoundedOn(R, Nat)
    BY NatLessThanWellFounded, Zenon
  <1>2. \A x, y \in Nat : <<x, y>> \in R <=> x < y
    BY DEF OpToRel
  <1> HIDE DEF R
  <1>3. PICK n \in T : \A m \in T : ~(<<m, n>> \in R)
    BY <1>1, WFMin
  <1>4. \A m \in T : ~(m < n)
    BY <1>2, <1>3
  <1> QED BY <1>3, <1>4

LEMMA SetInduction ==
  ASSUME NEW T, 0 \in T, \A n \in Nat : n \in T => n + 1 \in T
  PROVE  Nat \subseteq T
PROOF
  <1> SUFFICES ASSUME Nat \ T # {} PROVE FALSE
    OBVIOUS
  <1>1. PICK n \in Nat \ T : \A m \in Nat \ T : n <= m
    BY LeastNatural
  <1>2. n # 0 /\ n - 1 \in Nat /\ n - 1 \in T /\ (n - 1) + 1 = n
    BY <1>1
  <1> QED BY <1>1, <1>2

\* Every sequence is built from the empty one by Append.
LEMMA AppendInduction ==
  ASSUME NEW S, NEW T, <<>> \in T,
         \A l \in Seq(S), e \in S : l \in T => Append(l, e) \in T
  PROVE  Seq(S) \subseteq T
PROOF
  <1> DEFINE N == {n \in Nat : \A l \in Seq(S) : Len(l) = n => l \in T}
  <1>1. 0 \in N
    <2>1. \A l \in Seq(S) : Len(l) = 0 => l = <<>>
      BY EmptySeq
    <2> QED BY <2>1
  <1>2. ASSUME NEW n \in Nat, n \in N PROVE n + 1 \in N
    <2> SUFFICES ASSUME NEW l \in Seq(S), Len(l) = n + 1 PROVE l \in T
      OBVIOUS
    <2>1. l # <<>>
      BY EmptySeq
    <2>2. PICK m \in Seq(S), e \in S : l = Append(m, e)
      BY <2>1, SequenceEmptyOrAppend
    <2>3. Len(m) = n
      <3>1. Len(m) \in Nat /\ Len(l) = Len(m) + 1
        BY <2>2, AppendProperties, LenProperties
      <3> QED BY <3>1
    <2> QED BY <1>2, <2>2, <2>3
  <1> HIDE DEF N
  <1>3. Nat \subseteq N
    BY <1>1, <1>2, SetInduction
  <1>4. \A l \in Seq(S) : Len(l) \in N
    BY <1>3, LenProperties
  <1> QED BY <1>4 DEF N

-----------------------------------------------------------------------------
(* After, the loop of replayLocked.                                        *)

\* What the loop has picked when it has seen i events, if g says what it had
\* picked before.
Picked(g, events, k, last, i) ==
  IF i = 0 THEN <<>>
  ELSE IF events[i].id > last /\ events[i].key = k
       THEN Append(g[i - 1], events[i])
       ELSE g[i - 1]

\* The equation of the recursive function has a solution, of any length.
LEMMA PickedExists ==
  ASSUME NEW events, NEW k, NEW last
  PROVE  \A m \in Nat : \E g : g = [i \in 0 .. m |-> Picked(g, events, k, last, i)]
PROOF
  <1> DEFINE P(g, i) == Picked(g, events, k, last, i)
             T == {m \in Nat : \E g : g = [i \in 0 .. m |-> P(g, i)]}
  <1>1. 0 \in T
    <2> DEFINE g == [i \in 0 .. 0 |-> <<>>]
    <2>1. g = [i \in 0 .. 0 |-> P(g, i)]
      BY DEF Picked
    <2> QED BY <2>1
  <1>2. ASSUME NEW m \in Nat, m \in T PROVE m + 1 \in T
    <2>1. PICK g : g = [i \in 0 .. m |-> P(g, i)]
      BY <1>2
    <2> DEFINE h == [i \in 0 .. m + 1 |-> IF i = m + 1 THEN P(g, m + 1) ELSE g[i]]
    <2>2. ASSUME NEW i \in 0 .. m + 1 PROVE h[i] = P(h, i)
      <3>1. i # 0 => i - 1 \in 0 .. m
        OBVIOUS
      <3>2. i # 0 => h[i - 1] = g[i - 1]
        BY <3>1
      <3>3. P(h, i) = P(g, i)
        BY <3>2 DEF Picked
      <3>4. i \in 0 .. m => g[i] = P(g, i)
        BY <2>1
      <3> QED BY <3>3, <3>4
    <2>3. h = [i \in 0 .. m + 1 |-> P(h, i)]
      BY <2>2
    <2> HIDE DEF h
    <2> QED BY <2>3
  <1> HIDE DEF T
  <1>3. Nat \subseteq T
    BY <1>1, <1>2, SetInduction
  <1> QED BY <1>3 DEF T

\* So the loop computes what its equation says.
LEMMA AfterIsPicked ==
  ASSUME NEW events, NEW k, NEW last, Len(events) \in Nat
  PROVE  \E g : /\ \A i \in 0 .. Len(events) : g[i] = Picked(g, events, k, last, i)
                /\ After(events, k, last) = g[Len(events)]
PROOF
  <1> DEFINE g == CHOOSE picked : picked = [i \in 0 .. Len(events) |->
                    IF i = 0 THEN <<>>
                    ELSE IF events[i].id > last /\ events[i].key = k
                         THEN Append(picked[i - 1], events[i])
                         ELSE picked[i - 1]]
  <1>1. \E picked : picked = [i \in 0 .. Len(events) |-> Picked(picked, events, k, last, i)]
    BY PickedExists
  <1>2. \E picked : picked = [i \in 0 .. Len(events) |->
                    IF i = 0 THEN <<>>
                    ELSE IF events[i].id > last /\ events[i].key = k
                         THEN Append(picked[i - 1], events[i])
                         ELSE picked[i - 1]]
    BY <1>1 DEF Picked
  <1>3. g = [i \in 0 .. Len(events) |->
               IF i = 0 THEN <<>>
               ELSE IF events[i].id > last /\ events[i].key = k
                    THEN Append(g[i - 1], events[i])
                    ELSE g[i - 1]]
    BY <1>2, Zenon
  <1>4. After(events, k, last) = g[Len(events)]
    BY Zenon DEF After
  <1> HIDE DEF g
  <1> QED BY <1>3, <1>4 DEF Picked

LEMMA AfterEmpty ==
  ASSUME NEW k, NEW last
  PROVE  After(<<>>, k, last) = <<>>
PROOF
  <1>1. Len(<<>>) = 0
    BY EmptySeq
  <1>2. PICK g : /\ \A i \in 0 .. 0 : g[i] = Picked(g, <<>>, k, last, i)
                 /\ After(<<>>, k, last) = g[0]
    BY <1>1, AfterIsPicked
  <1> QED BY <1>2 DEF Picked

\* One more event is picked or not, and nothing else changes.
LEMMA AfterAppend ==
  ASSUME NEW l \in Seq(Event), NEW e \in Event, NEW k, NEW last
  PROVE  After(Append(l, e), k, last) =
           IF e.id > last /\ e.key = k THEN Append(After(l, k, last), e)
           ELSE After(l, k, last)
PROOF
  <1> DEFINE m == Append(l, e)
             n == Len(l)
  <1>1. /\ n \in Nat /\ Len(m) = n + 1 /\ m[n + 1] = e
        /\ \A i \in 1 .. n : m[i] = l[i]
    BY AppendProperties, LenProperties
  <1> HIDE DEF m
  <1>2. PICK g : /\ \A i \in 0 .. n : g[i] = Picked(g, l, k, last, i)
                 /\ After(l, k, last) = g[n]
    BY <1>1, AfterIsPicked
  <1>3. PICK h : /\ \A i \in 0 .. n + 1 : h[i] = Picked(h, m, k, last, i)
                 /\ After(m, k, last) = h[n + 1]
    BY <1>1, AfterIsPicked
  <1> HIDE DEF n
  <1> DEFINE T == {i \in Nat : i <= n => g[i] = h[i]}
  <1>4. 0 \in T
    <2>1. g[0] = <<>> /\ h[0] = <<>>
      BY <1>1, <1>2, <1>3 DEF Picked
    <2> QED BY <2>1
  <1>5. ASSUME NEW i \in Nat, i \in T PROVE i + 1 \in T
    <2> SUFFICES ASSUME i + 1 <= n PROVE g[i + 1] = h[i + 1]
      OBVIOUS
    <2>1. i + 1 \in 0 .. n /\ i + 1 \in 1 .. n /\ i + 1 # 0 /\ (i + 1) - 1 = i
      BY <1>1
    <2>2. g[i] = h[i] /\ m[i + 1] = l[i + 1]
      BY <1>1, <1>5, <2>1
    <2>3. g[i + 1] = Picked(g, l, k, last, i + 1) /\ h[i + 1] = Picked(h, m, k, last, i + 1)
      BY <1>1, <1>2, <1>3, <2>1
    <2> QED BY <2>1, <2>2, <2>3 DEF Picked
  <1>6. g[n] = h[n]
    <2> HIDE DEF T
    <2>1. n \in T
      BY <1>1, <1>4, <1>5, SetInduction
    <2> QED BY <1>1, <2>1 DEF T
  <1>7. h[n + 1] = Picked(h, m, k, last, n + 1) /\ n + 1 # 0 /\ (n + 1) - 1 = n
    BY <1>1, <1>3
  <1>8. After(m, k, last) = IF e.id > last /\ e.key = k THEN Append(After(l, k, last), e)
                            ELSE After(l, k, last)
    BY <1>1, <1>2, <1>3, <1>6, <1>7 DEF Picked
  <1> QED BY <1>8 DEF m


LEMMA AfterType ==
  ASSUME NEW k, NEW last
  PROVE  \A l \in Seq(Event) : After(l, k, last) \in Seq(Event)
PROOF
  <1> DEFINE T == {l \in Seq(Event) : After(l, k, last) \in Seq(Event)}
  <1>1. <<>> \in T
    BY AfterEmpty, EmptySeq
  <1>2. ASSUME NEW l \in Seq(Event), NEW e \in Event, l \in T PROVE Append(l, e) \in T
    <2>1. Append(l, e) \in Seq(Event) /\ Append(After(l, k, last), e) \in Seq(Event)
      BY <1>2, AppendProperties
    <2> QED BY <1>2, <2>1, AfterAppend
  <1> HIDE DEF T
  <1>3. Seq(Event) \subseteq T
    BY <1>1, <1>2, AppendInduction
  <1> QED BY <1>3 DEF T

\* e is one of the elements of l.
In(e, l) == \E i \in 1 .. Len(l) : l[i] = e

LEMMA InAppend ==
  ASSUME NEW l \in Seq(Event), NEW e \in Event
  PROVE  \A f : In(f, Append(l, e)) <=> In(f, l) \/ f = e
PROOF
  <1>1. /\ Len(l) \in Nat /\ Len(Append(l, e)) = Len(l) + 1
        /\ Append(l, e)[Len(l) + 1] = e
        /\ \A i \in 1 .. Len(l) : Append(l, e)[i] = l[i]
    BY AppendProperties, LenProperties
  <1> HIDE DEF In
  <1>2. ASSUME NEW f, In(f, Append(l, e)) PROVE In(f, l) \/ f = e
    <2>1. PICK i \in 1 .. Len(l) + 1 : Append(l, e)[i] = f
      BY <1>1, <1>2 DEF In
    <2> QED BY <1>1, <2>1 DEF In
  <1>3. ASSUME NEW f, In(f, l) \/ f = e PROVE In(f, Append(l, e))
    <2>1. CASE f = e
      BY <1>1, <2>1 DEF In
    <2>2. CASE In(f, l)
      <3>1. PICK i \in 1 .. Len(l) : l[i] = f
        BY <2>2 DEF In
      <3> QED BY <1>1, <3>1 DEF In
    <2> QED BY <1>3, <2>1, <2>2
  <1> QED BY <1>2, <1>3

\* What is picked is what passes the test.
LEMMA AfterElements ==
  ASSUME NEW k, NEW last
  PROVE  \A l \in Seq(Event) : \A f :
           In(f, After(l, k, last)) <=> In(f, l) /\ f.id > last /\ f.key = k
PROOF
  <1> DEFINE Exact(l) == \A f :
               In(f, After(l, k, last)) <=> In(f, l) /\ f.id > last /\ f.key = k
             T == {l \in Seq(Event) : Exact(l)}
  <1>1. <<>> \in T
    <2>1. \A f : ~In(f, <<>>)
      BY EmptySeq DEF In
    <2>2. <<>> \in Seq(Event)
      BY EmptySeq
    <2> QED BY <2>1, <2>2, AfterEmpty
  <1>2. ASSUME NEW l \in Seq(Event), NEW e \in Event, l \in T PROVE Append(l, e) \in T
    <2>1. Append(l, e) \in Seq(Event)
      BY AppendProperties
    <2>2. After(l, k, last) \in Seq(Event)
      BY AfterType
    <2>3. /\ \A f : In(f, Append(l, e)) <=> In(f, l) \/ f = e
          /\ \A f : In(f, Append(After(l, k, last), e)) <=> In(f, After(l, k, last)) \/ f = e
      BY <2>2, InAppend
    <2>4. Exact(l)
      BY <1>2
    <2>5. CASE e.id > last /\ e.key = k
      <3>1. After(Append(l, e), k, last) = Append(After(l, k, last), e)
        BY <2>5, AfterAppend
      <3>2. Exact(Append(l, e))
        BY <2>3, <2>4, <2>5, <3>1
      <3> QED BY <2>1, <3>2
    <2>6. CASE ~(e.id > last /\ e.key = k)
      <3>1. After(Append(l, e), k, last) = After(l, k, last)
        BY <2>6, AfterAppend
      <3>2. Exact(Append(l, e))
        BY <2>3, <2>4, <2>6, <3>1
      <3> QED BY <2>1, <3>2
    <2> QED BY <2>5, <2>6
  <1> HIDE DEF T
  <1>3. Seq(Event) \subseteq T
    BY <1>1, <1>2, AppendInduction
  <1> QED BY <1>3 DEF T

LEMMA AfterNone ==
  ASSUME NEW k, NEW last, NEW l \in Seq(Event),
         \A i \in 1 .. Len(l) : ~(l[i].id > last /\ l[i].key = k)
  PROVE  After(l, k, last) = <<>>
PROOF
  <1> DEFINE o == After(l, k, last)
  <1>1. o \in Seq(Event)
    BY AfterType
  <1>2. \A f : ~In(f, o)
    BY AfterElements DEF In
  <1> HIDE DEF o
  <1>3. o # <<>> => Len(o) \in Nat \ {0}
    BY <1>1, EmptySeq
  <1>4. o # <<>> => In(o[1], o)
    BY <1>3 DEF In
  <1> QED BY <1>2, <1>4 DEF o

\* Events that the reader has seen may be cut off at the front.
LEMMA AfterSuffix ==
  ASSUME NEW k, NEW last, NEW l \in Seq(Event),
         \A i \in 1 .. Len(l) : ~(l[i].id > last)
  PROVE  \A h \in Seq(Event) : After(l \o h, k, last) = After(h, k, last)
PROOF
  <1> DEFINE T == {h \in Seq(Event) : After(l \o h, k, last) = After(h, k, last)}
  <1>1. <<>> \in T
    <2>1. l \o <<>> = l /\ <<>> \in Seq(Event)
      BY ConcatEmptySeq, EmptySeq
    <2>2. After(l, k, last) = <<>>
      BY AfterNone
    <2> QED BY <2>1, <2>2, AfterEmpty
  <1>2. ASSUME NEW h \in Seq(Event), NEW e \in Event, h \in T PROVE Append(h, e) \in T
    <2> DEFINE c == l \o h
    <2>1. c \in Seq(Event) /\ Append(h, e) \in Seq(Event)
      BY ConcatProperties, AppendProperties
    <2>2. l \o Append(h, e) = Append(c, e)
      <3>1. <<e>> \in Seq(Event)
        OBVIOUS
      <3>2. Append(h, e) = h \o <<e>> /\ Append(l \o h, e) = (l \o h) \o <<e>>
        BY <2>1, AppendIsConcat
      <3> QED BY <3>1, <3>2, ConcatAssociative
    <2>3. After(c, k, last) = After(h, k, last)
      BY <1>2
    <2> HIDE DEF c
    <2>4. After(Append(c, e), k, last) =
            IF e.id > last /\ e.key = k THEN Append(After(c, k, last), e)
            ELSE After(c, k, last)
      BY <2>1, AfterAppend
    <2>5. After(Append(h, e), k, last) =
            IF e.id > last /\ e.key = k THEN Append(After(h, k, last), e)
            ELSE After(h, k, last)
      BY AfterAppend
    <2>6. After(Append(c, e), k, last) = After(Append(h, e), k, last)
      BY <2>3, <2>4, <2>5
    <2>7. After(l \o Append(h, e), k, last) = After(Append(h, e), k, last)
      BY <2>2, <2>6, Zenon
    <2> QED BY <2>1, <2>7, Zenon
  <1> HIDE DEF T
  <1>3. Seq(Event) \subseteq T
    BY <1>1, <1>2, AppendInduction
  <1> QED BY <1>3 DEF T

-----------------------------------------------------------------------------
(* The events of one key in the log.                                       *)

Numbered(l) == \A i \in 1 .. Len(l) : l[i].id = i

\* e is the first event of k with an id above last.
FirstAfter(l, k, last, e) ==
  /\ e \in Event /\ e.id \in 1 .. Len(l) /\ l[e.id] = e
  /\ e.id > last /\ e.key = k
  /\ \A i \in 1 .. Len(l) : i > last /\ i < e.id => l[i].key # k

\* Reading the first of them leaves those after it.
LEMMA AfterNext ==
  ASSUME NEW k, NEW last \in Nat
  PROVE  \A l \in Seq(Event) : Numbered(l) /\ After(l, k, last) # <<>> =>
           LET e == Head(After(l, k, last)) IN
           /\ FirstAfter(l, k, last, e)
           /\ After(l, k, e.id) = Tail(After(l, k, last))
PROOF
  <1> DEFINE Goal(l, e) == /\ FirstAfter(l, k, last, e)
                           /\ After(l, k, e.id) = Tail(After(l, k, last))
             Reads(l) == Numbered(l) /\ After(l, k, last) # <<>> =>
                           Goal(l, Head(After(l, k, last)))
             T == {l \in Seq(Event) : Reads(l)}
  <1>1. <<>> \in T
    BY AfterEmpty, EmptySeq
  <1>2. ASSUME NEW l \in Seq(Event), NEW f \in Event, Reads(l)
        PROVE  Reads(Append(l, f))
    <2> DEFINE m == Append(l, f)
               o == After(l, k, last)
               n == Len(l)
    <2> SUFFICES ASSUME Numbered(m), After(m, k, last) # <<>>
                 PROVE  Goal(m, Head(After(m, k, last)))
      OBVIOUS
    <2>1. /\ n \in Nat /\ Len(m) = n + 1 /\ m[n + 1] = f /\ m \in Seq(Event)
          /\ \A i \in 1 .. n : m[i] = l[i]
      BY AppendProperties, LenProperties
    <2>2. f.id = n + 1 /\ Numbered(l)
      BY <2>1 DEF Numbered
    <2>3. o \in Seq(Event)
      BY AfterType
    <2>4. \A j \in Nat : After(m, k, j) = IF f.id > j /\ f.key = k
                                          THEN Append(After(l, k, j), f) ELSE After(l, k, j)
      BY AfterAppend
    <2>5. After(m, k, last) = IF f.id > last /\ f.key = k THEN Append(o, f) ELSE o
      BY <2>4
    <2>6. CASE o = <<>>
      <3>1. f.id > last /\ f.key = k /\ After(m, k, last) = Append(<<>>, f)
        BY <2>5, <2>6
      <3>2. Head(Append(<<>>, f)) = f /\ Tail(Append(<<>>, f)) = <<>>
        BY EmptySeq, HeadTailAppend
      <3>3. \A i \in 1 .. n : i > last => l[i].key # k
        <4>1. ASSUME NEW i \in 1 .. n, i > last, l[i].key = k PROVE FALSE
          <5>1. In(l[i], l) /\ l[i].id = i
            BY <2>2 DEF In, Numbered
          <5>2. In(l[i], o)
            BY <4>1, <5>1, AfterElements
          <5> QED BY <2>6, <5>2, EmptySeq DEF In
        <4> QED BY <4>1
      <3>4. FirstAfter(m, k, last, f)
        BY <2>1, <2>2, <3>1, <3>3 DEF FirstAfter
      <3>5. After(l, k, f.id) = <<>>
        <4>1. \A i \in 1 .. n : ~(l[i].id > f.id)
          BY <2>1, <2>2 DEF Numbered
        <4> QED BY <4>1, AfterNone
      <3>6. After(m, k, f.id) = <<>>
        BY <2>1, <2>2, <2>4, <3>5
      <3> QED BY <3>1, <3>2, <3>4, <3>6
    <2>7. CASE o # <<>>
      <3> DEFINE e == Head(o)
      <3>1. FirstAfter(l, k, last, e) /\ After(l, k, e.id) = Tail(o)
        BY <1>2, <2>2, <2>7
      <3>2. /\ Head(Append(o, f)) = e /\ Tail(Append(o, f)) = Append(Tail(o), f)
        BY <2>3, <2>7, HeadTailAppend
      <3> HIDE DEF e, o
      <3>3. e.id \in 1 .. n /\ e.id \in Nat /\ f.id > e.id /\ e.id > last
        BY <2>1, <2>2, <3>1 DEF FirstAfter
      <3>4. FirstAfter(m, k, last, e)
        <4>1. /\ e \in Event /\ l[e.id] = e /\ e.key = k
              /\ \A i \in 1 .. n : i > last /\ i < e.id => l[i].key # k
          BY <3>1 DEF FirstAfter
        <4>2. \A i \in 1 .. Len(m) : i < e.id => i \in 1 .. n /\ m[i] = l[i]
          BY <2>1, <3>3
        <4>3. e.id \in 1 .. Len(m) /\ m[e.id] = e
          BY <2>1, <3>3, <4>1
        <4> HIDE DEF m
        <4> QED BY <3>3, <4>1, <4>2, <4>3 DEF FirstAfter
      <3>5. CASE f.key = k
        <4> HIDE DEF m
        <4>1. After(m, k, last) = Append(o, f)
          BY <2>1, <2>2, <2>5, <3>3, <3>5
        <4>2. After(m, k, e.id) = Append(After(l, k, e.id), f)
          BY <2>4, <3>3, <3>5
        <4>3. After(m, k, e.id) = Append(Tail(o), f)
          BY <3>1, <4>2, Zenon
        <4> QED BY <3>2, <3>4, <4>1, <4>3
      <3>6. CASE f.key # k
        <4> HIDE DEF m
        <4>1. After(m, k, last) = o /\ After(m, k, e.id) = Tail(o)
          BY <2>4, <2>5, <3>1, <3>3, <3>6
        <4> QED BY <3>4, <4>1 DEF e
      <3> QED BY <3>5, <3>6
    <2> QED BY <2>6, <2>7
  <1>3. \A l \in Seq(Event), f \in Event : l \in T => Append(l, f) \in T
    <2> HIDE DEF Reads
    <2> QED BY <1>2, AppendProperties
  <1> HIDE DEF T
  <1>4. Seq(Event) \subseteq T
    BY <1>1, <1>3, AppendInduction
  <1> QED BY <1>4 DEF T

-----------------------------------------------------------------------------
(* Beginnings of sequences.                                                *)

Begins(r, o) == Len(r) <= Len(o) /\ r = SubSeq(o, 1, Len(r))

LEMMA BeginsByIndex ==
  ASSUME NEW r \in Seq(Event), NEW o \in Seq(Event)
  PROVE  Begins(r, o) <=> Len(r) <= Len(o) /\ \A i \in 1 .. Len(r) : r[i] = o[i]
PROOF
  <1> DEFINE n == Len(r)
             p == SubSeq(o, 1, n)
  <1>1. n \in Nat /\ Len(o) \in Nat
    BY LenProperties
  <1> SUFFICES ASSUME n <= Len(o) PROVE r = p <=> \A i \in 1 .. n : r[i] = o[i]
    BY DEF Begins
  <1>2. /\ p \in Seq(Event) /\ Len(p) = n
        /\ \A i \in 1 .. n : p[i] = o[i]
    <2>1. \A i \in 1 .. n : o[i] \in Event
      BY <1>1, ElementOfSeq
    <2>2. /\ p \in Seq(Event) /\ Len(p) = IF 1 <= n THEN n - 1 + 1 ELSE 0
          /\ \A i \in 1 .. n - 1 + 1 : p[i] = o[1 + i - 1]
      BY <1>1, <2>1, SubSeqProperties
    <2> HIDE DEF p
    <2> QED BY <1>1, <2>2
  <1> HIDE DEF p
  <1>3. (\A i \in 1 .. n : r[i] = o[i]) => r = p
    BY <1>2, SeqEqual
  <1> QED BY <1>2, <1>3

LEMMA BeginsWhole ==
  ASSUME NEW o \in Seq(Event)
  PROVE  Begins(o, o) /\ Begins(<<>>, o)
PROOF
  <1>1. Len(o) \in Nat
    BY LenProperties
  <1>2. PICK z \in Seq(Event) : z = <<>> /\ Len(z) = 0
    BY EmptySeq
  <1>3. Begins(z, o)
    <2>1. Len(z) <= Len(o) /\ \A i \in 1 .. Len(z) : z[i] = o[i]
      BY <1>1, <1>2
    <2> QED BY <2>1, BeginsByIndex
  <1>4. Begins(o, o)
    BY <1>1, BeginsByIndex
  <1> QED BY <1>2, <1>3, <1>4, Zenon

LEMMA BeginsAppend ==
  ASSUME NEW r \in Seq(Event), NEW o \in Seq(Event), NEW e \in Event, Begins(r, o)
  PROVE  Begins(r, Append(o, e))
PROOF
  <1> DEFINE p == Append(o, e)
  <1>1. /\ Len(r) \in Nat /\ Len(o) \in Nat /\ p \in Seq(Event) /\ Len(p) = Len(o) + 1
        /\ \A i \in 1 .. Len(o) : p[i] = o[i]
    BY AppendProperties, LenProperties
  <1> HIDE DEF p
  <1>2. Len(r) <= Len(o) /\ \A i \in 1 .. Len(r) : r[i] = o[i]
    BY BeginsByIndex
  <1>3. Begins(r, p)
    BY <1>1, <1>2, BeginsByIndex
  <1> QED BY <1>3 DEF p

\* Reading one element off both.
LEMMA BeginsTail ==
  ASSUME NEW r \in Seq(Event), NEW o \in Seq(Event), Begins(r, o), r # <<>>
  PROVE  o # <<>> /\ Head(o) = Head(r) /\ Begins(Tail(r), Tail(o))
PROOF
  <1>1. /\ Len(r) \in Nat \ {0} /\ Len(o) \in Nat /\ Len(r) <= Len(o)
        /\ \A i \in 1 .. Len(r) : r[i] = o[i]
    BY BeginsByIndex, EmptySeq, LenProperties
  <1>2. o # <<>>
    BY <1>1, EmptySeq
  <1>3. Head(o) = o[1] /\ Head(r) = r[1]
    BY <1>2
  <1>4. /\ Tail(r) \in Seq(Event) /\ Len(Tail(r)) = Len(r) - 1
        /\ Tail(o) \in Seq(Event) /\ Len(Tail(o)) = Len(o) - 1
        /\ \A i \in 1 .. Len(Tail(r)) : Tail(r)[i] = r[i + 1]
        /\ \A i \in 1 .. Len(Tail(o)) : Tail(o)[i] = o[i + 1]
    BY <1>2, HeadTailProperties
  <1> DEFINE a == Tail(r)
             b == Tail(o)
  <1> HIDE DEF a, b
  <1>5. Begins(a, b)
    <2>1. /\ a \in Seq(Event) /\ Len(a) = Len(r) - 1 /\ b \in Seq(Event) /\ Len(b) = Len(o) - 1
          /\ \A i \in 1 .. Len(a) : a[i] = r[i + 1]
          /\ \A i \in 1 .. Len(b) : b[i] = o[i + 1]
      BY <1>4 DEF a, b
    <2>2. Len(a) \in Nat /\ Len(b) \in Nat /\ Len(a) <= Len(b)
      BY <1>1, <2>1
    <2>3. ASSUME NEW i \in 1 .. Len(a) PROVE a[i] = b[i]
      <3>1. i \in 1 .. Len(b) /\ i + 1 \in 1 .. Len(r)
        BY <1>1, <2>1, <2>2
      <3> QED BY <1>1, <2>1, <3>1
    <2> QED BY <2>1, <2>2, <2>3, BeginsByIndex
  <1> QED BY <1>1, <1>2, <1>3, <1>5 DEF a, b

\* What is left of a replay and a buffer when one event is read, or comes in.
LEMMA RestProperties ==
  ASSUME NEW a \in Seq(Event), NEW b \in Seq(Event)
  PROVE  /\ a \o b \in Seq(Event)
         /\ a # <<>> => /\ a \o b # <<>> /\ Head(a \o b) = Head(a)
                        /\ Tail(a \o b) = Tail(a) \o b
         /\ a = <<>> => a \o b = b
         /\ \A e \in Event : a \o Append(b, e) = Append(a \o b, e)
PROOF
  <1> DEFINE c == a \o b
  <1>1. /\ Len(a) \in Nat /\ Len(b) \in Nat /\ c \in Seq(Event) /\ Len(c) = Len(a) + Len(b)
        /\ \A i \in 1 .. Len(a) + Len(b) : c[i] = IF i <= Len(a) THEN a[i] ELSE b[i - Len(a)]
    BY ConcatProperties, LenProperties
  <1>2. a = <<>> => c = b
    BY ConcatEmptySeq
  <1>3. ASSUME NEW e \in Event PROVE a \o Append(b, e) = Append(c, e)
    <2>1. <<e>> \in Seq(Event)
      OBVIOUS
    <2>2. Append(b, e) = b \o <<e>> /\ Append(c, e) = c \o <<e>>
      BY <1>1, AppendIsConcat
    <2> QED BY <2>1, <2>2, ConcatAssociative
  <1>4. ASSUME a # <<>>
        PROVE  c # <<>> /\ Head(c) = Head(a) /\ Tail(c) = Tail(a) \o b
    <2>1. Len(a) > 0 /\ Len(c) > 0 /\ c # <<>>
      BY <1>1, <1>4, EmptySeq
    <2>2. Head(c) = c[1] /\ Head(a) = a[1] /\ c[1] = a[1]
      BY <1>1, <1>4, <2>1
    <2> DEFINE d == Tail(a)
               t == Tail(c)
               u == d \o b
    <2>3. /\ d \in Seq(Event) /\ Len(d) = Len(a) - 1 /\ \A i \in 1 .. Len(d) : d[i] = a[i + 1]
          /\ t \in Seq(Event) /\ Len(t) = Len(c) - 1 /\ \A i \in 1 .. Len(t) : t[i] = c[i + 1]
      BY <1>1, <1>4, <2>1, HeadTailProperties
    <2> HIDE DEF c, d, t
    <2>4. /\ u \in Seq(Event) /\ Len(u) = Len(d) + Len(b)
          /\ \A i \in 1 .. Len(d) + Len(b) : u[i] = IF i <= Len(d) THEN d[i] ELSE b[i - Len(d)]
      BY <2>3, ConcatProperties
    <2> HIDE DEF u
    <2>5. Len(t) = Len(u) /\ \A i \in 1 .. Len(t) : t[i] = u[i]
      <3>1. /\ Len(a) \in Nat \ {0} /\ Len(b) \in Nat /\ Len(d) = Len(a) - 1
            /\ Len(t) = Len(u) /\ Len(t) = Len(d) + Len(b) /\ Len(c) = Len(t) + 1
        BY <1>1, <2>1, <2>3, <2>4
      <3>2. ASSUME NEW i \in 1 .. Len(t) PROVE t[i] = u[i]
        <4>1. i + 1 \in 1 .. Len(c) /\ t[i] = c[i + 1]
          BY <2>3, <3>1
        <4>2. CASE i <= Len(d)
          <5>1. c[i + 1] = a[i + 1] /\ u[i] = d[i] /\ d[i] = a[i + 1]
            BY <1>1, <2>3, <2>4, <3>1, <4>1, <4>2
          <5> QED BY <4>1, <5>1
        <4>3. CASE i > Len(d)
          <5>1. /\ c[i + 1] = b[(i + 1) - Len(a)] /\ u[i] = b[i - Len(d)]
                /\ (i + 1) - Len(a) = i - Len(d)
            BY <1>1, <2>4, <3>1, <4>1, <4>3
          <5> QED BY <4>1, <5>1
        <4> QED BY <3>1, <4>2, <4>3
      <3> QED BY <3>1, <3>2
    <2>6. t = u
      BY <2>3, <2>4, <2>5, SeqEqual
    <2> QED BY <2>1, <2>2, <2>6 DEF d, t, u
  <1> QED BY <1>1, <1>2, <1>3, <1>4

-----------------------------------------------------------------------------
(* The replay.                                                             *)

\* The history in front of which nothing that the reader has missed is gone.
LEMMA ReplayIsOwed ==
  ASSUME HubInv, NEW k, NEW last \in Nat, ~Evicted(last)
  PROVE  After(history, k, last) = After(log, k, last)
PROOF
  <1> DEFINE n == Window(Len(log))
             m == Len(log) - n
             p == SubSeq(log, 1, m)
  <1>1. /\ log \in Seq(Event) /\ history \in Seq(Event) /\ Len(log) \in Nat
        /\ \A i \in 1 .. Len(log) : log[i].id = i
        /\ n \in Nat /\ m \in Nat /\ n + m = Len(log)
    BY HubAssumption, LenProperties DEF HubInv, HubTyped, HistoryWindow, Window
  <1>2. history = SubSeq(log, m + 1, Len(log)) /\ history = Newest(log)
    BY DEF HubInv, HistoryWindow, Newest, Window
  <1>3. Len(history) = n /\ IsSuffix(history, log)
    BY <1>1, <1>2, NewestIsSuffix
  <1> HIDE DEF n, m
  <1>4. log = p \o history
    <2>1. 1 \in 1 .. Len(log) + 1 /\ m \in 1 - 1 .. Len(log) /\ Len(log) \in m .. Len(log)
      BY <1>1
    <2>2. p \o SubSeq(log, m + 1, Len(log)) = SubSeq(log, 1, Len(log))
      BY <1>1, <2>1, ConcatAdjacentSubSeq
    <2> QED BY <1>1, <1>2, <2>2, SubSeqFull
  <1>5. /\ p \in Seq(Event) /\ Len(p) = m
        /\ \A i \in 1 .. m : p[i] = log[i]
    <2>1. \A i \in 1 .. m : log[i] \in Event
      BY <1>1, ElementOfSeq
    <2>2. /\ p \in Seq(Event) /\ Len(p) = IF 1 <= m THEN m - 1 + 1 ELSE 0
          /\ \A i \in 1 .. m - 1 + 1 : p[i] = log[1 + i - 1]
      BY <1>1, <2>1, SubSeqProperties
    <2> HIDE DEF p
    <2> QED BY <1>1, <2>2
  <1>6. m # 0 => m <= last
    <2> SUFFICES ASSUME m # 0 PROVE m <= last
      OBVIOUS
    <2>1. n # 0
      BY <1>1, HubAssumption DEF n, m, Window
    <2>2. history # <<>> /\ 1 \in 1 .. Len(history) /\ history[1] = log[Len(log) - n + 1]
      BY <1>1, <1>3, <2>1, EmptySeq DEF IsSuffix
    <2>3. history[1].id = m + 1
      BY <1>1, <2>1, <2>2
    <2> QED BY <1>1, <2>2, <2>3 DEF Evicted
  <1>7. \A i \in 1 .. Len(p) : ~(p[i].id > last)
    BY <1>1, <1>5, <1>6
  <1> HIDE DEF p
  <1> QED BY <1>1, <1>4, <1>5, <1>7, AfterSuffix

\* Who starts at the end of the log is owed nothing yet.
LEMMA NothingOwed ==
  ASSUME HubInv, NEW k
  PROVE  After(log, k, eventID) = <<>>
PROOF
  <1>1. log \in Seq(Event) /\ eventID = Len(log) /\ \A i \in 1 .. Len(log) : log[i].id = i
    BY DEF HubInv, HubTyped, HistoryWindow
  <1>2. \A i \in 1 .. Len(log) : ~(log[i].id > eventID /\ log[i].key = k)
    BY <1>1, LenProperties
  <1> QED BY <1>1, <1>2, AfterNone

-----------------------------------------------------------------------------
(* The streams.                                                            *)

\* The part of TypeOK that HubTyped leaves out.
StreamTyped ==
  /\ closed \in BOOLEAN
  /\ asked \in [Sub -> LastEventID]
  /\ complete \in [Sub -> BOOLEAN]
  /\ replay \in [Sub -> Seq(Event)]
  /\ pos \in [Sub -> Nat]

\* Nobody has read an event that is still to come.
ReadFromLog == \A s \in Sub : pos[s] <= eventID

\* What s has still to read.
Rest(s) == replay[s] \o channel[s].buffer

StreamInv == HubInv /\ StreamTyped /\ ReadFromLog /\ StreamExact

\* StreamExact in the terms of the lemmas above.
LEMMA ExactByBegins ==
  StreamExact <=> \A s \in Sub : held[s] # NoKey =>
                    /\ Begins(Rest(s), Owed(s))
                    /\ channel[s].state = "open" => Rest(s) = Owed(s)
PROOF
  BY Zenon DEF StreamExact, Begins, Rest

LEMMA RestAndOwedType ==
  ASSUME HubTyped, StreamTyped, NEW s \in Sub
  PROVE  /\ replay[s] \in Seq(Event) /\ channel[s].buffer \in Seq(Event)
         /\ Rest(s) \in Seq(Event) /\ Owed(s) \in Seq(Event)
PROOF
  <1>1. replay[s] \in Seq(Event) /\ channel[s].buffer \in Seq(Event) /\ log \in Seq(Event)
    BY DEF HubTyped, StreamTyped, Channel
  <1>2. Rest(s) \in Seq(Event)
    BY <1>1, RestProperties DEF Rest
  <1>3. Owed(s) \in Seq(Event)
    BY <1>1, AfterType DEF Owed
  <1> QED BY <1>1, <1>2, <1>3

-----------------------------------------------------------------------------
(* Types of the streams, for any event that a subscriber may name.         *)

LEMMA SubscribeTypes ==
  ASSUME HubInv, StreamTyped, NEW s \in Sub, NEW k \in Key, NEW last \in LastEventID,
         Subscribe(s, k, last)
  PROVE  StreamTyped'
PROOF
  <1>1. /\ closed' = closed /\ asked' = [asked EXCEPT ![s] = last]
        /\ \E whole \in BOOLEAN : complete' = [complete EXCEPT ![s] = whole]
        /\ \E p \in Nat : pos' = [pos EXCEPT ![s] = p]
    <2>1. /\ (~closed /\ Complete(last)) \in BOOLEAN
          /\ ~closed /\ Complete(last) /\ last # NoID => last \in Nat
      BY DEF Complete, LastEventID
    <2>2. eventID \in Nat
      BY DEF HubInv, HubTyped
    <2> QED BY <2>1, <2>2 DEF Subscribe
  <1>2. \E r \in Seq(Event) : replay' = [replay EXCEPT ![s] = r]
    <2>1. Replay(k, last) \in Seq(Event) /\ <<>> \in Seq(Event)
      BY AfterType, EmptySeq DEF Replay, HubInv, HubTyped
    <2> QED BY <2>1 DEF Subscribe
  <1> QED BY <1>1, <1>2 DEF StreamTyped

LEMMA TakeTypes ==
  ASSUME HubInv, StreamTyped, NEW s \in Sub, Take(s)
  PROVE  StreamTyped'
PROOF
  <1>1. UNCHANGED <<closed, asked, complete>>
    BY DEF Take, hubVars
  <1>2. \A e \in Event : e.id \in Nat
    BY DEF Event
  <1>3. replay[s] \in Seq(Event) /\ channel[s].buffer \in Seq(Event)
    BY RestAndOwedType DEF HubInv
  <1>4. CASE /\ replay[s] # <<>> /\ pos' = [pos EXCEPT ![s] = Head(replay[s]).id]
             /\ replay' = [replay EXCEPT ![s] = Tail(@)]
    <2> DEFINE h == Head(replay[s])
               t == Tail(replay[s])
    <2>1. h.id \in Nat /\ t \in Seq(Event)
      BY <1>2, <1>3, <1>4, HeadTailProperties
    <2>2. pos' = [pos EXCEPT ![s] = h.id] /\ replay' = [replay EXCEPT ![s] = t]
      BY <1>4
    <2> HIDE DEF h, t
    <2> QED BY <1>1, <2>1, <2>2 DEF StreamTyped
  <1>5. CASE /\ channel[s].buffer # <<>> /\ replay' = replay
             /\ pos' = [pos EXCEPT ![s] = Head(channel[s].buffer).id]
    <2> DEFINE h == Head(channel[s].buffer)
    <2>1. h.id \in Nat
      BY <1>2, <1>3, <1>5, HeadTailProperties
    <2>2. pos' = [pos EXCEPT ![s] = h.id]
      BY <1>5
    <2> HIDE DEF h
    <2> QED BY <1>1, <1>5, <2>1, <2>2 DEF StreamTyped
  <1> QED BY <1>4, <1>5 DEF Take

LEMMA UnsubscribeTypes ==
  ASSUME StreamTyped, NEW s \in Sub, Unsubscribe(s)
  PROVE  StreamTyped'
PROOF
  <1>1. <<>> \in Seq(Event) /\ NoID \in LastEventID
    BY EmptySeq DEF LastEventID
  <1>2. PICK z \in Seq(Event) : replay' = [replay EXCEPT ![s] = z]
    BY <1>1 DEF Unsubscribe
  <1>3. /\ asked' = [asked EXCEPT ![s] = NoID] /\ complete' = [complete EXCEPT ![s] = FALSE]
        /\ pos' = [pos EXCEPT ![s] = 0] /\ closed' = closed
    BY DEF Unsubscribe
  <1> QED BY <1>1, <1>2, <1>3 DEF StreamTyped

LEMMA OthersTypes ==
  ASSUME StreamTyped
  PROVE  /\ \A k \in Key, v \in Version : Publish(k, v) => StreamTyped'
         /\ Close => StreamTyped'
PROOF
  <1>1. \A k \in Key, v \in Version : Publish(k, v) => StreamTyped'
    BY DEF Publish, StreamTyped, vars, hubVars, subVars
  <1>2. Close => StreamTyped'
    BY DEF Close, StreamTyped
  <1> QED BY <1>1, <1>2

-----------------------------------------------------------------------------
(* A stream misses nothing and repeats nothing.                            *)

\* The buffer and the state of each channel after an event.
LEMMA PublishBuffers ==
  ASSUME HubInv, NEW k \in Key, NEW v \in Version, Publish(k, v), ~closed
  PROVE  \E e \in Event :
           /\ e.id = eventID + 1 /\ e.key = k /\ e.version = v
           /\ log' = Append(log, e) /\ eventID' = eventID + 1
           /\ UNCHANGED <<held, pos, replay>>
           /\ \A s \in Sub :
                \/ s \in Group(k) /\ Full(s) /\ channel'[s].buffer = channel[s].buffer
                \/ s \in Group(k) /\ channel'[s].buffer = Append(channel[s].buffer, e)
                \/ s \notin Group(k) /\ channel'[s].buffer = channel[s].buffer
PROOF
  <1> DEFINE event == [id |-> eventID + 1, key |-> k, version |-> v]
             dropped == {s \in Group(k) : Full(s)}
  <1>1. /\ event \in Event /\ event.id = eventID + 1 /\ event.key = k /\ event.version = v
    BY HubAssumption DEF HubInv, HubTyped, Event
  <1>2. /\ log' = Append(log, event) /\ eventID' = eventID + 1
        /\ UNCHANGED <<held, pos, replay>>
        /\ \A s \in Sub : channel'[s] =
             IF s \in dropped THEN CloseChannel(channel[s])
             ELSE IF s \in Group(k) THEN Send(channel[s], event) ELSE channel[s]
    BY DEF Publish
  <1> HIDE DEF event
  <1>3. \A s \in Sub : CloseChannel(channel[s]).buffer = channel[s].buffer
    BY DEF CloseChannel, HubInv, HubTyped, Channel
  <1>4. \A s \in Sub : s \in Group(k) =>
          Send(channel[s], event).buffer = Append(channel[s].buffer, event)
    BY MembersAreOpen DEF Send, HubInv, HubTyped, Channel
  <1>5. ASSUME NEW s \in Sub
        PROVE \/ s \in Group(k) /\ Full(s) /\ channel'[s].buffer = channel[s].buffer
              \/ s \in Group(k) /\ channel'[s].buffer = Append(channel[s].buffer, event)
              \/ s \notin Group(k) /\ channel'[s].buffer = channel[s].buffer
    <2>1. CASE s \in dropped
      BY <1>2, <1>3, <2>1
    <2>2. CASE s \in Group(k) /\ ~Full(s)
      BY <1>2, <1>4, <2>2, Zenon
    <2>3. CASE s \notin Group(k)
      BY <1>2, <2>3
    <2> QED BY <2>1, <2>2, <2>3
  <1> QED BY <1>1, <1>2, <1>5

LEMMA PublishExact ==
  ASSUME StreamInv, NEW k \in Key, NEW v \in Version, Publish(k, v), ~closed
  PROVE  ReadFromLog' /\ StreamExact'
PROOF
  <1>1. HubInv /\ HubTyped /\ StreamTyped
    BY DEF StreamInv, HubInv
  <1>2. PICK e \in Event :
          /\ e.id = eventID + 1 /\ e.key = k /\ log' = Append(log, e) /\ eventID' = eventID + 1
          /\ UNCHANGED <<held, pos, replay>>
          /\ \A s \in Sub :
               \/ s \in Group(k) /\ Full(s) /\ channel'[s].buffer = channel[s].buffer
               \/ s \in Group(k) /\ channel'[s].buffer = Append(channel[s].buffer, e)
               \/ s \notin Group(k) /\ channel'[s].buffer = channel[s].buffer
    BY <1>1, PublishBuffers
  <1>3. eventID \in Nat /\ log \in Seq(Event) /\ \A s \in Sub : pos[s] \in Nat /\ pos[s] <= eventID
    BY DEF StreamInv, HubInv, HubTyped, StreamTyped, ReadFromLog
  <1>4. ReadFromLog'
    BY <1>2, <1>3 DEF ReadFromLog
  <1>5. ASSUME NEW s \in Sub, held[s] # NoKey
        PROVE  /\ Begins(Rest(s)', Owed(s)')
               /\ channel'[s].state = "open" => Rest(s)' = Owed(s)'
    <2> DEFINE r == Rest(s)
               o == Owed(s)
    <2>1. /\ replay[s] \in Seq(Event) /\ channel[s].buffer \in Seq(Event)
          /\ r \in Seq(Event) /\ o \in Seq(Event)
      BY <1>1, RestAndOwedType
    <2>2. Begins(r, o) /\ (channel[s].state = "open" => r = o)
      BY <1>5, ExactByBegins DEF StreamInv
    <2>3. Owed(s)' = IF held[s] = k THEN Append(o, e) ELSE o
      <3>1. Owed(s)' = After(Append(log, e), held[s], pos[s])
        BY <1>2 DEF Owed
      <3>2. e.id > pos[s]
        BY <1>2, <1>3
      <3>3. \A j, p : After(Append(log, e), j, p) =
              IF e.id > p /\ e.key = j THEN Append(After(log, j, p), e) ELSE After(log, j, p)
        BY <1>3, AfterAppend
      <3> QED BY <1>2, <3>1, <3>2, <3>3 DEF Owed
    <2>4. channel'[s].state = IF s \in Group(k) /\ Full(s) THEN "closed" ELSE channel[s].state
      BY <1>1, PublishChannels
    <2>5. /\ s \in Group(k) => channel[s].state = "open" /\ held[s] = k
          /\ channel[s].state = "open" => s \in Group(held[s])
      BY <1>1, MembersAreOpen DEF HubTyped
    <2>6. replay'[s] = replay[s]
      BY <1>2
    <2>7. Rest(s)' = IF channel'[s].buffer = channel[s].buffer THEN r ELSE Append(r, e)
      <3>1. channel'[s].buffer = channel[s].buffer => Rest(s)' = r
        BY <2>6, Zenon DEF Rest
      <3>2. channel'[s].buffer = Append(channel[s].buffer, e) => Rest(s)' = Append(r, e)
        <4>1. replay[s] \o Append(channel[s].buffer, e) = Append(replay[s] \o channel[s].buffer, e)
          <5>1. \A a, b \in Seq(Event) : a \o Append(b, e) = Append(a \o b, e)
            BY RestProperties
          <5> QED BY <2>1, <5>1, Zenon
        <4> QED BY <2>6, <4>1, Zenon DEF Rest
      <3>3. \/ channel'[s].buffer = channel[s].buffer
            \/ channel'[s].buffer = Append(channel[s].buffer, e)
        BY <1>2
      <3> QED BY <3>1, <3>2, <3>3, Zenon
    <2> HIDE DEF r, o
    <2>8. Begins(r, Append(o, e))
      BY <2>1, <2>2, BeginsAppend
    <2> DEFINE p == Append(o, e)
               q == Append(r, e)
    <2>9. p \in Seq(Event) /\ (r = o => q = p)
      BY <2>1, AppendProperties
    <2>10. channel'[s].buffer = Append(channel[s].buffer, e) => channel'[s].buffer # channel[s].buffer
      <3>1. Len(Append(channel[s].buffer, e)) = Len(channel[s].buffer) + 1
            /\ Len(channel[s].buffer) \in Nat
        BY <2>1, AppendProperties, LenProperties
      <3> QED BY <3>1
    <2> HIDE DEF p, q
    <2>11. Begins(p, p)
      BY <2>9, BeginsWhole
    <2>12. CASE s \in Group(k) /\ Full(s) /\ channel'[s].buffer = channel[s].buffer
      <3>1. Rest(s)' = r /\ Owed(s)' = p
        BY <2>3, <2>5, <2>7, <2>12 DEF p
      <3> QED BY <2>4, <2>8, <2>12, <3>1 DEF p
    <2>13. CASE s \in Group(k) /\ channel'[s].buffer = Append(channel[s].buffer, e)
      <3>1. Rest(s)' = q /\ Owed(s)' = p /\ q = p
        BY <2>2, <2>3, <2>5, <2>7, <2>9, <2>10, <2>13 DEF p, q
      <3> QED BY <2>11, <3>1
    <2>14. CASE s \notin Group(k) /\ channel'[s].buffer = channel[s].buffer
      <3>1. Rest(s)' = r
        BY <2>7, <2>14
      <3>2. CASE held[s] = k
        <4>1. Owed(s)' = p /\ channel'[s].state # "open"
          BY <2>3, <2>4, <2>5, <2>14, <3>2 DEF p
        <4> QED BY <2>8, <3>1, <4>1 DEF p
      <3>3. CASE held[s] # k
        <4>1. Owed(s)' = o
          BY <2>3, <3>3
        <4> QED BY <2>2, <2>4, <2>14, <3>1, <4>1
      <3> QED BY <3>2, <3>3
    <2> QED BY <1>2, <2>12, <2>13, <2>14
  <1>6. held' = held
    BY <1>2
  <1>7. StreamExact'
    <2>1. \A s \in Sub : held'[s] # NoKey =>
            /\ Begins(Rest(s)', Owed(s)')
            /\ channel'[s].state = "open" => Rest(s)' = Owed(s)'
      BY <1>5, <1>6
    <2> QED BY <2>1, Zenon DEF StreamExact, Begins, Rest
  <1> QED BY <1>4, <1>7

LEMMA SubscribeExact ==
  ASSUME StreamInv, NEW s \in Sub, NEW k \in Key,
         NEW last \in {NoID, BadID} \cup 0 .. eventID, Subscribe(s, k, last)
  PROVE  ReadFromLog' /\ StreamExact'
PROOF
  <1>1. HubInv /\ HubTyped /\ StreamTyped
    BY DEF StreamInv, HubInv
  <1>2. /\ held' = [held EXCEPT ![s] = k] /\ UNCHANGED <<eventID, log>>
        /\ pos' = [pos EXCEPT ![s] = IF (~closed /\ Complete(last)) /\ last # NoID
                                     THEN last ELSE eventID]
    BY DEF Subscribe
  <1>3. eventID \in Nat /\ \A r \in Sub : pos[r] \in Nat /\ pos[r] <= eventID
    BY DEF StreamInv, HubInv, HubTyped, StreamTyped, ReadFromLog
  <1>4. /\ DOMAIN replay = Sub /\ DOMAIN channel = Sub
        /\ DOMAIN held = Sub /\ DOMAIN pos = Sub
    BY <1>1 DEF HubTyped, StreamTyped
  <1>5. \A r \in Sub \ {s} : /\ replay'[r] = replay[r] /\ channel'[r] = channel[r]
                             /\ held'[r] = held[r] /\ pos'[r] = pos[r]
    BY <1>2, <1>4 DEF Subscribe
  <1>6. \A r \in Sub \ {s} : Rest(r)' = Rest(r) /\ Owed(r)' = Owed(r)
    BY <1>2, <1>5, Zenon DEF Rest, Owed
  <1>7. held'[s] = k
    BY <1>2, <1>4
  <1>8. (~closed /\ Complete(last)) /\ last # NoID => last \in Nat /\ last <= eventID
    BY <1>3 DEF Complete
  <1>9. ReadFromLog'
    BY <1>2, <1>3, <1>4, <1>5, <1>8 DEF ReadFromLog
  <1>10. channel'[s].buffer = <<>>
    BY <1>4 DEF Subscribe, ClosedChannel, OpenChannel
  <1>11. replay'[s] \in Seq(Event) /\ Rest(s)' = replay'[s]
    <2>1. StreamTyped'
      <3>1. last \in LastEventID
        BY <1>3 DEF LastEventID
      <3> QED BY <1>1, <3>1, SubscribeTypes
    <2>2. replay'[s] \in Seq(Event)
      BY <2>1 DEF StreamTyped
    <2>3. \A a \in Seq(Event) : a \o <<>> = a
      BY ConcatEmptySeq
    <2> QED BY <1>10, <2>2, <2>3 DEF Rest
  <1>12. Begins(Rest(s)', Owed(s)') /\ Rest(s)' = Owed(s)'
    <2>1. Owed(s)' = replay'[s]
      <3>1. CASE ~closed /\ Complete(last) /\ last # NoID
        <4>1. pos'[s] = last /\ last \in Nat /\ ~Evicted(last)
          BY <1>2, <1>4, <1>8, <3>1 DEF Complete
        <4>2. replay'[s] = After(history, k, last)
          BY <1>4, <3>1 DEF Subscribe, Replay
        <4> QED BY <1>1, <1>2, <1>7, <4>1, <4>2, ReplayIsOwed DEF Owed
      <3>2. CASE ~(~closed /\ Complete(last) /\ last # NoID)
        <4>1. pos'[s] = eventID
          BY <1>2, <1>4, <3>2
        <4>2. replay'[s] = <<>>
          BY <1>4, <3>2 DEF Subscribe, Replay
        <4> QED BY <1>1, <1>2, <1>7, <4>1, <4>2, NothingOwed DEF Owed
      <3> QED BY <3>1, <3>2
    <2> QED BY <1>11, <2>1, BeginsWhole
  <1>13. \A r \in Sub : held'[r] # NoKey =>
            /\ Begins(Rest(r)', Owed(r)')
            /\ channel'[r].state = "open" => Rest(r)' = Owed(r)'
    <2>1. \A r \in Sub : held[r] # NoKey => /\ Begins(Rest(r), Owed(r))
                                            /\ channel[r].state = "open" => Rest(r) = Owed(r)
      BY ExactByBegins DEF StreamInv
    <2> QED BY <1>5, <1>6, <1>12, <2>1
  <1>14. StreamExact'
    BY <1>13, Zenon DEF StreamExact, Begins, Rest
  <1> QED BY <1>9, <1>14

\* A read takes one event off the front of what is left.
LEMMA TakeRest ==
  ASSUME HubInv, StreamTyped, NEW s \in Sub, Take(s)
  PROVE  /\ pos' = [pos EXCEPT ![s] = Head(Rest(s)).id]
         /\ \A r \in Sub \ {s} : replay'[r] = replay[r] /\ channel'[r] = channel[r]
         /\ channel'[s].state = channel[s].state
         /\ Rest(s) # <<>> /\ Rest(s)' = Tail(Rest(s))
         /\ Head(Rest(s)) = IF replay[s] # <<>> THEN Head(replay[s]) ELSE Head(channel[s].buffer)
PROOF
  <1> DEFINE r == Rest(s)
  <1>1. /\ replay[s] \in Seq(Event) /\ channel[s].buffer \in Seq(Event)
        /\ DOMAIN replay = Sub /\ DOMAIN channel = Sub /\ channel[s] \in Channel
    BY RestAndOwedType DEF HubInv, HubTyped, StreamTyped
  <1>2. CASE /\ replay[s] # <<>> /\ pos' = [pos EXCEPT ![s] = Head(replay[s]).id]
             /\ replay' = [replay EXCEPT ![s] = Tail(@)] /\ channel' = channel
    <2>1. /\ r # <<>> /\ Head(r) = Head(replay[s])
          /\ Tail(r) = Tail(replay[s]) \o channel[s].buffer
      BY <1>1, <1>2, RestProperties DEF Rest
    <2>2. replay'[s] = Tail(replay[s]) /\ \A q \in Sub \ {s} : replay'[q] = replay[q]
      BY <1>1, <1>2
    <2>3. Rest(s)' = Tail(r)
      BY <1>2, <2>1, <2>2, Zenon DEF Rest
    <2> HIDE DEF r
    <2>4. channel'[s] = channel[s] /\ \A q \in Sub : channel'[q] = channel[q]
      BY <1>2
    <2> QED BY <1>2, <2>1, <2>2, <2>3, <2>4 DEF r
  <1>3. CASE /\ replay[s] = <<>> /\ channel[s].buffer # <<>>
             /\ pos' = [pos EXCEPT ![s] = Head(channel[s].buffer).id]
             /\ channel' = [channel EXCEPT ![s].buffer = Tail(@)] /\ replay' = replay
    <2>1. r = channel[s].buffer
      BY <1>1, <1>3, RestProperties DEF Rest
    <2> DEFINE t == Tail(channel[s].buffer)
    <2>2. t \in Seq(Event)
      BY <1>1, <1>3, HeadTailProperties
    <2>3. channel' = [channel EXCEPT ![s].buffer = t]
      BY <1>3
    <2> HIDE DEF t
    <2>4. /\ channel'[s].buffer = t /\ channel'[s].state = channel[s].state
          /\ \A q \in Sub \ {s} : channel'[q] = channel[q]
      BY <1>1, <2>3 DEF Channel
    <2>5. Rest(s)' = t
      <3>1. \A b \in Seq(Event), z \in Seq(Event) : z = <<>> => z \o b = b
        BY RestProperties
      <3>2. Rest(s)' = replay[s] \o t
        BY <1>3, <2>4, Zenon DEF Rest
      <3> QED BY <1>1, <1>3, <2>2, <3>1, <3>2, Zenon
    <2>6. /\ t = Tail(r) /\ r # <<>> /\ pos' = [pos EXCEPT ![s] = Head(r).id]
          /\ Head(r) = Head(channel[s].buffer)
      BY <1>3, <2>1 DEF t
    <2> HIDE DEF r
    <2>7. replay'[s] = replay[s] /\ \A q \in Sub : replay'[q] = replay[q]
      BY <1>3
    <2> QED BY <1>3, <2>4, <2>5, <2>6, <2>7 DEF r
  <1> QED BY <1>2, <1>3 DEF Take

\* What a subscriber reads is the next event of its key.
LEMMA TakeReads ==
  ASSUME StreamInv, NEW s \in Sub, Take(s)
  PROVE  \E e \in Event :
           /\ FirstAfter(log, held[s], pos[s], e)
           /\ pos' = [pos EXCEPT ![s] = e.id]
           /\ UNCHANGED <<hubVars, held, asked, complete>>
           /\ \A r \in Sub \ {s} : replay'[r] = replay[r] /\ channel'[r] = channel[r]
           /\ channel'[s].state = channel[s].state
           /\ Rest(s) # <<>> /\ Rest(s)' = Tail(Rest(s)) /\ Owed(s)' = Tail(Owed(s))
PROOF
  <1>1. HubInv /\ HubTyped /\ StreamTyped
    BY DEF StreamInv, HubInv
  <1> DEFINE r == Rest(s)
             o == Owed(s)
             e == Head(r)
  <1>2. r \in Seq(Event) /\ o \in Seq(Event)
    BY <1>1, RestAndOwedType
  <1>3. DOMAIN pos = Sub
    BY <1>1 DEF StreamTyped
  <1>4. UNCHANGED <<hubVars, held, asked, complete>> /\ held[s] # NoKey
    BY DEF Take
  <1>5. /\ pos' = [pos EXCEPT ![s] = e.id]
        /\ \A q \in Sub \ {s} : replay'[q] = replay[q] /\ channel'[q] = channel[q]
        /\ channel'[s].state = channel[s].state
        /\ r # <<>> /\ Rest(s)' = Tail(r)
    BY <1>1, TakeRest
  <1>6. Begins(r, o)
    BY <1>4, ExactByBegins DEF StreamInv
  <1>7. o # <<>> /\ Head(o) = e
    BY <1>2, <1>5, <1>6, BeginsTail
  <1>8. FirstAfter(log, held[s], pos[s], e) /\ After(log, held[s], e.id) = Tail(o)
    <2>1. log \in Seq(Event) /\ Numbered(log) /\ pos[s] \in Nat
      BY <1>1 DEF HubInv, HubTyped, StreamTyped, HistoryWindow, Numbered
    <2>2. o = After(log, held[s], pos[s])
      BY DEF Owed
    <2> HIDE DEF o, e
    <2> QED BY <1>7, <2>1, <2>2, AfterNext
  <1>9. Owed(s)' = Tail(o)
    <2>1. pos'[s] = e.id /\ held'[s] = held[s] /\ log' = log
      BY <1>3, <1>4, <1>5 DEF hubVars
    <2>2. Owed(s)' = After(log, held[s], e.id)
      BY <2>1, Zenon DEF Owed
    <2> QED BY <1>8, <2>2
  <1>10. e \in Event
    BY <1>8 DEF FirstAfter
  <1> QED BY <1>4, <1>5, <1>8, <1>9, <1>10

LEMMA TakeExact ==
  ASSUME StreamInv, NEW s \in Sub, Take(s)
  PROVE  ReadFromLog' /\ StreamExact'
PROOF
  <1>1. HubInv /\ HubTyped /\ StreamTyped
    BY DEF StreamInv, HubInv
  <1>2. PICK e \in Event :
           /\ FirstAfter(log, held[s], pos[s], e)
           /\ pos' = [pos EXCEPT ![s] = e.id]
           /\ UNCHANGED <<hubVars, held, asked, complete>>
           /\ \A r \in Sub \ {s} : replay'[r] = replay[r] /\ channel'[r] = channel[r]
           /\ channel'[s].state = channel[s].state
           /\ Rest(s) # <<>> /\ Rest(s)' = Tail(Rest(s)) /\ Owed(s)' = Tail(Owed(s))
    BY TakeReads
  <1>3. UNCHANGED <<eventID, log>> /\ eventID = Len(log) /\ eventID \in Nat
    BY <1>1, <1>2 DEF hubVars, HubInv, HubTyped, HistoryWindow
  <1>4. DOMAIN pos = Sub /\ \A r \in Sub \ {s} : pos'[r] = pos[r]
    BY <1>1, <1>2 DEF StreamTyped
  <1>5. ReadFromLog'
    BY <1>2, <1>3, <1>4 DEF StreamInv, ReadFromLog, FirstAfter
  <1>6. \A r \in Sub : held[r] # NoKey => /\ Begins(Rest(r), Owed(r))
                                          /\ channel[r].state = "open" => Rest(r) = Owed(r)
    BY ExactByBegins DEF StreamInv
  <1>7. held[s] # NoKey
    BY DEF Take
  <1>8. \A r \in Sub \ {s} : Rest(r)' = Rest(r) /\ Owed(r)' = Owed(r)
    BY <1>2, <1>3, <1>4, Zenon DEF Rest, Owed
  <1>9. /\ Begins(Rest(s)', Owed(s)')
        /\ channel'[s].state = "open" => Rest(s)' = Owed(s)'
    <2>1. Begins(Rest(s), Owed(s)) /\ (channel[s].state = "open" => Rest(s) = Owed(s))
      BY <1>6, <1>7
    <2>2. Rest(s) \in Seq(Event) /\ Owed(s) \in Seq(Event)
      BY <1>1, RestAndOwedType
    <2>3. Begins(Tail(Rest(s)), Tail(Owed(s)))
      BY <1>2, <2>1, <2>2, BeginsTail
    <2> QED BY <1>2, <2>1, <2>3, Zenon
  <1>10. \A r \in Sub : held'[r] # NoKey =>
            /\ Begins(Rest(r)', Owed(r)')
            /\ channel'[r].state = "open" => Rest(r)' = Owed(r)'
    BY <1>2, <1>6, <1>8, <1>9, Zenon
  <1>11. StreamExact'
    BY <1>10, Zenon DEF StreamExact, Begins, Rest
  <1> QED BY <1>5, <1>11

LEMMA UnsubscribeExact ==
  ASSUME StreamInv, NEW s \in Sub, Unsubscribe(s)
  PROVE  ReadFromLog' /\ StreamExact'
PROOF
  <1>1. /\ DOMAIN replay = Sub /\ DOMAIN channel = Sub /\ DOMAIN pos = Sub
        /\ DOMAIN held = Sub /\ eventID \in Nat
    BY DEF StreamInv, HubInv, HubTyped, StreamTyped
  <1>2. UNCHANGED <<eventID, log>> /\ held'[s] = NoKey /\ pos'[s] = 0
    BY <1>1 DEF Unsubscribe
  <1>3. \A r \in Sub \ {s} : /\ replay'[r] = replay[r] /\ channel'[r] = channel[r]
                             /\ held'[r] = held[r] /\ pos'[r] = pos[r]
    BY <1>1 DEF Unsubscribe
  <1>4. ReadFromLog'
    BY <1>1, <1>2, <1>3 DEF StreamInv, ReadFromLog
  <1>5. \A r \in Sub \ {s} : Rest(r)' = Rest(r) /\ Owed(r)' = Owed(r)
    BY <1>2, <1>3, Zenon DEF Rest, Owed
  <1>6. \A r \in Sub : held'[r] # NoKey =>
            /\ Begins(Rest(r)', Owed(r)')
            /\ channel'[r].state = "open" => Rest(r)' = Owed(r)'
    BY <1>2, <1>3, <1>5, ExactByBegins, Zenon DEF StreamInv
  <1>7. StreamExact'
    BY <1>6, Zenon DEF StreamExact, Begins, Rest
  <1> QED BY <1>4, <1>7

LEMMA CloseExact ==
  ASSUME StreamInv, Close
  PROVE  ReadFromLog' /\ StreamExact'
PROOF
  <1>1. UNCHANGED <<eventID, log, held, replay, pos>>
    BY DEF Close
  <1>2. \A s \in Sub : channel[s] \in Channel
    BY DEF StreamInv, HubInv, HubTyped
  <1>3. \A s \in Sub : /\ channel'[s].buffer = channel[s].buffer
                       /\ channel'[s].state = "open" => channel[s].state = "open"
    BY <1>2 DEF Close, CloseAll, CloseChannel, Channel
  <1>4. \A s \in Sub : Rest(s)' = Rest(s) /\ Owed(s)' = Owed(s)
    BY <1>1, <1>3, Zenon DEF Rest, Owed
  <1>5. \A r \in Sub : held'[r] # NoKey =>
            /\ Begins(Rest(r)', Owed(r)')
            /\ channel'[r].state = "open" => Rest(r)' = Owed(r)'
    BY <1>1, <1>3, <1>4, ExactByBegins, Zenon DEF StreamInv
  <1>6. StreamExact'
    BY <1>5, Zenon DEF StreamExact, Begins, Rest
  <1>7. ReadFromLog'
    BY <1>1 DEF StreamInv, ReadFromLog
  <1> QED BY <1>6, <1>7

LEMMA StreamInvStep == StreamInv /\ [Next]_vars => StreamInv'
PROOF
  <1> SUFFICES ASSUME StreamInv, [Next]_vars PROVE StreamInv'
    OBVIOUS
  <1>1. HubInv'
    BY HubInvStep DEF StreamInv
  <1>2. CASE UNCHANGED vars
    <2>1. UNCHANGED <<eventID, closed, log, channel, held, asked, complete, replay, pos>>
      BY <1>2 DEF vars, hubVars, subVars
    <2>2. StreamTyped' /\ ReadFromLog'
      BY <2>1 DEF StreamInv, StreamTyped, ReadFromLog
    <2>3. StreamExact'
      BY <2>1, Zenon DEF StreamInv, StreamExact, Owed
    <2> QED BY <1>1, <2>2, <2>3 DEF StreamInv
  <1>3. ASSUME NEW k \in Key, NEW v \in Version, Publish(k, v), ~closed
        PROVE  StreamInv'
    BY <1>1, <1>3, PublishExact, OthersTypes DEF StreamInv
  <1>4. ASSUME NEW k \in Key, NEW v \in Version, Publish(k, v), closed
        PROVE  UNCHANGED vars
    BY <1>4 DEF Publish
  <1>5. ASSUME NEW s \in Sub, NEW k \in Key, NEW last \in {NoID, BadID} \cup 0 .. eventID,
               Subscribe(s, k, last)
        PROVE  StreamInv'
    <2>1. last \in LastEventID
      BY DEF LastEventID
    <2> QED BY <1>1, <1>5, <2>1, SubscribeTypes, SubscribeExact DEF StreamInv
  <1>6. ASSUME NEW s \in Sub, Take(s) PROVE StreamInv'
    BY <1>1, <1>6, TakeTypes, TakeExact DEF StreamInv
  <1>7. ASSUME NEW s \in Sub, Unsubscribe(s) PROVE StreamInv'
    BY <1>1, <1>7, UnsubscribeTypes, UnsubscribeExact DEF StreamInv
  <1>8. ASSUME Close PROVE StreamInv'
    BY <1>1, <1>8, CloseExact, OthersTypes DEF StreamInv
  <1> QED BY <1>2, <1>3, <1>4, <1>5, <1>6, <1>7, <1>8 DEF Next

LEMMA StreamInvInit == Init => StreamInv
PROOF
  <1> SUFFICES ASSUME Init PROVE StreamInv
    OBVIOUS
  <1>1. HubInv
    BY HubInit
  <1>2. <<>> \in Seq(Event)
    BY EmptySeq
  <1>3. StreamTyped
    BY <1>2 DEF Init, StreamTyped, LastEventID
  <1>4. ReadFromLog /\ StreamExact
    BY DEF Init, ReadFromLog, StreamExact
  <1> QED BY <1>1, <1>3, <1>4 DEF StreamInv

LEMMA StreamInvariance == Spec => []StreamInv
PROOF
  BY StreamInvInit, StreamInvStep, PTL DEF Spec

\* The hub and its streams keep their types; no buffer exceeds its channel.
THEOREM HubTypeCorrect == Spec => []TypeOK
PROOF
  <1>1. StreamInv => TypeOK
    BY DEF StreamInv, HubInv, HubTyped, StreamTyped, TypeOK
  <1> QED BY <1>1, StreamInvariance, PTL

\* What a subscriber has still to read, replay and channel together, is all of the
\* events of its key that it is owed, in order and without a duplicate; once it
\* has been dropped, it is the beginning of them.
THEOREM StreamsAreExact == Spec => []StreamExact
PROOF
  BY StreamInvariance, PTL DEF StreamInv

-----------------------------------------------------------------------------
(* The hub implements EventLog.                                            *)

\* The log and the readers of EventLog.
Keys == [i \in DOMAIN log |-> log[i].key]
Readers == [s \in Sub |-> Stream(s)]

\* A subscription that is in use is not taken for one that is off.
LEMMA StreamIsOn ==
  ASSUME StreamInv, NEW s \in Sub
  PROVE  Stream(s) = NoKey <=> held[s] = NoKey
PROOF
  <1>1. /\ held[s] \in Key \cup {NoKey} /\ asked[s] \in LastEventID
        /\ complete[s] \in BOOLEAN /\ pos[s] \in Nat
    BY DEF StreamInv, HubInv, HubTyped, StreamTyped
  <1> QED BY <1>1, HubAssumption DEF Stream, LastEventID

\* The keys of a sequence of events.
KeysOf(l) == [i \in DOMAIN l |-> l[i].key]

LEMMA KeysProperties ==
  ASSUME NEW l \in Seq(Event)
  PROVE  /\ KeysOf(l) \in Seq(Key) /\ Len(KeysOf(l)) = Len(l)
         /\ \A i \in 1 .. Len(l) : KeysOf(l)[i] = l[i].key
PROOF
  <1> DEFINE n == KeysOf(l)
  <1>1. DOMAIN l = 1 .. Len(l) /\ Len(l) \in Nat
    BY LenProperties
  <1>2. \A i \in 1 .. Len(l) : l[i] \in Event
    BY <1>1, ElementOfSeq
  <1>3. \A i \in 1 .. Len(l) : l[i].key \in Key
    BY <1>2 DEF Event
  <1>4. n \in [1 .. Len(l) -> Key] /\ \A i \in 1 .. Len(l) : n[i] = l[i].key
    BY <1>1, <1>3 DEF KeysOf
  <1> HIDE DEF n
  <1>5. n \in Seq(Key)
    BY <1>1, <1>4, SeqDef
  <1>6. Len(n) \in Nat /\ 1 .. Len(n) = 1 .. Len(l)
    BY <1>4, <1>5, LenProperties
  <1>7. Len(n) = Len(l)
    <2>1. \A i, j \in Nat : 1 .. i = 1 .. j => i = j
      OBVIOUS
    <2> QED BY <1>1, <1>6, <2>1
  <1> QED BY <1>4, <1>5, <1>7 DEF n

LEMMA KeysIsMapped == Keys = KeysOf(log)
PROOF
  BY DEF Keys, KeysOf

LEMMA InitIsLog == Init => Log!Init
PROOF
  <1> SUFFICES ASSUME Init PROVE Log!Init
    OBVIOUS
  <1>1. log = <<>> /\ \A s \in Sub : held[s] = NoKey
    BY DEF Init
  <1>2. log \in Seq(Event) /\ Len(log) = 0
    BY <1>1, EmptySeq
  <1>3. Keys \in Seq(Key) /\ Len(Keys) = 0
    BY <1>2, KeysProperties, KeysIsMapped
  <1>4. Keys = <<>>
    BY <1>3, EmptySeq
  <1> QED BY <1>1, <1>4 DEF Log!Init, Keys, Stream

LEMMA PublishIsLog ==
  ASSUME StreamInv, NEW k \in Key, NEW v \in Version, Publish(k, v), ~closed
  PROVE  Log!Publish(k)
PROOF
  <1>1. PICK e \in Event : e.key = k /\ log' = Append(log, e)
    BY PublishBuffers DEF StreamInv
  <1> DEFINE m == Append(log, e)
             len == Len(log)
             n == KeysOf(m)
             a == Append(Keys, k)
  <1>2. /\ log \in Seq(Event) /\ len \in Nat /\ m \in Seq(Event)
        /\ Len(m) = len + 1 /\ m[len + 1] = e
        /\ \A i \in 1 .. len : m[i] = log[i]
    BY AppendProperties, LenProperties DEF StreamInv, HubInv, HubTyped
  <1> HIDE DEF m
  <1>3. /\ Keys \in Seq(Key) /\ Len(Keys) = len
        /\ \A i \in 1 .. len : Keys[i] = log[i].key
    BY <1>2, KeysProperties, KeysIsMapped
  <1>4. /\ n \in Seq(Key) /\ Len(n) = len + 1
        /\ \A i \in 1 .. len + 1 : n[i] = m[i].key
    BY <1>2, KeysProperties
  <1> HIDE DEF n
  <1>5. /\ a \in Seq(Key) /\ Len(a) = len + 1 /\ a[len + 1] = k
        /\ \A i \in 1 .. len : a[i] = log[i].key
    <2>1. /\ a \in Seq(Key) /\ Len(a) = Len(Keys) + 1 /\ a[Len(Keys) + 1] = k
          /\ \A i \in 1 .. Len(Keys) : a[i] = Keys[i]
      BY <1>3, AppendProperties
    <2> HIDE DEF a, len
    <2> QED BY <1>3, <2>1
  <1> HIDE DEF a, len
  <1>6. n = a
    <2>1. ASSUME NEW i \in 1 .. len + 1 PROVE n[i] = a[i]
      <3>1. CASE i = len + 1
        <4>1. n[i] = e.key
          BY <1>2, <1>4, <3>1
        <4> QED BY <1>1, <1>5, <3>1, <4>1
      <3>2. CASE i \in 1 .. len
        <4>1. n[i] = log[i].key
          BY <1>2, <1>4, <3>2
        <4> QED BY <1>5, <3>2, <4>1
      <3> QED BY <1>2, <3>1, <3>2
    <2> QED BY <1>4, <1>5, <2>1, SeqEqual
  <1>7. Keys' = Append(Keys, k)
    <2>1. log' = m
      BY <1>1 DEF m
    <2>2. Keys' = n
      BY <2>1 DEF Keys, KeysOf, n
    <2> QED BY <1>6, <2>2 DEF a
  <1>8. Readers' = Readers
    <2>1. UNCHANGED <<held, asked, complete, pos>>
      BY DEF Publish
    <2> QED BY <2>1 DEF Readers, Stream
  <1> QED BY <1>7, <1>8 DEF Log!Publish, Keys, Readers

LEMMA SubscribeIsLog ==
  ASSUME StreamInv, NEW s \in Sub, NEW k \in Key,
         NEW last \in {NoID, BadID} \cup 0 .. eventID, Subscribe(s, k, last)
  PROVE  Log!Next
PROOF
  <1> DEFINE whole == ~closed /\ Complete(last)
             start == IF whole /\ last # NoID THEN last ELSE eventID
  <1>1. /\ held[s] = NoKey /\ held' = [held EXCEPT ![s] = k]
        /\ asked' = [asked EXCEPT ![s] = last] /\ complete' = [complete EXCEPT ![s] = whole]
        /\ pos' = [pos EXCEPT ![s] = start] /\ UNCHANGED log
    BY DEF Subscribe
  <1>2. /\ DOMAIN held = Sub /\ DOMAIN asked = Sub /\ DOMAIN complete = Sub
        /\ DOMAIN pos = Sub /\ eventID = Len(log)
    BY DEF StreamInv, HubInv, HubTyped, StreamTyped, HistoryWindow
  <1>3. whole \in BOOLEAN /\ (whole => last \in {NoID} \cup 0 .. Len(log))
    BY <1>2 DEF Complete
  <1>4. last \in {NoID, BadID} \cup 0 .. Len(log)
    BY <1>2
  <1>5. start = IF whole /\ last # NoID THEN last ELSE Len(log)
    BY <1>2
  <1> HIDE DEF whole, start
  <1> DEFINE new == [key |-> k, asked |-> last, complete |-> whole, pos |-> start]
  <1>6. Stream(s)' = new
    <2>1. /\ held'[s] = k /\ asked'[s] = last /\ complete'[s] = whole /\ pos'[s] = start
      BY <1>1, <1>2
    <2> QED BY <2>1, HubAssumption DEF Stream
  <1>7. \A r \in Sub \ {s} : Stream(r)' = Stream(r)
    BY <1>1, <1>2 DEF Stream
  <1> HIDE DEF new
  <1>8. Readers' = [Readers EXCEPT ![s] = new] /\ Readers[s] = NoKey
    <2>1. Readers[s] = NoKey
      BY <1>1, StreamIsOn DEF Readers
    <2> QED BY <1>6, <1>7, <2>1 DEF Readers
  <1>9. Keys' = Keys /\ DOMAIN Keys = 1 .. Len(log) /\ Len(Keys) = Len(log)
    <2>1. log \in Seq(Event)
      BY DEF StreamInv, HubInv, HubTyped
    <2>2. Keys \in Seq(Key) /\ Len(Keys) = Len(log)
      BY <2>1, KeysProperties, KeysIsMapped
    <2>3. Keys' = Keys
      BY <1>1 DEF Keys
    <2> QED BY <2>2, <2>3, LenProperties
  <1>10. Log!Attach(s, k, last, whole)
    BY <1>5, <1>8, <1>9 DEF Log!Attach, Keys, Readers, new
  <1>11. CASE whole
    <2>1. whole = TRUE /\ last \in {NoID} \cup 0 .. Len(Keys)
      BY <1>3, <1>9, <1>11
    <2> QED BY <1>10, <2>1 DEF Log!Next, Keys
  <1>12. CASE ~whole
    <2>1. whole = FALSE /\ last \in {NoID, BadID} \cup 0 .. Len(Keys)
      BY <1>3, <1>4, <1>9, <1>12
    <2> QED BY <1>10, <2>1 DEF Log!Next, Keys
  <1> QED BY <1>11, <1>12

LEMMA TakeIsLog ==
  ASSUME StreamInv, NEW s \in Sub, Take(s)
  PROVE  Log!Deliver(s)
PROOF
  <1>1. PICK e \in Event :
          /\ FirstAfter(log, held[s], pos[s], e)
          /\ pos' = [pos EXCEPT ![s] = e.id]
          /\ UNCHANGED <<hubVars, held, asked, complete>>
    BY TakeReads
  <1>2. held[s] # NoKey /\ log' = log
    BY <1>1 DEF Take, hubVars
  <1>3. /\ log \in Seq(Event) /\ DOMAIN log = 1 .. Len(log) /\ Len(log) \in Nat
        /\ DOMAIN pos = Sub /\ pos[s] \in Nat
    BY LenProperties DEF StreamInv, HubInv, HubTyped, StreamTyped
  <1>4. Readers[s] # NoKey /\ Readers[s].pos = pos[s] /\ Readers[s].key = held[s]
    BY <1>2, StreamIsOn DEF Readers, Stream
  <1>5. e.id \in DOMAIN Keys /\ Keys' = Keys /\ \A i \in 1 .. Len(log) : Keys[i] = log[i].key
    BY <1>1, <1>2, <1>3 DEF Keys, FirstAfter
  <1>6. /\ e.id > pos[s] /\ Keys[e.id] = held[s]
        /\ \A i \in pos[s] + 1 .. e.id - 1 : Keys[i] # held[s]
    BY <1>1, <1>3, <1>5 DEF FirstAfter
  <1>7. Readers' = [Readers EXCEPT ![s].pos = e.id]
    <2>1. Stream(s)' = [Stream(s) EXCEPT !.pos = e.id]
      BY <1>1, <1>2, <1>3 DEF Stream
    <2>2. \A r \in Sub \ {s} : Stream(r)' = Stream(r)
      BY <1>1, <1>3 DEF Stream
    <2> QED BY <2>1, <2>2 DEF Readers
  <1>8. Log!IsNext(s, e.id)
    BY <1>4, <1>6 DEF Log!IsNext, Keys, Readers
  <1> QED BY <1>4, <1>5, <1>7, <1>8 DEF Log!Deliver, Keys, Readers

LEMMA UnsubscribeIsLog ==
  ASSUME StreamInv, NEW s \in Sub, Unsubscribe(s)
  PROVE  Log!Detach(s)
PROOF
  <1>1. /\ held[s] # NoKey /\ log' = log
        /\ held' = [held EXCEPT ![s] = NoKey] /\ asked' = [asked EXCEPT ![s] = NoID]
        /\ complete' = [complete EXCEPT ![s] = FALSE] /\ pos' = [pos EXCEPT ![s] = 0]
    BY DEF Unsubscribe
  <1>2. DOMAIN held = Sub /\ DOMAIN asked = Sub /\ DOMAIN complete = Sub /\ DOMAIN pos = Sub
    BY DEF StreamInv, HubInv, HubTyped, StreamTyped
  <1>3. Stream(s)' = NoKey /\ \A r \in Sub \ {s} : Stream(r)' = Stream(r)
    BY <1>1, <1>2 DEF Stream
  <1>4. Readers' = [Readers EXCEPT ![s] = NoKey]
    BY <1>3 DEF Readers
  <1>5. Readers[s] # NoKey /\ Keys' = Keys
    BY <1>1, StreamIsOn DEF Readers, Keys
  <1> QED BY <1>4, <1>5 DEF Log!Detach, Readers, Keys

LEMMA StepIsLog == StreamInv /\ [Next]_vars => [Log!Next]_(Log!vars)
PROOF
  <1> SUFFICES ASSUME StreamInv, [Next]_vars PROVE [Log!Next]_(Log!vars)
    OBVIOUS
  <1>1. UNCHANGED <<log, held, asked, complete, pos>> => UNCHANGED Log!vars
    BY DEF Log!vars, Stream
  <1>2. CASE UNCHANGED vars \/ Close
    BY <1>1, <1>2 DEF Close, vars, hubVars, subVars
  <1>3. ASSUME NEW k \in Key, NEW v \in Version, Publish(k, v)
        PROVE  [Log!Next]_(Log!vars)
    <2>1. CASE ~closed
      BY <1>3, <2>1, PublishIsLog DEF Log!Next
    <2>2. CASE closed
      BY <1>1, <1>3, <2>2 DEF Publish, vars, hubVars, subVars
    <2> QED BY <2>1, <2>2
  <1>4. ASSUME NEW s \in Sub, NEW k \in Key, NEW last \in {NoID, BadID} \cup 0 .. eventID,
               Subscribe(s, k, last)
        PROVE  Log!Next
    BY <1>4, SubscribeIsLog
  <1>5. ASSUME NEW s \in Sub, Take(s) \/ Unsubscribe(s) PROVE Log!Next
    BY <1>5, TakeIsLog, UnsubscribeIsLog DEF Log!Next
  <1> QED BY <1>2, <1>3, <1>4, <1>5 DEF Next

\* The hub implements the log it promises: a subscriber told that it is complete
\* receives the events after the one it named, and every subscriber the next event
\* of its key, or nothing more.
THEOREM HubImplementsEventLog == Spec => ImplementsEventLog
PROOF
  BY InitIsLog, StepIsLog, StreamInvariance, PTL DEF Spec, ImplementsEventLog, Log!Spec

-----------------------------------------------------------------------------
(* What the steps of a hub do to the sets of events, whatever event its    *)
(* subscribers name: one of another hub too.                               *)

Published == {e \in Event : In(e, log)}

Unread(s) == {e \in Event : In(e, Rest(s))}

LEMMA PublishEffect ==
  ASSUME HubInv, StreamTyped, NEW k \in Key, NEW v \in Version, Publish(k, v), ~closed
  PROVE  \E e \in Event :
           /\ e.id = eventID + 1 /\ e.key = k /\ e.version = v /\ eventID' = eventID + 1
           /\ UNCHANGED <<closed, held, asked, complete>>
           /\ Published' = Published \cup {e}
           /\ \A s \in Sub :
                /\ Unread(s) \subseteq Unread(s)'
                /\ Unread(s)' \subseteq IF held[s] = k THEN Unread(s) \cup {e} ELSE Unread(s)
                /\ channel'[s].state = "open" =>
                     channel[s].state = "open" /\ (held[s] = k => e \in Unread(s)')
PROOF
  <1>1. PICK e \in Event :
          /\ e.id = eventID + 1 /\ e.key = k /\ e.version = v
          /\ log' = Append(log, e) /\ eventID' = eventID + 1
          /\ UNCHANGED <<held, pos, replay>>
          /\ \A s \in Sub :
               \/ s \in Group(k) /\ Full(s) /\ channel'[s].buffer = channel[s].buffer
               \/ s \in Group(k) /\ channel'[s].buffer = Append(channel[s].buffer, e)
               \/ s \notin Group(k) /\ channel'[s].buffer = channel[s].buffer
    BY PublishBuffers
  <1>2. UNCHANGED <<closed, held, asked, complete>>
    BY DEF Publish
  <1>3. Published' = Published \cup {e}
    <2>1. log \in Seq(Event)
      BY DEF HubInv, HubTyped
    <2>2. \A f : In(f, Append(log, e)) <=> In(f, log) \/ f = e
      BY <2>1, InAppend
    <2>3. \A f : In(f, log') <=> In(f, log) \/ f = e
      BY <1>1, <2>2, Zenon
    <2>4. Published' = {f \in Event : In(f, log')}
      BY DEF Published, In
    <2> QED BY <2>3, <2>4 DEF Published
  <1>4. ASSUME NEW s \in Sub
        PROVE  /\ Unread(s) \subseteq Unread(s)'
               /\ Unread(s)' \subseteq IF held[s] = k THEN Unread(s) \cup {e} ELSE Unread(s)
               /\ channel'[s].state = "open" =>
                     channel[s].state = "open" /\ (held[s] = k => e \in Unread(s)')
    <2>1. /\ replay[s] \in Seq(Event) /\ channel[s].buffer \in Seq(Event)
          /\ Rest(s) \in Seq(Event)
      BY RestAndOwedType DEF HubInv
    <2>2. channel'[s].state = IF s \in Group(k) /\ Full(s) THEN "closed" ELSE channel[s].state
      BY PublishChannels
    <2>3. /\ s \in Group(k) => channel[s].state = "open" /\ held[s] = k
          /\ channel[s].state = "open" => s \in Group(held[s])
      BY MembersAreOpen DEF HubInv, HubTyped
    <2>4. Unread(s)' = {f \in Event : In(f, Rest(s)')}
      BY DEF Unread, In, Rest
    <2>5. CASE channel'[s].buffer = channel[s].buffer /\ (s \in Group(k) => Full(s))
      <3>1. Rest(s)' = Rest(s)
        BY <1>1, <2>5, Zenon DEF Rest
      <3>2. Unread(s)' = Unread(s)
        BY <2>4, <3>1, Zenon DEF Unread
      <3> QED BY <2>2, <2>3, <2>5, <3>2
    <2>6. CASE s \in Group(k) /\ channel'[s].buffer = Append(channel[s].buffer, e)
      <3>1. Rest(s)' = Append(Rest(s), e)
        <4>1. \A a, b \in Seq(Event) : a \o Append(b, e) = Append(a \o b, e)
          BY RestProperties
        <4>2. replay[s] \o Append(channel[s].buffer, e) = Append(replay[s] \o channel[s].buffer, e)
          BY <2>1, <4>1, Zenon
        <4> QED BY <1>1, <2>6, <4>2, Zenon DEF Rest
      <3>2. \A f : In(f, Append(Rest(s), e)) <=> In(f, Rest(s)) \/ f = e
        BY <2>1, InAppend
      <3>3. \A f : In(f, Rest(s)') <=> In(f, Rest(s)) \/ f = e
        BY <3>1, <3>2, Zenon
      <3>4. Unread(s)' = Unread(s) \cup {e}
        BY <2>4, <3>3 DEF Unread
      <3> QED BY <2>2, <2>3, <2>6, <3>4
    <2>7. \/ channel'[s].buffer = channel[s].buffer /\ (s \in Group(k) => Full(s))
          \/ s \in Group(k) /\ channel'[s].buffer = Append(channel[s].buffer, e)
      BY <1>1
    <2> QED BY <2>5, <2>6, <2>7
  <1> QED BY <1>1, <1>2, <1>3, <1>4

\* The history holds no event that was not published.
LEMMA HistoryPublished ==
  ASSUME HubInv
  PROVE  \A e : In(e, history) => In(e, log)
PROOF
  <1>1. log \in Seq(Event) /\ Len(log) \in Nat /\ history = Newest(log)
    BY LenProperties DEF HubInv, HubTyped, HistoryWindow, Newest, Window
  <1>2. /\ IsSuffix(history, log) /\ Len(history) \in Nat
    BY <1>1, NewestIsSuffix, LenProperties
  <1> SUFFICES ASSUME NEW i \in 1 .. Len(history) PROVE In(history[i], log)
    BY DEF In
  <1>3. Len(log) - Len(history) + i \in 1 .. Len(log)
    BY <1>1, <1>2 DEF IsSuffix
  <1> QED BY <1>2, <1>3 DEF In, IsSuffix

LEMMA SubscribeEffect ==
  ASSUME HubInv, StreamTyped, NEW s \in Sub, NEW k \in Key, NEW last \in LastEventID,
         Subscribe(s, k, last)
  PROVE  /\ UNCHANGED <<closed, eventID>> /\ Published' = Published
         /\ held[s] = NoKey /\ held' = [held EXCEPT ![s] = k]
         /\ asked' = [asked EXCEPT ![s] = last]
         /\ \A r \in Sub \ {s} : /\ complete'[r] = complete[r]
                                 /\ channel'[r] = channel[r] /\ Unread(r)' = Unread(r)
         /\ channel'[s].state = "open" => ~closed
         /\ Unread(s)' \subseteq {e \in Published : e.key = k}
         /\ complete'[s] /\ last \in Nat =>
              Unread(s)' = {e \in Published : e.key = k /\ e.id > last}
PROOF
  <1>1. /\ UNCHANGED <<closed, eventID, log>>
        /\ held[s] = NoKey /\ held' = [held EXCEPT ![s] = k]
        /\ asked' = [asked EXCEPT ![s] = last]
        /\ complete' = [complete EXCEPT ![s] = ~closed /\ Complete(last)]
    BY DEF Subscribe
  <1>2. DOMAIN replay = Sub /\ DOMAIN channel = Sub /\ DOMAIN complete = Sub
    BY DEF HubInv, HubTyped, StreamTyped
  <1>3. Published' = Published
    BY <1>1 DEF Published, In
  <1>4. \A r \in Sub \ {s} : /\ complete'[r] = complete[r] /\ replay'[r] = replay[r]
                             /\ channel'[r] = channel[r]
    BY <1>1, <1>2 DEF Subscribe
  <1>5. \A r \in Sub \ {s} : Unread(r)' = Unread(r)
    BY <1>4, Zenon DEF Unread, In, Rest
  <1>6. /\ channel'[s].buffer = <<>>
        /\ channel'[s].state = IF closed THEN "closed" ELSE "open"
    BY <1>2 DEF Subscribe, ClosedChannel, OpenChannel
  <1>7. replay'[s] = IF closed \/ last = NoID \/ ~Complete(last) THEN <<>>
                     ELSE After(history, k, last)
    BY <1>2 DEF Subscribe, Replay
  <1>8. Unread(s)' = {e \in Event : In(e, replay'[s])}
    <2>1. replay'[s] \in Seq(Event)
      BY SubscribeTypes DEF StreamTyped
    <2>2. \A a \in Seq(Event) : a \o <<>> = a
      BY ConcatEmptySeq
    <2>3. Rest(s)' = replay'[s]
      BY <1>6, <2>1, <2>2 DEF Rest
    <2>4. Unread(s)' = {e \in Event : In(e, Rest(s)')}
      BY DEF Unread, In, Rest
    <2> QED BY <2>3, <2>4, Zenon
  <1>9. CASE closed \/ last = NoID \/ ~Complete(last)
    <2>1. \A e : ~In(e, <<>>)
      BY EmptySeq DEF In
    <2>2. Unread(s)' = {}
      BY <1>7, <1>8, <1>9, <2>1
    <2>3. ~(complete'[s] /\ last \in Nat)
      BY <1>1, <1>2, <1>9, HubAssumption
    <2> QED BY <1>1, <1>3, <1>4, <1>5, <1>6, <2>2, <2>3
  <1>10. CASE ~(closed \/ last = NoID \/ ~Complete(last))
    <2>1. last \in Nat /\ ~Evicted(last)
      BY <1>10 DEF Complete, LastEventID
    <2>2. After(history, k, last) = After(log, k, last)
      BY <2>1, ReplayIsOwed
    <2>3. log \in Seq(Event)
      BY DEF HubInv, HubTyped
    <2>4. \A e : In(e, After(log, k, last)) <=> In(e, log) /\ e.id > last /\ e.key = k
      BY <2>3, AfterElements
    <2>5. Unread(s)' = {e \in Event : In(e, log) /\ e.id > last /\ e.key = k}
      BY <1>7, <1>8, <1>10, <2>2, <2>4
    <2>6. Unread(s)' = {e \in Published : e.key = k /\ e.id > last}
      BY <2>5 DEF Published
    <2> QED BY <1>1, <1>3, <1>4, <1>5, <1>6, <2>6
  <1> QED BY <1>9, <1>10

LEMMA TakeEffect ==
  ASSUME HubInv, StreamTyped, NEW s \in Sub, Take(s)
  PROVE  /\ UNCHANGED <<closed, eventID, held, asked, complete>> /\ Published' = Published
         /\ \A r \in Sub : Unread(r)' \subseteq Unread(r) /\ channel'[r].state = channel[r].state
         /\ \A r \in Sub \ {s} : Unread(r)' = Unread(r)
         /\ (IF replay[s] # <<>> THEN Head(replay[s]) ELSE Head(channel[s].buffer)) \in Unread(s)
PROOF
  <1>1. UNCHANGED <<closed, eventID, held, asked, complete, log>>
    BY DEF Take, hubVars
  <1>2. Published' = Published
    BY <1>1 DEF Published, In
  <1>3. /\ DOMAIN replay = Sub /\ DOMAIN channel = Sub /\ channel[s] \in Channel
        /\ replay[s] \in Seq(Event) /\ channel[s].buffer \in Seq(Event) /\ Rest(s) \in Seq(Event)
    BY RestAndOwedType DEF HubInv, HubTyped, StreamTyped
  <1>4. \A r \in Sub \ {s} : replay'[r] = replay[r] /\ channel'[r] = channel[r]
    BY <1>3 DEF Take
  <1>5. \A r \in Sub \ {s} : Unread(r)' = Unread(r)
    BY <1>4, Zenon DEF Unread, In, Rest
  <1>6. /\ Rest(s) # <<>> /\ Rest(s)' = Tail(Rest(s)) /\ channel'[s].state = channel[s].state
        /\ Head(Rest(s)) = IF replay[s] # <<>> THEN Head(replay[s]) ELSE Head(channel[s].buffer)
    BY TakeRest
  <1>7. LET r == Rest(s) IN
        /\ In(Head(r), r) /\ Head(r) \in Event /\ \A e : In(e, Tail(r)) => In(e, r)
    <2> DEFINE r == Rest(s)
    <2>1. /\ r \in Seq(Event) /\ r # <<>> /\ Len(r) \in Nat \ {0}
      BY <1>3, <1>6, EmptySeq, LenProperties
    <2>2. Head(r) = r[1] /\ 1 \in 1 .. Len(r)
      BY <2>1
    <2>3. /\ Head(r) \in Event /\ Len(Tail(r)) = Len(r) - 1
          /\ \A i \in 1 .. Len(Tail(r)) : Tail(r)[i] = r[i + 1]
      BY <2>1, HeadTailProperties
    <2>4. \A i \in 1 .. Len(Tail(r)) : i + 1 \in 1 .. Len(r)
      BY <2>1, <2>3
    <2> HIDE DEF r
    <2>5. In(Head(r), r)
      BY <2>2 DEF In
    <2>6. ASSUME NEW e, In(e, Tail(r)) PROVE In(e, r)
      BY <2>3, <2>4, <2>6 DEF In
    <2> QED BY <2>3, <2>5, <2>6 DEF r
  <1>8. Unread(s)' \subseteq Unread(s) /\ Head(Rest(s)) \in Unread(s)
    <2>1. Unread(s)' = {e \in Event : In(e, Rest(s)')}
      BY DEF Unread, In, Rest
    <2>2. \A e : In(e, Rest(s)') => In(e, Rest(s))
      BY <1>6, <1>7
    <2> QED BY <1>7, <2>1, <2>2 DEF Unread
  <1> QED BY <1>1, <1>2, <1>4, <1>5, <1>6, <1>8

LEMMA UnsubscribeEffect ==
  ASSUME HubInv, StreamTyped, NEW s \in Sub, Unsubscribe(s)
  PROVE  /\ UNCHANGED <<closed, eventID>> /\ Published' = Published
         /\ held' = [held EXCEPT ![s] = NoKey]
         /\ \A r \in Sub \ {s} : /\ asked'[r] = asked[r] /\ complete'[r] = complete[r]
                                 /\ channel'[r] = channel[r] /\ Unread(r)' = Unread(r)
PROOF
  <1>1. UNCHANGED <<closed, eventID, log>> /\ held' = [held EXCEPT ![s] = NoKey]
    BY DEF Unsubscribe
  <1>2. \A r \in Sub \ {s} : /\ asked'[r] = asked[r] /\ complete'[r] = complete[r]
                             /\ channel'[r] = channel[r] /\ replay'[r] = replay[r]
    BY DEF Unsubscribe, HubInv, HubTyped, StreamTyped
  <1>3. \A r \in Sub \ {s} : Unread(r)' = Unread(r)
    BY <1>2, Zenon DEF Unread, In, Rest
  <1>4. Published' = Published
    BY <1>1 DEF Published, In
  <1> QED BY <1>1, <1>2, <1>3, <1>4

LEMMA CloseEffect ==
  ASSUME HubInv, Close
  PROVE  /\ closed' /\ UNCHANGED <<eventID, held, asked, complete>> /\ Published' = Published
         /\ \A s \in Sub : Unread(s)' = Unread(s) /\ channel'[s].state # "open"
PROOF
  <1>1. closed' /\ UNCHANGED <<eventID, log, held, asked, complete, replay>>
    BY DEF Close
  <1>2. \A s \in Sub : channel[s] \in Channel /\ (s \in Registered <=> channel[s].state = "open")
    BY DEF HubInv, HubTyped, RegisteredIffOpen
  <1>3. \A s \in Sub : channel'[s].buffer = channel[s].buffer /\ channel'[s].state # "open"
    BY <1>2 DEF Close, CloseAll, CloseChannel, Channel
  <1>4. \A s \in Sub : Unread(s)' = Unread(s)
    BY <1>1, <1>3, Zenon DEF Unread, In, Rest
  <1>5. Published' = Published
    BY <1>1 DEF Published, In
  <1> QED BY <1>1, <1>3, <1>4, <1>5
=============================================================================
