----------------------- MODULE EventSchedulersProofs ------------------------
(***************************************************************************)
(* Proofs about the schedulers, for every bound: the sorted list and the   *)
(* calendar implement the event list, and so does the heap as long as      *)
(* nothing is removed.                                                     *)
(***************************************************************************)
EXTENDS EventSchedulers, InductionFacts, SequenceTheorems, TLAPS

Events == [ts : Nat, uid : Nat]

-----------------------------------------------------------------------------
(***************************************************************************)
(* The order of events and the sorted list.                                *)
(***************************************************************************)

\* Events are in a strict total order.
LEMMA LessOrders ==
    ASSUME NEW a \in Events, NEW b \in Events, NEW c \in Events
    PROVE  /\ ~Less(a, a)
           /\ Less(a, b) /\ Less(b, c) => Less(a, c)
           /\ Less(a, b) => ~Less(b, a)
           /\ a = b \/ Less(a, b) \/ Less(b, a)
           /\ ~Less(a, b) /\ ~Less(b, c) => ~Less(a, c)
           /\ Less(a, b) /\ ~Less(c, b) => Less(a, c)
           /\ Less(a, b) => a.ts <= b.ts
<1>1. /\ a.ts \in Nat /\ a.uid \in Nat /\ b.ts \in Nat /\ b.uid \in Nat
      /\ c.ts \in Nat /\ c.uid \in Nat
  BY DEF Events
<1>2. a.ts = b.ts /\ a.uid = b.uid => a = b
  BY DEF Events
<1> QED BY <1>1, <1>2 DEF Less

\* A set of events that is not empty has an earliest one.
LEMMA EarliestExists ==
    ASSUME NEW T, T \subseteq Events, T # {}
    PROVE  \E e \in T : \A f \in T \ {e} : Less(e, f)
<1> DEFINE Times == {e.ts : e \in T}
<1>1. Times \subseteq Nat /\ Times # {}
  BY DEF Events
<1>2. PICK ts \in Times : \A x \in Times : ts <= x
  BY <1>1, LeastExists
<1> DEFINE U == {e \in T : e.ts = ts}
           Uids == {e.uid : e \in U}
<1>3. Uids \subseteq Nat /\ Uids # {}
  BY <1>2 DEF Events
<1>4. PICK u \in Uids : \A x \in Uids : u <= x
  BY <1>3, LeastExists
<1>5. PICK e \in U : e.uid = u
  BY <1>4
<1>6. ASSUME NEW f \in T \ {e} PROVE Less(e, f)
  <2>1. e \in Events /\ f \in Events /\ e.ts = ts
    BY <1>5
  <2>2. ts <= f.ts
    BY <1>2
  <2>3. f.ts = ts => u <= f.uid
    BY <1>4
  <2>4. f.ts # ts \/ f.uid # u
    BY <2>1, <1>5, <1>6 DEF Events
  <2> QED BY <2>1, <2>2, <2>3, <2>4, <1>5 DEF Less, Events
<1> QED BY <1>5, <1>6

\* The least of a set of natural numbers, as Min chooses it.
LEMMA MinIs ==
    ASSUME NEW T, T \subseteq Nat, T # {}
    PROVE  Min(T) \in T /\ \A x \in T : Min(T) <= x
BY LeastExists DEF Min

\* A sequence of events, each earlier than the ones behind it.
Sorted(s) ==
    s \in Seq(Events) /\ \A i, j \in 1 .. Len(s) : i < j => Less(s[i], s[j])

\* What is in a sequence, place by place.
LEMMA ToSetIs ==
    ASSUME NEW S, NEW s \in Seq(S), NEW e
    PROVE  /\ e \in ToSet(s) <=> \E i \in 1 .. Len(s) : s[i] = e
           /\ ToSet(s) \subseteq S
BY LenProperties DEF ToSet

\* An item put in at place i, and the item at place i taken out.
LEMMA InsertAtIs ==
    ASSUME NEW S, NEW s \in Seq(S), NEW i \in 1 .. Len(s) + 1, NEW e \in S
    PROVE  /\ InsertAt(s, i, e) \in Seq(S)
           /\ Len(InsertAt(s, i, e)) = Len(s) + 1
           /\ \A j \in 1 .. Len(s) + 1 :
                 InsertAt(s, i, e)[j] = IF j < i THEN s[j] ELSE IF j = i THEN e ELSE s[j - 1]
<1> DEFINE a == SubSeq(s, 1, i - 1)
           b == SubSeq(s, i, Len(s))
<1>0. Len(s) \in Nat /\ i \in Int /\ i - 1 \in Int /\ \A k \in 1 .. Len(s) : s[k] \in S
  BY LenProperties
<1>1. \A k \in 1 .. i - 1 : s[k] \in S
  BY <1>0
<1>2. a \in Seq(S) /\ Len(a) = i - 1 /\ \A k \in 1 .. i - 1 : a[k] = s[k]
  <2>1. /\ a \in Seq(S) /\ Len(a) = IF 1 <= i - 1 THEN i - 1 - 1 + 1 ELSE 0
        /\ \A k \in 1 .. i - 1 - 1 + 1 : a[k] = s[1 + k - 1]
    BY <1>0, <1>1, SubSeqProperties
  <2> HIDE DEF a
  <2> QED BY <1>0, <2>1
<1>3. \A k \in i .. Len(s) : s[k] \in S
  BY <1>0
<1>4. /\ b \in Seq(S) /\ Len(b) = Len(s) - i + 1
      /\ \A k \in 1 .. Len(s) - i + 1 : b[k] = s[i + k - 1]
  <2>1. /\ b \in Seq(S) /\ Len(b) = IF i <= Len(s) THEN Len(s) - i + 1 ELSE 0
        /\ \A k \in 1 .. Len(s) - i + 1 : b[k] = s[i + k - 1]
    BY <1>0, <1>3, SubSeqProperties
  <2> HIDE DEF b
  <2> QED BY <1>0, <2>1
<1>5. <<e>> \in Seq(S) /\ Len(<<e>>) = 1 /\ <<e>>[1] = e
  OBVIOUS
<1>6. InsertAt(s, i, e) = a \o <<e>> \o b
  BY DEF InsertAt
<1> HIDE DEF a, b
<1> DEFINE c == a \o <<e>>
<1>7. /\ c \in Seq(S) /\ Len(c) = i
      /\ \A k \in 1 .. i : c[k] = IF k < i THEN s[k] ELSE e
  <2>1. /\ c \in Seq(S) /\ Len(c) = Len(a) + Len(<<e>>)
        /\ \A k \in 1 .. Len(a) + Len(<<e>>) :
              c[k] = IF k <= Len(a) THEN a[k] ELSE <<e>>[k - Len(a)]
    BY <1>2, <1>5, ConcatProperties
  <2> HIDE DEF c
  <2> QED BY <1>0, <1>2, <1>5, <2>1
<1> HIDE DEF c
<1>8. /\ c \o b \in Seq(S) /\ Len(c \o b) = Len(c) + Len(b)
      /\ \A k \in 1 .. Len(c) + Len(b) :
            (c \o b)[k] = IF k <= Len(c) THEN c[k] ELSE b[k - Len(c)]
  BY <1>4, <1>7, ConcatProperties
<1>9. InsertAt(s, i, e) = c \o b
  BY <1>6 DEF c
<1> DEFINE d == c \o b
<1>10. /\ d \in Seq(S) /\ Len(d) = Len(s) + 1
       /\ \A k \in 1 .. Len(s) + 1 : d[k] = IF k <= i THEN c[k] ELSE b[k - i]
  BY <1>0, <1>4, <1>7, <1>8
<1> HIDE DEF d
<1>11. ASSUME NEW k \in 1 .. Len(s) + 1
       PROVE  d[k] = IF k < i THEN s[k] ELSE IF k = i THEN e ELSE s[k - 1]
  <2>1. CASE k <= i
    BY <2>1, <1>0, <1>7, <1>10
  <2>2. CASE k > i
    <3>1. k - i \in 1 .. Len(s) - i + 1 /\ i + (k - i) - 1 = k - 1
      BY <2>2, <1>0
    <3> QED BY <2>2, <3>1, <1>0, <1>4, <1>10
  <2> QED BY <1>0, <2>1, <2>2
<1> QED BY <1>9, <1>10, <1>11 DEF d

\* What is left of a sequence of which one item is taken out.
LEMMA RemoveAtIs ==
    ASSUME NEW S, NEW s \in Seq(S), NEW i \in 1 .. Len(s)
    PROVE  /\ RemoveAt(s, i) \in Seq(S)
           /\ Len(RemoveAt(s, i)) = Len(s) - 1
           /\ \A j \in 1 .. Len(s) - 1 : RemoveAt(s, i)[j] = IF j < i THEN s[j] ELSE s[j + 1]
<1> DEFINE a == SubSeq(s, 1, i - 1)
           b == SubSeq(s, i + 1, Len(s))
<1>0. Len(s) \in Nat /\ i + 1 \in Int /\ i - 1 \in Int /\ \A k \in 1 .. Len(s) : s[k] \in S
  BY LenProperties
<1>1. \A k \in 1 .. i - 1 : s[k] \in S
  BY <1>0
<1>2. a \in Seq(S) /\ Len(a) = i - 1 /\ \A k \in 1 .. i - 1 : a[k] = s[k]
  <2>1. /\ a \in Seq(S) /\ Len(a) = IF 1 <= i - 1 THEN i - 1 - 1 + 1 ELSE 0
        /\ \A k \in 1 .. i - 1 - 1 + 1 : a[k] = s[1 + k - 1]
    BY <1>0, <1>1, SubSeqProperties
  <2> HIDE DEF a
  <2> QED BY <1>0, <2>1
<1>3. \A k \in i + 1 .. Len(s) : s[k] \in S
  BY <1>0
<1>4. /\ b \in Seq(S) /\ Len(b) = Len(s) - i
      /\ \A k \in 1 .. Len(s) - i : b[k] = s[i + k]
  <2>1. /\ b \in Seq(S) /\ Len(b) = IF i + 1 <= Len(s) THEN Len(s) - (i + 1) + 1 ELSE 0
        /\ \A k \in 1 .. Len(s) - (i + 1) + 1 : b[k] = s[(i + 1) + k - 1]
    BY <1>0, <1>3, SubSeqProperties
  <2> HIDE DEF b
  <2> QED BY <1>0, <2>1
<1>5. RemoveAt(s, i) = a \o b
  BY DEF RemoveAt
<1> HIDE DEF a, b
<1>6. /\ a \o b \in Seq(S) /\ Len(a \o b) = Len(a) + Len(b)
      /\ \A k \in 1 .. Len(a) + Len(b) : (a \o b)[k] = IF k <= Len(a) THEN a[k] ELSE b[k - Len(a)]
  BY <1>2, <1>4, ConcatProperties
<1> DEFINE d == a \o b
<1>7. /\ d \in Seq(S) /\ Len(d) = Len(s) - 1
      /\ \A k \in 1 .. Len(s) - 1 : d[k] = IF k <= i - 1 THEN a[k] ELSE b[k - (i - 1)]
  BY <1>0, <1>2, <1>4, <1>6
<1> HIDE DEF d
<1>8. ASSUME NEW k \in 1 .. Len(s) - 1
      PROVE  d[k] = IF k < i THEN s[k] ELSE s[k + 1]
  <2>1. CASE k < i
    BY <2>1, <1>0, <1>2, <1>7
  <2>2. CASE k >= i
    <3>1. k - (i - 1) \in 1 .. Len(s) - i /\ i + (k - (i - 1)) = k + 1
      BY <2>2, <1>0
    <3> QED BY <2>2, <3>1, <1>0, <1>4, <1>7
  <2> QED BY <1>0, <2>1, <2>2
<1> QED BY <1>5, <1>7, <1>8 DEF d

\* A sequence has the type of the set of its items.
LEMMA SeqTypeIs ==
    ASSUME NEW S, NEW s \in Seq(S), NEW K, \A i \in 1 .. Len(s) : s[i] \in K
    PROVE  s \in Seq(K)
<1>1. Len(s) \in Nat /\ s = [i \in 1 .. Len(s) |-> s[i]]
  BY LenProperties
<1>2. [i \in 1 .. Len(s) |-> s[i]] \in Seq(K)
  BY <1>1
<1> QED BY <1>1, <1>2

\* InsertSorted puts a new event in its place.
LEMMA InsertSortedIs ==
    ASSUME NEW s, Sorted(s), NEW e \in Events, e \notin ToSet(s)
    PROVE  Sorted(InsertSorted(s, e)) /\ ToSet(InsertSorted(s, e)) = ToSet(s) \union {e}
<1> DEFINE t == InsertSorted(s, e)
           later == {i \in DOMAIN s : Less(e, s[i])}
<1>1. /\ s \in Seq(Events) /\ Len(s) \in Nat /\ DOMAIN s = 1 .. Len(s)
      /\ \A i \in 1 .. Len(s) : s[i] \in Events /\ s[i] # e
  BY LenProperties, ToSetIs DEF Sorted
<1>2. \E k \in 1 .. Len(s) + 1 :
         /\ t \in Seq(Events) /\ Len(t) = Len(s) + 1
         /\ \A j \in 1 .. Len(s) + 1 : t[j] = IF j < k THEN s[j] ELSE IF j = k THEN e ELSE s[j - 1]
         /\ \A j \in 1 .. Len(s) : (j < k => ~Less(e, s[j])) /\ (j = k => Less(e, s[j]))
  <2>1. CASE later = {}
    <3>1. t = Append(s, e)
      BY <2>1 DEF InsertSorted
    <3>2. /\ Append(s, e) \in Seq(Events) /\ Len(Append(s, e)) = Len(s) + 1
          /\ \A j \in 1 .. Len(s) : Append(s, e)[j] = s[j]
          /\ Append(s, e)[Len(s) + 1] = e
      BY <1>1, AppendProperties
    <3>3. \A j \in 1 .. Len(s) : ~Less(e, s[j])
      BY <2>1, <1>1
    <3> HIDE DEF t
    <3>4. \A j \in 1 .. Len(s) + 1 :
             t[j] = IF j < Len(s) + 1 THEN s[j] ELSE IF j = Len(s) + 1 THEN e ELSE s[j - 1]
      BY <1>1, <3>1, <3>2
    <3> QED BY <1>1, <3>1, <3>2, <3>3, <3>4
  <2>2. CASE later # {}
    <3> DEFINE k == Min(later)
    <3>1. later \subseteq Nat
      BY <1>1
    <3>2. k \in later /\ \A x \in later : k <= x
      BY <2>2, <3>1, MinIs
    <3>3. t = InsertAt(s, k, e)
      BY <2>2 DEF InsertSorted
    <3> HIDE DEF t, k
    <3>4. k \in 1 .. Len(s) /\ Less(e, s[k])
      BY <1>1, <3>2
    <3>5. ASSUME NEW j \in 1 .. Len(s), j < k PROVE ~Less(e, s[j])
      <4>1. j \notin later
        BY <1>1, <3>2, <3>4, <3>5
      <4> QED BY <4>1, <1>1
    <3> HIDE DEF later
    <3>6. k \in 1 .. Len(s) + 1
      BY <1>1, <3>4
    <3>7. /\ InsertAt(s, k, e) \in Seq(Events)
          /\ Len(InsertAt(s, k, e)) = Len(s) + 1
          /\ \A j \in 1 .. Len(s) + 1 :
                InsertAt(s, k, e)[j] = IF j < k THEN s[j] ELSE IF j = k THEN e ELSE s[j - 1]
      <4>1. s \in Seq(Events) /\ e \in Events
        BY <1>1
      <4> QED BY <3>6, <4>1, InsertAtIs
    <3> QED BY <3>3, <3>4, <3>5, <3>6, <3>7
  <2> QED BY <2>1, <2>2
<1> HIDE DEF t
<1>3. PICK k \in 1 .. Len(s) + 1 :
         /\ t \in Seq(Events) /\ Len(t) = Len(s) + 1
         /\ \A j \in 1 .. Len(s) + 1 : t[j] = IF j < k THEN s[j] ELSE IF j = k THEN e ELSE s[j - 1]
         /\ \A j \in 1 .. Len(s) : (j < k => ~Less(e, s[j])) /\ (j = k => Less(e, s[j]))
  BY <1>2
<1>4. ASSUME NEW j \in 1 .. Len(s), j < k PROVE Less(s[j], e)
  BY <1>1, <1>3, <1>4, LessOrders
<1>5. ASSUME NEW j \in 1 .. Len(s), j >= k PROVE Less(e, s[j])
  <2>1. k \in 1 .. Len(s) /\ Less(e, s[k])
    BY <1>1, <1>3, <1>5
  <2>2. k < j => Less(s[k], s[j])
    BY <2>1 DEF Sorted
  <2>3. s[k] \in Events /\ s[j] \in Events
    BY <1>1, <2>1
  <2> QED BY <1>5, <2>1, <2>2, <2>3, LessOrders
<1>6. ASSUME NEW i \in 1 .. Len(t), NEW j \in 1 .. Len(t), i < j
      PROVE  Less(t[i], t[j])
  <2>0. i \in 1 .. Len(s) + 1 /\ j \in 1 .. Len(s) + 1
    BY <1>3
  <2>1. CASE j < k
    <3>1. t[i] = s[i] /\ t[j] = s[j] /\ i \in 1 .. Len(s) /\ j \in 1 .. Len(s)
      BY <1>1, <1>3, <1>6, <2>0, <2>1
    <3> QED BY <1>6, <3>1 DEF Sorted
  <2>2. CASE j = k
    <3>1. t[i] = s[i] /\ t[j] = e /\ i \in 1 .. Len(s)
      BY <1>1, <1>3, <1>6, <2>0, <2>2
    <3> QED BY <1>4, <1>6, <2>2, <3>1
  <2>3. CASE j > k
    <3>1. t[j] = s[j - 1] /\ j - 1 \in 1 .. Len(s)
      BY <1>1, <1>3, <2>0, <2>3
    <3>2. CASE i < k
      <4>1. t[i] = s[i] /\ i \in 1 .. Len(s) /\ i < j - 1
        BY <1>1, <1>3, <2>0, <2>3, <3>2
      <4> QED BY <3>1, <4>1 DEF Sorted
    <3>3. CASE i = k
      <4>1. t[i] = e /\ j - 1 >= k
        BY <1>1, <1>3, <2>0, <2>3, <3>3
      <4> QED BY <1>5, <3>1, <4>1
    <3>4. CASE i > k
      <4>1. t[i] = s[i - 1] /\ i - 1 \in 1 .. Len(s) /\ i - 1 < j - 1
        BY <1>1, <1>3, <1>6, <2>0, <3>4
      <4> QED BY <3>1, <4>1 DEF Sorted
    <3> QED BY <2>0, <3>2, <3>3, <3>4
  <2> QED BY <2>0, <2>1, <2>2, <2>3
<1>7. ToSet(t) = ToSet(s) \union {e}
  <2>1. ASSUME NEW x PROVE x \in ToSet(t) <=> x \in ToSet(s) \/ x = e
    <3>1. x \in ToSet(t) <=> \E i \in 1 .. Len(t) : t[i] = x
      BY <1>3, ToSetIs
    <3>2. x \in ToSet(s) <=> \E i \in 1 .. Len(s) : s[i] = x
      BY <1>1, ToSetIs
    <3>3. ASSUME NEW i \in 1 .. Len(t) PROVE t[i] = e \/ \E j \in 1 .. Len(s) : t[i] = s[j]
      <4>1. CASE i < k
        BY <4>1, <1>1, <1>3
      <4>2. CASE i > k
        <5>1. i - 1 \in 1 .. Len(s) /\ t[i] = s[i - 1]
          BY <4>2, <1>1, <1>3
        <5> QED BY <5>1
      <4> QED BY <1>3, <4>1, <4>2
    <3>4. ASSUME NEW j \in 1 .. Len(s) PROVE \E i \in 1 .. Len(t) : t[i] = s[j]
      <4>1. CASE j < k
        <5>1. j \in 1 .. Len(t) /\ t[j] = s[j]
          BY <4>1, <1>1, <1>3
        <5> QED BY <5>1
      <4>2. CASE j >= k
        <5>1. j + 1 \in 1 .. Len(t) /\ t[j + 1] = s[j]
          BY <4>2, <1>1, <1>3
        <5> QED BY <5>1
      <4> QED BY <1>1, <4>1, <4>2
    <3>5. k \in 1 .. Len(t) /\ t[k] = e
      BY <1>1, <1>3
    <3> QED BY <3>1, <3>2, <3>3, <3>4, <3>5
  <2> QED BY <2>1
<1> QED BY <1>3, <1>6, <1>7 DEF Sorted, t

\* The head of a sorted list is its earliest event, and the rest is what is left.
LEMMA HeadIs ==
    ASSUME NEW s, Sorted(s), s # <<>>
    PROVE  /\ Head(s) \in ToSet(s) /\ Head(s) \in Events
           /\ \A f \in ToSet(s) \ {Head(s)} : Less(Head(s), f)
           /\ Sorted(Tail(s)) /\ ToSet(Tail(s)) = ToSet(s) \ {Head(s)}
<1>1. /\ s \in Seq(Events) /\ Len(s) \in Nat \ {0} /\ Head(s) = s[1]
      /\ \A i \in 1 .. Len(s) : s[i] \in Events
      /\ Tail(s) \in Seq(Events) /\ Len(Tail(s)) = Len(s) - 1
      /\ \A i \in 1 .. Len(s) - 1 : Tail(s)[i] = s[i + 1]
  <2>1. s \in Seq(Events) /\ Head(s) = s[1]
    BY DEF Sorted
  <2>2. Len(s) \in Nat \ {0} /\ \A i \in 1 .. Len(s) : s[i] \in Events
    BY <2>1, EmptySeq, LenProperties
  <2>3. /\ Tail(s) \in Seq(Events) /\ Len(Tail(s)) = Len(s) - 1
        /\ \A i \in 1 .. Len(Tail(s)) : Tail(s)[i] = s[i + 1]
    BY <2>1, HeadTailProperties
  <2> QED BY <2>1, <2>2, <2>3
<1> DEFINE t == Tail(s)
           h == Head(s)
<1> HIDE DEF t, h
<1>2. /\ t \in Seq(Events) /\ Len(t) = Len(s) - 1
      /\ \A i \in 1 .. Len(s) - 1 : t[i] = s[i + 1]
      /\ h = s[1] /\ h \in Events
  BY <1>1 DEF t, h
<1>3. ASSUME NEW i \in 2 .. Len(s) PROVE Less(h, s[i]) /\ s[i] # h
  <2>1. Less(s[1], s[i]) /\ s[i] \in Events
    BY <1>1 DEF Sorted
  <2> QED BY <1>2, <2>1, LessOrders
<1>4. h \in ToSet(s) /\ \A f \in ToSet(s) \ {h} : Less(h, f)
  <2>1. h \in ToSet(s)
    BY <1>1, <1>2, ToSetIs
  <2>2. ASSUME NEW f \in ToSet(s) \ {h} PROVE Less(h, f)
    <3>1. PICK i \in 1 .. Len(s) : s[i] = f
      BY <1>1, ToSetIs
    <3>2. i \in 2 .. Len(s)
      BY <1>1, <1>2, <2>2, <3>1
    <3> QED BY <1>3, <3>1, <3>2
  <2> QED BY <2>1, <2>2
<1>5. ASSUME NEW i \in 1 .. Len(t), NEW j \in 1 .. Len(t), i < j PROVE Less(t[i], t[j])
  <2>1. /\ i + 1 \in 1 .. Len(s) /\ j + 1 \in 1 .. Len(s) /\ i + 1 < j + 1
        /\ t[i] = s[i + 1] /\ t[j] = s[j + 1]
    BY <1>1, <1>2, <1>5
  <2> QED BY <2>1 DEF Sorted
<1>6. ToSet(t) = ToSet(s) \ {h}
  <2>1. ASSUME NEW x PROVE x \in ToSet(t) <=> x \in ToSet(s) /\ x # h
    <3>1. x \in ToSet(t) <=> \E i \in 1 .. Len(t) : t[i] = x
      BY <1>2, ToSetIs
    <3>2. x \in ToSet(s) <=> \E i \in 1 .. Len(s) : s[i] = x
      BY <1>1, ToSetIs
    <3>3. ASSUME NEW i \in 1 .. Len(t) PROVE i + 1 \in 2 .. Len(s) /\ t[i] = s[i + 1]
      BY <1>1, <1>2
    <3>4. ASSUME NEW j \in 1 .. Len(s), j # 1 PROVE j - 1 \in 1 .. Len(t) /\ t[j - 1] = s[j]
      BY <1>1, <1>2, <3>4
    <3>5. x \in ToSet(t) => x \in ToSet(s) /\ x # h
      <4>1. ASSUME NEW i \in 1 .. Len(t), t[i] = x PROVE x \in ToSet(s) /\ x # h
        BY <3>2, <3>3, <4>1, <1>1, <1>3
      <4> QED BY <3>1, <4>1
    <3>6. x \in ToSet(s) /\ x # h => x \in ToSet(t)
      BY <1>2, <3>1, <3>2, <3>4
    <3> QED BY <3>5, <3>6
  <2> QED BY <2>1
<1>7. Sorted(t)
  BY <1>2, <1>5 DEF Sorted
<1> QED BY <1>2, <1>4, <1>6, <1>7 DEF t, h

\* Erase takes out the event with that uid, if no other has it.
LEMMA EraseIs ==
    ASSUME NEW s, Sorted(s), NEW e \in ToSet(s), \A f \in ToSet(s) : f.uid = e.uid => f = e
    PROVE  Sorted(Erase(s, e)) /\ ToSet(Erase(s, e)) = ToSet(s) \ {e}
<1> DEFINE t == Erase(s, e)
           same == {i \in DOMAIN s : s[i].uid = e.uid}
           k == Min(same)
<1>1. /\ s \in Seq(Events) /\ Len(s) \in Nat /\ DOMAIN s = 1 .. Len(s)
      /\ \A i \in 1 .. Len(s) : s[i] \in Events
  BY LenProperties DEF Sorted
<1>2. PICK i0 \in 1 .. Len(s) : s[i0] = e
  BY <1>1, ToSetIs
<1>3. same \subseteq Nat /\ same # {}
  BY <1>1, <1>2
<1>4. k \in same
  BY <1>3, MinIs
<1>5. t = RemoveAt(s, k)
  BY <1>3 DEF Erase
<1>6. k \in 1 .. Len(s) /\ s[k] = e
  <2>1. k \in 1 .. Len(s) /\ s[k].uid = e.uid
    BY <1>1, <1>4
  <2>2. s[k] \in ToSet(s)
    BY <1>1, <2>1, ToSetIs
  <2> QED BY <2>1, <2>2
<1> HIDE DEF t, k
<1>7. /\ t \in Seq(Events) /\ Len(t) = Len(s) - 1
      /\ \A j \in 1 .. Len(s) - 1 : t[j] = IF j < k THEN s[j] ELSE s[j + 1]
  BY <1>1, <1>5, <1>6, RemoveAtIs
<1> DEFINE at(j) == IF j < k THEN j ELSE j + 1
<1>8. ASSUME NEW j \in 1 .. Len(t) PROVE at(j) \in 1 .. Len(s) /\ at(j) # k /\ t[j] = s[at(j)]
  <2>1. CASE j < k
    BY <2>1, <1>1, <1>6, <1>7
  <2>2. CASE j >= k
    BY <2>2, <1>1, <1>6, <1>7
  <2> QED BY <1>6, <2>1, <2>2
<1>9. ASSUME NEW i \in 1 .. Len(t), NEW j \in 1 .. Len(t), i < j PROVE Less(t[i], t[j])
  <2>1. at(i) < at(j)
    BY <1>1, <1>6, <1>7, <1>9
  <2> HIDE DEF at
  <2>2. Less(s[at(i)], s[at(j)])
    BY <1>8, <2>1 DEF Sorted
  <2> QED BY <1>8, <2>2
<1>10. ASSUME NEW i \in 1 .. Len(s), i # k PROVE s[i] # e
  <2>1. CASE i < k
    BY <2>1, <1>1, <1>6, LessOrders DEF Sorted
  <2>2. CASE i > k
    BY <2>2, <1>1, <1>6, LessOrders DEF Sorted
  <2> QED BY <1>6, <1>10, <2>1, <2>2
<1>11. ASSUME NEW i \in 1 .. Len(s), i # k PROVE \E j \in 1 .. Len(t) : t[j] = s[i]
  <2>1. CASE i < k
    <3>1. i \in 1 .. Len(t) /\ t[i] = s[i]
      BY <2>1, <1>1, <1>6, <1>7
    <3> QED BY <3>1
  <2>2. CASE i > k
    <3>1. i - 1 \in 1 .. Len(t) /\ t[i - 1] = s[i]
      BY <2>2, <1>1, <1>6, <1>7
    <3> QED BY <3>1
  <2> QED BY <1>6, <1>11, <2>1, <2>2
<1> HIDE DEF at
<1>12. ToSet(t) = ToSet(s) \ {e}
  <2>1. ASSUME NEW x PROVE x \in ToSet(t) <=> x \in ToSet(s) /\ x # e
    <3>1. x \in ToSet(t) <=> \E i \in 1 .. Len(t) : t[i] = x
      BY <1>7, ToSetIs
    <3>2. x \in ToSet(s) <=> \E i \in 1 .. Len(s) : s[i] = x
      BY <1>1, ToSetIs
    <3>3. ASSUME NEW i \in 1 .. Len(t), t[i] = x PROVE x \in ToSet(s) /\ x # e
      BY <3>2, <3>3, <1>8, <1>10
    <3>4. ASSUME NEW i \in 1 .. Len(s), s[i] = x, x # e PROVE x \in ToSet(t)
      BY <3>1, <3>4, <1>6, <1>11
    <3> QED BY <3>1, <3>2, <3>3, <3>4
  <2> QED BY <2>1
<1> QED BY <1>7, <1>9, <1>12 DEF Sorted, t

-----------------------------------------------------------------------------
(***************************************************************************)
(* Division.                                                               *)
(***************************************************************************)

\* Multiplication by a natural number keeps the order, and gives it back.
LEMMA TimesOrder ==
    ASSUME NEW x \in Nat, NEW y \in Nat, NEW w \in Nat \ {0}
    PROVE  /\ x * w \in Nat
           /\ x <= y => x * w <= y * w
           /\ x < y => x * w + w <= y * w
<1>1. x * w \in Nat /\ y * w \in Nat
  OBVIOUS
<1>2. ASSUME x <= y PROVE x * w <= y * w
  <2>1. y - x \in Nat /\ (y - x) * w \in Nat
    BY <1>2
  <2>2. y * w = x * w + (y - x) * w
    OBVIOUS
  <2> QED BY <1>1, <2>1, <2>2
<1>3. ASSUME x < y PROVE x * w + w <= y * w
  <2>1. y - x - 1 \in Nat /\ (y - x - 1) * w \in Nat
    BY <1>3
  <2>2. y * w = x * w + w + (y - x - 1) * w
    OBVIOUS
  <2> QED BY <1>1, <2>1, <2>2
<1> QED BY <1>1, <1>2, <1>3

\* The quotient, as the number of whole parts.
LEMMA QuotientIs ==
    ASSUME NEW a \in Nat, NEW w \in Nat \ {0}
    PROVE  /\ a \div w \in Nat /\ (a \div w) * w \in Nat
           /\ (a \div w) * w <= a /\ a < (a \div w) * w + w
OBVIOUS

\* A number lies below the end of a part if its quotient does.
LEMMA QuotientAtMost ==
    ASSUME NEW a \in Nat, NEW w \in Nat \ {0}, NEW d \in Nat
    PROVE  a < (d + 1) * w <=> a \div w <= d
<1> DEFINE q == a \div w
<1>1. q \in Nat /\ q * w \in Nat /\ q * w <= a /\ a < q * w + w
  BY QuotientIs
<1> HIDE DEF q
<1>2. d + 1 \in Nat /\ (d + 1) * w \in Nat
  OBVIOUS
<1>3. ASSUME q <= d PROVE a < (d + 1) * w
  <2>1. q * w + w <= (d + 1) * w
    BY <1>1, <1>2, <1>3, TimesOrder
  <2> QED BY <1>1, <1>2, <2>1
<1>4. ASSUME d < q PROVE ~(a < (d + 1) * w)
  <2>1. (d + 1) * w <= q * w
    BY <1>1, <1>2, <1>4, TimesOrder
  <2> QED BY <1>1, <1>2, <2>1
<1>5. a < (d + 1) * w <=> q <= d
  BY <1>1, <1>3, <1>4
<1> QED BY <1>5 DEF q

\* Division keeps the order.
LEMMA QuotientOrder ==
    ASSUME NEW a \in Nat, NEW b \in Nat, a <= b, NEW w \in Nat \ {0}
    PROVE  a \div w <= b \div w
<1> DEFINE q == b \div w
<1>1. q \in Nat /\ b < (q + 1) * w
  <2>1. q \in Nat /\ q <= q
    BY QuotientIs
  <2> QED BY <2>1, QuotientAtMost
<1> HIDE DEF q
<1>2. (q + 1) * w \in Nat
  BY <1>1
<1>3. a < (q + 1) * w
  BY <1>1, <1>2
<1>4. a \div w <= q
  BY <1>1, <1>3, QuotientAtMost
<1> QED BY <1>4 DEF q

\* The remainder.
LEMMA RestIs ==
    ASSUME NEW x \in Nat, NEW n \in Nat \ {0}
    PROVE  x % n \in 0 .. n - 1 /\ x = (x \div n) * n + (x % n)
OBVIOUS

\* Of as many numbers in a row as the divisor, no two have one remainder.
LEMMA RestUnique ==
    ASSUME NEW x \in Nat, NEW y \in Nat, NEW n \in Nat \ {0}, x % n = y % n,
           x <= y, y < x + n
    PROVE  x = y
<1> DEFINE p == x \div n
           q == y \div n
           r == x % n
<1>1. p \in Nat /\ q \in Nat /\ r \in 0 .. n - 1 /\ x = p * n + r /\ y = q * n + r
  BY QuotientIs, RestIs
<1> HIDE DEF p, q, r
<1>2. p * n \in Nat /\ q * n \in Nat
  BY <1>1
<1>3. ~(p < q)
  BY <1>1, <1>2, TimesOrder
<1>4. ~(q < p)
  BY <1>1, <1>2, TimesOrder
<1>5. p = q
  BY <1>1, <1>3, <1>4
<1> QED BY <1>1, <1>5

\* Going on from the remainder is going on from the number.
LEMMA RestShift ==
    ASSUME NEW x \in Nat, NEW k \in Nat, NEW n \in Nat \ {0}
    PROVE  ((x % n) + k) % n = (x + k) % n
<1> DEFINE a == (x % n) + k
           b == x + k
           p == x \div n
           q == a \div n
           s == b \div n
           r == a % n
           t == b % n
<1>1. p \in Nat /\ x % n \in Nat /\ x = p * n + (x % n)
  BY QuotientIs, RestIs
<1>2. a \in Nat /\ b \in Nat
  BY <1>1
<1> HIDE DEF a, b
<1>3. /\ q \in Nat /\ s \in Nat /\ r \in 0 .. n - 1 /\ t \in 0 .. n - 1
      /\ a = q * n + r /\ b = s * n + t
  BY <1>2, QuotientIs, RestIs
<1>4. b = p * n + a
  BY <1>1 DEF a, b
<1> HIDE DEF p, q, s, r, t
<1>5. /\ p * n \in Nat /\ q * n \in Nat /\ s * n \in Nat
      /\ (p + q) * n = p * n + q * n /\ p + q \in Nat
  BY <1>1, <1>3
<1>6. (p + q) * n + r = s * n + t
  BY <1>2, <1>3, <1>4, <1>5
<1>7. ~(p + q < s)
  BY <1>3, <1>5, <1>6, TimesOrder
<1>8. ~(s < p + q)
  BY <1>3, <1>5, <1>6, TimesOrder
<1>9. p + q = s
  BY <1>3, <1>5, <1>7, <1>8
<1>10. r = t
  BY <1>3, <1>5, <1>6, <1>9
<1> QED BY <1>10 DEF a, b, r, t

-----------------------------------------------------------------------------
(***************************************************************************)
(* The calendar.                                                           *)
(***************************************************************************)
Buckets == UNION {[0 .. k - 1 -> Seq(Events)] : k \in Nat}

Calendars ==
    [buckets : Buckets, nBuckets : Nat, width : Nat, lastPrio : Nat, lastBucket : Nat,
     bucketTop : Nat, qSize : Nat]

\* One bucket is given another list.
LEMMA BucketsIs ==
    ASSUME NEW b \in Buckets, NEW h \in DOMAIN b, NEW s \in Seq(Events)
    PROVE  /\ [b EXCEPT ![h] = s] \in Buckets /\ DOMAIN [b EXCEPT ![h] = s] = DOMAIN b
           /\ [b EXCEPT ![h] = s][h] = s
           /\ \A i \in DOMAIN b : i # h => [b EXCEPT ![h] = s][i] = b[i]
<1>1. PICK k \in Nat : b \in [0 .. k - 1 -> Seq(Events)]
  BY DEF Buckets
<1>2. [b EXCEPT ![h] = s] \in [0 .. k - 1 -> Seq(Events)]
  BY <1>1
<1> QED BY <1>1, <1>2 DEF Buckets

\* Every event is in the bucket of its time, and the buckets are sorted.
Bucketed(c) ==
    /\ c \in Calendars
    /\ c.nBuckets \in Nat \ {0} /\ c.width \in Nat \ {0}
    /\ DOMAIN c.buckets = 0 .. c.nBuckets - 1
    /\ \A i \in 0 .. c.nBuckets - 1 :
         /\ Sorted(c.buckets[i])
         /\ \A e \in ToSet(c.buckets[i]) : Hash(c, e.ts) = i

\* The search starts at the bucket of the last event, in its year, and nothing
\* is earlier.
Begins(c) ==
    /\ c.lastPrio \in Nat
    /\ c.lastBucket = Hash(c, c.lastPrio)
    /\ c.bucketTop = (c.lastPrio \div c.width + 1) * c.width
    /\ \A e \in Stored(c) : e.ts >= c.lastPrio

Day(c, e) == e.ts \div c.width

\* What is stored, bucket by bucket.
LEMMA StoredIs ==
    ASSUME NEW c, Bucketed(c), NEW e
    PROVE  /\ e \in Stored(c) <=> \E i \in 0 .. c.nBuckets - 1 : e \in ToSet(c.buckets[i])
           /\ e \in Stored(c) => /\ e \in Events
                                 /\ Hash(c, e.ts) \in 0 .. c.nBuckets - 1
                                 /\ e \in ToSet(c.buckets[Hash(c, e.ts)])
<1>1. e \in Stored(c) <=> \E i \in 0 .. c.nBuckets - 1 : e \in ToSet(c.buckets[i])
  BY DEF Stored, Bucketed
<1>2. ASSUME NEW i \in 0 .. c.nBuckets - 1, e \in ToSet(c.buckets[i])
      PROVE  e \in Events /\ Hash(c, e.ts) = i
  <2>1. Sorted(c.buckets[i]) /\ Hash(c, e.ts) = i
    BY <1>2 DEF Bucketed
  <2> QED BY <1>2, <2>1, ToSetIs DEF Sorted
<1> QED BY <1>1, <1>2

\* Hash finds a bucket for every time.
LEMMA HashIs ==
    ASSUME NEW c, Bucketed(c), NEW ts \in Nat
    PROVE  Hash(c, ts) \in 0 .. c.nBuckets - 1
<1>1. c.nBuckets \in Nat \ {0} /\ c.width \in Nat \ {0}
  BY DEF Bucketed
<1>2. ts \div c.width \in Nat
  BY <1>1, QuotientIs
<1> QED BY <1>1, <1>2, RestIs DEF Hash

\* d is c with the list s in bucket h, wherever its search begins.
Changes(c, d, h, s) ==
    /\ d \in Calendars /\ DOMAIN d.buckets = DOMAIN c.buckets
    /\ d.nBuckets = c.nBuckets /\ d.width = c.width
    /\ d.buckets[h] = s
    /\ \A i \in DOMAIN c.buckets : i # h => d.buckets[i] = c.buckets[i]

\* A change of one bucket, by which one event comes or goes.
LEMMA OneBucket ==
    ASSUME NEW c, Bucketed(c), NEW h \in 0 .. c.nBuckets - 1, NEW s, Sorted(s),
           \A e \in ToSet(s) : Hash(c, e.ts) = h,
           NEW d, Changes(c, d, h, s), NEW x, Hash(c, x.ts) = h
    PROVE  /\ Bucketed(d)
           /\ ToSet(s) = ToSet(c.buckets[h]) \union {x} => Stored(d) = Stored(c) \union {x}
           /\ ToSet(s) = ToSet(c.buckets[h]) \ {x} => Stored(d) = Stored(c) \ {x}
<1>1. /\ d \in Calendars /\ DOMAIN d.buckets = 0 .. c.nBuckets - 1
      /\ d.nBuckets = c.nBuckets /\ d.width = c.width /\ d.buckets[h] = s
      /\ \A i \in 0 .. c.nBuckets - 1 : i # h => d.buckets[i] = c.buckets[i]
  BY DEF Changes, Bucketed
<1>2. \A ts : Hash(d, ts) = Hash(c, ts)
  BY <1>1 DEF Hash
<1>3. Bucketed(d)
  <2>1. ASSUME NEW i \in 0 .. d.nBuckets - 1
        PROVE  Sorted(d.buckets[i]) /\ \A e \in ToSet(d.buckets[i]) : Hash(d, e.ts) = i
    <3>1. CASE i = h
      BY <3>1, <1>1, <1>2
    <3>2. CASE i # h
      <4>1. d.buckets[i] = c.buckets[i] /\ i \in 0 .. c.nBuckets - 1
        BY <3>2, <1>1
      <4> QED BY <4>1, <1>2 DEF Bucketed
    <3> QED BY <3>1, <3>2
  <2> QED BY <1>1, <2>1 DEF Bucketed
<1>4. ASSUME NEW e PROVE e \in Stored(d) <=> \/ e \in ToSet(s)
                                             \/ e \in Stored(c) /\ Hash(c, e.ts) # h
  <2>1. e \in Stored(d) <=> \E i \in 0 .. c.nBuckets - 1 : e \in ToSet(d.buckets[i])
    BY <1>1, <1>3, StoredIs
  <2>2. ASSUME NEW i \in 0 .. c.nBuckets - 1, i # h, e \in ToSet(d.buckets[i])
        PROVE  e \in Stored(c) /\ Hash(c, e.ts) # h
    <3>1. e \in ToSet(c.buckets[i])
      BY <2>2, <1>1
    <3>2. Hash(c, e.ts) = i
      BY <3>1 DEF Bucketed
    <3> QED BY <2>2, <3>1, <3>2, StoredIs
  <2>3. ASSUME e \in Stored(c), Hash(c, e.ts) # h
        PROVE  \E i \in 0 .. c.nBuckets - 1 : e \in ToSet(d.buckets[i])
    <3>1. Hash(c, e.ts) \in 0 .. c.nBuckets - 1 /\ e \in ToSet(c.buckets[Hash(c, e.ts)])
      BY <2>3, StoredIs
    <3> QED BY <2>3, <3>1, <1>1
  <2> QED BY <1>1, <2>1, <2>2, <2>3
<1>5. ASSUME NEW e PROVE e \in Stored(c) /\ Hash(c, e.ts) = h <=> e \in ToSet(c.buckets[h])
  <2>1. e \in ToSet(c.buckets[h]) => Hash(c, e.ts) = h
    BY DEF Bucketed
  <2> QED BY <2>1, StoredIs
<1>6. ASSUME ToSet(s) = ToSet(c.buckets[h]) \union {x}
      PROVE  Stored(d) = Stored(c) \union {x}
  <2>1. ASSUME NEW e PROVE e \in Stored(d) <=> e \in Stored(c) \/ e = x
    BY <1>4, <1>5, <1>6
  <2> QED BY <2>1
<1>7. ASSUME ToSet(s) = ToSet(c.buckets[h]) \ {x}
      PROVE  Stored(d) = Stored(c) \ {x}
  <2>1. ASSUME NEW e PROVE e \in Stored(d) <=> e \in Stored(c) /\ e # x
    BY <1>4, <1>5, <1>7
  <2> QED BY <2>1
<1> QED BY <1>3, <1>6, <1>7

\* What DoInsert leaves as it was.
SamePlace(c, d) ==
    /\ d.lastPrio = c.lastPrio /\ d.lastBucket = c.lastBucket
    /\ d.bucketTop = c.bucketTop /\ d.qSize = c.qSize
    /\ d.nBuckets = c.nBuckets /\ d.width = c.width

\* DoInsert stores an event that is not earlier than the last one.
LEMMA DoInsertIs ==
    ASSUME NEW c, Bucketed(c), Begins(c), NEW e \in Events, e \notin Stored(c),
           e.ts >= c.lastPrio
    PROVE  /\ Bucketed(DoInsert(c, e)) /\ Begins(DoInsert(c, e))
           /\ Stored(DoInsert(c, e)) = Stored(c) \union {e}
           /\ SamePlace(c, DoInsert(c, e))
<1> DEFINE d == DoInsert(c, e)
           h == Hash(c, e.ts)
           s == InsertSorted(c.buckets[h], e)
<1>1. /\ h \in 0 .. c.nBuckets - 1 /\ c \in Calendars /\ c.buckets \in Buckets
      /\ DOMAIN c.buckets = 0 .. c.nBuckets - 1
  BY HashIs DEF Bucketed, Events, Calendars
<1>2. Sorted(c.buckets[h]) /\ \A f \in ToSet(c.buckets[h]) : Hash(c, f.ts) = h
  BY <1>1 DEF Bucketed
<1>3. e \notin ToSet(c.buckets[h])
  BY <1>1, StoredIs
<1>4. Sorted(s) /\ ToSet(s) = ToSet(c.buckets[h]) \union {e}
  BY <1>2, <1>3, InsertSortedIs
<1>5. Changes(c, d, h, s) /\ SamePlace(c, d)
  <2> DEFINE b == [c.buckets EXCEPT ![h] = s]
  <2>1. d = [c EXCEPT !.buckets = b]
    BY DEF DoInsert
  <2>2. s \in Seq(Events)
    BY <1>4 DEF Sorted
  <2> HIDE DEF d, s, h
  <2>3. /\ b \in Buckets /\ DOMAIN b = DOMAIN c.buckets /\ b[h] = s
        /\ \A i \in DOMAIN c.buckets : i # h => b[i] = c.buckets[i]
    BY <1>1, <2>2, BucketsIs
  <2> HIDE DEF b
  <2>4. d \in Calendars /\ d.buckets = b /\ SamePlace(c, d)
    BY <1>1, <2>1, <2>3 DEF Calendars, SamePlace
  <2> QED BY <2>3, <2>4 DEF Changes, SamePlace
<1>6. \A f \in ToSet(s) : Hash(c, f.ts) = h
  BY <1>2, <1>4
<1> HIDE DEF d, s
<1>7. Bucketed(d) /\ Stored(d) = Stored(c) \union {e}
  BY <1>1, <1>4, <1>5, <1>6, OneBucket
<1>8. Begins(d)
  <2>1. \A ts : Hash(d, ts) = Hash(c, ts)
    BY <1>5 DEF Hash, SamePlace
  <2>2. \A f \in Stored(d) : f.ts >= d.lastPrio
    BY <1>5, <1>7 DEF Begins, SamePlace
  <2> QED BY <1>5, <2>1, <2>2 DEF Begins, SamePlace
<1> QED BY <1>5, <1>7, <1>8 DEF d

\* The day the search begins with, a day being a bucket's span of time.
Today(c) == c.lastPrio \div c.width

\* The search goes from bucket to bucket as time goes from day to day.
LEMMA PlaceIs ==
    ASSUME NEW c, Bucketed(c), Begins(c), NEW k \in Nat
    PROVE  /\ Today(c) \in Nat
           /\ Bucket(c, k) = (Today(c) + k) % c.nBuckets
           /\ Bucket(c, k) \in 0 .. c.nBuckets - 1
           /\ Top(c, k) = (Today(c) + k + 1) * c.width
<1> DEFINE D == Today(c)
           n == c.nBuckets
           w == c.width
<1>1. n \in Nat \ {0} /\ w \in Nat \ {0} /\ c.lastPrio \in Nat
  BY DEF Bucketed, Begins
<1>2. D \in Nat
  BY <1>1, QuotientIs DEF Today
<1>3. c.lastBucket = D % n /\ c.bucketTop = (D + 1) * w
  BY DEF Begins, Hash, Today
<1> HIDE DEF D, n, w
<1>4. ((D % n) + k) % n = (D + k) % n
  BY <1>1, <1>2, RestShift
<1>5. (D + k) % n \in 0 .. n - 1
  <2>1. D + k \in Nat
    BY <1>2
  <2> QED BY <1>1, <2>1, RestIs
<1>6. (D + 1) * w + k * w = (D + k + 1) * w
  BY <1>1, <1>2
<1>7. Bucket(c, k) = (D + k) % n /\ Top(c, k) = (D + k + 1) * w
  BY <1>3, <1>4, <1>6 DEF Bucket, Top, n, w
<1> QED BY <1>2, <1>5, <1>7 DEF D, n, w

\* h is the first event of bucket i.
Leads(c, h, i) ==
    /\ i \in 0 .. c.nBuckets - 1 /\ c.buckets[i] # <<>> /\ h = Head(c.buckets[i])
    /\ h \in Events /\ h \in ToSet(c.buckets[i]) /\ h \in Stored(c) /\ Hash(c, h.ts) = i
    /\ \A f \in ToSet(c.buckets[i]) \ {h} : Less(h, f)

\* The head of a bucket is the earliest event of the bucket.
LEMMA LeaderIs ==
    ASSUME NEW c, Bucketed(c), NEW i \in 0 .. c.nBuckets - 1, c.buckets[i] # <<>>
    PROVE  Leads(c, Head(c.buckets[i]), i)
<1>1. Sorted(c.buckets[i]) /\ \A e \in ToSet(c.buckets[i]) : Hash(c, e.ts) = i
  BY DEF Bucketed
<1> DEFINE h == Head(c.buckets[i])
<1>2. /\ h \in ToSet(c.buckets[i]) /\ h \in Events
      /\ \A f \in ToSet(c.buckets[i]) \ {h} : Less(h, f)
  BY <1>1, HeadIs
<1> HIDE DEF h
<1>3. h \in Stored(c)
  BY <1>2, StoredIs
<1> QED BY <1>1, <1>2, <1>3 DEF Leads, h

\* What is stored has a day, which is not before the one the search begins with.
LEMMA DayIs ==
    ASSUME NEW c, Bucketed(c), Begins(c), NEW f \in Stored(c)
    PROVE  /\ f \in Events /\ Day(c, f) \in Nat /\ Today(c) \in Nat /\ Today(c) <= Day(c, f)
           /\ Hash(c, f.ts) = Day(c, f) % c.nBuckets
<1>1. c.width \in Nat \ {0} /\ c.lastPrio \in Nat /\ f \in Events /\ f.ts \in Nat
  BY StoredIs DEF Bucketed, Begins, Events
<1>2. c.lastPrio <= f.ts
  BY <1>1 DEF Begins
<1> QED BY <1>1, <1>2, QuotientIs, QuotientOrder DEF Day, Today, Hash

\* A bucket is due if it has an event of the day the search looks at.
LEMMA DueIs ==
    ASSUME NEW c, Bucketed(c), Begins(c), NEW k \in 0 .. c.nBuckets - 1
    PROVE  /\ Due(c, k) => \E h : /\ Leads(c, h, Bucket(c, k))
                                  /\ Day(c, h) = Today(c) + k
           /\ \A f \in Stored(c) : Day(c, f) = Today(c) + k =>
                 Due(c, k) /\ f \in ToSet(c.buckets[Bucket(c, k)])
<1> DEFINE D == Today(c)
           n == c.nBuckets
           w == c.width
           i == Bucket(c, k)
<1>0. n \in Nat \ {0} /\ w \in Nat \ {0} /\ k \in 0 .. n - 1 /\ k \in Nat
  BY DEF Bucketed
<1>1. D \in Nat /\ i = (D + k) % n /\ i \in 0 .. n - 1 /\ Top(c, k) = (D + k + 1) * w
  BY <1>0, PlaceIs
<1>2. D + k \in Nat
  BY <1>0, <1>1
<1>3. ASSUME NEW f \in Stored(c)
      PROVE  /\ f \in Events /\ f.ts \in Nat /\ Day(c, f) \in Nat /\ D <= Day(c, f)
             /\ Hash(c, f.ts) = Day(c, f) % n
             /\ f.ts < Top(c, k) <=> Day(c, f) <= D + k
  <2>1. f \in Events /\ Day(c, f) \in Nat /\ D <= Day(c, f) /\ Hash(c, f.ts) = Day(c, f) % n
    BY DayIs
  <2>2. f.ts \in Nat
    BY <2>1 DEF Events
  <2>3. f.ts < (D + k + 1) * w <=> Day(c, f) <= D + k
    BY <1>0, <1>2, <2>2, QuotientAtMost DEF Day
  <2> QED BY <1>1, <2>1, <2>2, <2>3
<1>4. ASSUME Due(c, k)
      PROVE  \E h : Leads(c, h, i) /\ Day(c, h) = D + k
  <2> DEFINE h == Head(c.buckets[i])
  <2>1. c.buckets[i] # <<>> /\ h.ts < Top(c, k)
    BY <1>4 DEF Due
  <2>2. Leads(c, h, i)
    BY <1>1, <2>1, LeaderIs
  <2> HIDE DEF h
  <2>3. h \in Stored(c) /\ Hash(c, h.ts) = i
    BY <2>2 DEF Leads
  <2>4. Day(c, h) \in Nat /\ D <= Day(c, h) /\ Day(c, h) <= D + k /\ Day(c, h) % n = (D + k) % n
    BY <1>1, <1>3, <2>1, <2>3
  <2>5. D + k < Day(c, h) + n
    BY <1>0, <1>1, <2>4
  <2>6. Day(c, h) = D + k
    BY <1>0, <1>2, <2>4, <2>5, RestUnique
  <2> QED BY <2>2, <2>6
<1>5. ASSUME NEW f \in Stored(c), Day(c, f) = D + k
      PROVE  Due(c, k) /\ f \in ToSet(c.buckets[i])
  <2>1. Hash(c, f.ts) = i
    BY <1>1, <1>3, <1>5
  <2>2. f \in ToSet(c.buckets[i])
    BY <2>1, StoredIs
  <2>3. c.buckets[i] # <<>>
    BY <2>2 DEF ToSet
  <2> DEFINE h == Head(c.buckets[i])
  <2>4. Leads(c, h, i)
    BY <1>1, <2>3, LeaderIs
  <2> HIDE DEF h
  <2>5. h \in Events /\ (f = h \/ Less(h, f))
    BY <2>2, <2>4 DEF Leads
  <2>6. h.ts \in Nat /\ f.ts \in Nat /\ h.ts <= f.ts
    BY <1>3, <2>5, LessOrders DEF Events
  <2>7. f.ts < Top(c, k)
    BY <1>2, <1>3, <1>5
  <2>8. Top(c, k) \in Int
    BY <1>0, <1>1, <1>2
  <2>9. h.ts < Top(c, k)
    BY <2>6, <2>7, <2>8
  <2> QED BY <2>2, <2>3, <2>9 DEF Due, h
<1> QED BY <1>4, <1>5

\* The event the search takes, and where it finds it.
Found(c, e) ==
    /\ Leads(c, e, Hash(c, e.ts))
    /\ \A f \in Stored(c) \ {e} : Less(e, f)

DueDays(c) == {k \in 0 .. c.nBuckets - 1 : Due(c, k)}

\* The search finds the earliest event of all, and its day.
LEMMA NextEventIs ==
    ASSUME NEW c, Bucketed(c), Begins(c), Stored(c) # {}
    PROVE  /\ Found(c, NextEvent(c))
           /\ DueDays(c) # {} =>
                 /\ Bucket(c, Min(DueDays(c))) = Hash(c, NextEvent(c).ts)
                 /\ Top(c, Min(DueDays(c))) = (Day(c, NextEvent(c)) + 1) * c.width
<1> DEFINE due == DueDays(c)
           e == NextEvent(c)
           D == Today(c)
<1>0. c.nBuckets \in Nat \ {0} /\ D \in Nat /\ due \subseteq 0 .. c.nBuckets - 1 /\ due \subseteq Nat
  <2>1. c.nBuckets \in Nat \ {0}
    BY DEF Bucketed
  <2>2. 0 \in Nat
    OBVIOUS
  <2> QED BY <2>1, <2>2, PlaceIs DEF DueDays
<1>1. ASSUME due # {}
      PROVE  /\ Found(c, e)
             /\ Bucket(c, Min(due)) = Hash(c, e.ts)
             /\ Top(c, Min(due)) = (Day(c, e) + 1) * c.width
  <2> DEFINE m == Min(due)
  <2>1. m \in due /\ \A k \in due : m <= k
    BY <1>0, <1>1, MinIs
  <2>2. e = Head(c.buckets[Bucket(c, m)])
    BY <1>1 DEF NextEvent, DueDays
  <2> HIDE DEF m
  <2>3. m \in 0 .. c.nBuckets - 1 /\ m \in Nat /\ Due(c, m)
    BY <1>0, <2>1 DEF DueDays
  <2>4. PICK h : Leads(c, h, Bucket(c, m)) /\ Day(c, h) = D + m
    BY <2>3, DueIs
  <2>5. e = h /\ h \in Stored(c) /\ h \in Events /\ Hash(c, h.ts) = Bucket(c, m)
    BY <2>2, <2>4 DEF Leads
  <2>6. ASSUME NEW f \in Stored(c) \ {h} PROVE Less(h, f)
    <3>1. f \in Stored(c) /\ f \in Events /\ Day(c, f) \in Nat /\ D <= Day(c, f)
      BY DayIs
    <3>2. CASE Day(c, f) = D + m
      <4>1. f \in ToSet(c.buckets[Bucket(c, m)])
        BY <2>3, <3>1, <3>2, DueIs
      <4> QED BY <2>4, <2>6, <4>1 DEF Leads
    <3>3. CASE Day(c, f) < D + m
      <4> DEFINE k == Day(c, f) - D
      <4>1. k \in 0 .. c.nBuckets - 1 /\ k < m /\ Day(c, f) = D + k
        BY <1>0, <2>3, <3>1, <3>3
      <4> HIDE DEF k
      <4>2. Due(c, k)
        BY <3>1, <4>1, DueIs
      <4>3. k \in due
        BY <4>1, <4>2 DEF DueDays
      <4> QED BY <2>1, <2>3, <4>1, <4>3
    <3>4. CASE Day(c, f) > D + m
      <4>1. h.ts \in Nat /\ f.ts \in Nat /\ c.width \in Nat \ {0}
        BY <2>5, <3>1 DEF Events, Bucketed
      <4>2. Day(c, h) \in Nat
        BY <2>5, DayIs
      <4>3. ~(f.ts <= h.ts)
        <5>1. f.ts <= h.ts => Day(c, f) <= Day(c, h)
          BY <4>1, QuotientOrder DEF Day
        <5> QED BY <1>0, <2>3, <2>4, <3>1, <3>4, <4>2, <5>1
      <4> QED BY <4>1, <4>3 DEF Less
    <3> QED BY <1>0, <2>3, <3>1, <3>2, <3>3, <3>4
  <2>7. Top(c, m) = (D + m + 1) * c.width
    BY <2>3, PlaceIs
  <2>8. Found(c, h)
    BY <2>4, <2>5, <2>6 DEF Found
  <2> QED BY <2>4, <2>5, <2>7, <2>8 DEF m
<1>2. ASSUME due = {} PROVE Found(c, e)
  <2>1. e = CHOOSE g \in Heads(c) : \A f \in Heads(c) \ {g} : Less(g, f)
    BY <1>2 DEF NextEvent, DueDays
  <2>2. DOMAIN c.buckets = 0 .. c.nBuckets - 1
    BY DEF Bucketed
  <2>3. ASSUME NEW g \in Heads(c) PROVE g \in Events /\ Leads(c, g, Hash(c, g.ts))
    <3>1. PICK i \in 0 .. c.nBuckets - 1 : c.buckets[i] # <<>> /\ g = Head(c.buckets[i])
      BY <2>2 DEF Heads
    <3>2. Leads(c, g, i)
      BY <3>1, LeaderIs
    <3> QED BY <3>2 DEF Leads
  <2>4. ASSUME NEW f \in Stored(c)
        PROVE  f \in Events /\ \E g \in Heads(c) : g = f \/ Less(g, f)
    <3> DEFINE i == Hash(c, f.ts)
    <3>1. f \in Events /\ i \in 0 .. c.nBuckets - 1 /\ f \in ToSet(c.buckets[i])
      BY StoredIs
    <3> HIDE DEF i
    <3>2. c.buckets[i] # <<>>
      BY <3>1 DEF ToSet
    <3>3. Leads(c, Head(c.buckets[i]), i)
      BY <3>1, <3>2, LeaderIs
    <3>4. Head(c.buckets[i]) \in Heads(c)
      BY <2>2, <3>1, <3>2 DEF Heads
    <3> QED BY <3>1, <3>3, <3>4 DEF Leads
  <2>5. Heads(c) # {} /\ Heads(c) \subseteq Events
    BY <2>3, <2>4
  <2>6. \E g \in Heads(c) : \A f \in Heads(c) \ {g} : Less(g, f)
    BY <2>5, EarliestExists
  <2>7. e \in Heads(c) /\ \A f \in Heads(c) \ {e} : Less(e, f)
    BY <2>1, <2>6
  <2> HIDE DEF e
  <2>8. e \in Events /\ Leads(c, e, Hash(c, e.ts))
    BY <2>3, <2>7
  <2>9. ASSUME NEW f \in Stored(c) \ {e} PROVE Less(e, f)
    <3>1. PICK g \in Heads(c) : g = f \/ Less(g, f)
      BY <2>4
    <3>2. f \in Events /\ g \in Events
      BY <2>4, <2>5
    <3>3. e = g \/ Less(e, g)
      BY <2>7
    <3> QED BY <2>8, <2>9, <3>1, <3>2, <3>3, LessOrders
  <2> QED BY <2>8, <2>9 DEF Found
<1> QED BY <1>1, <1>2

\* DoRemoveNext takes that event out, and the search goes on from it.
LEMMA DoRemoveNextIs ==
    ASSUME NEW c, Bucketed(c), Begins(c), Stored(c) # {}
    PROVE  /\ Bucketed(DoRemoveNext(c)) /\ Begins(DoRemoveNext(c))
           /\ Stored(DoRemoveNext(c)) = Stored(c) \ {NextEvent(c)}
           /\ DoRemoveNext(c).lastPrio = NextEvent(c).ts
           /\ DoRemoveNext(c).qSize = c.qSize
           /\ DoRemoveNext(c).nBuckets = c.nBuckets /\ DoRemoveNext(c).width = c.width
<1> DEFINE d == DoRemoveNext(c)
           e == NextEvent(c)
           h == Hash(c, e.ts)
           s == Tail(c.buckets[h])
           due == DueDays(c)
           bucket == IF due # {} THEN Bucket(c, Min(due)) ELSE h
           top == IF due # {} THEN Top(c, Min(due)) ELSE (e.ts \div c.width + 1) * c.width
<1>1. /\ c \in Calendars /\ c.buckets \in Buckets /\ c.width \in Nat \ {0}
      /\ c.nBuckets \in Nat \ {0} /\ DOMAIN c.buckets = 0 .. c.nBuckets - 1
  BY DEF Bucketed, Calendars
<1>2. Found(c, e)
  BY NextEventIs
<1>3. bucket = h /\ top = (e.ts \div c.width + 1) * c.width
  <2>1. due # {} => /\ Bucket(c, Min(due)) = h
                    /\ Top(c, Min(due)) = (Day(c, e) + 1) * c.width
    BY NextEventIs
  <2> HIDE DEF due, h, e
  <2> QED BY <2>1 DEF Day
<1> DEFINE b == [c.buckets EXCEPT ![h] = s]
<1>4. d = [c EXCEPT !.buckets = b, !.lastPrio = e.ts, !.lastBucket = bucket, !.bucketTop = top]
  BY DEF DoRemoveNext, DueDays
<1> HIDE DEF d, e, bucket, top
<1>5. /\ h \in 0 .. c.nBuckets - 1 /\ c.buckets[h] # <<>> /\ e = Head(c.buckets[h])
      /\ e \in Events /\ e \in Stored(c)
  BY <1>2 DEF Found, Leads
<1>6. Sorted(c.buckets[h]) /\ \A f \in ToSet(c.buckets[h]) : Hash(c, f.ts) = h
  BY <1>5 DEF Bucketed
<1>7. Sorted(s) /\ ToSet(s) = ToSet(c.buckets[h]) \ {e}
  BY <1>5, <1>6, HeadIs
<1>8. \A f \in ToSet(s) : Hash(c, f.ts) = h
  BY <1>6, <1>7
<1> HIDE DEF s, h
<1>12. /\ b \in Buckets /\ DOMAIN b = DOMAIN c.buckets /\ b[h] = s
       /\ \A i \in DOMAIN c.buckets : i # h => b[i] = c.buckets[i]
  <2>1. s \in Seq(Events) /\ h \in DOMAIN c.buckets
    BY <1>1, <1>5, <1>7 DEF Sorted
  <2> QED BY <1>1, <2>1, BucketsIs
<1> HIDE DEF b
<1>13. e.ts \in Nat /\ bucket \in Nat /\ top \in Nat
  <2>1. e.ts \in Nat /\ bucket \in Nat
    BY <1>1, <1>3, <1>5 DEF Events
  <2>2. (e.ts \div c.width + 1) * c.width \in Nat
    BY <1>1, <2>1, QuotientIs
  <2> QED BY <1>3, <2>1, <2>2
<1>14. /\ d \in Calendars /\ d.buckets = b /\ d.lastPrio = e.ts /\ d.lastBucket = bucket
       /\ d.bucketTop = top /\ d.qSize = c.qSize /\ d.nBuckets = c.nBuckets /\ d.width = c.width
  BY <1>1, <1>4, <1>12, <1>13 DEF Calendars
<1>9. Changes(c, d, h, s)
  BY <1>12, <1>14 DEF Changes
<1>10. Bucketed(d) /\ Stored(d) = Stored(c) \ {e}
  <2>1. h \in 0 .. c.nBuckets - 1 /\ Hash(c, e.ts) = h
    BY <1>5 DEF h
  <2> QED BY <1>7, <1>8, <1>9, <2>1, OneBucket
<1>11. Begins(d)
  <2>1. \A ts : Hash(d, ts) = Hash(c, ts)
    BY <1>14 DEF Hash
  <2>2. ASSUME NEW f \in Stored(d) PROVE f.ts >= e.ts
    <3>1. f \in Stored(c) \ {e}
      BY <1>10
    <3>2. Less(e, f) /\ f \in Events
      BY <1>2, <3>1, StoredIs DEF Found
    <3> QED BY <1>5, <3>2, LessOrders DEF Events
  <2>3. e.ts \in Nat
    BY <1>5 DEF Events
  <2> QED BY <1>3, <1>14, <2>1, <2>2, <2>3 DEF Begins, h
<1> QED BY <1>14, <1>10, <1>11 DEF d, e

\* A calendar that can be searched, and whose events are T.
Holds(c, T) == Bucketed(c) /\ Begins(c) /\ Stored(c) = T /\ IsFiniteSet(T)

\* One event fewer.
LEMMA TakeIs ==
    ASSUME NEW c, NEW T, Holds(c, T), T # {}
    PROVE  /\ NextEvent(c) \in T /\ NextEvent(c) \in Events
           /\ \A f \in T \ {NextEvent(c)} : Less(NextEvent(c), f)
           /\ Holds(DoRemoveNext(c), T \ {NextEvent(c)})
           /\ Cardinality(T \ {NextEvent(c)}) = Cardinality(T) - 1
           /\ DoRemoveNext(c).lastPrio = NextEvent(c).ts
           /\ DoRemoveNext(c).qSize = c.qSize
<1>1. Bucketed(c) /\ Begins(c) /\ Stored(c) = T /\ IsFiniteSet(T)
  BY DEF Holds
<1>2. Found(c, NextEvent(c))
  BY <1>1, NextEventIs
<1>3. /\ NextEvent(c) \in T /\ NextEvent(c) \in Events
      /\ \A f \in T \ {NextEvent(c)} : Less(NextEvent(c), f)
  BY <1>1, <1>2 DEF Found, Leads
<1>4. IsFiniteSet(T \ {NextEvent(c)}) /\ Cardinality(T \ {NextEvent(c)}) = Cardinality(T) - 1
  BY <1>1, <1>3, FS_RemoveElement
<1>5. /\ Bucketed(DoRemoveNext(c)) /\ Begins(DoRemoveNext(c))
      /\ Stored(DoRemoveNext(c)) = T \ {NextEvent(c)}
      /\ DoRemoveNext(c).lastPrio = NextEvent(c).ts
      /\ DoRemoveNext(c).qSize = c.qSize
  BY <1>1, DoRemoveNextIs
<1> QED BY <1>3, <1>4, <1>5 DEF Holds

\* The calendars the search for samples goes through.
Sampling(after, c, n) ==
    after = [k \in 0 .. n |-> IF k = 0 THEN c ELSE DoRemoveNext(after[k - 1])]

\* The samples are times of events.
LEMMA SamplesIs ==
    ASSUME NEW c, NEW T, Holds(c, T), NEW n \in 0 .. Cardinality(T)
    PROVE  Samples(c, n) \in [1 .. n -> Nat]
<1> DEFINE q == Cardinality(T)
           S == {d \in Calendars : \E U \in SUBSET T : Holds(d, U)}
           F == [k \in 1 .. n |->
                   [d \in S |-> IF Stored(d) = {} THEN d ELSE DoRemoveNext(d)]]
           after == CHOOSE after : Sampling(after, c, n)
           Left(f, k) == \E U \in SUBSET T : Holds(f[k], U) /\ Cardinality(U) = q - k
<1>1. q \in Nat /\ n \in Nat /\ n <= q
  BY FS_CardinalityType DEF Holds
<1>2. c \in S
  BY DEF Holds, Bucketed
<1>3. StepsIn(F, S, n)
  <2>1. ASSUME NEW d \in S, Stored(d) # {} PROVE DoRemoveNext(d) \in S
    <3>1. PICK U \in SUBSET T : Holds(d, U)
      OBVIOUS
    <3>2. U # {}
      BY <2>1, <3>1 DEF Holds
    <3>3. Holds(DoRemoveNext(d), U \ {NextEvent(d)})
      BY <3>1, <3>2, TakeIs
    <3>4. DoRemoveNext(d) \in Calendars
      BY <3>3 DEF Holds, Bucketed
    <3> QED BY <3>3, <3>4
  <2> HIDE DEF S
  <2> QED BY <2>1 DEF StepsIn
<1>4. PICK g : Follows(g, F, S, c, n)
  <2> HIDE DEF S, F
  <2> QED BY <1>1, <1>2, <1>3, Recursion
<1>5. ASSUME NEW f, f[0] = c,
             \A k \in 1 .. n : f[k] = DoRemoveNext(f[k - 1]) \/ f[k] = F[k][f[k - 1]]
      PROVE  \A k \in 0 .. n : Left(f, k)
  <2> DEFINE N == {k \in Nat : k <= n => Left(f, k)}
  <2>1. 0 \in N
    BY <1>1, <1>5
  <2>2. ASSUME NEW k \in Nat, k \in N PROVE k + 1 \in N
    <3>1. SUFFICES ASSUME k + 1 <= n PROVE Left(f, k + 1)
      OBVIOUS
    <3>2. k \in 0 .. n /\ k + 1 \in 1 .. n /\ k <= n
      BY <1>1, <3>1
    <3>3. PICK U \in SUBSET T : Holds(f[k], U) /\ Cardinality(U) = q - k
      BY <2>2, <3>2
    <3>4. U # {}
      BY <1>1, <3>1, <3>3, FS_EmptySet
    <3>5. f[k + 1] = DoRemoveNext(f[k])
      <4>1. f[k + 1] = DoRemoveNext(f[k]) \/ f[k + 1] = F[k + 1][f[k]]
        <5>1. (k + 1) - 1 = k
          OBVIOUS
        <5> HIDE DEF F
        <5> QED BY <1>5, <3>2, <5>1
      <4>2. f[k] \in S /\ Stored(f[k]) # {}
        BY <3>3, <3>4 DEF Holds, Bucketed
      <4> HIDE DEF S
      <4>3. F[k + 1][f[k]] = DoRemoveNext(f[k])
        BY <3>2, <4>2
      <4> QED BY <4>1, <4>3
    <3>6. /\ Holds(f[k + 1], U \ {NextEvent(f[k])})
          /\ Cardinality(U \ {NextEvent(f[k])}) = Cardinality(U) - 1
      <4> DEFINE d == f[k]
      <4>1. Holds(d, U) /\ U # {}
        BY <3>3, <3>4
      <4> HIDE DEF d
      <4>2. /\ Holds(DoRemoveNext(d), U \ {NextEvent(d)})
            /\ Cardinality(U \ {NextEvent(d)}) = Cardinality(U) - 1
        BY <4>1, TakeIs
      <4> QED BY <3>5, <4>2 DEF d
    <3>7. Cardinality(U \ {NextEvent(f[k])}) = q - (k + 1)
      BY <1>1, <3>3, <3>6
    <3> QED BY <3>6, <3>7
  <2>3. Nat \subseteq N
    <3> HIDE DEF N
    <3> QED BY <2>1, <2>2, Induction
  <2> HIDE DEF Left
  <2> QED BY <1>1, <2>3
<1>6. ASSUME NEW f, \A k \in 0 .. n : Left(f, k), NEW k \in 1 .. n
      PROVE  f[k - 1] \in S /\ Stored(f[k - 1]) # {} /\ NextEvent(f[k - 1]).ts \in Nat
  <2>1. k - 1 \in 0 .. n
    BY <1>1
  <2>2. PICK U \in SUBSET T : Holds(f[k - 1], U) /\ Cardinality(U) = q - (k - 1)
    BY <1>6, <2>1
  <2>3. U # {}
    BY <1>1, <2>2, FS_EmptySet
  <2>4. NextEvent(f[k - 1]) \in Events
    BY <2>2, <2>3, TakeIs
  <2> QED BY <2>2, <2>3, <2>4 DEF Holds, Bucketed, Events
<1>7. Sampling(g, c, n)
  <2>1. \A k \in 0 .. n : Left(g, k)
    <3>1. g[0] = c /\ \A k \in 1 .. n : g[k] = F[k][g[k - 1]]
      BY <1>4 DEF Follows
    <3> HIDE DEF F, Left
    <3> QED BY <1>5, <3>1
  <2>2. ASSUME NEW k \in 0 .. n
        PROVE  g[k] = IF k = 0 THEN c ELSE DoRemoveNext(g[k - 1])
    <3>1. CASE k = 0
      BY <3>1, <1>4 DEF Follows
    <3>2. CASE k # 0
      <4>1. k \in 1 .. n /\ g[k] = F[k][g[k - 1]]
        <5> HIDE DEF F, S
        <5> QED BY <3>2, <1>4 DEF Follows
      <4>2. g[k - 1] \in S /\ Stored(g[k - 1]) # {}
        <5> HIDE DEF S, Left
        <5> QED BY <1>6, <2>1, <4>1
      <4> HIDE DEF S
      <4> QED BY <3>2, <4>1, <4>2
    <3> QED BY <3>1, <3>2
  <2>3. g = [k \in 0 .. n |-> g[k]]
    <3> HIDE DEF F, S
    <3> QED BY <1>4 DEF Follows
  <2> QED BY <2>2, <2>3 DEF Sampling
<1>8. Sampling(after, c, n)
  BY <1>7
<1>9. Samples(c, n) = [k \in 1 .. n |-> NextEvent(after[k - 1]).ts]
  BY DEF Samples, Sampling
<1> HIDE DEF after
<1>10. after[0] = c /\ \A k \in 1 .. n : after[k] = DoRemoveNext(after[k - 1])
  BY <1>1, <1>8 DEF Sampling
<1>11. \A k \in 0 .. n : Left(after, k)
  <2> HIDE DEF F, Left
  <2> QED BY <1>5, <1>10
<1>12. \A k \in 1 .. n : NextEvent(after[k - 1]).ts \in Nat
  <2> HIDE DEF S, Left
  <2> QED BY <1>6, <1>11
<1> QED BY <1>9, <1>12

\* What the sum of a set of gaps is the end of.
Summing(f, s, gaps) ==
    f = [T \in SUBSET gaps |->
            IF T = {} THEN 0
            ELSE LET x == CHOOSE x \in T : TRUE IN (s[x + 1] - s[x]) + f[T \ {x}]]

\* The sum of gaps is a number.
LEMMA GapSumIs ==
    ASSUME NEW n \in Nat, NEW s \in [1 .. n -> Nat], Len(s) = n, NEW limit \in Int
    PROVE  GapSum(s, limit) \in Int
<1> DEFINE gaps == {i \in 1 .. Len(s) - 1 : s[i + 1] - s[i] <= limit}
           pick == [T \in SUBSET gaps |-> CHOOSE x \in T : TRUE]
           R == (SUBSET gaps) \X Int
           F == [p \in (SUBSET gaps) \X Int |-> (s[pick[p[1]] + 1] - s[pick[p[1]]]) + p[2]]
           f == CHOOSE f : Summing(f, s, gaps)
<1>1. gaps \subseteq 1 .. n - 1 /\ IsFiniteSet(gaps)
  <2>1. gaps \subseteq 1 .. n - 1
    OBVIOUS
  <2>2. IsFiniteSet(1 .. n - 1)
    BY FS_Interval
  <2> HIDE DEF gaps
  <2> QED BY <2>1, <2>2, FS_Subset
<1> HIDE DEF gaps
<1>2. Picks(pick, gaps)
  BY DEF Picks
<1>3. ASSUME NEW T \in SUBSET gaps, T # {}
      PROVE  /\ pick[T] = CHOOSE x \in T : TRUE
             /\ pick[T] \in T /\ T \ {pick[T]} \in SUBSET gaps
             /\ s[pick[T] + 1] - s[pick[T]] \in Int
  <2>1. pick[T] = CHOOSE x \in T : TRUE
    OBVIOUS
  <2>2. pick[T] \in T
    BY <1>3, <2>1
  <2> HIDE DEF pick
  <2>3. pick[T] \in 1 .. n /\ pick[T] + 1 \in 1 .. n
    <3> DEFINE x == pick[T]
    <3>1. x \in 1 .. n - 1
      BY <1>1, <2>2
    <3> HIDE DEF x
    <3>2. x \in 1 .. n /\ x + 1 \in 1 .. n
      BY <3>1
    <3> QED BY <3>2 DEF x
  <2> QED BY <2>1, <2>2, <2>3
<1>4. ASSUME NEW T \in SUBSET gaps, NEW v \in Int
      PROVE  F[<<T, v>>] = (s[pick[T] + 1] - s[pick[T]]) + v
  <2> HIDE DEF pick
  <2> QED OBVIOUS
<1> HIDE DEF F, pick
<1>5. Relates(F, R, pick, gaps, Int)
  <2>1. ASSUME NEW T \in SUBSET gaps, NEW v \in Int, T # {}
        PROVE  <<T, F[<<T, v>>]>> \in R
    <3>1. F[<<T, v>>] \in Int
      <4> DEFINE gap == s[pick[T] + 1] - s[pick[T]]
      <4>1. gap \in Int /\ F[<<T, v>>] = gap + v
        BY <1>3, <1>4, <2>1
      <4> HIDE DEF gap
      <4> QED BY <4>1
    <3> QED BY <3>1
  <2> QED BY <2>1 DEF Relates
<1>6. PICK g : FoldsOver(g, F, pick, gaps, 0) /\ \A T \in SUBSET gaps : <<T, g[T]>> \in R
  <2> DEFINE V == Int
             zero == 0
  <2>1. R \subseteq (SUBSET gaps) \X V /\ <<{}, zero>> \in R
    OBVIOUS
  <2>2. IsFiniteSet(gaps) /\ Relates(F, R, pick, gaps, V)
    BY <1>1, <1>5
  <2> HIDE DEF R, V, zero
  <2>3. \E g : FoldsOver(g, F, pick, gaps, zero) /\ \A T \in SUBSET gaps : <<T, g[T]>> \in R
    BY <1>2, <2>1, <2>2, SetRecursion
  <2> QED BY <2>3 DEF zero
<1>7. Summing(g, s, gaps)
  <2>1. ASSUME NEW T \in SUBSET gaps
        PROVE  (IF T = {} THEN 0 ELSE F[<<T, g[T \ {pick[T]}]>>])
                 = IF T = {} THEN 0
                   ELSE LET x == CHOOSE x \in T : TRUE IN (s[x + 1] - s[x]) + g[T \ {x}]
    <3>1. CASE T # {}
      <4>1. pick[T] = CHOOSE x \in T : TRUE
        BY <1>3, <3>1
      <4>2. g[T \ {pick[T]}] \in Int
        BY <1>3, <1>6, <3>1
      <4>3. F[<<T, g[T \ {pick[T]}]>>] = (s[pick[T] + 1] - s[pick[T]]) + g[T \ {pick[T]}]
        BY <1>4, <4>2
      <4> QED BY <3>1, <4>1, <4>3
    <3> QED BY <3>1
  <2> QED BY <1>6, <2>1 DEF FoldsOver, Summing
<1>8. Summing(f, s, gaps)
  BY <1>7
<1>9. GapSum(s, limit) = f[gaps]
  BY DEF GapSum, MapThenSumSet, MapThenFoldSet, Summing, gaps
<1> HIDE DEF f
<1> DEFINE D == {T \in SUBSET gaps : f[T] \in Int}
<1>10. {} \in D
  BY <1>8 DEF Summing
<1>11. ASSUME NEW T \in SUBSET gaps, T # {}, T \ {pick[T]} \in D PROVE T \in D
  <2>1. f[T] = (s[pick[T] + 1] - s[pick[T]]) + f[T \ {pick[T]}]
    <3>1. f[T] = LET x == CHOOSE x \in T : TRUE IN (s[x + 1] - s[x]) + f[T \ {x}]
      BY <1>8, <1>11 DEF Summing
    <3> QED BY <1>3, <1>11, <3>1
  <2> QED BY <1>3, <1>11, <2>1
<1>12. SUBSET gaps \subseteq D
  <2> HIDE DEF D
  <2>1. IsFiniteSet(gaps)
    BY <1>1
  <2>2. \A T \in SUBSET gaps : T # {} /\ T \ {pick[T]} \in D => T \in D
    BY <1>11
  <2> QED BY <1>2, <1>10, <2>1, <2>2, SetInduction, SMTT(30)
<1> QED BY <1>9, <1>12

\* The width of a bucket in the next calendar is a positive number.
LEMMA NewWidthIs ==
    ASSUME NEW c, Holds(c, Stored(c)), c.qSize = Cardinality(Stored(c))
    PROVE  CalculateNewWidth(c) \in Nat \ {0}
<1> DEFINE q == c.qSize
           n == SampleSize(c)
           s == Samples(c, n)
           average == (s[Len(s)] - s[1]) \div (Len(s) - 1)
           gap == GapSum(s, 2 * average)
<1>1. q \in Nat /\ q = Cardinality(Stored(c))
  BY FS_CardinalityType DEF Holds
<1>2. CASE q < 2
  BY <1>2 DEF CalculateNewWidth
<1>3. CASE q >= 2
  <2>1. n \in 2 .. q
    <3>1. CASE q <= 5
      BY <3>1, <1>1, <1>3 DEF SampleSize
    <3>2. CASE q > 5
      <4> DEFINE m == q \div 10
      <4>1. m \in Nat /\ 10 * m <= q
        BY <1>1
      <4>2. n = Min({5 + m, 25})
        BY <3>2, <1>1 DEF SampleSize
      <4> HIDE DEF m, n
      <4>3. n \in {5 + m, 25} /\ n <= 5 + m
        BY <4>1, <4>2, MinIs
      <4>4. 5 + m <= q
        BY <1>1, <3>2, <4>1
      <4>5. CASE n = 25
        BY <4>5, <1>1, <4>1, <4>3, <4>4
      <4> QED BY <1>1, <4>1, <4>3, <4>4, <4>5
    <3> QED BY <1>1, <3>1, <3>2
  <2> HIDE DEF n
  <2>2. s \in [1 .. n -> Nat]
    BY <1>1, <2>1, SamplesIs
  <2>3. CalculateNewWidth(c) = Max({3 * gap, 1})
    BY <1>1, <1>3 DEF CalculateNewWidth, n
  <2> HIDE DEF s
  <2>4. Len(s) = n /\ n \in Nat
    BY <1>1, <2>1, <2>2
  <2>5. average \in Int
    <3>1. s[Len(s)] \in Nat /\ s[1] \in Nat
      BY <1>1, <2>1, <2>2, <2>4
    <3> DEFINE a == s[Len(s)] - s[1]
               b == Len(s) - 1
    <3>3. a \in Int
      BY <3>1
    <3>2. b \in Nat \ {0}
      BY <1>1, <2>1, <2>4
    <3> HIDE DEF a, b
    <3>4. a \div b \in Int
      BY <3>2, <3>3
    <3> QED BY <3>4 DEF a, b
  <2> HIDE DEF average
  <2>6. 2 * average \in Int
    BY <2>5
  <2>7. gap \in Int
    BY <2>2, <2>4, <2>6, GapSumIs
  <2> HIDE DEF gap
  <2>8. Max({3 * gap, 1}) \in Nat \ {0}
    <3>1. \E x \in {3 * gap, 1} : \A y \in {3 * gap, 1} : y <= x
      BY <2>7
    <3>2. /\ Max({3 * gap, 1}) \in {3 * gap, 1}
          /\ \A y \in {3 * gap, 1} : y <= Max({3 * gap, 1})
      BY <3>1 DEF Max
    <3> QED BY <2>7, <3>2
  <2> QED BY <2>3, <2>8
<1> QED BY <1>1, <1>2, <1>3

\* A new calendar is empty.
LEMMA CalendarIs ==
    ASSUME NEW n \in Nat \ {0}, NEW w \in Nat \ {0}, NEW start \in Nat
    PROVE  Holds(Calendar(n, w, start), {}) /\ Calendar(n, w, start).lastPrio = start
           /\ Calendar(n, w, start).qSize = 0
<1> DEFINE c == Calendar(n, w, start)
<1>1. /\ DOMAIN c.buckets = 0 .. n - 1 /\ \A i \in 0 .. n - 1 : c.buckets[i] = <<>>
      /\ c.nBuckets = n /\ c.width = w /\ c.lastPrio = start /\ c.qSize = 0
      /\ c.lastBucket = Hash(c, start) /\ c.bucketTop = (start \div w + 1) * w
      /\ c.buckets = [i \in 0 .. n - 1 |-> <<>>]
  BY DEF Calendar, Hash
<1>2. c \in Calendars
  <2>1. start \div w \in Nat
    BY QuotientIs
  <2>2. (start \div w) % n \in Nat /\ (start \div w + 1) * w \in Nat
    <3>1. (start \div w) % n \in 0 .. n - 1
      BY <2>1, RestIs
    <3> QED BY <2>1, <3>1
  <2>3. [i \in 0 .. n - 1 |-> <<>>] \in Buckets
    <3>1. <<>> \in Seq(Events)
      OBVIOUS
    <3>2. [i \in 0 .. n - 1 |-> <<>>] \in [0 .. n - 1 -> Seq(Events)]
      BY <3>1
    <3> QED BY <3>2 DEF Buckets
  <2> QED BY <2>2, <2>3 DEF Calendar, Calendars
<1> HIDE DEF c
<1>3. Sorted(<<>>) /\ ToSet(<<>>) = {}
  BY DEF Sorted, ToSet
<1>4. Bucketed(c)
  BY <1>1, <1>2, <1>3 DEF Bucketed
<1>5. Stored(c) = {}
  <2>1. ASSUME NEW e PROVE e \notin Stored(c)
    BY <1>1, <1>3, <1>4, StoredIs
  <2> QED BY <2>1
<1>6. Begins(c)
  BY <1>1, <1>5 DEF Begins
<1> QED BY <1>1, <1>4, <1>5, <1>6, FS_EmptySet DEF Holds, c

\* One event more.
LEMMA PutIs ==
    ASSUME NEW c, NEW T, Holds(c, T), NEW e \in Events, e \notin T, e.ts >= c.lastPrio
    PROVE  /\ Holds(DoInsert(c, e), T \union {e})
           /\ Cardinality(T \union {e}) = Cardinality(T) + 1
           /\ SamePlace(c, DoInsert(c, e))
<1>1. Bucketed(c) /\ Begins(c) /\ Stored(c) = T /\ IsFiniteSet(T)
  BY DEF Holds
<1>2. /\ Bucketed(DoInsert(c, e)) /\ Begins(DoInsert(c, e))
      /\ Stored(DoInsert(c, e)) = T \union {e} /\ SamePlace(c, DoInsert(c, e))
  BY <1>1, DoInsertIs
<1>3. IsFiniteSet(T \union {e}) /\ Cardinality(T \union {e}) = Cardinality(T) + 1
  BY <1>1, FS_AddElement
<1> QED BY <1>2, <1>3 DEF Holds

\* The count is no part of how the events are held.
LEMMA CountIs ==
    ASSUME NEW c, NEW T, Holds(c, T), NEW k \in Nat
    PROVE  Holds([c EXCEPT !.qSize = k], T) /\ [c EXCEPT !.qSize = k].qSize = k
           /\ [c EXCEPT !.qSize = k].lastPrio = c.lastPrio
<1> DEFINE d == [c EXCEPT !.qSize = k]
<1>1. Bucketed(c) /\ Begins(c) /\ Stored(c) = T /\ IsFiniteSet(T) /\ c \in Calendars
  BY DEF Holds, Bucketed
<1>2. /\ d \in Calendars /\ d.buckets = c.buckets /\ d.nBuckets = c.nBuckets
      /\ d.width = c.width /\ d.lastPrio = c.lastPrio /\ d.lastBucket = c.lastBucket
      /\ d.bucketTop = c.bucketTop /\ d.qSize = k
  BY <1>1 DEF Calendars
<1> HIDE DEF d
<1>3. \A ts : Hash(d, ts) = Hash(c, ts)
  BY <1>2 DEF Hash
<1>4. Stored(d) = Stored(c)
  BY <1>2 DEF Stored
<1>5. Bucketed(d)
  BY <1>1, <1>2, <1>3 DEF Bucketed
<1>6. Begins(d)
  BY <1>1, <1>2, <1>3, <1>4 DEF Begins
<1> QED BY <1>1, <1>2, <1>4, <1>5, <1>6 DEF Holds, d

\* How a new calendar is filled.
Filling(f, base, S) ==
    f = [T \in SUBSET S |->
            IF T = {} THEN base
            ELSE LET x == CHOOSE x \in T : TRUE IN DoInsert(f[T \ {x}], x)]

Filled(base, S) == FoldSet(LAMBDA e, d : DoInsert(d, e), base, S)

\* It then holds every event, whatever the order they are put in.
LEMMA FilledIs ==
    ASSUME NEW base, Holds(base, {}), NEW S, IsFiniteSet(S), S \subseteq Events,
           \A e \in S : e.ts >= base.lastPrio
    PROVE  Holds(Filled(base, S), S) /\ Filled(base, S).lastPrio = base.lastPrio
<1> DEFINE pick == [T \in SUBSET S |-> CHOOSE x \in T : TRUE]
           Good(T, d) == d \in Calendars /\ Holds(d, T) /\ d.lastPrio = base.lastPrio
           R == {p \in (SUBSET S) \X Calendars : Good(p[1], p[2])}
           F == [p \in (SUBSET S) \X Calendars |-> DoInsert(p[2], pick[p[1]])]
           f == CHOOSE f : Filling(f, base, S)
<1>1. Picks(pick, S)
  BY DEF Picks
<1>2. ASSUME NEW T \in SUBSET S, T # {}
      PROVE  /\ pick[T] = CHOOSE x \in T : TRUE
             /\ pick[T] \in T /\ T \ {pick[T]} \in SUBSET S
  BY <1>2
<1>3. ASSUME NEW T \in SUBSET S, NEW d \in Calendars
      PROVE  F[<<T, d>>] = DoInsert(d, pick[T]) /\ (<<T, d>> \in R <=> Good(T, d))
  <2> HIDE DEF pick, Good
  <2> QED OBVIOUS
<1>4. R \subseteq (SUBSET S) \X Calendars
  OBVIOUS
<1>5. Good({}, base)
  BY DEF Holds, Bucketed
<1> HIDE DEF F, pick, R
<1>6. ASSUME NEW T \in SUBSET S, NEW d, T # {}, Good(T \ {pick[T]}, d)
      PROVE  Good(T, DoInsert(d, pick[T]))
  <2> DEFINE x == pick[T]
  <2>1. x \in T /\ x \in S /\ x \in Events /\ x \notin T \ {x} /\ (T \ {x}) \union {x} = T
    BY <1>2, <1>6
  <2> HIDE DEF x
  <2>2. Holds(d, T \ {x}) /\ x.ts >= d.lastPrio
    BY <1>6, <2>1 DEF x
  <2>3. Holds(DoInsert(d, x), T) /\ SamePlace(d, DoInsert(d, x))
    <3>1. x \in Events /\ x \notin T \ {x}
      BY <2>1
    <3>2. Holds(DoInsert(d, x), (T \ {x}) \union {x}) /\ SamePlace(d, DoInsert(d, x))
      BY <2>2, <3>1, PutIs
    <3> QED BY <2>1, <3>2
  <2> QED BY <1>6, <2>3 DEF SamePlace, Holds, Bucketed, x
<1>7. Relates(F, R, pick, S, Calendars)
  <2> HIDE DEF Good
  <2>1. ASSUME NEW T \in SUBSET S, NEW d \in Calendars, T # {}, <<T \ {pick[T]}, d>> \in R
        PROVE  <<T, F[<<T, d>>]>> \in R
    <3>1. Good(T \ {pick[T]}, d)
      BY <1>2, <1>3, <2>1
    <3>2. Good(T, DoInsert(d, pick[T]))
      BY <1>6, <2>1, <3>1
    <3>3. DoInsert(d, pick[T]) \in Calendars
      BY <3>2 DEF Good
    <3> QED BY <1>3, <3>2, <3>3
  <2> QED BY <2>1 DEF Relates
<1>8. PICK g : FoldsOver(g, F, pick, S, base) /\ \A T \in SUBSET S : <<T, g[T]>> \in R
  <2>1. <<{}, base>> \in R
    <3>1. base \in Calendars
      BY <1>5
    <3> HIDE DEF Good
    <3> QED BY <1>3, <1>5, <3>1
  <2> QED BY <1>1, <1>4, <1>7, <2>1, SetRecursion
<1>9. Filling(g, base, S)
  <2> HIDE DEF Good
  <2>1. ASSUME NEW T \in SUBSET S
        PROVE  (IF T = {} THEN base ELSE F[<<T, g[T \ {pick[T]}]>>])
                 = IF T = {} THEN base
                   ELSE LET x == CHOOSE x \in T : TRUE IN DoInsert(g[T \ {x}], x)
    <3>1. CASE T # {}
      <4>1. pick[T] = CHOOSE x \in T : TRUE
        BY <1>2, <3>1
      <4>2. g[T \ {pick[T]}] \in Calendars
        BY <1>2, <1>4, <1>8, <3>1
      <4>3. F[<<T, g[T \ {pick[T]}]>>] = DoInsert(g[T \ {pick[T]}], pick[T])
        BY <1>3, <4>2
      <4> QED BY <3>1, <4>1, <4>3
    <3> QED BY <3>1
  <2> QED BY <1>8, <2>1 DEF FoldsOver, Filling
<1>10. Filling(f, base, S)
  BY <1>9
<1>11. Filled(base, S) = f[S]
  BY DEF Filled, FoldSet, MapThenFoldSet, Filling
<1> HIDE DEF f
<1> DEFINE D == {T \in SUBSET S : Good(T, f[T])}
<1>12. {} \in D
  <2>1. f[{}] = base
    BY <1>10 DEF Filling
  <2> HIDE DEF Good
  <2> QED BY <1>5, <2>1
<1>13. ASSUME NEW T \in SUBSET S, T # {}, T \ {pick[T]} \in D PROVE T \in D
  <2>1. f[T] = LET x == CHOOSE x \in T : TRUE IN DoInsert(f[T \ {x}], x)
    BY <1>10, <1>13 DEF Filling
  <2>2. f[T] = DoInsert(f[T \ {pick[T]}], pick[T])
    BY <1>2, <1>13, <2>1
  <2> HIDE DEF Good
  <2>3. Good(T \ {pick[T]}, f[T \ {pick[T]}])
    BY <1>13
  <2>4. Good(T, f[T])
    BY <1>6, <1>13, <2>2, <2>3
  <2> QED BY <2>4
<1>14. Good(S, f[S])
  <2> HIDE DEF Good
  <2>1. SUBSET S \subseteq D
    <3> HIDE DEF D
    <3> QED BY <1>1, <1>12, <1>13, SetInduction
  <2> QED BY <2>1
<1> QED BY <1>11, <1>14

-----------------------------------------------------------------------------
\* A calendar whose events are T, and counted.
Cal(c, T) == Holds(c, T) /\ c.qSize = Cardinality(T)

\* A change of size keeps what is stored, and the time the search starts from.
LEMMA ResizeIs ==
    ASSUME NEW c, NEW T, Cal(c, T), NEW n \in Nat \ {0}
    PROVE  Cal(Resize(c, n), T) /\ Resize(c, n).lastPrio = c.lastPrio
<1> DEFINE w == CalculateNewWidth(c)
           base == Calendar(n, w, c.lastPrio)
           d == Filled(base, T)
<1>1. /\ Holds(c, T) /\ Bucketed(c) /\ Begins(c) /\ Stored(c) = T /\ IsFiniteSet(T)
      /\ c.qSize = Cardinality(T) /\ c.qSize \in Nat /\ c.lastPrio \in Nat
  BY FS_CardinalityType DEF Cal, Holds, Begins
<1>2. w \in Nat \ {0}
  BY <1>1, NewWidthIs
<1> HIDE DEF w
<1>3. Holds(base, {}) /\ base.lastPrio = c.lastPrio
  BY <1>1, <1>2, CalendarIs
<1>4. T \subseteq Events /\ \A e \in T : e.ts >= c.lastPrio
  BY <1>1, StoredIs DEF Begins
<1>5. Resize(c, n) = [d EXCEPT !.qSize = c.qSize]
  BY <1>1 DEF Resize, Filled, w
<1> HIDE DEF base
<1>6. Holds(d, T) /\ d.lastPrio = c.lastPrio
  <2>1. \A e \in T : e.ts >= base.lastPrio
    BY <1>3, <1>4
  <2> QED BY <1>1, <1>3, <1>4, <2>1, FilledIs
<1> HIDE DEF d
<1> QED BY <1>1, <1>5, <1>6, CountIs DEF Cal

\* Doubling the buckets keeps the events and the time of the last one.
LEMMA ResizeUpIs ==
    ASSUME NEW c, NEW T, Cal(c, T)
    PROVE  Cal(ResizeUp(c), T) /\ ResizeUp(c).lastPrio = c.lastPrio
<1>1. c.nBuckets \in Nat \ {0}
  BY DEF Cal, Holds, Bucketed
<1>2. c.nBuckets * 2 \in Nat \ {0}
  BY <1>1
<1> QED BY <1>2, ResizeIs DEF ResizeUp

\* So does halving them.
LEMMA ResizeDownIs ==
    ASSUME NEW c, NEW T, Cal(c, T)
    PROVE  Cal(ResizeDown(c), T) /\ ResizeDown(c).lastPrio = c.lastPrio
<1>1. c.nBuckets \in Nat \ {0} /\ c.qSize \in Nat
  BY FS_CardinalityType DEF Cal, Holds, Bucketed
<1>2. CASE c.qSize < c.nBuckets \div 2
  <2>1. c.nBuckets \div 2 \in Nat \ {0}
    BY <1>1, <1>2
  <2>2. ResizeDown(c) = Resize(c, c.nBuckets \div 2)
    BY <1>2 DEF ResizeDown
  <2> QED BY <2>1, <2>2, ResizeIs
<1>3. CASE ~(c.qSize < c.nBuckets \div 2)
  BY <1>3 DEF ResizeDown
<1> QED BY <1>2, <1>3

\* The three calls.
LEMMA CalendarInsertIs ==
    ASSUME NEW c, NEW T, Cal(c, T), NEW e \in Events, e \notin T, e.ts >= c.lastPrio
    PROVE  Cal(CalendarInsert(c, e), T \union {e}) /\ CalendarInsert(c, e).lastPrio = c.lastPrio
<1> DEFINE d == DoInsert(c, e)
<1>1. Holds(c, T) /\ c.qSize = Cardinality(T) /\ IsFiniteSet(T) /\ c.qSize \in Nat
  BY FS_CardinalityType DEF Cal, Holds
<1>2. /\ Holds(d, T \union {e}) /\ Cardinality(T \union {e}) = Cardinality(T) + 1
      /\ d.qSize = c.qSize /\ d.lastPrio = c.lastPrio
  BY <1>1, PutIs DEF SamePlace
<1>3. CalendarInsert(c, e) = ResizeUp([d EXCEPT !.qSize = d.qSize + 1])
  BY DEF CalendarInsert
<1> HIDE DEF d
<1>4. /\ Cal([d EXCEPT !.qSize = d.qSize + 1], T \union {e})
      /\ [d EXCEPT !.qSize = d.qSize + 1].lastPrio = c.lastPrio
  <2>1. d.qSize + 1 \in Nat
    BY <1>1, <1>2
  <2> QED BY <1>1, <1>2, <2>1, CountIs DEF Cal
<1> QED BY <1>3, <1>4, ResizeUpIs

\* RemoveNext takes the earliest event out of the calendar.
LEMMA CalendarRemoveNextIs ==
    ASSUME NEW c, NEW T, Cal(c, T), T # {}
    PROVE  /\ NextEvent(c) \in T
           /\ \A f \in T \ {NextEvent(c)} : Less(NextEvent(c), f)
           /\ Cal(CalendarRemoveNext(c), T \ {NextEvent(c)})
           /\ CalendarRemoveNext(c).lastPrio = NextEvent(c).ts
<1> DEFINE d == DoRemoveNext(c)
           e == NextEvent(c)
<1>1. Holds(c, T) /\ c.qSize = Cardinality(T) /\ IsFiniteSet(T) /\ c.qSize \in Nat
  BY FS_CardinalityType DEF Cal, Holds
<1>2. /\ e \in T /\ \A f \in T \ {e} : Less(e, f)
      /\ Holds(d, T \ {e}) /\ Cardinality(T \ {e}) = Cardinality(T) - 1
      /\ d.qSize = c.qSize /\ d.lastPrio = e.ts
  BY <1>1, TakeIs
<1>3. CalendarRemoveNext(c) = ResizeDown([d EXCEPT !.qSize = d.qSize - 1])
  BY DEF CalendarRemoveNext
<1> HIDE DEF d, e
<1>4. /\ Cal([d EXCEPT !.qSize = d.qSize - 1], T \ {e})
      /\ [d EXCEPT !.qSize = d.qSize - 1].lastPrio = e.ts
  <2>1. IsFiniteSet(T \ {e})
    BY <1>2 DEF Holds
  <2>2. d.qSize - 1 \in Nat
    BY <1>1, <1>2, <2>1, FS_CardinalityType
  <2> QED BY <1>1, <1>2, <2>2, CountIs DEF Cal
<1>5. /\ Cal(CalendarRemoveNext(c), T \ {e})
      /\ CalendarRemoveNext(c).lastPrio = e.ts
  BY <1>3, <1>4, ResizeDownIs
<1> QED BY <1>2, <1>5 DEF e

\* Remove takes the event it is given out of the calendar.
LEMMA CalendarRemoveIs ==
    ASSUME NEW c, NEW T, Cal(c, T), NEW e \in T, \A f \in T : f.uid = e.uid => f = e
    PROVE  Cal(CalendarRemove(c, e), T \ {e}) /\ CalendarRemove(c, e).lastPrio = c.lastPrio
<1> DEFINE h == Hash(c, e.ts)
           s == Erase(c.buckets[h], e)
           b == [c.buckets EXCEPT ![h] = s]
           d == [c EXCEPT !.buckets = b]
<1>1. /\ Holds(c, T) /\ Bucketed(c) /\ Begins(c) /\ Stored(c) = T /\ IsFiniteSet(T)
      /\ c.qSize = Cardinality(T) /\ c.qSize \in Nat
      /\ c \in Calendars /\ c.buckets \in Buckets /\ DOMAIN c.buckets = 0 .. c.nBuckets - 1
  <2>1. Holds(c, T) /\ Bucketed(c) /\ c.qSize = Cardinality(T)
    BY DEF Cal, Holds
  <2>2. Begins(c) /\ Stored(c) = T /\ IsFiniteSet(T)
    BY <2>1 DEF Holds
  <2>3. c \in Calendars /\ c.buckets \in Buckets /\ DOMAIN c.buckets = 0 .. c.nBuckets - 1
    BY <2>1 DEF Bucketed, Calendars
  <2> QED BY <2>1, <2>2, <2>3, FS_CardinalityType
<1>2. h \in 0 .. c.nBuckets - 1 /\ e \in ToSet(c.buckets[h]) /\ e \in Events
  BY <1>1, StoredIs
<1>3. Sorted(c.buckets[h]) /\ \A f \in ToSet(c.buckets[h]) : Hash(c, f.ts) = h
  BY <1>1, <1>2 DEF Bucketed
<1>4. \A f \in ToSet(c.buckets[h]) : f.uid = e.uid => f = e
  <2>1. ASSUME NEW f \in ToSet(c.buckets[h]) PROVE f \in T
    BY <1>1, <1>2, StoredIs
  <2> QED BY <2>1
<1>5. Sorted(s) /\ ToSet(s) = ToSet(c.buckets[h]) \ {e}
  BY <1>2, <1>3, <1>4, EraseIs
<1>6. \A f \in ToSet(s) : Hash(c, f.ts) = h
  BY <1>3, <1>5
<1>7. CalendarRemove(c, e) = ResizeDown([d EXCEPT !.qSize = d.qSize - 1])
  <2>1. [c EXCEPT !.buckets[Hash(c, e.ts)] = Erase(@, e), !.qSize = @ - 1]
          = [d EXCEPT !.qSize = d.qSize - 1]
    <3>1. [c EXCEPT !.buckets[Hash(c, e.ts)] = Erase(@, e), !.qSize = @ - 1]
            = [c EXCEPT !.buckets = b, !.qSize = c.qSize - 1]
      OBVIOUS
    <3> HIDE DEF b
    <3>2. d.qSize = c.qSize
      BY <1>1 DEF Calendars
    <3>3. [c EXCEPT !.buckets = b, !.qSize = c.qSize - 1] = [d EXCEPT !.qSize = c.qSize - 1]
      BY <1>1 DEF Calendars
    <3> QED BY <3>1, <3>2, <3>3
  <2> QED BY <2>1 DEF CalendarRemove
<1> HIDE DEF s
<1>8. /\ b \in Buckets /\ DOMAIN b = DOMAIN c.buckets /\ b[h] = s
      /\ \A i \in DOMAIN c.buckets : i # h => b[i] = c.buckets[i]
  <2>1. s \in Seq(Events) /\ h \in DOMAIN c.buckets
    BY <1>1, <1>2, <1>5 DEF Sorted
  <2> HIDE DEF h
  <2> QED BY <1>1, <2>1, BucketsIs
<1> HIDE DEF b
<1>9. d \in Calendars /\ d.buckets = b /\ SamePlace(c, d)
  BY <1>1, <1>8 DEF Calendars, SamePlace
<1> HIDE DEF d
<1>10. Changes(c, d, h, s)
  BY <1>8, <1>9 DEF Changes, SamePlace
<1>11. Bucketed(d) /\ Stored(d) = T \ {e}
  <2>1. h \in 0 .. c.nBuckets - 1 /\ Hash(c, e.ts) = h
    BY <1>2
  <2> HIDE DEF h
  <2> QED BY <1>1, <1>5, <1>6, <1>10, <2>1, OneBucket
<1>12. Begins(d)
  <2>1. \A ts : Hash(d, ts) = Hash(c, ts)
    BY <1>9 DEF Hash, SamePlace
  <2> QED BY <1>1, <1>9, <1>11, <2>1 DEF Begins, SamePlace
<1>13. IsFiniteSet(T \ {e}) /\ Cardinality(T \ {e}) = Cardinality(T) - 1
  BY <1>1, FS_RemoveElement
<1>14. Holds(d, T \ {e}) /\ d.qSize = c.qSize /\ d.lastPrio = c.lastPrio
  BY <1>9, <1>11, <1>12, <1>13 DEF Holds, SamePlace
<1>15. /\ Cal([d EXCEPT !.qSize = d.qSize - 1], T \ {e})
       /\ [d EXCEPT !.qSize = d.qSize - 1].lastPrio = c.lastPrio
  <2>1. d.qSize - 1 \in Nat
    BY <1>1, <1>13, <1>14, FS_CardinalityType
  <2> QED BY <1>1, <1>13, <1>14, <2>1, CountIs DEF Cal
<1> QED BY <1>7, <1>15, ResizeDownIs

-----------------------------------------------------------------------------
(***************************************************************************)
(* The heap.                                                               *)
(***************************************************************************)

\* The turns of a walk up, in a set of states that each turn stays in.
LEMMA BottomUpWalks ==
    ASSUME NEW h, Len(h) \in Nat, NEW i, NEW S, Stay(h, i) \in S,
           \A p \in S : Rise(p.heap, p.index) \in S
    PROVE  \E after \in [0 .. Len(h) -> S] :
              /\ after[0] = Stay(h, i)
              /\ \A k \in 1 .. Len(h) : after[k] = Rise(after[k - 1].heap, after[k - 1].index)
              /\ BottomUp(h, i) = after[Len(h)].heap
<1> DEFINE n == Len(h)
           F == [k \in 1 .. n |-> [p \in S |-> Rise(p.heap, p.index)]]
           Walk(f) == f = [k \in 0 .. n |->
                             IF k = 0 THEN Stay(h, i) ELSE Rise(f[k - 1].heap, f[k - 1].index)]
           after == CHOOSE f : Walk(f)
           T(f) == {k \in Nat : k <= n => f[k] \in S}
<1>1. StepsIn(F, S, n)
  BY DEF StepsIn
<1>2. n \in Nat
  OBVIOUS
<1>3. BottomUp(h, i) = after[n].heap
  BY DEF BottomUp
<1> HIDE DEF F, n
<1>4. PICK g : Follows(g, F, S, Stay(h, i), n)
  BY <1>1, <1>2, Recursion
<1>5. g \in [0 .. n -> S] /\ g[0] = Stay(h, i) /\ \A k \in 1 .. n : g[k] = F[k][g[k - 1]]
  BY <1>4 DEF Follows
<1>6. ASSUME NEW k \in 1 .. n PROVE g[k] = Rise(g[k - 1].heap, g[k - 1].index)
  <2>1. k - 1 \in 0 .. n
    BY <1>2
  <2>2. g[k - 1] \in S /\ g[k] = F[k][g[k - 1]]
    BY <1>5, <2>1
  <2> QED BY <2>2 DEF F
<1>7. Walk(g)
  <2>1. g = [k \in 0 .. n |-> g[k]]
    BY <1>5
  <2>2. ASSUME NEW k \in 0 .. n
        PROVE  g[k] = IF k = 0 THEN Stay(h, i) ELSE Rise(g[k - 1].heap, g[k - 1].index)
    <3>1. k = 0 \/ k \in 1 .. n
      BY <1>2
    <3> QED BY <1>5, <1>6, <3>1
  <2> QED BY <2>1, <2>2
<1>8. Walk(after)
  BY <1>7
<1> HIDE DEF after
<1>9. after[0] = Stay(h, i) /\ \A k \in 1 .. n : after[k] = Rise(after[k - 1].heap, after[k - 1].index)
  BY <1>2, <1>8
<1>10. after \in [0 .. n -> S]
  <2>1. 0 \in T(after)
    BY <1>9
  <2>2. ASSUME NEW k \in Nat, k \in T(after) PROVE k + 1 \in T(after)
    <3>1. SUFFICES ASSUME k + 1 <= n PROVE after[k + 1] \in S
      OBVIOUS
    <3>2. k + 1 \in 1 .. n /\ (k + 1) - 1 = k /\ k <= n
      BY <1>2, <3>1
    <3>3. after[k] \in S
      BY <2>2, <3>2
    <3>4. after[k + 1] = Rise(after[k].heap, after[k].index)
      BY <1>9, <3>2
    <3> QED BY <3>3, <3>4
  <2>3. Nat \subseteq T(after)
    <3> DEFINE U == T(after)
    <3>1. 0 \in U /\ \A k \in Nat : k \in U => k + 1 \in U
      BY <2>1, <2>2
    <3> HIDE DEF U
    <3>2. Nat \subseteq U
      BY <3>1, Induction
    <3> QED BY <3>2 DEF U
  <2>4. \A k \in 0 .. n : after[k] \in S
    BY <1>2, <2>3
  <2>5. DOMAIN after = 0 .. n /\ after = [k \in 0 .. n |-> after[k]]
    BY <1>8
  <2> QED BY <2>4, <2>5
<1> QED BY <1>3, <1>9, <1>10 DEF n

\* The same for a walk down.
LEMMA TopDownWalks ==
    ASSUME NEW h, Len(h) \in Nat, NEW i, NEW S, Stay(h, i) \in S,
           \A p \in S : Sink(p.heap, p.index) \in S
    PROVE  \E after \in [0 .. Len(h) -> S] :
              /\ after[0] = Stay(h, i)
              /\ \A k \in 1 .. Len(h) : after[k] = Sink(after[k - 1].heap, after[k - 1].index)
              /\ TopDown(h, i) = after[Len(h)].heap
<1> DEFINE n == Len(h)
           F == [k \in 1 .. n |-> [p \in S |-> Sink(p.heap, p.index)]]
           Walk(f) == f = [k \in 0 .. n |->
                             IF k = 0 THEN Stay(h, i) ELSE Sink(f[k - 1].heap, f[k - 1].index)]
           after == CHOOSE f : Walk(f)
           T(f) == {k \in Nat : k <= n => f[k] \in S}
<1>1. StepsIn(F, S, n)
  BY DEF StepsIn
<1>2. n \in Nat
  OBVIOUS
<1>3. TopDown(h, i) = after[n].heap
  BY DEF TopDown
<1> HIDE DEF F, n
<1>4. PICK g : Follows(g, F, S, Stay(h, i), n)
  BY <1>1, <1>2, Recursion
<1>5. g \in [0 .. n -> S] /\ g[0] = Stay(h, i) /\ \A k \in 1 .. n : g[k] = F[k][g[k - 1]]
  BY <1>4 DEF Follows
<1>6. ASSUME NEW k \in 1 .. n PROVE g[k] = Sink(g[k - 1].heap, g[k - 1].index)
  <2>1. k - 1 \in 0 .. n
    BY <1>2
  <2>2. g[k - 1] \in S /\ g[k] = F[k][g[k - 1]]
    BY <1>5, <2>1
  <2> QED BY <2>2 DEF F
<1>7. Walk(g)
  <2>1. g = [k \in 0 .. n |-> g[k]]
    BY <1>5
  <2>2. ASSUME NEW k \in 0 .. n
        PROVE  g[k] = IF k = 0 THEN Stay(h, i) ELSE Sink(g[k - 1].heap, g[k - 1].index)
    <3>1. k = 0 \/ k \in 1 .. n
      BY <1>2
    <3> QED BY <1>5, <1>6, <3>1
  <2> QED BY <2>1, <2>2
<1>8. Walk(after)
  BY <1>7
<1> HIDE DEF after
<1>9. after[0] = Stay(h, i) /\ \A k \in 1 .. n : after[k] = Sink(after[k - 1].heap, after[k - 1].index)
  BY <1>2, <1>8
<1>10. after \in [0 .. n -> S]
  <2>1. 0 \in T(after)
    BY <1>9
  <2>2. ASSUME NEW k \in Nat, k \in T(after) PROVE k + 1 \in T(after)
    <3>1. SUFFICES ASSUME k + 1 <= n PROVE after[k + 1] \in S
      OBVIOUS
    <3>2. k + 1 \in 1 .. n /\ (k + 1) - 1 = k /\ k <= n
      BY <1>2, <3>1
    <3>3. after[k] \in S
      BY <2>2, <3>2
    <3>4. after[k + 1] = Sink(after[k].heap, after[k].index)
      BY <1>9, <3>2
    <3> QED BY <3>3, <3>4
  <2>3. Nat \subseteq T(after)
    <3> DEFINE U == T(after)
    <3>1. 0 \in U /\ \A k \in Nat : k \in U => k + 1 \in U
      BY <2>1, <2>2
    <3> HIDE DEF U
    <3>2. Nat \subseteq U
      BY <3>1, Induction
    <3> QED BY <3>2 DEF U
  <2>4. \A k \in 0 .. n : after[k] \in S
    BY <1>2, <2>3
  <2>5. DOMAIN after = 0 .. n /\ after = [k \in 0 .. n |-> after[k]]
    BY <1>8
  <2> QED BY <2>4, <2>5
<1> QED BY <1>3, <1>9, <1>10 DEF n

\* No item twice.
Distinct(h) == \A j, k \in 1 .. Len(h) : h[j] = h[k] => j = k

\* g has the items of h, in another order.
SameItems(g, h) ==
    Len(g) = Len(h) /\ ToSet(g) = ToSet(h) /\ (Distinct(h) => Distinct(g))

\* Exchanging two items of the heap keeps its items.
LEMMA ExchIs ==
    ASSUME NEW K, NEW h \in Seq(K), NEW a \in 1 .. Len(h), NEW b \in 1 .. Len(h)
    PROVE  /\ Exch(h, a, b) \in Seq(K) /\ Len(Exch(h, a, b)) = Len(h)
           /\ \A j \in 1 .. Len(h) :
                 Exch(h, a, b)[j] = IF j = b THEN h[a] ELSE IF j = a THEN h[b] ELSE h[j]
           /\ SameItems(Exch(h, a, b), h)
<1> DEFINE g == Exch(h, a, b)
           to(j) == IF j = b THEN a ELSE IF j = a THEN b ELSE j
<1>1. /\ Len(h) \in Nat /\ DOMAIN h = 1 .. Len(h) /\ h \in [1 .. Len(h) -> K]
  BY LenProperties
<1>2. g \in [1 .. Len(h) -> K] /\ \A j \in 1 .. Len(h) : g[j] = h[to(j)]
  BY <1>1 DEF Exch
<1>3. g \in Seq(K) /\ Len(g) = Len(h)
  BY <1>1, <1>2
<1>4. \A j \in 1 .. Len(h) : to(j) \in 1 .. Len(h) /\ to(to(j)) = j
  OBVIOUS
<1> HIDE DEF g, to
<1>5. ToSet(g) = ToSet(h)
  <2>1. ASSUME NEW x PROVE x \in ToSet(g) <=> x \in ToSet(h)
    <3>1. x \in ToSet(g) <=> \E j \in 1 .. Len(h) : g[j] = x
      BY <1>3, ToSetIs
    <3>2. x \in ToSet(h) <=> \E j \in 1 .. Len(h) : h[j] = x
      BY ToSetIs
    <3>3. ASSUME NEW j \in 1 .. Len(h) PROVE g[j] = h[to(j)] /\ h[j] = g[to(j)]
      BY <1>2, <1>4
    <3> QED BY <1>4, <3>1, <3>2, <3>3
  <2> QED BY <2>1
<1>6. Distinct(h) => Distinct(g)
  <2>1. ASSUME Distinct(h), NEW j \in 1 .. Len(h), NEW k \in 1 .. Len(h), g[j] = g[k]
        PROVE  j = k
    <3>1. to(j) = to(k)
      BY <1>2, <1>4, <2>1 DEF Distinct
    <3> QED BY <1>4, <3>1
  <2> QED BY <1>3, <2>1 DEF Distinct
<1> QED BY <1>2, <1>3, <1>5, <1>6 DEF SameItems, g, to

\* The same of the type alone.
LEMMA ExchTypes ==
    ASSUME NEW K, NEW h \in Seq(K), NEW a \in 1 .. Len(h), NEW b \in 1 .. Len(h)
    PROVE  Exch(h, a, b) \in Seq(K) /\ Len(Exch(h, a, b)) = Len(h)
BY ExchIs

\* The heap property.
Heap(h) ==
    h \in Seq(Events) /\ \A j \in 2 .. Len(h) : ~Less(h[j], h[j \div 2])

\* The heap property but for the item at i, which may be too early for its place.
Rising(h, i) ==
    /\ h \in Seq(Events) /\ i \in 1 .. Len(h)
    /\ \A j \in 2 .. Len(h) : j # i => ~Less(h[j], h[j \div 2])
    /\ \A j \in 2 .. Len(h) : j \div 2 = i /\ i >= 2 => ~Less(h[j], h[i \div 2])

Risen(h, i) == i = 1 \/ ~Less(h[i], h[i \div 2])

\* A turn of the walk up.
LEMMA RiseIs ==
    ASSUME NEW h, NEW i, Rising(h, i)
    PROVE  /\ Rising(Rise(h, i).heap, Rise(h, i).index)
           /\ SameItems(Rise(h, i).heap, h)
           /\ Risen(h, i) => Rise(h, i) = Stay(h, i)
           /\ ~Risen(h, i) => Rise(h, i).index < i
<1>1. CASE Risen(h, i)
  <2>1. Rise(h, i) = Stay(h, i)
    BY <1>1 DEF Rise, Risen
  <2> QED BY <1>1, <2>1 DEF Stay, SameItems
<1>2. CASE ~Risen(h, i)
  <2> DEFINE p == i \div 2
             g == Exch(h, i, p)
             n == Len(h)
  <2>1. Rise(h, i).heap = g /\ Rise(h, i).index = p
    BY <1>2 DEF Rise, Risen, Move
  <2>2. /\ h \in Seq(Events) /\ n \in Nat /\ i \in 2 .. n /\ Less(h[i], h[p])
        /\ \A j \in 2 .. n : j # i => ~Less(h[j], h[j \div 2])
        /\ \A j \in 2 .. n : j \div 2 = i /\ i >= 2 => ~Less(h[j], h[i \div 2])
    BY <1>2, LenProperties DEF Risen, Rising
  <2>3. p \in 1 .. n /\ p < i /\ i \in 1 .. n
    BY <2>2
  <2>4. \A j \in 1 .. n : h[j] \in Events
    BY <2>2
  <2> HIDE DEF p
  <2>5. /\ g \in Seq(Events) /\ Len(g) = n /\ SameItems(g, h)
        /\ \A j \in 1 .. n : g[j] = IF j = p THEN h[i] ELSE IF j = i THEN h[p] ELSE h[j]
    BY <2>2, <2>3, ExchIs
  <2> HIDE DEF g, n
  <2>6. ASSUME NEW j \in 2 .. n PROVE j \div 2 \in 1 .. n /\ j \div 2 < j /\ j \in 1 .. n
    BY <2>2
  <2>7. ASSUME NEW j \in 2 .. n, j # p PROVE ~Less(g[j], g[j \div 2])
    <3> DEFINE q == j \div 2
    <3>1. q \in 1 .. n /\ q < j /\ j \in 1 .. n
      BY <2>6
    <3>2. CASE j = i
      <4>1. q = p
        BY <3>2 DEF p
      <4>2. g[j] = h[p] /\ g[q] = h[i]
        BY <2>3, <2>5, <3>1, <3>2, <4>1
      <4> HIDE DEF q
      <4> QED BY <2>2, <2>3, <2>4, <4>2, LessOrders DEF q
    <3>3. CASE j # i
      <4>1. g[j] = h[j] /\ ~Less(h[j], h[q])
        BY <2>2, <2>5, <2>7, <3>1, <3>3
      <4>2. CASE q = i
        <5>1. g[q] = h[p]
          BY <2>3, <2>5, <3>1, <4>2
        <5>2. ~Less(h[j], h[p])
          BY <2>2, <4>2 DEF p
        <5> QED BY <4>1, <5>1, <5>2
      <4>3. CASE q = p
        <5>1. g[q] = h[i] /\ ~Less(h[j], h[p])
          BY <2>3, <2>5, <3>1, <4>1, <4>3
        <5>2. h[j] \in Events /\ h[i] \in Events /\ h[p] \in Events
          BY <2>3, <2>4, <3>1
        <5>3. ~Less(h[j], h[i])
          BY <2>2, <5>1, <5>2, LessOrders
        <5> QED BY <4>1, <5>1, <5>3
      <4>4. CASE q # i /\ q # p
        <5>1. g[q] = h[q]
          BY <2>5, <3>1, <4>4
        <5> QED BY <4>1, <5>1
      <4> QED BY <4>2, <4>3, <4>4
    <3> QED BY <3>2, <3>3
  <2>8. ASSUME NEW j \in 2 .. n, j \div 2 = p, p >= 2 PROVE ~Less(g[j], g[p \div 2])
    <3> DEFINE q == p \div 2
    <3>1. q \in 1 .. n /\ q < p /\ p \in 2 .. n /\ j \in 1 .. n /\ p < j
      BY <2>3, <2>6, <2>8
    <3>2. g[q] = h[q] /\ ~Less(h[p], h[q])
      BY <2>2, <2>3, <2>5, <3>1
    <3> HIDE DEF q
    <3>3. CASE j = i
      <4>1. g[j] = h[p]
        BY <2>3, <2>5, <3>3
      <4> QED BY <3>2, <4>1 DEF q
    <3>4. CASE j # i
      <4>1. g[j] = h[j] /\ ~Less(h[j], h[p])
        BY <2>2, <2>5, <2>8, <3>1, <3>4
      <4>2. h[j] \in Events /\ h[p] \in Events /\ h[q] \in Events
        BY <2>3, <2>4, <3>1
      <4>3. ~Less(h[j], h[q])
        BY <3>2, <4>1, <4>2, LessOrders
      <4> QED BY <3>2, <4>1, <4>3 DEF q
    <3> QED BY <3>3, <3>4
  <2>9. Rising(g, p)
    BY <2>3, <2>5, <2>7, <2>8 DEF Rising
  <2> QED BY <1>2, <2>1, <2>3, <2>5, <2>9
<1> QED BY <1>1, <1>2

\* The walk up restores the heap property.
LEMMA BottomUpIs ==
    ASSUME NEW h, NEW i, Rising(h, i)
    PROVE  Heap(BottomUp(h, i)) /\ SameItems(BottomUp(h, i), h)
<1> DEFINE n == Len(h)
           S == {p \in [heap : Seq(Events), index : Nat] :
                   Rising(p.heap, p.index) /\ SameItems(p.heap, h)}
<1>0. h \in Seq(Events) /\ n \in Nat /\ i \in 1 .. n /\ i \in Nat
  BY LenProperties DEF Rising
<1>1. Stay(h, i) \in S
  BY <1>0 DEF Stay, SameItems
<1>2. ASSUME NEW p \in S
      PROVE  Rise(p.heap, p.index) \in S
  <2> DEFINE q == Rise(p.heap, p.index)
  <2>1. Rising(q.heap, q.index) /\ SameItems(q.heap, p.heap)
    BY RiseIs
  <2>2. SameItems(q.heap, h)
    BY <2>1 DEF SameItems
  <2>3. q = [heap |-> q.heap, index |-> q.index]
    BY DEF Rise, Stay, Move
  <2>4. q.heap \in Seq(Events) /\ q.index \in Nat
    BY <2>1, LenProperties DEF Rising
  <2> HIDE DEF q
  <2>5. q \in S
    BY <2>1, <2>2, <2>3, <2>4
  <2> QED BY <2>5 DEF q
<1>3. PICK after \in [0 .. n -> S] :
         /\ after[0] = Stay(h, i)
         /\ \A k \in 1 .. n : after[k] = Rise(after[k - 1].heap, after[k - 1].index)
         /\ BottomUp(h, i) = after[n].heap
  <2> HIDE DEF S
  <2> QED BY <1>0, <1>1, <1>2, BottomUpWalks
<1>4. ASSUME NEW k \in 0 .. n
      PROVE  /\ Rising(after[k].heap, after[k].index)
             /\ SameItems(after[k].heap, h) /\ after[k].index \in Nat
  BY <1>3
<1> DEFINE T == {k \in Nat : k <= n => \/ Risen(after[k].heap, after[k].index)
                                       \/ after[k].index <= i - k}
<1>5. 0 \in T
  <2>1. after[0].index = i
    BY <1>3 DEF Stay
  <2> QED BY <1>0, <2>1
<1>6. ASSUME NEW k \in Nat, k \in T PROVE k + 1 \in T
  <2>1. SUFFICES ASSUME k + 1 <= n
                 PROVE  \/ Risen(after[k + 1].heap, after[k + 1].index)
                        \/ after[k + 1].index <= i - (k + 1)
    OBVIOUS
  <2>2. k + 1 \in 1 .. n /\ (k + 1) - 1 = k /\ k \in 0 .. n /\ k <= n
    BY <1>0, <2>1
  <2>3. after[k + 1] = Rise(after[k].heap, after[k].index)
    BY <1>3, <2>2
  <2>4. Rising(after[k].heap, after[k].index) /\ after[k].index \in Nat
    BY <1>4, <2>2
  <2>5. \/ Risen(after[k].heap, after[k].index)
        \/ after[k].index <= i - k
    BY <1>6, <2>2
  <2>6. CASE Risen(after[k].heap, after[k].index)
    <3>1. after[k + 1] = Stay(after[k].heap, after[k].index)
      BY <2>3, <2>4, <2>6, RiseIs
    <3>2. after[k + 1].heap = after[k].heap /\ after[k + 1].index = after[k].index
      BY <3>1 DEF Stay
    <3> QED BY <2>6, <3>2
  <2>7. CASE ~Risen(after[k].heap, after[k].index)
    <3>1. after[k + 1].index < after[k].index
      BY <2>3, <2>4, <2>7, RiseIs
    <3>2. after[k + 1].index \in Nat
      BY <1>4, <2>2
    <3> QED BY <1>0, <2>4, <2>5, <2>7, <3>1, <3>2
  <2> QED BY <2>6, <2>7
<1>7. n \in T
  <2> HIDE DEF T
  <2> QED BY <1>0, <1>5, <1>6, Induction
<1> DEFINE g == after[n].heap
           j == after[n].index
<1>8. Rising(g, j) /\ SameItems(g, h)
  BY <1>0, <1>4
<1>9. Risen(g, j)
  <2>1. Risen(g, j) \/ j <= i - n
    BY <1>0, <1>7
  <2>2. j >= 1
    BY <1>8 DEF Rising
  <2> QED BY <1>0, <2>1, <2>2, <1>4
<1> HIDE DEF g, j
<1>10. Heap(g)
  BY <1>8, <1>9 DEF Rising, Risen, Heap
<1> QED BY <1>3, <1>8, <1>10 DEF g

\* The heap property but for the item at i, which may be too late for its place.
Sinking(h, i) ==
    /\ h \in Seq(Events) /\ i \in 1 .. Len(h)
    /\ \A j \in 2 .. Len(h) : j \div 2 # i => ~Less(h[j], h[j \div 2])
    /\ \A j \in 2 .. Len(h) : j \div 2 = i /\ i >= 2 => ~Less(h[j], h[i \div 2])

\* The item at i is no later than those below it.
Sunk(h, i) == \A j \in 2 .. Len(h) : j \div 2 = i => ~Less(h[j], h[i])

\* The walk down ends here.
Settled(h, i) == Sink(h, i) = Stay(h, i) /\ Sunk(h, i)

\* A turn of the walk down stays where it is, or exchanges the item with the
\* earlier of those below it.
LEMMA SinkChooses ==
    ASSUME NEW h, h \in Seq(Events), NEW i \in 1 .. Len(h)
    PROVE  \/ Sink(h, i) = Stay(h, i) /\ Sunk(h, i)
           \/ \E c \in 2 .. Len(h) :
                 /\ Sink(h, i) = Move(h, i, c) /\ c \div 2 = i /\ i < c
                 /\ ~Less(h[i], h[c])
                 /\ \A j \in 2 .. Len(h) : j \div 2 = i => ~Less(h[j], h[c])
<1> DEFINE n == Len(h)
           c == SmallerChild(h, i)
<1>0. n \in Nat /\ i \in 1 .. n /\ \A j \in 1 .. n : h[j] \in Events
  BY LenProperties
<1>1. ASSUME NEW j \in 2 .. n PROVE (j \div 2 = i) <=> (j = 2 * i \/ j = 2 * i + 1)
  BY <1>0
<1>2. CASE 2 * i + 1 <= n
  <2>0. 2 * i \in 2 .. n /\ 2 * i + 1 \in 2 .. n /\ 2 * i \in 1 .. n /\ 2 * i + 1 \in 1 .. n
    BY <1>0, <1>2
  <2>1. h[2 * i] \in Events /\ h[2 * i + 1] \in Events /\ h[i] \in Events
    BY <1>0, <2>0
  <2>2. /\ c \in 2 .. n /\ (c = 2 * i \/ c = 2 * i + 1)
        /\ ~Less(h[2 * i], h[c]) /\ ~Less(h[2 * i + 1], h[c])
    <3>1. CASE Less(h[2 * i], h[2 * i + 1])
      <4>1. c = 2 * i
        BY <3>1 DEF SmallerChild, Smallest
      <4> HIDE DEF c
      <4>2. ~Less(h[2 * i], h[2 * i]) /\ ~Less(h[2 * i + 1], h[2 * i])
        BY <2>1, <3>1, LessOrders
      <4> QED BY <2>0, <4>1, <4>2
    <3>2. CASE ~Less(h[2 * i], h[2 * i + 1])
      <4>1. c = 2 * i + 1
        BY <3>2 DEF SmallerChild, Smallest
      <4> HIDE DEF c
      <4>2. ~Less(h[2 * i + 1], h[2 * i + 1])
        BY <2>1, LessOrders
      <4> QED BY <2>0, <3>2, <4>1, <4>2
    <3> QED BY <3>1, <3>2
  <2> HIDE DEF c, n
  <2>3. \A j \in 2 .. n : j \div 2 = i => ~Less(h[j], h[c])
    BY <1>1, <2>2
  <2>4. CASE ~Less(h[i], h[c])
    <3>1. Sink(h, i) = Move(h, i, c)
      BY <1>2, <2>4 DEF Sink, c, n
    <3>2. c \div 2 = i /\ i < c
      BY <1>0, <1>1, <2>2
    <3> QED BY <2>2, <2>3, <2>4, <3>1, <3>2 DEF n
  <2>5. CASE Less(h[i], h[c])
    <3>1. Sink(h, i) = Stay(h, i)
      <4>1. 2 * i # n
        BY <1>0, <1>2
      <4> QED BY <1>2, <2>5, <4>1 DEF Sink, c, n
    <3>2. h[c] \in Events
      BY <2>1, <2>2
    <3>3. ASSUME NEW j \in 2 .. n, j \div 2 = i PROVE ~Less(h[j], h[i])
      <4>1. ~Less(h[j], h[c]) /\ h[j] \in Events
        BY <1>0, <2>3, <3>3
      <4> QED BY <2>1, <2>5, <3>2, <4>1, LessOrders
    <3> QED BY <3>1, <3>3 DEF Sunk, n
  <2> QED BY <2>4, <2>5
<1>3. CASE 2 * i = n
  <2>0. 2 * i \in 2 .. n /\ ~(2 * i + 1 <= n) /\ i < 2 * i
    BY <1>0, <1>3
  <2>1. \A j \in 2 .. n : j \div 2 = i <=> j = 2 * i
    BY <1>1, <1>3
  <2>2. h[2 * i] \in Events /\ h[i] \in Events
    BY <1>0, <2>0
  <2> HIDE DEF n
  <2>3. CASE ~Less(h[i], h[2 * i])
    <3>1. Sink(h, i) = Move(h, i, 2 * i)
      BY <1>3, <2>0, <2>3 DEF Sink, n
    <3>2. (2 * i) \div 2 = i
      BY <2>0, <2>1
    <3>3. \A j \in 2 .. n : j \div 2 = i => ~Less(h[j], h[2 * i])
      BY <2>1, <2>2, LessOrders
    <3> QED BY <2>0, <2>3, <3>1, <3>2, <3>3 DEF n
  <2>4. CASE Less(h[i], h[2 * i])
    <3>1. Sink(h, i) = Stay(h, i)
      BY <1>3, <2>0, <2>4 DEF Sink, n
    <3>2. \A j \in 2 .. n : j \div 2 = i => ~Less(h[j], h[i])
      BY <2>1, <2>2, <2>4, LessOrders
    <3> QED BY <3>1, <3>2 DEF Sunk, n
  <2> QED BY <2>3, <2>4
<1>4. CASE 2 * i > n
  <2>1. ~(2 * i + 1 <= n) /\ 2 * i # n
    BY <1>0, <1>4
  <2>2. Sink(h, i) = Stay(h, i)
    BY <2>1 DEF Sink
  <2>3. \A j \in 2 .. n : j \div 2 # i
    BY <1>0, <1>1, <1>4
  <2> QED BY <2>2, <2>3 DEF Sunk
<1> QED BY <1>0, <1>2, <1>3, <1>4

\* A turn of TopDown leaves the heap in order but for a place further down.
LEMMA SinkIs ==
    ASSUME NEW h, NEW i, Sinking(h, i)
    PROVE  /\ Sinking(Sink(h, i).heap, Sink(h, i).index)
           /\ SameItems(Sink(h, i).heap, h)
           /\ (Sunk(h, i) /\ Sink(h, i) = Stay(h, i)) \/ Sink(h, i).index > i
<1>0. h \in Seq(Events) /\ i \in 1 .. Len(h)
  BY DEF Sinking
<1>1. CASE Sink(h, i) = Stay(h, i) /\ Sunk(h, i)
  BY <1>1 DEF Stay, SameItems
<1>2. CASE \E c \in 2 .. Len(h) :
              /\ Sink(h, i) = Move(h, i, c) /\ c \div 2 = i /\ i < c
              /\ ~Less(h[i], h[c])
              /\ \A j \in 2 .. Len(h) : j \div 2 = i => ~Less(h[j], h[c])
  <2> DEFINE n == Len(h)
  <2>1. PICK c \in 2 .. n :
              /\ Sink(h, i) = Move(h, i, c) /\ c \div 2 = i /\ i < c
              /\ ~Less(h[i], h[c])
              /\ \A j \in 2 .. n : j \div 2 = i => ~Less(h[j], h[c])
    BY <1>2
  <2> DEFINE g == Exch(h, i, c)
  <2>2. Sink(h, i).heap = g /\ Sink(h, i).index = c
    BY <2>1 DEF Move
  <2>3. /\ h \in Seq(Events) /\ n \in Nat /\ i \in 1 .. n /\ c \in 1 .. n
        /\ \A j \in 1 .. n : h[j] \in Events
        /\ \A j \in 2 .. n : j \div 2 # i => ~Less(h[j], h[j \div 2])
        /\ \A j \in 2 .. n : j \div 2 = i /\ i >= 2 => ~Less(h[j], h[i \div 2])
    BY LenProperties DEF Sinking
  <2>5. /\ g \in Seq(Events) /\ Len(g) = n /\ SameItems(g, h)
        /\ \A j \in 1 .. n : g[j] = IF j = c THEN h[i] ELSE IF j = i THEN h[c] ELSE h[j]
    BY <2>3, ExchIs
  <2> HIDE DEF g, n
  <2>6. ASSUME NEW j \in 2 .. n PROVE j \div 2 \in 1 .. n /\ j \div 2 < j /\ j \in 1 .. n
    BY <2>3
  <2>7. ASSUME NEW j \in 2 .. n, j \div 2 # c PROVE ~Less(g[j], g[j \div 2])
    <3> DEFINE q == j \div 2
    <3>1. q \in 1 .. n /\ q < j /\ j \in 1 .. n /\ q # c
      BY <2>6, <2>7
    <3>2. CASE q = i
      <4>1. g[q] = h[c]
        BY <2>1, <2>3, <2>5, <3>2
      <4>2. CASE j = c
        <5>1. g[j] = h[i]
          BY <2>3, <2>5, <4>2
        <5> QED BY <2>1, <4>1, <5>1
      <4>3. CASE j # c
        <5>1. g[j] = h[j] /\ ~Less(h[j], h[c])
          BY <2>1, <2>5, <3>1, <3>2, <4>3
        <5> QED BY <4>1, <5>1
      <4> QED BY <4>2, <4>3
    <3>3. CASE q # i
      <4>1. g[q] = h[q]
        BY <2>5, <3>1, <3>3
      <4>2. CASE j = i
        <5>1. g[j] = h[c] /\ i >= 2
          BY <2>1, <2>3, <2>5, <4>2
        <5>2. ~Less(h[c], h[q])
          BY <2>1, <2>3, <4>2, <5>1
        <5> QED BY <4>1, <5>1, <5>2
      <4>3. CASE j # i
        <5>1. j # c
          BY <2>1, <3>3
        <5>2. g[j] = h[j] /\ ~Less(h[j], h[q])
          BY <2>3, <2>5, <3>1, <3>3, <4>3, <5>1
        <5> QED BY <4>1, <5>2
      <4> QED BY <4>2, <4>3
    <3> QED BY <3>2, <3>3
  <2>8. ASSUME NEW j \in 2 .. n, j \div 2 = c PROVE ~Less(g[j], g[c \div 2])
    <3>1. j # c /\ j # i /\ j \in 1 .. n /\ j \div 2 # i
      BY <2>1, <2>3, <2>6, <2>8
    <3>2. g[j] = h[j] /\ ~Less(h[j], h[j \div 2])
      BY <2>3, <2>5, <3>1
    <3>3. g[c \div 2] = h[c]
      BY <2>1, <2>3, <2>5
    <3> QED BY <2>8, <3>2, <3>3
  <2>9. Sinking(g, c)
    BY <2>3, <2>5, <2>7, <2>8 DEF Sinking
  <2> QED BY <2>1, <2>2, <2>5, <2>9
<1> QED BY <1>0, <1>1, <1>2, SinkChooses

\* The walk down restores the heap property.
LEMMA TopDownIs ==
    ASSUME NEW h, NEW i, Sinking(h, i)
    PROVE  Heap(TopDown(h, i)) /\ SameItems(TopDown(h, i), h)
<1> DEFINE n == Len(h)
           S == {p \in [heap : Seq(Events), index : Nat] :
                   Sinking(p.heap, p.index) /\ SameItems(p.heap, h)}
<1>0. h \in Seq(Events) /\ n \in Nat /\ i \in 1 .. n /\ i \in Nat
  BY LenProperties DEF Sinking
<1>1. Stay(h, i) \in S
  BY <1>0 DEF Stay, SameItems
<1>2. ASSUME NEW p \in S
      PROVE  Sink(p.heap, p.index) \in S
  <2> DEFINE q == Sink(p.heap, p.index)
  <2>1. Sinking(q.heap, q.index) /\ SameItems(q.heap, p.heap)
    BY SinkIs
  <2>2. SameItems(q.heap, h)
    BY <2>1 DEF SameItems
  <2>3. q = [heap |-> q.heap, index |-> q.index]
    BY DEF Sink, Stay, Move
  <2>4. q.heap \in Seq(Events) /\ q.index \in Nat
    BY <2>1, LenProperties DEF Sinking
  <2> HIDE DEF q
  <2>5. q \in S
    BY <2>1, <2>2, <2>3, <2>4
  <2> QED BY <2>5 DEF q
<1>3. PICK after \in [0 .. n -> S] :
         /\ after[0] = Stay(h, i)
         /\ \A k \in 1 .. n : after[k] = Sink(after[k - 1].heap, after[k - 1].index)
         /\ TopDown(h, i) = after[n].heap
  <2> HIDE DEF S
  <2> QED BY <1>0, <1>1, <1>2, TopDownWalks
<1>4. ASSUME NEW k \in 0 .. n
      PROVE  /\ Sinking(after[k].heap, after[k].index)
             /\ SameItems(after[k].heap, h) /\ after[k].index \in Nat
  BY <1>3
<1> DEFINE T == {k \in Nat : k <= n => \/ Settled(after[k].heap, after[k].index)
                                       \/ after[k].index >= i + k}
<1>5. 0 \in T
  <2>1. after[0].index = i
    BY <1>3 DEF Stay
  <2> QED BY <1>0, <2>1
<1>6. ASSUME NEW k \in Nat, k \in T PROVE k + 1 \in T
  <2>1. SUFFICES ASSUME k + 1 <= n
                 PROVE  \/ Settled(after[k + 1].heap, after[k + 1].index)
                        \/ after[k + 1].index >= i + (k + 1)
    OBVIOUS
  <2>2. k + 1 \in 1 .. n /\ (k + 1) - 1 = k /\ k \in 0 .. n /\ k <= n
    BY <1>0, <2>1
  <2>3. after[k + 1] = Sink(after[k].heap, after[k].index)
    BY <1>3, <2>2
  <2>4. Sinking(after[k].heap, after[k].index) /\ after[k].index \in Nat
    BY <1>4, <2>2
  <2>5. \/ Settled(after[k].heap, after[k].index)
        \/ after[k].index >= i + k
    BY <1>6, <2>2
  <2>6. CASE Settled(after[k].heap, after[k].index)
    <3>1. after[k + 1] = Stay(after[k].heap, after[k].index)
      BY <2>3, <2>6 DEF Settled
    <3>2. after[k + 1].heap = after[k].heap /\ after[k + 1].index = after[k].index
      BY <3>1 DEF Stay
    <3> QED BY <2>6, <3>2
  <2>7. CASE ~Settled(after[k].heap, after[k].index)
    <3>1. after[k + 1].index > after[k].index
      BY <2>3, <2>4, <2>7, SinkIs DEF Settled
    <3>2. after[k + 1].index \in Nat
      BY <1>4, <2>2
    <3> QED BY <1>0, <2>4, <2>5, <2>7, <3>1, <3>2
  <2> QED BY <2>6, <2>7
<1>7. n \in T
  <2> HIDE DEF T
  <2> QED BY <1>0, <1>5, <1>6, Induction
<1> DEFINE g == after[n].heap
           j == after[n].index
<1>8. Sinking(g, j) /\ SameItems(g, h)
  BY <1>0, <1>4
<1>9. Settled(g, j)
  <2>1. Settled(g, j) \/ j >= i + n
    BY <1>0, <1>7
  <2>2. j \in 1 .. n
    BY <1>8 DEF Sinking, SameItems
  <2> QED BY <1>0, <2>1, <2>2
<1> HIDE DEF g, j
<1>10. Heap(g)
  BY <1>8, <1>9 DEF Sinking, Settled, Sunk, Heap
<1> QED BY <1>3, <1>8, <1>10 DEF g

\* No item of a heap is earlier than the first.
LEMMA RootIsEarliest ==
    ASSUME NEW h, Heap(h), NEW j \in 1 .. Len(h)
    PROVE  ~Less(h[j], h[1])
<1> DEFINE T == {k \in 1 .. Len(h) : Less(h[k], h[1])}
<1>0. Len(h) \in Nat /\ \A k \in 1 .. Len(h) : h[k] \in Events
  BY LenProperties DEF Heap
<1>1. SUFFICES ASSUME T # {} PROVE FALSE
  OBVIOUS
<1>2. T \subseteq Nat
  BY <1>0
<1> HIDE DEF T
<1>3. PICK k \in T : \A x \in T : k <= x
  BY <1>1, <1>2, LeastExists
<1>4. k \in 1 .. Len(h) /\ Less(h[k], h[1])
  BY <1>3 DEF T
<1>5. h[1] \in Events /\ h[k] \in Events
  BY <1>0, <1>4
<1>6. k # 1
  BY <1>4, <1>5, LessOrders
<1> DEFINE p == k \div 2
<1>7. p \in 1 .. Len(h) /\ p < k /\ k \in 2 .. Len(h)
  BY <1>0, <1>4, <1>6
<1>8. ~Less(h[k], h[p])
  BY <1>7 DEF Heap
<1> HIDE DEF p
<1>9. p \notin T
  BY <1>0, <1>3, <1>7
<1>10. ~Less(h[p], h[1]) /\ h[p] \in Events
  BY <1>0, <1>7, <1>9 DEF T
<1> QED BY <1>4, <1>5, <1>8, <1>10, LessOrders

\* A heap takes in a new event.
LEMMA HeapInsertIs ==
    ASSUME NEW h, Heap(h), Distinct(h), NEW e \in Events, e \notin ToSet(h)
    PROVE  /\ Heap(HeapInsert(h, e)) /\ Distinct(HeapInsert(h, e))
           /\ ToSet(HeapInsert(h, e)) = ToSet(h) \union {e}
<1> DEFINE g == Append(h, e)
           n == Len(h)
<1>1. /\ h \in Seq(Events) /\ n \in Nat /\ \A j \in 2 .. n : ~Less(h[j], h[j \div 2])
      /\ \A j \in 1 .. n : h[j] \in Events /\ h[j] # e
  BY LenProperties, ToSetIs DEF Heap
<1>2. /\ g \in Seq(Events) /\ Len(g) = n + 1 /\ g[n + 1] = e
      /\ \A j \in 1 .. n : g[j] = h[j]
  <2>1. h \in Seq(Events) /\ e \in Events
    BY <1>1
  <2> QED BY <2>1, AppendProperties
<1> HIDE DEF g, n
<1>3. Rising(g, n + 1)
  <2>1. ASSUME NEW j \in 2 .. n + 1, j # n + 1 PROVE ~Less(g[j], g[j \div 2])
    <3>1. j \in 2 .. n /\ j \in 1 .. n /\ j \div 2 \in 1 .. n
      BY <1>1, <2>1
    <3> QED BY <1>1, <1>2, <3>1
  <2>2. ASSUME NEW j \in 2 .. n + 1 PROVE j \div 2 # n + 1
    BY <1>1
  <2> QED BY <1>1, <1>2, <2>1, <2>2 DEF Rising
<1>4. Heap(BottomUp(g, n + 1)) /\ SameItems(BottomUp(g, n + 1), g)
  BY <1>3, BottomUpIs
<1>5. ToSet(g) = ToSet(h) \union {e}
  <2>1. ASSUME NEW x PROVE x \in ToSet(g) <=> x \in ToSet(h) \/ x = e
    <3>1. x \in ToSet(g) <=> \E j \in 1 .. Len(g) : g[j] = x
      BY <1>2, ToSetIs
    <3>2. x \in ToSet(h) <=> \E j \in 1 .. n : h[j] = x
      BY <1>1, ToSetIs DEF n
    <3>3. \A j \in 1 .. Len(g) : j \in 1 .. n \/ j = n + 1
      BY <1>1, <1>2
    <3>4. n + 1 \in 1 .. Len(g) /\ \A j \in 1 .. n : j \in 1 .. Len(g)
      BY <1>1, <1>2
    <3> QED BY <1>2, <3>1, <3>2, <3>3, <3>4
  <2> QED BY <2>1
<1>6. Distinct(g)
  <2>1. ASSUME NEW j \in 1 .. n + 1, NEW k \in 1 .. n + 1, g[j] = g[k] PROVE j = k
    <3>1. (j \in 1 .. n \/ j = n + 1) /\ (k \in 1 .. n \/ k = n + 1)
      BY <1>1
    <3>2. \A x, y \in 1 .. n : h[x] = h[y] => x = y
      BY DEF Distinct, n
    <3> QED BY <1>1, <1>2, <2>1, <3>1, <3>2
  <2> QED BY <1>2, <2>1 DEF Distinct
<1>7. HeapInsert(h, e) = BottomUp(g, n + 1)
  BY DEF HeapInsert, g, n
<1> QED BY <1>4, <1>5, <1>6, <1>7 DEF SameItems

\* A sequence without its last item.
LEMMA FrontIs ==
    ASSUME NEW S, NEW s \in Seq(S), s # <<>>
    PROVE  /\ Front(s) \in Seq(S) /\ Len(Front(s)) = Len(s) - 1
           /\ \A j \in 1 .. Len(s) - 1 : Front(s)[j] = s[j]
<1> DEFINE n == Len(s) - 1
           t == SubSeq(s, 1, n)
<1>1. n \in Nat /\ n \in Int /\ 1 \in Int /\ \A j \in 1 .. n : s[j] \in S
  BY EmptySeq, LenProperties
<1>2. /\ t \in Seq(S) /\ Len(t) = IF 1 <= n THEN n - 1 + 1 ELSE 0
      /\ \A j \in 1 .. n - 1 + 1 : t[j] = s[1 + j - 1]
  <2> HIDE DEF n
  <2> QED BY <1>1, SubSeqProperties
<1>3. Front(s) = t
  BY DEF Front
<1> HIDE DEF n, t
<1>4. Len(t) = n /\ \A j \in 1 .. n : t[j] = s[j]
  BY <1>1, <1>2
<1> QED BY <1>2, <1>3, <1>4 DEF n

\* The walks keep the type, whether or not they find a heap.
LEMMA WalksKeepType ==
    ASSUME NEW K, NEW h \in Seq(K), NEW i \in Nat \ {0}
    PROVE  /\ TopDown(h, i) \in Seq(K) /\ Len(TopDown(h, i)) = Len(h)
           /\ i <= Len(h) => BottomUp(h, i) \in Seq(K)
<1> DEFINE n == Len(h)
           S == {p \in [heap : Seq(K), index : Nat \ {0}] : Len(p.heap) = n}
           U == {p \in S : p.index <= n}
<1>0. n \in Nat
  BY LenProperties
<1>1. Stay(h, i) \in S /\ (i <= n => Stay(h, i) \in U)
  BY DEF Stay
<1>2. ASSUME NEW p \in S PROVE Sink(p.heap, p.index) \in S
  <2> DEFINE g == p.heap
             j == p.index
  <2>1. g \in Seq(K) /\ Len(g) = n /\ j \in Nat \ {0}
    OBVIOUS
  <2>2. SmallerChild(g, j) = 2 * j \/ SmallerChild(g, j) = 2 * j + 1
    BY DEF SmallerChild, Smallest
  <2> HIDE DEF g, j
  <2>3. \/ Sink(g, j) = Stay(g, j)
        \/ \E c \in Nat \ {0} : Sink(g, j) = Move(g, j, c) /\ c <= n /\ j <= n
    <3>1. CASE 2 * j + 1 <= n
      <4>1. \A c \in {2 * j, 2 * j + 1} : c \in Nat \ {0} /\ c <= n /\ j <= n
        BY <1>0, <2>1, <3>1
      <4>2. 2 * j # n
        BY <1>0, <2>1, <3>1
      <4> QED BY <2>1, <2>2, <3>1, <4>1, <4>2 DEF Sink
    <3>2. CASE ~(2 * j + 1 <= n)
      <4>1. 2 * j = n => 2 * j \in Nat \ {0} /\ 2 * j <= n /\ j <= n
        BY <1>0, <2>1
      <4> QED BY <2>1, <3>2, <4>1 DEF Sink
    <3> QED BY <3>1, <3>2
  <2>4. CASE Sink(g, j) = Stay(g, j)
    BY <2>1, <2>4 DEF Stay, g, j
  <2>5. ASSUME NEW c \in Nat \ {0}, Sink(g, j) = Move(g, j, c), c <= n, j <= n
        PROVE  Sink(g, j) \in S
    <3>1. j \in 1 .. Len(g) /\ c \in 1 .. Len(g)
      BY <1>0, <2>1, <2>5
    <3>2. Exch(g, j, c) \in Seq(K) /\ Len(Exch(g, j, c)) = n
      BY <2>1, <3>1, ExchTypes
    <3> QED BY <2>5, <3>2 DEF Move
  <2> QED BY <2>3, <2>4, <2>5 DEF g, j
<1>3. ASSUME NEW p \in U PROVE Rise(p.heap, p.index) \in U
  <2> DEFINE g == p.heap
             j == p.index
             q == j \div 2
  <2>1. g \in Seq(K) /\ Len(g) = n /\ j \in Nat \ {0} /\ j <= n
    OBVIOUS
  <2> HIDE DEF g, j
  <2>2. CASE Rise(g, j) = Stay(g, j)
    BY <2>1, <2>2 DEF Stay, g, j
  <2>3. CASE Rise(g, j) = Move(g, j, q) /\ j # 1
    <3>1. j \in 1 .. Len(g) /\ q \in 1 .. Len(g) /\ q \in Nat \ {0} /\ q <= n
      BY <1>0, <2>1, <2>3
    <3> HIDE DEF q
    <3>2. Exch(g, j, q) \in Seq(K) /\ Len(Exch(g, j, q)) = n
      <4>1. g \in Seq(K) /\ j \in 1 .. Len(g) /\ q \in 1 .. Len(g)
        BY <2>1, <3>1
      <4>2. Exch(g, j, q) \in Seq(K) /\ Len(Exch(g, j, q)) = Len(g)
        BY <4>1, ExchTypes
      <4> QED BY <2>1, <4>2
    <3> QED BY <2>3, <3>1, <3>2 DEF Move, g, j
  <2> QED BY <2>2, <2>3 DEF Rise, g, j
<1>4. TopDown(h, i) \in Seq(K) /\ Len(TopDown(h, i)) = n
  <2>1. PICK after \in [0 .. n -> S] : TopDown(h, i) = after[n].heap
    <3> HIDE DEF S
    <3> QED BY <1>0, <1>1, <1>2, TopDownWalks
  <2>2. after[n] \in S
    BY <1>0
  <2> QED BY <2>1, <2>2
<1>5. ASSUME i <= n PROVE BottomUp(h, i) \in Seq(K)
  <2>1. PICK after \in [0 .. n -> U] : BottomUp(h, i) = after[n].heap
    <3> HIDE DEF U
    <3> QED BY <1>0, <1>1, <1>3, <1>5, BottomUpWalks
  <2>2. after[n] \in U
    BY <1>0
  <2> QED BY <2>1, <2>2
<1> QED BY <1>4, <1>5

\* So do the calls.
LEMMA HeapKeepsType ==
    ASSUME NEW K, NEW h \in Seq(K)
    PROVE  /\ \A e \in K : HeapInsert(h, e) \in Seq(K)
           /\ HeapTake(h, 1) \in Seq(K)
           /\ \A i \in 1 .. Len(h) : HeapTake(h, i) \in Seq(K)
           /\ \A e : HeapRemove(h, e) \in Seq(K)
<1>0. Len(h) \in Nat /\ DOMAIN h = 1 .. Len(h)
  BY LenProperties
<1>1. ASSUME NEW e \in K PROVE HeapInsert(h, e) \in Seq(K)
  <2>1. Append(h, e) \in Seq(K) /\ Len(Append(h, e)) = Len(h) + 1
    BY AppendProperties
  <2>2. Len(h) + 1 \in Nat \ {0} /\ Len(h) + 1 <= Len(Append(h, e))
    BY <1>0, <2>1
  <2> QED BY <2>1, <2>2, WalksKeepType DEF HeapInsert
<1>2. ASSUME NEW i \in 1 .. Len(h) PROVE HeapTake(h, i) \in Seq(K)
  <2> DEFINE g == Exch(h, i, Len(h))
  <2>1. Len(h) \in 1 .. Len(h) /\ i \in Nat \ {0}
    BY <1>0
  <2>2. g \in Seq(K) /\ Len(g) = Len(h)
    BY <2>1, ExchIs
  <2>3. HeapTake(h, i) = TopDown(Front(g), i)
    BY DEF HeapTake
  <2> HIDE DEF g
  <2>4. g # <<>>
    BY <1>0, <2>1, <2>2
  <2>5. Front(g) \in Seq(K)
    BY <2>2, <2>4, FrontIs
  <2> QED BY <2>1, <2>3, <2>5, WalksKeepType
<1>3. HeapTake(h, 1) \in Seq(K)
  <2>1. CASE h = <<>>
    <3> DEFINE g == Exch(h, 1, Len(h))
    <3>1. g = [j \in {} |-> h[j]]
      BY <2>1 DEF Exch
    <3>2. g = <<>>
      BY <3>1
    <3>3. HeapTake(h, 1) = TopDown(Front(g), 1)
      BY DEF HeapTake
    <3> HIDE DEF g
    <3>4. Front(g) = <<>>
      BY <3>2 DEF Front
    <3>5. <<>> \in Seq(K) /\ 1 \in Nat \ {0}
      OBVIOUS
    <3> QED BY <3>3, <3>4, <3>5, WalksKeepType
  <2>2. CASE h # <<>>
    <3>1. 1 \in 1 .. Len(h)
      BY <1>0, <2>2, EmptySeq
    <3> QED BY <1>2, <3>1
  <2> QED BY <2>1, <2>2
<1>4. ASSUME NEW e PROVE HeapRemove(h, e) \in Seq(K)
  <2> DEFINE same == {i \in DOMAIN h : h[i].uid = e.uid}
  <2>1. CASE same = {}
    BY <2>1 DEF HeapRemove
  <2>2. CASE same # {}
    <3>1. same \subseteq Nat /\ same \subseteq 1 .. Len(h)
      BY <1>0
    <3>2. HeapRemove(h, e) = HeapTake(h, Min(same))
      BY <2>2 DEF HeapRemove
    <3> HIDE DEF same
    <3>3. Min(same) \in 1 .. Len(h)
      BY <2>2, <3>1, MinIs
    <3> QED BY <1>2, <3>2, <3>3
  <2> QED BY <2>1, <2>2
<1> QED BY <1>1, <1>2, <1>3, <1>4

\* A heap gives its earliest event.
LEMMA HeapTakeIs ==
    ASSUME NEW h, Heap(h), Distinct(h), ToSet(h) # {}
    PROVE  /\ Head(h) \in ToSet(h) /\ \A f \in ToSet(h) : ~Less(f, Head(h))
           /\ Heap(HeapTake(h, 1)) /\ Distinct(HeapTake(h, 1))
           /\ ToSet(HeapTake(h, 1)) = ToSet(h) \ {Head(h)}
<1> DEFINE n == Len(h)
           g == Exch(h, 1, n)
           f == Front(g)
<1>1. /\ h \in Seq(Events) /\ n \in Nat /\ \A j \in 2 .. n : ~Less(h[j], h[j \div 2])
      /\ \A j \in 1 .. n : h[j] \in Events
      /\ \A j, k \in 1 .. n : h[j] = h[k] => j = k
  BY LenProperties DEF Heap, Distinct
<1>2. n # 0 /\ h # <<>> /\ 1 \in 1 .. n /\ n \in 1 .. n
  <2>1. PICK x : x \in ToSet(h)
    OBVIOUS
  <2>2. \E j \in 1 .. n : h[j] = x
    BY <1>1, <2>1, ToSetIs
  <2> QED BY <1>1, <2>2
<1>3. Head(h) = h[1]
  BY <1>1, <1>2
<1>4. Head(h) \in ToSet(h) /\ \A x \in ToSet(h) : ~Less(x, Head(h))
  <2>1. Head(h) \in ToSet(h)
    BY <1>1, <1>2, <1>3, ToSetIs
  <2>2. ASSUME NEW x \in ToSet(h) PROVE ~Less(x, Head(h))
    <3>1. PICK j \in 1 .. n : h[j] = x
      BY <1>1, ToSetIs
    <3> QED BY <1>3, <3>1, RootIsEarliest
  <2> QED BY <2>1, <2>2
<1>5. /\ g \in Seq(Events) /\ Len(g) = n
      /\ \A j \in 1 .. n : g[j] = IF j = n THEN h[1] ELSE IF j = 1 THEN h[n] ELSE h[j]
  <2> DEFINE one == 1
  <2>1. h \in Seq(Events) /\ one \in 1 .. Len(h) /\ n \in 1 .. Len(h)
    BY <1>1, <1>2
  <2> HIDE DEF n, one, g
  <2>2. /\ Exch(h, one, n) \in Seq(Events) /\ Len(Exch(h, one, n)) = Len(h)
        /\ \A j \in 1 .. Len(h) : Exch(h, one, n)[j] =
              IF j = n THEN h[one] ELSE IF j = one THEN h[n] ELSE h[j]
    BY <2>1, ExchIs
  <2> QED BY <2>2 DEF one, n, g
<1>6. HeapTake(h, 1) = TopDown(f, 1)
  BY DEF HeapTake
<1> HIDE DEF n, g
<1>7. /\ f \in Seq(Events) /\ Len(f) = n - 1 /\ \A j \in 1 .. n - 1 : f[j] = g[j]
  <2>1. g # <<>>
    BY <1>2, <1>5
  <2> QED BY <1>5, <2>1, FrontIs
<1> HIDE DEF f
<1>8. \A j \in 1 .. n - 1 : f[j] = IF j = 1 THEN h[n] ELSE h[j]
  BY <1>1, <1>5, <1>7
<1> DEFINE from(j) == IF j = 1 THEN n ELSE j
<1>9. \A j \in 1 .. n - 1 : f[j] = h[from(j)] /\ from(j) \in 2 .. n
  BY <1>1, <1>2, <1>8
<1>10. \A j, k \in 1 .. n - 1 : from(j) = from(k) => j = k
  BY <1>1
<1>11. \A j \in 2 .. n : \E k \in 1 .. n - 1 : from(k) = j
  <2>1. ASSUME NEW j \in 2 .. n PROVE \E k \in 1 .. n - 1 : from(k) = j
    <3>1. CASE j = n
      <4>1. 1 \in 1 .. n - 1 /\ from(1) = j
        BY <1>1, <3>1
      <4> QED BY <4>1
    <3>2. CASE j # n
      <4>1. j \in 1 .. n - 1 /\ from(j) = j
        BY <1>1, <3>2
      <4> QED BY <4>1
    <3> QED BY <3>1, <3>2
  <2> QED BY <2>1
<1> HIDE DEF from
<1>12. ToSet(f) = ToSet(h) \ {Head(h)}
  <2>1. ASSUME NEW x PROVE x \in ToSet(f) <=> x \in ToSet(h) /\ x # h[1]
    <3>1. x \in ToSet(f) <=> \E j \in 1 .. n - 1 : f[j] = x
      BY <1>7, ToSetIs
    <3>2. x \in ToSet(h) <=> \E j \in 1 .. n : h[j] = x
      BY <1>1, ToSetIs DEF n
    <3>3. ASSUME NEW j \in 1 .. n - 1, f[j] = x PROVE x \in ToSet(h) /\ x # h[1]
      <4>1. from(j) \in 1 .. n /\ from(j) # 1 /\ h[from(j)] = x
        BY <1>1, <1>9, <3>3
      <4> QED BY <1>1, <1>2, <3>2, <4>1
    <3>4. ASSUME NEW j \in 1 .. n, h[j] = x, x # h[1] PROVE \E k \in 1 .. n - 1 : f[k] = x
      <4>1. j \in 2 .. n
        BY <1>1, <3>4
      <4>2. PICK k \in 1 .. n - 1 : from(k) = j
        BY <1>11, <4>1
      <4> QED BY <1>9, <3>4, <4>2
    <3> QED BY <3>1, <3>2, <3>3, <3>4
  <2> QED BY <1>3, <2>1
<1>13. Distinct(f)
  <2>1. ASSUME NEW j \in 1 .. n - 1, NEW k \in 1 .. n - 1, f[j] = f[k] PROVE j = k
    <3>1. from(j) \in 1 .. n /\ from(k) \in 1 .. n /\ h[from(j)] = h[from(k)]
      BY <1>1, <1>9, <2>1
    <3> QED BY <1>1, <1>10, <3>1
  <2> QED BY <1>7, <2>1 DEF Distinct
<1>14. Heap(TopDown(f, 1)) /\ SameItems(TopDown(f, 1), f)
  <2>1. CASE n = 1
    <3>1. 1 \in Nat \ {0}
      OBVIOUS
    <3>2. TopDown(f, 1) \in Seq(Events) /\ Len(TopDown(f, 1)) = Len(f)
      BY <1>7, <3>1, WalksKeepType
    <3> DEFINE t == TopDown(f, 1)
    <3>3. t \in Seq(Events) /\ f \in Seq(Events) /\ Len(t) = 0 /\ Len(f) = 0
      BY <1>7, <2>1, <3>2
    <3> HIDE DEF t
    <3>4. t = <<>> /\ f = <<>>
      BY <3>3, EmptySeq
    <3>5. Heap(t)
      BY <3>3 DEF Heap
    <3> QED BY <3>4, <3>5 DEF t, SameItems
  <2>2. CASE n # 1
    <3>1. ASSUME NEW j \in 2 .. n - 1, j \div 2 # 1 PROVE ~Less(f[j], f[j \div 2])
      <4>1. j \div 2 \in 1 .. n - 1 /\ j \in 1 .. n - 1 /\ j # 1 /\ j \in 2 .. n
        BY <1>1
      <4>2. f[j] = h[j] /\ f[j \div 2] = h[j \div 2]
        BY <1>8, <3>1, <4>1
      <4> QED BY <1>1, <4>1, <4>2
    <3>2. Sinking(f, 1)
      BY <1>1, <1>2, <1>7, <2>2, <3>1 DEF Sinking
    <3> QED BY <3>2, TopDownIs
  <2> QED BY <2>1, <2>2
<1> QED BY <1>4, <1>6, <1>12, <1>13, <1>14 DEF SameItems

-----------------------------------------------------------------------------
(***************************************************************************)
(* A change of scheduler.                                                  *)
(***************************************************************************)

\* A finite set of events that is not empty has a latest one.
LEMMA LatestIs ==
    ASSUME NEW S, IsFiniteSet(S), S \subseteq Events, S # {}
    PROVE  Latest(S) \in S /\ \A f \in S \ {Latest(S)} : Less(f, Latest(S))
<1> DEFINE HasLatest(T) == \E e \in T : \A f \in T \ {e} : Less(f, e)
           D == {T \in SUBSET S : T # {} => HasLatest(T)}
           pick == [T \in SUBSET S |-> CHOOSE x \in T : TRUE]
<1>1. {} \in D /\ Picks(pick, S)
  BY DEF Picks
<1>2. ASSUME NEW T \in SUBSET S, T # {}, T \ {pick[T]} \in D PROVE T \in D
  <2> DEFINE x == pick[T]
  <2>1. x \in T /\ x \in Events
    BY <1>1, <1>2 DEF Picks
  <2> HIDE DEF x
  <2>2. CASE T \ {x} = {}
    <3>1. \A f \in T \ {x} : Less(f, x)
      BY <2>2
    <3> QED BY <2>1, <3>1
  <2>3. CASE T \ {x} # {}
    <3>1. PICK e \in T \ {x} : \A f \in (T \ {x}) \ {e} : Less(f, e)
      BY <1>2, <2>3 DEF x
    <3>2. e \in Events /\ \A f \in T : f \in Events
      OBVIOUS
    <3>3. CASE Less(e, x)
      <4>1. ASSUME NEW f \in T \ {x} PROVE Less(f, x)
        BY <2>1, <3>1, <3>2, <3>3, LessOrders
      <4> QED BY <2>1, <4>1
    <3>4. CASE Less(x, e)
      <4>1. \A f \in T \ {e} : Less(f, e)
        BY <3>1, <3>4
      <4> QED BY <4>1
    <3> QED BY <2>1, <3>1, <3>2, <3>3, <3>4, LessOrders
  <2> QED BY <2>2, <2>3
<1>3. SUBSET S \subseteq D
  <2> HIDE DEF D, pick
  <2> QED BY <1>1, <1>2, SetInduction
<1>4. HasLatest(S)
  BY <1>3
<1> QED BY <1>4 DEF Latest

Latests == [T \in SUBSET events |-> Latest(T)]

\* The events are moved one by one, the latest first.
LEMMA LatestsIs ==
    ASSUME IsFiniteSet(events), events \subseteq Events
    PROVE  /\ Picks(Latests, events)
           /\ \A T \in SUBSET events : T # {} =>
                 /\ Latests[T] = Latest(T) /\ Latest(T) \in T /\ Latest(T) \in Events
                 /\ T \ {Latest(T)} \in SUBSET events
<1>1. ASSUME NEW T \in SUBSET events, T # {}
      PROVE  Latest(T) \in T /\ Latest(T) \in Events
  <2>1. IsFiniteSet(T) /\ T \subseteq Events
    BY FS_Subset
  <2> QED BY <1>1, <2>1, LatestIs
<1>2. \A T \in SUBSET events : Latests[T] = Latest(T)
  BY DEF Latests
<1> QED BY <1>1, <1>2 DEF Picks

\* The sorted list of a set of events.
ListOf(s, T) == Sorted(s) /\ ToSet(s) = T

ListMoves(f) ==
    f = [T \in SUBSET events |->
            IF T = {} THEN <<>>
            ELSE LET x == Latest(T) IN InsertSorted(f[T \ {x}], x)]

\* A list the events are moved to holds them, sorted.
LEMMA ListMoved ==
    ASSUME IsFiniteSet(events), events \subseteq Events
    PROVE  ListOf(Moved(InsertSorted, <<>>), events)
<1> DEFINE R == {p \in (SUBSET events) \X Seq(Events) : ListOf(p[2], p[1])}
           F == [p \in (SUBSET events) \X Seq(Events) |-> InsertSorted(p[2], Latest(p[1]))]
           f == CHOOSE f : ListMoves(f)
           D == {T \in SUBSET events : ListOf(f[T], T)}
<1>1. Picks(Latests, events)
  BY LatestsIs
<1>2. ASSUME NEW T \in SUBSET events, T # {}
      PROVE  /\ Latests[T] = Latest(T) /\ Latest(T) \in T /\ Latest(T) \in Events
             /\ T \ {Latest(T)} \in SUBSET events
  BY <1>2, LatestsIs
<1>3. ASSUME NEW T \in SUBSET events, NEW s \in Seq(Events)
      PROVE  F[<<T, s>>] = InsertSorted(s, Latest(T)) /\ (<<T, s>> \in R <=> ListOf(s, T))
  OBVIOUS
<1>4. R \subseteq (SUBSET events) \X Seq(Events)
  OBVIOUS
<1> HIDE DEF F, R, f
<1>5. <<>> \in Seq(Events) /\ ListOf(<<>>, {})
  BY DEF ListOf, Sorted, ToSet
<1>6. ASSUME NEW T \in SUBSET events, NEW s, T # {}, ListOf(s, T \ {Latest(T)})
      PROVE  InsertSorted(s, Latest(T)) \in Seq(Events) /\ ListOf(InsertSorted(s, Latest(T)), T)
  <2> DEFINE x == Latest(T)
  <2>1. x \in Events /\ x \notin T \ {x} /\ (T \ {x}) \union {x} = T
    BY <1>2, <1>6
  <2>2. ListOf(s, T \ {x})
    BY <1>6
  <2> HIDE DEF x
  <2>3. /\ InsertSorted(s, x) \in Seq(Events)
        /\ ListOf(InsertSorted(s, x), (T \ {x}) \union {x})
    <3>1. Sorted(s) /\ ToSet(s) = T \ {x} /\ x \in Events /\ x \notin ToSet(s)
      BY <2>1, <2>2 DEF ListOf
    <3>2. /\ Sorted(InsertSorted(s, x))
          /\ ToSet(InsertSorted(s, x)) = ToSet(s) \union {x}
      BY <3>1, InsertSortedIs
    <3> QED BY <3>1, <3>2 DEF ListOf, Sorted
  <2> QED BY <2>1, <2>3 DEF x
<1>7. Relates(F, R, Latests, events, Seq(Events))
  <2>1. ASSUME NEW T \in SUBSET events, NEW s \in Seq(Events), T # {}, <<T \ {Latests[T]}, s>> \in R
        PROVE  <<T, F[<<T, s>>]>> \in R
    <3>1. ListOf(s, T \ {Latest(T)})
      BY <1>2, <1>3, <2>1
    <3>2. InsertSorted(s, Latest(T)) \in Seq(Events) /\ ListOf(InsertSorted(s, Latest(T)), T)
      BY <1>6, <2>1, <3>1
    <3> QED BY <1>3, <3>2
  <2> QED BY <2>1 DEF Relates
<1>8. PICK g : FoldsOver(g, F, Latests, events, <<>>) /\ \A T \in SUBSET events : <<T, g[T]>> \in R
  <2> DEFINE base == <<>>
  <2>1. <<{}, base>> \in R
    BY <1>3, <1>5
  <2> HIDE DEF base
  <2>2. \E g : FoldsOver(g, F, Latests, events, base) /\ \A T \in SUBSET events : <<T, g[T]>> \in R
    BY <1>1, <1>4, <1>7, <2>1, SetRecursion
  <2> QED BY <2>2 DEF base
<1>9. ListMoves(g)
  <2>1. ASSUME NEW T \in SUBSET events
        PROVE  (IF T = {} THEN <<>> ELSE F[<<T, g[T \ {Latests[T]}]>>])
                 = IF T = {} THEN <<>>
                   ELSE LET x == Latest(T) IN InsertSorted(g[T \ {x}], x)
    <3>1. CASE T # {}
      <4>1. Latests[T] = Latest(T)
        BY <1>2, <3>1
      <4>2. g[T \ {Latest(T)}] \in Seq(Events)
        BY <1>2, <1>4, <1>8, <3>1
      <4>3. F[<<T, g[T \ {Latest(T)}]>>] = InsertSorted(g[T \ {Latest(T)}], Latest(T))
        BY <1>3, <4>2
      <4> QED BY <3>1, <4>1, <4>3
    <3> QED BY <3>1
  <2> QED BY <1>8, <2>1 DEF FoldsOver, ListMoves
<1>10. ListMoves(f)
  BY <1>9 DEF f
<1>11. Moved(InsertSorted, <<>>) = f[events]
  BY DEF Moved, MapThenFoldSet, ListMoves, f
<1>12. {} \in D
  <2>1. f[{}] = <<>>
    BY <1>10 DEF ListMoves
  <2> QED BY <1>5, <2>1
<1>13. ASSUME NEW T \in SUBSET events, T # {}, T \ {Latests[T]} \in D PROVE T \in D
  <2>1. f[T] = LET x == Latest(T) IN InsertSorted(f[T \ {x}], x)
    BY <1>10, <1>13 DEF ListMoves
  <2>2. ListOf(f[T \ {Latest(T)}], T \ {Latest(T)})
    BY <1>2, <1>13
  <2>3. ListOf(f[T], T)
    BY <1>6, <1>13, <2>1, <2>2
  <2> QED BY <2>3
<1>14. SUBSET events \subseteq D
  <2> HIDE DEF D
  <2> QED BY <1>1, <1>12, <1>13, SetInduction
<1> QED BY <1>11, <1>14

\* The heap of a set of events.
HeapOf(s, T) == Heap(s) /\ Distinct(s) /\ ToSet(s) = T

HeapMoves(f) ==
    f = [T \in SUBSET events |->
            IF T = {} THEN <<>>
            ELSE LET x == Latest(T) IN HeapInsert(f[T \ {x}], x)]

\* A heap the events are moved to holds them, in order.
LEMMA HeapMoved ==
    ASSUME IsFiniteSet(events), events \subseteq Events
    PROVE  HeapOf(Moved(HeapInsert, <<>>), events)
<1> DEFINE R == {p \in (SUBSET events) \X Seq(Events) : HeapOf(p[2], p[1])}
           F == [p \in (SUBSET events) \X Seq(Events) |-> HeapInsert(p[2], Latest(p[1]))]
           f == CHOOSE f : HeapMoves(f)
           D == {T \in SUBSET events : HeapOf(f[T], T)}
<1>1. Picks(Latests, events)
  BY LatestsIs
<1>2. ASSUME NEW T \in SUBSET events, T # {}
      PROVE  /\ Latests[T] = Latest(T) /\ Latest(T) \in T /\ Latest(T) \in Events
             /\ T \ {Latest(T)} \in SUBSET events
  BY <1>2, LatestsIs
<1>3. ASSUME NEW T \in SUBSET events, NEW s \in Seq(Events)
      PROVE  F[<<T, s>>] = HeapInsert(s, Latest(T)) /\ (<<T, s>> \in R <=> HeapOf(s, T))
  OBVIOUS
<1>4. R \subseteq (SUBSET events) \X Seq(Events)
  OBVIOUS
<1> HIDE DEF F, R, f
<1>5. <<>> \in Seq(Events) /\ HeapOf(<<>>, {})
  BY DEF HeapOf, Heap, Distinct, ToSet
<1>6. ASSUME NEW T \in SUBSET events, NEW s, T # {}, HeapOf(s, T \ {Latest(T)})
      PROVE  HeapInsert(s, Latest(T)) \in Seq(Events) /\ HeapOf(HeapInsert(s, Latest(T)), T)
  <2> DEFINE x == Latest(T)
  <2>1. x \in Events /\ x \notin T \ {x} /\ (T \ {x}) \union {x} = T
    BY <1>2, <1>6
  <2>2. HeapOf(s, T \ {x})
    BY <1>6
  <2> HIDE DEF x
  <2>3. /\ HeapInsert(s, x) \in Seq(Events)
        /\ HeapOf(HeapInsert(s, x), (T \ {x}) \union {x})
    <3>1. /\ Heap(s) /\ Distinct(s) /\ ToSet(s) = T \ {x}
          /\ x \in Events /\ x \notin ToSet(s)
      BY <2>1, <2>2 DEF HeapOf
    <3>2. /\ Heap(HeapInsert(s, x)) /\ Distinct(HeapInsert(s, x))
          /\ ToSet(HeapInsert(s, x)) = ToSet(s) \union {x}
      BY <3>1, HeapInsertIs
    <3> QED BY <3>1, <3>2 DEF HeapOf, Heap
  <2> QED BY <2>1, <2>3 DEF x
<1>7. Relates(F, R, Latests, events, Seq(Events))
  <2>1. ASSUME NEW T \in SUBSET events, NEW s \in Seq(Events), T # {}, <<T \ {Latests[T]}, s>> \in R
        PROVE  <<T, F[<<T, s>>]>> \in R
    <3>1. HeapOf(s, T \ {Latest(T)})
      BY <1>2, <1>3, <2>1
    <3>2. HeapInsert(s, Latest(T)) \in Seq(Events) /\ HeapOf(HeapInsert(s, Latest(T)), T)
      BY <1>6, <2>1, <3>1
    <3> QED BY <1>3, <3>2
  <2> QED BY <2>1 DEF Relates
<1>8. PICK g : FoldsOver(g, F, Latests, events, <<>>) /\ \A T \in SUBSET events : <<T, g[T]>> \in R
  <2> DEFINE base == <<>>
  <2>1. <<{}, base>> \in R
    BY <1>3, <1>5
  <2> HIDE DEF base
  <2>2. \E g : FoldsOver(g, F, Latests, events, base) /\ \A T \in SUBSET events : <<T, g[T]>> \in R
    BY <1>1, <1>4, <1>7, <2>1, SetRecursion
  <2> QED BY <2>2 DEF base
<1>9. HeapMoves(g)
  <2>1. ASSUME NEW T \in SUBSET events
        PROVE  (IF T = {} THEN <<>> ELSE F[<<T, g[T \ {Latests[T]}]>>])
                 = IF T = {} THEN <<>>
                   ELSE LET x == Latest(T) IN HeapInsert(g[T \ {x}], x)
    <3>1. CASE T # {}
      <4>1. Latests[T] = Latest(T)
        BY <1>2, <3>1
      <4>2. g[T \ {Latest(T)}] \in Seq(Events)
        BY <1>2, <1>4, <1>8, <3>1
      <4>3. F[<<T, g[T \ {Latest(T)}]>>] = HeapInsert(g[T \ {Latest(T)}], Latest(T))
        BY <1>3, <4>2
      <4> QED BY <3>1, <4>1, <4>3
    <3> QED BY <3>1
  <2> QED BY <1>8, <2>1 DEF FoldsOver, HeapMoves
<1>10. HeapMoves(f)
  BY <1>9 DEF f
<1>11. Moved(HeapInsert, <<>>) = f[events]
  BY DEF Moved, MapThenFoldSet, HeapMoves, f
<1>12. {} \in D
  <2>1. f[{}] = <<>>
    BY <1>10 DEF HeapMoves
  <2> QED BY <1>5, <2>1
<1>13. ASSUME NEW T \in SUBSET events, T # {}, T \ {Latests[T]} \in D PROVE T \in D
  <2>1. f[T] = LET x == Latest(T) IN HeapInsert(f[T \ {x}], x)
    BY <1>10, <1>13 DEF HeapMoves
  <2>2. HeapOf(f[T \ {Latest(T)}], T \ {Latest(T)})
    BY <1>2, <1>13
  <2>3. HeapOf(f[T], T)
    BY <1>6, <1>13, <2>1, <2>2
  <2> QED BY <2>3
<1>14. SUBSET events \subseteq D
  <2> HIDE DEF D
  <2> QED BY <1>1, <1>12, <1>13, SetInduction
<1> QED BY <1>11, <1>14

\* The calendar of a set of events, none of which has been taken.
CalendarOf(s, T) == Cal(s, T) /\ s.lastPrio = 0

CalendarMoves(f) ==
    f = [T \in SUBSET events |->
            IF T = {} THEN NewCalendar
            ELSE LET x == Latest(T) IN CalendarInsert(f[T \ {x}], x)]

\* A calendar the events are moved to holds them, each in its bucket.
LEMMA CalendarMoved ==
    ASSUME IsFiniteSet(events), events \subseteq Events
    PROVE  CalendarOf(Moved(CalendarInsert, NewCalendar), events)
<1> DEFINE R == {p \in (SUBSET events) \X Calendars : CalendarOf(p[2], p[1])}
           F == [p \in (SUBSET events) \X Calendars |-> CalendarInsert(p[2], Latest(p[1]))]
           f == CHOOSE f : CalendarMoves(f)
           D == {T \in SUBSET events : CalendarOf(f[T], T)}
<1>1. Picks(Latests, events)
  BY LatestsIs
<1>2. ASSUME NEW T \in SUBSET events, T # {}
      PROVE  /\ Latests[T] = Latest(T) /\ Latest(T) \in T /\ Latest(T) \in Events
             /\ T \ {Latest(T)} \in SUBSET events
  BY <1>2, LatestsIs
<1>3. ASSUME NEW T \in SUBSET events, NEW s \in Calendars
      PROVE  F[<<T, s>>] = CalendarInsert(s, Latest(T)) /\ (<<T, s>> \in R <=> CalendarOf(s, T))
  OBVIOUS
<1>4. R \subseteq (SUBSET events) \X Calendars
  OBVIOUS
<1> HIDE DEF F, R, f
<1>5. NewCalendar \in Calendars /\ CalendarOf(NewCalendar, {})
  <2>1. Holds(NewCalendar, {}) /\ NewCalendar.lastPrio = 0 /\ NewCalendar.qSize = 0
    <3> DEFINE n == 2
               w == 1
               start == 0
    <3>1. n \in Nat \ {0} /\ w \in Nat \ {0} /\ start \in Nat
      OBVIOUS
    <3> HIDE DEF n, w, start
    <3>2. /\ Holds(Calendar(n, w, start), {}) /\ Calendar(n, w, start).lastPrio = start
          /\ Calendar(n, w, start).qSize = 0
      BY <3>1, CalendarIs
    <3> QED BY <3>2 DEF NewCalendar, n, w, start
  <2> QED BY <2>1, FS_EmptySet DEF CalendarOf, Cal, Holds, Bucketed
<1>6. ASSUME NEW T \in SUBSET events, NEW s, T # {}, CalendarOf(s, T \ {Latest(T)})
      PROVE  CalendarInsert(s, Latest(T)) \in Calendars /\ CalendarOf(CalendarInsert(s, Latest(T)), T)
  <2> DEFINE x == Latest(T)
  <2>1. x \in Events /\ x \notin T \ {x} /\ (T \ {x}) \union {x} = T
    BY <1>2, <1>6
  <2>2. CalendarOf(s, T \ {x})
    BY <1>6
  <2> HIDE DEF x
  <2>3. /\ CalendarInsert(s, x) \in Calendars
        /\ CalendarOf(CalendarInsert(s, x), (T \ {x}) \union {x})
    <3>1. Cal(s, T \ {x}) /\ x.ts >= s.lastPrio /\ s.lastPrio = 0
      BY <2>1, <2>2 DEF CalendarOf, Events
    <3>2. /\ Cal(CalendarInsert(s, x), (T \ {x}) \union {x})
          /\ CalendarInsert(s, x).lastPrio = s.lastPrio
      BY <2>1, <3>1, CalendarInsertIs
    <3> QED BY <3>1, <3>2 DEF CalendarOf, Cal, Holds, Bucketed
  <2> QED BY <2>1, <2>3 DEF x
<1>7. Relates(F, R, Latests, events, Calendars)
  <2>1. ASSUME NEW T \in SUBSET events, NEW s \in Calendars, T # {}, <<T \ {Latests[T]}, s>> \in R
        PROVE  <<T, F[<<T, s>>]>> \in R
    <3>1. CalendarOf(s, T \ {Latest(T)})
      BY <1>2, <1>3, <2>1
    <3>2. CalendarInsert(s, Latest(T)) \in Calendars /\ CalendarOf(CalendarInsert(s, Latest(T)), T)
      BY <1>6, <2>1, <3>1
    <3> QED BY <1>3, <3>2
  <2> QED BY <2>1 DEF Relates
<1>8. PICK g : FoldsOver(g, F, Latests, events, NewCalendar) /\ \A T \in SUBSET events : <<T, g[T]>> \in R
  <2> DEFINE base == NewCalendar
  <2>1. <<{}, base>> \in R
    BY <1>3, <1>5
  <2> HIDE DEF base
  <2>2. \E g : FoldsOver(g, F, Latests, events, base) /\ \A T \in SUBSET events : <<T, g[T]>> \in R
    BY <1>1, <1>4, <1>7, <2>1, SetRecursion
  <2> QED BY <2>2 DEF base
<1>9. CalendarMoves(g)
  <2>1. ASSUME NEW T \in SUBSET events
        PROVE  (IF T = {} THEN NewCalendar ELSE F[<<T, g[T \ {Latests[T]}]>>])
                 = IF T = {} THEN NewCalendar
                   ELSE LET x == Latest(T) IN CalendarInsert(g[T \ {x}], x)
    <3>1. CASE T # {}
      <4>1. Latests[T] = Latest(T)
        BY <1>2, <3>1
      <4>2. g[T \ {Latest(T)}] \in Calendars
        BY <1>2, <1>4, <1>8, <3>1
      <4>3. F[<<T, g[T \ {Latest(T)}]>>] = CalendarInsert(g[T \ {Latest(T)}], Latest(T))
        BY <1>3, <4>2
      <4> QED BY <3>1, <4>1, <4>3
    <3> QED BY <3>1
  <2> QED BY <1>8, <2>1 DEF FoldsOver, CalendarMoves
<1>10. CalendarMoves(f)
  BY <1>9 DEF f
<1>11. Moved(CalendarInsert, NewCalendar) = f[events]
  BY DEF Moved, MapThenFoldSet, CalendarMoves, f
<1>12. {} \in D
  <2>1. f[{}] = NewCalendar
    BY <1>10 DEF CalendarMoves
  <2> QED BY <1>5, <2>1
<1>13. ASSUME NEW T \in SUBSET events, T # {}, T \ {Latests[T]} \in D PROVE T \in D
  <2>1. f[T] = LET x == Latest(T) IN CalendarInsert(f[T \ {x}], x)
    BY <1>10, <1>13 DEF CalendarMoves
  <2>2. CalendarOf(f[T \ {Latest(T)}], T \ {Latest(T)})
    BY <1>2, <1>13
  <2>3. CalendarOf(f[T], T)
    BY <1>6, <1>13, <2>1, <2>2
  <2> QED BY <2>3
<1>14. SUBSET events \subseteq D
  <2> HIDE DEF D
  <2> QED BY <1>1, <1>12, <1>13, SetInduction
<1> QED BY <1>11, <1>14

-----------------------------------------------------------------------------
(***************************************************************************)
(* The invariant.                                                          *)
(***************************************************************************)

\* What is in the list is not before the present and has a uid of its own.
Known ==
    /\ events \subseteq Keys /\ IsFiniteSet(events)
    /\ uid \in 1 .. MaxUid + 1 /\ now \in 0 .. MaxTs /\ removed \in BOOLEAN
    /\ \A e \in events : e.ts >= now /\ e.uid < uid
    /\ \A e, f \in events : e.uid = f.uid => e = f

\* The schedulers agree on what they returned, which is what happens now.
Agreed ==
    /\ taken = [map |-> taken.map, list |-> taken.list, heap |-> taken.heap,
                calendar |-> taken.calendar]
    /\ taken.list = taken.map /\ taken.calendar = taken.map
    /\ taken.map \in Events /\ taken.map.ts = now /\ taken.map.uid < uid

\* Each holds the events in its own way, the heap only until Remove is called.
Listed == ListOf(list, events)

Dated == Cal(calendar, events) /\ calendar.lastPrio <= now

Heaped == heap \in Seq(Keys) /\ (~removed => taken.heap = taken.map /\ HeapOf(heap, events))

IInv == Known /\ Agreed /\ Listed /\ Dated /\ Heaped

\* The keys within the bounds are events.
LEMMA KeysAreEvents ==
    /\ Keys \subseteq Events
    /\ \A ts \in 0 .. MaxTs, u \in 1 .. MaxUid : [ts |-> ts, uid |-> u] \in Keys
BY BoundAssumption DEF Keys, Events

\* Only one event of a set is the earliest.
LEMMA EarliestIsOne ==
    ASSUME NEW T, T \subseteq Events, NEW a \in T, NEW b \in T,
           \A f \in T \ {a} : Less(a, f), \A f \in T : ~Less(f, b)
    PROVE  a = b
OBVIOUS

\* The invariant holds at the start.
LEMMA InitIInv ==
    ASSUME Init
    PROVE  IInv
<1>1. Known /\ Agreed
  <2>1. /\ events = {} /\ uid = 1 /\ now = 0 /\ removed = FALSE
        /\ taken = [map |-> None, list |-> None, heap |-> None, calendar |-> None]
    BY DEF Init
  <2>2. Known
    <3>1. 1 \in 1 .. MaxUid + 1 /\ 0 \in 0 .. MaxTs
      BY BoundAssumption
    <3> QED BY <2>1, <3>1, FS_EmptySet DEF Known
  <2>3. None \in Events /\ None.ts = 0 /\ None.uid = 0
    BY DEF None, Events
  <2>4. Agreed
    BY <2>1, <2>3 DEF Agreed
  <2> QED BY <2>2, <2>4
<1>2. Listed /\ Heaped
  <2>1. ToSet(<<>>) = {}
    BY DEF ToSet
  <2> QED BY <2>1 DEF Init, Listed, Heaped, ListOf, HeapOf, Sorted, Heap, Distinct
<1>3. Dated
  <2>1. Holds(NewCalendar, {}) /\ NewCalendar.lastPrio = 0 /\ NewCalendar.qSize = 0
    <3> DEFINE n == 2
               w == 1
               start == 0
    <3>1. n \in Nat \ {0} /\ w \in Nat \ {0} /\ start \in Nat
      OBVIOUS
    <3> HIDE DEF n, w, start
    <3>2. /\ Holds(Calendar(n, w, start), {}) /\ Calendar(n, w, start).lastPrio = start
          /\ Calendar(n, w, start).qSize = 0
      BY <3>1, CalendarIs
    <3> QED BY <3>2 DEF NewCalendar, n, w, start
  <2> QED BY <2>1, FS_EmptySet DEF Init, Dated, Cal
<1> QED BY <1>1, <1>2, <1>3 DEF IInv

\* What RemoveNext takes is what each scheduler returns.
LEMMA SchedulersAgree ==
    ASSUME IInv, NEW next \in events, \A e \in events \ {next} : Less(next, e)
    PROVE  /\ list # <<>> /\ Head(list) = next
           /\ NextEvent(calendar) = next
           /\ ~removed => Head(heap) = next
<1>1. events \subseteq Events /\ events # {} /\ next \in Events
  BY KeysAreEvents DEF IInv, Known
<1>2. list # <<>> /\ Head(list) = next
  <2>1. Sorted(list) /\ ToSet(list) = events
    BY DEF IInv, Listed, ListOf
  <2>2. list # <<>>
    BY <1>1, <2>1 DEF ToSet
  <2>3. Head(list) \in events /\ \A f \in events \ {Head(list)} : Less(Head(list), f)
    BY <2>1, <2>2, HeadIs
  <2>4. next = Head(list)
    <3> DEFINE h == Head(list)
    <3>1. h \in events /\ h \in Events /\ (next # h => Less(h, next))
      BY <1>1, <2>3
    <3> HIDE DEF h
    <3>2. next # h => Less(next, h)
      BY <3>1
    <3>3. next = h
      BY <1>1, <3>1, <3>2, LessOrders
    <3> QED BY <3>3 DEF h
  <2> QED BY <2>2, <2>4
<1>3. NextEvent(calendar) = next
  <2> DEFINE h == NextEvent(calendar)
  <2>1. Cal(calendar, events)
    BY DEF IInv, Dated
  <2>2. h \in events /\ \A f \in events \ {h} : Less(h, f)
    BY <1>1, <2>1, CalendarRemoveNextIs
  <2>3. h \in events /\ h \in Events /\ (next # h => Less(h, next))
    BY <1>1, <2>2
  <2> HIDE DEF h
  <2>4. next # h => Less(next, h)
    BY <2>3
  <2>5. next = h
    BY <1>1, <2>3, <2>4, LessOrders
  <2> QED BY <2>5 DEF h
<1>4. ASSUME ~removed PROVE Head(heap) = next
  <2> DEFINE h == Head(heap)
  <2>1. Heap(heap) /\ Distinct(heap) /\ ToSet(heap) = events
    BY <1>4 DEF IInv, Heaped, HeapOf
  <2>2. h \in events /\ \A f \in events : ~Less(f, h)
    BY <1>1, <2>1, HeapTakeIs
  <2> HIDE DEF h
  <2>3. next = h
    BY <2>2
  <2> QED BY <2>3 DEF h
<1> QED BY <1>2, <1>3, <1>4

\* Insert keeps the invariant.
LEMMA InsertIInv ==
    ASSUME IInv, NEW ts \in now .. MaxTs, Insert(ts)
    PROVE  IInv' /\ [ts |-> ts, uid |-> uid] \notin events
<1> DEFINE e == [ts |-> ts, uid |-> uid]
<1>1. /\ uid <= MaxUid /\ uid' = uid + 1 /\ events' = events \union {e}
      /\ list' = InsertSorted(list, e) /\ heap' = HeapInsert(heap, e)
      /\ calendar' = CalendarInsert(calendar, e)
      /\ now' = now /\ removed' = removed /\ taken' = taken
  BY DEF Insert
<1>2. /\ events \subseteq Keys /\ IsFiniteSet(events)
      /\ uid \in 1 .. MaxUid /\ now \in 0 .. MaxTs /\ removed \in BOOLEAN /\ MaxUid \in Nat /\ MaxTs \in Nat
      /\ \A f \in events : f.ts >= now /\ f.uid < uid
      /\ \A f, g \in events : f.uid = g.uid => f = g
  BY <1>1, BoundAssumption DEF IInv, Known
<1>3. e \in Keys /\ e \in Events /\ e.ts = ts /\ e.uid = uid /\ ts \in 0 .. MaxTs
  BY <1>2, KeysAreEvents
<1> HIDE DEF e
<1>4. \A f \in events : f \in Events /\ f.ts \in Nat /\ f.uid \in Nat
  BY <1>2, KeysAreEvents DEF Events
<1>5. e \notin events
  BY <1>2, <1>3, <1>4
<1>6. Known'
  <2>1. IsFiniteSet(events')
    BY <1>1, <1>2, FS_AddElement
  <2>2. ASSUME NEW f \in events' PROVE f.ts >= now' /\ f.uid < uid'
    <3>1. f = e \/ f \in events
      BY <1>1
    <3>2. CASE f = e
      BY <3>2, <1>1, <1>2, <1>3
    <3>3. CASE f \in events
      BY <3>3, <1>1, <1>2, <1>4
    <3> QED BY <3>1, <3>2, <3>3
  <2>3. ASSUME NEW f \in events', NEW g \in events', f.uid = g.uid PROVE f = g
    <3>1. \A x \in events : x.uid # uid
      BY <1>2, <1>4
    <3> QED BY <1>1, <1>2, <1>3, <2>3, <3>1
  <2>4. uid' \in 1 .. MaxUid + 1 /\ events' \subseteq Keys
    BY <1>1, <1>2, <1>3
  <2> QED BY <1>1, <1>2, <2>1, <2>2, <2>3, <2>4 DEF Known
<1>7. Agreed'
  <2>1. taken.map.uid \in Nat /\ taken.map.uid < uid /\ uid \in Nat
    BY <1>2 DEF IInv, Agreed, Events
  <2>2. taken.map.uid < uid'
    BY <1>1, <2>1
  <2> QED BY <1>1, <2>2 DEF IInv, Agreed
<1>8. Listed'
  <2>1. Sorted(list) /\ ToSet(list) = events
    BY DEF IInv, Listed, ListOf
  <2>2. Sorted(list') /\ ToSet(list') = events'
    BY <1>1, <1>3, <1>5, <2>1, InsertSortedIs
  <2> QED BY <2>2 DEF Listed, ListOf
<1>9. Dated'
  <2>1. Cal(calendar, events) /\ calendar.lastPrio <= now /\ calendar.lastPrio \in Nat
    BY DEF IInv, Dated, Cal, Holds, Begins
  <2>2. e.ts >= calendar.lastPrio
    BY <1>2, <1>3, <2>1
  <2>3. Cal(calendar', events') /\ calendar'.lastPrio = calendar.lastPrio
    BY <1>1, <1>3, <1>5, <2>1, <2>2, CalendarInsertIs
  <2> QED BY <1>1, <2>1, <2>3 DEF Dated
<1>10. Heaped'
  <2>1. heap' \in Seq(Keys)
    BY <1>1, <1>3, HeapKeepsType DEF IInv, Heaped
  <2>2. ASSUME ~removed PROVE taken'.heap = taken'.map /\ HeapOf(heap', events')
    <3>1. /\ taken.heap = taken.map /\ Heap(heap) /\ Distinct(heap) /\ ToSet(heap) = events
      BY <2>2 DEF IInv, Heaped, HeapOf
    <3>2. Heap(heap') /\ Distinct(heap') /\ ToSet(heap') = events'
      BY <1>1, <1>3, <1>5, <3>1, HeapInsertIs
    <3> QED BY <1>1, <3>1, <3>2 DEF HeapOf
  <2> QED BY <1>1, <2>1, <2>2 DEF Heaped
<1> QED BY <1>5, <1>6, <1>7, <1>8, <1>9, <1>10 DEF IInv, e

\* A set of known events less one is known.
LEMMA KnownLess ==
    ASSUME Known, NEW e, events' = events \ {e}, uid' = uid, now' \in 0 .. MaxTs,
           removed' \in BOOLEAN, \A f \in events' : f.ts >= now'
    PROVE  Known'
<1>1. IsFiniteSet(events')
  BY FS_RemoveElement, FS_Subset DEF Known
<1> QED BY <1>1 DEF Known

\* RemoveNext keeps the invariant.
LEMMA RemoveNextIInv ==
    ASSUME IInv, NEW next \in events, RemoveNext(next)
    PROVE  IInv'
<1>1. /\ \A e \in events \ {next} : Less(next, e)
      /\ taken' = [map |-> next, list |-> Head(list), heap |-> Head(heap),
                   calendar |-> NextEvent(calendar)]
      /\ events' = events \ {next} /\ list' = Tail(list) /\ heap' = HeapTake(heap, 1)
      /\ calendar' = CalendarRemoveNext(calendar)
      /\ now' = next.ts /\ uid' = uid /\ removed' = removed
  BY DEF RemoveNext
<1>2. /\ list # <<>> /\ Head(list) = next /\ NextEvent(calendar) = next
      /\ ~removed => Head(heap) = next
  BY <1>1, SchedulersAgree
<1>3. /\ next \in Keys /\ next \in Events /\ next.ts \in 0 .. MaxTs /\ next.uid < uid
      /\ \A f \in events : f \in Events
  BY KeysAreEvents DEF IInv, Known, Keys
<1>4. Known'
  <2>1. ASSUME NEW f \in events' PROVE f.ts >= now'
    <3>1. Less(next, f) /\ f \in Events
      BY <1>1, <1>3
    <3> QED BY <1>1, <1>3, <3>1, LessOrders DEF Events
  <2> QED BY <1>1, <1>3, <2>1, KnownLess DEF IInv, Known
<1>5. Agreed'
  BY <1>1, <1>2, <1>3 DEF Agreed
<1>6. Listed'
  <2>1. Sorted(list) /\ ToSet(list) = events
    BY DEF IInv, Listed, ListOf
  <2>2. Sorted(list') /\ ToSet(list') = events'
    BY <1>1, <1>2, <2>1, HeadIs
  <2> QED BY <2>2 DEF Listed, ListOf
<1>7. Dated'
  <2>1. Cal(calendar, events) /\ events # {}
    BY DEF IInv, Dated
  <2>2. Cal(calendar', events') /\ calendar'.lastPrio = next.ts
    BY <1>1, <1>2, <2>1, CalendarRemoveNextIs
  <2> QED BY <1>1, <1>3, <2>2 DEF Dated, Events
<1>8. Heaped'
  <2>1. heap' \in Seq(Keys)
    BY <1>1, HeapKeepsType DEF IInv, Heaped
  <2>2. ASSUME ~removed PROVE taken'.heap = taken'.map /\ HeapOf(heap', events')
    <3>1. Heap(heap) /\ Distinct(heap) /\ ToSet(heap) = events /\ events # {}
      BY <2>2 DEF IInv, Heaped, HeapOf
    <3>2. Heap(heap') /\ Distinct(heap') /\ ToSet(heap') = events \ {Head(heap)}
      BY <1>1, <3>1, HeapTakeIs
    <3> QED BY <1>1, <1>2, <2>2, <3>2 DEF HeapOf
  <2> QED BY <1>1, <2>1, <2>2 DEF Heaped
<1> QED BY <1>4, <1>5, <1>6, <1>7, <1>8 DEF IInv

\* Remove keeps the invariant.
LEMMA RemoveEventIInv ==
    ASSUME IInv, NEW e \in events, RemoveEvent(e)
    PROVE  IInv'
<1>1. /\ events' = events \ {e} /\ list' = Erase(list, e) /\ heap' = HeapRemove(heap, e)
      /\ calendar' = CalendarRemove(calendar, e) /\ removed' = TRUE
      /\ uid' = uid /\ now' = now /\ taken' = taken
  BY DEF RemoveEvent
<1>2. \A f \in events : f.uid = e.uid => f = e
  BY DEF IInv, Known
<1>3. Known'
  BY <1>1, KnownLess DEF IInv, Known
<1>4. Agreed'
  BY <1>1 DEF IInv, Agreed
<1>5. Listed'
  <2>1. Sorted(list) /\ ToSet(list) = events
    BY DEF IInv, Listed, ListOf
  <2>2. Sorted(list') /\ ToSet(list') = events'
    BY <1>1, <1>2, <2>1, EraseIs
  <2> QED BY <2>2 DEF Listed, ListOf
<1>6. Dated'
  <2>1. Cal(calendar, events)
    BY DEF IInv, Dated
  <2>2. Cal(calendar', events') /\ calendar'.lastPrio = calendar.lastPrio
    BY <1>1, <1>2, <2>1, CalendarRemoveIs
  <2> QED BY <1>1, <2>2 DEF IInv, Dated
<1>7. Heaped'
  BY <1>1, HeapKeepsType DEF IInv, Heaped
<1> QED BY <1>3, <1>4, <1>5, <1>6, <1>7 DEF IInv

\* SetScheduler keeps the invariant.
LEMMA SetSchedulerIInv ==
    ASSUME IInv, SetScheduler
    PROVE  IInv'
<1>1. /\ list' = Moved(InsertSorted, <<>>) /\ heap' = Moved(HeapInsert, <<>>)
      /\ calendar' = Moved(CalendarInsert, NewCalendar) /\ removed' = FALSE
      /\ taken' = [taken EXCEPT !.heap = taken.map]
      /\ events' = events /\ uid' = uid /\ now' = now
  BY DEF SetScheduler
<1>2. IsFiniteSet(events) /\ events \subseteq Keys /\ events \subseteq Events /\ now \in Nat
  BY KeysAreEvents, BoundAssumption DEF IInv, Known
<1>3. Known'
  BY <1>1 DEF IInv, Known
<1>4. /\ taken' = [map |-> taken.map, list |-> taken.list, heap |-> taken.map,
                   calendar |-> taken.calendar]
  BY <1>1 DEF IInv, Agreed
<1>5. Agreed'
  BY <1>1, <1>4 DEF IInv, Agreed
<1>6. Listed'
  BY <1>1, <1>2, ListMoved DEF Listed
<1>7. Dated'
  BY <1>1, <1>2, CalendarMoved DEF Dated, CalendarOf
<1>8. Heaped'
  <2>1. HeapOf(heap', events')
    BY <1>1, <1>2, HeapMoved
  <2>2. heap' \in Seq(Keys)
    <3>1. heap' \in Seq(Events) /\ ToSet(heap') \subseteq Keys
      BY <1>1, <1>2, <2>1 DEF HeapOf, Heap
    <3>2. \A i \in 1 .. Len(heap') : heap'[i] \in Keys
      BY <3>1, ToSetIs
    <3> QED BY <3>1, <3>2, SeqTypeIs
  <2> QED BY <1>4, <2>1, <2>2 DEF Heaped
<1> QED BY <1>3, <1>5, <1>6, <1>7, <1>8 DEF IInv

\* Each step of the specification keeps the invariant.
LEMMA NextIInv ==
    ASSUME IInv, [Next]_vars
    PROVE  IInv'
<1>1. ASSUME NEW ts \in now .. MaxTs, Insert(ts) PROVE IInv'
  BY <1>1, InsertIInv
<1>2. ASSUME NEW e \in events, RemoveNext(e) PROVE IInv'
  BY <1>2, RemoveNextIInv
<1>3. ASSUME NEW e \in events, RemoveEvent(e) PROVE IInv'
  BY <1>3, RemoveEventIInv
<1>4. CASE SetScheduler
  BY <1>4, SetSchedulerIInv
<1>5. CASE UNCHANGED vars
  BY <1>5 DEF vars, IInv, Known, Agreed, Listed, Dated, Heaped
<1> QED BY <1>1, <1>2, <1>3, <1>4, <1>5 DEF Next

\* The invariant is inductive.
THEOREM Invariance == Spec => []IInv
<1>1. Init => IInv
  BY InitIInv
<1>2. IInv /\ [Next]_vars => IInv'
  BY NextIInv
<1> QED BY <1>1, <1>2, PTL DEF Spec

-----------------------------------------------------------------------------
(***************************************************************************)
(* What follows from it.                                                   *)
(***************************************************************************)

\* Every event is in the bucket of its time, the buckets are counted, and the
\* search starts no later than the first event.
THEOREM CalendarStaysFit == Spec => []CalendarFits
<1>1. ASSUME IInv PROVE CalendarFits
  <2>1. /\ Cal(calendar, events) /\ Bucketed(calendar) /\ Begins(calendar)
        /\ Stored(calendar) = events /\ calendar.qSize = Cardinality(events)
        /\ IsFiniteSet(events)
    BY <1>1 DEF IInv, Dated, Cal, Holds
  <2>2. TypeOK
    <3>1. list \in Seq(Keys)
      <4>1. list \in Seq(Events) /\ ToSet(list) \subseteq Keys
        BY <1>1 DEF IInv, Known, Listed, ListOf, Sorted
      <4>2. \A i \in 1 .. Len(list) : list[i] \in Keys
        BY <4>1, ToSetIs
      <4> QED BY <4>1, <4>2, SeqTypeIs
    <3>2. /\ calendar.width \in Nat \ {0} /\ calendar.nBuckets \in Nat \ {0}
          /\ calendar.qSize \in Nat
      BY <2>1, FS_CardinalityType DEF Bucketed
    <3> QED BY <1>1, <3>1, <3>2 DEF TypeOK, IInv, Known, Heaped
  <2>3. \A i \in DOMAIN calendar.buckets :
            \A e \in ToSet(calendar.buckets[i]) : Hash(calendar, e.ts) = i
    BY <2>1 DEF Bucketed
  <2>4. ASSUME NEW e \in Stored(calendar) PROVE e.ts >= calendar.bucketTop - calendar.width
    <3> DEFINE w == calendar.width
               start == calendar.lastPrio
               d == start \div w
    <3>1. w \in Nat \ {0} /\ start \in Nat /\ calendar.bucketTop = (d + 1) * w /\ e.ts >= start
      BY <2>1 DEF Bucketed, Begins
    <3>2. e.ts \in Nat
      BY <2>1, StoredIs DEF Events
    <3> HIDE DEF w, start
    <3>3. d \in Nat /\ d * w \in Nat /\ d * w <= start
      BY <3>1, QuotientIs
    <3> HIDE DEF d
    <3>4. (d + 1) * w - w = d * w
      BY <3>1, <3>3
    <3> QED BY <3>1, <3>2, <3>3, <3>4 DEF w
  <2> QED BY <2>1, <2>2, <2>3, <2>4 DEF CalendarFits
<1> QED BY <1>1, Invariance, PTL

\* The heap returns the earliest event as long as Remove is not used.
THEOREM HeapIsRight == Spec => []HeapTakesEarliest
<1>1. ASSUME IInv PROVE HeapTakesEarliest
  BY <1>1 DEF IInv, Heaped, HeapOf, HeapTakesEarliest
<1> QED BY <1>1, Invariance, PTL

\* A step of the events and of what was taken, as the event list allows it.
LEMMA Allowed ==
    ASSUME IInv, IInv', [Next]_vars
    PROVE  \/ \E e \in events' \ events : /\ Less(taken.map, e) /\ events' = events \union {e}
                                          /\ taken'.map = taken.map
           \/ \E e \in events \ events' : /\ \A f \in events \ {e} : Less(e, f)
                                          /\ events' = events \ {e} /\ taken'.map = e
           \/ \E e \in events \ events' : events' = events \ {e} /\ taken'.map = taken.map
           \/ events' = events /\ taken'.map = taken.map
<1>1. ASSUME NEW ts \in now .. MaxTs, Insert(ts)
      PROVE  \E e \in events' \ events : /\ Less(taken.map, e) /\ events' = events \union {e}
                                         /\ taken'.map = taken.map
  <2> DEFINE e == [ts |-> ts, uid |-> uid]
  <2>1. e \notin events /\ events' = events \union {e} /\ taken' = taken
    BY <1>1, InsertIInv DEF Insert
  <2>2. taken.map.ts = now /\ taken.map.uid < uid /\ now \in 0 .. MaxTs /\ MaxTs \in Nat
    BY BoundAssumption DEF IInv, Agreed, Known
  <2>3. Less(taken.map, e)
    BY <2>2 DEF Less
  <2> QED BY <2>1, <2>3
<1>2. ASSUME NEW e \in events, RemoveNext(e)
      PROVE  /\ e \in events \ events' /\ \A f \in events \ {e} : Less(e, f)
             /\ events' = events \ {e} /\ taken'.map = e
  BY <1>2 DEF RemoveNext
<1>3. ASSUME NEW e \in events, RemoveEvent(e)
      PROVE  e \in events \ events' /\ events' = events \ {e} /\ taken'.map = taken.map
  BY <1>3 DEF RemoveEvent
<1>4. ASSUME SetScheduler PROVE events' = events /\ taken'.map = taken.map
  <2>1. taken' = [taken EXCEPT !.heap = taken.map] /\ events' = events
    BY <1>4 DEF SetScheduler
  <2> QED BY <2>1 DEF IInv, Agreed
<1>5. ASSUME UNCHANGED vars PROVE events' = events /\ taken'.map = taken.map
  BY <1>5 DEF vars
<1> QED BY <1>1, <1>2, <1>3, <1>4, <1>5 DEF Next

\* List and calendar implement the event list: they hold its events, and return
\* what it says.
THEOREM EventListIsKept == Spec => EventListKept
<1>1. ASSUME IInv
      PROVE  /\ ToSet(list) = events /\ Stored(calendar) = events
             /\ taken.list = taken.map /\ taken.calendar = taken.map
  BY <1>1 DEF IInv, Listed, ListOf, Dated, Cal, Holds, Agreed
<1>2. ASSUME Init PROVE ListImplements!Init /\ CalendarImplements!Init
  <2>1. IInv /\ events = {} /\ taken.map = [ts |-> 0, uid |-> 0]
    BY <1>2, InitIInv DEF Init, None
  <2> QED BY <2>1, <1>1 DEF ListImplements!Init, CalendarImplements!Init
<1>3. ASSUME IInv, IInv', [Next]_vars
      PROVE  /\ [ListImplements!Next]_<<ToSet(list), taken.list>>
             /\ [CalendarImplements!Next]_<<Stored(calendar), taken.calendar>>
  <2>1. /\ ToSet(list) = events /\ Stored(calendar) = events
        /\ taken.list = taken.map /\ taken.calendar = taken.map
    BY <1>1, <1>3
  <2>2. /\ ToSet(list)' = events' /\ Stored(calendar)' = events'
        /\ taken'.list = taken'.map /\ taken'.calendar = taken'.map
    BY <1>3 DEF IInv, Listed, ListOf, Dated, Cal, Holds, Agreed
  <2>3. CASE \E e \in events' \ events : /\ Less(taken.map, e) /\ events' = events \union {e}
                                         /\ taken'.map = taken.map
    BY <2>1, <2>2, <2>3
       DEF Less, ListImplements!Next, ListImplements!Insert, ListImplements!Earlier,
           CalendarImplements!Next, CalendarImplements!Insert, CalendarImplements!Earlier
  <2>4. CASE \E e \in events \ events' : /\ \A f \in events \ {e} : Less(e, f)
                                         /\ events' = events \ {e} /\ taken'.map = e
    BY <2>1, <2>2, <2>4
       DEF Less, ListImplements!Next, ListImplements!RemoveNext, ListImplements!Earlier,
           CalendarImplements!Next, CalendarImplements!RemoveNext, CalendarImplements!Earlier
  <2>5. CASE \E e \in events \ events' : events' = events \ {e} /\ taken'.map = taken.map
    BY <2>1, <2>2, <2>5
       DEF ListImplements!Next, ListImplements!Remove,
           CalendarImplements!Next, CalendarImplements!Remove
  <2>6. CASE events' = events /\ taken'.map = taken.map
    BY <2>1, <2>2, <2>6
  <2> QED BY <1>3, <2>3, <2>4, <2>5, <2>6, Allowed
<1> QED BY <1>2, <1>3, Invariance, PTL
        DEF Spec, EventListKept, ListImplements!Spec, CalendarImplements!Spec
=============================================================================
