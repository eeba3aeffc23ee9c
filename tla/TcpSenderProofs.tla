--------------------------- MODULE TcpSenderProofs ---------------------------
(***************************************************************************)
(* What TcpSender keeps, for any stream, writes, windows and network.      *)
(*                                                                         *)
(* First the lists of items and the operations of TcpTxBuffer, each with   *)
(* what it makes of the marked bytes and of the counters (up to "The       *)
(* scoreboard"); then the handlers, which work on a socket that is not     *)
(* settled yet (Calm) and restore the invariant between two steps (Rest);  *)
(* then the network. The recursive functions of the model are shown to     *)
(* exist by Recursion, SetRecursion and FoldMax, and what each of their    *)
(* turns keeps the whole keeps by Induction, SetInduction and FoldKeeps.   *)
(* The theorems are at the end.                                            *)
(***************************************************************************)
EXTENDS TcpSenderInv, InductionFacts, SequenceTheorems

-----------------------------------------------------------------------------
(***************************************************************************)
(* Lists of items, and sums of their lengths.                              *)
(***************************************************************************)
\* As many bytes as its length.
LEMMA ItemSize ==
    ASSUME NEW item, item.seq \in Nat, item.len \in Nat
    PROVE  IsFiniteSet(SentBytes(item)) /\ Cardinality(SentBytes(item)) = item.len
<1> DEFINE a == item.seq
           b == item.seq + item.len - 1
<1>1. a \in Int /\ b \in Int /\ (IF a > b THEN 0 ELSE b - a + 1) = item.len
  OBVIOUS
<1>2. SentBytes(item) = a .. b
  BY DEF SentBytes, EndOf
<1> HIDE DEF a, b
<1> QED BY <1>1, <1>2, FS_Interval

\* Taking an item away takes its length away.
LEMMA OneLess ==
    ASSUME NEW list, Spans(list), NEW s \in SUBSET DOMAIN list, NEW x \in s,
           IsFiniteSet(BytesAt(list, s \ {x}))
    PROVE  /\ IsFiniteSet(BytesAt(list, s))
           /\ Cardinality(BytesAt(list, s))
                = list[x].len + Cardinality(BytesAt(list, s \ {x}))
           /\ Cardinality(BytesAt(list, s \ {x})) \in Nat
<1> DEFINE one == SentBytes(list[x])
           rest == BytesAt(list, s \ {x})
<1>1. IsFiniteSet(one) /\ Cardinality(one) = list[x].len
  BY ItemSize DEF Spans
<1>2. BytesAt(list, s) = one \union rest
  BY DEF BytesAt
<1>3. one \intersect rest = {}
  <2> SUFFICES ASSUME NEW b \in one, NEW h \in s \ {x}, b \in SentBytes(list[h])
               PROVE  FALSE
    BY DEF BytesAt
  <2>1. h \in DOMAIN list /\ x \in DOMAIN list /\ h # x /\ h \in Nat /\ x \in Nat
    BY DEF Spans
  <2>2. h < x \/ x < h
    BY <2>1
  <2>3. EndOf(list[h]) <= list[x].seq \/ EndOf(list[x]) <= list[h].seq
    BY <2>1, <2>2 DEF Spans
  <2>4. /\ list[h].seq \in Nat /\ list[h].len \in Nat
        /\ list[x].seq \in Nat /\ list[x].len \in Nat
    BY <2>1 DEF Spans
  <2> QED BY <2>3, <2>4 DEF SentBytes, EndOf
<1> HIDE DEF one, rest
<1> QED BY <1>1, <1>2, <1>3, SizeOfBoth, ZenonT(60) DEF rest

\* What SumOfLengths computes.
Summing(f, list, places) ==
    f = [s \in SUBSET places |->
            IF s = {} THEN 0
            ELSE LET x == CHOOSE x \in s : TRUE IN list[x].len + f[s \ {x}]]

\* The sum of the lengths of items is the number of their bytes.
LEMMA SumIs ==
    ASSUME NEW list, Spans(list), NEW places \in SUBSET DOMAIN list
    PROVE  /\ IsFiniteSet(BytesAt(list, places))
           /\ SumOfLengths(list, places) = Cardinality(BytesAt(list, places))
<1> DEFINE g == [s \in SUBSET places |-> Cardinality(BytesAt(list, s))]
           f == CHOOSE f : Summing(f, list, places)
           T == {k \in Nat : \A s \in SUBSET places :
                    Cardinality(s) = k => IsFiniteSet(BytesAt(list, s))}
           U == {k \in Nat : \A s \in SUBSET places : Cardinality(s) = k => f[s] = g[s]}
<1>1. \A s \in SUBSET places : IsFiniteSet(s) /\ Cardinality(s) \in Nat
  <2>1. IsFiniteSet(DOMAIN list)
    BY DEF Spans
  <2>2. ASSUME NEW s \in SUBSET places PROVE IsFiniteSet(s)
    BY <2>1, FS_Subset
  <2> QED BY <2>2, FS_CardinalityType
<1>2. BytesAt(list, {}) = {}
  BY DEF BytesAt
<1>3. ASSUME NEW k \in Nat, NEW s \in SUBSET places, Cardinality(s) = k + 1
      PROVE  LET x == CHOOSE x \in s : TRUE
             IN  x \in s /\ s \ {x} \in SUBSET places /\ Cardinality(s \ {x}) = k
  <2> DEFINE x == CHOOSE x \in s : TRUE
  <2>1. s # {}
    BY <1>3, FS_EmptySet
  <2>2. x \in s
    BY <2>1
  <2> HIDE DEF x
  <2>3. Cardinality(s \ {x}) = Cardinality(s) - 1
    BY <1>1, <2>2, FS_RemoveElement
  <2>4. Cardinality(s \ {x}) = k
    BY <2>3, <1>3
  <2> QED BY <2>2, <2>4 DEF x
<1>4. 0 \in T
  <2>1. ASSUME NEW s \in SUBSET places, Cardinality(s) = 0
        PROVE  IsFiniteSet(BytesAt(list, s))
    BY <1>1, <1>2, <2>1, FS_EmptySet
  <2> QED BY <2>1
<1>5. ASSUME NEW k \in Nat, k \in T PROVE k + 1 \in T
  <2>1. ASSUME NEW s \in SUBSET places, Cardinality(s) = k + 1
        PROVE  IsFiniteSet(BytesAt(list, s))
    <3> DEFINE x == CHOOSE x \in s : TRUE
    <3>1. x \in s /\ s \ {x} \in SUBSET places /\ Cardinality(s \ {x}) = k
      BY <1>3, <2>1
    <3> HIDE DEF x
    <3>2. IsFiniteSet(BytesAt(list, s \ {x}))
      BY <1>5, <3>1
    <3> QED BY <3>1, <3>2, OneLess
  <2> QED BY <2>1
<1>6. \A s \in SUBSET places : IsFiniteSet(BytesAt(list, s))
  <2> HIDE DEF T
  <2>1. Nat \subseteq T
    BY <1>4, <1>5, Induction
  <2> QED BY <1>1, <2>1 DEF T
<1> HIDE DEF T
<1>7. ASSUME NEW s \in SUBSET places
      PROVE  g[s] = IF s = {} THEN 0
                    ELSE LET x == CHOOSE x \in s : TRUE IN list[x].len + g[s \ {x}]
  <2>1. CASE s = {}
    BY <1>2, <2>1, FS_EmptySet
  <2>2. CASE s # {}
    <3> DEFINE x == CHOOSE x \in s : TRUE
    <3>1. x \in s /\ s \in SUBSET DOMAIN list /\ s \ {x} \in SUBSET places
      BY <2>2
    <3>2. g[s] = Cardinality(BytesAt(list, s))
          /\ g[s \ {x}] = Cardinality(BytesAt(list, s \ {x}))
      BY <3>1
    <3> HIDE DEF x, g
    <3>3. g[s] = list[x].len + g[s \ {x}]
      BY <1>6, <3>1, <3>2, OneLess
    <3> QED BY <2>2, <3>3 DEF x
  <2> QED BY <2>1, <2>2
<1>8. Summing(g, list, places)
  <2>1. g = [s \in SUBSET places |-> g[s]]
    OBVIOUS
  <2> HIDE DEF g
  <2>2. g = [s \in SUBSET places |->
                IF s = {} THEN 0
                ELSE LET x == CHOOSE x \in s : TRUE IN list[x].len + g[s \ {x}]]
    BY <1>7, <2>1
  <2> QED BY <2>2 DEF Summing
<1>9. Summing(f, list, places)
  BY <1>8
<1>10. SumOfLengths(list, places) = f[places]
  BY DEF SumOfLengths, MapThenSumSet, MapThenFoldSet, Summing
<1> HIDE DEF f, g
<1>11. ASSUME NEW s \in SUBSET places
       PROVE  f[s] = IF s = {} THEN 0
                     ELSE LET x == CHOOSE x \in s : TRUE IN list[x].len + f[s \ {x}]
  BY <1>9 DEF Summing
<1>12. 0 \in U
  <2>1. ASSUME NEW s \in SUBSET places, Cardinality(s) = 0 PROVE f[s] = g[s]
    <3>1. s = {}
      BY <2>1, <1>1, FS_EmptySet
    <3> QED BY <3>1, <1>7, <1>11
  <2> QED BY <2>1
<1>13. ASSUME NEW k \in Nat, k \in U PROVE k + 1 \in U
  <2>1. ASSUME NEW s \in SUBSET places, Cardinality(s) = k + 1 PROVE f[s] = g[s]
    <3> DEFINE x == CHOOSE x \in s : TRUE
    <3>1. x \in s /\ s \ {x} \in SUBSET places /\ Cardinality(s \ {x}) = k
      BY <1>3, <2>1
    <3>2. f[s \ {x}] = g[s \ {x}]
      <4> HIDE DEF x
      <4> QED BY <3>1, <1>13
    <3>3. s # {}
      BY <3>1
    <3>4. f[s] = list[x].len + f[s \ {x}] /\ g[s] = list[x].len + g[s \ {x}]
      BY <3>3, <1>7, <1>11
    <3> HIDE DEF x
    <3> QED BY <3>2, <3>4
  <2> QED BY <2>1
<1>14. f[places] = g[places]
  <2> HIDE DEF U
  <2>1. Nat \subseteq U
    BY <1>12, <1>13, Induction
  <2> QED BY <1>1, <2>1 DEF U
<1> QED BY <1>6, <1>10, <1>14 DEF g

\* The counters are sizes of sets of bytes.
LEMMA FlaggedIs ==
    ASSUME NEW list, Spans(list), NEW flag
    PROVE  /\ Flagged(list, flag) = Cardinality(Marked(list, flag))
           /\ IsFiniteSet(Marked(list, flag))
<1>1. With(list, flag) \in SUBSET DOMAIN list
  BY DEF With
<1> QED BY <1>1, SumIs DEF Flagged, Marked, With

\* Items that tile are apart.
LEMMA ChainIs ==
    ASSUME NEW list \in Seq(Item), Chained(list)
    PROVE  /\ Spans(list)
           /\ DOMAIN list = 1 .. Len(list) /\ Len(list) \in Nat
           /\ \A i \in DOMAIN list : /\ list[i] \in Item
                                     /\ EndOf(list[i]) \in Nat /\ list[i].seq < EndOf(list[i])
<1>1. /\ DOMAIN list = 1 .. Len(list) /\ Len(list) \in Nat
      /\ \A i \in DOMAIN list : list[i] \in Item
  BY LenProperties, ElementOfSeq
<1>2. \A i \in DOMAIN list : /\ list[i].seq \in Nat /\ list[i].len \in Nat
                             /\ EndOf(list[i]) \in Nat /\ list[i].seq < EndOf(list[i])
  BY <1>1 DEF Item, EndOf
<1> DEFINE T == {k \in Nat : \A i \in DOMAIN list :
                    i + k + 1 <= Len(list) => EndOf(list[i]) <= list[i + k + 1].seq}
<1>3. 0 \in T
  <2>1. ASSUME NEW i \in DOMAIN list, i + 0 + 1 <= Len(list)
        PROVE  EndOf(list[i]) <= list[i + 0 + 1].seq
    <3>1. i + 1 \in DOMAIN list /\ i + 1 > 1 /\ (i + 1) - 1 = i /\ i + 0 + 1 = i + 1
      BY <1>1, <2>1
    <3>2. list[i + 1].seq = EndOf(list[i])
      BY <3>1 DEF Chained
    <3> QED BY <1>2, <3>1, <3>2
  <2> QED BY <2>1
<1>4. ASSUME NEW k \in Nat, k \in T PROVE k + 1 \in T
  <2>1. ASSUME NEW i \in DOMAIN list, i + (k + 1) + 1 <= Len(list)
        PROVE  EndOf(list[i]) <= list[i + (k + 1) + 1].seq
    <3> DEFINE j == i + k + 1
    <3>1. j \in DOMAIN list /\ j + 1 \in DOMAIN list /\ j + 1 > 1 /\ (j + 1) - 1 = j
          /\ i + (k + 1) + 1 = j + 1
      BY <1>1, <2>1
    <3>2. list[j + 1].seq = EndOf(list[j])
      BY <3>1 DEF Chained
    <3>3. EndOf(list[i]) <= list[j].seq
      BY <1>1, <1>4, <2>1
    <3> HIDE DEF j
    <3> QED BY <1>2, <3>1, <3>2, <3>3
  <2> QED BY <2>1
<1>5. Nat \subseteq T
  <2> HIDE DEF T
  <2> QED BY <1>3, <1>4, Induction
<1>6. ASSUME NEW i \in DOMAIN list, NEW j \in DOMAIN list, i < j
      PROVE  EndOf(list[i]) <= list[j].seq
  <2>1. j - i - 1 \in Nat /\ i + (j - i - 1) + 1 = j /\ j <= Len(list)
    BY <1>1, <1>6
  <2>2. j - i - 1 \in T
    BY <1>5, <2>1
  <2> QED BY <2>1, <2>2
<1>7. IsFiniteSet(DOMAIN list) /\ DOMAIN list \subseteq Nat
  BY <1>1, FS_Interval
<1> QED BY <1>1, <1>2, <1>6, <1>7 DEF Spans

\* Items that tile cover what lies between their ends.
LEMMA CoverIs ==
    ASSUME NEW list \in Seq(Item), Chained(list), list # <<>>
    PROVE  BytesAt(list, DOMAIN list) = list[1].seq .. EndOf(list[Len(list)]) - 1
<1>1. /\ Spans(list) /\ DOMAIN list = 1 .. Len(list) /\ Len(list) \in Nat
      /\ \A i \in DOMAIN list : /\ list[i].seq \in Nat /\ EndOf(list[i]) \in Nat
                                /\ list[i].seq < EndOf(list[i])
  BY ChainIs DEF Item
<1>2. Len(list) >= 1
  BY <1>1, EmptySeq
<1> DEFINE T == {k \in Nat : k + 1 <= Len(list) =>
                    \A b \in list[1].seq .. EndOf(list[k + 1]) - 1 :
                        \E i \in DOMAIN list : b \in SentBytes(list[i])}
<1>3. 0 \in T
  BY <1>1, <1>2 DEF SentBytes
<1>4. ASSUME NEW k \in Nat, k \in T PROVE k + 1 \in T
  <2>1. ASSUME (k + 1) + 1 <= Len(list), NEW b \in list[1].seq .. EndOf(list[(k + 1) + 1]) - 1
        PROVE  \E i \in DOMAIN list : b \in SentBytes(list[i])
    <3> DEFINE j == k + 1
    <3>1. j \in DOMAIN list /\ j + 1 \in DOMAIN list /\ (j + 1) - 1 = j /\ j + 1 > 1
          /\ k + 1 <= Len(list)
      BY <1>1, <2>1
    <3>2. list[j + 1].seq = EndOf(list[j])
      BY <3>1 DEF Chained
    <3>3. CASE b < EndOf(list[j])
      <4>1. b \in list[1].seq .. EndOf(list[k + 1]) - 1
        BY <1>1, <2>1, <3>1, <3>3
      <4> QED BY <1>4, <3>1, <4>1
    <3>4. CASE b >= EndOf(list[j])
      <4>1. b \in SentBytes(list[j + 1])
        BY <2>1, <3>2, <3>4 DEF SentBytes
      <4> QED BY <3>1, <4>1
    <3>5. b \in Int /\ EndOf(list[j]) \in Nat
      BY <1>1, <3>1
    <3> HIDE DEF j
    <3> QED BY <3>3, <3>4, <3>5
  <2> QED BY <2>1
<1>5. Nat \subseteq T
  <2> HIDE DEF T
  <2> QED BY <1>3, <1>4, Induction
<1>6. ASSUME NEW b \in list[1].seq .. EndOf(list[Len(list)]) - 1
      PROVE  b \in BytesAt(list, DOMAIN list)
  <2>1. Len(list) - 1 \in Nat /\ (Len(list) - 1) + 1 = Len(list)
    BY <1>1, <1>2
  <2>2. Len(list) - 1 \in T
    BY <1>5, <2>1
  <2>3. \E i \in DOMAIN list : b \in SentBytes(list[i])
    BY <1>6, <2>1, <2>2
  <2> QED BY <2>3 DEF BytesAt
<1>7. ASSUME NEW b \in BytesAt(list, DOMAIN list)
      PROVE  b \in list[1].seq .. EndOf(list[Len(list)]) - 1
  <2>1. PICK i \in DOMAIN list : b \in SentBytes(list[i])
    BY DEF BytesAt
  <2>2. 1 \in DOMAIN list /\ Len(list) \in DOMAIN list
    BY <1>1, <1>2
  <2>3. i = 1 \/ EndOf(list[1]) <= list[i].seq
    BY <1>1, <2>2 DEF Spans
  <2>4. i = Len(list) \/ EndOf(list[i]) <= list[Len(list)].seq
    BY <1>1, <2>2 DEF Spans
  <2>5. list[1].seq <= list[i].seq /\ EndOf(list[i]) <= EndOf(list[Len(list)])
    BY <1>1, <2>2, <2>3, <2>4
  <2> QED BY <1>1, <2>1, <2>2, <2>5 DEF SentBytes
<1> QED BY <1>6, <1>7

\* A byte is of one item.
LEMMA OneItem ==
    ASSUME NEW list, Spans(list), NEW i \in DOMAIN list, NEW j \in DOMAIN list,
           NEW b, b \in SentBytes(list[i]), b \in SentBytes(list[j])
    PROVE  i = j
<1>1. i \in Nat /\ j \in Nat
  BY DEF Spans
<1>2. /\ list[i].seq \in Nat /\ list[i].len \in Nat
      /\ list[j].seq \in Nat /\ list[j].len \in Nat
  BY DEF Spans
<1>3. CASE i < j
  <2>1. EndOf(list[i]) <= list[j].seq
    BY <1>3 DEF Spans
  <2> QED BY <1>2, <2>1 DEF SentBytes, EndOf
<1>4. CASE j < i
  <2>1. EndOf(list[j]) <= list[i].seq
    BY <1>4 DEF Spans
  <2> QED BY <1>2, <2>1 DEF SentBytes, EndOf
<1> QED BY <1>1, <1>3, <1>4

\* A byte is marked as its item is.
LEMMA MarkedAs ==
    ASSUME NEW list, Spans(list), NEW i \in DOMAIN list, NEW b, b \in SentBytes(list[i]),
           NEW flag
    PROVE  b \in Marked(list, flag) <=> list[i][flag]
<1>1. ASSUME list[i][flag] PROVE b \in Marked(list, flag)
  BY <1>1 DEF Marked, BytesAt, With
<1>2. ASSUME b \in Marked(list, flag) PROVE list[i][flag]
  <2>1. PICK j \in DOMAIN list : list[j][flag] /\ b \in SentBytes(list[j])
    BY <1>2 DEF Marked, BytesAt, With
  <2>2. i = j
    BY <2>1, OneItem
  <2> QED BY <2>1, <2>2
<1> QED BY <1>1, <1>2

\* The extent of a buffer.
LEMMA TxExtent ==
    ASSUME NEW tx, tx \in Buffers, tx.sent # <<>> => tx.sent[1].seq = tx.first,
           Chained(tx.sent)
    PROVE  /\ Spans(tx.sent) /\ DOMAIN tx.sent = 1 .. Len(tx.sent) /\ Len(tx.sent) \in Nat
           /\ tx.sent = <<>> <=> Len(tx.sent) = 0
           /\ \A i \in DOMAIN tx.sent :
                 /\ tx.sent[i] \in Item
                 /\ tx.first <= tx.sent[i].seq /\ tx.sent[i].seq < EndOf(tx.sent[i])
                 /\ EndOf(tx.sent[i]) <= HighData(tx) /\ EndOf(tx.sent[i]) \in Nat
           /\ tx.first \in Nat /\ tx.first >= 1 /\ HighData(tx) \in Nat
           /\ IF tx.sent = <<>> THEN HighData(tx) = tx.first ELSE tx.first < HighData(tx)
           /\ BytesAt(tx.sent, DOMAIN tx.sent) = Out(tx)
           /\ \A flag : Marked(tx.sent, flag) \subseteq Out(tx)
           /\ IsFiniteSet(Out(tx)) /\ Cardinality(Out(tx)) = SentSize(tx)
           /\ SentSize(tx) \in Nat
<1>1. tx.sent \in Seq(Item) /\ tx.first \in Nat /\ tx.first >= 1
  BY DEF Buffers
<1>2. /\ Spans(tx.sent) /\ DOMAIN tx.sent = 1 .. Len(tx.sent) /\ Len(tx.sent) \in Nat
      /\ \A i \in DOMAIN tx.sent :
            /\ tx.sent[i] \in Item /\ tx.sent[i].seq \in Nat
            /\ EndOf(tx.sent[i]) \in Nat /\ tx.sent[i].seq < EndOf(tx.sent[i])
  BY <1>1, ChainIs DEF Item
<1>3. tx.sent = <<>> <=> Len(tx.sent) = 0
  BY <1>1, <1>2, EmptySeq
<1>4. CASE tx.sent = <<>>
  <2>1. HighData(tx) = tx.first /\ DOMAIN tx.sent = {}
    BY <1>2, <1>3, <1>4 DEF HighData
  <2>2. BytesAt(tx.sent, DOMAIN tx.sent) = {} /\ Out(tx) = {}
    BY <1>1, <2>1 DEF BytesAt, Out
  <2>3. SentSize(tx) = 0
    BY <1>1, <2>1 DEF SentSize
  <2>4. \A flag : Marked(tx.sent, flag) = {}
    BY <2>1 DEF Marked, BytesAt, With
  <2> QED BY <1>1, <1>2, <1>3, <1>4, <2>1, <2>2, <2>3, <2>4, FS_EmptySet
<1>5. CASE tx.sent # <<>>
  <2>1. 1 \in DOMAIN tx.sent /\ Len(tx.sent) \in DOMAIN tx.sent
    BY <1>2, <1>3, <1>5
  <2>2. HighData(tx) = EndOf(tx.sent[Len(tx.sent)]) /\ HighData(tx) \in Nat
    BY <1>2, <1>5, <2>1 DEF HighData, Last
  <2>3. BytesAt(tx.sent, DOMAIN tx.sent) = Out(tx)
    BY <1>1, <1>5, <2>2, CoverIs DEF Out
  <2>4. ASSUME NEW i \in DOMAIN tx.sent
        PROVE  tx.first <= tx.sent[i].seq /\ EndOf(tx.sent[i]) <= HighData(tx)
    <3>1. i = 1 \/ EndOf(tx.sent[1]) <= tx.sent[i].seq
      BY <1>2, <2>1, SMTT(30) DEF Spans
    <3>2. i = Len(tx.sent) \/ EndOf(tx.sent[i]) <= tx.sent[Len(tx.sent)].seq
      BY <1>2, <2>1 DEF Spans
    <3> QED BY <1>2, <1>5, <2>1, <2>2, <3>1, <3>2, SMTT(30)
  <2>5. tx.first < HighData(tx)
    BY <1>1, <1>2, <2>1, <2>2, <2>4
  <2>6. \A flag : Marked(tx.sent, flag) \subseteq Out(tx)
    BY <2>3 DEF Marked, BytesAt, With
  <2>7. /\ IsFiniteSet(Out(tx)) /\ Cardinality(Out(tx)) = SentSize(tx)
        /\ SentSize(tx) \in Nat
    <3> DEFINE a == tx.first
               b == HighData(tx) - 1
    <3>1. a \in Int /\ b \in Int /\ (IF a > b THEN 0 ELSE b - a + 1) = SentSize(tx)
      BY <1>1, <2>2, <2>5 DEF SentSize
    <3>2. Out(tx) = a .. b
      BY DEF Out
    <3>3. SentSize(tx) \in Nat
      BY <1>1, <2>2, <2>5 DEF SentSize
    <3> HIDE DEF a, b
    <3>4. IsFiniteSet(a .. b) /\ Cardinality(a .. b) = SentSize(tx)
      BY <3>1, FS_Interval
    <3> QED BY <3>2, <3>3, <3>4
  <2> QED BY <1>1, <1>2, <1>3, <1>5, <2>2, <2>3, <2>4, <2>5, <2>6, <2>7
<1> QED BY <1>4, <1>5

\* What a sound buffer has in flight is a number.
LEMMA TxIs ==
    ASSUME NEW tx, TxOk(tx)
    PROVE  /\ Sacked(tx) \subseteq Out(tx) /\ Lost(tx) \subseteq Out(tx)
           /\ Resent(tx) \subseteq Out(tx)
           /\ Sacked(tx) \intersect Lost(tx) = {}
           /\ BytesInFlight(tx) \in Nat
           /\ Sacked(tx) \union Lost(tx) = Out(tx) /\ Resent(tx) = {}
                => BytesInFlight(tx) = 0
<1>1. /\ Spans(tx.sent) /\ \A flag : Marked(tx.sent, flag) \subseteq Out(tx)
      /\ IsFiniteSet(Out(tx)) /\ Cardinality(Out(tx)) = SentSize(tx)
      /\ SentSize(tx) \in Nat
  BY TxExtent DEF TxOk
<1>2. Sacked(tx) \subseteq Out(tx) /\ Lost(tx) \subseteq Out(tx) /\ Resent(tx) \subseteq Out(tx)
  BY <1>1 DEF Sacked, Lost, Resent
<1>3. Sacked(tx) \intersect Lost(tx) = {}
  <2> SUFFICES ASSUME NEW b \in Sacked(tx), b \in Lost(tx) PROVE FALSE
    OBVIOUS
  <2>1. PICK i \in DOMAIN tx.sent : tx.sent[i].sacked /\ b \in SentBytes(tx.sent[i])
    BY DEF Sacked, Marked, BytesAt, With
  <2>2. tx.sent[i].lost
    BY <1>1, <2>1, MarkedAs DEF Lost
  <2> QED BY <2>1, <2>2 DEF TxOk
<1>4. IsFiniteSet(Sacked(tx)) /\ IsFiniteSet(Lost(tx)) /\ IsFiniteSet(Resent(tx))
  BY <1>1, <1>2, FS_Subset
<1> DEFINE both == Cardinality(Sacked(tx) \union Lost(tx))
           whole == Cardinality(Out(tx))
           resent == Cardinality(Resent(tx))
           p == Cardinality(Sacked(tx))
           q == Cardinality(Lost(tx))
<1>5. both = p + q /\ p \in Nat /\ q \in Nat
  BY <1>3, <1>4, SizeOfBoth
<1>6. both <= whole
  <2>1. Sacked(tx) \union Lost(tx) \in SUBSET Out(tx)
    BY <1>2
  <2> QED BY <1>1, <2>1, FS_Subset
<1>7. resent \in Nat /\ (Resent(tx) = {} => resent = 0)
  BY <1>4, FS_CardinalityType, FS_EmptySet
<1>8. tx.sackedOut = p /\ tx.lostOut = q /\ tx.retransOut = resent
  BY DEF TxOk, Sacked, Lost, Resent
<1>9. Sacked(tx) \union Lost(tx) = Out(tx) => both = whole
  OBVIOUS
<1>10. BytesInFlight(tx) = whole - (p + q) + resent /\ whole \in Nat
  BY <1>1, <1>8 DEF BytesInFlight
<1> HIDE DEF both, whole, resent, p, q
<1>11. BytesInFlight(tx) \in Nat
  BY <1>5, <1>6, <1>7, <1>10
<1>12. ASSUME Sacked(tx) \union Lost(tx) = Out(tx), Resent(tx) = {}
       PROVE  BytesInFlight(tx) = 0
  BY <1>5, <1>7, <1>9, <1>10, <1>12
<1> QED BY <1>2, <1>3, <1>11, <1>12

-----------------------------------------------------------------------------
(***************************************************************************)
(* Marking items.                                                          *)
(***************************************************************************)
\* What the flags of the items leave alone.
LEMMA SameItemsIs ==
    ASSUME NEW list \in Seq(Item), Chained(list), NEW L \in Seq(Item), SameItems(list, L)
    PROVE  /\ Chained(L) /\ Len(L) = Len(list) /\ Spans(list) /\ Spans(L)
           /\ \A i \in DOMAIN list : /\ SentBytes(L[i]) = SentBytes(list[i])
                                     /\ EndOf(L[i]) = EndOf(list[i])
           /\ L = <<>> <=> list = <<>>
<1>1. \A i \in DOMAIN list : EndOf(L[i]) = EndOf(list[i])
  BY DEF SameItems, EndOf
<1>2. \A i \in DOMAIN list : SentBytes(L[i]) = SentBytes(list[i])
  BY <1>1 DEF SameItems, SentBytes
<1>3. /\ DOMAIN list = 1 .. Len(list) /\ Len(list) \in Nat
      /\ DOMAIN L = 1 .. Len(L) /\ Len(L) \in Nat
  BY LenProperties
<1>4. Len(L) = Len(list)
  BY <1>3 DEF SameItems
<1>5. Chained(L)
  <2> SUFFICES ASSUME NEW i \in DOMAIN L, i > 1 PROVE L[i].seq = EndOf(L[i - 1])
    BY DEF Chained
  <2>1. i \in DOMAIN list /\ i - 1 \in DOMAIN list
    BY <1>3, <1>4
  <2>2. list[i].seq = EndOf(list[i - 1])
    BY <2>1 DEF Chained
  <2> QED BY <1>1, <2>1, <2>2 DEF SameItems
<1>6. L = <<>> <=> list = <<>>
  BY <1>3, <1>4, EmptySeq
<1> QED BY <1>1, <1>2, <1>4, <1>5, <1>6, ChainIs

\* The bytes marked when the flag of one item changes.
LEMMA OneFlag ==
    ASSUME NEW list \in Seq(Item), Chained(list), NEW L \in Seq(Item), SameItems(list, L),
           NEW i \in DOMAIN list, NEW flag,
           \A k \in DOMAIN list : k # i => L[k][flag] = list[k][flag],
           list[i][flag] \in BOOLEAN, L[i][flag] \in BOOLEAN
    PROVE  /\ Marked(L, flag) = IF L[i][flag] THEN Marked(list, flag) \union SentBytes(list[i])
                                ELSE Marked(list, flag) \ SentBytes(list[i])
           /\ Cardinality(Marked(L, flag)) =
                CASE L[i][flag] /\ ~list[i][flag] -> Cardinality(Marked(list, flag)) + list[i].len
                  [] ~L[i][flag] /\ list[i][flag] -> Cardinality(Marked(list, flag)) - list[i].len
                  [] L[i][flag] = list[i][flag] -> Cardinality(Marked(list, flag))
           /\ Cardinality(Marked(L, flag)) \in Nat
<1> DEFINE own == SentBytes(list[i])
           old == Marked(list, flag)
           new == Marked(L, flag)
           n == Cardinality(old)
           m == Cardinality(new)
           k == list[i].len
<1>1. /\ Spans(list) /\ Spans(L)
      /\ \A j \in DOMAIN list : SentBytes(L[j]) = SentBytes(list[j])
  BY SameItemsIs
<1>2. IsFiniteSet(old) /\ IsFiniteSet(new) /\ n \in Nat /\ m \in Nat
  BY <1>1, FlaggedIs, FS_CardinalityType
<1>3. k \in Nat /\ IsFiniteSet(own) /\ Cardinality(own) = k
  BY <1>1, ItemSize DEF Spans
<1>4. ASSUME NEW b, b \notin own PROVE b \in new <=> b \in old
  <2>1. ASSUME b \in new PROVE b \in old
    <3>1. PICK j \in DOMAIN list : L[j][flag] /\ b \in SentBytes(L[j])
      BY <2>1 DEF Marked, BytesAt, With, SameItems
    <3>2. b \in SentBytes(list[j]) /\ j # i
      BY <1>1, <1>4, <3>1
    <3> QED BY <3>1, <3>2 DEF Marked, BytesAt, With
  <2>2. ASSUME b \in old PROVE b \in new
    <3>1. PICK j \in DOMAIN list : list[j][flag] /\ b \in SentBytes(list[j])
      BY <2>2 DEF Marked, BytesAt, With
    <3>2. b \in SentBytes(L[j]) /\ j # i
      BY <1>1, <1>4, <3>1
    <3> QED BY <3>1, <3>2 DEF Marked, BytesAt, With, SameItems
  <2> QED BY <2>1, <2>2
<1>5. ASSUME NEW b \in own PROVE (b \in new <=> L[i][flag]) /\ (b \in old <=> list[i][flag])
  <2>1. b \in SentBytes(L[i]) /\ i \in DOMAIN L
    BY <1>1 DEF SameItems
  <2> QED BY <1>1, <2>1, MarkedAs
<1> HIDE DEF own, old, new
<1>6. new = IF L[i][flag] THEN old \union own ELSE old \ own
  <2>1. CASE L[i][flag]
    <3>1. \A b : b \in new <=> b \in old \/ b \in own
      BY <1>4, <1>5, <2>1
    <3> QED BY <2>1, <3>1
  <2>2. CASE ~L[i][flag]
    <3>1. \A b : b \in new <=> b \in old /\ b \notin own
      BY <1>4, <1>5, <2>2
    <3> QED BY <2>2, <3>1
  <2> QED BY <2>1, <2>2
<1>7. CASE L[i][flag] /\ ~list[i][flag]
  <2>1. new = old \union own /\ old \intersect own = {}
    BY <1>5, <1>6, <1>7
  <2>2. m = n + k
    BY <1>2, <1>3, <2>1, SizeOfBoth
  <2> HIDE DEF m, n, k
  <2> QED BY <1>2, <1>6, <1>7, <2>2 DEF m, n, k, old, new, own
<1>8. CASE ~L[i][flag] /\ list[i][flag]
  <2>1. old = new \union own /\ new \intersect own = {}
    BY <1>5, <1>6, <1>8
  <2>2. n = m + k
    BY <1>2, <1>3, <2>1, SizeOfBoth
  <2> HIDE DEF m, n, k
  <2>3. m = n - k
    BY <1>2, <1>3, <2>2
  <2> QED BY <1>2, <1>6, <1>8, <2>3 DEF m, n, k, old, new, own
<1>9. CASE L[i][flag] = list[i][flag]
  <2>1. new = old
    <3>1. ASSUME L[i][flag] PROVE new = old
      BY <1>5, <1>6, <1>9, <3>1
    <3>2. ASSUME ~L[i][flag] PROVE new = old
      BY <1>5, <1>6, <1>9, <3>2
    <3> QED BY <3>1, <3>2
  <2>2. ~(L[i][flag] /\ ~list[i][flag]) /\ ~(~L[i][flag] /\ list[i][flag])
    BY <1>9
  <2> QED BY <1>2, <1>6, <1>9, <2>1, <2>2 DEF old, new, own
<1>10. \/ L[i][flag] /\ ~list[i][flag]
       \/ ~L[i][flag] /\ list[i][flag]
       \/ L[i][flag] = list[i][flag]
  OBVIOUS
<1> QED BY <1>7, <1>8, <1>9, <1>10

LEMMA SameExtentIs ==
    ASSUME NEW tx, TxOk(tx), NEW t, t.sent \in Seq(Item), SameItems(tx.sent, t.sent),
           t.first = tx.first, t.app = tx.app
    PROVE  SameExtent(tx, t) /\ Chained(t.sent) /\ (t.sent # <<>> => t.sent[1].seq = t.first)
<1>1. tx.sent \in Seq(Item) /\ Chained(tx.sent)
  BY DEF TxOk, Buffers
<1>2. /\ Chained(t.sent) /\ Len(t.sent) = Len(tx.sent)
      /\ \A i \in DOMAIN tx.sent : /\ SentBytes(t.sent[i]) = SentBytes(tx.sent[i])
                                   /\ EndOf(t.sent[i]) = EndOf(tx.sent[i])
      /\ t.sent = <<>> <=> tx.sent = <<>>
  BY <1>1, SameItemsIs
<1>3. tx.sent # <<>> => 1 \in DOMAIN tx.sent /\ Len(tx.sent) \in DOMAIN tx.sent
  BY TxExtent DEF TxOk
<1>4. HighData(t) = HighData(tx)
  BY <1>2, <1>3 DEF HighData, Last
<1>5. Out(t) = Out(tx)
  BY <1>4 DEF Out
<1>6. t.sent # <<>> => t.sent[1].seq = t.first
  BY <1>2, <1>3 DEF SameItems, TxOk
<1> QED BY <1>2, <1>4, <1>5, <1>6 DEF SameExtent, SameItems

\* One item changes its flags.
LEMMA Remarked ==
    ASSUME NEW tx, TxOk(tx), NEW i \in DOMAIN tx.sent, NEW x \in Item,
           x.seq = tx.sent[i].seq, x.len = tx.sent[i].len, ~(x.lost /\ x.sacked),
           NEW t \in Counting, t.first = tx.first, t.app = tx.app,
           t.sent = [tx.sent EXCEPT ![i] = x],
           t.sackedOut = Counted(tx.sackedOut, x.sacked, tx.sent[i].sacked, x.len),
           t.lostOut = Counted(tx.lostOut, x.lost, tx.sent[i].lost, x.len),
           t.retransOut = Counted(tx.retransOut, x.retrans, tx.sent[i].retrans, x.len)
    PROVE  /\ TxOk(t) /\ SameExtent(tx, t)
           /\ Sacked(t) = MarkedNow(Sacked(tx), x.sacked, x)
           /\ Lost(t) = MarkedNow(Lost(tx), x.lost, x)
           /\ Resent(t) = MarkedNow(Resent(tx), x.retrans, x)
           /\ t.sent[i] = x /\ \A k \in DOMAIN tx.sent : k # i => t.sent[k] = tx.sent[k]
<1>1. tx.sent \in Seq(Item) /\ Chained(tx.sent) /\ t.sent \in Seq(Item)
  BY DEF TxOk, Buffers, Counting
<1>2. DOMAIN tx.sent = 1 .. Len(tx.sent) /\ \A k \in DOMAIN tx.sent : tx.sent[k] \in Item
  BY TxExtent DEF TxOk
<1>3. /\ DOMAIN t.sent = DOMAIN tx.sent /\ t.sent[i] = x
      /\ \A k \in DOMAIN tx.sent : k # i => t.sent[k] = tx.sent[k]
  OBVIOUS
<1>4. SameItems(tx.sent, t.sent)
  BY <1>3 DEF SameItems
<1>5. /\ SameExtent(tx, t) /\ Chained(t.sent)
      /\ t.sent # <<>> => t.sent[1].seq = t.first
  BY <1>1, <1>4, SameExtentIs
<1>6. SentBytes(x) = SentBytes(tx.sent[i])
  BY DEF SentBytes, EndOf
<1>7. ASSUME NEW flag \in {"sacked", "lost", "retrans"}
      PROVE  /\ Marked(t.sent, flag) = MarkedNow(Marked(tx.sent, flag), x[flag], x)
             /\ Cardinality(Marked(t.sent, flag))
                  = Counted(Cardinality(Marked(tx.sent, flag)), x[flag],
                            tx.sent[i][flag], x.len)
             /\ Cardinality(Marked(t.sent, flag)) \in Nat
  <2>1. tx.sent[i][flag] \in BOOLEAN /\ t.sent[i][flag] \in BOOLEAN
    BY <1>2, <1>3 DEF Item
  <2>2. \A k \in DOMAIN tx.sent : k # i => t.sent[k][flag] = tx.sent[k][flag]
    BY <1>3
  <2> DEFINE old == tx.sent
             new == t.sent
  <2>3. /\ Marked(new, flag) = IF new[i][flag] THEN Marked(old, flag) \union SentBytes(old[i])
                               ELSE Marked(old, flag) \ SentBytes(old[i])
        /\ Cardinality(Marked(new, flag)) =
             CASE new[i][flag] /\ ~old[i][flag] -> Cardinality(Marked(old, flag)) + old[i].len
               [] ~new[i][flag] /\ old[i][flag] -> Cardinality(Marked(old, flag)) - old[i].len
               [] new[i][flag] = old[i][flag] -> Cardinality(Marked(old, flag))
        /\ Cardinality(Marked(new, flag)) \in Nat
    <3> HIDE DEF old, new
    <3>1. /\ old \in Seq(Item) /\ Chained(old) /\ new \in Seq(Item) /\ SameItems(old, new)
          /\ i \in DOMAIN old /\ old[i][flag] \in BOOLEAN /\ new[i][flag] \in BOOLEAN
          /\ \A k \in DOMAIN old : k # i => new[k][flag] = old[k][flag]
      BY <1>1, <1>4, <2>1, <2>2 DEF old, new
    <3> QED BY <3>1, OneFlag
  <2>4. new[i] = x /\ SentBytes(old[i]) = SentBytes(x) /\ old[i].len = x.len
    BY <1>3, <1>6
  <2> HIDE DEF old, new
  <2>5. Marked(new, flag) = MarkedNow(Marked(old, flag), x[flag], x)
    BY <2>3, <2>4 DEF MarkedNow
  <2>6. Cardinality(Marked(new, flag))
          = Counted(Cardinality(Marked(old, flag)), x[flag], old[i][flag], x.len)
    BY <2>3, <2>4 DEF Counted
  <2> QED BY <2>3, <2>5, <2>6 DEF old, new
<1>8. /\ t.sackedOut = Cardinality(Marked(t.sent, "sacked"))
      /\ t.lostOut = Cardinality(Marked(t.sent, "lost"))
      /\ t.retransOut = Cardinality(Marked(t.sent, "retrans"))
  <2>1. /\ tx.sackedOut = Cardinality(Marked(tx.sent, "sacked"))
        /\ tx.lostOut = Cardinality(Marked(tx.sent, "lost"))
        /\ tx.retransOut = Cardinality(Marked(tx.sent, "retrans"))
    BY DEF TxOk
  <2> QED BY <1>7, <2>1
<1>9. t \in Buffers
  <2>1. t.sackedOut \in Nat /\ t.lostOut \in Nat /\ t.retransOut \in Nat
    BY <1>7, <1>8
  <2> QED BY <2>1 DEF Buffers, Counting
<1>10. \A k \in DOMAIN t.sent :
          t.sent[k].len <= SegmentSize /\ ~(t.sent[k].lost /\ t.sent[k].sacked)
  BY <1>3 DEF TxOk
<1>11. TxOk(t)
  BY <1>5, <1>8, <1>9, <1>10 DEF TxOk
<1> QED BY <1>3, <1>5, <1>7, <1>11 DEF Sacked, Lost, Resent

-----------------------------------------------------------------------------
(***************************************************************************)
(* Cutting and joining items.                                              *)
(***************************************************************************)
\* What two lists mark together.
LEMMA BehindMarks ==
    ASSUME NEW A \in Seq(Item), NEW B \in Seq(Item)
    PROVE  /\ \A flag : Marked(A \o B, flag) = Marked(A, flag) \union Marked(B, flag)
           /\ Starts(A \o B) = Starts(A) \union Starts(B)
<1> DEFINE C == A \o B
           n == Len(A)
           m == Len(B)
<1>1. /\ DOMAIN A = 1 .. n /\ DOMAIN B = 1 .. m /\ DOMAIN C = 1 .. n + m
      /\ \A i \in 1 .. n : C[i] = A[i]
      /\ \A i \in 1 .. m : C[n + i] = B[i]
      /\ \A k \in 1 .. n + m : k \in 1 .. n \/ \E i \in 1 .. m : k = n + i
      /\ n \in Nat /\ m \in Nat
  BY BehindIs
<1> HIDE DEF C, n, m
<1>2. 1 .. n \subseteq 1 .. n + m /\ \A i \in 1 .. m : n + i \in 1 .. n + m
  BY <1>1
<1>3. ASSUME NEW flag, NEW k \in DOMAIN C, C[k][flag]
      PROVE  \/ \E i \in With(A, flag) : C[k] = A[i]
             \/ \E i \in With(B, flag) : C[k] = B[i]
  <2>1. CASE k \in 1 .. n
    BY <1>1, <1>3, <2>1 DEF With
  <2>2. ASSUME NEW i \in 1 .. m, k = n + i PROVE \E j \in With(B, flag) : C[k] = B[j]
    BY <1>1, <1>3, <2>2 DEF With
  <2> QED BY <1>1, <2>1, <2>2
<1>4. ASSUME NEW flag, NEW i \in With(A, flag) PROVE i \in With(C, flag) /\ C[i] = A[i]
  BY <1>1, <1>2 DEF With
<1>5. ASSUME NEW flag, NEW i \in With(B, flag)
      PROVE  n + i \in With(C, flag) /\ C[n + i] = B[i]
  BY <1>1, <1>2 DEF With
<1>6. ASSUME NEW flag PROVE Marked(C, flag) = Marked(A, flag) \union Marked(B, flag)
  <2>1. ASSUME NEW b \in Marked(C, flag) PROVE b \in Marked(A, flag) \union Marked(B, flag)
    <3>1. PICK k \in DOMAIN C : C[k][flag] /\ b \in SentBytes(C[k])
      BY DEF Marked, BytesAt, With
    <3> QED BY <1>3, <3>1 DEF Marked, BytesAt
  <2>2. ASSUME NEW b \in Marked(A, flag) PROVE b \in Marked(C, flag)
    <3>1. PICK i \in With(A, flag) : b \in SentBytes(A[i])
      BY DEF Marked, BytesAt
    <3> QED BY <1>4, <3>1 DEF Marked, BytesAt
  <2>3. ASSUME NEW b \in Marked(B, flag) PROVE b \in Marked(C, flag)
    <3>1. PICK i \in With(B, flag) : b \in SentBytes(B[i])
      BY DEF Marked, BytesAt
    <3> QED BY <1>5, <3>1 DEF Marked, BytesAt
  <2> QED BY <2>1, <2>2, <2>3
<1>7. Starts(C) = Starts(A) \union Starts(B)
  <2>1. ASSUME NEW b \in Starts(C) PROVE b \in Starts(A) \union Starts(B)
    <3>1. PICK k \in DOMAIN C : C[k]["sacked"] /\ b = C[k].seq
      BY DEF Starts, With
    <3> QED BY <1>3, <3>1 DEF Starts
  <2>2. ASSUME NEW b \in Starts(A) PROVE b \in Starts(C)
    <3>1. PICK i \in With(A, "sacked") : b = A[i].seq
      BY DEF Starts
    <3> QED BY <1>4, <3>1 DEF Starts
  <2>3. ASSUME NEW b \in Starts(B) PROVE b \in Starts(C)
    <3>1. PICK i \in With(B, "sacked") : b = B[i].seq
      BY DEF Starts
    <3> QED BY <1>5, <3>1 DEF Starts
  <2> QED BY <2>1, <2>2, <2>3
<1> QED BY <1>6, <1>7 DEF C

\* When two lists tile together.
LEMMA BehindChains ==
    ASSUME NEW A \in Seq(Item), NEW B \in Seq(Item)
    PROVE  Chained(A \o B) <=>
              /\ Chained(A) /\ Chained(B)
              /\ A # <<>> /\ B # <<>> => B[1].seq = EndOf(A[Len(A)])
<1> DEFINE C == A \o B
           n == Len(A)
           m == Len(B)
<1>1. /\ DOMAIN A = 1 .. n /\ DOMAIN B = 1 .. m /\ DOMAIN C = 1 .. n + m
      /\ \A i \in 1 .. n : C[i] = A[i]
      /\ \A i \in 1 .. m : C[n + i] = B[i]
      /\ \A k \in 1 .. n + m : k \in 1 .. n \/ \E i \in 1 .. m : k = n + i
      /\ n \in Nat /\ m \in Nat
  BY BehindIs
<1>2. (A = <<>> <=> n = 0) /\ (B = <<>> <=> m = 0)
  BY <1>1, EmptySeq
<1> HIDE DEF C, n, m
<1>3. ASSUME Chained(C)
      PROVE  Chained(A) /\ Chained(B) /\ (A # <<>> /\ B # <<>> => B[1].seq = EndOf(A[n]))
  <2>1. ASSUME NEW i \in 1 .. n, i > 1 PROVE A[i].seq = EndOf(A[i - 1])
    <3>1. i \in 1 .. n + m /\ i - 1 \in 1 .. n
      BY <1>1, <2>1
    <3>2. C[i].seq = EndOf(C[i - 1])
      BY <1>1, <1>3, <2>1, <3>1 DEF Chained
    <3> QED BY <1>1, <3>1, <3>2
  <2>2. ASSUME NEW i \in 1 .. m, i > 1 PROVE B[i].seq = EndOf(B[i - 1])
    <3>1. n + i \in 1 .. n + m /\ n + i > 1 /\ i - 1 \in 1 .. m /\ (n + i) - 1 = n + (i - 1)
      BY <1>1, <2>2
    <3>2. C[n + i].seq = EndOf(C[n + (i - 1)])
      BY <1>1, <1>3, <3>1 DEF Chained
    <3> QED BY <1>1, <3>1, <3>2
  <2>3. ASSUME A # <<>>, B # <<>> PROVE B[1].seq = EndOf(A[n])
    <3>1. n + 1 \in 1 .. n + m /\ n + 1 > 1 /\ 1 \in 1 .. m /\ (n + 1) - 1 = n /\ n \in 1 .. n
      BY <1>1, <1>2, <2>3
    <3>2. C[n + 1].seq = EndOf(C[n])
      BY <1>1, <1>3, <3>1 DEF Chained
    <3> QED BY <1>1, <3>1, <3>2
  <2> QED BY <1>1, <2>1, <2>2, <2>3 DEF Chained
<1>4. ASSUME Chained(A), Chained(B), A # <<>> /\ B # <<>> => B[1].seq = EndOf(A[n])
      PROVE  Chained(C)
  <2>1. ASSUME NEW k \in 1 .. n, k > 1 PROVE C[k].seq = EndOf(C[k - 1])
    <3>1. k - 1 \in 1 .. n
      BY <1>1, <2>1
    <3>2. A[k].seq = EndOf(A[k - 1])
      BY <1>1, <1>4, <2>1 DEF Chained
    <3> QED BY <1>1, <3>1, <3>2
  <2>2. ASSUME NEW i \in 1 .. m, n + i > 1 PROVE C[n + i].seq = EndOf(C[(n + i) - 1])
    <3>1. CASE i > 1
      <4>1. i - 1 \in 1 .. m /\ (n + i) - 1 = n + (i - 1)
        BY <1>1, <3>1
      <4>2. B[i].seq = EndOf(B[i - 1])
        BY <1>1, <1>4, <3>1 DEF Chained
      <4> QED BY <1>1, <4>1, <4>2
    <3>2. CASE i = 1
      <4>1. n \in 1 .. n /\ (n + i) - 1 = n /\ m # 0 /\ n # 0
        BY <1>1, <2>2, <3>2
      <4>2. B[1].seq = EndOf(A[n])
        BY <1>2, <1>4, <4>1
      <4>3. C[n + i] = B[1] /\ C[n] = A[n]
        BY <1>1, <3>2, <4>1
      <4> QED BY <4>1, <4>2, <4>3
    <3> QED BY <3>1, <3>2
  <2>3. ASSUME NEW k \in DOMAIN C, k > 1 PROVE C[k].seq = EndOf(C[k - 1])
    <3>1. CASE k \in 1 .. n
      BY <2>1, <2>3, <3>1
    <3>2. ASSUME NEW i \in 1 .. m, k = n + i PROVE C[k].seq = EndOf(C[k - 1])
      BY <2>2, <2>3, <3>2
    <3> QED BY <1>1, <3>1, <3>2
  <2> QED BY <2>3 DEF Chained
<1> QED BY <1>3, <1>4 DEF C, n

\* One item, and two.
LEMMA OneIs ==
    ASSUME NEW x \in Item
    PROVE  /\ <<x>> \in Seq(Item) /\ <<x>> # <<>> /\ Len(<<x>>) = 1 /\ <<x>>[1] = x
           /\ Chained(<<x>>) /\ DOMAIN <<x>> = 1 .. 1
           /\ \A flag : Marked(<<x>>, flag) = IF x[flag] THEN SentBytes(x) ELSE {}
           /\ Starts(<<x>>) = IF x.sacked THEN {x.seq} ELSE {}
<1>1. /\ <<x>> \in Seq(Item) /\ <<x>> # <<>> /\ Len(<<x>>) = 1 /\ <<x>>[1] = x
      /\ DOMAIN <<x>> = 1 .. 1
  OBVIOUS
<1>2. Chained(<<x>>)
  BY <1>1 DEF Chained
<1> DEFINE L == <<x>>
<1>3. DOMAIN L = {1} /\ L[1] = x
  OBVIOUS
<1> HIDE DEF L
<1>4. ASSUME NEW flag PROVE Marked(L, flag) = IF x[flag] THEN SentBytes(x) ELSE {}
  <2>1. With(L, flag) = IF x[flag] THEN {1} ELSE {}
    BY <1>3 DEF With
  <2>2. CASE x[flag]
    <3>1. UNION {SentBytes(L[i]) : i \in {1}} = SentBytes(L[1])
      OBVIOUS
    <3> QED BY <1>3, <2>1, <2>2, <3>1 DEF Marked, BytesAt
  <2>3. CASE ~x[flag]
    BY <2>1, <2>3 DEF Marked, BytesAt
  <2> QED BY <2>2, <2>3
<1>5. Starts(L) = IF x.sacked THEN {x.seq} ELSE {}
  BY <1>3 DEF Starts, With
<1> QED BY <1>1, <1>2, <1>4, <1>5 DEF L

LEMMA TwoAre ==
    ASSUME NEW x \in Item, NEW y \in Item
    PROVE  /\ Pair(x, y) \in Seq(Item) /\ Pair(x, y) # <<>> /\ Len(Pair(x, y)) = 2
           /\ Pair(x, y)[1] = x /\ Pair(x, y)[2] = y
           /\ Chained(Pair(x, y)) <=> y.seq = EndOf(x)
           /\ \A flag : Marked(Pair(x, y), flag) = (IF x[flag] THEN SentBytes(x) ELSE {})
                                             \union (IF y[flag] THEN SentBytes(y) ELSE {})
           /\ Starts(Pair(x, y)) = (IF x.sacked THEN {x.seq} ELSE {})
                                   \union (IF y.sacked THEN {y.seq} ELSE {})
<1> DEFINE P == Pair(x, y)
<1>1. /\ P \in Seq(Item) /\ P # <<>> /\ Len(P) = 2
      /\ P[1] = x /\ P[2] = y
  BY DEF Pair
<1> DEFINE A == <<x>>
           B == <<y>>
<1> HIDE DEF P
<1>2. /\ A \in Seq(Item) /\ A # <<>> /\ Len(A) = 1 /\ A[1] = x /\ Chained(A)
      /\ B \in Seq(Item) /\ B # <<>> /\ B[1] = y /\ Chained(B)
      /\ \A flag : Marked(A, flag) = IF x[flag] THEN SentBytes(x) ELSE {}
      /\ Starts(A) = IF x.sacked THEN {x.seq} ELSE {}
      /\ \A flag : Marked(B, flag) = IF y[flag] THEN SentBytes(y) ELSE {}
      /\ Starts(B) = IF y.sacked THEN {y.seq} ELSE {}
  BY OneIs
<1> HIDE DEF A, B
<1>3. /\ Chained(A \o B) <=> y.seq = EndOf(x)
      /\ \A flag : Marked(A \o B, flag) = Marked(A, flag) \union Marked(B, flag)
      /\ Starts(A \o B) = Starts(A) \union Starts(B)
  BY <1>2, BehindChains, BehindMarks
<1>4. P = A \o B
  BY PairIs DEF A, B, P, Pair
<1>5. P = Pair(x, y)
  BY DEF P
<1> QED BY <1>1, <1>2, <1>3, <1>4, <1>5

LEMMA NoStarts ==
    ASSUME NEW x \in Item, NEW y \in Item, ~x.sacked, ~y.sacked
    PROVE  Starts(Pair(x, y)) = {}
<1>1. Starts(Pair(x, y)) = (IF x.sacked THEN {x.seq} ELSE {})
                              \union (IF y.sacked THEN {y.seq} ELSE {})
  BY TwoAre
<1> QED BY <1>1

\* Some items in the middle become others.
LEMMA SwapIs ==
    ASSUME NEW A \in Seq(Item), NEW B \in Seq(Item), NEW M \in Seq(Item), NEW N \in Seq(Item),
           M # <<>>, Retiled(M, N),
           Chained(Three(A, M, B))
    PROVE  /\ Retiled(Three(A, M, B), Three(A, N, B))
           /\ Three(A, N, B)[Len(A) + 1] = N[1]
           /\ Len(A) + 1 \in DOMAIN Three(A, N, B)
           /\ Len(A) >= 1 => Three(A, N, B)[1] = A[1] /\ Three(A, M, B)[1] = A[1]
           /\ Drawn(Three(A, N, B), A, N, B)
<1> DEFINE AM == A \o M
           AN == A \o N
           P == AM \o B
           Q == AN \o B
           a == Len(A)
           b == Len(B)
           m == Len(M)
           n == Len(N)
<1>1. /\ AM \in Seq(Item) /\ Len(AM) = a + m /\ a \in Nat /\ m \in Nat
      /\ DOMAIN A = 1 .. a /\ DOMAIN M = 1 .. m
      /\ \A i \in 1 .. a : AM[i] = A[i]
      /\ \A i \in 1 .. m : AM[a + i] = M[i]
  BY BehindIs
<1>2. /\ AN \in Seq(Item) /\ Len(AN) = a + n /\ n \in Nat /\ DOMAIN N = 1 .. n
      /\ DOMAIN AN = 1 .. a + n
      /\ \A i \in 1 .. a : AN[i] = A[i]
      /\ \A i \in 1 .. n : AN[a + i] = N[i]
      /\ \A k \in 1 .. a + n : k \in 1 .. a \/ \E i \in 1 .. n : k = a + i
  BY BehindIs
<1>3. m >= 1 /\ n >= 1 /\ (A = <<>> <=> a = 0) /\ (B = <<>> <=> b = 0)
  BY <1>1, <1>2, EmptySeq, LenProperties DEF Retiled
<1> HIDE DEF AM, AN, a, b, m, n
<1>4. /\ P \in Seq(Item) /\ Len(P) = (a + m) + b /\ b \in Nat
      /\ \A i \in 1 .. a + m : P[i] = AM[i]
      /\ \A i \in 1 .. b : P[(a + m) + i] = B[i]
  <2>0. AM \in Seq(Item)
    BY <1>1
  <2>1. /\ P \in Seq(Item) /\ Len(P) = Len(AM) + b /\ b \in Nat
        /\ \A i \in 1 .. Len(AM) : P[i] = AM[i]
        /\ \A i \in 1 .. b : P[Len(AM) + i] = B[i]
    BY <2>0, BehindIs DEF b
  <2> HIDE DEF P
  <2> QED BY <1>1, <2>1
<1>5. /\ Q \in Seq(Item) /\ Len(Q) = (a + n) + b
      /\ DOMAIN Q = 1 .. (a + n) + b /\ DOMAIN B = 1 .. b
      /\ \A i \in 1 .. a + n : Q[i] = AN[i]
      /\ \A i \in 1 .. b : Q[(a + n) + i] = B[i]
      /\ \A k \in 1 .. (a + n) + b : k \in 1 .. a + n \/ \E i \in 1 .. b : k = (a + n) + i
  <2>0. AN \in Seq(Item)
    BY <1>2
  <2>1. /\ Q \in Seq(Item) /\ Len(Q) = Len(AN) + b
        /\ DOMAIN Q = 1 .. Len(AN) + b /\ DOMAIN B = 1 .. b
        /\ \A i \in 1 .. Len(AN) : Q[i] = AN[i]
        /\ \A i \in 1 .. b : Q[Len(AN) + i] = B[i]
        /\ \A k \in 1 .. Len(AN) + b :
              k \in 1 .. Len(AN) \/ \E i \in 1 .. b : k = Len(AN) + i
    BY <2>0, BehindIs DEF b
  <2> HIDE DEF Q
  <2> QED BY <1>2, <2>1
<1>6. /\ \A flag \in Flags : Marked(P, flag)
                                = (Marked(A, flag) \union Marked(M, flag)) \union Marked(B, flag)
      /\ Starts(P) = (Starts(A) \union Starts(M)) \union Starts(B)
  <2>1. /\ \A flag : Marked(AM, flag) = Marked(A, flag) \union Marked(M, flag)
        /\ Starts(AM) = Starts(A) \union Starts(M)
    BY BehindMarks DEF AM
  <2>2. /\ \A flag : Marked(P, flag) = Marked(AM, flag) \union Marked(B, flag)
        /\ Starts(P) = Starts(AM) \union Starts(B)
    BY <1>1, BehindMarks
  <2> QED BY <2>1, <2>2
<1>7. /\ \A flag \in Flags : Marked(Q, flag)
                                = (Marked(A, flag) \union Marked(N, flag)) \union Marked(B, flag)
      /\ Starts(Q) = (Starts(A) \union Starts(N)) \union Starts(B)
  <2>1. /\ \A flag : Marked(AN, flag) = Marked(A, flag) \union Marked(N, flag)
        /\ Starts(AN) = Starts(A) \union Starts(N)
    BY BehindMarks DEF AN
  <2>2. /\ \A flag : Marked(Q, flag) = Marked(AN, flag) \union Marked(B, flag)
        /\ Starts(Q) = Starts(AN) \union Starts(B)
    BY <1>2, BehindMarks
  <2> QED BY <2>1, <2>2
<1>8. /\ \A flag \in Flags : Marked(Q, flag) = Marked(P, flag)
      /\ Starts(Q) = Starts(P)
  <2>1. Starts(N) = Starts(M) /\ \A flag \in Flags : Marked(N, flag) = Marked(M, flag)
    BY DEF Retiled
  <2> HIDE DEF P, Q
  <2> QED BY <1>6, <1>7, <2>1
<1>9. Chained(Q)
  <2>0. Chained(P)
    BY DEF AM, Three
  <2>1. Chained(AM) /\ Chained(B) /\ (AM # <<>> /\ B # <<>> => B[1].seq = EndOf(AM[Len(AM)]))
    BY <1>1, <2>0, BehindChains
  <2>2. /\ Chained(A) /\ Chained(M)
        /\ A # <<>> /\ M # <<>> => M[1].seq = EndOf(A[Len(A)])
    BY <2>1, BehindChains DEF AM
  <2>3. Chained(AN)
    <3>1. N[1].seq = M[1].seq /\ Chained(N)
      BY DEF Retiled
    <3> QED BY <2>2, <3>1, BehindChains DEF AN
  <2>4. ASSUME B # <<>> PROVE B[1].seq = EndOf(AN[Len(AN)])
    <3>1. AM # <<>>
      BY <1>1, <1>3, EmptySeq
    <3>2. B[1].seq = EndOf(AM[a + m])
      BY <1>1, <2>1, <2>4, <3>1
    <3>3. AM[a + m] = M[m] /\ AN[a + n] = N[n]
      BY <1>1, <1>2, <1>3
    <3>4. EndOf(N[n]) = EndOf(M[m])
      BY DEF Retiled, m, n
    <3> QED BY <1>2, <3>2, <3>3, <3>4
  <2> QED BY <1>2, <2>1, <2>3, <2>4, BehindChains
<1>10. Q # <<>> /\ Q[1].seq = P[1].seq
  <2>1. Len(Q) # 0
    BY <1>3, <1>5, <1>2, <1>1, <1>4
  <2>2. Q # <<>>
    BY <2>1, <1>5, EmptySeq
  <2>3. 1 \in 1 .. a + n /\ 1 \in 1 .. a + m
    BY <1>1, <1>2, <1>3
  <2>4. CASE a >= 1
    <3>1. P[1] = A[1] /\ Q[1] = A[1]
      BY <1>1, <1>2, <1>4, <1>5, <2>3, <2>4
    <3> QED BY <2>2, <3>1
  <2>5. CASE a = 0
    <3>1. AM[a + 1] = M[1] /\ AN[a + 1] = N[1] /\ a + 1 = 1
      <4>1. 1 \in 1 .. m /\ 1 \in 1 .. n /\ a + 1 = 1
        BY <1>1, <1>2, <1>3, <2>5
      <4> QED BY <1>1, <1>2, <4>1
    <3>2. P[1] = M[1] /\ Q[1] = N[1]
      BY <1>4, <1>5, <2>3, <3>1
    <3> QED BY <2>2, <3>2 DEF Retiled
  <2> QED BY <1>1, <2>4, <2>5
<1>11. EndOf(Q[Len(Q)]) = EndOf(P[Len(P)])
  <2>1. CASE b >= 1
    <3>1. b \in 1 .. b
      BY <1>4, <2>1
    <3>2. P[(a + m) + b] = B[b] /\ Q[(a + n) + b] = B[b]
      BY <1>4, <1>5, <3>1
    <3> HIDE DEF P, Q
    <3> QED BY <1>4, <1>5, <3>2
  <2>2. CASE b = 0
    <3>1. Len(P) = a + m /\ Len(Q) = a + n /\ a + m \in 1 .. a + m /\ a + n \in 1 .. a + n
      BY <1>1, <1>2, <1>3, <1>4, <1>5, <2>2
    <3>2. P[a + m] = M[m] /\ Q[a + n] = N[n]
      <4>1. m \in 1 .. m /\ n \in 1 .. n
        BY <1>1, <1>2, <1>3
      <4>2. AM[a + m] = M[m] /\ AN[a + n] = N[n]
        BY <1>1, <1>2, <4>1
      <4> QED BY <1>4, <1>5, <3>1, <4>2
    <3>3. EndOf(N[n]) = EndOf(M[m])
      BY DEF Retiled, m, n
    <3> QED BY <3>1, <3>2, <3>3
  <2>3. b >= 1 \/ b = 0
    BY <1>4
  <2> QED BY <2>1, <2>2, <2>3
<1>12. a + 1 \in DOMAIN Q /\ Q[a + 1] = N[1]
  <2>1. a + 1 \in 1 .. a + n /\ a + 1 \in 1 .. (a + n) + b /\ 1 \in 1 .. n
    BY <1>1, <1>2, <1>3, <1>4
  <2> QED BY <1>2, <1>5, <2>1
<1>13. ASSUME a >= 1 PROVE Q[1] = A[1] /\ P[1] = A[1]
  <2>1. 1 \in 1 .. a /\ 1 \in 1 .. a + n /\ 1 \in 1 .. a + m
    BY <1>1, <1>2, <1>13
  <2> QED BY <1>1, <1>2, <1>4, <1>5, <2>1
<1>14. ASSUME NEW k \in DOMAIN Q
       PROVE  \/ \E j \in DOMAIN A : Q[k] = A[j]
              \/ \E j \in DOMAIN N : Q[k] = N[j]
              \/ \E j \in DOMAIN B : Q[k] = B[j]
  <2>1. ASSUME k \in 1 .. a + n
        PROVE  (\E j \in DOMAIN A : Q[k] = A[j]) \/ (\E j \in DOMAIN N : Q[k] = N[j])
    <3>1. Q[k] = AN[k]
      BY <1>5, <2>1
    <3>2. CASE k \in 1 .. a
      BY <1>1, <1>2, <3>1, <3>2
    <3>3. ASSUME NEW i \in 1 .. n, k = a + i PROVE \E j \in DOMAIN N : Q[k] = N[j]
      BY <1>2, <3>1, <3>3
    <3> QED BY <1>2, <2>1, <3>2, <3>3
  <2>2. ASSUME NEW i \in 1 .. b, k = (a + n) + i PROVE \E j \in DOMAIN B : Q[k] = B[j]
    BY <1>5, <2>2
  <2> QED BY <1>5, <2>1, <2>2
<1> HIDE DEF P, Q
<1>17. Drawn(Q, A, N, B)
  BY <1>14 DEF Drawn
<1>15. Retiled(P, Q)
  BY <1>5, <1>8, <1>9, <1>10, <1>11 DEF Retiled
<1>16. P = Three(A, M, B) /\ Q = Three(A, N, B)
  BY DEF P, Q, AM, AN, Three
<1> QED BY <1>12, <1>13, <1>15, <1>16, <1>17 DEF a

\* The pieces of a list about an item.
LEMMA PiecesAre ==
    ASSUME NEW A \in Seq(Item), NEW B \in Seq(Item), NEW m \in Item
    PROVE  /\ Three(A, One(m), B) \in Seq(Item)
           /\ Len(A) + 1 \in DOMAIN Three(A, One(m), B)
           /\ Three(A, One(m), B)[Len(A) + 1] = m
           /\ SubSeq(Three(A, One(m), B), 1, Len(A)) = A
           /\ SubSeq(Three(A, One(m), B), Len(A) + 2, Len(Three(A, One(m), B))) = B
           /\ \A k \in DOMAIN A : Three(A, One(m), B)[k] = A[k]
<1> DEFINE J == Three(A, One(m), B)
           a == Len(A)
           b == Len(B)
           M == <<m>>
           AM == A \o M
<1>1. /\ AM \in Seq(Item) /\ Len(AM) = a + 1 /\ a \in Nat /\ DOMAIN A = 1 .. a
      /\ \A i \in 1 .. a : AM[i] = A[i]
      /\ AM[a + 1] = m
  <2>1. M \in Seq(Item) /\ Len(M) = 1 /\ M[1] = m
    BY OneIs
  <2> HIDE DEF M
  <2>2. /\ AM \in Seq(Item) /\ Len(AM) = a + Len(M) /\ a \in Nat /\ DOMAIN A = 1 .. a
        /\ \A i \in 1 .. a : AM[i] = A[i]
        /\ \A i \in 1 .. Len(M) : AM[a + i] = M[i]
    <3>1. A \in Seq(Item) /\ M \in Seq(Item)
      BY <2>1
    <3> QED BY <3>1, BehindIs DEF a
  <2>3. 1 \in 1 .. Len(M)
    BY <2>1
  <2> QED BY <2>1, <2>2, <2>3
<1>2. J = AM \o B
  BY DEF Three, One
<1> HIDE DEF AM, M, a, b, J
<1>3. /\ J \in Seq(Item) /\ Len(J) = (a + 1) + b /\ b \in Nat
      /\ DOMAIN J = 1 .. (a + 1) + b
      /\ \A i \in 1 .. a + 1 : J[i] = AM[i]
      /\ \A i \in 1 .. b : J[(a + 1) + i] = B[i]
  <2> DEFINE P == AM \o B
  <2>0. AM \in Seq(Item)
    BY <1>1
  <2>1. /\ P \in Seq(Item) /\ Len(P) = Len(AM) + b /\ b \in Nat
        /\ DOMAIN P = 1 .. Len(AM) + b
        /\ \A i \in 1 .. Len(AM) : P[i] = AM[i]
        /\ \A i \in 1 .. b : P[Len(AM) + i] = B[i]
    BY <2>0, BehindIs DEF b
  <2>2. J = P
    BY <1>2
  <2> HIDE DEF P
  <2> QED BY <1>1, <2>1, <2>2
<1>4. a + 1 \in DOMAIN J /\ J[a + 1] = m /\ (a + 1) - 1 = a /\ (a + 1) + 1 = a + 2
  <2>1. a + 1 \in 1 .. a + 1 /\ a + 1 \in 1 .. (a + 1) + b
    BY <1>1, <1>3
  <2>2. J[a + 1] = AM[a + 1]
    BY <1>3, <2>1
  <2> QED BY <1>1, <1>3, <2>1, <2>2
<1>5. \A k \in 1 .. a : J[k] = A[k]
  BY <1>1, <1>3
<1>6. /\ SubSeq(J, 1, a) \in Seq(Item) /\ Len(SubSeq(J, 1, a)) = a
      /\ \A k \in 1 .. a : SubSeq(J, 1, a)[k] = J[k]
      /\ SubSeq(J, a + 2, Len(J)) \in Seq(Item)
      /\ Len(SubSeq(J, a + 2, Len(J))) = Len(J) - (a + 1)
      /\ \A k \in 1 .. Len(J) - (a + 1) : SubSeq(J, a + 2, Len(J))[k] = J[(a + 1) + k]
  <2> DEFINE i == a + 1
  <2>1. i \in DOMAIN J /\ i - 1 = a /\ i + 1 = a + 2
    BY <1>4
  <2> HIDE DEF i
  <2>2. /\ SubSeq(J, 1, i - 1) \in Seq(Item) /\ Len(SubSeq(J, 1, i - 1)) = i - 1
        /\ \A k \in 1 .. i - 1 : SubSeq(J, 1, i - 1)[k] = J[k]
        /\ SubSeq(J, i + 1, Len(J)) \in Seq(Item)
        /\ Len(SubSeq(J, i + 1, Len(J))) = Len(J) - i
        /\ \A k \in 1 .. Len(J) - i : SubSeq(J, i + 1, Len(J))[k] = J[i + k]
    <3>1. J \in Seq(Item)
      BY <1>3
    <3> QED BY <2>1, <3>1, AroundIs, SMTT(30)
  <2> QED BY <2>1, <2>2 DEF i
<1>7. SubSeq(J, 1, a) = A
  <2>1. \A k \in 1 .. Len(SubSeq(J, 1, a)) : SubSeq(J, 1, a)[k] = A[k]
    BY <1>5, <1>6
  <2> QED BY <1>6, <2>1, SeqEqual DEF a
<1>8. SubSeq(J, a + 2, Len(J)) = B
  <2>1. Len(J) - (a + 1) = b
    BY <1>1, <1>3
  <2>2. \A k \in 1 .. Len(SubSeq(J, a + 2, Len(J))) : SubSeq(J, a + 2, Len(J))[k] = B[k]
    BY <1>3, <1>6, <2>1
  <2> QED BY <1>6, <2>1, <2>2, SeqEqual DEF b
<1>9. J = Three(A, One(m), B)
  BY DEF J
<1> QED BY <1>1, <1>3, <1>4, <1>5, <1>7, <1>8, <1>9 DEF a

LEMMA MiddleIs ==
    ASSUME NEW A \in Seq(Item), NEW B \in Seq(Item), NEW m \in Item
    PROVE  Three(A, One(m), B)[Len(A) + 1] = m
BY PiecesAre

\* A cut through an item.
LEMMA CutIs ==
    ASSUME NEW A \in Seq(Item), NEW B \in Seq(Item), NEW m \in Item,
           Chained(Three(A, One(m), B)), NEW b \in Nat, m.seq < b, b <= EndOf(m)
    PROVE  SplitItems(Three(A, One(m), B), b)
              = IF b = EndOf(m) THEN Three(A, One(m), B)
                ELSE Three(A, Pair(Below(m, b), Above(m, b)), B)
<1> DEFINE J == Three(A, One(m), B)
           K == IF b = EndOf(m) THEN J ELSE Three(A, Pair(Below(m, b), Above(m, b)), B)
<1> HIDE DEF J
<1>0. J = Three(A, One(m), B) /\ Chained(J)
  BY DEF J
<1> DEFINE across == {i \in DOMAIN J : J[i].seq < b /\ b < EndOf(J[i])}
           i == Len(A) + 1
<1>1. /\ J \in Seq(Item) /\ i \in DOMAIN J /\ J[i] = m /\ Len(A) \in Nat
      /\ SubSeq(J, 1, Len(A)) = A /\ SubSeq(J, Len(A) + 2, Len(J)) = B
  <2> DEFINE T == Three(A, One(m), B)
  <2>1. T \in Seq(Item) /\ i \in DOMAIN T /\ T[i] = m
    BY PiecesAre
  <2>2. SubSeq(T, 1, Len(A)) = A
    BY PiecesAre
  <2>3. SubSeq(T, Len(A) + 2, Len(T)) = B
    BY PiecesAre
  <2>4. Len(A) \in Nat
    BY LenProperties
  <2> HIDE DEF across, T
  <2>5. J = T
    BY <1>0 DEF T
  <2> QED BY <2>1, <2>2, <2>3, <2>4, <2>5
<1>2. /\ Spans(J) /\ DOMAIN J = 1 .. Len(J) /\ Len(J) \in Nat
      /\ \A k \in DOMAIN J : J[k] \in Item /\ EndOf(J[k]) \in Nat
  BY <1>0, <1>1, ChainIs
<1>3. m.seq \in Nat /\ EndOf(m) \in Nat
  BY DEF Item, EndOf
<1> SUFFICES SplitItems(J, b) = K
  BY DEF J
<1>4. i - 1 = Len(A) /\ i + 1 = Len(A) + 2
  BY <1>1
<1> HIDE DEF i
<1>5. ASSUME NEW k \in across PROVE k = i /\ b < EndOf(m)
  <2>1. k \in DOMAIN J /\ J[k].seq < b /\ b < EndOf(J[k]) /\ J[k].seq \in Nat /\ EndOf(J[k]) \in Nat
    BY <1>2 DEF Item
  <2>2. b - 1 \in SentBytes(J[k])
    BY <2>1 DEF SentBytes
  <2>3. b - 1 \in SentBytes(J[i])
    <3> DEFINE z == EndOf(m)
    <3>1. m.seq <= b - 1 /\ b - 1 <= z - 1 /\ z \in Nat /\ b - 1 \in Int
      BY <1>3
    <3> HIDE DEF z
    <3>2. b - 1 \in m.seq .. z - 1
      BY <1>3, <3>1
    <3> QED BY <1>1, <3>2 DEF SentBytes, z
  <2>4. k = i
    BY <1>1, <1>2, <2>1, <2>2, <2>3, OneItem
  <2> QED BY <1>1, <2>1, <2>4
<1>6. CASE b = EndOf(m)
  <2>1. across = {}
    <3> HIDE DEF across
    <3>1. ~(b < EndOf(m))
      BY <1>3, <1>6
    <3> QED BY <1>5, <3>1
  <2> QED BY <1>6, <2>1 DEF SplitItems
<1>7. CASE b # EndOf(m)
  <2>1. b < EndOf(m)
    BY <1>3, <1>7
  <2>2. i \in across
    BY <1>1, <2>1
  <2>3. across = {i}
    BY <1>5, <2>2
  <2>4. Min(across) = i
    <3>1. i \in Nat
      BY <1>1, <1>2
    <3> HIDE DEF across
    <3> QED BY <2>3, <3>1 DEF Min
  <2>5. SplitItems(J, b) = SubSeq(J, 1, i - 1) \o <<Below(J[i], b), Above(J[i], b)>>
                              \o SubSeq(J, i + 1, Len(J))
    BY <2>2, <2>4 DEF SplitItems
  <2> QED BY <1>1, <1>4, <1>7, <2>5 DEF Three, Pair
<1> QED BY <1>6, <1>7

\* Where an item is.
LEMMA PlaceIs ==
    ASSUME NEW tx, TxOk(tx), NEW i \in DOMAIN tx.sent
    PROVE  ItemAt(tx, tx.sent[i].seq) = i
<1>1. /\ Spans(tx.sent)
      /\ \A k \in DOMAIN tx.sent : /\ tx.sent[k].seq \in Nat /\ EndOf(tx.sent[k]) \in Nat
                                   /\ tx.sent[k].seq < EndOf(tx.sent[k])
  BY TxExtent DEF TxOk, Item
<1>2. ASSUME NEW k \in DOMAIN tx.sent, tx.sent[k].seq = tx.sent[i].seq PROVE k = i
  <2>1. tx.sent[i].seq \in SentBytes(tx.sent[i])
    BY <1>1 DEF SentBytes
  <2>2. tx.sent[i].seq \in SentBytes(tx.sent[k])
    BY <1>1, <1>2 DEF SentBytes
  <2> QED BY <1>1, <2>1, <2>2, OneItem
<1> QED BY <1>2 DEF ItemAt

\* The buffer of other items with the same flags.
LEMMA RetiledIs ==
    ASSUME NEW tx, TxOk(tx), tx.sent # <<>>, NEW t, Retiled(tx.sent, t.sent),
           t \in Buffers, t.first = tx.first, t.app = tx.app, t.high = tx.high,
           t.sackedOut = tx.sackedOut, t.lostOut = tx.lostOut, t.retransOut = tx.retransOut,
           \A k \in DOMAIN t.sent :
              t.sent[k].len <= SegmentSize /\ ~(t.sent[k].lost /\ t.sent[k].sacked)
    PROVE  /\ TxOk(t) /\ HighData(t) = HighData(tx)
           /\ Sacked(t) = Sacked(tx) /\ Lost(t) = Lost(tx) /\ Resent(t) = Resent(tx)
<1>1. Sacked(t) = Sacked(tx) /\ Lost(t) = Lost(tx) /\ Resent(t) = Resent(tx)
  BY DEF Retiled, Flags, Sacked, Lost, Resent
<1>2. HighData(t) = HighData(tx)
  BY DEF Retiled, HighData, Last
<1>3. TxOk(t)
  <2>1. t.sent[1].seq = t.first /\ Chained(t.sent)
    BY DEF Retiled, TxOk
  <2> QED BY <1>1, <2>1 DEF TxOk, Sacked, Lost, Resent
<1> QED BY <1>1, <1>2, <1>3

\* The list of MergeItems.
LEMMA MergedList ==
    ASSUME NEW list \in Seq(Item), NEW i \in DOMAIN list, i + 1 \in DOMAIN list, NEW m \in Item
    PROVE  RemoveAt([list EXCEPT ![i] = m], i + 1)
              = Three(SubSeq(list, 1, i - 1), One(m), SubSeq(list, i + 2, Len(list)))
<1> DEFINE n == Len(list)
           A == SubSeq(list, 1, i - 1)
           B == SubSeq(list, i + 2, n)
           E == [list EXCEPT ![i] = m]
<1>1. /\ A \in Seq(Item) /\ Len(A) = i - 1 /\ \A k \in 1 .. i - 1 : A[k] = list[k]
      /\ i \in Nat /\ i >= 1 /\ n \in Nat /\ i <= n
  BY AroundIs
<1>2. /\ B \in Seq(Item) /\ Len(B) = n - (i + 1)
      /\ \A k \in 1 .. n - (i + 1) : B[k] = list[(i + 1) + k]
  BY AroundTwo
<1>3. DOMAIN list = 1 .. n
  BY LenProperties
<1>4. /\ E \in Seq(Item) /\ Len(E) = n /\ DOMAIN E = 1 .. n
      /\ \A k \in 1 .. n : E[k] = IF k = i THEN m ELSE list[k]
  BY <1>3, ExceptSeq
<1> HIDE DEF E, A, B, n
<1>5. /\ SubSeq(E, 1, i - 1) \in Seq(Item) /\ Len(SubSeq(E, 1, i - 1)) = i - 1
      /\ \A k \in 1 .. i - 1 : SubSeq(E, 1, i - 1)[k] = E[k]
  BY <1>3, <1>4, AroundIs
<1>6. SubSeq(E, 1, i - 1) = A
  <2>1. \A k \in 1 .. i - 1 : k \in 1 .. n /\ k # i
    BY <1>1
  <2>2. \A k \in 1 .. Len(SubSeq(E, 1, i - 1)) : SubSeq(E, 1, i - 1)[k] = A[k]
    BY <1>1, <1>4, <1>5, <2>1
  <2> QED BY <1>1, <1>5, <2>2, SeqEqual
<1>7. SubSeq(E, 1, i) = A \o <<m>>
  <2>1. i \in 1 .. n /\ i \in 1 .. i /\ 1 \in 1 .. n
    BY <1>1
  <2>2. SubSeq(E, 1, i) = SubSeq(E, 1, i - 1) \o <<E[i]>>
    <3>1. 1 \in 1 .. Len(E) /\ i \in 1 .. Len(E)
      BY <1>4, <2>1
    <3> QED BY <1>4, <3>1, <2>1, SubSeqRecursiveSecond
  <2> QED BY <1>4, <1>6, <2>1, <2>2
<1>8. SubSeq(E, i + 2, n) = B
  <2>1. i + 1 \in DOMAIN E
    BY <1>3, <1>4
  <2>2. /\ SubSeq(E, i + 2, Len(E)) \in Seq(Item)
        /\ Len(SubSeq(E, i + 2, Len(E))) = Len(E) - (i + 1)
        /\ \A k \in 1 .. Len(E) - (i + 1) : SubSeq(E, i + 2, Len(E))[k] = E[(i + 1) + k]
    BY <1>3, <1>4, <2>1, AroundTwo, SMTT(30)
  <2>3. ASSUME NEW k \in 1 .. n - (i + 1) PROVE (i + 1) + k \in 1 .. n /\ (i + 1) + k # i
    BY <1>1
  <2>4. \A k \in 1 .. Len(SubSeq(E, i + 2, n)) : SubSeq(E, i + 2, n)[k] = B[k]
    BY <1>2, <1>4, <2>2, <2>3, ZenonT(60)
  <2> QED BY <1>2, <1>4, <2>2, <2>4, SeqEqual
<1>9. RemoveAt(E, i + 1) = SubSeq(E, 1, i) \o SubSeq(E, i + 2, n)
  <2>1. (i + 1) - 1 = i /\ (i + 1) + 1 = i + 2
    BY <1>1
  <2>2. RemoveAt(E, i + 1) = SubSeq(E, 1, (i + 1) - 1) \o SubSeq(E, (i + 1) + 1, Len(E))
    BY DEF RemoveAt
  <2> QED BY <1>4, <2>1, <2>2
<1> QED BY <1>7, <1>8, <1>9 DEF E, A, B, n, Three, One

\* A flag set to what it is changes nothing.
LEMMA NoChange ==
    ASSUME NEW list, Spans(list), NEW i \in DOMAIN list, NEW flag, list[i][flag] \in BOOLEAN,
           NEW x, x.seq = list[i].seq, x.len = list[i].len
    PROVE  MarkedNow(Marked(list, flag), list[i][flag], x) = Marked(list, flag)
<1>1. SentBytes(x) = SentBytes(list[i])
  BY DEF SentBytes, EndOf
<1>2. \A b \in SentBytes(list[i]) : b \in Marked(list, flag) <=> list[i][flag]
  BY MarkedAs
<1>3. CASE list[i][flag]
  BY <1>1, <1>2, <1>3 DEF MarkedNow
<1>4. CASE ~list[i][flag]
  BY <1>1, <1>2, <1>4 DEF MarkedNow
<1> QED BY <1>3, <1>4

\* Where SACKed items begin depends on the flag.
LEMMA StartsSame ==
    ASSUME NEW tx, NEW t, SameExtent(tx, t),
           \A k \in DOMAIN tx.sent : t.sent[k].sacked = tx.sent[k].sacked
    PROVE  Starts(t.sent) = Starts(tx.sent)
<1>1. With(t.sent, "sacked") = With(tx.sent, "sacked")
  BY DEF With, SameExtent
<1>2. \A k \in With(tx.sent, "sacked") : t.sent[k].seq = tx.sent[k].seq
  BY DEF With, SameExtent
<1> QED BY <1>1, <1>2 DEF Starts

LEMMA Reflagged ==
    ASSUME NEW tx, TxOk(tx), NEW i \in DOMAIN tx.sent, NEW v \in BOOLEAN
    PROVE  LET t == Reflag(tx, i, v)
           IN  /\ TxOk(t) /\ SameExtent(tx, t)
               /\ Sacked(t) = Sacked(tx) /\ Lost(t) = Lost(tx)
               /\ Resent(t) = MarkedNow(Resent(tx), v, tx.sent[i])
               /\ Starts(t.sent) = Starts(tx.sent)
               /\ t.high = tx.high /\ t.sackedOut = tx.sackedOut /\ t.lostOut = tx.lostOut
               /\ t.retransOut = Counted(tx.retransOut, v, tx.sent[i].retrans, tx.sent[i].len)
               /\ t.sent[i] = [tx.sent[i] EXCEPT !.retrans = v]
               /\ \A k \in DOMAIN tx.sent : k # i => t.sent[k] = tx.sent[k]
<1> DEFINE t == Reflag(tx, i, v)
           x == [tx.sent[i] EXCEPT !.retrans = v]
<1>1. tx \in Buffers /\ tx.sent[i] \in Item /\ Spans(tx.sent) /\ DOMAIN tx.sent = 1 .. Len(tx.sent)
  BY TxExtent DEF TxOk
<1>2. /\ x \in Item /\ x.seq = tx.sent[i].seq /\ x.len = tx.sent[i].len
      /\ x.sacked = tx.sent[i].sacked /\ x.lost = tx.sent[i].lost /\ x.retrans = v
  BY <1>1 DEF Item
<1>3. /\ t.first = tx.first /\ t.app = tx.app /\ t.high = tx.high
      /\ t.sent = [tx.sent EXCEPT ![i] = x]
      /\ t.sackedOut = tx.sackedOut /\ t.lostOut = tx.lostOut
      /\ t.retransOut = Counted(tx.retransOut, v, tx.sent[i].retrans, tx.sent[i].len)
  BY <1>1 DEF Buffers, Reflag
<1> DEFINE L == [tx.sent EXCEPT ![i] = x]
           n == Counted(tx.retransOut, v, tx.sent[i].retrans, tx.sent[i].len)
<1>4. t = [tx EXCEPT !.sent = L, !.retransOut = n] /\ t.sent = L /\ t.retransOut = n
  BY <1>3 DEF Reflag
<1> HIDE DEF t, x, L, n
<1>5. /\ ~(x.lost /\ x.sacked)
      /\ t.sackedOut = Counted(tx.sackedOut, x.sacked, tx.sent[i].sacked, x.len)
      /\ t.lostOut = Counted(tx.lostOut, x.lost, tx.sent[i].lost, x.len)
      /\ t.retransOut = Counted(tx.retransOut, x.retrans, tx.sent[i].retrans, x.len)
  <2>1. ~(tx.sent[i].lost /\ tx.sent[i].sacked)
    BY DEF TxOk
  <2> QED BY <1>1, <1>2, <1>3, <2>1 DEF Counted, Item
<1>6. t \in Counting
  <2>1. tx.sent \in Seq(Item) /\ i \in 1 .. Len(tx.sent)
    BY <1>1 DEF Buffers
  <2>2. t.sent \in Seq(Item)
    BY <1>2, <1>3, <2>1, ExceptSeq
  <2>3. t.retransOut \in Int
    <3>1. tx.retransOut \in Int /\ tx.sent[i].len \in Int
      BY <1>1 DEF Buffers, Item
    <3>2. tx.sent[i].retrans \in BOOLEAN
      BY <1>1 DEF Item
    <3> QED BY <1>3, <3>1, <3>2 DEF Counted
  <2>4. L \in Seq(Item) /\ n \in Int
    BY <1>4, <2>2, <2>3
  <2>5. t = [first |-> tx.first, sent |-> L, app |-> tx.app, sackedOut |-> tx.sackedOut,
             lostOut |-> tx.lostOut, retransOut |-> n, high |-> tx.high]
    BY <1>1, <1>4 DEF Buffers
  <2>6. /\ tx.first \in Nat \ {0} /\ tx.app \in Nat /\ tx.sackedOut \in Int
        /\ tx.lostOut \in Int /\ tx.high \in Nat
    BY <1>1 DEF Buffers
  <2> QED BY <2>4, <2>5, <2>6 DEF Counting
<1>7. /\ TxOk(t) /\ SameExtent(tx, t)
      /\ Sacked(t) = MarkedNow(Sacked(tx), x.sacked, x)
      /\ Lost(t) = MarkedNow(Lost(tx), x.lost, x)
      /\ Resent(t) = MarkedNow(Resent(tx), x.retrans, x)
      /\ t.sent[i] = x /\ \A k \in DOMAIN tx.sent : k # i => t.sent[k] = tx.sent[k]
  BY <1>2, <1>3, <1>5, <1>6, Remarked
<1>8. Sacked(t) = Sacked(tx)
  <2>1. tx.sent[i]["sacked"] \in BOOLEAN
    BY <1>1 DEF Item
  <2> QED BY <1>1, <1>2, <1>7, <2>1, NoChange DEF Sacked
<1>9. Lost(t) = Lost(tx)
  <2>1. tx.sent[i]["lost"] \in BOOLEAN
    BY <1>1 DEF Item
  <2> QED BY <1>1, <1>2, <1>7, <2>1, NoChange DEF Lost
<1>10. Resent(t) = MarkedNow(Resent(tx), v, tx.sent[i])
  BY <1>2, <1>7 DEF MarkedNow, SentBytes, EndOf
<1>11. Starts(t.sent) = Starts(tx.sent)
  <2>1. \A k \in DOMAIN tx.sent : t.sent[k].sacked = tx.sent[k].sacked
    BY <1>2, <1>7
  <2> QED BY <1>7, <2>1, StartsSame
<1> QED BY <1>3, <1>7, <1>8, <1>9, <1>10, <1>11 DEF t, x

LEMMA Unflagged ==
    ASSUME NEW tx, TxOk(tx), NEW i \in DOMAIN tx.sent, i + 1 \in DOMAIN tx.sent
    PROVE  LET a == tx.sent[i]
               b == tx.sent[i + 1]
               both == a.retrans /\ b.retrans
           IN  \E u : /\ TxOk(u) /\ SameExtent(tx, u)
                      /\ Sacked(u) = Sacked(tx) /\ Lost(u) = Lost(tx)
                      /\ Resent(u) \subseteq Resent(tx) /\ Starts(u.sent) = Starts(tx.sent)
                      /\ u.high = tx.high /\ u.sackedOut = tx.sackedOut
                      /\ u.lostOut = tx.lostOut /\ u.retransOut = MergedCount(tx, a, b)
                      /\ u.sent[i] = [a EXCEPT !.retrans = both]
                      /\ u.sent[i + 1] = [b EXCEPT !.retrans = both]
                      /\ \A k \in DOMAIN tx.sent : k # i /\ k # i + 1 => u.sent[k] = tx.sent[k]
<1> DEFINE a == tx.sent[i]
           j == i + 1
           b == tx.sent[j]
           both == a.retrans /\ b.retrans
<1>1. a \in Item /\ b \in Item /\ i # j /\ j \in DOMAIN tx.sent
  BY TxExtent DEF TxOk
<1>2. a.retrans \in BOOLEAN /\ b.retrans \in BOOLEAN /\ a.len \in Nat /\ b.len \in Nat
  BY <1>1 DEF Item
<1>3. a = [a EXCEPT !.retrans = a.retrans] /\ b = [b EXCEPT !.retrans = b.retrans]
  BY <1>1 DEF Item
<1> HIDE DEF a, b, j
<1>4. CASE a.retrans /\ ~b.retrans
  <2> DEFINE u == Reflag(tx, i, FALSE)
  <2>1. /\ TxOk(u) /\ SameExtent(tx, u)
        /\ Sacked(u) = Sacked(tx) /\ Lost(u) = Lost(tx)
        /\ Resent(u) = MarkedNow(Resent(tx), FALSE, a)
        /\ Starts(u.sent) = Starts(tx.sent)
        /\ u.high = tx.high /\ u.sackedOut = tx.sackedOut /\ u.lostOut = tx.lostOut
        /\ u.retransOut = Counted(tx.retransOut, FALSE, a.retrans, a.len)
        /\ u.sent[i] = [a EXCEPT !.retrans = FALSE]
        /\ \A k \in DOMAIN tx.sent : k # i => u.sent[k] = tx.sent[k]
    <3>1. FALSE \in BOOLEAN
      OBVIOUS
    <3> QED BY <3>1, Reflagged, ZenonT(60) DEF a
  <2> HIDE DEF u
  <2>2. Resent(u) \subseteq Resent(tx)
    BY <2>1 DEF MarkedNow
  <2>3. u.retransOut = MergedCount(tx, a, b)
    BY <1>4, <2>1 DEF MergedCount, Counted
  <2>4. both = FALSE /\ u.sent[j] = [b EXCEPT !.retrans = FALSE]
    <3>1. b = [b EXCEPT !.retrans = FALSE]
      BY <1>3, <1>4, <1>2
    <3> QED BY <1>1, <1>4, <2>1, <3>1 DEF b
  <2> QED BY <2>1, <2>2, <2>3, <2>4 DEF a, b, j
<1>5. CASE b.retrans /\ ~a.retrans
  <2> DEFINE u == Reflag(tx, j, FALSE)
  <2>1. /\ TxOk(u) /\ SameExtent(tx, u)
        /\ Sacked(u) = Sacked(tx) /\ Lost(u) = Lost(tx)
        /\ Resent(u) = MarkedNow(Resent(tx), FALSE, b)
        /\ Starts(u.sent) = Starts(tx.sent)
        /\ u.high = tx.high /\ u.sackedOut = tx.sackedOut /\ u.lostOut = tx.lostOut
        /\ u.retransOut = Counted(tx.retransOut, FALSE, b.retrans, b.len)
        /\ u.sent[j] = [b EXCEPT !.retrans = FALSE]
        /\ \A k \in DOMAIN tx.sent : k # j => u.sent[k] = tx.sent[k]
    <3>1. FALSE \in BOOLEAN
      OBVIOUS
    <3> QED BY <1>1, <3>1, Reflagged, ZenonT(60) DEF b
  <2> HIDE DEF u
  <2>2. Resent(u) \subseteq Resent(tx)
    BY <2>1 DEF MarkedNow
  <2>3. u.retransOut = MergedCount(tx, a, b)
    BY <1>5, <2>1 DEF MergedCount, Counted
  <2>4. both = FALSE /\ u.sent[i] = [a EXCEPT !.retrans = FALSE]
    <3>1. a = [a EXCEPT !.retrans = FALSE]
      BY <1>3, <1>5, <1>2
    <3> QED BY <1>1, <1>5, <2>1, <3>1 DEF a
  <2> QED BY <2>1, <2>2, <2>3, <2>4 DEF a, b, j
<1>6. CASE a.retrans = b.retrans
  <2>1. TxOk(tx) /\ SameExtent(tx, tx)
    BY DEF SameExtent
  <2>2. tx.retransOut = MergedCount(tx, a, b)
    BY <1>2, <1>6 DEF MergedCount
  <2>3. tx.sent[i] = [a EXCEPT !.retrans = both] /\ tx.sent[j] = [b EXCEPT !.retrans = both]
    <3>1. (a.retrans <=> both) /\ (b.retrans <=> both)
      BY <1>6
    <3>2. a.retrans = both /\ b.retrans = both
      BY <1>2, <3>1
    <3> HIDE DEF both
    <3> QED BY <1>3, <3>2 DEF a, b
  <2> QED BY <2>1, <2>2, <2>3 DEF a, b, j
<1> QED BY <1>2, <1>4, <1>5, <1>6

LEMMA ItemIs ==
    ASSUME NEW x \in Item
    PROVE  /\ x.seq \in Nat /\ x.seq >= 1 /\ x.len \in Nat /\ x.len >= 1
           /\ EndOf(x) = x.seq + x.len /\ EndOf(x) \in Nat /\ x.seq < EndOf(x)
           /\ x.sacked \in BOOLEAN /\ x.lost \in BOOLEAN /\ x.retrans \in BOOLEAN
BY DEF Item, EndOf

\* Two items and one with their bytes and flags.
LEMMA PairTiles ==
    ASSUME NEW x \in Item, NEW y \in Item, NEW m \in Item, x.seq = m.seq, y.seq = EndOf(x),
           EndOf(y) = EndOf(m), \A flag \in Flags : x[flag] = m[flag] /\ y[flag] = m[flag],
           ~m.sacked
    PROVE  Retiled(<<x, y>>, <<m>>) /\ Retiled(<<m>>, <<x, y>>) /\ Chained(<<x, y>>)
<1> DEFINE P == <<x, y>>
           M == <<m>>
<1>1. /\ P \in Seq(Item) /\ P # <<>> /\ Len(P) = 2 /\ P[1] = x /\ P[2] = y
      /\ Chained(P)
      /\ \A flag : Marked(P, flag) = (IF x[flag] THEN SentBytes(x) ELSE {})
                                        \union (IF y[flag] THEN SentBytes(y) ELSE {})
      /\ Starts(P) = {}
  <2> HIDE DEF P
  <2>1. P = Pair(x, y)
    BY DEF P, Pair
  <2> DEFINE Q == Pair(x, y)
  <2>2. /\ Q \in Seq(Item) /\ Q # <<>> /\ Len(Q) = 2 /\ Q[1] = x /\ Q[2] = y
        /\ Chained(Q)
        /\ \A flag : Marked(Q, flag) = (IF x[flag] THEN SentBytes(x) ELSE {})
                                          \union (IF y[flag] THEN SentBytes(y) ELSE {})
        /\ Starts(Q) = {}
    <3>1. Q \in Seq(Item) /\ Q # <<>> /\ Len(Q) = 2
      BY TwoAre
    <3>2. Q[1] = x /\ Q[2] = y
      BY TwoAre
    <3>3. Chained(Q)
      BY TwoAre
    <3>4. \A flag : Marked(Q, flag) = (IF x[flag] THEN SentBytes(x) ELSE {})
                                          \union (IF y[flag] THEN SentBytes(y) ELSE {})
      BY TwoAre
    <3>5. Starts(Q) = {}
      <4>1. ~x.sacked /\ ~y.sacked
        BY DEF Flags
      <4> QED BY <4>1, NoStarts
    <3> HIDE DEF Q
    <3> QED BY <3>1, <3>2, <3>3, <3>4, <3>5
  <2> HIDE DEF Q
  <2>3. P = Q
    BY <2>1 DEF Q
  <2> QED BY <2>2, <2>3
<1>2. /\ M \in Seq(Item) /\ M # <<>> /\ Len(M) = 1 /\ M[1] = m /\ Chained(M)
      /\ \A flag : Marked(M, flag) = IF m[flag] THEN SentBytes(m) ELSE {}
      /\ Starts(M) = IF m.sacked THEN {m.seq} ELSE {}
  BY OneIs
<1> HIDE DEF P, M
<1>3. SentBytes(x) \union SentBytes(y) = SentBytes(m)
  <2>1. /\ x.seq \in Nat /\ x.len \in Nat /\ y.seq \in Nat /\ y.len \in Nat
        /\ m.seq \in Nat /\ m.len \in Nat
    BY DEF Item
  <2> QED BY <2>1 DEF SentBytes, EndOf
<1>4. \A flag \in Flags : Marked(P, flag) = Marked(M, flag)
  BY <1>1, <1>2, <1>3
<1>5. ~x.sacked /\ ~y.sacked
  BY DEF Flags
<1>6. Starts(P) = {} /\ Starts(M) = {}
  BY <1>1, <1>2, <1>5
<1>7. Retiled(P, M) /\ Retiled(M, P) /\ Chained(P)
  BY <1>1, <1>2, <1>4, <1>6 DEF Retiled
<1> QED BY <1>7 DEF P, M

\* The two parts of an item.
LEMMA HalvesAre ==
    ASSUME NEW m \in Item, NEW b \in Nat, m.seq < b, b < EndOf(m)
    PROVE  /\ Below(m, b) \in Item /\ Above(m, b) \in Item
           /\ Below(m, b).seq = m.seq /\ Below(m, b).len = b - m.seq
           /\ Above(m, b).seq = b /\ Above(m, b).len = EndOf(m) - b
           /\ \A flag \in Flags : Below(m, b)[flag] = m[flag] /\ Above(m, b)[flag] = m[flag]
           /\ EndOf(Below(m, b)) = b /\ EndOf(Above(m, b)) = EndOf(m)
<1>1. /\ m.seq \in Nat \ {0} /\ m.len \in Nat \ {0} /\ m.sacked \in BOOLEAN
      /\ m.lost \in BOOLEAN /\ m.retrans \in BOOLEAN /\ EndOf(m) = m.seq + m.len
  BY DEF Item, EndOf
<1>2. MinOf(m.len, MaxOf(0, b - m.seq)) = b - m.seq /\ MaxOf(m.seq, b) = b
  BY <1>1 DEF MinOf, MaxOf
<1>3. /\ Below(m, b) = [m EXCEPT !.len = b - m.seq]
      /\ Above(m, b) = [m EXCEPT !.seq = b, !.len = EndOf(m) - b]
  BY <1>2 DEF Below, Above
<1> DEFINE p == b - m.seq
           q == EndOf(m) - b
<1>4. p \in Nat \ {0} /\ q \in Nat \ {0} /\ b \in Nat \ {0}
      /\ m.seq + p = b /\ b + q = EndOf(m)
  BY <1>1
<1>5. Below(m, b) = [m EXCEPT !.len = p] /\ Above(m, b) = [m EXCEPT !.seq = b, !.len = q]
  BY <1>3
<1> HIDE DEF p, q
<1>6. Below(m, b) \in Item /\ Above(m, b) \in Item
  BY <1>4, <1>5 DEF Item
<1>7. /\ Below(m, b).seq = m.seq /\ Below(m, b).len = p
      /\ Above(m, b).seq = b /\ Above(m, b).len = q
      /\ Below(m, b).sacked = m.sacked /\ Above(m, b).sacked = m.sacked
      /\ Below(m, b).lost = m.lost /\ Above(m, b).lost = m.lost
      /\ Below(m, b).retrans = m.retrans /\ Above(m, b).retrans = m.retrans
  BY <1>5 DEF Item
<1>8. \A flag \in Flags : Below(m, b)[flag] = m[flag] /\ Above(m, b)[flag] = m[flag]
  BY <1>7 DEF Flags
<1>9. EndOf(Below(m, b)) = b /\ EndOf(Above(m, b)) = EndOf(m)
  <2>1. EndOf(Below(m, b)) = m.seq + p /\ EndOf(Above(m, b)) = b + q
    BY <1>7 DEF EndOf
  <2> QED BY <1>4, <2>1
<1> QED BY <1>6, <1>7, <1>8, <1>9 DEF p, q

\* The list when two items become one, which may be cut again.
LEMMA JoinedIs ==
    ASSUME NEW list \in Seq(Item), Chained(list), NEW i \in DOMAIN list, i + 1 \in DOMAIN list,
           ~list[i].sacked,
           \A flag \in Flags : list[i][flag] = list[i + 1][flag],
           NEW m, m = [list[i] EXCEPT !.len = list[i].len + list[i + 1].len],
           NEW b \in Nat, EndOf(list[i]) <= b, b <= EndOf(m)
    PROVE  Joined(list, Cutting(list, i, m, b), i, b)
<1> DEFINE K == Cutting(list, i, m, b)
<1>0. K = SplitItems((SubSeq(list, 1, i - 1) \o <<m>>) \o SubSeq(list, i + 2, Len(list)), b)
  BY DEF Cutting, Three, One
<1> HIDE DEF K
<1> DEFINE A == SubSeq(list, 1, i - 1)
           B == SubSeq(list, i + 2, Len(list))
           x == list[i]
           y == list[i + 1]
           J == (A \o <<m>>) \o B
           P == <<x, y>>
           M == <<m>>
           N == IF b = EndOf(m) THEN M ELSE <<Below(m, b), Above(m, b)>>
<1>1. /\ A \in Seq(Item) /\ Len(A) = i - 1 /\ B \in Seq(Item)
      /\ Len(B) = Len(list) - (i + 1)
      /\ \A k \in 1 .. Len(list) - (i + 1) : B[k] = list[(i + 1) + k]
      /\ list = (A \o P) \o B
  BY AroundTwo
<1>2. /\ DOMAIN list = 1 .. Len(list) /\ Len(list) \in Nat /\ i \in Nat /\ i >= 1
      /\ \A k \in 1 .. i - 1 : A[k] = list[k]
  BY AroundIs, LenProperties
<1>3. x \in Item /\ y \in Item /\ y.seq = EndOf(x)
  <2>1. i + 1 > 1 /\ (i + 1) - 1 = i
    BY <1>2
  <2>2. y.seq = EndOf(x)
    BY <2>1 DEF Chained
  <2> QED BY <1>2, <2>2, ElementOfSeq
<1> HIDE DEF A, B, x, y
<1>5. /\ x.seq \in Nat \ {0} /\ x.len \in Nat \ {0} /\ y.len \in Nat \ {0}
      /\ EndOf(x) = x.seq + x.len /\ EndOf(y) = y.seq + y.len
      /\ x.sacked \in BOOLEAN /\ x.lost \in BOOLEAN /\ x.retrans \in BOOLEAN
  <2>1. /\ x.seq \in Nat /\ x.seq >= 1 /\ x.len \in Nat /\ x.len >= 1
        /\ EndOf(x) = x.seq + x.len
        /\ x.sacked \in BOOLEAN /\ x.lost \in BOOLEAN /\ x.retrans \in BOOLEAN
    BY <1>3, ItemIs
  <2>2. y.len \in Nat /\ y.len >= 1 /\ EndOf(y) = y.seq + y.len
    BY <1>3, ItemIs
  <2> QED BY <2>1, <2>2
<1>4. /\ m \in Item /\ m.seq = x.seq /\ EndOf(m) = EndOf(y) /\ m.len = x.len + y.len
      /\ \A flag \in Flags : x[flag] = m[flag] /\ y[flag] = m[flag]
      /\ ~m.sacked /\ EndOf(m) \in Nat /\ EndOf(m) = x.seq + (x.len + y.len)
  <2> DEFINE n == x.len + y.len
  <2>1. n \in Nat \ {0} /\ m = [x EXCEPT !.len = n]
    BY <1>5 DEF x, y
  <2> HIDE DEF n
  <2>2. m = [seq |-> x.seq, len |-> n, sacked |-> x.sacked, lost |-> x.lost,
             retrans |-> x.retrans]
    BY <1>3, <2>1 DEF Item
  <2>3. m \in Item
    BY <1>5, <2>1, <2>2 DEF Item
  <2>4. EndOf(m) = x.seq + n
    BY <2>2 DEF EndOf
  <2>5. ~x.sacked /\ \A flag \in Flags : x[flag] = y[flag]
    BY DEF x, y
  <2>6. \A flag \in Flags : x[flag] = m[flag]
    <3>1. m.sacked = x.sacked /\ m.lost = x.lost /\ m.retrans = x.retrans
      BY <2>2
    <3> QED BY <3>1 DEF Flags
  <2>7. m.seq = x.seq /\ m.len = n /\ ~m.sacked
    BY <2>2, <2>5
  <2>8. EndOf(m) = EndOf(y) /\ EndOf(m) \in Nat /\ EndOf(m) = x.seq + (x.len + y.len)
    BY <1>3, <1>5, <2>1, <2>4, SMTT(30) DEF n
  <2> QED BY <2>3, <2>5, <2>6, <2>7, <2>8 DEF n
<1>6. Retiled(P, M) /\ Chained(P)
  BY <1>3, <1>4, PairTiles
<1>7. Retiled(P, N) /\ N[1].seq = x.seq /\ EndOf(N[1]) = b /\ ~N[1].sacked
      /\ \A k \in DOMAIN N : /\ N[k].sacked = x.sacked /\ N[k].len <= MaxOf(b - x.seq, y.len)
  <2>1. CASE b = EndOf(m)
    <3>1. N = M /\ M[1] = m /\ DOMAIN M = 1 .. 1
      BY <2>1
    <3>2. m.len <= MaxOf(b - x.seq, y.len)
      BY <1>4, <1>5, <2>1 DEF MaxOf
    <3>3. ~N[1].sacked /\ N[1].seq = x.seq /\ EndOf(N[1]) = b
      BY <1>4, <2>1, <3>1
    <3>4. m.sacked = x.sacked
      BY <1>4 DEF Flags
    <3>5. \A k \in DOMAIN N : N[k] = m
      <4>1. \A k \in 1 .. 1 : k = 1
        OBVIOUS
      <4> HIDE DEF M, N
      <4> QED BY <3>1, <4>1
    <3>6. Retiled(P, N)
      BY <1>6, <3>1
    <3> HIDE DEF N, P, M
    <3> QED BY <3>2, <3>3, <3>4, <3>5, <3>6
  <2>2. CASE b # EndOf(m)
    <3> DEFINE p == Below(m, b)
               q == Above(m, b)
    <3>1. m.seq < b /\ b < EndOf(m)
      <4>1. EndOf(x) <= b /\ b <= EndOf(m)
        BY DEF x
      <4> QED BY <1>4, <1>5, <2>2, <4>1
    <3>2. /\ p \in Item /\ q \in Item /\ p.seq = m.seq /\ p.len = b - m.seq
          /\ q.seq = b /\ q.len = EndOf(m) - b
          /\ \A flag \in Flags : p[flag] = m[flag] /\ q[flag] = m[flag]
          /\ EndOf(p) = b /\ EndOf(q) = EndOf(m)
      BY <1>4, <3>1, HalvesAre, ZenonT(60)
    <3> HIDE DEF p, q
    <3>3. Retiled(M, <<p, q>>)
      BY <1>4, <3>2, PairTiles
    <3>4. Retiled(P, <<p, q>>)
      BY <1>6, <3>3 DEF Retiled
    <3>5. N = <<p, q>>
      BY <2>2 DEF p, q
    <3>6. N[1] = p /\ N[2] = q /\ DOMAIN N = 1 .. 2
      <4> HIDE DEF N
      <4>0. N = Pair(p, q)
        BY <3>5 DEF Pair
      <4>1. Len(N) = 2 /\ N \in Seq(Item) /\ N[1] = p /\ N[2] = q
        BY <3>2, <4>0, TwoAre
      <4> QED BY <4>1, LenProperties
    <3>7. p.sacked = x.sacked /\ q.sacked = x.sacked /\ ~p.sacked
      BY <1>4, <3>2 DEF Flags
    <3>8. p.len <= MaxOf(b - x.seq, y.len) /\ q.len <= MaxOf(b - x.seq, y.len)
      <4>1. EndOf(x) <= b /\ b <= EndOf(m)
        BY DEF x
      <4>2. p.len = b - x.seq /\ q.len = EndOf(m) - b
        BY <1>4, <3>2
      <4>3. q.len <= y.len /\ p.len \in Int /\ q.len \in Int
        <5>1. EndOf(m) = x.seq + (x.len + y.len) /\ x.seq + x.len <= b
          BY <1>4, <1>5, <4>1
        <5> QED BY <1>5, <4>2, <5>1, SMTT(30)
      <4> QED BY <1>5, <4>2, <4>3 DEF MaxOf
    <3>9. \A k \in 1 .. 2 : k = 1 \/ k = 2
      OBVIOUS
    <3> HIDE DEF N
    <3> QED BY <1>4, <3>2, <3>4, <3>5, <3>6, <3>7, <3>8, <3>9
  <2> QED BY <2>1, <2>2
<1>8. Retiled(list, J)
  <2>1. P \in Seq(Item) /\ P # <<>> /\ M \in Seq(Item)
    BY <1>3, <1>4
  <2>2. J = Three(A, M, B)
    BY DEF Three
  <2>3. list = Three(A, P, B) /\ Chained(Three(A, P, B))
    BY <1>1 DEF Three
  <2> HIDE DEF J, M, P
  <2> QED BY <1>1, <1>6, <2>1, <2>2, <2>3, SwapIs
<1>9. K = (A \o N) \o B
  <2>1. Chained(J) /\ m.seq < b /\ b <= EndOf(m)
    <3>1. EndOf(x) <= b /\ b <= EndOf(m)
      BY DEF x
    <3>2. Chained(J)
      <4> HIDE DEF J
      <4> QED BY <1>8 DEF Retiled
    <3> QED BY <1>4, <1>5, <3>1, <3>2, SMTT(30)
  <2> DEFINE L == IF b = EndOf(m) THEN J ELSE (A \o <<Below(m, b), Above(m, b)>>) \o B
  <2>2. SplitItems(J, b) = L
    <3>1. J = Three(A, One(m), B) /\ A \in Seq(Item) /\ B \in Seq(Item) /\ m \in Item
      BY <1>1, <1>4 DEF Three, One
    <3> HIDE DEF J
    <3>2. Chained(Three(A, One(m), B))
      BY <2>1, <3>1
    <3>3. SplitItems(Three(A, One(m), B), b)
              = IF b = EndOf(m) THEN Three(A, One(m), B)
                ELSE Three(A, Pair(Below(m, b), Above(m, b)), B)
      BY <2>1, <3>1, <3>2, CutIs, ZenonT(60)
    <3>4. L = IF b = EndOf(m) THEN J ELSE Three(A, Pair(Below(m, b), Above(m, b)), B)
      BY DEF Three, Pair
    <3> HIDE DEF L, N, P, M
    <3> QED BY <3>1, <3>3, <3>4, SMTT(30)
  <2>3. K = SplitItems(J, b)
    BY <1>0 DEF A, B
  <2> QED BY <2>2, <2>3
<1> HIDE DEF N, M, J
<1>10. /\ Retiled(list, K) /\ K[Len(A) + 1] = N[1] /\ Len(A) + 1 \in DOMAIN K
       /\ Len(A) >= 1 => K[1] = A[1] /\ list[1] = A[1]
       /\ Drawn(K, A, N, B)
  <2>1. P \in Seq(Item) /\ P # <<>> /\ N \in Seq(Item)
    BY <1>3, <1>7 DEF Retiled
  <2>2. /\ A \in Seq(Item) /\ B \in Seq(Item) /\ Retiled(P, N) /\ list = Three(A, P, B)
        /\ Chained(Three(A, P, B))
    BY <1>1, <1>7 DEF Three
  <2>3. K = Three(A, N, B)
    BY <1>9 DEF Three
  <2> HIDE DEF P
  <2> DEFINE T == Three(A, N, B)
             S == Three(A, P, B)
  <2>4. Retiled(S, T)
    BY <2>1, <2>2, SwapIs
  <2>5. T[Len(A) + 1] = N[1] /\ Len(A) + 1 \in DOMAIN T
    BY <2>1, <2>2, SwapIs
  <2>6. Len(A) >= 1 => T[1] = A[1] /\ S[1] = A[1]
    BY <2>1, <2>2, SwapIs
  <2>7. Drawn(T, A, N, B)
    BY <2>1, <2>2, SwapIs
  <2>8. K = T /\ list = S
    BY <2>2, <2>3
  <2> HIDE DEF T, S
  <2> QED BY <2>4, <2>5, <2>6, <2>7, <2>8
<1> HIDE DEF P
<1>11. /\ Retiled(list, K) /\ K[i] = N[1] /\ i \in DOMAIN K
       /\ i >= 2 => K[1] = A[1] /\ list[1] = A[1]
       /\ Drawn(K, A, N, B)
  <2>1. Len(A) + 1 = i
    BY <1>1, <1>2
  <2>2. i >= 2 => Len(A) >= 1
    BY <1>1, <1>2
  <2> QED BY <1>10, <2>1, <2>2
<1>12. EndOf(list[1]) <= EndOf(K[1])
  <2>1. CASE i >= 2
    <3>1. EndOf(list[1]) \in Nat
      <4>1. list[1] \in Item
        BY <1>2, <2>1, ElementOfSeq
      <4> QED BY <4>1, ItemIs
    <3> QED BY <1>11, <2>1, <3>1
  <2>2. CASE i = 1
    BY <1>7, <1>11, <2>2 DEF x
  <2> QED BY <1>2, <2>1, <2>2
<1>13. ASSUME NEW k \in DOMAIN K
       PROVE  \/ \E j \in DOMAIN list : K[k] = list[j]
              \/ ~K[k].sacked /\ K[k].len <= MaxOf(b - list[i].seq, list[i + 1].len)
  <2>1. ASSUME NEW j \in DOMAIN A, K[k] = A[j] PROVE \E h \in DOMAIN list : K[k] = list[h]
    <3>1. j \in 1 .. i - 1
      BY <1>1, LenProperties
    <3>2. j \in DOMAIN list
      BY <1>2, <3>1
    <3> QED BY <1>2, <2>1, <3>1, <3>2
  <2>2. ASSUME NEW j \in DOMAIN B, K[k] = B[j] PROVE \E h \in DOMAIN list : K[k] = list[h]
    <3>1. j \in 1 .. Len(list) - (i + 1)
      BY <1>1, LenProperties
    <3>2. (i + 1) + j \in DOMAIN list
      BY <1>2, <3>1
    <3> QED BY <1>1, <2>2, <3>1, <3>2
  <2>3. ASSUME NEW j \in DOMAIN N, K[k] = N[j]
        PROVE  ~K[k].sacked /\ K[k].len <= MaxOf(b - list[i].seq, list[i + 1].len)
    BY <1>7, <2>3 DEF x, y
  <2> QED BY <1>11, <2>1, <2>2, <2>3 DEF Drawn
<1>14. Joined(list, K, i, b)
  BY <1>7, <1>11, <1>12, <1>13 DEF x, Joined
<1> QED BY <1>14 DEF K

\* The cut of a list through item i, or behind it.
LEMMA CutAt ==
    ASSUME NEW list \in Seq(Item), Chained(list), NEW i \in DOMAIN list
    PROVE  SplitItems(list, EndOf(list[i])) = list
<1> DEFINE A == SubSeq(list, 1, i - 1)
           B == SubSeq(list, i + 1, Len(list))
           m == list[i]
           T == Three(A, One(m), B)
           b == EndOf(list[i])
<1>1. A \in Seq(Item) /\ B \in Seq(Item) /\ m \in Item /\ list = T
  BY AroundIs DEF Three, One
<1>2. b \in Nat /\ m.seq < b /\ b <= EndOf(m) /\ b = EndOf(m)
  <2>1. EndOf(m) \in Nat /\ m.seq < EndOf(m)
    <3> HIDE DEF m
    <3> QED BY <1>1, ItemIs
  <2> QED BY <2>1
<1> HIDE DEF A, B, b, m
<1>3. Chained(Three(A, One(m), B))
  BY <1>1
<1>4. SplitItems(Three(A, One(m), B), b)
              = IF b = EndOf(m) THEN Three(A, One(m), B)
                ELSE Three(A, Pair(Below(m, b), Above(m, b)), B)
  <2> HIDE DEF T
  <2> QED BY <1>1, <1>2, <1>3, CutIs
<1>5. SplitItems(list, b) = list
  BY <1>1, <1>2, <1>4
<1> QED BY <1>5 DEF b

LEMMA RelistedIs ==
    ASSUME NEW tx \in Buffers, NEW list \in Seq(Item), NEW resent \in Nat
    PROVE  LET t == Relisted(tx, list, resent)
           IN  /\ t \in Buffers /\ t.sent = list /\ t.retransOut = resent
               /\ t.first = tx.first /\ t.app = tx.app /\ t.high = tx.high
               /\ t.sackedOut = tx.sackedOut /\ t.lostOut = tx.lostOut
<1> DEFINE t == Relisted(tx, list, resent)
<1>0. t = [tx EXCEPT !.sent = list, !.retransOut = resent]
  BY DEF Relisted
<1> HIDE DEF t
<1>1. t = [first |-> tx.first, sent |-> list, app |-> tx.app, sackedOut |-> tx.sackedOut,
           lostOut |-> tx.lostOut, retransOut |-> resent, high |-> tx.high]
  BY <1>0 DEF Buffers
<1>2. /\ tx.first \in Nat \ {0} /\ tx.app \in Nat /\ tx.sackedOut \in Nat
      /\ tx.lostOut \in Nat /\ tx.high \in Nat
  BY DEF Buffers
<1>3. t \in Buffers
  BY <1>1, <1>2 DEF Buffers
<1>4. /\ t.sent = list /\ t.retransOut = resent
      /\ t.first = tx.first /\ t.app = tx.app /\ t.high = tx.high
      /\ t.sackedOut = tx.sackedOut /\ t.lostOut = tx.lostOut
  BY <1>1
<1> QED BY <1>3, <1>4 DEF t

\* An item that fits, alone or with the next one, is there from then on.
LEMMA PacketIs ==
    ASSUME NEW tx, TxOk(tx), NEW i \in DOMAIN tx.sent, ~tx.sent[i].sacked,
           NEW n \in Nat, tx.sent[i].len <= n, n <= SegmentSize
    PROVE  LET t == GetPacketFromList(tx, i, n)
           IN  TxOk(t) /\ Again(tx, t, i) /\ Resent(t) \subseteq Resent(tx)
<1> DEFINE t == GetPacketFromList(tx, i, n)
           a == tx.sent[i]
<1>1. /\ tx \in Buffers /\ tx.sent \in Seq(Item) /\ Chained(tx.sent)
      /\ DOMAIN tx.sent = 1 .. Len(tx.sent) /\ Len(tx.sent) \in Nat
      /\ tx.sent # <<>> /\ i \in Nat /\ i >= 1
  <2>1. /\ DOMAIN tx.sent = 1 .. Len(tx.sent) /\ Len(tx.sent) \in Nat
        /\ (tx.sent = <<>> <=> Len(tx.sent) = 0)
    BY TxExtent DEF TxOk
  <2> QED BY <2>1 DEF TxOk, Buffers
<1>2. a \in Item
  BY <1>1, ElementOfSeq
<1>3. /\ a.seq \in Nat /\ a.len \in Nat /\ a.len >= 1 /\ EndOf(a) = a.seq + a.len
      /\ EndOf(a) \in Nat /\ a.seq >= 1
      /\ a.lost \in BOOLEAN /\ a.sacked \in BOOLEAN /\ a.retrans \in BOOLEAN
  <2> HIDE DEF a
  <2> QED BY <1>2, ItemIs
<1>4. CASE ~(n > a.len /\ Mergeable(tx, i))
  <2>1. a.seq + MinOf(n, a.len) = EndOf(a)
    BY <1>3 DEF MinOf
  <2>2. t = [tx EXCEPT !.sent = SplitItems(tx.sent, a.seq + MinOf(n, a.len))]
    BY <1>4 DEF GetPacketFromList
  <2>3. SplitItems(tx.sent, EndOf(a)) = tx.sent
    BY <1>1, CutAt
  <2>4. t = tx
    BY <1>1, <2>1, <2>2, <2>3 DEF Buffers
  <2>5. Again(tx, tx, i)
    <3>1. HeadEnd(tx) <= HeadEnd(tx)
      <4>1. tx.sent[1] \in Item
        BY <1>1, ElementOfSeq, EmptySeq
      <4> QED BY <4>1, ItemIs DEF HeadEnd
    <3> QED BY <1>1, <3>1 DEF Again
  <2> QED BY <2>4, <2>5
<1>5. CASE n > a.len /\ Mergeable(tx, i)
  <2> DEFINE b == tx.sent[i + 1]
             both == a.retrans /\ b.retrans
             m == [a EXCEPT !.len = a.len + b.len, !.retrans = both]
             list == Three(SubSeq(tx.sent, 1, i - 1), One(m),
                           SubSeq(tx.sent, i + 2, Len(tx.sent)))
             e == a.seq + MinOf(n, a.len + b.len)
             K == SplitItems(list, e)
             r == MergedCount(tx, a, b)
  <2>1. i + 1 \in DOMAIN tx.sent /\ ~b.sacked /\ a.lost = b.lost
    BY <1>1, <1>5 DEF Mergeable
  <2>2. b \in Item
    BY <1>1, <2>1, ElementOfSeq
  <2>3. /\ b.len \in Nat /\ b.len >= 1 /\ b.retrans \in BOOLEAN /\ b.lost \in BOOLEAN
        /\ b.sacked \in BOOLEAN /\ b.len <= SegmentSize /\ a.len <= SegmentSize
    <3>1. b.len <= SegmentSize /\ a.len <= SegmentSize
      BY <2>1 DEF TxOk
    <3> HIDE DEF b
    <3> QED BY <2>2, <3>1, ItemIs
  <2>4. PICK u : /\ TxOk(u) /\ SameExtent(tx, u)
                 /\ Sacked(u) = Sacked(tx) /\ Lost(u) = Lost(tx)
                 /\ Resent(u) \subseteq Resent(tx) /\ Starts(u.sent) = Starts(tx.sent)
                 /\ u.high = tx.high /\ u.sackedOut = tx.sackedOut
                 /\ u.lostOut = tx.lostOut /\ u.retransOut = MergedCount(tx, a, b)
                 /\ u.sent[i] = [a EXCEPT !.retrans = both]
                 /\ u.sent[i + 1] = [b EXCEPT !.retrans = both]
                 /\ \A k \in DOMAIN tx.sent : k # i /\ k # i + 1 => u.sent[k] = tx.sent[k]
    BY <2>1, Unflagged
  <2>5. m \in Item /\ m.seq = a.seq /\ m.len = a.len + b.len
    <3> DEFINE l == a.len + b.len
    <3>1. l \in Nat \ {0} /\ both \in BOOLEAN
      BY <1>3, <2>3
    <3>5. m = [a EXCEPT !.len = l, !.retrans = both]
      OBVIOUS
    <3> HIDE DEF l, both, a, m
    <3>2. m = [seq |-> a.seq, len |-> l, sacked |-> a.sacked, lost |-> a.lost, retrans |-> both]
      BY <1>2, <3>5 DEF Item
    <3>3. a.seq \in Nat \ {0}
      BY <1>2 DEF Item
    <3>4. m \in Item
      BY <1>3, <3>1, <3>2, <3>3 DEF Item
    <3> QED BY <3>2, <3>4 DEF l
  <2>6. t = Relisted(tx, K, r)
    <3>1. MergeItems(tx, i)
            = [tx EXCEPT !.sent = RemoveAt([tx.sent EXCEPT ![i] = m], i + 1), !.retransOut = r]
      BY DEF MergeItems, MergedCount
    <3>2. RemoveAt([tx.sent EXCEPT ![i] = m], i + 1) = list
      <4> HIDE DEF m
      <4> QED BY <1>1, <2>1, <2>5, MergedList
    <3> HIDE DEF m, r, list
    <3>3. MergeItems(tx, i) = [tx EXCEPT !.sent = list, !.retransOut = r]
      BY <3>1, <3>2
    <3> DEFINE v == MergeItems(tx, i)
    <3>4. v.sent = list /\ v = [tx EXCEPT !.sent = list, !.retransOut = r]
      BY <1>1, <3>3 DEF Buffers
    <3>5. list[i] = m
      <4> DEFINE A == SubSeq(tx.sent, 1, i - 1)
                 B == SubSeq(tx.sent, i + 2, Len(tx.sent))
                 T == Three(A, One(m), B)
      <4>1. A \in Seq(Item) /\ Len(A) = i - 1 /\ B \in Seq(Item)
        BY <1>1, <2>1, AroundTwo
      <4>2. list = T
        BY DEF list
      <4> HIDE DEF A, B, m
      <4>3. T[Len(A) + 1] = m
        <5>1. m \in Item /\ A \in Seq(Item) /\ B \in Seq(Item)
          BY <2>5, <4>1
        <5> QED BY <5>1, MiddleIs
      <4>4. Len(A) + 1 = i
        BY <1>1, <4>1
      <4> HIDE DEF T
      <4> QED BY <4>2, <4>3, <4>4
    <3>6. t = [v EXCEPT !.sent = SplitItems(v.sent, v.sent[i].seq + MinOf(n, v.sent[i].len))]
      BY <1>5 DEF GetPacketFromList
    <3>7. v.sent[i].seq + MinOf(n, v.sent[i].len) = e
      BY <2>5, <3>4, <3>5
    <3> HIDE DEF v, e, t
    <3>8. t = [v EXCEPT !.sent = K]
      BY <3>4, <3>6, <3>7
    <3> HIDE DEF K
    <3> QED BY <1>1, <3>4, <3>8 DEF Relisted, Buffers
  <2>7. K = Cutting(u.sent, i, m, e)
    <3>1. u.sent \in Seq(Item) /\ DOMAIN u.sent = DOMAIN tx.sent
      BY <2>4 DEF TxOk, Buffers, SameExtent
    <3>2. /\ SubSeq(u.sent, 1, i - 1) = SubSeq(tx.sent, 1, i - 1)
          /\ SubSeq(u.sent, i + 2, Len(u.sent)) = SubSeq(tx.sent, i + 2, Len(tx.sent))
      <4>1. /\ tx.sent \in Seq(Item) /\ i + 1 \in DOMAIN tx.sent
            /\ \A k \in DOMAIN tx.sent : k # i /\ k # i + 1 => u.sent[k] = tx.sent[k]
        BY <1>1, <2>1, <2>4
      <4> QED BY <3>1, <4>1, SameAround
    <3> QED BY <3>2 DEF Cutting
  <2>8. /\ u.sent \in Seq(Item) /\ Chained(u.sent) /\ i \in DOMAIN u.sent
        /\ i + 1 \in DOMAIN u.sent /\ u.sent # <<>>
    BY <1>1, <2>1, <2>4 DEF TxOk, Buffers, SameExtent
  <2> DEFINE x == u.sent[i]
             y == u.sent[i + 1]
  <2>9. /\ x.seq = a.seq /\ x.len = a.len /\ x.sacked = a.sacked /\ x.lost = a.lost
        /\ x.retrans = both /\ y.len = b.len /\ y.sacked = b.sacked /\ y.lost = b.lost
        /\ y.retrans = both
    <3>1. x = [a EXCEPT !.retrans = both] /\ y = [b EXCEPT !.retrans = both]
      BY <2>4
    <3> HIDE DEF a, b, x, y, both
    <3> QED BY <1>2, <2>2, <3>1 DEF Item
  <2>10. ~x.sacked /\ \A flag \in Flags : x[flag] = y[flag]
    <3>1. ~a.sacked
      OBVIOUS
    <3>2. a.sacked = b.sacked
      BY <1>3, <2>1, <2>3, <3>1
    <3> HIDE DEF a, b, x, y, both
    <3> QED BY <2>1, <2>9, <3>1, <3>2 DEF Flags
  <2>11. m = [x EXCEPT !.len = x.len + y.len]
    <3>1. x = [a EXCEPT !.retrans = both]
      BY <2>4
    <3> HIDE DEF a, b, x, y, both
    <3> QED BY <1>2, <2>9, <3>1 DEF Item
  <2>12. /\ e \in Nat /\ EndOf(x) <= e /\ e <= EndOf(m) /\ e - x.seq <= SegmentSize
         /\ EndOf(x) = x.seq + x.len
    <3>1. EndOf(x) = a.seq + a.len /\ EndOf(m) = a.seq + (a.len + b.len)
      BY <2>5, <2>9 DEF EndOf
    <3>2. n > a.len
      BY <1>5
    <3>3. SegmentSize \in Nat
      BY TxBufferAssumption
    <3> HIDE DEF a, b, x, m
    <3> QED BY <1>3, <2>3, <2>9, <3>1, <3>2, <3>3 DEF MinOf
  <2>13. Joined(u.sent, K, i, e)
    <3> HIDE DEF m, e, K
    <3>1. Joined(u.sent, Cutting(u.sent, i, m, e), i, e)
      BY <2>8, <2>10, <2>11, <2>12, JoinedIs
    <3> QED BY <2>7, <3>1
  <2>14. r = u.retransOut /\ r \in Nat /\ K \in Seq(Item)
    <3>1. u.retransOut \in Nat
      BY <2>4 DEF TxOk, Buffers
    <3> HIDE DEF K
    <3> QED BY <2>4, <2>13, <3>1 DEF Joined, Retiled
  <2>15. /\ t \in Buffers /\ t.sent = K /\ t.retransOut = r
         /\ t.first = tx.first /\ t.app = tx.app /\ t.high = tx.high
         /\ t.sackedOut = tx.sackedOut /\ t.lostOut = tx.lostOut
    <3> DEFINE w == Relisted(tx, K, r)
    <3> HIDE DEF K, r, t
    <3>3. tx \in Buffers /\ K \in Seq(Item) /\ r \in Nat
      BY <1>1, <2>14
    <3>1. /\ w \in Buffers /\ w.sent = K /\ w.retransOut = r
          /\ w.first = tx.first /\ w.app = tx.app /\ w.high = tx.high
          /\ w.sackedOut = tx.sackedOut /\ w.lostOut = tx.lostOut
      BY <3>3, RelistedIs
    <3>2. t = w
      BY <2>6
    <3> HIDE DEF w
    <3> QED BY <3>1, <3>2
  <2> HIDE DEF K, r, t, x, y, m, e
  <2>16. \A k \in DOMAIN K : K[k].len <= SegmentSize /\ ~(K[k].lost /\ K[k].sacked)
    <3> SUFFICES ASSUME NEW k \in DOMAIN K
                 PROVE  K[k].len <= SegmentSize /\ ~(K[k].lost /\ K[k].sacked)
      OBVIOUS
    <3>1. CASE \E j \in DOMAIN u.sent : K[k] = u.sent[j]
      BY <2>4, <3>1 DEF TxOk
    <3>2. CASE ~K[k].sacked /\ K[k].len <= MaxOf(e - u.sent[i].seq, u.sent[i + 1].len)
      <4>1. K[k].len \in Nat
        <5>1. K[k] \in Item
          BY <2>14, ElementOfSeq
        <5> QED BY <5>1, ItemIs
      <4>2. MaxOf(e - x.seq, y.len) <= SegmentSize /\ MaxOf(e - x.seq, y.len) \in Int
        BY <1>3, <2>3, <2>9, <2>12 DEF MaxOf
      <4>3. K[k].len <= MaxOf(e - x.seq, y.len)
        BY <3>2 DEF x, y
      <4>4. SegmentSize \in Int
        BY TxBufferAssumption
      <4> HIDE DEF a, b
      <4>5. K[k].len <= SegmentSize
        BY <4>1, <4>2, <4>3, <4>4
      <4> QED BY <3>2, <4>5
    <3> QED BY <2>13, <3>1, <3>2 DEF Joined
  <2>17. /\ u.first = tx.first /\ u.app = tx.app /\ HighData(u) = HighData(tx)
         /\ u.sent[1].seq = tx.sent[1].seq
         /\ HeadEnd(u) = HeadEnd(tx)
    <3>1. 1 \in DOMAIN tx.sent
      BY <1>1, EmptySeq
    <3> QED BY <2>4, <3>1 DEF SameExtent, HeadEnd
  <2>18. /\ TxOk(t) /\ HighData(t) = HighData(u)
         /\ Sacked(t) = Sacked(u) /\ Lost(t) = Lost(u) /\ Resent(t) = Resent(u)
    <3>1. Retiled(u.sent, t.sent)
      BY <2>13, <2>15 DEF Joined
    <3>2. /\ t \in Buffers /\ t.first = u.first /\ t.app = u.app /\ t.high = u.high
          /\ t.sackedOut = u.sackedOut /\ t.lostOut = u.lostOut
          /\ t.retransOut = u.retransOut
      BY <2>4, <2>14, <2>15, <2>17
    <3>3. \A k \in DOMAIN t.sent :
              t.sent[k].len <= SegmentSize /\ ~(t.sent[k].lost /\ t.sent[k].sacked)
      BY <2>15, <2>16
    <3> QED BY <2>4, <2>8, <3>1, <3>2, <3>3, RetiledIs
  <2>19. /\ Retiled(u.sent, K) /\ i \in DOMAIN K
         /\ K[i].seq = u.sent[i].seq /\ ~K[i].sacked /\ EndOf(u.sent[1]) <= EndOf(K[1])
    BY <2>13 DEF Joined
  <2>20. Again(tx, t, i)
    <3>1. Starts(t.sent) = Starts(tx.sent) /\ t.sent # <<>>
      BY <2>4, <2>15, <2>19 DEF Retiled
    <3>2. i \in DOMAIN t.sent /\ t.sent[i].seq = tx.sent[i].seq /\ ~t.sent[i].sacked
      BY <2>9, <2>15, <2>19 DEF x
    <3>3. HeadEnd(tx) <= HeadEnd(t)
      BY <2>15, <2>17, <2>19 DEF HeadEnd
    <3> QED BY <2>4, <2>15, <2>17, <2>18, <3>1, <3>2, <3>3 DEF Again
  <2>21. Resent(t) \subseteq Resent(tx)
    BY <2>4, <2>18
  <2> QED BY <2>18, <2>20, <2>21 DEF t
<1> QED BY <1>4, <1>5

-----------------------------------------------------------------------------
(***************************************************************************)
(* Sending from the buffer.                                                *)
(***************************************************************************)
\* An item is sent again.
LEMMA TransmittedIs ==
    ASSUME NEW tx, TxOk(tx), NEW i \in DOMAIN tx.sent, ~tx.sent[i].sacked,
           NEW n \in Nat, tx.sent[i].len <= n, n <= SegmentSize
    PROVE  LET seq == tx.sent[i].seq
               t == GetTransmittedSegment(tx, n, seq)
           IN  TxOk(t) /\ Again(tx, t, i) /\ Packet(t, seq)
<1> DEFINE seq == tx.sent[i].seq
           u == GetPacketFromList(tx, i, n)
           t == GetTransmittedSegment(tx, n, seq)
<1>1. TxOk(u) /\ Again(tx, u, i)
  BY PacketIs
<1>2. ItemAt(tx, seq) = i
  BY PlaceIs
<1>3. t = MarkRetransmitted(u, i)
  BY <1>2 DEF GetTransmittedSegment
<1> HIDE DEF u, t
<1>4. i \in DOMAIN u.sent /\ u.sent[i].seq = seq /\ ~u.sent[i].sacked /\ u.sent # <<>>
  BY <1>1 DEF Again
<1>5. CASE u.sent[i].retrans
  <2>1. t = u
    BY <1>3, <1>5 DEF MarkRetransmitted
  <2>2. ItemAt(u, seq) = i
    BY <1>1, <1>4, PlaceIs
  <2> QED BY <1>1, <1>4, <2>1, <2>2 DEF t, Packet
<1>6. CASE ~u.sent[i].retrans
  <2> DEFINE v == Reflag(u, i, TRUE)
  <2>1. /\ TxOk(v) /\ SameExtent(u, v)
        /\ Sacked(v) = Sacked(u) /\ Lost(v) = Lost(u)
        /\ Starts(v.sent) = Starts(u.sent) /\ v.high = u.high
        /\ v.sent[i] = [u.sent[i] EXCEPT !.retrans = TRUE]
    <3>1. TRUE \in BOOLEAN
      OBVIOUS
    <3>a. TxOk(u) /\ i \in DOMAIN u.sent
      BY <1>1, <1>4
    <3>b. TxOk(v) /\ SameExtent(u, v)
      BY <3>a, <3>1, Reflagged
    <3>c. Sacked(v) = Sacked(u) /\ Lost(v) = Lost(u)
      BY <3>a, <3>1, Reflagged
    <3>2. TxOk(v) /\ SameExtent(u, v) /\ Sacked(v) = Sacked(u) /\ Lost(v) = Lost(u)
      BY <3>b, <3>c
    <3>3. Starts(v.sent) = Starts(u.sent) /\ v.high = u.high
      BY <3>a, <3>1, Reflagged
    <3>4. v.sent[i] = [u.sent[i] EXCEPT !.retrans = TRUE]
      BY <3>a, <3>1, Reflagged, ZenonT(60)
    <3> QED BY <3>2, <3>3, <3>4
  <2>2. u.sent[i] \in Item
    BY <1>1, <1>4, TxExtent DEF TxOk
  <2>3. t = v
    <3> DEFINE l == [u.sent[i] EXCEPT !.retrans = TRUE]
               c == u.retransOut + u.sent[i].len
    <3>1. t = [u EXCEPT !.sent[i].retrans = TRUE, !.retransOut = c]
      BY <1>3, <1>6 DEF MarkRetransmitted
    <3>2. Counted(u.retransOut, TRUE, u.sent[i].retrans, u.sent[i].len) = c
      BY <1>6 DEF Counted
    <3>3. v = [u EXCEPT !.sent = [u.sent EXCEPT ![i] = l], !.retransOut = c]
      BY <3>2 DEF Reflag
    <3> HIDE DEF v
    <3> QED BY <3>1, <3>3
  <2>4. v.sent[i].sacked = u.sent[i].sacked
    <3> HIDE DEF v
    <3> QED BY <2>1, <2>2 DEF Item
  <2> HIDE DEF v
  <2>5. i \in DOMAIN v.sent /\ v.sent[i].seq = seq /\ ~v.sent[i].sacked /\ v.sent # <<>>
    BY <1>4, <2>1, <2>4 DEF SameExtent
  <2>6. ItemAt(v, seq) = i
    BY <2>1, <2>5, PlaceIs
  <2>7. HeadEnd(v) = HeadEnd(u)
    <3>1. 1 \in DOMAIN u.sent
      <4>1. DOMAIN u.sent = 1 .. Len(u.sent) /\ Len(u.sent) \in Nat
            /\ (u.sent = <<>> <=> Len(u.sent) = 0)
        BY <1>1, TxExtent DEF TxOk
      <4> QED BY <1>4, <4>1
    <3> QED BY <2>1, <3>1 DEF SameExtent, HeadEnd
  <2>8. Again(tx, v, i)
    <3>1. v.first = u.first /\ v.app = u.app /\ HighData(v) = HighData(u)
      BY <2>1 DEF SameExtent
    <3> HIDE DEF seq
    <3>2. v.sent[i].seq = tx.sent[i].seq
      BY <2>5 DEF seq
    <3> QED BY <1>1, <2>1, <2>5, <2>7, <3>1, <3>2 DEF Again
  <2>9. Packet(v, seq)
    BY <2>5, <2>6 DEF Packet
  <2>10. TxOk(t) /\ Again(tx, t, i) /\ Packet(t, seq)
    BY <2>1, <2>3, <2>8, <2>9
  <2> QED BY <2>10 DEF t
<1> QED BY <1>5, <1>6

\* New data is sent.
LEMMA NewIs ==
    ASSUME NEW tx, TxOk(tx), NEW n \in Nat \ {0}, n <= SegmentSize, n <= tx.app
    PROVE  LET t == GetNewSegment(tx, n)
           IN  /\ TxOk(t) /\ Grown(tx, t) /\ HighData(t) = HighData(tx) + n
               /\ Packet(t, HighData(tx))
               /\ EndOf(t.sent[ItemAt(t, HighData(tx))]) = HighData(t)
<1> DEFINE t == GetNewSegment(tx, n)
           x == [seq |-> HighData(tx), len |-> n, sacked |-> FALSE,
                 lost |-> FALSE, retrans |-> FALSE]
           A == tx.sent
           B == <<x>>
           L == A \o B
           h == HighData(tx)
<1>1. /\ tx \in Buffers /\ A \in Seq(Item) /\ Chained(A)
      /\ h \in Nat /\ h >= 1
      /\ DOMAIN A = 1 .. Len(A) /\ Len(A) \in Nat
      /\ IF A = <<>> THEN h = tx.first ELSE tx.first < h
      /\ (A = <<>> <=> Len(A) = 0) /\ tx.first \in Nat /\ tx.first >= 1
  <2>1. /\ h \in Nat /\ DOMAIN A = 1 .. Len(A) /\ Len(A) \in Nat
        /\ IF A = <<>> THEN h = tx.first ELSE tx.first < h
        /\ (A = <<>> <=> Len(A) = 0) /\ tx.first \in Nat /\ tx.first >= 1
    BY TxExtent DEF TxOk
  <2> HIDE DEF h
  <2>2. h >= 1
    BY <2>1
  <2> QED BY <2>1, <2>2 DEF TxOk, Buffers
<1>2. x \in Item /\ x.seq = h /\ x.len = n /\ ~x.sacked /\ ~x.lost /\ ~x.retrans
      /\ EndOf(x) = h + n
  <2> HIDE DEF h
  <2>1. x = [seq |-> h, len |-> n, sacked |-> FALSE, lost |-> FALSE, retrans |-> FALSE]
    BY DEF h
  <2>2. h \in Nat \ {0}
    BY <1>1
  <2> HIDE DEF x
  <2> QED BY <2>1, <2>2 DEF Item, EndOf
<1>3. t = [tx EXCEPT !.app = tx.app - n, !.sent = L]
  BY <1>1, <1>2, AppendIsConcat, ZenonT(60) DEF GetNewSegment
<1> HIDE DEF x, t
<1>4. /\ B \in Seq(Item) /\ Len(B) = 1 /\ B[1] = x /\ Chained(B) /\ B # <<>>
      /\ \A flag : Marked(B, flag) = IF x[flag] THEN SentBytes(x) ELSE {}
  BY <1>2, OneIs
<1>5. Starts(B) = {}
  <2>1. Starts(B) = IF x.sacked THEN {x.seq} ELSE {}
    BY <1>2, OneIs
  <2> QED BY <1>2, <2>1
<1> HIDE DEF B
<1>6. /\ L \in Seq(Item) /\ Len(L) = Len(A) + 1 /\ DOMAIN L = 1 .. Len(A) + 1
      /\ \A i \in 1 .. Len(A) : L[i] = A[i]
      /\ L[Len(A) + 1] = x
  <2>1. /\ L \in Seq(Item) /\ Len(L) = Len(A) + Len(B) /\ DOMAIN L = 1 .. Len(A) + Len(B)
        /\ \A i \in 1 .. Len(A) : L[i] = A[i]
        /\ \A i \in 1 .. Len(B) : L[Len(A) + i] = B[i]
    BY <1>1, <1>4, BehindIs
  <2> HIDE DEF L
  <2>2. 1 \in 1 .. Len(B)
    BY <1>4
  <2> QED BY <1>4, <2>1, <2>2
<1>7. Chained(L)
  <2>1. A # <<>> => B[1].seq = EndOf(A[Len(A)])
    BY <1>2, <1>4 DEF h, HighData, Last
  <2> QED BY <1>1, <1>4, <2>1, BehindChains
<1>8. Starts(L) = Starts(A)
  <2>1. Starts(A \o B) = Starts(A) \union Starts(B)
    BY <1>1, <1>4, BehindMarks
  <2> QED BY <1>5, <2>1
<1>9. \A flag \in Flags : Marked(L, flag) = Marked(A, flag)
  <2>1. \A flag \in Flags : Marked(B, flag) = {}
    BY <1>2, <1>4 DEF Flags
  <2>2. \A flag : Marked(L, flag) = Marked(A, flag) \union Marked(B, flag)
    BY <1>1, <1>4, BehindMarks
  <2> QED BY <2>1, <2>2
<1> HIDE DEF L, h
<1>10. /\ t \in Buffers /\ t.sent = L /\ t.app = tx.app - n /\ t.first = tx.first
       /\ t.high = tx.high /\ t.sackedOut = tx.sackedOut /\ t.lostOut = tx.lostOut
       /\ t.retransOut = tx.retransOut
  <2> DEFINE m == tx.app - n
  <2>1. t = [tx EXCEPT !.app = m, !.sent = L]
    BY <1>3
  <2>2. m \in Nat
    BY <1>1 DEF Buffers
  <2> HIDE DEF m
  <2>3. t = [first |-> tx.first, sent |-> L, app |-> m, sackedOut |-> tx.sackedOut,
             lostOut |-> tx.lostOut, retransOut |-> tx.retransOut, high |-> tx.high]
    BY <1>1, <2>1 DEF Buffers
  <2>4. /\ tx.first \in Nat \ {0} /\ tx.sackedOut \in Nat /\ tx.lostOut \in Nat
        /\ tx.retransOut \in Nat /\ tx.high \in Nat
    BY <1>1 DEF Buffers
  <2>5. t \in Buffers
    BY <1>6, <2>2, <2>3, <2>4 DEF Buffers
  <2> QED BY <2>3, <2>5 DEF m
<1>11. L # <<>> /\ HighData(t) = h + n
  <2>1. L # <<>>
    BY <1>1, <1>6, EmptySeq
  <2>2. HighData(t) = EndOf(L[Len(L)])
    BY <1>10, <2>1 DEF HighData, Last
  <2> QED BY <1>2, <1>6, <2>1, <2>2
<1>12. L[1].seq = tx.first
  <2>1. CASE A = <<>>
    BY <1>1, <1>2, <1>6, <2>1
  <2>2. CASE A # <<>>
    <3>1. 1 \in 1 .. Len(A)
      BY <1>1, <2>2
    <3> QED BY <1>6, <2>2, <3>1 DEF TxOk
  <2> QED BY <2>1, <2>2
<1>13. \A i \in DOMAIN L : L[i].len <= SegmentSize /\ ~(L[i].lost /\ L[i].sacked)
  <2> SUFFICES ASSUME NEW i \in DOMAIN L
               PROVE  L[i].len <= SegmentSize /\ ~(L[i].lost /\ L[i].sacked)
    OBVIOUS
  <2>1. i \in 1 .. Len(A) \/ i = Len(A) + 1
    BY <1>1, <1>6
  <2>2. CASE i \in 1 .. Len(A)
    BY <1>1, <1>6, <2>2 DEF TxOk
  <2>3. CASE i = Len(A) + 1
    BY <1>2, <1>6, <2>3
  <2> QED BY <2>1, <2>2, <2>3
<1>14. Sacked(t) = Sacked(tx) /\ Lost(t) = Lost(tx) /\ Resent(t) = Resent(tx)
  BY <1>9, <1>10 DEF Sacked, Lost, Resent, Flags
<1>15. TxOk(t)
  <2>1. /\ tx.sackedOut = Cardinality(Sacked(tx)) /\ tx.lostOut = Cardinality(Lost(tx))
        /\ tx.retransOut = Cardinality(Resent(tx))
    BY DEF TxOk, Sacked, Lost, Resent
  <2>2. /\ t.sackedOut = Cardinality(Sacked(t)) /\ t.lostOut = Cardinality(Lost(t))
        /\ t.retransOut = Cardinality(Resent(t))
    BY <1>10, <1>14, <2>1
  <2> QED BY <1>7, <1>10, <1>12, <1>13, <2>2 DEF TxOk, Sacked, Lost, Resent
<1>16. Grown(tx, t)
  <2>1. A # <<>> => HeadEnd(tx) <= HeadEnd(t)
    <3> SUFFICES ASSUME A # <<>> PROVE HeadEnd(tx) <= HeadEnd(t)
      OBVIOUS
    <3>1. 1 \in 1 .. Len(A)
      BY <1>1
    <3>2. HeadEnd(t) = HeadEnd(tx)
      BY <1>6, <1>10, <3>1 DEF HeadEnd
    <3>3. A[1] \in Item
      BY <1>1, <3>1, ElementOfSeq
    <3> QED BY <3>2, <3>3, ItemIs DEF HeadEnd
  <2>2. TailSequence(t) = TailSequence(tx)
    <3>1. TailSequence(t) = (h + n) + (tx.app - n) /\ TailSequence(tx) = h + tx.app
      BY <1>10, <1>11 DEF TailSequence, h
    <3>2. tx.app \in Nat
      BY <1>1 DEF Buffers
    <3> QED BY <1>1, <3>1, <3>2
  <2>3. HighData(tx) <= HighData(t)
    BY <1>1, <1>11 DEF h
  <2> QED BY <1>8, <1>10, <1>11, <1>14, <2>1, <2>2, <2>3 DEF Grown
<1>17. Packet(t, h) /\ EndOf(t.sent[ItemAt(t, h)]) = HighData(t)
  <2> DEFINE k == Len(A) + 1
  <2>1. k \in DOMAIN t.sent /\ t.sent[k].seq = h /\ ~t.sent[k].sacked
        /\ EndOf(t.sent[k]) = HighData(t)
    BY <1>1, <1>2, <1>6, <1>10, <1>11
  <2> HIDE DEF k
  <2>2. ItemAt(t, h) = k
    BY <1>15, <2>1, PlaceIs
  <2> QED BY <2>1, <2>2 DEF Packet
<1> QED BY <1>11, <1>15, <1>16, <1>17 DEF t, h

\* The old data that CopyFromSequence is asked for.
LEMMA CopyOld ==
    ASSUME NEW tx, TxOk(tx), NEW i \in DOMAIN tx.sent, ~tx.sent[i].sacked,
           NEW n \in Nat, n <= SegmentSize,
           tx.sent[i].len <= n \/ TailSequence(tx) - tx.sent[i].seq <= n
    PROVE  LET seq == tx.sent[i].seq
               t == CopyFromSequence(tx, n, seq)
           IN  /\ HasItem(tx, n, seq) /\ TxOk(t) /\ Grown(tx, t) /\ Packet(t, seq)
               /\ HighData(t) = HighData(tx)
<1> DEFINE seq == tx.sent[i].seq
           h == HighData(tx)
           m == MinOf(n, h - seq)
           t == GetTransmittedSegment(tx, m, seq)
<1>1. /\ tx.sent[i] \in Item /\ seq < h /\ EndOf(tx.sent[i]) <= h /\ h \in Nat
      /\ tx.sent # <<>> /\ tx.app \in Nat
  <2>1. /\ tx.sent[i] \in Item /\ tx.sent[i].seq < EndOf(tx.sent[i])
        /\ EndOf(tx.sent[i]) <= h /\ h \in Nat /\ EndOf(tx.sent[i]) \in Nat
        /\ DOMAIN tx.sent = 1 .. Len(tx.sent) /\ (tx.sent = <<>> <=> Len(tx.sent) = 0)
    BY TxExtent DEF TxOk
  <2>2. seq \in Nat
    BY <2>1, ItemIs
  <2> HIDE DEF h
  <2> QED BY <2>1, <2>2 DEF TxOk, Buffers
<1>2. /\ seq \in Nat /\ tx.sent[i].len \in Nat /\ tx.sent[i].len >= 1
      /\ EndOf(tx.sent[i]) = seq + tx.sent[i].len
  BY <1>1, ItemIs
<1>3. m \in Nat /\ tx.sent[i].len <= m /\ m <= SegmentSize /\ m > 0
  <2>1. tx.sent[i].len <= n
    <3>1. TailSequence(tx) = h + tx.app
      BY DEF TailSequence
    <3> HIDE DEF h
    <3> QED BY <1>1, <1>2, <3>1
  <2>2. SegmentSize \in Nat
    BY TxBufferAssumption
  <2> HIDE DEF h, seq
  <2> QED BY <1>1, <1>2, <2>1, <2>2 DEF MinOf
<1>4. TxOk(t) /\ Again(tx, t, i) /\ Packet(t, seq)
  <2> HIDE DEF m
  <2> QED BY <1>3, TransmittedIs
<1>5. CopyFromSequence(tx, n, seq) = t
  BY <1>1 DEF CopyFromSequence
<1>6. HasItem(tx, n, seq)
  <2>1. TailSequence(tx) = h + tx.app
    BY DEF TailSequence
  <2> HIDE DEF h, seq
  <2>2. SizeFromSequence(tx, seq) >= 1 /\ SizeFromSequence(tx, seq) \in Nat
    BY <1>1, <1>2, <2>1 DEF MaxOf, SizeFromSequence
  <2>3. n >= 1
    BY <1>1, <1>2, <1>3 DEF m, MinOf
  <2> QED BY <2>2, <2>3 DEF HasItem, MinOf
<1> HIDE DEF t, m
<1>7. Grown(tx, t) /\ HighData(t) = h
  <2>1. TailSequence(t) = TailSequence(tx)
    BY <1>4 DEF Again, TailSequence
  <2> QED BY <1>1, <1>4, <2>1 DEF Again, Grown
<1> QED BY <1>4, <1>5, <1>6, <1>7 DEF t

\* The new data that it is asked for.
LEMMA CopyNew ==
    ASSUME NEW tx, TxOk(tx), NEW n \in Nat, n <= SegmentSize, HasItem(tx, n, HighData(tx))
    PROVE  LET seq == HighData(tx)
               t == CopyFromSequence(tx, n, seq)
           IN  /\ TxOk(t) /\ Grown(tx, t) /\ Packet(t, seq)
               /\ HighData(t) <= HighData(tx) + n /\ HighData(tx) < HighData(t)
               /\ EndOf(t.sent[ItemAt(t, seq)]) = HighData(t)
<1> DEFINE h == HighData(tx)
           m == MinOf(n, SizeFromSequence(tx, h))
           t == GetNewSegment(tx, m)
<1>1. h \in Nat /\ tx.app \in Nat
  BY TxExtent DEF TxOk, Buffers
<1>2. SizeFromSequence(tx, h) = tx.app
  <2>1. TailSequence(tx) = h + tx.app
    BY DEF TailSequence
  <2> HIDE DEF h
  <2> QED BY <1>1, <2>1 DEF MaxOf, SizeFromSequence
<1>3. m \in Nat \ {0} /\ m <= SegmentSize /\ m <= tx.app /\ m <= n
  <2>1. m > 0
    BY DEF HasItem
  <2>2. SegmentSize \in Nat
    BY TxBufferAssumption
  <2> QED BY <1>1, <1>2, <2>1, <2>2 DEF MinOf
<1>4. CopyFromSequence(tx, n, h) = t
  <2>1. ~(h < h)
    BY <1>1
  <2> QED BY <2>1 DEF CopyFromSequence
<1> HIDE DEF m
<1>5. /\ TxOk(t) /\ Grown(tx, t) /\ HighData(t) = h + m /\ Packet(t, h)
      /\ EndOf(t.sent[ItemAt(t, h)]) = HighData(t)
  BY <1>3, NewIs
<1> HIDE DEF t, h
<1>6. HighData(t) <= h + n /\ h < HighData(t)
  BY <1>1, <1>3, <1>5
<1> QED BY <1>4, <1>5, <1>6 DEF h

-----------------------------------------------------------------------------
(***************************************************************************)
(* The marks that the handlers set.                                        *)
(***************************************************************************)
LEMMA CountedIs ==
    ASSUME NEW count \in Int, NEW now \in BOOLEAN, NEW before \in BOOLEAN, NEW len \in Int
    PROVE  Counted(count, now, before, len) \in Int
BY DEF Counted

LEMMA MarkItemIs ==
    ASSUME NEW tx, TxOk(tx), NEW i \in DOMAIN tx.sent, NEW x \in Item,
           x.seq = tx.sent[i].seq, x.len = tx.sent[i].len, ~(x.lost /\ x.sacked),
           NEW high \in Nat
    PROVE  LET t == MarkItem(tx, i, x, high)
           IN  /\ TxOk(t) /\ SameExtent(tx, t) /\ t.high = high
               /\ Sacked(t) = MarkedNow(Sacked(tx), x.sacked, x)
               /\ Lost(t) = MarkedNow(Lost(tx), x.lost, x)
               /\ Resent(t) = MarkedNow(Resent(tx), x.retrans, x)
               /\ t.sent[i] = x /\ \A k \in DOMAIN tx.sent : k # i => t.sent[k] = tx.sent[k]
<1> DEFINE t == MarkItem(tx, i, x, high)
           L == [tx.sent EXCEPT ![i] = x]
           a == Counted(tx.sackedOut, x.sacked, tx.sent[i].sacked, x.len)
           b == Counted(tx.lostOut, x.lost, tx.sent[i].lost, x.len)
           c == Counted(tx.retransOut, x.retrans, tx.sent[i].retrans, x.len)
<1>1. tx \in Buffers /\ tx.sent \in Seq(Item) /\ tx.sent[i] \in Item
      /\ DOMAIN tx.sent = 1 .. Len(tx.sent)
  BY TxExtent DEF TxOk, Buffers
<1>2. /\ tx.first \in Nat \ {0} /\ tx.app \in Nat /\ tx.sackedOut \in Int
      /\ tx.lostOut \in Int /\ tx.retransOut \in Int
  BY <1>1 DEF Buffers
<1>3. L \in Seq(Item)
  BY <1>1, ExceptSeq
<1>4. a \in Int /\ b \in Int /\ c \in Int
  <2>1. /\ x.sacked \in BOOLEAN /\ x.lost \in BOOLEAN /\ x.retrans \in BOOLEAN /\ x.len \in Int
        /\ tx.sent[i].sacked \in BOOLEAN /\ tx.sent[i].lost \in BOOLEAN
        /\ tx.sent[i].retrans \in BOOLEAN
    BY <1>1, ItemIs
  <2> QED BY <1>2, <2>1, CountedIs
<1>5. t = [first |-> tx.first, sent |-> L, app |-> tx.app, sackedOut |-> a,
           lostOut |-> b, retransOut |-> c, high |-> high]
  BY DEF MarkItem
<1> HIDE DEF t, L, a, b, c
<1>6. t \in Counting
  BY <1>2, <1>3, <1>4, <1>5 DEF Counting
<1>7. /\ t.first = tx.first /\ t.app = tx.app /\ t.sent = [tx.sent EXCEPT ![i] = x]
      /\ t.sackedOut = Counted(tx.sackedOut, x.sacked, tx.sent[i].sacked, x.len)
      /\ t.lostOut = Counted(tx.lostOut, x.lost, tx.sent[i].lost, x.len)
      /\ t.retransOut = Counted(tx.retransOut, x.retrans, tx.sent[i].retrans, x.len)
      /\ t.high = high
  BY <1>5 DEF L, a, b, c
<1>8. /\ TxOk(t) /\ SameExtent(tx, t)
      /\ Sacked(t) = MarkedNow(Sacked(tx), x.sacked, x)
      /\ Lost(t) = MarkedNow(Lost(tx), x.lost, x)
      /\ Resent(t) = MarkedNow(Resent(tx), x.retrans, x)
      /\ t.sent[i] = x /\ \A k \in DOMAIN tx.sent : k # i => t.sent[k] = tx.sent[k]
  BY <1>6, <1>7, Remarked
<1> QED BY <1>7, <1>8 DEF t

LEMMA HeadIs ==
    ASSUME NEW tx, TxOk(tx), tx.sent # <<>>
    PROVE  /\ 1 \in DOMAIN tx.sent /\ tx.sent[1] \in Item /\ tx.sent[1].seq = tx.first
           /\ SentBytes(tx.sent[1]) = HeadBytes(tx) /\ tx.first \in HeadBytes(tx)
           /\ HeadEnd(tx) \in Nat /\ tx.first < HeadEnd(tx) /\ HeadEnd(tx) <= HighData(tx)
           /\ HighData(tx) \in Nat /\ tx.first \in Nat /\ tx.first >= 1
           /\ HeadBytes(tx) \subseteq Out(tx) /\ HeadEnd(tx) - tx.first <= SegmentSize
           /\ tx.first \in Sacked(tx) <=> tx.sent[1].sacked
<1>1. /\ DOMAIN tx.sent = 1 .. Len(tx.sent) /\ Len(tx.sent) \in Nat
      /\ (tx.sent = <<>> <=> Len(tx.sent) = 0)
      /\ tx.first \in Nat /\ tx.first >= 1 /\ HighData(tx) \in Nat /\ Spans(tx.sent)
  BY TxExtent DEF TxOk
<1>2. 1 \in DOMAIN tx.sent
  BY <1>1
<1>3. /\ tx.sent[1] \in Item /\ tx.sent[1].seq < EndOf(tx.sent[1])
      /\ EndOf(tx.sent[1]) <= HighData(tx) /\ EndOf(tx.sent[1]) \in Nat
  BY <1>2, TxExtent DEF TxOk
<1>4. tx.sent[1].seq = tx.first
  BY DEF TxOk
<1>5. SentBytes(tx.sent[1]) = HeadBytes(tx)
  BY <1>4 DEF SentBytes, HeadBytes, HeadEnd
<1>6. /\ HeadEnd(tx) \in Nat /\ tx.first < HeadEnd(tx) /\ HeadEnd(tx) <= HighData(tx)
  BY <1>3, <1>4 DEF HeadEnd
<1>7. tx.first \in HeadBytes(tx) /\ HeadBytes(tx) \subseteq Out(tx)
  BY <1>1, <1>6 DEF HeadBytes, Out
<1>8. HeadEnd(tx) - tx.first <= SegmentSize
  <2>1. tx.sent[1].len <= SegmentSize
    BY <1>2 DEF TxOk
  <2>2. EndOf(tx.sent[1]) = tx.sent[1].seq + tx.sent[1].len /\ tx.sent[1].len \in Nat
    BY <1>3, ItemIs
  <2>3. SegmentSize \in Nat
    BY TxBufferAssumption
  <2> QED BY <1>1, <1>4, <2>1, <2>2, <2>3 DEF HeadEnd
<1>9. tx.first \in Sacked(tx) <=> tx.sent[1]["sacked"]
  BY <1>1, <1>2, <1>5, <1>7, MarkedAs DEF Sacked
<1> QED BY <1>1, <1>2, <1>3, <1>4, <1>5, <1>6, <1>7, <1>8, <1>9

\* The head keeps its place when marks change.
LEMMA SameHead ==
    ASSUME NEW tx, TxOk(tx), tx.sent # <<>>, NEW t, SameExtent(tx, t)
    PROVE  HeadEnd(t) = HeadEnd(tx) /\ HeadBytes(t) = HeadBytes(tx) /\ t.sent # <<>>
<1>1. 1 \in DOMAIN tx.sent
  BY HeadIs
<1>2. HeadEnd(t) = HeadEnd(tx) /\ t.first = tx.first /\ t.sent # <<>>
  BY <1>1 DEF SameExtent, HeadEnd
<1> QED BY <1>2 DEF HeadBytes

\* The head is marked.
LEMMA HeadLost ==
    ASSUME NEW tx, TxOk(tx), tx.sent # <<>>, tx.first \notin Sacked(tx)
    PROVE  LET t == MarkHeadAsLost(tx)
           IN  /\ TxOk(t) /\ SameExtent(tx, t) /\ t.high = tx.high
               /\ Sacked(t) = Sacked(tx) /\ Starts(t.sent) = Starts(tx.sent)
               /\ Lost(t) = Lost(tx) \union HeadBytes(tx) /\ Resent(t) = Resent(tx) \ HeadBytes(tx)
<1> DEFINE head == tx.sent[1]
           t == MarkHeadAsLost(tx)
           x == [head EXCEPT !.sacked = FALSE, !.retrans = FALSE, !.lost = TRUE]
           u == MarkItem(tx, 1, x, tx.high)
<1>1. /\ 1 \in DOMAIN tx.sent /\ head \in Item /\ SentBytes(head) = HeadBytes(tx)
      /\ head.sacked = FALSE
  <2>1. head.sacked \in BOOLEAN /\ ~head.sacked
    BY HeadIs, ItemIs
  <2> QED BY <2>1, HeadIs
<1>2. tx \in Buffers /\ tx.high \in Nat
  BY DEF TxOk, Buffers
<1> HIDE DEF head
<1>3. /\ x \in Item /\ x.seq = head.seq /\ x.len = head.len /\ ~x.sacked /\ ~x.retrans
      /\ x.lost /\ x.sacked = FALSE /\ x.retrans = FALSE /\ x.lost = TRUE
  BY <1>1 DEF Item
<1>4. SentBytes(x) = HeadBytes(tx)
  BY <1>1, <1>3 DEF SentBytes, EndOf
<1>5. t = [tx EXCEPT !.sent = [tx.sent EXCEPT ![1] = x],
                     !.sackedOut = IF head.sacked THEN @ - head.len ELSE @,
                     !.retransOut = IF head.retrans THEN @ - head.len ELSE @,
                     !.lostOut = IF head.lost THEN @ ELSE @ + head.len]
  BY DEF MarkHeadAsLost, head
<1> HIDE DEF x, t
<1>6. t = u
  <2> DEFINE a == Counted(tx.sackedOut, x.sacked, head.sacked, x.len)
             b == Counted(tx.lostOut, x.lost, head.lost, x.len)
             c == Counted(tx.retransOut, x.retrans, head.retrans, x.len)
             L == [tx.sent EXCEPT ![1] = x]
  <2>1. a = tx.sackedOut /\ (IF head.sacked THEN tx.sackedOut - head.len ELSE tx.sackedOut) = a
    BY <1>1, <1>3 DEF Counted
  <2>2. b = (IF head.lost THEN tx.lostOut ELSE tx.lostOut + head.len)
    BY <1>1, <1>3, ItemIs DEF Counted
  <2>3. c = (IF head.retrans THEN tx.retransOut - head.len ELSE tx.retransOut)
    BY <1>1, <1>3, ItemIs DEF Counted
  <2>4. u = [first |-> tx.first, sent |-> L, app |-> tx.app, sackedOut |-> a,
             lostOut |-> b, retransOut |-> c, high |-> tx.high]
    BY DEF MarkItem, head
  <2> HIDE DEF a, b, c, L, u
  <2>5. t = [tx EXCEPT !.sent = L, !.sackedOut = a, !.retransOut = c, !.lostOut = b]
    BY <1>5, <2>1, <2>2, <2>3 DEF L
  <2>6. t = [first |-> tx.first, sent |-> L, app |-> tx.app, sackedOut |-> a,
             lostOut |-> b, retransOut |-> c, high |-> tx.high]
    <3>1. tx = [first |-> tx.first, sent |-> tx.sent, app |-> tx.app, sackedOut |-> tx.sackedOut,
             lostOut |-> tx.lostOut, retransOut |-> tx.retransOut, high |-> tx.high]
      BY <1>2 DEF Buffers
    <3> QED BY <2>5, <3>1
  <2> QED BY <2>4, <2>6
<1>7. /\ TxOk(u) /\ SameExtent(tx, u) /\ u.high = tx.high
      /\ Sacked(u) = MarkedNow(Sacked(tx), x.sacked, x)
      /\ Lost(u) = MarkedNow(Lost(tx), x.lost, x)
      /\ Resent(u) = MarkedNow(Resent(tx), x.retrans, x)
      /\ u.sent[1] = x /\ \A k \in DOMAIN tx.sent : k # 1 => u.sent[k] = tx.sent[k]
  <2>1. x.seq = tx.sent[1].seq /\ x.len = tx.sent[1].len
    BY <1>3 DEF head
  <2>2. 1 \in DOMAIN tx.sent /\ x \in Item /\ ~(x.lost /\ x.sacked) /\ tx.high \in Nat
    BY <1>1, <1>2, <1>3
  <2> QED BY <2>1, <2>2, MarkItemIs
<1> HIDE DEF u
<1>8. Sacked(u) = Sacked(tx)
  <2>1. Sacked(tx) = MarkedNow(Sacked(tx), head.sacked, x)
    <3>1. tx.sent[1]["sacked"] \in BOOLEAN /\ Spans(tx.sent)
      BY <1>1, TxExtent DEF head, TxOk
    <3>2. x.seq = tx.sent[1].seq /\ x.len = tx.sent[1].len
      BY <1>3 DEF head
    <3> QED BY <1>1, <3>1, <3>2, NoChange DEF head, Sacked
  <2> QED BY <1>1, <1>3, <1>7, <2>1
<1>9. Lost(u) = Lost(tx) \union HeadBytes(tx) /\ Resent(u) = Resent(tx) \ HeadBytes(tx)
  BY <1>3, <1>4, <1>7 DEF MarkedNow
<1>10. Starts(u.sent) = Starts(tx.sent)
  <2>1. \A k \in DOMAIN tx.sent : u.sent[k].sacked = tx.sent[k].sacked
    BY <1>1, <1>3, <1>7 DEF head
  <2> QED BY <1>7, <2>1, StartsSame
<1> QED BY <1>6, <1>7, <1>8, <1>9, <1>10 DEF t

\* The least of some numbers.
LEMMA MinIs ==
    ASSUME NEW T, T \subseteq Nat, T # {}
    PROVE  Min(T) \in T /\ \A y \in T : Min(T) <= y
BY LeastExists DEF Min

LEMMA SameSelf ==
    ASSUME NEW tx
    PROVE  SameExtent(tx, tx)
BY DEF SameExtent

\* An item behind the head counts as SACKed.
LEMMA RenoIs ==
    ASSUME NEW tx, TxOk(tx), \A b \in Lost(tx) : b < HeadEnd(tx)
    PROVE  LET t == AddRenoSack(tx)
           IN  /\ TxOk(t) /\ SameExtent(tx, t)
               /\ Lost(t) = Lost(tx) /\ Resent(t) = Resent(tx)
               /\ Sacked(tx) \subseteq Sacked(t)
               /\ tx.first \in Sacked(t) => tx.first \in Sacked(tx)
<1> DEFINE open == {i \in 2 .. Len(tx.sent) : ~tx.sent[i].sacked}
           t == AddRenoSack(tx)
<1>1. CASE open = {}
  <2>1. t = tx
    BY <1>1 DEF AddRenoSack
  <2> HIDE DEF t
  <2> QED BY <2>1, SameSelf DEF t
<1>2. CASE open # {}
  <2> DEFINE m == Min(open)
             a == tx.sent[m]
             x == [a EXCEPT !.sacked = TRUE]
             u == MarkItem(tx, m, x, a.seq)
  <2>1. m \in open
    <3>1. open \subseteq Nat
      OBVIOUS
    <3> HIDE DEF open
    <3> QED BY <1>2, <3>1, MinIs
  <2>2. t = [tx EXCEPT !.sent[m].sacked = TRUE, !.sackedOut = @ + a.len, !.high = a.seq]
    BY <1>2 DEF AddRenoSack
  <2> HIDE DEF m
  <2>3. /\ m \in Nat /\ m >= 2 /\ m \in DOMAIN tx.sent /\ ~a.sacked /\ tx.sent # <<>>
        /\ 1 \in DOMAIN tx.sent /\ Spans(tx.sent)
    <3>1. DOMAIN tx.sent = 1 .. Len(tx.sent) /\ Len(tx.sent) \in Nat
          /\ (tx.sent = <<>> <=> Len(tx.sent) = 0) /\ Spans(tx.sent)
      BY TxExtent DEF TxOk
    <3> QED BY <2>1, <3>1
  <2>4. a \in Item /\ a.seq \in Nat /\ a.len \in Nat /\ SentBytes(a) # {}
        /\ (\A b \in SentBytes(a) : b >= HeadEnd(tx))
    <3>1. a \in Item /\ tx.sent[1] \in Item
      BY <2>3, TxExtent DEF TxOk
    <3>2. EndOf(tx.sent[1]) <= a.seq
      BY <2>3 DEF Spans
    <3>3. a.seq \in Nat /\ a.seq < EndOf(a) /\ EndOf(a) \in Nat /\ a.len \in Nat
          /\ EndOf(tx.sent[1]) \in Nat
      BY <3>1, ItemIs
    <3>4. a.seq \in SentBytes(a)
      BY <3>3 DEF SentBytes
    <3>5. \A b \in SentBytes(a) : b >= HeadEnd(tx)
      BY <3>2, <3>3 DEF SentBytes, HeadEnd
    <3> HIDE DEF a
    <3> QED BY <3>1, <3>3, <3>4, <3>5
  <2>5. a.lost = FALSE /\ a.sacked = FALSE
    <3>1. a.lost \in BOOLEAN /\ a.sacked \in BOOLEAN
      BY <2>4, ItemIs
    <3>2. PICK b : b \in SentBytes(a)
      BY <2>4
    <3>3. b \in Lost(tx) <=> a["lost"]
      BY <2>3, <3>2, MarkedAs DEF Lost
    <3>4. ~(b < HeadEnd(tx))
      <4>1. b >= HeadEnd(tx) /\ HeadEnd(tx) \in Nat /\ b \in Int
        BY <2>3, <2>4, <3>2, HeadIs DEF SentBytes
      <4> QED BY <4>1
    <3> QED BY <2>3, <3>1, <3>3, <3>4
  <2>6. /\ x \in Item /\ x.seq = a.seq /\ x.len = a.len /\ x.sacked /\ x.sacked = TRUE
        /\ x.lost = a.lost /\ x.retrans = a.retrans /\ ~x.lost
    <3> HIDE DEF a
    <3> QED BY <2>4, <2>5 DEF Item
  <2>7. SentBytes(x) = SentBytes(a)
    BY <2>6 DEF SentBytes, EndOf
  <2>8. t = [tx EXCEPT !.sent = [tx.sent EXCEPT ![m] = x], !.sackedOut = @ + a.len,
                       !.high = a.seq]
    BY <2>2
  <2>9. tx \in Buffers
    BY DEF TxOk
  <2> HIDE DEF x, t, a
  <2>10. t = u
    <3> DEFINE p == Counted(tx.sackedOut, x.sacked, a.sacked, x.len)
               q == Counted(tx.lostOut, x.lost, a.lost, x.len)
               c == Counted(tx.retransOut, x.retrans, a.retrans, x.len)
               L == [tx.sent EXCEPT ![m] = x]
    <3>1. p = tx.sackedOut + a.len
      BY <2>5, <2>6 DEF Counted
    <3>2. q = tx.lostOut /\ c = tx.retransOut
      <4>1. a.retrans \in BOOLEAN
        BY <2>4, ItemIs
      <4> QED BY <2>5, <2>6, <4>1 DEF Counted
    <3>3. u = [first |-> tx.first, sent |-> L, app |-> tx.app, sackedOut |-> p,
               lostOut |-> q, retransOut |-> c, high |-> a.seq]
      BY DEF MarkItem, a
    <3> HIDE DEF p, q, c, L, u
    <3>4. t = [tx EXCEPT !.sent = L, !.sackedOut = p, !.high = a.seq]
      BY <2>8, <3>1 DEF L
    <3>5. t = [first |-> tx.first, sent |-> L, app |-> tx.app, sackedOut |-> p,
               lostOut |-> tx.lostOut, retransOut |-> tx.retransOut, high |-> a.seq]
      BY <2>9, <3>4 DEF Buffers
    <3> QED BY <3>2, <3>3, <3>5
  <2>11. x.seq = tx.sent[m].seq /\ x.len = tx.sent[m].len /\ ~(x.lost /\ x.sacked)
    BY <2>6 DEF a
  <2>a. m \in DOMAIN tx.sent /\ x \in Item /\ a.seq \in Nat
    BY <2>3, <2>4, <2>6
  <2>12. TxOk(u) /\ SameExtent(tx, u)
    BY <2>a, <2>11, MarkItemIs
  <2>13. /\ Sacked(u) = MarkedNow(Sacked(tx), x.sacked, x)
         /\ Lost(u) = MarkedNow(Lost(tx), x.lost, x)
         /\ Resent(u) = MarkedNow(Resent(tx), x.retrans, x)
    BY <2>a, <2>11, MarkItemIs
  <2> HIDE DEF u
  <2>14. Lost(u) = Lost(tx)
    <3>1. tx.sent[m]["lost"] \in BOOLEAN /\ tx.sent[m]["lost"] = x.lost
      BY <2>4, <2>6, ItemIs DEF a
    <3> QED BY <2>3, <2>11, <2>13, <3>1, NoChange DEF Lost
  <2>15. Resent(u) = Resent(tx)
    <3>1. tx.sent[m]["retrans"] \in BOOLEAN /\ tx.sent[m]["retrans"] = x.retrans
      BY <2>4, <2>6, ItemIs DEF a
    <3> QED BY <2>3, <2>11, <2>13, <3>1, NoChange DEF Resent
  <2>16. Sacked(u) = Sacked(tx) \union SentBytes(a)
    BY <2>6, <2>7, <2>13 DEF MarkedNow
  <2>17. tx.first \notin SentBytes(a)
    <3>1. tx.first < HeadEnd(tx) /\ HeadEnd(tx) \in Nat /\ tx.first \in Nat
      BY <2>3, HeadIs
    <3> QED BY <2>4, <3>1
  <2> QED BY <2>10, <2>12, <2>14, <2>15, <2>16, <2>17 DEF t
<1> QED BY <1>1, <1>2

LEMMA AllMarkedIs ==
    ASSUME NEW tx, TxOk(tx), NEW keep \in BOOLEAN, NEW list \in Seq(Item),
           SameItems(tx.sent, list),
           \A i \in DOMAIN list : /\ list[i].sacked = (keep /\ tx.sent[i].sacked)
                                  /\ list[i].lost = ~list[i].sacked
                                  /\ ~list[i].retrans
    PROVE  LET t == AllMarked(tx, list, keep)
           IN  /\ TxOk(t) /\ SameExtent(tx, t)
               /\ Sacked(t) = (IF keep THEN Sacked(tx) ELSE {})
               /\ Starts(t.sent) = (IF keep THEN Starts(tx.sent) ELSE {})
               /\ Lost(t) = Out(tx) \ Sacked(t) /\ Resent(t) = {}
               /\ t.high = IF keep THEN tx.high ELSE 0
<1> DEFINE t == AllMarked(tx, list, keep)
           p == IF keep THEN tx.sackedOut ELSE 0
           q == IF keep THEN Flagged(list, "lost") ELSE SentSize(tx)
           h == IF keep THEN tx.high ELSE 0
<1>1. /\ tx \in Buffers /\ tx.sent \in Seq(Item) /\ Chained(tx.sent)
      /\ tx.first \in Nat \ {0} /\ tx.app \in Nat /\ tx.sackedOut \in Nat /\ tx.high \in Nat
  BY DEF TxOk, Buffers
<1>2. t = [first |-> tx.first, sent |-> list, app |-> tx.app, sackedOut |-> p,
           lostOut |-> q, retransOut |-> 0, high |-> h]
  BY DEF AllMarked
<1>3. /\ Spans(tx.sent) /\ Spans(list) /\ DOMAIN list = DOMAIN tx.sent
      /\ \A i \in DOMAIN list : SentBytes(list[i]) = SentBytes(tx.sent[i])
  <2>1. DOMAIN list = DOMAIN tx.sent
    BY DEF SameItems
  <2>2. /\ Spans(tx.sent) /\ Spans(list)
        /\ \A i \in DOMAIN tx.sent : SentBytes(list[i]) = SentBytes(tx.sent[i])
    BY <1>1, SameItemsIs
  <2> QED BY <2>1, <2>2
<1>4. /\ BytesAt(tx.sent, DOMAIN tx.sent) = Out(tx) /\ SentSize(tx) \in Nat
      /\ Cardinality(Out(tx)) = SentSize(tx)
  BY TxExtent DEF TxOk
<1>5. Marked(list, "sacked") = IF keep THEN Sacked(tx) ELSE {}
  <2>1. With(list, "sacked") = IF keep THEN With(tx.sent, "sacked") ELSE {}
    BY <1>3 DEF With
  <2>2. With(tx.sent, "sacked") \subseteq DOMAIN list
    BY <1>3 DEF With
  <2> QED BY <1>3, <2>1, <2>2 DEF Marked, BytesAt, Sacked
<1>6. Starts(list) = IF keep THEN Starts(tx.sent) ELSE {}
  <2>1. With(list, "sacked") = IF keep THEN With(tx.sent, "sacked") ELSE {}
    BY <1>3 DEF With
  <2>2. \A i \in With(tx.sent, "sacked") : list[i].seq = tx.sent[i].seq
    BY DEF With, SameItems
  <2> QED BY <2>1, <2>2 DEF Starts
<1>7. Marked(list, "retrans") = {}
  BY DEF Marked, BytesAt, With
<1>8. Marked(list, "lost") = Out(tx) \ Marked(list, "sacked")
  <2>1. BytesAt(list, DOMAIN list) = Out(tx)
    BY <1>3, <1>4 DEF BytesAt
  <2>2. ASSUME NEW b, NEW i \in DOMAIN list, b \in SentBytes(list[i])
        PROVE  b \in Marked(list, "lost") <=> b \notin Marked(list, "sacked")
    <3>1. /\ b \in Marked(list, "lost") <=> list[i]["lost"]
          /\ b \in Marked(list, "sacked") <=> list[i]["sacked"]
      BY <1>3, <2>2, MarkedAs
    <3> QED BY <3>1
  <2>3. Marked(list, "lost") \subseteq Out(tx)
    BY <2>1 DEF Marked, BytesAt, With
  <2>4. \A b \in Out(tx) : \E i \in DOMAIN list : b \in SentBytes(list[i])
    BY <2>1 DEF BytesAt
  <2> QED BY <2>2, <2>3, <2>4
<1>9. q = Cardinality(Marked(list, "lost")) /\ q \in Nat
  <2>1. CASE keep
    <3>1. Flagged(list, "lost") = Cardinality(Marked(list, "lost"))
          /\ IsFiniteSet(Marked(list, "lost"))
      BY <1>3, FlaggedIs
    <3>2. Cardinality(Marked(list, "lost")) \in Nat
      BY <3>1, FS_CardinalityType
    <3> QED BY <2>1, <3>1, <3>2
  <2>2. CASE ~keep
    BY <1>4, <1>5, <1>8, <2>2
  <2> QED BY <2>1, <2>2
<1>10. p = Cardinality(Marked(list, "sacked")) /\ p \in Nat /\ h \in Nat
  <2>1. tx.sackedOut = Cardinality(Sacked(tx))
    BY DEF TxOk, Sacked
  <2> QED BY <1>1, <1>5, <2>1, FS_EmptySet
<1> HIDE DEF p, q, h, t
<1>11. /\ t \in Buffers /\ t.sent = list /\ t.first = tx.first /\ t.app = tx.app
       /\ t.sackedOut = p /\ t.lostOut = q /\ t.retransOut = 0 /\ t.high = h
  BY <1>1, <1>2, <1>9, <1>10 DEF Buffers
<1>12. SameExtent(tx, t) /\ Chained(t.sent) /\ (t.sent # <<>> => t.sent[1].seq = t.first)
  BY <1>11, SameExtentIs
<1>13. \A i \in DOMAIN t.sent :
          t.sent[i].len <= SegmentSize /\ ~(t.sent[i].lost /\ t.sent[i].sacked)
  BY <1>3, <1>11 DEF SameItems, TxOk
<1>14. t.retransOut = Cardinality(Marked(t.sent, "retrans"))
  BY <1>7, <1>11, FS_EmptySet
<1>15. TxOk(t)
  BY <1>9, <1>10, <1>11, <1>12, <1>13, <1>14 DEF TxOk
<1>16. /\ Sacked(t) = (IF keep THEN Sacked(tx) ELSE {})
       /\ Starts(t.sent) = (IF keep THEN Starts(tx.sent) ELSE {})
       /\ Lost(t) = Out(tx) \ Sacked(t) /\ Resent(t) = {}
  BY <1>5, <1>6, <1>7, <1>8, <1>11 DEF Sacked, Lost, Resent
<1> QED BY <1>11, <1>12, <1>15, <1>16 DEF t, h

LEMMA AllLostIs ==
    ASSUME NEW s, TxOk(s.tx), s.sackEnabled \in BOOLEAN
    PROVE  LET t == AllLost(s)
               keep == s.sackEnabled
           IN  /\ TxOk(t) /\ SameExtent(s.tx, t)
               /\ Sacked(t) = (IF keep THEN Sacked(s.tx) ELSE {})
               /\ Starts(t.sent) = (IF keep THEN Starts(s.tx.sent) ELSE {})
               /\ Lost(t) = Out(s.tx) \ Sacked(t) /\ Resent(t) = {}
               /\ t.high = IF keep THEN s.tx.high ELSE 0
<1> DEFINE tx == s.tx
           keep == s.sackEnabled
           list == [i \in DOMAIN tx.sent |->
                      [tx.sent[i] EXCEPT !.sacked = keep /\ @,
                                         !.lost = ~(keep /\ tx.sent[i].sacked),
                                         !.retrans = FALSE]]
           u == AllMarked(tx, list, keep)
           t == AllLost(s)
<1>1. /\ tx \in Buffers /\ tx.sent \in Seq(Item) /\ DOMAIN tx.sent = 1 .. Len(tx.sent)
      /\ Len(tx.sent) \in Nat
      /\ \A i \in DOMAIN tx.sent : tx.sent[i] \in Item /\ ~(tx.sent[i].lost /\ tx.sent[i].sacked)
  BY TxExtent DEF TxOk, Buffers
<1>2. \A i \in DOMAIN tx.sent :
         /\ list[i] \in Item /\ list[i].seq = tx.sent[i].seq /\ list[i].len = tx.sent[i].len
         /\ list[i].sacked = (keep /\ tx.sent[i].sacked)
         /\ list[i].lost = ~list[i].sacked /\ ~list[i].retrans
  <2> SUFFICES ASSUME NEW i \in DOMAIN tx.sent
               PROVE  /\ list[i] \in Item /\ list[i].seq = tx.sent[i].seq
                      /\ list[i].len = tx.sent[i].len
                      /\ list[i].sacked = (keep /\ tx.sent[i].sacked)
                      /\ list[i].lost = ~list[i].sacked /\ ~list[i].retrans
    OBVIOUS
  <2> DEFINE a == tx.sent[i]
             f == keep /\ a.sacked
             x == [a EXCEPT !.sacked = f, !.lost = ~f, !.retrans = FALSE]
  <2>1. a \in Item /\ f \in BOOLEAN /\ (~f) \in BOOLEAN
    BY <1>1
  <2>2. list[i] = x
    OBVIOUS
  <2>3. x \in Item /\ x.seq = a.seq /\ x.len = a.len /\ x.sacked = f /\ x.lost = ~f /\ ~x.retrans
    <3> HIDE DEF a, f
    <3> QED BY <2>1 DEF Item
  <2> HIDE DEF x, list
  <2> QED BY <2>2, <2>3
<1>3. list \in Seq(Item) /\ SameItems(tx.sent, list) /\ DOMAIN list = DOMAIN tx.sent
  <2>1. \A i \in 1 .. Len(tx.sent) : list[i] \in Item
    BY <1>1, <1>2
  <2>2. DOMAIN list = 1 .. Len(tx.sent)
    BY <1>1, SMTT(30)
  <2>3. list = [i \in 1 .. Len(tx.sent) |-> list[i]]
    BY <1>1
  <2> HIDE DEF list
  <2>4. list \in [1 .. Len(tx.sent) -> Item]
    BY <2>1, <2>3
  <2>5. list \in Seq(Item)
    BY <1>1, <2>4, SeqDef
  <2> QED BY <1>1, <1>2, <2>2, <2>5 DEF SameItems
<1>4. t = u
  <2>1. CASE keep
    <3>1. t = SetSentListLost(tx, FALSE)
      BY <2>1 DEF AllLost
    <3>2. \A i \in DOMAIN tx.sent :
            [tx.sent[i] EXCEPT !.sacked = @ /\ ~FALSE,
                               !.lost = @ \/ FALSE \/ ~tx.sent[i].sacked,
                               !.retrans = FALSE] = list[i]
      <4> SUFFICES ASSUME NEW i \in DOMAIN tx.sent
                   PROVE  [tx.sent[i] EXCEPT !.sacked = @ /\ ~FALSE,
                               !.lost = @ \/ FALSE \/ ~tx.sent[i].sacked,
                               !.retrans = FALSE] = list[i]
        OBVIOUS
      <4> DEFINE a == tx.sent[i]
      <4>1. a \in Item /\ ~(a.lost /\ a.sacked)
        BY <1>1
      <4>2. list[i] = [a EXCEPT !.sacked = keep /\ a.sacked, !.lost = ~(keep /\ a.sacked), !.retrans = FALSE]
        OBVIOUS
      <4>3. a.sacked \in BOOLEAN /\ a.lost \in BOOLEAN
        BY <4>1 DEF Item
      <4>4. (a.sacked /\ ~FALSE) = (keep /\ a.sacked)
        BY <2>1, <4>3
      <4>5. (a.lost \/ FALSE \/ ~a.sacked) = ~(keep /\ a.sacked)
        BY <2>1, <4>1, <4>3, SMTT(30)
      <4> QED BY <4>2, <4>4, <4>5, ZenonT(60)
    <3>3. [i \in DOMAIN tx.sent |->
            [tx.sent[i] EXCEPT !.sacked = @ /\ ~FALSE,
                               !.lost = @ \/ FALSE \/ ~tx.sent[i].sacked,
                               !.retrans = FALSE]] = list
      BY <3>2
    <3> HIDE DEF list
    <3> DEFINE q == Flagged(list, "lost")
    <3>4. t = [tx EXCEPT !.sent = list, !.retransOut = 0, !.lostOut = q,
                         !.sackedOut = @, !.high = @]
      BY <3>1, <3>3 DEF SetSentListLost
    <3>5. u = [first |-> tx.first, sent |-> list, app |-> tx.app,
               sackedOut |-> tx.sackedOut, lostOut |-> q, retransOut |-> 0, high |-> tx.high]
      BY <2>1 DEF AllMarked
    <3> HIDE DEF t, u, q, tx
    <3>6. t = [first |-> tx.first, sent |-> list, app |-> tx.app,
               sackedOut |-> tx.sackedOut, lostOut |-> q, retransOut |-> 0, high |-> tx.high]
      BY <1>1, <3>4 DEF Buffers
    <3> QED BY <3>5, <3>6
  <2>2. CASE ~keep
    <3> DEFINE M == [i \in DOMAIN tx.sent |-> [tx.sent[i] EXCEPT !.sacked = FALSE]]
               r == ResetRenoSack(tx)
    <3>1. t = SetSentListLost(r, TRUE)
      BY <2>2 DEF AllLost
    <3>2. \A i \in DOMAIN tx.sent :
             /\ M[i] \in Item /\ M[i].seq = tx.sent[i].seq /\ M[i].len = tx.sent[i].len
             /\ [M[i] EXCEPT !.sacked = @ /\ ~TRUE,
                             !.lost = @ \/ TRUE \/ ~M[i].sacked,
                             !.retrans = FALSE] = list[i]
      <4> SUFFICES ASSUME NEW i \in DOMAIN tx.sent
                   PROVE  /\ M[i] \in Item /\ M[i].seq = tx.sent[i].seq
                          /\ M[i].len = tx.sent[i].len
                          /\ [M[i] EXCEPT !.sacked = @ /\ ~TRUE,
                               !.lost = @ \/ TRUE \/ ~M[i].sacked,
                               !.retrans = FALSE] = list[i]
        OBVIOUS
      <4> DEFINE a == tx.sent[i]
                 b == [a EXCEPT !.sacked = FALSE]
      <4>1. a \in Item /\ M[i] = b
        BY <1>1
      <4>2. list[i] = [a EXCEPT !.sacked = FALSE, !.lost = TRUE, !.retrans = FALSE]
        BY <2>2
      <4> HIDE DEF M, list, a
      <4>3. b \in Item /\ b.seq = a.seq /\ b.len = a.len /\ b.sacked = FALSE
        BY <4>1 DEF Item
      <4>4. [b EXCEPT !.sacked = @ /\ ~TRUE, !.lost = @ \/ TRUE \/ ~b.sacked, !.retrans = FALSE]
              = [b EXCEPT !.sacked = FALSE, !.lost = TRUE, !.retrans = FALSE]
        <5>1. (b.sacked /\ ~TRUE) = FALSE /\ (b.lost \/ TRUE \/ ~b.sacked) = TRUE
          OBVIOUS
        <5> QED BY <5>1
      <4>5. [b EXCEPT !.sacked = FALSE, !.lost = TRUE, !.retrans = FALSE]
              = [a EXCEPT !.sacked = FALSE, !.lost = TRUE, !.retrans = FALSE]
        BY <4>1 DEF Item
      <4> HIDE DEF b
      <4> QED BY <4>1, <4>2, <4>3, <4>4, <4>5 DEF a
    <3>3. M \in Seq(Item) /\ SameItems(tx.sent, M) /\ DOMAIN M = DOMAIN tx.sent
      <4>1. DOMAIN M = 1 .. Len(tx.sent) /\ M = [i \in 1 .. Len(tx.sent) |-> M[i]]
        BY <1>1, SMTT(30)
      <4> HIDE DEF M
      <4>2. M \in [1 .. Len(tx.sent) -> Item]
        BY <1>1, <3>2, <4>1
      <4>3. M \in Seq(Item)
        BY <1>1, <4>2, SeqDef
      <4> QED BY <1>1, <3>2, <4>1, <4>3 DEF SameItems
    <3>4. r = [tx EXCEPT !.sent = M, !.sackedOut = 0, !.high = 0]
      BY DEF ResetRenoSack
    <3> HIDE DEF M, r
    <3>5. r = [first |-> tx.first, sent |-> M, app |-> tx.app, sackedOut |-> 0,
               lostOut |-> tx.lostOut, retransOut |-> tx.retransOut, high |-> 0]
      <4> HIDE DEF tx
      <4> QED BY <1>1, <3>4 DEF Buffers
    <3>6. r.sent = M /\ r.first = tx.first /\ r.app = tx.app
      BY <3>5
    <3>7. SentSize(r) = SentSize(tx)
      <4>1. SameExtent(tx, r)
        BY <3>3, <3>6, SameExtentIs, SMTT(30)
      <4> QED BY <4>1 DEF SameExtent, SentSize
    <3>8. [i \in DOMAIN M |->
            [M[i] EXCEPT !.sacked = @ /\ ~TRUE,
                         !.lost = @ \/ TRUE \/ ~M[i].sacked,
                         !.retrans = FALSE]] = list
      BY <3>2, <3>3
    <3> HIDE DEF list
    <3> DEFINE q == SentSize(tx)
    <3>9. t = [r EXCEPT !.sent = list, !.retransOut = 0, !.lostOut = q,
                        !.sackedOut = 0, !.high = 0]
      BY <3>1, <3>6, <3>7, <3>8, ZenonT(60) DEF SetSentListLost
    <3>10. u = [first |-> tx.first, sent |-> list, app |-> tx.app,
                sackedOut |-> 0, lostOut |-> q, retransOut |-> 0, high |-> 0]
      BY <2>2 DEF AllMarked
    <3> HIDE DEF t, u, q, tx
    <3>11. t = [first |-> tx.first, sent |-> list, app |-> tx.app,
                sackedOut |-> 0, lostOut |-> q, retransOut |-> 0, high |-> 0]
      BY <3>5, <3>9
    <3> QED BY <3>10, <3>11
  <2> QED BY <2>1, <2>2
<1> HIDE DEF list
<1>5. \A i \in DOMAIN list : /\ list[i].sacked = (keep /\ tx.sent[i].sacked)
                             /\ list[i].lost = ~list[i].sacked
                             /\ ~list[i].retrans
  BY <1>2, <1>3
<1>6. TxOk(tx) /\ keep \in BOOLEAN
  OBVIOUS
<1> HIDE DEF tx, keep
<1>7. /\ TxOk(u) /\ SameExtent(tx, u)
      /\ Sacked(u) = (IF keep THEN Sacked(tx) ELSE {})
      /\ Starts(u.sent) = (IF keep THEN Starts(tx.sent) ELSE {})
      /\ Lost(u) = Out(tx) \ Sacked(u) /\ Resent(u) = {}
      /\ u.high = IF keep THEN tx.high ELSE 0
  BY <1>3, <1>5, <1>6, AllMarkedIs
<1> HIDE DEF u, t
<1> QED BY <1>4, <1>7 DEF t, tx, keep

\* The items that end by ack come first.
LEMMA FirstOnes ==
    ASSUME NEW list \in Seq(Item), Chained(list), NEW ack \in Nat
    PROVE  LET below == {i \in DOMAIN list : EndOf(list[i]) <= ack}
               n == Cardinality(below)
           IN  n \in 0 .. Len(list) /\ below = 1 .. n
<1> DEFINE below == {i \in DOMAIN list : EndOf(list[i]) <= ack}
           C == {i \in 1 .. Len(list) + 1 : i = Len(list) + 1 \/ EndOf(list[i]) > ack}
           m == Min(C)
<1>1. /\ DOMAIN list = 1 .. Len(list) /\ Len(list) \in Nat /\ Spans(list)
      /\ \A i \in DOMAIN list : list[i] \in Item /\ EndOf(list[i]) \in Nat
  BY ChainIs
<1>2. m \in C /\ \A y \in C : m <= y
  <2>1. C \subseteq Nat /\ Len(list) + 1 \in C
    BY <1>1
  <2> HIDE DEF C
  <2> QED BY <2>1, MinIs
<1> HIDE DEF m
<1>3. m \in Nat /\ m >= 1 /\ m - 1 \in Nat /\ m <= Len(list) + 1
  BY <1>1, <1>2
<1>4. \A i \in 1 .. m - 1 : i \in below
  BY <1>1, <1>2, <1>3
<1>5. \A i \in below : i \in 1 .. m - 1
  <2> SUFFICES ASSUME NEW i \in DOMAIN list, EndOf(list[i]) <= ack, ~(i < m)
               PROVE  FALSE
    BY <1>1, <1>3
  <2>1. m \in DOMAIN list /\ EndOf(list[m]) > ack /\ i # m /\ m < i /\ EndOf(list[m]) \in Nat
    BY <1>1, <1>2, <1>3
  <2>2. EndOf(list[m]) <= list[i].seq
    BY <1>1, <2>1 DEF Spans
  <2>3. list[i].seq < EndOf(list[i]) /\ list[i].seq \in Nat /\ EndOf(list[i]) \in Nat
    BY <1>1, ItemIs
  <2> QED BY <2>1, <2>2, <2>3
<1>6. below = 1 .. m - 1
  BY <1>4, <1>5
<1>7. Cardinality(1 .. m - 1) = m - 1
  BY <1>3, FS_Interval
<1> HIDE DEF below
<1>8. Cardinality(below) = m - 1 /\ m - 1 \in 0 .. Len(list)
  <2>1. Cardinality(below) = m - 1
    BY <1>6, <1>7
  <2> QED BY <1>1, <1>3, <2>1
<1> QED BY <1>6, <1>8 DEF below

\* The parts of an item before ack and from ack on.
LEMMA PartsAre ==
    ASSUME NEW x \in Item, NEW ack \in Nat
    PROVE  /\ Below(x, ack).seq = x.seq /\ Below(x, ack).len \in Nat
           /\ EndOf(Below(x, ack)) <= EndOf(x) /\ EndOf(Below(x, ack)) \in Nat
           /\ SentBytes(Below(x, ack)) = {b \in SentBytes(x) : b < ack}
           /\ \A flag \in Flags : Below(x, ack)[flag] = x[flag]
           /\ ack < EndOf(x) =>
                /\ Above(x, ack) \in Item /\ Above(x, ack).seq = MaxOf(x.seq, ack)
                /\ Above(x, ack).len <= x.len /\ EndOf(Above(x, ack)) = EndOf(x)
                /\ SentBytes(Above(x, ack)) = {b \in SentBytes(x) : b >= ack}
                /\ \A flag \in Flags : Above(x, ack)[flag] = x[flag]
           /\ ack <= x.seq => Above(x, ack) = x
<1> DEFINE p == MinOf(x.len, MaxOf(0, ack - x.seq))
           m == MaxOf(x.seq, ack)
           q == EndOf(x) - m
           B == Below(x, ack)
           A == Above(x, ack)
<1>1. /\ x.seq \in Nat /\ x.seq >= 1 /\ x.len \in Nat /\ x.len >= 1
      /\ EndOf(x) = x.seq + x.len
      /\ x.sacked \in BOOLEAN /\ x.lost \in BOOLEAN /\ x.retrans \in BOOLEAN
  BY ItemIs
<1>2. p \in Nat /\ p <= x.len /\ (p = x.len \/ p = ack - x.seq \/ (p = 0 /\ ack <= x.seq))
      /\ (p = x.len => x.seq + x.len <= ack)
  BY <1>1 DEF MinOf, MaxOf
<1>3. m \in Nat /\ m >= 1 /\ m >= x.seq /\ m >= ack /\ (m = x.seq \/ m = ack)
  BY <1>1 DEF MaxOf
<1>4. B = [x EXCEPT !.len = p] /\ A = [x EXCEPT !.seq = m, !.len = q]
  BY DEF Below, Above
<1> HIDE DEF p, m
<1>5. /\ B = [seq |-> x.seq, len |-> p, sacked |-> x.sacked, lost |-> x.lost, retrans |-> x.retrans]
      /\ A = [seq |-> m, len |-> q, sacked |-> x.sacked, lost |-> x.lost, retrans |-> x.retrans]
  <2> HIDE DEF q, A, B
  <2> QED BY <1>4 DEF Item
<1> HIDE DEF A, B
<1>6. EndOf(B) = x.seq + p /\ B.seq = x.seq /\ B.len = p
  BY <1>5 DEF EndOf
<1>7. SentBytes(B) = {b \in SentBytes(x) : b < ack}
  <2>1. SentBytes(B) = x.seq .. x.seq + p - 1 /\ SentBytes(x) = x.seq .. x.seq + x.len - 1
    BY <1>1, <1>2, <1>6 DEF SentBytes
  <2>2. \A b \in Int : (x.seq <= b /\ b <= x.seq + p - 1)
                        <=> (x.seq <= b /\ b <= x.seq + x.len - 1 /\ b < ack)
    BY <1>1, <1>2
  <2> QED BY <1>1, <1>2, <2>1, <2>2
<1>8. \A flag \in Flags : B[flag] = x[flag] /\ A[flag] = x[flag]
  BY <1>5 DEF Flags
<1>9. ack < EndOf(x) => m < EndOf(x) /\ q \in Nat \ {0} /\ q <= x.len
  BY <1>1, <1>3
<1>10. A.seq = m /\ A.len = q /\ EndOf(A) = m + q
  BY <1>5 DEF EndOf
<1>11. EndOf(A) = EndOf(x)
  BY <1>1, <1>3, <1>10
<1>12. SentBytes(A) = {b \in SentBytes(x) : b >= ack}
  <2>1. SentBytes(A) = m .. x.seq + x.len - 1 /\ SentBytes(x) = x.seq .. x.seq + x.len - 1
    BY <1>1, <1>10, <1>11 DEF SentBytes
  <2>2. \A b \in Int : m <= b <=> x.seq <= b /\ b >= ack
    BY <1>1, <1>3
  <2> QED BY <1>1, <1>3, <2>1, <2>2
<1>13. ack < EndOf(x) => A \in Item
  <2> HIDE DEF q
  <2> QED BY <1>1, <1>3, <1>5, <1>9 DEF Item
<1>14. ack <= x.seq => A = x
  <2>1. ack <= x.seq => m = x.seq
    BY <1>1 DEF m, MaxOf
  <2>2. m = x.seq => q = x.len
    BY <1>1
  <2>3. x = [seq |-> x.seq, len |-> x.len, sacked |-> x.sacked, lost |-> x.lost, retrans |-> x.retrans]
    BY DEF Item
  <2> HIDE DEF q
  <2> QED BY <1>5, <2>1, <2>2, <2>3
<1> HIDE DEF q
<1>15. /\ B.seq = x.seq /\ B.len \in Nat /\ EndOf(B) <= EndOf(x) /\ EndOf(B) \in Nat
  BY <1>1, <1>2, <1>6
<1> QED BY <1>7, <1>8, <1>9, <1>10, <1>11, <1>12, <1>13, <1>14, <1>15 DEF A, B, m

LEMMA KeptIs ==
    ASSUME NEW list \in Seq(Item), Chained(list), list # <<>>, NEW ack \in Nat,
           list[1].seq < ack
    PROVE  Trimmed(list, Kept(list, ack), ack)
<1> DEFINE below == {i \in DOMAIN list : EndOf(list[i]) <= ack}
           n == Cardinality(below)
           kept == SubSeq(list, n + 1, Len(list))
           L == Kept(list, ack)
           N == Len(list)
<1>1. /\ DOMAIN list = 1 .. N /\ N \in Nat /\ Spans(list)
      /\ \A i \in DOMAIN list : /\ list[i] \in Item /\ EndOf(list[i]) \in Nat
                                /\ list[i].seq < EndOf(list[i]) /\ list[i].seq \in Nat
  <2>1. /\ DOMAIN list = 1 .. N /\ N \in Nat /\ Spans(list)
        /\ \A i \in DOMAIN list : /\ list[i] \in Item /\ EndOf(list[i]) \in Nat
                                  /\ list[i].seq < EndOf(list[i])
    BY ChainIs
  <2> QED BY <2>1 DEF Spans
<1>2. N >= 1
  BY <1>1, EmptySeq
<1>3. n \in 0 .. N /\ below = 1 .. n
  BY FirstOnes
<1>4. \A i \in DOMAIN list : EndOf(list[i]) <= ack <=> i <= n
  BY <1>1, <1>3
<1> HIDE DEF n, below
<1> DEFINE M == N - n
<1>5. /\ kept \in Seq(Item) /\ Len(kept) = M /\ M \in Nat /\ DOMAIN kept = 1 .. M
      /\ \A k \in 1 .. M : kept[k] = list[n + k]
  <2>1. n + 1 \in 1 .. N + 1 /\ N \in (n + 1) - 1 .. N /\ (N - (n + 1)) + 1 = M
    BY <1>1, <1>3
  <2>2. /\ kept \in Seq(Item) /\ Len(kept) = (N - (n + 1)) + 1
        /\ \A k \in 1 .. (N - (n + 1)) + 1 : kept[k] = list[((n + 1) + k) - 1]
    BY <1>1, <1>3, <2>1, SubSeqProperties, SMTT(30)
  <2>3. \A k \in 1 .. M : ((n + 1) + k) - 1 = n + k
    BY <1>1, <1>3
  <2>4. DOMAIN kept = 1 .. Len(kept)
    BY <2>2, LenProperties
  <2> HIDE DEF kept
  <2>5. M \in Nat
    BY <1>1, <1>3
  <2> HIDE DEF M
  <2> QED BY <2>1, <2>2, <2>3, <2>4, <2>5
<1>6. L = [k \in 1 .. M |-> Above(kept[k], ack)]
  BY <1>5 DEF Kept, n, below
<1> HIDE DEF kept, L
<1>7. \A k \in 1 .. M : /\ n + k \in DOMAIN list /\ ack < EndOf(list[n + k])
                        /\ L[k] = Above(list[n + k], ack)
  <2> SUFFICES ASSUME NEW k \in 1 .. M
               PROVE  /\ n + k \in DOMAIN list /\ ack < EndOf(list[n + k])
                      /\ L[k] = Above(list[n + k], ack)
    OBVIOUS
  <2>1. n + k \in DOMAIN list /\ ~(n + k <= n)
    BY <1>1, <1>3
  <2>2. L[k] = Above(list[n + k], ack)
    BY <1>5, <1>6
  <2>3. ~(EndOf(list[n + k]) <= ack) /\ EndOf(list[n + k]) \in Nat
    BY <1>1, <1>4, <2>1
  <2> QED BY <2>1, <2>2, <2>3
<1>8. \A k \in 1 .. M :
         /\ L[k] \in Item /\ L[k].seq = MaxOf(list[n + k].seq, ack)
         /\ L[k].len <= list[n + k].len /\ EndOf(L[k]) = EndOf(list[n + k])
         /\ SentBytes(L[k]) = {b \in SentBytes(list[n + k]) : b >= ack}
         /\ \A flag \in Flags : L[k][flag] = list[n + k][flag]
         /\ ack <= list[n + k].seq => L[k] = list[n + k]
  <2> SUFFICES ASSUME NEW k \in 1 .. M
               PROVE  /\ L[k] \in Item /\ L[k].seq = MaxOf(list[n + k].seq, ack)
                      /\ L[k].len <= list[n + k].len /\ EndOf(L[k]) = EndOf(list[n + k])
                      /\ SentBytes(L[k]) = {b \in SentBytes(list[n + k]) : b >= ack}
                      /\ \A flag \in Flags : L[k][flag] = list[n + k][flag]
                      /\ ack <= list[n + k].seq => L[k] = list[n + k]
    OBVIOUS
  <2> DEFINE x == list[n + k]
  <2>1. x \in Item /\ ack < EndOf(x) /\ L[k] = Above(x, ack)
    BY <1>1, <1>7
  <2> HIDE DEF x
  <2>2. /\ Above(x, ack) \in Item /\ Above(x, ack).seq = MaxOf(x.seq, ack)
        /\ Above(x, ack).len <= x.len /\ EndOf(Above(x, ack)) = EndOf(x)
        /\ SentBytes(Above(x, ack)) = {b \in SentBytes(x) : b >= ack}
        /\ \A flag \in Flags : Above(x, ack)[flag] = x[flag]
    BY <2>1, PartsAre
  <2>3. ack <= x.seq => Above(x, ack) = x
    BY <2>1, PartsAre
  <2> QED BY <2>1, <2>2, <2>3 DEF x
<1>9. L \in Seq(Item) /\ Len(L) = M /\ DOMAIN L = 1 .. M
  <2>1. L = [k \in 1 .. M |-> L[k]]
    BY <1>6
  <2>2. L \in [1 .. M -> Item]
    BY <1>8, <2>1
  <2>3. L \in Seq(Item)
    BY <1>5, <2>2, SeqDef
  <2> QED BY <1>5, <2>1, <2>3, LenProperties
<1>10. \A k \in 1 .. M : k > 1 => L[k].seq = EndOf(L[k - 1]) /\ list[n + k].seq > ack
  <2> SUFFICES ASSUME NEW k \in 1 .. M, k > 1
               PROVE  L[k].seq = EndOf(L[k - 1]) /\ list[n + k].seq > ack
    OBVIOUS
  <2>1. k - 1 \in 1 .. M /\ n + k > 1 /\ n + (k - 1) = (n + k) - 1
    BY <1>3, <1>5
  <2>2. list[n + k].seq = EndOf(list[n + (k - 1)])
    BY <1>7, <2>1 DEF Chained
  <2>3. EndOf(L[k - 1]) = EndOf(list[n + (k - 1)]) /\ ack < EndOf(list[n + (k - 1)])
    BY <1>7, <1>8, <2>1
  <2>4. list[n + k].seq \in Nat
    BY <1>1, <1>7
  <2>5. MaxOf(list[n + k].seq, ack) = list[n + k].seq
    BY <2>2, <2>3, <2>4 DEF MaxOf
  <2> QED BY <1>8, <2>2, <2>3, <2>4, <2>5
<1>11. Chained(L)
  BY <1>9, <1>10 DEF Chained
<1>12. M >= 1 => list[n + 1].seq <= ack
  <2> SUFFICES ASSUME M >= 1 PROVE list[n + 1].seq <= ack
    OBVIOUS
  <2>1. CASE n = 0
    BY <1>1, <1>2, <2>1
  <2>2. CASE n > 0
    <3>1. n + 1 \in DOMAIN list /\ n \in DOMAIN list /\ (n + 1) - 1 = n /\ n + 1 > 1
      BY <1>1, <1>3, <1>5, <2>2
    <3>2. list[n + 1].seq = EndOf(list[n])
      BY <3>1 DEF Chained
    <3>3. EndOf(list[n]) <= ack
      BY <1>3, <1>4, <3>1
    <3> QED BY <3>2, <3>3
  <2> QED BY <1>3, <2>1, <2>2
<1>13. L # <<>> <=> M >= 1
  BY <1>5, <1>9, EmptySeq
<1>14. L # <<>> => L[1].seq = ack
  <2> SUFFICES ASSUME M >= 1 PROVE L[1].seq = ack
    BY <1>13
  <2>1. 1 \in 1 .. M
    BY <1>5
  <2>2. list[n + 1].seq \in Nat
    BY <1>1, <1>7, <2>1
  <2> QED BY <1>8, <1>12, <2>1, <2>2 DEF MaxOf
<1>15. ASSUME NEW flag \in Flags
       PROVE  Marked(L, flag) = {b \in Marked(list, flag) : b >= ack}
  <2>1. ASSUME NEW b, b \in Marked(L, flag) PROVE b \in Marked(list, flag) /\ b >= ack
    <3>1. PICK k \in 1 .. M : L[k][flag] /\ b \in SentBytes(L[k])
      BY <1>9, <2>1 DEF Marked, BytesAt, With
    <3>2. n + k \in DOMAIN list /\ list[n + k][flag] /\ b \in SentBytes(list[n + k]) /\ b >= ack
      BY <1>7, <1>8, <1>15, <3>1
    <3> QED BY <3>2 DEF Marked, BytesAt, With
  <2>2. ASSUME NEW b, b \in Marked(list, flag), b >= ack PROVE b \in Marked(L, flag)
    <3>1. PICK i \in DOMAIN list : list[i][flag] /\ b \in SentBytes(list[i])
      BY <2>2 DEF Marked, BytesAt, With
    <3>2. i > n
      <4>1. b < EndOf(list[i]) /\ EndOf(list[i]) \in Nat /\ b \in Int
        BY <1>1, <3>1 DEF SentBytes
      <4>2. ~(EndOf(list[i]) <= ack)
        BY <2>2, <4>1
      <4> QED BY <1>1, <1>3, <1>4, <4>2
    <3> DEFINE k == i - n
    <3>3. k \in 1 .. M /\ n + k = i
      BY <1>1, <1>3, <3>2
    <3> HIDE DEF k
    <3>4. b \in SentBytes(L[k]) /\ L[k][flag]
      BY <1>8, <1>15, <2>2, <3>1, <3>3
    <3> QED BY <1>9, <3>3, <3>4 DEF Marked, BytesAt, With
  <2> QED BY <2>1, <2>2
<1>16. ack \notin Marked(list, "sacked") => Starts(L) = {x \in Starts(list) : x >= ack}
  <2> SUFFICES ASSUME ack \notin Marked(list, "sacked")
               PROVE  Starts(L) = {x \in Starts(list) : x >= ack}
    OBVIOUS
  <2>1. M >= 1 => ~list[n + 1].sacked
    <3> SUFFICES ASSUME M >= 1, list[n + 1].sacked PROVE FALSE
      OBVIOUS
    <3>1. 1 \in 1 .. M
      BY <1>5
    <3>2. n + 1 \in DOMAIN list /\ ack < EndOf(list[n + 1]) /\ list[n + 1].seq <= ack
          /\ list[n + 1].seq \in Nat /\ EndOf(list[n + 1]) \in Nat
      BY <1>1, <1>7, <1>12, <3>1
    <3>3. ack \in SentBytes(list[n + 1])
      BY <3>2 DEF SentBytes
    <3> QED BY <3>2, <3>3 DEF Marked, BytesAt, With
  <2>2. "sacked" \in Flags
    BY DEF Flags
  <2>3. ASSUME NEW x, x \in Starts(L) PROVE x \in Starts(list) /\ x >= ack
    <3>1. PICK k \in 1 .. M : L[k]["sacked"] /\ x = L[k].seq
      BY <1>9, <2>3 DEF Starts, With
    <3>2. list[n + k]["sacked"] /\ n + k \in DOMAIN list
      BY <1>7, <1>8, <2>2, <3>1
    <3>3. k > 1
      BY <1>5, <2>1, <3>1, <3>2
    <3>4. list[n + k].seq > ack /\ list[n + k].seq \in Nat
      BY <1>1, <1>10, <3>2, <3>3
    <3>5. x = list[n + k].seq
      BY <1>8, <3>1, <3>4
    <3> QED BY <3>2, <3>4, <3>5 DEF Starts, With
  <2>4. ASSUME NEW x, x \in Starts(list), x >= ack PROVE x \in Starts(L)
    <3>1. PICK i \in DOMAIN list : list[i]["sacked"] /\ x = list[i].seq
      BY <2>4 DEF Starts, With
    <3>2. i > n
      <4>1. x < EndOf(list[i]) /\ EndOf(list[i]) \in Nat /\ x \in Nat
        BY <1>1, <3>1
      <4>2. ~(EndOf(list[i]) <= ack)
        BY <2>4, <4>1
      <4> QED BY <1>1, <1>3, <1>4, <4>2
    <3> DEFINE k == i - n
    <3>3. k \in 1 .. M /\ n + k = i
      BY <1>1, <1>3, <3>2
    <3> HIDE DEF k
    <3>4. L[k] = list[n + k] /\ list[n + k]["sacked"]
      <4>1. ack <= list[n + k].seq
        BY <2>4, <3>1, <3>3, <1>1
      <4> QED BY <1>8, <3>1, <3>3, <4>1
    <3> QED BY <1>9, <3>1, <3>3, <3>4 DEF Starts, With
  <2> QED BY <2>3, <2>4
<1>17. \A k \in DOMAIN L : \E i \in DOMAIN list :
          L[k].len <= list[i].len /\ \A flag \in Flags : L[k][flag] = list[i][flag]
  BY <1>7, <1>8, <1>9
<1>18. L = <<>> <=> EndOf(list[Len(list)]) <= ack
  <2>1. EndOf(list[N]) <= ack <=> N <= n
    BY <1>1, <1>2, <1>4
  <2> QED BY <1>1, <1>3, <1>13, <2>1
<1>19. L # <<>> => /\ EndOf(L[Len(L)]) = EndOf(list[Len(list)])
                   /\ EndOf(list[1]) <= EndOf(L[1])
  <2> SUFFICES ASSUME M >= 1
               PROVE  EndOf(L[Len(L)]) = EndOf(list[Len(list)]) /\ EndOf(list[1]) <= EndOf(L[1])
    BY <1>13
  <2>1. M \in 1 .. M /\ n + M = N /\ 1 \in 1 .. M
    BY <1>1, <1>3, <1>5
  <2>2. EndOf(L[Len(L)]) = EndOf(list[Len(list)])
    <3>1. EndOf(L[M]) = EndOf(list[n + M])
      BY <1>8, <2>1
    <3> QED BY <1>9, <2>1, <3>1
  <2>3. EndOf(L[1]) = EndOf(list[n + 1]) /\ n + 1 \in DOMAIN list
    BY <1>7, <1>8, <2>1
  <2>4. EndOf(list[1]) <= EndOf(list[n + 1])
    <3>1. 1 \in DOMAIN list /\ EndOf(list[1]) \in Nat /\ EndOf(list[n + 1]) \in Nat
          /\ list[n + 1].seq < EndOf(list[n + 1]) /\ list[n + 1].seq \in Nat
      BY <1>1, <1>2, <2>3
    <3>2. n = 0 \/ 1 < n + 1
      BY <1>3
    <3>3. 1 < n + 1 => EndOf(list[1]) <= list[n + 1].seq
      BY <1>1, <2>3, <3>1 DEF Spans
    <3>4. n = 0 => list[n + 1] = list[1]
      OBVIOUS
    <3> QED BY <3>1, <3>2, <3>3, <3>4
  <2> QED BY <2>2, <2>3, <2>4
<1>20. \A flag \in Flags : Marked(L, flag) = {b \in Marked(list, flag) : b >= ack}
  BY <1>15
<1>21. Trimmed(list, L, ack)
  BY <1>9, <1>11, <1>14, <1>16, <1>17, <1>18, <1>19, <1>20 DEF Trimmed
<1> QED BY <1>21 DEF L

LEMMA LeftOver ==
    ASSUME NEW S, IsFiniteSet(S), S \subseteq Int, NEW ack \in Nat
    PROVE  /\ Cardinality(S) - Cardinality({b \in S : b < ack}) = Cardinality(From(S, ack))
           /\ Cardinality(From(S, ack)) \in Nat
<1> DEFINE A == {b \in S : b < ack}
           B == From(S, ack)
<1>1. S = A \union B /\ A \intersect B = {} /\ A \subseteq S /\ B \subseteq S
  <2>1. \A b \in S : (b < ack \/ b >= ack) /\ ~(b < ack /\ b >= ack)
    <3> SUFFICES ASSUME NEW b \in S PROVE (b < ack \/ b >= ack) /\ ~(b < ack /\ b >= ack)
      OBVIOUS
    <3>1. b \in Int
      OBVIOUS
    <3> QED BY <3>1
  <2>2. \A b : b \in S => b \in A \union B
    BY <2>1 DEF From
  <2>3. A \subseteq S /\ B \subseteq S
    BY DEF From
  <2>4. A \intersect B = {}
    BY <2>1 DEF From
  <2> QED BY <2>2, <2>3, <2>4
<1>2. IsFiniteSet(A) /\ IsFiniteSet(B)
  BY <1>1, FS_Subset
<1> HIDE DEF A, B
<1>3. /\ Cardinality(S) = Cardinality(A) + Cardinality(B)
      /\ Cardinality(A) \in Nat /\ Cardinality(B) \in Nat
  BY <1>1, <1>2, SizeOfBoth
<1>4. Cardinality(S) - Cardinality(A) = Cardinality(B)
  BY <1>3
<1> QED BY <1>3, <1>4 DEF A, B

LEMMA GoneIs ==
    ASSUME NEW tx, TxOk(tx), NEW ack \in Nat, NEW flag \in Flags
    PROVE  /\ Cardinality(Marked(tx.sent, flag)) - Flagged(Gone(tx.sent, ack), flag)
                = Cardinality(From(Marked(tx.sent, flag), ack))
           /\ Cardinality(From(Marked(tx.sent, flag), ack)) \in Nat
<1> DEFINE list == tx.sent
           G == Gone(list, ack)
           S == Marked(list, flag)
<1>1. /\ DOMAIN list = 1 .. Len(list) /\ Len(list) \in Nat /\ Spans(list)
      /\ \A i \in DOMAIN list : list[i] \in Item
  BY TxExtent DEF TxOk
<1>2. S \subseteq Out(tx) /\ IsFiniteSet(Out(tx)) /\ tx.first \in Nat /\ HighData(tx) \in Nat
  BY TxExtent DEF TxOk
<1> HIDE DEF list
<1>3. DOMAIN G = DOMAIN list /\ \A i \in DOMAIN list : G[i] = Below(list[i], ack)
  BY DEF Gone
<1> HIDE DEF G
<1>4. \A i \in DOMAIN list :
         /\ G[i].seq = list[i].seq /\ G[i].len \in Nat /\ EndOf(G[i]) <= EndOf(list[i])
         /\ EndOf(G[i]) \in Nat /\ EndOf(list[i]) \in Nat
         /\ SentBytes(G[i]) = {b \in SentBytes(list[i]) : b < ack}
         /\ G[i][flag] = list[i][flag]
  <2> SUFFICES ASSUME NEW i \in DOMAIN list
               PROVE  /\ G[i].seq = list[i].seq /\ G[i].len \in Nat /\ EndOf(G[i]) <= EndOf(list[i])
                      /\ EndOf(G[i]) \in Nat /\ EndOf(list[i]) \in Nat
                      /\ SentBytes(G[i]) = {b \in SentBytes(list[i]) : b < ack}
                      /\ G[i][flag] = list[i][flag]
    OBVIOUS
  <2> DEFINE x == list[i]
  <2>1. x \in Item /\ G[i] = Below(x, ack)
    BY <1>1, <1>3
  <2> HIDE DEF x
  <2>2. /\ Below(x, ack).seq = x.seq /\ Below(x, ack).len \in Nat
        /\ EndOf(Below(x, ack)) <= EndOf(x) /\ EndOf(Below(x, ack)) \in Nat
        /\ SentBytes(Below(x, ack)) = {b \in SentBytes(x) : b < ack}
        /\ \A f \in Flags : Below(x, ack)[f] = x[f]
    BY <2>1, PartsAre
  <2>3. EndOf(x) \in Nat
    BY <2>1, ItemIs
  <2> QED BY <2>1, <2>2, <2>3 DEF x
<1>5. Spans(G)
  <2>1. \A i, j \in DOMAIN list : i < j => EndOf(G[i]) <= G[j].seq
    <3> SUFFICES ASSUME NEW i \in DOMAIN list, NEW j \in DOMAIN list, i < j
                 PROVE  EndOf(G[i]) <= G[j].seq
      OBVIOUS
    <3>1. EndOf(list[i]) <= list[j].seq /\ list[j].seq \in Nat
      BY <1>1 DEF Spans
    <3> QED BY <1>4, <3>1
  <2> QED BY <1>1, <1>3, <1>4, <2>1 DEF Spans
<1>6. Marked(G, flag) = {b \in S : b < ack}
  <2>1. With(G, flag) = With(list, flag)
    BY <1>3, <1>4 DEF With
  <2> QED BY <1>4, <2>1 DEF Marked, BytesAt, With
<1>7. Flagged(G, flag) = Cardinality(Marked(G, flag))
  BY <1>5, FlaggedIs
<1>8. IsFiniteSet(S) /\ S \subseteq Int
  <2>1. Out(tx) \subseteq Int
    BY <1>2 DEF Out
  <2> QED BY <1>2, <2>1, FS_Subset
<1> HIDE DEF S
<1>9. /\ Cardinality(S) - Cardinality({b \in S : b < ack}) = Cardinality(From(S, ack))
      /\ Cardinality(From(S, ack)) \in Nat
  BY <1>8, LeftOver
<1> QED BY <1>6, <1>7, <1>9 DEF S, G, list

\* Everything below ack is let go of.
LEMMA RemovedIs ==
    ASSUME NEW tx, TxOk(tx), NEW ack \in Nat, tx.first < ack, ack <= HighData(tx)
    PROVE  LET t == RemoveUpTo(tx, ack)
           IN  /\ TxOk(t) /\ t.first = ack /\ HighData(t) = HighData(tx)
               /\ t.app = tx.app /\ t.high = tx.high
               /\ Sacked(t) = From(Sacked(tx), ack) /\ Lost(t) = From(Lost(tx), ack)
               /\ Resent(t) = From(Resent(tx), ack)
               /\ ack \notin Sacked(tx) => Starts(t.sent) = From(Starts(tx.sent), ack)
               /\ t.sent # <<>> => HeadEnd(tx) <= HeadEnd(t)
<1> DEFINE list == tx.sent
           t == RemoveUpTo(tx, ack)
           L == Kept(list, ack)
           G == Gone(list, ack)
           p == tx.sackedOut - Flagged(G, "sacked")
           q == tx.lostOut - Flagged(G, "lost")
           c == tx.retransOut - Flagged(G, "retrans")
<1>1. /\ tx \in Buffers /\ list \in Seq(Item) /\ Chained(list)
      /\ tx.app \in Nat /\ tx.high \in Nat
      /\ HighData(tx) \in Nat /\ tx.first \in Nat /\ tx.first >= 1
      /\ IF list = <<>> THEN HighData(tx) = tx.first ELSE tx.first < HighData(tx)
  BY TxExtent DEF TxOk, Buffers
<1>2. list # <<>>
  BY <1>1
<1>3. list[1].seq = tx.first
  BY <1>2 DEF TxOk
<1>4. HighData(tx) = EndOf(list[Len(list)])
  BY <1>2 DEF HighData, Last
<1>5. t = [tx EXCEPT !.first = ack, !.sent = L, !.sackedOut = p, !.lostOut = q,
                     !.retransOut = c]
  BY DEF RemoveUpTo, Kept, Gone
<1> HIDE DEF L, list
<1>6. Trimmed(list, L, ack)
  BY <1>1, <1>2, <1>3, KeptIs DEF L
<1>7. "sacked" \in Flags /\ "lost" \in Flags /\ "retrans" \in Flags
  BY DEF Flags
<1>8. /\ Marked(L, "sacked") = From(Sacked(tx), ack) /\ Marked(L, "lost") = From(Lost(tx), ack)
      /\ Marked(L, "retrans") = From(Resent(tx), ack)
  BY <1>6, <1>7 DEF Trimmed, Sacked, Lost, Resent, From, list
<1>9. /\ p = Cardinality(Marked(L, "sacked")) /\ p \in Nat
      /\ q = Cardinality(Marked(L, "lost")) /\ q \in Nat
      /\ c = Cardinality(Marked(L, "retrans")) /\ c \in Nat
  <2>1. /\ tx.sackedOut = Cardinality(Marked(list, "sacked"))
        /\ tx.lostOut = Cardinality(Marked(list, "lost"))
        /\ tx.retransOut = Cardinality(Marked(list, "retrans"))
    BY DEF TxOk, list
  <2>2. \A flag \in Flags :
           /\ Cardinality(Marked(list, flag)) - Flagged(G, flag)
                = Cardinality(From(Marked(list, flag), ack))
           /\ Cardinality(From(Marked(list, flag), ack)) \in Nat
    BY GoneIs DEF list
  <2>3. \A flag \in Flags : Marked(L, flag) = From(Marked(list, flag), ack)
    BY <1>6 DEF Trimmed, From
  <2> HIDE DEF G
  <2> QED BY <1>7, <2>1, <2>2, <2>3
<1> HIDE DEF p, q, c, t
<1>10. L \in Seq(Item) /\ Chained(L) /\ (L # <<>> => L[1].seq = ack)
  BY <1>6 DEF Trimmed
<1>11. t = [first |-> ack, sent |-> L, app |-> tx.app, sackedOut |-> p,
            lostOut |-> q, retransOut |-> c, high |-> tx.high]
  BY <1>1, <1>5 DEF Buffers
<1>12. ack \in Nat \ {0}
  BY <1>1
<1>13. /\ t \in Buffers /\ t.first = ack /\ t.sent = L /\ t.app = tx.app /\ t.high = tx.high
       /\ t.sackedOut = p /\ t.lostOut = q /\ t.retransOut = c
  BY <1>1, <1>9, <1>10, <1>11, <1>12 DEF Buffers
<1>14. \A k \in DOMAIN L : L[k].len <= SegmentSize /\ ~(L[k].lost /\ L[k].sacked)
  <2> SUFFICES ASSUME NEW k \in DOMAIN L
               PROVE  L[k].len <= SegmentSize /\ ~(L[k].lost /\ L[k].sacked)
    OBVIOUS
  <2>1. PICK i \in DOMAIN list :
           L[k].len <= list[i].len /\ \A flag \in Flags : L[k][flag] = list[i][flag]
    BY <1>6 DEF Trimmed
  <2>2. list[i].len <= SegmentSize /\ ~(list[i].lost /\ list[i].sacked)
    BY DEF TxOk, list
  <2>3. L[k]["lost"] = list[i]["lost"] /\ L[k]["sacked"] = list[i]["sacked"]
    BY <1>7, <2>1
  <2>4. L[k].len \in Nat /\ list[i].len \in Nat /\ SegmentSize \in Nat
    <3>1. L[k] \in Item /\ list[i] \in Item
      BY <1>1, <1>10, ElementOfSeq
    <3> QED BY <3>1, ItemIs, TxBufferAssumption
  <2> QED BY <2>1, <2>2, <2>3, <2>4
<1>15. TxOk(t)
  BY <1>9, <1>10, <1>13, <1>14 DEF TxOk
<1>16. HighData(t) = HighData(tx)
  <2>1. CASE L = <<>>
    <3>1. EndOf(list[Len(list)]) <= ack
      BY <1>6, <2>1 DEF Trimmed
    <3>2. ack = HighData(tx)
      BY <1>1, <1>4, <3>1
    <3> QED BY <1>13, <2>1, <3>2 DEF HighData
  <2>2. CASE L # <<>>
    <3>1. EndOf(L[Len(L)]) = EndOf(list[Len(list)])
      BY <1>6, <2>2 DEF Trimmed
    <3>2. HighData(t) = EndOf(L[Len(L)])
      BY <1>13, <2>2 DEF HighData, Last
    <3> QED BY <1>4, <3>1, <3>2
  <2> QED BY <2>1, <2>2
<1>17. /\ Sacked(t) = From(Sacked(tx), ack) /\ Lost(t) = From(Lost(tx), ack)
       /\ Resent(t) = From(Resent(tx), ack)
  BY <1>8, <1>13 DEF Sacked, Lost, Resent
<1>18. ack \notin Sacked(tx) => Starts(t.sent) = From(Starts(tx.sent), ack)
  BY <1>6, <1>13 DEF Trimmed, Sacked, From, list
<1>19. t.sent # <<>> => HeadEnd(tx) <= HeadEnd(t)
  BY <1>6, <1>13 DEF Trimmed, HeadEnd, list
<1> QED BY <1>13, <1>15, <1>16, <1>17, <1>18, <1>19 DEF t

LEMMA ForgetIs ==
    ASSUME NEW tx, TxOk(tx)
    PROVE  LET t == ForgetHigh(tx)
           IN  /\ TxOk(t) /\ t.sent = tx.sent /\ t.first = tx.first /\ t.app = tx.app
               /\ t.high = IF tx.high <= tx.first THEN 0 ELSE tx.high
<1> DEFINE t == ForgetHigh(tx)
           h == IF tx.high <= tx.first THEN 0 ELSE tx.high
<1>1. tx \in Buffers
  BY DEF TxOk
<1>2. h \in Nat
  BY <1>1 DEF Buffers
<1>3. t = [tx EXCEPT !.high = h]
  BY DEF ForgetHigh
<1> HIDE DEF t, h
<1>4. /\ t \in Buffers /\ t.sent = tx.sent /\ t.first = tx.first /\ t.app = tx.app
      /\ t.sackedOut = tx.sackedOut /\ t.lostOut = tx.lostOut
      /\ t.retransOut = tx.retransOut /\ t.high = h
  BY <1>1, <1>2, <1>3 DEF Buffers
<1>5. TxOk(t)
  BY <1>4 DEF TxOk
<1> QED BY <1>4, <1>5 DEF t, h

LEMMA FromAll ==
    ASSUME NEW tx, TxOk(tx)
    PROVE  /\ From(Sacked(tx), tx.first) = Sacked(tx)
           /\ From(Lost(tx), tx.first) = Lost(tx)
           /\ From(Resent(tx), tx.first) = Resent(tx)
<1>1. Sacked(tx) \subseteq Out(tx) /\ Lost(tx) \subseteq Out(tx) /\ Resent(tx) \subseteq Out(tx)
  BY TxIs
<1>2. \A b \in Out(tx) : b >= tx.first
  BY TxExtent DEF Out, TxOk
<1> QED BY <1>1, <1>2 DEF From

LEMMA HeadReflexive ==
    ASSUME NEW tx, TxOk(tx), NEW t, t.sent = tx.sent
    PROVE  t.sent # <<>> => HeadEnd(tx) <= HeadEnd(t)
<1> SUFFICES ASSUME t.sent # <<>> PROVE HeadEnd(tx) <= HeadEnd(t)
  OBVIOUS
<1>1. HeadEnd(tx) \in Nat /\ HeadEnd(t) = HeadEnd(tx)
  BY HeadIs DEF HeadEnd
<1> QED BY <1>1

LEMMA StartsIn ==
    ASSUME NEW tx, TxOk(tx)
    PROVE  Starts(tx.sent) \subseteq Sacked(tx)
<1> SUFFICES ASSUME NEW i \in With(tx.sent, "sacked") PROVE tx.sent[i].seq \in Sacked(tx)
  BY DEF Starts
<1>1. i \in DOMAIN tx.sent
  BY DEF With
<1>2. tx.sent[i] \in Item
  BY <1>1, TxExtent DEF TxOk
<1>3. tx.sent[i].seq \in SentBytes(tx.sent[i])
  BY <1>2, ItemIs DEF SentBytes
<1> QED BY <1>3 DEF Sacked, Marked, BytesAt

LEMMA DiscardIs ==
    ASSUME NEW tx, TxOk(tx), NEW ack \in Nat, tx.first <= ack, ack <= HighData(tx),
           ack \notin Sacked(tx)
    PROVE  LET t == DiscardUpTo(tx, ack)
           IN  /\ Discards(tx, t, ack)
               /\ Sacked(t) = From(Sacked(tx), ack) /\ Lost(t) = From(Lost(tx), ack)
               /\ Resent(t) = From(Resent(tx), ack)
               /\ \A x \in Starts(tx.sent) : x > ack => x \in Starts(t.sent)
               /\ (tx.high = 0 \/ tx.high \in Starts(tx.sent))
                     => (t.high = 0 \/ t.high \in Starts(t.sent))
<1> DEFINE t == DiscardUpTo(tx, ack)
           u == RemoveUpTo(tx, ack)
<1>1. tx.first \in Nat /\ HighData(tx) \in Nat
  BY TxExtent DEF TxOk
<1>2. CASE ack = tx.first
  <2>1. t = tx
    BY <1>1, <1>2 DEF DiscardUpTo
  <2> HIDE DEF t
  <2>2. Discards(tx, t, ack)
    BY <1>2, <2>1, HeadReflexive DEF Discards
  <2> QED BY <1>2, <2>1, <2>2, FromAll DEF t
<1>3. CASE ack # tx.first
  <2>1. tx.first < ack /\ ~(ack <= tx.first)
    BY <1>1, <1>3
  <2>2. t = ForgetHigh(MoveRenoSack(u))
    BY <2>1 DEF DiscardUpTo
  <2> HIDE DEF u, t
  <2>3. /\ TxOk(u) /\ u.first = ack /\ HighData(u) = HighData(tx)
        /\ u.app = tx.app /\ u.high = tx.high
        /\ Sacked(u) = From(Sacked(tx), ack) /\ Lost(u) = From(Lost(tx), ack)
        /\ Resent(u) = From(Resent(tx), ack)
        /\ u.sent # <<>> => HeadEnd(tx) <= HeadEnd(u)
    BY <2>1, RemovedIs DEF u
  <2>4. Starts(u.sent) = From(Starts(tx.sent), ack)
    BY <2>1, RemovedIs DEF u
  <2>5. ack \notin Sacked(u)
    BY <2>3 DEF From
  <2>6. MoveRenoSack(u) = u
    <3>1. u.sent # <<>> => ~u.sent[1].sacked
      BY <2>3, <2>5, HeadIs
    <3> QED BY <3>1 DEF MoveRenoSack
  <2>7. /\ TxOk(t) /\ t.sent = u.sent /\ t.first = u.first /\ t.app = u.app
        /\ t.high = IF u.high <= u.first THEN 0 ELSE u.high
    BY <2>2, <2>3, <2>6, ForgetIs
  <2>8. /\ Sacked(t) = Sacked(u) /\ Lost(t) = Lost(u) /\ Resent(t) = Resent(u)
        /\ HighData(t) = HighData(u) /\ HeadEnd(t) = HeadEnd(u)
    BY <2>7 DEF Sacked, Lost, Resent, HighData, HeadEnd
  <2>9. Discards(tx, t, ack)
    BY <2>3, <2>5, <2>7, <2>8 DEF Discards
  <2>10. \A x \in Starts(tx.sent) : x > ack => x \in Starts(t.sent)
    <3>1. \A x \in Starts(tx.sent) : x \in Int
      <4>1. \A i \in With(tx.sent, "sacked") : tx.sent[i].seq \in Int
        BY TxExtent, ItemIs DEF TxOk, With
      <4> QED BY <4>1 DEF Starts
    <3> QED BY <2>4, <2>7, <3>1 DEF From
  <2>11. (tx.high = 0 \/ tx.high \in Starts(tx.sent)) => (t.high = 0 \/ t.high \in Starts(t.sent))
    <3> SUFFICES ASSUME tx.high \in Starts(tx.sent), ~(tx.high <= ack)
                 PROVE  tx.high \in Starts(t.sent)
      BY <2>3, <2>7
    <3>1. tx.high \in Nat
      BY DEF TxOk, Buffers
    <3> QED BY <2>10, <3>1
  <2> QED BY <2>3, <2>8, <2>9, <2>10, <2>11 DEF t
<1> QED BY <1>2, <1>3

\* Without SACK, and nothing lost but the head.
LEMMA DiscardReno ==
    ASSUME NEW tx, TxOk(tx), NEW ack \in Nat, tx.first <= ack, ack <= HighData(tx),
           tx.first \notin Sacked(tx), \A b \in Lost(tx) : b < HeadEnd(tx)
    PROVE  LET t == DiscardUpTo(tx, ack)
           IN  Discards(tx, t, ack) /\ \A b \in Lost(t) : b < HeadEnd(t)
<1> DEFINE t == DiscardUpTo(tx, ack)
           u == RemoveUpTo(tx, ack)
           a == u.sent[1]
           x == [a EXCEPT !.sacked = FALSE]
           v == MarkItem(u, 1, x, u.high)
           w == AddRenoSack(v)
           z == MarkHeadAsLost(w)
<1>1. tx.first \in Nat /\ HighData(tx) \in Nat
  BY TxExtent DEF TxOk
<1>2. CASE ack = tx.first
  <2>1. t = tx
    BY <1>1, <1>2 DEF DiscardUpTo
  <2> HIDE DEF t
  <2>2. Discards(tx, t, ack)
    BY <1>2, <2>1, HeadReflexive DEF Discards
  <2> QED BY <2>1, <2>2 DEF t
<1>3. CASE ack # tx.first
  <2>1. tx.first < ack /\ ~(ack <= tx.first)
    BY <1>1, <1>3
  <2>2. t = ForgetHigh(MoveRenoSack(u))
    BY <2>1 DEF DiscardUpTo
  <2> HIDE DEF u, t
  <2>3. /\ TxOk(u) /\ u.first = ack /\ HighData(u) = HighData(tx)
        /\ u.app = tx.app
        /\ Sacked(u) = From(Sacked(tx), ack) /\ Lost(u) = From(Lost(tx), ack)
        /\ u.sent # <<>> => HeadEnd(tx) <= HeadEnd(u)
    BY <2>1, RemovedIs DEF u
  <2>4. \A b \in Lost(u) : b < HeadEnd(u)
    <3> SUFFICES ASSUME NEW b \in Lost(u) PROVE b < HeadEnd(u)
      OBVIOUS
    <3>1. b \in Lost(tx) /\ b < HeadEnd(tx) /\ b \in Out(u) /\ b \in Out(tx)
      <4>1. b \in Lost(tx)
        BY <2>3 DEF From
      <4>2. Lost(u) \subseteq Out(u) /\ Lost(tx) \subseteq Out(tx)
        BY <2>3, TxIs
      <4> QED BY <4>1, <4>2
    <3>2. u.sent # <<>> /\ tx.sent # <<>>
      <4>1. \A q : TxOk(q) /\ q.sent = <<>> => HighData(q) = q.first /\ q.first \in Nat
        BY TxExtent DEF TxOk
      <4>2. \A q : TxOk(q) /\ q.sent = <<>> => Out(q) = {}
        BY <4>1 DEF Out
      <4> QED BY <2>3, <3>1, <4>2
    <3>3. HeadEnd(u) \in Nat /\ HeadEnd(tx) \in Nat /\ b \in Int
      BY <2>3, <3>1, <3>2, HeadIs DEF Out
    <3> QED BY <2>3, <3>1, <3>2, <3>3
  \* What follows from a buffer that is what is forgotten about.
  <2>5. ASSUME NEW y, t = ForgetHigh(y), TxOk(y), SameExtent(u, y),
               ack \notin Sacked(y), \A b \in Lost(y) : b < HeadEnd(y)
        PROVE  Discards(tx, t, ack) /\ \A b \in Lost(t) : b < HeadEnd(t)
    <3>1. TxOk(t) /\ t.sent = y.sent /\ t.first = y.first /\ t.app = y.app
      BY <2>5, ForgetIs
    <3>2. /\ Sacked(t) = Sacked(y) /\ Lost(t) = Lost(y)
          /\ HighData(t) = HighData(y) /\ HeadEnd(t) = HeadEnd(y)
      BY <3>1 DEF Sacked, Lost, HighData, HeadEnd
    <3>3. /\ y.first = u.first /\ y.app = u.app /\ HighData(y) = HighData(u)
          /\ (y.sent = <<>> <=> u.sent = <<>>)
      BY <2>5 DEF SameExtent
    <3>4. t.sent # <<>> => HeadEnd(tx) <= HeadEnd(t)
      <4>1. u.sent # <<>> => HeadEnd(y) = HeadEnd(u)
        BY <2>3, <2>5, SameHead
      <4> QED BY <2>3, <3>1, <3>2, <3>3, <4>1
    <3>5. Discards(tx, t, ack)
      BY <2>3, <2>5, <3>1, <3>2, <3>3, <3>4 DEF Discards
    <3> QED BY <2>5, <3>2, <3>5
  <2>6. CASE u.sent # <<>> /\ a.sacked
    <3>1. /\ 1 \in DOMAIN u.sent /\ a \in Item /\ a.seq = ack /\ SentBytes(a) = HeadBytes(u)
          /\ ack \in HeadBytes(u)
      BY <2>3, <2>6, HeadIs
    <3>2. a.sacked = TRUE /\ a.len \in Nat /\ a.lost \in BOOLEAN /\ a.retrans \in BOOLEAN
          /\ a.lost = FALSE
      <4>1. a.sacked \in BOOLEAN /\ a.len \in Nat /\ a.lost \in BOOLEAN /\ a.retrans \in BOOLEAN
        BY <3>1, ItemIs
      <4>2. ~(a.lost /\ a.sacked)
        BY <2>3, <3>1 DEF TxOk
      <4> QED BY <2>6, <4>1, <4>2
    <3>3. MoveRenoSack(u) = MarkHeadAsLost(AddRenoSack(
             [u EXCEPT !.sent[1].sacked = FALSE, !.sackedOut = @ - a.len]))
      BY <2>6 DEF MoveRenoSack
    <3>4. [u EXCEPT !.sent[1].sacked = FALSE, !.sackedOut = @ - a.len]
            = [u EXCEPT !.sent = [u.sent EXCEPT ![1] = x], !.sackedOut = @ - a.len]
      OBVIOUS
    <3> HIDE DEF a
    <3>5. /\ x \in Item /\ x.seq = a.seq /\ x.len = a.len /\ x.sacked = FALSE
          /\ x.lost = a.lost /\ x.retrans = a.retrans
      BY <3>1 DEF Item
    <3>6. SentBytes(x) = HeadBytes(u)
      BY <3>1, <3>5 DEF SentBytes, EndOf
    <3> HIDE DEF x
    <3>7. u \in Buffers /\ u.high \in Nat
      BY <2>3 DEF TxOk, Buffers
    <3>8. v = [u EXCEPT !.sent = [u.sent EXCEPT ![1] = x], !.sackedOut = @ - a.len]
      <4> DEFINE p == Counted(u.sackedOut, x.sacked, a.sacked, x.len)
                 q == Counted(u.lostOut, x.lost, a.lost, x.len)
                 c == Counted(u.retransOut, x.retrans, a.retrans, x.len)
                 L == [u.sent EXCEPT ![1] = x]
      <4>1. p = u.sackedOut - a.len /\ q = u.lostOut /\ c = u.retransOut
        BY <3>2, <3>5 DEF Counted
      <4>2. v = [first |-> u.first, sent |-> L, app |-> u.app, sackedOut |-> p,
                 lostOut |-> q, retransOut |-> c, high |-> u.high]
        BY DEF MarkItem, a
      <4> HIDE DEF p, q, c, L, v
      <4>3. [u EXCEPT !.sent = L, !.sackedOut = p]
              = [first |-> u.first, sent |-> L, app |-> u.app, sackedOut |-> p,
                 lostOut |-> u.lostOut, retransOut |-> u.retransOut, high |-> u.high]
        <5> HIDE DEF u
        <5> DEFINE y == [u EXCEPT !.sent = L, !.sackedOut = p]
        <5>1. y = [u EXCEPT !.sent = L, !.sackedOut = p]
          OBVIOUS
        <5> HIDE DEF y
        <5>2. y = [first |-> u.first, sent |-> L, app |-> u.app, sackedOut |-> p,
                   lostOut |-> u.lostOut, retransOut |-> u.retransOut, high |-> u.high]
          BY <3>7, <5>1 DEF Buffers
        <5> QED BY <5>1, <5>2
      <4>4. v = [u EXCEPT !.sent = L, !.sackedOut = p]
        BY <4>1, <4>2, <4>3
      <4> QED BY <4>1, <4>4 DEF L
    <3>9. x.seq = u.sent[1].seq /\ x.len = u.sent[1].len /\ ~(x.lost /\ x.sacked)
      BY <3>5 DEF a
    <3>10. TxOk(v) /\ SameExtent(u, v)
      BY <2>3, <3>1, <3>5, <3>7, <3>9, MarkItemIs
    <3>11. /\ Sacked(v) = MarkedNow(Sacked(u), x.sacked, x)
           /\ Lost(v) = MarkedNow(Lost(u), x.lost, x)
      BY <2>3, <3>1, <3>5, <3>7, <3>9, MarkItemIs
    <3> HIDE DEF v, w, z
    <3>12. ack \notin Sacked(v)
      BY <3>1, <3>5, <3>6, <3>11 DEF MarkedNow
    <3>13. Lost(v) \subseteq Lost(u)
      BY <3>2, <3>5, <3>11 DEF MarkedNow
    <3>14. HeadEnd(v) = HeadEnd(u) /\ HeadBytes(v) = HeadBytes(u) /\ v.sent # <<>>
      BY <2>3, <2>6, <3>10, SameHead
    <3>15. v.first = ack
      BY <2>3, <3>10 DEF SameExtent
    <3>16. \A b \in Lost(v) : b < HeadEnd(v)
      BY <2>4, <3>13, <3>14
    <3>17. TxOk(w) /\ SameExtent(v, w) /\ Lost(w) = Lost(v) /\ ack \notin Sacked(w)
      <4>1. TxOk(w) /\ SameExtent(v, w) /\ Lost(w) = Lost(v)
            /\ (v.first \in Sacked(w) => v.first \in Sacked(v))
        BY <3>10, <3>16, RenoIs DEF w
      <4> QED BY <3>12, <3>15, <4>1
    <3>18. w.first = ack /\ w.sent # <<>> /\ HeadEnd(w) = HeadEnd(v) /\ HeadBytes(w) = HeadBytes(v)
      <4>1. w.first = ack
        BY <3>15, <3>17 DEF SameExtent
      <4>2. HeadEnd(w) = HeadEnd(v) /\ HeadBytes(w) = HeadBytes(v) /\ w.sent # <<>>
        BY <3>10, <3>14, <3>17, SameHead
      <4> QED BY <4>1, <4>2
    <3>19. /\ TxOk(z) /\ SameExtent(w, z) /\ Sacked(z) = Sacked(w)
           /\ Lost(z) = Lost(w) \union HeadBytes(w)
      BY <3>17, <3>18, HeadLost DEF z
    <3>20. HeadEnd(z) = HeadEnd(w)
      BY <3>17, <3>18, <3>19, SameHead
    <3>21. \A b \in Lost(z) : b < HeadEnd(z)
      <4>1. \A b \in HeadBytes(w) : b < HeadEnd(w)
        <5>1. HeadEnd(w) \in Nat /\ w.first \in Nat
          BY <3>17, <3>18, HeadIs
        <5> QED BY <5>1 DEF HeadBytes
      <4> QED BY <3>16, <3>17, <3>18, <3>19, <3>20, <4>1
    <3>22. SameExtent(u, z)
      <4>1. SameExtent(u, w)
        BY <3>10, <3>17 DEF SameExtent
      <4> QED BY <3>19, <4>1 DEF SameExtent
    <3>23. t = ForgetHigh(z)
      <4>1. z = MarkHeadAsLost(AddRenoSack(v))
        BY DEF z, w
      <4> QED BY <2>2, <3>3, <3>4, <3>8, <4>1
    <3>24. Discards(tx, t, ack) /\ \A b \in Lost(t) : b < HeadEnd(t)
      BY <2>5, <3>17, <3>19, <3>21, <3>22, <3>23
    <3> QED BY <3>24 DEF t
  <2>7. CASE ~(u.sent # <<>> /\ a.sacked)
    <3>1. t = ForgetHigh(u)
      BY <2>2, <2>7 DEF MoveRenoSack
    <3>2. ack \notin Sacked(u)
      <4>1. CASE u.sent = <<>>
        BY <4>1 DEF Sacked, Marked, BytesAt, With
      <4>2. CASE u.sent # <<>>
        BY <2>3, <2>7, <4>2, HeadIs
      <4> QED BY <4>1, <4>2
    <3>3. Discards(tx, t, ack) /\ \A b \in Lost(t) : b < HeadEnd(t)
      BY <2>3, <2>4, <2>5, <3>1, <3>2, SameSelf
    <3> QED BY <3>3 DEF t
  <2> QED BY <2>6, <2>7
<1> QED BY <1>2, <1>3

-----------------------------------------------------------------------------
(***************************************************************************)
(* The scoreboard.                                                         *)
(***************************************************************************)
LEMMA MaxIs ==
    ASSUME NEW n \in Nat, NEW T \in SUBSET (1 .. n), T # {}
    PROVE  Max(T) \in T
<1> DEFINE D == {n - x : x \in T}
<1>1. D \subseteq Nat /\ D # {}
  <2>1. ASSUME NEW x \in T PROVE n - x \in Nat
    <3>1. x \in 1 .. n
      OBVIOUS
    <3> QED BY <3>1
  <2>2. PICK x \in T : TRUE
    OBVIOUS
  <2> QED BY <2>1, <2>2
<1>2. PICK d \in D : \A y \in D : d <= y
  <2> HIDE DEF D
  <2> QED BY <1>1, LeastExists
<1>3. PICK x \in T : d = n - x
  BY <1>2
<1>4. \A y \in T : x >= y
  <2> SUFFICES ASSUME NEW y \in T PROVE x >= y
    OBVIOUS
  <2>1. d <= n - y
    BY <1>2
  <2>2. x \in 1 .. n /\ y \in 1 .. n
    OBVIOUS
  <2> QED BY <1>3, <2>1, <2>2
<1> QED BY <1>4 DEF Max

\* What a fold over the places of a sequence computes stays among the values
\* that every step stays among.
Folding(f, F, n, base) ==
    f = [T \in SUBSET (1 .. n) |-> IF T = {} THEN base ELSE F[<<Max(T), f[T \ {Max(T)}]>>]]

LEMMA FoldMax ==
    ASSUME NEW n \in Nat, NEW V, NEW base \in V, NEW F \in [(1 .. n) \X V -> V]
    PROVE  \E f : Folding(f, F, n, base) /\ \A T \in SUBSET (1 .. n) : f[T] \in V
<1> DEFINE S == 1 .. n
           pick == [T \in SUBSET S |-> IF T = {} THEN 0 ELSE Max(T)]
           R == (SUBSET S) \X V
           G == [p \in (SUBSET S) \X V |-> F[<<pick[p[1]], p[2]>>]]
<1>1. \A T \in SUBSET S : T # {} => pick[T] = Max(T) /\ pick[T] \in T
  BY MaxIs
<1>2. Picks(pick, S)
  BY <1>1 DEF Picks
<1>3. IsFiniteSet(S)
  BY FS_Interval
<1> HIDE DEF pick, S
<1>4. \A T \in SUBSET S, v \in V : G[<<T, v>>] = F[<<pick[T], v>>]
  OBVIOUS
<1> HIDE DEF G
<1>5. Relates(G, R, pick, S, V)
  <2>1. ASSUME NEW T \in SUBSET S, NEW v \in V, T # {} PROVE G[<<T, v>>] \in V
    <3>1. pick[T] \in 1 .. n
      BY <1>1, <2>1 DEF S
    <3> QED BY <1>4, <3>1
  <2> QED BY <2>1 DEF Relates
<1>6. PICK f : FoldsOver(f, G, pick, S, base) /\ \A T \in SUBSET S : <<T, f[T]>> \in R
  <2>1. R \subseteq (SUBSET S) \X V /\ <<{}, base>> \in R
    OBVIOUS
  <2> HIDE DEF R
  <2> QED BY <1>2, <1>3, <1>5, <2>1, SetRecursion
<1>7. \A T \in SUBSET S : f[T] \in V
  BY <1>6
<1>8. f = [T \in SUBSET S |-> IF T = {} THEN base ELSE G[<<T, f[T \ {pick[T]}]>>]]
  BY <1>6 DEF FoldsOver
<1>9. \A T \in SUBSET S : T # {} =>
         G[<<T, f[T \ {pick[T]}]>>] = F[<<Max(T), f[T \ {Max(T)}]>>]
  <2> SUFFICES ASSUME NEW T \in SUBSET S, T # {}
               PROVE  G[<<T, f[T \ {pick[T]}]>>] = F[<<Max(T), f[T \ {Max(T)}]>>]
    OBVIOUS
  <2>1. pick[T] = Max(T) /\ T \ {pick[T]} \in SUBSET S
    BY <1>1
  <2>2. f[T \ {pick[T]}] \in V
    BY <1>7, <2>1
  <2> QED BY <1>4, <2>1, <2>2
<1>10. f = [T \in SUBSET S |-> IF T = {} THEN base ELSE F[<<Max(T), f[T \ {Max(T)}]>>]]
  BY <1>8, <1>9
<1> QED BY <1>7, <1>10 DEF Folding, S

\* An item is SACKed.
LEMMA SackItemIs ==
    ASSUME NEW tx, TxOk(tx), NEW i \in DOMAIN tx.sent, ~tx.sent[i].sacked
    PROVE  LET t == SackItem(tx, i)
               a == tx.sent[i]
           IN  /\ TxOk(t) /\ SameExtent(tx, t) /\ Resent(t) = Resent(tx)
               /\ Sacked(t) = Sacked(tx) \union SentBytes(a)
               /\ Lost(t) = Lost(tx) \ SentBytes(a)
               /\ Starts(t.sent) = Starts(tx.sent) \union {a.seq}
               /\ t.high = IF tx.high = 0 \/ tx.high <= EndOf(a) THEN a.seq ELSE tx.high
               /\ a.seq # 0
<1> DEFINE a == tx.sent[i]
           x == [a EXCEPT !.sacked = TRUE, !.lost = FALSE]
           h == IF tx.high = 0 \/ tx.high <= EndOf(a) THEN a.seq ELSE tx.high
           u == MarkItem(tx, i, x, h)
           t == SackItem(tx, i)
<1>1. tx \in Buffers /\ tx.high \in Nat /\ Spans(tx.sent)
  BY TxExtent DEF TxOk, Buffers
<1>2. a \in Item /\ a.sacked = FALSE /\ a.lost \in BOOLEAN /\ a.retrans \in BOOLEAN
      /\ a.seq \in Nat /\ a.seq # 0
  <2>1. a \in Item
    BY TxExtent DEF TxOk
  <2>2. a.sacked \in BOOLEAN /\ a.lost \in BOOLEAN /\ a.retrans \in BOOLEAN /\ a.seq \in Nat
        /\ a.seq >= 1
    BY <2>1, ItemIs
  <2> QED BY <2>1, <2>2
<1>3. t = [tx EXCEPT !.sent = [tx.sent EXCEPT ![i] = x],
                     !.sackedOut = tx.sackedOut + a.len,
                     !.lostOut = IF a.lost THEN tx.lostOut - a.len ELSE tx.lostOut,
                     !.high = h]
  BY DEF SackItem
<1> HIDE DEF a
<1>4. /\ x \in Item /\ x.seq = a.seq /\ x.len = a.len /\ x.sacked = TRUE /\ x.lost = FALSE
      /\ x.retrans = a.retrans
  BY <1>2 DEF Item
<1>5. h \in Nat
  BY <1>1, <1>2
<1> HIDE DEF x, h, t
<1>6. t = u
  <2> DEFINE p == Counted(tx.sackedOut, x.sacked, a.sacked, x.len)
             q == Counted(tx.lostOut, x.lost, a.lost, x.len)
             c == Counted(tx.retransOut, x.retrans, a.retrans, x.len)
             L == [tx.sent EXCEPT ![i] = x]
  <2>1. p = tx.sackedOut + a.len
    BY <1>2, <1>4 DEF Counted
  <2>2. q = IF a.lost THEN tx.lostOut - a.len ELSE tx.lostOut
    BY <1>2, <1>4 DEF Counted
  <2>3. c = tx.retransOut
    BY <1>2, <1>4 DEF Counted
  <2>4. u = [first |-> tx.first, sent |-> L, app |-> tx.app, sackedOut |-> p,
             lostOut |-> q, retransOut |-> c, high |-> h]
    BY DEF MarkItem, a
  <2> HIDE DEF p, q, c, L, u
  <2>5. t = [tx EXCEPT !.sent = L, !.sackedOut = p, !.lostOut = q, !.high = h]
    BY <1>3, <2>1, <2>2 DEF L
  <2>6. t = [first |-> tx.first, sent |-> L, app |-> tx.app, sackedOut |-> p,
             lostOut |-> q, retransOut |-> tx.retransOut, high |-> h]
    BY <1>1, <2>5 DEF Buffers
  <2> QED BY <2>3, <2>4, <2>6
<1>7. x.seq = tx.sent[i].seq /\ x.len = tx.sent[i].len /\ ~(x.lost /\ x.sacked)
  BY <1>4 DEF a
<1>8. TxOk(u) /\ SameExtent(tx, u) /\ u.high = h
  BY <1>4, <1>5, <1>7, MarkItemIs
<1>9. /\ Sacked(u) = MarkedNow(Sacked(tx), x.sacked, x)
      /\ Lost(u) = MarkedNow(Lost(tx), x.lost, x)
      /\ Resent(u) = MarkedNow(Resent(tx), x.retrans, x)
  BY <1>4, <1>5, <1>7, MarkItemIs
<1>10. u.sent[i] = x /\ \A k \in DOMAIN tx.sent : k # i => u.sent[k] = tx.sent[k]
  BY <1>4, <1>5, <1>7, MarkItemIs
<1> HIDE DEF u
<1>11. SentBytes(x) = SentBytes(a)
  BY <1>4 DEF SentBytes, EndOf
<1>12. Sacked(u) = Sacked(tx) \union SentBytes(a) /\ Lost(u) = Lost(tx) \ SentBytes(a)
  BY <1>4, <1>9, <1>11 DEF MarkedNow
<1>13. Resent(u) = Resent(tx)
  <2>1. tx.sent[i]["retrans"] \in BOOLEAN /\ tx.sent[i]["retrans"] = x.retrans
    BY <1>2, <1>4 DEF a
  <2> QED BY <1>1, <1>7, <1>9, <2>1, NoChange DEF Resent
<1>14. Starts(u.sent) = Starts(tx.sent) \union {a.seq}
  <2>1. With(u.sent, "sacked") = With(tx.sent, "sacked") \union {i}
    <3>1. DOMAIN u.sent = DOMAIN tx.sent
      BY <1>8 DEF SameExtent
    <3> QED BY <1>4, <1>10, <3>1 DEF With
  <2>2. \A k \in DOMAIN tx.sent : u.sent[k].seq = tx.sent[k].seq
    BY <1>8 DEF SameExtent
  <2>3. With(tx.sent, "sacked") \subseteq DOMAIN tx.sent
    BY DEF With
  <2> QED BY <2>1, <2>2, <2>3 DEF Starts, a
<1> QED BY <1>2, <1>6, <1>8, <1>12, <1>13, <1>14 DEF a, h, t

LEMMA SacksOne ==
    ASSUME NEW tx, NEW u, NEW G, Sacks(tx, u, G), NEW i \in DOMAIN u.sent, ~u.sent[i].sacked,
           SentBytes(u.sent[i]) \subseteq G
    PROVE  Sacks(tx, SackItem(u, i), G)
<1> DEFINE a == u.sent[i]
           t == SackItem(u, i)
<1>1. TxOk(u)
  BY DEF Sacks
<1>2. /\ TxOk(t) /\ SameExtent(u, t) /\ Resent(t) = Resent(u)
      /\ Sacked(t) = Sacked(u) \union SentBytes(a)
      /\ Lost(t) = Lost(u) \ SentBytes(a)
      /\ Starts(t.sent) = Starts(u.sent) \union {a.seq}
      /\ t.high = IF u.high = 0 \/ u.high <= EndOf(a) THEN a.seq ELSE u.high
      /\ a.seq # 0
  BY <1>1, SackItemIs
<1> HIDE DEF a, t
<1>3. SameExtent(tx, t)
  BY <1>2 DEF Sacks, SameExtent
<1>4. HighOk(t) /\ t.high # 0
  BY <1>2 DEF Sacks, HighOk
<1>5. SentBytes(a) \subseteq G
  BY DEF a
<1>6. TxOk(t) /\ SameExtent(tx, t) /\ Resent(t) = Resent(tx) /\ HighOk(t) /\ t.high # 0
  BY <1>2, <1>3, <1>4 DEF Sacks
<1>7. /\ Sacked(tx) \subseteq Sacked(t) /\ Sacked(t) \subseteq Sacked(tx) \union G
      /\ Lost(t) \subseteq Lost(tx) /\ Lost(tx) \subseteq Lost(t) \union Sacked(t)
      /\ Starts(tx.sent) \subseteq Starts(t.sent)
  BY <1>2, <1>5 DEF Sacks
<1> QED BY <1>6, <1>7 DEF Sacks, t

\* What every step of a fold keeps, the fold keeps.
LEMMA FoldKeeps ==
    ASSUME NEW n \in Nat, NEW V, NEW f, f[{}] \in V,
           \A T \in SUBSET (1 .. n) : T # {} /\ f[T \ {Max(T)}] \in V => f[T] \in V
    PROVE  f[1 .. n] \in V
<1> DEFINE S == 1 .. n
           pick == [T \in SUBSET S |-> IF T = {} THEN 0 ELSE Max(T)]
           D == {T \in SUBSET S : f[T] \in V}
<1>1. \A T \in SUBSET S : T # {} => pick[T] = Max(T) /\ pick[T] \in T
  BY MaxIs
<1>2. Picks(pick, S)
  BY <1>1 DEF Picks
<1>3. IsFiniteSet(S)
  BY FS_Interval
<1>4. {} \in D
  OBVIOUS
<1>5. ASSUME NEW T \in SUBSET S, T # {}, T \ {pick[T]} \in D PROVE T \in D
  <2>1. pick[T] = Max(T)
    BY <1>1, <1>5
  <2> HIDE DEF pick
  <2>2. f[T \ {Max(T)}] \in V
    BY <1>5, <2>1
  <2> QED BY <1>5, <2>2
<1>6. SUBSET S \subseteq D
  <2> HIDE DEF D, pick, S
  <2> QED BY <1>2, <1>3, <1>4, <1>5, SetInduction
<1> QED BY <1>6

\* One turn of the loop over the items.
SackStep(t, i, block) ==
    IF Mapped(t.sent[i], block) /\ ~t.sent[i].sacked THEN SackItem(t, i) ELSE t

LEMMA StepIs ==
    ASSUME NEW tx, NEW u, NEW G, Sacks(tx, u, G), NEW i \in DOMAIN u.sent,
           NEW block, block[1] \in Int, block[2] \in Int, Range2(block) \subseteq G
    PROVE  Sacks(tx, SackStep(u, i, block), G)
<1>1. CASE Mapped(u.sent[i], block) /\ ~u.sent[i].sacked
  <2>1. TxOk(u)
    BY DEF Sacks
  <2>2. u.sent[i].seq \in Nat /\ EndOf(u.sent[i]) \in Nat
    <3>1. u.sent[i] \in Item /\ EndOf(u.sent[i]) \in Nat
      BY <2>1, TxExtent DEF TxOk
    <3> QED BY <3>1, ItemIs
  <2>3. SentBytes(u.sent[i]) \subseteq Range2(block)
    BY <1>1, <2>2 DEF Mapped, SentBytes, Range2
  <2>4. SentBytes(u.sent[i]) \subseteq G
    BY <2>3
  <2>5. Sacks(tx, SackItem(u, i), G)
    BY <1>1, <2>4, SacksOne
  <2> QED BY <1>1, <2>5 DEF SackStep
<1>2. CASE ~(Mapped(u.sent[i], block) /\ ~u.sent[i].sacked)
  BY <1>2 DEF SackStep
<1> QED BY <1>1, <1>2

\* How SackBlock goes over the items.
Sacking(f, u, block, n) ==
    f = [T \in SUBSET (1 .. n) |->
            IF T = {} THEN u
            ELSE LET x == Max(T)
                 IN  SackStep(f[T \ {x}], [i \in DOMAIN u.sent |-> i][x], block)]

LEMMA BlockIs ==
    ASSUME NEW tx, NEW u, NEW G, Sacks(tx, u, G),
           NEW block, block[1] \in Int, block[2] \in Int, Range2(block) \subseteq G
    PROVE  Sacks(tx, SackBlock(u, block), G)
<1> DEFINE n == Len(u.sent)
           S == 1 .. n
           V == {v \in Buffers : Sacks(tx, v, G)}
           F == [p \in S \X V |-> SackStep(p[2], p[1], block)]
           f == CHOOSE f : Sacking(f, u, block, n)
<1>1. n \in Nat /\ DOMAIN u.sent = 1 .. n /\ u \in Buffers
  BY TxExtent DEF Sacks, TxOk
<1>2. ASSUME NEW v \in V PROVE DOMAIN v.sent = 1 .. n
  BY <1>1 DEF Sacks, SameExtent
<1>3. u \in V
  BY <1>1
<1>4. \A v : v \in V <=> v \in Buffers /\ Sacks(tx, v, G)
  OBVIOUS
<1> HIDE DEF V, n
<1>5. ASSUME NEW v \in V, NEW i \in 1 .. n PROVE SackStep(v, i, block) \in V
  <2>1. Sacks(tx, v, G) /\ i \in DOMAIN v.sent
    BY <1>2, <1>4
  <2>2. Sacks(tx, SackStep(v, i, block), G)
    BY <2>1, StepIs
  <2>3. SackStep(v, i, block) \in Buffers
    BY <2>2 DEF Sacks, TxOk
  <2> QED BY <1>4, <2>2, <2>3
<1>6. F \in [(1 .. n) \X V -> V]
  BY <1>5
<1>7. \A v \in V, i \in 1 .. n : F[<<i, v>>] = SackStep(v, i, block)
  OBVIOUS
<1> HIDE DEF F
<1>8. PICK g : Folding(g, F, n, u) /\ \A T \in SUBSET (1 .. n) : g[T] \in V
  BY <1>1, <1>3, <1>6, FoldMax
<1>9. ASSUME NEW T \in SUBSET (1 .. n), T # {}
      PROVE  /\ Max(T) \in 1 .. n /\ T \ {Max(T)} \in SUBSET (1 .. n)
             /\ [i \in DOMAIN u.sent |-> i][Max(T)] = Max(T)
  <2>1. Max(T) \in T
    BY <1>1, <1>9, MaxIs
  <2> QED BY <1>1, <2>1
<1>10. Sacking(g, u, block, n)
  <2>1. ASSUME NEW T \in SUBSET (1 .. n), T # {}
        PROVE  F[<<Max(T), g[T \ {Max(T)}]>>]
                 = SackStep(g[T \ {Max(T)}], [i \in DOMAIN u.sent |-> i][Max(T)], block)
    <3>1. g[T \ {Max(T)}] \in V
      BY <1>8, <1>9, <2>1
    <3>2. F[<<Max(T), g[T \ {Max(T)}]>>] = SackStep(g[T \ {Max(T)}], Max(T), block)
      BY <1>7, <1>9, <2>1, <3>1
    <3> QED BY <1>9, <2>1, <3>2
  <2> QED BY <1>8, <2>1 DEF Folding, Sacking
<1>11. Sacking(f, u, block, n)
  BY <1>10
<1>12. SackBlock(u, block) = f[1 .. n]
  <2>1. DOMAIN [i \in DOMAIN u.sent |-> i] = 1 .. n
    BY <1>1
  <2>2. SackBlock(u, block) = (CHOOSE h : Sacking(h, u, block, n))[1 .. n]
    BY <2>1 DEF SackBlock, FoldLeft, MapThenFoldSet, Sacking, SackStep
  <2> QED BY <2>2
<1> HIDE DEF f
<1>13. f[1 .. n] \in V
  <2>1. f[{}] \in V
    BY <1>3, <1>11 DEF Sacking
  <2>2. ASSUME NEW T \in SUBSET (1 .. n), T # {}, f[T \ {Max(T)}] \in V PROVE f[T] \in V
    <3>1. f[T] = SackStep(f[T \ {Max(T)}], [i \in DOMAIN u.sent |-> i][Max(T)], block)
      BY <1>11, <2>2 DEF Sacking
    <3>2. f[T] = SackStep(f[T \ {Max(T)}], Max(T), block)
      BY <1>9, <2>2, <3>1
    <3> QED BY <1>5, <1>9, <2>2, <3>2
  <2> QED BY <1>1, <2>1, <2>2, FoldKeeps
<1> QED BY <1>4, <1>12, <1>13

LEMMA StartsFinite ==
    ASSUME NEW tx, TxOk(tx)
    PROVE  /\ IsFiniteSet(Starts(tx.sent)) /\ Starts(tx.sent) \subseteq Nat
           /\ \A b : IsFiniteSet(Behind(tx, b))
<1>1. Starts(tx.sent) \subseteq Out(tx) /\ IsFiniteSet(Out(tx))
  BY StartsIn, TxIs, TxExtent DEF TxOk
<1>2. IsFiniteSet(Starts(tx.sent))
  BY <1>1, FS_Subset
<1>3. Starts(tx.sent) \subseteq Nat
  <2>1. tx.first \in Nat /\ HighData(tx) \in Nat
    BY TxExtent DEF TxOk
  <2> QED BY <1>1, <2>1 DEF Out
<1>4. ASSUME NEW b PROVE IsFiniteSet(Behind(tx, b))
  <2>1. Behind(tx, b) \in SUBSET Starts(tx.sent)
    BY DEF Behind
  <2> QED BY <1>2, <2>1, FS_Subset
<1> QED BY <1>2, <1>3, <1>4

\* Items counted are as many as the places where they begin.
LEMMA CountsAgree ==
    ASSUME NEW tx, TxOk(tx), NEW i \in DOMAIN tx.sent, ~tx.sent[i].sacked,
           NEW b \in SentBytes(tx.sent[i])
    PROVE  /\ IsFiniteSet(LaterSacked(tx, i))
           /\ Cardinality(LaterSacked(tx, i)) = Cardinality(Behind(tx, b))
<1> DEFINE K == LaterSacked(tx, i)
           B == Behind(tx, b)
           f == [k \in K |-> tx.sent[k].seq]
<1>1. /\ Spans(tx.sent) /\ DOMAIN tx.sent = 1 .. Len(tx.sent) /\ Len(tx.sent) \in Nat
      /\ \A k \in DOMAIN tx.sent : tx.sent[k] \in Item
  BY TxExtent DEF TxOk
<1>2. i \in 1 .. Len(tx.sent)
  BY <1>1
<1>3. K \subseteq DOMAIN tx.sent /\ K \subseteq 1 .. Len(tx.sent)
  BY <1>1, <1>2 DEF LaterSacked
<1>4. IsFiniteSet(K)
  <2>1. IsFiniteSet(1 .. Len(tx.sent))
    BY <1>1, FS_Interval
  <2> HIDE DEF K
  <2> QED BY <2>1, <1>3, FS_Subset
<1>5. ASSUME NEW k \in DOMAIN tx.sent
      PROVE  /\ tx.sent[k].seq \in Nat /\ tx.sent[k].len \in Nat /\ tx.sent[k].len >= 1
             /\ EndOf(tx.sent[k]) = tx.sent[k].seq + tx.sent[k].len
  BY <1>1, ItemIs
<1>6. tx.sent[i].seq <= b /\ b < EndOf(tx.sent[i]) /\ b \in Int
  <2>1. tx.sent[i].seq \in Nat /\ EndOf(tx.sent[i]) \in Nat
    BY <1>5
  <2> QED BY <2>1 DEF SentBytes
<1>7. ASSUME NEW k \in DOMAIN tx.sent, NEW m \in DOMAIN tx.sent, k < m
      PROVE  tx.sent[k].seq < tx.sent[m].seq /\ EndOf(tx.sent[k]) <= tx.sent[m].seq
  <2>1. EndOf(tx.sent[k]) <= tx.sent[m].seq
    BY <1>1, <1>7 DEF Spans
  <2> QED BY <1>5, <2>1
<1>8. ASSUME NEW k \in K PROVE tx.sent[k].seq \in B
  <2>1. k \in DOMAIN tx.sent /\ tx.sent[k].sacked /\ k # i /\ k >= i
    BY <1>3 DEF LaterSacked
  <2>2. i < k
    BY <2>1, <1>1, <1>2
  <2>3. tx.sent[k].seq > b
    BY <1>5, <1>6, <1>7, <2>1, <2>2
  <2>4. tx.sent[k].seq \in Starts(tx.sent)
    BY <2>1 DEF Starts, With
  <2> QED BY <2>3, <2>4 DEF Behind
<1>9. ASSUME NEW x \in B PROVE \E k \in K : x = tx.sent[k].seq
  <2>1. PICK k \in DOMAIN tx.sent : tx.sent[k].sacked /\ x = tx.sent[k].seq
    BY DEF Behind, Starts, With
  <2>2. x > b
    BY DEF Behind
  <2>3. ~(k < i)
    <3>1. k < i => EndOf(tx.sent[k]) <= tx.sent[i].seq
      BY <1>7
    <3> QED BY <1>5, <1>6, <2>1, <2>2, <3>1
  <2>4. k \in i .. Len(tx.sent)
    BY <1>1, <1>2, <2>1, <2>3
  <2> QED BY <2>1, <2>4 DEF LaterSacked
<1>10. ASSUME NEW k \in K, NEW m \in K, tx.sent[k].seq = tx.sent[m].seq PROVE k = m
  <2>1. k \in DOMAIN tx.sent /\ m \in DOMAIN tx.sent /\ k \in Int /\ m \in Int
    BY <1>1, <1>3
  <2>2. ~(k < m) /\ ~(m < k)
    BY <1>5, <1>7, <1>10, <2>1
  <2> QED BY <2>1, <2>2
<1> HIDE DEF K, B
<1>11. f \in Bijection(K, B)
  <2>1. f \in [K -> B]
    BY <1>8
  <2>2. \A k, m \in K : f[k] = f[m] => k = m
    BY <1>10
  <2>3. \A x \in B : \E k \in K : f[k] = x
    BY <1>9
  <2> QED BY <2>1, <2>2, <2>3 DEF Bijection, Injection, Surjection, IsInjective
<1>12. ExistsBijection(K, B)
  BY <1>11 DEF ExistsBijection
<1>13. Cardinality(B) = Cardinality(K)
  BY <1>4, <1>12, FS_Bijection
<1> QED BY <1>4, <1>13 DEF K, B

LEMMA NowLostIs ==
    ASSUME NEW t, TxOk(t), NEW places \in SUBSET DOMAIN t.sent,
           \A i \in places : ~t.sent[i].sacked /\ ~t.sent[i].lost
    PROVE  LET v == LostToo(t, NowLost(t.sent, places),
                            t.lostOut + SumOfLengths(t.sent, places))
           IN  /\ TxOk(v) /\ SameExtent(t, v) /\ Sacked(v) = Sacked(t)
               /\ Resent(v) = Resent(t) /\ Starts(v.sent) = Starts(t.sent) /\ v.high = t.high
               /\ Lost(v) = Lost(t) \union BytesAt(t.sent, places)
<1> DEFINE L == NowLost(t.sent, places)
           n == t.lostOut + SumOfLengths(t.sent, places)
           v == LostToo(t, L, n)
<1>1. /\ Spans(t.sent) /\ DOMAIN t.sent = 1 .. Len(t.sent) /\ Len(t.sent) \in Nat
      /\ \A k \in DOMAIN t.sent : t.sent[k] \in Item
  BY TxExtent DEF TxOk
<1>2. DOMAIN L = DOMAIN t.sent
  BY DEF NowLost
<1>3. ASSUME NEW i \in DOMAIN t.sent
      PROVE  /\ L[i] \in Item /\ L[i].seq = t.sent[i].seq /\ L[i].len = t.sent[i].len
             /\ L[i].sacked = t.sent[i].sacked /\ L[i].retrans = t.sent[i].retrans
             /\ L[i].lost = (t.sent[i].lost \/ i \in places)
             /\ t.sent[i].lost \in BOOLEAN
  <2> DEFINE x == t.sent[i]
             y == [x EXCEPT !.lost = @ \/ i \in places]
  <2>1. x \in Item
    BY <1>1
  <2>2. L[i] = y
    BY DEF NowLost
  <2> HIDE DEF x, L
  <2>3. /\ y \in Item /\ y.seq = x.seq /\ y.len = x.len /\ y.sacked = x.sacked
        /\ y.retrans = x.retrans /\ y.lost = (x.lost \/ i \in places) /\ x.lost \in BOOLEAN
    BY <2>1 DEF Item
  <2> HIDE DEF y
  <2> QED BY <2>2, <2>3 DEF x
<1>4. L \in Seq(Item)
  <2>1. L \in [1 .. Len(t.sent) -> Item]
    BY <1>1, <1>3 DEF NowLost
  <2> HIDE DEF L
  <2> QED BY <1>1, <2>1, SeqDef
<1> HIDE DEF L
<1>5. SameItems(t.sent, L)
  BY <1>2, <1>3 DEF SameItems
<1>6. v.first = t.first /\ v.app = t.app /\ v.sent = L /\ v.high = t.high
      /\ v.sackedOut = t.sackedOut /\ v.lostOut = n /\ v.retransOut = t.retransOut
  BY DEF LostToo
<1>7. SameExtent(t, v) /\ Chained(v.sent) /\ (v.sent # <<>> => v.sent[1].seq = v.first)
  BY <1>4, <1>5, <1>6, SameExtentIs
<1>8. \A k \in DOMAIN t.sent : SentBytes(L[k]) = SentBytes(t.sent[k])
  BY <1>6, <1>7 DEF SameExtent
<1>9. With(L, "sacked") = With(t.sent, "sacked") /\ With(L, "retrans") = With(t.sent, "retrans")
      /\ With(L, "lost") = With(t.sent, "lost") \union places
  BY <1>2, <1>3 DEF With
<1>10. \A P \in SUBSET DOMAIN t.sent : BytesAt(L, P) = BytesAt(t.sent, P)
  BY <1>8 DEF BytesAt
<1>11. \A flag : With(t.sent, flag) \in SUBSET DOMAIN t.sent
  BY DEF With
<1>12. Sacked(v) = Sacked(t) /\ Resent(v) = Resent(t)
  BY <1>6, <1>9, <1>10, <1>11 DEF Sacked, Resent, Marked
<1>13. Lost(v) = Lost(t) \union BytesAt(t.sent, places)
  <2>1. Lost(v) = BytesAt(t.sent, With(t.sent, "lost") \union places)
    BY <1>6, <1>9, <1>10, <1>11 DEF Lost, Marked
  <2> QED BY <2>1 DEF Lost, Marked, BytesAt
<1>14. Lost(t) \intersect BytesAt(t.sent, places) = {}
  <2> SUFFICES ASSUME NEW b, b \in Lost(t), b \in BytesAt(t.sent, places) PROVE FALSE
    OBVIOUS
  <2>1. PICK i \in places : b \in SentBytes(t.sent[i])
    BY DEF BytesAt
  <2>2. t.sent[i].lost
    BY <1>1, <2>1, MarkedAs DEF Lost
  <2> QED BY <2>1, <2>2
<1>15. n = Cardinality(Lost(v)) /\ n \in Nat
  <2>1. IsFiniteSet(BytesAt(t.sent, places))
        /\ SumOfLengths(t.sent, places) = Cardinality(BytesAt(t.sent, places))
    BY <1>1, SumIs
  <2>2. IsFiniteSet(Lost(t))
    BY <1>1, FlaggedIs DEF Lost
  <2>3. /\ Cardinality(Lost(v)) = Cardinality(Lost(t)) + Cardinality(BytesAt(t.sent, places))
        /\ Cardinality(Lost(t)) \in Nat /\ Cardinality(BytesAt(t.sent, places)) \in Nat
    BY <1>13, <1>14, <2>1, <2>2, SizeOfBoth
  <2>4. t.lostOut = Cardinality(Lost(t))
    BY DEF TxOk, Lost
  <2> QED BY <2>1, <2>3, <2>4
<1>16. v \in Buffers
  <2>1. t \in Buffers
    BY DEF TxOk
  <2> HIDE DEF n
  <2> QED BY <1>4, <1>15, <2>1 DEF LostToo, Buffers
<1> HIDE DEF v, n
<1>17. ASSUME NEW i \in DOMAIN v.sent
       PROVE  v.sent[i].len <= SegmentSize /\ ~(v.sent[i].lost /\ v.sent[i].sacked)
  <2>1. i \in DOMAIN t.sent
    BY <1>2, <1>6
  <2>2. t.sent[i].len <= SegmentSize /\ ~(t.sent[i].lost /\ t.sent[i].sacked)
    BY <2>1 DEF TxOk
  <2> QED BY <1>3, <1>6, <2>1, <2>2
<1>18. /\ v.sackedOut = Cardinality(Marked(v.sent, "sacked"))
       /\ v.lostOut = Cardinality(Marked(v.sent, "lost"))
       /\ v.retransOut = Cardinality(Marked(v.sent, "retrans"))
  <2>1. t.sackedOut = Cardinality(Sacked(t)) /\ t.retransOut = Cardinality(Resent(t))
    BY DEF TxOk, Sacked, Resent
  <2> QED BY <1>6, <1>12, <1>15, <2>1 DEF Sacked, Resent, Lost
<1>19. TxOk(v)
  BY <1>7, <1>16, <1>17, <1>18 DEF TxOk
<1>20. Starts(v.sent) = Starts(t.sent)
  <2>1. \A k \in DOMAIN t.sent : v.sent[k].sacked = t.sent[k].sacked
    BY <1>3, <1>6
  <2> QED BY <1>7, <2>1, StartsSame
<1> QED BY <1>6, <1>7, <1>12, <1>13, <1>19, <1>20 DEF v, n, L

\* Items with enough SACKed ones behind them are lost.
LEMMA LostCountIs ==
    ASSUME NEW t, TxOk(t), HighOk(t), t.high # 0
    PROVE  LET v == UpdateLostCount(t)
           IN  /\ TxOk(v) /\ SameExtent(t, v) /\ Sacked(v) = Sacked(t)
               /\ Resent(v) = Resent(t) /\ Starts(v.sent) = Starts(t.sent) /\ v.high = t.high
               /\ Lost(t) \subseteq Lost(v)
               /\ \A b \in Lost(v) : b \in Lost(t) \/ Enough(v, b)
<1> DEFINE P == LostBySack(t)
           v == UpdateLostCount(t)
           u == LostToo(t, NowLost(t.sent, P), t.lostOut + SumOfLengths(t.sent, P))
           top == ItemAt(t, t.high)
<1>1. /\ Spans(t.sent) /\ DOMAIN t.sent = 1 .. Len(t.sent) /\ Len(t.sent) \in Nat
      /\ t \in Buffers
  BY TxExtent DEF TxOk
<1>2. top \in DOMAIN t.sent
  <2>1. PICK i \in DOMAIN t.sent : t.high = t.sent[i].seq
    BY DEF HighOk, Starts, With
  <2> QED BY <2>1, PlaceIs
<1>3. P = {i \in 1 .. top : /\ ~t.sent[i].sacked /\ ~t.sent[i].lost
                            /\ Cardinality({k \in i .. top : t.sent[k].sacked}) >= ReTxThreshold}
  BY DEF LostBySack
<1> HIDE DEF top, P
<1>4. P \in SUBSET DOMAIN t.sent
  <2>1. top \in Int /\ top <= Len(t.sent)
    BY <1>1, <1>2
  <2>2. P \subseteq 1 .. top
    BY <1>3
  <2> QED BY <1>1, <2>1, <2>2
<1>5. ASSUME NEW i \in P
      PROVE  /\ ~t.sent[i].sacked /\ ~t.sent[i].lost /\ i \in 1 .. top
             /\ Cardinality({k \in i .. top : t.sent[k].sacked}) >= ReTxThreshold
  BY <1>3
<1>6. v = u
  <2> DEFINE X == NowLost(t.sent, P)
             Y == t.lostOut + SumOfLengths(t.sent, P)
  <2>1. v = [t EXCEPT !.sent = X, !.lostOut = Y]
    <3>1. X = [i \in DOMAIN t.sent |-> [t.sent[i] EXCEPT !.lost = @ \/ i \in P]]
      BY DEF NowLost
    <3>2. v = [t EXCEPT !.sent = [i \in DOMAIN t.sent |->
                                     [t.sent[i] EXCEPT !.lost = @ \/ i \in P]],
                        !.lostOut = t.lostOut + SumOfLengths(t.sent, P)]
      <4>1. UpdateLostCount(t) =
              [t EXCEPT !.sent = [i \in DOMAIN t.sent |->
                                     [t.sent[i] EXCEPT !.lost = @ \/ i \in LostBySack(t)]],
                        !.lostOut = t.lostOut + SumOfLengths(t.sent, LostBySack(t))]
        BY DEF UpdateLostCount
      <4> QED BY <4>1 DEF P
    <3> QED BY <3>1, <3>2
  <2>2. u = [first |-> t.first, sent |-> X, app |-> t.app, sackedOut |-> t.sackedOut,
             lostOut |-> Y, retransOut |-> t.retransOut, high |-> t.high]
    BY DEF LostToo
  <2> HIDE DEF X, Y, u, v
  <2>3. v = [first |-> t.first, sent |-> X, app |-> t.app, sackedOut |-> t.sackedOut,
             lostOut |-> Y, retransOut |-> t.retransOut, high |-> t.high]
    BY <1>1, <2>1 DEF Buffers
  <2> QED BY <2>2, <2>3
<1> HIDE DEF v
<1>7. /\ TxOk(u) /\ SameExtent(t, u) /\ Sacked(u) = Sacked(t)
      /\ Resent(u) = Resent(t) /\ Starts(u.sent) = Starts(t.sent) /\ u.high = t.high
      /\ Lost(u) = Lost(t) \union BytesAt(t.sent, P)
  <2>1. \A i \in P : ~t.sent[i].sacked /\ ~t.sent[i].lost
    BY <1>5
  <2> QED BY <1>4, <2>1, NowLostIs
<1> HIDE DEF u
<1>8. ASSUME NEW b \in BytesAt(t.sent, P) PROVE Enough(u, b)
  <2>1. PICK i \in P : b \in SentBytes(t.sent[i])
    BY DEF BytesAt
  <2>2. i \in DOMAIN t.sent /\ ~t.sent[i].sacked
    BY <1>4, <1>5
  <2>3. /\ IsFiniteSet(LaterSacked(t, i))
        /\ Cardinality(LaterSacked(t, i)) = Cardinality(Behind(t, b))
    BY <2>1, <2>2, CountsAgree
  <2> DEFINE K == {k \in i .. top : t.sent[k].sacked}
  <2>4. K \in SUBSET LaterSacked(t, i)
    BY <1>1, <1>2, <2>2 DEF LaterSacked
  <2>5. Cardinality(K) <= Cardinality(LaterSacked(t, i)) /\ Cardinality(K) \in Nat
    <3> HIDE DEF K
    <3> QED BY <2>3, <2>4, FS_Subset, FS_CardinalityType
  <2>6. Cardinality(K) >= ReTxThreshold
    BY <1>5
  <2> HIDE DEF K
  <2>7. Behind(u, b) = Behind(t, b)
    BY <1>7 DEF Behind
  <2>8. Cardinality(LaterSacked(t, i)) \in Nat /\ ReTxThreshold \in Nat
    BY <2>3, FS_CardinalityType, TxBufferAssumption
  <2> QED BY <2>3, <2>5, <2>6, <2>7, <2>8 DEF Enough
<1> QED BY <1>6, <1>7, <1>8 DEF v

\* How Update goes over the blocks.
Updating(f, tx, blocks, n) ==
    f = [T \in SUBSET (1 .. n) |->
            IF T = {} THEN tx
            ELSE LET x == Max(T) IN SackBlock(f[T \ {x}], blocks[x])]

LEMMA BlocksAre ==
    ASSUME NEW tx, TxOk(tx), HighOk(tx), NEW G, NEW blocks, BlocksOk(blocks, G)
    PROVE  Sacks(tx, FoldLeft(SackBlock, tx, blocks), G)
<1>0. PICK n \in Nat : /\ DOMAIN blocks = 1 .. n
                       /\ \A i \in 1 .. n : /\ blocks[i][1] \in Int /\ blocks[i][2] \in Int
                                            /\ Range2(blocks[i]) \subseteq G
  BY DEF BlocksOk
<1> DEFINE V == {v \in Buffers : Sacks(tx, v, G)}
           F == [p \in (1 .. n) \X V |-> SackBlock(p[2], blocks[p[1]])]
           f == CHOOSE f : Updating(f, tx, blocks, n)
<1>1. Sacks(tx, tx, G)
  BY SameSelf DEF Sacks
<1>2. tx \in V
  BY <1>1 DEF TxOk
<1>3. \A v : v \in V <=> v \in Buffers /\ Sacks(tx, v, G)
  OBVIOUS
<1> HIDE DEF V
<1>4. ASSUME NEW v \in V, NEW i \in 1 .. n PROVE SackBlock(v, blocks[i]) \in V
  <2>1. Sacks(tx, v, G)
    BY <1>3
  <2>2. Sacks(tx, SackBlock(v, blocks[i]), G)
    <3> DEFINE k == blocks[i]
    <3>1. k[1] \in Int /\ k[2] \in Int /\ Range2(k) \subseteq G
      BY <1>0
    <3> HIDE DEF k
    <3>2. Sacks(tx, SackBlock(v, k), G)
      BY <2>1, <3>1, BlockIs
    <3> QED BY <3>2 DEF k
  <2>3. SackBlock(v, blocks[i]) \in Buffers
    BY <2>2 DEF Sacks, TxOk
  <2> QED BY <1>3, <2>2, <2>3
<1>5. F \in [(1 .. n) \X V -> V]
  BY <1>4
<1>6. \A v \in V, i \in 1 .. n : F[<<i, v>>] = SackBlock(v, blocks[i])
  OBVIOUS
<1> HIDE DEF F
<1>7. PICK g : Folding(g, F, n, tx) /\ \A T \in SUBSET (1 .. n) : g[T] \in V
  BY <1>2, <1>5, FoldMax
<1>8. ASSUME NEW T \in SUBSET (1 .. n), T # {}
      PROVE  Max(T) \in 1 .. n /\ T \ {Max(T)} \in SUBSET (1 .. n)
  <2>1. Max(T) \in T
    BY <1>8, MaxIs
  <2> QED BY <2>1
<1>9. Updating(g, tx, blocks, n)
  <2>1. ASSUME NEW T \in SUBSET (1 .. n), T # {}
        PROVE  F[<<Max(T), g[T \ {Max(T)}]>>] = SackBlock(g[T \ {Max(T)}], blocks[Max(T)])
    <3>1. g[T \ {Max(T)}] \in V
      BY <1>7, <1>8, <2>1
    <3> QED BY <1>6, <1>8, <2>1, <3>1
  <2> QED BY <1>7, <2>1 DEF Folding, Updating
<1>10. Updating(f, tx, blocks, n)
  BY <1>9
<1>11. FoldLeft(SackBlock, tx, blocks) = f[1 .. n]
  <2>1. FoldLeft(SackBlock, tx, blocks) = (CHOOSE h : Updating(h, tx, blocks, n))[1 .. n]
    BY <1>0 DEF FoldLeft, MapThenFoldSet, Updating
  <2> QED BY <2>1
<1> HIDE DEF f
<1>12. f[1 .. n] \in V
  <2>1. f[{}] \in V
    BY <1>2, <1>10 DEF Updating
  <2>2. ASSUME NEW T \in SUBSET (1 .. n), T # {}, f[T \ {Max(T)}] \in V PROVE f[T] \in V
    <3>1. f[T] = SackBlock(f[T \ {Max(T)}], blocks[Max(T)])
      BY <1>10, <2>2 DEF Updating
    <3> QED BY <1>4, <1>8, <2>2, <3>1
  <2> QED BY <2>1, <2>2, FoldKeeps
<1> QED BY <1>3, <1>11, <1>12

LEMMA UpdateIs ==
    ASSUME NEW tx, TxOk(tx), HighOk(tx), NEW G, NEW blocks, BlocksOk(blocks, G)
    PROVE  Updates(tx, Update(tx, blocks), G)
<1> DEFINE t == FoldLeft(SackBlock, tx, blocks)
           v == UpdateLostCount(t)
<1>1. Sacks(tx, t, G)
  BY BlocksAre
<1>2. Update(tx, blocks) = IF t.sackedOut > tx.sackedOut THEN v ELSE t
  BY DEF Update
<1> HIDE DEF t
<1>3. TxOk(t) /\ tx.sackedOut = Cardinality(Sacked(tx)) /\ t.sackedOut = Cardinality(Sacked(t))
      /\ tx.sackedOut \in Nat
  BY <1>1 DEF Sacks, TxOk, Sacked, Buffers
<1>4. t.sackedOut > tx.sackedOut => Sacked(t) # Sacked(tx)
  BY <1>3
<1>5. Updates(tx, t, G)
  BY <1>1, <1>4 DEF Sacks, Updates
<1>6. ASSUME t.sackedOut > tx.sackedOut PROVE Updates(tx, v, G)
  <2>1. t.high # 0 /\ HighOk(t)
    BY <1>1, <1>4, <1>6 DEF Sacks
  <2>2. /\ TxOk(v) /\ SameExtent(t, v) /\ Sacked(v) = Sacked(t)
        /\ Resent(v) = Resent(t) /\ Starts(v.sent) = Starts(t.sent) /\ v.high = t.high
        /\ Lost(t) \subseteq Lost(v)
        /\ \A b \in Lost(v) : b \in Lost(t) \/ Enough(v, b)
    BY <1>3, <2>1, LostCountIs
  <2> HIDE DEF v
  <2>3. SameExtent(tx, v)
    BY <1>1, <2>2 DEF Sacks, SameExtent
  <2>4. HighOk(v)
    BY <2>1, <2>2 DEF HighOk
  <2>5. \A b \in Lost(v) : b \in Lost(tx) \/ Enough(v, b)
    BY <1>1, <2>2 DEF Sacks
  <2> QED BY <1>1, <1>4, <1>6, <2>2, <2>3, <2>4, <2>5 DEF Sacks, Updates
<1> QED BY <1>2, <1>5, <1>6

-----------------------------------------------------------------------------
(***************************************************************************)
(* The socket.                                                             *)
(***************************************************************************)
LEMMA HeadNat ==
    ASSUME NEW tx, TxOk(tx), tx.sent # <<>>
    PROVE  HeadEnd(tx) \in Nat /\ HeadEnd(tx) <= HighData(tx)
BY HeadIs

LEMMA FurtherSelf ==
    ASSUME NEW tx, TxOk(tx)
    PROVE  Further(tx, tx)
<1>1. HighData(tx) \in Nat
  BY TxExtent DEF TxOk
<1> QED BY <1>1, HeadNat DEF Further

LEMMA FurtherChain ==
    ASSUME NEW tx, TxOk(tx), NEW u, TxOk(u), NEW v, TxOk(v), Further(tx, u), Further(u, v)
    PROVE  Further(tx, v)
<1>1. HighData(tx) \in Nat /\ HighData(u) \in Nat /\ HighData(v) \in Nat
  BY TxExtent DEF TxOk
<1>2. HighData(tx) <= HighData(v)
  BY <1>1 DEF Further
<1>3. tx.sent # <<>> => v.sent # <<>> /\ HeadEnd(tx) <= HeadEnd(v)
  BY HeadNat DEF Further
<1> QED BY <1>2, <1>3 DEF Further

LEMMA SendsSelf ==
    ASSUME NEW s, Ready(s)
    PROVE  Sends(s, s)
<1>1. Further(s.tx, s.tx)
  BY FurtherSelf DEF Ready, Types
<1>2. Same(s, s, Sending)
  BY DEF Same, Ready, Types
<1> QED BY <1>1, <1>2 DEF Sends

LEMMA SendsChain ==
    ASSUME NEW s, Ready(s), NEW t, NEW u, Sends(s, t), Sends(t, u)
    PROVE  Sends(s, u)
<1>1. Further(s.tx, u.tx)
  BY FurtherChain DEF Sends, Ready, Types
<1>2. Same(s, u, Sending)
  BY DEF Sends, Same
<1>3. s.retx => u.retx
  BY DEF Sends
<1>4. u.state = s.state \/ u.state = "NULL_ITEM"
  BY DEF Sends
<1>5. u.tx.sent = <<>> => u.nextTx = s.nextTx
  BY DEF Sends, Further
<1> QED BY <1>1, <1>2, <1>3, <1>4, <1>5 DEF Sends

\* The pointer to no item.
LEMMA NoItemSends ==
    ASSUME NEW s, Ready(s)
    PROVE  Sends(s, NoItem(s)) /\ NoItem(s).state = "NULL_ITEM"
<1> DEFINE t == NoItem(s)
<1>1. DOMAIN s = Fields
  BY DEF Ready, Types
<1>2. Same(s, t, {"state"}) /\ t.state = "NULL_ITEM"
  BY <1>1 DEF NoItem, Same, Fields
<1> HIDE DEF t
<1>3. Same(s, t, Sending)
  BY <1>2 DEF Same, Sending
<1>4. /\ t.tx = s.tx /\ t.congState = s.congState /\ t.nextTx = s.nextTx
      /\ t.highTx = s.highTx /\ t.highRxAck = s.highRxAck /\ t.dupAcks = s.dupAcks
      /\ t.recover = s.recover /\ t.recoverActive = s.recoverActive
      /\ t.firstPartial = s.firstPartial /\ t.alg = s.alg /\ t.cWnd = s.cWnd
      /\ t.ssThresh = s.ssThresh /\ t.flight = s.flight /\ t.prr = s.prr
      /\ t.notProcessed = s.notProcessed /\ t.rWnd = s.rWnd /\ t.retries = s.retries
      /\ t.retx = s.retx /\ t.persist = s.persist /\ t.pending = s.pending
      /\ t.sackEnabled = s.sackEnabled /\ t.noDelay = s.noDelay /\ t.out = s.out
      /\ DOMAIN t = Fields
  BY <1>2 DEF Same, Fields
<1>5. Types(t)
  BY <1>2, <1>4 DEF Ready, Types
<1>6. OutOk(t)
  BY <1>4 DEF Ready, OutOk, SentOk
<1>7. Ready(t)
  BY <1>4, <1>5, <1>6 DEF Ready
<1>8. Further(s.tx, t.tx)
  BY <1>4, FurtherSelf DEF Ready, Types
<1> QED BY <1>2, <1>3, <1>4, <1>7, <1>8 DEF Sends, t

\* A segment is handed down.
LEMMA TransmitIs ==
    ASSUME NEW s, Ready(s), NEW tx, TxOk(tx), Further(s.tx, tx), tx.sent # <<>>,
           NEW i \in DOMAIN tx.sent, ~tx.sent[i].sacked,
           EndOf(tx.sent[i]) = HighData(tx) \/ HighData(tx) = HighData(s.tx),
           HighData(tx) <= s.highRxAck + s.rWnd
    PROVE  LET t == Transmit(s, tx, tx.sent[i])
           IN  Sends(s, t) /\ t.retx /\ t.tx = tx /\ t.nextTx = s.nextTx /\ t.state = s.state
<1> DEFINE a == tx.sent[i]
           t == Transmit(s, tx, a)
           h == MaxOf(s.highTx, EndOf(a))
           seg == <<a.seq, a.len>>
           u == [s EXCEPT !.tx = tx, !.retx = TRUE, !.highTx = h, !.out = s.out \union {seg}]
<1>1. t = OpsUpdateBytesSent(u, a.len)
  BY DEF Transmit
<1>2. a \in Item /\ EndOf(a) <= HighData(tx) /\ Spans(tx.sent)
  BY TxExtent DEF TxOk
<1>3. /\ a.seq \in Nat /\ a.seq >= 1 /\ a.len \in Nat /\ a.len >= 1 /\ EndOf(a) \in Nat
      /\ EndOf(a) = a.seq + a.len
  BY <1>2, ItemIs
<1>4. HighData(tx) \in Nat /\ HighData(s.tx) \in Nat /\ HighData(s.tx) <= HighData(tx)
  BY TxExtent DEF TxOk, Ready, Types, Further
<1>5. h = HighData(tx) /\ s.highTx <= h
  BY <1>2, <1>3, <1>4 DEF MaxOf, Ready
<1>6. seg[1] = a.seq /\ seg[2] = a.len
  OBVIOUS
<1>7. SentBytes(a) \intersect Sacked(tx) = {}
  <2> SUFFICES ASSUME NEW b \in SentBytes(a), b \in Sacked(tx) PROVE FALSE
    OBVIOUS
  <2>1. b \in Marked(tx.sent, "sacked") <=> tx.sent[i]["sacked"]
    BY <1>2, MarkedAs
  <2> QED BY <2>1 DEF Sacked
<1>8. Bytes(seg) = SentBytes(a)
  BY <1>3, <1>6 DEF Bytes, SentBytes
<1> HIDE DEF a, seg, h, t
<1>9. /\ Same(s, u, {"tx", "retx", "highTx", "out"})
      /\ u.tx = tx /\ u.retx = TRUE /\ u.highTx = h /\ u.out = s.out \union {seg}
  <2>1. DOMAIN s = Fields
    BY DEF Ready, Types
  <2> QED BY <2>1 DEF Same, Fields
<1> HIDE DEF u
<1>10. /\ Same(u, t, {"prr"}) /\ t.prr \in Prr /\ t.prr.flightSize = s.prr.flightSize
  <2>1. u.prr = s.prr /\ s.prr \in Prr /\ DOMAIN u = Fields
    BY <1>9 DEF Same, Fields, Ready, Types
  <2>2. CASE u.alg = "prr" /\ u.congState = "RECOVERY"
    <3> DEFINE q == [u.prr EXCEPT !.out = u.prr.out + a.len]
    <3>1. q \in Prr /\ q.flightSize = s.prr.flightSize
      BY <1>3, <2>1 DEF Prr
    <3>2. t = [u EXCEPT !.prr = q]
      BY <1>1, <2>2 DEF OpsUpdateBytesSent
    <3> HIDE DEF q
    <3>3. Same(u, t, {"prr"}) /\ t.prr = q
      BY <2>1, <3>2 DEF Same, Fields
    <3> QED BY <3>1, <3>3
  <2>3. CASE ~(u.alg = "prr" /\ u.congState = "RECOVERY")
    <3>1. t = u
      BY <1>1, <2>3 DEF OpsUpdateBytesSent
    <3> QED BY <2>1, <3>1 DEF Same
  <2> QED BY <2>2, <2>3
<1>11. /\ t.tx = tx /\ t.retx = TRUE /\ t.highTx = h /\ t.out = s.out \union {seg}
       /\ DOMAIN t = Fields
  BY <1>9, <1>10 DEF Same, Fields
<1>12. Same(s, t, {"tx", "retx", "highTx", "out", "prr"})
  BY <1>9, <1>10 DEF Same, Fields
<1>13. /\ t.congState = s.congState /\ t.nextTx = s.nextTx
       /\ t.highRxAck = s.highRxAck /\ t.dupAcks = s.dupAcks
       /\ t.recover = s.recover /\ t.recoverActive = s.recoverActive
       /\ t.firstPartial = s.firstPartial /\ t.alg = s.alg /\ t.cWnd = s.cWnd
       /\ t.ssThresh = s.ssThresh /\ t.flight = s.flight
       /\ t.notProcessed = s.notProcessed /\ t.rWnd = s.rWnd /\ t.retries = s.retries
       /\ t.persist = s.persist /\ t.pending = s.pending
       /\ t.sackEnabled = s.sackEnabled /\ t.noDelay = s.noDelay /\ t.state = s.state
  BY <1>12 DEF Same, Fields
<1>14. h \in Nat
  BY <1>4, <1>5
<1>15. Types(t)
  BY <1>10, <1>11, <1>13, <1>14 DEF Ready, Types
<1>16. OutOk(t)
  <2>1. Sacked(t.tx) = Sacked(s.tx)
    BY <1>11 DEF Further
  <2>2. ASSUME NEW x \in s.out PROVE SentOk(x, t)
    <3>1. SentOk(x, s)
      BY DEF Ready, OutOk
    <3>2. s.highTx \in Nat
      BY DEF Ready, Types
    <3> QED BY <1>5, <1>11, <1>14, <2>1, <3>1, <3>2 DEF SentOk
  <2>3. SentOk(seg, t)
    <3>1. Bytes(seg) \intersect Sacked(t.tx) = {}
      BY <1>7, <1>8, <1>11
    <3>2. EndOf(a) <= HighData(tx)
      BY <1>2 DEF a
    <3> QED BY <1>3, <1>5, <1>6, <1>11, <3>1, <3>2 DEF SentOk
  <2> QED BY <1>11, <2>2, <2>3 DEF OutOk
<1>17. Ready(t)
  <2>1. s.nextTx \in Nat /\ s.highTx \in Nat /\ s.nextTx <= s.highTx
    BY DEF Ready, Types
  <2>2. t.nextTx <= t.highTx
    BY <1>5, <1>11, <1>13, <1>14, <2>1
  <2>3. t.tx.first <= t.highRxAck
    BY <1>11, <1>13 DEF Further, Ready
  <2> QED BY <1>5, <1>11, <1>13, <1>15, <1>16, <2>2, <2>3 DEF Ready
<1>18. Same(s, t, Sending)
  BY <1>12 DEF Same, Sending
<1>19. Sends(s, t)
  BY <1>10, <1>11, <1>13, <1>17, <1>18 DEF Sends
<1> QED BY <1>11, <1>13, <1>19 DEF t, a

LEMMA PacketSends ==
    ASSUME NEW s, Ready(s), NEW seq, NEW n, Sendable(s, seq, n)
    PROVE  LET t == SendDataPacket(s, seq, n)
           IN  /\ Sends(s, t)
               /\ \/ t.state = "NULL_ITEM"
                  \/ /\ t.retx /\ t.nextTx = s.nextTx /\ t.state = s.state
                     /\ Packet(t.tx, seq) /\ t.tx.sent # <<>>
<1> DEFINE t == SendDataPacket(s, seq, n)
           tx == CopyFromSequence(s.tx, n, seq)
           i == ItemAt(tx, seq)
<1>1. CASE ~HasItem(s.tx, n, seq)
  <2>1. t = NoItem(s)
    BY <1>1 DEF SendDataPacket
  <2> QED BY <2>1, NoItemSends
<1>2. CASE HasItem(s.tx, n, seq)
  <2>1. t = Transmit(s, tx, tx.sent[i])
    BY <1>2 DEF SendDataPacket
  <2>2. TxOk(s.tx) /\ s.highTx = HighData(s.tx) /\ s.highTx <= s.highRxAck + s.rWnd
        /\ s.highTx \in Nat /\ s.highRxAck \in Nat /\ s.rWnd \in Nat
    BY DEF Ready, Types
  <2>3. n \in Nat /\ n <= SegmentSize
    BY DEF Sendable
  <2>4. /\ TxOk(tx) /\ Grown(s.tx, tx) /\ Packet(tx, seq)
        /\ EndOf(tx.sent[i]) = HighData(tx) \/ HighData(tx) = HighData(s.tx)
        /\ HighData(tx) <= s.highRxAck + s.rWnd
    <3>1. ASSUME NEW k \in DOMAIN s.tx.sent, ~s.tx.sent[k].sacked, seq = s.tx.sent[k].seq,
                 s.tx.sent[k].len <= n \/ TailSequence(s.tx) - s.tx.sent[k].seq <= n
          PROVE  TxOk(tx) /\ Grown(s.tx, tx) /\ Packet(tx, seq) /\ HighData(tx) = HighData(s.tx)
      BY <2>2, <2>3, <3>1, CopyOld
    <3>2. ASSUME seq = HighData(s.tx), seq + n <= s.highRxAck + s.rWnd
          PROVE  /\ TxOk(tx) /\ Grown(s.tx, tx) /\ Packet(tx, seq)
                 /\ HighData(tx) <= HighData(s.tx) + n
                 /\ EndOf(tx.sent[i]) = HighData(tx)
      <4> DEFINE v == CopyFromSequence(s.tx, n, HighData(s.tx))
      <4>1. HasItem(s.tx, n, HighData(s.tx))
        BY <1>2, <3>2
      <4>2. /\ TxOk(v) /\ Grown(s.tx, v) /\ Packet(v, HighData(s.tx))
            /\ HighData(v) <= HighData(s.tx) + n
            /\ EndOf(v.sent[ItemAt(v, HighData(s.tx))]) = HighData(v)
        BY <2>2, <2>3, <4>1, CopyNew
      <4>3. tx = v
        BY <3>2
      <4> HIDE DEF v, tx
      <4> QED BY <3>2, <4>2, <4>3
    <3> HIDE DEF tx, i
    <3>3. ASSUME seq = HighData(s.tx), seq + n <= s.highRxAck + s.rWnd
          PROVE  HighData(tx) <= s.highRxAck + s.rWnd
      <4>1. HighData(tx) \in Nat
        BY <3>2, <3>3, TxExtent DEF TxOk
      <4> QED BY <2>2, <2>3, <3>2, <3>3, <4>1
    <3> QED BY <2>2, <3>1, <3>2, <3>3 DEF Sendable
  <2> HIDE DEF tx
  <2>5. i \in DOMAIN tx.sent /\ ~tx.sent[i].sacked
    BY <2>4 DEF Packet
  <2>6. Further(s.tx, tx) /\ tx.sent # <<>>
    BY <2>4 DEF Grown, Further
  <2> HIDE DEF i
  <2> DEFINE w == Transmit(s, tx, tx.sent[i])
  <2>7. Sends(s, w) /\ w.retx /\ w.tx = tx /\ w.nextTx = s.nextTx /\ w.state = s.state
    BY <2>4, <2>5, <2>6, TransmitIs
  <2> HIDE DEF w, t
  <2>8. t = w
    BY <2>1 DEF w
  <2>9. /\ Sends(s, t) /\ t.retx /\ t.nextTx = s.nextTx /\ t.state = s.state
        /\ Packet(t.tx, seq) /\ t.tx.sent # <<>>
    BY <2>4, <2>6, <2>7, <2>8
  <2> QED BY <2>9 DEF t
<1> QED BY <1>1, <1>2

LEMMA NextSegIs ==
    ASSUME NEW tx, TxOk(tx), NEW rWnd \in Nat, NEW rec \in BOOLEAN
    PROVE  LET seg == NextSeg(tx, rWnd, rec)
           IN  seg = NoSegment \/ SegOk(tx, seg, rWnd)
<1> DEFINE seg == NextSeg(tx, rWnd, rec)
<1>1. /\ DOMAIN tx.sent = 1 .. Len(tx.sent) /\ tx.app \in Nat
  BY TxExtent DEF TxOk, Buffers
<1>2. Candidates(tx) \subseteq Nat /\ LostItems(tx) \subseteq Nat
      /\ Candidates(tx) \subseteq DOMAIN tx.sent /\ LostItems(tx) \subseteq Candidates(tx)
  BY <1>1 DEF Candidates, LostItems
<1>3. ASSUME NEW i, i \in Candidates(tx)
      PROVE  SegOk(tx, <<tx.sent[i].seq, SegmentSize>>, rWnd)
  <2>1. i \in DOMAIN tx.sent /\ ~tx.sent[i].sacked
    BY <1>3 DEF Candidates
  <2> QED BY <2>1 DEF SegOk
<1>4. CASE LostItems(tx) # {}
  <2>1. seg = <<tx.sent[Min(LostItems(tx))].seq, SegmentSize>>
    BY <1>4 DEF NextSeg
  <2>2. Min(LostItems(tx)) \in Candidates(tx)
    BY <1>2, <1>4, MinIs
  <2> HIDE DEF seg
  <2>3. SegOk(tx, seg, rWnd)
    BY <1>3, <2>1, <2>2
  <2> QED BY <2>3 DEF seg
<1>5. CASE LostItems(tx) = {} /\ tx.app > 0
  <2>1. seg = IF SentSize(tx) <= rWnd
              THEN <<HighData(tx), MinOf(SegmentSize, rWnd - SentSize(tx))>>
              ELSE NoSegment
    BY <1>1, <1>5 DEF NextSeg
  <2> HIDE DEF seg
  <2>2. SentSize(tx) <= rWnd => SegOk(tx, seg, rWnd)
    BY <2>1 DEF SegOk
  <2>3. ~(SentSize(tx) <= rWnd) => seg = NoSegment
    BY <2>1
  <2> QED BY <2>2, <2>3 DEF seg
<1>6. CASE LostItems(tx) = {} /\ tx.app = 0
  <2>1. seg = IF rec /\ Candidates(tx) # {}
              THEN <<tx.sent[Min(Candidates(tx))].seq, SegmentSize>>
              ELSE NoSegment
    BY <1>6 DEF NextSeg
  <2> HIDE DEF seg
  <2>2. rec /\ Candidates(tx) # {} => SegOk(tx, seg, rWnd)
    <3>1. Candidates(tx) # {} => Min(Candidates(tx)) \in Candidates(tx)
      BY <1>2, MinIs
    <3> QED BY <1>3, <2>1, <3>1
  <2>3. ~(rec /\ Candidates(tx) # {}) => seg = NoSegment
    BY <2>1
  <2> QED BY <2>2, <2>3 DEF seg
<1> QED BY <1>1, <1>4, <1>5, <1>6

LEMMA AvailableIs ==
    ASSUME NEW s, Ready(s)
    PROVE  AvailableWindow(s) \in Nat
<1>1. BytesInFlight(s.tx) \in Nat /\ s.rWnd \in Nat /\ s.cWnd \in Nat
  BY TxIs DEF Ready, Types
<1> QED BY <1>1 DEF AvailableWindow, MaxOf, MinOf

\* The range of a segment is one that may be sent.
LEMMA SegSendable ==
    ASSUME NEW s, Ready(s), NEW seg, SegOk(s.tx, seg, s.rWnd), NEW n \in Nat, n <= SegmentSize,
           n <= seg[2],
           \A k \in DOMAIN s.tx.sent :
              seg[1] = s.tx.sent[k].seq /\ seg[2] = SegmentSize
                 => n = SegmentSize \/ TailSequence(s.tx) - seg[1] <= n
    PROVE  Sendable(s, seg[1], n)
<1>1. TxOk(s.tx) /\ s.tx.first <= s.highRxAck /\ s.tx.first \in Nat /\ HighData(s.tx) \in Nat
      /\ s.highRxAck \in Nat /\ s.rWnd \in Nat
  BY TxExtent DEF Ready, Types, TxOk
<1>2. ASSUME NEW i \in DOMAIN s.tx.sent, ~s.tx.sent[i].sacked, seg[1] = s.tx.sent[i].seq,
             seg[2] = SegmentSize
      PROVE  Sendable(s, seg[1], n)
  <2>1. s.tx.sent[i].len <= SegmentSize
    BY <1>1 DEF TxOk
  <2>2. n = SegmentSize \/ TailSequence(s.tx) - seg[1] <= n
    BY <1>2
  <2>3. s.tx.sent[i].len <= n \/ TailSequence(s.tx) - seg[1] <= n
    BY <2>1, <2>2
  <2> QED BY <1>2, <2>3 DEF Sendable
<1>3. ASSUME seg[1] = HighData(s.tx), SentSize(s.tx) <= s.rWnd,
             seg[2] = MinOf(SegmentSize, s.rWnd - SentSize(s.tx))
      PROVE  Sendable(s, seg[1], n)
  <2> DEFINE h == HighData(s.tx)
             f == s.tx.first
  <2>1. SentSize(s.tx) = h - f
    BY DEF SentSize
  <2>2. SegmentSize \in Nat
    BY TxBufferAssumption
  <2>3. seg[2] = MinOf(SegmentSize, s.rWnd - (h - f))
    BY <1>3, <2>1
  <2>4. h \in Nat /\ f \in Nat /\ f <= s.highRxAck
    BY <1>1
  <2> HIDE DEF h, f
  <2>5. n <= s.rWnd - (h - f)
    BY <1>1, <2>2, <2>3, <2>4 DEF MinOf
  <2>6. h + n <= s.highRxAck + s.rWnd
    BY <1>1, <2>4, <2>5
  <2> QED BY <1>3, <2>6 DEF Sendable, h
<1> QED BY <1>2, <1>3 DEF SegOk

\* Another place is expected next.
LEMMA NextTxSends ==
    ASSUME NEW s, NEW t, Ready(s), Sends(s, t), NEW k \in Nat, k <= t.highTx,
           t.tx.sent # <<>>
    PROVE  LET u == [t EXCEPT !.nextTx = k]
           IN  Sends(s, u) /\ u.retx = t.retx /\ u.state = t.state /\ u.tx = t.tx
<1> DEFINE u == [t EXCEPT !.nextTx = k]
<1>1. DOMAIN t = Fields /\ Ready(t)
  BY DEF Sends, Ready, Types
<1>2. Same(t, u, {"nextTx"}) /\ u.nextTx = k
  BY <1>1 DEF Same, Fields
<1> HIDE DEF u
<1>3. /\ u.tx = t.tx /\ u.congState = t.congState
      /\ u.highTx = t.highTx /\ u.highRxAck = t.highRxAck /\ u.dupAcks = t.dupAcks
      /\ u.recover = t.recover /\ u.recoverActive = t.recoverActive
      /\ u.firstPartial = t.firstPartial /\ u.alg = t.alg /\ u.cWnd = t.cWnd
      /\ u.ssThresh = t.ssThresh /\ u.flight = t.flight /\ u.prr = t.prr
      /\ u.notProcessed = t.notProcessed /\ u.rWnd = t.rWnd /\ u.retries = t.retries
      /\ u.retx = t.retx /\ u.persist = t.persist /\ u.pending = t.pending
      /\ u.sackEnabled = t.sackEnabled /\ u.noDelay = t.noDelay /\ u.out = t.out
      /\ u.state = t.state /\ DOMAIN u = Fields
  BY <1>2 DEF Same, Fields
<1>4. Types(u)
  BY <1>1, <1>2, <1>3 DEF Ready, Types
<1>5. OutOk(u)
  BY <1>1, <1>3 DEF Ready, OutOk, SentOk
<1>6. Ready(u)
  BY <1>1, <1>2, <1>3, <1>4, <1>5 DEF Ready
<1>7. Same(s, u, Sending)
  BY <1>2 DEF Same, Sends, Sending
<1>8. Sends(s, u)
  BY <1>3, <1>6, <1>7 DEF Sends
<1> QED BY <1>3, <1>8 DEF u

LEMMA NextSends ==
    ASSUME NEW s, Ready(s), SendsMore(s)
    PROVE  LET t == SendNext(s, NextToSend(s))
           IN  Sends(s, t) /\ (t.retx \/ t.state = "NULL_ITEM")
<1> DEFINE seg == NextToSend(s)
           w == AvailableWindow(s)
           n == Min({w, SegmentSize, seg[2]})
           t == SendDataPacket(s, seg[1], n)
           k == EndOf(t.tx.sent[ItemAt(t.tx, seg[1])])
<1>1. w \in Nat /\ w > 0 /\ seg # NoSegment
      /\ ~HoldsBack(s, SizeFromSequence(s.tx, seg[1]))
  BY AvailableIs DEF SendsMore
<1>2. SegOk(s.tx, seg, s.rWnd)
  <2>1. TxOk(s.tx) /\ s.rWnd \in Nat
    BY DEF Ready, Types
  <2> DEFINE rec == s.sackEnabled /\ s.congState = "RECOVERY"
  <2>2. rec \in BOOLEAN /\ seg = NextSeg(s.tx, s.rWnd, rec)
    BY DEF NextToSend
  <2> HIDE DEF rec, seg
  <2>3. NextSeg(s.tx, s.rWnd, rec) = NoSegment \/ SegOk(s.tx, NextSeg(s.tx, s.rWnd, rec), s.rWnd)
    BY <2>1, <2>2, NextSegIs
  <2> QED BY <1>1, <2>2, <2>3
<1> HIDE DEF seg
<1>3. SegmentSize \in Nat /\ seg[2] \in Nat
  <2>1. SegmentSize \in Nat
    BY TxBufferAssumption
  <2>2. s.rWnd \in Nat /\ SentSize(s.tx) \in Nat
    BY TxExtent DEF Ready, Types, TxOk
  <2> QED BY <1>2, <2>1, <2>2 DEF SegOk, MinOf
<1>4. /\ n \in {w, SegmentSize, seg[2]} /\ n <= w /\ n <= SegmentSize /\ n <= seg[2]
      /\ n \in Nat
  <2> DEFINE T == {w, SegmentSize, seg[2]}
  <2>1. T \subseteq Nat /\ T # {}
    BY <1>1, <1>3
  <2>2. w \in T /\ SegmentSize \in T /\ seg[2] \in T
    OBVIOUS
  <2> HIDE DEF T
  <2>3. Min(T) \in T /\ \A y \in T : Min(T) <= y
    BY <2>1, MinIs
  <2>4. n = Min(T)
    BY DEF T
  <2> HIDE DEF n
  <2> QED BY <2>1, <2>2, <2>3, <2>4 DEF T
<1> HIDE DEF n, w
<1>5. TailSequence(s.tx) \in Nat /\ s.tx.first \in Nat
  <2>1. HighData(s.tx) \in Nat /\ s.tx.app \in Nat /\ s.tx.first \in Nat
    BY TxExtent DEF Ready, Types, TxOk, Buffers
  <2> QED BY <2>1 DEF TailSequence
<1>6. ASSUME NEW i \in DOMAIN s.tx.sent, seg[1] = s.tx.sent[i].seq, seg[2] = SegmentSize
      PROVE  n = SegmentSize \/ TailSequence(s.tx) - seg[1] <= n
  <2>1. seg[1] \in Nat
    <3>1. s.tx.sent[i] \in Item
      BY TxExtent DEF Ready, Types, TxOk
    <3> QED BY <1>6, <3>1, ItemIs
  <2> DEFINE d == SizeFromSequence(s.tx, seg[1])
  <2>2. TailSequence(s.tx) - seg[1] <= d /\ d \in Nat
    BY <1>5, <2>1 DEF SizeFromSequence, MaxOf
  <2>3. ~(w < SegmentSize /\ d > w)
    BY <1>1 DEF HoldsBack, w
  <2> HIDE DEF d
  <2>4. w \in Nat
    BY <1>1
  <2> QED BY <1>3, <1>4, <1>5, <1>6, <2>1, <2>2, <2>3, <2>4
<1>7. Sendable(s, seg[1], n)
  BY <1>2, <1>4, <1>6, SegSendable
<1>8. /\ Sends(s, t)
      /\ \/ t.state = "NULL_ITEM"
         \/ /\ t.retx /\ t.nextTx = s.nextTx /\ t.state = s.state
            /\ Packet(t.tx, seg[1]) /\ t.tx.sent # <<>>
  BY <1>7, PacketSends
<1>9. SendNext(s, seg) = IF t.state = "NULL_ITEM" THEN t ELSE [t EXCEPT !.nextTx = k]
  BY DEF SendNext, n, w
<1> HIDE DEF t
<1>10. CASE t.state = "NULL_ITEM"
  BY <1>8, <1>9, <1>10 DEF seg
<1>11. CASE t.state # "NULL_ITEM"
  <2>1. TxOk(t.tx) /\ t.highTx = HighData(t.tx)
    BY <1>8 DEF Sends, Ready, Types
  <2>2. k \in Nat /\ k <= t.highTx
    <3>1. ItemAt(t.tx, seg[1]) \in DOMAIN t.tx.sent
      BY <1>8, <1>11 DEF Packet
    <3> QED BY <2>1, <3>1, TxExtent DEF TxOk
  <2> HIDE DEF k
  <2> DEFINE u == [t EXCEPT !.nextTx = k]
  <2>3. Sends(s, u) /\ u.retx = t.retx /\ u.state = t.state /\ u.tx = t.tx
    BY <1>8, <1>11, <2>2, NextTxSends
  <2>4. SendNext(s, seg) = u
    BY <1>9, <1>11
  <2> HIDE DEF u
  <2> QED BY <1>8, <1>11, <2>3, <2>4 DEF seg
<1> QED BY <1>10, <1>11

\* The socket after some turns of the loop.
Turns(f, s, n) == f = [k \in 0 .. n |-> IF k = 0 THEN s ELSE SendTurn(f[k - 1])]

LEMMA TurnsExist ==
    ASSUME NEW s, NEW n \in Nat
    PROVE  \E f : Turns(f, s, n)
<1> DEFINE T == {k \in Nat : \E f : Turns(f, s, k)}
<1>1. 0 \in T
  <2>1. Turns([k \in 0 .. 0 |-> s], s, 0)
    BY DEF Turns
  <2> QED BY <2>1
<1>2. ASSUME NEW k \in Nat, k \in T PROVE k + 1 \in T
  <2>1. PICK f : Turns(f, s, k)
    BY <1>2
  <2>2. f = [i \in 0 .. k |-> IF i = 0 THEN s ELSE SendTurn(f[i - 1])]
    BY <2>1 DEF Turns
  <2> DEFINE h == [i \in 0 .. k + 1 |-> IF i = k + 1 THEN SendTurn(f[k]) ELSE f[i]]
  <2>3. ASSUME NEW i \in 0 .. k + 1
        PROVE  h[i] = IF i = 0 THEN s ELSE SendTurn(h[i - 1])
    <3>1. CASE i = 0
      BY <3>1, <2>2
    <3>2. CASE i = k + 1
      <4>1. i - 1 = k /\ h[k] = f[k] /\ h[i] = SendTurn(f[k]) /\ i # 0
        BY <3>2
      <4> QED BY <4>1
    <3>3. CASE i \in 1 .. k
      <4>1. h[i] = f[i] /\ h[i - 1] = f[i - 1] /\ i # 0
        BY <3>3
      <4>2. f[i] = SendTurn(f[i - 1])
        BY <2>2, <3>3
      <4> QED BY <4>1, <4>2
    <3> QED BY <3>1, <3>2, <3>3
  <2>4. h = [i \in 0 .. k + 1 |-> IF i = 0 THEN s ELSE SendTurn(h[i - 1])]
    BY <2>3
  <2>5. Turns(h, s, k + 1)
    BY <2>4 DEF Turns
  <2> QED BY <2>5
<1> HIDE DEF T
<1>3. n \in T
  BY <1>1, <1>2, Induction
<1> QED BY <1>3 DEF T

LEMMA TurnSends ==
    ASSUME NEW s, Ready(s)
    PROVE  /\ Sends(s, SendTurn(s))
           /\ SendsMore(s) => Watched(SendTurn(s))
           /\ ~SendsMore(s) => SendTurn(s) = s
<1>1. CASE SendsMore(s)
  <2>1. SendTurn(s) = SendNext(s, NextToSend(s))
    BY <1>1 DEF SendTurn
  <2> QED BY <1>1, <2>1, NextSends DEF Watched
<1>2. CASE ~SendsMore(s)
  BY <1>2, SendsSelf DEF SendTurn
<1> QED BY <1>1, <1>2

LEMMA PendingSends ==
    ASSUME NEW s, Ready(s)
    PROVE  LET t == SendPendingData(s)
           IN  /\ Sends(s, t)
               /\ SendsMore(s) => Watched(t)
               /\ ~SendsMore(s) => t = s
<1> DEFINE n == 2 * Size(s.tx)
           f == CHOOSE f : Turns(f, s, n)
<1>1. Size(s.tx) \in Nat
  <2>1. HighData(s.tx) \in Nat /\ s.tx.app \in Nat /\ s.tx.first \in Nat
        /\ SentSize(s.tx) \in Nat
    BY TxExtent DEF Ready, Types, TxOk, Buffers
  <2>2. TailSequence(s.tx) = HighData(s.tx) + s.tx.app
    BY DEF TailSequence
  <2>3. SentSize(s.tx) = HighData(s.tx) - s.tx.first
    BY DEF SentSize
  <2> QED BY <2>1, <2>2, <2>3 DEF Size
<1>2. n \in Nat /\ (SendsMore(s) => n > 0)
  BY <1>1 DEF SendsMore
<1>3. SendPendingData(s) = f[n]
  BY DEF SendPendingData, Turns
<1> HIDE DEF n
<1>4. Turns(f, s, n)
  BY <1>2, TurnsExist
<1> HIDE DEF f
<1>5. f[0] = s /\ \A k \in 1 .. n : f[k] = SendTurn(f[k - 1])
  <2>1. f = [k \in 0 .. n |-> IF k = 0 THEN s ELSE SendTurn(f[k - 1])]
    BY <1>4 DEF Turns
  <2>2. f[0] = s
    <3>1. 0 \in 0 .. n
      BY <1>2
    <3> QED BY <2>1, <3>1
  <2>3. ASSUME NEW k \in 1 .. n PROVE f[k] = SendTurn(f[k - 1])
    <3>1. k \in 0 .. n /\ k # 0
      BY <1>2
    <3> QED BY <2>1, <3>1
  <2> QED BY <2>2, <2>3
<1> DEFINE T == {k \in Nat : k <= n => SentSoFar(s, f[k], k)}
<1>6. 0 \in T
  <2>1. SentSoFar(s, s, 0)
    BY SendsSelf DEF SentSoFar
  <2> QED BY <1>5, <2>1
<1>7. ASSUME NEW k \in Nat, k \in T PROVE k + 1 \in T
  <2>1. CASE k + 1 <= n
    <3>1. PICK j \in 1 .. n : j = k + 1 /\ j - 1 = k
      BY <1>2, <2>1
    <3> DEFINE v == f[k]
    <3>2. SentSoFar(s, v, k)
      BY <1>2, <1>7, <2>1
    <3>3. f[j] = SendTurn(v)
      BY <1>5, <3>1
    <3> HIDE DEF v
    <3> DEFINE u == SendTurn(v)
    <3>4. Ready(v)
      BY <3>2 DEF SentSoFar, Sends
    <3>5. /\ Sends(v, u) /\ (SendsMore(v) => Watched(u)) /\ (~SendsMore(v) => u = v)
      BY <3>4, TurnSends
    <3> HIDE DEF u
    <3>6. Sends(s, u)
      BY <3>2, <3>5, SendsChain DEF SentSoFar
    <3>7. Watched(v) => Watched(u)
      BY <3>5 DEF Watched, Sends
    <3>8. SendsMore(s) => Watched(u)
      <4>1. CASE k = 0
        <5>1. v = s
          BY <1>5, <4>1 DEF v
        <5> QED BY <3>5, <5>1
      <4>2. CASE k # 0
        BY <3>2, <3>7, <4>2 DEF SentSoFar
      <4> QED BY <4>1, <4>2
    <3>9. ~SendsMore(s) => u = s
      BY <3>2, <3>5 DEF SentSoFar
    <3>10. SentSoFar(s, u, k + 1)
      BY <3>6, <3>8, <3>9 DEF SentSoFar
    <3> QED BY <3>1, <3>3, <3>10 DEF u
  <2>2. CASE ~(k + 1 <= n)
    BY <2>2
  <2> QED BY <2>1, <2>2
<1> HIDE DEF T
<1>8. n \in T
  BY <1>2, <1>6, <1>7, Induction
<1>9. SentSoFar(s, f[n], n)
  BY <1>2, <1>8 DEF T
<1> QED BY <1>2, <1>3, <1>9 DEF SentSoFar

\* The first lost segment, new data, or the head.
LEMMA RetransmitSends ==
    ASSUME NEW s, Ready(s), s.tx.sent # <<>>, s.tx.first \notin Sacked(s.tx)
    PROVE  Sends(s, DoRetransmit(s)) /\ Watched(DoRetransmit(s))
<1> DEFINE next == NextSeg(s.tx, s.rWnd, FALSE)
           seg  == IF next = NoSegment THEN <<s.tx.first, SegmentSize>> ELSE next
           u == [s EXCEPT !.nextTx = seg[1]]
           t == SendDataPacket(u, seg[1], seg[2])
<1>1. DoRetransmit(s) = t
  BY DEF DoRetransmit
<1>2. TxOk(s.tx) /\ s.rWnd \in Nat /\ SegmentSize \in Nat
  BY TxBufferAssumption DEF Ready, Types
<1>3. SegOk(s.tx, seg, s.rWnd)
  <2>1. next = NoSegment \/ SegOk(s.tx, next, s.rWnd)
    BY <1>2, NextSegIs
  <2>2. SegOk(s.tx, <<s.tx.first, SegmentSize>>, s.rWnd)
    <3>1. 1 \in DOMAIN s.tx.sent /\ s.tx.sent[1].seq = s.tx.first /\ ~s.tx.sent[1].sacked
      BY <1>2, HeadIs
    <3> QED BY <3>1 DEF SegOk
  <2> HIDE DEF next
  <2> QED BY <2>1, <2>2
<1> HIDE DEF seg
<1>4. seg[1] \in Nat /\ seg[1] <= s.highTx /\ seg[2] \in Nat /\ seg[2] <= SegmentSize
  <2>1. /\ \A i \in DOMAIN s.tx.sent : s.tx.sent[i] \in Item /\ EndOf(s.tx.sent[i]) <= HighData(s.tx)
        /\ HighData(s.tx) \in Nat /\ s.highTx = HighData(s.tx) /\ SentSize(s.tx) \in Nat
    BY TxExtent DEF Ready, Types, TxOk
  <2>2. ASSUME NEW i \in DOMAIN s.tx.sent, seg[1] = s.tx.sent[i].seq, seg[2] = SegmentSize
        PROVE  seg[1] \in Nat /\ seg[1] <= s.highTx /\ seg[2] \in Nat /\ seg[2] <= SegmentSize
    <3>1. s.tx.sent[i].seq \in Nat /\ EndOf(s.tx.sent[i]) \in Nat
          /\ s.tx.sent[i].seq < EndOf(s.tx.sent[i])
      BY <2>1, ItemIs
    <3> QED BY <1>2, <2>1, <2>2, <3>1
  <2>3. ASSUME seg[1] = HighData(s.tx), SentSize(s.tx) <= s.rWnd,
               seg[2] = MinOf(SegmentSize, s.rWnd - SentSize(s.tx))
        PROVE  seg[1] \in Nat /\ seg[1] <= s.highTx /\ seg[2] \in Nat /\ seg[2] <= SegmentSize
    BY <1>2, <2>1, <2>3 DEF MinOf
  <2> QED BY <1>3, <2>2, <2>3 DEF SegOk
<1>5. Sends(s, u) /\ u.tx = s.tx
  <2>1. Sends(s, s)
    BY SendsSelf
  <2> QED BY <1>4, <2>1, NextTxSends
<1> HIDE DEF u
<1>6. Ready(u) /\ u.rWnd = s.rWnd
  BY <1>5 DEF Sends, Same, Sending, Fields
<1>7. Sendable(u, seg[1], seg[2])
  BY <1>3, <1>4, <1>5, <1>6, SegSendable
<1>8. Sends(u, t) /\ Watched(t)
  BY <1>6, <1>7, PacketSends DEF Watched
<1> HIDE DEF t
<1>9. Sends(s, t)
  BY <1>5, <1>8, SendsChain
<1> QED BY <1>1, <1>8, <1>9

-----------------------------------------------------------------------------
(***************************************************************************)
(* What congestion control and the recovery algorithm change.              *)
(***************************************************************************)
LEMMA TunesTypes ==
    ASSUME NEW s, Types(s), NEW t, Tunes(s, t)
    PROVE  Types(t)
<1>1. /\ t.tx = s.tx /\ t.congState = s.congState /\ t.nextTx = s.nextTx
      /\ t.highTx = s.highTx /\ t.highRxAck = s.highRxAck /\ t.dupAcks = s.dupAcks
      /\ t.recover = s.recover /\ t.recoverActive = s.recoverActive
      /\ t.firstPartial = s.firstPartial /\ t.alg = s.alg
      /\ t.flight = s.flight
      /\ t.notProcessed = s.notProcessed /\ t.rWnd = s.rWnd /\ t.retries = s.retries
      /\ t.retx = s.retx /\ t.persist = s.persist /\ t.pending = s.pending
      /\ t.sackEnabled = s.sackEnabled /\ t.noDelay = s.noDelay /\ t.state = s.state
      /\ DOMAIN t = Fields
  BY DEF Tunes, Same, Fields
<1> QED BY <1>1 DEF Types, Tunes

LEMMA TunesSelf ==
    ASSUME NEW s, Types(s)
    PROVE  Tunes(s, s)
BY DEF Tunes, Types, Same

LEMMA TunesChain ==
    ASSUME NEW s, NEW t, NEW u, Tunes(s, t), Tunes(t, u)
    PROVE  Tunes(s, u)
BY DEF Tunes, Same

\* Another window.
LEMMA WindowIs ==
    ASSUME NEW s, Types(s), NEW w \in Nat
    PROVE  Tunes(s, [s EXCEPT !.cWnd = w]) /\ [s EXCEPT !.cWnd = w].cWnd = w
           /\ [s EXCEPT !.cWnd = w].prr = s.prr
<1>1. DOMAIN s = Fields
  BY DEF Types
<1> DEFINE t == [s EXCEPT !.cWnd = w]
<1>2. Same(s, t, {"cWnd"}) /\ t.cWnd = w
  BY <1>1 DEF Same, Fields
<1> HIDE DEF t
<1>3. t.ssThresh = s.ssThresh /\ t.prr = s.prr
  BY <1>2 DEF Same, Fields
<1> QED BY <1>2, <1>3 DEF Tunes, Types, Same, t

LEMMA ReduceIs ==
    ASSUME NEW s, Types(s), NEW n \in Nat
    PROVE  Tunes(s, Reduce(s, n)) /\ Reduce(s, n).prr = s.prr /\ Reduce(s, n).cWnd = s.cWnd
<1> DEFINE h == GetSsThresh(n)
           t == [s EXCEPT !.ssThresh = h]
<1>1. CASE s.alg = "any"
  BY <1>1, TunesSelf DEF Reduce
<1>2. CASE s.alg # "any"
  <2>1. Reduce(s, n) = t
    BY <1>2 DEF Reduce
  <2>2. h \in Nat \ {0}
    BY TxBufferAssumption DEF GetSsThresh, MaxOf
  <2> HIDE DEF h
  <2>3. DOMAIN s = Fields
    BY DEF Types
  <2>4. Same(s, t, {"ssThresh"}) /\ t.ssThresh = h
    BY <2>3 DEF Same, Fields
  <2> HIDE DEF t
  <2>5. t.cWnd = s.cWnd /\ t.prr = s.prr
    BY <2>4 DEF Same, Fields
  <2> QED BY <2>1, <2>2, <2>4, <2>5 DEF Tunes, Types, Same
<1> QED BY <1>1, <1>2

LEMMA LeaveIs ==
    ASSUME NEW s, Types(s)
    PROVE  Tunes(s, LeaveRecovery(s)) /\ (s.alg # "any" => LeaveRecovery(s).cWnd > 0)
<1>1. CASE s.alg = "any"
  BY <1>1, TunesSelf DEF LeaveRecovery
<1>2. CASE s.alg # "any"
  <2> DEFINE w == s.ssThresh
  <2>1. w \in Nat /\ w > 0 /\ LeaveRecovery(s) = [s EXCEPT !.cWnd = w]
    BY <1>2 DEF LeaveRecovery, Types
  <2> HIDE DEF w
  <2> QED BY <2>1, WindowIs
<1> QED BY <1>1, <1>2

\* A window that is not 0 grows.
LEMMA AvoidanceIs ==
    ASSUME NEW s, Types(s), s.cWnd > 0, NEW n
    PROVE  Tunes(s, CongestionAvoidance(s, n)) /\ CongestionAvoidance(s, n).cWnd > 0
<1>1. CASE n > 0
  <2> DEFINE q == SegmentSize * SegmentSize
             r == q \div s.cWnd
             w == s.cWnd + MaxOf(1, r)
  <2>1. CongestionAvoidance(s, n) = [s EXCEPT !.cWnd = w]
    BY <1>1 DEF CongestionAvoidance
  <2>2. q \in Int
    BY TxBufferAssumption
  <2> HIDE DEF q
  <2>3. r \in Int
    BY <2>2 DEF Types
  <2> HIDE DEF r
  <2>4. w \in Nat /\ w > 0
    BY <2>3 DEF Types, MaxOf
  <2> HIDE DEF w
  <2> QED BY <2>1, <2>4, WindowIs
<1>2. CASE ~(n > 0)
  BY <1>2, TunesSelf DEF CongestionAvoidance
<1> QED BY <1>1, <1>2

LEMMA IncreaseIs ==
    ASSUME NEW s, Types(s), NEW segs, NEW c, COk(s, c), s.alg = "any" \/ s.cWnd > 0
    PROVE  Tunes(s, IncreaseWindow(s, segs, c)) /\ IncreaseWindow(s, segs, c).cWnd > 0
<1>1. CASE s.alg = "any"
  <2> DEFINE w == c.window
  <2>1. IncreaseWindow(s, segs, c) = [s EXCEPT !.cWnd = w] /\ w \in Nat /\ w > 0
    BY <1>1 DEF IncreaseWindow, COk
  <2> HIDE DEF w
  <2> QED BY <2>1, WindowIs
<1>2. CASE s.alg # "any"
  <2> DEFINE slow == s.cWnd < s.ssThresh /\ segs > 0
             w == s.cWnd + SegmentSize
             t == IF slow THEN [s EXCEPT !.cWnd = w] ELSE s
             n == IF slow THEN segs - 1 ELSE segs
  <2>1. IncreaseWindow(s, segs, c)
          = IF t.cWnd >= t.ssThresh THEN CongestionAvoidance(t, n) ELSE t
    BY <1>2 DEF IncreaseWindow, NewRenoIncrease
  <2>2. w \in Nat /\ w > 0
    BY <1>2, TxBufferAssumption DEF Types
  <2> HIDE DEF slow, n, w
  <2>3. Tunes(s, t) /\ t.cWnd > 0
    BY <1>2, <2>2, WindowIs, TunesSelf
  <2> HIDE DEF t
  <2>4. Types(t)
    BY <2>3, TunesTypes
  <2>5. Tunes(t, CongestionAvoidance(t, n)) /\ CongestionAvoidance(t, n).cWnd > 0
    BY <2>3, <2>4, AvoidanceIs
  <2> QED BY <2>1, <2>3, <2>5, TunesChain
<1> QED BY <1>1, <1>2

\* Proportional rate reduction sets some window.
LEMMA PrrWindowIs ==
    ASSUME NEW s, Types(s), NEW c, c.delivered \in Int, c.rtxAcked \in BOOLEAN,
           s.prr.flightSize > 0
    PROVE  Tunes(s, PrrWindow(s, c)) /\ PrrWindow(s, c).prr = s.prr
<1> DEFINE n == SendCount(s, c)
           m == IF s.prr.out > 0 THEN 0 ELSE SegmentSize
           w == s.flight + MaxOf(n, m)
<1>1. s.prr.delivered \in Int /\ s.prr.out \in Nat /\ s.prr.flightSize \in Nat
      /\ s.ssThresh \in Nat /\ s.flight \in Nat /\ SegmentSize \in Nat
  BY TxBufferAssumption DEF Types, Prr
<1>2. n \in Int
  <2>1. SlowStartBound(s, c) \in Int
    BY <1>1 DEF SlowStartBound, MaxOf
  <2> DEFINE p == s.prr.delivered * s.ssThresh
             z == CeilDiv(p, s.prr.flightSize)
  <2>2. p \in Int
    BY <1>1
  <2> HIDE DEF p
  <2>3. z \in Int
    BY <1>1, <2>2 DEF CeilDiv
  <2>4. n = IF s.flight > s.ssThresh THEN z - s.prr.out
            ELSE MinOf(SlowStartBound(s, c), s.ssThresh - s.flight)
    BY DEF SendCount, p
  <2> HIDE DEF z, n
  <2> QED BY <1>1, <2>1, <2>3, <2>4 DEF MinOf
<1> HIDE DEF n
<1>3. w \in Nat
  BY <1>1, <1>2 DEF MaxOf
<1>4. PrrWindow(s, c) = [s EXCEPT !.cWnd = w]
  BY DEF PrrWindow, n
<1> HIDE DEF w
<1> QED BY <1>3, <1>4, WindowIs

\* Another account of what was delivered.
LEMMA AccountIs ==
    ASSUME NEW s, Types(s), NEW p \in Prr
    PROVE  Tunes(s, [s EXCEPT !.prr = p]) /\ [s EXCEPT !.prr = p].prr = p
<1>1. DOMAIN s = Fields
  BY DEF Types
<1> DEFINE t == [s EXCEPT !.prr = p]
<1>2. Same(s, t, {"prr"}) /\ t.prr = p
  BY <1>1 DEF Same, Fields
<1> HIDE DEF t
<1>3. t.cWnd = s.cWnd /\ t.ssThresh = s.ssThresh
  BY <1>2 DEF Same, Fields
<1> QED BY <1>2, <1>3 DEF Tunes, Types, Same, t

LEMMA PrrDoIs ==
    ASSUME NEW s, Types(s), NEW c, c.delivered \in Int, c.rtxAcked \in BOOLEAN,
           s.prr.flightSize > 0
    PROVE  Tunes(s, PrrDoRecovery(s, c))
           /\ PrrDoRecovery(s, c).prr.flightSize = s.prr.flightSize
<1> DEFINE p == [s.prr EXCEPT !.delivered = s.prr.delivered + c.delivered]
           t == [s EXCEPT !.prr = p]
<1>1. p \in Prr /\ p.flightSize = s.prr.flightSize
  BY DEF Types, Prr
<1>2. PrrDoRecovery(s, c) = PrrWindow(t, c)
  BY DEF PrrDoRecovery
<1> HIDE DEF p
<1>3. Tunes(s, t) /\ t.prr = p
  BY <1>1, AccountIs
<1> HIDE DEF t
<1>4. Types(t)
  BY <1>3, TunesTypes
<1>5. Tunes(t, PrrWindow(t, c)) /\ PrrWindow(t, c).prr = t.prr
  BY <1>1, <1>3, <1>4, PrrWindowIs
<1> QED BY <1>1, <1>2, <1>3, <1>5, TunesChain

LEMMA DoIs ==
    ASSUME NEW s, Types(s), NEW c, COk(s, c), s.alg = "prr" => s.prr.flightSize > 0
    PROVE  Tunes(s, OpsDoRecovery(s, c))
           /\ OpsDoRecovery(s, c).prr.flightSize = s.prr.flightSize
<1>1. CASE s.alg = "any"
  <2> DEFINE w == c.window
  <2>1. OpsDoRecovery(s, c) = [s EXCEPT !.cWnd = w] /\ w \in Nat
    BY <1>1 DEF OpsDoRecovery, COk
  <2> HIDE DEF w
  <2> QED BY <2>1, WindowIs
<1>2. CASE s.alg = "classic"
  BY <1>2, TunesSelf DEF OpsDoRecovery
<1>3. CASE s.alg = "prr"
  <2>1. OpsDoRecovery(s, c) = PrrDoRecovery(s, c)
    BY <1>3 DEF OpsDoRecovery
  <2>2. c.delivered \in Int /\ c.rtxAcked \in BOOLEAN
    BY <1>3 DEF COk
  <2> QED BY <1>3, <2>1, <2>2, PrrDoIs
<1> QED BY <1>1, <1>2, <1>3 DEF Types

LEMMA EnterIs ==
    ASSUME NEW s, Types(s), NEW c, COk(s, c), NEW n \in Nat, n > 0
    PROVE  LET t == OpsEnterRecovery(s, n, c)
           IN  Tunes(s, t) /\ (s.alg = "prr" => t.prr.flightSize > 0)
<1>1. CASE s.alg = "any"
  <2> DEFINE w == c.window
  <2>1. OpsEnterRecovery(s, n, c) = [s EXCEPT !.cWnd = w] /\ w \in Nat
    BY <1>1 DEF OpsEnterRecovery, COk
  <2> HIDE DEF w
  <2> QED BY <1>1, <2>1, WindowIs
<1>2. CASE s.alg = "classic"
  <2> DEFINE w == s.ssThresh
  <2>1. OpsEnterRecovery(s, n, c) = [s EXCEPT !.cWnd = w] /\ w \in Nat
    BY <1>2 DEF OpsEnterRecovery, Types
  <2> HIDE DEF w
  <2> QED BY <1>2, <2>1, WindowIs
<1>3. CASE s.alg = "prr"
  <2> DEFINE p == [NoPrr EXCEPT !.flightSize = n]
             t == [s EXCEPT !.prr = p]
  <2>1. p \in Prr /\ p.flightSize = n
    BY DEF NoPrr, Prr
  <2>2. OpsEnterRecovery(s, n, c) = PrrDoRecovery(t, c)
    BY <1>3 DEF OpsEnterRecovery, PrrEnterRecovery
  <2> HIDE DEF p
  <2>3. Tunes(s, t) /\ t.prr = p
    BY <2>1, AccountIs
  <2> HIDE DEF t
  <2>4. Types(t)
    BY <2>3, TunesTypes
  <2>5. c.delivered \in Int /\ c.rtxAcked \in BOOLEAN
    BY <1>3 DEF COk
  <2>6. Tunes(t, PrrDoRecovery(t, c)) /\ PrrDoRecovery(t, c).prr.flightSize = t.prr.flightSize
    BY <2>1, <2>3, <2>4, <2>5, PrrDoIs
  <2> QED BY <2>1, <2>2, <2>3, <2>6, TunesChain
<1> QED BY <1>1, <1>2, <1>3 DEF Types
-----------------------------------------------------------------------------
(***************************************************************************)
(* What the handlers keep.                                                 *)
(***************************************************************************)
LEMMA KeepsSelf ==
    ASSUME NEW s, Types(s)
    PROVE  Keeps(s, s)
BY DEF Keeps, Same, Types

LEMMA KeepsChain ==
    ASSUME NEW s, NEW t, NEW u, Types(s), Types(t), Types(u), Keeps(s, t), Keeps(t, u)
    PROVE  Keeps(s, u)
<1>1. Same(s, u, Working)
  BY DEF Keeps, Same
<1>2. s.highTx <= u.highTx
  BY DEF Keeps, Types
<1>3. t.sackEnabled = s.sackEnabled
  BY DEF Keeps, Same, Working, Fields
<1> QED BY <1>1, <1>2, <1>3 DEF Keeps

LEMMA SendsKeeps ==
    ASSUME NEW s, Calm(s), NEW t, Sends(s, t)
    PROVE  /\ Calm(t) /\ Keeps(s, t) /\ (Counts(s) => Counts(t))
           /\ t.congState = s.congState /\ t.recover = s.recover
<1>1. /\ t.congState = s.congState /\ t.recover = s.recover /\ t.dupAcks = s.dupAcks
      /\ t.sackEnabled = s.sackEnabled /\ t.recoverActive = s.recoverActive
      /\ t.highRxAck = s.highRxAck /\ t.alg = s.alg /\ t.cWnd = s.cWnd
  BY DEF Sends, Same, Sending, Fields
<1>2. /\ TxOk(s.tx) /\ TxOk(t.tx) /\ Further(s.tx, t.tx) /\ Ready(t)
      /\ s.highTx \in Nat /\ t.highTx \in Nat
      /\ s.highTx = HighData(s.tx) /\ t.highTx = HighData(t.tx)
      /\ s.recover \in Nat
  BY DEF Calm, Sends, Ready, Types
<1>3. s.highTx <= t.highTx
  BY <1>2 DEF Further
<1>4. Board(t)
  <2>1. t.tx.first \notin Sacked(t.tx)
    BY <1>2 DEF Calm, Board, Further
  <2>2. ASSUME NEW b \in Lost(t.tx)
        PROVE  LostOk(t, b)
    <3>1. b \in Lost(s.tx) /\ b \in Out(s.tx)
      BY <1>2, <2>2, TxIs DEF Further
    <3>2. s.tx.sent # <<>> /\ b \in Int
      BY <1>2, <3>1, TxExtent DEF TxOk, Out
    <3>3. HeadEnd(s.tx) \in Nat /\ HeadEnd(t.tx) \in Nat /\ HeadEnd(s.tx) <= HeadEnd(t.tx)
      BY <1>2, <3>2, HeadNat DEF Further
    <3>4. Behind(t.tx, b) = Behind(s.tx, b)
      BY <1>2 DEF Further, Behind
    <3>5. LostOk(s, b)
      BY <3>1 DEF Calm, Board
    <3> QED BY <1>1, <3>2, <3>3, <3>4, <3>5 DEF LostOk, Enough
  <2>3. t.sackEnabled => HighOk(t.tx)
    BY <1>1, <1>2 DEF Calm, Board, Further, HighOk
  <2>4. ~t.sackEnabled /\ t.congState = "LOSS" => Sacked(t.tx) = {}
    BY <1>1, <1>2 DEF Calm, Board, Further
  <2> QED BY <2>1, <2>2, <2>3, <2>4 DEF Board
<1>5. Cong(t)
  <2>1. t.prr.flightSize = s.prr.flightSize
    BY DEF Sends
  <2> QED BY <1>1, <1>2, <1>3, <2>1 DEF Calm, Cong
<1>6. Keeps(s, t)
  <2>1. Same(s, t, Working)
    BY DEF Sends, Same, Sending, Working
  <2> QED BY <1>2, <1>3, <2>1 DEF Keeps, Further, Sends
<1>7. Calm(t)
  BY <1>2, <1>4, <1>5 DEF Calm, Further
<1>8. Counts(s) => Counts(t)
  BY <1>1 DEF Counts
<1> QED BY <1>1, <1>6, <1>7, <1>8

LEMMA PlainKeeps ==
    ASSUME NEW s, Calm(s), NEW t, Same(s, t, Plain), Types(t), t.nextTx <= t.highTx,
           t.cWnd = 0 => t.congState = "RECOVERY",
           t.congState = "RECOVERY" /\ t.alg = "prr" => t.prr.flightSize > 0
    PROVE  /\ Calm(t) /\ Keeps(s, t) /\ t.congState = s.congState /\ t.recover = s.recover
           /\ t.tx = s.tx /\ t.state = s.state /\ t.out = s.out /\ t.highTx = s.highTx
<1>1. /\ t.congState = s.congState /\ t.recover = s.recover
      /\ t.sackEnabled = s.sackEnabled /\ t.recoverActive = s.recoverActive
      /\ t.highRxAck = s.highRxAck /\ t.alg = s.alg /\ t.rWnd = s.rWnd
      /\ t.tx = s.tx /\ t.state = s.state /\ t.out = s.out /\ t.highTx = s.highTx
  BY DEF Same, Plain, Fields
<1>2. Ready(t)
  BY <1>1 DEF Calm, Ready, OutOk, SentOk
<1>3. Board(t)
  BY <1>1 DEF Calm, Board, LostOk
<1>4. Cong(t)
  BY <1>1 DEF Calm, Cong
<1>5. Same(s, t, Working)
  BY DEF Same, Plain, Working
<1>6. s.highTx <= t.highTx
  BY <1>1 DEF Types
<1>7. Keeps(s, t)
  BY <1>1, <1>5, <1>6 DEF Keeps
<1> QED BY <1>1, <1>2, <1>3, <1>4, <1>7 DEF Calm

LEMMA TunesKeeps ==
    ASSUME NEW s, Calm(s), NEW t, Tunes(s, t),
           t.cWnd = 0 => s.congState = "RECOVERY",
           s.congState = "RECOVERY" /\ s.alg = "prr" => t.prr.flightSize > 0
    PROVE  /\ Calm(t) /\ Keeps(s, t) /\ t.congState = s.congState /\ t.recover = s.recover
           /\ t.tx = s.tx /\ t.state = s.state /\ t.out = s.out /\ t.highTx = s.highTx
           /\ t.dupAcks = s.dupAcks /\ t.retx = s.retx /\ t.nextTx = s.nextTx
           /\ t.sackEnabled = s.sackEnabled /\ t.alg = s.alg
<1>1. Types(s)
  BY DEF Calm, Ready
<1>2. Types(t)
  BY <1>1, TunesTypes
<1>3. /\ t.congState = s.congState /\ t.nextTx = s.nextTx /\ t.highTx = s.highTx
      /\ t.alg = s.alg /\ t.dupAcks = s.dupAcks /\ t.retx = s.retx
      /\ t.sackEnabled = s.sackEnabled
  BY DEF Tunes, Same, Fields
<1>4. Same(s, t, Plain)
  BY DEF Tunes, Same, Plain
<1>5. t.nextTx <= t.highTx
  BY <1>3 DEF Calm, Ready
<1> QED BY <1>2, <1>3, <1>4, <1>5, PlainKeeps
\* Another buffer of the same extent.
LEMMA BufferIs ==
    ASSUME NEW s, Calm(s), NEW tx, TxOk(tx), SameExtent(s.tx, tx),
           s.out = {} \/ Sacked(tx) = Sacked(s.tx),
           s.sackEnabled => Sacked(tx) = Sacked(s.tx),
           Board([s EXCEPT !.tx = tx])
    PROVE  LET t == [s EXCEPT !.tx = tx]
           IN  Calm(t) /\ Keeps(s, t) /\ Same(s, t, {"tx"}) /\ t.tx = tx
<1> DEFINE t == [s EXCEPT !.tx = tx]
<1>1. DOMAIN s = Fields
  BY DEF Calm, Ready, Types
<1>2. Same(s, t, {"tx"}) /\ t.tx = tx
  BY <1>1 DEF Same, Fields
<1>3. Board(t)
  OBVIOUS
<1> HIDE DEF t
<1>4. /\ t.state = s.state /\ t.congState = s.congState /\ t.nextTx = s.nextTx
      /\ t.highTx = s.highTx /\ t.highRxAck = s.highRxAck /\ t.dupAcks = s.dupAcks
      /\ t.recover = s.recover /\ t.recoverActive = s.recoverActive
      /\ t.firstPartial = s.firstPartial /\ t.alg = s.alg /\ t.cWnd = s.cWnd
      /\ t.ssThresh = s.ssThresh /\ t.flight = s.flight /\ t.prr = s.prr
  BY <1>2 DEF Same, Fields
<1>5. /\ t.notProcessed = s.notProcessed /\ t.rWnd = s.rWnd /\ t.retries = s.retries
      /\ t.retx = s.retx /\ t.persist = s.persist /\ t.pending = s.pending
      /\ t.sackEnabled = s.sackEnabled /\ t.noDelay = s.noDelay /\ t.out = s.out
  BY <1>2 DEF Same, Fields
<1>6. Types(t)
  BY <1>2, <1>4, <1>5 DEF Types, Calm, Ready, Same
<1>7. OutOk(t)
  BY <1>2, <1>4, <1>5 DEF Calm, Ready, OutOk, SentOk
<1>8. tx.first = s.tx.first /\ HighData(tx) = HighData(s.tx) /\ tx.app = s.tx.app
      /\ (s.tx.sent # <<>> => tx.sent # <<>>)
  BY DEF SameExtent
<1>9. Ready(t)
  BY <1>2, <1>4, <1>5, <1>6, <1>7, <1>8 DEF Calm, Ready
<1>10. Cong(t)
  BY <1>4 DEF Calm, Cong
<1>11. TailSequence(t.tx) <= StreamLength + 1
  BY <1>2, <1>8 DEF Calm, TailSequence
<1>12. Same(s, t, Working)
  BY <1>2 DEF Same, Working
<1>13. s.highTx <= t.highTx
  BY <1>4, <1>6 DEF Types
<1>14. Keeps(s, t)
  BY <1>2, <1>4, <1>8, <1>12, <1>13 DEF Keeps
<1> QED BY <1>2, <1>3, <1>9, <1>10, <1>11, <1>14 DEF Calm, t

\* Without SACK and away from a timeout, nothing but the head is lost.
LEMMA HeadOnly ==
    ASSUME NEW s, Board(s), ~s.sackEnabled, s.congState # "LOSS"
    PROVE  \A b \in Lost(s.tx) : b < HeadEnd(s.tx)
BY DEF Board, LostOk

LEMMA RenoKeeps ==
    ASSUME NEW s, Calm(s), s.out = {}, s.congState # "LOSS"
    PROVE  LET t == RenoSack(s)
           IN  Calm(t) /\ Keeps(s, t) /\ Same(s, t, {"tx"}) /\ SameExtent(s.tx, t.tx)
<1>0. Types(s) /\ TxOk(s.tx)
  BY DEF Calm, Ready, Types
<1>1. CASE s.sackEnabled
  <2>1. RenoSack(s) = s
    BY <1>1 DEF RenoSack
  <2>2. Same(s, s, {"tx"})
    BY <1>0 DEF Same, Types
  <2> QED BY <1>0, <2>1, <2>2, KeepsSelf, SameSelf
<1>2. CASE ~s.sackEnabled
  <2> DEFINE tx == AddRenoSack(s.tx)
             t == [s EXCEPT !.tx = tx]
  <2>1. RenoSack(s) = t
    BY <1>2 DEF RenoSack
  <2>2. \A b \in Lost(s.tx) : b < HeadEnd(s.tx)
    BY <1>2, HeadOnly DEF Calm
  <2>3. /\ TxOk(tx) /\ SameExtent(s.tx, tx) /\ Lost(tx) = Lost(s.tx)
        /\ tx.first \in Sacked(tx) => tx.first \in Sacked(s.tx)
    <3>1. /\ TxOk(tx) /\ SameExtent(s.tx, tx) /\ Lost(tx) = Lost(s.tx)
          /\ s.tx.first \in Sacked(tx) => s.tx.first \in Sacked(s.tx)
      BY <1>0, <2>2, RenoIs
    <3>2. tx.first = s.tx.first
      BY <3>1 DEF SameExtent
    <3> QED BY <3>1, <3>2
  <2> HIDE DEF tx
  <2>4. DOMAIN s = Fields
    BY <1>0 DEF Types
  <2>5. t.tx = tx /\ t.sackEnabled = s.sackEnabled /\ t.congState = s.congState
    BY <2>4 DEF Fields
  <2> HIDE DEF t
  <2>6. Board(t)
    <3>1. tx.first \notin Sacked(tx)
      <4>1. tx.first = s.tx.first
        BY <2>3 DEF SameExtent
      <4> QED BY <2>3, <4>1 DEF Calm, Board
    <3>2. ASSUME NEW b \in Lost(tx)
          PROVE  LostOk(t, b)
      <4>1. b < HeadEnd(s.tx)
        BY <2>2, <2>3
      <4>2. s.tx.sent # <<>>
        <5>1. b \in Out(s.tx)
          BY <1>0, <2>3, TxIs
        <5> QED BY <1>0, <5>1, TxExtent DEF TxOk, Out
      <4>3. HeadEnd(tx) = HeadEnd(s.tx)
        BY <1>0, <2>3, <4>2, SameHead
      <4> QED BY <2>5, <4>1, <4>3 DEF LostOk
    <3> QED BY <1>2, <2>5, <3>1, <3>2 DEF Board
  <2>7. Calm(t) /\ Keeps(s, t) /\ Same(s, t, {"tx"}) /\ t.tx = tx
    BY <1>2, <2>3, <2>6, BufferIs DEF t
  <2> QED BY <2>1, <2>3, <2>7
<1> QED BY <1>0, <1>1, <1>2 DEF Types

LEMMA HeadKeeps ==
    ASSUME NEW s, Calm(s), s.tx.sent # <<>>
    PROVE  LET t == [s EXCEPT !.tx = MarkHeadAsLost(s.tx)]
           IN  Calm(t) /\ Keeps(s, t) /\ Same(s, t, {"tx"}) /\ SameExtent(s.tx, t.tx)
<1> DEFINE tx == MarkHeadAsLost(s.tx)
           t == [s EXCEPT !.tx = tx]
<1>1. Types(s) /\ TxOk(s.tx) /\ DOMAIN s = Fields /\ Board(s)
  BY DEF Calm, Ready, Types
<1>2. s.tx.first \notin Sacked(s.tx)
  BY DEF Calm, Board
<1>3. /\ TxOk(tx) /\ SameExtent(s.tx, tx) /\ tx.high = s.tx.high
      /\ Sacked(tx) = Sacked(s.tx) /\ Starts(tx.sent) = Starts(s.tx.sent)
      /\ Lost(tx) = Lost(s.tx) \union HeadBytes(s.tx)
  BY <1>1, <1>2, HeadLost
<1> HIDE DEF tx
<1>4. t.tx = tx /\ t.sackEnabled = s.sackEnabled /\ t.congState = s.congState
      /\ t.recover = s.recover
  BY <1>1 DEF Fields
<1> HIDE DEF t
<1>5. HeadEnd(tx) = HeadEnd(s.tx)
  BY <1>1, <1>3, SameHead
<1>6. Board(t)
  <2>1. tx.first \notin Sacked(tx)
    BY <1>2, <1>3 DEF SameExtent
  <2>2. ASSUME NEW b \in Lost(tx)
        PROVE  LostOk(t, b)
    <3>1. CASE b \in HeadBytes(s.tx)
      <4>1. b < HeadEnd(s.tx)
        BY <1>1, <3>1, HeadIs DEF HeadBytes
      <4> QED BY <1>4, <1>5, <4>1 DEF LostOk
    <3>2. CASE b \in Lost(s.tx)
      <4>1. LostOk(s, b)
        BY <1>1, <3>2 DEF Board
      <4>2. Behind(tx, b) = Behind(s.tx, b)
        BY <1>3 DEF Behind
      <4> QED BY <1>4, <1>5, <4>1, <4>2 DEF LostOk, Enough
    <3> QED BY <1>3, <2>2, <3>1, <3>2
  <2> QED BY <1>1, <1>3, <1>4, <2>1, <2>2 DEF Board, HighOk
<1>7. Calm(t) /\ Keeps(s, t) /\ Same(s, t, {"tx"}) /\ t.tx = tx
  BY <1>3, <1>6, BufferIs DEF t
<1> QED BY <1>3, <1>7 DEF t, tx
LEMMA EnteringIs ==
    ASSUME NEW s, Calm(s), s.congState # "LOSS", NEW n \in Nat, NEW c, COk(s, c),
           s.tx.sent # <<>>
    PROVE  LET t == Entering(s, s.tx)
               v == OpsEnterRecovery(Reduce(t, n), UnAckDataCount(s), c)
           IN  /\ Calm(v) /\ Keeps(s, v) /\ v.tx = s.tx /\ v.recover = s.highTx
               /\ v.congState = "RECOVERY"
<1> DEFINE t == Entering(s, s.tx)
           r == Reduce(t, n)
           v == OpsEnterRecovery(r, UnAckDataCount(s), c)
           G == {"congState", "flight", "recover", "recoverActive"}
<1>1. Types(s) /\ TxOk(s.tx) /\ DOMAIN s = Fields /\ Ready(s) /\ Cong(s) /\ Board(s)
  BY DEF Calm, Ready, Types
<1>2. BytesInFlight(s.tx) \in Nat
  BY <1>1, TxIs
<1>3. Same(s, t, G) /\ t.congState = "RECOVERY" /\ t.flight = BytesInFlight(s.tx)
      /\ t.recover = s.highTx /\ t.recoverActive = TRUE
  BY <1>1 DEF Same, Fields, Entering
<1> HIDE DEF t
<1>4. Types(t)
  <2>1. /\ t.tx = s.tx /\ t.state = s.state /\ t.nextTx = s.nextTx /\ t.highTx = s.highTx
        /\ t.highRxAck = s.highRxAck /\ t.dupAcks = s.dupAcks
        /\ t.firstPartial = s.firstPartial /\ t.alg = s.alg /\ t.cWnd = s.cWnd
        /\ t.ssThresh = s.ssThresh /\ t.prr = s.prr
        /\ t.notProcessed = s.notProcessed /\ t.rWnd = s.rWnd /\ t.retries = s.retries
        /\ t.retx = s.retx /\ t.persist = s.persist /\ t.pending = s.pending
        /\ t.sackEnabled = s.sackEnabled /\ t.noDelay = s.noDelay
    BY <1>3 DEF Same, Fields
  <2> QED BY <1>1, <1>2, <1>3, <2>1 DEF Types, Same
<1>5. Tunes(t, r)
  BY <1>4, ReduceIs
<1>6. Types(r) /\ r.alg = s.alg
  <2>1. r.alg = t.alg /\ t.alg = s.alg
    BY <1>3, <1>5 DEF Tunes, Same, Fields
  <2> QED BY <1>4, <1>5, <2>1, TunesTypes
<1>7. UnAckDataCount(s) \in Nat /\ UnAckDataCount(s) > 0
  <2>1. s.tx.first \in Nat /\ HighData(s.tx) \in Nat /\ s.tx.first < HighData(s.tx)
    BY <1>1, TxExtent DEF TxOk
  <2> QED BY <1>1, <2>1 DEF UnAckDataCount, Ready
<1> HIDE DEF r
<1>8. COk(r, c)
  BY <1>6 DEF COk
<1>9. Tunes(r, v) /\ (r.alg = "prr" => v.prr.flightSize > 0)
  BY <1>6, <1>7, <1>8, EnterIs
<1> HIDE DEF v
<1>10. Tunes(t, v) /\ Types(v)
  BY <1>4, <1>5, <1>9, TunesChain, TunesTypes
<1>11. /\ v.tx = s.tx /\ v.state = s.state /\ v.nextTx = s.nextTx /\ v.highTx = s.highTx
       /\ v.highRxAck = s.highRxAck /\ v.alg = s.alg /\ v.rWnd = s.rWnd
       /\ v.sackEnabled = s.sackEnabled /\ v.out = s.out
       /\ v.congState = "RECOVERY" /\ v.recover = s.highTx /\ v.recoverActive = TRUE
  BY <1>3, <1>10 DEF Tunes, Same, Fields
<1>12. Ready(v)
  BY <1>1, <1>10, <1>11 DEF Ready, OutOk, SentOk
<1>13. Board(v)
  BY <1>1, <1>11 DEF Board, LostOk
<1>14. Cong(v)
  <2>1. v.recover <= v.highTx
    BY <1>1, <1>11 DEF Types
  <2> QED BY <1>6, <1>9, <1>11, <2>1 DEF Cong
<1>15. TailSequence(v.tx) <= StreamLength + 1
  BY <1>11 DEF Calm
<1>16. Keeps(s, v)
  <2>1. Same(s, v, Working)
    BY <1>3, <1>10 DEF Tunes, Same, Working
  <2>2. s.highTx <= v.highTx
    BY <1>1, <1>11 DEF Types
  <2> QED BY <1>11, <2>1, <2>2 DEF Keeps
<1> QED BY <1>11, <1>12, <1>13, <1>14, <1>15, <1>16 DEF Calm, v, r, t

LEMMA EnterKeeps ==
    ASSUME NEW s, Calm(s), s.out = {}, s.congState # "LOSS", NEW c, COk(s, c), s.tx.sent # <<>>
    PROVE  LET t == EnterRecovery(s, c)
           IN  /\ Calm(t) /\ Keeps(s, t) /\ Watched(t) /\ t.congState = "RECOVERY"
               /\ t.recover = s.highTx
<1> DEFINE tx == IF ~s.sackEnabled THEN MarkHeadAsLost(AddRenoSack(s.tx))
                 ELSE IF IsLost(s.tx, s.tx.first) THEN s.tx
                 ELSE MarkHeadAsLost(s.tx)
           u == [s EXCEPT !.tx = tx]
           e == Entering(s, tx)
           n == IF s.sackEnabled THEN e.flight ELSE e.flight + SegmentSize
           v == OpsEnterRecovery(Reduce(e, n), UnAckDataCount(s), c)
           t == DoRetransmit(v)
<1>1. EnterRecovery(s, c) = t
  BY DEF EnterRecovery, Entering
<1>2. Types(s) /\ TxOk(s.tx) /\ DOMAIN s = Fields /\ Board(s)
  BY DEF Calm, Ready, Types
<1>3. Calm(u) /\ Keeps(s, u) /\ Same(s, u, {"tx"}) /\ u.tx.sent # <<>> /\ u.tx = tx
  <2>1. CASE ~s.sackEnabled
    <3> DEFINE r == RenoSack(s)
               h == [r EXCEPT !.tx = MarkHeadAsLost(r.tx)]
    <3>1. Calm(r) /\ Keeps(s, r) /\ Same(s, r, {"tx"}) /\ SameExtent(s.tx, r.tx)
      BY RenoKeeps
    <3>2. r = [s EXCEPT !.tx = AddRenoSack(s.tx)]
      BY <2>1 DEF RenoSack
    <3>3. r.tx = AddRenoSack(s.tx)
      BY <1>2, <3>2 DEF Fields
    <3>4. r.tx.sent # <<>>
      BY <3>1 DEF SameExtent
    <3>5. Calm(h) /\ Keeps(r, h) /\ Same(r, h, {"tx"}) /\ SameExtent(r.tx, h.tx)
      BY <3>1, <3>4, HeadKeeps
    <3>6. u = h
      BY <1>2, <2>1, <3>2, <3>3 DEF Fields
    <3>7. Types(r) /\ Types(h)
      BY <3>1, <3>5 DEF Calm, Ready
    <3> HIDE DEF r
    <3>8. h.tx = tx
      BY <2>1, <3>3, <3>7 DEF Types, Fields
    <3> HIDE DEF h, u, tx
    <3>9. Keeps(s, h)
      BY <1>2, <3>1, <3>5, <3>7, KeepsChain
    <3>10. Same(s, h, {"tx"})
      BY <3>1, <3>5 DEF Same
    <3>11. h.tx.sent # <<>>
      BY <3>4, <3>5 DEF SameExtent
    <3> QED BY <3>5, <3>6, <3>8, <3>9, <3>10, <3>11
  <2>2. CASE s.sackEnabled /\ IsLost(s.tx, s.tx.first)
    <3>1. tx = s.tx
      BY <2>2
    <3>2. u.tx = s.tx /\ u.sackEnabled = s.sackEnabled /\ u.congState = s.congState
          /\ u.recover = s.recover
      BY <1>2, <3>1 DEF Fields
    <3>3. Board(u)
      <4> HIDE DEF u
      <4> QED BY <1>2, <3>2 DEF Board, LostOk
    <3>4. Calm(u) /\ Keeps(s, u) /\ Same(s, u, {"tx"}) /\ u.tx = tx
      BY <1>2, <3>1, <3>3, SameSelf, BufferIs
    <3> HIDE DEF u
    <3> QED BY <3>1, <3>4
  <2>3. CASE s.sackEnabled /\ ~IsLost(s.tx, s.tx.first)
    <3>1. tx = MarkHeadAsLost(s.tx)
      BY <2>3
    <3>2. /\ Calm(u) /\ Keeps(s, u) /\ Same(s, u, {"tx"}) /\ SameExtent(s.tx, u.tx)
      BY <3>1, HeadKeeps
    <3>3. u.tx = tx
      BY <1>2 DEF Fields
    <3> HIDE DEF u
    <3> QED BY <3>2, <3>3 DEF SameExtent
  <2> QED BY <1>2, <2>1, <2>2, <2>3 DEF Types
<1> HIDE DEF tx
<1>4. e = Entering(u, u.tx) /\ e.flight = BytesInFlight(tx)
  BY <1>2 DEF Entering, Fields
<1>5. TxOk(tx) /\ u.highTx = s.highTx /\ u.alg = s.alg /\ u.tx.first = s.tx.first
  <2>1. u.highTx = s.highTx /\ u.alg = s.alg
    BY <1>3 DEF Same, Fields
  <2> HIDE DEF u
  <2> QED BY <1>3, <2>1 DEF Calm, Ready, Types, Keeps
<1>6. n \in Nat
  <2>1. BytesInFlight(tx) \in Nat
    BY <1>5, TxIs
  <2> QED BY <1>4, <2>1, TxBufferAssumption
<1>7. UnAckDataCount(s) = UnAckDataCount(u)
  BY <1>5 DEF UnAckDataCount
<1> HIDE DEF n, u, e
<1>8. COk(u, c)
  BY <1>5 DEF COk
<1>9. /\ Calm(v) /\ Keeps(u, v) /\ v.tx = u.tx /\ v.recover = u.highTx
      /\ v.congState = "RECOVERY"
  <2>1. u.congState # "LOSS"
    BY <1>3 DEF Same, Fields
  <2> QED BY <1>3, <1>4, <1>6, <1>7, <1>8, <2>1, EnteringIs
<1> HIDE DEF v
<1>10. Sends(v, t) /\ Watched(t)
  <2>1. Ready(v) /\ v.tx.sent # <<>> /\ v.tx.first \notin Sacked(v.tx)
    BY <1>3, <1>9 DEF Calm, Board
  <2> QED BY <2>1, RetransmitSends
<1> HIDE DEF t
<1>11. Calm(t) /\ Keeps(v, t) /\ t.congState = v.congState /\ t.recover = v.recover
  BY <1>9, <1>10, SendsKeeps
<1>12. Keeps(s, t)
  <2>1. Types(u) /\ Types(v) /\ Types(t)
    BY <1>3, <1>9, <1>11 DEF Calm, Ready
  <2> QED BY <1>2, <1>3, <1>9, <1>11, <2>1, KeepsChain
<1> QED BY <1>1, <1>5, <1>9, <1>10, <1>11, <1>12
\* A duplicate is counted.
LEMMA CountKeeps ==
    ASSUME NEW s, Calm(s), s.congState \in {"OPEN", "DISORDER"}
    PROVE  LET t == CountDuplicate(s)
           IN  /\ Calm(t) /\ Keeps(s, t) /\ t.congState = "DISORDER" /\ t.tx = s.tx
               /\ t.dupAcks = s.dupAcks + 1 /\ t.retx = s.retx /\ t.state = s.state
               /\ t.out = s.out /\ t.alg = s.alg /\ t.highTx = s.highTx
               /\ t.recoverActive = s.recoverActive
<1> DEFINE t == CountDuplicate(s)
<1>1. Types(s) /\ DOMAIN s = Fields /\ Ready(s) /\ Board(s) /\ Cong(s)
  BY DEF Calm, Ready, Types
<1>2. Same(s, t, {"dupAcks", "congState"}) /\ t.congState = "DISORDER"
      /\ t.dupAcks = s.dupAcks + 1
  BY <1>1 DEF Same, Fields, CountDuplicate
<1> HIDE DEF t
<1>3. /\ t.tx = s.tx /\ t.state = s.state /\ t.nextTx = s.nextTx /\ t.highTx = s.highTx
      /\ t.highRxAck = s.highRxAck /\ t.recover = s.recover
      /\ t.recoverActive = s.recoverActive
      /\ t.firstPartial = s.firstPartial /\ t.alg = s.alg /\ t.cWnd = s.cWnd
      /\ t.ssThresh = s.ssThresh /\ t.flight = s.flight /\ t.prr = s.prr
  BY <1>2 DEF Same, Fields
<1>4. /\ t.notProcessed = s.notProcessed /\ t.rWnd = s.rWnd /\ t.retries = s.retries
      /\ t.retx = s.retx /\ t.persist = s.persist /\ t.pending = s.pending
      /\ t.sackEnabled = s.sackEnabled /\ t.noDelay = s.noDelay /\ t.out = s.out
  BY <1>2 DEF Same, Fields
<1>5. Types(t)
  BY <1>1, <1>2, <1>3, <1>4 DEF Types, Same
<1>6. Ready(t)
  BY <1>1, <1>3, <1>4, <1>5 DEF Ready, OutOk, SentOk
<1>7. Board(t)
  BY <1>1, <1>2, <1>3, <1>4 DEF Board, LostOk
<1>8. Cong(t)
  BY <1>1, <1>2, <1>3 DEF Cong
<1>9. TailSequence(t.tx) <= StreamLength + 1
  BY <1>3 DEF Calm
<1>10. Keeps(s, t)
  <2>1. Same(s, t, Working)
    BY <1>2 DEF Same, Working
  <2>2. s.highTx <= t.highTx
    BY <1>3, <1>5 DEF Types
  <2> QED BY <1>3, <2>1, <2>2 DEF Keeps
<1> QED BY <1>2, <1>3, <1>4, <1>6, <1>7, <1>8, <1>9, <1>10 DEF Calm, t

LEMMA DisorderKeeps ==
    ASSUME NEW s, Calm(s), s.congState = "DISORDER", s.dupAcks \in 1 .. ReTxThreshold,
           s.out = {}, s.tx.sent # <<>>, NEW c, COk(s, c)
    PROVE  LET t == Disorder(s, c)
           IN  /\ Calm(t) /\ Counts(t) /\ Keeps(s, t) /\ (Watched(s) => Watched(t))
               /\ t.congState # "LOSS" /\ t.congState # "OPEN"
               /\ t.congState = "RECOVERY" => s.tx.first < t.recover
<1>1. TxOk(s.tx) /\ s.highTx = HighData(s.tx) /\ s.highRxAck \in Nat
  BY DEF Calm, Ready, Types
<1>2. CASE LossDetected(s)
  <2> DEFINE t == EnterRecovery(s, c)
  <2>1. Disorder(s, c) = t
    BY <1>2 DEF Disorder
  <2>2. /\ Calm(t) /\ Keeps(s, t) /\ Watched(t) /\ t.congState = "RECOVERY"
        /\ t.recover = s.highTx
    BY EnterKeeps
  <2> HIDE DEF t
  <2>3. s.tx.first < s.highTx
    BY <1>1, TxExtent DEF TxOk
  <2> QED BY <2>1, <2>2, <2>3 DEF Counts
<1>3. CASE ~LossDetected(s)
  <2> DEFINE t == RenoSack(s)
  <2>1. Disorder(s, c) = t
    BY <1>3 DEF Disorder
  <2>2. Calm(t) /\ Keeps(s, t) /\ Same(s, t, {"tx"})
    BY RenoKeeps
  <2> HIDE DEF t
  <2>3. t.congState = s.congState /\ t.dupAcks = s.dupAcks /\ t.retx = s.retx
        /\ t.state = s.state
    BY <2>2 DEF Same, Fields
  <2>4. ~s.recoverActive
    BY DEF Calm, Cong
  <2>5. s.dupAcks # ReTxThreshold
    BY <1>3, <2>4 DEF LossDetected
  <2>6. s.dupAcks > 0 /\ s.dupAcks < ReTxThreshold
    BY <2>5, TxBufferAssumption
  <2> QED BY <2>1, <2>2, <2>3, <2>6 DEF Counts, Watched
<1> QED BY <1>2, <1>3

\* What a duplicate ACK does.
LEMMA DuplicateKeeps ==
    ASSUME NEW s, Calm(s), Counts(s), s.out = {}, s.tx.sent # <<>>, NEW c, COk(s, c)
    PROVE  LET t == DupAck(s, c)
           IN  /\ Calm(t) /\ Counts(t) /\ Keeps(s, t) /\ (Watched(s) => Watched(t))
               /\ s.congState = "LOSS" => t = s
               /\ t.congState = "LOSS" => s.congState = "LOSS"
               /\ t.congState = "RECOVERY" =>
                     \/ s.congState = "RECOVERY" /\ t.recover = s.recover
                     \/ s.congState # "LOSS" /\ s.tx.first < t.recover
<1>0. Types(s)
  BY DEF Calm, Ready
<1>1. CASE s.congState = "LOSS"
  <2>1. DupAck(s, c) = s
    BY <1>1 DEF DupAck
  <2> QED BY <1>0, <1>1, <2>1, KeepsSelf
<1>2. CASE s.congState = "RECOVERY"
  <2> DEFINE r == RenoSack(s)
             t == OpsDoRecovery(r, c)
  <2>1. DupAck(s, c) = t
    BY <1>2 DEF DupAck
  <2>2. Calm(r) /\ Keeps(s, r) /\ Same(s, r, {"tx"})
    BY <1>2, RenoKeeps
  <2> HIDE DEF r
  <2>3. /\ r.congState = s.congState /\ r.alg = s.alg /\ r.retx = s.retx
        /\ r.state = s.state /\ r.recover = s.recover
    BY <2>2 DEF Same, Fields
  <2>4. Types(r) /\ COk(r, c) /\ (r.alg = "prr" => r.prr.flightSize > 0)
    BY <1>2, <2>2, <2>3 DEF Calm, Ready, COk, Cong
  <2>5. Tunes(r, t) /\ t.prr.flightSize = r.prr.flightSize
    BY <2>4, DoIs
  <2> HIDE DEF t
  <2>6. /\ Calm(t) /\ Keeps(r, t) /\ t.congState = r.congState /\ t.recover = r.recover
        /\ t.state = r.state /\ t.retx = r.retx
    BY <1>2, <2>2, <2>3, <2>4, <2>5, TunesKeeps
  <2>7. Types(t)
    BY <2>6 DEF Calm, Ready
  <2>8. Keeps(s, t)
    BY <1>0, <2>2, <2>4, <2>6, <2>7, KeepsChain
  <2> QED BY <1>2, <2>1, <2>3, <2>6, <2>8 DEF Counts, Watched
<1>3. CASE s.congState \in {"OPEN", "DISORDER"}
  <2> DEFINE d == CountDuplicate(s)
             t == Disorder(d, c)
  <2>1. DupAck(s, c) = t
    BY <1>3 DEF DupAck
  <2>2. /\ Calm(d) /\ Keeps(s, d) /\ d.congState = "DISORDER" /\ d.tx = s.tx
        /\ d.dupAcks = s.dupAcks + 1 /\ d.retx = s.retx /\ d.state = s.state
        /\ d.out = s.out /\ d.alg = s.alg
    BY <1>3, CountKeeps
  <2> HIDE DEF d
  <2>3. d.dupAcks \in 1 .. ReTxThreshold
    <3>1. s.dupAcks \in Nat
      BY <1>0 DEF Types
    <3> QED BY <1>3, <2>2, <3>1, TxBufferAssumption DEF Counts
  <2>4. COk(d, c)
    BY <2>2 DEF COk
  <2>5. /\ Calm(t) /\ Counts(t) /\ Keeps(d, t) /\ (Watched(d) => Watched(t))
        /\ t.congState # "LOSS" /\ t.congState # "OPEN"
        /\ t.congState = "RECOVERY" => d.tx.first < t.recover
    BY <2>2, <2>3, <2>4, DisorderKeeps
  <2> HIDE DEF t
  <2>6. Keeps(s, t)
    <3>1. Types(d) /\ Types(t)
      BY <2>2, <2>5 DEF Calm, Ready
    <3> QED BY <1>0, <2>2, <2>5, <3>1, KeepsChain
  <2>7. Watched(s) => Watched(t)
    BY <2>2, <2>5 DEF Watched
  <2> QED BY <1>3, <2>1, <2>2, <2>5, <2>6, <2>7
<1> QED BY <1>0, <1>1, <1>2, <1>3 DEF Types
\* The buffer that is there.
LEMMA SameBuffer ==
    ASSUME NEW s, Calm(s)
    PROVE  LET t == [s EXCEPT !.tx = s.tx]
           IN  Calm(t) /\ Keeps(s, t) /\ Same(s, t, {"tx"}) /\ t.tx = s.tx
<1> DEFINE t == [s EXCEPT !.tx = s.tx]
<1>1. TxOk(s.tx) /\ DOMAIN s = Fields /\ Board(s)
  BY DEF Calm, Ready, Types
<1>2. t.tx = s.tx /\ t.sackEnabled = s.sackEnabled /\ t.congState = s.congState
      /\ t.recover = s.recover
  BY <1>1 DEF Fields
<1>3. Board(t)
  <2> HIDE DEF t
  <2> QED BY <1>1, <1>2 DEF Board, LostOk
<1> QED BY <1>1, <1>3, SameSelf, BufferIs

\* A buffer with items has bytes.
LEMMA SizeIs ==
    ASSUME NEW s, Ready(s), s.tx.sent # <<>>
    PROVE  Size(s.tx) > 0 /\ s.tx.first < s.highTx /\ s.tx.first \in Nat
<1>1. TxOk(s.tx) /\ s.highTx = HighData(s.tx) /\ s.tx.app \in Nat
  BY DEF Ready, Types, TxOk, Buffers
<1>2. s.tx.first \in Nat /\ HighData(s.tx) \in Nat /\ s.tx.first < HighData(s.tx)
  BY <1>1, TxExtent DEF TxOk
<1>3. TailSequence(s.tx) = HighData(s.tx) + s.tx.app
  BY DEF TailSequence
<1> QED BY <1>1, <1>2, <1>3 DEF Size

\* The timer and the next byte after an ACK of new data.
LEMMA NewAckKeeps ==
    ASSUME NEW s, Calm(s), NEW ack \in Nat, ack <= s.highTx, NEW reset \in BOOLEAN
    PROVE  LET t == NewAck(s, ack, reset)
           IN  /\ Calm(t) /\ Keeps(s, t) /\ t.congState = s.congState /\ t.recover = s.recover
               /\ t.tx = s.tx /\ t.dupAcks = s.dupAcks /\ t.highTx = s.highTx
               /\ ack <= t.nextTx /\ t.nextTx \in Nat /\ t.nextTx <= t.highTx
               /\ s.tx.sent # <<>> /\ (reset \/ Watched(s)) => Watched(t)
<1> DEFINE t == NewAck(s, ack, reset)
<1>1. Types(s) /\ DOMAIN s = Fields /\ Ready(s) /\ Cong(s)
  BY DEF Calm, Ready, Types
<1>2. /\ Same(s, t, {"retries", "retx", "nextTx"}) /\ t.retries = DataRetries
      /\ t.retx = ((s.retx \/ reset) /\ Size(s.tx) > 0) /\ t.nextTx = MaxOf(s.nextTx, ack)
  BY <1>1 DEF Same, Fields, NewAck
<1> HIDE DEF t
<1>3. /\ t.tx = s.tx /\ t.state = s.state /\ t.congState = s.congState /\ t.highTx = s.highTx
      /\ t.highRxAck = s.highRxAck /\ t.dupAcks = s.dupAcks /\ t.recover = s.recover
      /\ t.recoverActive = s.recoverActive
      /\ t.firstPartial = s.firstPartial /\ t.alg = s.alg /\ t.cWnd = s.cWnd
      /\ t.ssThresh = s.ssThresh /\ t.flight = s.flight /\ t.prr = s.prr
  BY <1>2 DEF Same, Fields
<1>4. /\ t.notProcessed = s.notProcessed /\ t.rWnd = s.rWnd
      /\ t.persist = s.persist /\ t.pending = s.pending
      /\ t.sackEnabled = s.sackEnabled /\ t.noDelay = s.noDelay
  BY <1>2 DEF Same, Fields
<1>5. t.nextTx \in Nat /\ t.nextTx <= t.highTx /\ ack <= t.nextTx
  BY <1>1, <1>2, <1>3 DEF Types, Ready, MaxOf
<1>6. t.retries \in 0 .. DataRetries /\ t.retx \in BOOLEAN
  <2>1. DataRetries \in Nat
    BY SenderAssumption
  <2> QED BY <1>2, <2>1
<1>7. Types(t)
  BY <1>1, <1>2, <1>3, <1>4, <1>5, <1>6 DEF Types, Same
<1>8. Same(s, t, Plain)
  BY <1>2 DEF Same, Plain
<1>9. Calm(t) /\ Keeps(s, t)
  BY <1>1, <1>3, <1>5, <1>7, <1>8, PlainKeeps DEF Cong
<1>10. ASSUME s.tx.sent # <<>>, reset \/ Watched(s)
       PROVE  Watched(t)
  <2>1. Size(s.tx) > 0
    BY <1>1, <1>10, SizeIs
  <2> QED BY <1>2, <1>3, <1>10, <2>1 DEF Watched
<1> QED BY <1>3, <1>5, <1>9, <1>10 DEF t

\* What is sent for an ACK below the recovery point.
LEMMA NextKeeps ==
    ASSUME NEW s, Calm(s), s.tx.sent # <<>>, NEW ack
    PROVE  LET t == RetransmitNext(s, ack)
           IN  /\ Calm(t) /\ Keeps(s, t) /\ t.congState = s.congState /\ t.recover = s.recover
               /\ t.firstPartial = s.firstPartial /\ (Watched(s) => Watched(t))
<1>1. Types(s) /\ Ready(s) /\ s.tx.first \notin Sacked(s.tx)
  BY DEF Calm, Ready, Board
<1>2. CASE IsRetransmittedDataAcked(s.tx, ack + SegmentSize)
  <2>1. RetransmitNext(s, ack) = s
    BY <1>2 DEF RetransmitNext
  <2> QED BY <1>1, <2>1, KeepsSelf
<1>3. CASE ~IsRetransmittedDataAcked(s.tx, ack + SegmentSize)
  <2> DEFINE t == DoRetransmit(s)
  <2>1. RetransmitNext(s, ack) = t
    BY <1>3 DEF RetransmitNext
  <2>2. Sends(s, t) /\ Watched(t)
    BY <1>1, RetransmitSends
  <2> HIDE DEF t
  <2>3. Calm(t) /\ Keeps(s, t) /\ t.congState = s.congState /\ t.recover = s.recover
    BY <2>2, SendsKeeps
  <2>4. t.firstPartial = s.firstPartial
    BY <2>2 DEF Sends, Same, Sending, Fields
  <2> QED BY <2>1, <2>2, <2>3, <2>4
<1> QED BY <1>2, <1>3

LEMMA PartialKeeps ==
    ASSUME NEW s, Calm(s), s.congState = "RECOVERY", NEW ack, ack = s.tx.first,
           ack < s.recover, NEW segs, NEW c, COk(s, c)
    PROVE  LET t == PartialAck(s, ack, segs, c)
           IN  /\ Calm(t) /\ Keeps(s, t) /\ t.congState = "RECOVERY" /\ t.recover = s.recover
               /\ t.tx.sent # <<>> /\ (Watched(s) => Watched(t))
<1> DEFINE tx == IF s.sackEnabled THEN s.tx ELSE MarkHeadAsLost(s.tx)
           u == [s EXCEPT !.tx = tx]
           r == IF segs >= 1 THEN OpsDoRecovery(u, c) ELSE u
           n == RetransmitNext(r, ack)
           a == NewAck(n, ack, s.firstPartial)
           t == [a EXCEPT !.firstPartial = FALSE]
<1>1. PartialAck(s, ack, segs, c) = t
  BY DEF PartialAck
<1>2. Types(s) /\ TxOk(s.tx) /\ s.highTx = HighData(s.tx) /\ s.recover <= s.highTx
      /\ s.recover \in Nat /\ s.highTx \in Nat /\ s.firstPartial \in BOOLEAN
  BY DEF Calm, Ready, Types, Cong
<1>3. ack \in Nat /\ ack < s.highTx /\ s.tx.sent # <<>>
  <2>1. s.tx.first \in Nat
        /\ IF s.tx.sent = <<>> THEN HighData(s.tx) = s.tx.first ELSE s.tx.first < HighData(s.tx)
    BY <1>2, TxExtent DEF TxOk
  <2> QED BY <1>2, <2>1
<1>4. Calm(u) /\ Keeps(s, u) /\ Same(s, u, {"tx"})
  <2>1. CASE s.sackEnabled
    <3>1. tx = s.tx
      BY <2>1
    <3> QED BY <3>1, SameBuffer
  <2>2. CASE ~s.sackEnabled
    <3>1. tx = MarkHeadAsLost(s.tx)
      BY <2>2
    <3> QED BY <1>3, <3>1, HeadKeeps
  <2> QED BY <2>1, <2>2
<1> HIDE DEF u
<1>5. /\ u.congState = s.congState /\ u.alg = s.alg /\ u.retx = s.retx /\ u.state = s.state
      /\ u.recover = s.recover /\ u.firstPartial = s.firstPartial
  BY <1>4 DEF Same, Fields
<1>6. /\ Calm(r) /\ Keeps(u, r) /\ r.congState = u.congState /\ r.recover = u.recover
      /\ r.firstPartial = u.firstPartial /\ (Watched(u) => Watched(r))
  <2>1. Types(u)
    BY <1>4 DEF Calm, Ready
  <2>2. CASE segs >= 1
    <3> DEFINE d == OpsDoRecovery(u, c)
    <3>1. r = d
      BY <2>2
    <3>2. COk(u, c) /\ (u.alg = "prr" => u.prr.flightSize > 0)
      BY <1>4, <1>5 DEF Calm, COk, Cong
    <3>3. Tunes(u, d) /\ d.prr.flightSize = u.prr.flightSize
      BY <2>1, <3>2, DoIs
    <3> HIDE DEF d
    <3>4. /\ Calm(d) /\ Keeps(u, d) /\ d.congState = u.congState /\ d.recover = u.recover
          /\ d.state = u.state /\ d.retx = u.retx
      BY <1>4, <1>5, <3>2, <3>3, TunesKeeps
    <3>5. d.firstPartial = u.firstPartial
      BY <3>3 DEF Tunes, Same, Fields
    <3> HIDE DEF r
    <3> QED BY <3>1, <3>4, <3>5 DEF Watched
  <2>3. CASE ~(segs >= 1)
    <3>1. r = u
      BY <2>3
    <3> QED BY <1>4, <2>1, <3>1, KeepsSelf
  <2> QED BY <2>2, <2>3
<1> HIDE DEF r
<1>7. r.tx.sent # <<>>
  BY <1>3, <1>4, <1>6 DEF Keeps
<1>8. /\ Calm(n) /\ Keeps(r, n) /\ n.congState = r.congState /\ n.recover = r.recover
      /\ n.firstPartial = r.firstPartial /\ (Watched(r) => Watched(n))
  BY <1>6, <1>7, NextKeeps
<1> HIDE DEF n
<1>9. Types(u) /\ Types(r) /\ Types(n)
  BY <1>4, <1>6, <1>8 DEF Calm, Ready
<1>10. Keeps(s, n)
  BY <1>2, <1>4, <1>6, <1>8, <1>9, KeepsChain
<1>11. ack <= n.highTx /\ n.tx.sent # <<>>
  <2>1. s.highTx <= n.highTx /\ n.highTx \in Nat
    BY <1>9, <1>10 DEF Keeps, Types
  <2> QED BY <1>2, <1>3, <1>10, <2>1 DEF Keeps
<1>12. /\ Calm(a) /\ Keeps(n, a) /\ a.congState = n.congState /\ a.recover = n.recover
       /\ a.tx = n.tx /\ (Watched(n) => Watched(a)) /\ a.nextTx <= a.highTx
  BY <1>2, <1>3, <1>8, <1>11, NewAckKeeps
<1> HIDE DEF a
<1>13. /\ Calm(t) /\ Keeps(a, t) /\ t.congState = a.congState /\ t.recover = a.recover
       /\ t.tx = a.tx /\ t.state = a.state /\ t.retx = a.retx
  <2>1. Types(a) /\ DOMAIN a = Fields /\ Cong(a)
    BY <1>12 DEF Calm, Ready, Types
  <2>2. Same(a, t, {"firstPartial"}) /\ t.firstPartial = FALSE
    BY <2>1 DEF Same, Fields
  <2> HIDE DEF t
  <2>3. /\ t.tx = a.tx /\ t.state = a.state /\ t.congState = a.congState
        /\ t.highTx = a.highTx /\ t.nextTx = a.nextTx
        /\ t.highRxAck = a.highRxAck /\ t.dupAcks = a.dupAcks /\ t.recover = a.recover
        /\ t.recoverActive = a.recoverActive /\ t.alg = a.alg /\ t.cWnd = a.cWnd
        /\ t.ssThresh = a.ssThresh /\ t.flight = a.flight /\ t.prr = a.prr
    BY <2>2 DEF Same, Fields
  <2>4. /\ t.notProcessed = a.notProcessed /\ t.rWnd = a.rWnd /\ t.retries = a.retries
        /\ t.retx = a.retx /\ t.persist = a.persist /\ t.pending = a.pending
        /\ t.sackEnabled = a.sackEnabled /\ t.noDelay = a.noDelay
    BY <2>2 DEF Same, Fields
  <2>5. Types(t)
    BY <2>1, <2>2, <2>3, <2>4 DEF Types, Same
  <2>6. Same(a, t, Plain)
    BY <2>2 DEF Same, Plain
  <2>7. Calm(t) /\ Keeps(a, t)
    BY <1>12, <2>1, <2>3, <2>5, <2>6, PlainKeeps DEF Cong
  <2> QED BY <2>3, <2>4, <2>7
<1> HIDE DEF t
<1>14. Keeps(s, t)
  <2>1. Types(a) /\ Types(t)
    BY <1>12, <1>13 DEF Calm, Ready
  <2> QED BY <1>2, <1>9, <1>10, <1>12, <1>13, <2>1, KeepsChain
<1>15. Watched(s) => Watched(t)
  <2>1. Watched(s) => Watched(u)
    BY <1>5 DEF Watched
  <2>2. Watched(a) => Watched(t)
    BY <1>13 DEF Watched
  <2> QED BY <1>6, <1>8, <1>12, <2>1, <2>2
<1> QED BY <1>1, <1>5, <1>6, <1>8, <1>11, <1>12, <1>13, <1>14, <1>15
LEMMA EndingIs ==
    ASSUME NEW s, Calm(s), NEW ack, ack = s.tx.first, NEW isDupack \in BOOLEAN,
           s.congState \in {"RECOVERY", "LOSS"} => s.recover <= ack,
           Counted2(s, isDupack)
    PROVE  Ended(s, Ending(s, ack, isDupack), ack, isDupack)
<1> DEFINE t == Ending(s, ack, isDupack)
           F == {"congState", "firstPartial", "dupAcks", "recoverActive"}
<1>1. Types(s) /\ DOMAIN s = Fields /\ Ready(s) /\ Board(s) /\ Cong(s) /\ TxOk(s.tx)
  BY DEF Calm, Ready, Types
<1>2. /\ Same(s, t, F)
      /\ t.congState = IF s.congState = "DISORDER" /\ isDupack THEN "DISORDER" ELSE "OPEN"
      /\ t.firstPartial = (s.firstPartial \/ s.congState \in {"RECOVERY", "LOSS"})
      /\ t.dupAcks = IF s.congState = "RECOVERY" THEN 0 ELSE s.dupAcks
      /\ t.recoverActive = (s.recoverActive /\ ack < s.recover)
  BY <1>1 DEF Same, Fields, Ending
<1> HIDE DEF t
<1>3. /\ t.tx = s.tx /\ t.state = s.state /\ t.nextTx = s.nextTx /\ t.highTx = s.highTx
      /\ t.highRxAck = s.highRxAck /\ t.recover = s.recover
      /\ t.alg = s.alg /\ t.cWnd = s.cWnd
      /\ t.ssThresh = s.ssThresh /\ t.flight = s.flight /\ t.prr = s.prr
  BY <1>2 DEF Same, Fields
<1>4. /\ t.notProcessed = s.notProcessed /\ t.rWnd = s.rWnd /\ t.retries = s.retries
      /\ t.retx = s.retx /\ t.persist = s.persist /\ t.pending = s.pending
      /\ t.sackEnabled = s.sackEnabled /\ t.noDelay = s.noDelay /\ t.out = s.out
  BY <1>2 DEF Same, Fields
<1>5. s.tx.first \in Nat /\ s.recover \in Nat /\ s.highRxAck \in Nat
      /\ s.tx.first <= s.highRxAck
  BY <1>1, TxExtent DEF TxOk, Types, Ready
<1>6. t.recoverActive = FALSE /\ t.recover <= t.highRxAck
  <2>1. ~(s.recoverActive /\ ack < s.recover)
    BY <1>1, <1>5 DEF Cong
  <2>2. s.recover <= s.highRxAck
    <3>1. CASE s.recoverActive
      <4>1. s.recover <= ack
        BY <1>1, <3>1 DEF Cong
      <4> QED BY <1>5, <4>1
    <3>2. CASE ~s.recoverActive
      BY <1>1, <3>2 DEF Cong
    <3> QED BY <3>1, <3>2
  <2> QED BY <1>2, <1>3, <2>1, <2>2
<1>7. t.dupAcks \in Nat /\ t.firstPartial \in BOOLEAN
      /\ t.congState \in {"OPEN", "DISORDER", "RECOVERY", "LOSS"}
  BY <1>1, <1>2 DEF Types
<1>8. Types(t)
  BY <1>1, <1>2, <1>3, <1>4, <1>6, <1>7 DEF Types, Same
<1>9. Counts(t)
  <2>1. CASE isDupack
    BY <1>1, <1>2, <2>1 DEF Counts, Counted2, Types
  <2>2. CASE ~isDupack
    BY <1>1, <1>2, <2>2 DEF Counts, Counted2
  <2> QED BY <2>1, <2>2
<1>10. Board(t)
  <2>1. ASSUME NEW b \in Lost(t.tx)
        PROVE  LostOk(t, b)
    <3>1. b \in Out(s.tx)
      BY <1>1, <1>3, <2>1, TxIs
    <3>2. b \in Int /\ s.tx.first <= b
      BY <1>1, <1>5, <3>1, TxExtent DEF Out, TxOk
    <3>3. LostOk(s, b)
      BY <1>1, <1>3, <2>1 DEF Board
    <3>4. CASE s.congState = "LOSS"
      <4>1. ~(b < s.recover)
        BY <1>5, <3>2, <3>4
      <4> QED BY <1>3, <1>4, <3>3, <4>1 DEF LostOk
    <3>5. CASE s.congState # "LOSS"
      BY <1>3, <1>4, <3>3, <3>5 DEF LostOk
    <3> QED BY <3>4, <3>5
  <2>2. t.congState # "LOSS"
    BY <1>2
  <2> QED BY <1>1, <1>3, <1>4, <2>1, <2>2 DEF Board
<1> QED BY <1>2, <1>6, <1>8, <1>9, <1>10 DEF Ended, t

\* The socket then, with another window.
LEMMA EndedKeeps ==
    ASSUME NEW s, Calm(s), NEW t, NEW ack, NEW isDupack, Ended(s, t, ack, isDupack),
           NEW v, Tunes(t, v), v.cWnd # 0
    PROVE  /\ Calm(v) /\ Keeps(s, v) /\ Counts(v) /\ v.congState = t.congState
           /\ v.tx = s.tx /\ v.retx = s.retx /\ v.state = s.state /\ v.highTx = s.highTx
<1>1. Ready(s) /\ Types(s)
  BY DEF Calm, Ready
<1>2. Types(v)
  BY TunesTypes DEF Ended
<1>3. Same(s, v, {"congState", "firstPartial", "dupAcks", "recoverActive",
                  "cWnd", "ssThresh", "prr"})
  BY DEF Ended, Tunes, Same
<1>4. /\ v.tx = s.tx /\ v.state = s.state /\ v.nextTx = s.nextTx /\ v.highTx = s.highTx
      /\ v.highRxAck = s.highRxAck /\ v.recover = s.recover /\ v.rWnd = s.rWnd
      /\ v.retx = s.retx /\ v.sackEnabled = s.sackEnabled /\ v.out = s.out
  BY <1>3 DEF Same, Fields
<1>5. /\ v.congState = t.congState /\ v.dupAcks = t.dupAcks /\ v.recover = t.recover
      /\ v.highRxAck = t.highRxAck /\ v.tx = t.tx
      /\ v.recoverActive = t.recoverActive /\ v.sackEnabled = t.sackEnabled
  BY DEF Tunes, Same, Fields
<1>6. Ready(v)
  BY <1>1, <1>2, <1>4 DEF Ready, OutOk, SentOk
<1>7. Board(v)
  BY <1>5 DEF Ended, Board, LostOk
<1>8. v.congState \in {"OPEN", "DISORDER"}
  BY <1>5 DEF Ended
<1>9. Cong(v)
  <2>1. v.recover <= v.highTx
    BY <1>4 DEF Calm, Cong
  <2>2. v.recoverActive = FALSE /\ v.recover <= v.highRxAck
    BY <1>5 DEF Ended
  <2> QED BY <1>8, <2>1, <2>2 DEF Cong
<1>10. TailSequence(v.tx) <= StreamLength + 1
  BY <1>4 DEF Calm
<1>11. Counts(v)
  BY <1>5 DEF Ended, Counts
<1>12. Keeps(s, v)
  <2>1. Same(s, v, Working)
    BY <1>3 DEF Same, Working
  <2>2. s.highTx <= v.highTx
    BY <1>1, <1>4 DEF Types
  <2> QED BY <1>4, <2>1, <2>2 DEF Keeps
<1> QED BY <1>4, <1>5, <1>6, <1>7, <1>9, <1>10, <1>11, <1>12 DEF Calm

LEMMA FullKeeps ==
    ASSUME NEW s, Calm(s), NEW ack, ack = s.tx.first, NEW isDupack \in BOOLEAN,
           s.congState \in {"RECOVERY", "LOSS"} => s.recover <= ack,
           Counted2(s, isDupack), NEW old, NEW segs, NEW c, COk(s, c)
    PROVE  LET t == FullAck(s, ack, old, segs, isDupack, c)
           IN  /\ Calm(t) /\ Counts(t) /\ Keeps(s, t)
               /\ t.congState \in {"OPEN", "DISORDER"}
               /\ t.tx = s.tx /\ (t.tx.sent = <<>> => t.nextTx = t.highTx)
               /\ t.tx.sent # <<>> /\ (Watched(s) \/ s.congState = "LOSS") => Watched(t)
<1> DEFINE exits == s.congState = "RECOVERY"
           e == Ending(s, ack, isDupack)
           u == IF exits THEN LeaveRecovery(e) ELSE e
           n == SegmentsBeyond(s, ack, old, segs)
           w == IncreaseWindow(u, n, c)
           v == NewAck(w, ack, TRUE)
<1>1. Ended(s, e, ack, isDupack)
  BY EndingIs
<1>2. FullAck(s, ack, old, segs, isDupack, c) = IF e.congState = "OPEN" THEN v ELSE e
  BY DEF FullAck, Ending
<1>3. Types(s) /\ TxOk(s.tx) /\ s.highTx = HighData(s.tx) /\ s.cWnd \in Nat
      /\ s.highTx \in Nat
  BY DEF Calm, Ready, Types
<1>4. ack \in Nat /\ ack <= s.highTx /\ (s.tx.sent = <<>> => ack = s.highTx)
  <2>1. s.tx.first \in Nat
        /\ IF s.tx.sent = <<>> THEN HighData(s.tx) = s.tx.first ELSE s.tx.first < HighData(s.tx)
    BY <1>3, TxExtent DEF TxOk
  <2> QED BY <1>3, <2>1
<1> HIDE DEF e, n
<1>5. Types(e) /\ e.alg = s.alg /\ e.cWnd = s.cWnd /\ e.tx = s.tx /\ e.retx = s.retx
      /\ e.state = s.state
  BY <1>1 DEF Ended, Same, Fields
<1>6. ~exits => e.cWnd # 0
  BY <1>5 DEF Calm, Cong
<1>7. CASE e.congState = "OPEN"
  <2>1. Tunes(e, u) /\ (u.alg = "any" \/ u.cWnd > 0)
    <3>1. CASE exits
      <4> DEFINE l == LeaveRecovery(e)
      <4>1. Tunes(e, l) /\ (e.alg # "any" => l.cWnd > 0)
        BY <1>5, LeaveIs
      <4>2. u = l
        BY <3>1
      <4> HIDE DEF l, u
      <4>3. l.alg = e.alg
        BY <4>1 DEF Tunes, Same, Fields
      <4> QED BY <4>1, <4>2, <4>3
    <3>2. CASE ~exits
      <4>1. u = e
        BY <3>2
      <4> HIDE DEF u
      <4> QED BY <1>3, <1>5, <1>6, <3>2, <4>1, TunesSelf DEF Types
    <3> QED BY <3>1, <3>2
  <2> HIDE DEF u
  <2>2. Types(u) /\ COk(u, c)
    <3>1. u.alg = s.alg
      BY <1>5, <2>1 DEF Tunes, Same, Fields
    <3> QED BY <1>5, <2>1, <3>1, TunesTypes DEF COk
  <2>3. Tunes(u, w) /\ w.cWnd > 0
    BY <2>1, <2>2, IncreaseIs
  <2> HIDE DEF w
  <2>4. Tunes(e, w) /\ w.cWnd # 0
    BY <2>1, <2>3, TunesChain
  <2>5. /\ Calm(w) /\ Keeps(s, w) /\ Counts(w) /\ w.congState = e.congState
        /\ w.tx = s.tx /\ w.highTx = s.highTx
    BY <1>1, <2>4, EndedKeeps
  <2>6. /\ Calm(v) /\ Keeps(w, v) /\ v.congState = w.congState
        /\ v.tx = w.tx /\ v.dupAcks = w.dupAcks /\ v.highTx = w.highTx
        /\ ack <= v.nextTx /\ v.nextTx \in Nat /\ v.nextTx <= v.highTx
        /\ w.tx.sent # <<>> => Watched(v)
    BY <1>4, <2>5, NewAckKeeps
  <2> HIDE DEF v
  <2>7. Keeps(s, v)
    <3>1. Types(w) /\ Types(v)
      BY <2>5, <2>6 DEF Calm, Ready
    <3> QED BY <1>3, <2>5, <2>6, <3>1, KeepsChain
  <2>8. Counts(v)
    BY <2>5, <2>6 DEF Counts
  <2>9. v.tx.sent = <<>> => v.nextTx = v.highTx
    BY <1>3, <1>4, <2>5, <2>6
  <2> QED BY <1>2, <1>7, <2>5, <2>6, <2>7, <2>8, <2>9
<1>8. CASE e.congState # "OPEN"
  <2>1. e.congState = "DISORDER" /\ s.congState = "DISORDER" /\ isDupack
    BY <1>1, <1>8 DEF Ended
  <2>2. e.cWnd # 0
    BY <1>6, <2>1
  <2>3. Tunes(e, e)
    BY <1>5, TunesSelf
  <2>4. Calm(e) /\ Keeps(s, e) /\ Counts(e)
    BY <1>1, <2>2, <2>3, EndedKeeps
  <2>5. s.tx.sent # <<>>
    BY <2>1 DEF Counted2
  <2> QED BY <1>2, <1>5, <1>8, <2>1, <2>4, <2>5 DEF Watched
<1> QED BY <1>7, <1>8
LEMMA AdvancesKeeps ==
    ASSUME NEW s, Calm(s), NEW ack, ack = s.tx.first, NEW isDupack \in BOOLEAN,
           Counted2(s, isDupack), NEW old, NEW segs, NEW c, COk(s, c)
    PROVE  LET t == Advances(s, ack, old, segs, isDupack, c)
           IN  /\ Calm(t) /\ Counts(t) /\ Keeps(s, t)
               /\ t.congState = "RECOVERY" => s.congState = "RECOVERY" /\ ack < t.recover
               /\ t.tx.sent = <<>> => t.nextTx = t.highTx
               /\ s.tx.sent = <<>> => t.tx.sent = <<>>
               /\ t.tx.sent # <<>> /\ (Watched(s) \/ s.congState = "LOSS") => Watched(t)
<1>1. Types(s) /\ TxOk(s.tx) /\ s.highTx = HighData(s.tx) /\ s.recover <= s.highTx
      /\ s.recover \in Nat /\ s.highTx \in Nat
  BY DEF Calm, Ready, Types, Cong
<1>2. ack \in Nat /\ ack <= s.highTx /\ (s.tx.sent = <<>> => ack = s.highTx)
  <2>1. s.tx.first \in Nat
        /\ IF s.tx.sent = <<>> THEN HighData(s.tx) = s.tx.first ELSE s.tx.first < HighData(s.tx)
    BY <1>1, TxExtent DEF TxOk
  <2> QED BY <1>1, <2>1
<1>3. CASE ack < s.recover /\ s.congState = "RECOVERY"
  <2> DEFINE t == PartialAck(s, ack, segs, c)
  <2>1. Advances(s, ack, old, segs, isDupack, c) = t
    BY <1>3 DEF Advances
  <2>2. /\ Calm(t) /\ Keeps(s, t) /\ t.congState = "RECOVERY" /\ t.recover = s.recover
        /\ t.tx.sent # <<>> /\ (Watched(s) => Watched(t))
    BY <1>3, PartialKeeps
  <2> HIDE DEF t
  <2>3. s.tx.sent # <<>>
    BY <1>1, <1>2, <1>3
  <2> QED BY <1>3, <2>1, <2>2, <2>3 DEF Counts
<1>4. CASE ack < s.recover /\ s.congState = "LOSS"
  <2> DEFINE w == IncreaseWindow(s, segs, c)
             t == NewAck(w, ack, TRUE)
  <2>1. Advances(s, ack, old, segs, isDupack, c) = t
    BY <1>4 DEF Advances
  <2>2. s.cWnd > 0
    BY <1>1, <1>4 DEF Calm, Cong, Types
  <2>3. Tunes(s, w) /\ w.cWnd > 0
    BY <1>1, <2>2, IncreaseIs
  <2> HIDE DEF w
  <2>4. /\ Calm(w) /\ Keeps(s, w) /\ w.congState = s.congState /\ w.dupAcks = s.dupAcks
        /\ w.tx = s.tx /\ w.highTx = s.highTx
    BY <1>4, <2>3, TunesKeeps
  <2>5. /\ Calm(t) /\ Keeps(w, t) /\ t.congState = w.congState /\ t.tx = w.tx
        /\ t.dupAcks = w.dupAcks /\ t.highTx = w.highTx /\ (w.tx.sent # <<>> => Watched(t))
    BY <1>2, <2>4, NewAckKeeps
  <2> HIDE DEF t
  <2>6. Keeps(s, t)
    <3>1. Types(w) /\ Types(t)
      BY <2>4, <2>5 DEF Calm, Ready
    <3> QED BY <1>1, <2>4, <2>5, <3>1, KeepsChain
  <2>7. s.tx.sent # <<>>
    BY <1>1, <1>2, <1>4
  <2>8. Counts(t)
    BY <1>4, <2>4, <2>5 DEF Counts, Counted2
  <2> QED BY <1>4, <2>1, <2>4, <2>5, <2>6, <2>7, <2>8
<1>5. CASE ~(ack < s.recover) \/ s.congState \notin {"RECOVERY", "LOSS"}
  <2> DEFINE t == FullAck(s, ack, old, segs, isDupack, c)
  <2>1. Advances(s, ack, old, segs, isDupack, c) = t
    BY <1>5 DEF Advances
  <2>2. s.congState \in {"RECOVERY", "LOSS"} => s.recover <= ack
    BY <1>1, <1>2, <1>5
  <2>3. /\ Calm(t) /\ Counts(t) /\ Keeps(s, t)
        /\ t.congState \in {"OPEN", "DISORDER"}
        /\ t.tx.sent = <<>> => t.nextTx = t.highTx
        /\ t.tx = s.tx
        /\ t.tx.sent # <<>> /\ (Watched(s) \/ s.congState = "LOSS") => Watched(t)
    <3> HIDE DEF t
    <3>1. ack = s.tx.first /\ Calm(s) /\ Counted2(s, isDupack) /\ COk(s, c)
      OBVIOUS
    <3>2. Calm(FullAck(s, ack, old, segs, isDupack, c))
      BY <2>2, <3>1, FullKeeps
    <3>3. Keeps(s, FullAck(s, ack, old, segs, isDupack, c))
      BY <2>2, <3>1, FullKeeps
    <3>4. FullAck(s, ack, old, segs, isDupack, c).congState \in {"OPEN", "DISORDER"}
      BY <2>2, <3>1, FullKeeps
    <3>5. Counts(FullAck(s, ack, old, segs, isDupack, c))
      BY <2>2, <3>1, FullKeeps
    <3> DEFINE v == FullAck(s, ack, old, segs, isDupack, c)
    <3>6. v.tx.sent = <<>> => v.nextTx = v.highTx
      BY <2>2, <3>1, FullKeeps
    <3>7. v.tx.sent # <<>> /\ (Watched(s) \/ s.congState = "LOSS") => Watched(v)
      BY <2>2, <3>1, FullKeeps
    <3>9. v.tx = s.tx
      BY <2>2, <3>1, FullKeeps, SMTT(30)
    <3>8. t = v
      BY DEF t
    <3> HIDE DEF v
    <3> QED BY <3>2, <3>3, <3>4, <3>5, <3>6, <3>7, <3>8, <3>9 DEF v
  <2> HIDE DEF t
  <2> QED BY <2>1, <2>3
<1> QED BY <1>3, <1>4, <1>5

\* New data is acknowledged.
LEMMA NewDataKeeps ==
    ASSUME NEW s, Calm(s), Counts(s), NEW ack, ack = s.tx.first, NEW isDupack \in BOOLEAN,
           isDupack => s.tx.sent # <<>>, NEW old \in Nat, old <= ack, NEW c, COk(s, c)
    PROVE  LET t == NewData(s, ack, old, isDupack, c)
           IN  /\ Calm(t) /\ Counts(t) /\ Keeps(s, t)
               /\ t.congState = "RECOVERY" => s.congState = "RECOVERY" /\ ack < t.recover
               /\ t.tx.sent = <<>> => t.nextTx = t.highTx
               /\ s.tx.sent = <<>> => t.tx.sent = <<>>
               /\ t.tx.sent # <<>> /\ (Watched(s) \/ s.congState = "LOSS") => Watched(t)
<1> DEFINE d == IF isDupack THEN s ELSE [s EXCEPT !.dupAcks = 0]
           n == s.notProcessed + ack - old
           u == [d EXCEPT !.notProcessed = n % SegmentSize]
           t == Advances(u, ack, old, n \div SegmentSize, isDupack, c)
<1>1. NewData(s, ack, old, isDupack, c) = t
  BY DEF NewData, SegmentsAcked
<1>2. Types(s) /\ TxOk(s.tx) /\ Cong(s) /\ DOMAIN s = Fields /\ Ready(s)
  BY DEF Calm, Ready, Types
<1>3. n \in Nat /\ n % SegmentSize \in Nat
  <2>1. ack \in Nat
    BY <1>2, TxExtent DEF TxOk
  <2>2. n \in Nat
    BY <1>2, <2>1, SMTT(30) DEF Types
  <2> HIDE DEF n
  <2> QED BY <2>2, TxBufferAssumption
<1> HIDE DEF n
<1>4. DOMAIN d = Fields /\ Same(s, d, {"dupAcks"})
      /\ d.dupAcks = IF isDupack THEN s.dupAcks ELSE 0
  BY <1>2 DEF Same, Fields
<1> HIDE DEF d
<1>5. Same(s, u, {"dupAcks", "notProcessed"}) /\ u.dupAcks = d.dupAcks
      /\ u.notProcessed = n % SegmentSize
  BY <1>4 DEF Same, Fields
<1> HIDE DEF u
<1>6. /\ u.tx = s.tx /\ u.state = s.state /\ u.congState = s.congState
      /\ u.nextTx = s.nextTx /\ u.highTx = s.highTx
      /\ u.highRxAck = s.highRxAck /\ u.recover = s.recover
      /\ u.recoverActive = s.recoverActive
      /\ u.firstPartial = s.firstPartial /\ u.alg = s.alg /\ u.cWnd = s.cWnd
      /\ u.ssThresh = s.ssThresh /\ u.flight = s.flight /\ u.prr = s.prr
  BY <1>5 DEF Same, Fields
<1>7. /\ u.rWnd = s.rWnd /\ u.retries = s.retries /\ u.retx = s.retx
      /\ u.persist = s.persist /\ u.pending = s.pending
      /\ u.sackEnabled = s.sackEnabled /\ u.noDelay = s.noDelay
  BY <1>5 DEF Same, Fields
<1>8. u.dupAcks \in Nat
  BY <1>2, <1>4, <1>5 DEF Types
<1>9. Types(u)
  BY <1>2, <1>3, <1>5, <1>6, <1>7, <1>8 DEF Types, Same
<1>10. Same(s, u, Plain)
  BY <1>5 DEF Same, Plain
<1>11. Calm(u) /\ Keeps(s, u)
  BY <1>2, <1>6, <1>9, <1>10, PlainKeeps DEF Ready, Cong
<1>12. Counted2(u, isDupack)
  BY <1>4, <1>5, <1>6 DEF Counted2, Counts
<1>13. ack = u.tx.first /\ COk(u, c)
  BY <1>6 DEF COk
<1>14. /\ Calm(t) /\ Counts(t) /\ Keeps(u, t)
       /\ t.congState = "RECOVERY" => u.congState = "RECOVERY" /\ ack < t.recover
       /\ t.tx.sent = <<>> => t.nextTx = t.highTx
       /\ u.tx.sent = <<>> => t.tx.sent = <<>>
       /\ t.tx.sent # <<>> /\ (Watched(u) \/ u.congState = "LOSS") => Watched(t)
  BY <1>11, <1>12, <1>13, AdvancesKeeps
<1> HIDE DEF t
<1>15. Keeps(s, t)
  <2>1. Types(t)
    BY <1>14 DEF Calm, Ready
  <2> QED BY <1>2, <1>9, <1>11, <1>14, <2>1, KeepsChain
<1>16. Watched(s) => Watched(u)
  BY <1>6, <1>7 DEF Watched
<1> QED BY <1>1, <1>6, <1>14, <1>15, <1>16

LEMMA ProcessIs ==
    ASSUME NEW s, Calm(s), Counts(s), s.out = {}, NEW ack, ack = s.tx.first,
           NEW isDupack \in BOOLEAN, isDupack => s.tx.sent # <<>>,
           NEW old \in Nat, old <= ack, NEW c, COk(s, c),
           ack = old /\ s.congState = "RECOVERY" => ack < s.recover,
           ack = old /\ s.tx.sent = <<>> => s.nextTx = s.highTx
    PROVE  Processed(s, ProcessAck(s, ack, old, isDupack, c), ack, old)
<1> DEFINE d == IfDupAck(s, isDupack, c)
<1>1. Types(s)
  BY DEF Calm, Ready
<1>2. /\ Calm(d) /\ Counts(d) /\ Keeps(s, d) /\ (Watched(s) => Watched(d))
      /\ s.congState = "LOSS" => d = s
      /\ d.congState = "RECOVERY" =>
            \/ s.congState = "RECOVERY" /\ d.recover = s.recover
            \/ s.congState # "LOSS" /\ s.tx.first < d.recover
      /\ ~isDupack => d = s
      /\ s.tx.sent = <<>> => d = s
  <2>1. CASE isDupack
    <3>1. d = DupAck(s, c)
      BY <2>1 DEF IfDupAck
    <3> HIDE DEF d
    <3> QED BY <2>1, <3>1, DuplicateKeeps
  <2>2. CASE ~isDupack
    <3>1. d = s
      BY <2>2 DEF IfDupAck
    <3> HIDE DEF d
    <3> QED BY <1>1, <2>2, <3>1, KeepsSelf
  <2> QED BY <2>1, <2>2
<1>3. CASE ack = old
  <2>1. ProcessAck(s, ack, old, isDupack, c) = d
    BY <1>3 DEF ProcessAck
  <2> HIDE DEF d
  <2>2. d.congState = "RECOVERY" => s.congState # "LOSS" /\ ack < d.recover
    BY <1>2, <1>3
  <2>3. d.tx.sent = <<>> => d.nextTx = d.highTx
    <3>1. d.tx.sent = <<>> => s.tx.sent = <<>>
      BY <1>2 DEF Keeps
    <3> QED BY <1>2, <1>3, <3>1
  <2> QED BY <1>2, <1>3, <2>1, <2>2, <2>3 DEF Processed
<1>4. CASE ack # old
  <2> DEFINE t == NewData(d, ack, old, isDupack, c)
  <2>1. ProcessAck(s, ack, old, isDupack, c) = t
    BY <1>4 DEF ProcessAck
  <2> HIDE DEF d
  <2>2. d.tx.first = s.tx.first /\ (isDupack => d.tx.sent # <<>>) /\ COk(d, c) /\ Types(d)
    <3>1. d.alg = s.alg
      BY <1>2 DEF Keeps, Same, Working, Fields
    <3> QED BY <1>2, <3>1 DEF Keeps, COk, Calm, Ready
  <2>3. /\ Calm(t) /\ Counts(t) /\ Keeps(d, t)
        /\ t.congState = "RECOVERY" => d.congState = "RECOVERY" /\ ack < t.recover
        /\ t.tx.sent = <<>> => t.nextTx = t.highTx
        /\ d.tx.sent = <<>> => t.tx.sent = <<>>
        /\ t.tx.sent # <<>> /\ (Watched(d) \/ d.congState = "LOSS") => Watched(t)
    BY <1>2, <2>2, NewDataKeeps
  <2> HIDE DEF t
  <2>4. Keeps(s, t)
    <3>1. Types(t)
      BY <2>3 DEF Calm, Ready
    <3> QED BY <1>1, <1>2, <2>2, <2>3, <3>1, KeepsChain
  <2>5. t.congState = "RECOVERY" => s.congState # "LOSS" /\ ack < t.recover
    BY <1>2, <2>3
  <2>6. t.tx.sent # <<>> /\ (Watched(s) \/ (s.congState = "LOSS" /\ ack # old)) => Watched(t)
    BY <1>2, <2>3
  <2>7. s.tx.sent = <<>> => t.tx.sent = <<>>
    BY <1>2, <2>3
  <2> QED BY <1>4, <2>1, <2>3, <2>4, <2>5, <2>6, <2>7 DEF Processed
<1> QED BY <1>3, <1>4
-----------------------------------------------------------------------------
(***************************************************************************)
(* What an ACK does to the buffer.                                         *)
(***************************************************************************)
LEMMA EnoughGrows ==
    ASSUME NEW tx, TxOk(tx), NEW t, TxOk(t), NEW b, Enough(tx, b),
           Behind(tx, b) \subseteq Behind(t, b)
    PROVE  Enough(t, b)
<1>1. IsFiniteSet(Behind(tx, b)) /\ IsFiniteSet(Behind(t, b))
  BY StartsFinite
<1>2. Cardinality(Behind(tx, b)) <= Cardinality(Behind(t, b))
  BY <1>1, FS_Subset
<1>3. Cardinality(Behind(tx, b)) \in Nat /\ Cardinality(Behind(t, b)) \in Nat
  BY <1>1, FS_CardinalityType
<1> QED BY <1>2, <1>3, TxBufferAssumption DEF Enough

\* With SACK.
LEMMA SackLetsGo ==
    ASSUME NEW s, Calm(s), s.sackEnabled, NEW a, a.ack \in Nat, s.tx.first <= a.ack,
           a.ack <= s.highTx, NEW G, a.ack \notin Sacked(s.tx), BlocksOk(a.sack, G),
           \A g \in G : g > a.ack
    PROVE  LetGo(s, DiscardUpTo(Scoreboard(s, a), a.ack), a, G)
<1> DEFINE t == Scoreboard(s, a)
           tx == DiscardUpTo(t, a.ack)
<1>1. TxOk(s.tx) /\ HighOk(s.tx) /\ s.highTx = HighData(s.tx) /\ Board(s)
      /\ s.recover \in Nat
  BY DEF Calm, Ready, Types, Board
<1>2. Updates(s.tx, t, G)
  <2>1. t = Update(s.tx, a.sack)
    BY DEF Scoreboard
  <2> HIDE DEF t
  <2> QED BY <1>1, <2>1, UpdateIs
<1> HIDE DEF t
<1>3. /\ TxOk(t) /\ t.first = s.tx.first /\ HighData(t) = HighData(s.tx)
      /\ t.app = s.tx.app /\ (t.sent = <<>> <=> s.tx.sent = <<>>) /\ Out(t) = Out(s.tx)
      /\ SameExtent(s.tx, t)
  BY <1>2 DEF Updates, SameExtent
<1>4. a.ack \notin Sacked(t)
  BY <1>2 DEF Updates
<1>5. /\ Discards(t, tx, a.ack)
      /\ Sacked(tx) = From(Sacked(t), a.ack) /\ Lost(tx) = From(Lost(t), a.ack)
      /\ Resent(tx) = From(Resent(t), a.ack)
      /\ \A x \in Starts(t.sent) : x > a.ack => x \in Starts(tx.sent)
      /\ (t.high = 0 \/ t.high \in Starts(t.sent))
            => (tx.high = 0 \/ tx.high \in Starts(tx.sent))
  BY <1>1, <1>3, <1>4, DiscardIs
<1> HIDE DEF tx
<1>6. TxOk(tx) /\ tx.first = a.ack /\ HighData(tx) = HighData(t) /\ tx.app = t.app
      /\ a.ack \notin Sacked(tx) /\ (tx.sent # <<>> => HeadEnd(t) <= HeadEnd(tx))
  BY <1>5 DEF Discards
<1>7. ASSUME NEW b \in Lost(tx)
      PROVE  \/ b < HeadEnd(tx)
             \/ s.congState = "LOSS" /\ b < s.recover
             \/ s.sackEnabled /\ Enough(tx, b)
  <2>1. b \in Lost(t) /\ b >= a.ack
    BY <1>5 DEF From
  <2>2. b \in Out(tx) /\ b \in Int
    BY <1>6, TxIs, TxExtent DEF Out, TxOk
  <2>3. tx.sent # <<>> /\ t.sent # <<>>
    <3>1. tx.sent # <<>>
      BY <1>6, <2>2, TxExtent DEF Out, TxOk
    <3>2. b \in Out(t)
      BY <1>3, <2>1, TxIs
    <3> QED BY <1>3, <3>1, <3>2, TxExtent DEF Out, TxOk
  <2>4. Behind(t, b) \subseteq Behind(tx, b)
    <3>1. Starts(t.sent) \subseteq Nat
      BY <1>3, StartsFinite
    <3>2. ASSUME NEW x \in Starts(t.sent), x > b
          PROVE  x \in Starts(tx.sent)
      <4>1. x > a.ack
        BY <2>1, <2>2, <3>1, <3>2
      <4> QED BY <1>5, <4>1
    <3> QED BY <3>2 DEF Behind
  <2>5. CASE Enough(t, b)
    BY <1>3, <1>6, <2>4, <2>5, EnoughGrows
  <2>6. CASE b \in Lost(s.tx)
    <3>1. LostOk(s, b)
      BY <1>1, <2>6 DEF Board
    <3>2. CASE b < HeadEnd(s.tx)
      <4>1. HeadEnd(t) = HeadEnd(s.tx)
        BY <1>1, <1>3, <2>3, SameHead
      <4>2. HeadEnd(t) \in Nat /\ HeadEnd(tx) \in Nat
        BY <1>3, <1>6, <2>3, HeadNat
      <4> QED BY <1>6, <2>2, <2>3, <3>2, <4>1, <4>2
    <3>3. CASE Enough(s.tx, b)
      <4>1. Behind(s.tx, b) \subseteq Behind(tx, b)
        BY <1>2, <2>4 DEF Updates, Behind
      <4> QED BY <1>1, <1>6, <3>3, <4>1, EnoughGrows
    <3> QED BY <3>1, <3>2, <3>3 DEF LostOk
  <2>7. b \in Lost(s.tx) \/ Enough(t, b)
    BY <1>2, <2>1 DEF Updates
  <2> QED BY <2>5, <2>6, <2>7
<1>8. HighOk(tx)
  BY <1>2, <1>5 DEF Updates, HighOk
<1>9. Sacked(tx) \subseteq Sacked(s.tx) \union G
  BY <1>2, <1>5 DEF Updates, From
<1>10. ASSUME a.ack = s.tx.first, AllLostTx(s.tx)
       PROVE  AllLostTx(tx)
  <2>1. Sacked(tx) = Sacked(t) /\ Lost(tx) = Lost(t) /\ Resent(tx) = Resent(t)
    <3>1. a.ack = t.first
      BY <1>3, <1>10
    <3> QED BY <1>3, <1>5, <3>1, FromAll
  <2>2. Out(tx) = Out(s.tx)
    BY <1>3, <1>6, <1>10 DEF Out
  <2> QED BY <1>2, <1>10, <2>1, <2>2 DEF AllLostTx, Updates
<1>11. ASSUME IsDupack(s, t, a.ack)
       PROVE  a.ack < s.highTx
  <2>1. t.sackedOut > s.tx.sackedOut
    BY <1>11 DEF IsDupack
  <2>2. PICK b \in Sacked(t) : b \notin Sacked(s.tx)
    BY <1>2, <2>1 DEF Updates
  <2>3. b \in G /\ b \in Out(t)
    BY <1>2, <1>3, <2>2, TxIs DEF Updates
  <2>4. b > a.ack /\ b \in Int /\ b < s.highTx /\ s.highTx \in Nat
    <3>1. HighData(t) \in Nat /\ t.first \in Nat
      BY <1>3, TxExtent DEF TxOk
    <3> QED BY <1>1, <1>3, <2>3, <3>1 DEF Out
  <2> QED BY <2>4
<1> QED BY <1>3, <1>6, <1>7, <1>8, <1>9, <1>10, <1>11 DEF LetGo, tx, t

\* Without SACK.
LEMMA RenoLetsGo ==
    ASSUME NEW s, Calm(s), ~s.sackEnabled, NEW a, a.ack \in Nat, s.tx.first <= a.ack,
           a.ack <= s.highTx, NEW G
    PROVE  LetGo(s, DiscardUpTo(Scoreboard(s, a), a.ack), a, G)
<1> DEFINE tx == DiscardUpTo(s.tx, a.ack)
<1>1. TxOk(s.tx) /\ s.highTx = HighData(s.tx) /\ Board(s) /\ s.recover \in Nat
  BY DEF Calm, Ready, Types
<1>2. Scoreboard(s, a) = s.tx
  BY DEF Scoreboard
<1>3. IsDupack(s, s.tx, a.ack) => a.ack < s.highTx
  BY DEF IsDupack
<1>4. CASE s.congState = "LOSS"
  <2>1. Sacked(s.tx) = {}
    BY <1>1, <1>4 DEF Board
  <2>2. /\ Discards(s.tx, tx, a.ack)
        /\ Sacked(tx) = From(Sacked(s.tx), a.ack) /\ Lost(tx) = From(Lost(s.tx), a.ack)
        /\ Resent(tx) = From(Resent(s.tx), a.ack)
    BY <1>1, <2>1, DiscardIs
  <2> HIDE DEF tx
  <2>3. TxOk(tx) /\ tx.first = a.ack /\ HighData(tx) = HighData(s.tx) /\ tx.app = s.tx.app
        /\ a.ack \notin Sacked(tx) /\ (tx.sent # <<>> => HeadEnd(s.tx) <= HeadEnd(tx))
    BY <2>2 DEF Discards
  <2>4. Sacked(tx) = {}
    BY <2>1, <2>2 DEF From
  <2>5. ASSUME NEW b \in Lost(tx)
        PROVE  b < HeadEnd(tx) \/ b < s.recover
    <3>1. b \in Lost(s.tx)
      BY <2>2 DEF From
    <3>2. b \in Out(tx) /\ b \in Int
      BY <2>3, TxIs, TxExtent DEF Out, TxOk
    <3>3. tx.sent # <<>> /\ s.tx.sent # <<>>
      <4>1. tx.sent # <<>>
        BY <2>3, <3>2, TxExtent DEF Out, TxOk
      <4>2. b \in Out(s.tx)
        BY <1>1, <3>1, TxIs
      <4> QED BY <1>1, <4>1, <4>2, TxExtent DEF Out, TxOk
    <3>4. LostOk(s, b)
      BY <1>1, <3>1 DEF Board
    <3>5. HeadEnd(s.tx) \in Nat /\ HeadEnd(tx) \in Nat
      BY <1>1, <2>3, <3>3, HeadNat
    <3> QED BY <2>3, <3>2, <3>3, <3>4, <3>5 DEF LostOk
  <2>6. ASSUME a.ack = s.tx.first, AllLostTx(s.tx)
        PROVE  AllLostTx(tx)
    <3>1. Sacked(tx) = Sacked(s.tx) /\ Lost(tx) = Lost(s.tx) /\ Resent(tx) = Resent(s.tx)
      BY <1>1, <2>2, <2>6, FromAll
    <3>2. Out(tx) = Out(s.tx)
      BY <2>3, <2>6 DEF Out
    <3> QED BY <2>6, <3>1, <3>2 DEF AllLostTx
  <2> QED BY <1>2, <1>3, <1>4, <2>3, <2>4, <2>5, <2>6 DEF LetGo, tx
<1>5. CASE s.congState # "LOSS"
  <2>1. \A b \in Lost(s.tx) : b < HeadEnd(s.tx)
    BY <1>1, <1>5, HeadOnly
  <2>2. s.tx.first \notin Sacked(s.tx)
    BY <1>1 DEF Board
  <2>3. Discards(s.tx, tx, a.ack) /\ \A b \in Lost(tx) : b < HeadEnd(tx)
    BY <1>1, <2>1, <2>2, DiscardReno
  <2> HIDE DEF tx
  <2>4. TxOk(tx) /\ tx.first = a.ack /\ HighData(tx) = HighData(s.tx) /\ tx.app = s.tx.app
        /\ a.ack \notin Sacked(tx)
    BY <2>3 DEF Discards
  <2> QED BY <1>2, <1>3, <1>5, <2>3, <2>4 DEF LetGo, tx
<1> QED BY <1>4, <1>5
LEMMA LetsGo ==
    ASSUME NEW s, Calm(s), NEW a, NEW G, AckFits(s, a, G)
    PROVE  TxOk(Scoreboard(s, a)) /\ LetGo(s, DiscardUpTo(Scoreboard(s, a), a.ack), a, G)
<1>1. TxOk(s.tx) /\ s.sackEnabled \in BOOLEAN
  BY DEF Calm, Ready, Types
<1>2. CASE s.sackEnabled
  <2>1. LetGo(s, DiscardUpTo(Scoreboard(s, a), a.ack), a, G)
    BY <1>2, SackLetsGo DEF AckFits
  <2>2. HighOk(s.tx) /\ BlocksOk(a.sack, G)
    BY <1>2 DEF Calm, Board, AckFits
  <2>3. Updates(s.tx, Update(s.tx, a.sack), G)
    BY <1>1, <2>2, UpdateIs
  <2>4. Scoreboard(s, a) = Update(s.tx, a.sack)
    BY <1>2 DEF Scoreboard
  <2> QED BY <2>1, <2>3, <2>4 DEF Updates
<1>3. CASE ~s.sackEnabled
  <2>1. LetGo(s, DiscardUpTo(Scoreboard(s, a), a.ack), a, G)
    BY <1>3, RenoLetsGo DEF AckFits
  <2>2. Scoreboard(s, a) = s.tx
    BY <1>3 DEF Scoreboard
  <2> QED BY <1>1, <2>1, <2>2
<1> QED BY <1>1, <1>2, <1>3

LEMMA ReleasedIs ==
    ASSUME NEW s, Calm(s), s.out = {}, NEW a, NEW G, AckFits(s, a, G),
           NEW tx, LetGo(s, tx, a, G)
    PROVE  Released(s, [s EXCEPT !.tx = tx, !.flight = BytesInFlight(tx)], a, G)
<1> DEFINE u == [s EXCEPT !.tx = tx, !.flight = BytesInFlight(tx)]
<1>1. Types(s) /\ TxOk(s.tx) /\ DOMAIN s = Fields /\ Ready(s) /\ Cong(s)
  BY DEF Calm, Ready, Types
<1>2. Same(s, u, {"tx", "flight"}) /\ u.tx = tx /\ u.flight = BytesInFlight(tx)
  BY <1>1 DEF Same, Fields
<1> HIDE DEF u
<1>3. /\ u.state = s.state /\ u.congState = s.congState
      /\ u.nextTx = s.nextTx /\ u.highTx = s.highTx
      /\ u.highRxAck = s.highRxAck /\ u.dupAcks = s.dupAcks /\ u.recover = s.recover
      /\ u.recoverActive = s.recoverActive
      /\ u.firstPartial = s.firstPartial /\ u.alg = s.alg /\ u.cWnd = s.cWnd
      /\ u.ssThresh = s.ssThresh /\ u.prr = s.prr
  BY <1>2 DEF Same, Fields
<1>4. /\ u.notProcessed = s.notProcessed /\ u.rWnd = s.rWnd /\ u.retries = s.retries
      /\ u.retx = s.retx /\ u.persist = s.persist /\ u.pending = s.pending
      /\ u.sackEnabled = s.sackEnabled /\ u.noDelay = s.noDelay /\ u.out = s.out
  BY <1>2 DEF Same, Fields
<1>5. /\ TxOk(tx) /\ tx.first = a.ack /\ HighData(tx) = HighData(s.tx) /\ tx.app = s.tx.app
      /\ a.ack \notin Sacked(tx)
  BY DEF LetGo
<1>6. BytesInFlight(tx) \in Nat
  BY <1>5, TxIs
<1>7. Types(u)
  BY <1>1, <1>2, <1>3, <1>4, <1>5, <1>6 DEF Types, Same
<1>8. Ready(u)
  <2>1. OutOk(u)
    BY <1>4 DEF OutOk
  <2>2. u.tx.first <= u.highRxAck
    BY <1>2, <1>3, <1>5 DEF AckFits
  <2> QED BY <1>1, <1>2, <1>3, <1>4, <1>5, <1>7, <2>1, <2>2 DEF Ready
<1>9. Board(u)
  <2>1. ASSUME NEW b \in Lost(tx)
        PROVE  LostOk(u, b)
    BY <1>2, <1>3, <1>4, <2>1 DEF LetGo, LostOk
  <2> QED BY <1>2, <1>3, <1>4, <1>5, <2>1 DEF Board, LetGo
<1>10. Cong(u)
  BY <1>1, <1>3 DEF Cong
<1>11. TailSequence(u.tx) <= StreamLength + 1
  BY <1>2, <1>5 DEF Calm, TailSequence
<1> QED BY <1>2, <1>8, <1>9, <1>10, <1>11 DEF Calm, Released, u

\* What the rate sampler counts is a number.
LEMMA DeliveredIs ==
    ASSUME NEW s, TxOk(s.tx), NEW updated, TxOk(updated), NEW ack
    PROVE  Delivered(s, updated, ack) \in Int
<1> DEFINE gone == {i \in DOMAIN updated.sent :
                    /\ EndOf(updated.sent[i]) <= ack
                    /\ ~(s.sackEnabled /\ updated.sent[i].sacked)}
<1>1. Spans(updated.sent)
  BY TxExtent DEF TxOk
<1>2. gone \in SUBSET DOMAIN updated.sent
  OBVIOUS
<1>3. Delivered(s, updated, ack)
         = updated.sackedOut - s.tx.sackedOut + SumOfLengths(updated.sent, gone)
  BY DEF Delivered
<1> HIDE DEF gone
<1>4. SumOfLengths(updated.sent, gone) \in Nat
  BY <1>1, <1>2, SumIs, FS_CardinalityType
<1>5. updated.sackedOut \in Nat /\ s.tx.sackedOut \in Nat
  BY DEF TxOk, Buffers
<1> QED BY <1>3, <1>4, <1>5

\* An ACK within the window is handled.
LEMMA DiscardedIs ==
    ASSUME NEW s, Calm(s), Counts(s), s.out = {}, NEW a, NEW G, AckFits(s, a, G),
           NEW w, s.alg = "any" => w \in Nat \ {0},
           s.congState = "RECOVERY" => s.tx.first < s.recover,
           s.tx.sent = <<>> => s.nextTx = s.highTx
    PROVE  \E u : /\ Released(s, u, a, G)
                  /\ Processed(u, Discarded(s, a, Scoreboard(s, a), w), a.ack, s.tx.first)
<1> DEFINE updated == Scoreboard(s, a)
           tx == DiscardUpTo(updated, a.ack)
           u == [s EXCEPT !.tx = tx, !.flight = BytesInFlight(tx)]
           isDupack == IsDupack(s, updated, a.ack)
           c == IF s.alg # "prr" THEN [window |-> w]
                ELSE [delivered |-> Delivered(s, updated, a.ack),
                      rtxAcked |-> IsRetransDataAcked(s, updated, a.ack)]
           old == s.tx.first
<1>1. Discarded(s, a, updated, w) = ProcessAck(u, a.ack, old, isDupack, c)
  BY DEF Discarded
<1>2. TxOk(updated) /\ LetGo(s, tx, a, G)
  BY LetsGo
<1> HIDE DEF updated
<1>3. Types(s) /\ TxOk(s.tx) /\ s.highTx = HighData(s.tx)
  BY DEF Calm, Ready, Types
<1>4. COk(s, c)
  <2>1. CASE s.alg = "prr"
    <3>1. Delivered(s, updated, a.ack) \in Int
      BY <1>2, <1>3, DeliveredIs
    <3>2. IsRetransDataAcked(s, updated, a.ack) \in BOOLEAN
      BY DEF IsRetransDataAcked
    <3> QED BY <2>1, <3>1, <3>2 DEF COk
  <2>2. CASE s.alg # "prr"
    BY <2>2 DEF COk
  <2> QED BY <2>1, <2>2
<1> HIDE DEF c
<1>5. isDupack \in BOOLEAN
  <2>1. updated.sackedOut \in Nat /\ s.tx.sackedOut \in Nat
    BY <1>2, <1>3 DEF TxOk, Buffers
  <2>2. (updated.sackedOut > s.tx.sackedOut) \in BOOLEAN
    BY <2>1
  <2>3. (a.ack = s.tx.first /\ a.ack < s.highTx) \in BOOLEAN
    OBVIOUS
  <2>4. CASE s.sackEnabled
    BY <2>2, <2>4 DEF IsDupack
  <2>5. CASE ~s.sackEnabled
    BY <2>3, <2>5 DEF IsDupack
  <2> QED BY <2>4, <2>5
<1>6. isDupack => a.ack < s.highTx
  BY <1>2 DEF LetGo, updated
<1> HIDE DEF isDupack
<1>7. Released(s, u, a, G) /\ u.tx = tx
  <2>1. Released(s, u, a, G)
    BY <1>2, ReleasedIs
  <2> QED BY <1>3, <2>1 DEF Types, Fields
<1> HIDE DEF tx, u
<1>8. /\ Calm(u) /\ u.alg = s.alg /\ u.congState = s.congState /\ u.dupAcks = s.dupAcks
      /\ u.out = s.out /\ u.nextTx = s.nextTx /\ u.highTx = s.highTx /\ u.recover = s.recover
  BY <1>7 DEF Released, Same, Fields
<1>9. Counts(u) /\ COk(u, c)
  BY <1>4, <1>8 DEF Counts, COk
<1>10. TxOk(tx) /\ tx.first = a.ack /\ HighData(tx) = s.highTx
  BY <1>2, <1>3 DEF LetGo
<1>11. IF tx.sent = <<>> THEN s.highTx = a.ack ELSE a.ack < s.highTx
  BY <1>10, TxExtent DEF TxOk
<1>12. old \in Nat /\ (s.tx.sent # <<>> => old < s.highTx) /\ s.highTx \in Nat
  BY <1>3, TxExtent DEF TxOk
<1>13. a.ack \in Nat /\ old <= a.ack
  BY DEF AckFits
<1>14. isDupack => u.tx.sent # <<>>
  BY <1>6, <1>7, <1>11, <1>12, <1>13
<1>15. a.ack = old /\ u.tx.sent = <<>> => u.nextTx = u.highTx
  BY <1>7, <1>8, <1>11, <1>12, <1>13
<1>16. a.ack = old /\ u.congState = "RECOVERY" => a.ack < u.recover
  BY <1>8
<1>17. a.ack = u.tx.first /\ u.out = {}
  BY <1>7, <1>8, <1>10
<1> HIDE DEF old
<1>18. Processed(u, ProcessAck(u, a.ack, old, isDupack, c), a.ack, old)
  BY <1>5, <1>8, <1>9, <1>12, <1>13, <1>14, <1>15, <1>16, <1>17, ProcessIs
<1> QED BY <1>1, <1>7, <1>18 DEF updated, old
-----------------------------------------------------------------------------
(***************************************************************************)
(* The socket between two steps.                                           *)
(***************************************************************************)
\* After a timeout the window is open.
LEMMA StalledOpen ==
    ASSUME NEW s, Calm(s), Stalled(s), s.rWnd > 0
    PROVE  AvailableWindow(s) > 0
<1>1. TxOk(s.tx) /\ s.cWnd \in Nat /\ s.rWnd \in Nat
  BY DEF Calm, Ready, Types
<1>2. BytesInFlight(s.tx) = 0
  <2>1. Sacked(s.tx) \union Lost(s.tx) = Out(s.tx) /\ Resent(s.tx) = {}
    BY <1>1, TxIs DEF Stalled, AllLostTx
  <2> QED BY <1>1, <2>1, TxIs
<1>3. s.cWnd # 0
  BY DEF Calm, Cong, Stalled
<1> QED BY <1>1, <1>2, <1>3 DEF AvailableWindow, MinOf, MaxOf

\* After a timeout only the silly-window or Nagle's rule holds the head back.
LEMMA StalledHolds ==
    ASSUME NEW s, Calm(s), Stalled(s), s.tx.sent # <<>>, s.rWnd > 0, s.state = "ESTABLISHED",
           ~SendsMore(s)
    PROVE  HoldsBack(s, Size(s.tx))
<1>1. TxOk(s.tx) /\ Ready(s) /\ s.cWnd \in Nat /\ s.rWnd \in Nat
      /\ s.tx.first \notin Sacked(s.tx)
  BY DEF Calm, Ready, Types, Board
<1>2. AvailableWindow(s) > 0
  BY StalledOpen
<1>3. Size(s.tx) > 0 /\ s.tx.first \in Nat
  BY <1>1, SizeIs
<1>4. /\ 1 \in DOMAIN s.tx.sent /\ s.tx.sent[1].seq = s.tx.first
      /\ s.tx.sent[1].lost /\ ~s.tx.sent[1].sacked /\ ~s.tx.sent[1].retrans
  <2>1. /\ 1 \in DOMAIN s.tx.sent /\ s.tx.sent[1].seq = s.tx.first
        /\ s.tx.first \in SentBytes(s.tx.sent[1]) /\ s.tx.first \in Out(s.tx)
        /\ Spans(s.tx.sent) /\ ~s.tx.sent[1].sacked
    <3>1. Spans(s.tx.sent)
      BY <1>1, TxExtent DEF TxOk
    <3> QED BY <1>1, <3>1, HeadIs
  <2>2. s.tx.first \in Lost(s.tx) /\ s.tx.first \notin Resent(s.tx)
    BY <1>1, <2>1 DEF Stalled, AllLostTx
  <2>3. s.tx.sent[1].lost <=> s.tx.first \in Marked(s.tx.sent, "lost")
    <3>1. s.tx.first \in Marked(s.tx.sent, "lost") <=> s.tx.sent[1]["lost"]
      BY <2>1, MarkedAs
    <3> QED BY <3>1
  <2>4. s.tx.sent[1].retrans <=> s.tx.first \in Marked(s.tx.sent, "retrans")
    <3>1. s.tx.first \in Marked(s.tx.sent, "retrans") <=> s.tx.sent[1]["retrans"]
      BY <2>1, MarkedAs
    <3> QED BY <3>1
  <2> QED BY <2>1, <2>2, <2>3, <2>4 DEF Lost, Resent
<1>5. NextToSend(s) = <<s.tx.first, SegmentSize>>
  <2> DEFINE L == LostItems(s.tx)
  <2>1. 1 \in L
    BY <1>4 DEF LostItems, Candidates
  <2>2. L \subseteq DOMAIN s.tx.sent
    BY DEF LostItems, Candidates
  <2>3. DOMAIN s.tx.sent = 1 .. Len(s.tx.sent) /\ Len(s.tx.sent) \in Nat
    BY <1>1, TxExtent DEF TxOk
  <2> HIDE DEF L
  <2>4. L \subseteq Nat
    BY <2>2, <2>3
  <2>5. Min(L) \in L /\ \A y \in L : Min(L) <= y
    BY <2>1, <2>4, MinIs
  <2>6. Min(L) = 1
    <3>1. Min(L) <= 1 /\ Min(L) \in 1 .. Len(s.tx.sent)
      BY <2>1, <2>2, <2>3, <2>5
    <3> HIDE DEF L
    <3> QED BY <2>3, <3>1
  <2>7. L # {}
    BY <2>1
  <2> QED BY <1>4, <2>6, <2>7 DEF NextToSend, NextSeg, L
<1>6. NextToSend(s) # NoSegment /\ NextToSend(s)[1] = s.tx.first
  BY <1>5 DEF NoSegment
<1>7. SizeFromSequence(s.tx, s.tx.first) = Size(s.tx)
  <2>1. TailSequence(s.tx) - s.tx.first = Size(s.tx)
    BY DEF Size
  <2>2. Size(s.tx) \in Int
    BY <1>1, TxExtent DEF Size, TailSequence, TxOk, Buffers
  <2> QED BY <1>3, <2>1, <2>2 DEF SizeFromSequence, MaxOf
<1> QED BY <1>2, <1>3, <1>6, <1>7 DEF SendsMore

\* What is out when nothing is.
LEMMA NothingOut ==
    ASSUME NEW s, Ready(s), s.tx.sent = <<>>
    PROVE  s.highTx = s.tx.first
<1>1. TxOk(s.tx) /\ s.highTx = HighData(s.tx)
  BY DEF Ready, Types
<1> QED BY <1>1 DEF HighData

LEMMA SendingSettles ==
    ASSUME NEW s, Loose(s)
    PROVE  LET t == SendPendingData(s)
           IN  Body(t) /\ Timer(t) /\ Keeps(s, t) /\ t.congState = s.congState
<1> DEFINE t == SendPendingData(s)
<1>1. Calm(s) /\ Ready(s) /\ Types(s)
  BY DEF Loose, Body, Calm, Ready
<1>2. /\ Sends(s, t)
      /\ SendsMore(s) => Watched(t)
      /\ ~SendsMore(s) => t = s
  BY <1>1, PendingSends
<1> HIDE DEF t
<1>3. /\ Calm(t) /\ Keeps(s, t) /\ (Counts(s) => Counts(t))
      /\ t.congState = s.congState /\ t.recover = s.recover
  BY <1>1, <1>2, SendsKeeps
<1>4. CASE SendsMore(s)
  <2>1. t.rWnd = s.rWnd
    BY <1>3 DEF Keeps, Same, Working, Fields
  <2>2. s.rWnd # 0
    <3>1. AvailableWindow(s) > 0
      BY <1>4 DEF SendsMore
    <3>2. BytesInFlight(s.tx) \in Nat /\ s.cWnd \in Nat
      BY <1>1, TxIs DEF Types
    <3> QED BY <3>1, <3>2 DEF AvailableWindow, MinOf, MaxOf
  <2>3. t.tx.sent = <<>> => t.nextTx = t.highTx
    <3>1. ASSUME t.tx.sent = <<>>
          PROVE  t.nextTx = t.highTx
      <4>1. s.tx.sent = <<>> /\ t.nextTx = s.nextTx /\ t.tx.first = s.tx.first
        BY <1>2, <1>3, <3>1 DEF Keeps, Sends
      <4>2. s.highTx = s.tx.first /\ t.highTx = t.tx.first
        BY <1>1, <1>3, <3>1, <4>1, NothingOut DEF Calm
      <4>3. s.nextTx = s.highTx
        BY <4>1 DEF Loose, Body
      <4> QED BY <4>1, <4>2, <4>3
    <3> QED BY <3>1
  <2>4. t.congState = "RECOVERY" => t.tx.first < t.recover
    BY <1>3 DEF Loose, Body, Keeps
  <2>5. Body(t)
    BY <1>3, <2>1, <2>2, <2>3, <2>4 DEF Loose, Body
  <2>6. Timer(t)
    BY <1>2, <1>4 DEF Watched, Timer
  <2> QED BY <1>3, <2>5, <2>6 DEF t
<1>5. CASE ~SendsMore(s)
  <2>1. t = s
    BY <1>2, <1>5
  <2>2. ASSUME s.state = "ESTABLISHED", s.tx.sent # <<>>, ~s.retx
        PROVE  Stalled(s) /\ HoldsBack(s, Size(s.tx))
    <3>1. Stalled(s)
      BY <2>2 DEF Loose
    <3>2. s.rWnd > 0
      BY <1>1, <2>2 DEF Loose, Body, Types
    <3> QED BY <1>1, <1>5, <2>2, <3>1, <3>2, StalledHolds
  <2>3. Timer(s) /\ Body(s)
    BY <2>2 DEF Timer, Loose
  <2>4. Body(t) /\ Timer(t)
    BY <2>1, <2>3
  <2> QED BY <1>3, <2>4 DEF t
<1> QED BY <1>4, <1>5
LEMMA ReceivedSettles ==
    ASSUME NEW e, NEW a, Heard(e, a), e.out = {}, NEW G, AckFits(e, a, G), NEW w,
           e.alg = "any" => w \in Nat \ {0}
    PROVE  LET t == ReceivedAck(e, a, w)
           IN  Body(t) /\ Timer(t) /\ Advanced(e, t, G) /\ SameWindow(e, t)
<1> DEFINE v == Discarded(e, a, Scoreboard(e, a), w)
           t == SendPendingData(v)
<1>0. ReceivedAck(e, a, w) = t
  BY DEF ReceivedAck
<1>1. PICK u : Released(e, u, a, G) /\ Processed(u, v, a.ack, e.tx.first)
  BY DiscardedIs DEF Heard
<1> HIDE DEF v
<1>2. /\ u.state = e.state /\ u.retx = e.retx /\ u.congState = e.congState /\ u.rWnd = e.rWnd
      /\ u.highTx = e.highTx /\ u.sackEnabled = e.sackEnabled
      /\ u.alg = e.alg /\ u.highRxAck = e.highRxAck /\ u.persist = e.persist
  BY <1>1 DEF Released, Same, Fields
<1>3. /\ Calm(u) /\ u.tx.first = a.ack /\ TxOk(u.tx) /\ LetGo(e, u.tx, a, G)
      /\ HighData(u.tx) = e.highTx
  BY <1>1 DEF Released, LetGo, Heard, Calm, Ready
<1>4. /\ v.rWnd = u.rWnd /\ v.highRxAck = u.highRxAck /\ v.persist = u.persist
      /\ v.sackEnabled = u.sackEnabled /\ v.alg = u.alg /\ u.highTx <= v.highTx
      /\ v.tx.first = u.tx.first /\ (v.state = u.state \/ v.state = "NULL_ITEM")
      /\ u.sackEnabled => Sacked(v.tx) = Sacked(u.tx)
  BY <1>1 DEF Processed, Keeps, Same, Fields, Working
<1>5. a.ack \in Nat /\ e.tx.first <= a.ack /\ a.ack <= e.highTx
  BY DEF AckFits
<1>6. Calm(e) /\ TxOk(e.tx) /\ e.highTx = HighData(e.tx) /\ e.highTx \in Nat /\ e.tx.first \in Nat
  BY TxExtent DEF Heard, Calm, Ready, Types, TxOk
<1>7. a.ack = e.highTx => v.tx.sent = <<>>
  <2>1. ASSUME a.ack = e.highTx
        PROVE  v.tx.sent = <<>>
    <3>1. u.tx.sent = <<>>
      BY <1>3, <1>6, <2>1, TxExtent DEF TxOk
    <3> QED BY <1>1, <3>1 DEF Processed
  <2> QED BY <2>1
<1>8. e.tx.sent = <<>> => a.ack = e.highTx
  <2>1. e.tx.sent = <<>> => e.highTx = e.tx.first
    BY <1>6 DEF HighData
  <2> QED BY <1>5, <1>6, <2>1
<1>9. ASSUME v.state = "ESTABLISHED", v.tx.sent # <<>>, ~v.retx
      PROVE  Stalled(v)
  <2>1. e.state = "ESTABLISHED" /\ e.tx.sent # <<>> /\ e.rWnd # 0
    BY <1>2, <1>4, <1>7, <1>8, <1>9 DEF Heard
  <2>2. ~Watched(v)
    BY <1>9 DEF Watched
  <2>3. ~Watched(u) /\ ~(u.congState = "LOSS" /\ a.ack # e.tx.first)
    BY <1>1, <1>9, <2>2 DEF Processed
  <2>4. ~e.retx
    BY <1>2, <2>3 DEF Watched
  <2>5. Stalled(e)
    BY <2>1, <2>4 DEF Heard
  <2>6. u.congState = "LOSS" /\ a.ack = e.tx.first
    BY <1>2, <2>3, <2>5 DEF Stalled
  <2>7. v = u
    BY <1>1, <2>6 DEF Processed
  <2>8. AllLostTx(u.tx)
    BY <1>2, <1>3, <2>5, <2>6 DEF LetGo, Stalled
  <2> QED BY <2>6, <2>7, <2>8 DEF Stalled
<1>10. Calm(v) /\ Counts(v) /\ (v.tx.sent = <<>> => v.nextTx = v.highTx)
  BY <1>1 DEF Processed
<1>11. v.congState = "RECOVERY" => v.tx.first < v.recover /\ e.congState # "LOSS"
  BY <1>1, <1>2, <1>3, <1>4 DEF Processed
<1>12. v.rWnd = 0 => v.tx.sent = <<>>
  BY <1>2, <1>4, <1>7, <1>8 DEF Heard
<1>13. Loose(v)
  BY <1>9, <1>10, <1>11, <1>12 DEF Loose, Body
<1>14. Body(t) /\ Timer(t) /\ Keeps(v, t) /\ t.congState = v.congState
  BY <1>13, SendingSettles
<1> HIDE DEF t
<1>15. /\ t.rWnd = v.rWnd /\ t.highRxAck = v.highRxAck /\ t.persist = v.persist
       /\ t.sackEnabled = v.sackEnabled /\ t.alg = v.alg /\ v.highTx <= t.highTx
       /\ t.tx.first = v.tx.first /\ (v.sackEnabled => Sacked(t.tx) = Sacked(v.tx))
  BY <1>14 DEF Keeps, Same, Fields, Working
<1>16. v.highTx \in Nat /\ t.highTx \in Nat
  BY <1>10, <1>14 DEF Body, Calm, Ready, Types
<1>17. e.sackEnabled => Sacked(t.tx) \subseteq Sacked(e.tx) \union G
  BY <1>2, <1>3, <1>4, <1>15 DEF LetGo
<1>18. e.tx.first <= t.tx.first /\ e.highTx <= t.highTx
  <2>1. t.tx.first = a.ack
    BY <1>3, <1>4, <1>15
  <2>2. u.highTx = e.highTx /\ u.highTx <= v.highTx /\ v.highTx <= t.highTx
    BY <1>2, <1>4, <1>15
  <2>3. e.highTx <= t.highTx
    BY <1>6, <1>16, <2>2
  <2> QED BY <1>5, <2>1, <2>3
<1>19. Advanced(e, t, G)
  BY <1>2, <1>4, <1>11, <1>14, <1>15, <1>17, <1>18 DEF Advanced
<1>20. SameWindow(e, t)
  BY <1>2, <1>4, <1>15 DEF SameWindow
<1> QED BY <1>0, <1>14, <1>19, <1>20

LEMMA OuterKeeps ==
    ASSUME NEW s, Calm(s), NEW t, Same(s, t, Outer),
           t.rWnd \in Nat, t.highRxAck \in Nat, s.highRxAck <= t.highRxAck,
           t.highTx <= t.highRxAck + t.rWnd, t.retx \in BOOLEAN, t.persist \in BOOLEAN,
           t.pending \in BOOLEAN, t.flight \in Nat, t.out = {} \/ t.out = s.out
    PROVE  /\ Calm(t) /\ (Counts(s) => Counts(t)) /\ (Stalled(s) => Stalled(t))
           /\ t.tx = s.tx /\ t.state = s.state /\ t.congState = s.congState
           /\ t.nextTx = s.nextTx /\ t.highTx = s.highTx /\ t.recover = s.recover
           /\ t.alg = s.alg /\ t.cWnd = s.cWnd /\ t.sackEnabled = s.sackEnabled
           /\ t.noDelay = s.noDelay
<1>1. /\ t.tx = s.tx /\ t.state = s.state /\ t.congState = s.congState /\ t.nextTx = s.nextTx
      /\ t.highTx = s.highTx /\ t.dupAcks = s.dupAcks /\ t.recover = s.recover
      /\ t.recoverActive = s.recoverActive /\ t.firstPartial = s.firstPartial
  BY DEF Same, Fields, Outer
<1>2. /\ t.alg = s.alg /\ t.cWnd = s.cWnd /\ t.ssThresh = s.ssThresh /\ t.prr = s.prr
      /\ t.notProcessed = s.notProcessed /\ t.retries = s.retries
      /\ t.sackEnabled = s.sackEnabled /\ t.noDelay = s.noDelay /\ DOMAIN t = Fields
  BY DEF Same, Fields, Outer
<1>3. Types(s) /\ Ready(s) /\ Board(s) /\ Cong(s)
  BY DEF Calm, Ready
<1>4. Types(t)
  BY <1>1, <1>2, <1>3 DEF Types
<1>5. s.tx.first \in Nat
  BY <1>3, TxExtent DEF Types, TxOk
<1>6. Ready(t)
  <2>1. OutOk(t)
    BY <1>1, <1>3 DEF OutOk, SentOk, Ready
  <2>2. t.tx.first <= t.highRxAck
    <3>1. s.tx.first <= s.highRxAck /\ s.highRxAck \in Nat
      BY <1>3 DEF Ready, Types
    <3> QED BY <1>1, <1>5, <3>1
  <2> QED BY <1>1, <1>3, <1>4, <2>1, <2>2 DEF Ready
<1>7. Board(t)
  BY <1>1, <1>2, <1>3 DEF Board, LostOk
<1>8. Cong(t)
  <2>1. s.recover <= s.highRxAck => s.recover <= t.highRxAck
    BY <1>3 DEF Types
  <2> QED BY <1>1, <1>2, <1>3, <2>1 DEF Cong
<1>9. TailSequence(t.tx) <= StreamLength + 1
  BY <1>1 DEF Calm
<1>10. Calm(t)
  BY <1>6, <1>7, <1>8, <1>9 DEF Calm
<1>11. Counts(s) => Counts(t)
  BY <1>1 DEF Counts
<1>12. Stalled(s) => Stalled(t)
  BY <1>1 DEF Stalled
<1> QED BY <1>1, <1>2, <1>10, <1>11, <1>12

\* What is held back still is.
LEMMA HeldBack ==
    ASSUME NEW s, NEW t, t.tx = s.tx, t.rWnd = s.rWnd, t.cWnd = s.cWnd, t.highTx = s.highTx,
           t.noDelay = s.noDelay, HoldsBack(s, Size(s.tx))
    PROVE  HoldsBack(t, Size(t.tx))
BY DEF HoldsBack, AvailableWindow, UnAckDataCount

\* The window is updated.
LEMMA WindowUpdated ==
    ASSUME NEW s, Body(s), s.out = {}, NEW a, NEW G, AckIn(s, a, G)
    PROVE  LET e == UpdateWindowSize(s, a)
           IN  /\ Same(s, e, Outer) /\ e.out = {} /\ e.flight = s.flight
               /\ e.retx = s.retx /\ e.persist = s.persist /\ e.pending = s.pending
               /\ e.highRxAck = MaxOf(s.highRxAck, a.ack)
               /\ e.highRxAck \in Nat /\ e.rWnd \in Nat
               /\ s.highRxAck <= e.highRxAck /\ a.ack <= e.highRxAck
               /\ s.highTx <= e.highRxAck + e.rWnd
               /\ e.rWnd = s.rWnd \/ a.ack >= s.highRxAck
               /\ e.rWnd = 0 => s.tx.sent = <<>> \/ a.ack = s.highTx
               /\ \/ e.highRxAck = s.highRxAck /\ e.rWnd = s.rWnd
                  \/ e.highRxAck = a.ack /\ e.rWnd = a.wnd
<1> DEFINE r == IF a.ack > s.highRxAck \/ (a.ack = s.highRxAck /\ a.wnd > s.rWnd)
                THEN a.wnd ELSE s.rWnd
           h == MaxOf(s.highRxAck, a.ack)
           e == UpdateWindowSize(s, a)
<1>1. /\ DOMAIN s = Fields /\ s.highRxAck \in Nat /\ s.rWnd \in Nat /\ s.highTx \in Nat
      /\ s.highTx <= s.highRxAck + s.rWnd /\ (s.rWnd = 0 => s.tx.sent = <<>>)
  BY DEF Body, Calm, Ready, Types
<1>2. e = [s EXCEPT !.rWnd = r, !.highRxAck = h]
  BY DEF UpdateWindowSize
<1>3. a.ack \in Nat /\ a.wnd \in Nat
  BY DEF AckIn
<1>4. /\ h \in Nat /\ r \in Nat /\ s.highRxAck <= h /\ a.ack <= h
      /\ s.highTx <= h + r /\ (r = s.rWnd \/ a.ack >= s.highRxAck)
      /\ r = 0 => s.tx.sent = <<>> \/ a.ack = s.highTx
      /\ (h = s.highRxAck /\ r = s.rWnd) \/ (h = a.ack /\ r = a.wnd)
  BY <1>1, <1>3 DEF AckIn, MaxOf
<1> HIDE DEF r
<1>5. /\ Same(s, e, Outer) /\ e.rWnd = r /\ e.highRxAck = h /\ e.out = s.out
      /\ e.flight = s.flight /\ e.retx = s.retx /\ e.persist = s.persist
      /\ e.pending = s.pending
  BY <1>1, <1>2 DEF Same, Fields, Outer
<1> HIDE DEF e
<1> QED BY <1>4, <1>5 DEF e

LEMMA ListeningIs ==
    ASSUME NEW s, Rest(s), s.out = {}, NEW a, NEW G, AckIn(s, a, G)
    PROVE  Listening(s, EnterPersist(UpdateWindowSize(s, a)), a)
<1> DEFINE d == UpdateWindowSize(s, a)
           e == EnterPersist(d)
<1>1. Body(s) /\ Timer(s) /\ Calm(s) /\ Counts(s) /\ Types(s)
  BY DEF Rest, Body, Calm, Ready
<1>2. /\ Same(s, d, Outer) /\ d.out = {} /\ d.flight = s.flight
      /\ d.retx = s.retx /\ d.persist = s.persist /\ d.pending = s.pending
      /\ d.highRxAck = MaxOf(s.highRxAck, a.ack)
      /\ d.highRxAck \in Nat /\ d.rWnd \in Nat
      /\ s.highRxAck <= d.highRxAck /\ a.ack <= d.highRxAck
      /\ s.highTx <= d.highRxAck + d.rWnd
      /\ d.rWnd = s.rWnd \/ a.ack >= s.highRxAck
      /\ d.rWnd = 0 => s.tx.sent = <<>> \/ a.ack = s.highTx
      /\ \/ d.highRxAck = s.highRxAck /\ d.rWnd = s.rWnd
         \/ d.highRxAck = a.ack /\ d.rWnd = a.wnd
  BY <1>1, WindowUpdated
<1> HIDE DEF d
<1>3. /\ Same(s, e, Outer) /\ e.out = {} /\ e.flight = s.flight /\ e.pending = s.pending
      /\ e.highRxAck = d.highRxAck /\ e.rWnd = d.rWnd
      /\ e.retx \in BOOLEAN /\ e.persist \in BOOLEAN
      /\ e.rWnd # 0 => e.retx = s.retx /\ e.persist = s.persist
  <2>1. s.retx \in BOOLEAN /\ s.persist \in BOOLEAN /\ DOMAIN d = Fields
    BY <1>1, <1>2 DEF Types, Same
  <2>2. CASE d.rWnd = 0 /\ ~d.persist
    <3>1. e = [d EXCEPT !.retx = FALSE, !.persist = TRUE]
      BY <2>2 DEF EnterPersist
    <3>2. /\ DOMAIN e = Fields /\ e.retx = FALSE /\ e.persist = TRUE /\ e.out = d.out
          /\ e.flight = d.flight /\ e.pending = d.pending /\ e.rWnd = d.rWnd
          /\ e.highRxAck = d.highRxAck /\ \A f \in Fields \ Outer : e[f] = d[f]
      BY <2>1, <3>1 DEF Fields, Outer
    <3> HIDE DEF e
    <3> QED BY <1>2, <2>2, <3>2 DEF Same
  <2>3. CASE ~(d.rWnd = 0 /\ ~d.persist)
    <3>1. e = d
      BY <2>3 DEF EnterPersist
    <3> QED BY <1>2, <2>1, <3>1
  <2> QED BY <2>2, <2>3
<1> HIDE DEF e
<1>4. s.highTx = e.highTx /\ s.flight \in Nat /\ s.pending \in BOOLEAN
  BY <1>1, <1>3 DEF Same, Fields, Outer, Types
<1>5. /\ Calm(e) /\ Counts(e) /\ (Stalled(s) => Stalled(e))
      /\ e.tx = s.tx /\ e.state = s.state /\ e.congState = s.congState
      /\ e.nextTx = s.nextTx /\ e.highTx = s.highTx /\ e.recover = s.recover
      /\ e.alg = s.alg /\ e.cWnd = s.cWnd /\ e.sackEnabled = s.sackEnabled
      /\ e.noDelay = s.noDelay
  BY <1>1, <1>2, <1>3, <1>4, OuterKeeps
<1>6. /\ e.congState = "RECOVERY" => e.tx.first < e.recover
      /\ e.tx.sent = <<>> => e.nextTx = e.highTx
      /\ e.rWnd = 0 => e.tx.sent = <<>> \/ a.ack = e.highTx
  BY <1>1, <1>2, <1>3, <1>5 DEF Body
<1>7. e.state = "ESTABLISHED" /\ e.tx.sent # <<>> /\ ~e.retx /\ e.rWnd # 0 => Stalled(e)
  BY <1>1, <1>3, <1>5 DEF Timer
<1>8. Heard(e, a)
  BY <1>5, <1>6, <1>7 DEF Heard
<1>9. ASSUME a.ack < e.tx.first \/ a.ack > e.highTx
      PROVE  Body(e) /\ Timer(e)
  <2>1. /\ s.tx.first \in Nat /\ s.highTx \in Nat /\ s.highRxAck \in Nat /\ a.ack \in Nat
        /\ s.tx.first <= s.highTx /\ s.tx.first <= s.highRxAck
    <3>1. TxOk(s.tx) /\ s.highTx = HighData(s.tx)
      BY <1>1 DEF Calm, Ready, Types
    <3>2. s.tx.first \in Nat /\ HighData(s.tx) \in Nat /\ s.tx.first <= HighData(s.tx)
      BY <3>1, TxExtent DEF TxOk
    <3> QED BY <1>1, <3>1, <3>2 DEF Calm, Ready, Types, AckIn
  <2>2. a.ack # s.highTx
    BY <1>5, <1>9, <2>1
  <2>3. Body(e)
    BY <1>2, <1>3, <1>5, <1>6, <2>2 DEF Body
  <2>4. ASSUME e.state = "ESTABLISHED", e.tx.sent # <<>>, ~e.retx
        PROVE  Stalled(e) /\ (e.pending \/ HoldsBack(e, Size(e.tx)))
    <3>1. s.tx.sent # <<>> /\ s.state = "ESTABLISHED" /\ e.rWnd # 0
      BY <1>5, <2>3, <2>4 DEF Body
    <3>2. ~s.retx
      BY <1>3, <2>4, <3>1
    <3>3. Stalled(s) /\ (s.pending \/ HoldsBack(s, Size(s.tx)))
      BY <1>1, <3>1, <3>2 DEF Timer
    <3>4. a.ack <= s.highTx
      BY <3>1 DEF AckIn
    <3>5. a.ack < s.highRxAck
      BY <1>5, <1>9, <2>1, <3>4
    <3>6. e.rWnd = s.rWnd
      BY <1>2, <1>3, <2>1, <3>5
    <3>7. HoldsBack(s, Size(s.tx)) => HoldsBack(e, Size(e.tx))
      BY <1>5, <3>6, HeldBack
    <3> QED BY <1>3, <1>5, <3>3, <3>7
  <2> QED BY <2>3, <2>4 DEF Timer
<1> QED BY <1>2, <1>3, <1>5, <1>8, <1>9 DEF Listening, e, d

\* The persist timer is no longer needed.
LEMMA LeaveSettles ==
    ASSUME NEW s, Body(s), Timer(s)
    PROVE  LET t == LeavePersist(s)
           IN  /\ Rest(t) /\ Advanced(s, t, {})
               /\ t.rWnd = s.rWnd /\ t.highRxAck = s.highRxAck
               /\ t.congState = s.congState
<1> DEFINE v == [s EXCEPT !.persist = FALSE]
           t == SendPendingData(v)
<1>1. /\ Calm(s) /\ Counts(s) /\ Types(s) /\ TxOk(s.tx) /\ s.tx.first \in Nat
      /\ s.highTx \in Nat /\ s.highRxAck \in Nat /\ s.rWnd \in Nat
      /\ s.highTx <= s.highRxAck + s.rWnd
  BY TxExtent DEF Body, Calm, Ready, Types, TxOk
<1>2. CASE s.rWnd # 0 /\ s.persist
  <2>1. LeavePersist(s) = t
    BY <1>2 DEF LeavePersist
  <2>2. /\ Same(s, v, Outer) /\ v.rWnd = s.rWnd /\ v.highRxAck = s.highRxAck
        /\ v.retx = s.retx /\ v.persist = FALSE /\ v.pending = s.pending
        /\ v.flight = s.flight /\ v.out = s.out /\ v.highTx = s.highTx
    BY <1>1 DEF Types, Same, Fields, Outer
  <2> HIDE DEF v
  <2>3. s.retx \in BOOLEAN /\ s.pending \in BOOLEAN /\ s.flight \in Nat
    BY <1>1 DEF Types
  <2>11. /\ v.rWnd \in Nat /\ v.highRxAck \in Nat /\ s.highRxAck <= v.highRxAck
         /\ v.highTx <= v.highRxAck + v.rWnd /\ v.retx \in BOOLEAN /\ v.persist \in BOOLEAN
         /\ v.pending \in BOOLEAN /\ v.flight \in Nat /\ v.out = s.out
    <3>1. v.rWnd \in Nat /\ v.highRxAck \in Nat /\ v.retx \in BOOLEAN /\ v.persist \in BOOLEAN
          /\ v.pending \in BOOLEAN /\ v.flight \in Nat /\ v.out = s.out
      BY <1>1, <2>2, <2>3
    <3>2. v.highTx = s.highTx /\ v.rWnd = s.rWnd /\ v.highRxAck = s.highRxAck
      BY <2>2
    <3> QED BY <1>1, <3>1, <3>2
  <2>4. /\ Calm(v) /\ Counts(v) /\ (Stalled(s) => Stalled(v))
        /\ v.tx = s.tx /\ v.state = s.state /\ v.congState = s.congState
        /\ v.nextTx = s.nextTx /\ v.recover = s.recover
        /\ v.alg = s.alg /\ v.sackEnabled = s.sackEnabled
    BY <1>1, <2>2, <2>11, OuterKeeps
  <2>5. Body(v)
    BY <2>2, <2>4 DEF Body
  <2>6. Loose(v)
    BY <2>2, <2>4, <2>5 DEF Loose, Timer
  <2>7. Body(t) /\ Timer(t) /\ Keeps(v, t) /\ t.congState = v.congState
    BY <2>6, SendingSettles
  <2> HIDE DEF t
  <2>8. /\ t.rWnd = v.rWnd /\ t.highRxAck = v.highRxAck /\ t.persist = v.persist
        /\ t.sackEnabled = v.sackEnabled /\ t.alg = v.alg /\ v.highTx <= t.highTx
        /\ t.tx.first = v.tx.first /\ (v.sackEnabled => Sacked(t.tx) = Sacked(v.tx))
    BY <2>7 DEF Keeps, Same, Fields, Working
  <2>9. Advanced(s, t, {})
    <3>1. t.tx.first = s.tx.first /\ s.highTx <= t.highTx
      BY <2>2, <2>4, <2>8
    <3>2. t.congState = "RECOVERY" => s.congState # "LOSS"
      BY <2>4, <2>7
    <3> QED BY <1>1, <2>4, <2>8, <3>1, <3>2 DEF Advanced
  <2>10. Rest(t)
    BY <2>2, <2>7, <2>8 DEF Rest
  <2> QED BY <2>1, <2>2, <2>4, <2>7, <2>8, <2>9, <2>10
<1>3. CASE ~(s.rWnd # 0 /\ s.persist)
  <2>1. LeavePersist(s) = s
    BY <1>3 DEF LeavePersist
  <2>2. Rest(s) /\ Advanced(s, s, {})
    BY <1>1, <1>3 DEF Rest, Advanced
  <2> QED BY <2>1, <2>2
<1> QED BY <1>2, <1>3

\* What the sender does with an ACK.
LEMMA ForwardSettles ==
    ASSUME NEW s, Rest(s), s.out = {}, NEW a, NEW G, AckIn(s, a, G),
           NEW w, s.alg = "any" => w \in Nat \ {0}
    PROVE  LET t == ForwardUp(s, a, w)
           IN  /\ Rest(t) /\ Advanced(s, t, G)
               /\ t.highRxAck = MaxOf(s.highRxAck, a.ack)
               /\ \/ t.highRxAck = s.highRxAck /\ t.rWnd = s.rWnd
                  \/ t.highRxAck = a.ack /\ t.rWnd = a.wnd
<1> DEFINE e == EnterPersist(UpdateWindowSize(s, a))
           p == ProcessEstablished(e, a, w)
           t == LeavePersist(p)
<1>0. ForwardUp(s, a, w) = t
  BY DEF ForwardUp
<1>1. Listening(s, e, a)
  BY ListeningIs
<1> HIDE DEF e
<1>2. /\ Calm(e) /\ TxOk(e.tx) /\ e.tx.first \in Nat /\ e.highTx \in Nat
      /\ a.ack \in Nat
  BY <1>1, TxExtent DEF Listening, Heard, Calm, Ready, Types, TxOk, AckIn
<1>3. Body(p) /\ Timer(p) /\ Advanced(e, p, G) /\ SameWindow(e, p)
  <2>1. CASE a.ack < e.tx.first \/ a.ack > e.highTx
    <3>1. p = e
      BY <2>1 DEF ProcessEstablished
    <3>2. Body(e) /\ Timer(e)
      BY <1>1, <2>1 DEF Listening
    <3>3. Advanced(e, e, G) /\ SameWindow(e, e)
      BY <1>2 DEF Advanced, SameWindow
    <3> QED BY <3>1, <3>2, <3>3
  <2>2. CASE ~(a.ack < e.tx.first \/ a.ack > e.highTx)
    <3>1. p = ReceivedAck(e, a, w)
      BY <2>2 DEF ProcessEstablished
    <3>2. e.tx.first <= a.ack /\ a.ack <= e.highTx
      BY <1>2, <2>2
    <3>3. Heard(e, a) /\ e.out = {} /\ (e.alg = "any" => w \in Nat \ {0})
      BY <1>1 DEF Listening
    <3>4. AckFits(e, a, G)
      BY <1>1, <1>2, <3>2 DEF Listening, AckFits, AckIn
    <3> HIDE DEF p
    <3> QED BY <3>1, <3>3, <3>4, ReceivedSettles
  <2> QED BY <2>1, <2>2
<1> HIDE DEF p
<1>4. /\ Rest(t) /\ Advanced(p, t, {}) /\ t.rWnd = p.rWnd /\ t.highRxAck = p.highRxAck
      /\ t.congState = p.congState
  BY <1>3, LeaveSettles
<1> HIDE DEF t
<1>5. /\ p.tx.first \in Nat /\ t.tx.first \in Nat /\ p.highTx \in Nat /\ t.highTx \in Nat
  BY <1>3, <1>4, TxExtent DEF Rest, Body, Calm, Ready, Types, TxOk
<1>6. Advanced(e, t, G)
  <2>1. e.tx.first <= t.tx.first /\ e.highTx <= t.highTx
    BY <1>2, <1>3, <1>4, <1>5 DEF Advanced
  <2>2. t.sackEnabled = e.sackEnabled /\ t.alg = e.alg
        /\ (e.sackEnabled => Sacked(t.tx) \subseteq Sacked(e.tx) \union G)
    BY <1>3, <1>4 DEF Advanced
  <2>3. t.congState = "RECOVERY" => e.congState # "LOSS"
    BY <1>3, <1>4 DEF Advanced
  <2> QED BY <2>1, <2>2, <2>3 DEF Advanced
<1>7. Advanced(s, t, G)
  BY <1>1, <1>6 DEF Advanced, Listening
<1>8. t.highRxAck = e.highRxAck /\ t.rWnd = e.rWnd
  BY <1>3, <1>4 DEF SameWindow
<1>9. /\ e.highRxAck = MaxOf(s.highRxAck, a.ack)
      /\ \/ e.highRxAck = s.highRxAck /\ e.rWnd = s.rWnd
         \/ e.highRxAck = a.ack /\ e.rWnd = a.wnd
  BY <1>1 DEF Listening
<1> QED BY <1>0, <1>4, <1>7, <1>8, <1>9

-----------------------------------------------------------------------------
(***************************************************************************)
(* Timers, and the application.                                            *)
(***************************************************************************)
\* The connection is given up.
LEMMA DropSettles ==
    ASSUME NEW s, Body(s), s.persist => s.rWnd = 0
    PROVE  Settles(s, [s EXCEPT !.state = "DROPPED"])
<1> DEFINE t == [s EXCEPT !.state = "DROPPED"]
<1>1. Body(s) /\ Calm(s) /\ Counts(s) /\ Ready(s) /\ Types(s) /\ Board(s) /\ Cong(s)
  BY DEF Body, Calm, Ready
<1>2. Same(s, t, {"state"}) /\ t.state = "DROPPED"
  BY <1>1 DEF Types, Same, Fields
<1> HIDE DEF t
<1>3. /\ t.tx = s.tx /\ t.congState = s.congState /\ t.nextTx = s.nextTx
      /\ t.highTx = s.highTx /\ t.highRxAck = s.highRxAck /\ t.dupAcks = s.dupAcks
      /\ t.recover = s.recover /\ t.recoverActive = s.recoverActive
      /\ t.firstPartial = s.firstPartial /\ t.alg = s.alg /\ t.cWnd = s.cWnd
      /\ t.ssThresh = s.ssThresh
  BY <1>2 DEF Same, Fields
<1>4. /\ t.flight = s.flight /\ t.prr = s.prr /\ t.notProcessed = s.notProcessed
      /\ t.rWnd = s.rWnd /\ t.retries = s.retries /\ t.retx = s.retx /\ t.out = s.out
      /\ t.persist = s.persist /\ t.pending = s.pending /\ t.sackEnabled = s.sackEnabled
      /\ t.noDelay = s.noDelay /\ DOMAIN t = Fields
  BY <1>2 DEF Same, Fields
<1>5. Types(t)
  BY <1>1, <1>2, <1>3, <1>4 DEF Types
<1>6. Ready(t)
  BY <1>1, <1>3, <1>4, <1>5 DEF Ready, OutOk, SentOk
<1>7. Board(t) /\ Cong(t) /\ Counts(t)
  BY <1>1, <1>3, <1>4 DEF Board, LostOk, Cong, Counts
<1>8. Body(t)
  BY <1>1, <1>3, <1>4, <1>6, <1>7 DEF Body, Calm
<1>9. Rest(t)
  BY <1>2, <1>3, <1>4, <1>8 DEF Rest, Timer
<1>10. Advanced(s, t, {})
  <2>1. s.tx.first \in Nat /\ s.highTx \in Nat
    BY <1>1, TxExtent DEF Types, TxOk
  <2> QED BY <1>3, <1>4, <2>1 DEF Advanced
<1> QED BY <1>3, <1>4, <1>9, <1>10 DEF Settles, t

\* After a retransmission timeout everything is lost.
LEMMA RtoIs ==
    ASSUME NEW s, Body(s), s.out = {}, s.retries > 0
    PROVE  LET t == AfterRto(s)
           IN  /\ Loose(t) /\ t.tx.first = s.tx.first /\ t.highTx = s.highTx
               /\ t.rWnd = s.rWnd /\ t.highRxAck = s.highRxAck /\ t.persist = s.persist
               /\ t.alg = s.alg /\ t.sackEnabled = s.sackEnabled
               /\ t.congState = "LOSS" /\ (s.sackEnabled => Sacked(t.tx) = Sacked(s.tx))
<1> DEFINE tx == AllLost(s)
           r == ReduceOnTimeout(s, tx, BytesInFlight(s.tx))
           t == AfterRto(s)
<1>1. Calm(s) /\ Counts(s) /\ Ready(s) /\ Types(s) /\ Board(s) /\ Cong(s) /\ TxOk(s.tx)
  BY DEF Body, Calm, Ready, Types
<1>2. t = [r EXCEPT !.retries = s.retries - 1, !.dupAcks = 0, !.tx = tx,
                    !.recover = s.highTx, !.recoverActive = TRUE,
                    !.congState = "LOSS", !.cWnd = SegmentSize] \/ r.retries # s.retries
  BY DEF AfterRto
<1>3. Tunes(s, r)
  <2>1. BytesInFlight(s.tx) \in Nat
    BY <1>1, TxIs
  <2>2. Tunes(s, Reduce(s, BytesInFlight(s.tx))) /\ Tunes(s, s)
    BY <1>1, <2>1, ReduceIs, TunesSelf
  <2> QED BY <2>2 DEF ReduceOnTimeout
<1>4. LET keep == s.sackEnabled
      IN  /\ TxOk(tx) /\ SameExtent(s.tx, tx)
          /\ Sacked(tx) = (IF keep THEN Sacked(s.tx) ELSE {})
          /\ Starts(tx.sent) = (IF keep THEN Starts(s.tx.sent) ELSE {})
          /\ Lost(tx) = Out(s.tx) \ Sacked(tx) /\ Resent(tx) = {}
          /\ tx.high = IF keep THEN s.tx.high ELSE 0
  BY <1>1, AllLostIs DEF Types
<1> HIDE DEF tx, r
<1>5. r.retries = s.retries /\ DOMAIN r = Fields
  BY <1>3 DEF Tunes, Same, Fields
<1>6. /\ Same(r, t, {"retries", "dupAcks", "tx", "recover", "recoverActive", "congState",
                     "cWnd"})
      /\ t.retries = s.retries - 1 /\ t.dupAcks = 0 /\ t.tx = tx /\ t.recover = s.highTx
      /\ t.recoverActive = TRUE /\ t.congState = "LOSS" /\ t.cWnd = SegmentSize
  BY <1>2, <1>5, ZenonT(60) DEF Same, Fields
<1> HIDE DEF t
<1>7. /\ t.state = s.state /\ t.nextTx = s.nextTx /\ t.highTx = s.highTx
      /\ t.highRxAck = s.highRxAck /\ t.firstPartial = s.firstPartial /\ t.alg = s.alg
      /\ t.flight = s.flight /\ t.notProcessed = s.notProcessed /\ t.rWnd = s.rWnd
  BY <1>3, <1>6 DEF Tunes, Same, Fields
<1>8. /\ t.retx = s.retx /\ t.persist = s.persist /\ t.pending = s.pending
      /\ t.sackEnabled = s.sackEnabled /\ t.noDelay = s.noDelay /\ t.out = s.out
      /\ t.ssThresh = r.ssThresh /\ t.prr = r.prr /\ DOMAIN t = Fields
  BY <1>3, <1>6 DEF Tunes, Same, Fields
<1>9. Types(t)
  <2>1. t.retries \in 0 .. DataRetries
    <3>1. s.retries \in 0 .. DataRetries /\ DataRetries \in Nat
      BY <1>1, SenderAssumption DEF Types
    <3> QED BY <1>6, <3>1
  <2>2. t.ssThresh \in Nat \ {0} /\ t.prr \in Prr
    BY <1>3, <1>8 DEF Tunes
  <2>3. t.cWnd \in Nat /\ t.dupAcks \in Nat /\ t.recover \in Nat /\ TxOk(t.tx)
    BY <1>1, <1>4, <1>6, TxBufferAssumption DEF Types
  <2> QED BY <1>1, <1>6, <1>7, <1>8, <2>1, <2>2, <2>3 DEF Types
<1>10. /\ tx.first = s.tx.first /\ HighData(tx) = HighData(s.tx) /\ tx.app = s.tx.app
       /\ Out(tx) = Out(s.tx) /\ (tx.sent = <<>> <=> s.tx.sent = <<>>)
  BY <1>4 DEF SameExtent
<1>11. Ready(t)
  <2>1. OutOk(t)
    BY <1>8 DEF OutOk
  <2> QED BY <1>1, <1>6, <1>7, <1>9, <1>10, <2>1 DEF Ready
<1>12. Board(t)
  <2>1. \A b \in Lost(tx) : b < s.highTx
    <3>1. HighData(s.tx) = s.highTx /\ s.highTx \in Nat /\ s.tx.first \in Nat
      BY <1>1, TxExtent DEF Ready, TxOk
    <3>2. Lost(tx) \subseteq s.tx.first .. s.highTx - 1
      BY <1>4, <3>1 DEF Out
    <3> QED BY <3>1, <3>2
  <2>2. \A b \in Lost(t.tx) : LostOk(t, b)
    BY <1>6, <2>1 DEF LostOk
  <2>3. t.tx.first \notin Sacked(t.tx)
    BY <1>1, <1>4, <1>6, <1>10 DEF Board
  <2>4. t.sackEnabled => HighOk(t.tx)
    BY <1>1, <1>4, <1>6, <1>8 DEF Board, HighOk
  <2>5. ~t.sackEnabled => Sacked(t.tx) = {}
    BY <1>4, <1>6, <1>8
  <2> QED BY <2>2, <2>3, <2>4, <2>5 DEF Board
<1>13. Cong(t) /\ Counts(t)
  <2>1. s.highTx \in Nat /\ SegmentSize # 0
    BY <1>1, TxBufferAssumption DEF Types
  <2> QED BY <1>6, <1>7, <2>1 DEF Cong, Counts
<1>14. TailSequence(t.tx) <= StreamLength + 1
  BY <1>1, <1>6, <1>10 DEF TailSequence, Calm
<1>15. Body(t)
  <2>1. /\ s.rWnd = 0 => s.tx.sent = <<>>
        /\ s.tx.sent = <<>> => s.nextTx = s.highTx
    BY DEF Body
  <2>2. Calm(t)
    BY <1>11, <1>12, <1>13, <1>14 DEF Calm
  <2> QED BY <1>6, <1>7, <1>10, <1>13, <2>1, <2>2 DEF Body
<1>16. Stalled(t)
  <2>1. Out(tx) \subseteq Sacked(tx) \union Lost(tx) /\ Resent(tx) = {}
    BY <1>4, <1>10
  <2> QED BY <1>6, <2>1 DEF Stalled, AllLostTx
<1>17. Loose(t)
  BY <1>15, <1>16 DEF Loose
<1> QED BY <1>4, <1>6, <1>7, <1>8, <1>10, <1>17 DEF t

\* Sending by itself.
LEMMA LooseSettles ==
    ASSUME NEW s, Body(s), NEW v, Loose(v), v.persist => v.rWnd = 0,
           v.tx.first = s.tx.first, v.highTx = s.highTx, v.rWnd = s.rWnd,
           v.highRxAck = s.highRxAck, v.alg = s.alg, v.sackEnabled = s.sackEnabled,
           s.sackEnabled => Sacked(v.tx) = Sacked(s.tx),
           v.congState = "RECOVERY" => s.congState # "LOSS"
    PROVE  Settles(s, SendPendingData(v))
<1> DEFINE t == SendPendingData(v)
<1>1. Body(t) /\ Timer(t) /\ Keeps(v, t) /\ t.congState = v.congState
  BY SendingSettles
<1> HIDE DEF t
<1>2. /\ t.rWnd = v.rWnd /\ t.highRxAck = v.highRxAck /\ t.persist = v.persist
      /\ t.sackEnabled = v.sackEnabled /\ t.alg = v.alg /\ v.highTx <= t.highTx
      /\ t.tx.first = v.tx.first /\ (v.sackEnabled => Sacked(t.tx) = Sacked(v.tx))
  BY <1>1 DEF Keeps, Same, Fields, Working
<1>3. s.tx.first \in Nat
  BY TxExtent DEF Body, Calm, Ready, Types, TxOk
<1>4. Advanced(s, t, {})
  BY <1>1, <1>2, <1>3 DEF Advanced
<1>5. Rest(t)
  BY <1>1, <1>2 DEF Rest
<1> QED BY <1>2, <1>4, <1>5 DEF Settles, t

\* A timer is cleared.
LEMMA Cleared ==
    ASSUME NEW s, Rest(s), NEW v, Same(s, v, {"retx", "pending", "flight", "out"}),
           v.retx \in BOOLEAN, v.pending \in BOOLEAN, v.flight \in Nat, v.out = {}
    PROVE  /\ Body(v) /\ (v.persist => v.rWnd = 0) /\ (Stalled(s) => Stalled(v))
           /\ v.tx = s.tx /\ v.state = s.state /\ v.congState = s.congState
           /\ v.highTx = s.highTx /\ v.alg = s.alg /\ v.sackEnabled = s.sackEnabled
           /\ v.rWnd = s.rWnd /\ v.highRxAck = s.highRxAck
           /\ (HoldsBack(s, Size(s.tx)) => HoldsBack(v, Size(v.tx)))
<1>1. /\ Body(s) /\ Calm(s) /\ Counts(s) /\ s.highRxAck \in Nat /\ s.rWnd \in Nat
      /\ s.highTx <= s.highRxAck + s.rWnd /\ s.persist \in BOOLEAN
      /\ s.persist => s.rWnd = 0
  BY DEF Rest, Body, Calm, Ready, Types
<1>2. /\ Same(s, v, Outer) /\ v.rWnd = s.rWnd /\ v.highRxAck = s.highRxAck
      /\ v.persist = s.persist /\ v.highTx = s.highTx
  BY DEF Same, Fields, Outer
<1>3. /\ v.rWnd \in Nat /\ v.highRxAck \in Nat /\ s.highRxAck <= v.highRxAck
      /\ v.highTx <= v.highRxAck + v.rWnd /\ v.persist \in BOOLEAN
  BY <1>1, <1>2
<1>4. /\ Calm(v) /\ (Counts(s) => Counts(v)) /\ (Stalled(s) => Stalled(v))
      /\ v.tx = s.tx /\ v.state = s.state /\ v.congState = s.congState
      /\ v.nextTx = s.nextTx /\ v.recover = s.recover
      /\ v.alg = s.alg /\ v.cWnd = s.cWnd /\ v.sackEnabled = s.sackEnabled
      /\ v.noDelay = s.noDelay
  BY <1>1, <1>2, <1>3, OuterKeeps
<1>5. HoldsBack(s, Size(s.tx)) => HoldsBack(v, Size(v.tx))
  BY <1>2, <1>4, HeldBack
<1>6. Body(v)
  BY <1>1, <1>2, <1>4 DEF Body
<1> QED BY <1>1, <1>2, <1>4, <1>5, <1>6

\* The retransmission timer expires.
LEMMA TimeoutSettles ==
    ASSUME NEW s, Rest(s), s.out = {}
    PROVE  Settles(s, ReTxTimeoutOf([s EXCEPT !.retx = FALSE]))
<1> DEFINE v == [s EXCEPT !.retx = FALSE]
<1>1. Body(s) /\ Types(s) /\ Size(s.tx) \in Nat
  <2>1. Body(s) /\ Types(s) /\ TxOk(s.tx)
    BY DEF Rest, Body, Calm, Ready, Types
  <2>2. HighData(s.tx) \in Nat /\ s.tx.first \in Nat /\ s.tx.app \in Nat
        /\ s.tx.first <= HighData(s.tx)
    BY <2>1, TxExtent DEF TxOk, Buffers
  <2> QED BY <2>1, <2>2 DEF Size, TailSequence
<1>2. /\ Same(s, v, {"retx", "pending", "flight", "out"}) /\ v.retx = FALSE
      /\ v.pending = s.pending /\ v.flight = s.flight /\ v.out = {} /\ v.retries = s.retries
  BY <1>1 DEF Types, Same, Fields
<1> HIDE DEF v
<1>3. v.retx \in BOOLEAN /\ v.pending \in BOOLEAN /\ v.flight \in Nat
      /\ v.retries \in 0 .. DataRetries /\ DataRetries \in Nat
  BY <1>1, <1>2, SenderAssumption DEF Types
<1>4. /\ Body(v) /\ (v.persist => v.rWnd = 0)
      /\ v.tx = s.tx /\ v.state = s.state /\ v.congState = s.congState
      /\ v.highTx = s.highTx /\ v.alg = s.alg /\ v.sackEnabled = s.sackEnabled
      /\ v.rWnd = s.rWnd /\ v.highRxAck = s.highRxAck
  BY <1>2, <1>3, Cleared
<1>5. CASE Size(v.tx) = 0
  <2>1. v.tx.sent = <<>>
    <3>1. Ready(v)
      BY <1>4 DEF Body, Calm
    <3> QED BY <1>5, <3>1, SizeIs
  <2>2. Rest(v)
    BY <1>4, <2>1 DEF Rest, Timer
  <2>3. Advanced(s, v, {})
    <3>1. s.tx.first \in Nat /\ s.highTx \in Nat
      BY <1>1, TxExtent DEF Types, TxOk
    <3> QED BY <1>4, <3>1 DEF Advanced
  <2>4. ReTxTimeoutOf(v) = v
    BY <1>5 DEF ReTxTimeoutOf
  <2> QED BY <1>4, <2>2, <2>3, <2>4 DEF Settles, v
<1>6. CASE Size(v.tx) # 0 /\ v.retries = 0
  <2>1. ReTxTimeoutOf(v) = [v EXCEPT !.state = "DROPPED"]
    BY <1>1, <1>4, <1>6 DEF ReTxTimeoutOf
  <2> DEFINE d == [v EXCEPT !.state = "DROPPED"]
  <2>2. Settles(v, d)
    BY <1>4, DropSettles
  <2> HIDE DEF d
  <2>3. Advanced(s, d, {})
    <3>1. v.congState = s.congState /\ Advanced(v, d, {})
      BY <1>4, <2>2 DEF Settles
    <3> QED BY <1>4, <3>1 DEF Advanced
  <2>4. Settles(s, d)
    BY <1>4, <2>2, <2>3 DEF Settles
  <2> QED BY <2>1, <2>4 DEF d, v
<1>7. CASE Size(v.tx) # 0 /\ v.retries > 0
  <2> DEFINE w == AfterRto(v)
  <2>1. ReTxTimeoutOf(v) = SendPendingData(w)
    BY <1>1, <1>4, <1>7 DEF ReTxTimeoutOf
  <2>2. /\ Loose(w) /\ w.tx.first = v.tx.first /\ w.highTx = v.highTx
        /\ w.rWnd = v.rWnd /\ w.highRxAck = v.highRxAck /\ w.persist = v.persist
        /\ w.alg = v.alg /\ w.sackEnabled = v.sackEnabled
        /\ w.congState = "LOSS" /\ (v.sackEnabled => Sacked(w.tx) = Sacked(v.tx))
    BY <1>2, <1>4, <1>7, RtoIs
  <2> HIDE DEF w
  <2>3. Settles(s, SendPendingData(w))
    <3>1. w.congState = "RECOVERY" => s.congState # "LOSS"
      BY <2>2
    <3> QED BY <1>1, <1>4, <2>2, <3>1, LooseSettles
  <2> QED BY <2>1, <2>3 DEF v
<1> QED BY <1>3, <1>5, <1>6, <1>7

\* What is scheduled is sent.
LEMMA PendingSettles ==
    ASSUME NEW s, Rest(s), s.out = {}
    PROVE  Settles(s, SendPendingData([s EXCEPT !.pending = FALSE]))
<1> DEFINE v == [s EXCEPT !.pending = FALSE]
<1>1. Body(s) /\ Timer(s) /\ Types(s)
  BY DEF Rest, Body, Calm, Ready
<1>2. /\ Same(s, v, {"retx", "pending", "flight", "out"}) /\ v.retx = s.retx
      /\ v.pending = FALSE /\ v.flight = s.flight /\ v.out = {}
  BY <1>1 DEF Types, Same, Fields
<1> HIDE DEF v
<1>3. v.retx \in BOOLEAN /\ v.pending \in BOOLEAN /\ v.flight \in Nat
  BY <1>1, <1>2 DEF Types
<1>4. /\ Body(v) /\ (v.persist => v.rWnd = 0) /\ (Stalled(s) => Stalled(v))
      /\ v.tx = s.tx /\ v.state = s.state /\ v.congState = s.congState
      /\ v.highTx = s.highTx /\ v.alg = s.alg /\ v.sackEnabled = s.sackEnabled
      /\ v.rWnd = s.rWnd /\ v.highRxAck = s.highRxAck
  BY <1>2, <1>3, Cleared
<1>5. Loose(v)
  BY <1>1, <1>2, <1>4 DEF Loose, Timer
<1>6. v.congState = "RECOVERY" => s.congState # "LOSS"
  BY <1>4
<1>7. Settles(s, SendPendingData(v))
  BY <1>1, <1>4, <1>5, <1>6, LooseSettles
<1> QED BY <1>7 DEF v

\* More data in the buffer.
LEMMA AddIs ==
    ASSUME NEW tx, TxOk(tx), NEW n \in Nat
    PROVE  LET t == Add(tx, n)
           IN  /\ TxOk(t) /\ t.sent = tx.sent /\ t.first = tx.first /\ t.high = tx.high
               /\ t.app = tx.app + n
<1> DEFINE t == Add(tx, n)
<1>1. /\ t \in Buffers /\ t.sent = tx.sent /\ t.first = tx.first /\ t.high = tx.high
      /\ t.app = tx.app + n /\ t.sackedOut = tx.sackedOut /\ t.lostOut = tx.lostOut
      /\ t.retransOut = tx.retransOut
  BY DEF Add, TxOk, Buffers
<1> HIDE DEF t
<1>2. TxOk(t)
  BY <1>1 DEF TxOk
<1> QED BY <1>1, <1>2 DEF t

\* The application writes.
LEMMA WriteSettles ==
    ASSUME NEW s, Rest(s), s.out = {}, NEW n \in Nat,
           TailSequence(s.tx) + n <= 1 + StreamLength
    PROVE  Settles(s, [s EXCEPT !.tx = Add(@, n), !.pending = @ \/ AvailableWindow(s) > 0])
<1> DEFINE tx == Add(s.tx, n)
           p == s.pending \/ AvailableWindow(s) > 0
           t == [s EXCEPT !.tx = tx, !.pending = p]
<1>1. /\ Body(s) /\ Timer(s) /\ Calm(s) /\ Counts(s) /\ Ready(s) /\ Types(s) /\ Board(s)
      /\ Cong(s) /\ TxOk(s.tx) /\ s.highTx \in Nat /\ s.tx.first \in Nat
      /\ HighData(s.tx) \in Nat /\ s.tx.app \in Nat
  BY TxExtent DEF Rest, Body, Calm, Ready, Types, TxOk, Buffers
<1>2. p \in BOOLEAN
  <2>1. AvailableWindow(s) \in Nat /\ s.pending \in BOOLEAN
    BY <1>1, AvailableIs DEF Types
  <2> QED BY <2>1
<1>3. /\ TxOk(tx) /\ tx.sent = s.tx.sent /\ tx.first = s.tx.first /\ tx.high = s.tx.high
      /\ tx.app = s.tx.app + n
  BY <1>1, AddIs
<1> HIDE DEF tx, p
<1>4. Same(s, t, {"tx", "pending"}) /\ t.tx = tx /\ t.pending = p
  BY <1>1 DEF Types, Same, Fields
<1> HIDE DEF t
<1>5. /\ t.state = s.state /\ t.congState = s.congState /\ t.nextTx = s.nextTx
      /\ t.highTx = s.highTx /\ t.highRxAck = s.highRxAck /\ t.dupAcks = s.dupAcks
      /\ t.recover = s.recover /\ t.recoverActive = s.recoverActive
      /\ t.firstPartial = s.firstPartial /\ t.alg = s.alg /\ t.cWnd = s.cWnd
      /\ t.ssThresh = s.ssThresh
  BY <1>4 DEF Same, Fields
<1>6. /\ t.flight = s.flight /\ t.prr = s.prr /\ t.notProcessed = s.notProcessed
      /\ t.rWnd = s.rWnd /\ t.retries = s.retries /\ t.retx = s.retx /\ t.out = s.out
      /\ t.persist = s.persist /\ t.sackEnabled = s.sackEnabled
      /\ t.noDelay = s.noDelay /\ DOMAIN t = Fields
  BY <1>4 DEF Same, Fields
<1>7. Types(t)
  BY <1>1, <1>2, <1>3, <1>4, <1>5, <1>6 DEF Types
<1>8. /\ HighData(tx) = HighData(s.tx) /\ Sacked(tx) = Sacked(s.tx) /\ Lost(tx) = Lost(s.tx)
      /\ Resent(tx) = Resent(s.tx) /\ Out(tx) = Out(s.tx)
  BY <1>3 DEF HighData, Sacked, Lost, Resent, Out
<1>9. Ready(t)
  BY <1>1, <1>3, <1>4, <1>5, <1>6, <1>7, <1>8 DEF Ready, OutOk
<1>10. Board(t)
  <2>1. HeadEnd(tx) = HeadEnd(s.tx) /\ (HighOk(s.tx) => HighOk(tx))
        /\ \A b : Enough(s.tx, b) => Enough(tx, b)
    BY <1>3 DEF HeadEnd, HighOk, Enough, Behind
  <2>2. \A b : LostOk(s, b) => LostOk(t, b)
    BY <1>4, <1>5, <1>6, <2>1 DEF LostOk
  <2> QED BY <1>1, <1>3, <1>4, <1>5, <1>6, <1>8, <2>1, <2>2 DEF Board
<1>11. Cong(t) /\ Counts(t)
  BY <1>1, <1>5, <1>6 DEF Cong, Counts
<1>12. TailSequence(tx) <= StreamLength + 1
  <2>1. TailSequence(tx) = TailSequence(s.tx) + n /\ StreamLength \in Nat
        /\ TailSequence(s.tx) \in Nat
    BY <1>1, <1>3, <1>8, SenderAssumption DEF TailSequence
  <2> QED BY <2>1
<1>13. Body(t)
  BY <1>1, <1>3, <1>4, <1>5, <1>6, <1>9, <1>10, <1>11, <1>12 DEF Body, Calm
<1>14. ASSUME t.state = "ESTABLISHED", t.tx.sent # <<>>, ~t.retx
       PROVE  Stalled(t) /\ t.pending
  <2>1. Stalled(s) /\ s.tx.sent # <<>>
    BY <1>1, <1>3, <1>4, <1>5, <1>6, <1>14 DEF Timer
  <2>2. AvailableWindow(s) > 0
    <3>1. Calm(s) /\ s.rWnd > 0
      BY <1>1, <2>1 DEF Body, Calm, Ready, Types
    <3> QED BY <2>1, <3>1, StalledOpen
  <2>3. Stalled(t)
    BY <1>4, <1>5, <1>8, <2>1 DEF Stalled, AllLostTx
  <2> QED BY <1>4, <2>2, <2>3 DEF p
<1>15. Rest(t)
  BY <1>6, <1>13, <1>14 DEF Rest, Timer
<1>16. Advanced(s, t, {})
  BY <1>1, <1>3, <1>4, <1>5, <1>6, <1>8 DEF Advanced
<1> QED BY <1>5, <1>6, <1>15, <1>16 DEF Settles, t, tx, p

\* What a step has sent is for the network.
LEMMA Hushed ==
    ASSUME NEW s, Rest(s), NEW t, Same(s, t, {"flight", "out"}), t.flight \in Nat, t.out = {}
    PROVE  /\ Rest(t)
           /\ t.tx = s.tx /\ t.state = s.state /\ t.congState = s.congState
           /\ t.highTx = s.highTx /\ t.alg = s.alg /\ t.sackEnabled = s.sackEnabled
           /\ t.rWnd = s.rWnd /\ t.highRxAck = s.highRxAck
<1>1. Types(s) /\ Timer(s)
  BY DEF Rest, Body, Calm, Ready
<1>2. /\ Same(s, t, {"retx", "pending", "flight", "out"}) /\ t.retx = s.retx
      /\ t.pending = s.pending
  BY DEF Same, Fields
<1>3. t.retx \in BOOLEAN /\ t.pending \in BOOLEAN
  BY <1>1, <1>2 DEF Types
<1>4. /\ Body(t) /\ (t.persist => t.rWnd = 0) /\ (Stalled(s) => Stalled(t))
      /\ t.tx = s.tx /\ t.state = s.state /\ t.congState = s.congState
      /\ t.highTx = s.highTx /\ t.alg = s.alg /\ t.sackEnabled = s.sackEnabled
      /\ t.rWnd = s.rWnd /\ t.highRxAck = s.highRxAck
      /\ (HoldsBack(s, Size(s.tx)) => HoldsBack(t, Size(t.tx)))
  BY <1>2, <1>3, Cleared
<1>5. Timer(t)
  BY <1>1, <1>2, <1>4 DEF Timer
<1> QED BY <1>4, <1>5 DEF Rest

\* The only item is put back.
LEMMA PutBack ==
    ASSUME NEW tx \in Buffers, tx.sent = <<>>, tx.app > 0
    PROVE  ResetLastSegmentSent(CopyFromSequence(tx, 1, tx.first)) = tx
<1> DEFINE item == [seq |-> tx.first, len |-> 1, sacked |-> FALSE, lost |-> FALSE,
                    retrans |-> FALSE]
           u == [tx EXCEPT !.app = tx.app - 1, !.sent = <<item>>]
<1>1. HighData(tx) = tx.first /\ tx.first \in Nat /\ tx.app \in Nat
  BY DEF HighData, Buffers
<1>2. MinOf(1, SizeFromSequence(tx, tx.first)) = 1
  BY <1>1 DEF MinOf, SizeFromSequence, TailSequence, MaxOf
<1>3. CopyFromSequence(tx, 1, tx.first) = u
  <2>1. CopyFromSequence(tx, 1, tx.first) = GetNewSegment(tx, 1)
    BY <1>1, <1>2 DEF CopyFromSequence
  <2>2. Append(<<>>, item) = <<item>>
    OBVIOUS
  <2>3. GetNewSegment(tx, 1) = [tx EXCEPT !.app = @ - 1, !.sent = Append(@, item)]
    BY <1>1 DEF GetNewSegment
  <2> HIDE DEF item
  <2> QED BY <2>1, <2>2, <2>3
<1>4. Last(<<item>>) = item /\ Front(<<item>>) = <<>> /\ <<item>> # <<>>
  <2>1. Len(<<item>>) = 1 /\ <<item>>[1] = item
    OBVIOUS
  <2>2. Front(<<item>>) = SubSeq(<<item>>, 1, 0)
    BY <2>1 DEF Front
  <2> QED BY <2>1, <2>2 DEF Last
<1>5. item.len = 1 /\ ~item.retrans
  OBVIOUS
<1> HIDE DEF item
<1>6. u.sent = <<item>> /\ u.app = tx.app - 1 /\ u.retransOut = tx.retransOut
      /\ u.first = tx.first /\ u.sackedOut = tx.sackedOut /\ u.lostOut = tx.lostOut
      /\ u.high = tx.high
      /\ DOMAIN u = DOMAIN tx
  BY DEF Buffers
<1>7. ResetLastSegmentSent(u)
        = [u EXCEPT !.sent = <<>>, !.app = u.app + 1, !.retransOut = u.retransOut]
  BY <1>4, <1>5, <1>6 DEF ResetLastSegmentSent
<1>8. u.app + 1 = tx.app
  BY <1>1, <1>6
<1>9. [u EXCEPT !.sent = <<>>, !.app = tx.app, !.retransOut = tx.retransOut] = tx
  BY DEF Buffers
<1> QED BY <1>3, <1>6, <1>7, <1>8, <1>9

\* The persist timer expires: nothing changes but that a byte is sent.
LEMMA ProbeSettles ==
    ASSUME NEW s, Rest(s), s.out = {}, s.persist
    PROVE  LET t == PersistTimeoutOf(s)
           IN  \/ Settles(s, t) /\ t.out = {}
               \/ /\ Same(s, t, {"out"}) /\ t.out = {<<s.highTx, 1>>}
                  /\ s.tx.sent = <<>> /\ s.highTx < TailSequence(s.tx)
<1> DEFINE t == PersistTimeoutOf(s)
<1>1. /\ Body(s) /\ Calm(s) /\ Ready(s) /\ Types(s) /\ TxOk(s.tx) /\ s.tx \in Buffers
      /\ s.tx.sent = <<>> /\ s.nextTx = s.highTx /\ s.highTx = s.tx.first
      /\ s.highTx = HighData(s.tx) /\ s.highTx \in Nat /\ s.tx.app \in Nat
  <2>1. /\ Body(s) /\ Calm(s) /\ Ready(s) /\ Types(s) /\ TxOk(s.tx) /\ s.tx \in Buffers
        /\ s.tx.sent = <<>> /\ s.nextTx = s.highTx
    BY DEF Rest, Body, Calm, Ready, Types, TxOk
  <2>2. s.highTx = s.tx.first
    BY <2>1, NothingOut
  <2> QED BY <2>1, <2>2 DEF Ready, Types, Buffers
<1>2. CASE ~HasItem(s.tx, 1, s.nextTx)
  <2>1. t = NoItem(s)
    BY <1>2 DEF PersistTimeoutOf
  <2>2. Sends(s, t) /\ t.state = "NULL_ITEM"
    BY <1>1, <2>1, NoItemSends
  <2>3. t.out = {}
    BY <1>1, <2>1 DEF NoItem, Types, Fields
  <2>4. Keeps(s, t) /\ Calm(t) /\ Counts(t) /\ t.congState = s.congState /\ t.recover = s.recover
    BY <1>1, <2>2, SendsKeeps DEF Body
  <2>5. /\ t.rWnd = s.rWnd /\ t.highRxAck = s.highRxAck /\ t.persist = s.persist
        /\ t.alg = s.alg /\ t.sackEnabled = s.sackEnabled /\ t.tx = s.tx
        /\ t.highTx = s.highTx /\ t.nextTx = s.nextTx
    BY <1>1, <2>1, ZenonT(60) DEF NoItem, Types, Fields
  <2>6. Body(t)
    BY <2>4, <2>5 DEF Rest, Body
  <2>7. Rest(t)
    BY <2>2, <2>5, <2>6 DEF Rest, Timer
  <2>8. Advanced(s, t, {})
    <3>1. s.tx.first <= t.tx.first /\ s.highTx <= t.highTx
      <4>1. t.tx.first = s.tx.first /\ t.highTx = s.highTx
        BY <2>5
      <4>2. s.tx.first \in Nat /\ s.highTx \in Nat
        BY <1>1
      <4> QED BY <4>1, <4>2
    <3>2. t.congState = s.congState
      BY <2>4
    <3> HIDE DEF t
    <3> QED BY <2>5, <3>1, <3>2 DEF Advanced
  <2> QED BY <2>3, <2>5, <2>7, <2>8 DEF Settles
<1>3. CASE HasItem(s.tx, 1, s.nextTx)
  <2>1. s.tx.app > 0
    BY <1>1, <1>3 DEF HasItem, MinOf, SizeFromSequence, MaxOf, TailSequence
  <2>2. ResetLastSegmentSent(CopyFromSequence(s.tx, 1, s.nextTx)) = s.tx
    BY <1>1, <2>1, PutBack
  <2>3. t = [s EXCEPT !.tx = s.tx, !.out = {<<s.nextTx, 1>>}]
    BY <1>3, <2>2 DEF PersistTimeoutOf
  <2>4. Same(s, t, {"out"}) /\ t.out = {<<s.nextTx, 1>>}
    BY <1>1, <2>3, ZenonT(60) DEF Types, Same, Fields
  <2>5. s.highTx < TailSequence(s.tx)
    BY <1>1, <2>1 DEF TailSequence
  <2> QED BY <1>1, <2>4, <2>5
<1> QED BY <1>2, <1>3

-----------------------------------------------------------------------------
(***************************************************************************)
(* The receiver and the network.                                           *)
(***************************************************************************)
LEMMA MissingIs ==
    ASSUME NEW b, b \subseteq 1 .. StreamLength
    PROVE  /\ Missing(b) \in Nat /\ Missing(b) >= 1 /\ Missing(b) \notin b
           /\ 1 .. Missing(b) - 1 \subseteq b
<1> DEFINE T == {k \in 1 .. StreamLength + 1 : k \notin b}
<1>1. StreamLength \in Nat /\ StreamLength + 1 \in T /\ T \subseteq Nat
  <2>1. StreamLength \in Nat /\ StreamLength + 1 \in 1 .. StreamLength + 1
    BY SenderAssumption
  <2> QED BY <2>1
<1>2. Missing(b) = Min(T)
  BY DEF Missing
<1> HIDE DEF T
<1>3. Min(T) \in T /\ \A y \in T : Min(T) <= y
  BY <1>1, MinIs
<1>4. Min(T) \in 1 .. StreamLength + 1 /\ Min(T) \notin b
  BY <1>3 DEF T
<1>5. \A k \in 1 .. Min(T) - 1 : k \in b
  <2> TAKE k \in 1 .. Min(T) - 1
  <2>1. k \in 1 .. StreamLength + 1 /\ ~(Min(T) <= k)
    BY <1>1, <1>4
  <2> QED BY <1>3, <2>1 DEF T
<1> QED BY <1>2, <1>4, <1>5

\* The numbers of a set in their order.
LEMMA SortedIs ==
    ASSUME NEW n \in Nat, NEW S, S \subseteq 1 .. n
    PROVE  Sorted(S) \in Seq(S)
<1>1. \A i \in 1 .. Cardinality(S) : \E k \in S : Cardinality({m \in S : m <= k}) = i
  BY RankExists
<1>2. Sorted(S) \in [1 .. Cardinality(S) -> S]
  BY <1>1 DEF Sorted
<1>3. Cardinality(S) \in Nat
  <2>1. IsFiniteSet(1 .. n)
    BY FS_Interval
  <2> QED BY <2>1, FS_Subset, FS_CardinalityType
<1> QED BY <1>2, <1>3, IsASeq

\* Blocks name bytes that are held beyond the first missing one.
LEMMA BlocksFit ==
    ASSUME NEW b, b \subseteq 1 .. StreamLength, NEW seg
    PROVE  BlocksOk(Blocks(b, seg), {x \in b : x > Missing(b)})
<1> DEFINE Stop(k) == {e \in k .. StreamLength + 1 : e \notin b}
           Block(k) == <<k, Min(Stop(k))>>
           starts == {k \in b : k > Missing(b) /\ k - 1 \notin b}
           newest == {k \in starts : k <= seg[1] /\ seg[1] < Block(k)[2]}
           order == Sorted(newest) \o Sorted(starts \ newest)
           G == {x \in b : x > Missing(b)}
<1>1. Blocks(b, seg) = [i \in DOMAIN order |-> Block(order[i])]
  BY DEF Blocks
<1>2. StreamLength \in Nat /\ Missing(b) \in Nat
  BY MissingIs, SenderAssumption
<1>3. starts \subseteq b /\ starts \subseteq 1 .. StreamLength
      /\ newest \subseteq starts /\ starts \ newest \subseteq starts
  OBVIOUS
<1>4. \A k \in starts : Block(k)[1] \in Int /\ Block(k)[2] \in Int /\ Range2(Block(k)) \subseteq G
  <2> TAKE k \in starts
  <2>1. k \in 1 .. StreamLength /\ k > Missing(b) /\ k \in b
    OBVIOUS
  <2>2. StreamLength + 1 \in Stop(k) /\ Stop(k) \subseteq Nat
    <3>1. StreamLength + 1 \notin b
      BY <1>2
    <3> QED BY <1>2, <2>1, <3>1
  <2>3. Min(Stop(k)) \in Stop(k) /\ \A y \in Stop(k) : Min(Stop(k)) <= y
    <3> HIDE DEF Stop
    <3> QED BY <2>2, MinIs
  <2> DEFINE stop == Min(Stop(k))
  <2>4. stop \in Nat /\ stop <= StreamLength + 1
    BY <1>2, <2>1, <2>2, <2>3
  <2>5. Block(k)[1] = k /\ Block(k)[2] = stop
    OBVIOUS
  <2> HIDE DEF stop, starts
  <2>6. \A x \in k .. stop - 1 : x \in b /\ x > Missing(b)
    <3> TAKE x \in k .. stop - 1
    <3>1. x \in k .. StreamLength + 1 /\ ~(stop <= x) /\ x > Missing(b)
      BY <1>2, <2>1, <2>4
    <3>2. x \notin Stop(k)
      BY <2>3, <3>1 DEF stop
    <3> QED BY <3>1, <3>2
  <2> HIDE DEF Block
  <2>7. Range2(Block(k)) \subseteq G
    BY <2>5, <2>6 DEF Range2
  <2> QED BY <2>1, <2>4, <2>5, <2>7
<1> HIDE DEF starts, newest, Block, G
<1>5. Sorted(newest) \in Seq(starts) /\ Sorted(starts \ newest) \in Seq(starts)
  <2>1. newest \subseteq 1 .. StreamLength /\ starts \ newest \subseteq 1 .. StreamLength
    BY <1>3
  <2>2. Sorted(newest) \in Seq(newest) /\ Sorted(starts \ newest) \in Seq(starts \ newest)
    BY <1>2, <2>1, SortedIs
  <2>3. \A A : A \subseteq starts => Seq(A) \subseteq Seq(starts)
    OBVIOUS
  <2> QED BY <1>3, <2>2, <2>3
<1>6. order \in Seq(starts)
  <2> DEFINE A == Sorted(newest)
             B == Sorted(starts \ newest)
  <2> HIDE DEF A, B
  <2>1. A \in Seq(starts) /\ B \in Seq(starts) => A \o B \in Seq(starts)
    OBVIOUS
  <2> QED BY <1>5, <2>1 DEF A, B
<1> HIDE DEF order
<1>7. DOMAIN order = 1 .. Len(order) /\ Len(order) \in Nat
      /\ \A i \in 1 .. Len(order) : order[i] \in starts
  BY <1>6, LenProperties, ElementOfSeq
<1>8. DOMAIN Blocks(b, seg) = 1 .. Len(order)
      /\ \A i \in 1 .. Len(order) : Blocks(b, seg)[i] = Block(order[i])
  BY <1>1, <1>7
<1>9. \A i \in 1 .. Len(order) : /\ Blocks(b, seg)[i][1] \in Int /\ Blocks(b, seg)[i][2] \in Int
                                 /\ Range2(Blocks(b, seg)[i]) \subseteq G
  BY <1>4, <1>7, <1>8, SMTT(30)
<1>10. BlocksOk(Blocks(b, seg), G)
  BY <1>7, <1>8, <1>9 DEF BlocksOk
<1> QED BY <1>10 DEF G

\* Numbers of a socket.
LEMMA RestIs ==
    ASSUME NEW s, Rest(s)
    PROVE  /\ Calm(s) /\ Ready(s) /\ Types(s) /\ TxOk(s.tx) /\ OutOk(s)
           /\ s.highTx \in Nat /\ s.tx.first \in Nat /\ s.tx.first >= 1 /\ s.highRxAck \in Nat
           /\ s.rWnd \in Nat /\ s.sackEnabled \in BOOLEAN /\ s.highTx <= s.highRxAck + s.rWnd
           /\ s.tx.first <= s.highRxAck /\ s.highTx <= StreamLength + 1
           /\ IF s.tx.sent = <<>> THEN s.highTx = s.tx.first ELSE s.tx.first < s.highTx
           /\ Reach(s) \in Nat /\ TailSequence(s.tx) <= StreamLength + 1
<1>1. /\ Calm(s) /\ Ready(s) /\ Types(s) /\ TxOk(s.tx) /\ OutOk(s) /\ s.highTx \in Nat
      /\ s.highRxAck \in Nat /\ s.rWnd \in Nat /\ s.sackEnabled \in BOOLEAN
      /\ s.highTx <= s.highRxAck + s.rWnd /\ s.tx.first <= s.highRxAck
      /\ s.highTx = HighData(s.tx) /\ TailSequence(s.tx) <= StreamLength + 1
  BY DEF Rest, Body, Calm, Ready, Types
<1>2. /\ s.tx.first \in Nat /\ s.tx.first >= 1
      /\ IF s.tx.sent = <<>> THEN HighData(s.tx) = s.tx.first ELSE s.tx.first < HighData(s.tx)
  BY <1>1, TxExtent DEF TxOk
<1>3. s.tx.app \in Nat /\ StreamLength \in Nat
  BY <1>1, SenderAssumption DEF TxOk, Buffers
<1>4. s.highTx <= StreamLength + 1
  BY <1>1, <1>3 DEF TailSequence
<1> QED BY <1>1, <1>2, <1>4 DEF Reach

\* What is held was sent.
LEMMA HeldIs ==
    ASSUME NEW s, NEW W, NEW H, NEW e, Net(s, W, H, e)
    PROVE  H \subseteq 1 .. StreamLength
<1>1. ASSUME NEW b \in H
      PROVE  b \in 1 .. StreamLength
  <2>1. PICK seg \in W : b \in Bytes(seg)
    BY <1>1 DEF Net
  <2>2. /\ seg[1] \in Nat /\ seg[2] \in Nat /\ seg[1] >= 1 /\ StreamLength \in Nat
        /\ seg[1] + seg[2] <= StreamLength + 1
    BY SenderAssumption DEF Net
  <2> QED BY <2>1, <2>2 DEF Bytes
<1> QED BY <1>1

LEMMA AckArrives ==
    ASSUME NEW s, Rest(s), NEW W, NEW H, NEW e, Net(s, W, H, e), NEW a, AckOk(s, a, H, e)
    PROVE  AckIn(s, a, {x \in H : x > a.ack})
<1>1. ASSUME s.tx.sent # <<>>
      PROVE  a.ack <= s.highTx
  <2>1. s.highTx \in Nat /\ s.highTx >= 1 /\ Reach(s) = s.highTx
    BY <1>1, RestIs DEF Reach
  <2>2. a.ack \in Nat /\ a.ack >= 1
    BY DEF AckOk
  <2>3. CASE a.ack = 1
    BY <2>1, <2>3
  <2>4. CASE a.ack # 1
    <3>1. a.ack - 1 \in H
      BY <2>2, <2>4 DEF AckOk
    <3>2. PICK seg \in W : a.ack - 1 \in Bytes(seg)
      BY <3>1 DEF Net
    <3>3. seg[1] \in Nat /\ seg[2] \in Nat /\ seg[1] + seg[2] <= s.highTx
      BY <2>1 DEF Net
    <3> QED BY <2>1, <2>2, <3>2, <3>3 DEF Bytes
  <2> QED BY <2>3, <2>4
<1> QED BY <1>1 DEF AckOk, AckIn

\* The sender moves on.
LEMMA NetMoves ==
    ASSUME NEW s, Rest(s), NEW W, NEW H, NEW e, Net(s, W, H, e), NEW t, Rest(t), NEW G,
           Advanced(s, t, G), G \subseteq H, 1 .. t.highRxAck - 1 \subseteq H,
           t.highRxAck + t.rWnd <= e
    PROVE  Net(t, W \union t.out, H, e)
<1>1. /\ s.highTx \in Nat /\ t.highTx \in Nat /\ s.tx.first \in Nat /\ t.tx.first \in Nat
      /\ Reach(s) \in Nat /\ Reach(t) \in Nat
      /\ IF s.tx.sent = <<>> THEN s.highTx = s.tx.first ELSE s.tx.first < s.highTx
      /\ IF t.tx.sent = <<>> THEN t.highTx = t.tx.first ELSE t.tx.first < t.highTx
      /\ t.highTx <= StreamLength + 1 /\ OutOk(t) /\ StreamLength \in Nat
  BY RestIs, SenderAssumption
<1>2. Reach(s) <= Reach(t)
  BY <1>1 DEF Advanced, Reach
<1>3. ASSUME NEW seg \in W \union t.out
      PROVE  /\ seg[1] \in Nat /\ seg[2] \in Nat /\ seg[1] >= 1 /\ seg[2] >= 1
             /\ seg[1] + seg[2] <= StreamLength + 1 /\ seg[1] + seg[2] <= Reach(t)
  <2>1. CASE seg \in W
    <3>1. /\ seg[1] \in Nat /\ seg[2] \in Nat /\ seg[1] >= 1 /\ seg[2] >= 1
          /\ seg[1] + seg[2] <= StreamLength + 1 /\ seg[1] + seg[2] <= Reach(s)
      BY <2>1 DEF Net
    <3> QED BY <1>1, <1>2, <3>1
  <2>2. CASE seg \in t.out
    <3>1. /\ seg[1] \in Nat /\ seg[2] \in Nat /\ seg[1] >= 1 /\ seg[2] >= 1
          /\ seg[1] + seg[2] <= t.highTx
      BY <1>1, <2>2 DEF OutOk, SentOk
    <3> QED BY <1>1, <3>1 DEF Reach
  <2> QED BY <1>3, <2>1, <2>2
<1>4. /\ \A b \in H : \E seg \in W \union t.out : b \in Bytes(seg)
      /\ e \in Nat /\ e >= 1 /\ \A b \in H : b < e
  BY DEF Net
<1>5. t.sackEnabled => Sacked(t.tx) \subseteq H
  BY DEF Net, Advanced
<1> QED BY <1>3, <1>4, <1>5 DEF Net

\* An ACK that is late is still one when the sender has moved on.
LEMMA LateKeeps ==
    ASSUME NEW s, Rest(s), NEW t, Rest(t), NEW G, Advanced(s, t, G), NEW H, NEW K,
           H \subseteq K, NEW e \in Nat, NEW k \in Nat, e <= k, NEW a, AckOk(s, a, H, e), a.ack \notin G,
           a.ack > t.highRxAck => t.highRxAck + t.rWnd <= a.ack + a.wnd
    PROVE  AckOk(t, a, K, k)
<1>1. a.ack \in Nat /\ a.ack >= 1 /\ a.wnd \in Nat /\ a.ack + a.wnd <= e
  BY DEF AckOk
<1>2. BlocksOk(a.sack, {x \in K : x > a.ack})
  <2>1. BlocksOk(a.sack, {x \in H : x > a.ack})
    BY DEF AckOk
  <2>2. \A x \in H : x \in K
    OBVIOUS
  <2>3. {x \in H : x > a.ack} \subseteq {x \in K : x > a.ack}
    BY <2>2
  <2> QED BY <2>1, <2>3 DEF BlocksOk
<1>3. ASSUME t.sackEnabled, t.tx.first <= a.ack
      PROVE  a.ack \notin Sacked(t.tx)
  <2>1. s.tx.first <= a.ack
    <3>1. s.tx.first \in Nat /\ t.tx.first \in Nat /\ s.tx.first <= t.tx.first
      BY RestIs DEF Advanced
    <3> QED BY <1>1, <1>3, <3>1
  <2>2. s.sackEnabled /\ Sacked(t.tx) \subseteq Sacked(s.tx) \union G
    BY <1>3 DEF Advanced
  <2> QED BY <2>1, <2>2 DEF AckOk
<1>4. a.ack + a.wnd <= k
  BY <1>1
<1> QED BY <1>1, <1>2, <1>3, <1>4 DEF AckOk

\* A segment reaches the receiver.
LEMMA SegmentArrives ==
    ASSUME NEW s, Rest(s), Net(s, wire, held, edge), NEW seg \in wire, NEW reads,
           NEW H, H = Accepted(seg, reads), NEW e, e = EdgeAfter(H, reads)
    PROVE  /\ Net(s, wire, H, e) /\ held \subseteq H /\ edge <= e /\ edge \in Nat /\ e \in Nat
           /\ AckOk(s, AckOf(H, e, seg), H, e)
           /\ Missing(H) \in Nat /\ Missing(H) \notin H
<1> DEFINE limit == IF reads THEN MaxOf(edge, Missing(held) + Buffer) ELSE edge
           a == AckOf(H, e, seg)
<1>1. held \subseteq 1 .. StreamLength /\ Buffer \in Nat /\ edge \in Nat /\ edge >= 1
  BY HeldIs, SenderAssumption DEF Net
<1>2. held \subseteq H /\ \A b \in H : b \in held \/ (b \in Bytes(seg) /\ b < limit)
  BY DEF Accepted
<1>3. \A b \in H : \E g \in wire : b \in Bytes(g)
  BY <1>2 DEF Net
<1>4. H \subseteq 1 .. StreamLength
  <2>1. ASSUME NEW b \in H
        PROVE  b \in 1 .. StreamLength
    <3>1. PICK g \in wire : b \in Bytes(g)
      BY <1>3, <2>1
    <3>2. /\ g[1] \in Nat /\ g[2] \in Nat /\ g[1] >= 1 /\ StreamLength \in Nat
          /\ g[1] + g[2] <= StreamLength + 1
      BY SenderAssumption DEF Net
    <3> QED BY <3>1, <3>2 DEF Bytes
  <2> QED BY <2>1
<1>5. /\ Missing(H) \in Nat /\ Missing(H) >= 1 /\ Missing(H) \notin H
      /\ 1 .. Missing(H) - 1 \subseteq H
  BY <1>4, MissingIs
<1>6. /\ Missing(held) \in Nat /\ Missing(held) >= 1
      /\ 1 .. Missing(held) - 1 \subseteq held
  BY <1>1, MissingIs
<1>7. Missing(held) <= Missing(H)
  <2>1. Missing(H) \notin 1 .. Missing(held) - 1
    BY <1>2, <1>5, <1>6
  <2> QED BY <1>5, <1>6, <2>1
<1>8. e \in Nat /\ edge <= e /\ limit \in Int /\ limit <= e
  BY <1>1, <1>5, <1>6, <1>7 DEF EdgeAfter, MaxOf
<1> HIDE DEF limit
<1>9. \A b \in H : b < e
  <2> TAKE b \in H
  <2>1. b \in Nat
    BY <1>4
  <2>2. CASE b \in held
    <3>1. b < edge
      BY <2>2 DEF Net
    <3> QED BY <1>1, <1>8, <2>1, <3>1
  <2>3. CASE b < limit
    BY <1>8, <2>1, <2>3
  <2> QED BY <1>2, <2>2, <2>3
<1>10. s.highRxAck \in Nat /\ s.rWnd \in Nat /\ s.highRxAck + s.rWnd <= edge
  BY RestIs DEF Net
<1>11. Net(s, wire, H, e)
  <2>1. e >= 1 /\ s.highRxAck + s.rWnd <= e
    BY <1>1, <1>8, <1>10
  <2>2. 1 .. s.highRxAck - 1 \subseteq H /\ (s.sackEnabled => Sacked(s.tx) \subseteq H)
    BY <1>2 DEF Net
  <2> QED BY <1>3, <1>8, <1>9, <2>1, <2>2 DEF Net
<1>12. Missing(H) <= e
  <2>1. CASE Missing(H) = 1
    BY <1>1, <1>8, <2>1
  <2>2. CASE Missing(H) # 1
    <3>1. Missing(H) - 1 \in H
      BY <1>5, <2>2
    <3>2. Missing(H) - 1 < e
      BY <1>9, <3>1
    <3> QED BY <1>5, <1>8, <3>2
  <2> QED BY <2>1, <2>2
<1>13. a.ack = Missing(H) /\ a.wnd = e - Missing(H) /\ a.sack = Blocks(H, seg)
  BY DEF AckOf
<1> HIDE DEF a
<1>14. a.ack \in Nat /\ a.ack >= 1 /\ a.wnd \in Nat /\ a.ack + a.wnd = e
  BY <1>5, <1>8, <1>12, <1>13
<1>15. BlocksOk(a.sack, {x \in H : x > a.ack})
  BY <1>4, <1>13, BlocksFit
<1>16. s.highRxAck + s.rWnd <= a.ack + a.wnd
  BY <1>1, <1>8, <1>10, <1>14
<1>17. s.sackEnabled => a.ack \notin Sacked(s.tx)
  BY <1>5, <1>11, <1>13 DEF Net
<1>18. AckOk(s, a, H, e)
  <2>1. 1 .. a.ack - 1 \subseteq H /\ a.ack + a.wnd <= e
    BY <1>5, <1>8, <1>13, <1>14
  <2> QED BY <1>14, <1>15, <1>16, <1>17, <2>1 DEF AckOk
<1> QED BY <1>1, <1>2, <1>5, <1>8, <1>11, <1>18 DEF a

\* An ACK reaches the sender.
LEMMA AckMoves ==
    ASSUME NEW s, Rest(s), s.out = {}, NEW W, NEW H, NEW e, Net(s, W, H, e),
           NEW a, AckOk(s, a, H, e), NEW w, s.alg = "any" => w \in Nat \ {0},
           NEW t, t = ForwardUp(s, a, w), NEW G, G = Beyond(H, a.ack)
    PROVE  /\ Rest(t) /\ Advanced(s, t, G) /\ Net(t, W \union t.out, H, e)
           /\ s.highRxAck <= t.highRxAck
           /\ (t.highRxAck = s.highRxAck /\ t.rWnd = s.rWnd) \/ t.highRxAck = a.ack
<1>1. AckIn(s, a, G)
  BY AckArrives DEF Beyond
<1>2. /\ Rest(t) /\ Advanced(s, t, G) /\ t.highRxAck = MaxOf(s.highRxAck, a.ack)
      /\ \/ t.highRxAck = s.highRxAck /\ t.rWnd = s.rWnd
         \/ t.highRxAck = a.ack /\ t.rWnd = a.wnd
  BY <1>1, ForwardSettles
<1>3. s.highRxAck \in Nat /\ a.ack \in Nat
  BY RestIs DEF AckOk
<1>4. s.highRxAck <= t.highRxAck
  BY <1>2, <1>3 DEF MaxOf
<1>5. 1 .. t.highRxAck - 1 \subseteq H /\ t.highRxAck + t.rWnd <= e
  <2>1. CASE t.highRxAck = s.highRxAck /\ t.rWnd = s.rWnd
    BY <2>1 DEF Net
  <2>2. CASE t.highRxAck = a.ack /\ t.rWnd = a.wnd
    BY <2>2 DEF AckOk
  <2> QED BY <1>2, <2>1, <2>2
<1>6. G \subseteq H
  BY DEF Beyond
<1>7. Net(t, W \union t.out, H, e)
  BY <1>2, <1>5, <1>6, NetMoves
<1> QED BY <1>2, <1>4, <1>7

-----------------------------------------------------------------------------
(***************************************************************************)
(* The inductive invariant.                                                *)
(***************************************************************************)
LEMMA ViewIs ==
    ASSUME NEW s, NEW t, SameView(s, t)
    PROVE  /\ \A W, H, e : Net(s, W, H, e) => Net(t, W, H, e)
           /\ \A a, H, e : AckOk(s, a, H, e) => AckOk(t, a, H, e)
BY DEF SameView, Net, AckOk, Reach

LEMMA QuietIs ==
    ASSUME DOMAIN sock = Fields
    PROVE  Same(sock, Quiet, {"out"}) /\ Quiet.out = {} /\ SameView(sock, Quiet)
<1>1. Same(sock, Quiet, {"out"}) /\ Quiet.out = {}
  BY DEF Quiet, Same, Fields
<1> QED BY <1>1 DEF Same, Fields, SameView

\* A handler is done, and its segments are the network's.
LEMMA HandledIs ==
    ASSUME NEW t, Rest(t), NEW u, u = [t EXCEPT !.flight = 0],
           NEW q, q = [u EXCEPT !.out = {}]
    PROVE  /\ DOMAIN u = Fields /\ Rest(q) /\ OutOk(u)
           /\ SameView(t, u) /\ SameView(t, q)
<1>1. DOMAIN t = Fields /\ OutOk(t)
  BY RestIs DEF Types
<1>2. Same(t, u, {"flight"}) /\ DOMAIN u = Fields
  BY <1>1 DEF Same, Fields
<1>3. Same(t, q, {"flight", "out"}) /\ q.flight = 0 /\ q.out = {}
  BY <1>1 DEF Same, Fields
<1>4. SameView(t, u) /\ u.out = t.out
  BY <1>2 DEF Same, Fields, SameView
<1>5. OutOk(u)
  BY <1>1, <1>4 DEF OutOk, SentOk, SameView
<1>6. /\ Rest(q)
      /\ q.tx = t.tx /\ q.state = t.state /\ q.congState = t.congState
      /\ q.highTx = t.highTx /\ q.alg = t.alg /\ q.sackEnabled = t.sackEnabled
      /\ q.rWnd = t.rWnd /\ q.highRxAck = t.highRxAck
  <2>1. q.flight \in Nat
    BY <1>3
  <2> QED BY <1>3, <2>1, Hushed, ZenonT(60)
<1> QED BY <1>2, <1>4, <1>5, <1>6 DEF SameView

\* From the state of the network to the invariant, once a handler is done.
LEMMA StepIsSound ==
    ASSUME SenderInv, NEW t, Rest(t), sock' = [t EXCEPT !.flight = 0], NEW G,
           Advanced(Quiet, t, G), Quiet.highRxAck <= t.highRxAck,
           Net(t, wire', held', edge'), late' # NoAck => AckOk(t, late', held', edge')
    PROVE  SenderInv' /\ Stepped
<1>1. SameView(sock, Quiet)
  BY QuietIs DEF SenderInv
<1>2. Quiet' = [sock' EXCEPT !.out = {}]
  BY DEF Quiet
<1>3. /\ DOMAIN sock' = Fields /\ Rest(Quiet') /\ OutOk(sock')
      /\ SameView(t, sock') /\ SameView(t, Quiet')
  BY <1>2, HandledIs
<1>4. Net(Quiet', wire', held', edge')
      /\ (late' # NoAck => AckOk(Quiet', late', held', edge'))
  BY <1>3, ViewIs
<1>5. SenderInv'
  BY <1>3, <1>4 DEF SenderInv, Fields, Rest, NoAck
<1>6. sock.highRxAck <= sock'.highRxAck
      /\ (sock'.congState = "RECOVERY" => sock.congState # "LOSS")
  BY <1>1, <1>3 DEF SameView, Advanced
<1> QED BY <1>3, <1>5, <1>6 DEF Stepped

\* A step of the sender by itself.
LEMMA OwnStep ==
    ASSUME SenderInv, NEW t, Settles(Quiet, t), Handle(t), UNCHANGED <<held, edge, late>>
    PROVE  SenderInv' /\ Stepped
<1>1. /\ Rest(Quiet) /\ Rest(t) /\ Advanced(Quiet, t, {}) /\ t.rWnd = Quiet.rWnd
      /\ t.highRxAck = Quiet.highRxAck /\ Net(Quiet, wire, held, edge)
      /\ sock' = [t EXCEPT !.flight = 0] /\ wire' = wire \union t.out
      /\ held' = held /\ edge' = edge /\ late' = late
  BY DEF SenderInv, Settles, Handle
<1>2. /\ 1 .. t.highRxAck - 1 \subseteq held /\ t.highRxAck + t.rWnd <= edge
      /\ edge \in Nat
  BY <1>1 DEF Net
<1>3. Net(t, wire', held', edge')
  BY <1>1, <1>2, NetMoves
<1>4. ASSUME late' # NoAck
      PROVE  AckOk(t, late', held', edge')
  <2>1. AckOk(Quiet, late, held, edge)
    BY <1>1, <1>4 DEF SenderInv
  <2>2. late.ack > t.highRxAck => t.highRxAck + t.rWnd <= late.ack + late.wnd
    BY <1>1, <2>1 DEF AckOk
  <2>3. edge <= edge
    BY <1>2
  <2>4. AckOk(t, late, held, edge)
    BY <1>1, <1>2, <2>1, <2>2, <2>3, LateKeeps
  <2> QED BY <1>1, <2>4
<1>5. Quiet.highRxAck <= t.highRxAck
  BY <1>1, RestIs
<1> QED BY <1>1, <1>3, <1>4, <1>5, StepIsSound

\* A probe is one byte beyond what is out, and the buffer is as before.
LEMMA ProbeStep ==
    ASSUME SenderInv, NEW t, Same(Quiet, t, {"out"}), t.out = {<<Quiet.highTx, 1>>},
           Quiet.tx.sent = <<>>, Quiet.highTx < TailSequence(Quiet.tx), Handle(t),
           UNCHANGED <<held, edge, late>>, PersistTimeout
    PROVE  SenderInv' /\ Stepped
<1>1. /\ Rest(Quiet) /\ Net(Quiet, wire, held, edge)
      /\ sock' = [t EXCEPT !.flight = 0] /\ wire' = wire \union t.out
      /\ held' = held /\ edge' = edge /\ late' = late /\ SameView(sock, Quiet)
  BY QuietIs DEF SenderInv, Handle
<1>2. Quiet' = [sock' EXCEPT !.out = {}]
  BY DEF Quiet
<1>3. DOMAIN t = Fields /\ Same(Quiet, sock', {"out", "flight"}) /\ DOMAIN sock' = Fields
  BY <1>1 DEF Same, Fields
<1>4. /\ Same(Quiet, Quiet', {"flight", "out"}) /\ Quiet'.flight = 0 /\ Quiet'.out = {}
      /\ SameView(Quiet, Quiet')
  BY <1>1, <1>2, <1>3 DEF Same, Fields, SameView
<1>5. Quiet'.flight \in Nat
  BY <1>4
<1>6. Rest(Quiet')
  BY <1>1, <1>4, <1>5, Hushed
<1>7. /\ Quiet.highTx \in Nat /\ Quiet.highTx >= 1 /\ Reach(Quiet) = Quiet.highTx + 1
      /\ Quiet.highTx + 1 <= StreamLength + 1
  <2>1. /\ Quiet.highTx \in Nat /\ Quiet.highTx >= 1
        /\ TailSequence(Quiet.tx) <= StreamLength + 1
    BY <1>1, RestIs
  <2>2. TailSequence(Quiet.tx) \in Nat
    <3>1. TxOk(Quiet.tx) /\ Quiet.tx \in Buffers
      BY <1>1, RestIs DEF TxOk
    <3>2. HighData(Quiet.tx) \in Nat /\ Quiet.tx.app \in Nat
      BY <3>1, TxExtent DEF TxOk, Buffers
    <3> QED BY <3>2 DEF TailSequence
  <2>3. Reach(Quiet) = Quiet.highTx + 1
    BY DEF Reach
  <2>4. StreamLength \in Nat
    BY SenderAssumption
  <2> HIDE DEF Quiet
  <2> QED BY <2>1, <2>2, <2>3, <2>4
<1>8. Net(Quiet, wire', held', edge')
  <2>1. \A seg \in wire' : seg \in wire \/ seg = <<Quiet.highTx, 1>>
    BY <1>1
  <2>2. /\ \A seg \in wire : /\ seg[1] \in Nat /\ seg[2] \in Nat /\ seg[1] >= 1 /\ seg[2] >= 1
                             /\ seg[1] + seg[2] <= StreamLength + 1
                             /\ seg[1] + seg[2] <= Reach(Quiet)
        /\ \A b \in held : \E seg \in wire : b \in Bytes(seg)
        /\ edge \in Nat /\ edge >= 1 /\ (\A b \in held : b < edge)
        /\ 1 .. Quiet.highRxAck - 1 \subseteq held /\ Quiet.highRxAck + Quiet.rWnd <= edge
        /\ Quiet.sackEnabled => Sacked(Quiet.tx) \subseteq held
    BY <1>1 DEF Net
  <2>3. LET seg == <<Quiet.highTx, 1>>
        IN  /\ seg[1] \in Nat /\ seg[2] \in Nat /\ seg[1] >= 1 /\ seg[2] >= 1
            /\ seg[1] + seg[2] <= StreamLength + 1 /\ seg[1] + seg[2] <= Reach(Quiet)
    BY <1>7
  <2>4. \A b \in held : \E seg \in wire' : b \in Bytes(seg)
    BY <1>1, <2>2
  <2> HIDE DEF Quiet
  <2> QED BY <1>1, <2>1, <2>2, <2>3, <2>4 DEF Net
<1>9. Net(Quiet', wire', held', edge')
      /\ (late' # NoAck => AckOk(Quiet', late', held', edge'))
  BY <1>1, <1>4, <1>8, ViewIs DEF SenderInv
<1>10. SenderInv'
  BY <1>3, <1>6, <1>9 DEF SenderInv, Fields, Rest, NoAck
<1>11. /\ sock'.tx.sent = <<>> /\ sock.highRxAck = sock'.highRxAck
       /\ sock'.congState = sock.congState
  BY <1>1, <1>3 DEF Same, Fields, SameView
<1>12. sock.highRxAck <= sock'.highRxAck
       /\ (sock'.congState = "RECOVERY" => sock.congState # "LOSS")
  <2>1. sock.highRxAck \in Nat
    BY <1>1, RestIs DEF SameView
  <2> QED BY <1>11, <2>1
<1> QED BY <1>10, <1>11, <1>12 DEF Stepped

\* A segment reaches the receiver, and its ACK the sender.
LEMMA DeliverStep ==
    ASSUME SenderInv, NEW seg \in wire, NEW reads, NEW w \in AnyWindow, Deliver(seg, reads, w)
    PROVE  SenderInv' /\ Stepped
<1> DEFINE s == Quiet
           H == held'
           e == edge'
           a == AckOf(H, e, seg)
           t == ForwardUp(s, a, w)
           G == Beyond(H, a.ack)
<1>1. /\ Rest(s) /\ Net(s, wire, held, edge) /\ DOMAIN sock = Fields /\ s.out = {}
      /\ SameView(sock, s)
  BY QuietIs DEF SenderInv
<1>2. /\ H = Accepted(seg, reads) /\ e = EdgeAfter(H, reads) /\ late' = late
      /\ sock' = [t EXCEPT !.flight = 0] /\ wire' = wire \union t.out
  BY DEF Deliver, Handle
<1>3. s.alg = "any" => w \in Nat \ {0}
  BY <1>1, SenderAssumption DEF AnyWindow, SameView
<1>4. late # NoAck => AckOk(s, late, held, edge)
  BY DEF SenderInv
<1> HIDE DEF s, H, e
<1>5. /\ Net(s, wire, H, e) /\ held \subseteq H /\ edge <= e /\ edge \in Nat /\ e \in Nat
      /\ AckOk(s, a, H, e) /\ Missing(H) \in Nat /\ Missing(H) \notin H
  BY <1>1, <1>2, SegmentArrives
<1>6. a.ack = Missing(H)
  BY DEF AckOf
<1>0. t = ForwardUp(s, a, w) /\ G = Beyond(H, a.ack)
  OBVIOUS
<1> HIDE DEF a, t, G
<1>7. /\ Rest(t) /\ Advanced(s, t, G) /\ Net(t, wire \union t.out, H, e)
      /\ s.highRxAck <= t.highRxAck
      /\ (t.highRxAck = s.highRxAck /\ t.rWnd = s.rWnd) \/ t.highRxAck = a.ack
  <2>1. /\ Rest(s) /\ Net(s, wire, H, e) /\ AckOk(s, a, H, e) /\ s.out = {}
        /\ (s.alg = "any" => w \in Nat \ {0})
    BY <1>1, <1>3, <1>5
  <2> QED BY <1>0, <2>1, AckMoves
<1>8. ASSUME late' # NoAck
      PROVE  AckOk(t, late', H, e)
  <2>1. late # NoAck /\ AckOk(s, late, held, edge)
    BY <1>2, <1>4, <1>8
  <2>2. late.ack \in Nat /\ late.ack >= 1 /\ 1 .. late.ack - 1 \subseteq held
    BY <2>1 DEF AckOk
  <2>3. late.ack <= Missing(H)
    <3>1. Missing(H) \notin 1 .. late.ack - 1
      BY <1>5, <2>2
    <3>2. Missing(H) >= 1
      BY <1>5, <1>6 DEF AckOk
    <3> QED BY <1>5, <2>2, <3>1, <3>2
  <2>4. late.ack \notin G
    BY <1>0, <1>5, <1>6, <2>2, <2>3 DEF Beyond
  <2>5. late.ack > t.highRxAck => t.highRxAck + t.rWnd <= late.ack + late.wnd
    <3>1. late.ack > s.highRxAck => s.highRxAck + s.rWnd <= late.ack + late.wnd
      BY <2>1 DEF AckOk
    <3> QED BY <1>5, <1>6, <1>7, <2>2, <2>3, <3>1
  <2>6. AckOk(t, late, H, e)
    BY <1>1, <1>5, <1>7, <2>1, <2>4, <2>5, LateKeeps
  <2> QED BY <1>2, <2>6
<1> QED BY <1>2, <1>7, <1>8, StepIsSound DEF s, H, e

\* A segment reaches the receiver, and no ACK the sender.
LEMMA DeliverOnlyStep ==
    ASSUME SenderInv, NEW seg \in wire, NEW reads, NEW kept \in BOOLEAN,
           DeliverOnly(seg, reads, kept)
    PROVE  SenderInv' /\ Stepped
<1> DEFINE s == Quiet
           H == held'
           e == edge'
           a == AckOf(H, e, seg)
<1>1. /\ Rest(s) /\ Net(s, wire, held, edge) /\ DOMAIN sock = Fields /\ s.out = {}
      /\ SameView(sock, s) /\ Same(sock, s, {"out"})
  BY QuietIs DEF SenderInv
<1>2. /\ H = Accepted(seg, reads) /\ e = EdgeAfter(H, reads)
      /\ sock' = s /\ wire' = wire /\ late' = IF kept THEN a ELSE late
  BY DEF DeliverOnly
<1>3. late # NoAck => AckOk(s, late, held, edge)
  BY DEF SenderInv
<1>4. Quiet' = [sock' EXCEPT !.out = {}]
  BY DEF Quiet
<1> HIDE DEF s, H, e
<1>5. /\ Net(s, wire, H, e) /\ held \subseteq H /\ edge <= e /\ edge \in Nat /\ e \in Nat
      /\ AckOk(s, a, H, e)
  BY <1>1, <1>2, SegmentArrives
<1> HIDE DEF a
<1>6. DOMAIN s = Fields /\ s.flight \in Nat /\ OutOk(s) /\ s.highRxAck \in Nat
  BY <1>1, RestIs DEF Types
<1>7. Same(s, Quiet', {"flight", "out"}) /\ Quiet'.flight = s.flight /\ Quiet'.out = {}
      /\ SameView(s, Quiet')
  BY <1>2, <1>4, <1>6 DEF Same, Fields, SameView
<1>8. Quiet'.flight \in Nat
  BY <1>6, <1>7
<1>9. Rest(Quiet')
  BY <1>1, <1>7, <1>8, Hushed
<1>10. ASSUME late' # NoAck
       PROVE  AckOk(s, late', H, e)
  <2>1. CASE kept
    BY <1>2, <1>5, <2>1
  <2>2. CASE ~kept
    <3>1. late' = late /\ AckOk(s, late, held, edge)
      BY <1>2, <1>3, <1>10, <2>2
    <3>2. Advanced(s, s, {})
      <4>1. /\ s.tx.first \in Nat /\ s.highTx \in Nat
            /\ s.congState = "RECOVERY" => s.congState # "LOSS"
        BY <1>1, RestIs
      <4> QED BY <4>1 DEF Advanced
    <3>3. late.ack \notin {}
          /\ (late.ack > s.highRxAck => s.highRxAck + s.rWnd <= late.ack + late.wnd)
      BY <3>1 DEF AckOk
    <3>4. AckOk(s, late, H, e)
      BY <1>1, <1>5, <3>1, <3>2, <3>3, LateKeeps
    <3> QED BY <3>1, <3>4
  <2> QED BY <2>1, <2>2
<1>11. Net(Quiet', wire', H, e) /\ (late' # NoAck => AckOk(Quiet', late', H, e))
  BY <1>2, <1>5, <1>7, <1>10, ViewIs
<1>12. SenderInv'
  BY <1>2, <1>6, <1>9, <1>11 DEF SenderInv, Fields, Rest, NoAck, H, e
<1>13. sock.highRxAck <= sock'.highRxAck /\ sock'.congState = sock.congState
  BY <1>1, <1>2, <1>6 DEF SameView
<1>14. OutOk(sock')
  BY <1>2, <1>6
<1> QED BY <1>12, <1>13, <1>14 DEF Stepped

\* An ACK that was delayed reaches the sender.
LEMMA LateStep ==
    ASSUME SenderInv, NEW w \in AnyWindow, LateAck(w)
    PROVE  SenderInv' /\ Stepped
<1> DEFINE s == Quiet
           H == held
           e == edge
           a == late
           t == ForwardUp(s, a, w)
           G == Beyond(H, a.ack)
<1>1. /\ Rest(s) /\ Net(s, wire, held, edge) /\ s.out = {} /\ SameView(sock, s)
      /\ AckOk(s, late, held, edge)
  BY QuietIs DEF SenderInv, LateAck
<1>2. /\ held' = held /\ edge' = edge /\ late' = NoAck
      /\ sock' = [t EXCEPT !.flight = 0] /\ wire' = wire \union t.out
  BY DEF LateAck, Handle
<1>3. s.alg = "any" => w \in Nat \ {0}
  BY <1>1, SenderAssumption DEF AnyWindow, SameView
<1>0. /\ t = ForwardUp(s, a, w) /\ G = Beyond(H, a.ack) /\ AckOk(s, a, H, e)
      /\ Rest(s) /\ s.out = {} /\ Net(s, wire, H, e)
  BY <1>1
<1> HIDE DEF s, t, G, a, H, e
<1>4. /\ Rest(t) /\ Advanced(s, t, G) /\ Net(t, wire \union t.out, H, e)
      /\ s.highRxAck <= t.highRxAck
  BY <1>0, <1>3, AckMoves, SMTT(30)
<1> QED BY <1>2, <1>4, StepIsSound DEF s, H, e
\* The application, what is scheduled and the retransmission timer.
LEMMA SelfStep ==
    ASSUME SenderInv, (\E n \in Writes : Send(n)) \/ SendPendingEvent \/ ReTxTimeout
    PROVE  SenderInv' /\ Stepped
<1>1. Rest(Quiet) /\ Quiet.out = {} /\ Same(sock, Quiet, {"out"})
  BY QuietIs DEF SenderInv
<1>2. CASE \E n \in Writes : Send(n)
  <2>1. PICK n \in Writes : Send(n)
    BY <1>2
  <2>2. n \in Nat /\ sock.tx = Quiet.tx /\ AvailableWindow(sock) = AvailableWindow(Quiet)
    BY <1>1, SenderAssumption DEF Same, Fields, AvailableWindow
  <2> DEFINE t == [Quiet EXCEPT !.tx = Add(@, n), !.pending = @ \/ AvailableWindow(sock) > 0]
  <2>3. Handle(t) /\ UNCHANGED <<held, edge, late>>
        /\ TailSequence(Quiet.tx) + n <= 1 + StreamLength
    BY <2>1, <2>2 DEF Send
  <2>4. t = [Quiet EXCEPT !.tx = Add(@, n), !.pending = @ \/ AvailableWindow(Quiet) > 0]
    BY <2>2
  <2> HIDE DEF t
  <2>5. Settles(Quiet, t)
    BY <1>1, <2>2, <2>3, <2>4, WriteSettles
  <2> QED BY <2>3, <2>5, OwnStep
<1>3. CASE SendPendingEvent
  <2> DEFINE t == SendPendingData([Quiet EXCEPT !.pending = FALSE])
  <2>1. Handle(t) /\ UNCHANGED <<held, edge, late>>
    BY <1>3 DEF SendPendingEvent
  <2>2. Settles(Quiet, t)
    BY <1>1, PendingSettles
  <2> HIDE DEF t
  <2> QED BY <2>1, <2>2, OwnStep
<1>4. CASE ReTxTimeout
  <2> DEFINE t == ReTxTimeoutOf([Quiet EXCEPT !.retx = FALSE])
  <2>1. Handle(t) /\ UNCHANGED <<held, edge, late>>
    BY <1>4 DEF ReTxTimeout
  <2>2. Settles(Quiet, t)
    BY <1>1, TimeoutSettles
  <2> HIDE DEF t
  <2> QED BY <2>1, <2>2, OwnStep
<1> QED BY <1>2, <1>3, <1>4

\* The persist timer.
LEMMA PersistStep ==
    ASSUME SenderInv, PersistTimeout
    PROVE  SenderInv' /\ Stepped
<1> DEFINE t == PersistTimeoutOf(Quiet)
<1>1. Rest(Quiet) /\ Quiet.out = {} /\ Quiet.persist
  BY QuietIs DEF SenderInv, Same, Fields, PersistTimeout
<1>2. Handle(t) /\ UNCHANGED <<held, edge, late>>
  BY DEF PersistTimeout
<1>3. \/ Settles(Quiet, t)
      \/ /\ Same(Quiet, t, {"out"}) /\ t.out = {<<Quiet.highTx, 1>>}
         /\ Quiet.tx.sent = <<>> /\ Quiet.highTx < TailSequence(Quiet.tx)
  BY <1>1, ProbeSettles
<1> HIDE DEF t
<1> QED BY <1>2, <1>3, OwnStep, ProbeStep

\* Every step keeps the invariant.
LEMMA NextKeepsInv ==
    ASSUME SenderInv, Next
    PROVE  SenderInv' /\ Stepped
<1>1. CASE \E n \in Writes : Send(n)
  BY <1>1, SelfStep
<1>2. CASE SendPendingEvent \/ ReTxTimeout
  BY <1>2, SelfStep
<1>3. CASE PersistTimeout
  BY <1>3, PersistStep
<1>4. CASE \E seg \in wire, reads \in ReadModes, w \in AnyWindow : Deliver(seg, reads, w)
  BY <1>4, DeliverStep
<1>5. CASE \E seg \in wire, reads \in ReadModes, kept \in BOOLEAN :
              DeliverOnly(seg, reads, kept)
  BY <1>5, DeliverOnlyStep
<1>6. CASE \E w \in AnyWindow : LateAck(w)
  BY <1>6, LateStep
<1> QED BY <1>1, <1>2, <1>3, <1>4, <1>5, <1>6 DEF Next

\* The buffer at first.
LEMMA EmptyIs ==
    LET tx == TxBuffer(1)
    IN  /\ TxOk(tx) /\ Sacked(tx) = {} /\ Lost(tx) = {} /\ HighOk(tx)
        /\ HighData(tx) = 1 /\ TailSequence(tx) = 1 /\ tx.sent = <<>> /\ tx.first = 1
<1> DEFINE tx == TxBuffer(1)
<1>1. tx \in Buffers /\ tx.sent = <<>> /\ tx.first = 1 /\ tx.app = 0 /\ tx.high = 0
      /\ tx.sackedOut = 0 /\ tx.lostOut = 0 /\ tx.retransOut = 0
  BY EmptySeq DEF TxBuffer, Buffers
<1> HIDE DEF tx
<1>2. DOMAIN tx.sent = {}
  BY <1>1
<1>3. \A flag : Marked(tx.sent, flag) = {}
  BY <1>2 DEF Marked, With, BytesAt
<1>4. Cardinality({}) = 0
  BY FS_EmptySet
<1>5. TxOk(tx)
  BY <1>1, <1>2, <1>3, <1>4 DEF TxOk, Chained
<1> QED BY <1>1, <1>3, <1>5 DEF Sacked, Lost, HighOk, HighData, TailSequence, tx

LEMMA InitIs ==
    ASSUME Init
    PROVE  SenderInv
<1> DEFINE tx == TxBuffer(1)
<1>1. /\ TxOk(tx) /\ Sacked(tx) = {} /\ Lost(tx) = {} /\ HighOk(tx)
      /\ HighData(tx) = 1 /\ TailSequence(tx) = 1 /\ tx.sent = <<>> /\ tx.first = 1
  BY EmptyIs
<1>2. /\ DOMAIN sock = Fields /\ sock.tx = tx /\ sock.state = "ESTABLISHED"
      /\ sock.congState = "OPEN" /\ sock.nextTx = 1 /\ sock.highTx = 1 /\ sock.highRxAck = 1
      /\ sock.dupAcks = 0 /\ sock.recover = 0 /\ sock.recoverActive = FALSE
      /\ sock.firstPartial = TRUE /\ sock.alg \in Algorithms /\ sock.cWnd \in Windows
      /\ sock.ssThresh = FirstThreshold /\ sock.flight = 0 /\ sock.prr = NoPrr
      /\ sock.notProcessed = 0 /\ sock.rWnd = FirstWindow /\ sock.retries = DataRetries
      /\ sock.retx = FALSE /\ sock.persist = FALSE /\ sock.pending = FALSE
      /\ sock.sackEnabled \in SackModes /\ sock.noDelay \in NoDelayModes /\ sock.out = {}
  BY DEF Init, Fields
<1>3. wire = {} /\ held = {} /\ edge = 1 + FirstWindow /\ late = NoAck
  BY DEF Init
<1> DEFINE s == Quiet
<1>4. Same(sock, s, {"out"}) /\ s.out = {}
  BY <1>2, QuietIs
<1> HIDE DEF s, tx
<1>5. /\ DOMAIN s = Fields /\ s.tx = tx /\ s.state = "ESTABLISHED"
      /\ s.congState = "OPEN" /\ s.nextTx = 1 /\ s.highTx = 1 /\ s.highRxAck = 1
      /\ s.dupAcks = 0 /\ s.recover = 0 /\ s.recoverActive = FALSE
      /\ s.firstPartial = TRUE /\ s.alg \in Algorithms /\ s.cWnd \in Windows
      /\ s.ssThresh = FirstThreshold /\ s.flight = 0 /\ s.prr = NoPrr
  BY <1>2, <1>4 DEF Same, Fields
<1>6. /\ s.notProcessed = 0 /\ s.rWnd = FirstWindow /\ s.retries = DataRetries
      /\ s.retx = FALSE /\ s.persist = FALSE /\ s.pending = FALSE
      /\ s.sackEnabled \in SackModes /\ s.noDelay \in NoDelayModes
  BY <1>2, <1>4 DEF Same, Fields
<1>7. /\ FirstWindow \in Nat /\ FirstWindow > 0 /\ FirstThreshold \in Nat \ {0}
      /\ DataRetries \in Nat /\ StreamLength \in Nat
      /\ s.alg \in {"any", "classic", "prr"} /\ s.cWnd \in Nat /\ s.cWnd # 0
      /\ s.sackEnabled \in BOOLEAN /\ s.noDelay \in BOOLEAN
  <2>1. /\ FirstWindow \in Nat /\ FirstWindow > 0 /\ FirstThreshold \in Nat \ {0}
        /\ DataRetries \in Nat /\ StreamLength \in Nat
    BY SenderAssumption
  <2>2. /\ Algorithms \subseteq {"any", "classic", "prr"} /\ Windows \subseteq Nat \ {0}
        /\ SackModes \subseteq BOOLEAN /\ NoDelayModes \subseteq BOOLEAN
    BY SenderAssumption
  <2>3. /\ s.alg \in {"any", "classic", "prr"} /\ s.cWnd \in Nat \ {0}
        /\ s.sackEnabled \in BOOLEAN /\ s.noDelay \in BOOLEAN
    BY <1>5, <1>6, <2>2
  <2> QED BY <2>1, <2>3
<1>8. NoPrr \in Prr
  BY DEF NoPrr, Prr
<1>9. Types(s)
  <2>1. /\ s.nextTx \in Nat /\ s.highTx \in Nat /\ s.highRxAck \in Nat
        /\ s.dupAcks \in Nat /\ s.recover \in Nat /\ s.ssThresh \in Nat \ {0}
        /\ s.flight \in Nat /\ s.prr \in Prr /\ s.notProcessed \in Nat /\ s.rWnd \in Nat
        /\ s.retries \in 0 .. DataRetries
    BY <1>5, <1>6, <1>7, <1>8
  <2>2. /\ s.recoverActive \in BOOLEAN /\ s.firstPartial \in BOOLEAN
        /\ s.retx \in BOOLEAN /\ s.persist \in BOOLEAN /\ s.pending \in BOOLEAN
    BY <1>5, <1>6
  <2> QED BY <1>1, <1>5, <1>7, <2>1, <2>2 DEF Types
<1>10. Ready(s)
  BY <1>1, <1>4, <1>5, <1>6, <1>7, <1>9 DEF Ready, OutOk
<1>11. Board(s) /\ Cong(s) /\ Counts(s)
  BY <1>1, <1>5, <1>7 DEF Board, Cong, Counts
<1>12. Rest(s)
  BY <1>1, <1>5, <1>6, <1>7, <1>10, <1>11 DEF Rest, Body, Timer, Calm
<1>13. Net(s, wire, held, edge)
  BY <1>1, <1>3, <1>5, <1>6, <1>7 DEF Net
<1> QED BY <1>2, <1>3, <1>12, <1>13 DEF SenderInv, s
-----------------------------------------------------------------------------
(***************************************************************************)
(* What the invariant says.                                                *)
(***************************************************************************)
LEMMA InvTypeOK ==
    ASSUME SenderInv
    PROVE  TypeOK
<1>1. Rest(Quiet) /\ Same(sock, Quiet, {"out"}) /\ Net(Quiet, wire, held, edge)
  BY QuietIs DEF SenderInv
<1>2. Types(Quiet) /\ TxOk(Quiet.tx)
  BY <1>1, RestIs
<1>3. /\ sock.tx = Quiet.tx /\ sock.state = Quiet.state /\ sock.congState = Quiet.congState
      /\ sock.dupAcks = Quiet.dupAcks /\ sock.retries = Quiet.retries
      /\ sock.retx = Quiet.retx /\ sock.persist = Quiet.persist
      /\ sock.pending = Quiet.pending
  BY <1>1 DEF Same, Fields
<1>4. held \subseteq 1 .. StreamLength
  BY <1>1, HeldIs
<1> DEFINE s == Quiet
<1> HIDE DEF s
<1>5. ASSUME NEW i \in DOMAIN s.tx.sent, TxOk(s.tx)
      PROVE  s.tx.sent[i].len \in 1 .. SegmentSize
  <2>1. s.tx.sent[i] \in Item /\ s.tx.sent[i].len <= SegmentSize
    BY <1>5, TxExtent DEF TxOk
  <2> QED BY <2>1, ItemIs, TxBufferAssumption
<1>6. /\ sock.state \in {"ESTABLISHED", "DROPPED", "NULL_ITEM"}
      /\ sock.congState \in {"OPEN", "DISORDER", "RECOVERY", "LOSS"}
      /\ sock.dupAcks \in Nat /\ sock.retries \in 0 .. DataRetries
      /\ sock.retx \in BOOLEAN /\ sock.persist \in BOOLEAN /\ sock.pending \in BOOLEAN
  BY <1>2, <1>3 DEF Types
<1>7. \A i \in DOMAIN sock.tx.sent : sock.tx.sent[i].len \in 1 .. SegmentSize
  BY <1>2, <1>3, <1>5 DEF s
<1> QED BY <1>4, <1>6, <1>7 DEF TypeOK

LEMMA InvCounters ==
    ASSUME SenderInv
    PROVE  CountersAgree
<1> DEFINE tx == sock.tx
<1>1. TxOk(tx)
  BY QuietIs, RestIs DEF SenderInv, SameView
<1>2. TypeOK
  BY InvTypeOK
<1> HIDE DEF tx
<1>3. /\ Spans(tx.sent) /\ Chained(tx.sent) /\ (tx.sent # <<>> => tx.sent[1].seq = tx.first)
      /\ DOMAIN tx.sent = 1 .. Len(tx.sent) /\ Len(tx.sent) \in Nat
      /\ (tx.sent = <<>> <=> Len(tx.sent) = 0)
  BY <1>1, TxExtent DEF TxOk
<1>4. /\ tx.sackedOut = Flagged(tx.sent, "sacked")
      /\ tx.lostOut = Flagged(tx.sent, "lost")
      /\ tx.retransOut = Flagged(tx.sent, "retrans")
  <2>1. \A flag : Flagged(tx.sent, flag) = Cardinality(Marked(tx.sent, flag))
    BY <1>3, FlaggedIs
  <2> QED BY <1>1, <2>1 DEF TxOk
<1>5. ASSUME NEW i \in DOMAIN tx.sent
      PROVE  /\ tx.sent[i].seq = IF i = 1 THEN tx.first ELSE EndOf(tx.sent[i - 1])
             /\ ~(tx.sent[i].lost /\ tx.sent[i].sacked)
  <2>1. i \in Nat /\ i >= 1 /\ tx.sent # <<>>
    BY <1>3, <1>5
  <2>2. ~(tx.sent[i].lost /\ tx.sent[i].sacked)
    BY <1>1, <1>5 DEF TxOk
  <2>3. CASE i = 1
    BY <1>3, <2>1, <2>2, <2>3
  <2>4. CASE i > 1
    BY <1>3, <1>5, <2>2, <2>4 DEF Chained
  <2> QED BY <2>1, <2>3, <2>4
<1> QED BY <1>2, <1>4, <1>5 DEF CountersAgree, tx

LEMMA InvCongState ==
    ASSUME SenderInv
    PROVE  CongStateAgrees
<1>1. Rest(Quiet) /\ Same(sock, Quiet, {"out"})
  BY QuietIs DEF SenderInv
<1>2. /\ sock.tx = Quiet.tx /\ sock.congState = Quiet.congState
      /\ sock.dupAcks = Quiet.dupAcks /\ sock.recover = Quiet.recover
      /\ sock.recoverActive = Quiet.recoverActive
  BY <1>1 DEF Same, Fields
<1> DEFINE s == Quiet
<1> HIDE DEF s
<1>3. Rest(s) /\ Body(s) /\ Cong(s) /\ Counts(s) /\ Types(s)
  BY <1>1, RestIs DEF s, Rest, Body, Calm
<1>4. /\ s.recoverActive = (s.congState \in {"RECOVERY", "LOSS"})
      /\ s.congState = "RECOVERY" => s.tx.first < s.recover
      /\ s.congState = "OPEN" => s.dupAcks = 0
  BY <1>3 DEF Body, Cong, Counts, Types
<1>5. s.congState = "DISORDER" => s.dupAcks > 0 /\ s.dupAcks <= ReTxThreshold
  BY <1>3, TxBufferAssumption DEF Counts, Types
<1> QED BY <1>2, <1>4, <1>5 DEF CongStateAgrees, s

LEMMA InvLost ==
    ASSUME SenderInv
    PROVE  LostJustified
<1>1. Rest(Quiet) /\ SameView(sock, Quiet)
  BY QuietIs DEF SenderInv
<1> DEFINE s == Quiet
<1> HIDE DEF s
<1>2. Rest(s) /\ Board(s) /\ TxOk(s.tx)
  BY <1>1, RestIs DEF s, Rest, Body, Calm
<1>3. sock.tx = s.tx /\ sock.congState = s.congState /\ sock.sackEnabled = s.sackEnabled
  BY <1>1 DEF s, SameView
<1>4. ASSUME s.sackEnabled, s.congState # "LOSS", NEW i \in DOMAIN s.tx.sent, i > 1,
             s.tx.sent[i].lost
      PROVE  Cardinality(LaterSacked(s.tx, i)) >= ReTxThreshold
  <2> DEFINE b == s.tx.sent[i].seq
  <2>1. /\ Spans(s.tx.sent) /\ DOMAIN s.tx.sent = 1 .. Len(s.tx.sent)
        /\ Len(s.tx.sent) \in Nat /\ s.tx.sent[i] \in Item /\ ~s.tx.sent[i].sacked
    BY <1>2, <1>4, TxExtent DEF TxOk
  <2>2. b \in Nat /\ b \in SentBytes(s.tx.sent[i])
    BY <2>1, ItemIs DEF SentBytes
  <2>3. HeadEnd(s.tx) <= b /\ HeadEnd(s.tx) \in Nat
    <3>1. 1 \in DOMAIN s.tx.sent /\ 1 < i /\ s.tx.sent # <<>>
      BY <1>4, <2>1
    <3>2. HeadEnd(s.tx) <= b
      BY <1>4, <2>1, <3>1 DEF Spans, HeadEnd
    <3> QED BY <1>2, <3>1, <3>2, HeadIs
  <2> HIDE DEF b
  <2>4. b \in Lost(s.tx)
    BY <1>4, <2>1, <2>2, MarkedAs DEF Lost
  <2>5. ~(b < HeadEnd(s.tx))
    BY <2>2, <2>3
  <2>6. Enough(s.tx, b)
    BY <1>2, <1>4, <2>4, <2>5 DEF Board, LostOk
  <2> QED BY <1>2, <1>4, <2>1, <2>2, <2>6, CountsAgree DEF Enough
<1> QED BY <1>3, <1>4 DEF LostJustified, LaterSacked

LEMMA InvScoreboard ==
    ASSUME SenderInv
    PROVE  ScoreboardTrue
<1>1. Rest(Quiet) /\ SameView(sock, Quiet) /\ Net(Quiet, wire, held, edge)
  BY QuietIs DEF SenderInv
<1> DEFINE s == Quiet
<1> HIDE DEF s
<1>2. /\ Rest(s) /\ Board(s) /\ TxOk(s.tx) /\ s.tx.first <= s.highRxAck
      /\ s.tx.first \in Nat /\ s.highRxAck \in Nat
      /\ 1 .. s.highRxAck - 1 \subseteq held
      /\ s.sackEnabled => Sacked(s.tx) \subseteq held
  BY <1>1, RestIs DEF s, Rest, Body, Calm, Net
<1>3. sock.tx = s.tx /\ sock.sackEnabled = s.sackEnabled
  BY <1>1 DEF s, SameView
<1>4. 1 .. s.tx.first - 1 \subseteq held
  <2>1. 1 .. s.tx.first - 1 \subseteq 1 .. s.highRxAck - 1
    BY <1>2
  <2> QED BY <1>2, <2>1
<1>5. ASSUME s.sackEnabled, NEW i \in DOMAIN s.tx.sent, s.tx.sent[i].sacked
      PROVE  i > 1 /\ SentBytes(s.tx.sent[i]) \subseteq held
  <2>1. /\ Spans(s.tx.sent) /\ DOMAIN s.tx.sent = 1 .. Len(s.tx.sent)
        /\ Len(s.tx.sent) \in Nat
    BY <1>2, TxExtent DEF TxOk
  <2>2. s.tx.sent # <<>> /\ s.tx.first \notin Sacked(s.tx)
    BY <1>2, <1>5 DEF Board
  <2>3. ~s.tx.sent[1].sacked
    BY <1>2, <2>2, HeadIs
  <2>4. i > 1
    BY <1>5, <2>1, <2>3
  <2>5. SentBytes(s.tx.sent[i]) \subseteq Sacked(s.tx)
    BY <1>5, <2>1, MarkedAs DEF Sacked
  <2> QED BY <1>2, <1>5, <2>4, <2>5
<1> QED BY <1>3, <1>4, <1>5 DEF ScoreboardTrue

LEMMA InvNeverStalls ==
    ASSUME SenderInv
    PROVE  NeverStalls
<1>1. Rest(Quiet) /\ Same(sock, Quiet, {"out"})
  BY QuietIs DEF SenderInv
<1> DEFINE s == Quiet
<1>2. /\ Timer(s) /\ TxOk(s.tx)
      /\ \A f \in Fields \ {"out"} : sock[f] = s[f]
  BY <1>1, RestIs DEF Rest, Same
<1> HIDE DEF s
<1>3. /\ sock.tx = s.tx /\ sock.rWnd = s.rWnd /\ sock.cWnd = s.cWnd
      /\ sock.highTx = s.highTx /\ sock.noDelay = s.noDelay
      /\ sock.state = s.state /\ sock.retx = s.retx /\ sock.pending = s.pending
      /\ sock.congState = s.congState
  BY <1>2 DEF Fields
<1> SUFFICES ASSUME Alive, sock.tx.sent # <<>>, ~sock.retx PROVE HeldAfterTimeout(sock)
  BY DEF NeverStalls
<1>4. Stalled(s) /\ (s.pending \/ HoldsBack(s, Size(s.tx)))
  BY <1>2, <1>3 DEF Timer, Alive
<1>5. sock.pending \/ HoldsBack(sock, Size(sock.tx))
  BY <1>3, <1>4, HeldBack
<1>6. ASSUME NEW i \in DOMAIN s.tx.sent
      PROVE  (s.tx.sent[i].lost \/ s.tx.sent[i].sacked) /\ ~s.tx.sent[i].retrans
  <2> DEFINE b == s.tx.sent[i].seq
  <2>1. Spans(s.tx.sent) /\ b \in SentBytes(s.tx.sent[i]) /\ b \in Out(s.tx)
    BY <1>2, <1>6, TxExtent DEF TxOk, Item, SentBytes, Out
  <2> HIDE DEF b
  <2>2. (b \in Sacked(s.tx) \/ b \in Lost(s.tx)) /\ b \notin Resent(s.tx)
    BY <1>4, <2>1 DEF Stalled, AllLostTx
  <2> QED BY <1>6, <2>1, <2>2, MarkedAs DEF Sacked, Lost, Resent
<1> QED BY <1>3, <1>4, <1>5, <1>6 DEF HeldAfterTimeout, Stalled

\* What a step has sent, and what the invariant then says.
LEMMA SentWithin ==
    ASSUME SenderInv', OutOk(sock'), NEW seg \in sock'.out
    PROVE  seg[1] + seg[2] <= edge'
<1> DEFINE s == Quiet'
<1>1. Rest(s) /\ SameView(sock', s) /\ Net(s, wire', held', edge')
  <2>2. Quiet' = [sock' EXCEPT !.out = {}] /\ DOMAIN sock' = Fields
    BY DEF SenderInv, Quiet, Fields
  <2>3. SameView(sock', s)
    BY <2>2 DEF SameView, Fields
  <2> QED BY <2>3 DEF SenderInv, Rest, Net
<1> HIDE DEF s
<1>2. /\ s.highTx \in Nat /\ s.highRxAck \in Nat /\ s.rWnd \in Nat
      /\ s.highTx <= s.highRxAck + s.rWnd
  BY <1>1, RestIs
<1>3. edge' \in Nat /\ s.highRxAck + s.rWnd <= edge'
  BY <1>1 DEF Net
<1>4. /\ seg[1] \in Nat /\ seg[2] \in Nat /\ seg[1] + seg[2] <= sock'.highTx
      /\ sock'.highTx = s.highTx
  BY <1>1 DEF OutOk, SentOk, SameView
<1> QED BY <1>2, <1>3, <1>4

LEMMA SentUnsacked ==
    ASSUME NEW s, TxOk(s.tx), OutOk(s), NEW seg \in s.out, NEW i \in DOMAIN s.tx.sent,
           s.tx.sent[i].sacked
    PROVE  Bytes(seg) \intersect SentBytes(s.tx.sent[i]) = {}
<1>1. Bytes(seg) \intersect Sacked(s.tx) = {}
  BY DEF OutOk, SentOk
<1>2. Spans(s.tx.sent)
  BY TxExtent DEF TxOk
<1>3. SentBytes(s.tx.sent[i]) \subseteq Sacked(s.tx)
  BY <1>2, MarkedAs DEF Sacked
<1> QED BY <1>1, <1>3
-----------------------------------------------------------------------------
(***************************************************************************)
(* The theorems, for any stream, writes, windows and buffer of the peer,   *)
(* with and without SACK and Nagle's algorithm, with any congestion        *)
(* control or with NewReno, classic recovery or proportional rate          *)
(* reduction, whatever the network does to segments and ACKs.              *)
(***************************************************************************)
\* The inductive invariant.
THEOREM SenderInvariant == Spec => []SenderInv
<1>1. Init => SenderInv
  BY InitIs
<1>2. SenderInv /\ [Next]_vars => SenderInv'
  <2>1. SenderInv /\ UNCHANGED vars => SenderInv'
    BY DEF SenderInv, vars, Quiet, Fields, Rest, Net, AckOk, NoAck
  <2> QED BY <2>1, NextKeepsInv
<1> QED BY <1>1, <1>2, PTL DEF Spec

\* Every field keeps its type through every handler (ReceivedAck, ReTxTimeout,
\* PersistTimeout, Send): no item is longer than a segment, no count of duplicates or
\* retries goes below zero.
THEOREM SenderTypes == Spec => []TypeOK
BY SenderInvariant, InvTypeOK, PTL

\* ConsistencyCheck of TcpTxBuffer, which is compiled out, never fails: the counters are
\* those of the items, which tile what was sent, and none is both lost and SACKed.
THEOREM BufferIsConsistent == Spec => []CountersAgree
BY SenderInvariant, InvCounters, PTL

\* m_congState agrees with m_dupAckCount, m_recoverActive and m_recover, and recovery
\* always has something left to recover (DupAck, EnterRecovery, ProcessAck, ReTxTimeout).
THEOREM CongStateIsRight == Spec => []CongStateAgrees
BY SenderInvariant, InvCongState, PTL

\* Away from a timeout UpdateLostCount marks only what enough later SACKs report lost.
THEOREM LossIsJustified == Spec => []LostJustified
BY SenderInvariant, InvLost, PTL

\* What DiscardUpTo lets go of and Update marks the receiver has, whatever the network
\* loses, repeats, delays and reorders, and the head is never SACKed.
THEOREM ScoreboardIsTrue == Spec => []ScoreboardTrue
BY SenderInvariant, InvScoreboard, PTL

\* While bytes are unacknowledged the retransmission timer runs, unless a timeout took
\* all for lost and the retransmission waits for a scheduled send or is held back.
THEOREM SenderNeverStalls == Spec => []NeverStalls
BY SenderInvariant, InvNeverStalls, PTL

\* A window probe apart, SendPendingData and DoRetransmit send nothing beyond the
\* window the receiver gave, though windows come late and out of order.
THEOREM SendsWithinWindow == Spec => WithinWindow
<1>1. SenderInv /\ SenderInv' /\ [Next]_vars
        => [~PersistTimeout => \A seg \in sock'.out : seg[1] + seg[2] <= edge']_vars
  <2>1. ASSUME SenderInv, SenderInv', Next, ~PersistTimeout, NEW seg \in sock'.out
        PROVE  seg[1] + seg[2] <= edge'
    <3>1. OutOk(sock')
      BY <2>1, NextKeepsInv DEF Stepped
    <3> QED BY <2>1, <3>1, SentWithin
  <2> QED BY <2>1
<1> QED BY <1>1, SenderInvariant, PTL DEF Spec, WithinWindow

\* The assertion of tcp-tx-buffer.cc:245: no byte that is sent is SACKed.
THEOREM SackedIsNotResent == Spec => SackedNotResent
<1>1. SenderInv /\ SenderInv' /\ [Next]_vars
        => [\A seg \in sock'.out, i \in DOMAIN sock'.tx.sent :
              sock'.tx.sent[i].sacked
                 => Bytes(seg) \cap SentBytes(sock'.tx.sent[i]) = {}]_vars
  <2>1. ASSUME SenderInv, SenderInv', Next,
               NEW seg \in sock'.out, NEW i \in DOMAIN sock'.tx.sent,
               sock'.tx.sent[i].sacked
        PROVE  Bytes(seg) \cap SentBytes(sock'.tx.sent[i]) = {}
    <3> DEFINE s == sock'
    <3>1. OutOk(s) \/ s.tx.sent = <<>>
      BY <2>1, NextKeepsInv DEF Stepped
    <3>2. s.tx.sent # <<>>
      BY <2>1
    <3>3. TxOk(s.tx)
      <4>1. DOMAIN s = Fields /\ Rest(Quiet')
        BY <2>1 DEF SenderInv, Fields, Rest
      <4>2. s.tx = Quiet'.tx
        BY <4>1 DEF Quiet, Fields
      <4> QED BY <4>1, <4>2, RestIs
    <3> HIDE DEF s
    <3> QED BY <2>1, <3>1, <3>2, <3>3, SentUnsacked DEF s
  <2> QED BY <2>1
<1> QED BY <1>1, SenderInvariant, PTL DEF Spec, SackedNotResent

\* EnterRecovery, which lowers the threshold, runs again only when all that was out at
\* the last recovery or timeout is acknowledged.
THEOREM ReducesOncePerWindow == Spec => ReducedOncePerWindow
<1>1. SenderInv /\ SenderInv' /\ [Next]_vars
        => [sock.congState # "RECOVERY" /\ sock'.congState = "RECOVERY"
              => sock'.highRxAck >= sock.recover]_vars
  <2>1. ASSUME SenderInv, SenderInv', Next,
               sock.congState # "RECOVERY", sock'.congState = "RECOVERY"
        PROVE  sock'.highRxAck >= sock.recover
    <3> DEFINE s == Quiet
    <3>1. Rest(s) /\ Same(sock, s, {"out"})
      BY <2>1, QuietIs DEF SenderInv
    <3>2. /\ sock.congState # "LOSS" /\ sock.highRxAck <= sock'.highRxAck
      BY <2>1, NextKeepsInv DEF Stepped
    <3>3. Rest(Quiet') /\ DOMAIN sock' = Fields
      BY <2>1 DEF SenderInv, Fields, Rest
    <3>4. sock'.highRxAck = Quiet'.highRxAck
      BY <3>3 DEF Quiet, Fields
    <3>5. sock'.highRxAck \in Nat
      BY <3>3, <3>4, RestIs
    <3> HIDE DEF s
    <3>6. /\ s.congState = sock.congState /\ s.highRxAck = sock.highRxAck
          /\ s.recover = sock.recover
      BY <3>1 DEF Same, Fields
    <3>7. Cong(s) /\ Types(s)
      BY <3>1, RestIs DEF Calm
    <3>8. ~s.recoverActive
      BY <2>1, <3>2, <3>6, <3>7 DEF Cong
    <3>9. s.recover <= s.highRxAck /\ s.recover \in Nat /\ s.highRxAck \in Nat
      BY <3>7, <3>8 DEF Cong, Types
    <3> QED BY <3>2, <3>5, <3>6, <3>9
  <2> QED BY <2>1
<1> QED BY <1>1, SenderInvariant, PTL DEF Spec, ReducedOncePerWindow

==============================================================================
