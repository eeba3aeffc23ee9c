--------------------------- MODULE InductionFacts ---------------------------
(***************************************************************************)
(* Induction over the natural numbers and over finite sets, stated for     *)
(* sets: to use it on a formula P, take the set {k \in Nat : P(k)}.  With   *)
(* it, what a recursive function describes exists.  At the end, sizes of   *)
(* sets and the pieces of a sequence.                                      *)
(***************************************************************************)
EXTENDS Integers, FiniteSets, Sequences, WellFoundedInduction, FiniteSetTheorems,
        SequenceTheorems, TLAPS

\* A set of natural numbers that is not empty has a least element.
LEMMA LeastExists ==
    ASSUME NEW T, T \subseteq Nat, T # {}
    PROVE  \E x \in T : \A y \in T : x <= y
<1> DEFINE R == OpToRel(<, Nat)
<1>1. \E x \in T : \A y \in T : ~ (<<y, x>> \in R)
  BY NatLessThanWellFounded, WFMin
<1>2. \A x \in T, y \in T : y < x => <<y, x>> \in R
  BY DEF OpToRel
<1> HIDE DEF R
<1>3. \A x \in T, y \in T : ~(<<y, x>> \in R) => x <= y
  BY <1>2
<1> QED BY <1>1, <1>3

\* A set that has 0 and with every number the next has all natural numbers.
LEMMA Induction ==
    ASSUME NEW T, 0 \in T, \A k \in Nat : k \in T => k + 1 \in T
    PROVE  Nat \subseteq T
<1> DEFINE U == Nat \ T
<1>1. SUFFICES ASSUME U # {} PROVE FALSE
  OBVIOUS
<1>2. PICK x \in U : \A y \in U : x <= y
  BY <1>1, LeastExists
<1>3. x # 0 /\ x - 1 \in Nat
  BY <1>2
<1>4. x - 1 \in T
  BY <1>2, <1>3
<1>5. x \in T
  BY <1>3, <1>4
<1> QED BY <1>2, <1>5

\* f has a value for each number up to n: the first is base, each other one what
\* F makes of the one before it.
Follows(f, F, S, base, n) ==
    /\ f \in [0 .. n -> S] /\ f[0] = base
    /\ \A k \in 1 .. n : f[k] = F[k][f[k - 1]]

StepsIn(F, S, n) == F \in [1 .. n -> [S -> S]]

\* What a recursive function describes step by step exists.
LEMMA Recursion ==
    ASSUME NEW S, NEW base \in S, NEW n \in Nat, NEW F, StepsIn(F, S, n)
    PROVE  \E f : Follows(f, F, S, base, n)
<1>0. F \in [1 .. n -> [S -> S]]
  BY DEF StepsIn
<1> DEFINE Upto(f, m) == /\ f \in [0 .. m -> S] /\ f[0] = base
                         /\ \A k \in 1 .. m : f[k] = F[k][f[k - 1]]
           T == {m \in Nat : m <= n => \E f : Upto(f, m)}
<1>1. 0 \in T
  <2>1. Upto([k \in 0 .. 0 |-> base], 0)
    OBVIOUS
  <2> QED BY <2>1
<1>2. ASSUME NEW m \in Nat, m + 1 <= n, NEW f, Upto(f, m)
      PROVE  \E g : Upto(g, m + 1)
  <2> DEFINE g == [k \in 0 .. m + 1 |-> IF k = m + 1 THEN F[m + 1][f[m]] ELSE f[k]]
  <2>1. F[m + 1] \in [S -> S] /\ f[m] \in S
    BY <1>0, <1>2
  <2>2. g \in [0 .. m + 1 -> S] /\ g[0] = base
    BY <2>1, <1>2
  <2>3. ASSUME NEW k \in 1 .. m + 1 PROVE g[k] = F[k][g[k - 1]]
    <3>1. k - 1 \in 0 .. m /\ g[k - 1] = f[k - 1]
      OBVIOUS
    <3>2. CASE k = m + 1
      BY <3>1, <3>2
    <3>3. CASE k # m + 1
      BY <3>1, <3>3, <1>2
    <3> QED BY <3>2, <3>3
  <2> HIDE DEF g
  <2> QED BY <2>2, <2>3
<1>3. ASSUME NEW m \in Nat, m \in T PROVE m + 1 \in T
  <2>1. m + 1 <= n => m <= n
    OBVIOUS
  <2>2. m + 1 <= n => \E f : Upto(f, m)
    BY <2>1, <1>3
  <2> HIDE DEF Upto
  <2>3. m + 1 <= n => \E g : Upto(g, m + 1)
    BY <2>2, <1>2
  <2> QED BY <2>3
<1>4. n \in T
  <2> HIDE DEF T
  <2> QED BY <1>1, <1>3, Induction
<1>5. n <= n
  OBVIOUS
<1> QED BY <1>4, <1>5 DEF Follows

-----------------------------------------------------------------------------
\* The subsets of a finite set, each reached from a smaller one by adding the
\* element that is picked from it.
Picks(pick, S) == \A T \in SUBSET S : T # {} => pick[T] \in T

LEMMA SetInduction ==
    ASSUME NEW S, IsFiniteSet(S), NEW pick, Picks(pick, S),
           NEW D, {} \in D,
           \A T \in SUBSET S : T # {} /\ T \ {pick[T]} \in D => T \in D
    PROVE  SUBSET S \subseteq D
<1> DEFINE N == {k \in Nat : \A T \in SUBSET S : Cardinality(T) = k => T \in D}
<1>1. ASSUME NEW T \in SUBSET S PROVE IsFiniteSet(T) /\ Cardinality(T) \in Nat
  BY FS_Subset, FS_CardinalityType
<1>2. 0 \in N
  BY <1>1, FS_EmptySet
<1>3. ASSUME NEW k \in Nat, k \in N PROVE k + 1 \in N
  <2>1. ASSUME NEW T \in SUBSET S, Cardinality(T) = k + 1 PROVE T \in D
    <3>1. T # {}
      BY <2>1, FS_EmptySet
    <3>2. pick[T] \in T
      BY <3>1 DEF Picks
    <3>3. Cardinality(T \ {pick[T]}) = Cardinality(T) - 1
      BY <1>1, <3>2, FS_RemoveElement
    <3>4. T \ {pick[T]} \in D
      BY <1>3, <2>1, <3>3
    <3> QED BY <3>1, <3>4
  <2> QED BY <2>1
<1>4. Nat \subseteq N
  <2> HIDE DEF N
  <2> QED BY <1>2, <1>3, Induction
<1> QED BY <1>1, <1>4

\* f takes the empty set to base, and any other set to what F makes of the set
\* and of the value at the set without the element picked.
FoldsOver(f, F, pick, S, base) ==
    f = [T \in SUBSET S |-> IF T = {} THEN base ELSE F[<<T, f[T \ {pick[T]}]>>]]

\* F keeps the relation R between sets and values.
Relates(F, R, pick, S, V) ==
    \A T \in SUBSET S, v \in V :
        T # {} /\ <<T \ {pick[T]}, v>> \in R => <<T, F[<<T, v>>]>> \in R

\* What a function describes by recursion over the subsets of a finite set
\* exists, and its values are in any relation that each step keeps.
LEMMA SetRecursion ==
    ASSUME NEW S, IsFiniteSet(S), NEW pick, Picks(pick, S), NEW V,
           NEW R, R \subseteq (SUBSET S) \X V,
           NEW base, <<{}, base>> \in R, NEW F, Relates(F, R, pick, S, V)
    PROVE  \E f : FoldsOver(f, F, pick, S, base) /\ \A T \in SUBSET S : <<T, f[T]>> \in R
<1> DEFINE Small(k) == {T \in SUBSET S : Cardinality(T) <= k}
           Upto(f, k) == /\ f = [T \in Small(k) |-> f[T]]
                         /\ f[{}] = base
                         /\ \A T \in Small(k) : T # {} => f[T] = F[<<T, f[T \ {pick[T]}]>>]
                         /\ \A T \in Small(k) : <<T, f[T]>> \in R
           N == {k \in Nat : \E f : Upto(f, k)}
<1>1. ASSUME NEW T \in SUBSET S
      PROVE  IsFiniteSet(T) /\ Cardinality(T) \in Nat /\ Cardinality(T) <= Cardinality(S)
  BY FS_Subset, FS_CardinalityType
<1>2. ASSUME NEW k \in Nat, NEW T \in SUBSET S, T # {}, Cardinality(T) <= k + 1
      PROVE  T \ {pick[T]} \in Small(k)
  <2>1. pick[T] \in T
    BY <1>2 DEF Picks
  <2>2. Cardinality(T \ {pick[T]}) = Cardinality(T) - 1
    BY <1>1, <2>1, FS_RemoveElement
  <2> QED BY <1>1, <1>2, <2>2
<1>3. 0 \in N
  <2> DEFINE f == [T \in Small(0) |-> base]
  <2>1. \A T \in Small(0) : T = {}
    BY <1>1, FS_EmptySet
  <2>2. {} \in Small(0)
    BY FS_EmptySet
  <2>3. Upto(f, 0)
    BY <2>1, <2>2
  <2> QED BY <2>3
<1>4. ASSUME NEW k \in Nat, k \in N PROVE k + 1 \in N
  <2>1. PICK f : Upto(f, k)
    BY <1>4
  <2> DEFINE g == [T \in Small(k + 1) |->
                      IF T = {} THEN base ELSE F[<<T, f[T \ {pick[T]}]>>]]
  <2>2. {} \in Small(k) /\ Small(k) \subseteq Small(k + 1)
    BY <1>1, FS_EmptySet
  <2>3. ASSUME NEW T \in Small(k) PROVE g[T] = f[T]
    BY <2>1, <2>2
  <2>4. ASSUME NEW T \in Small(k + 1), T # {}
        PROVE  /\ g[T] = F[<<T, g[T \ {pick[T]}]>>]
               /\ <<T, g[T]>> \in R
    <3>1. T \ {pick[T]} \in Small(k)
      BY <2>4, <1>2
    <3>2. g[T] = F[<<T, f[T \ {pick[T]}]>>]
      BY <2>4
    <3>3. <<T \ {pick[T]}, f[T \ {pick[T]}]>> \in R
      BY <2>1, <3>1
    <3>4. f[T \ {pick[T]}] \in V
      BY <3>3
    <3>5. <<T, F[<<T, f[T \ {pick[T]}]>>]>> \in R
      BY <2>4, <3>3, <3>4 DEF Relates
    <3> HIDE DEF g
    <3> QED BY <2>3, <3>1, <3>2, <3>5
  <2>5. g[{}] = base /\ g = [T \in Small(k + 1) |-> g[T]]
    BY <2>2
  <2> HIDE DEF g
  <2>6. Upto(g, k + 1)
    BY <2>4, <2>5
  <2> HIDE DEF Upto
  <2> QED BY <2>6
<1>5. Cardinality(S) \in N
  <2>1. Nat \subseteq N
    <3> HIDE DEF N
    <3> QED BY <1>3, <1>4, Induction
  <2> HIDE DEF N
  <2> QED BY <2>1, FS_CardinalityType
<1>6. Small(Cardinality(S)) = SUBSET S
  BY <1>1
<1>7. PICK f : Upto(f, Cardinality(S))
  BY <1>5
<1>8. f = [T \in SUBSET S |-> f[T]]
  BY <1>6, <1>7
<1>9. ASSUME NEW T \in SUBSET S
      PROVE  /\ f[T] = IF T = {} THEN base ELSE F[<<T, f[T \ {pick[T]}]>>]
             /\ <<T, f[T]>> \in R
  BY <1>6, <1>7
<1> QED BY <1>8, <1>9 DEF FoldsOver

\* Of numbers up to n there is one of each rank.
LEMMA RankExists ==
    ASSUME NEW n \in Nat, NEW S, S \subseteq 1 .. n, NEW i \in 1 .. Cardinality(S)
    PROVE  \E k \in S : Cardinality({m \in S : m <= k}) = i
<1> DEFINE Upto(k) == {m \in S : m <= k}
           C(k) == Cardinality(Upto(k))
           T == {k \in Nat : C(k) >= i}
<1>1. IsFiniteSet(S) /\ Cardinality(S) \in Nat
  <2>1. IsFiniteSet(1 .. n)
    BY FS_Interval
  <2> QED BY <2>1, FS_Subset, FS_CardinalityType
<1>2. \A k : IsFiniteSet(Upto(k)) /\ C(k) \in Nat
  <2>1. \A k : Upto(k) \subseteq S
    OBVIOUS
  <2> HIDE DEF Upto
  <2> QED BY <1>1, <2>1, FS_Subset, FS_CardinalityType
<1>3. /\ \A m \in S : m \in Nat /\ 1 <= m /\ m <= n
      /\ i \in Nat /\ 1 <= i /\ i <= Cardinality(S)
  BY <1>1
<1>4. Upto(n) = S /\ Upto(0) = {}
  <2>1. \A m \in S : m <= n /\ ~(m <= 0)
    BY <1>3
  <2> QED BY <2>1
<1>5. \A k \in Nat : /\ k + 1 \notin S => Upto(k + 1) = Upto(k)
                     /\ k + 1 \in S => Upto(k + 1) = Upto(k) \union {k + 1}
                     /\ k + 1 \notin Upto(k)
  <2> TAKE k \in Nat
  <2>1. \A m \in S : (m <= k + 1 <=> m <= k \/ m = k + 1) /\ ~(k + 1 <= k)
    BY <1>3
  <2> QED BY <2>1
<1>6. \A k \in Nat : C(k + 1) = IF k + 1 \in S THEN C(k) + 1 ELSE C(k)
  <2> TAKE k \in Nat
  <2> HIDE DEF Upto
  <2>1. CASE k + 1 \in S
    BY <1>2, <1>5, <2>1, FS_AddElement
  <2>2. CASE k + 1 \notin S
    BY <1>5, <2>2
  <2> QED BY <2>1, <2>2
<1>7. C(n) = Cardinality(S) /\ C(0) = 0
  <2> HIDE DEF Upto
  <2> QED BY <1>4, FS_EmptySet
<1> HIDE DEF C
<1>8. n \in T
  BY <1>3, <1>7
<1>9. PICK k \in T : \A y \in T : k <= y
  BY <1>8, LeastExists
<1>10. k \in Nat /\ C(k) >= i /\ k # 0
  BY <1>3, <1>7, <1>9
<1>11. k - 1 \in Nat /\ ~(k <= k - 1) /\ (k - 1) + 1 = k
  BY <1>10
<1>12. ~(C(k - 1) >= i)
  BY <1>9, <1>11
<1>13. C(k) = IF k \in S THEN C(k - 1) + 1 ELSE C(k - 1)
  BY <1>6, <1>11
<1>14. k \in S /\ C(k) = i
  <2>1. C(k) \in Nat /\ C(k - 1) \in Nat
    BY <1>2
  <2> QED BY <1>3, <1>10, <1>12, <1>13, <2>1
<1> QED BY <1>14 DEF C

-----------------------------------------------------------------------------
(* Sizes of sets, and the pieces of a sequence.                            *)

\* Sizes of two sets apart.
LEMMA SizeOfBoth ==
    ASSUME NEW A, NEW B, IsFiniteSet(A), IsFiniteSet(B), A \intersect B = {}
    PROVE  /\ IsFiniteSet(A \union B)
           /\ Cardinality(A \union B) = Cardinality(A) + Cardinality(B)
           /\ Cardinality(A) \in Nat /\ Cardinality(B) \in Nat
<1>1. Cardinality(A \intersect B) = 0
  BY FS_EmptySet
<1>2. Cardinality(A) \in Nat /\ Cardinality(B) \in Nat
  BY FS_CardinalityType
<1>3. /\ IsFiniteSet(A \union B)
      /\ Cardinality(A \union B)
            = Cardinality(A) + Cardinality(B) - Cardinality(A \intersect B)
  BY FS_Union
<1> DEFINE both == Cardinality(A \union B)
           common == Cardinality(A \intersect B)
           p == Cardinality(A)
           q == Cardinality(B)
<1>4. both = p + q - common /\ common = 0 /\ p \in Nat /\ q \in Nat
  BY <1>1, <1>2, <1>3
<1> HIDE DEF both, common, p, q
<1>5. both = p + q
  BY <1>4
<1> QED BY <1>2, <1>3, <1>5 DEF both, p, q

\* A list behind another.
LEMMA BehindIs ==
    ASSUME NEW S, NEW A \in Seq(S), NEW B \in Seq(S)
    PROVE  /\ A \o B \in Seq(S) /\ Len(A \o B) = Len(A) + Len(B)
           /\ Len(A) \in Nat /\ Len(B) \in Nat
           /\ DOMAIN A = 1 .. Len(A) /\ DOMAIN B = 1 .. Len(B)
           /\ DOMAIN (A \o B) = 1 .. Len(A) + Len(B)
           /\ \A i \in 1 .. Len(A) : (A \o B)[i] = A[i]
           /\ \A i \in 1 .. Len(B) : (A \o B)[Len(A) + i] = B[i]
           /\ \A k \in 1 .. Len(A) + Len(B) :
                 k \in 1 .. Len(A) \/ \E i \in 1 .. Len(B) : k = Len(A) + i
<1> DEFINE C == A \o B
           n == Len(A)
           m == Len(B)
<1>1. /\ C \in Seq(S) /\ Len(C) = n + m /\ n \in Nat /\ m \in Nat
      /\ \A i \in 1 .. n + m : C[i] = IF i <= n THEN A[i] ELSE B[i - n]
  BY ConcatProperties, LenProperties
<1>2. DOMAIN A = 1 .. n /\ DOMAIN B = 1 .. m /\ DOMAIN C = 1 .. n + m
  BY <1>1, LenProperties
<1> HIDE DEF C, n, m
<1>3. \A i \in 1 .. n : C[i] = A[i]
  BY <1>1
<1>4. \A i \in 1 .. m : C[n + i] = B[i]
  <2> SUFFICES ASSUME NEW i \in 1 .. m PROVE C[n + i] = B[i]
    OBVIOUS
  <2>1. n + i \in 1 .. n + m /\ ~(n + i <= n) /\ (n + i) - n = i
    BY <1>1
  <2> QED BY <1>1, <2>1
<1>5. ASSUME NEW k \in 1 .. n + m, k \notin 1 .. n PROVE \E i \in 1 .. m : k = n + i
  <2>1. k - n \in 1 .. m /\ k = n + (k - n)
    BY <1>1, <1>5
  <2> QED BY <2>1
<1> QED BY <1>1, <1>2, <1>3, <1>4, <1>5 DEF C, n, m

\* Two lists of one each.
LEMMA PairIs ==
    ASSUME NEW S, NEW x \in S, NEW y \in S
    PROVE  <<x>> \o <<y>> = <<x, y>>
<1> DEFINE A == <<x>>
           B == <<y>>
           P == <<x, y>>
<1>1. /\ A \in Seq(S) /\ Len(A) = 1 /\ A[1] = x
      /\ B \in Seq(S) /\ Len(B) = 1 /\ B[1] = y
  OBVIOUS
<1>2. P \in Seq(S) /\ Len(P) = 2 /\ P[1] = x /\ P[2] = y
  OBVIOUS
<1> HIDE DEF A, B, P
<1>3. /\ A \o B \in Seq(S) /\ Len(A \o B) = 2
      /\ \A i \in 1 .. Len(A) : (A \o B)[i] = A[i]
      /\ \A i \in 1 .. Len(B) : (A \o B)[Len(A) + i] = B[i]
  BY <1>1, BehindIs
<1>4. (A \o B)[1] = x /\ (A \o B)[2] = y
  <2>1. 1 \in 1 .. Len(A) /\ 1 \in 1 .. Len(B) /\ Len(A) + 1 = 2
    BY <1>1
  <2> QED BY <1>1, <1>3, <2>1
<1>5. \A i \in 1 .. Len(A \o B) : (A \o B)[i] = P[i]
  <2>1. \A i \in 1 .. 2 : i = 1 \/ i = 2
    OBVIOUS
  <2> QED BY <1>2, <1>3, <1>4, <2>1
<1>6. A \o B = P
  BY <1>2, <1>3, <1>5, SeqEqual
<1> QED BY <1>6 DEF A, B, P

\* A list about one of its members.
LEMMA AroundIs ==
    ASSUME NEW S, NEW list \in Seq(S), NEW i \in DOMAIN list
    PROVE  /\ SubSeq(list, 1, i - 1) \in Seq(S) /\ Len(SubSeq(list, 1, i - 1)) = i - 1
           /\ \A k \in 1 .. i - 1 : SubSeq(list, 1, i - 1)[k] = list[k]
           /\ SubSeq(list, i + 1, Len(list)) \in Seq(S)
           /\ Len(SubSeq(list, i + 1, Len(list))) = Len(list) - i
           /\ \A k \in 1 .. Len(list) - i : SubSeq(list, i + 1, Len(list))[k] = list[i + k]
           /\ list = (SubSeq(list, 1, i - 1) \o <<list[i]>>) \o SubSeq(list, i + 1, Len(list))
           /\ i \in Nat /\ i >= 1 /\ Len(list) \in Nat /\ i <= Len(list) /\ list[i] \in S
<1> DEFINE n == Len(list)
<1>1. n \in Nat /\ i \in 1 .. n /\ \A k \in 1 .. n : list[k] \in S
  BY LenProperties, ElementOfSeq
<1>2. /\ SubSeq(list, 1, i - 1) \in Seq(S) /\ Len(SubSeq(list, 1, i - 1)) = i - 1
      /\ \A k \in 1 .. i - 1 : SubSeq(list, 1, i - 1)[k] = list[k]
  <2>1. 1 \in Int /\ i - 1 \in Int /\ \A k \in 1 .. i - 1 : list[k] \in S
    BY <1>1
  <2>2. /\ SubSeq(list, 1, i - 1) \in Seq(S)
        /\ Len(SubSeq(list, 1, i - 1)) = IF 1 <= i - 1 THEN (i - 1) - 1 + 1 ELSE 0
        /\ \A k \in 1 .. (i - 1) - 1 + 1 : SubSeq(list, 1, i - 1)[k] = list[1 + k - 1]
    BY <2>1, SubSeqProperties
  <2>3. i \in Nat /\ i >= 1
    BY <1>1
  <2>4. (IF 1 <= i - 1 THEN (i - 1) - 1 + 1 ELSE 0) = i - 1 /\ (i - 1) - 1 + 1 = i - 1
    BY <2>3
  <2>5. \A k \in 1 .. i - 1 : 1 + k - 1 = k
    OBVIOUS
  <2> QED BY <2>2, <2>4, <2>5
<1>3. /\ SubSeq(list, i + 1, n) \in Seq(S) /\ Len(SubSeq(list, i + 1, n)) = n - i
      /\ \A k \in 1 .. n - i : SubSeq(list, i + 1, n)[k] = list[i + k]
  <2>1. n \in Int /\ i + 1 \in Int /\ \A k \in i + 1 .. n : list[k] \in S
    BY <1>1
  <2> HIDE DEF n
  <2>2. /\ SubSeq(list, i + 1, n) \in Seq(S)
        /\ Len(SubSeq(list, i + 1, n)) = IF i + 1 <= n THEN n - (i + 1) + 1 ELSE 0
        /\ \A k \in 1 .. n - (i + 1) + 1 : SubSeq(list, i + 1, n)[k] = list[(i + 1) + k - 1]
    BY <2>1, SubSeqProperties
  <2>3. (IF i + 1 <= n THEN n - (i + 1) + 1 ELSE 0) = n - i /\ n - (i + 1) + 1 = n - i
    BY <1>1
  <2>4. \A k \in 1 .. n - i : (i + 1) + k - 1 = i + k
    BY <1>1
  <2> QED BY <2>2, <2>3, <2>4
<1>4. SubSeq(list, 1, i) = SubSeq(list, 1, i - 1) \o <<list[i]>>
  BY <1>1, SubSeqRecursiveSecond
<1>5. SubSeq(list, 1, i) \o SubSeq(list, i + 1, n) = SubSeq(list, 1, n)
  <2>1. 1 \in 1 .. n + 1 /\ i \in 1 - 1 .. n /\ n \in i .. n
    BY <1>1
  <2> QED BY <2>1, ConcatAdjacentSubSeq
<1>6. SubSeq(list, 1, n) = list
  BY SubSeqFull
<1>7. list = (SubSeq(list, 1, i - 1) \o <<list[i]>>) \o SubSeq(list, i + 1, n)
  BY <1>4, <1>5, <1>6
<1>8. i \in Nat /\ i >= 1 /\ n \in Nat /\ i <= n /\ list[i] \in S
  BY <1>1
<1> HIDE DEF n
<1> QED BY <1>2, <1>3, <1>7, <1>8 DEF n

\* A list about two of its members.
LEMMA AroundTwo ==
    ASSUME NEW S, NEW list \in Seq(S), NEW i \in DOMAIN list, i + 1 \in DOMAIN list
    PROVE  /\ SubSeq(list, 1, i - 1) \in Seq(S) /\ Len(SubSeq(list, 1, i - 1)) = i - 1
           /\ SubSeq(list, i + 2, Len(list)) \in Seq(S)
           /\ Len(SubSeq(list, i + 2, Len(list))) = Len(list) - (i + 1)
           /\ \A k \in 1 .. Len(list) - (i + 1) :
                 SubSeq(list, i + 2, Len(list))[k] = list[(i + 1) + k]
           /\ list = (SubSeq(list, 1, i - 1) \o <<list[i], list[i + 1]>>)
                        \o SubSeq(list, i + 2, Len(list))
<1> DEFINE n == Len(list)
           j == i + 1
           A == SubSeq(list, 1, i - 1)
           B == SubSeq(list, i + 2, n)
           x == list[i]
           y == list[j]
<1>1. /\ A \in Seq(S) /\ Len(A) = i - 1 /\ x \in S
      /\ list = (A \o <<x>>) \o SubSeq(list, i + 1, n)
      /\ i \in Nat /\ i >= 1 /\ n \in Nat
  BY AroundIs
<1>2. j \in DOMAIN list /\ j + 1 = i + 2
  BY <1>1
<1>3. /\ y \in S /\ j <= n /\ j >= 1 /\ SubSeq(list, j + 1, n) \in Seq(S)
      /\ Len(SubSeq(list, j + 1, n)) = n - j
      /\ \A k \in 1 .. n - j : SubSeq(list, j + 1, n)[k] = list[j + k]
  <2> HIDE DEF j
  <2> QED BY <1>2, AroundIs
<1>4. B \in Seq(S) /\ Len(B) = n - j /\ \A k \in 1 .. n - j : B[k] = list[j + k]
  <2> HIDE DEF j
  <2> QED BY <1>2, <1>3
<1>5. SubSeq(list, i + 1, n) = <<y>> \o B
  <2>1. j \in 1 .. n /\ n \in j .. n
    BY <1>1, <1>3
  <2> HIDE DEF j
  <2>2. SubSeq(list, j, n) = <<list[j]>> \o SubSeq(list, j + 1, n)
    BY <2>1, SubSeqRecursiveFirst DEF n
  <2>3. SubSeq(list, j + 1, n) = B
    BY <1>2
  <2>4. SubSeq(list, j, n) = <<y>> \o B
    BY <2>2, <2>3
  <2> QED BY <2>4 DEF j
<1> HIDE DEF A, B, x, y, n, j
<1>6. <<x>> \in Seq(S) /\ <<y>> \in Seq(S)
  BY <1>1, <1>3
<1>7. (A \o <<x>>) \o (<<y>> \o B) = (A \o <<x, y>>) \o B
  <2> DEFINE X == <<x>>
             Y == <<y>>
             AX == A \o X
  <2>1. AX \in Seq(S) /\ X \in Seq(S) /\ Y \in Seq(S)
    BY <1>1, <1>6, ConcatProperties
  <2>2. X \o Y = <<x, y>>
    BY <1>1, <1>3, PairIs
  <2> HIDE DEF X, Y
  <2>3. (AX \o Y) \o B = AX \o (Y \o B)
    <3> HIDE DEF AX
    <3>1. AX \in Seq(S) /\ Y \in Seq(S) /\ B \in Seq(S)
      BY <1>4, <2>1
    <3> QED BY <3>1, ConcatAssociative
  <2>4. AX \o Y = A \o (X \o Y)
    <3>1. A \in Seq(S) /\ X \in Seq(S) /\ Y \in Seq(S)
      BY <1>1, <2>1
    <3> QED BY <3>1, ConcatAssociative
  <2> QED BY <2>2, <2>3, <2>4 DEF X, Y
<1>8. list = (A \o <<x, y>>) \o B
  BY <1>1, <1>5, <1>7
<1> QED BY <1>1, <1>4, <1>8 DEF A, B, x, y, n, j

\* Lists that differ in two places next to each other.
LEMMA SameAround ==
    ASSUME NEW S, NEW list \in Seq(S), NEW i \in DOMAIN list, i + 1 \in DOMAIN list,
           NEW L \in Seq(S), DOMAIN L = DOMAIN list,
           \A k \in DOMAIN list : k # i /\ k # i + 1 => L[k] = list[k]
    PROVE  /\ SubSeq(L, 1, i - 1) = SubSeq(list, 1, i - 1)
           /\ SubSeq(L, i + 2, Len(L)) = SubSeq(list, i + 2, Len(list))
<1> DEFINE A == SubSeq(list, 1, i - 1)
           B == SubSeq(list, i + 2, Len(list))
           C == SubSeq(L, 1, i - 1)
           D == SubSeq(L, i + 2, Len(L))
           n == Len(list)
<1>0. /\ DOMAIN list = 1 .. n /\ n \in Nat /\ DOMAIN L = 1 .. Len(L) /\ Len(L) \in Nat
  BY LenProperties
<1>1. Len(L) = n /\ i \in Nat /\ i >= 1 /\ i + 1 <= n
  <2> HIDE DEF n
  <2> QED BY <1>0
<1>2. A \in Seq(S) /\ Len(A) = i - 1 /\ \A k \in 1 .. i - 1 : A[k] = list[k]
  BY AroundIs
<1>3. B \in Seq(S) /\ Len(B) = n - (i + 1) /\ \A k \in 1 .. n - (i + 1) : B[k] = list[(i + 1) + k]
  BY AroundTwo
<1>4. C \in Seq(S) /\ Len(C) = i - 1 /\ \A k \in 1 .. i - 1 : C[k] = L[k]
  BY AroundIs
<1>5. D \in Seq(S) /\ Len(D) = Len(L) - (i + 1)
      /\ \A k \in 1 .. Len(L) - (i + 1) : D[k] = L[(i + 1) + k]
  BY AroundTwo
<1> HIDE DEF A, B, C, D, n
<1>6. C = A
  <2>1. \A k \in 1 .. i - 1 : k \in DOMAIN list /\ k # i /\ k # i + 1
    BY <1>0, <1>1
  <2>2. \A k \in 1 .. Len(C) : C[k] = A[k]
    BY <1>2, <1>4, <2>1
  <2> QED BY <1>2, <1>4, <2>2, SeqEqual
<1>7. D = B
  <2>1. \A k \in 1 .. n - (i + 1) :
            (i + 1) + k \in DOMAIN list /\ (i + 1) + k # i /\ (i + 1) + k # i + 1
    BY <1>0, <1>1
  <2>2. \A k \in 1 .. Len(D) : D[k] = B[k]
    BY <1>1, <1>3, <1>5, <2>1
  <2> QED BY <1>1, <1>3, <1>5, <2>2, SeqEqual
<1> QED BY <1>6, <1>7 DEF A, B, C, D

=============================================================================
