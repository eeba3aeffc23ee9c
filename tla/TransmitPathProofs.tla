-------------------------- MODULE TransmitPathProofs -------------------------
(***************************************************************************)
(* TransmitPath keeps every packet, and the order of each class, for any   *)
(* number of device queues and packets, any sizes, quotas and limits.      *)
(*                                                                         *)
(* The invariant (Good) says of a node, of what arrived and of what was    *)
(* lost: the lines of packets hold each packet once and those of a class   *)
(* in order (Kept), each packet is in the band and the queue it belongs to *)
(* (Home), the queue disc and the device queues keep to their capacities,  *)
(* a device queue in packet mode without room is stopped (Room), and the   *)
(* byte queue limits count what is queued (Limits). There is a lemma for   *)
(* each operation: one that takes a packet ends with the packet in hand    *)
(* (InHand), one that ends with the packet in a line restores the          *)
(* invariant. A Run is an induction over its Restarts.                     *)
(*                                                                         *)
(* First come the facts the proofs rest on: sums of sequences, lines of    *)
(* packets that stay in order and apart when a packet goes from one to     *)
(* another, the types of a node's state and its packets as lines.          *)
(***************************************************************************)
EXTENDS TransmitPath, InductionFacts, SequenceTheorems

-----------------------------------------------------------------------------
(* Sums.                                                                   *)

\* The partial sums of w.
IsSums(f, w) ==
  /\ f \in [0 .. Len(w) -> Nat] /\ f[0] = 0
  /\ \A i \in 1 .. Len(w) : f[i] = f[i - 1] + w[i]

\* The recursive function of Total exists as far as it is evaluated.
LEMMA SumsExist ==
  ASSUME NEW w \in Seq(Nat), NEW n \in Nat, n <= Len(w)
  PROVE  \E f \in [0 .. n -> Nat] : f = [i \in 0 .. n |-> IF i = 0 THEN 0 ELSE f[i - 1] + w[i]]
<1> DEFINE Sums(f, k) ==
             /\ f \in [0 .. k -> Nat]
             /\ f = [i \in 0 .. k |-> IF i = 0 THEN 0 ELSE f[i - 1] + w[i]]
           T == {k \in Nat : k <= Len(w) => \E f : Sums(f, k)}
<1>0. Len(w) \in Nat /\ \A i \in 1 .. Len(w) : w[i] \in Nat
  BY LenProperties
<1>1. 0 \in T
  <2>1. Sums([i \in 0 .. 0 |-> 0], 0)
    OBVIOUS
  <2> QED BY <2>1
<1>2. ASSUME NEW k \in Nat, k + 1 <= Len(w), NEW f, Sums(f, k)
      PROVE  \E g : Sums(g, k + 1)
  <2>1. k + 1 <= Len(w)
    BY <1>2
  <2>2. Sums(f, k)
    BY <1>2
  <2> DEFINE g == [i \in 0 .. k + 1 |-> IF i = k + 1 THEN f[k] + w[k + 1] ELSE f[i]]
  <2>3. f[k] \in Nat /\ w[k + 1] \in Nat
    BY <1>0, <2>1, <2>2
  <2>4. g \in [0 .. k + 1 -> Nat]
    BY <2>2, <2>3
  <2>5. ASSUME NEW i \in 0 .. k + 1
        PROVE  g[i] = IF i = 0 THEN 0 ELSE g[i - 1] + w[i]
    <3>1. CASE i = 0
      BY <3>1, <2>2
    <3>2. CASE i = k + 1
      <4>1. i - 1 = k /\ g[k] = f[k] /\ g[i] = f[k] + w[k + 1] /\ i # 0
        BY <3>2
      <4> QED BY <4>1, <3>2
    <3>3. CASE i \in 1 .. k
      <4>1. g[i] = f[i] /\ g[i - 1] = f[i - 1] /\ i # 0
        BY <3>3
      <4>2. f[i] = f[i - 1] + w[i]
        BY <2>2, <3>3
      <4> QED BY <4>1, <4>2
    <3> QED BY <3>1, <3>2, <3>3
  <2>6. g = [i \in 0 .. k + 1 |-> IF i = 0 THEN 0 ELSE g[i - 1] + w[i]]
    BY <2>5
  <2> QED BY <2>4, <2>6
<1>3. ASSUME NEW k \in Nat, k \in T PROVE k + 1 \in T
  <2>1. k + 1 <= Len(w) => \E f : Sums(f, k)
    BY <1>0, <1>3
  <2>2. k + 1 <= Len(w) => \E g : Sums(g, k + 1)
    BY <1>2, <2>1
  <2> HIDE DEF Sums
  <2> QED BY <2>2
<1> HIDE DEF T
<1>4. n \in T
  BY <1>1, <1>3, Induction
<1> QED BY <1>4 DEF T

\* Total is the last of the partial sums.
LEMMA TotalIs ==
  ASSUME NEW w \in Seq(Nat)
  PROVE  \E f : IsSums(f, w) /\ Total(w) = f[Len(w)]
<1> DEFINE F(f) == f = [i \in 0 .. Len(w) |-> IF i = 0 THEN 0 ELSE f[i - 1] + w[i]]
           f0 == CHOOSE f : F(f)
<1>0. Len(w) \in Nat /\ \A i \in 1 .. Len(w) : w[i] \in Nat
  BY LenProperties
<1>1. \E f : F(f)
  BY <1>0, SumsExist
<1>2. F(f0)
  BY <1>1
<1>3. Total(w) = f0[Len(w)]
  BY DEF Total
<1> HIDE DEF f0
<1>4. f0[0] = 0 /\ \A i \in 1 .. Len(w) : f0[i] = f0[i - 1] + w[i]
  BY <1>0, <1>2
<1> DEFINE T == {k \in Nat : k <= Len(w) => f0[k] \in Nat}
<1>5. 0 \in T
  BY <1>4
<1>6. ASSUME NEW k \in Nat, k \in T PROVE k + 1 \in T
  <2>1. SUFFICES ASSUME k + 1 <= Len(w) PROVE f0[k + 1] \in Nat
    OBVIOUS
  <2>2. k + 1 \in 1 .. Len(w) /\ k + 1 - 1 = k /\ f0[k] \in Nat
    BY <1>0, <1>6, <2>1
  <2> QED BY <1>0, <1>4, <2>2
<1> HIDE DEF T
<1>7. \A k \in Nat : k \in T
  BY <1>5, <1>6, Induction
<1>8. f0 \in [0 .. Len(w) -> Nat]
  BY <1>0, <1>2, <1>7 DEF T
<1> QED BY <1>3, <1>4, <1>8 DEF IsSums

\* There is one function of partial sums.
LEMMA SumsUnique ==
  ASSUME NEW n \in Nat, NEW f, NEW g, f[0] = g[0],
         \A i \in 1 .. n : f[i - 1] = g[i - 1] => f[i] = g[i]
  PROVE  f[n] = g[n]
<1> DEFINE T == {k \in Nat : k <= n => f[k] = g[k]}
<1>1. 0 \in T
  OBVIOUS
<1>2. ASSUME NEW k \in Nat, k \in T PROVE k + 1 \in T
  <2>1. k + 1 <= n => k + 1 \in 1 .. n /\ k + 1 - 1 = k /\ f[k] = g[k]
    BY <1>2
  <2> QED BY <2>1
<1> HIDE DEF T
<1>3. n \in T
  BY <1>1, <1>2, Induction
<1> QED BY <1>3 DEF T

\* The sum of no numbers.
LEMMA TotalEmpty == Total(<<>>) = 0
<1>1. <<>> \in Seq(Nat) /\ Len(<<>>) = 0
  BY EmptySeq
<1> QED BY <1>1, TotalIs DEF IsSums

\* Total of natural numbers is a natural number.
LEMMA TotalType == ASSUME NEW w \in Seq(Nat) PROVE Total(w) \in Nat
<1>1. Len(w) \in 0 .. Len(w)
  BY LenProperties
<1> QED BY <1>1, TotalIs DEF IsSums

\* One number more at the end adds that number.
LEMMA TotalAppend ==
  ASSUME NEW w \in Seq(Nat), NEW x \in Nat, NEW v \in Seq(Nat),
         Len(v) = Len(w) + 1, \A i \in 1 .. Len(w) : v[i] = w[i], v[Len(w) + 1] = x
  PROVE  Total(v) = Total(w) + x
<1>0. Len(w) \in Nat
  BY LenProperties
<1>1. PICK f : IsSums(f, w) /\ Total(w) = f[Len(w)]
  BY TotalIs
<1>2. PICK g : IsSums(g, v) /\ Total(v) = g[Len(v)]
  BY TotalIs
<1>3. \A i \in 1 .. Len(w) : f[i - 1] = g[i - 1] => f[i] = g[i]
  BY <1>0, <1>1, <1>2 DEF IsSums
<1>4. f[Len(w)] = g[Len(w)]
  <2>1. f[0] = g[0]
    BY <1>1, <1>2 DEF IsSums
  <2> QED BY <1>0, <1>3, <2>1, SumsUnique
<1>5. Len(v) \in 1 .. Len(v) /\ Len(v) - 1 = Len(w)
  BY <1>0
<1>6. g[Len(v)] = g[Len(v) - 1] + v[Len(v)]
  BY <1>2, <1>5 DEF IsSums
<1> QED BY <1>1, <1>2, <1>4, <1>5, <1>6, <1>0

\* The first number and the sum of the others.
LEMMA TotalTail ==
  ASSUME NEW w \in Seq(Nat), NEW v \in Seq(Nat), Len(w) = Len(v) + 1,
         \A i \in 1 .. Len(v) : v[i] = w[i + 1]
  PROVE  Total(w) = w[1] + Total(v)
<1>0. Len(v) \in Nat /\ w[1] \in Nat /\ \A i \in 1 .. Len(v) : v[i] \in Nat
  BY LenProperties
<1>1. PICK f : IsSums(f, w) /\ Total(w) = f[Len(w)]
  BY TotalIs
<1>2. PICK g : IsSums(g, v) /\ Total(v) = g[Len(v)]
  BY TotalIs
<1> DEFINE a == [i \in 0 .. Len(v) |-> f[i + 1]]
           b == [i \in 0 .. Len(v) |-> w[1] + g[i]]
<1>3. a[0] = b[0]
  <2>1. f[1] = f[0] + w[1] /\ f[0] = 0 /\ g[0] = 0
    BY <1>0, <1>1, <1>2 DEF IsSums
  <2>2. a[0] = f[1] /\ b[0] = w[1] + g[0]
    BY <1>0
  <2> QED BY <1>0, <2>1, <2>2
<1>4. ASSUME NEW i \in 1 .. Len(v), a[i - 1] = b[i - 1] PROVE a[i] = b[i]
  <2>1. f[i] = w[1] + g[i - 1]
    BY <1>0, <1>4
  <2>2. f[i + 1] = f[i] + w[i + 1]
    <3>1. PICK j \in 1 .. Len(w) : j = i + 1 /\ j - 1 = i
      BY <1>0
    <3>2. f[j] = f[j - 1] + w[j]
      BY <1>1 DEF IsSums
    <3> QED BY <3>1, <3>2
  <2>3. g[i] = g[i - 1] + v[i] /\ v[i] = w[i + 1] /\ v[i] \in Nat /\ g[i - 1] \in Nat
    <3>1. i - 1 \in 0 .. Len(v)
      BY <1>0
    <3> QED BY <3>1, <1>0, <1>2 DEF IsSums
  <2> QED BY <1>0, <2>1, <2>2, <2>3
<1>5. a[Len(v)] = b[Len(v)]
  <2> HIDE DEF a, b
  <2> QED BY <1>0, <1>3, <1>4, SumsUnique
<1> QED BY <1>0, <1>1, <1>2, <1>5

-----------------------------------------------------------------------------
(* Lines of packets, and what is kept of them.                             *)

\* Packets of one transmission queue and one band: the class in which the order is kept.
Same(p, r) == p.txq = r.txq /\ prio2band(p.priority) = prio2band(r.priority)

\* No id is in two places of the lines.
Scattered(L) ==
  \A x, y \in DOMAIN L : \A i \in 1..Len(L[x]), j \in 1..Len(L[y]) :
    L[x][i].id = L[y][j].id => x = y /\ i = j

\* Of two packets of one class the one further on was sent first.
Ordered(L) ==
  \A x, y \in DOMAIN L : \A i \in 1..Len(L[x]), j \in 1..Len(L[y]) :
    Same(L[x][i], L[y][j]) /\ (x[1] < y[1] \/ (x = y /\ i < j))
      => L[x][i].id < L[y][j].id

\* Packet p, which is in no line, may join line y: it was sent after those of its
\* class that are there or further on, and before those further back.
Fits(L, p, y) ==
  \A z \in DOMAIN L : \A i \in 1..Len(L[z]) : Same(L[z][i], p) =>
    /\ z[1] < y[1] \/ z = y => L[z][i].id < p.id
    /\ z[1] > y[1] => p.id < L[z][i].id

\* What becomes of the lines when one of them loses its head or p joins one.
Loses(L, x, M) ==
  DOMAIN M = DOMAIN L /\ M[x] = Tail(L[x]) /\ \A z \in DOMAIN L \ {x} : M[z] = L[z]

Gains(L, y, p, M) ==
  /\ DOMAIN M = DOMAIN L /\ M[y] = Append(L[y], p)
  /\ \A z \in DOMAIN L \ {y} : M[z] = L[z]

\* The lines of Z are empty in M, the others as in L.
Empties(L, Z, M) ==
  DOMAIN M = DOMAIN L /\ (\A z \in Z : M[z] = <<>>) /\ \A z \in DOMAIN L \ Z : M[z] = L[z]

\* The packets that are in some line.
AllIds(L) == UNION {Ids(L[x]) : x \in DOMAIN L}

\* What is preserved of the lines: no packet twice, the order of each class, and each
\* of the sent packets in a line or out, never both.
Kept(L, out, sent) ==
  /\ Scattered(L) /\ Ordered(L)
  /\ AllIds(L) \cap out = {} /\ AllIds(L) \cup out = 1..sent

-----------------------------------------------------------------------------
(* How lines change.                                                       *)

\* The definition of AllIds, without its set of sets.
LEMMA IdIn ==
  ASSUME NEW L, NEW v
  PROVE  v \in AllIds(L) <=> \E z \in DOMAIN L : \E i \in 1..Len(L[z]) : v = L[z][i].id
BY DEF AllIds, Ids

\* The definition of Scattered, for two packets.
LEMMA Apart ==
  ASSUME NEW L, Scattered(L), NEW x \in DOMAIN L, NEW y \in DOMAIN L,
         NEW i \in 1..Len(L[x]), NEW j \in 1..Len(L[y]), L[x][i].id = L[y][j].id
  PROVE  x = y /\ i = j
BY DEF Scattered

\* The definition of Ordered, for two packets.
LEMMA InTurn ==
  ASSUME NEW L, Ordered(L), NEW x \in DOMAIN L, NEW y \in DOMAIN L,
         NEW i \in 1..Len(L[x]), NEW j \in 1..Len(L[y]), Same(L[x][i], L[y][j]),
         x[1] < y[1] \/ (x = y /\ i < j)
  PROVE  L[x][i].id < L[y][j].id
BY DEF Ordered

\* The head of a line is taken away.
LEMMA TakeHead ==
  ASSUME NEW P, NEW S, NEW L \in [P -> Seq(S)], NEW M, NEW x \in P,
         L[x] # <<>>, Loses(L, x, M)
  PROVE  /\ Scattered(L) => Scattered(M) /\ AllIds(M) = AllIds(L) \ {L[x][1].id}
         /\ Ordered(L) => Ordered(M)
<1>0. DOMAIN M = P /\ M[x] = Tail(L[x]) /\ \A z \in P \ {x} : M[z] = L[z]
  BY DEF Loses
<1>1. /\ Len(M[x]) = Len(L[x]) - 1 /\ \A i \in 1..Len(M[x]) : M[x][i] = L[x][i + 1]
      /\ Len(L[x]) \in Nat /\ Len(L[x]) > 0
  BY <1>0, LenProperties, HeadTailProperties, EmptySeq
<1>2. ASSUME NEW z \in P, NEW i \in 1..Len(M[z])
      PROVE  \E k \in 1..Len(L[z]) : M[z][i] = L[z][k] /\ k = IF z = x THEN i + 1 ELSE i
  <2>1. CASE z = x
    <3>1. i + 1 \in 1..Len(L[x]) /\ M[x][i] = L[x][i + 1]
      BY <1>1, <2>1
    <3> QED BY <3>1, <2>1
  <2>2. CASE z # x
    BY <1>0, <2>2
  <2> QED BY <2>1, <2>2
<1>3. ASSUME Scattered(L) PROVE Scattered(M)
  <2>1. ASSUME NEW y \in P, NEW z \in P, NEW i \in 1..Len(M[y]), NEW j \in 1..Len(M[z]),
               M[y][i].id = M[z][j].id
        PROVE  y = z /\ i = j
    <3>1. PICK k \in 1..Len(L[y]) : M[y][i] = L[y][k] /\ k = IF y = x THEN i + 1 ELSE i
      BY <1>2
    <3>2. PICK l \in 1..Len(L[z]) : M[z][j] = L[z][l] /\ l = IF z = x THEN j + 1 ELSE j
      BY <1>2
    <3>3. y = z /\ k = l
      BY <1>3, <2>1, <3>1, <3>2, Apart
    <3> QED BY <3>1, <3>2, <3>3
  <2> QED BY <1>0, <2>1 DEF Scattered
<1>4. ASSUME Ordered(L) PROVE Ordered(M)
  <2>1. ASSUME NEW y \in P, NEW z \in P, NEW i \in 1..Len(M[y]), NEW j \in 1..Len(M[z]),
               Same(M[y][i], M[z][j]), y[1] < z[1] \/ (y = z /\ i < j)
        PROVE  M[y][i].id < M[z][j].id
    <3>1. PICK k \in 1..Len(L[y]) : M[y][i] = L[y][k] /\ k = IF y = x THEN i + 1 ELSE i
      BY <1>2
    <3>2. PICK l \in 1..Len(L[z]) : M[z][j] = L[z][l] /\ l = IF z = x THEN j + 1 ELSE j
      BY <1>2
    <3>3. y[1] < z[1] \/ (y = z /\ k < l)
      BY <2>1, <3>1, <3>2
    <3>4. Same(L[y][k], L[z][l])
      BY <2>1, <3>1, <3>2
    <3>5. L[y][k].id < L[z][l].id
      BY <1>4, <3>3, <3>4, InTurn
    <3> QED BY <3>1, <3>2, <3>5
  <2> QED BY <1>0, <2>1 DEF Ordered
<1>5. ASSUME Scattered(L) PROVE AllIds(M) = AllIds(L) \ {L[x][1].id}
  <2>1. ASSUME NEW z \in P, NEW i \in 1..Len(M[z])
        PROVE  M[z][i].id \in AllIds(L) /\ M[z][i].id # L[x][1].id
    <3>1. PICK k \in 1..Len(L[z]) : M[z][i] = L[z][k] /\ k = IF z = x THEN i + 1 ELSE i
      BY <1>2
    <3>2. 1 \in 1..Len(L[x]) /\ ~(z = x /\ k = 1)
      BY <1>1, <3>1
    <3> QED BY <1>5, <3>1, <3>2, IdIn, Apart
  <2>2. ASSUME NEW z \in P, NEW k \in 1..Len(L[z]), L[z][k].id # L[x][1].id
        PROVE  L[z][k].id \in AllIds(M)
    <3>1. \E i \in 1..Len(M[z]) : M[z][i] = L[z][k]
      <4>1. CASE z # x
        BY <1>0, <4>1
      <4>2. CASE z = x
        <5>0. k # 1 /\ k \in 1..Len(L[x])
          BY <2>2, <4>2
        <5>1. PICK i \in 1..Len(M[x]) : i + 1 = k
          BY <1>1, <5>0
        <5> QED BY <1>1, <4>2, <5>1
      <4> QED BY <4>1, <4>2
    <3> QED BY <1>0, <3>1, IdIn
  <2>3. ASSUME NEW v \in AllIds(M) PROVE v \in AllIds(L) /\ v # L[x][1].id
    <3>1. PICK z \in P : \E i \in 1..Len(M[z]) : v = M[z][i].id
      BY <1>0, <2>3, IdIn
    <3> QED BY <3>1, <2>1
  <2>4. ASSUME NEW v \in AllIds(L), v # L[x][1].id PROVE v \in AllIds(M)
    <3>1. PICK z \in P : \E i \in 1..Len(L[z]) : v = L[z][i].id
      BY <2>4, IdIn
    <3> QED BY <2>4, <3>1, <2>2
  <2> QED BY <2>3, <2>4
<1> QED BY <1>3, <1>4, <1>5

\* A packet joins a line: those of its class that are further on were sent before
\* it, those behind it after it.
LEMMA Join ==
  ASSUME NEW P, NEW S, NEW L \in [P -> Seq(S)], NEW M, NEW y \in P,
         NEW p \in S, Gains(L, y, p, M), p.id \notin AllIds(L), Scattered(L)
  PROVE  Scattered(M) /\ \A v : v \in AllIds(M) <=> v \in AllIds(L) \/ v = p.id
<1>0. DOMAIN M = P /\ M[y] = Append(L[y], p) /\ \A z \in P \ {y} : M[z] = L[z]
  BY DEF Gains
<1>1. /\ Len(L[y]) \in Nat /\ Len(M[y]) = Len(L[y]) + 1 /\ M[y][Len(L[y]) + 1] = p
      /\ \A i \in 1..Len(L[y]) : M[y][i] = L[y][i]
  BY <1>0, LenProperties, AppendProperties
<1>2. ASSUME NEW z \in P, NEW i \in 1..Len(M[z])
      PROVE  \/ i \in 1..Len(L[z]) /\ M[z][i] = L[z][i]
             \/ z = y /\ i = Len(L[y]) + 1 /\ M[z][i] = p
  BY <1>0, <1>1
<1>3. Scattered(M)
  <2>1. ASSUME NEW v \in P, NEW z \in P, NEW i \in 1..Len(M[v]), NEW j \in 1..Len(M[z]),
               M[v][i].id = M[z][j].id
        PROVE  v = z /\ i = j
    <3>1. CASE i \in 1..Len(L[v]) /\ M[v][i] = L[v][i]
      <4>1. M[z][j].id # p.id
        BY <2>1, <3>1, IdIn
      <4>2. j \in 1..Len(L[z]) /\ M[z][j] = L[z][j]
        BY <1>2, <4>1
      <4> QED BY <2>1, <3>1, <4>2, Apart
    <3>2. CASE v = y /\ i = Len(L[y]) + 1 /\ M[v][i] = p
      <4>1. ~(j \in 1..Len(L[z]) /\ M[z][j] = L[z][j])
        BY <2>1, <3>2, IdIn
      <4> QED BY <1>2, <3>2, <4>1
    <3> QED BY <1>2, <3>1, <3>2
  <2> QED BY <1>0, <2>1 DEF Scattered
<1>4. ASSUME NEW v \in AllIds(M) PROVE v \in AllIds(L) \cup {p.id}
  <2>1. PICK z \in P : \E i \in 1..Len(M[z]) : v = M[z][i].id
    BY <1>0, <1>4, IdIn
  <2> QED BY <1>2, <2>1, IdIn
<1>5. ASSUME NEW v \in AllIds(L) PROVE v \in AllIds(M)
  <2>1. PICK z \in P : \E i \in 1..Len(L[z]) : v = L[z][i].id
    BY <1>5, IdIn
  <2>2. PICK i \in 1..Len(L[z]) : v = L[z][i].id
    BY <2>1
  <2>3. i \in 1..Len(M[z]) /\ M[z][i] = L[z][i]
    <3>1. CASE z = y
      BY <1>1, <3>1
    <3>2. CASE z # y
      BY <1>0, <3>2
    <3> QED BY <3>1, <3>2
  <2> QED BY <1>0, <2>2, <2>3, IdIn
<1>6. p.id \in AllIds(M)
  <2>1. Len(L[y]) + 1 \in 1..Len(M[y])
    BY <1>1
  <2> QED BY <1>0, <1>1, <2>1, IdIn
<1> QED BY <1>3, <1>4, <1>5, <1>6

\* A packet that fits joins a line: the order of its class is kept.
LEMMA JoinInTurn ==
  ASSUME NEW P, P \subseteq Nat \X Nat, NEW S, NEW L \in [P -> Seq(S)], NEW M,
         NEW y \in P, NEW p \in S, Gains(L, y, p, M), Ordered(L), Fits(L, p, y)
  PROVE  Ordered(M)
<1>0. DOMAIN M = P /\ M[y] = Append(L[y], p) /\ \A z \in P \ {y} : M[z] = L[z]
  BY DEF Gains
<1>1. /\ Len(L[y]) \in Nat /\ Len(M[y]) = Len(L[y]) + 1 /\ M[y][Len(L[y]) + 1] = p
      /\ \A i \in 1..Len(L[y]) : M[y][i] = L[y][i]
  BY <1>0, LenProperties, AppendProperties
<1>2. ASSUME NEW z \in P, NEW i \in 1..Len(M[z])
      PROVE  \/ i \in 1..Len(L[z]) /\ M[z][i] = L[z][i]
             \/ z = y /\ i = Len(L[y]) + 1 /\ M[z][i] = p
  BY <1>0, <1>1
<1>3. \A z \in P : z[1] \in Nat
  OBVIOUS
<1>4. ASSUME NEW v \in P, NEW z \in P, NEW i \in 1..Len(M[v]), NEW j \in 1..Len(M[z]),
             Same(M[v][i], M[z][j]), v[1] < z[1] \/ (v = z /\ i < j)
      PROVE  M[v][i].id < M[z][j].id
  <2>1. CASE /\ i \in 1..Len(L[v]) /\ M[v][i] = L[v][i]
             /\ j \in 1..Len(L[z]) /\ M[z][j] = L[z][j]
    <3>1. Same(L[v][i], L[z][j]) /\ (v[1] < z[1] \/ (v = z /\ i < j))
      BY <1>4, <2>1
    <3>2. L[v][i].id < L[z][j].id
      BY <2>1, <3>1, InTurn
    <3> QED BY <2>1, <3>2
  <2>2. CASE /\ i \in 1..Len(L[v]) /\ M[v][i] = L[v][i]
             /\ z = y /\ j = Len(L[y]) + 1 /\ M[z][j] = p
    <3>1. v[1] < y[1] \/ v = y
      BY <1>4, <2>2
    <3>2. Same(L[v][i], p)
      BY <1>4, <2>2
    <3> QED BY <2>2, <3>1, <3>2 DEF Fits
  <2>3. CASE /\ v = y /\ i = Len(L[y]) + 1 /\ M[v][i] = p
             /\ j \in 1..Len(L[z]) /\ M[z][j] = L[z][j]
    <3>1. z[1] > y[1]
      BY <1>1, <1>3, <1>4, <2>3
    <3>2. Same(L[z][j], p)
      BY <1>4, <2>3 DEF Same
    <3> QED BY <2>3, <3>1, <3>2 DEF Fits
  <2>4. CASE v = y /\ i = Len(L[y]) + 1 /\ z = y /\ j = Len(L[y]) + 1
    <3>1. v = z /\ i = j /\ i \in Int /\ v[1] \in Nat
      BY <1>1, <1>3, <2>4
    <3>2. ~(v[1] < z[1]) /\ ~(i < j)
      BY <3>1
    <3> QED BY <1>4, <3>2
  <2>5. \/ i \in 1..Len(L[v]) /\ M[v][i] = L[v][i]
        \/ v = y /\ i = Len(L[y]) + 1 /\ M[v][i] = p
    BY <1>2
  <2>6. \/ j \in 1..Len(L[z]) /\ M[z][j] = L[z][j]
        \/ z = y /\ j = Len(L[y]) + 1 /\ M[z][j] = p
    BY <1>2
  <2> QED BY <2>1, <2>2, <2>3, <2>4, <2>5, <2>6
<1> QED BY <1>0, <1>4 DEF Ordered

\* The lines of Z are emptied.
LEMMA Emptied ==
  ASSUME NEW P, NEW S, NEW L \in [P -> Seq(S)], NEW M, NEW Z, Z \subseteq P,
         Empties(L, Z, M)
  PROVE  /\ Scattered(L) => Scattered(M) /\ AllIds(M) = AllIds(L) \ UNION {Ids(L[z]) : z \in Z}
         /\ Ordered(L) => Ordered(M)
<1>0. DOMAIN M = P /\ (\A z \in Z : M[z] = <<>>) /\ \A z \in P \ Z : M[z] = L[z]
  BY DEF Empties
<1>1. \A z \in P : \A i \in 1..Len(M[z]) : z \notin Z /\ M[z] = L[z]
  <2>1. Len(<<>>) = 0
    BY EmptySeq
  <2> QED BY <1>0, <2>1
<1>2. Scattered(L) => Scattered(M)
  BY <1>0, <1>1 DEF Scattered
<1>3. Ordered(L) => Ordered(M)
  BY <1>0, <1>1 DEF Ordered
<1>4. ASSUME Scattered(L) PROVE AllIds(M) = AllIds(L) \ UNION {Ids(L[z]) : z \in Z}
  <2>1. ASSUME NEW v \in AllIds(M)
        PROVE  v \in AllIds(L) /\ v \notin UNION {Ids(L[z]) : z \in Z}
    <3>1. PICK y \in P : \E i \in 1..Len(M[y]) : v = M[y][i].id
      BY <1>0, <2>1, IdIn
    <3>2. PICK i \in 1..Len(L[y]) : v = L[y][i].id /\ y \notin Z
      BY <1>1, <3>1
    <3>3. ASSUME NEW z \in Z, NEW j \in 1..Len(L[z]), v = L[z][j].id PROVE FALSE
      <4>1. z \in P /\ z # y
        BY <3>2
      <4>2. L[y][i].id = L[z][j].id
        BY <3>2, <3>3
      <4> QED BY <1>4, <4>1, <4>2, Apart
    <3>4. v \notin UNION {Ids(L[z]) : z \in Z}
      BY <3>3 DEF Ids
    <3> QED BY <3>2, <3>4, IdIn
  <2>2. ASSUME NEW v \in AllIds(L), v \notin UNION {Ids(L[z]) : z \in Z}
        PROVE  v \in AllIds(M)
    <3>1. PICK z \in P : v \in Ids(L[z])
      BY <2>2 DEF AllIds
    <3>2. z \notin Z
      BY <2>2, <3>1
    <3> QED BY <1>0, <3>1, <3>2 DEF AllIds
  <2> QED BY <2>1, <2>2
<1> QED BY <1>2, <1>3, <1>4

-----------------------------------------------------------------------------
(* The state of a node.                                                    *)

\* Packets above the device; at the device they carry the PPP header.
Packet(D) == [id : Nat, priority : 0..15, size : 1..Mtu, txq : D]
Frame(D) == [id : Nat, priority : 0..15, size : 1..(Mtu + PppHeader), txq : D]
\* The packets of a band and of a device queue.
InBand(D, b) == {p \in Packet(D) : prio2band(p.priority) = b}
InDevice(D, q) == {p \in Frame(D) : p.txq = q}

\* The types of the state of a node with device queues D.
LimitRecord ==
  [limit : Int, queued : Int, completed : Int, lastObj : Int, prevQueued : Int,
   prevLastObj : Int, prevOver : Int, lowestSlack : Int, adjLimit : Int]

DeviceQueue(D) ==
  [items : Seq(Frame(D)), byDevice : BOOLEAN, byLimits : BOOLEAN, limits : LimitRecord]

Node(D) ==
  [unit : Units, limited : BOOLEAN, quota : Nat \ {0}, root : BOOLEAN,
   bands : [Bands -> Seq(Packet(D))], requeued : Seq(Packet(D)), ranOut : BOOLEAN,
   dev : [D -> DeviceQueue(D)], busy : BOOLEAN,
   now : Seq([queue : D, bytes : Nat]), air : Seq(Frame(D)), sent : Nat,
   dropped : SUBSET Nat, discarded : SUBSET Nat, abandoned : SUBSET Nat]

\* Each packet is in the band and in the device queue that it belongs to.
Home(D, n) ==
  /\ \A b \in Bands : n.bands[b] \in Seq(InBand(D, b))
  /\ \A q \in D : n.dev[q].items \in Seq(InDevice(D, q))

\* The queue disc holds its MaxSize and one requeued packet, and nothing once it is deleted.
Disc(n) ==
  /\ NPackets(n) =< DiscSize /\ Len(n.requeued) =< 1
  /\ ~n.root => n.requeued = <<>> /\ \A b \in Bands : n.bands[b] = <<>>

\* In packet mode a device queue without room for one more is stopped.
Room(D, n) ==
  /\ \A q \in D : ~WouldOverflow(n, q, 0, 0)
  /\ n.unit = "packets" =>
       /\ n.discarded = {}
       /\ \A q \in D : n.dev[q].byDevice \/ ~WouldOverflow(n, q, 1, Mtu)

\* A dequeued packet that is still to be reported is one that is being sent.
Wire(n) == Len(n.now) =< 1 /\ (n.now # <<>> => n.busy)

\* The byte queue limits count what is in the device queue and not yet reported, and hold
\* the queue only while they are exceeded.
Limits(D, n) ==
  n.limited =>
    \A q \in D :
      LET l == n.dev[q].limits
      IN /\ l.queued - l.completed = Bytes(n.dev[q].items) + Unreported(n, q)
         /\ n.dev[q].byLimits => Available(l) < 0

\* What each operation keeps of the node alone.
Local(D, n) ==
  /\ n \in Node(D) /\ Home(D, n) /\ Disc(n) /\ Room(D, n) /\ Wire(n) /\ Limits(D, n)

-----------------------------------------------------------------------------
(* Sizes and bytes.                                                        *)

\* The sizes are natural numbers.
LEMMA Sizes ==
  /\ Mtu \in Nat /\ Mtu > 0 /\ PppHeader \in Nat /\ DiscSize \in Nat /\ DiscSize > 0
  /\ \A u \in Units : DeviceSize[u] \in Nat /\ DeviceSize[u] > 0
BY TransmitAssumption

\* The sizes of the packets of a line, as a sequence of numbers.
LEMMA SizesOf ==
  ASSUME NEW D, NEW q \in Seq(Frame(D))
  PROVE  /\ [i \in 1..Len(q) |-> q[i].size] \in Seq(Nat)
         /\ Len([i \in 1..Len(q) |-> q[i].size]) = Len(q) /\ Len(q) \in Nat
<1>1. Len(q) \in Nat /\ \A i \in 1..Len(q) : q[i] \in Frame(D)
  BY LenProperties
<1>2. \A i \in 1..Len(q) : q[i].size \in Nat
  BY <1>1, Sizes DEF Frame
<1>3. [i \in 1..Len(q) |-> q[i].size] \in [1..Len(q) -> Nat]
  BY <1>2
<1>4. [i \in 1..Len(q) |-> q[i].size] \in Seq(Nat)
  BY <1>1, <1>3
<1> QED BY <1>1, <1>3, <1>4

\* The bytes of a line of packets.
LEMMA BytesType ==
  ASSUME NEW D, NEW q \in Seq(Frame(D))
  PROVE  Bytes(q) \in Nat
BY SizesOf, TotalType DEF Bytes

\* A packet more adds its size.
LEMMA BytesAppend ==
  ASSUME NEW D, NEW q \in Seq(Frame(D)), NEW p \in Frame(D)
  PROVE  Bytes(Append(q, p)) = Bytes(q) + p.size
<1> DEFINE r == Append(q, p)
           w == [i \in 1..Len(q) |-> q[i].size]
           v == [i \in 1..Len(r) |-> r[i].size]
<1>1. /\ r \in Seq(Frame(D)) /\ Len(r) = Len(q) + 1 /\ r[Len(q) + 1] = p
      /\ \A i \in 1..Len(q) : r[i] = q[i]
  BY AppendProperties
<1>2. w \in Seq(Nat) /\ Len(w) = Len(q) /\ Len(q) \in Nat /\ v \in Seq(Nat) /\ Len(v) = Len(r)
  BY <1>1, SizesOf
<1>3. p.size \in Nat
  BY Sizes DEF Frame
<1>4. v[Len(q) + 1] = p.size /\ \A i \in 1..Len(q) : v[i] = w[i]
  BY <1>1, <1>2
<1> HIDE DEF w, v, r
<1>5. Total(v) = Total(w) + p.size
  BY <1>1, <1>2, <1>3, <1>4, TotalAppend
<1> QED BY <1>5 DEF Bytes, w, v, r

\* The first packet and the bytes of the others.
LEMMA BytesTail ==
  ASSUME NEW D, NEW q \in Seq(Frame(D)), q # <<>>
  PROVE  Bytes(q) = Head(q).size + Bytes(Tail(q))
<1> DEFINE r == Tail(q)
           w == [i \in 1..Len(q) |-> q[i].size]
           v == [i \in 1..Len(r) |-> r[i].size]
<1>1. /\ r \in Seq(Frame(D)) /\ Len(r) = Len(q) - 1 /\ Head(q) = q[1] /\ Len(q) > 0
      /\ \A i \in 1..Len(r) : r[i] = q[i + 1]
  BY HeadTailProperties, LenProperties, EmptySeq
<1>2. w \in Seq(Nat) /\ Len(w) = Len(q) /\ Len(q) \in Nat /\ v \in Seq(Nat) /\ Len(v) = Len(r)
  BY <1>1, SizesOf
<1>3. w[1] = Head(q).size /\ \A i \in 1..Len(r) : v[i] = w[i + 1]
  BY <1>1, <1>2
<1> HIDE DEF w, v, r
<1>4. Total(w) = w[1] + Total(v)
  BY <1>1, <1>2, <1>3, TotalTail
<1> QED BY <1>3, <1>4 DEF Bytes, w, v, r

\* An empty line has no bytes.
LEMMA BytesEmpty == Bytes(<<>>) = 0
<1>1. [i \in 1..Len(<<>>) |-> <<>>[i].size] = <<>>
  BY EmptySeq
<1> QED BY <1>1, TotalEmpty DEF Bytes

\* The sum of one number.
LEMMA TotalOne == ASSUME NEW w \in Seq(Nat), Len(w) = 1 PROVE Total(w) = w[1]
<1>1. PICK e \in Seq(Nat) : e = <<>> /\ Len(e) = 0
  BY EmptySeq
<1>2. Len(w) = Len(e) + 1 /\ \A i \in 1..Len(e) : e[i] = w[i + 1]
  BY <1>1
<1>3. Total(w) = w[1] + Total(e)
  BY <1>2, TotalTail
<1>4. w[1] \in Nat
  <2>1. 1 \in 1..Len(w)
    OBVIOUS
  <2> QED BY <2>1, ElementOfSeq
<1> QED BY <1>1, <1>3, <1>4, TotalEmpty

\* What is to be reported, when there is nothing or one event.
LEMMA UnreportedIs ==
  ASSUME NEW D, NEW n, n.now \in Seq([queue : D, bytes : Nat]), NEW q
  PROVE  /\ Unreported(n, q) \in Nat
         /\ n.now = <<>> => Unreported(n, q) = 0
         /\ Len(n.now) = 1 =>
              Unreported(n, q) = IF n.now[1].queue = q THEN n.now[1].bytes ELSE 0
<1> DEFINE w == [i \in 1..Len(n.now) |-> IF n.now[i].queue = q THEN n.now[i].bytes ELSE 0]
<1>1. Len(n.now) \in Nat /\ \A i \in 1..Len(n.now) : n.now[i] \in [queue : D, bytes : Nat]
  BY LenProperties
<1>2. w \in [1..Len(n.now) -> Nat]
  BY <1>1
<1>3. w \in Seq(Nat) /\ Len(w) = Len(n.now)
  BY <1>1, <1>2
<1>4. n.now = <<>> => Total(w) = 0
  <2>1. n.now = <<>> => w = <<>>
    BY <1>3, EmptySeq
  <2> QED BY <2>1, TotalEmpty
<1>5. Len(n.now) = 1 => Total(w) = w[1]
  <2>1. ASSUME Len(n.now) = 1 PROVE w \in Seq(Nat) /\ Len(w) = 1
    BY <1>3, <2>1
  <2> HIDE DEF w
  <2> QED BY <2>1, TotalOne
<1>6. Total(w) \in Nat
  BY <1>3, TotalType
<1> QED BY <1>4, <1>5, <1>6 DEF Unreported

-----------------------------------------------------------------------------
(* A packet in hand, between two lines.                                    *)

\* Line x hands its head to line y.
Hands(L, x, y, N) ==
  /\ DOMAIN N = DOMAIN L /\ N[x] = Tail(L[x]) /\ N[y] = Append(L[y], L[x][1])
  /\ \A z \in DOMAIN L : z = x \/ z = y \/ N[z] = L[z]

\* Nothing of the class of the head of line x is between lines x and y.
Clear(L, x, y) ==
  \A z \in DOMAIN L : \A i \in 1..Len(L[z]) :
    z # x /\ Same(L[z][i], L[x][1]) => z[1] =< y[1] \/ x[1] < z[1]

\* Packet p is in no line, the only packet that is nowhere, and may join line y.
InHand(L, p, y, out, sent) ==
  Kept(L, out \cup {p.id}, sent) /\ p.id \notin out /\ Fits(L, p, y)

\* The head of a line is taken: it may join a line further on.
LEMMA TakenInHand ==
  ASSUME NEW P, P \subseteq Nat \X Nat, NEW S, NEW L \in [P -> Seq(S)],
         NEW M, NEW x \in P, NEW y \in P, NEW out, NEW sent \in Nat,
         Kept(L, out, sent), L[x] # <<>>, Loses(L, x, M),
         y[1] < x[1], Clear(L, x, y)
  PROVE  InHand(M, L[x][1], y, out, sent)
<1> DEFINE p == L[x][1]
<1>0. DOMAIN M = P /\ M[x] = Tail(L[x]) /\ \A z \in P \ {x} : M[z] = L[z]
  BY DEF Loses
<1>1. /\ Len(M[x]) = Len(L[x]) - 1 /\ \A i \in 1..Len(M[x]) : M[x][i] = L[x][i + 1]
      /\ Len(L[x]) \in Nat /\ Len(L[x]) > 0 /\ 1 \in 1..Len(L[x])
  BY <1>0, LenProperties, HeadTailProperties, EmptySeq
<1>2. p.id \in AllIds(L)
  BY <1>1, IdIn
<1>3. Scattered(M) /\ AllIds(M) = AllIds(L) \ {p.id} /\ Ordered(M)
  <2>1. Scattered(L) /\ Ordered(L)
    BY DEF Kept
  <2>2. /\ Scattered(L) => Scattered(M) /\ AllIds(M) = AllIds(L) \ {L[x][1].id}
        /\ Ordered(L) => Ordered(M)
    BY TakeHead
  <2> QED BY <2>1, <2>2
<1>4. Kept(M, out \cup {p.id}, sent) /\ p.id \notin out
  BY <1>2, <1>3 DEF Kept
<1>5. \A z \in P : z[1] \in Nat
  OBVIOUS
<1>6. ASSUME NEW z \in P, NEW i \in 1..Len(M[z]), Same(M[z][i], p)
      PROVE  /\ z[1] < y[1] \/ z = y => M[z][i].id < p.id
             /\ z[1] > y[1] => p.id < M[z][i].id
  <2>1. CASE z = x
    <3>1. PICK j \in 1..Len(L[x]) : j = i + 1 /\ M[x][i] = L[x][j] /\ 1 < j
      <4>1. i \in 1..Len(M[x])
        BY <2>1
      <4>2. i + 1 \in 1..Len(L[x]) /\ 1 < i + 1
        BY <1>1, <4>1
      <4> QED BY <1>1, <4>1, <4>2
    <3>2. Same(p, L[x][j])
      BY <1>6, <2>1, <3>1 DEF Same
    <3>3. p.id < L[x][j].id
      BY <1>1, <3>1, <3>2, InTurn DEF Kept
    <3>4. ~(z[1] < y[1] \/ z = y)
      BY <1>5, <2>1
    <3> QED BY <2>1, <3>1, <3>3, <3>4
  <2>2. CASE z # x
    <3>1. M[z] = L[z] /\ Same(L[z][i], p) /\ i \in 1..Len(L[z])
      BY <1>0, <1>6, <2>2
    <3>2. z[1] =< y[1] \/ x[1] < z[1]
      BY <2>2, <3>1 DEF Clear
    <3>3. CASE x[1] < z[1]
      <4>1. Same(p, L[z][i])
        BY <3>1 DEF Same
      <4>2. p.id < L[z][i].id
        BY <1>1, <3>1, <3>3, <4>1, InTurn DEF Kept
      <4>3. ~(z[1] < y[1] \/ z = y)
        BY <1>5, <3>3
      <4> QED BY <3>1, <4>2, <4>3
    <3>4. CASE z[1] =< y[1]
      <4>1. z[1] < x[1] /\ ~(z[1] > y[1])
        BY <1>5, <3>4
      <4>2. L[z][i].id < p.id
        BY <1>1, <3>1, <4>1, InTurn DEF Kept
      <4> QED BY <3>1, <4>1, <4>2
    <3> QED BY <3>2, <3>3, <3>4
  <2> QED BY <2>1, <2>2
<1>7. Fits(M, p, y)
  BY <1>0, <1>6 DEF Fits
<1> QED BY <1>4, <1>7 DEF InHand

\* A packet just sent may join any line that nothing of its class is behind.
LEMMA NewInHand ==
  ASSUME NEW P, NEW S, NEW L \in [P -> Seq(S)], NEW y, NEW out, NEW sent \in Nat, NEW p,
         Kept(L, out, sent), p.id = sent + 1,
         \A z \in P : \A i \in 1..Len(L[z]) : Same(L[z][i], p) => ~(y[1] < z[1])
  PROVE  InHand(L, p, y, out, sent + 1)
<1>1. p.id \notin AllIds(L) /\ p.id \notin out
  BY DEF Kept
<1>2. 1..(sent + 1) = 1..sent \cup {p.id}
  OBVIOUS
<1>3. Kept(L, out \cup {p.id}, sent + 1)
  BY <1>1, <1>2 DEF Kept
<1>4. \A z \in P : \A i \in 1..Len(L[z]) : L[z][i].id \in 1..sent
  BY IdIn DEF Kept
<1>5. \A z \in P : \A i \in 1..Len(L[z]) : L[z][i].id < p.id
  BY <1>4
<1>6. Fits(L, p, y)
  BY <1>5 DEF Fits
<1> QED BY <1>1, <1>3, <1>6 DEF InHand

\* A packet in hand joins its line, perhaps with its PPP header.
LEMMA HandedOn ==
  ASSUME NEW P, P \subseteq Nat \X Nat, NEW S, NEW L \in [P -> Seq(S)], NEW N,
         NEW y \in P, NEW out, NEW sent, NEW p, InHand(L, p, y, out, sent),
         NEW r \in S, r.id = p.id, Same(r, p), Gains(L, y, r, N)
  PROVE  Kept(N, out, sent)
<1>1. r.id \notin AllIds(L)
  BY DEF InHand, Kept
<1>0. Scattered(L) /\ Ordered(L)
  BY DEF InHand, Kept
<1>2. Scattered(N) /\ \A v : v \in AllIds(N) <=> v \in AllIds(L) \/ v = r.id
  BY <1>0, <1>1, Join
<1>3. Fits(L, r, y)
  BY DEF InHand, Fits, Same
<1>4. Ordered(N)
  BY <1>0, <1>3, JoinInTurn
<1> QED BY <1>2, <1>4 DEF InHand, Kept

-----------------------------------------------------------------------------
(* The lines of a node.                                                    *)

\* The places of a node with device queues D, and what is in them.
PlacesOf(D) == {<<0, 0>>, <<1, 0>>, <<3, 0>>} \cup ({2} \X D) \cup ({4} \X Bands)

Lines(D, n, g) == [x \in PlacesOf(D) |-> Line(n, g, x)]

\* The places, one by one.
LEMMA PlaceIs ==
  ASSUME NEW D
  PROVE  /\ \A x \in PlacesOf(D) :
              \/ x = <<0, 0>> \/ x = <<1, 0>> \/ x = <<3, 0>>
              \/ \E q \in D : x = <<2, q>>
              \/ \E b \in Bands : x = <<4, b>>
         /\ {<<0, 0>>, <<1, 0>>, <<3, 0>>} \subseteq PlacesOf(D)
         /\ \A q \in D : <<2, q>> \in PlacesOf(D)
         /\ \A b \in Bands : <<4, b>> \in PlacesOf(D)
BY DEF PlacesOf

\* The lines, one by one.
LEMMA LineIs ==
  ASSUME NEW D, NEW n, NEW g
  PROVE  /\ Lines(D, n, g)[<<0, 0>>] = g
         /\ Lines(D, n, g)[<<1, 0>>] = n.air
         /\ Lines(D, n, g)[<<3, 0>>] = n.requeued
         /\ \A q \in D : Lines(D, n, g)[<<2, q>>] = n.dev[q].items
         /\ \A b \in Bands : Lines(D, n, g)[<<4, b>>] = n.bands[b]
         /\ DOMAIN Lines(D, n, g) = PlacesOf(D)
BY PlaceIs DEF Lines, Line

\* The places of a node of the right type.
LEMMA PlacesAre ==
  ASSUME NEW D, NEW n \in Node(D) PROVE Places(n) = PlacesOf(D)
BY DEF Node, Places, PlacesOf

\* A place is a pair of numbers: its stage and its number in the stage.
LEMMA PlacesType == ASSUME NEW D, D \subseteq Nat PROVE PlacesOf(D) \subseteq Nat \X Nat
<1>1. ASSUME NEW x \in PlacesOf(D) PROVE x \in Nat \X Nat
  <2>1. ASSUME NEW q \in D, x = <<2, q>> PROVE x \in Nat \X Nat
    BY <2>1
  <2>2. ASSUME NEW b \in Bands, x = <<4, b>> PROVE x \in Nat \X Nat
    BY <2>2 DEF Bands
  <2>3. CASE x \in {<<0, 0>>, <<1, 0>>, <<3, 0>>}
    BY <2>3
  <2> QED BY <2>1, <2>2, <2>3, PlaceIs
<1> QED BY <1>1

\* The lines hold packets.
LEMMA LinesType ==
  ASSUME NEW D, NEW n \in Node(D), NEW g \in Seq(Frame(D))
  PROVE  Lines(D, n, g) \in [PlacesOf(D) -> Seq(Frame(D))]
<1>1. Packet(D) \subseteq Frame(D)
  BY Sizes DEF Packet, Frame
<1>2. \A w \in Seq(Packet(D)) : w \in Seq(Frame(D))
  BY <1>1, SeqMonotonic
<1>3. /\ n.air \in Seq(Frame(D)) /\ n.requeued \in Seq(Frame(D))
      /\ \A q \in D : n.dev[q].items \in Seq(Frame(D))
      /\ \A b \in Bands : n.bands[b] \in Seq(Frame(D))
  BY <1>2 DEF Node, DeviceQueue
<1>4. ASSUME NEW x \in PlacesOf(D) PROVE Lines(D, n, g)[x] \in Seq(Frame(D))
  <2>1. CASE x \in {<<0, 0>>, <<1, 0>>, <<3, 0>>}
    <3>1. Lines(D, n, g)[x] = g \/ Lines(D, n, g)[x] = n.air \/ Lines(D, n, g)[x] = n.requeued
      BY <2>1, LineIs
    <3> QED BY <1>3, <3>1
  <2>2. ASSUME NEW q \in D, x = <<2, q>> PROVE Lines(D, n, g)[x] \in Seq(Frame(D))
    BY <1>3, <2>2, LineIs
  <2>3. ASSUME NEW b \in Bands, x = <<4, b>> PROVE Lines(D, n, g)[x] \in Seq(Frame(D))
    BY <1>3, <2>3, LineIs
  <2> QED BY <2>1, <2>2, <2>3, PlaceIs
<1> QED BY <1>4 DEF Lines

\* Two nodes whose lines agree but for those of one place.
AgreeBut(D, n, m, Z) ==
  /\ <<1, 0>> \in Z \/ m.air = n.air
  /\ <<3, 0>> \in Z \/ m.requeued = n.requeued
  /\ \A q \in D : <<2, q>> \in Z \/ m.dev[q].items = n.dev[q].items
  /\ \A b \in Bands : <<4, b>> \in Z \/ m.bands[b] = n.bands[b]

\* Nodes that agree but on Z have the same lines but in Z.
LEMMA LinesDiffer ==
  ASSUME NEW D, NEW n, NEW m, NEW g, NEW Z, AgreeBut(D, n, m, Z)
  PROVE  \A x \in PlacesOf(D) \ Z : Lines(D, m, g)[x] = Lines(D, n, g)[x]
<1>1. SUFFICES ASSUME NEW x \in PlacesOf(D), x \notin Z
               PROVE  Lines(D, m, g)[x] = Lines(D, n, g)[x]
  OBVIOUS
<1>2. CASE x \in {<<0, 0>>, <<1, 0>>, <<3, 0>>}
  BY <1>1, <1>2, LineIs DEF AgreeBut
<1>3. CASE \E q \in D : x = <<2, q>>
  BY <1>1, <1>3, LineIs DEF AgreeBut
<1>4. CASE \E b \in Bands : x = <<4, b>>
  BY <1>1, <1>4, LineIs DEF AgreeBut
<1> QED BY <1>1, <1>2, <1>3, <1>4, PlaceIs

\* The head of line x joins line y, further on.
LEMMA Moved ==
  ASSUME NEW P, P \subseteq Nat \X Nat, NEW S, NEW L \in [P -> Seq(S)], NEW N,
         NEW x \in P, NEW y \in P, NEW out, NEW sent \in Nat, Kept(L, out, sent),
         L[x] # <<>>, y[1] < x[1], Hands(L, x, y, N), Clear(L, x, y)
  PROVE  Kept(N, out, sent)
<1> DEFINE t == Tail(L[x])
           p == L[x][1]
           M == [L EXCEPT ![x] = t]
<1>1. x # y
  BY SMT
<1>2. t \in Seq(S) /\ p \in S
  <2>1. Len(L[x]) \in Nat /\ Len(L[x]) > 0 /\ 1 \in 1..Len(L[x])
    BY LenProperties, EmptySeq
  <2> QED BY <2>1, HeadTailProperties, ElementOfSeq
<1>3. M \in [P -> Seq(S)]
  BY <1>2
<1>4. Loses(L, x, M)
  BY DEF Loses
<1>5. InHand(M, p, y, out, sent)
  <2> HIDE DEF M, p
  <2>1. InHand(M, L[x][1], y, out, sent)
    BY <1>4, TakenInHand
  <2> QED BY <2>1 DEF p
<1>6. Gains(M, y, p, N)
  <2>1. M[y] = L[y] /\ M[x] = t /\ DOMAIN M = P /\ \A z \in P \ {x} : M[z] = L[z]
    BY <1>1
  <2> HIDE DEF M, t, p
  <2>2. N[y] = Append(M[y], p)
    BY <2>1 DEF p, Hands
  <2>3. \A z \in P \ {y} : N[z] = M[z]
    BY <2>1 DEF t, Hands
  <2> QED BY <2>1, <2>2, <2>3 DEF Gains, Hands
<1>7. Same(p, p)
  BY DEF Same
<1> HIDE DEF M, t, p
<1> QED BY <1>2, <1>3, <1>5, <1>6, <1>7, HandedOn
-----------------------------------------------------------------------------

\* The packets that are in no line for good.
Out(n, l) == n.dropped \cup n.discarded \cup l \cup n.abandoned

\* Each met one fate, and none is abandoned before the queue disc is gone.
Fated(n, l) ==
  /\ n.dropped \cap n.discarded = {} /\ n.dropped \cap l = {}
  /\ n.dropped \cap n.abandoned = {} /\ n.discarded \cap l = {}
  /\ n.discarded \cap n.abandoned = {} /\ l \cap n.abandoned = {}
  /\ n.root => n.abandoned = {}

\* The invariant of a node, of what arrived and of what the error model took.
Good(D, n, g, l) ==
  /\ Local(D, n) /\ g \in Seq(Frame(D)) /\ Fated(n, l)
  /\ Kept(Lines(D, n, g), Out(n, l), n.sent)

\* What a device operation leaves alone.
SameNode(n, m) ==
  /\ m.unit = n.unit /\ m.limited = n.limited /\ m.quota = n.quota /\ m.root = n.root
  /\ m.ranOut = n.ranOut /\ m.sent = n.sent /\ m.dropped = n.dropped
  /\ m.abandoned = n.abandoned
SameDisc(n, m) == m.bands = n.bands /\ m.requeued = n.requeued
SameWire(n, m) == m.busy = n.busy /\ m.now = n.now /\ m.air = n.air
SameFlow(d, e) == e.byDevice = d.byDevice /\ e.byLimits = d.byLimits /\ e.limits = d.limits
OthersSame(D, n, m, q) == \A k \in D \ {q} : m.dev[k] = n.dev[k]

\* What is out when nothing is dropped.
LEMMA OutSame ==
  ASSUME NEW n, NEW m, NEW l, SameNode(n, m), m.discarded = n.discarded
  PROVE  Out(m, l) = Out(n, l) /\ m.sent = n.sent /\ (Fated(n, l) => Fated(m, l))
BY DEF Out, SameNode, Fated

-----------------------------------------------------------------------------
(* TransmitStart and PacketEnqueued, field by field.                       *)

\* TransmitStart, field by field.
LEMMA StartFields ==
  ASSUME NEW D, NEW n \in Node(D), NEW q \in D, n.dev[q].items # <<>>
  PROVE  LET m == TransmitStart(n, q)
             p == Head(n.dev[q].items)
         IN /\ m \in Node(D) /\ p \in Frame(D)
            /\ SameNode(n, m) /\ SameDisc(n, m) /\ OthersSame(D, n, m, q)
            /\ m.discarded = n.discarded /\ SameFlow(n.dev[q], m.dev[q])
            /\ m.dev[q].items = Tail(n.dev[q].items)
            /\ m.now = Append(n.now, [queue |-> q, bytes |-> p.size])
            /\ m.busy /\ m.air = Append(n.air, p)
<1> DEFINE m == TransmitStart(n, q)
           p == Head(n.dev[q].items)
<1>1. /\ n.dev \in [D -> DeviceQueue(D)] /\ n.dev[q] \in DeviceQueue(D)
      /\ n.dev[q].items \in Seq(Frame(D)) /\ n.air \in Seq(Frame(D))
      /\ n.now \in Seq([queue : D, bytes : Nat])
  BY DEF Node, DeviceQueue
<1>2. p \in Frame(D) /\ p.size \in Nat /\ Tail(n.dev[q].items) \in Seq(Frame(D))
  <2>1. p \in Frame(D) /\ Tail(n.dev[q].items) \in Seq(Frame(D))
    BY <1>1, HeadTailProperties
  <2> QED BY <2>1, Sizes DEF Frame
<1>3. m = [n EXCEPT !.dev[q].items = Tail(@),
               !.now = Append(@, [queue |-> q, bytes |-> p.size]),
               !.busy = TRUE,
               !.air = Append(@, p)]
  BY DEF TransmitStart
<1> DEFINE e == [queue |-> q, bytes |-> p.size]
           t == Tail(n.dev[q].items)
<1>4. e \in [queue : D, bytes : Nat]
  BY <1>2
<1>5. Append(n.now, e) \in Seq([queue : D, bytes : Nat]) /\ Append(n.air, p) \in Seq(Frame(D))
  BY <1>1, <1>2, <1>4, AppendProperties
<1>6. m = [n EXCEPT !.dev[q].items = t, !.now = Append(@, e), !.busy = TRUE,
                    !.air = Append(@, p)]
  BY <1>3
<1>7. t \in Seq(Frame(D))
  BY <1>2
<1>8. /\ m.dev = [n.dev EXCEPT ![q].items = t] /\ m.now = Append(n.now, e)
      /\ m.busy = TRUE /\ m.air = Append(n.air, p)
      /\ SameNode(n, m) /\ SameDisc(n, m) /\ m.discarded = n.discarded
  BY <1>6 DEF Node, SameNode, SameDisc
<1> HIDE DEF p, t
<1>9. [n.dev EXCEPT ![q].items = t] \in [D -> DeviceQueue(D)]
  BY <1>1, <1>7 DEF DeviceQueue
<1>10. m \in Node(D)
  <2> HIDE DEF e
  <2> QED BY <1>5, <1>6, <1>9 DEF Node
<1>11. /\ m.dev[q].items = t /\ SameFlow(n.dev[q], m.dev[q]) /\ OthersSame(D, n, m, q)
  BY <1>1, <1>8 DEF DeviceQueue, SameFlow, OthersSame
<1> QED BY <1>2, <1>8, <1>10, <1>11 DEF p, t

\* Whether there is room depends on the unit and on what the queue holds.
LEMMA OverflowSame ==
  ASSUME NEW n, NEW m, NEW q, m.unit = n.unit, m.dev[q].items = n.dev[q].items, NEW j, NEW k
  PROVE  WouldOverflow(m, q, j, k) = WouldOverflow(n, q, j, k)
BY DEF WouldOverflow

\* Queued adds to what was queued and to nothing that was completed.
LEMMA QueuedType ==
  ASSUME NEW l \in LimitRecord, NEW count \in Int
  PROVE  /\ Queued(l, count) \in LimitRecord
         /\ Queued(l, count).queued = l.queued + count
         /\ Queued(l, count).completed = l.completed
         /\ Queued(l, count).adjLimit = l.adjLimit
<1>1. l.queued + count \in Int
  BY DEF LimitRecord
<1> DEFINE k == l.queued + count
<1>2. Queued(l, count) = [l EXCEPT !.lastObj = count, !.queued = k]
  BY DEF Queued
<1> HIDE DEF k
<1>3. [l EXCEPT !.lastObj = count, !.queued = k] \in LimitRecord
  BY <1>1 DEF LimitRecord, k
<1>4. /\ [l EXCEPT !.lastObj = count, !.queued = k].queued = k
      /\ [l EXCEPT !.lastObj = count, !.queued = k].completed = l.completed
      /\ [l EXCEPT !.lastObj = count, !.queued = k].adjLimit = l.adjLimit
  BY DEF LimitRecord
<1> QED BY <1>2, <1>3, <1>4 DEF k

\* m is n with packet p put into device queue q.
EnqueuedIs(D, n, q, p, m) ==
  LET d == n.dev[q]
      l == IF n.limited THEN Queued(d.limits, p.size) ELSE d.limits
  IN /\ m \in Node(D)
     /\ SameNode(n, m) /\ SameDisc(n, m) /\ SameWire(n, m) /\ OthersSame(D, n, m, q)
     /\ m.discarded = n.discarded
     /\ m.dev[q].items = Append(d.items, p) /\ m.dev[q].limits = l
     /\ (m.dev[q].byLimits <=> d.byLimits \/ (n.limited /\ Available(l) < 0))
     /\ (m.dev[q].byDevice <=> d.byDevice \/ WouldOverflow(m, q, 1, Mtu))

\* PacketEnqueued after the packet was put into the queue, field by field.
LEMMA EnqueuedFields ==
  ASSUME NEW D, NEW n \in Node(D), NEW q \in D, NEW p \in Frame(D)
  PROVE  EnqueuedIs(D, n, q, p, PacketEnqueued([n EXCEPT !.dev[q].items = Append(@, p)], q, p))
<1> DEFINE d == n.dev[q]
           i == Append(d.items, p)
           l == IF n.limited THEN Queued(d.limits, p.size) ELSE d.limits
           k == [n EXCEPT !.dev[q].items = Append(@, p)]
           h == NotifyQueuedBytes(k, q, p.size)
           m == PacketEnqueued(k, q, p)
<1>1. /\ n.dev \in [D -> DeviceQueue(D)] /\ d \in DeviceQueue(D)
      /\ d.items \in Seq(Frame(D)) /\ d.limits \in LimitRecord
      /\ n.limited \in BOOLEAN /\ d.byLimits \in BOOLEAN /\ d.byDevice \in BOOLEAN
  BY DEF Node, DeviceQueue
<1>2. p.size \in Nat
  BY Sizes DEF Frame
<1>3. i \in Seq(Frame(D)) /\ l \in LimitRecord
  BY <1>1, <1>2, AppendProperties, QueuedType
<1>4. /\ k = [n EXCEPT !.dev = [n.dev EXCEPT ![q] = [d EXCEPT !.items = i]]]
      /\ [d EXCEPT !.items = i] \in DeviceQueue(D)
      /\ [d EXCEPT !.items = i].limits = d.limits
      /\ [d EXCEPT !.items = i].items = i
      /\ [d EXCEPT !.items = i].byLimits = d.byLimits
      /\ [d EXCEPT !.items = i].byDevice = d.byDevice
  BY <1>1, <1>3 DEF DeviceQueue
<1> DEFINE b == d.byLimits \/ (n.limited /\ Available(l) < 0)
           e == [d EXCEPT !.items = i, !.limits = l, !.byLimits = b]
<1>5. /\ e \in DeviceQueue(D) /\ e.items = i /\ e.limits = l
      /\ e.byLimits = b /\ e.byDevice = d.byDevice
  BY <1>1, <1>3 DEF DeviceQueue
<1>6. h = [n EXCEPT !.dev = [n.dev EXCEPT ![q] = e]]
  <2>1. /\ k.limited = n.limited /\ k.dev = [n.dev EXCEPT ![q] = [d EXCEPT !.items = i]]
        /\ k.dev[q] = [d EXCEPT !.items = i]
    BY <1>1, <1>4 DEF Node
  <2>2. CASE n.limited
    <3>1. l = Queued(k.dev[q].limits, p.size)
      BY <2>1, <2>2, <1>4
    <3>2. h = [k EXCEPT !.dev[q].limits = l, !.dev[q].byLimits = @ \/ Available(l) < 0]
      BY <2>1, <2>2, <3>1 DEF NotifyQueuedBytes
    <3>3. h = [k EXCEPT !.dev[q].limits = l, !.dev[q].byLimits = b]
      BY <1>4, <2>1, <2>2, <3>2
    <3>4. e = [k.dev[q] EXCEPT !.limits = l, !.byLimits = b]
      BY <1>1, <1>4, <2>1 DEF DeviceQueue
    <3>5. /\ "dev" \in DOMAIN k /\ q \in DOMAIN k.dev
          /\ k = [x \in DOMAIN k |-> k[x]] /\ k.dev = [x \in DOMAIN k.dev |-> k.dev[x]]
          /\ "limits" \in DOMAIN k.dev[q] /\ "byLimits" \in DOMAIN k.dev[q]
      BY <1>1, <1>4, <2>1 DEF Node, DeviceQueue
    <3> HIDE DEF l, i, e, h, b, k
    <3>6. h = [k EXCEPT !.dev = [k.dev EXCEPT ![q] = e]]
      <4>1. [k EXCEPT !.dev[q].limits = l, !.dev[q].byLimits = b] =
              [k EXCEPT !.dev = [k.dev EXCEPT ![q] = [k.dev[q] EXCEPT !.limits = l, !.byLimits = b]]]
        BY <3>5
      <4> QED BY <3>3, <3>4, <4>1, Zenon
    <3> QED BY <1>1, <1>4, <2>1, <3>6 DEF Node
  <2>3. CASE ~n.limited
    <3>1. h = k
      BY <2>1, <2>3 DEF NotifyQueuedBytes
    <3>2. e = [d EXCEPT !.items = i]
      BY <1>1, <2>3 DEF DeviceQueue
    <3> QED BY <1>4, <3>1, <3>2
  <2> QED BY <2>2, <2>3, <1>1
<1> DEFINE o == WouldOverflow(h, q, 1, Mtu)
           f == [e EXCEPT !.byDevice = @ \/ o]
<1>7. m = [n EXCEPT !.dev = [n.dev EXCEPT ![q] = f]]
  <2>1. m = [h EXCEPT !.dev[q].byDevice = @ \/ o]
    BY DEF PacketEnqueued
  <2> HIDE DEF h, o, e, m
  <2> QED BY <1>1, <1>5, <1>6, <2>1 DEF Node
<1> HIDE DEF i, l, h, o, m, k, b
<1>9. /\ f \in DeviceQueue(D) /\ f.items = i /\ f.limits = l
      /\ f.byLimits = b /\ f.byDevice = (d.byDevice \/ o)
  BY <1>1, <1>5 DEF DeviceQueue
<1> HIDE DEF e, f
<1>10. /\ m.dev = [n.dev EXCEPT ![q] = f] /\ m \in Node(D)
       /\ SameNode(n, m) /\ SameDisc(n, m) /\ SameWire(n, m) /\ m.discarded = n.discarded
  BY <1>1, <1>7, <1>9 DEF Node, SameNode, SameDisc, SameWire
<1>11. m.dev[q] = f /\ OthersSame(D, n, m, q)
  BY <1>1, <1>10 DEF OthersSame
<1>12. o = WouldOverflow(m, q, 1, Mtu)
  <2>1. /\ h.unit = n.unit /\ h.dev[q] = e /\ m.unit = n.unit
    BY <1>1, <1>6, <1>10 DEF Node, SameNode
  <2> QED BY <1>5, <1>9, <1>11, <2>1, OverflowSame DEF o
<1> QED BY <1>9, <1>10, <1>11, <1>12 DEF i, l, m, k, b, EnqueuedIs

-----------------------------------------------------------------------------
(* The transmitter starts.                                                 *)

\* The types of the fields of a node.
LEMMA NodeParts ==
  ASSUME NEW D, NEW n \in Node(D)
  PROVE  /\ n.unit \in Units /\ n.limited \in BOOLEAN /\ n.busy \in BOOLEAN
         /\ n.sent \in Nat
         /\ n.air \in Seq(Frame(D)) /\ n.requeued \in Seq(Packet(D))
         /\ n.now \in Seq([queue : D, bytes : Nat])
         /\ \A b \in Bands : n.bands[b] \in Seq(Packet(D))
         /\ \A q \in D : /\ n.dev[q].items \in Seq(Frame(D))
                        /\ n.dev[q].limits \in LimitRecord
                        /\ n.dev[q].byDevice \in BOOLEAN /\ n.dev[q].byLimits \in BOOLEAN
BY DEF Node, DeviceQueue

\* WouldOverflow in both units.
LEMMA OverflowIs ==
  ASSUME NEW D, NEW n \in Node(D), NEW q \in D, NEW j \in Nat, NEW k \in Nat
  PROVE  /\ Len(n.dev[q].items) \in Nat /\ Bytes(n.dev[q].items) \in Nat
         /\ DeviceSize[n.unit] \in Nat /\ DeviceSize[n.unit] > 0
         /\ n.unit = "packets" =>
              WouldOverflow(n, q, j, k) <=> (Len(n.dev[q].items) + j > DeviceSize[n.unit])
         /\ n.unit # "packets" =>
              WouldOverflow(n, q, j, k) <=> (Bytes(n.dev[q].items) + k > DeviceSize[n.unit])
<1>1. n.dev[q].items \in Seq(Frame(D)) /\ n.unit \in Units
  BY NodeParts
<1>2. Len(n.dev[q].items) \in Nat /\ Bytes(n.dev[q].items) \in Nat
  BY <1>1, LenProperties, BytesType
<1>3. DeviceSize[n.unit] \in Nat /\ DeviceSize[n.unit] > 0
  BY <1>1, Sizes
<1> QED BY <1>2, <1>3 DEF WouldOverflow

\* Fewer packets of fewer bytes need less room.
LEMMA OverflowLess ==
  ASSUME NEW D, NEW n \in Node(D), NEW m \in Node(D), NEW q \in D, m.unit = n.unit,
         Len(m.dev[q].items) =< Len(n.dev[q].items),
         Bytes(m.dev[q].items) =< Bytes(n.dev[q].items),
         NEW j \in Nat, NEW k \in Nat, ~WouldOverflow(n, q, j, k)
  PROVE  ~WouldOverflow(m, q, j, k)
<1> DEFINE size == DeviceSize[n.unit]
<1>1. /\ Len(n.dev[q].items) \in Nat /\ Bytes(n.dev[q].items) \in Nat
      /\ Len(m.dev[q].items) \in Nat /\ Bytes(m.dev[q].items) \in Nat
      /\ size \in Nat
  BY OverflowIs
<1>2. CASE n.unit = "packets"
  <2>1. WouldOverflow(n, q, j, k) <=> (Len(n.dev[q].items) + j > size)
    BY <1>2, OverflowIs
  <2>2. WouldOverflow(m, q, j, k) <=> (Len(m.dev[q].items) + j > size)
    BY <1>2, OverflowIs
  <2> DEFINE a == Len(n.dev[q].items)
             b == Len(m.dev[q].items)
  <2>3. a \in Nat /\ b \in Nat /\ size \in Nat /\ b =< a /\ ~(a + j > size)
    BY <1>1, <2>1
  <2> HIDE DEF size, a, b
  <2>4. ~(b + j > size)
    BY <2>3
  <2> QED BY <2>2, <2>4 DEF b
<1>3. CASE n.unit # "packets"
  <2>1. WouldOverflow(n, q, j, k) <=> (Bytes(n.dev[q].items) + k > size)
    BY <1>3, OverflowIs
  <2>2. WouldOverflow(m, q, j, k) <=> (Bytes(m.dev[q].items) + k > size)
    BY <1>3, OverflowIs
  <2> HIDE DEF size
  <2> QED BY <1>1, <2>1, <2>2
<1> QED BY <1>2, <1>3

\* What is left of a queue takes less room.
LEMMA TailShorter ==
  ASSUME NEW D, NEW q \in Seq(Frame(D)), q # <<>>
  PROVE  /\ Len(Tail(q)) =< Len(q) /\ Bytes(Tail(q)) =< Bytes(q)
         /\ Bytes(q) = q[1].size + Bytes(Tail(q))
         /\ Head(q) = q[1] /\ q[1] \in Frame(D) /\ q[1].size \in Nat
<1>1. Tail(q) \in Seq(Frame(D)) /\ Len(Tail(q)) = Len(q) - 1 /\ Len(q) \in Nat
  BY HeadTailProperties, LenProperties
<1>2. Bytes(q) = Head(q).size + Bytes(Tail(q)) /\ Bytes(Tail(q)) \in Nat
  BY <1>1, BytesTail, BytesType
<1>3. Head(q) = q[1] /\ Head(q) \in Frame(D) /\ Head(q).size \in Nat
  <2>1. Head(q) \in Frame(D)
    BY HeadTailProperties
  <2> QED BY <2>1, Sizes DEF Frame
<1> QED BY <1>1, <1>2, <1>3

\* The queue disc is in order when nothing of it changes.
LEMMA DiscSame ==
  ASSUME NEW n, NEW m, SameDisc(n, m), m.root = n.root, Disc(n)
  PROVE  Disc(m)
BY DEF SameDisc, Disc, NPackets

\* The transmitter starts: its bytes are no longer queued but still to be reported.
LEMMA StartLocal ==
  ASSUME NEW D, NEW n, Local(D, n), NEW q \in D, n.dev[q].items # <<>>, ~n.busy
  PROVE  Local(D, TransmitStart(n, q))
<1> DEFINE m == TransmitStart(n, q)
           p == Head(n.dev[q].items)
           e == [queue |-> q, bytes |-> p.size]
<1>1. n \in Node(D)
  BY DEF Local
<1>2. /\ m \in Node(D) /\ p \in Frame(D)
      /\ SameNode(n, m) /\ SameDisc(n, m) /\ OthersSame(D, n, m, q)
      /\ m.discarded = n.discarded /\ SameFlow(n.dev[q], m.dev[q])
      /\ m.dev[q].items = Tail(n.dev[q].items)
      /\ m.now = Append(n.now, e) /\ m.busy
  BY <1>1, StartFields
<1>3. n.dev[q].items \in Seq(Frame(D))
  BY <1>1, NodeParts
<1>4. n.now = <<>>
  BY DEF Local, Wire
<1>5. m.now = <<e>>
  BY <1>2, <1>4
<1> HIDE DEF m
<1>6. Home(D, m)
  <2>1. n.dev[q].items \in Seq(InDevice(D, q))
    BY DEF Local, Home
  <2>2. m.dev[q].items \in Seq(InDevice(D, q))
    BY <1>2, <2>1, HeadTailProperties
  <2> QED BY <1>2, <2>2 DEF Local, Home, SameDisc, OthersSame
<1>7. Disc(m)
  BY <1>2, DiscSame DEF Local, SameNode
<1>8. /\ m.unit = n.unit /\ n.unit = m.unit
      /\ \A k \in D : /\ Len(m.dev[k].items) =< Len(n.dev[k].items)
                     /\ Bytes(m.dev[k].items) =< Bytes(n.dev[k].items)
                     /\ m.dev[k].byDevice = n.dev[k].byDevice
  <2>1. ASSUME NEW k \in D
        PROVE  /\ Len(m.dev[k].items) =< Len(n.dev[k].items)
               /\ Bytes(m.dev[k].items) =< Bytes(n.dev[k].items)
               /\ m.dev[k].byDevice = n.dev[k].byDevice
    <3>1. CASE k = q
      BY <1>2, <1>3, <3>1, TailShorter DEF SameFlow
    <3>2. CASE k # q
      <4>1. m.dev[k] = n.dev[k]
        BY <1>2, <3>2 DEF OthersSame
      <4>2. Len(n.dev[k].items) \in Nat /\ Bytes(n.dev[k].items) \in Nat
        BY <1>1, NodeParts, LenProperties, BytesType
      <4> QED BY <4>1, <4>2
    <3> QED BY <3>1, <3>2
  <2> QED BY <1>2, <2>1 DEF SameNode
<1>9. Room(D, m)
  <2>1. \A k \in D : ~WouldOverflow(m, k, 0, 0)
    BY <1>1, <1>2, <1>8, OverflowLess DEF Local, Room
  <2>2. ASSUME n.unit = "packets", NEW k \in D
        PROVE  m.dev[k].byDevice \/ ~WouldOverflow(m, k, 1, Mtu)
    <3>1. n.dev[k].byDevice \/ ~WouldOverflow(n, k, 1, Mtu)
      BY <2>2 DEF Local, Room
    <3>2. Mtu \in Nat
      BY Sizes
    <3> QED BY <1>1, <1>2, <1>8, <3>1, <3>2, OverflowLess
  <2> QED BY <1>2, <1>8, <2>1, <2>2 DEF Local, Room
<1>10. Wire(m)
  BY <1>2, <1>5 DEF Wire
<1>11. Limits(D, m)
  <2>1. n.now \in Seq([queue : D, bytes : Nat]) /\ m.now \in Seq([queue : D, bytes : Nat])
    BY <1>1, <1>2, NodeParts
  <2>2. ASSUME NEW k \in D
        PROVE  Unreported(n, k) = 0 /\ Unreported(m, k) = IF k = q THEN p.size ELSE 0
    <3>1. Len(m.now) = 1 /\ m.now[1].queue = q /\ m.now[1].bytes = p.size
      BY <1>5
    <3>2. Unreported(m, k) = IF m.now[1].queue = k THEN m.now[1].bytes ELSE 0
      BY <2>1, <3>1, UnreportedIs
    <3>3. Unreported(n, k) = 0
      BY <1>4, <2>1, UnreportedIs
    <3> QED BY <3>1, <3>2, <3>3
  <2>3. SUFFICES ASSUME n.limited, NEW k \in D
                 PROVE  LET l == m.dev[k].limits
                        IN /\ l.queued - l.completed = Bytes(m.dev[k].items) + Unreported(m, k)
                           /\ m.dev[k].byLimits => Available(l) < 0
    BY <1>2 DEF Limits, SameNode
  <2>4. LET l == n.dev[k].limits
        IN /\ l.queued - l.completed = Bytes(n.dev[k].items) + Unreported(n, k)
           /\ n.dev[k].byLimits => Available(l) < 0
    BY <2>3 DEF Local, Limits
  <2>5. m.dev[k].limits = n.dev[k].limits /\ m.dev[k].byLimits = n.dev[k].byLimits
    BY <1>2 DEF SameFlow, OthersSame
  <2>6. Bytes(m.dev[k].items) + Unreported(m, k) = Bytes(n.dev[k].items) + Unreported(n, k)
    <3>1. CASE k = q
      <4>1. Bytes(n.dev[q].items) = p.size + Bytes(m.dev[q].items)
        BY <1>2, <1>3, TailShorter
      <4>2. Bytes(m.dev[q].items) \in Nat /\ p.size \in Nat
        BY <1>2, <1>3, TailShorter, BytesType, HeadTailProperties
      <4> HIDE DEF p
      <4> QED BY <2>2, <3>1, <4>1, <4>2
    <3>2. CASE k # q
      <4>1. m.dev[k].items = n.dev[k].items
        BY <1>2, <3>2 DEF OthersSame
      <4> QED BY <2>2, <3>2, <4>1
    <3> QED BY <3>1, <3>2
  <2> QED BY <2>4, <2>5, <2>6
<1> QED BY <1>2, <1>6, <1>7, <1>9, <1>10, <1>11 DEF Local, m

\* Packets of different device queues or bands are of different classes.
LEMMA ClassOfDevice ==
  ASSUME NEW D, NEW n, Local(D, n), NEW q \in D, NEW i \in 1..Len(n.dev[q].items)
  PROVE  n.dev[q].items[i].txq = q
<1>1. n.dev[q].items \in Seq(InDevice(D, q))
  BY DEF Local, Home
<1>2. n.dev[q].items[i] \in InDevice(D, q)
  BY <1>1, ElementOfSeq
<1> QED BY <1>2 DEF InDevice

\* What is in a band belongs to it.
LEMMA ClassOfBand ==
  ASSUME NEW D, NEW n, Local(D, n), NEW b \in Bands, NEW i \in 1..Len(n.bands[b])
  PROVE  prio2band(n.bands[b][i].priority) = b
<1>1. n.bands[b] \in Seq(InBand(D, b))
  BY DEF Local, Home
<1>2. n.bands[b][i] \in InBand(D, b)
  BY <1>1, ElementOfSeq
<1> QED BY <1>2 DEF InBand

\* The transmitter starts: the head of a device queue goes on the wire.
LEMMA StartGood ==
  ASSUME NEW D, D \subseteq Nat, NEW n, NEW g, NEW l, Good(D, n, g, l),
         NEW q \in D, n.dev[q].items # <<>>, ~n.busy
  PROVE  Good(D, TransmitStart(n, q), g, l)
<1> DEFINE m == TransmitStart(n, q)
           p == Head(n.dev[q].items)
           P == PlacesOf(D)
           L == Lines(D, n, g)
           N == Lines(D, m, g)
           x == <<2, q>>
           y == <<1, 0>>
<1>1. /\ Local(D, n) /\ Fated(n, l) /\ n \in Node(D) /\ g \in Seq(Frame(D))
      /\ Kept(L, Out(n, l), n.sent)
  BY DEF Good, Local
<1>2. /\ m \in Node(D) /\ SameNode(n, m) /\ SameDisc(n, m) /\ OthersSame(D, n, m, q)
      /\ m.discarded = n.discarded /\ m.dev[q].items = Tail(n.dev[q].items)
      /\ m.air = Append(n.air, p)
  BY <1>1, StartFields
<1>3. Local(D, m)
  BY <1>1, StartLocal
<1> HIDE DEF m
<1>4. L \in [P -> Seq(Frame(D))] /\ P \subseteq Nat \X Nat /\ DOMAIN N = P
  <2>1. L \in [P -> Seq(Frame(D))]
    BY <1>1, LinesType
  <2>2. P \subseteq Nat \X Nat
    BY PlacesType
  <2>3. DOMAIN N = P
    BY LineIs
  <2> QED BY <2>1, <2>2, <2>3
<1>5. /\ x \in P /\ y \in P /\ L[x] = n.dev[q].items /\ L[y] = n.air
      /\ N[x] = m.dev[q].items /\ N[y] = m.air
  BY PlaceIs, LineIs
<1>6. p = L[x][1]
  BY <1>1, <1>5, NodeParts, TailShorter
<1>7. Hands(L, x, y, N)
  <2> DEFINE Z == {x, y}
  <2>1. \A k \in D : <<2, k>> \in Z \/ m.dev[k].items = n.dev[k].items
    BY <1>2 DEF OthersSame
  <2>2. m.requeued = n.requeued /\ \A b \in Bands : m.bands[b] = n.bands[b]
    BY <1>2 DEF SameDisc
  <2>3. <<1, 0>> \in Z
    OBVIOUS
  <2>4. \A z \in P \ Z : N[z] = L[z]
    <3> HIDE DEF Z
    <3>1. AgreeBut(D, n, m, Z)
      BY <2>1, <2>2, <2>3 DEF AgreeBut
    <3> QED BY <3>1, LinesDiffer
  <2>5. N[x] = Tail(L[x]) /\ N[y] = Append(L[y], L[x][1]) /\ DOMAIN L = P
    BY <1>2, <1>4, <1>5, <1>6
  <2> HIDE DEF L, N, x, y, P
  <2> QED BY <1>4, <2>4, <2>5 DEF Hands, Z
<1>8. ASSUME NEW z \in P, z # x, NEW i \in 1..Len(L[z]), Same(L[z][i], L[x][1])
      PROVE  z[1] =< y[1] \/ x[1] < z[1]
  <2>1. ASSUME NEW k \in D, z = <<2, k>> PROVE FALSE
    <3>1. L[z] = n.dev[k].items /\ k # q
      BY <1>8, <2>1, LineIs
    <3>2. L[z][i].txq = k
      BY <1>1, <1>8, <3>1, ClassOfDevice
    <3>3. 1 \in 1..Len(n.dev[q].items)
      BY <1>1, NodeParts, EmptySeq
    <3>4. L[x][1].txq = q
      BY <1>1, <1>5, <3>3, ClassOfDevice
    <3> QED BY <1>8, <3>1, <3>2, <3>4 DEF Same
  <2>2. CASE z \in {<<0, 0>>, <<1, 0>>, <<3, 0>>}
    BY <2>2
  <2>3. ASSUME NEW b \in Bands, z = <<4, b>> PROVE x[1] < z[1]
    BY <2>3
  <2> QED BY <2>1, <2>2, <2>3, PlaceIs
<1>9. n.sent \in Nat /\ y[1] < x[1] /\ L[x] # <<>>
  <2>1. n.sent \in Nat
    BY <1>1, NodeParts
  <2> QED BY <1>5, <2>1
<1>10. Clear(L, x, y)
  <2> HIDE DEF L, x, y, P
  <2> QED BY <1>4, <1>8 DEF Clear
<1> HIDE DEF L, N, x, y, P, p
<1>11. Kept(N, Out(n, l), n.sent)
  BY <1>1, <1>4, <1>5, <1>7, <1>9, <1>10, Moved
<1>12. Out(m, l) = Out(n, l) /\ m.sent = n.sent /\ Fated(m, l)
  BY <1>1, <1>2, OutSame
<1> QED BY <1>1, <1>3, <1>11, <1>12 DEF Good, m, N

-----------------------------------------------------------------------------
(* DeviceSend.                                                             *)

\* A packet for which there is room joins the device queue, which is stopped when there
\* is no room for one more.
LEMMA EnqueuedLocal ==
  ASSUME NEW D, NEW n, Local(D, n), NEW q \in D, NEW p \in Frame(D), p.txq = q,
         ~WouldOverflow(n, q, 1, p.size)
  PROVE  Local(D, PacketEnqueued([n EXCEPT !.dev[q].items = Append(@, p)], q, p))
<1> DEFINE m == PacketEnqueued([n EXCEPT !.dev[q].items = Append(@, p)], q, p)
           d == n.dev[q]
           l == IF n.limited THEN Queued(d.limits, p.size) ELSE d.limits
<1>1. n \in Node(D) /\ p.size \in Nat
  BY Sizes DEF Local, Frame
<1>2. /\ m \in Node(D)
      /\ SameNode(n, m) /\ SameDisc(n, m) /\ SameWire(n, m) /\ OthersSame(D, n, m, q)
      /\ m.discarded = n.discarded
      /\ m.dev[q].items = Append(d.items, p) /\ m.dev[q].limits = l
      /\ (m.dev[q].byLimits <=> d.byLimits \/ (n.limited /\ Available(l) < 0))
      /\ (m.dev[q].byDevice <=> d.byDevice \/ WouldOverflow(m, q, 1, Mtu))
  <2>1. EnqueuedIs(D, n, q, p, m)
    BY <1>1, EnqueuedFields
  <2> HIDE DEF m
  <2> QED BY <2>1 DEF EnqueuedIs
<1> HIDE DEF m
<1>3. d.items \in Seq(Frame(D)) /\ d.limits \in LimitRecord
  BY <1>1, NodeParts
<1>4. /\ Len(Append(d.items, p)) = Len(d.items) + 1
      /\ Bytes(Append(d.items, p)) = Bytes(d.items) + p.size
  BY <1>3, AppendProperties, BytesAppend
<1>5. m.unit = n.unit /\ m.limited = n.limited
  BY <1>2 DEF SameNode
<1>6. Home(D, m)
  <2>1. d.items \in Seq(InDevice(D, q)) /\ p \in InDevice(D, q)
    BY DEF Local, Home, InDevice
  <2>2. m.dev[q].items \in Seq(InDevice(D, q))
    BY <1>2, <2>1, AppendProperties
  <2> QED BY <1>2, <2>2 DEF Local, Home, SameDisc, OthersSame
<1>7. Disc(m)
  BY <1>2, DiscSame DEF Local, SameNode
<1>8. Wire(m)
  BY <1>2 DEF Local, Wire, SameWire
<1>9. Room(D, m)
  <2>1. ASSUME NEW k \in D PROVE ~WouldOverflow(m, k, 0, 0)
    <3>1. CASE k # q
      <4>1. m.dev[k] = n.dev[k]
        BY <1>2, <3>1 DEF OthersSame
      <4>2. WouldOverflow(m, k, 0, 0) = WouldOverflow(n, k, 0, 0)
        BY <1>5, <4>1, OverflowSame
      <4> QED BY <2>1, <4>2 DEF Local, Room
    <3>2. CASE k = q
      <4> DEFINE size == DeviceSize[n.unit]
                 a == Len(d.items)
                 b == Bytes(d.items)
      <4>1. a \in Nat /\ b \in Nat /\ size \in Nat
        BY <1>1, OverflowIs
      <4>2. CASE n.unit = "packets"
        <5>1. ~(a + 1 > size)
          BY <1>1, <4>2, OverflowIs
        <5>2. WouldOverflow(m, q, 0, 0) <=> (Len(m.dev[q].items) + 0 > size)
          BY <1>2, <1>5, <4>2, OverflowIs
        <5>3. Len(m.dev[q].items) = a + 1
          BY <1>2, <1>4
        <5> HIDE DEF a, size
        <5> QED BY <3>2, <4>1, <5>1, <5>2, <5>3
      <4>3. CASE n.unit # "packets"
        <5>1. ~(b + p.size > size)
          BY <1>1, <4>3, OverflowIs
        <5>2. WouldOverflow(m, q, 0, 0) <=> (Bytes(m.dev[q].items) + 0 > size)
          BY <1>2, <1>5, <4>3, OverflowIs
        <5>3. Bytes(m.dev[q].items) = b + p.size
          BY <1>2, <1>4
        <5> HIDE DEF b, size
        <5> QED BY <1>1, <3>2, <4>1, <5>1, <5>2, <5>3
      <4> QED BY <4>2, <4>3
    <3> QED BY <3>1, <3>2
  <2>2. ASSUME n.unit = "packets", NEW k \in D
        PROVE  m.dev[k].byDevice \/ ~WouldOverflow(m, k, 1, Mtu)
    <3>1. CASE k # q
      <4>1. m.dev[k] = n.dev[k]
        BY <1>2, <3>1 DEF OthersSame
      <4>2. WouldOverflow(m, k, 1, Mtu) = WouldOverflow(n, k, 1, Mtu)
        BY <1>5, <4>1, OverflowSame
      <4>3. n.dev[k].byDevice \/ ~WouldOverflow(n, k, 1, Mtu)
        BY <2>2 DEF Local, Room
      <4> QED BY <4>1, <4>2, <4>3
    <3>2. CASE k = q
      BY <1>2, <3>2
    <3> QED BY <3>1, <3>2
  <2> QED BY <1>2, <1>5, <2>1, <2>2 DEF Local, Room
<1>10. Limits(D, m)
  <2>1. SUFFICES ASSUME n.limited, NEW k \in D
                 PROVE  LET r == m.dev[k].limits
                        IN /\ r.queued - r.completed = Bytes(m.dev[k].items) + Unreported(m, k)
                           /\ m.dev[k].byLimits => Available(r) < 0
    BY <1>5 DEF Limits
  <2>2. LET r == n.dev[k].limits
        IN /\ r.queued - r.completed = Bytes(n.dev[k].items) + Unreported(n, k)
           /\ n.dev[k].byLimits => Available(r) < 0
    BY <2>1 DEF Local, Limits
  <2>3. Unreported(m, k) = Unreported(n, k)
    BY <1>2 DEF SameWire, Unreported
  <2>4. CASE k # q
    BY <1>2, <2>2, <2>3, <2>4 DEF OthersSame
  <2>5. CASE k = q
    <3>1. /\ l.queued = d.limits.queued + p.size /\ l.completed = d.limits.completed
          /\ l.adjLimit = d.limits.adjLimit
      <4>1. l = Queued(d.limits, p.size) /\ p.size \in Int
        BY <1>1, <2>1
      <4> HIDE DEF l
      <4> QED BY <1>3, <4>1, QueuedType
    <3>2. /\ d.limits.queued \in Int /\ d.limits.completed \in Int /\ d.limits.adjLimit \in Int
      BY <1>3 DEF LimitRecord
    <3>3. Unreported(n, q) \in Nat /\ Bytes(d.items) \in Nat
      BY <1>1, <1>3, NodeParts, UnreportedIs, BytesType
    <3>4. l.queued - l.completed = Bytes(m.dev[q].items) + Unreported(m, q)
      <4>1. Bytes(m.dev[q].items) = Bytes(d.items) + p.size
        BY <1>2, <1>4
      <4>2. d.limits.queued - d.limits.completed = Bytes(d.items) + Unreported(n, q)
        BY <2>2, <2>5
      <4>3. Unreported(m, q) = Unreported(n, q)
        BY <2>3, <2>5
      <4> HIDE DEF l, d
      <4> QED BY <1>1, <3>1, <3>2, <3>3, <4>1, <4>2, <4>3
    <3>5. d.byLimits => Available(l) < 0
      <4>1. d.byLimits => d.limits.adjLimit - d.limits.queued < 0
        BY <2>2, <2>5 DEF Available
      <4> HIDE DEF l, d
      <4>2. Available(l) = d.limits.adjLimit - (d.limits.queued + p.size)
        BY <3>1 DEF Available
      <4> QED BY <1>1, <3>2, <4>1, <4>2
    <3> HIDE DEF l
    <3> QED BY <1>2, <2>1, <2>5, <3>4, <3>5
  <2> QED BY <2>4, <2>5
<1> QED BY <1>2, <1>6, <1>7, <1>8, <1>9, <1>10 DEF Local, m

\* A packet in hand is put into its device queue.
LEMMA EnqueuedGood ==
  ASSUME NEW D, D \subseteq Nat, NEW n, Local(D, n), NEW g \in Seq(Frame(D)), NEW l,
         Fated(n, l), NEW q \in D, NEW p, NEW r \in Frame(D), r.txq = q, r.id = p.id, Same(r, p),
         ~WouldOverflow(n, q, 1, r.size),
         InHand(Lines(D, n, g), p, <<2, q>>, Out(n, l), n.sent)
  PROVE  Good(D, PacketEnqueued([n EXCEPT !.dev[q].items = Append(@, r)], q, r), g, l)
<1> DEFINE m == PacketEnqueued([n EXCEPT !.dev[q].items = Append(@, r)], q, r)
           P == PlacesOf(D)
           L == Lines(D, n, g)
           N == Lines(D, m, g)
           y == <<2, q>>
<1>1. n \in Node(D)
  BY DEF Local
<1>2. Local(D, m)
  BY EnqueuedLocal
<1>3. EnqueuedIs(D, n, q, r, m)
  BY <1>1, EnqueuedFields
<1> HIDE DEF m
<1>4. /\ SameNode(n, m) /\ SameDisc(n, m) /\ SameWire(n, m) /\ OthersSame(D, n, m, q)
      /\ m.discarded = n.discarded /\ m.dev[q].items = Append(n.dev[q].items, r)
  BY <1>3 DEF EnqueuedIs
<1>5. L \in [P -> Seq(Frame(D))]
  BY <1>1, LinesType
<1>6. P \subseteq Nat \X Nat
  BY PlacesType
<1>7. y \in P /\ DOMAIN N = P /\ DOMAIN L = P /\ L[y] = n.dev[q].items /\ N[y] = m.dev[q].items
  BY PlaceIs, LineIs
<1>8. Gains(L, y, r, N)
  <2> DEFINE Z == {y}
  <2>1. \A k \in D : <<2, k>> \in Z \/ m.dev[k].items = n.dev[k].items
    BY <1>4 DEF OthersSame
  <2>2. /\ m.requeued = n.requeued /\ m.air = n.air
        /\ \A b \in Bands : m.bands[b] = n.bands[b]
    BY <1>4 DEF SameDisc, SameWire
  <2>3. \A z \in P \ Z : N[z] = L[z]
    <3> HIDE DEF Z
    <3>1. AgreeBut(D, n, m, Z)
      BY <2>1, <2>2 DEF AgreeBut
    <3> QED BY <3>1, LinesDiffer
  <2> HIDE DEF L, N, P, y
  <2> QED BY <1>4, <1>7, <2>3 DEF Gains, Z
<1> HIDE DEF L, N, P, y
<1>9. InHand(L, p, y, Out(n, l), n.sent)
  BY DEF L, y
<1>10. Kept(N, Out(n, l), n.sent)
  BY <1>5, <1>6, <1>7, <1>8, <1>9, HandedOn
<1>11. Out(m, l) = Out(n, l) /\ m.sent = n.sent /\ Fated(m, l)
  BY <1>4, OutSame
<1> QED BY <1>2, <1>10, <1>11 DEF Good, m, N

\* m is n with packet v discarded.
DiscardedIs(D, n, v, m) ==
  /\ m \in Node(D)
  /\ SameNode(n, m) /\ SameDisc(n, m) /\ SameWire(n, m)
  /\ m.discarded = n.discarded \cup {v}
  /\ \A k \in D : /\ m.dev[k].items = n.dev[k].items
                  /\ m.dev[k].limits = n.dev[k].limits
                  /\ m.dev[k].byLimits = n.dev[k].byLimits

\* The discarded packet, field by field.
LEMMA DiscardedFields ==
  ASSUME NEW D, NEW n \in Node(D), NEW q \in D, NEW v \in Nat
  PROVE  DiscardedIs(D, n, v, [n EXCEPT !.dev[q].byDevice = TRUE, !.discarded = @ \cup {v}])
<1>1. n.dev \in [D -> DeviceQueue(D)] /\ n.discarded \in SUBSET Nat
  BY DEF Node
<1> DEFINE e == [n.dev[q] EXCEPT !.byDevice = TRUE]
           m == [n EXCEPT !.dev[q].byDevice = TRUE, !.discarded = @ \cup {v}]
<1>2. /\ e \in DeviceQueue(D) /\ e.items = n.dev[q].items
      /\ e.limits = n.dev[q].limits /\ e.byLimits = n.dev[q].byLimits
  BY <1>1 DEF DeviceQueue
<1>3. m = [n EXCEPT !.dev = [n.dev EXCEPT ![q] = e], !.discarded = n.discarded \cup {v}]
  BY <1>1 DEF Node
<1> HIDE DEF e, m
<1>4. [n.dev EXCEPT ![q] = e] \in [D -> DeviceQueue(D)]
  BY <1>1, <1>2
<1>5. /\ m.dev = [n.dev EXCEPT ![q] = e] /\ m.discarded = n.discarded \cup {v}
      /\ SameNode(n, m) /\ SameDisc(n, m) /\ SameWire(n, m)
  BY <1>3 DEF Node, SameNode, SameDisc, SameWire
<1>6. m \in Node(D)
  BY <1>1, <1>3, <1>4 DEF Node
<1> QED BY <1>1, <1>2, <1>5, <1>6 DEF m, DiscardedIs

\* A packet in hand is discarded. There is no room only in byte mode.
LEMMA DiscardedGood ==
  ASSUME NEW D, D \subseteq Nat, NEW n, Local(D, n), NEW g \in Seq(Frame(D)), NEW l,
         NEW q \in D, NEW p, p.id \in Nat, Fated(n, l), p.id \notin Out(n, l), n.unit # "packets",
         Kept(Lines(D, n, g), Out(n, l) \cup {p.id}, n.sent)
  PROVE  Good(D, [n EXCEPT !.dev[q].byDevice = TRUE, !.discarded = @ \cup {p.id}], g, l)
<1> DEFINE m == [n EXCEPT !.dev[q].byDevice = TRUE, !.discarded = @ \cup {p.id}]
<1>1. n \in Node(D)
  BY DEF Local
<1>2. /\ m \in Node(D)
      /\ SameNode(n, m) /\ SameDisc(n, m) /\ SameWire(n, m)
      /\ m.discarded = n.discarded \cup {p.id}
      /\ \A k \in D : /\ m.dev[k].items = n.dev[k].items
                      /\ m.dev[k].limits = n.dev[k].limits
                      /\ m.dev[k].byLimits = n.dev[k].byLimits
  <2>1. DiscardedIs(D, n, p.id, m)
    BY <1>1, DiscardedFields
  <2> HIDE DEF m
  <2> QED BY <2>1 DEF DiscardedIs
<1> HIDE DEF m
<1>3. m.unit = n.unit /\ m.limited = n.limited
  BY <1>2 DEF SameNode
<1>4. Home(D, m) /\ Disc(m) /\ Wire(m)
  BY <1>2, DiscSame DEF Local, Home, Wire, SameDisc, SameWire, SameNode
<1>5. Room(D, m)
  BY <1>2, <1>3, OverflowSame DEF Local, Room
<1>6. Limits(D, m)
  <2>1. \A k \in D : Unreported(m, k) = Unreported(n, k)
    BY <1>2 DEF SameWire, Unreported
  <2> QED BY <1>2, <1>3, <2>1 DEF Local, Limits
<1>7. Lines(D, m, g) = Lines(D, n, g)
  <2> DEFINE Z == {}
  <2>1. \A z \in PlacesOf(D) \ Z : Lines(D, m, g)[z] = Lines(D, n, g)[z]
    <3> HIDE DEF Z
    <3>1. AgreeBut(D, n, m, Z)
      BY <1>2 DEF SameDisc, SameWire, AgreeBut
    <3> QED BY <3>1, LinesDiffer
  <2> QED BY <2>1 DEF Lines
<1>8. Out(m, l) = Out(n, l) \cup {p.id} /\ m.sent = n.sent /\ Fated(m, l)
  BY <1>2 DEF Out, SameNode, Fated
<1> QED BY <1>2, <1>4, <1>5, <1>6, <1>7, <1>8 DEF Good, Local, m

\* DeviceSend of a packet in hand whose queue is not stopped.
LEMMA SendGood ==
  ASSUME NEW D, D \subseteq Nat, NEW n, Local(D, n), NEW g \in Seq(Frame(D)), NEW l,
         Fated(n, l), NEW q \in D, NEW p \in Packet(D), p.txq = q, ~IsStopped(n, q),
         InHand(Lines(D, n, g), p, <<2, q>>, Out(n, l), n.sent)
  PROVE  Good(D, DeviceSend(n, q, p), g, l)
<1> DEFINE r == [p EXCEPT !.size = @ + PppHeader]
           m == PacketEnqueued([n EXCEPT !.dev[q].items = Append(@, r)], q, r)
<1>1. n \in Node(D) /\ p.id \in Nat /\ p.size \in Nat
  BY Sizes DEF Local, Packet
<1>2. r \in Frame(D) /\ r.txq = q /\ r.id = p.id /\ Same(r, p) /\ r.size = p.size + PppHeader
  <2>1. /\ p.id \in Nat /\ p.priority \in 0..15 /\ p.size \in 1..Mtu /\ p.txq \in D
        /\ p = [id |-> p.id, priority |-> p.priority, size |-> p.size, txq |-> p.txq]
    BY DEF Packet
  <2>2. r = [id |-> p.id, priority |-> p.priority, size |-> p.size + PppHeader, txq |-> p.txq]
    BY <2>1
  <2>3. p.size + PppHeader \in 1..(Mtu + PppHeader)
    BY <2>1, Sizes
  <2> HIDE DEF r
  <2> QED BY <2>1, <2>2, <2>3 DEF Frame, Same
<1>3. DeviceSend(n, q, p) =
        IF WouldOverflow(n, q, 1, r.size)
        THEN [n EXCEPT !.dev[q].byDevice = TRUE, !.discarded = @ \cup {p.id}]
        ELSE IF n.busy THEN m ELSE TransmitStart(m, q)
  BY DEF DeviceSend
<1> HIDE DEF r
<1>4. CASE WouldOverflow(n, q, 1, r.size)
  <2>1. n.unit # "packets"
    <3>1. ~n.dev[q].byDevice
      BY DEF IsStopped
    <3>2. n.unit = "packets" => ~WouldOverflow(n, q, 1, Mtu)
      BY <3>1 DEF Local, Room
    <3>3. n.unit = "packets" => ~WouldOverflow(n, q, 1, r.size)
      BY <3>2 DEF WouldOverflow
    <3> QED BY <1>4, <3>3
  <2>2. Kept(Lines(D, n, g), Out(n, l) \cup {p.id}, n.sent) /\ p.id \notin Out(n, l)
    BY DEF InHand
  <2>3. Good(D, [n EXCEPT !.dev[q].byDevice = TRUE, !.discarded = @ \cup {p.id}], g, l)
    BY <1>1, <2>1, <2>2, DiscardedGood
  <2> QED BY <1>3, <1>4, <2>3, Zenon
<1>5. CASE ~WouldOverflow(n, q, 1, r.size)
  <2>1. Good(D, m, g, l)
    BY <1>2, <1>5, EnqueuedGood
  <2>2. EnqueuedIs(D, n, q, r, m)
    BY <1>1, <1>2, EnqueuedFields
  <2> HIDE DEF m
  <2>3. m.busy = n.busy /\ m.dev[q].items = Append(n.dev[q].items, r)
    BY <2>2 DEF EnqueuedIs, SameWire
  <2>4. m.dev[q].items # <<>>
    <3>1. n.dev[q].items \in Seq(Frame(D))
      BY <1>1, NodeParts
    <3>2. Len(m.dev[q].items) = Len(n.dev[q].items) + 1 /\ Len(n.dev[q].items) \in Nat
      BY <1>2, <2>3, <3>1, AppendProperties, LenProperties
    <3>3. Len(m.dev[q].items) # Len(<<>>)
      BY <3>2
    <3> QED BY <3>3
  <2>5. CASE n.busy
    BY <1>3, <1>5, <2>1, <2>5
  <2>6. CASE ~n.busy
    <3>1. Good(D, TransmitStart(m, q), g, l)
      BY <2>1, <2>3, <2>4, <2>6, StartGood
    <3> QED BY <1>3, <1>5, <2>6, <3>1
  <2> QED BY <2>5, <2>6
<1> QED BY <1>4, <1>5

-----------------------------------------------------------------------------
(* The queue disc.                                                         *)

\* A step of the queue disc leaves the device alone.
DiscStep(n, m) ==
  SameNode(n, m) /\ SameWire(n, m) /\ m.dev = n.dev /\ m.discarded = n.discarded

\* A step of the queue disc that leaves it in order.
LEMMA DiscLocal ==
  ASSUME NEW D, NEW n, Local(D, n), NEW m \in Node(D), DiscStep(n, m), Disc(m),
         \A b \in Bands : m.bands[b] \in Seq(InBand(D, b))
  PROVE  Local(D, m)
<1>1. /\ m.unit = n.unit /\ m.limited = n.limited /\ m.dev = n.dev /\ m.now = n.now
      /\ m.busy = n.busy /\ m.discarded = n.discarded
  BY DEF DiscStep, SameNode, SameWire
<1>2. Home(D, m) /\ Wire(m)
  BY <1>1 DEF Local, Home, Wire
<1>3. Room(D, m)
  <2>1. ASSUME NEW q \in D
        PROVE  /\ WouldOverflow(m, q, 0, 0) = WouldOverflow(n, q, 0, 0)
               /\ WouldOverflow(m, q, 1, Mtu) = WouldOverflow(n, q, 1, Mtu)
    <3>1. m.unit = n.unit /\ m.dev[q].items = n.dev[q].items
      BY <1>1
    <3>2. WouldOverflow(m, q, 0, 0) = WouldOverflow(n, q, 0, 0)
      BY <3>1, OverflowSame
    <3>3. WouldOverflow(m, q, 1, Mtu) = WouldOverflow(n, q, 1, Mtu)
      BY <3>1, OverflowSame
    <3> QED BY <3>2, <3>3
  <2> QED BY <1>1, <2>1 DEF Local, Room
<1>4. Limits(D, m)
  <2>1. \A k \in D : Unreported(m, k) = Unreported(n, k)
    BY <1>1 DEF Unreported
  <2> QED BY <1>1, <2>1 DEF Local, Limits
<1> QED BY <1>2, <1>3, <1>4 DEF Local

\* Three parts that do not grow.
LEMMA SumOfThree ==
  ASSUME NEW a \in Nat, NEW b \in Nat, NEW c \in Nat,
         NEW d \in Nat, NEW e \in Nat, NEW f \in Nat, d =< a, e =< b, f =< c
  PROVE  d + e + f =< a + b + c
OBVIOUS

\* The number of packets of the queue disc.
LEMMA PacketsOf ==
  ASSUME NEW D, NEW n \in Node(D)
  PROVE  /\ \A b \in Bands : Len(n.bands[b]) \in Nat
         /\ NPackets(n) \in Nat
<1>1. \A b \in Bands : Len(n.bands[b]) \in Nat
  BY NodeParts, LenProperties
<1> DEFINE a == Len(n.bands[0])
           b == Len(n.bands[1])
           c == Len(n.bands[2])
<1>2. a \in Nat /\ b \in Nat /\ c \in Nat
  BY <1>1 DEF Bands
<1>3. a + b + c \in Nat
  <2> HIDE DEF a, b, c
  <2> QED BY <1>2
<1> QED BY <1>1, <1>3 DEF NPackets

\* pfifo_fast serves a band that has a packet.
LEMMA NextBandIs ==
  ASSUME NEW D, NEW n \in Node(D), NPackets(n) > 0
  PROVE  NextBand(n) \in Bands /\ n.bands[NextBand(n)] # <<>>
<1>1. \E b \in Bands : n.bands[b] # <<>>
  <2>1. SUFFICES ASSUME \A b \in Bands : n.bands[b] = <<>> PROVE FALSE
    OBVIOUS
  <2>2. Len(n.bands[0]) = 0 /\ Len(n.bands[1]) = 0 /\ Len(n.bands[2]) = 0
    BY <2>1 DEF Bands
  <2>3. NPackets(n) = 0
    BY <2>2 DEF NPackets
  <2> QED BY <2>3
<1>2. \E b \in Bands : n.bands[b] # <<>> /\ \A c \in 0..(b - 1) : n.bands[c] = <<>>
  <2>1. CASE n.bands[0] # <<>>
    <3>1. 0 \in Bands /\ 0..(0 - 1) = {}
      BY DEF Bands
    <3> QED BY <2>1, <3>1
  <2>2. CASE n.bands[0] = <<>> /\ n.bands[1] # <<>>
    <3>1. 1 \in Bands /\ 0..(1 - 1) = {0}
      BY DEF Bands
    <3> QED BY <2>2, <3>1
  <2>3. CASE n.bands[0] = <<>> /\ n.bands[1] = <<>> /\ n.bands[2] # <<>>
    <3>1. 2 \in Bands /\ 0..(2 - 1) = {0, 1}
      BY DEF Bands
    <3> QED BY <2>3, <3>1
  <2>4. n.bands[0] # <<>> \/ n.bands[1] # <<>> \/ n.bands[2] # <<>>
    BY <1>1 DEF Bands
  <2> QED BY <2>1, <2>2, <2>3, <2>4
<1> QED BY <1>2 DEF NextBand

-----------------------------------------------------------------------------
(* The requeued packet is taken.                                           *)

\* The node without its requeued packet.
RequeuedTaken(n) == [n EXCEPT !.requeued = <<>>]

\* The requeued packet may join its device queue, or be requeued again.
LEMMA RequeuedTakenIs ==
  ASSUME NEW D, D \subseteq Nat, NEW n, NEW g, NEW l, Good(D, n, g, l), n.requeued # <<>>
  PROVE  LET p == n.requeued[1]
             m == RequeuedTaken(n)
         IN /\ p \in Packet(D) /\ Local(D, m) /\ Fated(m, l) /\ m.dev = n.dev
            /\ InHand(Lines(D, m, g), p, <<2, p.txq>>, Out(m, l), m.sent)
<1> DEFINE p == n.requeued[1]
           m == RequeuedTaken(n)
           L == Lines(D, n, g)
           M == Lines(D, m, g)
           P == PlacesOf(D)
           x == <<3, 0>>
           y == <<2, p.txq>>
<1>1. /\ Local(D, n) /\ Fated(n, l) /\ n \in Node(D) /\ g \in Seq(Frame(D))
      /\ Kept(L, Out(n, l), n.sent)
  BY DEF Good, Local
<1>2. n.requeued \in Seq(Packet(D)) /\ Len(n.requeued) = 1
  <2>1. n.requeued \in Seq(Packet(D)) /\ Len(n.requeued) =< 1
    BY <1>1, NodeParts DEF Local, Disc
  <2> DEFINE k == Len(n.requeued)
  <2>2. k \in Nat \ {0} /\ k =< 1
    BY <2>1, EmptySeq
  <2>3. k = 1
    <3> HIDE DEF k
    <3> QED BY <2>2
  <2> QED BY <2>1, <2>3
<1>3. p \in Packet(D) /\ p.txq \in D
  <2>1. 1 \in 1..Len(n.requeued)
    BY <1>2
  <2>2. p \in Packet(D)
    BY <1>2, <2>1, ElementOfSeq
  <2> QED BY <2>2 DEF Packet
<1>4. <<>> = Tail(n.requeued)
  <2>1. Tail(n.requeued) \in Seq(Packet(D)) /\ Len(Tail(n.requeued)) = 0
    BY <1>2, HeadTailProperties
  <2> QED BY <2>1, EmptySeq
<1>5. /\ m \in Node(D) /\ DiscStep(n, m) /\ m.bands = n.bands /\ m.requeued = <<>>
  <2>1. <<>> \in Seq(Packet(D))
    BY EmptySeq
  <2> QED BY <1>1, <2>1 DEF Node, RequeuedTaken, DiscStep, SameNode, SameWire
<1> HIDE DEF m, p
<1>6. Local(D, m)
  <2>1. Disc(m)
    <3>1. Len(m.requeued) =< 1
      BY <1>5
    <3>2. NPackets(m) = NPackets(n) /\ m.root = n.root
      BY <1>5 DEF NPackets, DiscStep, SameNode
    <3> QED BY <1>1, <1>5, <3>1, <3>2 DEF Local, Disc
  <2> QED BY <1>1, <1>5, <2>1, DiscLocal DEF Local, Home
<1>7. L \in [P -> Seq(Frame(D))]
  BY <1>1, LinesType
<1>8. P \subseteq Nat \X Nat
  BY PlacesType
<1>9. /\ x \in P /\ y \in P /\ L[x] = n.requeued /\ M[x] = m.requeued
      /\ DOMAIN L = P /\ DOMAIN M = P
  BY <1>3, PlaceIs, LineIs
<1>10. Loses(L, x, M)
  <2> DEFINE Z == {x}
  <2>1. \A z \in P \ Z : M[z] = L[z]
    <3>1. <<3, 0>> \in Z
      OBVIOUS
    <3> HIDE DEF Z
    <3>2. AgreeBut(D, n, m, Z)
      BY <1>5, <3>1 DEF AgreeBut, DiscStep, SameWire
    <3> QED BY <3>2, LinesDiffer
  <2> HIDE DEF L, M, P, x
  <2> QED BY <1>4, <1>5, <1>9, <2>1 DEF Loses, Z
<1>11. Clear(L, x, y)
  <2>1. ASSUME NEW z \in P, NEW i \in 1..Len(L[z]), z # x PROVE z[1] =< y[1] \/ x[1] < z[1]
    <3>1. CASE z \in {<<0, 0>>, <<1, 0>>}
      BY <3>1
    <3>2. ASSUME NEW k \in D, z = <<2, k>> PROVE z[1] =< y[1]
      BY <3>2
    <3>3. ASSUME NEW b \in Bands, z = <<4, b>> PROVE x[1] < z[1]
      BY <3>3
    <3> QED BY <2>1, <3>1, <3>2, <3>3, PlaceIs
  <2> HIDE DEF L, P, x, y
  <2> QED BY <1>9, <2>1 DEF Clear
<1>12. y[1] < x[1]
  OBVIOUS
<1>13. n.sent \in Nat /\ L[x] # <<>> /\ L[x][1] = p
  BY <1>1, <1>9, NodeParts DEF p
<1>14. InHand(M, p, y, Out(n, l), n.sent)
  <2> HIDE DEF L, M, P, x, y
  <2>1. InHand(M, L[x][1], y, Out(n, l), n.sent)
    BY <1>1, <1>7, <1>8, <1>9, <1>10, <1>11, <1>12, <1>13, TakenInHand
  <2> QED BY <1>13, <2>1
<1>15. Out(m, l) = Out(n, l) /\ m.sent = n.sent /\ Fated(m, l)
  BY <1>1, <1>5, OutSame DEF DiscStep
<1> QED BY <1>3, <1>5, <1>6, <1>14, <1>15 DEF DiscStep, p, m

-----------------------------------------------------------------------------
(* The head of a band is taken.                                            *)

\* The node without the head of band b.
BandTaken(n, b) == [n EXCEPT !.bands[b] = Tail(@)]

\* BandTaken, field by field.
LEMMA BandTakenFields ==
  ASSUME NEW D, NEW n, Local(D, n), NEW b \in Bands, n.bands[b] # <<>>
  PROVE  LET m == BandTaken(n, b)
         IN /\ m \in Node(D) /\ DiscStep(n, m) /\ m.requeued = n.requeued
            /\ m.bands[b] = Tail(n.bands[b]) /\ \A c \in Bands \ {b} : m.bands[c] = n.bands[c]
            /\ NPackets(m) =< NPackets(n) /\ n.root
<1> DEFINE m == BandTaken(n, b)
           t == Tail(n.bands[b])
<1>1. n \in Node(D) /\ n.bands \in [Bands -> Seq(Packet(D))]
  BY DEF Local, Node
<1>2. t \in Seq(Packet(D)) /\ Len(t) = Len(n.bands[b]) - 1 /\ Len(n.bands[b]) \in Nat
  BY <1>1, HeadTailProperties, LenProperties
<1>3. m = [n EXCEPT !.bands = [n.bands EXCEPT ![b] = t]]
  BY <1>1 DEF BandTaken, Node
<1> HIDE DEF m, t
<1>4. [n.bands EXCEPT ![b] = t] \in [Bands -> Seq(Packet(D))]
  BY <1>1, <1>2
<1>5. /\ m.bands = [n.bands EXCEPT ![b] = t] /\ m.requeued = n.requeued
      /\ DiscStep(n, m) /\ m \in Node(D)
  BY <1>1, <1>3, <1>4 DEF Node, DiscStep, SameNode, SameWire
<1>6. m.bands[b] = t /\ \A c \in Bands \ {b} : m.bands[c] = n.bands[c]
  BY <1>1, <1>5
<1>7. \A c \in Bands : Len(m.bands[c]) =< Len(n.bands[c]) /\ Len(m.bands[c]) \in Nat
  <2>1. ASSUME NEW c \in Bands
        PROVE  Len(m.bands[c]) =< Len(n.bands[c]) /\ Len(m.bands[c]) \in Nat
    <3>1. Len(m.bands[c]) \in Nat /\ Len(n.bands[c]) \in Nat
      BY <1>1, <1>5, PacketsOf
    <3>2. CASE c = b
      <4>1. m.bands[c] = t
        BY <1>6, <3>2
      <4> QED BY <1>2, <3>1, <3>2, <4>1
    <3>3. CASE c # b
      <4>1. m.bands[c] = n.bands[c]
        BY <1>6, <3>3
      <4> QED BY <3>1, <4>1
    <3> QED BY <3>2, <3>3
  <2> QED BY <2>1
<1>8. NPackets(m) =< NPackets(n)
  <2>1. \A c \in Bands : Len(n.bands[c]) \in Nat
    BY <1>1, PacketsOf
  <2>2. /\ Len(m.bands[0]) =< Len(n.bands[0]) /\ Len(m.bands[1]) =< Len(n.bands[1])
        /\ Len(m.bands[2]) =< Len(n.bands[2])
        /\ Len(n.bands[0]) \in Nat /\ Len(n.bands[1]) \in Nat /\ Len(n.bands[2]) \in Nat
        /\ Len(m.bands[0]) \in Nat /\ Len(m.bands[1]) \in Nat /\ Len(m.bands[2]) \in Nat
    BY <1>7, <2>1 DEF Bands
  <2>3. Len(m.bands[0]) + Len(m.bands[1]) + Len(m.bands[2]) =<
          Len(n.bands[0]) + Len(n.bands[1]) + Len(n.bands[2])
    BY <2>2, SumOfThree
  <2> QED BY <2>3 DEF NPackets
<1>9. n.root
  BY DEF Local, Disc
<1> QED BY <1>5, <1>6, <1>8, <1>9 DEF m, t

\* The head of a band may join its device queue, or be requeued.
LEMMA BandTakenIs ==
  ASSUME NEW D, D \subseteq Nat, NEW n, NEW g, NEW l, Good(D, n, g, l), n.requeued = <<>>,
         NEW b \in Bands, n.bands[b] # <<>>,
         NEW y \in PlacesOf(D), y[1] \in {2, 3}
  PROVE  LET p == Head(n.bands[b])
             m == BandTaken(n, b)
         IN /\ p \in Packet(D) /\ Local(D, m) /\ Fated(m, l) /\ m.dev = n.dev
            /\ m.requeued = <<>> /\ m.root
            /\ InHand(Lines(D, m, g), p, y, Out(m, l), m.sent)
<1> DEFINE p == Head(n.bands[b])
           m == BandTaken(n, b)
           L == Lines(D, n, g)
           M == Lines(D, m, g)
           P == PlacesOf(D)
           x == <<4, b>>
<1>1. /\ Local(D, n) /\ Fated(n, l) /\ n \in Node(D) /\ g \in Seq(Frame(D))
      /\ Kept(L, Out(n, l), n.sent)
  BY DEF Good, Local
<1>2. n.bands[b] \in Seq(Packet(D)) /\ n.bands[b] \in Seq(InBand(D, b))
  BY <1>1, NodeParts DEF Local, Home
<1>3. p \in Packet(D)
  BY <1>2, HeadTailProperties
<1>4. p = n.bands[b][1] /\ 1 \in 1..Len(n.bands[b])
  BY <1>2, EmptySeq
<1>5. /\ m \in Node(D) /\ DiscStep(n, m) /\ m.requeued = n.requeued
      /\ m.bands[b] = Tail(n.bands[b]) /\ \A c \in Bands \ {b} : m.bands[c] = n.bands[c]
      /\ NPackets(m) =< NPackets(n) /\ n.root
  BY <1>1, BandTakenFields
<1> HIDE DEF m, p
<1>6. Local(D, m) /\ m.root
  <2>1. m.root
    BY <1>5 DEF DiscStep, SameNode
  <2>2. NPackets(m) \in Int /\ NPackets(n) \in Int /\ DiscSize \in Nat
    <3>1. NPackets(m) \in Nat
      BY <1>5, PacketsOf
    <3>2. NPackets(n) \in Nat
      BY <1>1, PacketsOf
    <3> QED BY <3>1, <3>2, Sizes
  <2>3. NPackets(m) =< DiscSize
    BY <1>1, <1>5, <2>2 DEF Local, Disc
  <2>4. Disc(m)
    BY <1>1, <1>5, <2>1, <2>3 DEF Local, Disc
  <2>5. ASSUME NEW c \in Bands PROVE m.bands[c] \in Seq(InBand(D, c))
    <3>1. CASE c = b
      <4>1. Tail(n.bands[b]) \in Seq(InBand(D, b))
        BY <1>2, HeadTailProperties
      <4> QED BY <1>5, <3>1, <4>1
    <3>2. CASE c # b
      BY <1>1, <1>5, <3>2 DEF Local, Home
    <3> QED BY <3>1, <3>2
  <2> QED BY <1>1, <1>5, <2>1, <2>4, <2>5, DiscLocal
<1>7. L \in [P -> Seq(Frame(D))]
  BY <1>1, LinesType
<1>8. P \subseteq Nat \X Nat
  BY PlacesType
<1>9. /\ x \in P /\ L[x] = n.bands[b] /\ M[x] = m.bands[b]
      /\ DOMAIN L = P /\ DOMAIN M = P
  BY <1>3, PlaceIs, LineIs
<1>10. Loses(L, x, M)
  <2> DEFINE Z == {x}
  <2>1. \A z \in P \ Z : M[z] = L[z]
    <3>1. \A c \in Bands : <<4, c>> \in Z \/ m.bands[c] = n.bands[c]
      BY <1>5
    <3> HIDE DEF Z
    <3>2. AgreeBut(D, n, m, Z)
      BY <1>5, <3>1 DEF AgreeBut, DiscStep, SameWire
    <3> QED BY <3>2, LinesDiffer
  <2> HIDE DEF L, M, P, x
  <2> QED BY <1>5, <1>9, <2>1 DEF Loses, Z
<1>11. Clear(L, x, y)
  <2>1. ASSUME NEW z \in P, NEW i \in 1..Len(L[z]), z # x, Same(L[z][i], L[x][1])
        PROVE  z[1] =< y[1] \/ x[1] < z[1]
    <3>1. CASE z \in {<<0, 0>>, <<1, 0>>}
      BY <3>1
    <3>2. ASSUME NEW k \in D, z = <<2, k>> PROVE z[1] =< y[1]
      BY <3>2
    <3>3. z # <<3, 0>>
      <4>1. L[<<3, 0>>] = <<>>
        BY LineIs
      <4> QED BY <2>1, <4>1
    <3>4. ASSUME NEW c \in Bands, z = <<4, c>> PROVE FALSE
      <4>1. L[z] = n.bands[c] /\ c # b
        BY <2>1, <3>4, LineIs
      <4>2. prio2band(L[z][i].priority) = c
        BY <1>1, <2>1, <4>1, ClassOfBand
      <4>3. prio2band(L[x][1].priority) = b
        BY <1>1, <1>4, <1>9, ClassOfBand
      <4> QED BY <2>1, <4>1, <4>2, <4>3 DEF Same
    <3> QED BY <2>1, <3>1, <3>2, <3>3, <3>4, PlaceIs
  <2> HIDE DEF L, P, x
  <2> QED BY <1>9, <2>1 DEF Clear
<1>12. y[1] < x[1]
  OBVIOUS
<1>13. n.sent \in Nat /\ L[x] # <<>> /\ L[x][1] = p
  BY <1>1, <1>4, <1>9, NodeParts
<1>14. InHand(M, p, y, Out(n, l), n.sent)
  <2> HIDE DEF L, M, P, x
  <2>0. y \in P
    BY DEF P
  <2>1. InHand(M, L[x][1], y, Out(n, l), n.sent)
    BY <2>0, <1>1, <1>7, <1>8, <1>9, <1>10, <1>11, <1>12, <1>13, TakenInHand
  <2> QED BY <1>13, <2>1
<1>15. Out(m, l) = Out(n, l) /\ m.sent = n.sent /\ Fated(m, l)
  BY <1>1, <1>5, OutSame DEF DiscStep
<1> QED BY <1>3, <1>5, <1>6, <1>14, <1>15 DEF DiscStep, p, m

-----------------------------------------------------------------------------
(* A packet in hand is requeued or joins its band.                         *)

\* A packet in hand is requeued, where there is none.
LEMMA RequeueGood ==
  ASSUME NEW D, D \subseteq Nat, NEW n, Local(D, n), NEW g \in Seq(Frame(D)), NEW l,
         Fated(n, l), n.requeued = <<>>, n.root, NEW p \in Packet(D),
         InHand(Lines(D, n, g), p, <<3, 0>>, Out(n, l), n.sent)
  PROVE  Good(D, Requeue(n, p), g, l)
<1> DEFINE m == Requeue(n, p)
           P == PlacesOf(D)
           L == Lines(D, n, g)
           N == Lines(D, m, g)
           y == <<3, 0>>
<1>1. n \in Node(D)
  BY DEF Local
<1>2. <<p>> \in Seq(Packet(D)) /\ Len(<<p>>) = 1 /\ <<p>> = Append(<<>>, p)
  OBVIOUS
<1>3. m \in Node(D) /\ DiscStep(n, m) /\ m.bands = n.bands /\ m.requeued = <<p>>
  BY <1>1, <1>2 DEF Node, Requeue, DiscStep, SameNode, SameWire
<1> HIDE DEF m
<1>4. Local(D, m)
  <2>1. Disc(m)
    <3>1. NPackets(m) = NPackets(n) /\ m.root
      BY <1>3 DEF NPackets, DiscStep, SameNode
    <3> QED BY <1>2, <1>3, <3>1 DEF Local, Disc
  <2> QED BY <1>3, <2>1, DiscLocal DEF Local, Home
<1>5. L \in [P -> Seq(Frame(D))]
  BY <1>1, LinesType
<1>6. P \subseteq Nat \X Nat
  BY PlacesType
<1>7. y \in P /\ DOMAIN N = P /\ DOMAIN L = P /\ L[y] = n.requeued /\ N[y] = m.requeued
  BY PlaceIs, LineIs
<1>8. Gains(L, y, p, N)
  <2> DEFINE Z == {y}
  <2>1. \A z \in P \ Z : N[z] = L[z]
    <3>1. <<3, 0>> \in Z
      OBVIOUS
    <3> HIDE DEF Z
    <3>2. AgreeBut(D, n, m, Z)
      BY <1>3, <3>1 DEF AgreeBut, DiscStep, SameWire
    <3> QED BY <3>2, LinesDiffer
  <2>2. N[y] = Append(L[y], p)
    BY <1>2, <1>3, <1>7
  <2> HIDE DEF L, N, P, y
  <2> QED BY <1>7, <2>1, <2>2 DEF Gains, Z
<1> HIDE DEF L, N, P, y
<1>9. InHand(L, p, y, Out(n, l), n.sent) /\ Same(p, p)
  BY DEF L, y, Same
<1>10. p \in Frame(D)
  BY Sizes DEF Packet, Frame
<1>11. Kept(N, Out(n, l), n.sent)
  BY <1>5, <1>6, <1>7, <1>8, <1>9, <1>10, HandedOn
<1>12. Out(m, l) = Out(n, l) /\ m.sent = n.sent /\ Fated(m, l)
  BY <1>3, OutSame DEF DiscStep
<1> QED BY <1>4, <1>11, <1>12 DEF Good, m, N

-----------------------------------------------------------------------------
(* Restart: a packet leaves the queue disc for the device.                 *)

\* Transmit of a packet in hand.
LEMMA TransmitGood ==
  ASSUME NEW D, D \subseteq Nat, NEW n, Local(D, n), NEW g \in Seq(Frame(D)), NEW l,
         Fated(n, l), NEW p \in Packet(D), n.requeued = <<>>, n.root \/ ~IsStopped(n, p.txq),
         IsStopped(n, p.txq) => InHand(Lines(D, n, g), p, <<3, 0>>, Out(n, l), n.sent),
         ~IsStopped(n, p.txq) => InHand(Lines(D, n, g), p, <<2, p.txq>>, Out(n, l), n.sent)
  PROVE  Good(D, Transmit(n, p).n, g, l)
<1>1. p.txq \in D
  BY DEF Packet
<1>2. CASE IsStopped(n, p.txq)
  <2>1. Good(D, Requeue(n, p), g, l)
    BY <1>2, RequeueGood
  <2>2. Transmit(n, p).n = Requeue(n, p)
    BY <1>2 DEF Transmit
  <2> QED BY <2>1, <2>2
<1>3. CASE ~IsStopped(n, p.txq)
  <2>1. Good(D, DeviceSend(n, p.txq, p), g, l)
    <3> DEFINE q == p.txq
    <3>1. InHand(Lines(D, n, g), p, <<2, q>>, Out(n, l), n.sent) /\ ~IsStopped(n, q)
      BY <1>3
    <3>2. q \in D /\ p.txq = q
      BY <1>1
    <3> HIDE DEF q
    <3>3. Good(D, DeviceSend(n, q, p), g, l)
      BY <3>1, <3>2, SendGood
    <3> QED BY <3>3 DEF q
  <2>2. Transmit(n, p).n = DeviceSend(n, p.txq, p)
    BY <1>3 DEF Transmit
  <2> QED BY <2>1, <2>2
<1> QED BY <1>2, <1>3

\* Restart takes the requeued packet or the head of a band and transmits it.
LEMMA RestartGood ==
  ASSUME NEW D, D \subseteq Nat, NEW n, NEW g, NEW l, Good(D, n, g, l)
  PROVE  Good(D, Restart(n).n, g, l)
<1>1. Local(D, n) /\ n \in Node(D) /\ g \in Seq(Frame(D))
  BY DEF Good, Local
<1>2. CASE DequeuePacket(n).item = <<>>
  BY <1>2 DEF Restart
<1>3. CASE n.requeued # <<>> /\ ~IsStopped(n, n.requeued[1].txq)
  <2> DEFINE p == n.requeued[1]
             m == RequeuedTaken(n)
  <2>1. Restart(n) = Transmit(m, p)
    <3>1. DequeuePacket(n) = [n |-> m, item |-> n.requeued]
      BY <1>3 DEF DequeuePacket, RequeuedTaken
    <3> QED BY <1>3, <3>1 DEF Restart
  <2>2. /\ p \in Packet(D) /\ Local(D, m) /\ Fated(m, l) /\ m.dev = n.dev
        /\ InHand(Lines(D, m, g), p, <<2, p.txq>>, Out(m, l), m.sent)
    BY <1>3, RequeuedTakenIs
  <2>3. m.requeued = <<>>
    BY <1>1 DEF RequeuedTaken, Node
  <2>4. ~IsStopped(m, p.txq)
    BY <1>3, <2>2 DEF IsStopped
  <2> HIDE DEF m, p
  <2>5. Good(D, Transmit(m, p).n, g, l)
    BY <1>1, <2>2, <2>3, <2>4, TransmitGood
  <2> QED BY <2>1, <2>5
<1>4. CASE n.requeued = <<>> /\ NPackets(n) > 0 /\ DequeuePacket(n).item # <<>>
  <2> DEFINE b == NextBand(n)
             p == Head(n.bands[b])
             m == BandTaken(n, b)
  <2>1. b \in Bands /\ n.bands[b] # <<>>
    BY <1>1, <1>4, NextBandIs
  <2>2. Restart(n) = Transmit(m, p)
    <3>1. DequeuePacket(n) = [n |-> m, item |-> <<p>>]
      BY <1>4 DEF DequeuePacket, BandTaken
    <3> QED BY <3>1 DEF Restart
  <2> HIDE DEF b
  <2>3. \A y \in PlacesOf(D) : y[1] \in {2, 3} =>
          /\ p \in Packet(D) /\ Local(D, m) /\ Fated(m, l) /\ m.dev = n.dev
          /\ m.requeued = <<>> /\ m.root
          /\ InHand(Lines(D, m, g), p, y, Out(m, l), m.sent)
    BY <1>4, <2>1, BandTakenIs
  <2> HIDE DEF m, p
  <2>4. <<3, 0>> \in PlacesOf(D) /\ <<3, 0>>[1] = 3
    BY PlaceIs
  <2>5. /\ p \in Packet(D) /\ Local(D, m) /\ Fated(m, l) /\ m.requeued = <<>> /\ m.root
        /\ InHand(Lines(D, m, g), p, <<3, 0>>, Out(m, l), m.sent)
    BY <2>3, <2>4
  <2>6. InHand(Lines(D, m, g), p, <<2, p.txq>>, Out(m, l), m.sent)
    <3>1. p.txq \in D
      BY <2>5 DEF Packet
    <3>2. <<2, p.txq>> \in PlacesOf(D) /\ <<2, p.txq>>[1] = 2
      BY <3>1, PlaceIs
    <3> QED BY <2>3, <3>2
  <2>7. Good(D, Transmit(m, p).n, g, l)
    BY <1>1, <2>5, <2>6, TransmitGood
  <2> QED BY <2>2, <2>7
<1>5. DequeuePacket(n).item # <<>> =>
        \/ n.requeued # <<>> /\ ~IsStopped(n, n.requeued[1].txq)
        \/ n.requeued = <<>> /\ NPackets(n) > 0
  BY DEF DequeuePacket
<1> QED BY <1>2, <1>3, <1>4, <1>5

\* The mark of a used up quota changes nothing else.
LEMMA RanOutGood ==
  ASSUME NEW D, NEW n, NEW g, NEW l, Good(D, n, g, l), NEW v \in BOOLEAN
  PROVE  Good(D, [n EXCEPT !.ranOut = v], g, l)
<1> DEFINE m == [n EXCEPT !.ranOut = v]
<1>1. Local(D, n) /\ Fated(n, l) /\ n \in Node(D)
  BY DEF Good, Local
<1>2. /\ m \in Node(D) /\ m.unit = n.unit /\ m.limited = n.limited /\ m.root = n.root
      /\ m.bands = n.bands /\ m.requeued = n.requeued /\ m.dev = n.dev /\ m.busy = n.busy
      /\ m.now = n.now /\ m.air = n.air /\ m.sent = n.sent /\ m.dropped = n.dropped
      /\ m.discarded = n.discarded /\ m.abandoned = n.abandoned
  BY <1>1 DEF Node
<1> HIDE DEF m
<1>3. Home(D, m) /\ Disc(m) /\ Wire(m)
  BY <1>1, <1>2 DEF Local, Home, Disc, NPackets, Wire
<1>4. Room(D, m) /\ Limits(D, m)
  BY <1>1, <1>2 DEF Local, Room, Limits, WouldOverflow, Unreported
<1>5. Lines(D, m, g) = Lines(D, n, g)
  BY <1>2 DEF Lines, Line
<1>6. Out(m, l) = Out(n, l) /\ Fated(m, l)
  BY <1>1, <1>2 DEF Out, Fated
<1> QED BY <1>1, <1>2, <1>3, <1>4, <1>5, <1>6 DEF Good, Local, m

-----------------------------------------------------------------------------
(* A Run is a number of Restarts.                                          *)

\* What one Restart more makes of a Run, and the function of RunOn.
Following(r) == IF r.more THEN Restart(r.n) ELSE r
IsRun(f, n, quota) ==
  f = [k \in 0..quota |-> IF k = 0 THEN [n |-> n, more |-> TRUE] ELSE Following(f[k - 1])]

\* The recursive function of RunOn exists for every quota.
LEMMA RunsExist ==
  ASSUME NEW n, NEW quota \in Nat
  PROVE  \E f : IsRun(f, n, quota)
<1> DEFINE T == {k \in Nat : \E f : IsRun(f, n, k)}
           first == [n |-> n, more |-> TRUE]
<1>1. 0 \in T
  <2>1. IsRun([k \in 0..0 |-> first], n, 0)
    BY DEF IsRun
  <2> QED BY <2>1
<1>2. ASSUME NEW k \in Nat, k \in T PROVE k + 1 \in T
  <2>1. PICK f : IsRun(f, n, k)
    BY <1>2
  <2>2. f = [i \in 0..k |-> IF i = 0 THEN first ELSE Following(f[i - 1])]
    BY <2>1 DEF IsRun
  <2> HIDE DEF first
  <2> DEFINE h == [i \in 0..k + 1 |-> IF i = k + 1 THEN Following(f[k]) ELSE f[i]]
  <2>3. ASSUME NEW i \in 0..k + 1
        PROVE  h[i] = IF i = 0 THEN first ELSE Following(h[i - 1])
    <3>1. CASE i = 0
      BY <3>1, <2>2
    <3>2. CASE i = k + 1
      <4>1. i - 1 = k /\ h[k] = f[k] /\ h[i] = Following(f[k]) /\ i # 0
        BY <3>2
      <4> QED BY <4>1
    <3>3. CASE i \in 1..k
      <4>1. h[i] = f[i] /\ h[i - 1] = f[i - 1] /\ i # 0
        BY <3>3
      <4>2. f[i] = Following(f[i - 1])
        BY <2>2, <3>3
      <4> QED BY <4>1, <4>2
    <3> QED BY <3>1, <3>2, <3>3
  <2>4. h = [i \in 0..k + 1 |-> IF i = 0 THEN first ELSE Following(h[i - 1])]
    BY <2>3
  <2>5. IsRun(h, n, k + 1)
    BY <2>4 DEF IsRun, first
  <2> QED BY <2>5
<1> HIDE DEF T
<1>3. quota \in T
  BY <1>1, <1>2, Induction
<1> QED BY <1>3 DEF T

\* By induction over the Restarts.
LEMMA RunOnGood ==
  ASSUME NEW D, D \subseteq Nat, NEW n, NEW g, NEW l, Good(D, n, g, l), NEW quota \in Nat
  PROVE  Good(D, RunOn(n, quota), g, l)
<1> DEFINE f == CHOOSE f : IsRun(f, n, quota)
<1>1. RunOn(n, quota) =
        IF f[quota].more THEN [f[quota].n EXCEPT !.ranOut = TRUE] ELSE f[quota].n
  BY DEF RunOn, IsRun, Following
<1>2. IsRun(f, n, quota)
  BY RunsExist
<1> HIDE DEF f
<1>3. f[0].n = n /\ \A k \in 1..quota : f[k] = Following(f[k - 1])
  <2>1. f = [k \in 0..quota |-> IF k = 0 THEN [n |-> n, more |-> TRUE] ELSE Following(f[k - 1])]
    BY <1>2 DEF IsRun
  <2>2. f[0] = [n |-> n, more |-> TRUE]
    <3>1. 0 \in 0..quota
      OBVIOUS
    <3> QED BY <2>1, <3>1
  <2>3. ASSUME NEW k \in 1..quota PROVE f[k] = Following(f[k - 1])
    <3>1. k \in 0..quota /\ k # 0
      OBVIOUS
    <3> QED BY <2>1, <3>1
  <2> QED BY <2>2, <2>3
<1> DEFINE T == {k \in Nat : k =< quota => Good(D, f[k].n, g, l)}
<1>4. 0 \in T
  BY <1>3
<1>5. ASSUME NEW k \in Nat, k \in T PROVE k + 1 \in T
  <2>1. CASE k + 1 =< quota
    <3>1. PICK j \in 1..quota : j = k + 1 /\ j - 1 = k
      BY <2>1
    <3>2. Good(D, f[k].n, g, l)
      BY <1>5, <2>1
    <3>3. f[j] = Following(f[k])
      BY <1>3, <3>1
    <3>4. Good(D, Following(f[k]).n, g, l)
      BY <3>2, RestartGood DEF Following
    <3> QED BY <3>1, <3>3, <3>4
  <2>2. CASE ~(k + 1 =< quota)
    BY <2>2
  <2> QED BY <2>1, <2>2
<1> HIDE DEF T
<1>6. quota \in T
  BY <1>4, <1>5, Induction
<1>7. Good(D, f[quota].n, g, l)
  BY <1>6 DEF T
<1>8. Good(D, [f[quota].n EXCEPT !.ranOut = TRUE], g, l)
  BY <1>7, RanOutGood
<1> QED BY <1>1, <1>7, <1>8

\* Run keeps the invariant.
LEMMA RunGood ==
  ASSUME NEW D, D \subseteq Nat, NEW n, NEW g, NEW l, Good(D, n, g, l)
  PROVE  Good(D, Run(n), g, l)
<1>1. Good(D, [n EXCEPT !.ranOut = FALSE], g, l)
  BY RanOutGood
<1>2. n.quota \in Nat
  BY DEF Good, Local, Node
<1> QED BY <1>1, <1>2, RunOnGood DEF Run

-----------------------------------------------------------------------------
(* Steps that move no packet.                                              *)

\* A step that moves no packet.
NoPacketMoves(D, n, m) ==
  /\ SameNode(n, m) /\ SameDisc(n, m) /\ m.air = n.air /\ m.discarded = n.discarded
  /\ \A k \in D : m.dev[k].items = n.dev[k].items

\* A step that moves no packet keeps the invariant if it keeps the limits and the stops.
LEMMA StillGood ==
  ASSUME NEW D, NEW n, NEW g, NEW l, Good(D, n, g, l), NEW m \in Node(D),
         NoPacketMoves(D, n, m), Wire(m), Limits(D, m),
         n.unit = "packets" =>
           \A k \in D : m.dev[k].byDevice \/ ~WouldOverflow(m, k, 1, Mtu)
  PROVE  Good(D, m, g, l)
<1>1. Local(D, n) /\ Fated(n, l) /\ g \in Seq(Frame(D)) /\ Kept(Lines(D, n, g), Out(n, l), n.sent)
  BY DEF Good
<1>2. m.unit = n.unit /\ m.root = n.root
  BY DEF NoPacketMoves, SameNode
<1>3. Home(D, m) /\ Disc(m)
  <2>1. SameDisc(n, m)
    BY DEF NoPacketMoves
  <2>2. Disc(m)
    BY <1>1, <1>2, <2>1, DiscSame DEF Local
  <2> QED BY <1>1, <2>1, <2>2 DEF Local, Home, NoPacketMoves, SameDisc
<1>4. Room(D, m)
  <2>1. ASSUME NEW k \in D PROVE ~WouldOverflow(m, k, 0, 0)
    <3>1. m.dev[k].items = n.dev[k].items
      BY DEF NoPacketMoves
    <3>2. WouldOverflow(m, k, 0, 0) = WouldOverflow(n, k, 0, 0)
      BY <1>2, <3>1, OverflowSame
    <3> QED BY <1>1, <3>2 DEF Local, Room
  <2> QED BY <1>1, <1>2, <2>1 DEF Local, Room, NoPacketMoves
<1>5. Lines(D, m, g) = Lines(D, n, g)
  <2> DEFINE Z == {}
  <2>1. \A z \in PlacesOf(D) \ Z : Lines(D, m, g)[z] = Lines(D, n, g)[z]
    <3> HIDE DEF Z
    <3>1. AgreeBut(D, n, m, Z)
      BY DEF NoPacketMoves, SameDisc, AgreeBut
    <3> QED BY <3>1, LinesDiffer
  <2> QED BY <2>1 DEF Lines
<1>6. Out(m, l) = Out(n, l) /\ m.sent = n.sent /\ Fated(m, l)
  BY <1>1, OutSame DEF NoPacketMoves
<1> QED BY <1>1, <1>3, <1>4, <1>5, <1>6 DEF Good, Local

-----------------------------------------------------------------------------
(* Byte queue limits.                                                      *)

\* The helpers of the limits stay among the integers.
LEMMA SomeInts ==
  ASSUME NEW a \in Int, NEW b \in Int
  PROVE  Posdiff(a, b) \in Int /\ Larger(a, b) \in Int /\ Smaller(a, b) \in Int
BY DEF Posdiff, Larger, Smaller

\* Completed adds to what was completed and leaves what was queued.
LEMMA CompletedType ==
  ASSUME NEW l \in LimitRecord, NEW count \in Int, NEW held \in BOOLEAN
  PROVE  /\ Completed(l, count, held) \in LimitRecord
         /\ Completed(l, count, held).queued = l.queued
         /\ Completed(l, count, held).completed = l.completed + count
<1> DEFINE completed == l.completed + count
           over == Posdiff(l.queued - l.completed, l.limit)
           inProgress == l.queued - completed
           prevInProgress == l.prevQueued - l.completed
           allPrevCompleted == completed >= l.prevQueued
           starved == (over > 0 /\ inProgress = 0) \/ (l.prevOver > 0 /\ allPrevCompleted)
           busy == ~starved /\ inProgress > 0 /\ prevInProgress > 0 /\ ~allPrevCompleted
           lastObjs == IF l.prevOver > 0 THEN Posdiff(l.prevLastObj, l.prevOver) ELSE 0
           slack == Larger(Posdiff(l.limit + l.prevOver, 2 * count), lastObjs)
           lowest == Smaller(slack, l.lowestSlack)
           wanted == CASE starved -> l.limit + Posdiff(completed, l.prevQueued) + l.prevOver
                       [] busy /\ held -> Posdiff(l.limit, lowest)
                       [] OTHER -> l.limit
           limit == Smaller(Larger(wanted, MinLimit), MaxLimit)
           newOver == IF limit # l.limit THEN 0 ELSE over
           newSlack == CASE starved \/ (busy /\ held) -> NoSlack
                         [] busy /\ ~held -> lowest
                         [] OTHER -> l.lowestSlack
           adj == limit + completed
<1>1. /\ l.limit \in Int /\ l.queued \in Int /\ l.completed \in Int /\ l.prevQueued \in Int
      /\ l.prevLastObj \in Int /\ l.prevOver \in Int /\ l.lowestSlack \in Int
      /\ l.lastObj \in Int
  BY DEF LimitRecord
<1>2. completed \in Int /\ over \in Int /\ lastObjs \in Int
  <2>1. completed \in Int /\ l.queued - l.completed \in Int
    BY <1>1
  <2>2. over \in Int
    BY <1>1, <2>1, SomeInts
  <2>3. Posdiff(l.prevLastObj, l.prevOver) \in Int
    BY <1>1, SomeInts
  <2>4. lastObjs \in Int
    BY <1>1, <2>3
  <2> QED BY <2>1, <2>2, <2>4
<1>3. slack \in Int
  <2>1. Posdiff(l.limit + l.prevOver, 2 * count) \in Int
    <3>1. l.limit + l.prevOver \in Int /\ 2 * count \in Int
      BY <1>1
    <3> QED BY <3>1, SomeInts
  <2> HIDE DEF lastObjs
  <2> QED BY <1>2, <2>1, SomeInts
<1>4. lowest \in Int
  <2> HIDE DEF slack
  <2> QED BY <1>1, <1>3, SomeInts
<1>5. wanted \in Int
  <2> HIDE DEF starved, busy, lowest, completed
  <2>1. Posdiff(completed, l.prevQueued) \in Int /\ Posdiff(l.limit, lowest) \in Int
    BY <1>1, <1>2, <1>4, SomeInts
  <2> QED BY <1>1, <2>1
<1>6. limit \in Int
  <2> HIDE DEF wanted
  <2>1. MinLimit \in Int /\ MaxLimit \in Int
    BY TransmitAssumption
  <2>2. Larger(wanted, MinLimit) \in Int
    BY <1>5, <2>1, SomeInts
  <2> QED BY <2>1, <2>2, SomeInts
<1>7. newOver \in Int /\ newSlack \in Int /\ adj \in Int
  <2> HIDE DEF limit, over, starved, busy, lowest, completed
  <2> QED BY <1>1, <1>2, <1>4, <1>6 DEF NoSlack
<1>8. Completed(l, count, held) =
        [l EXCEPT !.limit = limit, !.adjLimit = adj, !.prevOver = newOver,
                  !.prevLastObj = l.lastObj, !.completed = completed,
                  !.prevQueued = l.queued, !.lowestSlack = newSlack]
  BY DEF Completed
<1> HIDE DEF limit, adj, newOver, newSlack, completed
<1> QED BY <1>1, <1>2, <1>6, <1>7, <1>8 DEF LimitRecord, completed

-----------------------------------------------------------------------------
(* The event of a dequeued packet.                                         *)

\* m is n after the event was reported for queue q, with limits r and flag b.
ReportedIs(D, n, q, r, b, m) ==
  /\ m \in Node(D) /\ NoPacketMoves(D, n, m) /\ OthersSame(D, n, m, q)
  /\ m.busy = n.busy /\ m.now = <<>>
  /\ m.dev[q].limits = r /\ (m.dev[q].byLimits <=> b)
  /\ m.dev[q].byDevice = n.dev[q].byDevice

\* The three outcomes of NotifyTransmittedBytes before the wake.
LEMMA ReportedFields ==
  ASSUME NEW D, NEW n \in Node(D), Len(n.now) = 1, NEW q \in D,
         NEW r \in LimitRecord
  PROVE  LET k == [n EXCEPT !.now = Tail(@)]
             m == [k EXCEPT !.dev[q].limits = r]
         IN /\ ReportedIs(D, n, q, n.dev[q].limits, n.dev[q].byLimits, k)
            /\ ReportedIs(D, n, q, r, n.dev[q].byLimits, m)
            /\ ReportedIs(D, n, q, r, FALSE, [m EXCEPT !.dev[q].byLimits = FALSE])
<1> DEFINE k == [n EXCEPT !.now = Tail(@)]
           m == [k EXCEPT !.dev[q].limits = r]
           h == [m EXCEPT !.dev[q].byLimits = FALSE]
           d == n.dev[q]
           e1 == [d EXCEPT !.limits = r]
           e2 == [e1 EXCEPT !.byLimits = FALSE]
<1>1. n.dev \in [D -> DeviceQueue(D)] /\ n.now \in Seq([queue : D, bytes : Nat])
  BY DEF Node
<1>2. Tail(n.now) = <<>>
  <2>1. n.now # <<>>
    BY <1>1, EmptySeq
  <2>2. Tail(n.now) \in Seq([queue : D, bytes : Nat]) /\ Len(Tail(n.now)) = 0
    BY <1>1, <2>1, HeadTailProperties
  <2> QED BY <2>2, EmptySeq
<1>3. <<>> \in Seq([queue : D, bytes : Nat])
  BY EmptySeq
<1>4. /\ d \in DeviceQueue(D) /\ e1 \in DeviceQueue(D) /\ e2 \in DeviceQueue(D)
      /\ e1.items = d.items /\ e1.limits = r /\ e1.byLimits = d.byLimits
      /\ e1.byDevice = d.byDevice
      /\ e2.items = d.items /\ e2.limits = r /\ e2.byLimits = FALSE
      /\ e2.byDevice = d.byDevice
  BY <1>1 DEF DeviceQueue
<1>5. k = [n EXCEPT !.now = <<>>]
  BY <1>2
<1>6. /\ k \in Node(D) /\ k.dev = n.dev /\ k.now = <<>> /\ k.busy = n.busy
      /\ SameNode(n, k) /\ SameDisc(n, k) /\ k.air = n.air /\ k.discarded = n.discarded
  BY <1>3, <1>5 DEF Node, SameNode, SameDisc
<1>7. m = [k EXCEPT !.dev = [n.dev EXCEPT ![q] = e1]]
  <2> HIDE DEF k
  <2>1. m = [k EXCEPT !.dev = [k.dev EXCEPT ![q] = [k.dev[q] EXCEPT !.limits = r]]]
    BY DEF Node
  <2> QED BY <1>6, <2>1
<1> HIDE DEF k, e1, e2
<1>8. [n.dev EXCEPT ![q] = e1] \in [D -> DeviceQueue(D)]
      /\ [n.dev EXCEPT ![q] = e2] \in [D -> DeviceQueue(D)]
  BY <1>1, <1>4
<1> HIDE DEF m
<1>9. /\ m \in Node(D) /\ m.dev = [n.dev EXCEPT ![q] = e1] /\ m.now = <<>> /\ m.busy = n.busy
      /\ SameNode(n, m) /\ SameDisc(n, m) /\ m.air = n.air /\ m.discarded = n.discarded
  BY <1>6, <1>7, <1>8 DEF Node, SameNode, SameDisc
<1>10. h = [m EXCEPT !.dev = [n.dev EXCEPT ![q] = e2]]
  <2>1. h = [m EXCEPT !.dev = [m.dev EXCEPT ![q] = [m.dev[q] EXCEPT !.byLimits = FALSE]]]
    BY DEF Node
  <2>2. m.dev[q] = e1
    BY <1>1, <1>9
  <2>3. [m.dev EXCEPT ![q] = [m.dev[q] EXCEPT !.byLimits = FALSE]] = [n.dev EXCEPT ![q] = e2]
    BY <1>1, <1>9, <2>2 DEF e2
  <2> QED BY <2>1, <2>3
<1> HIDE DEF h
<1>11. /\ h \in Node(D) /\ h.dev = [n.dev EXCEPT ![q] = e2] /\ h.now = <<>> /\ h.busy = n.busy
       /\ SameNode(n, h) /\ SameDisc(n, h) /\ h.air = n.air /\ h.discarded = n.discarded
  BY <1>8, <1>9, <1>10 DEF Node, SameNode, SameDisc
<1>12. ReportedIs(D, n, q, d.limits, d.byLimits, k)
  BY <1>6 DEF ReportedIs, NoPacketMoves, OthersSame
<1>13. ReportedIs(D, n, q, r, d.byLimits, m)
  <2>1. m.dev[q] = e1 /\ \A j \in D \ {q} : m.dev[j] = n.dev[j]
    BY <1>1, <1>9
  <2>2. \A j \in D : m.dev[j].items = n.dev[j].items
    BY <1>4, <2>1
  <2> QED BY <1>4, <1>9, <2>1, <2>2 DEF ReportedIs, NoPacketMoves, OthersSame
<1>14. ReportedIs(D, n, q, r, FALSE, h)
  <2>1. h.dev[q] = e2 /\ \A j \in D \ {q} : h.dev[j] = n.dev[j]
    BY <1>1, <1>11
  <2>2. \A j \in D : h.dev[j].items = n.dev[j].items
    BY <1>4, <2>1
  <2> QED BY <1>4, <1>11, <2>1, <2>2 DEF ReportedIs, NoPacketMoves, OthersSame
<1> QED BY <1>12, <1>13, <1>14 DEF k, m, h

\* The bytes of the event are completed: they are no longer to be reported.
LEMMA ReportedGood ==
  ASSUME NEW D, NEW n, NEW g, NEW l, Good(D, n, g, l), NEW q \in D, NEW bytes,
         n.now = <<[queue |-> q, bytes |-> bytes]>>, NEW r, NEW b \in BOOLEAN, NEW m,
         ReportedIs(D, n, q, r, b, m),
         n.limited => /\ r.queued = n.dev[q].limits.queued
                      /\ r.completed = n.dev[q].limits.completed + bytes
                      /\ b => Available(r) < 0
  PROVE  Good(D, m, g, l)
<1>1. /\ Local(D, n) /\ n \in Node(D) /\ n.now \in Seq([queue : D, bytes : Nat])
      /\ bytes \in Nat
  <2>1. Local(D, n) /\ n \in Node(D) /\ n.now \in Seq([queue : D, bytes : Nat])
    BY DEF Good, Local, Node
  <2>2. Len(n.now) = 1 /\ n.now[1] = [queue |-> q, bytes |-> bytes]
    OBVIOUS
  <2>3. 1 \in 1..Len(n.now)
    BY <2>2
  <2>4. n.now[1] \in [queue : D, bytes : Nat]
    BY <2>1, <2>3, ElementOfSeq
  <2>5. n.now[1].bytes = bytes
    BY <2>2
  <2> QED BY <2>1, <2>4, <2>5
<1>2. /\ m \in Node(D) /\ NoPacketMoves(D, n, m) /\ OthersSame(D, n, m, q)
      /\ m.busy = n.busy /\ m.now = <<>>
      /\ m.dev[q].limits = r /\ (m.dev[q].byLimits <=> b)
      /\ m.dev[q].byDevice = n.dev[q].byDevice
  BY DEF ReportedIs
<1>3. /\ m.unit = n.unit /\ m.limited = n.limited
      /\ \A k \in D : m.dev[k].items = n.dev[k].items
  BY <1>2 DEF NoPacketMoves, SameNode
<1>4. Wire(m)
  BY <1>2 DEF Wire
<1>5. Limits(D, m)
  <2>1. SUFFICES ASSUME n.limited, NEW k \in D
                 PROVE  LET t == m.dev[k].limits
                        IN /\ t.queued - t.completed = Bytes(m.dev[k].items) + Unreported(m, k)
                           /\ m.dev[k].byLimits => Available(t) < 0
    BY <1>3 DEF Limits
  <2>2. LET t == n.dev[k].limits
        IN /\ t.queued - t.completed = Bytes(n.dev[k].items) + Unreported(n, k)
           /\ n.dev[k].byLimits => Available(t) < 0
    BY <1>1, <2>1 DEF Local, Limits
  <2>3. Unreported(m, k) = 0
    <3>1. m.now \in Seq([queue : D, bytes : Nat])
      BY <1>2, NodeParts
    <3> QED BY <1>2, <3>1, UnreportedIs
  <2>4. Unreported(n, k) = IF k = q THEN bytes ELSE 0
    <3>1. Len(n.now) = 1 /\ n.now[1].queue = q /\ n.now[1].bytes = bytes
      OBVIOUS
    <3>2. Unreported(n, k) = IF n.now[1].queue = k THEN n.now[1].bytes ELSE 0
      BY <1>1, <3>1, UnreportedIs
    <3> QED BY <3>1, <3>2
  <2>5. Bytes(m.dev[k].items) = Bytes(n.dev[k].items) /\ Bytes(n.dev[k].items) \in Nat
    <3>1. n.dev[k].items \in Seq(Frame(D))
      BY <1>1, NodeParts
    <3> QED BY <1>3, <3>1, BytesType
  <2>6. CASE k # q
    <3>1. m.dev[k] = n.dev[k]
      BY <1>2, <2>6 DEF OthersSame
    <3> QED BY <2>2, <2>3, <2>4, <2>5, <2>6, <3>1
  <2>7. CASE k = q
    <3> DEFINE a == n.dev[q].limits.queued
               c == n.dev[q].limits.completed
               v == Bytes(n.dev[q].items)
    <3>1. a \in Int /\ c \in Int /\ v \in Nat
      <4>1. n.dev[q].limits \in LimitRecord
        BY <1>1, NodeParts
      <4> QED BY <2>5, <2>7, <4>1 DEF LimitRecord
    <3>2. a - c = v + bytes
      BY <2>2, <2>4, <2>7
    <3>3. r.queued = a /\ r.completed = c + bytes /\ (b => Available(r) < 0)
      BY <2>1
    <3>4. Bytes(m.dev[q].items) = v
      BY <2>5, <2>7
    <3> HIDE DEF a, c, v
    <3>5. r.queued - r.completed = v + 0
      BY <1>1, <3>1, <3>2, <3>3
    <3> QED BY <1>2, <2>3, <2>7, <3>3, <3>4, <3>5
  <2> QED BY <2>6, <2>7
<1>6. ASSUME n.unit = "packets", NEW k \in D
      PROVE  m.dev[k].byDevice \/ ~WouldOverflow(m, k, 1, Mtu)
  <2>1. m.dev[k].byDevice = n.dev[k].byDevice
    BY <1>2 DEF OthersSame
  <2>2. WouldOverflow(m, k, 1, Mtu) = WouldOverflow(n, k, 1, Mtu)
    BY <1>3, OverflowSame
  <2>3. n.dev[k].byDevice \/ ~WouldOverflow(n, k, 1, Mtu)
    BY <1>1, <1>6 DEF Local, Room
  <2> QED BY <2>1, <2>2, <2>3
<1> QED BY <1>2, <1>4, <1>5, <1>6, StillGood

-----------------------------------------------------------------------------
(* Waking the queue disc, and room in the device queue.                    *)

\* Waking the queue disc is a Run of it.
LEMMA CallbackGood ==
  ASSUME NEW D, D \subseteq Nat, NEW n, NEW g, NEW l, Good(D, n, g, l)
  PROVE  Good(D, WakeCallback(n), g, l)
BY RunGood DEF WakeCallback

\* NotifyTransmittedBytes for the oldest event.
LEMMA NotifiedGood ==
  ASSUME NEW D, D \subseteq Nat, NEW n, NEW g, NEW l, Good(D, n, g, l),
         n.now # <<>>, NEW held \in BOOLEAN
  PROVE  Good(D, NotifyTransmittedBytes([n EXCEPT !.now = Tail(@)], Head(n.now).queue,
                                        Head(n.now).bytes, held), g, l)
<1> DEFINE q == Head(n.now).queue
           bytes == Head(n.now).bytes
           k == [n EXCEPT !.now = Tail(@)]
           r == Completed(n.dev[q].limits, bytes, held)
           m == [k EXCEPT !.dev[q].limits = r]
           free == [m EXCEPT !.dev[q].byLimits = FALSE]
<1>1. Local(D, n) /\ n \in Node(D) /\ n.now \in Seq([queue : D, bytes : Nat])
  BY DEF Good, Local, Node
<1>2. Len(n.now) = 1 /\ q \in D /\ bytes \in Nat /\ Head(n.now) = n.now[1]
  <2>1. Len(n.now) \in Nat \ {0} /\ Len(n.now) =< 1
    BY <1>1, EmptySeq DEF Local, Wire
  <2>2. Head(n.now) \in [queue : D, bytes : Nat]
    BY <1>1, HeadTailProperties
  <2> DEFINE c == Len(n.now)
  <2>3. c = 1
    <3>1. c \in Nat \ {0} /\ c =< 1
      BY <2>1
    <3> HIDE DEF c
    <3> QED BY <3>1
  <2> QED BY <2>2, <2>3
<1>3. n.now = <<[queue |-> q, bytes |-> bytes]>>
  <2>1. n.now[1] = [queue |-> q, bytes |-> bytes]
    <3>1. 1 \in 1..Len(n.now)
      BY <1>2
    <3>2. n.now[1] \in [queue : D, bytes : Nat]
      BY <1>1, <3>1, ElementOfSeq
    <3> QED BY <1>2, <3>2
  <2> DEFINE e == [queue |-> q, bytes |-> bytes]
  <2>2. n.now = <<e>>
    <3> HIDE DEF e
    <3> QED BY <1>1, <1>2, <2>1, SeqEqual DEF e
  <2> QED BY <2>2
<1> HIDE DEF q, bytes
<1>4. n.dev[q].limits \in LimitRecord
  BY <1>1, <1>2, NodeParts
<1>5. /\ r \in LimitRecord /\ r.queued = n.dev[q].limits.queued
      /\ r.completed = n.dev[q].limits.completed + bytes
  BY <1>2, <1>4, CompletedType
<1> HIDE DEF r
<1>6. /\ ReportedIs(D, n, q, n.dev[q].limits, n.dev[q].byLimits, k)
      /\ ReportedIs(D, n, q, r, n.dev[q].byLimits, m)
      /\ ReportedIs(D, n, q, r, FALSE, free)
  BY <1>1, <1>2, <1>5, ReportedFields
<1>7. n.dev[q].byLimits \in BOOLEAN
  BY <1>1, <1>2, NodeParts
<1>8. k.limited = n.limited /\ k.dev = n.dev
  BY <1>1 DEF Node
<1>9. NotifyTransmittedBytes(k, q, bytes, held) =
        IF ~n.limited THEN k
        ELSE IF Available(r) < 0 THEN m
        ELSE IF n.dev[q].byLimits THEN WakeCallback(free) ELSE free
  BY <1>8 DEF NotifyTransmittedBytes, r
<1> HIDE DEF k, m, free
<1>10. ~n.limited => Good(D, k, g, l)
  BY <1>2, <1>3, <1>6, <1>7, ReportedGood
<1>11. n.limited /\ Available(r) < 0 => Good(D, m, g, l)
  BY <1>2, <1>3, <1>5, <1>6, <1>7, ReportedGood
<1>12. n.limited => Good(D, free, g, l)
  <2>1. FALSE \in BOOLEAN
    OBVIOUS
  <2> QED BY <1>2, <1>3, <1>5, <1>6, <2>1, ReportedGood
<1>13. n.limited => Good(D, WakeCallback(free), g, l)
  BY <1>12, CallbackGood
<1> QED BY <1>9, <1>10, <1>11, <1>12, <1>13 DEF k, q, bytes

\* A queue is woken that has room for one packet more.
LEMMA RoomGood ==
  ASSUME NEW D, NEW n, NEW g, NEW l, Good(D, n, g, l), NEW q \in D,
         ~WouldOverflow(n, q, 1, Mtu)
  PROVE  Good(D, [n EXCEPT !.dev[q].byDevice = FALSE], g, l)
<1> DEFINE m == [n EXCEPT !.dev[q].byDevice = FALSE]
           e == [n.dev[q] EXCEPT !.byDevice = FALSE]
<1>1. Local(D, n) /\ n \in Node(D) /\ n.dev \in [D -> DeviceQueue(D)]
  BY DEF Good, Local, Node
<1>2. /\ e \in DeviceQueue(D) /\ e.items = n.dev[q].items
      /\ e.limits = n.dev[q].limits /\ e.byLimits = n.dev[q].byLimits
  BY <1>1 DEF DeviceQueue
<1>3. m = [n EXCEPT !.dev = [n.dev EXCEPT ![q] = e]]
  BY <1>1 DEF Node
<1> HIDE DEF e, m
<1>4. [n.dev EXCEPT ![q] = e] \in [D -> DeviceQueue(D)]
  BY <1>1, <1>2
<1>5. /\ m \in Node(D) /\ m.dev = [n.dev EXCEPT ![q] = e] /\ m.now = n.now /\ m.busy = n.busy
      /\ SameNode(n, m) /\ SameDisc(n, m) /\ m.air = n.air /\ m.discarded = n.discarded
  BY <1>1, <1>3, <1>4 DEF Node, SameNode, SameDisc
<1>6. /\ m.dev[q] = e /\ \A j \in D \ {q} : m.dev[j] = n.dev[j]
      /\ \A k \in D : /\ m.dev[k].items = n.dev[k].items
                      /\ m.dev[k].limits = n.dev[k].limits
                      /\ m.dev[k].byLimits = n.dev[k].byLimits
  <2>1. m.dev[q] = e /\ \A j \in D \ {q} : m.dev[j] = n.dev[j]
    BY <1>1, <1>5
  <2> QED BY <1>2, <2>1
<1>7. m.unit = n.unit /\ m.limited = n.limited
  BY <1>5 DEF SameNode
<1>8. Wire(m)
  BY <1>1, <1>5 DEF Local, Wire
<1>9. Limits(D, m)
  <2>1. \A k \in D : Unreported(m, k) = Unreported(n, k)
    BY <1>5 DEF Unreported
  <2> QED BY <1>1, <1>6, <1>7, <2>1 DEF Local, Limits
<1>10. ASSUME n.unit = "packets", NEW k \in D
       PROVE  m.dev[k].byDevice \/ ~WouldOverflow(m, k, 1, Mtu)
  <2>1. WouldOverflow(m, k, 1, Mtu) = WouldOverflow(n, k, 1, Mtu)
    BY <1>6, <1>7, OverflowSame
  <2>2. n.dev[k].byDevice \/ ~WouldOverflow(n, k, 1, Mtu)
    BY <1>1, <1>10 DEF Local, Room
  <2> QED BY <1>6, <2>1, <2>2
<1>11. NoPacketMoves(D, n, m)
  BY <1>5, <1>6 DEF NoPacketMoves
<1> QED BY <1>5, <1>8, <1>9, <1>10, <1>11, StillGood DEF m

\* The whole event of a dequeued packet.
LEMMA DequeuedGood ==
  ASSUME NEW D, D \subseteq Nat, NEW n, NEW g, NEW l, Good(D, n, g, l),
         n.now # <<>>, NEW held \in BOOLEAN
  PROVE  Good(D, PacketDequeued([n EXCEPT !.now = Tail(@)], Head(n.now).queue,
                                Head(n.now).bytes, held), g, l)
<1> DEFINE q == Head(n.now).queue
           m == NotifyTransmittedBytes([n EXCEPT !.now = Tail(@)], q, Head(n.now).bytes, held)
           free == [m EXCEPT !.dev[q].byDevice = FALSE]
<1>1. Good(D, m, g, l)
  BY NotifiedGood
<1>2. q \in D
  <2>1. n.now \in Seq([queue : D, bytes : Nat])
    BY DEF Good, Local, Node
  <2>2. Head(n.now) \in [queue : D, bytes : Nat]
    BY <2>1, HeadTailProperties
  <2> QED BY <2>2
<1>3. PacketDequeued([n EXCEPT !.now = Tail(@)], q, Head(n.now).bytes, held) =
        IF WouldOverflow(m, q, 1, Mtu) THEN m
        ELSE IF m.dev[q].byDevice THEN WakeCallback(free) ELSE free
  BY DEF PacketDequeued, Wake
<1> HIDE DEF m, q
<1>4. ~WouldOverflow(m, q, 1, Mtu) => Good(D, free, g, l)
  BY <1>1, <1>2, RoomGood
<1> HIDE DEF free
<1>5. ~WouldOverflow(m, q, 1, Mtu) => Good(D, WakeCallback(free), g, l)
  BY <1>4, CallbackGood
<1> QED BY <1>1, <1>3, <1>4, <1>5 DEF q

-----------------------------------------------------------------------------
(* A packet from IP.                                                       *)

\* Every priority has a band.
LEMMA BandIs ==
  ASSUME NEW a \in 0..15 PROVE prio2band(a) \in Bands
<1> DEFINE t == <<1, 2, 2, 2, 1, 2, 0, 0, 1, 1, 1, 1, 1, 1, 1, 1>>
<1>1. \A i \in 1..16 : t[i] \in 0..2
  OBVIOUS
<1>2. a + 1 \in 1..16
  OBVIOUS
<1> HIDE DEF t
<1>3. t[a + 1] \in 0..2
  BY <1>1, <1>2
<1> QED BY <1>3 DEF prio2band, t, Bands

\* A packet joins its band.
LEMMA JoinsBand ==
  ASSUME NEW D, D \subseteq Nat, NEW n, Local(D, n), NEW g \in Seq(Frame(D)), NEW l,
         Fated(n, l), n.root, NPackets(n) < DiscSize, NEW p \in Packet(D), NEW b \in Bands,
         b = prio2band(p.priority), InHand(Lines(D, n, g), p, <<4, b>>, Out(n, l), n.sent)
  PROVE  Good(D, [n EXCEPT !.bands[b] = Append(@, p)], g, l)
<1> DEFINE i == Append(n.bands[b], p)
           m == [n EXCEPT !.bands[b] = Append(@, p)]
           P == PlacesOf(D)
           L == Lines(D, n, g)
           N == Lines(D, m, g)
           y == <<4, b>>
<1>1. n \in Node(D) /\ n.bands \in [Bands -> Seq(Packet(D))] /\ n.bands[b] \in Seq(Packet(D))
  BY DEF Local, Node
<1>2. /\ i \in Seq(Packet(D)) /\ Len(i) = Len(n.bands[b]) + 1
      /\ n.bands[b] \in Seq(InBand(D, b)) /\ i \in Seq(InBand(D, b))
  <2>1. n.bands[b] \in Seq(InBand(D, b)) /\ p \in InBand(D, b)
    BY DEF Local, Home, InBand
  <2>2. i \in Seq(InBand(D, b))
    BY <2>1, AppendProperties
  <2> QED BY <1>1, <2>1, <2>2, AppendProperties
<1>3. m = [n EXCEPT !.bands = [n.bands EXCEPT ![b] = i]]
  BY <1>1 DEF Node
<1> HIDE DEF i, m
<1>4. [n.bands EXCEPT ![b] = i] \in [Bands -> Seq(Packet(D))]
  BY <1>1, <1>2
<1>5. /\ m \in Node(D) /\ DiscStep(n, m) /\ m.bands = [n.bands EXCEPT ![b] = i]
      /\ m.requeued = n.requeued
  BY <1>1, <1>3, <1>4 DEF Node, DiscStep, SameNode, SameWire
<1>6. m.bands[b] = i /\ \A c \in Bands \ {b} : m.bands[c] = n.bands[c]
  BY <1>1, <1>5
<1>7. Local(D, m)
  <2>1. NPackets(m) = NPackets(n) + 1
    <3> DEFINE a0 == Len(n.bands[0])
               a1 == Len(n.bands[1])
               a2 == Len(n.bands[2])
    <3>1. a0 \in Nat /\ a1 \in Nat /\ a2 \in Nat
      BY <1>1, PacketsOf DEF Bands
    <3> DEFINE c0 == Len(m.bands[0])
               c1 == Len(m.bands[1])
               c2 == Len(m.bands[2])
    <3>2. \A c \in Bands : Len(m.bands[c]) = IF c = b THEN Len(n.bands[c]) + 1 ELSE Len(n.bands[c])
      BY <1>2, <1>6
    <3>3. /\ c0 = IF b = 0 THEN a0 + 1 ELSE a0
          /\ c1 = IF b = 1 THEN a1 + 1 ELSE a1
          /\ c2 = IF b = 2 THEN a2 + 1 ELSE a2
      BY <3>2 DEF Bands
    <3>4. b = 0 \/ b = 1 \/ b = 2
      BY DEF Bands
    <3>5. NPackets(m) = c0 + c1 + c2 /\ NPackets(n) = a0 + a1 + a2
      BY DEF NPackets
    <3> HIDE DEF a0, a1, a2, c0, c1, c2
    <3>6. c0 + c1 + c2 = a0 + a1 + a2 + 1
      BY <3>1, <3>3, <3>4
    <3> QED BY <3>5, <3>6
  <2>2. NPackets(m) =< DiscSize
    <3>1. NPackets(n) \in Nat
      BY <1>1, PacketsOf
    <3> QED BY <2>1, <3>1, Sizes
  <2>3. Disc(m)
    BY <1>5, <2>2 DEF Local, Disc, DiscStep, SameNode
  <2>4. ASSUME NEW c \in Bands PROVE m.bands[c] \in Seq(InBand(D, c))
    BY <1>2, <1>6 DEF Local, Home
  <2> QED BY <1>5, <2>3, <2>4, DiscLocal
<1>8. L \in [P -> Seq(Frame(D))]
  BY <1>1, LinesType
<1>9. P \subseteq Nat \X Nat
  BY PlacesType
<1>10. y \in P /\ DOMAIN N = P /\ DOMAIN L = P /\ L[y] = n.bands[b] /\ N[y] = m.bands[b]
  BY PlaceIs, LineIs
<1>11. Gains(L, y, p, N)
  <2> DEFINE Z == {y}
  <2>1. \A z \in P \ Z : N[z] = L[z]
    <3>1. \A c \in Bands : <<4, c>> \in Z \/ m.bands[c] = n.bands[c]
      BY <1>6
    <3> HIDE DEF Z
    <3>2. AgreeBut(D, n, m, Z)
      BY <1>5, <3>1 DEF AgreeBut, DiscStep, SameWire
    <3> QED BY <3>2, LinesDiffer
  <2>2. N[y] = Append(L[y], p)
    BY <1>6, <1>10 DEF i
  <2> HIDE DEF L, N, P, y
  <2> QED BY <1>10, <2>1, <2>2 DEF Gains, Z
<1> HIDE DEF L, N, P, y
<1>12. InHand(L, p, y, Out(n, l), n.sent) /\ Same(p, p)
  BY DEF L, y, Same
<1>13. p \in Frame(D)
  BY Sizes DEF Packet, Frame
<1>14. Kept(N, Out(n, l), n.sent)
  BY <1>8, <1>9, <1>10, <1>11, <1>12, <1>13, HandedOn
<1>15. Out(m, l) = Out(n, l) /\ m.sent = n.sent /\ Fated(m, l)
  BY <1>5, OutSame DEF DiscStep
<1> QED BY <1>7, <1>14, <1>15 DEF Good, m, N

\* A packet in hand is dropped.
LEMMA DroppedGood ==
  ASSUME NEW D, NEW n, Local(D, n), NEW g \in Seq(Frame(D)), NEW l, NEW p, p.id \in Nat,
         Fated(n, l), p.id \notin Out(n, l), Kept(Lines(D, n, g), Out(n, l) \cup {p.id}, n.sent)
  PROVE  Good(D, [n EXCEPT !.dropped = @ \cup {p.id}], g, l)
<1> DEFINE m == [n EXCEPT !.dropped = @ \cup {p.id}]
<1>1. n \in Node(D)
  BY DEF Local
<1>2. /\ m \in Node(D) /\ m.unit = n.unit /\ m.limited = n.limited /\ m.root = n.root
      /\ m.bands = n.bands /\ m.requeued = n.requeued /\ m.dev = n.dev /\ m.busy = n.busy
      /\ m.now = n.now /\ m.air = n.air /\ m.sent = n.sent
      /\ m.dropped = n.dropped \cup {p.id} /\ m.discarded = n.discarded
      /\ m.abandoned = n.abandoned
  BY <1>1 DEF Node
<1> HIDE DEF m
<1>3. Home(D, m) /\ Disc(m) /\ Wire(m)
  BY <1>1, <1>2 DEF Local, Home, Disc, NPackets, Wire
<1>4. Room(D, m) /\ Limits(D, m)
  BY <1>1, <1>2 DEF Local, Room, Limits, WouldOverflow, Unreported
<1>5. Lines(D, m, g) = Lines(D, n, g)
  BY <1>2 DEF Lines, Line
<1>6. Out(m, l) = Out(n, l) \cup {p.id} /\ Fated(m, l)
  BY <1>2 DEF Out, Fated
<1> QED BY <1>1, <1>2, <1>3, <1>4, <1>5, <1>6 DEF Good, Local, m

\* One more packet is sent, which is nowhere yet.
LEMMA SentIs ==
  ASSUME NEW D, NEW n, NEW g, NEW l, Good(D, n, g, l)
  PROVE  LET m == [n EXCEPT !.sent = @ + 1]
         IN /\ Local(D, m) /\ Lines(D, m, g) = Lines(D, n, g) /\ Out(m, l) = Out(n, l)
            /\ Fated(m, l) /\ m.sent = n.sent + 1 /\ m.root = n.root /\ n.sent \in Nat
<1> DEFINE m == [n EXCEPT !.sent = @ + 1]
<1>1. Local(D, n) /\ Fated(n, l) /\ n \in Node(D) /\ n.sent \in Nat
  BY DEF Good, Local, Node
<1> DEFINE v == n.sent + 1
<1>0. m = [n EXCEPT !.sent = v] /\ v \in Nat
  BY <1>1
<1> HIDE DEF m, v
<1>2. /\ m \in Node(D) /\ m.unit = n.unit /\ m.limited = n.limited /\ m.root = n.root
      /\ m.bands = n.bands /\ m.requeued = n.requeued /\ m.dev = n.dev /\ m.busy = n.busy
      /\ m.now = n.now /\ m.air = n.air /\ m.sent = v
      /\ m.dropped = n.dropped /\ m.discarded = n.discarded
      /\ m.abandoned = n.abandoned
  BY <1>0, <1>1 DEF Node
<1>3. Home(D, m) /\ Disc(m) /\ Wire(m)
  BY <1>1, <1>2 DEF Local, Home, Disc, NPackets, Wire
<1>4. Room(D, m) /\ Limits(D, m)
  BY <1>1, <1>2 DEF Local, Room, Limits, WouldOverflow, Unreported
<1>5. Lines(D, m, g) = Lines(D, n, g)
  BY <1>2 DEF Lines, Line
<1>6. Out(m, l) = Out(n, l) /\ Fated(m, l)
  BY <1>1, <1>2 DEF Out, Fated
<1> QED BY <1>1, <1>2, <1>3, <1>4, <1>5, <1>6 DEF Local, m, v

\* A packet from IP.
LEMMA SendKeeps ==
  ASSUME NEW D, D \subseteq Nat, NEW n, NEW g, NEW l, Good(D, n, g, l),
         NEW kind \in Kinds, NEW q \in D
  PROVE  LET p == [id |-> n.sent + 1, priority |-> kind.priority, size |-> kind.size,
                   txq |-> q]
             m == [n EXCEPT !.sent = @ + 1]
         IN /\ m.root => Good(D, Enqueue(m, p), g, l)
            /\ ~m.root /\ ~IsStopped(m, q) => Good(D, DeviceSend(m, q, p), g, l)
            /\ Good(D, [m EXCEPT !.dropped = @ \cup {p.id}], g, l)
<1> DEFINE p == [id |-> n.sent + 1, priority |-> kind.priority, size |-> kind.size, txq |-> q]
           m == [n EXCEPT !.sent = @ + 1]
           L == Lines(D, m, g)
           P == PlacesOf(D)
           b == prio2band(p.priority)
<1>1. /\ Local(D, m) /\ L = Lines(D, n, g) /\ Out(m, l) = Out(n, l)
      /\ Fated(m, l) /\ m.sent = n.sent + 1 /\ m.root = n.root /\ n.sent \in Nat
  BY SentIs
<1>2. g \in Seq(Frame(D)) /\ Kept(L, Out(m, l), n.sent) /\ m \in Node(D)
  BY <1>1 DEF Good, Local
<1>3. p \in Packet(D) /\ p.id = n.sent + 1 /\ p.txq = q /\ p.id \in Nat
  <2>1. kind.priority \in 0..15 /\ kind.size \in 1..Mtu
    BY TransmitAssumption
  <2> QED BY <1>1, <2>1 DEF Packet
<1>4. b \in Bands
  BY <1>3, BandIs DEF Packet
<1>5. L \in [P -> Seq(Frame(D))]
  BY <1>2, LinesType
<1> HIDE DEF m, p, b
<1>6. InHand(L, p, <<4, b>>, Out(m, l), m.sent)
  <2>1. ASSUME NEW z \in P, NEW i \in 1..Len(L[z]) PROVE ~(<<4, b>>[1] < z[1])
    <3>1. z[1] \in {0, 1, 2, 3, 4}
      <4>1. CASE z \in {<<0, 0>>, <<1, 0>>, <<3, 0>>}
        BY <4>1
      <4>2. ASSUME NEW k \in D, z = <<2, k>> PROVE z[1] = 2
        BY <4>2
      <4>3. ASSUME NEW c \in Bands, z = <<4, c>> PROVE z[1] = 4
        BY <4>3
      <4> QED BY <4>1, <4>2, <4>3, PlaceIs
    <3> QED BY <3>1
  <2> DEFINE y == <<4, b>>
  <2>2. \A z \in P : \A i \in 1..Len(L[z]) : Same(L[z][i], p) => ~(y[1] < z[1])
    BY <2>1
  <2> HIDE DEF L, y, P
  <2>3. InHand(L, p, y, Out(m, l), n.sent + 1)
    BY <1>1, <1>2, <1>3, <1>5, <2>2, NewInHand
  <2> QED BY <1>1, <2>3 DEF y
<1>7. ~m.root => InHand(L, p, <<2, q>>, Out(m, l), m.sent)
  <2>1. SUFFICES ASSUME ~m.root PROVE InHand(L, p, <<2, q>>, Out(m, l), m.sent)
    OBVIOUS
  <2>2. m.requeued = <<>> /\ \A c \in Bands : m.bands[c] = <<>>
    BY <1>1, <2>1 DEF Local, Disc
  <2>3. ASSUME NEW z \in P, NEW i \in 1..Len(L[z]) PROVE ~(<<2, q>>[1] < z[1])
    <3>1. CASE z \in {<<0, 0>>, <<1, 0>>}
      BY <3>1
    <3>2. ASSUME NEW k \in D, z = <<2, k>> PROVE z[1] = 2
      BY <3>2
    <3>3. z # <<3, 0>>
      <4>1. L[<<3, 0>>] = <<>>
        BY <2>2, LineIs
      <4> QED BY <2>3, <4>1
    <3>4. ASSUME NEW c \in Bands, z = <<4, c>> PROVE FALSE
      <4>1. L[z] = <<>>
        BY <2>2, <3>4, LineIs
      <4> QED BY <2>3, <4>1
    <3> QED BY <3>1, <3>2, <3>3, <3>4, PlaceIs
  <2> DEFINE y == <<2, q>>
  <2>4. \A z \in P : \A i \in 1..Len(L[z]) : Same(L[z][i], p) => ~(y[1] < z[1])
    BY <2>3
  <2> HIDE DEF L, y, P
  <2>5. InHand(L, p, y, Out(m, l), n.sent + 1)
    BY <1>1, <1>2, <1>3, <1>5, <2>4, NewInHand
  <2> QED BY <1>1, <2>5 DEF y
<1>8. Good(D, [m EXCEPT !.dropped = @ \cup {p.id}], g, l)
  <2>1. Kept(Lines(D, m, g), Out(m, l) \cup {p.id}, m.sent) /\ p.id \notin Out(m, l)
    BY <1>6 DEF InHand
  <2> QED BY <1>1, <1>2, <1>3, <2>1, DroppedGood
<1>9. m.root => Good(D, Enqueue(m, p), g, l)
  <2>1. CASE NPackets(m) >= DiscSize
    BY <1>8, <2>1 DEF Enqueue
  <2>2. CASE ~(NPackets(m) >= DiscSize)
    <3>1. NPackets(m) < DiscSize
      BY <1>2, <2>2, PacketsOf, Sizes
    <3>2. m.root => Good(D, [m EXCEPT !.bands[b] = Append(@, p)], g, l)
      BY <1>1, <1>2, <1>3, <1>4, <1>6, <3>1, JoinsBand DEF b
    <3> QED BY <2>2, <3>2 DEF Enqueue, b
  <2> QED BY <2>1, <2>2
<1>10. ~m.root /\ ~IsStopped(m, q) => Good(D, DeviceSend(m, q, p), g, l)
  BY <1>1, <1>2, <1>3, <1>7, SendGood
<1> QED BY <1>8, <1>9, <1>10 DEF m, p

-----------------------------------------------------------------------------
(* The end of a transmission, an arrival and the end of the queue disc.    *)

\* The transmitter is done.
LEMMA IdleGood ==
  ASSUME NEW D, NEW n, NEW g, NEW l, Good(D, n, g, l), n.now = <<>>
  PROVE  Good(D, [n EXCEPT !.busy = FALSE], g, l)
<1> DEFINE m == [n EXCEPT !.busy = FALSE]
<1>1. Local(D, n) /\ n \in Node(D)
  BY DEF Good, Local
<1>2. /\ m \in Node(D) /\ m.dev = n.dev /\ m.now = n.now
      /\ SameNode(n, m) /\ SameDisc(n, m) /\ m.air = n.air /\ m.discarded = n.discarded
  BY <1>1 DEF Node, SameNode, SameDisc
<1> HIDE DEF m
<1>3. m.unit = n.unit /\ m.limited = n.limited
  BY <1>2 DEF SameNode
<1>4. Wire(m)
  BY <1>1, <1>2 DEF Local, Wire
<1>5. Limits(D, m)
  BY <1>1, <1>2, <1>3 DEF Local, Limits, Unreported
<1>6. ASSUME n.unit = "packets", NEW k \in D
      PROVE  m.dev[k].byDevice \/ ~WouldOverflow(m, k, 1, Mtu)
  <2>1. WouldOverflow(m, k, 1, Mtu) <=> WouldOverflow(n, k, 1, Mtu)
    <3>1. m.unit = n.unit /\ m.dev[k].items = n.dev[k].items
      BY <1>2, <1>3
    <3> QED BY <3>1 DEF WouldOverflow
  <2>2. n.dev[k].byDevice \/ ~WouldOverflow(n, k, 1, Mtu)
    BY <1>1, <1>6 DEF Local, Room
  <2> QED BY <1>2, <2>1, <2>2
<1>7. NoPacketMoves(D, n, m)
  BY <1>2 DEF NoPacketMoves
<1> QED BY <1>2, <1>4, <1>5, <1>6, <1>7, StillGood DEF m

\* A packet leaves the wire.
LEMMA ReceiveKeeps ==
  ASSUME NEW D, D \subseteq Nat, NEW n, NEW g, NEW l, Good(D, n, g, l), n.air # <<>>
  PROVE  LET m == [n EXCEPT !.air = Tail(@)]
         IN /\ Good(D, m, Append(g, Head(n.air)), l)
            /\ Good(D, m, g, l \cup {Head(n.air).id})
<1> DEFINE t == Tail(n.air)
           m == [n EXCEPT !.air = Tail(@)]
           p == Head(n.air)
           h == Append(g, p)
           P == PlacesOf(D)
           L == Lines(D, n, g)
           M == Lines(D, m, g)
           N == Lines(D, m, h)
           x == <<1, 0>>
           y == <<0, 0>>
<1>1. /\ Local(D, n) /\ Fated(n, l) /\ n \in Node(D) /\ g \in Seq(Frame(D))
      /\ Kept(L, Out(n, l), n.sent)
      /\ n.air \in Seq(Frame(D)) /\ n.sent \in Nat
  BY DEF Good, Local, Node
<1>2. /\ t \in Seq(Frame(D)) /\ p \in Frame(D) /\ h \in Seq(Frame(D)) /\ p = n.air[1]
  <2>1. t \in Seq(Frame(D)) /\ p \in Frame(D) /\ p = n.air[1]
    BY <1>1, HeadTailProperties
  <2> HIDE DEF p
  <2>2. h \in Seq(Frame(D))
    BY <1>1, <2>1, AppendProperties
  <2> QED BY <2>1, <2>2
<1>3. m = [n EXCEPT !.air = t]
  OBVIOUS
<1> HIDE DEF m, t, p
<1>4. /\ m \in Node(D) /\ m.unit = n.unit /\ m.limited = n.limited /\ m.root = n.root
      /\ m.bands = n.bands /\ m.requeued = n.requeued /\ m.dev = n.dev /\ m.busy = n.busy
      /\ m.now = n.now /\ m.air = t /\ m.sent = n.sent
      /\ m.dropped = n.dropped /\ m.discarded = n.discarded
      /\ m.abandoned = n.abandoned
  BY <1>1, <1>2, <1>3 DEF Node
<1>5. Local(D, m)
  <2>1. Home(D, m) /\ Disc(m) /\ Wire(m)
    BY <1>1, <1>4 DEF Local, Home, Disc, NPackets, Wire
  <2>2. Room(D, m) /\ Limits(D, m)
    BY <1>1, <1>4 DEF Local, Room, Limits, WouldOverflow, Unreported
  <2> QED BY <1>4, <2>1, <2>2 DEF Local
<1>6. L \in [P -> Seq(Frame(D))]
  BY <1>1, LinesType
<1>7. P \subseteq Nat \X Nat
  BY PlacesType
<1>8. /\ x \in P /\ y \in P /\ DOMAIN L = P /\ DOMAIN M = P /\ DOMAIN N = P
      /\ L[x] = n.air /\ M[x] = m.air /\ N[x] = m.air /\ L[y] = g /\ N[y] = h
  <2>1. x \in P /\ y \in P
    BY PlaceIs
  <2>2. DOMAIN L = P /\ L[x] = n.air /\ L[y] = g
    BY LineIs
  <2>3. DOMAIN M = P /\ M[x] = m.air
    BY LineIs
  <2>4. DOMAIN N = P /\ N[x] = m.air /\ N[y] = h
    <3> HIDE DEF h
    <3> QED BY LineIs
  <2> QED BY <2>1, <2>2, <2>3, <2>4
<1>9. \A z \in P : z # x => M[z] = L[z]
  <2> DEFINE Z == {x}
  <2>1. \A z \in P \ Z : M[z] = L[z]
    <3>1. <<1, 0>> \in Z
      OBVIOUS
    <3> HIDE DEF Z
    <3>2. AgreeBut(D, n, m, Z)
      BY <1>4, <3>1 DEF AgreeBut
    <3> QED BY <3>2, LinesDiffer
  <2> QED BY <2>1
<1>10. \A z \in P : z # y => N[z] = M[z]
  BY DEF Lines, Line, PlacesOf, Bands
<1>11. Loses(L, x, M)
  <2>1. M[x] = Tail(L[x])
    BY <1>4, <1>8 DEF t
  <2> HIDE DEF L, M, P, x
  <2> QED BY <1>8, <1>9, <2>1 DEF Loses
<1>12. Hands(L, x, y, N)
  <2>1. N[x] = Tail(L[x]) /\ N[y] = Append(L[y], L[x][1])
    BY <1>2, <1>4, <1>8 DEF t
  <2>2. \A z \in P : z = x \/ z = y \/ N[z] = L[z]
    BY <1>9, <1>10
  <2> HIDE DEF L, N, P, x, y
  <2> QED BY <1>8, <2>1, <2>2 DEF Hands
<1>13. Clear(L, x, y)
  <2>1. ASSUME NEW z \in P, z # x PROVE z[1] =< y[1] \/ x[1] < z[1]
    <3>1. CASE z \in {<<0, 0>>, <<3, 0>>}
      BY <3>1
    <3>2. ASSUME NEW k \in D, z = <<2, k>> PROVE x[1] < z[1]
      BY <3>2
    <3>3. ASSUME NEW b \in Bands, z = <<4, b>> PROVE x[1] < z[1]
      BY <3>3
    <3> QED BY <2>1, <3>1, <3>2, <3>3, PlaceIs
  <2> HIDE DEF L, P, x, y
  <2> QED BY <1>8, <2>1 DEF Clear
<1>14. L[x] # <<>> /\ y[1] < x[1] /\ L[x][1] = p
  BY <1>2, <1>8
<1> HIDE DEF L, M, N, P, x, y
<1>15. Kept(N, Out(n, l), n.sent)
  BY <1>1, <1>6, <1>7, <1>8, <1>12, <1>13, <1>14, Moved
<1>16. Kept(M, Out(n, l) \cup {p.id}, n.sent) /\ p.id \notin Out(n, l)
  <2>1. InHand(M, L[x][1], y, Out(n, l), n.sent)
    BY <1>1, <1>6, <1>7, <1>8, <1>11, <1>13, <1>14, TakenInHand
  <2> QED BY <1>14, <2>1 DEF InHand
<1>17. /\ Out(m, l) = Out(n, l) /\ Out(m, l \cup {p.id}) = Out(n, l) \cup {p.id}
       /\ Fated(m, l) /\ Fated(m, l \cup {p.id})
  BY <1>1, <1>4, <1>16 DEF Out, Fated
<1>18. Good(D, m, h, l)
  BY <1>2, <1>4, <1>5, <1>15, <1>17 DEF Good, N
<1>19. Good(D, m, g, l \cup {p.id})
  BY <1>1, <1>4, <1>5, <1>16, <1>17 DEF Good, M
<1> QED BY <1>18, <1>19 DEF m, p

\* The queue disc is deleted with what it holds.
LEMMA DeleteKeeps ==
  ASSUME NEW D, D \subseteq Nat, NEW n, NEW g, NEW l, Good(D, n, g, l), n.root
  PROVE  Good(D, [n EXCEPT !.root = FALSE, !.ranOut = FALSE, !.requeued = <<>>,
                           !.bands = [b \in Bands |-> <<>>],
                           !.abandoned = Ids(n.requeued)
                                         \cup UNION {Ids(n.bands[b]) : b \in Bands}], g, l)
<1> DEFINE gone == Ids(n.requeued) \cup UNION {Ids(n.bands[b]) : b \in Bands}
           m == [n EXCEPT !.root = FALSE, !.ranOut = FALSE, !.requeued = <<>>,
                          !.bands = [b \in Bands |-> <<>>],
                          !.abandoned = Ids(n.requeued)
                                        \cup UNION {Ids(n.bands[b]) : b \in Bands}]
           P == PlacesOf(D)
           Z == {<<3, 0>>} \cup ({4} \X Bands)
           L == Lines(D, n, g)
           M == Lines(D, m, g)
<1>1. /\ Local(D, n) /\ Fated(n, l) /\ n \in Node(D) /\ g \in Seq(Frame(D))
      /\ Kept(L, Out(n, l), n.sent)
  BY DEF Good, Local
<1>2. L \in [P -> Seq(Frame(D))]
  BY <1>1, LinesType
<1>3. DOMAIN L = P /\ DOMAIN M = P /\ Z \subseteq P
  BY LineIs DEF PlacesOf
<1>4. UNION {Ids(L[z]) : z \in Z} = gone
  <2>1. ASSUME NEW z \in Z, NEW v \in Ids(L[z]) PROVE v \in gone
    <3>1. CASE z = <<3, 0>>
      BY <2>1, <3>1, LineIs
    <3>2. ASSUME NEW b \in Bands, z = <<4, b>> PROVE v \in gone
      BY <2>1, <3>2, LineIs
    <3> QED BY <3>1, <3>2
  <2>2. ASSUME NEW v \in gone PROVE \E z \in Z : v \in Ids(L[z])
    <3>1. CASE v \in Ids(n.requeued)
      BY <3>1, LineIs
    <3>2. ASSUME NEW b \in Bands, v \in Ids(n.bands[b]) PROVE \E z \in Z : v \in Ids(L[z])
      <4>1. L[<<4, b>>] = n.bands[b] /\ <<4, b>> \in Z
        BY LineIs
      <4> QED BY <3>2, <4>1
    <3> QED BY <2>2, <3>1, <3>2
  <2> HIDE DEF gone, Z, L
  <2> QED BY <2>1, <2>2
<1>5. gone \subseteq AllIds(L)
  BY <1>3, <1>4 DEF AllIds
<1>6. gone \subseteq Nat
  <2>1. AllIds(L) \subseteq 1..n.sent
    BY <1>1 DEF Kept
  <2> HIDE DEF gone, L
  <2> QED BY <1>5, <2>1
<1>7. m = [n EXCEPT !.root = FALSE, !.ranOut = FALSE, !.requeued = <<>>,
                    !.bands = [b \in Bands |-> <<>>], !.abandoned = gone]
  OBVIOUS
<1> HIDE DEF m, gone
<1>8. /\ m \in Node(D) /\ m.unit = n.unit /\ m.limited = n.limited /\ m.root = FALSE
      /\ m.bands = [b \in Bands |-> <<>>] /\ m.requeued = <<>> /\ m.dev = n.dev
      /\ m.busy = n.busy /\ m.now = n.now /\ m.air = n.air /\ m.sent = n.sent
      /\ m.dropped = n.dropped /\ m.discarded = n.discarded /\ m.abandoned = gone
  <2>1. <<>> \in Seq(Packet(D))
    BY EmptySeq
  <2>2. [b \in Bands |-> <<>>] \in [Bands -> Seq(Packet(D))]
    BY <2>1
  <2> DEFINE e == [b \in Bands |-> <<>>]
  <2>4. m = [n EXCEPT !.root = FALSE, !.ranOut = FALSE, !.requeued = <<>>,
                      !.bands = e, !.abandoned = gone]
    BY <1>7
  <2>5. e \in [Bands -> Seq(Packet(D))] /\ gone \in SUBSET Nat
    BY <1>6, <2>2
  <2> HIDE DEF e
  <2>6. /\ m \in Node(D) /\ m.unit = n.unit /\ m.limited = n.limited /\ m.root = FALSE
        /\ m.bands = e /\ m.requeued = <<>> /\ m.dev = n.dev
        /\ m.busy = n.busy /\ m.now = n.now /\ m.air = n.air /\ m.sent = n.sent
        /\ m.dropped = n.dropped /\ m.discarded = n.discarded /\ m.abandoned = gone
    BY <1>1, <2>1, <2>4, <2>5 DEF Node
  <2> QED BY <2>6 DEF e
<1>9. Local(D, m)
  <2>1. \A b \in Bands : m.bands[b] = <<>>
    BY <1>8
  <2>2. \A b \in Bands : m.bands[b] \in Seq(InBand(D, b))
    BY <2>1, EmptySeq
  <2>3. Home(D, m) /\ Wire(m)
    BY <1>1, <1>8, <2>2 DEF Local, Home, Wire
  <2>4. Disc(m)
    <3>1. NPackets(m) = 0
      <4>1. Len(m.bands[0]) = 0 /\ Len(m.bands[1]) = 0 /\ Len(m.bands[2]) = 0
        BY <2>1 DEF Bands
      <4> QED BY <4>1 DEF NPackets
    <3>2. Len(m.requeued) = 0
      BY <1>8
    <3> QED BY <1>8, <2>1, <3>1, <3>2, Sizes DEF Disc
  <2>5. Room(D, m) /\ Limits(D, m)
    BY <1>1, <1>8 DEF Local, Room, Limits, WouldOverflow, Unreported
  <2> QED BY <1>8, <2>3, <2>4, <2>5 DEF Local
<1>10. \A z \in P \ Z : M[z] = L[z]
  <2>1. <<3, 0>> \in Z /\ \A b \in Bands : <<4, b>> \in Z
    OBVIOUS
  <2> HIDE DEF Z
  <2>2. AgreeBut(D, n, m, Z)
    BY <1>8, <2>1 DEF AgreeBut
  <2> QED BY <2>2, LinesDiffer
<1>11. \A z \in Z : M[z] = <<>>
  <2>1. M[<<3, 0>>] = <<>>
    BY <1>8, LineIs
  <2>2. ASSUME NEW b \in Bands PROVE M[<<4, b>>] = <<>>
    <3>1. m.bands[b] = <<>>
      BY <1>8
    <3> QED BY <3>1, LineIs
  <2> HIDE DEF M
  <2> QED BY <2>1, <2>2
<1> HIDE DEF L, M, P, Z
<1>12. /\ Scattered(M) /\ Ordered(M)
       /\ AllIds(M) = AllIds(L) \ gone
  <2>1. Scattered(L) /\ Ordered(L)
    BY <1>1 DEF Kept
  <2>2. Empties(L, Z, M)
    BY <1>3, <1>10, <1>11 DEF Empties
  <2>3. /\ Scattered(L) => Scattered(M) /\ AllIds(M) = AllIds(L) \ UNION {Ids(L[z]) : z \in Z}
        /\ Ordered(L) => Ordered(M)
    BY <1>2, <1>3, <2>2, Emptied
  <2> QED BY <1>4, <2>1, <2>3
<1>13. Out(m, l) = Out(n, l) \cup gone /\ Fated(m, l)
  <2>1. n.abandoned = {}
    BY <1>1 DEF Fated
  <2>2. gone \cap Out(n, l) = {}
    BY <1>1, <1>5 DEF Kept
  <2> QED BY <1>1, <1>8, <2>1, <2>2 DEF Out, Fated
<1>14. Kept(M, Out(m, l), n.sent)
  <2>1. AllIds(M) = AllIds(L) \ gone
    BY <1>12
  <2> QED BY <1>1, <1>5, <1>12, <1>13, <2>1 DEF Kept
<1> QED BY <1>1, <1>8, <1>9, <1>13, <1>14 DEF Good, M, m

-----------------------------------------------------------------------------
(* The invariant.                                                          *)

\* The inductive invariant: one number of device queues, and all in order.
PathInv == \E k \in QueueCounts : Good(0..(k - 1), s, got, lost)

\* The numbers of the device queues.
LEMMA Queues == ASSUME NEW k \in QueueCounts PROVE 0..(k - 1) \subseteq Nat /\ k \in Nat
BY TransmitAssumption

\* Nothing has been sent.
LEMMA InitGood == Init => PathInv
<1>1. SUFFICES ASSUME Init PROVE PathInv
  OBVIOUS
<1>2. PICK u \in Units, b \in Limited, k \in QueueCounts, quota \in Quotas :
        s = [unit |-> u, limited |-> b, quota |-> quota, root |-> TRUE,
             bands |-> [i \in Bands |-> <<>>], requeued |-> <<>>, ranOut |-> FALSE,
             dev |-> [q \in 0..(k - 1) |-> Queue],
             busy |-> FALSE, now |-> <<>>, air |-> <<>>, sent |-> 0,
             dropped |-> {}, discarded |-> {}, abandoned |-> {}]
  BY <1>1 DEF Init
<1> DEFINE D == 0..(k - 1)
           P == PlacesOf(D)
           L == Lines(D, s, got)
<1>3. D \subseteq Nat /\ quota \in Nat \ {0} /\ b \in BOOLEAN
  BY TransmitAssumption
<1> HIDE DEF D
<1>4. /\ s.unit = u /\ s.limited = b /\ s.quota = quota /\ s.root = TRUE
      /\ s.bands = [i \in Bands |-> <<>>] /\ s.requeued = <<>> /\ s.ranOut = FALSE
      /\ s.dev = [q \in D |-> Queue] /\ s.busy = FALSE /\ s.now = <<>> /\ s.air = <<>>
      /\ s.sent = 0 /\ s.dropped = {} /\ s.discarded = {} /\ s.abandoned = {}
  BY <1>2 DEF D
<1>5. got = <<>> /\ lost = {}
  BY <1>1 DEF Init
<1>6. Queue \in DeviceQueue(D)
  <2>1. ResetLimits \in LimitRecord
    BY DEF ResetLimits, LimitRecord, NoSlack
  <2>2. <<>> \in Seq(Frame(D))
    BY EmptySeq
  <2> QED BY <2>1, <2>2 DEF Queue, DeviceQueue
<1>7. s \in Node(D)
  <2>1. <<>> \in Seq(Packet(D)) /\ <<>> \in Seq(Frame(D)) /\ <<>> \in Seq([queue : D, bytes : Nat])
    BY EmptySeq
  <2>2. [i \in Bands |-> <<>>] \in [Bands -> Seq(Packet(D))]
    BY <2>1
  <2>3. [q \in D |-> Queue] \in [D -> DeviceQueue(D)]
    BY <1>6
  <2> DEFINE e == [i \in Bands |-> <<>>]
             d == [q \in D |-> Queue]
  <2>4. s = [unit |-> u, limited |-> b, quota |-> quota, root |-> TRUE,
             bands |-> e, requeued |-> <<>>, ranOut |-> FALSE, dev |-> d,
             busy |-> FALSE, now |-> <<>>, air |-> <<>>, sent |-> 0,
             dropped |-> {}, discarded |-> {}, abandoned |-> {}]
    BY <1>2 DEF D
  <2> HIDE DEF e, d
  <2> QED BY <1>3, <2>1, <2>2, <2>3, <2>4 DEF Node, e, d
<1>8. /\ \A i \in Bands : s.bands[i] = <<>>
      /\ \A q \in D : /\ s.dev[q].items = <<>> /\ s.dev[q].byLimits = FALSE
                      /\ s.dev[q].limits = ResetLimits
  BY <1>4 DEF Queue
<1>9. Home(D, s)
  BY <1>8, EmptySeq DEF Home
<1>10. Disc(s)
  <2>1. Len(s.bands[0]) = 0 /\ Len(s.bands[1]) = 0 /\ Len(s.bands[2]) = 0 /\ Len(s.requeued) = 0
    BY <1>4, <1>8 DEF Bands
  <2>2. NPackets(s) = 0
    BY <2>1 DEF NPackets
  <2>3. s.root
    BY <1>4
  <2> QED BY <2>1, <2>2, <2>3, Sizes DEF Disc
<1>11. Room(D, s)
  <2>1. ASSUME NEW q \in D
        PROVE  ~WouldOverflow(s, q, 0, 0) /\ (s.unit = "packets" => ~WouldOverflow(s, q, 1, Mtu))
    <3>1. Len(s.dev[q].items) = 0 /\ Bytes(s.dev[q].items) = 0
      BY <1>8, BytesEmpty
    <3>2. DeviceSize[s.unit] \in Nat /\ DeviceSize[s.unit] > 0
      BY <1>4, Sizes
    <3> QED BY <3>1, <3>2 DEF WouldOverflow
  <2> QED BY <1>4, <2>1 DEF Room
<1>12. Wire(s)
  BY <1>4 DEF Wire
<1>13. Limits(D, s)
  <2>1. ASSUME NEW q \in D
        PROVE  LET l == s.dev[q].limits
               IN /\ l.queued - l.completed = Bytes(s.dev[q].items) + Unreported(s, q)
                  /\ s.dev[q].byLimits => Available(l) < 0
    <3>1. Bytes(s.dev[q].items) = 0
      BY <1>8, BytesEmpty
    <3>2. Unreported(s, q) = 0
      <4>1. s.now = <<>> /\ s.now \in Seq([queue : D, bytes : Nat])
        BY <1>4, <1>7 DEF Node
      <4> QED BY <4>1, UnreportedIs
    <3>3. s.dev[q].limits.queued = 0 /\ s.dev[q].limits.completed = 0
      BY <1>8 DEF ResetLimits
    <3> QED BY <1>8, <3>1, <3>2, <3>3
  <2> QED BY <2>1 DEF Limits
<1>14. \A z \in P : L[z] = <<>>
  <2>1. L[<<0, 0>>] = <<>> /\ L[<<1, 0>>] = <<>> /\ L[<<3, 0>>] = <<>>
    BY <1>4, <1>5, LineIs
  <2>2. ASSUME NEW q \in D PROVE L[<<2, q>>] = <<>>
    BY <1>8, LineIs
  <2>3. ASSUME NEW i \in Bands PROVE L[<<4, i>>] = <<>>
    BY <1>8, LineIs
  <2> HIDE DEF L
  <2> QED BY <2>1, <2>2, <2>3, PlaceIs
<1>15. DOMAIN L = P
  BY LineIs
<1> HIDE DEF L, P
<1>16. \A z \in DOMAIN L : 1..Len(L[z]) = {}
  <2>1. Len(<<>>) = 0 /\ 1..0 = {}
    BY EmptySeq
  <2> QED BY <1>14, <1>15, <2>1
<1>17. Kept(L, Out(s, lost), s.sent)
  <2>1. Scattered(L)
    BY <1>16 DEF Scattered
  <2>2. Ordered(L)
    BY <1>16 DEF Ordered
  <2>3. AllIds(L) = {}
    BY <1>16, IdIn
  <2>4. Out(s, lost) = {} /\ 1..s.sent = {}
    BY <1>4, <1>5 DEF Out
  <2> QED BY <2>1, <2>2, <2>3, <2>4 DEF Kept
<1>18. Good(D, s, got, lost)
  <2>1. got \in Seq(Frame(D))
    BY <1>5, EmptySeq
  <2>2. Fated(s, lost)
    BY <1>4, <1>5 DEF Fated
  <2> QED BY <1>7, <1>9, <1>10, <1>11, <1>12, <1>13, <1>17, <2>1, <2>2 DEF Good, Local, L
<1> QED BY <1>18 DEF PathInv, D

\* Every step keeps the invariant.
LEMMA StepsGood == PathInv /\ [Next]_vars => PathInv'
<1>1. SUFFICES ASSUME PathInv, [Next]_vars PROVE PathInv'
  OBVIOUS
<1>2. PICK c \in QueueCounts : Good(0..(c - 1), s, got, lost)
  BY <1>1 DEF PathInv
<1> DEFINE D == 0..(c - 1)
<1>3. D \subseteq Nat
  BY Queues
<1> HIDE DEF D
<1>4. Good(D, s, got, lost)
  BY <1>2 DEF D
<1>5. DOMAIN s.dev = D /\ s.air \in Seq(Frame(D)) /\ s.now \in Seq([queue : D, bytes : Nat])
  BY <1>4 DEF Good, Local, Node
<1>6. SUFFICES Good(D, s', got', lost')
  BY DEF PathInv, D
<1>7. CASE Send
  <2>1. PICK kind \in Kinds, q \in D :
          LET p == [id |-> s.sent + 1, priority |-> kind.priority, size |-> kind.size, txq |-> q]
              n == [s EXCEPT !.sent = @ + 1]
          IN s' = CASE s.root -> Run(Enqueue(n, p))
                    [] ~s.root /\ ~IsStopped(n, q) -> DeviceSend(n, q, p)
                    [] ~s.root /\ IsStopped(n, q) -> [n EXCEPT !.dropped = @ \cup {p.id}]
    <3>1. IsStopped(s, 0) = IsStopped(s, 0)
      OBVIOUS
    <3> QED BY <1>5, <1>7 DEF Send
  <2> DEFINE p == [id |-> s.sent + 1, priority |-> kind.priority, size |-> kind.size, txq |-> q]
             n == [s EXCEPT !.sent = @ + 1]
  <2>2. /\ n.root => Good(D, Enqueue(n, p), got, lost)
        /\ ~n.root /\ ~IsStopped(n, q) => Good(D, DeviceSend(n, q, p), got, lost)
        /\ Good(D, [n EXCEPT !.dropped = @ \cup {p.id}], got, lost)
    BY <1>3, <1>4, SendKeeps
  <2>3. n.root = s.root
    BY <1>4 DEF Good, Local, Node
  <2>4. s' = CASE s.root -> Run(Enqueue(n, p))
               [] ~s.root /\ ~IsStopped(n, q) -> DeviceSend(n, q, p)
               [] ~s.root /\ IsStopped(n, q) -> [n EXCEPT !.dropped = @ \cup {p.id}]
    BY <2>1
  <2> HIDE DEF n, p
  <2>5. UNCHANGED <<got, lost>>
    BY <1>7 DEF Send
  <2>6. CASE s.root
    <3>1. s' = Run(Enqueue(n, p))
      BY <2>4, <2>6
    <3>2. Good(D, Run(Enqueue(n, p)), got, lost)
      BY <1>3, <2>2, <2>3, <2>6, RunGood
    <3> QED BY <2>5, <3>1, <3>2
  <2>7. CASE ~s.root /\ ~IsStopped(n, q)
    <3>1. s' = DeviceSend(n, q, p)
      BY <2>4, <2>7
    <3> QED BY <2>2, <2>3, <2>5, <2>7, <3>1
  <2>8. CASE ~s.root /\ IsStopped(n, q)
    <3>1. s' = [n EXCEPT !.dropped = @ \cup {p.id}]
      BY <2>4, <2>8
    <3> QED BY <2>2, <2>5, <3>1
  <2> QED BY <2>6, <2>7, <2>8
<1>8. CASE Now
  <2>1. s.now # <<>>
    BY <1>8 DEF Now
  <2>2. PICK held \in BOOLEAN :
          s' = PacketDequeued([s EXCEPT !.now = Tail(@)], Head(s.now).queue,
                              Head(s.now).bytes, held)
    BY <1>8 DEF Now
  <2>3. UNCHANGED <<got, lost>>
    BY <1>8 DEF Now
  <2> QED BY <1>3, <1>4, <2>1, <2>2, <2>3, DequeuedGood
<1>9. CASE TransmitComplete
  <2> DEFINE idle == [s EXCEPT !.busy = FALSE]
  <2>1. s.now = <<>> /\ UNCHANGED <<got, lost>>
    BY <1>9 DEF TransmitComplete
  <2>2. Good(D, idle, got, lost)
    BY <1>4, <2>1, IdleGood
  <2>3. idle.dev = s.dev /\ ~idle.busy
    BY <1>4 DEF Good, Local, Node
  <2>4. s' = idle \/ \E q \in D : s.dev[q].items # <<>> /\ s' = TransmitStart(idle, q)
    BY <1>5, <1>9 DEF TransmitComplete
  <2> HIDE DEF idle
  <2> QED BY <1>3, <2>1, <2>2, <2>3, <2>4, StartGood
<1>10. CASE Receive
  <2>1. s.air # <<>>
    <3>1. Len(s.air) > Len(s.now) /\ Len(s.now) \in Nat /\ Len(s.air) \in Nat
      BY <1>5, <1>10, LenProperties DEF Receive
    <3> QED BY <3>1, EmptySeq
  <2> DEFINE m == [s EXCEPT !.air = Tail(@)]
  <2>2. Good(D, m, Append(got, Head(s.air)), lost) /\ Good(D, m, got, lost \cup {Head(s.air).id})
    BY <1>3, <1>4, <2>1, ReceiveKeeps
  <2>3. /\ s' = m
        /\ \/ got' = Append(got, Head(s.air)) /\ lost' = lost
           \/ got' = got /\ lost' = lost \cup {Head(s.air).id}
    BY <1>10 DEF Receive
  <2> HIDE DEF m
  <2> QED BY <2>2, <2>3
<1>11. CASE DeleteRoot
  <2> DEFINE m == [s EXCEPT !.root = FALSE, !.ranOut = FALSE, !.requeued = <<>>,
                            !.bands = [b \in Bands |-> <<>>],
                            !.abandoned = Ids(s.requeued)
                                          \cup UNION {Ids(s.bands[b]) : b \in Bands}]
  <2>1. s' = m /\ s.root /\ UNCHANGED <<got, lost>>
    BY <1>11 DEF DeleteRoot
  <2>2. Good(D, m, got, lost)
    BY <1>3, <1>4, <2>1, DeleteKeeps
  <2> HIDE DEF m
  <2> QED BY <2>1, <2>2
<1>12. CASE UNCHANGED vars
  BY <1>4, <1>12 DEF vars
<1> QED BY <1>1, <1>7, <1>8, <1>9, <1>10, <1>11, <1>12 DEF Next

\* The inductive invariant holds for any number of device queues and packets, any sizes,
\* quotas and limits.
THEOREM Invariance == Spec => []PathInv
BY InitGood, StepsGood, PTL DEF Spec

\* What the invariant says of the variables.
LEMMA Unfolded ==
  ASSUME NEW k \in QueueCounts, Good(0..(k - 1), s, got, lost)
  PROVE  LET D == 0..(k - 1)
             L == Lines(D, s, got)
         IN /\ Local(D, s) /\ DOMAIN s.dev = D /\ D \subseteq Nat /\ s.sent \in Nat
            /\ Places(s) = PlacesOf(D) /\ DOMAIN L = PlacesOf(D)
            /\ \A x \in PlacesOf(D) : Line(s, got, x) = L[x]
            /\ L \in [PlacesOf(D) -> Seq(Frame(D))]
            /\ Kept(L, Out(s, lost), s.sent)
<1> DEFINE D == 0..(k - 1)
<1>1. D \subseteq Nat
  BY Queues
<1> HIDE DEF D
<1>2. Local(D, s) /\ s \in Node(D) /\ got \in Seq(Frame(D)) /\ Kept(Lines(D, s, got), Out(s, lost), s.sent)
  BY DEF Good, Local, D
<1>3. DOMAIN s.dev = D /\ s.sent \in Nat
  BY <1>2 DEF Node
<1>4. Places(s) = PlacesOf(D)
  BY <1>2, PlacesAre
<1>5. Lines(D, s, got) \in [PlacesOf(D) -> Seq(Frame(D))]
  BY <1>2, LinesType
<1>6. \A x \in PlacesOf(D) : Line(s, got, x) = Lines(D, s, got)[x]
  BY DEF Lines
<1> QED BY <1>1, <1>2, <1>3, <1>4, <1>5, <1>6 DEF D

\* The capacities.
LEMMA InvTypeOK == PathInv => TypeOK
<1>1. SUFFICES ASSUME PathInv PROVE TypeOK
  OBVIOUS
<1>2. PICK k \in QueueCounts : Good(0..(k - 1), s, got, lost)
  BY <1>1 DEF PathInv
<1> DEFINE D == 0..(k - 1)
           L == Lines(D, s, got)
<1>3. /\ Local(D, s) /\ DOMAIN s.dev = D /\ D \subseteq Nat /\ s.sent \in Nat
      /\ Places(s) = PlacesOf(D) /\ DOMAIN L = PlacesOf(D)
      /\ \A x \in PlacesOf(D) : Line(s, got, x) = L[x]
      /\ L \in [PlacesOf(D) -> Seq(Frame(D))]
      /\ Kept(L, Out(s, lost), s.sent)
  BY <1>2, Unfolded
<1> HIDE DEF D, L
<1>4. NPackets(s) =< DiscSize /\ Len(s.requeued) =< 1
  BY <1>3 DEF Local, Disc
<1>5. \A q \in DOMAIN s.dev : ~WouldOverflow(s, q, 0, 0)
  BY <1>3 DEF Local, Room
<1>6. Len(s.now) =< 1 /\ (s.now # <<>> => s.busy)
  BY <1>3 DEF Local, Wire
<1>7. ASSUME NEW x \in Places(s), NEW i \in 1..Len(Line(s, got, x))
      PROVE  /\ Line(s, got, x)[i].id \in 1..s.sent
             /\ Line(s, got, x)[i].size \in 1..(Mtu + PppHeader)
  <2>1. x \in PlacesOf(D) /\ i \in 1..Len(L[x]) /\ Line(s, got, x)[i] = L[x][i]
    BY <1>3, <1>7
  <2>2. L[x][i].id \in AllIds(L)
    BY <1>3, <2>1, IdIn
  <2>3. AllIds(L) \subseteq 1..s.sent
    BY <1>3 DEF Kept
  <2>4. L[x][i] \in Frame(D)
    BY <1>3, <2>1, ElementOfSeq
  <2> QED BY <2>1, <2>2, <2>3, <2>4 DEF Frame
<1> QED BY <1>4, <1>5, <1>6, <1>7 DEF TypeOK

\* Every packet is in one place or out.
LEMMA InvConserved == PathInv => Conserved
<1>1. SUFFICES ASSUME PathInv PROVE Conserved
  OBVIOUS
<1>2. PICK k \in QueueCounts : Good(0..(k - 1), s, got, lost)
  BY <1>1 DEF PathInv
<1> DEFINE D == 0..(k - 1)
           L == Lines(D, s, got)
           here == UNION {Ids(Line(s, got, x)) : x \in Places(s)}
<1>3. /\ Places(s) = PlacesOf(D) /\ DOMAIN L = PlacesOf(D)
      /\ \A x \in PlacesOf(D) : Line(s, got, x) = L[x]
      /\ Kept(L, Out(s, lost), s.sent)
  BY <1>2, Unfolded
<1> HIDE DEF D, L
<1>4. TypeOK
  BY <1>1, InvTypeOK
<1>5. ASSUME NEW x \in Places(s), NEW y \in Places(s),
             NEW i \in 1..Len(Line(s, got, x)), NEW j \in 1..Len(Line(s, got, y)),
             Line(s, got, x)[i].id = Line(s, got, y)[j].id
      PROVE  x = y /\ i = j
  <2>1. Scattered(L)
    BY <1>3 DEF Kept
  <2>2. x \in DOMAIN L /\ y \in DOMAIN L /\ Line(s, got, x) = L[x] /\ Line(s, got, y) = L[y]
    BY <1>3
  <2> QED BY <1>5, <2>1, <2>2, Apart
<1>6. here = AllIds(L)
  BY <1>3 DEF AllIds
<1> DEFINE fates == Fates(s, lost)
<1>7. /\ DOMAIN fates = 1..4 /\ fates[1] = s.dropped /\ fates[2] = s.discarded
      /\ fates[3] = lost /\ fates[4] = s.abandoned
  BY DEF Fates
<1> HIDE DEF fates
<1>9. Fated(s, lost)
  BY <1>2 DEF Good
<1>10. UNION {fates[i] : i \in DOMAIN fates} = Out(s, lost)
  BY <1>7 DEF Out
<1>11. \A i, j \in DOMAIN fates : i # j => fates[i] \cap fates[j] = {}
  <2>1. /\ fates[1] \cap fates[2] = {} /\ fates[1] \cap fates[3] = {}
        /\ fates[1] \cap fates[4] = {} /\ fates[2] \cap fates[3] = {}
        /\ fates[2] \cap fates[4] = {} /\ fates[3] \cap fates[4] = {}
    BY <1>7, <1>9 DEF Fated
  <2>2. \A i, j \in 1..4 : i < j => fates[i] \cap fates[j] = {}
    BY <2>1
  <2> QED BY <1>7, <2>2
<1>8. here \cap Out(s, lost) = {} /\ here \cup Out(s, lost) = 1..s.sent
  BY <1>3, <1>6 DEF Kept
<1>12. s.root => s.abandoned = {}
  BY <1>9 DEF Fated
<1> QED BY <1>4, <1>5, <1>8, <1>10, <1>11, <1>12 DEF Conserved, fates

\* The line of what has arrived is ordered.
LEMMA InvInOrder == PathInv => InOrder
<1>1. SUFFICES ASSUME PathInv, NEW i \in DOMAIN got, NEW j \in DOMAIN got, i < j,
                      got[i].txq = got[j].txq,
                      prio2band(got[i].priority) = prio2band(got[j].priority)
               PROVE  got[i].id < got[j].id
  BY DEF InOrder
<1>2. PICK k \in QueueCounts : Good(0..(k - 1), s, got, lost)
  BY <1>1 DEF PathInv
<1> DEFINE D == 0..(k - 1)
           L == Lines(D, s, got)
           x == <<0, 0>>
<1>3. got \in Seq(Frame(D)) /\ Ordered(L)
  BY <1>2 DEF Good, Kept
<1>4. x \in DOMAIN L /\ L[x] = got
  BY PlaceIs, LineIs
<1>5. DOMAIN got = 1..Len(got)
  BY <1>3, LenProperties
<1>6. Same(got[i], got[j])
  BY <1>1 DEF Same
<1> HIDE DEF L, x
<1> QED BY <1>1, <1>3, <1>4, <1>5, <1>6, InTurn

\* No discard in packet mode, and the books of the byte queue limits.
LEMMA InvRest == PathInv => NothingDiscarded /\ LimitsAgree
<1>1. SUFFICES ASSUME PathInv PROVE NothingDiscarded /\ LimitsAgree
  OBVIOUS
<1>2. PICK k \in QueueCounts : Good(0..(k - 1), s, got, lost)
  BY <1>1 DEF PathInv
<1> DEFINE D == 0..(k - 1)
<1>3. Local(D, s) /\ DOMAIN s.dev = D
  BY <1>2, Unfolded
<1> HIDE DEF D
<1>4. NothingDiscarded
  BY <1>3 DEF Local, Room, NothingDiscarded
<1>5. LimitsAgree
  BY <1>3 DEF Local, Limits, LimitsAgree
<1> QED BY <1>4, <1>5

\* No queue holds more than it may, and packets keep their form: EnqueuePacket of the queue
\* disc and of the device check their MaxSize, Requeue holds one packet.
THEOREM TypeCorrect == Spec => []TypeOK
BY Invariance, InvTypeOK, PTL

\* Requeueing, the quota and waking from two causes neither lose nor copy a packet: each
\* is in one place or met one fate. Only with the queue disc do packets go without a
\* trace, those it held when it was deleted.
THEOREM NoPacketVanishes == Spec => []Conserved
BY Invariance, InvConserved, PTL

\* The order of one band and one transmission queue survives requeues, stops and wakes.
THEOREM ArriveInOrder == Spec => []InOrder
BY Invariance, InvInOrder, PTL

\* A device queue in packet mode is stopped before a packet would have to be discarded.
THEOREM StoppedInTime == Spec => []NothingDiscarded
BY Invariance, InvRest, PTL

\* The assertion of DynamicQueueLimits::Completed: no more is completed than was queued.
THEOREM LimitsCount == Spec => []LimitsAgree
BY Invariance, InvRest, PTL
=============================================================================
