--------------------------- MODULE HeapScheduler ----------------------------
(***************************************************************************)
(* HeapScheduler: a binary heap, without the item at index 0 the code      *)
(* wastes.  An event is its key, a time and a uid.                         *)
(***************************************************************************)
EXTENDS Integers, SequencesExt

Less(a, b) == a.ts < b.ts \/ (a.ts = b.ts /\ a.uid < b.uid)

Exch(h, a, b) == [h EXCEPT ![a] = h[b], ![b] = h[a]]

Smallest(h, a, b) == IF Less(h[a], h[b]) THEN a ELSE b

\* A loop moves the item at i, exchanging it with the one at j in each turn
\* until it stays where it is; Len(h) turns are enough.
Move(h, i, j) == [heap |-> Exch(h, i, j), index |-> j]

Stay(h, i) == [heap |-> h, index |-> i]

Rise(h, i) == IF i = 1 \/ ~Less(h[i], h[i \div 2]) THEN Stay(h, i) ELSE Move(h, i, i \div 2)

BottomUp(h, i) ==
    LET after[n \in 0 .. Len(h)] ==
            IF n = 0 THEN Stay(h, i) ELSE Rise(after[n - 1].heap, after[n - 1].index)
    IN  after[Len(h)].heap

\* Mutant: the walk down prefers the left child.
SmallerChild_Left(h, i) == 2 * i

SmallerChild(h, i) == Smallest(h, 2 * i, 2 * i + 1)

Sink(h, i) ==
    IF 2 * i + 1 <= Len(h) /\ ~Less(h[i], h[SmallerChild(h, i)])
    THEN Move(h, i, SmallerChild(h, i))
    ELSE IF 2 * i = Len(h) /\ ~Less(h[i], h[2 * i]) THEN Move(h, i, 2 * i)
    ELSE Stay(h, i)

TopDown(h, i) ==
    LET after[n \in 0 .. Len(h)] ==
            IF n = 0 THEN Stay(h, i) ELSE Sink(after[n - 1].heap, after[n - 1].index)
    IN  after[Len(h)].heap

HeapInsert(h, e) == BottomUp(Append(h, e), Len(h) + 1)

\* The last item takes the place of item i and walks down from there.
HeapTake(h, i) == TopDown(Front(Exch(h, i, Len(h))), i)

HeapRemove(h, e) ==
    LET same == {i \in DOMAIN h : h[i].uid = e.uid}
    IN  IF same = {} THEN h ELSE HeapTake(h, Min(same))
=============================================================================
