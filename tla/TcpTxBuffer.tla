----------------------------- MODULE TcpTxBuffer -----------------------------
(***************************************************************************)
(* The transmission buffer (src/src/internet/model/tcp-tx-buffer.cc) as    *)
(* operators on a record tx:                                               *)
(*                                                                         *)
(*   first      m_firstByteSeq                                             *)
(*   sent       m_sentList: items with their first byte, length and flags  *)
(*   app        bytes of m_appList, which have no flags                    *)
(*   sackedOut, lostOut, retransOut   m_sackedOut, m_lostOut, m_retrans    *)
(*   high       m_highestSack: the first byte of its item, 0 for none      *)
(*                                                                         *)
(* m_sentSize and m_size are the lengths of the lists.  The iterator in    *)
(* m_highestSack is the position of a SACKed item, which is never split,   *)
(* merged or erased while it is in front of the head.  Sequence numbers    *)
(* count from 1 and do not wrap.  The payload and the time an item was     *)
(* sent are left out.                                                      *)
(***************************************************************************)
EXTENDS Integers, Sequences, FiniteSets, SequencesExt

CONSTANTS
    SegmentSize,     \* m_segmentSize
    ReTxThreshold    \* m_dupAckThresh, m_retxThresh: 3 unless configured

ASSUME TxBufferAssumption ==
    /\ SegmentSize \in Nat \ {0}
    /\ ReTxThreshold \in Nat \ {0}

MinOf(a, b) == IF a <= b THEN a ELSE b
MaxOf(a, b) == IF a >= b THEN a ELSE b

TxBuffer(seq) == [first |-> seq, sent |-> <<>>, app |-> 0,
                  sackedOut |-> 0, lostOut |-> 0, retransOut |-> 0, high |-> 0]

EndOf(item) == item.seq + item.len

\* The sequence number after the last byte sent, and after the last byte.
HighData(tx) == IF tx.sent = <<>> THEN tx.first ELSE EndOf(Last(tx.sent))
TailSequence(tx) == HighData(tx) + tx.app

SentSize(tx) == HighData(tx) - tx.first
Size(tx) == TailSequence(tx) - tx.first

SizeFromSequence(tx, seq) == MaxOf(0, TailSequence(tx) - seq)

\* Bytes of the items at some places, and of those that carry a flag.
SumOfLengths(list, places) == MapThenSumSet(LAMBDA i : list[i].len, places)

Flagged(list, flag) == SumOfLengths(list, {i \in DOMAIN list : list[i][flag]})

BytesInFlight(tx) == SentSize(tx) - (tx.sackedOut + tx.lostOut) + tx.retransOut

Add(tx, n) == [tx EXCEPT !.app = @ + n]

-----------------------------------------------------------------------------
(***************************************************************************)
(* Copying: items are cut and joined to fit what is asked for.             *)
(***************************************************************************)
\* The bytes of an item before b, and from b on.
Below(item, b) == [item EXCEPT !.len = MinOf(item.len, MaxOf(0, b - item.seq))]
Above(item, b) == [item EXCEPT !.seq = MaxOf(item.seq, b),
                               !.len = EndOf(item) - MaxOf(item.seq, b)]

\* The item with b in its middle, if there is one, becomes two with its flags.
SplitItems(list, b) ==
    LET across == {i \in DOMAIN list : list[i].seq < b /\ b < EndOf(list[i])}
        Cut(i) == SubSeq(list, 1, i - 1) \o <<Below(list[i], b), Above(list[i], b)>>
                    \o SubSeq(list, i + 1, Len(list))
    IN  IF across = {} THEN list ELSE Cut(Min(across))

\* Items i and i + 1 become one, which counts as retransmitted if both do.
MergeItems(tx, i) ==
    LET a == tx.sent[i]
        b == tx.sent[i + 1]
    IN  [tx EXCEPT
            !.sent = RemoveAt([@ EXCEPT ![i] =
                [a EXCEPT !.len = a.len + b.len, !.retrans = a.retrans /\ b.retrans]], i + 1),
            !.retransOut = CASE a.retrans /\ ~b.retrans -> @ - a.len
                             [] b.retrans /\ ~a.retrans -> @ - b.len
                             [] OTHER -> @]

ItemAt(tx, seq) == CHOOSE i \in DOMAIN tx.sent : tx.sent[i].seq = seq

\* The next item may be sent together with item i.
Mergeable(tx, i) ==
    /\ i < Len(tx.sent)
    /\ ~tx.sent[i + 1].sacked
    /\ tx.sent[i].lost = tx.sent[i + 1].lost

\* The list with an item that begins where item i does and has n bytes, or as
\* many as item i and a mergeable successor have.
GetPacketFromList(tx, i, n) ==
    LET joined == IF n > tx.sent[i].len /\ Mergeable(tx, i) THEN MergeItems(tx, i) ELSE tx
    IN  [joined EXCEPT !.sent = SplitItems(@, @[i].seq + MinOf(n, @[i].len))]

MarkRetransmitted(tx, i) ==
    IF tx.sent[i].retrans THEN tx
    ELSE [tx EXCEPT !.sent[i].retrans = TRUE, !.retransOut = @ + tx.sent[i].len]

GetTransmittedSegment(tx, n, seq) ==
    MarkRetransmitted(GetPacketFromList(tx, ItemAt(tx, seq), n), ItemAt(tx, seq))

GetNewSegment(tx, n) ==
    [tx EXCEPT !.app = @ - n,
               !.sent = Append(@, [seq |-> HighData(tx), len |-> n, sacked |-> FALSE,
                                   lost |-> FALSE, retrans |-> FALSE])]

\* CopyFromSequence returns no item when nothing is asked for or nothing is
\* there.  Of a range that is partly new, the old part is sent.
HasItem(tx, n, seq) == MinOf(n, SizeFromSequence(tx, seq)) > 0

CopyFromSequence(tx, n, seq) ==
    IF seq < HighData(tx)
    THEN GetTransmittedSegment(tx, MinOf(n, HighData(tx) - seq), seq)
    ELSE GetNewSegment(tx, MinOf(n, SizeFromSequence(tx, seq)))

-----------------------------------------------------------------------------
(***************************************************************************)
(* Marking.                                                                *)
(***************************************************************************)
\* The head is lost and to be sent again.
MarkHeadAsLost(tx) ==
    IF tx.sent = <<>> THEN tx
    ELSE LET head == tx.sent[1]
         IN  [tx EXCEPT
                !.sent[1] = [@ EXCEPT !.sacked = FALSE, !.retrans = FALSE, !.lost = TRUE],
                !.sackedOut = IF head.sacked THEN @ - head.len ELSE @,
                !.retransOut = IF head.retrans THEN @ - head.len ELSE @,
                !.lostOut = IF head.lost THEN @ ELSE @ + head.len]

\* Without SACK a duplicate ACK stands for the first segment behind the head
\* that is not counted yet.
AddRenoSack(tx) ==
    LET open == {i \in 2 .. Len(tx.sent) : ~tx.sent[i].sacked}
    IN  IF open = {} THEN tx
        ELSE [tx EXCEPT !.sent[Min(open)].sacked = TRUE,
                        !.sackedOut = @ + tx.sent[Min(open)].len,
                        !.high = tx.sent[Min(open)].seq]

ResetRenoSack(tx) ==
    [tx EXCEPT !.sent = [i \in DOMAIN @ |-> [@[i] EXCEPT !.sacked = FALSE]],
               !.sackedOut = 0, !.high = 0]

\* Mutant: what was retransmitted before the timeout still counts.
SetSentListLost_StillCounted(tx, resetSack) ==
    LET list == [i \in DOMAIN tx.sent |->
                    [tx.sent[i] EXCEPT !.sacked = @ /\ ~resetSack,
                                       !.lost = @ \/ resetSack \/ ~tx.sent[i].sacked,
                                       !.retrans = FALSE]]
    IN  [tx EXCEPT !.sent = list,
                   !.lostOut = IF resetSack THEN SentSize(tx) ELSE Flagged(list, "lost"),
                   !.sackedOut = IF resetSack THEN 0 ELSE @,
                   !.high = IF resetSack THEN 0 ELSE @]

\* Everything not SACKed is lost; without SACK, everything.
SetSentListLost(tx, resetSack) ==
    LET list == [i \in DOMAIN tx.sent |->
                    [tx.sent[i] EXCEPT !.sacked = @ /\ ~resetSack,
                                       !.lost = @ \/ resetSack \/ ~tx.sent[i].sacked,
                                       !.retrans = FALSE]]
    IN  [tx EXCEPT !.sent = list, !.retransOut = 0,
                   !.lostOut = IF resetSack THEN SentSize(tx) ELSE Flagged(list, "lost"),
                   !.sackedOut = IF resetSack THEN 0 ELSE @,
                   !.high = IF resetSack THEN 0 ELSE @]

IsHeadRetransmitted(tx) == tx.sent # <<>> /\ tx.sent[1].retrans

\* The last item is put back (after a window probe).
ResetLastSegmentSent(tx) ==
    IF tx.sent = <<>> THEN tx
    ELSE [tx EXCEPT !.sent = Front(@), !.app = @ + Last(tx.sent).len,
                    !.retransOut = IF Last(tx.sent).retrans THEN @ - Last(tx.sent).len ELSE @]

-----------------------------------------------------------------------------
(***************************************************************************)
(* Acknowledgments.                                                        *)
(***************************************************************************)
IsRetransmittedDataAcked(tx, ack) ==
    \E i \in DOMAIN tx.sent :
        EndOf(tx.sent[i]) = ack /\ ~tx.sent[i].sacked /\ tx.sent[i].retrans

\* The loop of DiscardUpTo: items below ack go, one that ack cuts is trimmed,
\* and their bytes leave the counts.  No ACK beyond HighData gets here.
RemoveUpTo(tx, ack) ==
    LET gone == [i \in DOMAIN tx.sent |-> Below(tx.sent[i], ack)]
        below == {i \in DOMAIN tx.sent : EndOf(tx.sent[i]) <= ack}
        kept == SubSeq(tx.sent, Cardinality(below) + 1, Len(tx.sent))
    IN  [tx EXCEPT !.first = ack,
            !.sent = [i \in DOMAIN kept |-> Above(kept[i], ack)],
            !.sackedOut = @ - Flagged(gone, "sacked"),
            !.lostOut = @ - Flagged(gone, "lost"),
            !.retransOut = @ - Flagged(gone, "retrans")]

\* A head that counts as SACKed was a wrong guess: the flag moves on.
MoveRenoSack(tx) ==
    IF tx.sent # <<>> /\ tx.sent[1].sacked
    THEN MarkHeadAsLost(AddRenoSack(
            [tx EXCEPT !.sent[1].sacked = FALSE, !.sackedOut = @ - tx.sent[1].len]))
    ELSE tx

ForgetHigh(tx) == [tx EXCEPT !.high = IF @ <= tx.first THEN 0 ELSE @]

DiscardUpTo(tx, ack) ==
    IF ack <= tx.first THEN tx ELSE ForgetHigh(MoveRenoSack(RemoveUpTo(tx, ack)))

\* Mutant: one SACKed item too few.
LostBySack_Early(tx) ==
    LET top == ItemAt(tx, tx.high)
    IN  {i \in 1 .. top :
            /\ ~tx.sent[i].sacked /\ ~tx.sent[i].lost
            /\ Cardinality({k \in i .. top : tx.sent[k].sacked}) >= ReTxThreshold - 1}

\* Items up to the highest SACK with enough SACKed ones between it and them.
LostBySack(tx) ==
    LET top == ItemAt(tx, tx.high)
    IN  {i \in 1 .. top :
            /\ ~tx.sent[i].sacked /\ ~tx.sent[i].lost
            /\ Cardinality({k \in i .. top : tx.sent[k].sacked}) >= ReTxThreshold}

UpdateLostCount(tx) ==
    LET lost == LostBySack(tx)
    IN  [tx EXCEPT !.sent = [i \in DOMAIN @ |-> [tx.sent[i] EXCEPT !.lost = @ \/ i \in lost]],
                   !.lostOut = @ + SumOfLengths(tx.sent, lost)]

\* Mutant: any overlap with the block counts.
Mapped_Overlap(item, block) == block[1] < EndOf(item) /\ item.seq < block[2]

\* Only an item that lies within the block is SACKed.
Mapped(item, block) == block[1] <= item.seq /\ EndOf(item) <= block[2]

\* Mutant: a SACKed item stays in the lost count.
SackItem_StillLost(tx, i) ==
    [tx EXCEPT !.sent[i].sacked = TRUE, !.sackedOut = @ + tx.sent[i].len,
               !.high = IF @ = 0 \/ @ <= EndOf(tx.sent[i]) THEN tx.sent[i].seq ELSE @]

SackItem(tx, i) ==
    [tx EXCEPT !.sent[i] = [@ EXCEPT !.sacked = TRUE, !.lost = FALSE],
               !.sackedOut = @ + tx.sent[i].len,
               !.lostOut = IF tx.sent[i].lost THEN @ - tx.sent[i].len ELSE @,
               !.high = IF @ = 0 \/ @ <= EndOf(tx.sent[i]) THEN tx.sent[i].seq ELSE @]

SackBlock(tx, block) ==
    FoldLeft(LAMBDA t, i : IF Mapped(t.sent[i], block) /\ ~t.sent[i].sacked
                           THEN SackItem(t, i) ELSE t,
             tx, [i \in DOMAIN tx.sent |-> i])

\* Blocks from one that begins beyond what was sent are not read.
Update(tx, blocks) ==
    LET t == FoldLeft(SackBlock, tx, blocks)
    IN  IF t.sackedOut > tx.sackedOut THEN UpdateLostCount(t) ELSE t

-----------------------------------------------------------------------------
(***************************************************************************)
(* What to send next (RFC 6675).                                           *)
(***************************************************************************)
IsLost(tx, seq) ==
    LET known == {i \in DOMAIN tx.sent :
                    tx.sent[i].seq >= seq /\ (tx.sent[i].lost \/ tx.sent[i].sacked)}
    IN  seq < tx.high /\ known # {} /\ tx.sent[Min(known)].lost

\* Mutant: what is SACKed may be sent again.
Candidates_Sacked(tx) == {i \in DOMAIN tx.sent : ~tx.sent[i].retrans}

Candidates(tx) == {i \in DOMAIN tx.sent : ~tx.sent[i].retrans /\ ~tx.sent[i].sacked}
LostItems(tx) == {i \in Candidates(tx) : tx.sent[i].lost}

\* A range <<first byte, length>>, or none.
NoSegment == <<>>

NextSeg(tx, rWnd, isRecovery) ==
    CASE LostItems(tx) # {} -> <<tx.sent[Min(LostItems(tx))].seq, SegmentSize>>
      [] LostItems(tx) = {} /\ tx.app > 0 ->
            IF SentSize(tx) <= rWnd
            THEN <<HighData(tx), MinOf(SegmentSize, rWnd - SentSize(tx))>>
            ELSE NoSegment
      [] LostItems(tx) = {} /\ tx.app = 0 ->
            IF isRecovery /\ Candidates(tx) # {}
            THEN <<tx.sent[Min(Candidates(tx))].seq, SegmentSize>>
            ELSE NoSegment
=============================================================================
