----------------------------- MODULE TcpRxBuffer -----------------------------
(***************************************************************************)
(* The receive buffer (src/src/internet/model/tcp-rx-buffer.cc) as         *)
(* operators on a record rx whose fields are named as in the code:         *)
(*                                                                         *)
(*   data    m_data: fragments, keyed by the sequence number of their      *)
(*           first byte                                                    *)
(*   next    m_nextRxSeq      gotFin, fin   m_gotFin, m_finSeq             *)
(*   size    m_size           avail         m_availBytes                   *)
(*   sack    m_sackList, blocks <<first, one past the last>>               *)
(*                                                                         *)
(* A packet is the sequence of its bytes, and a byte is named by its place *)
(* in the peer's stream, so that a fragment stored under a wrong sequence  *)
(* number is seen.  Sequence numbers count from the first byte of the      *)
(* stream; their wrap-around at 2^32 is not modelled (a SequenceNumber32   *)
(* compares correctly as long as a window is shorter than 2^31).           *)
(*                                                                         *)
(* Fragments never overlap, so what the loops of Add and Extract do        *)
(* fragment by fragment is stated at once; TcpRxBufferLoops keeps the      *)
(* loops and compares.                                                     *)
(***************************************************************************)
EXTENDS Integers, Sequences, FiniteSets, SequencesExt

CONSTANTS
    MaxBuffer,      \* m_maxBuffer
    SackListMax     \* blocks kept in the SACK list: 4 in the code

ASSUME RxBufferAssumption ==
    /\ MaxBuffer \in Nat \ {0}
    /\ SackListMax \in Nat \ {0}

MinOf(a, b) == IF a <= b THEN a ELSE b
MaxOf(a, b) == IF a >= b THEN a ELSE b

Fragment(p, start, length) == SubSeq(p, start + 1, start + length)

RxBuffer == [data |-> <<>>, next |-> 0, gotFin |-> FALSE, fin |-> 0,
             size |-> 0, avail |-> 0, sack |-> <<>>]

EndOf(data, h) == h + Len(data[h])
BytesOf(data)  == UNION {h .. EndOf(data, h) - 1 : h \in DOMAIN data}
Begin(data)    == Min(DOMAIN data)

\* The first byte from b on that no fragment holds.
FirstMissing(data, b) ==
    Min({e \in {b} \union {EndOf(data, h) : h \in DOMAIN data} :
            e >= b /\ e \notin BytesOf(data)})

-----------------------------------------------------------------------------
Finished(rx) == rx.gotFin /\ rx.fin < rx.next

\* Mutant: bytes stored out of order narrow the window.
MaxRxSequence_LessStored(rx) ==
    IF rx.gotFin THEN rx.fin ELSE rx.next + MaxBuffer - rx.size

\* The lowest sequence number the buffer cannot accept.
MaxRxSequence(rx) ==
    IF rx.gotFin THEN rx.fin
    ELSE IF DOMAIN rx.data # {} /\ rx.next > Begin(rx.data)
    THEN Begin(rx.data) + MaxBuffer
    ELSE rx.next + MaxBuffer

SetFinSequence(rx, s) ==
    [rx EXCEPT !.gotFin = TRUE, !.fin = s, !.next = IF @ = s THEN @ + 1 ELSE @]

-----------------------------------------------------------------------------
(***************************************************************************)
(* The SACK list.                                                          *)
(***************************************************************************)
Touching(block, list) ==
    {i \in DOMAIN list : list[i][2] = block[1] \/ block[2] = list[i][1]}

\* Mutant: the merged block does not replace the front one.
MergeOne_Lost(front, rest) == <<front, RemoveAt(rest, Min(Touching(front, rest)))>>

\* The front block and the rest, after one more block that touches the front
\* one is merged into it.
MergeOne(front, rest) ==
    LET i     == Min(Touching(front, rest))
        block == rest[i]
        left  == block[2] = front[1]
    IN  <<IF left THEN <<block[1], front[2]>> ELSE <<front[1], block[2]>>,
          RemoveAt(rest, i)>>

MergeAny(acc) ==
    IF Touching(acc[1], acc[2]) = {} THEN acc ELSE MergeOne(acc[1], acc[2])

Shortened(list) == SubSeq(list, 1, MinOf(Len(list), SackListMax))

\* There is at most one merge for each block of the list.
UpdateSackList(list, head, tail) ==
    LET merged[n \in 0 .. Len(list)] ==
            IF n = 0 THEN <<<<head, tail>>, list>> ELSE MergeAny(merged[n - 1])
        acc == merged[Len(list)]
    IN  Shortened(<<acc[1]>> \o acc[2])

\* Mutant: a block that reaches up to the cleared sequence is kept.
ClearSackList_Strict(list, seq) ==
    SelectSeq(list, LAMBDA block : block[2] >= seq)

ClearSackList(list, seq) ==
    LET kept[n \in 0 .. Len(list)] ==
            IF n = 0 THEN <<>>
            ELSE IF list[n][2] > seq THEN Append(kept[n - 1], list[n])
            ELSE kept[n - 1]
    IN  kept[Len(list)]

-----------------------------------------------------------------------------
(***************************************************************************)
(* Add.                                                                    *)
(***************************************************************************)
WithinBuffer(rx, tail) ==
    IF DOMAIN rx.data = {} THEN tail
    ELSE MinOf(tail, Begin(rx.data) + MaxBuffer)

\* Where a packet that ends at tail is cut: at the fragment with its last byte.
TailCut(data, head, tail) ==
    Min({tail} \union {h \in DOMAIN data : head < h /\ tail <= EndOf(data, h)})

\* What is left of p, [head, tail): from the first byte not held yet to the
\* fragment that holds its last byte.
Trimmed(rx, seq, p) ==
    LET head == FirstMissing(rx.data, MaxOf(seq, rx.next))
    IN  <<head, TailCut(rx.data, head, WithinBuffer(rx, seq + Len(p)))>>

\* Mutant: a fragment that ends where the stored bytes end is kept.
Embedded_Strict(data, head, tail) ==
    {h \in DOMAIN data : head < h /\ EndOf(data, h) < tail}

\* Fragments inside the bytes to be stored: they are dropped and stored again
\* as part of the packet.
Embedded(data, head, tail) ==
    {h \in DOMAIN data : head < h /\ EndOf(data, h) <= tail}

SumSizes(data, heads) == MapThenSumSet(LAMBDA h : Len(data[h]), heads)

\* Mutant: the packet is cut from its own first byte.
Insert_FromStart(data, seq, p, head, tail) ==
    [h \in (DOMAIN data \ Embedded(data, head, tail)) \union {head} |->
        IF h = head THEN Fragment(p, 0, tail - head) ELSE data[h]]

Insert(data, seq, p, head, tail) ==
    [h \in (DOMAIN data \ Embedded(data, head, tail)) \union {head} |->
        IF h = head THEN Fragment(p, head - seq, tail - head) ELSE data[h]]

\* m_nextRxSeq and m_availBytes catch up with what is now contiguous.
Contiguous(rx) ==
    IF rx.next \in DOMAIN rx.data THEN FirstMissing(rx.data, rx.next) ELSE rx.next

AdvanceTo(rx, next) ==
    [rx EXCEPT !.next = IF rx.gotFin /\ next = rx.fin THEN next + 1 ELSE next,
               !.avail = @ + next - rx.next,
               !.sack = IF next > rx.next THEN ClearSackList(@, next) ELSE @]

Advance(rx) == AdvanceTo(rx, Contiguous(rx))

Store(rx, seq, p, head, tail) ==
    [rx EXCEPT !.data = Insert(@, seq, p, head, tail),
               !.size = @ + tail - head
                          - SumSizes(rx.data, Embedded(rx.data, head, tail)),
               !.sack = IF head > rx.next
                        THEN UpdateSackList(@, head, tail) ELSE @]

\* Add(p, seq) with the range that is left of p; FALSE if nothing is.
Stores(range) == range[1] < range[2]

AddRange(rx, seq, p, range) ==
    IF Stores(range) THEN Advance(Store(rx, seq, p, range[1], range[2])) ELSE rx

Add(rx, seq, p) == AddRange(rx, seq, p, Trimmed(rx, seq, p))

-----------------------------------------------------------------------------
(***************************************************************************)
(* Extract.                                                                *)
(***************************************************************************)
ByteAt(data, b) ==
    LET h == CHOOSE h \in DOMAIN data : h <= b /\ b < EndOf(data, h)
    IN  data[h][b - h + 1]

\* What fragments hold from b on; one that straddles b is cut.
From(data, b) ==
    [k \in {MaxOf(h, b) : h \in {i \in DOMAIN data : EndOf(data, i) > b}} |->
        IF k \in DOMAIN data THEN data[k]
        ELSE LET h == CHOOSE h \in DOMAIN data : h < k /\ k < EndOf(data, h)
             IN  Fragment(data[h], k - h, EndOf(data, h) - k)]

ExtractSize(rx, maxSize) == MinOf(maxSize, rx.avail)

\* The bytes handed to the application.
Extracted(rx, maxSize) ==
    [i \in 1 .. ExtractSize(rx, maxSize) |->
        ByteAt(rx.data, Begin(rx.data) + i - 1)]

\* Mutant: the readable count is not reduced.
Extract_Uncounted(rx, maxSize) ==
    LET n == ExtractSize(rx, maxSize)
    IN  IF n = 0 THEN rx
        ELSE [rx EXCEPT !.data = From(@, Begin(@) + n), !.size = @ - n]

Extract(rx, maxSize) ==
    LET n == ExtractSize(rx, maxSize)
    IN  IF n = 0 THEN rx
        ELSE [rx EXCEPT !.data = From(@, Begin(@) + n),
                        !.size = @ - n, !.avail = @ - n]
=============================================================================
