------------------------------ MODULE TcpSender ------------------------------
(***************************************************************************)
(* The sending half of TcpSocketBase in ESTABLISHED: ReceivedAck,          *)
(* ProcessAck, DupAck, EnterRecovery, NewAck, SendPendingData,             *)
(* DoRetransmit, SendDataPacket, Send, the retransmission and the persist  *)
(* timer, over the buffer of TcpTxBuffer, with and without SACK, with and  *)
(* without Nagle's algorithm.                                              *)
(*                                                                         *)
(* sock is the socket; a handler is an operator from sock to sock, and the *)
(* segments it sends are collected in sock.out.  Congestion control and    *)
(* recovery algorithm are those of TcpCongestion, or any: where a handler  *)
(* calls one that sets m_cWnd, the window becomes one of Windows.  The     *)
(* network is external: it loses, repeats, delays and reorders.  So is the *)
(* receiver, which holds bytes, acknowledges what it holds and never takes *)
(* back window (TcpReceiver).  There is no clock: a timer that is set may  *)
(* expire.                                                                 *)
(*                                                                         *)
(* Not here: the handshake, closing, data from the peer, ECN, pacing, and  *)
(* a Send made from within a callback.                                     *)
(***************************************************************************)
EXTENDS TcpCongestion

CONSTANTS
    StreamLength,   \* bytes the application writes
    Writes,         \* lengths it writes at a time
    Buffer,         \* the receiver's buffer
    FirstWindow,    \* what of it is free at first
    Algorithms,     \* what sets the window (TcpCongestion)
    Windows,        \* initial windows, and windows any congestion control may set
    FirstThreshold, \* the initial m_ssThresh
    DataRetries,    \* m_dataRetries
    ReadModes,      \* whether the peer's application may read
    SackModes,      \* values of m_sackEnabled
    NoDelayModes    \* values of m_noDelay

ASSUME SenderAssumption ==
    /\ {StreamLength, Buffer, DataRetries, FirstThreshold} \subseteq Nat \ {0}
    /\ Algorithms \subseteq {"any", "classic", "prr"}
    /\ FirstWindow \in 1 .. Buffer
    /\ Writes \subseteq Nat \ {0} /\ Windows \subseteq Nat \ {0}
    /\ SackModes \subseteq BOOLEAN /\ NoDelayModes \subseteq BOOLEAN
    /\ ReadModes \subseteq BOOLEAN

VARIABLES
    sock,    \* the socket
    wire,    \* segments ever sent, <<first byte, length>>
    held,    \* bytes the receiver has
    edge,    \* the right edge of its window
    late     \* an ACK that is still on its way, or none

vars == <<sock, wire, held, edge, late>>

-----------------------------------------------------------------------------
(***************************************************************************)
(* Sending.                                                                *)
(***************************************************************************)
AvailableWindow(s) == MaxOf(0, MinOf(s.rWnd, s.cWnd) - BytesInFlight(s.tx))

UnAckDataCount(s) == s.highTx - s.tx.first

Transmit(s, tx, item) ==
    OpsUpdateBytesSent(
        [s EXCEPT !.tx = tx, !.retx = TRUE,
                  !.highTx = MaxOf(@, EndOf(item)),
                  !.out = @ \union {<<item.seq, item.len>>}], item.len)

\* Without an item there is a null pointer, and the program ends.
NoItem(s) == [s EXCEPT !.state = "NULL_ITEM"]

SendDataPacket(s, seq, n) ==
    IF ~HasItem(s.tx, n, seq) THEN NoItem(s)
    ELSE LET tx == CopyFromSequence(s.tx, n, seq)
         IN  Transmit(s, tx, tx.sent[ItemAt(tx, seq)])

\* Silly window avoidance and Nagle's algorithm; data is what there is from
\* the segment on.
HoldsBack(s, data) ==
    \/ AvailableWindow(s) < SegmentSize /\ data > AvailableWindow(s)
    \/ ~s.noDelay /\ UnAckDataCount(s) > 0 /\ data < SegmentSize

NextToSend(s) ==
    NextSeg(s.tx, s.rWnd, s.sackEnabled /\ s.congState = "RECOVERY")

SendsMore(s) ==
    /\ s.state = "ESTABLISHED" /\ Size(s.tx) > 0
    /\ AvailableWindow(s) > 0
    /\ NextToSend(s) # NoSegment
    /\ ~HoldsBack(s, SizeFromSequence(s.tx, NextToSend(s)[1]))

\* One segment; the next one is expected behind it.
SendNext(s, seg) ==
    LET t == SendDataPacket(s, seg[1], Min({AvailableWindow(s), SegmentSize, seg[2]}))
    IN  IF t.state = "NULL_ITEM" THEN t
        ELSE [t EXCEPT !.nextTx = EndOf(t.tx.sent[ItemAt(t.tx, seg[1])])]

SendTurn(s) == IF SendsMore(s) THEN SendNext(s, NextToSend(s)) ELSE s

\* The loop.  It ends: a turn sends new data, or again an item behind those it has
\* sent again, first of the lost ones and at last of all.
SendPendingData(s) ==
    LET after[n \in 0 .. 2 * Size(s.tx)] == IF n = 0 THEN s ELSE SendTurn(after[n - 1])
    IN  after[2 * Size(s.tx)]

\* The first lost segment, or else new data, or else the head once more.
DoRetransmit(s) ==
    LET next == NextSeg(s.tx, s.rWnd, FALSE)
        seg  == IF next = NoSegment THEN <<s.tx.first, SegmentSize>> ELSE next
    IN  SendDataPacket([s EXCEPT !.nextTx = seg[1]], seg[1], seg[2])

-----------------------------------------------------------------------------
(***************************************************************************)
(* Acknowledgments.                                                        *)
(***************************************************************************)
EnterRecovery(s, c) ==
    LET tx == IF ~s.sackEnabled THEN MarkHeadAsLost(AddRenoSack(s.tx))
              ELSE IF IsLost(s.tx, s.tx.first) THEN s.tx
              ELSE MarkHeadAsLost(s.tx)
        t  == [s EXCEPT !.tx = tx, !.congState = "RECOVERY", !.flight = BytesInFlight(tx),
                        !.recover = s.highTx, !.recoverActive = TRUE]
        inFlight == IF s.sackEnabled THEN t.flight ELSE t.flight + SegmentSize
    IN  DoRetransmit(OpsEnterRecovery(Reduce(t, inFlight), UnAckDataCount(s), c))

\* The duplicates counted call for recovery, or the scoreboard does.
LossDetected(s) ==
    \/ s.dupAcks = ReTxThreshold /\ (s.highRxAck >= s.recover \/ ~s.recoverActive)
    \/ IsLost(s.tx, s.highRxAck + SegmentSize)

RenoSack(s) == IF s.sackEnabled THEN s ELSE [s EXCEPT !.tx = AddRenoSack(@)]

Disorder(s, c) == IF LossDetected(s) THEN EnterRecovery(s, c) ELSE RenoSack(s)

CountDuplicate(s) == [s EXCEPT !.dupAcks = @ + 1, !.congState = "DISORDER"]

\* Mutant: duplicates count after a timeout too.
DupAck_InLoss(s, c) ==
    IF s.congState = "RECOVERY" THEN OpsDoRecovery(RenoSack(s), c)
    ELSE Disorder(CountDuplicate(s), c)

DupAck(s, c) ==
    CASE s.congState = "LOSS" -> s
      [] s.congState = "RECOVERY" -> OpsDoRecovery(RenoSack(s), c)
      [] OTHER -> Disorder(CountDuplicate(s), c)

\* Mutant: the timer is cancelled and not set again.
NewAck_NotSetAgain(s, ack, resetRTO) ==
    [s EXCEPT !.retries = DataRetries,
              !.retx = @ /\ ~resetRTO /\ Size(s.tx) > 0,
              !.nextTx = MaxOf(@, ack)]

NewAck(s, ack, resetRTO) ==
    [s EXCEPT !.retries = DataRetries,
              !.retx = (@ \/ resetRTO) /\ Size(s.tx) > 0,
              !.nextTx = MaxOf(@, ack)]

RetransmitNext(s, ack) ==
    IF IsRetransmittedDataAcked(s.tx, ack + SegmentSize) THEN s ELSE DoRetransmit(s)

\* An ACK below the recovery point.
PartialAck(s, ack, segs, c) ==
    LET tx == IF s.sackEnabled THEN s.tx ELSE MarkHeadAsLost(s.tx)
        u  == [s EXCEPT !.tx = tx]
        t  == RetransmitNext(IF segs >= 1 THEN OpsDoRecovery(u, c) ELSE u, ack)
    IN  [NewAck(t, ack, s.firstPartial) EXCEPT !.firstPartial = FALSE]

\* What an ACK that ends recovery counts for.
SegmentsBeyond(s, ack, old, segs) ==
    CASE s.congState = "RECOVERY" -> (ack - old) \div SegmentSize
      [] s.congState = "LOSS" -> (ack - s.recover) \div SegmentSize
      [] OTHER -> segs

\* An ACK that covers the recovery point, or with nothing to recover.
FullAck(s, ack, old, segs, isDupack, c) ==
    LET exits == s.congState = "RECOVERY"
        t == [s EXCEPT
                !.congState = IF @ = "DISORDER" /\ isDupack THEN @ ELSE "OPEN",
                !.firstPartial = @ \/ s.congState \in {"RECOVERY", "LOSS"},
                !.dupAcks = IF exits THEN 0 ELSE @,
                !.recoverActive = @ /\ ack < s.recover]
        u == IF exits THEN LeaveRecovery(t) ELSE t
    IN  IF t.congState = "OPEN"
        THEN NewAck(IncreaseWindow(u, SegmentsBeyond(s, ack, old, segs), c), ack, TRUE)
        ELSE t

\* Mutant: the ACK of the recovery point does not end recovery.
Advances_Inclusive(s, ack, old, segs, isDupack, c) ==
    CASE ack <= s.recover /\ s.congState = "RECOVERY" -> PartialAck(s, ack, segs, c)
      [] ack < s.recover /\ s.congState = "LOSS" ->
            NewAck(IncreaseWindow(s, segs, c), ack, TRUE)
      [] OTHER -> FullAck(s, ack, old, segs, isDupack, c)

Advances(s, ack, old, segs, isDupack, c) ==
    CASE ack < s.recover /\ s.congState = "RECOVERY" -> PartialAck(s, ack, segs, c)
      [] ack < s.recover /\ s.congState = "LOSS" ->
            NewAck(IncreaseWindow(s, segs, c), ack, TRUE)
      [] OTHER -> FullAck(s, ack, old, segs, isDupack, c)

\* Bytes acknowledged become segments; the rest is kept for the next ACK.
SegmentsAcked(s, n, isDupack, ack, old, c) ==
    Advances([s EXCEPT !.notProcessed = n % SegmentSize],
             ack, old, n \div SegmentSize, isDupack, c)

\* Mutant: duplicates counted before new data was acknowledged still count.
NewData_KeepsCount(s, ack, old, isDupack, c) ==
    SegmentsAcked(s, s.notProcessed + ack - old, isDupack, ack, old, c)

NewData(s, ack, old, isDupack, c) ==
    SegmentsAcked(IF isDupack THEN s ELSE [s EXCEPT !.dupAcks = 0],
                  s.notProcessed + ack - old, isDupack, ack, old, c)

IfDupAck(s, isDupack, c) == IF isDupack THEN DupAck(s, c) ELSE s

ProcessAck(s, ack, old, isDupack, c) ==
    IF ack = old THEN IfDupAck(s, isDupack, c)
    ELSE NewData(IfDupAck(s, isDupack, c), ack, old, isDupack, c)

IsDupack(s, updated, ack) ==
    IF s.sackEnabled THEN updated.sackedOut > s.tx.sackedOut
    ELSE ack = s.tx.first /\ ack < s.highTx

Scoreboard(s, a) == IF s.sackEnabled THEN Update(s.tx, a.sack) ELSE s.tx

\* Bytes the rate sampler counts: what is newly SACKed, and whole items let
\* go of that were not.
Delivered(s, updated, ack) ==
    LET gone == {i \in DOMAIN updated.sent :
                    /\ EndOf(updated.sent[i]) <= ack
                    /\ ~(s.sackEnabled /\ updated.sent[i].sacked)}
    IN  updated.sackedOut - s.tx.sackedOut + SumOfLengths(updated.sent, gone)

\* In recovery, whether a segment that ends where the ACK does, or a whole
\* number of segments below, was sent again.
IsRetransDataAcked(s, updated, ack) ==
    /\ ack < s.recover /\ s.congState = "RECOVERY"
    /\ \E i \in 0 .. (ack - s.tx.first) \div SegmentSize - 1 :
          IsRetransmittedDataAcked(updated, ack - i * SegmentSize)

Discarded(s, a, updated, w) ==
    LET tx == DiscardUpTo(updated, a.ack)
    IN  ProcessAck([s EXCEPT !.tx = tx, !.flight = BytesInFlight(tx)], a.ack, s.tx.first,
                   IsDupack(s, updated, a.ack),
                   IF s.alg # "prr" THEN [window |-> w]
                   ELSE [delivered |-> Delivered(s, updated, a.ack),
                         rtxAcked |-> IsRetransDataAcked(s, updated, a.ack)])

ReceivedAck(s, a, w) == SendPendingData(Discarded(s, a, Scoreboard(s, a), w))

\* Mutant: an ACK that is not newer sets the window all the same.
UpdateWindowSize_Always(s, a) ==
    [s EXCEPT !.rWnd = a.wnd, !.highRxAck = MaxOf(@, a.ack)]

UpdateWindowSize(s, a) ==
    [s EXCEPT !.rWnd = IF a.ack > s.highRxAck \/ (a.ack = s.highRxAck /\ a.wnd > @)
                       THEN a.wnd ELSE @,
              !.highRxAck = MaxOf(@, a.ack)]

EnterPersist(s) ==
    IF s.rWnd = 0 /\ ~s.persist THEN [s EXCEPT !.retx = FALSE, !.persist = TRUE] ELSE s

LeavePersist(s) ==
    IF s.rWnd # 0 /\ s.persist THEN SendPendingData([s EXCEPT !.persist = FALSE]) ELSE s

ProcessEstablished(s, a, w) ==
    IF a.ack < s.tx.first \/ a.ack > s.highTx THEN s ELSE ReceivedAck(s, a, w)

ForwardUp(s, a, w) ==
    LeavePersist(ProcessEstablished(EnterPersist(UpdateWindowSize(s, a)), a, w))

-----------------------------------------------------------------------------
(***************************************************************************)
(* Timers.                                                                 *)
(***************************************************************************)
AllLost(s) ==
    SetSentListLost(IF s.sackEnabled THEN s.tx ELSE ResetRenoSack(s.tx), ~s.sackEnabled)

\* The flags that say what was sent again are gone by the time they are asked
\* for.
ReduceOnTimeout(s, tx, inFlight) ==
    IF s.congState # "LOSS" \/ ~IsHeadRetransmitted(tx) THEN Reduce(s, inFlight) ELSE s

AfterRto(s) ==
    LET tx == AllLost(s)
    IN  [ReduceOnTimeout(s, tx, BytesInFlight(s.tx))
            EXCEPT !.retries = @ - 1, !.dupAcks = 0, !.tx = tx,
                   !.recover = s.highTx, !.recoverActive = TRUE,
                   !.congState = "LOSS", !.cWnd = SegmentSize]

ReTxTimeoutOf(s) ==
    CASE Size(s.tx) = 0 -> s
      [] Size(s.tx) > 0 /\ s.retries = 0 -> [s EXCEPT !.state = "DROPPED"]
      [] Size(s.tx) > 0 /\ s.retries > 0 -> SendPendingData(AfterRto(s))

\* The byte probed with is copied and put back.
PersistTimeoutOf(s) ==
    IF ~HasItem(s.tx, 1, s.nextTx) THEN NoItem(s)
    ELSE [s EXCEPT !.tx = ResetLastSegmentSent(CopyFromSequence(@, 1, s.nextTx)),
                   !.out = {<<s.nextTx, 1>>}]

-----------------------------------------------------------------------------
(***************************************************************************)
(* The receiver and the network.                                           *)
(***************************************************************************)
Bytes(seg) == seg[1] .. seg[1] + seg[2] - 1

Missing(b) == Min({k \in 1 .. StreamLength + 1 : k \notin b})

\* The numbers of a set in their order.
Sorted(S) ==
    [i \in 1 .. Cardinality(S) |-> CHOOSE k \in S : Cardinality({m \in S : m <= k}) = i]

\* Blocks of bytes held beyond the first missing one: the one with the
\* segment that has just come first, the others in order.
Blocks(b, seg) ==
    LET starts == {k \in b : k > Missing(b) /\ k - 1 \notin b}
        Block(k) == <<k, Min({e \in k .. StreamLength + 1 : e \notin b})>>
        newest == {k \in starts : k <= seg[1] /\ seg[1] < Block(k)[2]}
        order == Sorted(newest) \o Sorted(starts \ newest)
    IN  [i \in DOMAIN order |-> Block(order[i])]

AckOf(b, right, seg) ==
    [ack |-> Missing(b), wnd |-> right - Missing(b), sack |-> Blocks(b, seg)]

NoAck == [ack |-> 0]

\* The application reads nothing, or everything before and after the segment.
Accepted(seg, reads) ==
    held \union {b \in Bytes(seg) :
                    b < IF reads THEN MaxOf(edge, Missing(held) + Buffer) ELSE edge}

EdgeAfter(b, reads) == IF reads THEN MaxOf(edge, Missing(b) + Buffer) ELSE edge

-----------------------------------------------------------------------------
(***************************************************************************)
(* The system.                                                             *)
(***************************************************************************)
Init ==
    /\ sock \in [tx : {TxBuffer(1)}, state : {"ESTABLISHED"}, congState : {"OPEN"},
                 nextTx : {1}, highTx : {1}, highRxAck : {1}, dupAcks : {0},
                 recover : {0}, recoverActive : {FALSE}, firstPartial : {TRUE},
                 alg : Algorithms, cWnd : Windows, ssThresh : {FirstThreshold},
                 flight : {0}, prr : {NoPrr}, notProcessed : {0},
                 rWnd : {FirstWindow}, retries : {DataRetries},
                 retx : {FALSE}, persist : {FALSE}, pending : {FALSE},
                 sackEnabled : SackModes, noDelay : NoDelayModes, out : {{}}]
    /\ wire = {}
    /\ held = {}
    /\ edge = 1 + FirstWindow
    /\ late = NoAck

\* The window an ACK brings with it; NewReno computes its own.
AnyWindow == IF sock.alg = "any" THEN Windows ELSE {sock.cWnd}

Alive == sock.state = "ESTABLISHED"
Quiet == [sock EXCEPT !.out = {}]

\* flight is computed anew before it is read again.
Handle(s) ==
    /\ Alive
    /\ sock' = [s EXCEPT !.flight = 0]
    /\ wire' = wire \union s.out

\* The application writes; sending is an event of its own.
Send(n) ==
    /\ TailSequence(sock.tx) + n <= 1 + StreamLength
    /\ Handle([Quiet EXCEPT !.tx = Add(@, n), !.pending = @ \/ AvailableWindow(sock) > 0])
    /\ UNCHANGED <<held, edge, late>>

SendPendingEvent ==
    /\ sock.pending
    /\ Handle(SendPendingData([Quiet EXCEPT !.pending = FALSE]))
    /\ UNCHANGED <<held, edge, late>>

ReTxTimeout ==
    /\ sock.retx
    /\ Handle(ReTxTimeoutOf([Quiet EXCEPT !.retx = FALSE]))
    /\ UNCHANGED <<held, edge, late>>

PersistTimeout ==
    /\ sock.persist
    /\ Handle(PersistTimeoutOf(Quiet))
    /\ UNCHANGED <<held, edge, late>>

\* A segment reaches the receiver, and its ACK the sender.
Deliver(seg, reads, w) ==
    /\ held' = Accepted(seg, reads)
    /\ edge' = EdgeAfter(held', reads)
    /\ Handle(ForwardUp(Quiet, AckOf(held', edge', seg), w))
    /\ UNCHANGED late

\* A segment reaches the receiver, whose ACK is delayed, or lost.  One ACK at
\* a time is delayed.
DeliverOnly(seg, reads, kept) ==
    /\ Alive
    /\ kept => late = NoAck
    /\ held' = Accepted(seg, reads)
    /\ edge' = EdgeAfter(held', reads)
    /\ late' = IF kept THEN AckOf(held', edge', seg) ELSE late
    /\ sock' = Quiet
    /\ UNCHANGED wire

LateAck(w) ==
    /\ late # NoAck
    /\ Handle(ForwardUp(Quiet, late, w))
    /\ late' = NoAck
    /\ UNCHANGED <<held, edge>>

Next ==
    \/ \E n \in Writes : Send(n)
    \/ SendPendingEvent
    \/ ReTxTimeout
    \/ PersistTimeout
    \/ \E seg \in wire, reads \in ReadModes, w \in AnyWindow : Deliver(seg, reads, w)
    \/ \E seg \in wire, reads \in ReadModes, kept \in BOOLEAN : DeliverOnly(seg, reads, kept)
    \/ \E w \in AnyWindow : LateAck(w)

\* The simulator runs every event that is scheduled.
Spec == Init /\ [][Next]_vars
             /\ WF_vars(SendPendingEvent) /\ WF_vars(ReTxTimeout) /\ WF_vars(PersistTimeout)

-----------------------------------------------------------------------------
(***************************************************************************)
(* Properties.                                                             *)
(***************************************************************************)
\* Types; an item is never longer than a segment, and retries are not used up
\* more often than there are.
TypeOK ==
    /\ sock.state \in {"ESTABLISHED", "DROPPED", "NULL_ITEM"}
    /\ sock.congState \in {"OPEN", "DISORDER", "RECOVERY", "LOSS"}
    /\ \A i \in DOMAIN sock.tx.sent : sock.tx.sent[i].len \in 1 .. SegmentSize
    /\ sock.dupAcks \in Nat
    /\ sock.retries \in 0 .. DataRetries
    /\ {sock.retx, sock.persist, sock.pending} \subseteq BOOLEAN
    /\ held \subseteq 1 .. StreamLength

\* ConsistencyCheck of tcp-tx-buffer.cc, which is compiled out, with the types: the
\* counters say what the flags of the items say, the items tile what was sent,
\* however they were cut, joined, marked and trimmed, and no byte is both lost
\* and SACKed, for which the difference in BytesInFlight would wrap.
CountersAgree ==
    LET tx == sock.tx
    IN  /\ TypeOK
        /\ tx.sackedOut = Flagged(tx.sent, "sacked")
        /\ tx.lostOut = Flagged(tx.sent, "lost")
        /\ tx.retransOut = Flagged(tx.sent, "retrans")
        /\ \A i \in DOMAIN tx.sent :
              /\ tx.sent[i].seq = IF i = 1 THEN tx.first ELSE EndOf(tx.sent[i - 1])
              /\ ~(tx.sent[i].lost /\ tx.sent[i].sacked)

SentBytes(item) == item.seq .. EndOf(item) - 1

\* The congestion state agrees with what is kept beside it, whichever ACKs and
\* timeouts led there.  The assertions of DupAck (tcp-socket-base.cc:1725,
\* 1758): in OPEN no duplicate is counted, out of order none beyond the
\* threshold, for entering recovery is an equality test.  m_recoverActive is
\* set just in RECOVERY and LOSS.  And while recovery lasts something below its
\* point is unacknowledged, so an ACK that ends it can come.
CongStateAgrees ==
    /\ sock.recoverActive = (sock.congState \in {"RECOVERY", "LOSS"})
    /\ sock.congState = "RECOVERY" => sock.tx.first < sock.recover
    /\ sock.congState = "OPEN" => sock.dupAcks = 0
    /\ sock.congState = "DISORDER" =>
           sock.dupAcks > 0 /\ sock.dupAcks <= ReTxThreshold

\* A timeout apart, an item behind the head is only taken for lost when enough
\* later ones are SACKed, wherever m_highestSack starts the search for them.
LostJustified ==
    sock.sackEnabled /\ sock.congState # "LOSS" =>
        \A i \in DOMAIN sock.tx.sent : i > 1 /\ sock.tx.sent[i].lost =>
            Cardinality({k \in i .. Len(sock.tx.sent) : sock.tx.sent[k].sacked})
                >= ReTxThreshold

\* What the buffer has let go of, the receiver has, whatever order the ACKs
\* came in; with SACK, so is what the scoreboard takes for received, and the
\* head is never among it.
ScoreboardTrue ==
    /\ 1 .. sock.tx.first - 1 \subseteq held
    /\ sock.sackEnabled =>
           \A i \in DOMAIN sock.tx.sent : sock.tx.sent[i].sacked =>
               i > 1 /\ SentBytes(sock.tx.sent[i]) \subseteq held

\* Nothing but a probe is sent beyond the window the receiver gave.
WithinWindow ==
    [][~PersistTimeout => \A seg \in sock'.out : seg[1] + seg[2] <= edge']_vars

\* tcp-tx-buffer.cc:245 asserts that what is sent is not SACKed: not again by
\* recovery, by a timeout, or along with a neighbour it was joined to.
SackedNotResent ==
    [][\A seg \in sock'.out, i \in DOMAIN sock'.tx.sent :
        sock'.tx.sent[i].sacked => Bytes(seg) \cap SentBytes(sock'.tx.sent[i]) = {}]_vars

\* Recovery, which lowers the threshold, is entered once for what was sent at a
\* time: again only when all that was out at the last recovery or timeout is
\* acknowledged, by duplicates as by the scoreboard.
ReducedOncePerWindow ==
    [][sock.congState # "RECOVERY" /\ sock'.congState = "RECOVERY"
         => sock'.highRxAck >= sock.recover]_vars

\* A timeout took everything out for lost and nothing was sent again since: a
\* send is scheduled, or silly-window avoidance or Nagle's algorithm holds it.
HeldAfterTimeout(s) ==
    /\ s.congState = "LOSS"
    /\ \A i \in DOMAIN s.tx.sent :
          (s.tx.sent[i].lost \/ s.tx.sent[i].sacked) /\ ~s.tx.sent[i].retrans
    /\ s.pending \/ HoldsBack(s, Size(s.tx))

\* While bytes are unacknowledged the retransmission timer runs, with a window
\* as without: SendDataPacket, NewAck, ReTxTimeout and the entry into persist
\* set and cancel it.  The one exception is a retransmission held back.
NeverStalls ==
    Alive /\ sock.tx.sent # <<>> /\ ~sock.retx => HeldAfterTimeout(sock)

-----------------------------------------------------------------------------
(***************************************************************************)
(* What comments of the repository say.                                    *)
(***************************************************************************)
\* tcp-tx-buffer.cc:1011: if there is unsent data "and the receiver's advertised
\* window allows, the sequence range of one segment of up to SMSS octets" is
\* returned: a range that holds something to send.
SegmentIsThere == [][~PersistTimeout => sock'.state # "NULL_ITEM"]_vars

\* tcp-socket-base.h:192: on a timeout "the transmission is re-started from the
\* SND.UNA sequence number".
RtoRestarts ==
    [][ReTxTimeout /\ sock.tx.sent # <<>> /\ sock'.state = "ESTABLISHED"
        => \E seg \in sock'.out : seg[1] = sock.tx.first]_vars

\* tcp-socket-base.cc:3826: the threshold is lowered when "the given segment has
\* not yet been resent by way of the retransmission timer".
ThresholdKept ==
    [][ReTxTimeout /\ sock.congState = "LOSS" /\ IsHeadRetransmitted(sock.tx)
        => sock'.ssThresh = sock.ssThresh]_vars
=============================================================================
