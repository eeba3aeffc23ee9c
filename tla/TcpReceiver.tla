----------------------------- MODULE TcpReceiver -----------------------------
(***************************************************************************)
(* The receiving half of TcpSocketBase from ESTABLISHED on: ForwardUp,     *)
(* ProcessEstablished, ProcessWait, PeerClose, ReceivedData, the delayed   *)
(* ACK, Recv, Close and ShutdownSend, over the buffer of TcpRxBuffer.      *)
(*                                                                         *)
(* sock is the socket; a handler is an operator from sock to sock, and the *)
(* ACKs it sends are collected in sock.replies.  The peer is any sender    *)
(* that keeps to the window it was given: over a network that loses,       *)
(* duplicates, delays and reorders, what can arrive at any moment is any   *)
(* piece of its stream below the highest right edge ever advertised (edge, *)
(* a history variable), a probe of a zero window, or its FIN, alone or     *)
(* with the last piece.  This end sends no data, so its own FIN goes out   *)
(* as soon as it closes (finSent); acksFin: a segment acknowledges it.     *)
(* ECN is off.  CLOSING and LAST_ACK, which accept no data, end the model. *)
(***************************************************************************)
EXTENDS TcpRxBuffer

CONSTANTS
    StreamLength,   \* bytes the peer sends before its FIN
    MaxSegment,     \* longest segment the peer sends
    DelAckMax,      \* m_delAckMaxCount
    WindUnit        \* 2^m_rcvWindShift

ASSUME ReceiverAssumption ==
    /\ StreamLength \in Nat \ {0}
    /\ MaxSegment \in Nat \ {0}
    /\ DelAckMax \in Nat \ {0}
    /\ WindUnit \in Nat \ {0}

VARIABLES
    sock,    \* the socket
    edge     \* highest ack + window ever advertised

vars == <<sock, edge>>

Packet(seg) == [i \in 1 .. seg.len |-> seg.seq + i - 1]

-----------------------------------------------------------------------------
(***************************************************************************)
(* Sending an ACK.                                                         *)
(***************************************************************************)
\* m_advWnd: frozen once a FIN has come.
AdvertisedWindowSize(s) ==
    IF s.rx.gotFin THEN s.advWnd ELSE MaxRxSequence(s.rx) - s.rx.next

\* What the peer makes of the 16-bit field: the shift drops low-order bits.
Scaled(w) == (w \div WindUnit) * WindUnit

SendEmptyPacket(s) ==
    [s EXCEPT !.delAckTimer = FALSE, !.delAckCount = 0,
              !.highTxAck = MaxOf(@, s.rx.next),
              !.advWnd = AdvertisedWindowSize(s),
              !.replies = Append(@, [ack |-> s.rx.next, sack |-> s.rx.sack,
                                     wnd |-> Scaled(AdvertisedWindowSize(s))])]

-----------------------------------------------------------------------------
(***************************************************************************)
(* Closing.                                                                *)
(***************************************************************************)
DoClose(s) ==
    IF s.state \in {"ESTABLISHED", "CLOSE_WAIT"}
    THEN [SendEmptyPacket(s) EXCEPT
            !.finSent = TRUE,
            !.state = IF @ = "ESTABLISHED" THEN "FIN_WAIT_1" ELSE "LAST_ACK"]
    ELSE s

\* SendRST deallocates the end point: nothing arrives or expires any more.
SendRST(s) == [s EXCEPT !.state = "RESET", !.delAckTimer = FALSE]

\* Close(): with unread data the connection is reset.
CloseSocket(s) == IF s.rx.size # 0 THEN SendRST(s) ELSE DoClose(s)

DoPeerClose(s) ==
    LET t == [s EXCEPT !.state = "CLOSE_WAIT"]
    IN  IF s.shutdownSend THEN CloseSocket(t) ELSE SendEmptyPacket(t)

TimeWait(s) == [s EXCEPT !.state = "TIME_WAIT", !.delAckTimer = FALSE]

-----------------------------------------------------------------------------
(***************************************************************************)
(* Receiving.                                                              *)
(***************************************************************************)
\* The application reads up to n bytes, from its receive callback or later.
Recv(s, n) == [s EXCEPT !.rx = Extract(@, n),
                        !.read = @ \o Extracted(s.rx, n)]

\* Mutant: the delayed ACK is counted and its timer forgotten.
Delay_NoTimer(s) == [s EXCEPT !.delAckCount = @ + 1]

Delay(s) == [s EXCEPT !.delAckCount = @ + 1, !.delAckTimer = TRUE]

AckDue(s) == s.delAckCount + 1 >= DelAckMax

\* Which ACK a stored segment calls for; t is the socket after s stored it.
AckStored(s, seg, t) ==
    CASE t.rx.next > s.rx.next /\ Finished(t.rx) /\ "FIN" \notin seg.flags
            -> DoPeerClose(t)
      [] \/ t.rx.size > t.rx.avail
         \/ t.rx.next > s.rx.next + seg.len
         \/ AckDue(t)
            -> SendEmptyPacket(t)
      [] OTHER -> Delay(t)

\* The application is notified of new data and reads n bytes.
Notified(s, stored, n) ==
    IF stored.rx.next > s.rx.next THEN Recv(stored, n) ELSE stored

ReceivedData(s, seg, n) ==
    IF Stores(Trimmed(s.rx, seg.seq, Packet(seg)))
    THEN AckStored(s, seg, Notified(s, [s EXCEPT !.rx = Add(@, seg.seq, Packet(seg))], n))
    ELSE SendEmptyPacket(s)

IfData(s, seg, n) == IF seg.len > 0 THEN ReceivedData(s, seg, n) ELSE s

\* Mutant: the FIN is put where the segment begins.
FinPlace_AtHead(seg) == seg.seq

FinPlace(seg) == seg.seq + seg.len

IfFinished(s) == IF Finished(s.rx) THEN DoPeerClose(s) ELSE s

PeerClose(s, seg, n) ==
    IF seg.seq < s.rx.next \/ seg.seq > MaxRxSequence(s.rx) THEN s
    ELSE IfFinished(IfData([s EXCEPT !.rx = SetFinSequence(@, FinPlace(seg))], seg, n))

\* A segment without flags (a window probe) is data and nothing else: should
\* it complete the stream, PeerClose finds it below the next expected byte.
ProcessEstablished(s, seg, n) ==
    IF "FIN" \in seg.flags THEN PeerClose(s, seg, n)
    ELSE IfData(s, seg, n)

\* The segment's ACK or FIN, its data being stored.
AckOrFin(s, seg) ==
    IF "FIN" \in seg.flags
    THEN [s EXCEPT !.rx = SetFinSequence(@, seg.seq)]
    ELSE IF s.state = "FIN_WAIT_1" /\ seg.acksFin /\ "ACK" \in seg.flags
    THEN [s EXCEPT !.state = "FIN_WAIT_2"]
    ELSE s

BothClosed(s, seg) ==
    IF s.state \in {"FIN_WAIT_1", "FIN_WAIT_2"} /\ Finished(s.rx)
    THEN SendEmptyPacket(IF s.state = "FIN_WAIT_2" \/ seg.acksFin THEN TimeWait(s)
                         ELSE [s EXCEPT !.state = "CLOSING"])
    ELSE s

ProcessWait(s, seg, n) == BothClosed(AckOrFin(IfData(s, seg, n), seg), seg)

OutOfRange(s, seg) ==
    IF s.state = "CLOSE_WAIT" THEN s.rx.next # seg.seq
    ELSE seg.seq + seg.len < s.rx.next \/ MaxRxSequence(s.rx) <= seg.seq

ForwardUp(s, seg, n) ==
    CASE seg.len > 0 /\ OutOfRange(s, seg) -> SendEmptyPacket(s)
      [] s.state = "TIME_WAIT" -> s
      [] s.state = "ESTABLISHED" -> ProcessEstablished(s, seg, n)
      [] OTHER -> ProcessWait(s, seg, n)

-----------------------------------------------------------------------------
(***************************************************************************)
(* The system.                                                             *)
(***************************************************************************)
Open == {"ESTABLISHED", "FIN_WAIT_1", "FIN_WAIT_2", "CLOSE_WAIT", "TIME_WAIT"}

Flags == {{"ACK"}, {"ACK", "FIN"}}

\* What the peer may have sent: data within the window, the FIN with or after
\* the last byte, an ACK of our FIN.
Segments ==
    {seg \in [seq : 0 .. StreamLength, len : 0 .. MaxSegment, flags : Flags,
              acksFin : {FALSE, sock.finSent}] :
        /\ seg.seq + seg.len <= MinOf(edge, StreamLength)
        /\ "FIN" \in seg.flags => seg.seq + seg.len = StreamLength
        /\ seg.len = 0 => "FIN" \in seg.flags \/ seg.acksFin}

\* While the window is closed, PersistTimeout sends the byte beyond it.
Probes ==
    IF edge = sock.highTxAck /\ edge < StreamLength
    THEN {[seq |-> edge, len |-> 1, flags |-> {}, acksFin |-> FALSE]} ELSE {}

\* The handshake leaves m_delAckCount at its limit, so that the first segment is
\* acknowledged at once.
Init ==
    /\ sock = [rx |-> RxBuffer, state |-> "ESTABLISHED", finSent |-> FALSE,
               shutdownSend |-> FALSE, delAckCount |-> DelAckMax, delAckTimer |-> FALSE,
               highTxAck |-> 0, advWnd |-> MaxBuffer,
               read |-> <<>>, replies |-> <<>>]
    /\ edge = MaxBuffer

\* Run a handler and record the right edges its ACKs advertise.
Handle(s) ==
    /\ sock' = s
    /\ edge' = Max({edge} \union {r.ack + r.wnd : r \in Range(s.replies)})

Quiet == [sock EXCEPT !.replies = <<>>]

\* A segment arrives; if it makes data readable, the receive callback reads
\* nothing or everything.
Arrive(seg, n) ==
    /\ sock.state \in Open
    /\ Handle(ForwardUp(Quiet, seg, n))

DelAckTimeout ==
    /\ sock.delAckTimer
    /\ Handle(SendEmptyPacket(Quiet))

Read(n) ==
    /\ sock.rx.avail > 0
    /\ Handle(Recv(Quiet, n))

Close ==
    /\ sock.state \in Open \ {"TIME_WAIT"}
    /\ Handle(CloseSocket(Quiet))

ShutdownSend ==
    /\ sock.state \in {"ESTABLISHED", "CLOSE_WAIT"}
    /\ Handle(DoClose([Quiet EXCEPT !.shutdownSend = TRUE]))

Next ==
    \/ \E seg \in Segments \union Probes, n \in {0, MaxBuffer} : Arrive(seg, n)
    \/ DelAckTimeout
    \/ \E n \in {1, MaxBuffer} : Read(n)
    \/ Close
    \/ ShutdownSend

\* The simulator runs every event that is scheduled.
Spec == Init /\ [][Next]_vars /\ WF_vars(DelAckTimeout)

-----------------------------------------------------------------------------
(***************************************************************************)
(* Properties.                                                             *)
(***************************************************************************)
Stream == 0 .. StreamLength - 1

\* Bytes the receiver has, in the buffer or already read, by what they are,
\* not by where they are stored.
Held == (UNION {Range(sock.rx.data[h]) : h \in DOMAIN sock.rx.data})
        \union Range(sock.read)

Blocks == Range(sock.rx.sack)
Covered(block) == block[1] .. block[2] - 1

\* Types; a delayed ACK never waits for more than DelAckMax segments (the count
\* the handshake leaves starts no timer).
TypeOK ==
    /\ \A h \in DOMAIN sock.rx.data :
          h \in Stream /\ sock.rx.data[h] \in Seq(Stream) \ {<<>>}
    /\ sock.rx.next \in 0 .. StreamLength + 1
    /\ sock.rx.gotFin \in BOOLEAN /\ sock.rx.fin \in 0 .. StreamLength
    /\ sock.rx.size \in Nat /\ sock.rx.avail \in Nat
    /\ Blocks \subseteq Stream \X (1 .. StreamLength)
    /\ Len(sock.rx.sack) <= SackListMax
    /\ sock.state \in Open \union {"CLOSING", "LAST_ACK", "RESET"}
    /\ sock.delAckCount \in 0 .. DelAckMax
    /\ sock.delAckTimer => sock.delAckCount < DelAckMax
    /\ sock.highTxAck \in 0 .. StreamLength + 1
    /\ edge \in MaxBuffer .. StreamLength + 1 + MaxBuffer

Reported == UNION {Covered(block) : block \in Blocks}
BeyondGap == {b \in BytesOf(sock.rx.data) : b > sock.rx.next}

\* The counters of the buffer say what the fragments hold: no two overlap,
\* m_size is their total, never more than m_maxBuffer, m_availBytes what
\* precedes m_nextRxSeq, and the next expected byte is the first that is
\* missing (one more for the FIN); whatever segments overlap and whatever is
\* read meanwhile, the SACK list reports only bytes stored beyond a gap.  All
\* have their types.
Consistent ==
    LET rx == sock.rx
        end == IF Finished(rx) /\ rx.next = StreamLength + 1
               THEN StreamLength ELSE rx.next
    IN  /\ TypeOK
        /\ \A h, k \in DOMAIN rx.data : h < k => EndOf(rx.data, h) <= k
        /\ rx.size = Cardinality(BytesOf(rx.data)) /\ rx.size <= MaxBuffer
        /\ BytesOf(rx.data) \intersect (0 .. end)
             = Len(sock.read) .. Len(sock.read) + rx.avail - 1
        /\ end = Len(sock.read) + rx.avail
        /\ Reported \subseteq BeyondGap

\* A SACK list that reports all that is stored beyond a gap goes on to do so,
\* whatever is merged, cleared or read, unless it is full.  (A full list may drop
\* a block and keep another that lies inside the first.)
SackComplete ==
    [][BeyondGap \subseteq Reported /\ Len(sock.rx.sack) < SackListMax
        => BeyondGap' \subseteq Reported']_vars

\* The peer's FIN counts only once everything before it is here, whether it
\* comes before, with or after the data, in any state.
EofComplete == Finished(sock.rx) => Held = Stream

\* The right edge of the advertised window moves back by less than what the
\* window scale cannot express, with data read or not, FIN or not.
EdgeStable ==
    [][\A r \in Range(sock'.replies) : r.ack + r.wnd + WindUnit > edge]_vars

\* The receiver implements ReceiveStream: nothing lost, repeated, reordered or
\* given up, nothing acknowledged too early ...
Receiving == INSTANCE ReceiveStream WITH
    have <- Held, out <- sock.read, acked <- sock.highTxAck,
    gone <- sock.state = "RESET"

ReceivesStream == Receiving!Init /\ [][Receiving!Next]_(Receiving!vars)

\* ... and what is in order is acknowledged in the end: by the delayed ACK if
\* nothing else does.
AckedEventually == Receiving!Answered

-----------------------------------------------------------------------------
(***************************************************************************)
(* What comments and headers say.                                          *)
(***************************************************************************)
\* tcp-socket-base.cc:1301: "Acknowledgement should be sent for all
\* unacceptable packets (RFC793, p.69)".
UnacceptableAcked ==
    [][\A seg \in Segments : \A n \in {0, MaxBuffer} :
        Arrive(seg, n) /\ seg.len > 0 /\ sock'.rx = sock.rx
            => sock'.replies # <<>>]_vars

\* tcp-socket-base.cc:2501: "Got FIN, respond with ACK and move to next state".
TimeWaitAcksFin ==
    sock.state = "TIME_WAIT" => sock.highTxAck = StreamLength + 1
=============================================================================
