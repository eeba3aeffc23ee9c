---------------------------- MODULE TcpConnection ----------------------------
(***************************************************************************)
(* Set-up and close of a connection: the state machine of TcpSocketBase at *)
(* both ends, with its retransmission and closing timers, over a network   *)
(* that delays, reorders and loses segments.                               *)
(*                                                                         *)
(* sock[h] is the socket of host h; a handler is an operator from socket   *)
(* to socket, and the segments it sends are collected in its field out.    *)
(* Fields are named as in the code where it has them; the others are:      *)
(*                                                                         *)
(*   head, size, sent  the transmission buffer: first sequence number, its *)
(*            bytes and whether they have been sent                        *)
(*   rx       the receive buffer (TcpRxBuffer)                             *)
(*   retx     m_retxEvent: {} when it does not run, {"DATA"} for           *)
(*            ReTxTimeout, else the flags it hands to SendEmptyPacket      *)
(*   pending  m_sendPendingDataEvent      announce  ConnectionSucceeded    *)
(*   told     what the application has been told; m_closeNotified is       *)
(*            "closed" \in told                                            *)
(*   closing  the application has called Close                             *)
(*   wrote, got   bytes put into the transmission buffer, bytes of the     *)
(*            peer that have come in                                       *)
(*                                                                         *)
(* Initial sequence numbers are 0, as in the code.  Each end writes at     *)
(* most one byte, so that windows, pacing and loss recovery (TcpSender) do *)
(* not matter: what is unsent can be sent, and what is sent is repeated by *)
(* the timer alone.  Every segment carries a flag, so the branches for     *)
(* segments without one are left out, and ECN is off.                      *)
(***************************************************************************)
EXTENDS TcpRxBuffer

CONSTANTS
    SynRetries,     \* m_synRetries
    DataRetries,    \* m_dataRetries
    DelAckMax,      \* m_delAckMaxCount
    Openings,       \* "listen": B listens and forks; "connect": it connects too
    Writers,        \* hosts that write a byte
    Shutters,       \* hosts that may call ShutdownSend
    MaxForks,       \* bound on the sockets the listener forks
    MaxUnderway     \* bound on the segments under way

ASSUME ConnectionAssumption ==
    /\ SynRetries \in Nat \ {0} /\ DataRetries \in Nat
    /\ DelAckMax \in Nat \ {0} /\ MaxForks \in Nat /\ MaxUnderway \in Nat
    /\ Openings \subseteq {"listen", "connect"}

Hosts == {"A", "B"}
Peer(h) == IF h = "A" THEN "B" ELSE "A"

VARIABLES
    sock,       \* per host, the socket that connects or the last one forked
    net,        \* segments under way, with the host they go to
    listening,  \* B's listening socket is open
    forks       \* CompleteFork events: scheduled and, in all, run

vars == <<sock, net, listening, forks>>

Socket == [state |-> "CLOSED", endPoint |-> FALSE, synCount |-> 0,
           dataRetrCount |-> 0, next |-> 0, high |-> 0, head |-> 0, size |-> 0,
           sent |-> FALSE, rx |-> RxBuffer, closeOnEmpty |-> FALSE,
           shutdownSend |-> FALSE, connected |-> FALSE, delAckCount |-> 0,
           delAckTimer |-> FALSE, retx |-> {}, lastAck |-> FALSE,
           timeWait |-> FALSE, pending |-> FALSE, announce |-> FALSE,
           told |-> {}, closing |-> FALSE, wrote |-> 0, got |-> 0,
           out |-> {}]

Tell(s, what) == [s EXCEPT !.told = @ \union {what}]

-----------------------------------------------------------------------------
(***************************************************************************)
(* Sending.                                                                *)
(***************************************************************************)
CancelAllTimers(s) ==
    [s EXCEPT !.retx = {}, !.delAckTimer = FALSE, !.lastAck = FALSE,
              !.timeWait = FALSE, !.pending = FALSE]

DeallocateEndPoint(s) ==
    IF s.endPoint THEN [CancelAllTimers(s) EXCEPT !.endPoint = FALSE] ELSE s

\* A closing socket numbers what follows its FIN.
AfterFin(s, flags) ==
    IF "FIN" \notin flags /\ s.state \in {"FIN_WAIT_1", "LAST_ACK", "CLOSING"}
    THEN 1 ELSE 0

Emit(s, flags, seq, len) ==
    [s EXCEPT !.out = @ \union {[flags |-> flags, seq |-> seq, ack |-> s.rx.next,
                                 len |-> len]},
              !.delAckTimer = @ /\ "ACK" \notin flags,
              !.delAckCount = IF "ACK" \in flags THEN 0 ELSE @]

\* A SYN or a FIN is repeated until something else takes the timer.
Repeat(s, flags) ==
    IF s.retx = {} /\ flags \intersect {"SYN", "FIN"} # {}
    THEN [s EXCEPT !.retx = flags] ELSE s

SendFlags(s, flags) == Repeat(Emit(s, flags, s.next + AfterFin(s, flags), 0), flags)

GiveUp(s) == [DeallocateEndPoint(Tell(s, "failed")) EXCEPT !.state = "CLOSED"]

\* Mutant: SYNs are not counted.
CountSyn_Never(s, flags) == s

CountSyn(s, flags) ==
    IF "SYN" \in flags THEN [s EXCEPT !.synCount = @ - 1] ELSE s

SendEmptyPacket(s, flags) ==
    CASE ~s.endPoint -> s
      [] s.endPoint /\ "SYN" \in flags /\ s.synCount = 0 -> GiveUp(s)
      [] OTHER -> SendFlags(CountSyn(s, flags),
                            IF "FIN" \in flags THEN flags \union {"ACK"} ELSE flags)

SendRST(s) == DeallocateEndPoint(Tell(SendEmptyPacket(s, {"RST"}), "error"))

\* Sending what closes the stream closes the connection.
FinGoes(s) ==
    IF ~s.closeOnEmpty THEN s
    ELSE [s EXCEPT !.state = CASE @ = "ESTABLISHED" -> "FIN_WAIT_1"
                               [] @ = "CLOSE_WAIT" -> "LAST_ACK"
                               [] OTHER -> @]

DataTimer(s) == IF s.retx = {} THEN [s EXCEPT !.retx = {"DATA"}] ELSE s

SendDataPacket(s) ==
    [DataTimer(Emit(FinGoes(s),
                    {"ACK"} \union (IF s.closeOnEmpty THEN {"FIN"} ELSE {}),
                    s.head, s.size))
     EXCEPT !.next = s.head + s.size, !.high = MaxOf(@, s.head + s.size),
            !.sent = TRUE]

SendPendingData(s) ==
    IF s.size > 0 /\ s.endPoint /\ ~s.sent /\ s.state # "FIN_WAIT_1"
    THEN SendDataPacket(s) ELSE s

-----------------------------------------------------------------------------
(***************************************************************************)
(* Closing.                                                                *)
(***************************************************************************)
CloseAndNotify(s) ==
    DeallocateEndPoint([Tell(s, "closed") EXCEPT !.lastAck = FALSE,
                                                 !.state = "CLOSED"])

DoClose(s) ==
    CASE s.state \in {"SYN_RCVD", "ESTABLISHED"}
            -> [SendEmptyPacket(s, {"FIN"}) EXCEPT !.state = "FIN_WAIT_1"]
      [] s.state = "CLOSE_WAIT"
            -> [SendEmptyPacket(s, {"FIN", "ACK"}) EXCEPT !.state = "LAST_ACK"]
      [] s.state \in {"SYN_SENT", "CLOSING"} -> CloseAndNotify(SendRST(s))
      [] OTHER -> s

\* Bytes from m_nextTxSequence on.
Unsent(s) == s.head + s.size > s.next

\* Mutant: Close does not wait for what is still to be sent.
CloseSocket_AtOnce(s) == IF s.rx.size # 0 THEN SendRST(s) ELSE DoClose(s)

CloseSocket(s) ==
    CASE s.rx.size # 0 -> SendRST(s)
      [] s.rx.size = 0 /\ Unsent(s) -> [s EXCEPT !.closeOnEmpty = TRUE]
      [] OTHER -> DoClose(s)

AppCloses(s) == CloseSocket([s EXCEPT !.closing = TRUE])

TimeWait(s) ==
    [CancelAllTimers(Tell(s, "closed")) EXCEPT !.state = "TIME_WAIT",
                                               !.timeWait = TRUE]

\* What the application does when it is told of data or of the peer's FIN:
\* nothing yet, or read what there is and close.
Reactions == {"none", "close"}

ReadAll(s) == [s EXCEPT !.rx = Extract(@, MaxBuffer)]

OnData(s, r) ==
    IF r = "close" /\ ~s.closing THEN AppCloses(ReadAll(s)) ELSE s

OnClose(s, r) ==
    IF "closed" \in s.told THEN s
    ELSE IF r = "close" /\ ~s.closing THEN AppCloses(Tell(s, "closed"))
    ELSE Tell(s, "closed")

LastAckTimer(s) ==
    IF s.state = "LAST_ACK"
    THEN [s EXCEPT !.dataRetrCount = DataRetries, !.lastAck = TRUE] ELSE s

AnswerFin(s) ==
    LastAckTimer(IF s.shutdownSend THEN CloseSocket(s) ELSE SendEmptyPacket(s, {"ACK"}))

DoPeerClose(s, r) == AnswerFin(OnClose([s EXCEPT !.state = "CLOSE_WAIT"], r))

-----------------------------------------------------------------------------
(***************************************************************************)
(* Receiving.                                                              *)
(***************************************************************************)
Bytes(seg) == [i \in 1 .. seg.len |-> seg.seq + i - 1]

Delay(s) == [s EXCEPT !.delAckCount = @ + 1, !.delAckTimer = TRUE]

\* Which ACK the segment calls for; t is the socket once s has stored it.
AckStored(s, seg, t, r) ==
    IF t.rx.next > s.rx.next /\ Finished(t.rx) /\ "FIN" \notin seg.flags
    THEN DoPeerClose(t, r)
    ELSE IF \/ t.rx.size > t.rx.avail
            \/ t.rx.next > s.rx.next + seg.len
            \/ t.delAckCount + 1 >= DelAckMax
    THEN SendEmptyPacket(t, {"ACK"})
    ELSE Delay(t)

StoreData(s, seg) ==
    [s EXCEPT !.rx = Add(@, seg.seq, Bytes(seg)), !.got = @ + seg.len]

ReceivedData(s, seg, r) ==
    IF Stores(Trimmed(s.rx, seg.seq, Bytes(seg)))
    THEN AckStored(s, seg, IF StoreData(s, seg).rx.next > s.rx.next
                           THEN OnData(StoreData(s, seg), r)
                           ELSE StoreData(s, seg), r)
    ELSE SendEmptyPacket(s, {"ACK"})

IfData(s, seg, r) == IF seg.len > 0 THEN ReceivedData(s, seg, r) ELSE s

DiscardUpTo(s, ack) ==
    IF ack > s.head THEN [s EXCEPT !.head = ack, !.size = 0, !.sent = FALSE] ELSE s

\* Mutant: a FIN under way is not timed once the data is acknowledged.
NewAckTimer_DataOnly(s) == IF s.size = 0 THEN {} ELSE {"DATA"}

\* The timer after a new ACK: it runs on while a FIN may be under way.
NewAckTimer(s) ==
    IF s.size = 0 /\ s.state \notin {"FIN_WAIT_1", "CLOSING"} THEN {}
    ELSE IF s.state = "SYN_RCVD" THEN s.retx
    ELSE {"DATA"}

NewAck(s, ack) ==
    [s EXCEPT !.dataRetrCount = DataRetries, !.next = MaxOf(@, ack),
              !.retx = NewAckTimer(s)]

\* oldHead: the head of the buffer before the ACK.
ProcessAck(s, ack, oldHead) ==
    CASE ack > oldHead -> NewAck(s, ack)
      [] ack = oldHead /\ ack > s.high -> [s EXCEPT !.next = ack]
      [] OTHER -> s

ReceivedAck(s, seg, r) ==
    IF seg.ack < s.head THEN IfData(s, seg, r)
    ELSE SendPendingData(
            IfData(ProcessAck(DiscardUpTo(s, seg.ack), seg.ack, s.head), seg, r))

FinFinishes(s, r) ==
    CASE ~Finished(s.rx) -> s
      [] Finished(s.rx) /\ s.state = "FIN_WAIT_1" -> [s EXCEPT !.state = "CLOSING"]
      [] OTHER -> DoPeerClose(s, r)

PeerClose(s, seg, r) ==
    IF seg.seq < s.rx.next \/ seg.seq > MaxRxSequence(s.rx) THEN s
    ELSE FinFinishes(IfData([s EXCEPT !.rx = SetFinSequence(@, seg.seq + seg.len)],
                            seg, r), r)

-----------------------------------------------------------------------------
(***************************************************************************)
(* The states.                                                             *)
(***************************************************************************)
\* A reset, or flags that make no sense here: anything but a plain RST is
\* answered with one.
Abort(s, seg) == CloseAndNotify(IF seg.flags = {"RST"} THEN s ELSE SendRST(s))

\* The SYN is acknowledged; what is written comes next.
Connected(s) ==
    [s EXCEPT !.connected = TRUE, !.retx = {}, !.next = @ + 1,
              !.high = s.next + 1, !.head = s.next + 1]

SynReceived(s, seg) == [s EXCEPT !.rx.next = seg.seq + 1]

\* Mutant: an ACK without a SYN is not ignored, and a refusal, which carries the
\* awaited ACK, completes the handshake.
ProcessSynSent_NotIgnored(s, seg) ==
    CASE "SYN" \in seg.flags /\ "ACK" \notin seg.flags
            -> SendEmptyPacket([SynReceived(s, seg) EXCEPT !.state = "SYN_RCVD",
                                                           !.synCount = SynRetries],
                               {"SYN", "ACK"})
      [] "ACK" \in seg.flags /\ seg.ack = s.next + 1
            -> [SendPendingData(SendEmptyPacket(
                    [Connected(SynReceived(s, seg)) EXCEPT !.state = "ESTABLISHED"],
                    {"ACK"}))
                EXCEPT !.announce = TRUE, !.delAckCount = DelAckMax]
      [] OTHER -> CloseAndNotify(IF "RST" \in seg.flags THEN s ELSE SendRST(s))

ProcessSynSent(s, seg) ==
    CASE "ACK" \in seg.flags /\ "SYN" \notin seg.flags -> s
      [] "SYN" \in seg.flags /\ "ACK" \notin seg.flags
            -> SendEmptyPacket([SynReceived(s, seg) EXCEPT !.state = "SYN_RCVD",
                                                           !.synCount = SynRetries],
                               {"SYN", "ACK"})
      [] {"SYN", "ACK"} \subseteq seg.flags /\ seg.ack = s.next + 1
            -> [SendPendingData(SendEmptyPacket(
                    [Connected(SynReceived(s, seg)) EXCEPT !.state = "ESTABLISHED"],
                    {"ACK"}))
                EXCEPT !.announce = TRUE, !.delAckCount = DelAckMax]
      [] OTHER -> CloseAndNotify(IF "RST" \in seg.flags THEN s ELSE SendRST(s))

Accepted(s) == Tell(Connected(s), "accepted")

ProcessSynRcvd(s, seg, r) ==
    CASE seg.flags = {"ACK"} /\ seg.ack = s.next + 1
            -> ReceivedAck([Accepted(s) EXCEPT !.state = "ESTABLISHED",
                                               !.delAckCount = DelAckMax], seg, r)
      [] seg.flags = {"SYN"} -> SendEmptyPacket(SynReceived(s, seg), {"SYN", "ACK"})
      [] seg.flags = {"FIN", "ACK"}
            -> IF seg.seq = s.rx.next THEN PeerClose(Accepted(s), seg, r) ELSE s
      [] OTHER -> Abort(s, seg)

AckRange(s, seg) == seg.ack >= s.head /\ seg.ack <= s.high

\* Mutant: a late SYN is bad flags.
ProcessEstablished_ResetsSyn(s, seg, r) ==
    CASE seg.flags = {"ACK"} ->
            IF AckRange(s, seg) THEN ReceivedAck(s, seg, r)
            ELSE IF seg.ack > s.high THEN SendEmptyPacket(s, {"ACK"})
            ELSE s
      [] seg.flags = {"SYN", "ACK"} -> s
      [] seg.flags = {"FIN", "ACK"} -> PeerClose(s, seg, r)
      [] OTHER -> Abort(s, seg)

ProcessEstablished(s, seg, r) ==
    CASE seg.flags = {"ACK"} ->
            IF AckRange(s, seg) THEN ReceivedAck(s, seg, r)
            ELSE IF seg.ack > s.high THEN SendEmptyPacket(s, {"ACK"})
            ELSE s
      [] seg.flags \in {{"SYN"}, {"SYN", "ACK"}} -> s
      [] seg.flags = {"FIN", "ACK"} -> PeerClose(s, seg, r)
      [] OTHER -> Abort(s, seg)

\* Mutant: the ACK of the last byte passes for that of the FIN.
AcksFin_Data(s, seg) == s.size = 0 /\ seg.ack >= s.high

AcksFin(s, seg) == s.size = 0 /\ seg.ack = s.high + 1

AckOrFin(s, seg) ==
    IF "FIN" \in seg.flags
    THEN [s EXCEPT !.rx = SetFinSequence(@, seg.seq)]
    ELSE IF s.state = "FIN_WAIT_1" /\ AcksFin(s, seg)
    THEN [s EXCEPT !.state = "FIN_WAIT_2"]
    ELSE s

BothClosed(s, seg, r) ==
    IF s.state \in {"FIN_WAIT_1", "FIN_WAIT_2"} /\ Finished(s.rx)
    THEN OnData(SendEmptyPacket(
            IF s.state = "FIN_WAIT_2" \/ AcksFin(s, seg) THEN TimeWait(s)
            ELSE [s EXCEPT !.state = "CLOSING"], {"ACK"}), r)
    ELSE s

ProcessWait(s, seg, r) ==
    CASE seg.flags \in {{"ACK"}, {"FIN", "ACK"}}
            -> BothClosed(AckOrFin(ReceivedAck(s, seg, r), seg), seg, r)
      [] seg.flags \in {{"SYN"}, {"SYN", "ACK"}} -> s
      [] OTHER -> Abort(s, seg)

ProcessClosing(s, seg) ==
    CASE seg.flags = {"ACK"} -> IF seg.seq = s.rx.next THEN TimeWait(s) ELSE s
      [] seg.flags = {"FIN", "ACK"} -> CloseAndNotify(SendEmptyPacket(s, {"ACK"}))
      [] OTHER -> Abort(s, seg)

ProcessLastAck(s, seg) ==
    CASE seg.flags = {"ACK"} -> IF seg.seq = s.rx.next THEN CloseAndNotify(s) ELSE s
      [] seg.flags = {"FIN", "ACK"} -> CloseAndNotify(s)
      [] OTHER -> Abort(s, seg)

OutOfRange(s, seg) ==
    CASE s.state \in {"LISTEN", "SYN_SENT", "SYN_RCVD"} -> FALSE
      [] s.state \in {"LAST_ACK", "CLOSING", "CLOSE_WAIT"} -> s.rx.next # seg.seq
      [] OTHER -> seg.seq + seg.len < s.rx.next \/ MaxRxSequence(s.rx) <= seg.seq

\* A bound socket that is not connected refuses with a RST.
Refuse(s, seg) ==
    IF seg.flags = {"RST"} THEN s ELSE Emit(s, {"RST"}, s.next, 0)

Process(s, seg, r) ==
    CASE s.state = "CLOSED" -> Refuse(s, seg)
      [] s.state = "SYN_SENT" -> ProcessSynSent(s, seg)
      [] s.state = "SYN_RCVD" -> ProcessSynRcvd(s, seg, r)
      [] s.state = "ESTABLISHED" -> ProcessEstablished(s, seg, r)
      [] s.state \in {"FIN_WAIT_1", "FIN_WAIT_2", "CLOSE_WAIT"} -> ProcessWait(s, seg, r)
      [] s.state = "CLOSING" -> ProcessClosing(s, seg)
      [] s.state = "LAST_ACK" -> ProcessLastAck(s, seg)
      [] s.state = "TIME_WAIT" -> s

ForwardUp(s, seg, r) ==
    IF seg.len > 0 /\ OutOfRange(s, seg) THEN SendEmptyPacket(s, {"ACK"})
    ELSE Process(s, seg, r)

-----------------------------------------------------------------------------
(***************************************************************************)
(* Timers.                                                                 *)
(***************************************************************************)
ReTxTimeout(s) ==
    IF s.state \in {"CLOSED", "TIME_WAIT"} THEN s
    ELSE IF s.state = "SYN_SENT" THEN SendEmptyPacket(s, {"SYN"})
    ELSE IF s.size = 0
    THEN IF s.state \in {"FIN_WAIT_1", "CLOSING"}
         THEN SendEmptyPacket(s, {"FIN"}) ELSE s
    ELSE IF s.dataRetrCount = 0 THEN DeallocateEndPoint(Tell(s, "error"))
    ELSE SendDataPacket([s EXCEPT !.dataRetrCount = @ - 1])

\* m_retxEvent expires: ReTxTimeout, or SendEmptyPacket with the flags it kept.
RetxExpires(s) ==
    IF s.retx = {"DATA"} THEN ReTxTimeout([s EXCEPT !.retx = {}])
    ELSE SendEmptyPacket([s EXCEPT !.retx = {}], s.retx)

LastAckTimeout(s) ==
    CASE s.state # "LAST_ACK" -> s
      [] s.state = "LAST_ACK" /\ s.dataRetrCount = 0
            -> DeallocateEndPoint(Tell(s, "error"))
      [] OTHER -> [SendEmptyPacket([s EXCEPT !.dataRetrCount = @ - 1], {"FIN", "ACK"})
                   EXCEPT !.lastAck = TRUE]

-----------------------------------------------------------------------------
(***************************************************************************)
(* The system.                                                             *)
(***************************************************************************)
Sent(h, segs) == {[to |-> Peer(h), seg |-> seg] : seg \in segs}

\* Segments do not pile up: with more than the bound under way, new ones are
\* lost.
Carry(under, segs) ==
    IF Cardinality(under) > MaxUnderway THEN under ELSE under \union segs

\* Host h's socket becomes s, and what it sends goes to the network, of
\* which gone is taken away.
Become(h, s, gone) ==
    /\ sock' = [sock EXCEPT ![h] = [s EXCEPT !.out = {}]]
    /\ net' = Carry(net \ gone, Sent(h, s.out))

Run(h, s) == Become(h, s, {}) /\ UNCHANGED <<listening, forks>>

Init ==
    /\ \E opening \in Openings :
          /\ sock = [h \in Hosts |-> [Socket EXCEPT !.endPoint = opening = "connect"]]
          /\ listening = (opening = "listen")
    /\ net = {}
    /\ forks = [scheduled |-> 0, run |-> 0]

\* The application.  A socket connects once; B's is bound if it connects.
Connect(h) ==
    /\ h = "A" \/ sock[h].endPoint
    /\ sock[h].state = "CLOSED" /\ sock[h].told = {} /\ ~sock[h].closing
    /\ Run(h, [SendEmptyPacket([sock[h] EXCEPT !.endPoint = TRUE,
                                               !.synCount = SynRetries,
                                               !.dataRetrCount = DataRetries], {"SYN"})
               EXCEPT !.state = "SYN_SENT"])

\* The application has the socket: a forked one once it is accepted.
Holds(h) == h = "A" \/ forks.run = 0 \/ "accepted" \in sock[h].told

\* After ShutdownSend the byte is put into the buffer all the same.
Send(h) ==
    LET s == sock[h]
    IN  /\ h \in Writers /\ Holds(h) /\ ~s.closing /\ s.wrote = 0
        /\ s.state \in {"ESTABLISHED", "SYN_SENT", "CLOSE_WAIT"}
        /\ Run(h, [s EXCEPT !.size = 1, !.wrote = 1,
                            !.pending = s.state # "SYN_SENT" /\ ~s.shutdownSend])

Close(h) ==
    /\ Holds(h) /\ sock[h].state # "CLOSED" /\ ~sock[h].closing
    /\ Run(h, AppCloses(sock[h]))

\* The FIN, now if there is nothing to send.
Shutdown(s) ==
    IF s.size = 0 /\ s.state = "ESTABLISHED"
    THEN [SendEmptyPacket(s, {"FIN"}) EXCEPT !.state = "FIN_WAIT_1"]
    ELSE IF s.size = 0 /\ s.state = "CLOSE_WAIT"
    THEN [SendEmptyPacket(s, {"FIN"}) EXCEPT !.state = "LAST_ACK"]
    ELSE s

ShutdownSend(h) ==
    /\ h \in Shutters /\ Holds(h) /\ sock[h].state # "CLOSED"
    /\ ~sock[h].closing /\ ~sock[h].shutdownSend
    /\ Run(h, Shutdown([sock[h] EXCEPT !.shutdownSend = TRUE, !.closeOnEmpty = TRUE]))

Read(h) == sock[h].rx.avail > 0 /\ Run(h, ReadAll(sock[h]))

CloseListener ==
    /\ listening
    /\ listening' = FALSE
    /\ UNCHANGED <<sock, net, forks>>

\* Events of the simulator.
ConnectionSucceeded(h) ==
    /\ sock[h].announce
    /\ Run(h, [Tell(sock[h], "connected") EXCEPT !.announce = FALSE])

SendPendingEvent(h) ==
    /\ sock[h].pending
    /\ Run(h, SendPendingData([sock[h] EXCEPT !.pending = FALSE]))

RetxTimer(h) == sock[h].retx # {} /\ Run(h, RetxExpires(sock[h]))

DelAckTimeout(h) ==
    /\ sock[h].delAckTimer
    /\ Run(h, SendEmptyPacket([sock[h] EXCEPT !.delAckTimer = FALSE,
                                              !.delAckCount = 0], {"ACK"}))

LastAckExpires(h) ==
    /\ sock[h].lastAck
    /\ Run(h, LastAckTimeout([sock[h] EXCEPT !.lastAck = FALSE]))

TimeWaitExpires(h) ==
    /\ sock[h].timeWait
    /\ Run(h, CloseAndNotify([sock[h] EXCEPT !.timeWait = FALSE]))

\* The forked socket takes the end point of the connection; when it exists
\* already, the new socket gets none and does nothing.
CompleteFork ==
    /\ forks.scheduled > 0
    /\ forks' = [scheduled |-> forks.scheduled - 1, run |-> forks.run + 1]
    /\ IF sock["B"].endPoint THEN UNCHANGED <<sock, net>>
       ELSE Become("B", SendEmptyPacket(
                [Socket EXCEPT !.endPoint = TRUE, !.state = "SYN_RCVD",
                               !.synCount = SynRetries, !.dataRetrCount = DataRetries,
                               !.rx.next = 1], {"SYN", "ACK"}), {})
    /\ UNCHANGED listening

\* A segment for an end point ...
Deliver(h, m, r) ==
    /\ m \in net /\ m.to = h /\ sock[h].endPoint
    /\ Become(h, ForwardUp(sock[h], m.seg, r), {m})
    /\ UNCHANGED <<listening, forks>>

\* ... for the listener, which forks on a SYN and ignores anything else ...
ProcessListen(m) ==
    /\ m \in net /\ m.to = "B" /\ ~sock["B"].endPoint /\ listening
    /\ net' = net \ {m}
    /\ IF m.seg.flags = {"SYN"}
       THEN /\ forks.scheduled + forks.run < MaxForks
            /\ forks' = [forks EXCEPT !.scheduled = @ + 1]
       ELSE UNCHANGED forks
    /\ UNCHANGED <<sock, listening>>

\* ... or for nobody: it is answered with a RST.
ResetOf(seg) ==
    IF "ACK" \in seg.flags
    THEN [flags |-> {"RST"}, seq |-> seg.ack, ack |-> 0, len |-> 0]
    ELSE [flags |-> {"RST", "ACK"}, seq |-> 0, ack |-> seg.seq + 1, len |-> 0]

NoEndPointsFound(h, m) ==
    /\ m \in net /\ m.to = h /\ ~sock[h].endPoint /\ ~(h = "B" /\ listening)
    /\ net' = (net \ {m}) \union
                (IF "RST" \in m.seg.flags THEN {} ELSE Sent(h, {ResetOf(m.seg)}))
    /\ UNCHANGED <<sock, listening, forks>>

\* ... or is lost.
Lose(m) ==
    /\ m \in net
    /\ net' = net \ {m}
    /\ UNCHANGED <<sock, listening, forks>>

Application(h) ==
    Connect(h) \/ Send(h) \/ Close(h) \/ ShutdownSend(h) \/ Read(h)

Timer(h) ==
    \/ SendPendingEvent(h) \/ RetxTimer(h) \/ DelAckTimeout(h)
    \/ LastAckExpires(h) \/ TimeWaitExpires(h)

\* Events scheduled for now: before them come only segments that arrive at the
\* same instant.
Now == forks.scheduled > 0 \/ \E h \in Hosts : sock[h].announce

Network(m) ==
    \/ \E r \in Reactions : Deliver(m.to, m, r)
    \/ NoEndPointsFound(m.to, m)
    \/ ProcessListen(m)
    \/ Lose(m)

Next ==
    \/ ~Now /\ \E h \in Hosts : Application(h) \/ Timer(h)
    \/ ~Now /\ CloseListener
    \/ CompleteFork
    \/ \E h \in Hosts : ConnectionSucceeded(h)
    \/ \E m \in net : Network(m)

\* The simulator runs every event it has scheduled; a segment need not arrive.
Spec ==
    /\ Init /\ [][Next]_vars
    /\ \A h \in Hosts : WF_vars(~Now /\ Timer(h))
    /\ WF_vars(CompleteFork \/ \E h \in Hosts : ConnectionSucceeded(h))

-----------------------------------------------------------------------------
(***************************************************************************)
(* Properties.                                                             *)
(***************************************************************************)
States == {"CLOSED", "SYN_SENT", "SYN_RCVD", "ESTABLISHED", "FIN_WAIT_1",
           "FIN_WAIT_2", "CLOSING", "TIME_WAIT", "CLOSE_WAIT", "LAST_ACK"}

\* Types of the socket's fields; the retries left never go below none.
TypeOK ==
    \A h \in Hosts :
        /\ sock[h].state \in States
        /\ sock[h].synCount \in 0 .. SynRetries
        /\ sock[h].dataRetrCount \in 0 .. DataRetries
        /\ sock[h].size \in 0 .. 1 /\ sock[h].wrote \in 0 .. 1 /\ sock[h].got \in 0 .. 1
        /\ \A n \in {"next", "high", "head"} : sock[h][n] \in Nat
        /\ sock[h].rx.next \in Nat
        /\ sock[h].retx \in {{}, {"DATA"}, {"SYN"}, {"SYN", "ACK"}, {"FIN", "ACK"}}
        /\ sock[h].told \subseteq {"connected", "accepted", "failed", "error", "closed"}

\* A socket counts as connected only once each end has the other's SYN, in
\* whatever order SYN, SYN|ACK, ACK, refusals and retransmissions come in.  All
\* fields keep their types, and no retry counter goes below none.
Agreement ==
    /\ TypeOK
    /\ \A h \in Hosts : sock[h].connected =>
           sock[h].rx.next > 0 /\ sock[Peer(h)].rx.next > 0

\* No attempt has failed, no retransmission has been given up, and nobody has
\* closed.
GivenUp(s) == "failed" \in s.told \/ ("error" \in s.told /\ s.dataRetrCount = 0)
Untouched(s) == ~s.closing /\ ~s.shutdownSend /\ ~GivenUp(s)

\* A connection to a listener comes to harm only through an application that
\* closes it or retries that run out: duplicates of SYN and SYN|ACK, late ACKs
\* and answers to the dead never reset or close it.
Undisturbed ==
    forks.run > 0 /\ (\A h \in Hosts : Untouched(sock[h]))
        => \A h \in Hosts : sock[h].told \intersect {"error", "closed"} = {}

\* End of stream means that all is there: what the other end wrote before its
\* FIN, whether the FIN comes alone or with the data, before it or again, from
\* Close, ShutdownSend or a deferred close.
EofMeansAll ==
    \A h \in Hosts : Finished(sock[h].rx) => sock[h].got = sock[Peer(h)].wrote

\* FIN_WAIT_2 is entered only by an acknowledgement of the FIN: the other end,
\* if it still exists, has all the data and the FIN.
FinAcknowledged ==
    forks.run > 0 => \A h \in Hosts :
        sock[h].state = "FIN_WAIT_2" =>
            /\ sock[h].size = 0
            /\ sock[Peer(h)].endPoint => Finished(sock[Peer(h)].rx)

Attempting == {"SYN_SENT", "SYN_RCVD"}

\* What waits for an answer has a timer, whatever cancelled the last one, and a
\* socket without an end point has none left.
Timed ==
    \A h \in Hosts : LET s == sock[h] IN
        IF s.endPoint
        THEN /\ s.state \in Attempting \union {"FIN_WAIT_1", "CLOSING"} => s.retx # {}
             /\ s.state = "LAST_ACK" => s.retx # {} \/ s.lastAck
             /\ s.state = "TIME_WAIT" => s.timeWait
             /\ s.size = 1 /\ s.sent /\ s.state # "TIME_WAIT" => s.retx # {} \/ s.lastAck
        ELSE s.retx = {} /\ ~s.lastAck /\ ~s.timeWait /\ ~s.delAckTimer

\* An attempt to connect ends, in a connection or in its failure, though every
\* segment may be lost.
AttemptEnds ==
    \A h \in Hosts : sock[h].state \in Attempting ~> sock[h].state \notin Attempting

-----------------------------------------------------------------------------
(***************************************************************************)
(* What comments say.                                                      *)
(***************************************************************************)
\* tcp-socket-base.cc:2598: "This ACK corresponds to the FIN sent. This socket
\* closed peacefully."
ClosedByAck(h) ==
    /\ sock[h].state = "LAST_ACK" /\ sock'[h].state = "CLOSED"
    /\ \E m \in net \ net' : m.to = h /\ m.seg.flags = {"ACK"}

ClosedPeacefully ==
    [][\A h \in Hosts :
        ClosedByAck(h) /\ sock[Peer(h)].endPoint => Finished(sock[Peer(h)].rx)]_vars

\* tcp-socket-base.cc:807: "otherwise fin will go when buffer empties."
FinWhenEmpty ==
    \A h \in Hosts : sock[h].shutdownSend /\ sock[h].size = 0 /\ sock[h].endPoint
        => sock[h].state \notin {"ESTABLISHED", "CLOSE_WAIT"}

\* tcp-socket.h:75: "(we have to close() to move on to LAST_ACK)": what waits
\* in CLOSE_WAIT has not been closed, or holds its FIN back for data.
WaitsForClose ==
    \A h \in Hosts : sock[h].state = "CLOSE_WAIT" /\ sock[h].endPoint
        => ~sock[h].closing \/ Unsent(sock[h])
=============================================================================
