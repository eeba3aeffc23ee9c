------------------------ MODULE TcpConnectionProofs -------------------------
(***************************************************************************)
(* Proofs about TcpConnection: both ends agree that they are connected, and *)
(* every socket that waits has a timer.                                    *)
(*                                                                         *)
(* A handler is a function of one socket, so most lemmas say of one that   *)
(* it keeps Good(s, c), the invariant of a socket s in a mode c, a set of  *)
(* what is known of the rest of the system:                                *)
(*                                                                         *)
(*   writes  the host may write its byte     quiet   it has not done so    *)
(*   low     the peer may still write, so what has come in is no data      *)
(*   met     the peer has this host's SYN    begun   this host has its     *)
(*   rcvd, fin, calm, aged  inside PeerClose and ReceivedAck only, where   *)
(*           the state is, for a moment, not yet what it will be           *)
(*                                                                         *)
(* The last part puts the two sockets together with the segments under     *)
(* way.  What it needs of the network: before a host has written, nothing  *)
(* acknowledges more than its SYN and nothing it sent carries data or FIN  *)
(* (Heard), and a segment that acknowledges a SYN was sent by a socket     *)
(* that has it (Vouched).                                                  *)
(***************************************************************************)
EXTENDS TcpConnection, TLAPS

\* The fields of a socket, of a receive buffer and of a segment.
SockFields ==
    {"state", "endPoint", "synCount", "dataRetrCount", "next", "high", "head", "size",
     "sent", "rx", "closeOnEmpty", "shutdownSend", "connected", "delAckCount",
     "delAckTimer", "retx", "lastAck", "timeWait", "pending", "announce", "told",
     "closing", "wrote", "got", "out"}
RxFields == {"data", "next", "gotFin", "fin", "size", "avail", "sack"}
SegFields == {"flags", "seq", "ack", "len"}

\* t is s but for the fields F.
Only(s, t, F) == DOMAIN t = SockFields /\ \A f \in SockFields \ F : t[f] = s[f]

\* The buffer holds nothing, or the byte the peer writes.
NoData(rx) == DOMAIN rx.data = {} /\ rx.size = 0 /\ rx.avail = 0

FirstByte(data) == DOMAIN data = {1} /\ Len(data[1]) = 1

OneByte(rx) ==
    /\ FirstByte(rx.data)
    /\ rx.size = 1 /\ rx.avail = 1 /\ rx.next >= 2

SmallBuffer(rx) ==
    /\ DOMAIN rx = RxFields
    /\ rx.next \in Nat /\ rx.gotFin \in BOOLEAN /\ rx.fin \in Nat
    /\ NoData(rx) \/ OneByte(rx)

\* What m_retxEvent may be set to repeat; and of it, what SYNs do.
Timers == {{}, {"DATA"}, {"SYN"}, {"SYN", "ACK"}, {"FIN", "ACK"}}
Syn == {{"SYN"}, {"SYN", "ACK"}}

\* What an application is told.
Tidings == {"connected", "accepted", "failed", "error", "closed"}

\* Types of the fields.
Typed(s) ==
    /\ DOMAIN s = SockFields
    /\ s.got \in {0, 1} /\ (s.got = 1 => s.rx.next >= 2)
    /\ s.state \in States /\ s.retx \in Timers
    /\ s.size \in {0, 1} /\ s.wrote \in {0, 1} /\ (s.size = 1 \/ s.sent => s.wrote = 1)
    /\ s.synCount \in 0 .. SynRetries /\ s.dataRetrCount \in 0 .. DataRetries
    /\ s.head \in Nat /\ s.next \in Nat /\ s.high \in Nat
    /\ \A f \in {"endPoint", "sent", "closeOnEmpty", "shutdownSend", "delAckTimer",
                 "lastAck", "timeWait", "pending", "closing"} : s[f] \in BOOLEAN
    /\ SmallBuffer(s.rx)
    /\ s.state \notin {"CLOSED", "SYN_SENT"} => s.rx.next >= 1

NoTimers(s) == s.retx = {} /\ ~s.lastAck /\ ~s.timeWait /\ ~s.delAckTimer

Segment(g) ==
    /\ DOMAIN g = SegFields
    /\ g.seq \in Nat /\ g.ack \in Nat /\ g.len \in {0, 1}
    /\ g.len = 1 => g.seq = 1

\* Nothing but a SYN, acknowledgments and resets.
Unheard(g) ==
    /\ g.len = 0 /\ "FIN" \notin g.flags /\ ("SYN" \in g.flags => g.seq = 0)
    /\ g.flags \intersect {"SYN", "ACK", "RST"} # {}

\* What only a socket that has the other's SYN sends.
Vouches(g) ==
    ("RST" \in g.flags => "SYN" \in g.flags) /\ (g.ack >= 1 \/ "FIN" \in g.flags)

\* What holds with and without an end point.
Basic(s, c) ==
    /\ Typed(s) /\ s.told \subseteq Tidings
    /\ s.connected => "met" \in c /\ s.rx.next >= 1
    /\ "begun" \in c => s.rx.next >= 1
    /\ \A g \in s.out : Vouches(g) => s.rx.next >= 1
    /\ s.state = "CLOSED" => s.told # {} /\ ~s.endPoint
    /\ ~s.endPoint => NoTimers(s)
    /\ s.closeOnEmpty => s.closing \/ s.shutdownSend
    /\ \A g \in s.out : Segment(g) /\ ("low" \in c => g.ack <= 1)
    /\ "low" \in c => s.rx.next <= 1 /\ ~s.rx.gotFin
    /\ "aged" \in c => s.state \notin Attempting
    /\ "calm" \in c => ~s.lastAck

\* The socket is connecting: its SYN is not acknowledged.
Young(s, c) ==
    s.state = "SYN_SENT" \/ (s.state = "SYN_RCVD" /\ "rcvd" \notin c)

\* No close is under way: a timer runs for data or not at all.
Running(s, c) ==
    \/ s.state = "ESTABLISHED"
    \/ s.state = "SYN_RCVD" /\ "rcvd" \in c
    \/ s.state = "CLOSE_WAIT" /\ ~s.closing

\* It has sent neither data nor a FIN.
Silent(s) ==
    /\ s.wrote = 0 /\ ~s.closing
    /\ s.state \in {"SYN_SENT", "SYN_RCVD", "ESTABLISHED", "CLOSE_WAIT"}

\* A timer runs, for data only if there is some; or none does.
DataTimed(s) == s.retx # {} /\ (s.retx = {"DATA"} => s.size = 1)
Idle(s) == s.retx = {} \/ (s.retx = {"DATA"} /\ s.size = 1)

\* Timed, for one socket, and what it takes to keep it so.
TimersRun(s, c) ==
    /\ Young(s, c) => s.retx \in Syn
    /\ Running(s, c) => Idle(s)
    /\ s.state \in {"FIN_WAIT_1", "CLOSING"} => s.retx # {}
    /\ s.state = "LAST_ACK" /\ "fin" \notin c => s.lastAck \/ DataTimed(s)
    /\ s.state = "TIME_WAIT" => s.timeWait
    /\ s.size = 1 /\ s.sent /\ s.state # "TIME_WAIT" => s.retx # {} \/ s.lastAck
    /\ s.lastAck => s.state = "LAST_ACK"

\* What holds of a socket with an end point.
Live(s, c) ==
    /\ TimersRun(s, c)
    /\ Young(s, c) => /\ ~s.sent /\ ~s.pending /\ s.head = 0 /\ s.next = 0
                      /\ ~s.rx.gotFin /\ NoData(s.rx) /\ s.got = 0
    /\ s.state \in {"FIN_WAIT_1", "FIN_WAIT_2"} => s.closing \/ s.shutdownSend
    /\ s.size = 1 /\ ~Young(s, c) => s.head = 1
    /\ Silent(s) => /\ "quiet" \in c
                    /\ \A g \in s.out : Unheard(g)
                    /\ "writes" \in c /\ ~Young(s, c) => s.head = 1

Good(s, c) == Basic(s, c) /\ (s.endPoint => Live(s, c))

-----------------------------------------------------------------------------
(***************************************************************************)
(* The buffer.                                                             *)
(***************************************************************************)
\* The least of one number.
LEMMA MinOfOne == ASSUME NEW x \in Int PROVE Min({x}) = x
<1>1. \A m \in {x} : \A y \in {x} : m <= y
  OBVIOUS
<1> QED BY <1>1 DEF Min

\* A buffer with the first byte covers that byte and ends at 2.
LEMMA FirstByteEnds ==
    ASSUME NEW data, FirstByte(data)
    PROVE  /\ \A h \in DOMAIN data : h = 1 /\ EndOf(data, h) = 2
           /\ BytesOf(data) = {1}
<1>1. DOMAIN data = {1} /\ Len(data[1]) = 1
  BY DEF FirstByte
<1>2. EndOf(data, 1) = 2
  BY <1>1 DEF EndOf
<1>3. \A h \in DOMAIN data : h = 1
  BY <1>1
<1>4. BytesOf(data) = UNION {1 .. EndOf(data, 1) - 1}
  BY <1>1 DEF BytesOf
<1> QED BY <1>2, <1>3, <1>4

\* Extract takes all there is and moves no sequence number.
LEMMA ExtractEmpties ==
    ASSUME NEW rx, SmallBuffer(rx)
    PROVE  /\ SmallBuffer(Extract(rx, MaxBuffer)) /\ NoData(Extract(rx, MaxBuffer))
           /\ Extract(rx, MaxBuffer).next = rx.next
           /\ Extract(rx, MaxBuffer).gotFin = rx.gotFin
           /\ Extract(rx, MaxBuffer).fin = rx.fin
<1> DEFINE e == Extract(rx, MaxBuffer)
<1>0. MaxBuffer \in Nat /\ MaxBuffer >= 1
  BY RxBufferAssumption
<1>1. CASE NoData(rx)
  <2>1. ExtractSize(rx, MaxBuffer) = 0
    BY <1>0, <1>1 DEF ExtractSize, MinOf, NoData
  <2>2. e = rx
    BY <2>1 DEF Extract
  <2> QED BY <1>1, <2>2
<1>2. CASE OneByte(rx)
  <2>1. ExtractSize(rx, MaxBuffer) = 1
    BY <1>0, <1>2 DEF ExtractSize, MinOf, OneByte
  <2>2. Begin(rx.data) = 1
    BY <1>2, MinOfOne DEF Begin, OneByte, FirstByte
  <2> HIDE DEF e
  <2>3. e = [rx EXCEPT !.data = From(rx.data, 2), !.size = @ - 1, !.avail = @ - 1]
    BY <2>1, <2>2 DEF Extract, e
  <2>6. \A i \in DOMAIN rx.data : EndOf(rx.data, i) = 2
    BY <1>2, FirstByteEnds DEF OneByte
  <2>4. {i \in DOMAIN rx.data : EndOf(rx.data, i) > 2} = {}
    BY <2>6
  <2>5. DOMAIN From(rx.data, 2) = {}
    BY <2>4 DEF From
  <2>7. NoData(e) /\ DOMAIN e = RxFields
    BY <1>2, <2>3, <2>5 DEF SmallBuffer, NoData, OneByte, RxFields
  <2>8. e.next = rx.next /\ e.gotFin = rx.gotFin /\ e.fin = rx.fin
    BY <1>2, <2>3 DEF SmallBuffer, RxFields
  <2> QED BY <2>7, <2>8 DEF SmallBuffer, e
<1> QED BY <1>1, <1>2 DEF SmallBuffer

\* Nothing adds up to 0.
LEMMA SumOfNone == ASSUME NEW data PROVE SumSizes(data, {}) = 0
<1> DEFINE Summing(f) == f = [s \in SUBSET {} |->
            IF s = {} THEN 0
            ELSE LET x == CHOOSE x \in s : TRUE IN Len(data[x]) + f[s \ {x}]]
           f == CHOOSE f : Summing(f)
<1>1. Summing([s \in SUBSET {} |-> 0])
  OBVIOUS
<1>2. Summing(f)
  BY <1>1
<1>3. SumSizes(data, {}) = f[{}]
  BY DEF SumSizes, MapThenSumSet, MapThenFoldSet
<1> HIDE DEF f
<1> QED BY <1>2, <1>3

\* The first byte missing from b on.
LEMMA FirstMissingIs ==
    ASSUME NEW data, NEW b \in Nat
    PROVE  /\ DOMAIN data = {} => FirstMissing(data, b) = b
           /\ FirstByte(data) => FirstMissing(data, b) = IF b = 1 THEN 2 ELSE b
<1> DEFINE Ends == {e \in {b} \union {EndOf(data, h) : h \in DOMAIN data} :
                        e >= b /\ e \notin BytesOf(data)}
<1>1. FirstMissing(data, b) = Min(Ends)
  BY DEF FirstMissing
<1>2. ASSUME DOMAIN data = {} PROVE FirstMissing(data, b) = b
  <2>1. Ends = {b}
    BY <1>2 DEF BytesOf
  <2> QED BY <1>1, <1>2, <2>1, MinOfOne
<1>3. ASSUME FirstByte(data) PROVE FirstMissing(data, b) = IF b = 1 THEN 2 ELSE b
  <2>1. DOMAIN data = {1} /\ \A h \in DOMAIN data : EndOf(data, h) = 2
    BY <1>3, FirstByteEnds DEF FirstByte
  <2>2. BytesOf(data) = {1} /\ {EndOf(data, h) : h \in DOMAIN data} = {2}
    BY <1>3, <2>1, FirstByteEnds
  <2>3. Ends = {e \in {b, 2} : e >= b /\ e \notin {1}}
    BY <2>2
  <2> DEFINE m == IF b = 1 THEN 2 ELSE b
  <2>4. m \in Ends /\ \A y \in Ends : m <= y
    BY <2>3
  <2>5. Ends \subseteq Nat
    BY <2>3
  <2> HIDE DEF m, Ends
  <2>6. \A y \in Ends : (\A z \in Ends : y <= z) => y = m
    BY <2>4, <2>5
  <2>7. Min(Ends) = m
    BY <2>4, <2>6 DEF Min
  <2> QED BY <1>1, <2>7 DEF m
<1> QED BY <1>2, <1>3

\* The byte is stored unless it is there, or has been read.
LEMMA TrimmedIs ==
    ASSUME NEW rx, SmallBuffer(rx), rx.next >= 1, NEW p, Len(p) = 1
    PROVE  Trimmed(rx, 1, p) = <<rx.next, 2>>
<1>0. MaxBuffer \in Nat /\ MaxBuffer >= 1 /\ rx.next \in Nat
  BY RxBufferAssumption DEF SmallBuffer
<1>1. MaxOf(1, rx.next) = rx.next
  BY <1>0 DEF MaxOf
<1>2. CASE NoData(rx)
  <2>1. DOMAIN rx.data = {}
    BY <1>2 DEF NoData
  <2>2. FirstMissing(rx.data, rx.next) = rx.next
    BY <1>0, <2>1, FirstMissingIs
  <2>3. WithinBuffer(rx, 2) = 2
    BY <2>1 DEF WithinBuffer
  <2>4. TailCut(rx.data, rx.next, 2) = 2
    <3>1. {2} \union {h \in DOMAIN rx.data : rx.next < h /\ 2 <= EndOf(rx.data, h)} = {2}
      BY <2>1
    <3> QED BY <3>1, MinOfOne DEF TailCut
  <2> QED BY <1>1, <2>2, <2>3, <2>4 DEF Trimmed
<1>3. CASE OneByte(rx)
  <2>1. DOMAIN rx.data = {1} /\ FirstByte(rx.data) /\ rx.next >= 2
    BY <1>3 DEF OneByte, FirstByte
  <2>2. FirstMissing(rx.data, rx.next) = rx.next
    BY <1>0, <2>1, FirstMissingIs
  <2>3. WithinBuffer(rx, 2) = 2
    <3>1. Begin(rx.data) = 1
      BY <2>1, MinOfOne DEF Begin
    <3> QED BY <1>0, <2>1, <3>1 DEF WithinBuffer, MinOf
  <2>4. TailCut(rx.data, rx.next, 2) = 2
    <3>1. {2} \union {h \in DOMAIN rx.data : rx.next < h /\ 2 <= EndOf(rx.data, h)} = {2}
      BY <1>0, <2>1
    <3> QED BY <3>1, MinOfOne DEF TailCut
  <2> QED BY <1>1, <2>2, <2>3, <2>4 DEF Trimmed
<1> QED BY <1>2, <1>3 DEF SmallBuffer

\* Add takes the byte once, and steps over a FIN that waited behind it.
LEMMA AddIs ==
    ASSUME NEW rx, SmallBuffer(rx), rx.next >= 1, NEW p, Len(p) = 1
    PROVE  /\ Stores(Trimmed(rx, 1, p)) <=> rx.next = 1
           /\ rx.next = 1 =>
                /\ SmallBuffer(Add(rx, 1, p)) /\ Add(rx, 1, p).size = 1
                /\ Add(rx, 1, p).gotFin = rx.gotFin /\ Add(rx, 1, p).fin = rx.fin
                /\ Add(rx, 1, p).next = IF rx.gotFin /\ rx.fin = 2 THEN 3 ELSE 2
<1>0. rx.next \in Nat
  BY DEF SmallBuffer
<1>1. Trimmed(rx, 1, p) = <<rx.next, 2>>
  BY TrimmedIs
<1>2. Stores(Trimmed(rx, 1, p)) <=> rx.next = 1
  BY <1>0, <1>1 DEF Stores
<1> SUFFICES ASSUME rx.next = 1
             PROVE  /\ SmallBuffer(Add(rx, 1, p)) /\ Add(rx, 1, p).size = 1
                    /\ Add(rx, 1, p).gotFin = rx.gotFin /\ Add(rx, 1, p).fin = rx.fin
                    /\ Add(rx, 1, p).next = IF rx.gotFin /\ rx.fin = 2 THEN 3 ELSE 2
  BY <1>2
<1> DEFINE st == Store(rx, 1, p, 1, 2)
           a  == Advance(st)
<1>3. NoData(rx)
  BY DEF SmallBuffer, OneByte
<1>4. Add(rx, 1, p) = a
  BY <1>1, <1>2 DEF Add, AddRange
<1>5. DOMAIN rx.data = {} /\ rx.size = 0 /\ rx.avail = 0 /\ DOMAIN rx = RxFields
  BY <1>3 DEF NoData, SmallBuffer
<1>6. Embedded(rx.data, 1, 2) = {}
  BY <1>5 DEF Embedded
<1>7. FirstByte(Insert(rx.data, 1, p, 1, 2))
  <2>1. (DOMAIN rx.data \ Embedded(rx.data, 1, 2)) \union {1} = {1}
    BY <1>5, <1>6
  <2>2. Insert(rx.data, 1, p, 1, 2) = [h \in {1} |-> Fragment(p, 0, 1)]
    BY <2>1 DEF Insert
  <2>3. Len(Fragment(p, 0, 1)) = 1
    BY DEF Fragment
  <2> QED BY <2>2, <2>3 DEF FirstByte
<1>8. /\ DOMAIN st = RxFields /\ st.data = Insert(rx.data, 1, p, 1, 2)
      /\ st.size = 1 /\ st.avail = 0 /\ st.next = 1
      /\ st.gotFin = rx.gotFin /\ st.fin = rx.fin
  BY <1>5, <1>6, SumOfNone DEF Store, RxFields
<1> HIDE DEF st
<1>9. Contiguous(st) = 2
  <2>1. 1 \in DOMAIN st.data /\ FirstMissing(st.data, 1) = 2
    BY <1>7, <1>8, FirstMissingIs DEF FirstByte
  <2> QED BY <1>8, <2>1 DEF Contiguous
<1>10. /\ DOMAIN a = RxFields /\ a.data = st.data /\ a.size = 1 /\ a.avail = 1
       /\ a.next = IF rx.gotFin /\ 2 = rx.fin THEN 3 ELSE 2
       /\ a.gotFin = rx.gotFin /\ a.fin = rx.fin
  BY <1>8, <1>9 DEF Advance, AdvanceTo, RxFields
<1> HIDE DEF a
<1>11. SmallBuffer(a)
  BY <1>7, <1>8, <1>10 DEF SmallBuffer, OneByte
<1> QED BY <1>4, <1>10, <1>11

\* SetFinSequence notes the FIN and steps over it when it is next.
LEMMA SetFinSequenceIs ==
    ASSUME NEW rx, SmallBuffer(rx), NEW n \in Nat
    PROVE  /\ SmallBuffer(SetFinSequence(rx, n))
           /\ SetFinSequence(rx, n).gotFin /\ SetFinSequence(rx, n).fin = n
           /\ SetFinSequence(rx, n).size = rx.size
           /\ SetFinSequence(rx, n).next = IF rx.next = n THEN n + 1 ELSE rx.next
           /\ NoData(rx) => NoData(SetFinSequence(rx, n))
<1> DEFINE a == SetFinSequence(rx, n)
<1>1. /\ DOMAIN a = RxFields /\ a.gotFin = TRUE /\ a.fin = n
      /\ a.next = IF rx.next = n THEN n + 1 ELSE rx.next
      /\ a.data = rx.data /\ a.size = rx.size /\ a.avail = rx.avail
  BY DEF SetFinSequence, SmallBuffer, RxFields
<1> HIDE DEF a
<1>2. rx.next \in Nat /\ (NoData(rx) \/ OneByte(rx))
  BY DEF SmallBuffer
<1>3. a.next \in Nat /\ (rx.next >= 2 => a.next >= 2)
  BY <1>1, <1>2
<1>4. NoData(rx) => NoData(a)
  BY <1>1 DEF NoData
<1>5. OneByte(rx) => OneByte(a)
  BY <1>1, <1>3 DEF OneByte
<1>6. SmallBuffer(a)
  BY <1>1, <1>2, <1>3, <1>4, <1>5 DEF SmallBuffer
<1> QED BY <1>1, <1>4, <1>6 DEF a

-----------------------------------------------------------------------------
(***************************************************************************)
(* What does not disturb the socket.                                       *)
(***************************************************************************)
\* A segment that s may send.
SegmentFine(g, s, c) ==
    /\ Segment(g) /\ ("low" \in c => g.ack <= 1)
    /\ Vouches(g) => s.rx.next >= 1
    /\ Silent(s) => Unheard(g)

\* Fields the invariant bounds but does not relate.
Aside == {"out", "delAckTimer", "delAckCount", "announce", "told", "synCount",
          "dataRetrCount", "high"}

\* The Boolean fields one by one.
LEMMA TypedFields ==
    ASSUME NEW s, Typed(s)
    PROVE  /\ s.endPoint \in BOOLEAN /\ s.sent \in BOOLEAN /\ s.closeOnEmpty \in BOOLEAN
           /\ s.shutdownSend \in BOOLEAN /\ s.delAckTimer \in BOOLEAN
           /\ s.lastAck \in BOOLEAN /\ s.timeWait \in BOOLEAN /\ s.pending \in BOOLEAN
           /\ s.closing \in BOOLEAN
BY DEF Typed

\* Fields the invariant does not look at may change within their types.
LEMMA StaysTyped ==
    ASSUME NEW s, Typed(s), NEW t, Only(s, t, Aside),
           t.synCount \in 0 .. SynRetries, t.dataRetrCount \in 0 .. DataRetries,
           t.high \in Nat, t.delAckTimer \in BOOLEAN
    PROVE  Typed(t)
<1>1. \A f \in {"endPoint", "sent", "closeOnEmpty", "shutdownSend", "delAckTimer",
                "lastAck", "timeWait", "pending", "closing"} : t[f] \in BOOLEAN
  BY TypedFields DEF Only, Aside, SockFields
<1> QED BY <1>1 DEF Typed, Only, Aside, SockFields

\* The same for the whole invariant, if what is sent is in order.
LEMMA StaysGood ==
    ASSUME NEW c, NEW s, Good(s, c), NEW t, Only(s, t, Aside),
           t.synCount \in 0 .. SynRetries, t.dataRetrCount \in 0 .. DataRetries,
           t.high \in Nat, t.delAckTimer \in BOOLEAN, ~s.endPoint => ~t.delAckTimer,
           s.told \subseteq t.told, t.told \subseteq Tidings,
           \A g \in t.out : g \in s.out \/ SegmentFine(g, s, c)
    PROVE  Good(t, c)
<1>1. Typed(t)
  BY StaysTyped DEF Good, Basic
<1>2. Basic(t, c)
  BY <1>1 DEF Good, Basic, NoTimers, Only, Aside, SockFields, SegmentFine
<1>3. ASSUME t.endPoint PROVE Live(t, c)
  <2>1. Live(s, c)
    BY <1>3 DEF Good, Only, Aside, SockFields
  <2>2. TimersRun(t, c)
    BY <2>1 DEF Live, TimersRun, Young, Running, Idle, DataTimed, Only, Aside, SockFields
  <2>3. Silent(t) => \A g \in t.out : Unheard(g)
    BY <2>1 DEF Live, Silent, SegmentFine, Only, Aside, SockFields
  <2> QED BY <2>1, <2>2, <2>3 DEF Live, Young, Silent, Only, Aside, SockFields
<1> QED BY <1>2, <1>3 DEF Good

-----------------------------------------------------------------------------
(***************************************************************************)
(* Sending.                                                                *)
(***************************************************************************)
\* What SendEmptyPacket sends.
Packet(s, flags) ==
    [flags |-> flags, seq |-> s.next + AfterFin(s, flags), ack |-> s.rx.next, len |-> 0]

\* What SendEmptyPacket sends once it has counted SYNs.
LEMMA SendFlagsIs ==
    ASSUME NEW s, Typed(s), NEW flags
    PROVE  LET t == SendFlags(s, flags)
           IN  /\ Only(s, t, {"out", "delAckTimer", "delAckCount", "retx"})
               /\ t.out = s.out \union {Packet(s, flags)}
               /\ t.delAckTimer \in BOOLEAN
               /\ t.retx = IF s.retx = {} /\ flags \intersect {"SYN", "FIN"} # {}
                           THEN flags ELSE s.retx
<1> DEFINE e == Emit(s, flags, s.next + AfterFin(s, flags), 0)
<1>1. /\ Only(s, e, {"out", "delAckTimer", "delAckCount"})
      /\ e.out = s.out \union {Packet(s, flags)} /\ e.delAckTimer \in BOOLEAN
  BY DEF Emit, Only, Typed, SockFields, Packet
<1>2. SendFlags(s, flags) = Repeat(e, flags)
  BY DEF SendFlags
<1> HIDE DEF e
<1> DEFINE t == Repeat(e, flags)
<1>3. DOMAIN e = SockFields
  BY <1>1 DEF Only
<1>4. /\ Only(e, t, {"retx"})
      /\ t.retx = IF e.retx = {} /\ flags \intersect {"SYN", "FIN"} # {}
                  THEN flags ELSE e.retx
  BY <1>3 DEF Repeat, Only, SockFields
<1> HIDE DEF t
<1>5. /\ Only(s, t, {"out", "delAckTimer", "delAckCount", "retx"})
      /\ t.out = s.out \union {Packet(s, flags)} /\ t.delAckTimer \in BOOLEAN
      /\ t.retx = IF s.retx = {} /\ flags \intersect {"SYN", "FIN"} # {}
                  THEN flags ELSE s.retx
  BY <1>1, <1>4 DEF Only, SockFields
<1> QED BY <1>2, <1>5 DEF t

\* A packet without data is a segment and vouches only for what is received.
LEMMA PacketIs ==
    ASSUME NEW c, NEW s, Basic(s, c), NEW flags
    PROVE  /\ Segment(Packet(s, flags)) /\ ("low" \in c => Packet(s, flags).ack <= 1)
           /\ Packet(s, flags).flags = flags /\ Packet(s, flags).len = 0
           /\ Packet(s, flags).seq = s.next + AfterFin(s, flags)
           /\ Vouches(Packet(s, flags)) /\ "FIN" \notin flags => s.rx.next >= 1
<1>1. s.next \in Nat /\ s.rx.next \in Nat /\ AfterFin(s, flags) \in Nat
  BY DEF Basic, Typed, SmallBuffer, AfterFin
<1> QED BY <1>1 DEF Packet, Segment, SegFields, Basic, Vouches

\* Acknowledging keeps the invariant.
LEMMA AckGoes ==
    ASSUME NEW c, NEW s, Good(s, c)
    PROVE  /\ Good(SendEmptyPacket(s, {"ACK"}), c)
           /\ Only(s, SendEmptyPacket(s, {"ACK"}), {"out", "delAckTimer", "delAckCount"})
<1> DEFINE t == SendEmptyPacket(s, {"ACK"})
<1>1. Typed(s) /\ Basic(s, c)
  BY DEF Good, Basic
<1>2. CASE ~s.endPoint
  <2>1. t = s
    BY <1>2 DEF SendEmptyPacket
  <2> QED BY <1>1, <2>1 DEF Only, Typed
<1>3. CASE s.endPoint
  <2>1. t = SendFlags(s, {"ACK"})
    BY <1>3 DEF SendEmptyPacket, CountSyn
  <2> HIDE DEF t
  <2>2. /\ Only(s, t, {"out", "delAckTimer", "delAckCount", "retx"})
        /\ t.out = s.out \union {Packet(s, {"ACK"})}
        /\ t.delAckTimer \in BOOLEAN /\ t.retx = s.retx
    BY <1>1, <2>1, SendFlagsIs
  <2>3. Only(s, t, {"out", "delAckTimer", "delAckCount"})
    BY <2>2 DEF Only, SockFields
  <2>4. SegmentFine(Packet(s, {"ACK"}), s, c)
    BY <1>1, PacketIs DEF SegmentFine, Unheard
  <2>5. Only(s, t, Aside) /\ s.told \subseteq t.told
    BY <2>3 DEF Only, SockFields, Aside
  <2>6. /\ t.synCount \in 0 .. SynRetries /\ t.dataRetrCount \in 0 .. DataRetries
        /\ t.high \in Nat
    BY <2>3, <1>1 DEF Only, SockFields, Typed
  <2>7. Good(t, c)
    BY <1>1, <1>3, <2>2, <2>3, <2>4, <2>5, <2>6, StaysGood DEF Basic, Only, SockFields
  <2> QED BY <2>3, <2>7 DEF t
<1> QED BY <1>1, <1>2, <1>3, TypedFields

-----------------------------------------------------------------------------
(***************************************************************************)
(* Closing.                                                                *)
(***************************************************************************)
\* What DeallocateEndPoint and SendRST change.
Stopped == {"retx", "delAckTimer", "lastAck", "timeWait", "pending", "endPoint"}

\* DeallocateEndPoint stops every timer.
LEMMA DeallocateIs ==
    ASSUME NEW s, Typed(s)
    PROVE  LET t == DeallocateEndPoint(s)
           IN  /\ Typed(t) /\ ~t.endPoint /\ Only(s, t, Stopped)
               /\ IF s.endPoint THEN NoTimers(t) ELSE t = s
<1> DEFINE t == DeallocateEndPoint(s)
<1>1. CASE ~s.endPoint
  <2>1. t = s
    BY <1>1 DEF DeallocateEndPoint
  <2> QED BY <1>1, <2>1 DEF Only, Typed
<1>2. CASE s.endPoint
  <2>1. t = [[s EXCEPT !.retx = {}, !.delAckTimer = FALSE, !.lastAck = FALSE,
                       !.timeWait = FALSE, !.pending = FALSE] EXCEPT !.endPoint = FALSE]
    BY <1>2 DEF DeallocateEndPoint, CancelAllTimers
  <2> HIDE DEF t
  <2>2. DOMAIN s = SockFields
    BY DEF Typed
  <2>3. Only(s, t, Stopped) /\ NoTimers(t) /\ ~t.endPoint /\ ~t.pending
        /\ t.delAckTimer \in BOOLEAN /\ t.lastAck \in BOOLEAN /\ t.timeWait \in BOOLEAN
        /\ t.endPoint \in BOOLEAN /\ t.pending \in BOOLEAN
    BY <2>1, <2>2 DEF Only, Stopped, NoTimers, SockFields
  <2>4. \A f \in {"endPoint", "sent", "closeOnEmpty", "shutdownSend", "delAckTimer",
                  "lastAck", "timeWait", "pending", "closing"} : t[f] \in BOOLEAN
    BY <2>3, TypedFields DEF Only, Stopped, SockFields
  <2>5. Typed(t)
    BY <2>3, <2>4 DEF Typed, Only, Stopped, SockFields, NoTimers, Timers
  <2> QED BY <1>2, <2>3, <2>5 DEF t
<1> QED BY <1>1, <1>2

\* What no handler may break, whether the socket has an end point or not.
Steady(s, c) ==
    /\ s.closeOnEmpty => s.closing \/ s.shutdownSend
    /\ \A g \in s.out : /\ Segment(g) /\ ("low" \in c => g.ack <= 1)
                        /\ Vouches(g) => s.rx.next >= 1
    /\ "low" \in c => s.rx.next <= 1 /\ ~s.rx.gotFin
    /\ "begun" \in c => s.rx.next >= 1
    /\ s.connected => "met" \in c /\ s.rx.next >= 1
    /\ "aged" \in c => s.state \notin Attempting
    /\ s.told \subseteq Tidings

\* A socket that has lost its end point may do nothing any more.
LEMMA DeadIsGood ==
    ASSUME NEW c, NEW s, Typed(s), ~s.endPoint => NoTimers(s),
           Steady(s, c), s.told # {}
    PROVE  Good(DeallocateEndPoint(s), c)
<1> DEFINE t == DeallocateEndPoint(s)
<1>1. Typed(t) /\ ~t.endPoint /\ Only(s, t, Stopped) /\ NoTimers(t)
  BY DeallocateIs
<1> HIDE DEF t
<1>2. Basic(t, c)
  BY <1>1 DEF Basic, Steady, NoTimers, Only, Stopped, SockFields
<1> QED BY <1>1, <1>2 DEF Good, t

\* Tell changes what the application knows.
LEMMA TellIs ==
    ASSUME NEW s, DOMAIN s = SockFields, NEW what
    PROVE  /\ Only(s, Tell(s, what), {"told"})
           /\ Tell(s, what).told = s.told \union {what}
BY DEF Tell, Only, SockFields

RstFields == Stopped \union {"out", "delAckCount", "told"}

\* A reset is sent and the end point given up.
LEMMA RstGoes ==
    ASSUME NEW c, NEW s, Basic(s, c)
    PROVE  /\ Good(SendRST(s), c) /\ ~SendRST(s).endPoint
           /\ Only(s, SendRST(s), RstFields) /\ SendRST(s).told # {}
<1> DEFINE u == SendEmptyPacket(s, {"RST"})
           v == Tell(u, "error")
<1>1. Typed(s)
  BY DEF Basic
<1>2. /\ Only(s, u, {"out", "delAckTimer", "delAckCount", "retx"})
      /\ u.retx = s.retx /\ u.delAckTimer \in BOOLEAN
      /\ ~s.endPoint => u = s
      /\ u.out = s.out \/ u.out = s.out \union {Packet(s, {"RST"})}
  <2>1. CASE ~s.endPoint
    <3>1. u = s
      BY <2>1 DEF SendEmptyPacket
    <3> QED BY <1>1, <3>1, TypedFields DEF Only, Typed
  <2>2. CASE s.endPoint
    <3>1. u = SendFlags(s, {"RST"})
      BY <2>2 DEF SendEmptyPacket, CountSyn
    <3> HIDE DEF u
    <3>2. /\ Only(s, u, {"out", "delAckTimer", "delAckCount", "retx"})
          /\ u.out = s.out \union {Packet(s, {"RST"})}
          /\ u.delAckTimer \in BOOLEAN /\ u.retx = s.retx
      BY <1>1, <3>1, SendFlagsIs
    <3> QED BY <2>2, <3>2
  <2> QED BY <1>1, <2>1, <2>2, TypedFields
<1> HIDE DEF u
<1>3. DOMAIN u = SockFields
  BY <1>2 DEF Only
<1>4. Only(u, v, {"told"}) /\ v.told = u.told \union {"error"}
  BY <1>3, TellIs
<1> HIDE DEF v
<1>5. /\ Only(s, v, {"out", "delAckTimer", "delAckCount", "told"})
      /\ v.retx = s.retx /\ v.delAckTimer \in BOOLEAN /\ v.told # {}
      /\ ~s.endPoint => v.delAckTimer = s.delAckTimer
      /\ v.out = s.out \/ v.out = s.out \union {Packet(s, {"RST"})}
      /\ v.told = s.told \union {"error"}
  BY <1>2, <1>4 DEF Only, SockFields
<1>6. Typed(v)
  <2>1. Only(s, v, Aside)
    BY <1>5 DEF Only, Aside, SockFields
  <2>2. /\ v.synCount \in 0 .. SynRetries /\ v.dataRetrCount \in 0 .. DataRetries
        /\ v.high \in Nat
    BY <1>1, <1>5 DEF Typed, Only, SockFields
  <2> QED BY <1>1, <1>5, <2>1, <2>2, StaysTyped
<1>7. \A g \in v.out : /\ Segment(g) /\ ("low" \in c => g.ack <= 1)
                       /\ Vouches(g) => v.rx.next >= 1
  <2>1. v.rx = s.rx
    BY <1>5 DEF Only, SockFields
  <2> QED BY <1>5, <2>1, PacketIs DEF Basic
<1>8. (~v.endPoint => NoTimers(v)) /\ Steady(v, c)
  <2>1. /\ v.closeOnEmpty = s.closeOnEmpty /\ v.closing = s.closing /\ v.rx = s.rx
        /\ v.shutdownSend = s.shutdownSend /\ v.connected = s.connected
        /\ v.state = s.state /\ v.endPoint = s.endPoint /\ v.lastAck = s.lastAck
        /\ v.timeWait = s.timeWait
    BY <1>5 DEF Only, SockFields
  <2>2. v.told \subseteq Tidings
    BY <1>5 DEF Basic, Tidings
  <2>3. Steady(v, c)
    <3>1. \A g \in v.out : /\ Segment(g) /\ ("low" \in c => g.ack <= 1)
                           /\ Vouches(g) => v.rx.next >= 1
      BY <1>7
    <3>2. /\ v.closeOnEmpty => v.closing \/ v.shutdownSend
          /\ "low" \in c => v.rx.next <= 1 /\ ~v.rx.gotFin
          /\ "begun" \in c => v.rx.next >= 1
          /\ v.connected => "met" \in c /\ v.rx.next >= 1
          /\ "aged" \in c => v.state \notin Attempting
      BY <2>1 DEF Basic
    <3> QED BY <2>2, <3>1, <3>2 DEF Steady
  <2> QED BY <1>5, <2>1, <2>3 DEF Basic, NoTimers
<1>9. Good(DeallocateEndPoint(v), c)
  BY <1>5, <1>6, <1>8, DeadIsGood
<1>10. ~DeallocateEndPoint(v).endPoint /\ Only(v, DeallocateEndPoint(v), Stopped)
  BY <1>6, DeallocateIs
<1>11. SendRST(s) = DeallocateEndPoint(v)
  BY DEF SendRST, v, u
<1>12. Only(s, DeallocateEndPoint(v), RstFields) /\ DeallocateEndPoint(v).told # {}
  BY <1>5, <1>10 DEF Only, Stopped, RstFields, SockFields
<1> QED BY <1>9, <1>10, <1>11, <1>12

\* CloseAndNotify leaves a closed socket without end point or timer.
LEMMA CloseAndNotifyIs ==
    ASSUME NEW c, NEW s, Basic(s, c)
    PROVE  /\ Good(CloseAndNotify(s), c) /\ ~CloseAndNotify(s).endPoint
           /\ CloseAndNotify(s).rx = s.rx
           /\ CloseAndNotify(s).closing = s.closing
           /\ CloseAndNotify(s).state = "CLOSED"
<1> DEFINE v == [Tell(s, "closed") EXCEPT !.lastAck = FALSE, !.state = "CLOSED"]
<1>1. Typed(s) /\ DOMAIN s = SockFields
  BY DEF Basic, Typed
<1>2. /\ Only(s, v, {"told", "lastAck", "state"}) /\ v.state = "CLOSED"
      /\ v.told # {} /\ v.told = s.told \union {"closed"} /\ v.lastAck = FALSE
  BY <1>1 DEF Tell, Only, SockFields
<1> HIDE DEF v
<1>3. \A f \in {"endPoint", "sent", "closeOnEmpty", "shutdownSend", "delAckTimer",
                "lastAck", "timeWait", "pending", "closing"} : v[f] \in BOOLEAN
  BY <1>1, <1>2, TypedFields DEF Only, SockFields
<1>4. Typed(v)
  BY <1>1, <1>2, <1>3 DEF Typed, Only, SockFields, States
<1>5. Good(DeallocateEndPoint(v), c)
  <2>1. (~v.endPoint => NoTimers(v)) /\ Steady(v, c)
    BY <1>2 DEF Basic, Steady, NoTimers, Only, SockFields, Attempting, Tidings
  <2> QED BY <1>2, <1>4, <2>1, DeadIsGood
<1>6. ~DeallocateEndPoint(v).endPoint /\ Only(v, DeallocateEndPoint(v), Stopped)
  BY <1>4, DeallocateIs
<1>7. CloseAndNotify(s) = DeallocateEndPoint(v)
  BY DEF CloseAndNotify, v
<1> QED BY <1>2, <1>5, <1>6, <1>7 DEF Only, Stopped, SockFields

\* The FIN goes out: from q on its timer runs.
LEMMA FinOut ==
    ASSUME NEW c, NEW s, Basic(s, c), s.endPoint => s.state # "SYN_SENT",
           NEW F \in {{"FIN"}, {"FIN", "ACK"}}
    PROVE  LET u == SendEmptyPacket(s, F)
           IN  /\ Only(s, u, {"out", "delAckTimer", "delAckCount", "retx"})
               /\ u.delAckTimer \in BOOLEAN
               /\ IF s.endPoint
                  THEN u.retx = IF s.retx = {} THEN {"FIN", "ACK"} ELSE s.retx
                  ELSE u = s
               /\ \A g \in u.out : /\ Segment(g) /\ ("low" \in c => g.ack <= 1)
                                   /\ Vouches(g) => s.rx.next >= 1
<1> DEFINE u == SendEmptyPacket(s, F)
<1>1. Typed(s) /\ \A g \in s.out : /\ Segment(g) /\ ("low" \in c => g.ack <= 1)
                                   /\ Vouches(g) => s.rx.next >= 1
  BY DEF Basic
<1>2. CASE ~s.endPoint
  <2>1. u = s
    BY <1>2 DEF SendEmptyPacket
  <2> QED BY <1>1, <1>2, <2>1, TypedFields DEF Only, Typed
<1>3. CASE s.endPoint
  <2>1. F \union {"ACK"} = {"FIN", "ACK"} /\ "FIN" \in F /\ "SYN" \notin F
    OBVIOUS
  <2>2. u = SendFlags(s, {"FIN", "ACK"})
    BY <1>3, <2>1 DEF SendEmptyPacket, CountSyn
  <2> HIDE DEF u
  <2>3. /\ Only(s, u, {"out", "delAckTimer", "delAckCount", "retx"})
        /\ u.out = s.out \union {Packet(s, {"FIN", "ACK"})}
        /\ u.delAckTimer \in BOOLEAN
        /\ u.retx = IF s.retx = {} THEN {"FIN", "ACK"} ELSE s.retx
    <3>1. {"FIN", "ACK"} \intersect {"SYN", "FIN"} # {}
      OBVIOUS
    <3> QED BY <1>1, <2>2, <3>1, SendFlagsIs
  <2>4. \A g \in u.out : /\ Segment(g) /\ ("low" \in c => g.ack <= 1)
                         /\ Vouches(g) => s.rx.next >= 1
    <3>1. s.rx.next >= 1
      BY <1>3 DEF Basic, Typed
    <3> QED BY <1>1, <2>3, <3>1, PacketIs
  <2> QED BY <1>3, <2>3, <2>4 DEF u
<1> QED BY <1>1, <1>2, <1>3, TypedFields

\* A FIN and the state that waits for its acknowledgment.
LEMMA FinState ==
    ASSUME NEW c, NEW s, Good(s, c), NEW F \in {{"FIN"}, {"FIN", "ACK"}},
           s.state \in {"SYN_RCVD", "ESTABLISHED", "CLOSE_WAIT"},
           s.closing \/ s.shutdownSend,
           s.size = 1 => ~Young(s, c),
           NEW q \in {"FIN_WAIT_1", "LAST_ACK"},
           q = "LAST_ACK" /\ s.endPoint /\ "fin" \notin c => Idle(s)
    PROVE  LET t == [SendEmptyPacket(s, F) EXCEPT !.state = q]
           IN  /\ Good(t, c) /\ t.state = q
               /\ Only(s, t, {"out", "delAckTimer", "delAckCount", "retx", "state"})
<1> DEFINE u == SendEmptyPacket(s, F)
           t == [u EXCEPT !.state = q]
<1>1. Basic(s, c) /\ Typed(s)
  BY DEF Good, Basic
<1>2. /\ Only(s, u, {"out", "delAckTimer", "delAckCount", "retx"})
      /\ u.delAckTimer \in BOOLEAN
      /\ IF s.endPoint THEN u.retx = IF s.retx = {} THEN {"FIN", "ACK"} ELSE s.retx
         ELSE u = s
      /\ \A g \in u.out : /\ Segment(g) /\ ("low" \in c => g.ack <= 1)
                          /\ Vouches(g) => s.rx.next >= 1
  BY <1>1, FinOut
<1> HIDE DEF u
<1>3. /\ Only(s, t, {"out", "delAckTimer", "delAckCount", "retx", "state"})
      /\ t.state = q /\ t.retx = u.retx /\ t.out = u.out /\ t.delAckTimer = u.delAckTimer
  BY <1>2 DEF Only, SockFields
<1> HIDE DEF t
<1>4. t.retx \in Timers /\ (s.endPoint => t.retx # {} /\ (Idle(s) => DataTimed(t)))
      /\ (~s.endPoint => t.retx = s.retx /\ t.delAckTimer = s.delAckTimer)
  <2>1. s.retx \in Timers /\ s.endPoint \in BOOLEAN
    BY <1>1, TypedFields DEF Typed
  <2>2. t.size = s.size
    BY <1>3 DEF Only, SockFields
  <2>3. {"FIN", "ACK"} \in Timers /\ {"FIN", "ACK"} # {} /\ {"FIN", "ACK"} # {"DATA"}
    BY DEF Timers
  <2> QED BY <1>2, <1>3, <2>1, <2>2, <2>3 DEF Idle, DataTimed
<1>5. Typed(t)
  <2>1. \A f \in {"endPoint", "sent", "closeOnEmpty", "shutdownSend", "delAckTimer",
                  "lastAck", "timeWait", "pending", "closing"} : t[f] \in BOOLEAN
    BY <1>1, <1>2, <1>3, TypedFields DEF Only, SockFields
  <2> QED BY <1>1, <1>3, <1>4, <2>1 DEF Typed, Only, SockFields, States
<1>6. Basic(t, c)
  <2>1. /\ t.closeOnEmpty = s.closeOnEmpty /\ t.closing = s.closing /\ t.rx = s.rx
        /\ t.shutdownSend = s.shutdownSend /\ t.connected = s.connected
        /\ t.endPoint = s.endPoint /\ t.lastAck = s.lastAck
        /\ t.timeWait = s.timeWait /\ t.told = s.told
    BY <1>3 DEF Only, SockFields
  <2>2. /\ \A g \in t.out : Vouches(g) => t.rx.next >= 1
        /\ \A g \in t.out : Segment(g) /\ ("low" \in c => g.ack <= 1)
    <3>1. \A g \in u.out : /\ Segment(g) /\ ("low" \in c => g.ack <= 1)
                           /\ Vouches(g) => s.rx.next >= 1
      BY <1>2
    <3>2. t.out = u.out /\ t.rx = s.rx
      BY <1>3, <2>1
    <3> QED BY <3>1, <3>2
  <2>3. t.state \notin Attempting /\ t.state # "CLOSED"
    BY <1>3 DEF Attempting
  <2>4. ~t.endPoint => NoTimers(t)
    BY <1>1, <1>4, <2>1 DEF Basic, NoTimers
  <2> QED BY <1>1, <1>5, <2>1, <2>2, <2>3, <2>4 DEF Basic
<1>7. ASSUME t.endPoint PROVE Live(t, c)
  <2>1. s.endPoint /\ Live(s, c)
    BY <1>3, <1>7 DEF Only, SockFields, Good
  <2>2. t.retx # {} /\ (q = "LAST_ACK" /\ "fin" \notin c => DataTimed(t)) /\ ~t.lastAck
    BY <1>3, <1>4, <2>1 DEF Live, TimersRun, Only, SockFields
  <2>3. TimersRun(t, c)
    BY <1>3, <2>2 DEF TimersRun, Young, Running
  <2> QED BY <1>3, <2>1, <2>3 DEF Live, Young, Silent, Only, SockFields
<1> QED BY <1>3, <1>6, <1>7 DEF Good, t, u

\* What closing does: with unread data the end point goes, else it stays, except where
\* the connection is not set up or all but over.
Closes(s, t) ==
    /\ t.rx = s.rx /\ t.closing = s.closing
    /\ s.rx.size # 0 => ~t.endPoint /\ t.state = s.state
    /\ s.rx.size = 0 /\ s.state \notin {"SYN_SENT", "CLOSING"} =>
          /\ t.endPoint = s.endPoint /\ t.lastAck = s.lastAck /\ t.wrote = s.wrote
          /\ \/ t.state = s.state /\ t.retx = s.retx /\ t.size = s.size
             \/ t.state = "FIN_WAIT_1" /\ s.state \in {"SYN_RCVD", "ESTABLISHED"}
             \/ t.state = "LAST_ACK" /\ s.state = "CLOSE_WAIT"

\* Close with nothing left to read or send.
LEMMA DoCloseIs ==
    ASSUME NEW c, NEW s, Good(s, c), s.closing \/ s.shutdownSend,
           s.rx.size = 0, ~Unsent(s),
           s.state = "CLOSE_WAIT" /\ s.endPoint /\ "fin" \notin c => Idle(s)
    PROVE  Good(DoClose(s), c) /\ Closes(s, DoClose(s))
<1> DEFINE t == DoClose(s)
<1>1. Basic(s, c) /\ Typed(s)
  BY DEF Good, Basic
<1>2. CASE s.state \in {"SYN_RCVD", "ESTABLISHED"}
  <2> DEFINE u == [SendEmptyPacket(s, {"FIN"}) EXCEPT !.state = "FIN_WAIT_1"]
  <2>1. t = u
    BY <1>2 DEF DoClose
  <2>2. s.size = 1 /\ s.endPoint => ~Young(s, c)
    BY <1>1 DEF Good, Live, Typed, Unsent
  <2>3. CASE s.size = 1 => ~Young(s, c)
    <3> HIDE DEF t
    <3>1. /\ Good(u, c) /\ u.state = "FIN_WAIT_1"
          /\ Only(s, u, {"out", "delAckTimer", "delAckCount", "retx", "state"})
      BY <1>2, <2>3, FinState
    <3> HIDE DEF u
    <3> QED BY <1>2, <2>1, <3>1 DEF Closes, Only, SockFields, t
  <2>4. CASE ~s.endPoint
    <3>1. t = [s EXCEPT !.state = "FIN_WAIT_1"]
      BY <2>1, <2>4 DEF SendEmptyPacket
    <3> HIDE DEF t
    <3>2. Only(s, t, {"state"}) /\ t.state = "FIN_WAIT_1"
      BY <1>1, <3>1 DEF Only, SockFields, Typed
    <3>3. \A f \in {"endPoint", "sent", "closeOnEmpty", "shutdownSend", "delAckTimer",
                    "lastAck", "timeWait", "pending", "closing"} : t[f] \in BOOLEAN
      BY <1>1, <3>2, TypedFields DEF Only, SockFields
    <3>4. Typed(t)
      BY <1>1, <1>2, <3>2, <3>3 DEF Typed, Only, SockFields, States
    <3>5. Basic(t, c) /\ ~t.endPoint
      BY <1>1, <2>4, <3>2, <3>4 DEF Basic, Only, SockFields, NoTimers, Attempting
    <3> QED BY <1>2, <3>2, <3>5 DEF Good, Closes, Only, SockFields, t
  <2> QED BY <1>1, <2>2, <2>3, <2>4, TypedFields
<1>3. CASE s.state = "CLOSE_WAIT"
  <2> DEFINE u == [SendEmptyPacket(s, {"FIN", "ACK"}) EXCEPT !.state = "LAST_ACK"]
  <2>1. t = u
    BY <1>3 DEF DoClose
  <2> HIDE DEF t
  <2>2. ~Young(s, c)
    BY <1>3 DEF Young
  <2>3. /\ Good(u, c) /\ u.state = "LAST_ACK"
        /\ Only(s, u, {"out", "delAckTimer", "delAckCount", "retx", "state"})
    BY <1>3, <2>2, FinState
  <2> HIDE DEF u
  <2> QED BY <1>3, <2>1, <2>3 DEF Closes, Only, SockFields, t
<1>4. CASE s.state \in {"SYN_SENT", "CLOSING"}
  <2>1. t = CloseAndNotify(SendRST(s))
    BY <1>4 DEF DoClose
  <2> HIDE DEF t
  <2>2. Good(SendRST(s), c) /\ Only(s, SendRST(s), RstFields)
    BY <1>1, RstGoes
  <2>3. Good(t, c) /\ t.rx = SendRST(s).rx /\ t.closing = SendRST(s).closing
    BY <2>1, <2>2, CloseAndNotifyIs DEF Good
  <2> QED BY <1>4, <2>2, <2>3 DEF Closes, Only, RstFields, Stopped, SockFields, t
<1>5. CASE s.state \notin {"SYN_RCVD", "ESTABLISHED", "CLOSE_WAIT", "SYN_SENT", "CLOSING"}
  <2>1. t = s
    BY <1>5 DEF DoClose
  <2> QED BY <2>1 DEF Closes
<1> QED BY <1>2, <1>3, <1>4, <1>5

\* Close, whatever is left.
LEMMA CloseSocketIs ==
    ASSUME NEW c, NEW s, Good(s, c), s.closing \/ s.shutdownSend,
           s.state = "CLOSE_WAIT" /\ s.endPoint /\ "fin" \notin c => Idle(s)
    PROVE  Good(CloseSocket(s), c) /\ Closes(s, CloseSocket(s))
<1> DEFINE t == CloseSocket(s)
<1>1. Basic(s, c) /\ Typed(s)
  BY DEF Good, Basic
<1>2. CASE s.rx.size # 0
  <2>1. t = SendRST(s)
    BY <1>2 DEF CloseSocket
  <2> HIDE DEF t
  <2>2. Good(t, c) /\ ~t.endPoint /\ Only(s, t, RstFields)
    BY <1>1, <2>1, RstGoes
  <2> QED BY <1>2, <2>2 DEF Closes, Only, RstFields, Stopped, SockFields, t
<1>3. CASE s.rx.size = 0 /\ Unsent(s)
  <2>1. t = [s EXCEPT !.closeOnEmpty = TRUE]
    BY <1>3 DEF CloseSocket
  <2> HIDE DEF t
  <2>2. Only(s, t, {"closeOnEmpty"}) /\ t.closeOnEmpty = TRUE
    BY <1>1, <2>1 DEF Only, SockFields, Typed
  <2>3. \A f \in {"endPoint", "sent", "closeOnEmpty", "shutdownSend", "delAckTimer",
                  "lastAck", "timeWait", "pending", "closing"} : t[f] \in BOOLEAN
    <3>1. \A f \in {"endPoint", "sent", "shutdownSend", "delAckTimer", "lastAck",
                    "timeWait", "pending", "closing"} : t[f] = s[f]
      BY <2>2 DEF Only, SockFields
    <3>2. \A f \in {"endPoint", "sent", "shutdownSend", "delAckTimer", "lastAck",
                    "timeWait", "pending", "closing"} : s[f] \in BOOLEAN
      BY <1>1 DEF Typed
    <3> QED BY <2>2, <3>1, <3>2
  <2>4. Typed(t)
    BY <1>1, <2>2, <2>3 DEF Typed, Only, SockFields
  <2>5. Basic(t, c)
    BY <1>1, <2>2, <2>4 DEF Basic, Only, SockFields, NoTimers
  <2>6. ASSUME t.endPoint PROVE Live(t, c)
    <3>1. Live(s, c)
      BY <2>2, <2>6 DEF Good, Only, SockFields
    <3>2. TimersRun(t, c)
      BY <3>1, <2>2 DEF Live, TimersRun, Young, Running, Idle, DataTimed, Only, SockFields
    <3> QED BY <3>1, <3>2, <2>2 DEF Live, Young, Silent, Only, SockFields
  <2> QED BY <1>3, <2>2, <2>5, <2>6 DEF Good, Closes, Only, SockFields, t
<1>4. CASE s.rx.size = 0 /\ ~Unsent(s)
  <2>1. t = DoClose(s)
    BY <1>4 DEF CloseSocket
  <2> QED BY <1>4, <2>1, DoCloseIs
<1> QED BY <1>2, <1>3, <1>4

\* The application closes.
LEMMA AppClosesIs ==
    ASSUME NEW c, NEW s, Good(s, c), ~s.closing
    PROVE  /\ Good(AppCloses(s), c) /\ AppCloses(s).closing
           /\ Closes([s EXCEPT !.closing = TRUE], AppCloses(s))
<1> DEFINE a == [s EXCEPT !.closing = TRUE]
<1>1. Basic(s, c) /\ Typed(s)
  BY DEF Good, Basic
<1>2. Only(s, a, {"closing"}) /\ a.closing = TRUE
  BY <1>1 DEF Only, SockFields, Typed
<1>3. AppCloses(s) = CloseSocket(a)
  BY DEF AppCloses
<1> HIDE DEF a
<1>4. \A f \in {"endPoint", "sent", "closeOnEmpty", "shutdownSend", "delAckTimer",
                "lastAck", "timeWait", "pending", "closing"} : a[f] \in BOOLEAN
  BY <1>1, <1>2, TypedFields DEF Only, SockFields
<1>5. Typed(a)
  BY <1>1, <1>2, <1>4 DEF Typed, Only, SockFields
<1>6. Basic(a, c)
  BY <1>1, <1>2, <1>5 DEF Basic, Only, SockFields, NoTimers
<1>7. ASSUME a.endPoint PROVE Live(a, c)
  <2>1. Live(s, c)
    BY <1>2, <1>7 DEF Good, Only, SockFields
  <2>2. TimersRun(a, c)
    BY <2>1, <1>2 DEF Live, TimersRun, Young, Running, Idle, DataTimed, Only, SockFields
  <2> QED BY <2>1, <2>2, <1>2 DEF Live, Young, Silent, Only, SockFields
<1>8. Good(a, c)
  BY <1>6, <1>7 DEF Good
<1>9. a.state = "CLOSE_WAIT" /\ a.endPoint /\ "fin" \notin c => Idle(a)
  BY <1>2 DEF Good, Live, TimersRun, Running, Idle, Only, SockFields
<1>10. Good(CloseSocket(a), c) /\ Closes(a, CloseSocket(a))
  BY <1>2, <1>8, <1>9, CloseSocketIs
<1> QED BY <1>2, <1>3, <1>10 DEF Closes, a

\* The application reads.
LEMMA ReadAllIs ==
    ASSUME NEW c, NEW s, Good(s, c)
    PROVE  LET t == ReadAll(s)
           IN  /\ Good(t, c) /\ Only(s, t, {"rx"}) /\ t.rx.size = 0
               /\ t.rx.next = s.rx.next /\ t.rx.gotFin = s.rx.gotFin
               /\ t.rx.fin = s.rx.fin
<1> DEFINE t == ReadAll(s)
           e == Extract(s.rx, MaxBuffer)
<1>1. Basic(s, c) /\ Typed(s) /\ SmallBuffer(s.rx)
  BY DEF Good, Basic, Typed
<1>2. /\ SmallBuffer(e) /\ NoData(e) /\ e.next = s.rx.next
      /\ e.gotFin = s.rx.gotFin /\ e.fin = s.rx.fin
  BY <1>1, ExtractEmpties
<1> HIDE DEF e
<1>3. Only(s, t, {"rx"}) /\ t.rx = e
  BY <1>1 DEF ReadAll, Only, SockFields, Typed, e
<1> HIDE DEF t
<1>4. \A f \in {"endPoint", "sent", "closeOnEmpty", "shutdownSend", "delAckTimer",
                "lastAck", "timeWait", "pending", "closing"} : t[f] \in BOOLEAN
  BY <1>1, <1>3, TypedFields DEF Only, SockFields
<1>5. Typed(t)
  BY <1>1, <1>2, <1>3, <1>4 DEF Typed, Only, SockFields
<1>6. Basic(t, c)
  BY <1>1, <1>2, <1>3, <1>5 DEF Basic, Only, SockFields, NoTimers
<1>7. ASSUME t.endPoint PROVE Live(t, c)
  <2>1. Live(s, c)
    BY <1>3, <1>7 DEF Good, Only, SockFields
  <2>2. TimersRun(t, c)
    BY <2>1, <1>3 DEF Live, TimersRun, Young, Running, Idle, DataTimed, Only, SockFields
  <2> QED BY <2>1, <2>2, <1>2, <1>3 DEF Live, Young, Silent, Only, SockFields
<1> QED BY <1>2, <1>3, <1>6, <1>7 DEF Good, NoData, t

\* What a callback of the application does to the socket that calls it.
Told(s, t) ==
    /\ t.rx.next = s.rx.next /\ t.rx.gotFin = s.rx.gotFin /\ t.rx.fin = s.rx.fin
    /\ t.closing \/ (/\ t.closing = s.closing /\ t.state = s.state /\ t.rx = s.rx
                     /\ t.endPoint = s.endPoint /\ t.retx = s.retx /\ t.size = s.size
                     /\ t.shutdownSend = s.shutdownSend)

\* The application is told of data, and may close.
LEMMA OnDataIs ==
    ASSUME NEW c, NEW s, Good(s, c), NEW r
    PROVE  LET t == OnData(s, r)
           IN  /\ Good(t, c) /\ Told(s, t)
               /\ s.state \notin {"SYN_SENT", "CLOSING"} =>
                    /\ t.endPoint = s.endPoint /\ t.lastAck = s.lastAck
                    /\ \/ t.state = s.state
                       \/ t.state = "FIN_WAIT_1" /\ s.state \in {"SYN_RCVD", "ESTABLISHED"}
                       \/ t.state = "LAST_ACK" /\ s.state = "CLOSE_WAIT"
<1> DEFINE t == OnData(s, r)
<1>1. CASE r = "close" /\ ~s.closing
  <2> DEFINE u == ReadAll(s)
             a == [u EXCEPT !.closing = TRUE]
  <2>1. t = AppCloses(u)
    BY <1>1 DEF OnData
  <2> HIDE DEF t
  <2>2. /\ Good(u, c) /\ Only(s, u, {"rx"}) /\ u.rx.size = 0
        /\ u.rx.next = s.rx.next /\ u.rx.gotFin = s.rx.gotFin /\ u.rx.fin = s.rx.fin
    BY ReadAllIs
  <2> HIDE DEF u
  <2>3. Only(u, a, {"closing"})
    BY <2>2 DEF Only, SockFields
  <2>4. Good(AppCloses(u), c) /\ AppCloses(u).closing /\ Closes(a, AppCloses(u))
    BY <1>1, <2>2, AppClosesIs DEF Only, SockFields
  <2> HIDE DEF a
  <2> QED BY <2>1, <2>2, <2>3, <2>4 DEF Closes, Told, Only, SockFields, t
<1>2. CASE ~(r = "close" /\ ~s.closing)
  <2>1. t = s
    BY <1>2 DEF OnData
  <2> QED BY <2>1 DEF Told
<1> QED BY <1>1, <1>2

\* Being told disturbs nothing.
LEMMA TellGood ==
    ASSUME NEW c, NEW s, Good(s, c), NEW what \in Tidings
    PROVE  /\ Good(Tell(s, what), c) /\ Only(s, Tell(s, what), {"told"})
           /\ Tell(s, what).told # {}
<1>1. /\ Typed(s) /\ DOMAIN s = SockFields /\ (~s.endPoint => ~s.delAckTimer)
      /\ s.told \subseteq Tidings
  BY DEF Good, Basic, Typed, NoTimers
<1> DEFINE t == Tell(s, what)
<1>2. Only(s, t, {"told"}) /\ t.told = s.told \union {what}
  BY <1>1, TellIs
<1> HIDE DEF t
<1>3. Only(s, t, Aside)
  BY <1>2 DEF Only, Aside, SockFields
<1>4. /\ t.synCount \in 0 .. SynRetries /\ t.dataRetrCount \in 0 .. DataRetries
      /\ t.high \in Nat /\ t.delAckTimer \in BOOLEAN /\ (~s.endPoint => ~t.delAckTimer)
      /\ t.out = s.out
  BY <1>1, <1>2, TypedFields DEF Typed, Only, SockFields
<1>5. Good(t, c)
  BY <1>1, <1>2, <1>3, <1>4, StaysGood
<1> QED BY <1>2, <1>5 DEF t

\* The application is told of the end, and may close.
LEMMA OnCloseIs ==
    ASSUME NEW c, NEW s, Good(s, c), NEW r, s.state = "CLOSE_WAIT"
    PROVE  LET t == OnClose(s, r)
           IN  /\ Good(t, c) /\ Told(s, t)
               /\ t.state \in {"CLOSE_WAIT", "LAST_ACK"}
               /\ t.rx = s.rx
               /\ s.rx.size = 0 => t.endPoint = s.endPoint
               /\ t.state = "LAST_ACK" => t.rx.size = 0
<1> DEFINE t == OnClose(s, r)
           b == Tell(s, "closed")
<1>1. Good(b, c) /\ Only(s, b, {"told"})
  BY TellGood DEF Tidings
<1>2. CASE "closed" \in s.told
  <2>1. t = s
    BY <1>2 DEF OnClose
  <2> QED BY <2>1 DEF Told
<1>3. CASE "closed" \notin s.told /\ r = "close" /\ ~s.closing
  <2>1. t = AppCloses(b)
    BY <1>3 DEF OnClose
  <2> HIDE DEF t, b
  <2> DEFINE a == [b EXCEPT !.closing = TRUE]
  <2>2. Good(AppCloses(b), c) /\ AppCloses(b).closing /\ Closes(a, AppCloses(b))
    BY <1>1, <1>3, AppClosesIs DEF Only, SockFields
  <2>3. Only(b, a, {"closing"})
    BY <1>1 DEF Only, SockFields
  <2> HIDE DEF a
  <2>4. /\ a.rx = s.rx /\ a.state = "CLOSE_WAIT" /\ a.endPoint = s.endPoint
        /\ a.lastAck = s.lastAck
    BY <1>1, <2>3 DEF Only, SockFields
  <2> QED BY <2>1, <2>2, <2>4 DEF Closes, Told, t
<1>4. CASE "closed" \notin s.told /\ ~(r = "close" /\ ~s.closing)
  <2>1. t = b
    BY <1>4 DEF OnClose
  <2> HIDE DEF t, b
  <2> QED BY <1>1, <2>1 DEF Told, Only, SockFields, t
<1> QED BY <1>2, <1>3, <1>4

\* TIME_WAIT runs its own timer and no other.
LEMMA TimeWaitIs ==
    ASSUME NEW c, NEW s, Good(s, c), s.endPoint,
           s.state \in {"FIN_WAIT_1", "FIN_WAIT_2", "CLOSING"}
    PROVE  Good(TimeWait(s), c) /\ TimeWait(s).state = "TIME_WAIT"
<1> DEFINE t == TimeWait(s)
<1>1. Basic(s, c) /\ Typed(s) /\ DOMAIN s = SockFields
  BY DEF Good, Basic, Typed
<1>2. /\ Only(s, t, {"retx", "delAckTimer", "lastAck", "timeWait", "pending", "state", "told"})
      /\ t.state = "TIME_WAIT" /\ t.timeWait = TRUE /\ t.retx = {}
      /\ t.told = s.told \union {"closed"} /\ t.lastAck = FALSE /\ t.pending = FALSE /\ t.delAckTimer = FALSE
  BY <1>1 DEF TimeWait, Tell, CancelAllTimers, Only, SockFields
<1> HIDE DEF t
<1>3. \A f \in {"endPoint", "sent", "closeOnEmpty", "shutdownSend", "delAckTimer",
                "lastAck", "timeWait", "pending", "closing"} : t[f] \in BOOLEAN
  <2>1. /\ t.endPoint = s.endPoint /\ t.sent = s.sent /\ t.closeOnEmpty = s.closeOnEmpty
        /\ t.shutdownSend = s.shutdownSend /\ t.closing = s.closing
    BY <1>2 DEF Only, SockFields
  <2>2. /\ t.endPoint \in BOOLEAN /\ t.sent \in BOOLEAN /\ t.closeOnEmpty \in BOOLEAN
        /\ t.shutdownSend \in BOOLEAN /\ t.closing \in BOOLEAN
    BY <1>1, <2>1, TypedFields
  <2>3. /\ t.delAckTimer \in BOOLEAN /\ t.lastAck \in BOOLEAN
        /\ t.timeWait \in BOOLEAN /\ t.pending \in BOOLEAN
    BY <1>2
  <2> QED BY <2>2, <2>3
<1>4. Typed(t)
  BY <1>1, <1>2, <1>3 DEF Typed, Only, SockFields, States, Timers
<1>5. Basic(t, c)
  BY <1>1, <1>2, <1>4 DEF Basic, Only, SockFields, NoTimers, Attempting, Tidings
<1>6. Live(t, c)
  <2>1. Live(s, c) /\ ~Young(s, c)
    BY DEF Good, Young
  <2>2. TimersRun(t, c)
    BY <1>2 DEF TimersRun, Young, Running
  <2> QED BY <2>1, <2>2, <1>2 DEF Live, Young, Silent, Only, SockFields
<1> QED BY <1>2, <1>5, <1>6 DEF Good, t

-----------------------------------------------------------------------------
(***************************************************************************)
(* The peer closes.                                                        *)
(***************************************************************************)
\* Modes that say the same of the hosts.
SameSide(c, d) ==
    /\ "met" \in c <=> "met" \in d
    /\ "begun" \in c <=> "begun" \in d
    /\ "low" \in c <=> "low" \in d
    /\ "writes" \in c <=> "writes" \in d
    /\ "quiet" \in c <=> "quiet" \in d

\* LAST_ACK gets its timer.
LEMMA LastAckTimerIs ==
    ASSUME NEW d, NEW e, NEW s, Good(s, e), SameSide(d, e),
           "rcvd" \in e <=> "rcvd" \in d, "aged" \in d => "aged" \in e,
           "calm" \notin d, s.state = "LAST_ACK" => s.endPoint
    PROVE  Good(LastAckTimer(s), d) /\ LastAckTimer(s).state = s.state
<1> DEFINE t == LastAckTimer(s)
<1>1. Basic(s, e) /\ Typed(s) /\ DOMAIN s = SockFields
  BY DEF Good, Basic, Typed
<1>2. CASE s.state # "LAST_ACK"
  <2>1. t = s
    BY <1>2 DEF LastAckTimer
  <2>2. Basic(s, d)
    BY <1>1 DEF Basic, SameSide
  <2>3. ASSUME s.endPoint PROVE Live(s, d)
    <3>1. Live(s, e)
      BY <2>3 DEF Good
    <3>2. TimersRun(s, d)
      BY <3>1, <1>2 DEF Live, TimersRun, Young, Running
    <3> QED BY <3>1, <3>2 DEF Live, Young, SameSide
  <2> QED BY <2>1, <2>2, <2>3 DEF Good
<1>3. CASE s.state = "LAST_ACK"
  <2>1. t = [s EXCEPT !.dataRetrCount = DataRetries, !.lastAck = TRUE]
    BY <1>3 DEF LastAckTimer
  <2> HIDE DEF t
  <2>2. Only(s, t, {"dataRetrCount", "lastAck"}) /\ t.dataRetrCount = DataRetries
        /\ t.lastAck = TRUE
    BY <1>1, <2>1 DEF Only, SockFields
  <2>3. \A f \in {"endPoint", "sent", "closeOnEmpty", "shutdownSend", "delAckTimer",
                  "lastAck", "timeWait", "pending", "closing"} : t[f] \in BOOLEAN
    BY <1>1, <2>2, TypedFields DEF Only, SockFields
  <2>4. Typed(t)
    BY <1>1, <2>2, <2>3, ConnectionAssumption DEF Typed, Only, SockFields
  <2>5. Basic(t, d)
    BY <1>1, <1>3, <2>2, <2>4 DEF Basic, Only, SockFields, SameSide, Attempting
  <2>6. Live(s, e) /\ t.state = "LAST_ACK"
    BY <1>3, <2>2 DEF Good, Only, SockFields
  <2>7. TimersRun(t, d)
    BY <2>2, <2>6 DEF TimersRun, Young, Running
  <2>8. Live(t, d)
    BY <2>2, <2>6, <2>7, <1>3 DEF Live, Young, Silent, SameSide, Only, SockFields
  <2> QED BY <1>3, <2>5, <2>6, <2>8 DEF Good, t
<1> QED BY <1>2, <1>3

\* The FIN is answered, by a close or an ACK.
LEMMA AnswerFinIs ==
    ASSUME NEW d, "fin" \notin d, "calm" \notin d, NEW s, Good(s, d),
           s.state \in {"CLOSE_WAIT", "LAST_ACK"},
           s.rx.size = 0 => s.endPoint, s.state = "LAST_ACK" => s.rx.size = 0
    PROVE  Good(AnswerFin(s), d) /\ AnswerFin(s).state \in {"CLOSE_WAIT", "LAST_ACK"}
<1> DEFINE e == d \union {"fin"}
           u == IF s.shutdownSend THEN CloseSocket(s) ELSE SendEmptyPacket(s, {"ACK"})
<1>1. SameSide(d, e) /\ ("rcvd" \in e <=> "rcvd" \in d) /\ ("aged" \in d <=> "aged" \in e)
      /\ "fin" \in e /\ "calm" \notin e
  BY DEF SameSide
<1>2. AnswerFin(s) = LastAckTimer(u)
  BY DEF AnswerFin
<1> HIDE DEF e
<1>3. Good(s, e)
  <2>1. Basic(s, e)
    BY <1>1 DEF Good, Basic, SameSide
  <2>2. ASSUME s.endPoint PROVE Live(s, e)
    <3>1. Live(s, d)
      BY <2>2 DEF Good
    <3>2. TimersRun(s, e)
      BY <3>1, <1>1 DEF Live, TimersRun, Young, Running
    <3> QED BY <3>1, <3>2, <1>1 DEF Live, Young, SameSide
  <2> QED BY <2>1, <2>2 DEF Good
<1>4. Good(u, e) /\ u.state \in {"CLOSE_WAIT", "LAST_ACK"} /\ (u.state = "LAST_ACK" => u.endPoint)
  <2>1. CASE s.shutdownSend
    <3>1. u = CloseSocket(s)
      BY <2>1
    <3> HIDE DEF u
    <3>2. Good(u, e) /\ Closes(s, u)
      BY <1>1, <1>3, <2>1, <3>1, CloseSocketIs
    <3>3. CASE s.rx.size # 0
      BY <3>2, <3>3 DEF Closes
    <3>4. CASE s.rx.size = 0
      <4>1. u.endPoint = s.endPoint /\ (u.state = s.state \/ u.state = "LAST_ACK")
        BY <3>2, <3>4 DEF Closes
      <4>2. u.state \in {"CLOSE_WAIT", "LAST_ACK"}
        BY <4>1
      <4> QED BY <4>1, <4>2, <3>2, <3>4
    <3> QED BY <3>3, <3>4
  <2>2. CASE ~s.shutdownSend
    <3>1. u = SendEmptyPacket(s, {"ACK"})
      BY <2>2
    <3> HIDE DEF u
    <3>2. Good(u, e) /\ Only(s, u, {"out", "delAckTimer", "delAckCount"})
      BY <1>3, <3>1, AckGoes
    <3> QED BY <3>2 DEF Only, SockFields
  <2> QED BY <2>1, <2>2
<1> HIDE DEF u
<1>5. Good(LastAckTimer(u), d) /\ LastAckTimer(u).state = u.state
  BY <1>1, <1>4, LastAckTimerIs
<1> QED BY <1>2, <1>4, <1>5

\* DoPeerClose overwrites the state: an application that has closed is left in
\* CLOSE_WAIT, and one that has shut down with data unread resets the connection.
LEMMA DoPeerCloseIs ==
    ASSUME NEW c, "fin" \notin c, NEW d, SameSide(c, d),
           "fin" \notin d, "calm" \notin d, "rcvd" \notin d,
           NEW s, Good(s, c), NEW r, s.endPoint, ~s.lastAck,
           s.state \in {"SYN_RCVD", "ESTABLISHED", "FIN_WAIT_1", "FIN_WAIT_2",
                        "CLOSE_WAIT", "LAST_ACK"},
           s.state = "SYN_RCVD" => "rcvd" \in c,
           s.state = "LAST_ACK" => s.closing,
           s.state \in {"FIN_WAIT_1", "FIN_WAIT_2"} => s.closing \/ s.rx.size # 0
    PROVE  /\ Good(DoPeerClose(s, r), d)
           /\ DoPeerClose(s, r).state \in {"CLOSE_WAIT", "LAST_ACK"}
<1> DEFINE a == [s EXCEPT !.state = "CLOSE_WAIT"]
           b == OnClose(a, r)
<1>1. Basic(s, c) /\ Typed(s) /\ DOMAIN s = SockFields /\ Live(s, c)
  BY DEF Good, Basic, Typed
<1>2. DoPeerClose(s, r) = AnswerFin(b)
  BY DEF DoPeerClose
<1>3. Only(s, a, {"state"}) /\ a.state = "CLOSE_WAIT" /\ a.endPoint /\ a.rx = s.rx
  BY <1>1 DEF Only, SockFields
<1> HIDE DEF a
<1>4. \A f \in {"endPoint", "sent", "closeOnEmpty", "shutdownSend", "delAckTimer",
                "lastAck", "timeWait", "pending", "closing"} : a[f] \in BOOLEAN
  BY <1>1, <1>3, TypedFields DEF Only, SockFields
<1>5. Typed(a)
  BY <1>1, <1>3, <1>4 DEF Typed, Only, SockFields, States
<1>6. Basic(a, d)
  BY <1>1, <1>3, <1>5 DEF Basic, Only, SockFields, Attempting, SameSide
<1>7. CASE s.closing \/ Running(s, c)
  <2>1. TimersRun(a, d)
    <3>1. a.lastAck = FALSE /\ a.size = s.size /\ a.sent = s.sent /\ a.retx = s.retx
          /\ a.closing = s.closing
      BY <1>3, <1>1, TypedFields DEF Only, SockFields
    <3>2. s.size = 1 /\ s.sent => s.retx # {}
      BY <1>1 DEF Live, TimersRun
    <3>3. Running(a, d) => Idle(a)
      BY <1>1, <1>3, <1>7, <3>1 DEF Live, TimersRun, Running, Idle
    <3> QED BY <1>3, <3>1, <3>2, <3>3 DEF TimersRun, Young
  <2>2. ~Young(s, c) /\ ~Young(a, d)
    BY <1>3 DEF Young
  <2>3. Silent(a) => Silent(s)
    BY <1>3, <1>7 DEF Silent, Running, Only, SockFields
  <2>4. Live(a, d)
    BY <1>1, <1>3, <2>1, <2>2, <2>3 DEF Live, Only, SockFields, SameSide
  <2>5. Good(a, d)
    BY <1>6, <2>4 DEF Good
  <2>6. /\ Good(b, d) /\ Told(a, b) /\ b.state \in {"CLOSE_WAIT", "LAST_ACK"}
        /\ b.rx = a.rx /\ (a.rx.size = 0 => b.endPoint = a.endPoint)
        /\ b.state = "LAST_ACK" => b.rx.size = 0
    BY <1>3, <2>5, OnCloseIs
  <2> HIDE DEF b
  <2>7. Good(AnswerFin(b), d) /\ AnswerFin(b).state \in {"CLOSE_WAIT", "LAST_ACK"}
    BY <1>3, <2>6, AnswerFinIs
  <2> QED BY <1>2, <2>7
<1>8. CASE ~s.closing /\ ~Running(s, c)
  <2>1. s.rx.size # 0 /\ s.shutdownSend
    BY <1>1, <1>8 DEF Running, Live
  <2>2. a.rx.size # 0 /\ a.shutdownSend = s.shutdownSend /\ a.closing = s.closing
    BY <1>3, <2>1 DEF Only, SockFields
  <2> DEFINE e == Tell(a, "closed")
             f == [e EXCEPT !.closing = TRUE]
  <2>3. Only(a, e, {"told"}) /\ e.told # {} /\ e.told = a.told \union {"closed"}
    BY <1>3, TellIs DEF Only
  <2> HIDE DEF e
  <2>4. Only(e, f, {"closing"}) /\ f.closing = TRUE /\ f.told = e.told
    BY <2>3 DEF Only, SockFields
  <2> HIDE DEF f
  <2>5. Basic(e, d) /\ Basic(f, d)
    <3>1. Only(a, e, Aside) /\ Only(a, f, {"told", "closing"})
      BY <2>3, <2>4 DEF Only, Aside, SockFields
    <3>2. Typed(e)
      <4>1. /\ e.synCount \in 0 .. SynRetries /\ e.dataRetrCount \in 0 .. DataRetries
            /\ e.high \in Nat /\ e.delAckTimer \in BOOLEAN
        BY <1>5, <2>3, TypedFields DEF Typed, Only, SockFields
      <4> QED BY <1>5, <3>1, <4>1, StaysTyped
    <3>3. Typed(f)
      <4>1. \A x \in {"endPoint", "sent", "closeOnEmpty", "shutdownSend", "delAckTimer",
                      "lastAck", "timeWait", "pending", "closing"} : f[x] \in BOOLEAN
        BY <3>2, <2>4, TypedFields DEF Only, SockFields
      <4> QED BY <3>2, <2>4, <4>1 DEF Typed, Only, SockFields
    <3>4. Basic(e, d)
      <4>1. e.told \subseteq Tidings
        BY <1>6, <2>3 DEF Basic, Tidings
      <4> QED BY <1>6, <2>3, <3>2, <1>3, <4>1 DEF Basic, Only, SockFields
    <3> QED BY <2>4, <3>3, <3>4, <1>3, <2>3 DEF Basic, Only, SockFields
  <2>6. /\ Basic(b, d) /\ b.rx.size # 0 /\ b.shutdownSend /\ b.state = "CLOSE_WAIT"
    <3>1. CASE "closed" \in a.told
      <4>1. b = a
        BY <3>1 DEF OnClose
      <4> QED BY <4>1, <1>3, <1>6, <2>1, <2>2
    <3>2. CASE "closed" \notin a.told /\ r = "close" /\ ~a.closing
      <4>1. b = SendRST(f)
        <5>1. b = CloseSocket(f)
          BY <3>2 DEF OnClose, AppCloses, e, f
        <5>2. f.rx.size # 0
          BY <2>2, <2>3, <2>4 DEF Only, SockFields
        <5> QED BY <5>1, <5>2 DEF CloseSocket
      <4> HIDE DEF b
      <4>2. Good(b, d) /\ Only(f, b, RstFields)
        BY <4>1, <2>5, RstGoes
      <4> QED BY <4>2, <1>3, <2>1, <2>2, <2>3, <2>4
              DEF Good, Only, SockFields, RstFields, Stopped
    <3>3. CASE "closed" \notin a.told /\ ~(r = "close" /\ ~a.closing)
      <4>1. b = e
        BY <3>3 DEF OnClose, e
      <4> QED BY <4>1, <1>3, <2>1, <2>2, <2>3, <2>5 DEF Only, SockFields
    <3> QED BY <3>1, <3>2, <3>3
  <2> HIDE DEF b
  <2>7. AnswerFin(b) = LastAckTimer(SendRST(b))
    BY <2>6 DEF AnswerFin, CloseSocket
  <2>8. Good(SendRST(b), d) /\ Only(b, SendRST(b), RstFields)
    BY <2>6, RstGoes
  <2>9. SendRST(b).state = "CLOSE_WAIT"
    BY <2>6, <2>8 DEF Only, RstFields, Stopped, SockFields
  <2>10. LastAckTimer(SendRST(b)) = SendRST(b)
    BY <2>9 DEF LastAckTimer
  <2> QED BY <1>2, <2>7, <2>8, <2>9, <2>10
<1> QED BY <1>7, <1>8, <1>1, TypedFields

-----------------------------------------------------------------------------
(***************************************************************************)
(* Receiving.                                                              *)
(***************************************************************************)
\* The modes in which segments are served.
Serving(c) == "fin" \notin c /\ "calm" \notin c

\* An ACK is put off.
LEMMA DelayIs ==
    ASSUME NEW c, NEW s, Good(s, c), s.endPoint
    PROVE  Good(Delay(s), c) /\ Only(s, Delay(s), {"delAckCount", "delAckTimer"})
<1> DEFINE t == Delay(s)
<1>1. Typed(s) /\ DOMAIN s = SockFields
  BY DEF Good, Basic, Typed
<1>2. Only(s, t, {"delAckCount", "delAckTimer"}) /\ t.delAckTimer = TRUE
  BY <1>1 DEF Delay, Only, SockFields
<1> HIDE DEF t
<1>3. /\ Only(s, t, Aside) /\ t.out = s.out /\ t.told = s.told
      /\ t.synCount \in 0 .. SynRetries /\ t.dataRetrCount \in 0 .. DataRetries
      /\ t.high \in Nat /\ t.delAckTimer \in BOOLEAN
  BY <1>1, <1>2 DEF Only, Aside, SockFields, Typed
<1>4. Good(t, c)
  BY <1>3, StaysGood DEF Good, Basic
<1> QED BY <1>2, <1>4 DEF t

Data(seg) == seg.len = 1 /\ seg.seq = 1

\* The byte is stored; a FIN behind it is stepped over.
LEMMA StoreDataIs ==
    ASSUME NEW c, "low" \notin c, NEW s, Good(s, c), ~Young(s, c),
           NEW seg, Data(seg), s.rx.next = 1
    PROVE  LET t == StoreData(s, seg)
           IN  /\ Good(t, c) /\ Only(s, t, {"rx", "got"}) /\ t.rx.size = 1
               /\ t.rx.gotFin = s.rx.gotFin /\ t.rx.fin = s.rx.fin
               /\ t.rx.next = IF s.rx.gotFin /\ s.rx.fin = 2 THEN 3 ELSE 2
<1> DEFINE t == StoreData(s, seg)
           a == Add(s.rx, 1, Bytes(seg))
<1>1. Basic(s, c) /\ Typed(s) /\ DOMAIN s = SockFields /\ SmallBuffer(s.rx)
  BY DEF Good, Basic, Typed
<1>2. Len(Bytes(seg)) = 1
  <2>1. seg.len = 1
    BY DEF Data
  <2>2. Bytes(seg) = [i \in 1 .. 1 |-> seg.seq + i - 1]
    BY <2>1 DEF Bytes
  <2> QED BY <2>2
<1>3. /\ SmallBuffer(a) /\ a.size = 1 /\ a.gotFin = s.rx.gotFin /\ a.fin = s.rx.fin
      /\ a.next = IF s.rx.gotFin /\ s.rx.fin = 2 THEN 3 ELSE 2
  BY <1>1, <1>2, AddIs
<1>4. Only(s, t, {"rx", "got"}) /\ t.rx = a /\ t.got = s.got + 1
  BY <1>1 DEF StoreData, Data, Only, SockFields
<1> HIDE DEF t, a
<1>5. \A f \in {"endPoint", "sent", "closeOnEmpty", "shutdownSend", "delAckTimer",
                "lastAck", "timeWait", "pending", "closing"} : t[f] \in BOOLEAN
  BY <1>1, <1>4, TypedFields DEF Only, SockFields
<1>6. a.next >= 2 /\ a.next >= 1
  BY <1>3
<1>7. Typed(t)
  <2>1. t.got = 1
    BY <1>1, <1>4 DEF Typed
  <2> QED BY <1>1, <1>3, <1>4, <1>5, <1>6, <2>1 DEF Typed, Only, SockFields
<1>8. Basic(t, c)
  <2>1. t.rx.next >= 1
    BY <1>4, <1>6
  <2> QED BY <1>1, <1>4, <1>7, <2>1 DEF Basic, Only, SockFields, NoTimers
<1>9. ASSUME t.endPoint PROVE Live(t, c)
  <2>1. Live(s, c)
    BY <1>4, <1>9 DEF Good, Only, SockFields
  <2>2. TimersRun(t, c)
    BY <2>1, <1>4 DEF Live, TimersRun, Young, Running, Idle, DataTimed, Only, SockFields
  <2> QED BY <2>1, <2>2, <1>4 DEF Live, Young, Silent, Only, SockFields
<1> QED BY <1>3, <1>4, <1>8, <1>9 DEF Good, t

\* Where a callback may have taken the state s.
Moved(s, t) ==
    \/ t.state = s.state
    \/ t.state = "FIN_WAIT_1" /\ s.state \in {"SYN_RCVD", "ESTABLISHED"}
    \/ t.state = "LAST_ACK" /\ s.state = "CLOSE_WAIT"

Accepting == {"ESTABLISHED", "FIN_WAIT_1", "FIN_WAIT_2", "CLOSE_WAIT"}

\* Data has come in, and is acknowledged.
LEMMA ReceivedDataIs ==
    ASSUME NEW c, Serving(c), "low" \notin c, NEW s, Good(s, c), s.endPoint,
           NEW seg, Data(seg), NEW r,
           s.state \in Accepting \/ (s.state = "SYN_RCVD" /\ "rcvd" \in c),
           "rcvd" \in c => "FIN" \in seg.flags
    PROVE  LET t == ReceivedData(s, seg, r)
           IN  /\ Good(t, c) /\ (t.state \in Attempting => t.state = s.state)
               /\ t.state \in {"FIN_WAIT_1", "FIN_WAIT_2"} => t.endPoint
               /\ "FIN" \in seg.flags =>
                    /\ t.endPoint /\ ~t.lastAck /\ Moved(s, t)
                    /\ s.rx.gotFin /\ s.rx.fin = 2 /\ s.rx.next = 1 => Finished(t.rx)
<1> DEFINE u == StoreData(s, seg)
           v == OnData(u, r)
           t == ReceivedData(s, seg, r)
<1>1. Basic(s, c) /\ Typed(s) /\ Live(s, c) /\ SmallBuffer(s.rx) /\ s.rx.next >= 1
  BY DEF Good, Basic, Typed, Accepting
<1>2. ~s.lastAck /\ ~Young(s, c)
  BY <1>1 DEF Live, TimersRun, Young, Accepting
<1>3. Stores(Trimmed(s.rx, seg.seq, Bytes(seg))) <=> s.rx.next = 1
  <2>1. seg.seq = 1 /\ seg.len = 1
    BY DEF Data
  <2>2. Bytes(seg) = [i \in 1 .. 1 |-> seg.seq + i - 1]
    BY <2>1 DEF Bytes
  <2>3. Len(Bytes(seg)) = 1
    BY <2>2
  <2> QED BY <1>1, <2>1, <2>3, AddIs
<1>4. CASE s.rx.next # 1
  <2>1. t = SendEmptyPacket(s, {"ACK"})
    BY <1>3, <1>4 DEF ReceivedData
  <2> HIDE DEF t
  <2>2. Good(t, c) /\ Only(s, t, {"out", "delAckTimer", "delAckCount"})
    BY <2>1, AckGoes
  <2> QED BY <1>2, <1>4, <2>2 DEF Only, SockFields, Moved, t
<1>5. CASE s.rx.next = 1
  <2>1. /\ Good(u, c) /\ Only(s, u, {"rx", "got"}) /\ u.rx.size = 1
        /\ u.rx.gotFin = s.rx.gotFin /\ u.rx.fin = s.rx.fin
        /\ u.rx.next = IF s.rx.gotFin /\ s.rx.fin = 2 THEN 3 ELSE 2
    BY <1>2, <1>5, StoreDataIs
  <2>2. u.rx.next > s.rx.next
    BY <1>5, <2>1
  <2>3. t = AckStored(s, seg, v, r)
    BY <1>3, <1>5, <2>2 DEF ReceivedData
  <2> HIDE DEF u, t
  <2>4. u.state = s.state /\ u.endPoint /\ ~u.lastAck
    BY <1>2, <2>1 DEF Only, SockFields
  <2>5. /\ Good(v, c) /\ Told(u, v) /\ v.endPoint /\ ~v.lastAck /\ Moved(s, v)
    BY <2>1, <2>4, OnDataIs DEF Moved, Accepting
  <2> HIDE DEF v
  <2>6. v.rx.next = u.rx.next /\ v.rx.gotFin = u.rx.gotFin /\ v.rx.fin = u.rx.fin
    BY <2>5 DEF Told
  <2>7. s.rx.gotFin /\ s.rx.fin = 2 => Finished(v.rx)
    BY <2>1, <2>6 DEF Finished
  <2>8. CASE v.rx.next > s.rx.next /\ Finished(v.rx) /\ "FIN" \notin seg.flags
    <3>1. t = DoPeerClose(v, r)
      BY <2>3, <2>8 DEF AckStored
    <3>2. "rcvd" \notin c /\ SameSide(c, c)
      BY <2>8 DEF SameSide
    <3>3. s.state \in Accepting
      BY <3>2
    <3>4. /\ v.state \in {"SYN_RCVD", "ESTABLISHED", "FIN_WAIT_1", "FIN_WAIT_2",
                          "CLOSE_WAIT", "LAST_ACK"}
          /\ v.state # "SYN_RCVD"
      BY <3>3, <2>5 DEF Moved, Accepting
    <3>5. /\ v.state = "LAST_ACK" => v.closing
          /\ v.state \in {"FIN_WAIT_1", "FIN_WAIT_2"} => v.closing \/ v.rx.size # 0
      BY <3>3, <2>1, <2>4, <2>5 DEF Told, Accepting
    <3>6. /\ Good(DoPeerClose(v, r), c)
          /\ DoPeerClose(v, r).state \in {"CLOSE_WAIT", "LAST_ACK"}
      BY <2>5, <3>2, <3>4, <3>5, DoPeerCloseIs DEF Serving
    <3> QED BY <2>8, <3>1, <3>6 DEF t, Attempting
  <2>9. CASE ~(v.rx.next > s.rx.next /\ Finished(v.rx) /\ "FIN" \notin seg.flags)
    <3>1. t = SendEmptyPacket(v, {"ACK"}) \/ t = Delay(v)
      BY <2>3, <2>9 DEF AckStored
    <3>2. Good(t, c) /\ Only(v, t, {"out", "delAckTimer", "delAckCount"})
      <4>1. /\ Good(SendEmptyPacket(v, {"ACK"}), c)
            /\ Only(v, SendEmptyPacket(v, {"ACK"}), {"out", "delAckTimer", "delAckCount"})
        BY <2>5, AckGoes
      <4>2. Good(Delay(v), c) /\ Only(v, Delay(v), {"delAckCount", "delAckTimer"})
        BY <2>5, DelayIs
      <4> QED BY <3>1, <4>1, <4>2 DEF Only, SockFields
    <3>3. t.state = v.state /\ t.endPoint /\ ~t.lastAck /\ t.rx = v.rx
      BY <2>5, <3>2 DEF Only, SockFields
    <3>4. t.state \in Attempting => t.state = s.state
      BY <2>5, <3>3 DEF Moved, Attempting
    <3> QED BY <2>5, <2>7, <3>2, <3>3, <3>4 DEF Moved, t
  <2> QED BY <2>8, <2>9
<1> QED BY <1>4, <1>5

\* What the peer may send, given what it can know.
SegIn(g, c) ==
    /\ Segment(g)
    /\ "low" \in c => Unheard(g)
    /\ "quiet" \in c /\ "writes" \in c => g.ack <= 1
    /\ Vouches(g) => "met" \in c

\* A segment with data or without.
LEMMA IfDataIs ==
    ASSUME NEW c, Serving(c), NEW s, Good(s, c), s.endPoint,
           NEW seg, SegIn(seg, c), NEW r,
           s.state \in Accepting \/ (s.state = "SYN_RCVD" /\ "rcvd" \in c),
           "rcvd" \in c => "FIN" \in seg.flags
    PROVE  LET t == IfData(s, seg, r)
           IN  /\ Good(t, c) /\ (t.state \in Attempting => t.state = s.state)
               /\ t.state \in {"FIN_WAIT_1", "FIN_WAIT_2"} => t.endPoint
               /\ "FIN" \in seg.flags =>
                    /\ t.endPoint /\ ~t.lastAck /\ Moved(s, t)
                    /\ seg.len = 0 => t = s
                    /\ seg.len = 1 /\ s.rx.gotFin /\ s.rx.fin = 2 /\ s.rx.next = 1
                         => Finished(t.rx)
<1> DEFINE t == IfData(s, seg, r)
<1>1. seg.len = 0 \/ (seg.len = 1 /\ seg.seq = 1)
  BY DEF SegIn, Segment
<1>2. CASE seg.len = 0
  <2>1. t = s
    BY <1>2 DEF IfData
  <2>2. Live(s, c)
    BY DEF Good
  <2>3. ~s.lastAck
    BY <2>2 DEF Live, TimersRun, Accepting
  <2> QED BY <1>2, <2>1, <2>3 DEF Moved
<1>3. CASE seg.len = 1 /\ seg.seq = 1
  <2>1. t = ReceivedData(s, seg, r)
    BY <1>3 DEF IfData
  <2>2. "low" \notin c /\ Data(seg)
    BY <1>3 DEF SegIn, Unheard, Data
  <2> HIDE DEF t
  <2>3. /\ Good(t, c) /\ (t.state \in Attempting => t.state = s.state)
        /\ t.state \in {"FIN_WAIT_1", "FIN_WAIT_2"} => t.endPoint
        /\ "FIN" \in seg.flags =>
             /\ t.endPoint /\ ~t.lastAck /\ Moved(s, t)
             /\ s.rx.gotFin /\ s.rx.fin = 2 /\ s.rx.next = 1 => Finished(t.rx)
    BY <2>1, <2>2, ReceivedDataIs
  <2> QED BY <1>3, <2>3 DEF t
<1> QED BY <1>1, <1>2, <1>3

\* The byte goes out, and with it the FIN that waited for it.
LEMMA DataGoes ==
    ASSUME NEW c, NEW s, Basic(s, c), s.endPoint, s.size = 1, s.head = 1, ~Young(s, c),
           Running(s, c) => Idle(s), s.state = "TIME_WAIT" => s.timeWait,
           s.lastAck => s.state = "LAST_ACK",
           s.state \in {"FIN_WAIT_1", "FIN_WAIT_2"} => s.closing \/ s.shutdownSend
    PROVE  LET t == SendDataPacket(s)
           IN  Good(t, c) /\ t.endPoint /\ (t.state \in Attempting => t.state = s.state)
<1> DEFINE fl == {"ACK"} \union (IF s.closeOnEmpty THEN {"FIN"} ELSE {})
           f == FinGoes(s)
           e == Emit(f, fl, s.head, s.size)
           g == [flags |-> fl, seq |-> s.head, ack |-> f.rx.next, len |-> s.size]
           d == DataTimer(e)
           t == SendDataPacket(s)
<1>1. Typed(s) /\ DOMAIN s = SockFields /\ s.closeOnEmpty \in BOOLEAN
  BY TypedFields DEF Basic, Typed
<1>2. /\ Only(s, f, {"state"})
      /\ \/ f.state = s.state
         \/ s.state = "ESTABLISHED" /\ f.state = "FIN_WAIT_1" /\ s.closeOnEmpty
         \/ s.state = "CLOSE_WAIT" /\ f.state = "LAST_ACK"
  BY <1>1 DEF FinGoes, Only, SockFields
<1>3. t = [d EXCEPT !.next = s.head + s.size, !.high = MaxOf(@, s.head + s.size),
                    !.sent = TRUE]
  BY DEF SendDataPacket
<1> HIDE DEF f, t
<1>4. /\ Only(f, e, {"out", "delAckTimer", "delAckCount"})
      /\ e.out = f.out \union {g} /\ e.delAckTimer = FALSE
  <2>1. DOMAIN f = SockFields /\ "ACK" \in fl
    BY <1>2 DEF Only
  <2> HIDE DEF fl
  <2> QED BY <2>1 DEF Emit, Only, SockFields
<1>5. Segment(g) /\ ("low" \in c => g.ack <= 1) /\ s.rx.next >= 1
  <2>1. f.rx = s.rx /\ s.rx.next \in Nat
    BY <1>1, <1>2 DEF Only, SockFields, Typed, SmallBuffer
  <2>2. s.rx.next >= 1
    BY <1>1 DEF Basic, Typed, Young
  <2> QED BY <2>1, <2>2 DEF Segment, SegFields, Basic
<1> HIDE DEF e, g, fl
<1>6. Only(e, d, {"retx"}) /\ d.retx = IF e.retx = {} THEN {"DATA"} ELSE e.retx
  <2>1. DOMAIN e = SockFields
    BY <1>4 DEF Only
  <2> QED BY <2>1 DEF DataTimer, Only, SockFields
<1> HIDE DEF d
<1>7. /\ Only(d, t, {"next", "high", "sent"}) /\ t.next = 2 /\ t.sent = TRUE
      /\ t.high = MaxOf(d.high, 2)
  <2>1. DOMAIN d = SockFields
    BY <1>6 DEF Only
  <2>2. s.head + s.size = 2
    OBVIOUS
  <2>3. t = [d EXCEPT !.next = 2, !.high = MaxOf(@, 2), !.sent = TRUE]
    BY <1>3, <2>2
  <2> QED BY <2>1, <2>3 DEF Only, SockFields
<1>8. /\ Only(s, t, {"state", "out", "delAckTimer", "delAckCount", "retx", "next",
                     "high", "sent"})
      /\ t.state = f.state /\ t.out = s.out \union {g} /\ t.delAckTimer = FALSE
      /\ t.retx = (IF s.retx = {} THEN {"DATA"} ELSE s.retx)
      /\ t.high = MaxOf(s.high, 2)
  <2>1. /\ Only(s, e, {"state", "out", "delAckTimer", "delAckCount"})
        /\ e.state = f.state /\ e.out = s.out \union {g} /\ e.delAckTimer = FALSE
    BY <1>2, <1>4 DEF Only, SockFields
  <2>2. /\ Only(e, t, {"retx", "next", "high", "sent"})
        /\ t.retx = (IF e.retx = {} THEN {"DATA"} ELSE e.retx)
        /\ t.high = MaxOf(e.high, 2)
    BY <1>6, <1>7 DEF Only, SockFields
  <2> QED BY <2>1, <2>2 DEF Only, SockFields
<1>9. \A x \in {"endPoint", "sent", "closeOnEmpty", "shutdownSend", "delAckTimer",
                "lastAck", "timeWait", "pending", "closing"} : t[x] \in BOOLEAN
  <2>1. /\ t.endPoint = s.endPoint /\ t.closeOnEmpty = s.closeOnEmpty
        /\ t.shutdownSend = s.shutdownSend /\ t.lastAck = s.lastAck
        /\ t.timeWait = s.timeWait /\ t.pending = s.pending /\ t.closing = s.closing
    BY <1>8 DEF Only, SockFields
  <2> QED BY <1>1, <1>7, <1>8, <2>1, TypedFields
<1>10. t.state \in States /\ t.retx \in Timers /\ t.retx # {} /\ t.high \in Nat
       /\ t.next \in Nat
  BY <1>1, <1>2, <1>7, <1>8 DEF Typed, States, Timers, MaxOf
<1>11. t.state \notin {"CLOSED", "SYN_SENT"} => t.rx.next >= 1
  BY <1>1, <1>2, <1>8 DEF Typed, Only, SockFields
<1>12. Typed(t)
  BY <1>1, <1>8, <1>9, <1>10, <1>11 DEF Typed, Only, SockFields
<1>13. t.endPoint /\ (t.state \in Attempting => t.state = s.state)
  BY <1>2, <1>8 DEF Only, SockFields, Attempting
<1>14. Basic(t, c)
  <2>1. t.state # "CLOSED" /\ ("aged" \in c => t.state \notin Attempting)
    BY <1>2, <1>8, <1>13 DEF Basic
  <2>2. \A x \in t.out : /\ Segment(x) /\ ("low" \in c => x.ack <= 1)
    BY <1>5, <1>8 DEF Basic
  <2>4. t.rx.next >= 1
    BY <1>5, <1>8 DEF Only, SockFields
  <2>3. /\ t.closeOnEmpty => t.closing \/ t.shutdownSend
        /\ t.connected => "met" \in c
        /\ t.told \subseteq Tidings
        /\ "low" \in c => t.rx.next <= 1 /\ ~t.rx.gotFin
        /\ "calm" \in c => ~t.lastAck
    BY <1>8 DEF Basic, Only, SockFields
  <2> QED BY <1>12, <1>13, <2>1, <2>2, <2>3, <2>4 DEF Basic
<1>15. t.size = 1 /\ t.wrote = 1 /\ t.head = 1 /\ t.lastAck = s.lastAck
       /\ t.timeWait = s.timeWait /\ t.closing = s.closing
       /\ t.shutdownSend = s.shutdownSend
  BY <1>1, <1>8 DEF Typed, Only, SockFields
<1>16. ~Young(t, c)
  BY <1>2, <1>8 DEF Young
<1>17. TimersRun(t, c)
  <2>1. Running(t, c) => Idle(t)
    BY <1>2, <1>8, <1>15 DEF Running, Idle
  <2>2. DataTimed(t)
    BY <1>10, <1>15 DEF DataTimed
  <2>3. t.state = "TIME_WAIT" => t.timeWait
    BY <1>2, <1>8, <1>15
  <2>4. t.lastAck => t.state = "LAST_ACK"
    BY <1>2, <1>8, <1>15
  <2> QED BY <1>10, <1>16, <2>1, <2>2, <2>3, <2>4 DEF TimersRun
<1>18. t.state \in {"FIN_WAIT_1", "FIN_WAIT_2"} => t.closing \/ t.shutdownSend
  BY <1>2, <1>8, <1>15 DEF Basic
<1>19. Live(t, c)
  BY <1>15, <1>16, <1>17, <1>18 DEF Live, Silent
<1> QED BY <1>13, <1>14, <1>19 DEF Good, t

\* SendPendingData sends the byte and starts its timer.
LEMMA SendPendingIs ==
    ASSUME NEW c, NEW s, Good(s, c), s.endPoint => ~Young(s, c)
    PROVE  LET t == SendPendingData(s)
           IN  /\ Good(t, c) /\ t.endPoint = s.endPoint /\ (s.endPoint \/ t = s)
               /\ t.state \in Attempting => t.state = s.state
<1> DEFINE t == SendPendingData(s)
<1>1. CASE s.size > 0 /\ s.endPoint /\ ~s.sent /\ s.state # "FIN_WAIT_1"
  <2>1. t = SendDataPacket(s)
    BY <1>1 DEF SendPendingData
  <2>2. Basic(s, c) /\ Live(s, c) /\ s.size = 1 /\ ~Young(s, c)
    BY <1>1 DEF Good, Basic, Typed
  <2>3. /\ s.head = 1 /\ (Running(s, c) => Idle(s))
        /\ s.state = "TIME_WAIT" => s.timeWait
        /\ s.lastAck => s.state = "LAST_ACK"
        /\ s.state \in {"FIN_WAIT_1", "FIN_WAIT_2"} => s.closing \/ s.shutdownSend
    BY <2>2 DEF Live, TimersRun
  <2> HIDE DEF t
  <2>4. Good(t, c) /\ t.endPoint /\ (t.state \in Attempting => t.state = s.state)
    BY <1>1, <2>1, <2>2, <2>3, DataGoes
  <2>5. s.endPoint \in BOOLEAN /\ t.endPoint \in BOOLEAN
    BY <2>2, <2>4, TypedFields DEF Basic, Good
  <2> QED BY <1>1, <2>4, <2>5 DEF t
<1>2. CASE ~(s.size > 0 /\ s.endPoint /\ ~s.sent /\ s.state # "FIN_WAIT_1")
  <2>1. t = s
    BY <1>2 DEF SendPendingData
  <2> QED BY <2>1
<1> QED BY <1>1, <1>2

\* A new ACK moves the head and leaves the timer the state needs.
LEMMA AckIs ==
    ASSUME NEW c, NEW s, Good(s, c), s.endPoint, s.state \in Accepting,
           NEW seg, SegIn(seg, c), seg.ack >= s.head
    PROVE  LET t == ProcessAck(DiscardUpTo(s, seg.ack), seg.ack, s.head)
           IN  Good(t, c) /\ t.endPoint /\ t.state = s.state /\ t.rx = s.rx
<1> DEFINE a == seg.ack
           d == DiscardUpTo(s, a)
           t == ProcessAck(d, a, s.head)
<1>1. Basic(s, c) /\ Typed(s) /\ DOMAIN s = SockFields /\ Live(s, c) /\ ~Young(s, c)
      /\ a \in Nat /\ s.head \in Nat /\ s.next \in Nat
  BY DEF Good, Basic, Typed, SegIn, Segment, Young, Accepting
<1>2. CASE a = s.head
  <2>1. d = s
    BY <1>1, <1>2 DEF DiscardUpTo
  <2>2. t = s \/ t = [s EXCEPT !.next = a]
    BY <1>1, <1>2, <2>1 DEF ProcessAck
  <2> HIDE DEF t, d, a
  <2>3. Only(s, t, {"next"}) /\ t.next \in Nat
    BY <1>1, <2>2 DEF Only, SockFields
  <2>4. \A x \in {"endPoint", "sent", "closeOnEmpty", "shutdownSend", "delAckTimer",
                  "lastAck", "timeWait", "pending", "closing"} : t[x] \in BOOLEAN
    BY <1>1, <2>3, TypedFields DEF Only, SockFields
  <2>5. Typed(t)
    BY <1>1, <2>3, <2>4 DEF Typed, Only, SockFields
  <2>6. Basic(t, c)
    BY <1>1, <2>3, <2>5 DEF Basic, Only, SockFields, NoTimers
  <2>7. TimersRun(t, c)
    BY <1>1, <2>3 DEF Live, TimersRun, Young, Running, Idle, DataTimed, Only, SockFields
  <2>8. Live(t, c)
    BY <1>1, <2>3, <2>7 DEF Live, Young, Silent, Only, SockFields
  <2> QED BY <2>3, <2>6, <2>8 DEF Good, Only, SockFields, t, d, a
<1>3. CASE a > s.head
  <2>1. d = [s EXCEPT !.head = a, !.size = 0, !.sent = FALSE]
    BY <1>3 DEF DiscardUpTo
  <2>2. t = NewAck(d, a)
    BY <1>1, <1>3 DEF ProcessAck
  <2> HIDE DEF t, d, a
  <2>3. Only(s, d, {"head", "size", "sent"}) /\ d.head = a /\ d.size = 0 /\ d.sent = FALSE
    BY <1>1, <2>1 DEF Only, SockFields
  <2>4. /\ Only(d, t, {"dataRetrCount", "next", "retx"}) /\ t.dataRetrCount = DataRetries
        /\ t.next = MaxOf(d.next, a) /\ t.retx = NewAckTimer(d)
    <3>1. DOMAIN d = SockFields
      BY <2>3 DEF Only
    <3> QED BY <2>2, <3>1 DEF NewAck, Only, SockFields
  <2>5. /\ Only(s, t, {"head", "size", "sent", "dataRetrCount", "next", "retx"})
        /\ t.head = a /\ t.size = 0 /\ t.sent = FALSE /\ t.dataRetrCount = DataRetries
        /\ t.next = MaxOf(s.next, a) /\ t.retx = NewAckTimer(d) /\ d.state = s.state
    BY <2>3, <2>4 DEF Only, SockFields
  <2>6. t.retx = IF s.state = "FIN_WAIT_1" THEN {"DATA"} ELSE {}
    BY <2>3, <2>5 DEF NewAckTimer, Accepting
  <2>7. \A x \in {"endPoint", "sent", "closeOnEmpty", "shutdownSend", "delAckTimer",
                  "lastAck", "timeWait", "pending", "closing"} : t[x] \in BOOLEAN
    <3>1. \A x \in {"endPoint", "closeOnEmpty", "shutdownSend", "delAckTimer",
                    "lastAck", "timeWait", "pending", "closing"} : t[x] = s[x]
      BY <2>5 DEF Only, SockFields
    <3>2. \A x \in {"endPoint", "closeOnEmpty", "shutdownSend", "delAckTimer",
                    "lastAck", "timeWait", "pending", "closing"} : s[x] \in BOOLEAN
      BY <1>1 DEF Typed
    <3> QED BY <2>5, <3>1, <3>2
  <2>8. Typed(t)
    <3>1. t.next \in Nat /\ t.retx \in Timers
      BY <1>1, <2>5, <2>6 DEF MaxOf, Timers
    <3> QED BY <1>1, <2>5, <2>7, <3>1, ConnectionAssumption DEF Typed, Only, SockFields
  <2>9. Basic(t, c)
    BY <1>1, <2>5, <2>8 DEF Basic, Only, SockFields, NoTimers
  <2>10. TimersRun(t, c)
    <3>1. t.state = s.state /\ t.lastAck = s.lastAck
      BY <2>5 DEF Only, SockFields
    <3>2. ~t.lastAck
      BY <1>1, <3>1 DEF Live, TimersRun, Accepting
    <3> QED BY <2>5, <2>6, <3>1, <3>2 DEF TimersRun, Young, Running, Idle, Accepting
  <2>11. ~Silent(t) \/ "writes" \notin c
    <3>1. Silent(t) => Silent(s)
      BY <2>5 DEF Silent, Only, SockFields
    <3>2. Silent(s) /\ "writes" \in c => s.head = 1 /\ "quiet" \in c
      BY <1>1 DEF Live
    <3>3. "quiet" \in c /\ "writes" \in c => a <= 1
      BY DEF SegIn, a
    <3> QED BY <1>1, <1>3, <3>1, <3>2, <3>3
  <2>12. Live(t, c)
    BY <1>1, <2>5, <2>10, <2>11 DEF Live, Young, Silent, Only, SockFields
  <2> QED BY <2>5, <2>9, <2>12 DEF Good, Only, SockFields, t, d, a
<1> QED BY <1>1, <1>2, <1>3

\* ReceivedAck as a whole.
LEMMA ReceivedAckIs ==
    ASSUME NEW c, Serving(c), "rcvd" \notin c, NEW s, Good(s, c), s.endPoint,
           NEW seg, SegIn(seg, c), NEW r, s.state \in Accepting
    PROVE  LET t == ReceivedAck(s, seg, r)
           IN  /\ Good(t, c) /\ t.state \notin Attempting
               /\ t.state \in {"FIN_WAIT_1", "FIN_WAIT_2"} => t.endPoint
<1> DEFINE p == ProcessAck(DiscardUpTo(s, seg.ack), seg.ack, s.head)
           i == IfData(p, seg, r)
<1>0. s.head \in Nat /\ seg.ack \in Nat /\ s.state \notin Attempting
  BY DEF Good, Basic, Typed, SegIn, Segment, Accepting, Attempting
<1>1. CASE seg.ack < s.head
  <2>1. ReceivedAck(s, seg, r) = IfData(s, seg, r)
    BY <1>1 DEF ReceivedAck
  <2> QED BY <1>0, <2>1, IfDataIs
<1>2. CASE seg.ack >= s.head
  <2>1. ReceivedAck(s, seg, r) = SendPendingData(i)
    BY <1>0, <1>2 DEF ReceivedAck
  <2>2. Good(p, c) /\ p.endPoint /\ p.state = s.state
    BY <1>2, AckIs
  <2> HIDE DEF p
  <2>3. /\ Good(i, c) /\ (i.state \in Attempting => i.state = p.state)
        /\ i.state \in {"FIN_WAIT_1", "FIN_WAIT_2"} => i.endPoint
    BY <2>2, IfDataIs
  <2> HIDE DEF i
  <2>4. i.state \notin Attempting /\ ~Young(i, c)
    BY <1>0, <2>2, <2>3 DEF Young, Attempting
  <2> QED BY <2>1, <2>3, <2>4, SendPendingIs
<1> QED BY <1>0, <1>1, <1>2

\* The FIN is noted in the buffer.
LEMMA FinSeenIs ==
    ASSUME NEW c, "low" \notin c, NEW s, Good(s, c), ~Young(s, c), NEW n \in Nat
    PROVE  LET t == [s EXCEPT !.rx = SetFinSequence(@, n)]
           IN  /\ Good(t, c) /\ Only(s, t, {"rx"}) /\ t.rx = SetFinSequence(s.rx, n)
               /\ t.rx.gotFin /\ t.rx.fin = n
               /\ t.rx.next = IF s.rx.next = n THEN n + 1 ELSE s.rx.next
<1> DEFINE t == [s EXCEPT !.rx = SetFinSequence(@, n)]
           a == SetFinSequence(s.rx, n)
<1>1. Basic(s, c) /\ Typed(s) /\ DOMAIN s = SockFields /\ SmallBuffer(s.rx)
      /\ s.rx.next \in Nat
  BY DEF Good, Basic, Typed, SmallBuffer
<1>2. /\ SmallBuffer(a) /\ a.gotFin /\ a.fin = n
      /\ a.next = IF s.rx.next = n THEN n + 1 ELSE s.rx.next
  BY <1>1, SetFinSequenceIs
<1>3. Only(s, t, {"rx"}) /\ t.rx = a
  BY <1>1 DEF Only, SockFields
<1> HIDE DEF t, a
<1>4. \A f \in {"endPoint", "sent", "closeOnEmpty", "shutdownSend", "delAckTimer",
                "lastAck", "timeWait", "pending", "closing"} : t[f] \in BOOLEAN
  BY <1>1, <1>3, TypedFields DEF Only, SockFields
<1>5. s.rx.next >= 1 => a.next >= 1
  BY <1>1, <1>2
<1>6. Typed(t)
  BY <1>1, <1>2, <1>3, <1>4, <1>5 DEF Typed, Only, SockFields
<1>7. Basic(t, c)
  <2>1. s.rx.next >= 1 => t.rx.next >= 1
    BY <1>3, <1>5
  <2> QED BY <1>1, <1>3, <1>6, <2>1 DEF Basic, Only, SockFields, NoTimers
<1>8. ASSUME t.endPoint PROVE Live(t, c)
  <2>1. Live(s, c)
    BY <1>3, <1>8 DEF Good, Only, SockFields
  <2>2. TimersRun(t, c)
    BY <2>1, <1>3 DEF Live, TimersRun, Young, Running, Idle, DataTimed, Only, SockFields
  <2> QED BY <2>1, <2>2, <1>3 DEF Live, Young, Silent, Only, SockFields
<1> QED BY <1>2, <1>3, <1>7, <1>8 DEF Good, t, a

\* The peer has closed, or its FIN must wait.
LEMMA FinFinishesIs ==
    ASSUME NEW c, Serving(c), NEW s, Good(s, c), NEW r, s.endPoint, ~s.lastAck,
           \/ s.state \in {"ESTABLISHED", "FIN_WAIT_1"}
           \/ s.state = "SYN_RCVD" /\ "rcvd" \in c,
           "rcvd" \in c => Finished(s.rx)
    PROVE  /\ Good(FinFinishes(s, r), c \ {"rcvd"})
           /\ FinFinishes(s, r).state \notin Attempting
<1> DEFINE d == c \ {"rcvd"}
           t == FinFinishes(s, r)
<1>1. SameSide(c, d) /\ Serving(d) /\ "rcvd" \notin d /\ ("aged" \in d <=> "aged" \in c)
  BY DEF SameSide, Serving
<1>2. Basic(s, c) /\ Typed(s) /\ DOMAIN s = SockFields /\ Live(s, c)
  BY DEF Good, Basic, Typed
<1>3. CASE ~Finished(s.rx)
  <2>1. "rcvd" \notin c
    BY <1>3
  <2>2. d = c
    BY <2>1
  <2>3. t = s
    BY <1>3 DEF FinFinishes
  <2>4. s.state \notin Attempting
    BY <2>1 DEF Attempting
  <2> QED BY <2>2, <2>3, <2>4
<1> HIDE DEF d
<1>4. CASE Finished(s.rx) /\ s.state = "FIN_WAIT_1"
  <2>1. t = [s EXCEPT !.state = "CLOSING"]
    BY <1>4 DEF FinFinishes
  <2> HIDE DEF t
  <2>2. Only(s, t, {"state"}) /\ t.state = "CLOSING"
    BY <1>2, <2>1 DEF Only, SockFields
  <2>3. \A f \in {"endPoint", "sent", "closeOnEmpty", "shutdownSend", "delAckTimer",
                  "lastAck", "timeWait", "pending", "closing"} : t[f] \in BOOLEAN
    BY <1>2, <2>2, TypedFields DEF Only, SockFields
  <2>4. Typed(t)
    BY <1>2, <1>4, <2>2, <2>3 DEF Typed, Only, SockFields, States
  <2>5. Basic(t, d)
    BY <1>2, <1>4, <2>2, <2>4, <1>1 DEF Basic, Only, SockFields, Attempting, SameSide
  <2>6. TimersRun(t, d)
    <3>1. s.retx # {}
      BY <1>2, <1>4 DEF Live, TimersRun
    <3>2. t.retx # {} /\ ~t.lastAck
      BY <2>2, <3>1 DEF Only, SockFields
    <3> QED BY <2>2, <3>2 DEF TimersRun, Young, Running
  <2>7. Live(t, d)
    <3>1. ~Young(s, c) /\ ~Young(t, d) /\ ~Silent(t)
      BY <1>4, <2>2 DEF Young, Silent
    <3> QED BY <1>2, <2>2, <2>6, <3>1 DEF Live, Only, SockFields
  <2> QED BY <2>2, <2>5, <2>7 DEF Good, t, d, Attempting
<1>5. CASE Finished(s.rx) /\ s.state # "FIN_WAIT_1"
  <2>1. t = DoPeerClose(s, r)
    BY <1>5 DEF FinFinishes
  <2>2. /\ Good(DoPeerClose(s, r), d)
        /\ DoPeerClose(s, r).state \in {"CLOSE_WAIT", "LAST_ACK"}
    BY <1>1, <1>5, DoPeerCloseIs DEF Serving
  <2> QED BY <2>1, <2>2 DEF d, Attempting
<1> QED BY <1>3, <1>4, <1>5

\* PeerClose as a whole.
LEMMA PeerCloseIs ==
    ASSUME NEW c, Serving(c), NEW s, Good(s, c), s.endPoint,
           NEW seg, SegIn(seg, c), "FIN" \in seg.flags, NEW r,
           \/ s.state = "ESTABLISHED" /\ "rcvd" \notin c
           \/ /\ s.state = "SYN_RCVD" /\ "rcvd" \in c
              /\ seg.seq = s.rx.next /\ ~s.rx.gotFin /\ NoData(s.rx)
    PROVE  /\ Good(PeerClose(s, seg, r), c \ {"rcvd"})
           /\ PeerClose(s, seg, r).state \notin Attempting
<1> DEFINE n == seg.seq + seg.len
           a == [s EXCEPT !.rx = SetFinSequence(@, n)]
           i == IfData(a, seg, r)
<1>1. /\ "low" \notin c /\ n \in Nat /\ seg.seq \in Nat /\ s.rx.next \in Nat
      /\ seg.len = 0 \/ (seg.len = 1 /\ seg.seq = 1)
      /\ ~Young(s, c)
  BY DEF SegIn, Unheard, Segment, Young, Good, Basic, Typed, SmallBuffer
<1>2. CASE seg.seq < s.rx.next \/ seg.seq > MaxRxSequence(s.rx)
  <2>1. PeerClose(s, seg, r) = s
    BY <1>2 DEF PeerClose
  <2>2. "rcvd" \notin c
    <3>1. SUFFICES ASSUME "rcvd" \in c PROVE FALSE
      OBVIOUS
    <3>2. MaxRxSequence(s.rx) = s.rx.next + MaxBuffer
      BY <3>1 DEF MaxRxSequence, NoData
    <3> QED BY <3>1, <3>2, <1>1, <1>2, RxBufferAssumption
  <2>3. c \ {"rcvd"} = c /\ s.state \notin Attempting
    BY <2>2 DEF Attempting
  <2> QED BY <2>1, <2>3
<1>3. CASE ~(seg.seq < s.rx.next \/ seg.seq > MaxRxSequence(s.rx))
  <2>1. PeerClose(s, seg, r) = FinFinishes(i, r)
    BY <1>3 DEF PeerClose
  <2>2. /\ Good(a, c) /\ Only(s, a, {"rx"})
        /\ a.rx.gotFin /\ a.rx.fin = n
        /\ a.rx.next = IF s.rx.next = n THEN n + 1 ELSE s.rx.next
    BY <1>1, FinSeenIs
  <2> HIDE DEF a
  <2>3. a.endPoint /\ a.state = s.state
    BY <2>2 DEF Only, SockFields
  <2>4. a.state \in Accepting \/ (a.state = "SYN_RCVD" /\ "rcvd" \in c)
    BY <2>3 DEF Accepting
  <2>5. /\ Good(i, c) /\ i.endPoint /\ ~i.lastAck /\ Moved(a, i)
        /\ seg.len = 0 => i = a
        /\ seg.len = 1 /\ a.rx.gotFin /\ a.rx.fin = 2 /\ a.rx.next = 1 => Finished(i.rx)
    BY <2>2, <2>3, <2>4, IfDataIs
  <2> HIDE DEF i
  <2>6. "rcvd" \in c => Finished(i.rx)
    <3>1. SUFFICES ASSUME "rcvd" \in c PROVE Finished(i.rx)
      OBVIOUS
    <3>2. seg.seq = s.rx.next
      BY <3>1
    <3>3. CASE seg.len = 0
      BY <1>1, <2>2, <2>5, <3>2, <3>3 DEF Finished
    <3>4. CASE seg.len = 1 /\ seg.seq = 1
      BY <1>1, <2>2, <2>5, <3>2, <3>4
    <3> QED BY <1>1, <3>3, <3>4
  <2>7. \/ i.state \in {"ESTABLISHED", "FIN_WAIT_1"}
        \/ i.state = "SYN_RCVD" /\ "rcvd" \in c
    BY <2>3, <2>5 DEF Moved
  <2>8. /\ Good(FinFinishes(i, r), c \ {"rcvd"})
        /\ FinFinishes(i, r).state \notin Attempting
    BY <2>5, <2>6, <2>7, FinFinishesIs
  <2> QED BY <2>1, <2>8
<1> QED BY <1>2, <1>3

\* In the wait states: the peer's FIN, or the ACK of our own.
LEMMA AckOrFinIs ==
    ASSUME NEW c, NEW s, Good(s, c), s.state \notin Attempting,
           s.state \in {"FIN_WAIT_1", "FIN_WAIT_2"} => s.endPoint,
           NEW seg, SegIn(seg, c)
    PROVE  LET t == AckOrFin(s, seg)
           IN  /\ Good(t, c) /\ t.state \notin Attempting
               /\ t.state \in {"FIN_WAIT_1", "FIN_WAIT_2"} => t.endPoint
<1> DEFINE t == AckOrFin(s, seg)
<1>1. Basic(s, c) /\ Typed(s) /\ DOMAIN s = SockFields /\ seg.seq \in Nat /\ ~Young(s, c)
  BY DEF Good, Basic, Typed, SegIn, Segment, Young, Attempting
<1>2. CASE "FIN" \in seg.flags
  <2>1. t = [s EXCEPT !.rx = SetFinSequence(@, seg.seq)]
    BY <1>2 DEF AckOrFin
  <2>2. "low" \notin c
    BY <1>2 DEF SegIn, Unheard
  <2> HIDE DEF t
  <2>3. Good(t, c) /\ Only(s, t, {"rx"})
    BY <1>1, <2>1, <2>2, FinSeenIs
  <2> QED BY <2>3 DEF Only, SockFields, t
<1>3. CASE "FIN" \notin seg.flags /\ s.state = "FIN_WAIT_1" /\ AcksFin(s, seg)
  <2>1. t = [s EXCEPT !.state = "FIN_WAIT_2"]
    BY <1>3 DEF AckOrFin
  <2> HIDE DEF t
  <2>2. Only(s, t, {"state"}) /\ t.state = "FIN_WAIT_2" /\ t.endPoint
    BY <1>1, <1>3, <2>1 DEF Only, SockFields
  <2>3. \A f \in {"endPoint", "sent", "closeOnEmpty", "shutdownSend", "delAckTimer",
                  "lastAck", "timeWait", "pending", "closing"} : t[f] \in BOOLEAN
    BY <1>1, <2>2, TypedFields DEF Only, SockFields
  <2>4. Typed(t)
    BY <1>1, <1>3, <2>2, <2>3 DEF Typed, Only, SockFields, States
  <2>5. Basic(t, c)
    BY <1>1, <2>2, <2>4 DEF Basic, Only, SockFields, Attempting
  <2>6. Live(s, c) /\ s.size = 0 /\ ~s.lastAck
    BY <1>3 DEF Good, Live, TimersRun, AcksFin
  <2>7. TimersRun(t, c)
    BY <2>2, <2>6 DEF TimersRun, Young, Running, Only, SockFields
  <2>8. Live(t, c)
    BY <1>3, <2>2, <2>6, <2>7 DEF Live, Young, Silent, Only, SockFields
  <2> QED BY <2>2, <2>5, <2>8 DEF Good, Attempting, t
<1>4. CASE "FIN" \notin seg.flags /\ ~(s.state = "FIN_WAIT_1" /\ AcksFin(s, seg))
  <2>1. t = s
    BY <1>4 DEF AckOrFin
  <2> QED BY <2>1
<1> QED BY <1>2, <1>3, <1>4

\* Both ends have closed, and our FIN is not acknowledged.
LEMMA ClosingIs ==
    ASSUME NEW c, NEW s, Good(s, c), s.endPoint, s.state = "FIN_WAIT_1"
    PROVE  Good([s EXCEPT !.state = "CLOSING"], c)
<1> DEFINE t == [s EXCEPT !.state = "CLOSING"]
<1>1. Basic(s, c) /\ Typed(s) /\ DOMAIN s = SockFields /\ Live(s, c)
  BY DEF Good, Basic, Typed
<1>2. Only(s, t, {"state"}) /\ t.state = "CLOSING"
  BY <1>1 DEF Only, SockFields
<1> HIDE DEF t
<1>3. \A f \in {"endPoint", "sent", "closeOnEmpty", "shutdownSend", "delAckTimer",
                "lastAck", "timeWait", "pending", "closing"} : t[f] \in BOOLEAN
  BY <1>1, <1>2, TypedFields DEF Only, SockFields
<1>4. Typed(t)
  BY <1>1, <1>2, <1>3 DEF Typed, Only, SockFields, States
<1>5. Basic(t, c)
  BY <1>1, <1>2, <1>4 DEF Basic, Only, SockFields, Attempting
<1>6. s.retx # {} /\ ~s.lastAck
  BY <1>1 DEF Live, TimersRun
<1>7. TimersRun(t, c)
  BY <1>2, <1>6 DEF TimersRun, Young, Running, Only, SockFields
<1>8. Live(t, c)
  BY <1>1, <1>2, <1>7 DEF Live, Young, Silent, Only, SockFields
<1> QED BY <1>5, <1>8 DEF Good, t

\* Both ends have closed.
LEMMA BothClosedIs ==
    ASSUME NEW c, NEW s, Good(s, c), s.state \notin Attempting,
           s.state \in {"FIN_WAIT_1", "FIN_WAIT_2"} => s.endPoint, NEW seg, NEW r
    PROVE  Good(BothClosed(s, seg, r), c)
<1> DEFINE v == IF s.state = "FIN_WAIT_2" \/ AcksFin(s, seg) THEN TimeWait(s)
                ELSE [s EXCEPT !.state = "CLOSING"]
           w == SendEmptyPacket(v, {"ACK"})
<1>1. CASE s.state \in {"FIN_WAIT_1", "FIN_WAIT_2"} /\ Finished(s.rx)
  <2>1. BothClosed(s, seg, r) = OnData(w, r)
    BY <1>1 DEF BothClosed
  <2>2. Good(v, c)
    <3>1. CASE s.state = "FIN_WAIT_2" \/ AcksFin(s, seg)
      BY <1>1, <3>1, TimeWaitIs
    <3>2. CASE ~(s.state = "FIN_WAIT_2" \/ AcksFin(s, seg))
      <4>1. s.state = "FIN_WAIT_1" /\ v = [s EXCEPT !.state = "CLOSING"]
        BY <1>1, <3>2
      <4> HIDE DEF v
      <4> QED BY <1>1, <4>1, ClosingIs
    <3> QED BY <3>1, <3>2
  <2> HIDE DEF v
  <2>3. Good(w, c)
    BY <2>2, AckGoes
  <2> HIDE DEF w
  <2>4. Good(OnData(w, r), c)
    BY <2>3, OnDataIs
  <2> QED BY <2>1, <2>4
<1>2. CASE ~(s.state \in {"FIN_WAIT_1", "FIN_WAIT_2"} /\ Finished(s.rx))
  <2>1. BothClosed(s, seg, r) = s
    BY <1>2 DEF BothClosed
  <2> QED BY <2>1
<1> QED BY <1>1, <1>2

-----------------------------------------------------------------------------
(***************************************************************************)
(* The states.                                                             *)
(***************************************************************************)
\* A segment that makes no sense ends the connection.
LEMMA AbortIs ==
    ASSUME NEW c, NEW s, Good(s, c), NEW seg
    PROVE  Good(Abort(s, seg), c)
<1>1. Basic(s, c)
  BY DEF Good
<1>2. Basic(SendRST(s), c)
  BY <1>1, RstGoes DEF Good
<1>3. Good(CloseAndNotify(s), c) /\ Good(CloseAndNotify(SendRST(s)), c)
  BY <1>1, <1>2, CloseAndNotifyIs
<1> QED BY <1>3 DEF Abort

\* FIN_WAIT_1, FIN_WAIT_2 and CLOSE_WAIT.
LEMMA ProcessWaitIs ==
    ASSUME NEW c, Serving(c), "rcvd" \notin c, NEW s, Good(s, c), s.endPoint,
           s.state \in {"FIN_WAIT_1", "FIN_WAIT_2", "CLOSE_WAIT"},
           NEW seg, SegIn(seg, c), NEW r
    PROVE  Good(ProcessWait(s, seg, r), c)
<1> DEFINE u == ReceivedAck(s, seg, r)
           v == AckOrFin(u, seg)
<1>1. CASE seg.flags \in {{"ACK"}, {"FIN", "ACK"}}
  <2>1. ProcessWait(s, seg, r) = BothClosed(v, seg, r)
    BY <1>1 DEF ProcessWait
  <2>2. s.state \in Accepting
    BY DEF Accepting
  <2>3. /\ Good(u, c) /\ u.state \notin Attempting
        /\ u.state \in {"FIN_WAIT_1", "FIN_WAIT_2"} => u.endPoint
    BY <2>2, ReceivedAckIs
  <2> HIDE DEF u
  <2>4. /\ Good(v, c) /\ v.state \notin Attempting
        /\ v.state \in {"FIN_WAIT_1", "FIN_WAIT_2"} => v.endPoint
    BY <2>3, AckOrFinIs
  <2> HIDE DEF v
  <2>5. Good(BothClosed(v, seg, r), c)
    BY <2>4, BothClosedIs
  <2> QED BY <2>1, <2>5
<1>2. CASE seg.flags \notin {{"ACK"}, {"FIN", "ACK"}}
  <2>1. ProcessWait(s, seg, r) = s \/ ProcessWait(s, seg, r) = Abort(s, seg)
    BY <1>2 DEF ProcessWait
  <2> QED BY <2>1, AbortIs
<1> QED BY <1>1, <1>2

\* ESTABLISHED.
LEMMA ProcessEstablishedIs ==
    ASSUME NEW c, Serving(c), "rcvd" \notin c, NEW s, Good(s, c), s.endPoint,
           s.state = "ESTABLISHED", NEW seg, SegIn(seg, c), NEW r
    PROVE  Good(ProcessEstablished(s, seg, r), c)
<1> DEFINE t == ProcessEstablished(s, seg, r)
<1>1. CASE seg.flags = {"ACK"}
  <2>1. t = ReceivedAck(s, seg, r) \/ t = SendEmptyPacket(s, {"ACK"}) \/ t = s
    BY <1>1 DEF ProcessEstablished
  <2>2. s.state \in Accepting
    BY DEF Accepting
  <2>3. Good(ReceivedAck(s, seg, r), c)
    BY <2>2, ReceivedAckIs
  <2> QED BY <2>1, <2>3, AckGoes
<1>2. CASE seg.flags = {"FIN", "ACK"}
  <2>1. t = PeerClose(s, seg, r)
    <3>1. seg.flags # {"ACK"} /\ seg.flags \notin {{"SYN"}, {"SYN", "ACK"}}
      BY <1>2
    <3> QED BY <1>2, <3>1 DEF ProcessEstablished
  <2>2. "FIN" \in seg.flags /\ c \ {"rcvd"} = c
    BY <1>2
  <2>3. Good(PeerClose(s, seg, r), c \ {"rcvd"})
    BY <2>2, PeerCloseIs
  <2> QED BY <2>1, <2>2, <2>3
<1>3. CASE seg.flags \notin {{"ACK"}, {"FIN", "ACK"}}
  <2>1. t = s \/ t = Abort(s, seg)
    BY <1>3 DEF ProcessEstablished
  <2> QED BY <2>1, AbortIs
<1> QED BY <1>1, <1>2, <1>3

\* CLOSING.
LEMMA ProcessClosingIs ==
    ASSUME NEW c, NEW s, Good(s, c), s.endPoint, s.state = "CLOSING", NEW seg
    PROVE  Good(ProcessClosing(s, seg), c)
<1> DEFINE t == ProcessClosing(s, seg)
<1>1. \/ t = TimeWait(s) \/ t = s \/ t = CloseAndNotify(SendEmptyPacket(s, {"ACK"}))
      \/ t = Abort(s, seg)
  BY DEF ProcessClosing
<1>2. Good(TimeWait(s), c)
  BY TimeWaitIs
<1>3. Good(CloseAndNotify(SendEmptyPacket(s, {"ACK"})), c)
  <2>1. Basic(SendEmptyPacket(s, {"ACK"}), c)
    BY AckGoes DEF Good
  <2> QED BY <2>1, CloseAndNotifyIs
<1> QED BY <1>1, <1>2, <1>3, AbortIs

\* LAST_ACK.
LEMMA ProcessLastAckIs ==
    ASSUME NEW c, NEW s, Good(s, c), NEW seg
    PROVE  Good(ProcessLastAck(s, seg), c)
<1> DEFINE t == ProcessLastAck(s, seg)
<1>1. t = s \/ t = CloseAndNotify(s) \/ t = Abort(s, seg)
  BY DEF ProcessLastAck
<1>2. Basic(s, c)
  BY DEF Good
<1> QED BY <1>1, <1>2, CloseAndNotifyIs, AbortIs

\* A socket that connects, whose timer may have expired.
Starting(s, c) ==
    /\ s.retx \in Syn \union {{}} /\ ~s.lastAck
    /\ ~s.sent /\ ~s.pending /\ s.head = 0 /\ s.next = 0
    /\ ~s.rx.gotFin /\ NoData(s.rx) /\ s.got = 0
    /\ Silent(s) => "quiet" \in c /\ \A g \in s.out : Unheard(g)

\* No SYN is left: the attempt fails.
LEMMA GiveUpIs ==
    ASSUME NEW c, NEW s, Basic(s, c)
    PROVE  Good(GiveUp(s), c)
<1> DEFINE v == Tell(s, "failed")
           w == DeallocateEndPoint(v)
           t == [w EXCEPT !.state = "CLOSED"]
<1>1. Typed(s) /\ DOMAIN s = SockFields
  BY DEF Basic, Typed
<1>2. GiveUp(s) = t
  BY DEF GiveUp
<1>3. Only(s, v, {"told"}) /\ v.told = s.told \union {"failed"}
  BY <1>1, TellIs
<1> HIDE DEF v
<1>4. Typed(v)
  <2>1. Only(s, v, Aside)
    BY <1>3 DEF Only, Aside, SockFields
  <2>2. /\ v.synCount \in 0 .. SynRetries /\ v.dataRetrCount \in 0 .. DataRetries
        /\ v.high \in Nat /\ v.delAckTimer \in BOOLEAN
    BY <1>1, <1>3, TypedFields DEF Typed, Only, SockFields
  <2> QED BY <1>1, <2>1, <2>2, StaysTyped
<1>5. /\ Typed(w) /\ ~w.endPoint /\ Only(v, w, Stopped)
      /\ IF v.endPoint THEN NoTimers(w) ELSE w = v
  BY <1>4, DeallocateIs
<1> HIDE DEF w
<1>6. NoTimers(w)
  BY <1>3, <1>5 DEF Basic, NoTimers, Only, SockFields
<1>7. Only(w, t, {"state"}) /\ t.state = "CLOSED"
  BY <1>5 DEF Only, Typed, SockFields
<1> HIDE DEF t
<1>8. \A f \in {"endPoint", "sent", "closeOnEmpty", "shutdownSend", "delAckTimer",
                "lastAck", "timeWait", "pending", "closing"} : t[f] \in BOOLEAN
  BY <1>5, <1>7, TypedFields DEF Only, SockFields
<1>9. Typed(t)
  BY <1>5, <1>7, <1>8 DEF Typed, Only, SockFields, States
<1>10. Only(s, t, Stopped \union {"told", "state"}) /\ t.told # {} /\ ~t.endPoint
       /\ NoTimers(t) /\ t.told = s.told \union {"failed"}
  BY <1>3, <1>5, <1>6, <1>7 DEF Only, Stopped, SockFields, NoTimers
<1>11. Basic(t, c)
  BY <1>7, <1>9, <1>10
     DEF Basic, Only, Stopped, SockFields, Attempting, NoTimers, Tidings
<1> QED BY <1>2, <1>10, <1>11 DEF Good

\* A SYN or SYN|ACK is sent, or the attempt given up.
LEMMA SynGoes ==
    ASSUME NEW c, "rcvd" \notin c, NEW s, Basic(s, c), s.state \in Attempting,
           s.endPoint => Starting(s, c), NEW F \in Syn
    PROVE  Good(SendEmptyPacket(s, F), c)
<1> DEFINE t == SendEmptyPacket(s, F)
<1>1. Typed(s) /\ DOMAIN s = SockFields /\ s.endPoint \in BOOLEAN
      /\ s.synCount \in 0 .. SynRetries
  BY TypedFields DEF Basic, Typed
<1>2. CASE ~s.endPoint
  <2>1. t = s
    BY <1>2 DEF SendEmptyPacket
  <2> QED BY <1>2, <2>1 DEF Good
<1>3. "SYN" \in F /\ "FIN" \notin F /\ F \intersect {"SYN", "FIN"} # {} /\ F \in Timers
      /\ F # {}
  BY DEF Syn, Timers
<1>4. CASE s.endPoint /\ s.synCount = 0
  <2>1. t = GiveUp(s)
    BY <1>3, <1>4 DEF SendEmptyPacket
  <2> QED BY <2>1, GiveUpIs
<1>5. CASE s.endPoint /\ s.synCount # 0
  <2> DEFINE k == [s EXCEPT !.synCount = @ - 1]
  <2>1. t = SendFlags(k, F)
    BY <1>3, <1>5 DEF SendEmptyPacket, CountSyn
  <2> HIDE DEF t
  <2>2. Only(s, k, {"synCount"}) /\ k.synCount \in 0 .. SynRetries
    BY <1>1, <1>5, ConnectionAssumption DEF Only, SockFields
  <2> HIDE DEF k
  <2>3. Typed(k)
    <3>1. Only(s, k, Aside)
      BY <2>2 DEF Only, Aside, SockFields
    <3>2. /\ k.dataRetrCount \in 0 .. DataRetries /\ k.high \in Nat
          /\ k.delAckTimer \in BOOLEAN
      BY <1>1, <2>2, TypedFields DEF Typed, Only, SockFields
    <3> QED BY <1>1, <2>2, <3>1, <3>2, StaysTyped
  <2>4. /\ Only(k, t, {"out", "delAckTimer", "delAckCount", "retx"})
        /\ t.out = k.out \union {Packet(k, F)} /\ t.delAckTimer \in BOOLEAN
        /\ t.retx = IF k.retx = {} THEN F ELSE k.retx
    BY <1>3, <2>1, <2>3, SendFlagsIs
  <2>5. Basic(k, c)
    BY <2>2, <2>3 DEF Basic, Only, SockFields, NoTimers
  <2>6. Segment(Packet(k, F)) /\ ("low" \in c => Packet(k, F).ack <= 1)
        /\ Packet(k, F).flags = F /\ Packet(k, F).len = 0
        /\ Packet(k, F).seq = k.next + AfterFin(k, F)
    BY <2>5, PacketIs
  <2>7. Starting(s, c) /\ s.endPoint
    BY <1>5
  <2>8. k.next = 0 /\ AfterFin(k, F) = 0
    BY <2>2, <2>7 DEF Starting, Only, SockFields, AfterFin, Attempting
  <2>9. Unheard(Packet(k, F))
    BY <1>3, <2>6, <2>8 DEF Unheard
  <2>10. /\ Only(s, t, {"out", "delAckTimer", "delAckCount", "retx", "synCount"})
         /\ t.out = s.out \union {Packet(k, F)}
         /\ t.retx = (IF s.retx = {} THEN F ELSE s.retx)
         /\ t.synCount \in 0 .. SynRetries
    BY <2>2, <2>4 DEF Only, SockFields
  <2>11. t.retx \in Syn /\ t.retx \in Timers /\ t.retx # {}
    BY <2>7, <2>10 DEF Starting, Syn, Timers
  <2>12. \A f \in {"endPoint", "sent", "closeOnEmpty", "shutdownSend", "delAckTimer",
                   "lastAck", "timeWait", "pending", "closing"} : t[f] \in BOOLEAN
    BY <1>1, <2>4, <2>10, TypedFields DEF Only, SockFields
  <2>13. Typed(t)
    BY <1>1, <2>10, <2>11, <2>12 DEF Typed, Only, SockFields
  <2>14. Basic(t, c)
    <3>1. /\ \A g \in t.out : Segment(g) /\ ("low" \in c => g.ack <= 1)
          /\ \A g \in t.out : Vouches(g) => t.rx.next >= 1
      <4>1. t.rx = s.rx /\ t.rx = k.rx
        BY <2>2, <2>10 DEF Only, SockFields
      <4> QED BY <1>3, <2>5, <2>6, <2>10, <4>1, PacketIs DEF Basic
    <3>2. /\ t.state = "CLOSED" => t.told # {} /\ ~t.endPoint
          /\ t.endPoint
          /\ "begun" \in c => t.rx.next >= 1
          /\ t.connected => "met" \in c /\ t.rx.next >= 1
          /\ t.told \subseteq Tidings
          /\ t.closeOnEmpty => t.closing \/ t.shutdownSend
          /\ "low" \in c => t.rx.next <= 1 /\ ~t.rx.gotFin
          /\ "aged" \in c => t.state \notin Attempting
          /\ "calm" \in c => ~t.lastAck
      BY <2>7, <2>10 DEF Basic, Only, SockFields
    <3>3. ~t.endPoint => NoTimers(t)
      BY <3>2
    <3> QED BY <2>13, <3>1, <3>2, <3>3 DEF Basic
  <2>15. Starting(s, c) /\ Young(t, c) /\ ~Running(t, c) /\ ~t.lastAck /\ ~t.sent
         /\ t.state \in Attempting
    BY <2>7, <2>10 DEF Starting, Young, Running, Attempting, Only, SockFields
  <2>16. TimersRun(t, c)
    BY <2>11, <2>15 DEF TimersRun, Attempting
  <2>17. Silent(t) => "quiet" \in c /\ \A g \in t.out : Unheard(g)
    BY <2>9, <2>10, <2>15 DEF Starting, Silent, Only, SockFields
  <2>18. ~t.pending /\ t.head = 0 /\ t.next = 0 /\ ~t.rx.gotFin /\ NoData(t.rx)
         /\ t.got = 0
    BY <2>10, <2>15 DEF Starting, Only, SockFields
  <2>19. Live(t, c)
    BY <2>15, <2>16, <2>17, <2>18 DEF Live, Attempting
  <2> QED BY <2>14, <2>19 DEF Good, t
<1> QED BY <1>1, <1>2, <1>4, <1>5

\* The handshake is over.
LEMMA ConnectedIs ==
    ASSUME NEW c, NEW s, Good(s, c), s.endPoint, Young(s, c), NEW t,
           Only(s, t, {"rx", "connected", "retx", "next", "high", "head", "state",
                       "told", "delAckCount"}),
           NEW d, SameSide(c, d), "aged" \notin d,
           \/ t.state = "ESTABLISHED"
           \/ t.state = "SYN_RCVD" /\ "rcvd" \in d,
           t.retx = {}, t.next = 1, t.high = 1, t.head = 1,
           SmallBuffer(t.rx), t.rx.next >= 1, "met" \in d, t.told \subseteq Tidings,
           "low" \in c => t.rx.next <= 1 /\ ~t.rx.gotFin
    PROVE  Good(t, d) /\ t.endPoint
<1>1. Basic(s, c) /\ Typed(s) /\ DOMAIN s = SockFields /\ Live(s, c)
  BY DEF Good, Basic, Typed
<1>2. \A f \in {"endPoint", "sent", "closeOnEmpty", "shutdownSend", "delAckTimer",
                "lastAck", "timeWait", "pending", "closing"} : t[f] \in BOOLEAN
  BY <1>1, TypedFields DEF Only, SockFields
<1>3. Typed(t)
  <2>1. t.got = 0
    BY <1>1 DEF Live, Only, SockFields
  <2> QED BY <1>1, <1>2, <2>1 DEF Typed, Only, SockFields, States, Timers
<1>4. t.endPoint /\ ~t.sent /\ ~t.lastAck /\ t.out = s.out
  BY <1>1 DEF Live, TimersRun, Young, Only, SockFields
<1>5. Basic(t, d)
  <2>1. \A g \in t.out : Segment(g) /\ ("low" \in d => g.ack <= 1)
    BY <1>1, <1>4 DEF Basic, SameSide
  <2>2. t.closeOnEmpty => t.closing \/ t.shutdownSend
    BY <1>1 DEF Basic, Only, SockFields
  <2> QED BY <1>3, <1>4, <2>1, <2>2 DEF Basic, SameSide
<1>6. TimersRun(t, d)
  BY <1>4 DEF TimersRun, Young, Idle
<1>7. Silent(t) => Silent(s)
  BY DEF Silent, Young, Only, SockFields
<1>8. ~Young(t, d)
  BY DEF Young
<1>9. Live(t, d)
  BY <1>1, <1>4, <1>6, <1>7, <1>8 DEF Live, SameSide
<1> QED BY <1>4, <1>5, <1>9 DEF Good

\* The peer's SYN: its sequence number is the next but one.
LEMMA SynReceivedIs ==
    ASSUME NEW c, NEW s, Good(s, c), s.endPoint, Young(s, c),
           NEW seg, SegIn(seg, c), "SYN" \in seg.flags
    PROVE  LET t == SynReceived(s, seg)
           IN  /\ Only(s, t, {"rx"}) /\ SmallBuffer(t.rx) /\ NoData(t.rx)
               /\ ~t.rx.gotFin /\ t.rx.next \in Nat /\ t.rx.next >= 1
               /\ "low" \in c => t.rx.next <= 1
<1> DEFINE t == SynReceived(s, seg)
           b == [s.rx EXCEPT !.next = seg.seq + 1]
<1>1. /\ DOMAIN s = SockFields /\ SmallBuffer(s.rx) /\ NoData(s.rx) /\ ~s.rx.gotFin
      /\ seg.seq \in Nat /\ ("low" \in c => seg.seq = 0)
  BY DEF Good, Basic, Typed, Live, SegIn, Segment, Unheard
<1>2. Only(s, t, {"rx"}) /\ t.rx = b
  BY <1>1 DEF SynReceived, Only, SockFields
<1>3. /\ DOMAIN b = RxFields /\ b.next = seg.seq + 1 /\ b.gotFin = s.rx.gotFin
      /\ b.fin = s.rx.fin /\ b.data = s.rx.data /\ b.size = s.rx.size
      /\ b.avail = s.rx.avail
  BY <1>1 DEF SmallBuffer, RxFields
<1> HIDE DEF b, t
<1>4. SmallBuffer(b) /\ NoData(b) /\ ~b.gotFin
  BY <1>1, <1>3 DEF SmallBuffer, NoData
<1>5. b.next \in Nat /\ b.next >= 1 /\ ("low" \in c => b.next <= 1)
  BY <1>1, <1>3
<1> QED BY <1>2, <1>4, <1>5 DEF t

\* What Connected sets.
LEMMA ConnectedFields ==
    ASSUME NEW s, DOMAIN s = SockFields, s.next = 0
    PROVE  LET k == Connected(s)
           IN  /\ Only(s, k, {"connected", "retx", "next", "high", "head"})
               /\ k.retx = {} /\ k.next = 1 /\ k.high = 1 /\ k.head = 1
<1> DEFINE k == [s EXCEPT !.connected = TRUE, !.retx = {}, !.next = 1,
                          !.high = 1, !.head = 1]
<1>1. s.next + 1 = 1
  OBVIOUS
<1>2. Connected(s) = k
  BY <1>1 DEF Connected
<1>3. /\ Only(s, k, {"connected", "retx", "next", "high", "head"})
      /\ k.retx = {} /\ k.next = 1 /\ k.high = 1 /\ k.head = 1
  BY DEF Only, SockFields
<1> QED BY <1>2, <1>3

\* A SYN is answered by SYN|ACK.
LEMMA SynSynGoes ==
    ASSUME NEW c, "rcvd" \notin c, "aged" \notin c, NEW s, Good(s, c), s.endPoint,
           Young(s, c), NEW t, Only(s, t, {"rx", "state", "synCount"}),
           t.state = "SYN_RCVD", t.synCount \in 0 .. SynRetries,
           SmallBuffer(t.rx), NoData(t.rx), ~t.rx.gotFin, t.rx.next >= 1,
           "low" \in c => t.rx.next <= 1
    PROVE  Good(SendEmptyPacket(t, {"SYN", "ACK"}), c)
<1>1. Basic(s, c) /\ Typed(s) /\ DOMAIN s = SockFields /\ Live(s, c)
  BY DEF Good, Basic, Typed
<1>2. \A f \in {"endPoint", "sent", "closeOnEmpty", "shutdownSend", "delAckTimer",
                "lastAck", "timeWait", "pending", "closing"} : t[f] \in BOOLEAN
  BY <1>1, TypedFields DEF Only, SockFields
<1>3. Typed(t)
  <2>1. t.got = 0
    BY <1>1 DEF Live, Only, SockFields
  <2> QED BY <1>1, <1>2, <2>1 DEF Typed, Only, SockFields, States
<1>4. Basic(t, c)
  BY <1>1, <1>3 DEF Basic, Only, SockFields, NoTimers
<1>5. Silent(t) => Silent(s)
  BY DEF Silent, Young, Only, SockFields
<1>6. Starting(t, c)
  <2>1. s.retx \in Syn /\ ~s.lastAck
    BY <1>1 DEF Live, TimersRun, Young
  <2> QED BY <1>1, <1>5, <2>1 DEF Live, Starting, Only, SockFields
<1>7. {"SYN", "ACK"} \in Syn /\ t.state \in Attempting
  BY DEF Syn, Attempting
<1> QED BY <1>4, <1>6, <1>7, SynGoes

\* SYN_SENT.
LEMMA ProcessSynSentIs ==
    ASSUME NEW c, Serving(c), "rcvd" \notin c, "aged" \notin c, NEW s, Good(s, c),
           s.endPoint, s.state = "SYN_SENT", NEW seg, SegIn(seg, c)
    PROVE  Good(ProcessSynSent(s, seg), c)
<1> DEFINE t == ProcessSynSent(s, seg)
           b == SynReceived(s, seg)
<1>1. Basic(s, c) /\ Typed(s) /\ DOMAIN s = SockFields /\ Live(s, c) /\ Young(s, c)
  BY DEF Good, Basic, Typed, Young
<1>2. ASSUME "SYN" \in seg.flags
      PROVE  /\ Only(s, b, {"rx"}) /\ SmallBuffer(b.rx) /\ NoData(b.rx)
             /\ ~b.rx.gotFin /\ b.rx.next \in Nat /\ b.rx.next >= 1
             /\ "low" \in c => b.rx.next <= 1
  BY <1>1, <1>2, SynReceivedIs
<1>3. CASE "ACK" \in seg.flags /\ "SYN" \notin seg.flags
  <2>1. t = s
    BY <1>3 DEF ProcessSynSent
  <2> QED BY <2>1
<1>4. CASE "SYN" \in seg.flags /\ "ACK" \notin seg.flags
  <2> DEFINE p == [b EXCEPT !.state = "SYN_RCVD", !.synCount = SynRetries]
  <2>1. t = SendEmptyPacket(p, {"SYN", "ACK"})
    BY <1>4 DEF ProcessSynSent
  <2> HIDE DEF t, b
  <2>2. Only(b, p, {"state", "synCount"}) /\ p.state = "SYN_RCVD"
        /\ p.synCount = SynRetries
    BY <1>2, <1>4 DEF Only, SockFields
  <2> HIDE DEF p
  <2>3. Only(s, p, {"rx", "state", "synCount"}) /\ p.rx = b.rx
    BY <1>2, <1>4, <2>2 DEF Only, SockFields
  <2>4. p.synCount \in 0 .. SynRetries
    BY <2>2, ConnectionAssumption
  <2>5. Good(SendEmptyPacket(p, {"SYN", "ACK"}), c)
    BY <1>1, <1>2, <1>4, <2>2, <2>3, <2>4, SynSynGoes
  <2> QED BY <2>1, <2>5 DEF t
<1>5. CASE {"SYN", "ACK"} \subseteq seg.flags /\ seg.ack = s.next + 1
  <2> DEFINE p == [Connected(b) EXCEPT !.state = "ESTABLISHED"]
             q == SendEmptyPacket(p, {"ACK"})
             w == SendPendingData(q)
  <2>1. t = [w EXCEPT !.announce = TRUE, !.delAckCount = DelAckMax]
    BY <1>5 DEF ProcessSynSent
  <2> HIDE DEF b
  <2>2. Only(s, b, {"rx"}) /\ b.next = 0 /\ s.next = 0
    BY <1>1, <1>2, <1>5 DEF Live, Only, SockFields
  <2>3. /\ Only(b, p, {"connected", "retx", "next", "high", "head", "state"})
        /\ p.state = "ESTABLISHED" /\ p.retx = {} /\ p.next = 1 /\ p.high = 1
        /\ p.head = 1
    <3> DEFINE k == Connected(b)
    <3>1. /\ Only(b, k, {"connected", "retx", "next", "high", "head"})
          /\ k.retx = {} /\ k.next = 1 /\ k.high = 1 /\ k.head = 1
      BY <2>2, ConnectedFields DEF Only
    <3> HIDE DEF k
    <3>2. p = [k EXCEPT !.state = "ESTABLISHED"]
      BY DEF k
    <3> QED BY <3>1, <3>2 DEF Only, SockFields
  <2> HIDE DEF p
  <2>4. /\ Only(s, p, {"rx", "connected", "retx", "next", "high", "head", "state",
                       "told", "delAckCount"})
        /\ p.rx = b.rx
    BY <2>2, <2>3 DEF Only, SockFields
  <2>5. SameSide(c, c)
    BY DEF SameSide
  <2>14. "met" \in c /\ p.told \subseteq Tidings
    <3>1. Vouches(seg)
      BY <1>5, <2>2 DEF Vouches
    <3>2. p.told = s.told
      BY <2>2, <2>3 DEF Only, SockFields
    <3> QED BY <1>1, <3>1, <3>2 DEF SegIn, Basic
  <2>6. Good(p, c) /\ p.endPoint
    BY <1>1, <1>2, <1>5, <2>3, <2>4, <2>5, <2>14, ConnectedIs
  <2>7. Good(q, c) /\ Only(p, q, {"out", "delAckTimer", "delAckCount"})
    BY <2>6, AckGoes
  <2> HIDE DEF q
  <2>8. ~Young(q, c)
    BY <2>3, <2>7 DEF Young, Only, SockFields
  <2>9. Good(w, c)
    BY <2>7, <2>8, SendPendingIs
  <2> HIDE DEF w, t
  <2>10. Typed(w) /\ DOMAIN w = SockFields /\ (~w.endPoint => ~w.delAckTimer)
    BY <2>9 DEF Good, Basic, Typed, NoTimers
  <2>11. Only(w, t, {"announce", "delAckCount"})
    BY <2>1, <2>10 DEF Only, SockFields
  <2>12. /\ Only(w, t, Aside) /\ t.out = w.out /\ w.told \subseteq t.told
         /\ t.synCount \in 0 .. SynRetries /\ t.dataRetrCount \in 0 .. DataRetries
         /\ t.high \in Nat /\ t.delAckTimer \in BOOLEAN
         /\ ~w.endPoint => ~t.delAckTimer
         /\ t.told = w.told
    BY <2>10, <2>11, TypedFields DEF Only, Aside, SockFields, Typed
  <2>13. Good(t, c)
    BY <2>9, <2>12, StaysGood DEF Good, Basic
  <2> QED BY <2>13 DEF t
<1>6. CASE /\ "SYN" \in seg.flags \/ "ACK" \notin seg.flags
           /\ "SYN" \notin seg.flags \/ "ACK" \in seg.flags
           /\ ~({"SYN", "ACK"} \subseteq seg.flags /\ seg.ack = s.next + 1)
  <2>1. t = CloseAndNotify(s) \/ t = CloseAndNotify(SendRST(s))
    BY <1>6 DEF ProcessSynSent
  <2>2. Basic(SendRST(s), c)
    BY <1>1, RstGoes DEF Good
  <2> QED BY <1>1, <2>1, <2>2, CloseAndNotifyIs
<1> QED BY <1>3, <1>4, <1>5, <1>6

\* SYN_RCVD.
LEMMA ProcessSynRcvdIs ==
    ASSUME NEW c, Serving(c), "rcvd" \notin c, "aged" \notin c, NEW s, Good(s, c),
           s.endPoint, s.state = "SYN_RCVD", NEW seg, SegIn(seg, c), NEW r
    PROVE  Good(ProcessSynRcvd(s, seg, r), c)
<1> DEFINE t == ProcessSynRcvd(s, seg, r)
           k == Connected(s)
           p == Accepted(s)
<1>1. Basic(s, c) /\ Typed(s) /\ DOMAIN s = SockFields /\ Live(s, c) /\ Young(s, c)
      /\ SmallBuffer(s.rx) /\ s.rx.next >= 1
  BY DEF Good, Basic, Typed, Young
<1>2. s.next = 0 /\ NoData(s.rx) /\ ~s.rx.gotFin
  BY <1>1 DEF Live
<1>3. /\ Only(s, k, {"connected", "retx", "next", "high", "head"})
      /\ k.retx = {} /\ k.next = 1 /\ k.high = 1 /\ k.head = 1
  BY <1>1, <1>2, ConnectedFields
<1>4. p = Tell(k, "accepted")
  BY DEF Accepted
<1> HIDE DEF k, p
<1>5. Only(k, p, {"told"}) /\ p.told = k.told \union {"accepted"}
  BY <1>3, <1>4, TellIs DEF Only
<1>6. /\ Only(s, p, {"connected", "retx", "next", "high", "head", "told"})
      /\ p.retx = {} /\ p.next = 1 /\ p.high = 1 /\ p.head = 1 /\ p.rx = s.rx
      /\ p.state = "SYN_RCVD" /\ p.told = s.told \union {"accepted"}
  BY <1>3, <1>5 DEF Only, SockFields
<1>11. p.told \subseteq Tidings
  BY <1>1, <1>6 DEF Basic, Tidings
<1>12. ASSUME Vouches(seg) PROVE "met" \in c
  BY <1>12 DEF SegIn
<1>7. CASE seg.flags = {"ACK"} /\ seg.ack = s.next + 1
  <2> DEFINE e == [p EXCEPT !.state = "ESTABLISHED", !.delAckCount = DelAckMax]
  <2>1. t = ReceivedAck(e, seg, r)
    BY <1>7 DEF ProcessSynRcvd, p
  <2>2. /\ Only(p, e, {"state", "delAckCount"}) /\ e.state = "ESTABLISHED"
    BY <1>6 DEF Only, SockFields
  <2> HIDE DEF e
  <2>3. /\ Only(s, e, {"rx", "connected", "retx", "next", "high", "head", "state",
                       "told", "delAckCount"})
        /\ e.retx = {} /\ e.next = 1 /\ e.high = 1 /\ e.head = 1 /\ e.rx = s.rx
    BY <1>6, <2>2 DEF Only, SockFields
  <2>4. SameSide(c, c) /\ ("low" \in c => e.rx.next <= 1 /\ ~e.rx.gotFin)
    BY <1>1, <2>3 DEF SameSide, Basic
  <2>8. "met" \in c /\ e.told \subseteq Tidings
    <3>1. Vouches(seg)
      BY <1>2, <1>7 DEF Vouches
    <3>2. e.told = p.told
      BY <2>2 DEF Only, SockFields
    <3> QED BY <1>11, <1>12, <3>1, <3>2
  <2>5. Good(e, c) /\ e.endPoint
    BY <1>1, <2>2, <2>3, <2>4, <2>8, ConnectedIs
  <2>6. e.state \in Accepting
    BY <2>2 DEF Accepting
  <2>7. Good(ReceivedAck(e, seg, r), c)
    BY <2>5, <2>6, ReceivedAckIs
  <2> QED BY <2>1, <2>7
<1>8. CASE seg.flags = {"SYN"}
  <2> DEFINE b == SynReceived(s, seg)
  <2>1. t = SendEmptyPacket(b, {"SYN", "ACK"})
    <3>1. seg.flags # {"ACK"}
      BY <1>8
    <3> QED BY <1>8, <3>1 DEF ProcessSynRcvd
  <2>2. "SYN" \in seg.flags
    BY <1>8
  <2>3. /\ Only(s, b, {"rx"}) /\ SmallBuffer(b.rx) /\ NoData(b.rx)
        /\ ~b.rx.gotFin /\ b.rx.next \in Nat /\ b.rx.next >= 1
        /\ "low" \in c => b.rx.next <= 1
    BY <1>1, <2>2, SynReceivedIs
  <2> HIDE DEF b, t
  <2>4. Only(s, b, {"rx", "state", "synCount"}) /\ b.state = "SYN_RCVD"
        /\ b.synCount \in 0 .. SynRetries
    BY <1>1, <2>3 DEF Only, SockFields, Typed
  <2>5. Good(SendEmptyPacket(b, {"SYN", "ACK"}), c)
    BY <1>1, <2>3, <2>4, SynSynGoes
  <2> QED BY <2>1, <2>5 DEF t
<1>9. CASE seg.flags = {"FIN", "ACK"}
  <2>1. seg.flags # {"ACK"} /\ seg.flags # {"SYN"} /\ "FIN" \in seg.flags
    BY <1>9
  <2>2. t = IF seg.seq = s.rx.next THEN PeerClose(p, seg, r) ELSE s
    BY <1>9, <2>1 DEF ProcessSynRcvd, p
  <2>3. CASE seg.seq = s.rx.next
    <3> DEFINE d == c \union {"rcvd"}
    <3>1. /\ SameSide(c, d) /\ "rcvd" \in d /\ "aged" \notin d /\ Serving(d)
          /\ d \ {"rcvd"} = c
      BY DEF SameSide, Serving
    <3>2. SegIn(seg, d)
      BY <3>1 DEF SegIn, SameSide
    <3> HIDE DEF d
    <3>3. /\ Only(s, p, {"rx", "connected", "retx", "next", "high", "head", "state",
                         "told", "delAckCount"})
      BY <1>6 DEF Only, SockFields
    <3>4. "low" \in c => p.rx.next <= 1 /\ ~p.rx.gotFin
      BY <1>1, <1>6 DEF Basic
    <3>7. "met" \in d
      <4>1. Vouches(seg)
        BY <1>9 DEF Vouches
      <4> QED BY <1>12, <3>1, <4>1 DEF SameSide
    <3>5. Good(p, d) /\ p.endPoint
      BY <1>1, <1>6, <1>11, <3>1, <3>3, <3>4, <3>7, ConnectedIs
    <3>6. Good(PeerClose(p, seg, r), d \ {"rcvd"})
      BY <1>2, <1>6, <2>1, <2>3, <3>1, <3>2, <3>5, PeerCloseIs
    <3> QED BY <2>2, <2>3, <3>1, <3>6
  <2>4. CASE seg.seq # s.rx.next
    BY <2>2, <2>4
  <2> QED BY <2>3, <2>4
<1>10. CASE /\ ~(seg.flags = {"ACK"} /\ seg.ack = s.next + 1)
            /\ seg.flags # {"SYN"} /\ seg.flags # {"FIN", "ACK"}
  <2>1. t = Abort(s, seg)
    BY <1>10 DEF ProcessSynRcvd
  <2> QED BY <2>1, AbortIs
<1> QED BY <1>7, <1>8, <1>9, <1>10

\* Whatever segment comes, in whatever state.
LEMMA ProcessIs ==
    ASSUME NEW c, Serving(c), "rcvd" \notin c, "aged" \notin c, NEW s, Good(s, c),
           s.endPoint, NEW seg, SegIn(seg, c), NEW r
    PROVE  Good(ForwardUp(s, seg, r), c)
<1>1. s.state \in States /\ s.state # "CLOSED"
  BY DEF Good, Basic, Typed
<1>2. CASE seg.len > 0 /\ OutOfRange(s, seg)
  <2>1. ForwardUp(s, seg, r) = SendEmptyPacket(s, {"ACK"})
    BY <1>2 DEF ForwardUp
  <2> QED BY <2>1, AckGoes
<1>3. CASE ~(seg.len > 0 /\ OutOfRange(s, seg))
  <2>1. ForwardUp(s, seg, r) = Process(s, seg, r)
    BY <1>3 DEF ForwardUp
  <2>2. CASE s.state = "SYN_SENT"
    <3>1. Process(s, seg, r) = ProcessSynSent(s, seg)
      BY <2>2 DEF Process
    <3> QED BY <2>1, <2>2, <3>1, ProcessSynSentIs
  <2>3. CASE s.state = "SYN_RCVD"
    <3>1. Process(s, seg, r) = ProcessSynRcvd(s, seg, r)
      BY <2>3 DEF Process
    <3> QED BY <2>1, <2>3, <3>1, ProcessSynRcvdIs
  <2>4. CASE s.state = "ESTABLISHED"
    <3>1. Process(s, seg, r) = ProcessEstablished(s, seg, r)
      BY <2>4 DEF Process
    <3> QED BY <2>1, <2>4, <3>1, ProcessEstablishedIs
  <2>5. CASE s.state \in {"FIN_WAIT_1", "FIN_WAIT_2", "CLOSE_WAIT"}
    <3>1. Process(s, seg, r) = ProcessWait(s, seg, r)
      BY <2>5 DEF Process
    <3> QED BY <2>1, <2>5, <3>1, ProcessWaitIs
  <2>6. CASE s.state = "CLOSING"
    <3>1. Process(s, seg, r) = ProcessClosing(s, seg)
      BY <2>6 DEF Process
    <3> QED BY <2>1, <2>6, <3>1, ProcessClosingIs
  <2>7. CASE s.state = "LAST_ACK"
    <3>1. Process(s, seg, r) = ProcessLastAck(s, seg)
      BY <2>7 DEF Process
    <3> QED BY <2>1, <3>1, ProcessLastAckIs
  <2>8. CASE s.state = "TIME_WAIT"
    <3>1. Process(s, seg, r) = s
      BY <2>8 DEF Process
    <3> QED BY <2>1, <3>1
  <2> QED BY <1>1, <2>2, <2>3, <2>4, <2>5, <2>6, <2>7, <2>8 DEF States
<1> QED BY <1>2, <1>3

-----------------------------------------------------------------------------
(***************************************************************************)
(* Timers.                                                                 *)
(***************************************************************************)
\* A timer that repeats its segment runs on.
LEMMA RepeatIs ==
    ASSUME NEW c, "rcvd" \notin c, NEW s, Good(s, c), s.endPoint,
           ~Young(s, c), ~Running(s, c), NEW t,
           Only(s, t, {"out", "delAckTimer", "delAckCount", "retx", "synCount"}),
           t.retx \in Timers, t.retx # {}, t.retx # {"DATA"},
           t.synCount \in 0 .. SynRetries, t.delAckTimer \in BOOLEAN,
           \A g \in t.out : /\ Segment(g) /\ ("low" \in c => g.ack <= 1)
                            /\ Vouches(g) => s.rx.next >= 1
    PROVE  Good(t, c)
<1>1. Basic(s, c) /\ Typed(s) /\ DOMAIN s = SockFields /\ Live(s, c)
  BY DEF Good, Basic, Typed
<1>2. \A f \in {"endPoint", "sent", "closeOnEmpty", "shutdownSend", "delAckTimer",
                "lastAck", "timeWait", "pending", "closing"} : t[f] \in BOOLEAN
  BY <1>1, TypedFields DEF Only, SockFields
<1>3. Typed(t)
  BY <1>1, <1>2 DEF Typed, Only, SockFields
<1>4. Basic(t, c)
  BY <1>1, <1>3 DEF Basic, Only, SockFields
<1>5. ~Young(t, c) /\ ~Running(t, c) /\ DataTimed(t)
  BY DEF Young, Running, DataTimed, Only, SockFields
<1>6. TimersRun(t, c)
  BY <1>1, <1>5 DEF Live, TimersRun, Only, SockFields
<1>7. ~Silent(t)
  BY <1>5 DEF Silent, Young, Running
<1>8. Live(t, c)
  BY <1>1, <1>5, <1>6, <1>7 DEF Live, Only, SockFields
<1> QED BY <1>4, <1>8 DEF Good

\* A SYN is repeated.
LEMMA SynAgainIs ==
    ASSUME NEW c, "rcvd" \notin c, NEW s, Good(s, c), s.endPoint, s.retx \in Syn
    PROVE  Good(SendEmptyPacket([s EXCEPT !.retx = {}], s.retx), c)
<1> DEFINE u == [s EXCEPT !.retx = {}]
           F == s.retx
           t == SendEmptyPacket(u, F)
<1>1. Basic(s, c) /\ Typed(s) /\ DOMAIN s = SockFields /\ Live(s, c)
  BY DEF Good, Basic, Typed
<1>2. Only(s, u, {"retx"}) /\ u.retx = {}
  BY <1>1 DEF Only, SockFields
<1>3. /\ "SYN" \in F /\ "FIN" \notin F /\ F \intersect {"SYN", "FIN"} # {}
      /\ F \in Timers /\ F # {} /\ F # {"DATA"} /\ F \in Syn
  BY DEF Syn, Timers
<1> HIDE DEF u, F
<1>4. Typed(u)
  <2>1. \A f \in {"endPoint", "sent", "closeOnEmpty", "shutdownSend", "delAckTimer",
                  "lastAck", "timeWait", "pending", "closing"} : u[f] \in BOOLEAN
    BY <1>1, <1>2, TypedFields DEF Only, SockFields
  <2> QED BY <1>1, <1>2, <2>1 DEF Typed, Only, SockFields, Timers
<1>5. Basic(u, c)
  BY <1>1, <1>2, <1>4 DEF Basic, Only, SockFields, NoTimers
<1>6. CASE Young(s, c)
  <2>1. u.state \in Attempting
    BY <1>2, <1>6 DEF Young, Attempting, Only, SockFields
  <2>2. Starting(u, c)
    BY <1>1, <1>2, <1>6 DEF Live, TimersRun, Young, Starting, Silent, Only, SockFields
  <2> QED BY <1>3, <1>5, <2>1, <2>2, SynGoes DEF F, u
<1>7. CASE ~Young(s, c)
  <2>1. ~Running(s, c)
    <3>1. F # {} /\ F # {"DATA"}
      BY <1>3
    <3> QED BY <1>1, <3>1 DEF Live, TimersRun, Idle, F
  <2>2. u.endPoint /\ u.synCount \in 0 .. SynRetries
    BY <1>1, <1>2 DEF Only, SockFields, Typed
  <2>3. CASE u.synCount = 0
    <3>1. t = GiveUp(u)
      BY <1>3, <2>2, <2>3 DEF SendEmptyPacket
    <3>2. Good(GiveUp(u), c)
      BY <1>5, GiveUpIs
    <3> QED BY <3>1, <3>2 DEF u, F
  <2>4. CASE u.synCount # 0
    <3> DEFINE k == [u EXCEPT !.synCount = @ - 1]
    <3>1. t = SendFlags(k, F)
      BY <1>3, <2>2, <2>4 DEF SendEmptyPacket, CountSyn
    <3> HIDE DEF t
    <3>2. Only(u, k, {"synCount"}) /\ k.synCount \in 0 .. SynRetries
      BY <1>2, <2>2, <2>4, ConnectionAssumption DEF Only, SockFields
    <3> HIDE DEF k
    <3>3. Typed(k)
      <4>1. Only(u, k, Aside)
        BY <3>2 DEF Only, Aside, SockFields
      <4>2. /\ k.dataRetrCount \in 0 .. DataRetries /\ k.high \in Nat
            /\ k.delAckTimer \in BOOLEAN
        BY <1>4, <3>2, TypedFields DEF Typed, Only, SockFields
      <4> QED BY <1>4, <3>2, <4>1, <4>2, StaysTyped
    <3>4. /\ Only(k, t, {"out", "delAckTimer", "delAckCount", "retx"})
          /\ t.out = k.out \union {Packet(k, F)} /\ t.delAckTimer \in BOOLEAN
          /\ t.retx = IF k.retx = {} THEN F ELSE k.retx
      BY <1>3, <3>1, <3>3, SendFlagsIs
    <3>5. Basic(k, c)
      BY <1>5, <3>2, <3>3 DEF Basic, Only, SockFields, NoTimers
    <3>6. /\ Segment(Packet(k, F)) /\ ("low" \in c => Packet(k, F).ack <= 1)
          /\ Vouches(Packet(k, F)) => s.rx.next >= 1
      <4>1. k.rx = s.rx
        BY <1>2, <3>2 DEF Only, SockFields
      <4> QED BY <1>3, <3>5, <4>1, PacketIs
    <3>7. /\ Only(s, t, {"out", "delAckTimer", "delAckCount", "retx", "synCount"})
          /\ t.out = s.out \union {Packet(k, F)} /\ t.retx = F
          /\ t.synCount \in 0 .. SynRetries
      BY <1>2, <3>2, <3>4 DEF Only, SockFields
    <3>8. \A g \in t.out : /\ Segment(g) /\ ("low" \in c => g.ack <= 1)
                           /\ Vouches(g) => s.rx.next >= 1
      BY <1>1, <3>6, <3>7 DEF Basic
    <3>9. Good(t, c)
      BY <1>3, <1>7, <2>1, <3>4, <3>7, <3>8, RepeatIs
    <3> QED BY <3>9 DEF t, u, F
  <2> QED BY <2>3, <2>4
<1> QED BY <1>6, <1>7

\* A FIN is repeated.
LEMMA FinAgainIs ==
    ASSUME NEW c, "rcvd" \notin c, NEW s, Good(s, c), s.endPoint,
           ~Young(s, c), ~Running(s, c), NEW F \in {{"FIN"}, {"FIN", "ACK"}}
    PROVE  Good(SendEmptyPacket([s EXCEPT !.retx = {}], F), c)
<1> DEFINE u == [s EXCEPT !.retx = {}]
           t == SendEmptyPacket(u, F)
<1>1. Basic(s, c) /\ Typed(s) /\ DOMAIN s = SockFields /\ Live(s, c)
  BY DEF Good, Basic, Typed
<1>2. Only(s, u, {"retx"}) /\ u.retx = {}
  BY <1>1 DEF Only, SockFields
<1> HIDE DEF u
<1>3. Typed(u)
  <2>1. \A f \in {"endPoint", "sent", "closeOnEmpty", "shutdownSend", "delAckTimer",
                  "lastAck", "timeWait", "pending", "closing"} : u[f] \in BOOLEAN
    BY <1>1, <1>2, TypedFields DEF Only, SockFields
  <2> QED BY <1>1, <1>2, <2>1 DEF Typed, Only, SockFields, Timers
<1>4. Basic(u, c)
  BY <1>1, <1>2, <1>3 DEF Basic, Only, SockFields, NoTimers
<1>5. /\ Only(u, t, {"out", "delAckTimer", "delAckCount", "retx"})
      /\ t.delAckTimer \in BOOLEAN
      /\ IF u.endPoint
         THEN t.retx = IF u.retx = {} THEN {"FIN", "ACK"} ELSE u.retx
         ELSE t = u
      /\ \A g \in t.out : /\ Segment(g) /\ ("low" \in c => g.ack <= 1)
                          /\ Vouches(g) => u.rx.next >= 1
  <2>1. u.state # "SYN_SENT"
    BY <1>2 DEF Young, Only, SockFields
  <2> QED BY <1>4, <2>1, FinOut
<1> HIDE DEF t
<1>6. /\ Only(s, t, {"out", "delAckTimer", "delAckCount", "retx", "synCount"})
      /\ t.retx = {"FIN", "ACK"} /\ t.synCount = s.synCount
  BY <1>2, <1>5 DEF Only, SockFields
<1>9. u.rx = s.rx
  BY <1>2 DEF Only, SockFields
<1>7. t.retx \in Timers /\ t.retx # {} /\ t.retx # {"DATA"}
      /\ t.synCount \in 0 .. SynRetries
  BY <1>1, <1>6 DEF Timers, Typed
<1>8. Good(t, c)
  BY <1>5, <1>6, <1>7, <1>9, RepeatIs
<1> QED BY <1>8 DEF t, u

\* The error that ends retransmission.
LEMMA ErrorIs ==
    ASSUME NEW c, NEW s, Basic(s, c)
    PROVE  Good(DeallocateEndPoint(Tell(s, "error")), c)
<1> DEFINE v == Tell(s, "error")
<1>1. Typed(s) /\ DOMAIN s = SockFields
  BY DEF Basic, Typed
<1>2. Only(s, v, {"told"}) /\ v.told = s.told \union {"error"}
  BY <1>1, TellIs
<1> HIDE DEF v
<1>3. Typed(v)
  <2>1. Only(s, v, Aside)
    BY <1>2 DEF Only, Aside, SockFields
  <2>2. /\ v.synCount \in 0 .. SynRetries /\ v.dataRetrCount \in 0 .. DataRetries
        /\ v.high \in Nat /\ v.delAckTimer \in BOOLEAN
    BY <1>1, <1>2, TypedFields DEF Typed, Only, SockFields
  <2> QED BY <1>1, <2>1, <2>2, StaysTyped
<1>4. Good(DeallocateEndPoint(v), c)
  <2>1. (~v.endPoint => NoTimers(v)) /\ Steady(v, c) /\ v.told # {}
    BY <1>2 DEF Basic, Steady, NoTimers, Only, SockFields, Tidings
  <2> QED BY <1>3, <2>1, DeadIsGood
<1> QED BY <1>4 DEF v

\* ReTxTimeout repeats what the state waits for, or gives up.
LEMMA ReTxTimeoutIs ==
    ASSUME NEW c, Serving(c), "rcvd" \notin c, NEW s, Good(s, c), s.endPoint,
           s.retx = {"DATA"}
    PROVE  Good(ReTxTimeout([s EXCEPT !.retx = {}]), c)
<1> DEFINE u == [s EXCEPT !.retx = {}]
           t == ReTxTimeout(u)
<1>1. Basic(s, c) /\ Typed(s) /\ DOMAIN s = SockFields /\ Live(s, c)
      /\ s.state # "CLOSED"
  BY DEF Good, Basic, Typed
<1>2. Only(s, u, {"retx"}) /\ u.retx = {}
  BY <1>1 DEF Only, SockFields
<1>3. ~Young(s, c) /\ s.state \notin Attempting
  <2>1. {"DATA"} \notin Syn
    BY DEF Syn
  <2> QED BY <1>1, <2>1 DEF Live, TimersRun, Young, Attempting
<1>4. CASE s.size = 0 /\ s.state \in {"FIN_WAIT_1", "CLOSING"}
  <2>1. t = SendEmptyPacket(u, {"FIN"})
    BY <1>2, <1>4 DEF ReTxTimeout, Only, SockFields
  <2>2. ~Running(s, c)
    BY <1>4 DEF Running
  <2>3. Good(SendEmptyPacket(u, {"FIN"}), c)
    BY <1>3, <2>2, FinAgainIs
  <2> QED BY <2>1, <2>3
<1> HIDE DEF u
<1>5. Typed(u)
  <2>1. \A f \in {"endPoint", "sent", "closeOnEmpty", "shutdownSend", "delAckTimer",
                  "lastAck", "timeWait", "pending", "closing"} : u[f] \in BOOLEAN
    BY <1>1, <1>2, TypedFields DEF Only, SockFields
  <2> QED BY <1>1, <1>2, <2>1 DEF Typed, Only, SockFields, Timers
<1>6. Basic(u, c)
  BY <1>1, <1>2, <1>5 DEF Basic, Only, SockFields, NoTimers
<1>7. CASE s.state = "TIME_WAIT" \/ (s.size = 0 /\ s.state \notin {"FIN_WAIT_1", "CLOSING"})
  <2>1. t = u
    BY <1>1, <1>2, <1>3, <1>7 DEF ReTxTimeout, Only, SockFields, Attempting
  <2>2. TimersRun(u, c)
    <3>1. s.state = "LAST_ACK" => s.lastAck
      BY <1>1, <1>7 DEF Live, TimersRun, Serving, DataTimed
    <3> QED BY <1>1, <1>2, <1>3, <1>7, <3>1
            DEF Live, TimersRun, Young, Running, Idle, Only, SockFields
  <2>3. Live(u, c)
    BY <1>1, <1>2, <2>2 DEF Live, Young, Silent, Only, SockFields
  <2> QED BY <1>6, <2>1, <2>3 DEF Good, u
<1>8. CASE s.size # 0 /\ s.state # "TIME_WAIT"
  <2>0. s.size = 1 /\ u.size = 1 /\ u.dataRetrCount \in 0 .. DataRetries
    BY <1>1, <1>2, <1>8 DEF Typed, Only, SockFields
  <2>1. CASE u.dataRetrCount = 0
    <3>1. t = DeallocateEndPoint(Tell(u, "error"))
      BY <1>1, <1>2, <1>3, <1>8, <2>0, <2>1 DEF ReTxTimeout, Only, SockFields, Attempting
    <3> QED BY <1>6, <3>1, ErrorIs DEF u
  <2>2. CASE u.dataRetrCount # 0
    <3> DEFINE v == [u EXCEPT !.dataRetrCount = @ - 1]
    <3>1. t = SendDataPacket(v)
      BY <1>1, <1>2, <1>3, <1>8, <2>0, <2>2 DEF ReTxTimeout, Only, SockFields, Attempting
    <3>2. Only(u, v, {"dataRetrCount"}) /\ v.dataRetrCount \in 0 .. DataRetries
      BY <1>2, <2>0, <2>2, ConnectionAssumption DEF Only, SockFields
    <3> HIDE DEF v
    <3>3. Only(s, v, {"dataRetrCount", "retx"}) /\ v.retx = {}
      BY <1>2, <3>2 DEF Only, SockFields
    <3>4. Typed(v)
      <4>1. Only(u, v, Aside)
        BY <3>2 DEF Only, Aside, SockFields
      <4>2. /\ v.synCount \in 0 .. SynRetries /\ v.high \in Nat
            /\ v.delAckTimer \in BOOLEAN
        BY <1>5, <3>2, TypedFields DEF Typed, Only, SockFields
      <4> QED BY <1>5, <3>2, <4>1, <4>2, StaysTyped
    <3>5. Basic(v, c) /\ v.endPoint /\ v.size = 1
      BY <1>1, <2>0, <3>3, <3>4 DEF Basic, Only, SockFields, NoTimers
    <3>6. v.head = 1 /\ ~Young(v, c)
      BY <1>1, <1>3, <2>0, <3>3 DEF Live, Young, Only, SockFields
    <3>7. /\ Running(v, c) => Idle(v)
          /\ v.state = "TIME_WAIT" => v.timeWait
          /\ v.lastAck => v.state = "LAST_ACK"
          /\ v.state \in {"FIN_WAIT_1", "FIN_WAIT_2"} => v.closing \/ v.shutdownSend
      BY <1>1, <3>3 DEF Live, TimersRun, Idle, Only, SockFields
    <3>8. Good(SendDataPacket(v), c)
      BY <3>5, <3>6, <3>7, DataGoes
    <3> QED BY <3>1, <3>8 DEF u
  <2> QED BY <2>1, <2>2
<1> QED BY <1>1, <1>4, <1>7, <1>8

\* The retransmission timer expires.
LEMMA RetxExpiresIs ==
    ASSUME NEW c, Serving(c), "rcvd" \notin c, NEW s, Good(s, c), s.retx # {}
    PROVE  Good(RetxExpires(s), c)
<1>1. s.endPoint /\ s.retx \in Timers /\ Live(s, c)
  BY DEF Good, Basic, Typed, NoTimers
<1>2. CASE s.retx = {"DATA"}
  <2>1. RetxExpires(s) = ReTxTimeout([s EXCEPT !.retx = {}])
    BY <1>2 DEF RetxExpires
  <2> QED BY <1>1, <1>2, <2>1, ReTxTimeoutIs
<1>3. CASE s.retx \in Syn
  <2>1. s.retx # {"DATA"}
    BY <1>3 DEF Syn
  <2>2. RetxExpires(s) = SendEmptyPacket([s EXCEPT !.retx = {}], s.retx)
    BY <2>1 DEF RetxExpires
  <2> QED BY <1>1, <1>3, <2>2, SynAgainIs
<1>4. CASE s.retx = {"FIN", "ACK"}
  <2>1. s.retx # {"DATA"} /\ s.retx \notin Syn
    BY <1>4 DEF Syn
  <2>2. RetxExpires(s) = SendEmptyPacket([s EXCEPT !.retx = {}], {"FIN", "ACK"})
    BY <1>4, <2>1 DEF RetxExpires
  <2>3. ~Young(s, c) /\ ~Running(s, c)
    BY <1>1, <1>4, <2>1 DEF Live, TimersRun, Idle
  <2> QED BY <1>1, <2>2, <2>3, FinAgainIs
<1> QED BY <1>1, <1>2, <1>3, <1>4 DEF Timers, Syn

\* The LAST_ACK timer expires: the FIN is repeated or the connection given up.
LEMMA LastAckTimeoutIs ==
    ASSUME NEW c, Serving(c), "rcvd" \notin c, NEW s, Good(s, c), s.lastAck
    PROVE  Good(LastAckTimeout([s EXCEPT !.lastAck = FALSE]), c)
<1> DEFINE u == [s EXCEPT !.lastAck = FALSE]
           t == LastAckTimeout(u)
<1>1. Basic(s, c) /\ Typed(s) /\ DOMAIN s = SockFields /\ Live(s, c)
      /\ s.endPoint /\ s.state = "LAST_ACK" /\ s.dataRetrCount \in 0 .. DataRetries
  BY DEF Good, Basic, Typed, NoTimers, Live, TimersRun
<1>2. Only(s, u, {"lastAck"}) /\ u.lastAck = FALSE
  BY <1>1 DEF Only, SockFields
<1> HIDE DEF u
<1>3. Typed(u)
  <2>1. \A f \in {"endPoint", "sent", "closeOnEmpty", "shutdownSend", "delAckTimer",
                  "lastAck", "timeWait", "pending", "closing"} : u[f] \in BOOLEAN
    BY <1>1, <1>2, TypedFields DEF Only, SockFields
  <2> QED BY <1>1, <1>2, <2>1 DEF Typed, Only, SockFields
<1>4. Basic(u, c) /\ u.state = "LAST_ACK" /\ u.dataRetrCount = s.dataRetrCount
  BY <1>1, <1>2, <1>3 DEF Basic, Only, SockFields, NoTimers
<1>5. CASE u.dataRetrCount = 0
  <2>1. t = DeallocateEndPoint(Tell(u, "error"))
    BY <1>4, <1>5 DEF LastAckTimeout
  <2> QED BY <1>4, <2>1, ErrorIs DEF u
<1>6. CASE u.dataRetrCount # 0
  <2> DEFINE v == [u EXCEPT !.dataRetrCount = @ - 1]
             w == SendEmptyPacket(v, {"FIN", "ACK"})
  <2>1. t = [w EXCEPT !.lastAck = TRUE]
    BY <1>4, <1>6 DEF LastAckTimeout
  <2> HIDE DEF t
  <2>2. Only(u, v, {"dataRetrCount"}) /\ v.dataRetrCount \in 0 .. DataRetries
    BY <1>1, <1>2, <1>4, <1>6, ConnectionAssumption DEF Only, SockFields
  <2> HIDE DEF v
  <2>3. Typed(v)
    <3>1. Only(u, v, Aside)
      BY <2>2 DEF Only, Aside, SockFields
    <3>2. /\ v.synCount \in 0 .. SynRetries /\ v.high \in Nat
          /\ v.delAckTimer \in BOOLEAN
      BY <1>3, <2>2, TypedFields DEF Typed, Only, SockFields
    <3> QED BY <1>3, <2>2, <3>1, <3>2, StaysTyped
  <2>4. Basic(v, c)
    BY <1>4, <2>2, <2>3 DEF Basic, Only, SockFields, NoTimers
  <2>5. Only(s, v, {"lastAck", "dataRetrCount"})
    BY <1>2, <2>2 DEF Only, SockFields
  <2>6. /\ Only(v, w, {"out", "delAckTimer", "delAckCount", "retx"})
        /\ w.delAckTimer \in BOOLEAN
        /\ IF v.endPoint
           THEN w.retx = IF v.retx = {} THEN {"FIN", "ACK"} ELSE v.retx
           ELSE w = v
        /\ \A g \in w.out : /\ Segment(g) /\ ("low" \in c => g.ack <= 1)
                            /\ Vouches(g) => v.rx.next >= 1
    <3>1. v.state # "SYN_SENT"
      BY <1>1, <2>5 DEF Only, SockFields
    <3> QED BY <2>4, <3>1, FinOut
  <2> HIDE DEF w
  <2>7. Only(w, t, {"lastAck"}) /\ t.lastAck = TRUE
    BY <2>1, <2>6 DEF Only, SockFields
  <2>8. /\ Only(s, t, {"lastAck", "dataRetrCount", "out", "delAckTimer", "delAckCount",
                       "retx"})
        /\ t.out = w.out /\ t.delAckTimer \in BOOLEAN
        /\ t.dataRetrCount \in 0 .. DataRetries
        /\ t.retx = (IF s.retx = {} THEN {"FIN", "ACK"} ELSE s.retx)
    BY <1>1, <2>2, <2>5, <2>6, <2>7 DEF Only, SockFields
  <2>9. t.retx \in Timers
    BY <1>1, <2>8 DEF Typed, Timers
  <2>10. \A f \in {"endPoint", "sent", "closeOnEmpty", "shutdownSend", "delAckTimer",
                   "lastAck", "timeWait", "pending", "closing"} : t[f] \in BOOLEAN
    <3>1. /\ t.endPoint = s.endPoint /\ t.sent = s.sent /\ t.closeOnEmpty = s.closeOnEmpty
          /\ t.shutdownSend = s.shutdownSend /\ t.closing = s.closing
          /\ t.timeWait = s.timeWait /\ t.pending = s.pending
      BY <2>8 DEF Only, SockFields
    <3> QED BY <1>1, <2>7, <2>8, <3>1, TypedFields
  <2>11. Typed(t)
    BY <1>1, <2>8, <2>9, <2>10 DEF Typed, Only, SockFields
  <2>12. Basic(t, c)
    <3>1. t.endPoint /\ t.state = "LAST_ACK" /\ t.rx = s.rx
          /\ t.closeOnEmpty = s.closeOnEmpty /\ t.closing = s.closing
          /\ t.shutdownSend = s.shutdownSend /\ v.rx = s.rx
          /\ t.told = s.told /\ t.connected = s.connected
      BY <1>1, <2>5, <2>8 DEF Only, SockFields
    <3>2. \A g \in t.out : /\ Segment(g) /\ ("low" \in c => g.ack <= 1)
                           /\ Vouches(g) => t.rx.next >= 1
      <4>1. t.out = w.out /\ t.rx = v.rx
        BY <2>8, <3>1
      <4> QED BY <2>6, <4>1
    <3> QED BY <1>1, <2>11, <3>1, <3>2 DEF Basic, Serving, Attempting
  <2>13. TimersRun(t, c)
    BY <1>1, <2>7, <2>8 DEF TimersRun, Young, Running, Only, SockFields
  <2>14. Live(t, c)
    BY <1>1, <2>8, <2>13 DEF Live, Young, Silent, Only, SockFields
  <2> QED BY <2>12, <2>14 DEF Good, t, u
<1> QED BY <1>5, <1>6

\* The delayed ACK goes.
LEMMA DelAckIs ==
    ASSUME NEW c, NEW s, Good(s, c)
    PROVE  Good(SendEmptyPacket([s EXCEPT !.delAckTimer = FALSE, !.delAckCount = 0],
                                {"ACK"}), c)
<1> DEFINE u == [s EXCEPT !.delAckTimer = FALSE, !.delAckCount = 0]
<1>1. Typed(s) /\ DOMAIN s = SockFields
  BY DEF Good, Basic, Typed
<1>2. Only(s, u, {"delAckTimer", "delAckCount"}) /\ u.delAckTimer = FALSE
  BY <1>1 DEF Only, SockFields
<1> HIDE DEF u
<1>3. /\ Only(s, u, Aside) /\ u.out = s.out /\ u.told = s.told
      /\ u.synCount \in 0 .. SynRetries /\ u.dataRetrCount \in 0 .. DataRetries
      /\ u.high \in Nat /\ u.delAckTimer \in BOOLEAN /\ (~s.endPoint => ~u.delAckTimer)
  BY <1>1, <1>2 DEF Only, Aside, SockFields, Typed
<1>4. Good(u, c)
  BY <1>3, StaysGood DEF Good, Basic
<1>5. Good(SendEmptyPacket(u, {"ACK"}), c)
  BY <1>4, AckGoes
<1> QED BY <1>5 DEF u

\* TIME_WAIT is over.
LEMMA TimeWaitOverIs ==
    ASSUME NEW c, NEW s, Good(s, c)
    PROVE  Good(CloseAndNotify([s EXCEPT !.timeWait = FALSE]), c)
<1> DEFINE u == [s EXCEPT !.timeWait = FALSE]
<1>1. Basic(s, c) /\ Typed(s) /\ DOMAIN s = SockFields
  BY DEF Good, Basic, Typed
<1>2. Only(s, u, {"timeWait"}) /\ u.timeWait = FALSE
  BY <1>1 DEF Only, SockFields
<1> HIDE DEF u
<1>3. Typed(u)
  <2>1. \A f \in {"endPoint", "sent", "closeOnEmpty", "shutdownSend", "delAckTimer",
                  "lastAck", "timeWait", "pending", "closing"} : u[f] \in BOOLEAN
    BY <1>1, <1>2, TypedFields DEF Only, SockFields
  <2> QED BY <1>1, <1>2, <2>1 DEF Typed, Only, SockFields
<1>4. Basic(u, c)
  BY <1>1, <1>2, <1>3 DEF Basic, Only, SockFields, NoTimers
<1> QED BY <1>4, CloseAndNotifyIs DEF u

\* The event that sends pending data.
LEMMA PendingIs ==
    ASSUME NEW c, "rcvd" \notin c, NEW s, Good(s, c), s.pending
    PROVE  Good(SendPendingData([s EXCEPT !.pending = FALSE]), c)
<1> DEFINE u == [s EXCEPT !.pending = FALSE]
<1>1. Basic(s, c) /\ Typed(s) /\ DOMAIN s = SockFields
  BY DEF Good, Basic, Typed
<1>2. Only(s, u, {"pending"}) /\ u.pending = FALSE
  BY <1>1 DEF Only, SockFields
<1> HIDE DEF u
<1>3. Typed(u)
  <2>1. \A f \in {"endPoint", "sent", "closeOnEmpty", "shutdownSend", "delAckTimer",
                  "lastAck", "timeWait", "pending", "closing"} : u[f] \in BOOLEAN
    BY <1>1, <1>2, TypedFields DEF Only, SockFields
  <2> QED BY <1>1, <1>2, <2>1 DEF Typed, Only, SockFields
<1>4. Basic(u, c)
  BY <1>1, <1>2, <1>3 DEF Basic, Only, SockFields, NoTimers
<1>5. ASSUME u.endPoint PROVE Live(u, c) /\ ~Young(u, c)
  <2>1. Live(s, c) /\ ~Young(s, c)
    BY <1>2, <1>5 DEF Good, Live, Only, SockFields
  <2>2. TimersRun(u, c)
    BY <2>1, <1>2 DEF Live, TimersRun, Young, Running, Idle, DataTimed, Only, SockFields
  <2> QED BY <2>1, <2>2, <1>2 DEF Live, Young, Silent, Only, SockFields
<1>6. Good(u, c) /\ (u.endPoint => ~Young(u, c))
  BY <1>4, <1>5 DEF Good
<1>7. Good(SendPendingData(u), c)
  BY <1>6, SendPendingIs
<1> QED BY <1>7 DEF u

-----------------------------------------------------------------------------
(***************************************************************************)
(* The application.                                                        *)
(***************************************************************************)
\* The application learns that it is connected.
LEMMA SucceededIs ==
    ASSUME NEW c, NEW s, Good(s, c)
    PROVE  Good([Tell(s, "connected") EXCEPT !.announce = FALSE], c)
<1> DEFINE v == Tell(s, "connected")
           t == [v EXCEPT !.announce = FALSE]
<1>1. Good(v, c) /\ Only(s, v, {"told"})
  BY TellGood DEF Tidings
<1> HIDE DEF v
<1>2. Typed(v) /\ DOMAIN v = SockFields /\ (~v.endPoint => ~v.delAckTimer)
  BY <1>1 DEF Good, Basic, Typed, NoTimers
<1>3. Only(v, t, {"announce"})
  BY <1>2 DEF Only, SockFields
<1> HIDE DEF t
<1>4. /\ Only(v, t, Aside) /\ t.out = v.out /\ t.told = v.told
      /\ t.synCount \in 0 .. SynRetries /\ t.dataRetrCount \in 0 .. DataRetries
      /\ t.high \in Nat /\ t.delAckTimer \in BOOLEAN /\ (~v.endPoint => ~t.delAckTimer)
  BY <1>2, <1>3, TypedFields DEF Only, Aside, SockFields, Typed
<1>5. Good(t, c)
  BY <1>1, <1>4, StaysGood DEF Good, Basic
<1> QED BY <1>5 DEF t, v

\* The application writes; in the mode it runs in, it had not written.
LEMMA SendIs ==
    ASSUME NEW c, "rcvd" \notin c, "writes" \in c, NEW s, Good(s, c), ~s.closing,
           s.wrote = 0, s.state \in {"ESTABLISHED", "SYN_SENT", "CLOSE_WAIT"}
    PROVE  Good([s EXCEPT !.size = 1, !.wrote = 1,
                          !.pending = s.state # "SYN_SENT" /\ ~s.shutdownSend], c)
<1> DEFINE t == [s EXCEPT !.size = 1, !.wrote = 1,
                          !.pending = s.state # "SYN_SENT" /\ ~s.shutdownSend]
<1>1. Basic(s, c) /\ Typed(s) /\ DOMAIN s = SockFields /\ ~s.sent
  BY TypedFields DEF Good, Basic, Typed
<1>2. Only(s, t, {"size", "wrote", "pending"}) /\ t.size = 1 /\ t.wrote = 1
      /\ t.pending \in BOOLEAN /\ (s.state = "SYN_SENT" => ~t.pending)
  BY <1>1 DEF Only, SockFields
<1> HIDE DEF t
<1>3. Typed(t)
  <2>1. \A f \in {"endPoint", "sent", "closeOnEmpty", "shutdownSend", "delAckTimer",
                  "lastAck", "timeWait", "pending", "closing"} : t[f] \in BOOLEAN
    BY <1>1, <1>2, TypedFields DEF Only, SockFields
  <2> QED BY <1>1, <1>2, <2>1 DEF Typed, Only, SockFields
<1>4. Basic(t, c)
  BY <1>1, <1>2, <1>3 DEF Basic, Only, SockFields, NoTimers
<1>5. ASSUME t.endPoint PROVE Live(t, c)
  <2>1. Live(s, c)
    BY <1>2, <1>5 DEF Good, Only, SockFields
  <2>2. TimersRun(t, c)
    BY <2>1, <1>1, <1>2 DEF Live, TimersRun, Young, Running, Idle, Only, SockFields
  <2>3. Silent(s)
    BY DEF Silent
  <2> QED BY <2>1, <2>2, <2>3, <1>2 DEF Live, Young, Silent, Only, SockFields
<1> QED BY <1>4, <1>5 DEF Good, t

\* ShutdownSend, with the FIN now or when the buffer is empty.
LEMMA ShutdownIs ==
    ASSUME NEW c, Serving(c), "rcvd" \notin c, NEW s, Good(s, c), ~s.closing
    PROVE  Good(Shutdown([s EXCEPT !.shutdownSend = TRUE, !.closeOnEmpty = TRUE]), c)
<1> DEFINE a == [s EXCEPT !.shutdownSend = TRUE, !.closeOnEmpty = TRUE]
<1>1. Basic(s, c) /\ Typed(s) /\ DOMAIN s = SockFields
  BY DEF Good, Basic, Typed
<1>2. Only(s, a, {"shutdownSend", "closeOnEmpty"}) /\ a.shutdownSend = TRUE
      /\ a.closeOnEmpty = TRUE
  BY <1>1 DEF Only, SockFields
<1> HIDE DEF a
<1>3. \A f \in {"endPoint", "sent", "closeOnEmpty", "shutdownSend", "delAckTimer",
                "lastAck", "timeWait", "pending", "closing"} : a[f] \in BOOLEAN
  BY <1>1, <1>2, TypedFields DEF Only, SockFields
<1>4. Typed(a)
  BY <1>1, <1>2, <1>3 DEF Typed, Only, SockFields
<1>5. Basic(a, c)
  BY <1>1, <1>2, <1>4 DEF Basic, Only, SockFields, NoTimers
<1>6. ASSUME a.endPoint PROVE Live(a, c)
  <2>1. Live(s, c)
    BY <1>2, <1>6 DEF Good, Only, SockFields
  <2>2. TimersRun(a, c)
    BY <2>1, <1>2 DEF Live, TimersRun, Young, Running, Idle, DataTimed, Only, SockFields
  <2> QED BY <2>1, <2>2, <1>2 DEF Live, Young, Silent, Only, SockFields
<1>7. Good(a, c)
  BY <1>5, <1>6 DEF Good
<1>8. CASE a.size = 0 /\ a.state = "ESTABLISHED"
  <2>1. Shutdown(a) = [SendEmptyPacket(a, {"FIN"}) EXCEPT !.state = "FIN_WAIT_1"]
    BY <1>8 DEF Shutdown
  <2>2. Good([SendEmptyPacket(a, {"FIN"}) EXCEPT !.state = "FIN_WAIT_1"], c)
    <3> DEFINE q == "FIN_WAIT_1"
    <3>1. /\ a.state \in {"SYN_RCVD", "ESTABLISHED", "CLOSE_WAIT"}
          /\ a.closing \/ a.shutdownSend
          /\ a.size = 1 => ~Young(a, c)
          /\ {"FIN"} \in {{"FIN"}, {"FIN", "ACK"}} /\ q \in {"FIN_WAIT_1", "LAST_ACK"}
          /\ q # "LAST_ACK"
      BY <1>2, <1>8
    <3> HIDE DEF q
    <3>2. Good([SendEmptyPacket(a, {"FIN"}) EXCEPT !.state = q], c)
      BY <1>7, <3>1, FinState
    <3> QED BY <3>2 DEF q
  <2> QED BY <2>1, <2>2 DEF a
<1>9. CASE a.size = 0 /\ a.state = "CLOSE_WAIT"
  <2>1. Shutdown(a) = [SendEmptyPacket(a, {"FIN"}) EXCEPT !.state = "LAST_ACK"]
    BY <1>9 DEF Shutdown
  <2>2. a.endPoint => Idle(a)
    <3>1. ~a.closing
      BY <1>2 DEF Only, SockFields
    <3> QED BY <1>6, <1>9, <3>1 DEF Live, TimersRun, Running
  <2>3. Good([SendEmptyPacket(a, {"FIN"}) EXCEPT !.state = "LAST_ACK"], c)
    <3> DEFINE q == "LAST_ACK"
    <3>1. /\ a.state \in {"SYN_RCVD", "ESTABLISHED", "CLOSE_WAIT"}
          /\ a.closing \/ a.shutdownSend
          /\ a.size = 1 => ~Young(a, c)
          /\ {"FIN"} \in {{"FIN"}, {"FIN", "ACK"}} /\ q \in {"FIN_WAIT_1", "LAST_ACK"}
      BY <1>2, <1>9
    <3> HIDE DEF q
    <3>2. Good([SendEmptyPacket(a, {"FIN"}) EXCEPT !.state = q], c)
      BY <1>7, <2>2, <3>1, FinState
    <3> QED BY <3>2 DEF q
  <2> QED BY <2>1, <2>3 DEF a
<1>10. CASE ~(a.size = 0 /\ a.state \in {"ESTABLISHED", "CLOSE_WAIT"})
  <2>1. Shutdown(a) = a
    BY <1>10 DEF Shutdown
  <2> QED BY <1>7, <2>1 DEF a
<1> QED BY <1>8, <1>9, <1>10

-----------------------------------------------------------------------------
(***************************************************************************)
(* The invariant.                                                          *)
(***************************************************************************)
\* A socket before it is used; B's is bound if it is to connect.
Bound == [Socket EXCEPT !.endPoint = TRUE]
Fresh(s) == s \in {Socket, Bound}

\* Who has not written and may still write.
Unwritten(s) == Fresh(s) \/ (s.endPoint /\ Silent(s))

\* The mode between two steps.
Rest(h) == {x \in {"writes", "quiet", "met"} : x = "writes" => h \in Writers}

\* The mode in which the handlers of h run.
Mode(h) ==
    {x \in {"writes", "quiet", "low", "met", "begun"} :
        /\ x = "writes" => h \in Writers
        /\ x = "quiet" => (h \in Writers => Unwritten(sock[h]))
        /\ x = "low" => Peer(h) \in Writers /\ Unwritten(sock[Peer(h)])
        /\ x = "met" => sock[Peer(h)].rx.next >= 1
        /\ x = "begun" => sock[h].rx.next >= 1}

\* Each socket is unused or satisfies its invariant.
Sockets ==
    /\ sock = [h \in Hosts |-> sock[h]]
    /\ \A h \in Hosts : Fresh(sock[h]) \/ (sock[h].out = {} /\ Good(sock[h], Rest(h)))

\* Segments are addressed to hosts.
Underway == \A m \in net : m.to \in Hosts /\ Segment(m.seg)

\* Before a host writes, nobody acknowledges or receives more of it than its SYN.
Heard ==
    \A h \in Hosts : h \in Writers /\ Unwritten(sock[h]) =>
        /\ \A m \in net : m.to = h => m.seg.ack <= 1
        /\ \A m \in net : m.to = Peer(h) => Unheard(m.seg)
        /\ sock[Peer(h)].rx.next <= 1 /\ ~sock[Peer(h)].rx.gotFin

\* Who is connected, or vouches for it in a segment, has been heard.
Met == \A h \in Hosts : sock[h].connected => sock[Peer(h)].rx.next >= 1

Vouched == \A m \in net : Vouches(m.seg) => sock[Peer(m.to)].rx.next >= 1

\* The bound on the sockets forked; before the first, a listener's is the initial one.
OnceOnly ==
    /\ DOMAIN forks = {"scheduled", "run"}
    /\ forks.scheduled \in Nat /\ forks.run \in Nat
    /\ forks.scheduled + forks.run <= MaxForks
    /\ "B" \in Writers /\ (listening \/ forks.scheduled > 0) /\ forks.run = 0
         => sock["B"] = Socket

\* The inductive invariant.
ConnectionInv == Sockets /\ Underway /\ Heard /\ Met /\ Vouched /\ OnceOnly

\* A listener whose connections are written to accepts one.
OneLife == "B" \in Writers => MaxForks <= 1

\* There are two hosts.
LEMMA PeerIs ==
    \A h \in Hosts : Peer(h) \in Hosts /\ Peer(h) # h /\ Peer(Peer(h)) = h
                     /\ \A k \in Hosts : k = h \/ k = Peer(h)
BY DEF Hosts, Peer

\* The fields of a socket that has not been used.
LEMMA FreshIs ==
    ASSUME NEW s, Fresh(s)
    PROVE  /\ DOMAIN s = SockFields /\ s.state = "CLOSED" /\ s.told = {} /\ s.out = {}
           /\ NoTimers(s) /\ s.size = 0 /\ ~s.pending /\ ~s.announce /\ ~s.closing
           /\ s.wrote = 0 /\ ~s.sent /\ ~s.closeOnEmpty /\ ~s.shutdownSend
           /\ ~s.connected /\ s.got = 0
           /\ s.next = 0 /\ s.high = 0 /\ s.head = 0 /\ s.delAckCount = 0
           /\ s.synCount = 0 /\ s.dataRetrCount = 0 /\ s.endPoint \in BOOLEAN
           /\ s.rx = RxBuffer
           /\ s.endPoint => s = Bound
           /\ ~s.endPoint => s = Socket
<1>1. DOMAIN Socket = SockFields /\ Socket.endPoint = FALSE
  BY DEF Socket, SockFields
<1>2. Only(Socket, Bound, {"endPoint"}) /\ Bound.endPoint = TRUE
  BY <1>1 DEF Bound, Only, SockFields
<1>3. Only(Socket, s, {"endPoint"}) /\ s.endPoint \in BOOLEAN
  BY <1>1, <1>2 DEF Fresh, Only
<1>4. /\ s.endPoint => s = Bound
      /\ ~s.endPoint => s = Socket
  BY <1>1, <1>2 DEF Fresh
<1>5. /\ Socket.state = "CLOSED" /\ Socket.told = {} /\ Socket.out = {}
      /\ Socket.retx = {} /\ ~Socket.lastAck /\ ~Socket.timeWait
      /\ ~Socket.delAckTimer /\ Socket.size = 0 /\ ~Socket.pending
      /\ ~Socket.announce /\ ~Socket.closing /\ Socket.wrote = 0 /\ ~Socket.sent
      /\ ~Socket.closeOnEmpty /\ ~Socket.shutdownSend /\ ~Socket.connected
      /\ Socket.got = 0
  BY DEF Socket
<1>6. /\ Socket.next = 0 /\ Socket.high = 0 /\ Socket.head = 0
      /\ Socket.delAckCount = 0 /\ Socket.synCount = 0 /\ Socket.dataRetrCount = 0
      /\ Socket.rx = RxBuffer
  BY DEF Socket
<1>7. /\ s.state = "CLOSED" /\ s.told = {} /\ s.out = {}
      /\ NoTimers(s) /\ s.size = 0 /\ ~s.pending /\ ~s.announce /\ ~s.closing
      /\ s.wrote = 0 /\ ~s.sent /\ ~s.closeOnEmpty /\ ~s.shutdownSend
      /\ ~s.connected /\ s.got = 0
  BY <1>3, <1>5 DEF Only, SockFields, NoTimers
<1>8. /\ s.next = 0 /\ s.high = 0 /\ s.head = 0 /\ s.delAckCount = 0
      /\ s.synCount = 0 /\ s.dataRetrCount = 0 /\ s.rx = RxBuffer
  BY <1>3, <1>6 DEF Only, SockFields
<1> QED BY <1>3, <1>4, <1>7, <1>8 DEF Only

\* The buffer of a new socket.
LEMMA NewBuffer ==
    /\ SmallBuffer(RxBuffer) /\ NoData(RxBuffer) /\ RxBuffer.next = 0
    /\ ~RxBuffer.gotFin
<1>1. DOMAIN <<>> = {}
  OBVIOUS
<1> QED BY <1>1 DEF RxBuffer, SmallBuffer, NoData, RxFields

\* What the mode of a host says of the system.
LEMMA ModeIs ==
    ASSUME NEW h \in Hosts
    PROVE  /\ Serving(Mode(h)) /\ "rcvd" \notin Mode(h) /\ "aged" \notin Mode(h)
           /\ "writes" \in Mode(h) <=> h \in Writers
           /\ "quiet" \in Mode(h) <=> (h \in Writers => Unwritten(sock[h]))
           /\ "low" \in Mode(h) <=> Peer(h) \in Writers /\ Unwritten(sock[Peer(h)])
           /\ "met" \in Mode(h) <=> sock[Peer(h)].rx.next >= 1
           /\ "begun" \in Mode(h) <=> sock[h].rx.next >= 1
BY DEF Mode, Serving

\* What the mode between two steps says.
LEMMA RestIs ==
    ASSUME NEW h \in Hosts
    PROVE  /\ Serving(Rest(h)) /\ "rcvd" \notin Rest(h) /\ "aged" \notin Rest(h)
           /\ "writes" \in Rest(h) <=> h \in Writers
           /\ "quiet" \in Rest(h) /\ "low" \notin Rest(h)
           /\ "met" \in Rest(h) /\ "begun" \notin Rest(h)
BY DEF Rest, Serving

\* The invariant between steps gives a handler its mode.
LEMMA InModeIs ==
    ASSUME ConnectionInv, NEW h \in Hosts, ~Fresh(sock[h])
    PROVE  Good(sock[h], Mode(h)) /\ sock[h].out = {}
<1> DEFINE s == sock[h]
           c == Rest(h)
           d == Mode(h)
<1>1. s.out = {} /\ Good(s, c)
  BY DEF ConnectionInv, Sockets
<1>2. Peer(h) \in Hosts /\ Peer(Peer(h)) = h
  BY PeerIs
<1>3. "low" \in d => s.rx.next <= 1 /\ ~s.rx.gotFin
  BY <1>2, ModeIs DEF ConnectionInv, Heard
<1>4. /\ "rcvd" \notin c /\ "rcvd" \notin d /\ "fin" \notin c /\ "fin" \notin d
      /\ "aged" \notin d /\ "calm" \notin d
      /\ "writes" \in c <=> "writes" \in d
      /\ s.endPoint /\ Silent(s) => "quiet" \in d
  BY ModeIs, RestIs DEF Serving, Unwritten
<1>7. /\ s.connected => "met" \in d
      /\ "begun" \in d => s.rx.next >= 1
  BY ModeIs DEF ConnectionInv, Met
<1> HIDE DEF s, c, d
<1>5. Basic(s, d)
  <2>1. \A g \in s.out : Vouches(g) => s.rx.next >= 1
    BY <1>1
  <2> QED BY <1>1, <1>3, <1>4, <1>7, <2>1 DEF Good, Basic
<1>6. ASSUME s.endPoint PROVE Live(s, d)
  <2>1. Live(s, c)
    BY <1>1, <1>6 DEF Good
  <2>2. TimersRun(s, d)
    BY <1>4, <2>1 DEF Live, TimersRun, Young, Running
  <2>3. Silent(s) => "quiet" \in d
    BY <1>4, <1>6
  <2> QED BY <1>4, <2>1, <2>2, <2>3 DEF Live, Young
<1> QED BY <1>1, <1>5, <1>6 DEF Good, s, d

\* What a handler leaves behind satisfies the invariant between steps.
LEMMA AtRestIs ==
    ASSUME NEW h \in Hosts, NEW t, Good(t, Mode(h))
    PROVE  LET r == [t EXCEPT !.out = {}]
           IN  /\ Only(t, r, {"out"}) /\ r.out = {} /\ Good(r, Rest(h)) /\ ~Fresh(r)
               /\ Unwritten(r) => /\ h \in Writers => Unwritten(sock[h])
                                  /\ \A g \in t.out : Unheard(g)
<1> DEFINE r == [t EXCEPT !.out = {}]
           c == Mode(h)
           d == Rest(h)
<1>1. Basic(t, c) /\ Typed(t) /\ DOMAIN t = SockFields
  BY DEF Good, Basic, Typed
<1>2. Only(t, r, {"out"}) /\ r.out = {}
  BY <1>1 DEF Only, SockFields
<1>3. /\ "rcvd" \notin c /\ "rcvd" \notin d /\ "fin" \notin c /\ "fin" \notin d
      /\ "aged" \notin d /\ "calm" \notin d /\ "quiet" \in d /\ "low" \notin d
      /\ "met" \in d /\ "begun" \notin d
      /\ "writes" \in c <=> "writes" \in d
      /\ "quiet" \in c <=> (h \in Writers => Unwritten(sock[h]))
  BY ModeIs, RestIs DEF Serving
<1> HIDE DEF r, c, d
<1>4. Typed(r)
  <2>1. \A f \in {"endPoint", "sent", "closeOnEmpty", "shutdownSend", "delAckTimer",
                  "lastAck", "timeWait", "pending", "closing"} : r[f] \in BOOLEAN
    BY <1>1, <1>2, TypedFields DEF Only, SockFields
  <2> QED BY <1>1, <1>2, <2>1 DEF Typed, Only, SockFields
<1>5. Basic(r, d)
  <2>1. /\ r.rx = t.rx /\ r.told = t.told /\ r.connected = t.connected
        /\ r.state = t.state /\ r.endPoint = t.endPoint
        /\ r.closeOnEmpty = t.closeOnEmpty /\ r.closing = t.closing
        /\ r.shutdownSend = t.shutdownSend /\ (NoTimers(t) => NoTimers(r))
    BY <1>2 DEF Only, SockFields, NoTimers
  <2> QED BY <1>1, <1>2, <1>3, <1>4, <2>1 DEF Basic
<1>6. ASSUME r.endPoint PROVE Live(r, d) /\ Live(t, c)
  <2>1. Live(t, c)
    BY <1>2, <1>6 DEF Good, c, Only, SockFields
  <2>2. TimersRun(r, d)
    BY <2>1, <1>2, <1>3
       DEF Live, TimersRun, Young, Running, Idle, DataTimed, Only, SockFields
  <2> QED BY <2>1, <2>2, <1>2, <1>3 DEF Live, Young, Silent, Only, SockFields
<1>7. r.state = "CLOSED" => r.told # {}
  BY <1>5 DEF Basic
<1>8. ~Fresh(r)
  BY <1>7, FreshIs
<1>9. ASSUME Unwritten(r) PROVE "quiet" \in c /\ \A g \in t.out : Unheard(g)
  <2>1. r.endPoint /\ Silent(r)
    BY <1>8, <1>9 DEF Unwritten
  <2>2. Silent(t)
    BY <1>2, <2>1 DEF Silent, Only, SockFields
  <2> QED BY <1>6, <2>1, <2>2 DEF Live
<1> QED BY <1>2, <1>3, <1>5, <1>6, <1>8, <1>9 DEF Good, r, d

\* A handler that keeps its socket's invariant keeps the system's.
LEMMA BecomeIs ==
    ASSUME ConnectionInv, NEW h \in Hosts, NEW t, Good(t, Mode(h)), NEW gone,
           Become(h, t, gone)
    PROVE  /\ Sockets' /\ Underway' /\ Heard' /\ Met' /\ Vouched'
           /\ sock'[Peer(h)] = sock[Peer(h)]
<1> DEFINE r == [t EXCEPT !.out = {}]
           p == Peer(h)
<1>1. /\ p \in Hosts /\ p # h /\ Peer(p) = h /\ \A k \in Hosts : k = h \/ k = p
  BY PeerIs
<1>2. /\ Only(t, r, {"out"}) /\ r.out = {} /\ Good(r, Rest(h)) /\ ~Fresh(r)
      /\ Unwritten(r) => /\ h \in Writers => Unwritten(sock[h])
                         /\ \A g \in t.out : Unheard(g)
  BY AtRestIs
<1>3. Basic(t, Mode(h)) /\ DOMAIN sock = Hosts
  BY DEF Good, ConnectionInv, Sockets
<1>4. /\ sock' = [k \in Hosts |-> sock'[k]]
      /\ sock'[h] = r /\ sock'[p] = sock[p]
  BY <1>1, <1>3 DEF Become
<1>5. net' \subseteq net \union Sent(h, t.out)
  BY DEF Become, Carry
<1>6. \A m \in Sent(h, t.out) : m.to = p /\ m.seg \in t.out
  BY DEF Sent
<1> HIDE DEF r, p
<1>7. Sockets'
  BY <1>1, <1>2, <1>4 DEF ConnectionInv, Sockets, Rest
<1>8. \A g \in t.out : Segment(g) /\ ("low" \in Mode(h) => g.ack <= 1)
  BY <1>3 DEF Basic
<1>9. Underway'
  BY <1>1, <1>5, <1>6, <1>8 DEF ConnectionInv, Underway
<1>10. ASSUME h \in Writers, Unwritten(r)
       PROVE  /\ \A m \in net' : m.to = h => m.seg.ack <= 1
              /\ \A m \in net' : m.to = p => Unheard(m.seg)
              /\ sock[p].rx.next <= 1 /\ ~sock[p].rx.gotFin
  <2>1. Unwritten(sock[h]) /\ \A g \in t.out : Unheard(g)
    BY <1>2, <1>10
  <2>2. /\ \A m \in net : m.to = h => m.seg.ack <= 1
        /\ \A m \in net : m.to = p => Unheard(m.seg)
        /\ sock[p].rx.next <= 1 /\ ~sock[p].rx.gotFin
    BY <1>10, <2>1 DEF ConnectionInv, Heard, p
  <2> QED BY <1>1, <1>5, <1>6, <2>1, <2>2
<1>11. ASSUME p \in Writers, Unwritten(sock[p])
       PROVE  /\ \A m \in net' : m.to = p => m.seg.ack <= 1
              /\ \A m \in net' : m.to = h => Unheard(m.seg)
              /\ r.rx.next <= 1 /\ ~r.rx.gotFin
  <2>1. "low" \in Mode(h)
    BY <1>11, ModeIs DEF p
  <2>2. /\ \A m \in net : m.to = p => m.seg.ack <= 1
        /\ \A m \in net : m.to = h => Unheard(m.seg)
    BY <1>1, <1>11 DEF ConnectionInv, Heard
  <2>3. r.rx = t.rx
    BY <1>2 DEF Only, SockFields
  <2>4. t.rx.next <= 1 /\ ~t.rx.gotFin
    BY <1>3, <2>1 DEF Basic
  <2> QED BY <1>1, <1>5, <1>6, <1>8, <2>1, <2>2, <2>3, <2>4
<1>12. Heard'
  <2> SUFFICES ASSUME NEW k \in Hosts, k \in Writers, Unwritten(sock'[k])
               PROVE  /\ \A m \in net' : m.to = k => m.seg.ack <= 1
                      /\ \A m \in net' : m.to = Peer(k) => Unheard(m.seg)
                      /\ sock'[Peer(k)].rx.next <= 1 /\ ~sock'[Peer(k)].rx.gotFin
    BY DEF Heard
  <2>1. CASE k = h
    <3>1. Peer(k) = p
      BY <2>1 DEF p
    <3> QED BY <1>4, <1>10, <2>1, <3>1
  <2>2. CASE k = p
    BY <1>1, <1>4, <1>11, <2>2
  <2> QED BY <1>1, <2>1, <2>2
<1>13. r.rx = t.rx /\ r.connected = t.connected
  BY <1>2 DEF Only, SockFields
<1>14. /\ r.connected => sock[p].rx.next >= 1
       /\ sock[h].rx.next >= 1 => r.rx.next >= 1
       /\ \A g \in t.out : Vouches(g) => r.rx.next >= 1
  BY <1>3, <1>13, ModeIs DEF Basic, p
<1>15. Met'
  <2> SUFFICES ASSUME NEW k \in Hosts, sock'[k].connected
               PROVE  sock'[Peer(k)].rx.next >= 1
    BY DEF Met
  <2>1. CASE k = h
    BY <1>4, <1>14, <2>1 DEF p
  <2>2. CASE k = p
    <3>1. sock[p].connected
      BY <1>4, <2>2
    <3>2. sock[h].rx.next >= 1
      BY <1>1, <3>1 DEF ConnectionInv, Met
    <3> QED BY <1>1, <1>4, <1>14, <2>2, <3>2
  <2> QED BY <1>1, <2>1, <2>2
<1>16. Vouched'
  <2> SUFFICES ASSUME NEW m \in net', Vouches(m.seg)
               PROVE  sock'[Peer(m.to)].rx.next >= 1
    BY DEF Vouched
  <2>1. CASE m \in net
    <3>1. sock[Peer(m.to)].rx.next >= 1 /\ m.to \in Hosts
      BY <2>1 DEF ConnectionInv, Vouched, Underway
    <3>2. CASE m.to = h
      BY <1>4, <3>1, <3>2 DEF p
    <3>3. CASE m.to = p
      BY <1>1, <1>4, <1>14, <3>1, <3>3
    <3> QED BY <1>1, <3>1, <3>2, <3>3
  <2>2. CASE m \in Sent(h, t.out)
    BY <1>1, <1>4, <1>6, <1>14, <2>2
  <2> QED BY <1>5, <2>1, <2>2
<1> QED BY <1>4, <1>7, <1>9, <1>12, <1>15, <1>16 DEF p

\* A socket that has not been used answers and stays what it is.
LEMMA RefusalIs ==
    ASSUME ConnectionInv, NEW h \in Hosts, Fresh(sock[h]), NEW t,
           Only(sock[h], t, {"out", "delAckTimer", "delAckCount"}),
           ~t.delAckTimer, t.delAckTimer \in BOOLEAN, t.delAckCount = 0,
           \A g \in t.out : Segment(g) /\ Unheard(g) /\ g.ack <= 1 /\ ~Vouches(g),
           NEW gone, Become(h, t, gone)
    PROVE  Sockets' /\ Underway' /\ Heard' /\ Met' /\ Vouched' /\ sock' = sock
<1> DEFINE r == [t EXCEPT !.out = {}]
           s == sock[h]
           p == Peer(h)
<1>1. /\ p \in Hosts /\ p # h /\ Peer(p) = h /\ \A k \in Hosts : k = h \/ k = p
  BY PeerIs
<1>2. DOMAIN sock = Hosts
  BY DEF ConnectionInv, Sockets
<1>3. s.delAckTimer = FALSE /\ s.delAckCount = 0 /\ s.out = {} /\ DOMAIN s = SockFields
  <2>1. Socket.delAckTimer = FALSE /\ Bound.delAckTimer = FALSE
    BY DEF Bound, Socket
  <2> QED BY <2>1, FreshIs DEF Fresh
<1>4. Only(t, r, {"out"}) /\ r.out = {}
  BY DEF Only, SockFields
<1>5. DOMAIN r = SockFields /\ \A f \in SockFields : r[f] = s[f]
  BY <1>3, <1>4 DEF Only
<1>6. r = s
  <2>1. r = [f \in SockFields |-> r[f]]
    BY <1>5
  <2>2. s = [f \in SockFields |-> s[f]]
    <3>1. Socket = [f \in SockFields |-> Socket[f]]
      BY DEF Socket, SockFields
    <3>2. Bound = [f \in SockFields |-> Bound[f]]
      <4>1. DOMAIN Socket = SockFields
        BY DEF Socket, SockFields
      <4> QED BY <4>1 DEF Bound
    <3> QED BY <3>1, <3>2 DEF Fresh
  <2>3. [f \in SockFields |-> r[f]] = [f \in SockFields |-> s[f]]
    BY <1>5
  <2> QED BY <2>1, <2>2, <2>3
<1>7. sock' = sock
  <2>1. sock' = [sock EXCEPT ![h] = s]
    BY <1>6 DEF Become
  <2>2. sock = [k \in Hosts |-> sock[k]]
    BY DEF ConnectionInv, Sockets
  <2> QED BY <1>2, <2>1, <2>2
<1>8. net' \subseteq net \union Sent(h, t.out)
  BY DEF Become, Carry
<1>9. \A m \in Sent(h, t.out) : m.to = p /\ m.seg \in t.out
  BY DEF Sent
<1> HIDE DEF r, p, s
<1>10. Sockets'
  BY <1>7 DEF ConnectionInv, Sockets, Rest
<1>11. Underway'
  BY <1>1, <1>8, <1>9 DEF ConnectionInv, Underway
<1>12. Heard'
  <2> SUFFICES ASSUME NEW k \in Hosts, k \in Writers, Unwritten(sock[k])
               PROVE  /\ \A m \in net' : m.to = k => m.seg.ack <= 1
                      /\ \A m \in net' : m.to = Peer(k) => Unheard(m.seg)
                      /\ sock[Peer(k)].rx.next <= 1 /\ ~sock[Peer(k)].rx.gotFin
    BY <1>7 DEF Heard
  <2>1. /\ \A m \in net : m.to = k => m.seg.ack <= 1
        /\ \A m \in net : m.to = Peer(k) => Unheard(m.seg)
        /\ sock[Peer(k)].rx.next <= 1 /\ ~sock[Peer(k)].rx.gotFin
    BY DEF ConnectionInv, Heard
  <2> QED BY <1>8, <1>9, <2>1
<1>13. Met' /\ Vouched'
  BY <1>7, <1>8, <1>9 DEF ConnectionInv, Met, Vouched
<1> QED BY <1>7, <1>10, <1>11, <1>12, <1>13

\* So does a step that is no more than a handler.
LEMMA RunKeeps ==
    ASSUME ConnectionInv, NEW h \in Hosts, NEW t, Good(t, Mode(h)), NEW gone,
           Become(h, t, gone), UNCHANGED <<listening, forks>>,
           sock[h] # Socket \/ h = "A"
    PROVE  ConnectionInv'
<1>1. /\ Sockets' /\ Underway' /\ Heard' /\ Met' /\ Vouched'
      /\ sock'[Peer(h)] = sock[Peer(h)]
  BY BecomeIs
<1>2. OnceOnly'
  <2>1. ASSUME "B" \in Writers, listening \/ forks.scheduled > 0, forks.run = 0
        PROVE  sock'["B"] = Socket
    <3>1. sock["B"] = Socket
      BY <2>1 DEF ConnectionInv, OnceOnly
    <3>2. h = "A"
      BY <3>1 DEF Hosts
    <3> QED BY <1>1, <3>1, <3>2 DEF Peer
  <2> QED BY <2>1 DEF ConnectionInv, OnceOnly
<1> QED BY <1>1, <1>2 DEF ConnectionInv

\* A used socket is not the initial one.
LEMMA NotSocket == ASSUME NEW s, ~Fresh(s) PROVE s # Socket
BY DEF Fresh

\* The timers.
LEMMA TimerKeeps ==
    ASSUME ConnectionInv, NEW h \in Hosts, Timer(h)
    PROVE  ConnectionInv'
<1> DEFINE s == sock[h]
<1>1. ~Fresh(s)
  BY FreshIs
     DEF Timer, SendPendingEvent, RetxTimer, DelAckTimeout, LastAckExpires,
         TimeWaitExpires, NoTimers
<1>2. Good(s, Mode(h)) /\ s # Socket
  BY <1>1, InModeIs, NotSocket
<1>3. Serving(Mode(h)) /\ "rcvd" \notin Mode(h)
  BY ModeIs
<1>4. CASE SendPendingEvent(h)
  <2> DEFINE t == SendPendingData([s EXCEPT !.pending = FALSE])
  <2>1. s.pending /\ Become(h, t, {}) /\ UNCHANGED <<listening, forks>>
    BY <1>4 DEF SendPendingEvent, Run
  <2>2. Good(t, Mode(h))
    BY <1>2, <1>3, <2>1, PendingIs
  <2> HIDE DEF t
  <2> QED BY <1>2, <2>1, <2>2, RunKeeps
<1>5. CASE RetxTimer(h)
  <2> DEFINE t == RetxExpires(s)
  <2>1. s.retx # {} /\ Become(h, t, {}) /\ UNCHANGED <<listening, forks>>
    BY <1>5 DEF RetxTimer, Run
  <2>2. Good(t, Mode(h))
    BY <1>2, <1>3, <2>1, RetxExpiresIs
  <2> HIDE DEF t
  <2> QED BY <1>2, <2>1, <2>2, RunKeeps
<1>6. CASE DelAckTimeout(h)
  <2> DEFINE t == SendEmptyPacket([s EXCEPT !.delAckTimer = FALSE,
                                            !.delAckCount = 0], {"ACK"})
  <2>1. Become(h, t, {}) /\ UNCHANGED <<listening, forks>>
    BY <1>6 DEF DelAckTimeout, Run
  <2>2. Good(t, Mode(h))
    BY <1>2, DelAckIs
  <2> HIDE DEF t
  <2> QED BY <1>2, <2>1, <2>2, RunKeeps
<1>7. CASE LastAckExpires(h)
  <2> DEFINE t == LastAckTimeout([s EXCEPT !.lastAck = FALSE])
  <2>1. s.lastAck /\ Become(h, t, {}) /\ UNCHANGED <<listening, forks>>
    BY <1>7 DEF LastAckExpires, Run
  <2>2. Good(t, Mode(h))
    BY <1>2, <1>3, <2>1, LastAckTimeoutIs
  <2> HIDE DEF t
  <2> QED BY <1>2, <2>1, <2>2, RunKeeps
<1>8. CASE TimeWaitExpires(h)
  <2> DEFINE t == CloseAndNotify([s EXCEPT !.timeWait = FALSE])
  <2>1. Become(h, t, {}) /\ UNCHANGED <<listening, forks>>
    BY <1>8 DEF TimeWaitExpires, Run
  <2>2. Good(t, Mode(h))
    BY <1>2, TimeWaitOverIs
  <2> HIDE DEF t
  <2> QED BY <1>2, <2>1, <2>2, RunKeeps
<1> QED BY <1>4, <1>5, <1>6, <1>7, <1>8 DEF Timer

\* The event that announces the connection.
LEMMA SucceededKeeps ==
    ASSUME ConnectionInv, NEW h \in Hosts, ConnectionSucceeded(h)
    PROVE  ConnectionInv'
<1> DEFINE s == sock[h]
           t == [Tell(s, "connected") EXCEPT !.announce = FALSE]
<1>1. ~Fresh(s)
  BY FreshIs DEF ConnectionSucceeded
<1>2. Good(s, Mode(h)) /\ s # Socket
  BY <1>1, InModeIs, NotSocket
<1>3. Become(h, t, {}) /\ UNCHANGED <<listening, forks>>
  BY DEF ConnectionSucceeded, Run
<1>4. Good(t, Mode(h))
  BY <1>2, SucceededIs
<1> HIDE DEF t
<1> QED BY <1>2, <1>3, <1>4, RunKeeps

\* Connect sends a SYN and starts its timer.
LEMMA ConnectIs ==
    ASSUME NEW c, Serving(c), "rcvd" \notin c, "aged" \notin c, "quiet" \in c,
           "begun" \notin c, NEW s, Fresh(s)
    PROVE  Good([SendEmptyPacket([s EXCEPT !.endPoint = TRUE, !.synCount = SynRetries,
                                           !.dataRetrCount = DataRetries], {"SYN"})
                 EXCEPT !.state = "SYN_SENT"], c)
<1> DEFINE q == [s EXCEPT !.endPoint = TRUE, !.synCount = SynRetries,
                          !.dataRetrCount = DataRetries]
           k == [q EXCEPT !.synCount = @ - 1]
           F == {"SYN"}
           u == SendEmptyPacket(q, F)
           t == [u EXCEPT !.state = "SYN_SENT"]
<1>1. /\ DOMAIN s = SockFields /\ s.state = "CLOSED" /\ s.out = {}
      /\ NoTimers(s) /\ s.size = 0 /\ ~s.pending /\ ~s.closing
      /\ s.wrote = 0 /\ ~s.sent /\ ~s.closeOnEmpty /\ ~s.shutdownSend
      /\ s.next = 0 /\ s.high = 0 /\ s.head = 0
      /\ s.endPoint \in BOOLEAN /\ s.rx = RxBuffer
      /\ s.told = {} /\ ~s.connected /\ s.got = 0
  BY FreshIs
<1>2. SynRetries \in Nat /\ SynRetries > 0 /\ DataRetries \in Nat
  BY ConnectionAssumption
<1>3. Only(s, q, {"endPoint", "synCount", "dataRetrCount"}) /\ q.endPoint = TRUE
      /\ q.synCount = SynRetries /\ q.dataRetrCount = DataRetries
  BY <1>1 DEF Only, SockFields
<1>4. Only(q, k, {"synCount"}) /\ k.synCount = SynRetries - 1
  BY <1>3 DEF Only, SockFields
<1>5. "SYN" \in F /\ "FIN" \notin F /\ F \intersect {"SYN", "FIN"} # {} /\ F \in Timers
      /\ F \in Syn /\ F # {}
  BY DEF Timers, Syn
<1> HIDE DEF F
<1>6. u = SendFlags(k, F)
  BY <1>2, <1>3, <1>5 DEF SendEmptyPacket, CountSyn
<1> HIDE DEF u, k, q
<1>7. /\ Only(s, k, {"endPoint", "synCount", "dataRetrCount"}) /\ k.endPoint = TRUE
      /\ k.synCount \in 0 .. SynRetries /\ k.dataRetrCount \in 0 .. DataRetries
  BY <1>2, <1>3, <1>4 DEF Only, SockFields
<1>8. \A f \in {"endPoint", "sent", "closeOnEmpty", "shutdownSend", "delAckTimer",
                "lastAck", "timeWait", "pending", "closing"} : k[f] \in BOOLEAN
  <2>1. \A f \in {"sent", "closeOnEmpty", "shutdownSend", "delAckTimer",
                  "lastAck", "timeWait", "pending", "closing"} : s[f] = FALSE
    <3>1. \A f \in {"sent", "closeOnEmpty", "shutdownSend", "delAckTimer",
                    "lastAck", "timeWait", "pending", "closing"} :
              Socket[f] = FALSE /\ Bound[f] = FALSE
      BY DEF Socket, Bound
    <3> QED BY <3>1 DEF Fresh
  <2> QED BY <1>7, <2>1 DEF Only, SockFields
<1>9. Typed(k)
  BY <1>1, <1>7, <1>8, NewBuffer DEF Typed, Only, SockFields, States, Timers, NoTimers
<1>10. /\ Only(k, u, {"out", "delAckTimer", "delAckCount", "retx"})
       /\ u.out = k.out \union {Packet(k, F)} /\ u.delAckTimer \in BOOLEAN
       /\ u.retx = IF k.retx = {} THEN F ELSE k.retx
  BY <1>5, <1>6, <1>9, SendFlagsIs
<1>11. Only(u, t, {"state"}) /\ t.state = "SYN_SENT"
  BY <1>10 DEF Only, SockFields
<1> HIDE DEF t
<1>12. /\ Only(s, t, {"endPoint", "synCount", "dataRetrCount", "out", "delAckTimer",
                      "delAckCount", "retx", "state"})
       /\ t.endPoint = TRUE /\ t.synCount = k.synCount
       /\ t.dataRetrCount = k.dataRetrCount /\ t.out = {Packet(k, F)}
       /\ t.delAckTimer = u.delAckTimer /\ t.retx = F
  BY <1>1, <1>7, <1>10, <1>11 DEF Only, SockFields, NoTimers
<1>13. /\ Segment(Packet(k, F)) /\ Packet(k, F).ack <= 1 /\ Unheard(Packet(k, F))
       /\ ~Vouches(Packet(k, F))
  <2>1. k.next = 0 /\ k.rx.next = 0 /\ k.state = "CLOSED"
    BY <1>1, <1>7, NewBuffer DEF Only, SockFields
  <2>2. AfterFin(k, F) = 0
    BY <2>1 DEF AfterFin
  <2>3. Packet(k, F) = [flags |-> F, seq |-> 0, ack |-> 0, len |-> 0]
    BY <2>1, <2>2 DEF Packet
  <2> QED BY <1>5, <2>3 DEF Segment, SegFields, Unheard, Vouches
<1>14. \A f \in {"endPoint", "sent", "closeOnEmpty", "shutdownSend", "delAckTimer",
                 "lastAck", "timeWait", "pending", "closing"} : t[f] \in BOOLEAN
  BY <1>8, <1>10, <1>11 DEF Only, SockFields
<1>15. Typed(t)
  BY <1>1, <1>5, <1>7, <1>11, <1>12, <1>14, NewBuffer DEF Typed, Only, SockFields, States
<1>16. /\ ~t.closeOnEmpty /\ t.rx = RxBuffer /\ ~t.lastAck /\ ~t.sent /\ ~t.pending
       /\ t.size = 0 /\ t.head = 0 /\ t.next = 0 /\ t.told = {} /\ ~t.connected
       /\ t.got = 0
  BY <1>1, <1>12 DEF Only, SockFields, NoTimers
<1>17. Basic(t, c)
  BY <1>11, <1>12, <1>13, <1>15, <1>16, NewBuffer DEF Basic
<1>18. Young(t, c) /\ ~Running(t, c)
  BY <1>11 DEF Young, Running
<1>19. TimersRun(t, c)
  BY <1>5, <1>11, <1>12, <1>16, <1>18 DEF TimersRun
<1>20. Live(t, c)
  BY <1>11, <1>12, <1>13, <1>16, <1>18, <1>19, NewBuffer DEF Live
<1> QED BY <1>17, <1>20 DEF Good, t, u, q, F

\* The application's calls.
LEMMA ApplicationKeeps ==
    ASSUME ConnectionInv, NEW h \in Hosts, Application(h)
    PROVE  ConnectionInv'
<1> DEFINE s == sock[h]
<1>1. Serving(Mode(h)) /\ "rcvd" \notin Mode(h) /\ "aged" \notin Mode(h)
      /\ ("writes" \in Mode(h) <=> h \in Writers)
      /\ ("quiet" \in Mode(h) <=> (h \in Writers => Unwritten(s)))
  BY ModeIs
<1>2. ASSUME ~Fresh(s) PROVE Good(s, Mode(h)) /\ s # Socket
  BY <1>2, InModeIs, NotSocket
<1>3. CASE Connect(h)
  <2> DEFINE t == [SendEmptyPacket([s EXCEPT !.endPoint = TRUE, !.synCount = SynRetries,
                                             !.dataRetrCount = DataRetries], {"SYN"})
                   EXCEPT !.state = "SYN_SENT"]
  <2>1. /\ s.state = "CLOSED" /\ s.told = {} /\ (h = "A" \/ s.endPoint)
        /\ Become(h, t, {}) /\ UNCHANGED <<listening, forks>>
    BY <1>3 DEF Connect, Run
  <2>2. Fresh(s)
    BY <1>2, <2>1 DEF Good, Basic
  <2>3. "quiet" \in Mode(h)
    BY <1>1, <2>2 DEF Unwritten
  <2>4. Good(t, Mode(h))
    <3>1. "begun" \notin Mode(h)
      BY <2>2, ModeIs, FreshIs, NewBuffer
    <3> QED BY <1>1, <2>2, <2>3, <3>1, ConnectIs
  <2>5. s # Socket \/ h = "A"
    <3>1. ~Socket.endPoint
      BY DEF Socket
    <3> QED BY <2>1, <3>1
  <2> HIDE DEF t
  <2> QED BY <2>1, <2>4, <2>5, RunKeeps
<1>4. CASE Send(h)
  <2> DEFINE t == [s EXCEPT !.size = 1, !.wrote = 1,
                            !.pending = s.state # "SYN_SENT" /\ ~s.shutdownSend]
  <2>1. /\ h \in Writers /\ ~s.closing /\ s.wrote = 0
        /\ s.state \in {"ESTABLISHED", "SYN_SENT", "CLOSE_WAIT"}
        /\ Become(h, t, {}) /\ UNCHANGED <<listening, forks>>
    BY <1>4 DEF Send, Run
  <2>2. Good(s, Mode(h)) /\ s # Socket
    BY <1>2, <2>1, FreshIs
  <2>3. Good(t, Mode(h))
    BY <1>1, <2>1, <2>2, SendIs
  <2> HIDE DEF t
  <2> QED BY <2>1, <2>2, <2>3, RunKeeps
<1>5. CASE Close(h)
  <2> DEFINE t == AppCloses(s)
  <2>1. /\ s.state # "CLOSED" /\ ~s.closing
        /\ Become(h, t, {}) /\ UNCHANGED <<listening, forks>>
    BY <1>5 DEF Close, Run
  <2>2. Good(s, Mode(h)) /\ s # Socket
    BY <1>2, <2>1, FreshIs
  <2>3. Good(t, Mode(h))
    BY <2>1, <2>2, AppClosesIs
  <2> HIDE DEF t
  <2> QED BY <2>1, <2>2, <2>3, RunKeeps
<1>6. CASE ShutdownSend(h)
  <2> DEFINE t == Shutdown([s EXCEPT !.shutdownSend = TRUE, !.closeOnEmpty = TRUE])
  <2>1. /\ s.state # "CLOSED" /\ ~s.closing
        /\ Become(h, t, {}) /\ UNCHANGED <<listening, forks>>
    BY <1>6 DEF ShutdownSend, Run
  <2>2. Good(s, Mode(h)) /\ s # Socket
    BY <1>2, <2>1, FreshIs
  <2>3. Good(t, Mode(h))
    BY <1>1, <2>1, <2>2, ShutdownIs
  <2> HIDE DEF t
  <2> QED BY <2>1, <2>2, <2>3, RunKeeps
<1>7. CASE Read(h)
  <2> DEFINE t == ReadAll(s)
  <2>1. /\ s.rx.avail > 0 /\ Become(h, t, {}) /\ UNCHANGED <<listening, forks>>
    BY <1>7 DEF Read, Run
  <2>2. Good(s, Mode(h)) /\ s # Socket
    BY <1>2, <2>1, FreshIs, NewBuffer DEF NoData
  <2>3. Good(t, Mode(h))
    BY <2>2, ReadAllIs
  <2> HIDE DEF t
  <2> QED BY <2>1, <2>2, <2>3, RunKeeps
<1> QED BY <1>3, <1>4, <1>5, <1>6, <1>7 DEF Application

\* A bound socket that is not connected resets, or acknowledges with 0.
LEMMA FreshAnswers ==
    ASSUME NEW s, Fresh(s), s.endPoint, NEW seg, NEW r
    PROVE  LET t == ForwardUp(s, seg, r)
           IN  /\ Only(s, t, {"out", "delAckTimer", "delAckCount"})
               /\ ~t.delAckTimer /\ t.delAckTimer \in BOOLEAN /\ t.delAckCount = 0
               /\ \A g \in t.out : Segment(g) /\ Unheard(g) /\ g.ack <= 1 /\ ~Vouches(g)
<1> DEFINE t == ForwardUp(s, seg, r)
<1>1. /\ DOMAIN s = SockFields /\ s.state = "CLOSED" /\ s.out = {} /\ s.retx = {}
      /\ s.next = 0 /\ s.delAckCount = 0 /\ s.rx.next = 0
  BY FreshIs, NewBuffer DEF NoTimers
<1>2. s.delAckTimer = FALSE
  <2>1. Bound.delAckTimer = FALSE
    BY DEF Bound, Socket
  <2> QED BY <2>1, FreshIs
<1>3. \A f : AfterFin(s, f) = 0
  BY <1>1 DEF AfterFin
<1>4. ASSUME NEW f \in {{"ACK"}, {"RST"}}
      PROVE  LET e == Emit(s, f, 0, 0)
             IN  /\ Only(s, e, {"out", "delAckTimer", "delAckCount"})
                 /\ ~e.delAckTimer /\ e.delAckTimer \in BOOLEAN /\ e.delAckCount = 0
                 /\ \A g \in e.out : Segment(g) /\ Unheard(g) /\ g.ack <= 1 /\ ~Vouches(g)
  <2> DEFINE e == Emit(s, f, 0, 0)
             p == [flags |-> f, seq |-> 0, ack |-> s.rx.next, len |-> 0]
  <2>1. e = [s EXCEPT !.out = @ \union {p}, !.delAckTimer = @ /\ "ACK" \notin f,
                      !.delAckCount = IF "ACK" \in f THEN 0 ELSE @]
    BY DEF Emit
  <2>2. Segment(p) /\ Unheard(p) /\ p.ack <= 1 /\ ~Vouches(p)
    BY <1>1 DEF Segment, SegFields, Unheard, Vouches
  <2> HIDE DEF p, e
  <2>3. Only(s, e, {"out", "delAckTimer", "delAckCount"})
    BY <1>1, <2>1 DEF Only, SockFields
  <2>4. e.delAckTimer = FALSE /\ e.delAckCount = 0 /\ e.out = {p}
    BY <1>1, <1>2, <2>1 DEF SockFields
  <2> QED BY <2>2, <2>3, <2>4 DEF e
<1>5. CASE seg.len > 0 /\ OutOfRange(s, seg)
  <2> DEFINE e == Emit(s, {"ACK"}, 0, 0)
  <2>1. t = SendEmptyPacket(s, {"ACK"})
    BY <1>5 DEF ForwardUp
  <2>2. t = SendFlags(s, {"ACK"})
    BY <2>1 DEF SendEmptyPacket, CountSyn
  <2>3. t = Repeat(e, {"ACK"})
    BY <1>1, <1>3, <2>2 DEF SendFlags
  <2> HIDE DEF t, e
  <2>4. t = e
    BY <2>3 DEF Repeat
  <2> QED BY <1>4, <2>4 DEF t, e
<1>6. CASE ~(seg.len > 0 /\ OutOfRange(s, seg))
  <2>1. t = Process(s, seg, r)
    BY <1>6 DEF ForwardUp
  <2>2. t = Refuse(s, seg)
    BY <1>1, <2>1 DEF Process
  <2> HIDE DEF t
  <2>3. CASE seg.flags = {"RST"}
    <3>1. t = s
      BY <2>2, <2>3 DEF Refuse
    <3>2. Only(s, s, {"out", "delAckTimer", "delAckCount"})
      BY <1>1 DEF Only
    <3> QED BY <1>1, <1>2, <3>1, <3>2 DEF t
  <2>4. CASE seg.flags # {"RST"}
    <3>1. t = Emit(s, {"RST"}, 0, 0)
      BY <1>1, <2>2, <2>4 DEF Refuse
    <3> QED BY <1>4, <3>1 DEF t
  <2> QED BY <2>3, <2>4
<1> QED BY <1>5, <1>6

\* A segment reaches a socket.
LEMMA DeliverKeeps ==
    ASSUME ConnectionInv, NEW h \in Hosts, NEW m, NEW r, Deliver(h, m, r)
    PROVE  ConnectionInv'
<1> DEFINE s == sock[h]
           t == ForwardUp(s, m.seg, r)
<1>1. /\ m \in net /\ m.to = h /\ s.endPoint
      /\ Become(h, t, {m}) /\ UNCHANGED <<listening, forks>>
  BY DEF Deliver
<1>2. CASE Fresh(s)
  <2>1. /\ Only(s, t, {"out", "delAckTimer", "delAckCount"})
        /\ ~t.delAckTimer /\ t.delAckTimer \in BOOLEAN /\ t.delAckCount = 0
        /\ \A g \in t.out : Segment(g) /\ Unheard(g) /\ g.ack <= 1 /\ ~Vouches(g)
    BY <1>1, <1>2, FreshAnswers
  <2> HIDE DEF t
  <2>2. Sockets' /\ Underway' /\ Heard' /\ Met' /\ Vouched' /\ sock' = sock
    BY <1>1, <1>2, <2>1, RefusalIs
  <2>3. OnceOnly'
    BY <1>1, <2>2 DEF ConnectionInv, OnceOnly
  <2> QED BY <2>2, <2>3 DEF ConnectionInv
<1>3. CASE ~Fresh(s)
  <2> DEFINE c == Mode(h)
             p == Peer(h)
  <2>1. Good(s, c) /\ s # Socket
    BY <1>3, InModeIs, NotSocket
  <2>2. Serving(c) /\ "rcvd" \notin c /\ "aged" \notin c
    BY ModeIs
  <2>3. p \in Hosts /\ Peer(p) = h
    BY PeerIs
  <2>4. Segment(m.seg)
    BY <1>1 DEF ConnectionInv, Underway
  <2>5. "low" \in c => Unheard(m.seg)
    <3>1. "low" \in c => p \in Writers /\ Unwritten(sock[p])
      BY ModeIs
    <3> QED BY <1>1, <2>3, <3>1 DEF ConnectionInv, Heard
  <2>6. "quiet" \in c /\ "writes" \in c => m.seg.ack <= 1
    <3>1. "quiet" \in c /\ "writes" \in c => h \in Writers /\ Unwritten(s)
      BY ModeIs
    <3> QED BY <1>1, <3>1 DEF ConnectionInv, Heard
  <2>9. Vouches(m.seg) => "met" \in c
    BY <1>1, ModeIs DEF ConnectionInv, Vouched
  <2>7. SegIn(m.seg, c)
    BY <2>4, <2>5, <2>6, <2>9 DEF SegIn
  <2> HIDE DEF c
  <2>8. Good(t, c)
    BY <1>1, <2>1, <2>2, <2>7, ProcessIs
  <2> HIDE DEF t
  <2> QED BY <1>1, <2>1, <2>8, RunKeeps DEF c
<1> QED BY <1>2, <1>3

\* A forked socket answers with SYN|ACK and starts its timer.
LEMMA ForkedIs ==
    ASSUME NEW c, Serving(c), "rcvd" \notin c, "aged" \notin c, "quiet" \in c
    PROVE  Good(SendEmptyPacket(
                [Socket EXCEPT !.endPoint = TRUE, !.state = "SYN_RCVD",
                               !.synCount = SynRetries, !.dataRetrCount = DataRetries,
                               !.rx.next = 1], {"SYN", "ACK"}), c)
<1> DEFINE b == [RxBuffer EXCEPT !.next = 1]
           s == [Socket EXCEPT !.endPoint = TRUE, !.state = "SYN_RCVD",
                               !.synCount = SynRetries, !.dataRetrCount = DataRetries,
                               !.rx.next = 1]
<1>1. /\ DOMAIN s = SockFields /\ s.state = "SYN_RCVD" /\ s.endPoint = TRUE
      /\ s.synCount = SynRetries /\ s.dataRetrCount = DataRetries
      /\ s.next = 0 /\ s.high = 0 /\ s.head = 0 /\ s.size = 0 /\ s.wrote = 0
      /\ s.retx = {} /\ s.out = {} /\ s.told = {} /\ ~s.connected /\ s.got = 0
  BY DEF Socket, SockFields
<1>2. s.rx = b
  BY DEF Socket
<1>3. \A f \in {"sent", "closeOnEmpty", "shutdownSend", "delAckTimer",
                "lastAck", "timeWait", "pending", "closing"} : s[f] = FALSE
  <2>1. \A f \in {"sent", "closeOnEmpty", "shutdownSend", "delAckTimer",
                  "lastAck", "timeWait", "pending", "closing"} : Socket[f] = FALSE
    BY DEF Socket
  <2>2. DOMAIN Socket = SockFields
    BY DEF Socket, SockFields
  <2>3. Only(Socket, s, {"endPoint", "state", "synCount", "dataRetrCount", "rx"})
    BY <2>2 DEF Only, SockFields
  <2> QED BY <2>1, <2>3 DEF Only, SockFields
<1> HIDE DEF s
<1>4. SmallBuffer(b) /\ NoData(b) /\ b.next = 1 /\ ~b.gotFin
  <2>1. DOMAIN RxBuffer = RxFields
    BY NewBuffer DEF SmallBuffer
  <2>2. /\ DOMAIN b = RxFields /\ b.next = 1
        /\ \A f \in RxFields \ {"next"} : b[f] = RxBuffer[f]
    BY <2>1 DEF RxFields
  <2> HIDE DEF b
  <2>3. NoData(b) /\ ~b.gotFin
    BY <2>2, NewBuffer DEF NoData, RxFields
  <2> QED BY <2>2, <2>3, NewBuffer DEF SmallBuffer, RxFields
<1> HIDE DEF b
<1>5. SynRetries \in Nat /\ DataRetries \in Nat
  BY ConnectionAssumption
<1>6. \A f \in {"endPoint", "sent", "closeOnEmpty", "shutdownSend", "delAckTimer",
                "lastAck", "timeWait", "pending", "closing"} : s[f] \in BOOLEAN
  BY <1>1, <1>3
<1>7. Typed(s)
  BY <1>1, <1>2, <1>3, <1>4, <1>5, <1>6 DEF Typed, States, Timers
<1>8. Basic(s, c)
  BY <1>1, <1>2, <1>3, <1>4, <1>7 DEF Basic, Serving
<1>9. Starting(s, c)
  BY <1>1, <1>2, <1>3, <1>4 DEF Starting
<1>10. s.state \in Attempting /\ {"SYN", "ACK"} \in Syn
  BY <1>1 DEF Attempting, Syn
<1> QED BY <1>8, <1>9, <1>10, SynGoes DEF s

\* The listener forks.
LEMMA CompleteForkKeeps ==
    ASSUME ConnectionInv, OneLife, CompleteFork
    PROVE  ConnectionInv'
<1>1. /\ forks.scheduled > 0
      /\ forks' = [scheduled |-> forks.scheduled - 1, run |-> forks.run + 1]
      /\ listening' = listening
  BY DEF CompleteFork
<1>2. /\ forks.scheduled \in Nat /\ forks.run \in Nat
      /\ forks.scheduled + forks.run <= MaxForks /\ MaxForks \in Nat
  BY ConnectionAssumption DEF ConnectionInv, OnceOnly
<1>3. /\ DOMAIN forks' = {"scheduled", "run"}
      /\ forks'.scheduled = forks.scheduled - 1 /\ forks'.run = forks.run + 1
  BY <1>1
<1>4. OnceOnly'
  BY <1>1, <1>2, <1>3 DEF OnceOnly
<1>5. CASE sock["B"].endPoint
  <2>1. UNCHANGED <<sock, net>>
    BY <1>5 DEF CompleteFork
  <2>2. Sockets' /\ Underway' /\ Heard' /\ Met' /\ Vouched'
    BY <2>1 DEF ConnectionInv, Sockets, Underway, Heard, Met, Vouched, Rest, Unwritten
  <2> QED BY <1>4, <2>2 DEF ConnectionInv
<1>6. CASE ~sock["B"].endPoint
  <2> DEFINE t == SendEmptyPacket(
                [Socket EXCEPT !.endPoint = TRUE, !.state = "SYN_RCVD",
                               !.synCount = SynRetries, !.dataRetrCount = DataRetries,
                               !.rx.next = 1], {"SYN", "ACK"})
  <2>1. Become("B", t, {})
    BY <1>6 DEF CompleteFork
  <2>2. "B" \in Hosts
    BY DEF Hosts
  <2>3. "B" \in Writers => Unwritten(sock["B"])
    <3>1. "B" \in Writers => forks.run = 0
      BY <1>1, <1>2 DEF OneLife
    <3>2. "B" \in Writers => sock["B"] = Socket
      BY <1>1, <3>1 DEF ConnectionInv, OnceOnly
    <3> QED BY <3>2 DEF Unwritten, Fresh
  <2>4. /\ Serving(Mode("B")) /\ "rcvd" \notin Mode("B") /\ "aged" \notin Mode("B")
        /\ "quiet" \in Mode("B")
    BY <2>2, <2>3, ModeIs
  <2>5. Good(t, Mode("B"))
    BY <2>4, ForkedIs
  <2> HIDE DEF t
  <2>6. Sockets' /\ Underway' /\ Heard' /\ Met' /\ Vouched'
    BY <2>1, <2>2, <2>5, BecomeIs
  <2> QED BY <1>4, <2>6 DEF ConnectionInv
<1> QED BY <1>5, <1>6

\* The network and the listener.
LEMMA NetworkKeeps ==
    ASSUME ConnectionInv, NEW m \in net, Network(m)
    PROVE  ConnectionInv'
<1>1. m.to \in Hosts /\ Segment(m.seg)
  BY DEF ConnectionInv, Underway
<1>2. ASSUME NEW r \in Reactions, Deliver(m.to, m, r) PROVE ConnectionInv'
  BY <1>1, <1>2, DeliverKeeps
<1>3. ASSUME UNCHANGED sock, net' \subseteq net
      PROVE  Sockets' /\ Underway' /\ Heard' /\ Met' /\ Vouched'
  BY <1>3 DEF ConnectionInv, Sockets, Underway, Heard, Met, Vouched, Rest, Unwritten
<1>4. ASSUME UNCHANGED <<sock, forks>>, listening' => listening
      PROVE  OnceOnly'
  BY <1>4 DEF ConnectionInv, OnceOnly
<1>5. CASE ProcessListen(m)
  <2>1. UNCHANGED <<sock, listening>> /\ net' \subseteq net
    BY <1>5 DEF ProcessListen
  <2>2. OnceOnly'
    <3>1. CASE UNCHANGED forks
      BY <1>4, <2>1, <3>1
    <3>2. CASE /\ forks.scheduled + forks.run < MaxForks
               /\ forks' = [forks EXCEPT !.scheduled = @ + 1]
      <4>1. /\ DOMAIN forks = {"scheduled", "run"} /\ forks.scheduled \in Nat
            /\ forks.run \in Nat /\ MaxForks \in Nat
        BY ConnectionAssumption DEF ConnectionInv, OnceOnly
      <4>2. /\ DOMAIN forks' = {"scheduled", "run"}
            /\ forks'.scheduled = forks.scheduled + 1 /\ forks'.run = forks.run
        BY <3>2, <4>1
      <4>3. listening
        BY <1>5 DEF ProcessListen
      <4> QED BY <2>1, <3>2, <4>1, <4>2, <4>3 DEF ConnectionInv, OnceOnly
    <3> QED BY <1>5, <3>1, <3>2 DEF ProcessListen
  <2> QED BY <1>3, <2>1, <2>2 DEF ConnectionInv
<1>6. CASE NoEndPointsFound(m.to, m)
  <2> DEFINE q == ResetOf(m.seg)
             h == m.to
             sends == IF "RST" \in m.seg.flags THEN {} ELSE Sent(h, {q})
  <2>1. /\ UNCHANGED <<sock, listening, forks>>
        /\ net' = (net \ {m}) \union sends
    BY <1>6 DEF NoEndPointsFound
  <2>2. m.seg.seq \in Nat /\ m.seg.ack \in Nat
    BY <1>1 DEF Segment
  <2>3. Segment(q) /\ Unheard(q) /\ ~Vouches(q)
    BY <2>2 DEF ResetOf, Segment, SegFields, Unheard, Vouches
  <2>4. Unheard(m.seg) /\ "RST" \notin m.seg.flags => q.ack <= 1
    BY DEF ResetOf, Unheard
  <2> HIDE DEF q
  <2>5. \A n \in sends : n.to = Peer(h) /\ n.seg = q /\ "RST" \notin m.seg.flags
    BY DEF Sent
  <2> HIDE DEF sends
  <2>6. /\ h \in Hosts /\ Peer(h) \in Hosts /\ Peer(h) # h /\ Peer(Peer(h)) = h
        /\ \A k \in Hosts : k = h \/ k = Peer(h)
    BY <1>1, PeerIs
  <2>7. Sockets' /\ OnceOnly'
    BY <1>4, <2>1 DEF ConnectionInv, Sockets, Rest
  <2>8. Underway'
    BY <2>1, <2>3, <2>5, <2>6 DEF ConnectionInv, Underway
  <2>9. Heard'
    <3> SUFFICES ASSUME NEW k \in Hosts, k \in Writers, Unwritten(sock[k])
                 PROVE  /\ \A n \in net' : n.to = k => n.seg.ack <= 1
                        /\ \A n \in net' : n.to = Peer(k) => Unheard(n.seg)
                        /\ sock[Peer(k)].rx.next <= 1 /\ ~sock[Peer(k)].rx.gotFin
      BY <2>1 DEF Heard, Unwritten
    <3>1. /\ \A n \in net : n.to = k => n.seg.ack <= 1
          /\ \A n \in net : n.to = Peer(k) => Unheard(n.seg)
          /\ sock[Peer(k)].rx.next <= 1 /\ ~sock[Peer(k)].rx.gotFin
      BY DEF ConnectionInv, Heard
    <3>2. \A n \in sends : n.to = Peer(k) => Unheard(n.seg)
      BY <2>3, <2>5
    <3>3. \A n \in sends : n.to = k => n.seg.ack <= 1
      <4> SUFFICES ASSUME NEW n \in sends, n.to = k PROVE n.seg.ack <= 1
        OBVIOUS
      <4>1. Peer(k) = m.to
        BY <2>5, <2>6
      <4>2. Unheard(m.seg)
        BY <3>1, <4>1
      <4> QED BY <2>4, <2>5, <4>2
    <3> QED BY <2>1, <3>1, <3>2, <3>3
  <2>10. Met' /\ Vouched'
    BY <2>1, <2>3, <2>5 DEF ConnectionInv, Met, Vouched
  <2> QED BY <2>7, <2>8, <2>9, <2>10 DEF ConnectionInv
<1>7. CASE Lose(m)
  <2>1. UNCHANGED <<sock, listening, forks>> /\ net' \subseteq net
    BY <1>7 DEF Lose
  <2> QED BY <1>3, <1>4, <2>1 DEF ConnectionInv
<1> QED BY <1>2, <1>5, <1>6, <1>7 DEF Network

\* The invariant holds at first.
LEMMA InitIs == ASSUME Init PROVE ConnectionInv
<1>1. PICK opening \in Openings :
          /\ sock = [h \in Hosts |-> [Socket EXCEPT !.endPoint = opening = "connect"]]
          /\ listening = (opening = "listen")
  BY DEF Init
<1>2. Socket = [Socket EXCEPT !.endPoint = FALSE]
  <2>1. Socket = [f \in SockFields |-> Socket[f]]
    BY DEF Socket, SockFields
  <2>2. Socket.endPoint = FALSE
    BY DEF Socket
  <2> QED BY <2>1, <2>2
<1>3. \A h \in Hosts : Fresh(sock[h])
  BY <1>1, <1>2 DEF Fresh, Bound
<1>4. opening = "listen" => sock["B"] = Socket
  BY <1>1, <1>2 DEF Hosts
<1>5. Sockets
  BY <1>1, <1>3 DEF Sockets
<1>6. Underway /\ net = {}
  BY DEF Init, Underway
<1>7. Heard
  <2>1. \A h \in Hosts : sock[Peer(h)].rx.next <= 1 /\ ~sock[Peer(h)].rx.gotFin
    BY <1>3, PeerIs, FreshIs, NewBuffer
  <2> QED BY <1>6, <2>1 DEF Heard
<1>8. OnceOnly
  <2>1. forks = [scheduled |-> 0, run |-> 0]
    BY DEF Init
  <2>2. /\ DOMAIN forks = {"scheduled", "run"} /\ forks.scheduled = 0 /\ forks.run = 0
        /\ MaxForks \in Nat
    BY <2>1, ConnectionAssumption
  <2>3. listening => sock["B"] = Socket
    BY <1>1, <1>4
  <2> QED BY <2>2, <2>3 DEF OnceOnly
<1>9. Met /\ Vouched
  BY <1>3, <1>6, FreshIs DEF Met, Vouched
<1> QED BY <1>5, <1>6, <1>7, <1>8, <1>9 DEF ConnectionInv

\* Every step keeps the invariant.
LEMMA StepKeeps ==
    ASSUME OneLife, ConnectionInv, [Next]_vars
    PROVE  ConnectionInv'
<1>1. CASE UNCHANGED vars
  BY <1>1
     DEF vars, ConnectionInv, Sockets, Underway, Heard, Met, Vouched, OnceOnly, Rest, Unwritten
<1>2. ASSUME NEW h \in Hosts, Application(h) \/ Timer(h) PROVE ConnectionInv'
  BY <1>2, ApplicationKeeps, TimerKeeps
<1>3. CASE CloseListener
  <2>1. UNCHANGED <<sock, net, forks>> /\ listening' = FALSE
    BY <1>3 DEF CloseListener
  <2>2. OnceOnly' /\ listening
    BY <1>3, <2>1 DEF ConnectionInv, OnceOnly, CloseListener
  <2>3. Sockets' /\ Underway' /\ Heard' /\ Met' /\ Vouched'
    BY <2>1 DEF ConnectionInv, Sockets, Underway, Heard, Met, Vouched, Rest, Unwritten
  <2> QED BY <2>2, <2>3 DEF ConnectionInv
<1>4. CASE CompleteFork
  BY <1>4, CompleteForkKeeps
<1>5. ASSUME NEW h \in Hosts, ConnectionSucceeded(h) PROVE ConnectionInv'
  BY <1>5, SucceededKeeps
<1>6. ASSUME NEW m \in net, Network(m) PROVE ConnectionInv'
  BY <1>6, NetworkKeeps
<1> QED BY <1>1, <1>2, <1>3, <1>4, <1>5, <1>6 DEF Next

\* The invariant has the timers run.
LEMMA InvIsTimed == ASSUME ConnectionInv PROVE Timed
<1> SUFFICES ASSUME NEW h \in Hosts
             PROVE  LET s == sock[h] IN
        IF s.endPoint
        THEN /\ s.state \in Attempting \union {"FIN_WAIT_1", "CLOSING"} => s.retx # {}
             /\ s.state = "LAST_ACK" => s.retx # {} \/ s.lastAck
             /\ s.state = "TIME_WAIT" => s.timeWait
             /\ s.size = 1 /\ s.sent /\ s.state # "TIME_WAIT" => s.retx # {} \/ s.lastAck
        ELSE s.retx = {} /\ ~s.lastAck /\ ~s.timeWait /\ ~s.delAckTimer
  BY DEF Timed
<1> DEFINE s == sock[h]
           c == Rest(h)
<1>1. CASE Fresh(s)
  BY <1>1, FreshIs DEF NoTimers, Attempting
<1>2. CASE ~Fresh(s)
  <2>1. Good(s, c)
    BY <1>2 DEF ConnectionInv, Sockets
  <2>2. "rcvd" \notin c /\ "fin" \notin c
    BY RestIs DEF Serving
  <2> HIDE DEF c
  <2>3. ASSUME s.endPoint PROVE TimersRun(s, c)
    BY <2>1, <2>3 DEF Good, Live
  <2>4. ~s.endPoint => NoTimers(s)
    BY <2>1 DEF Good, Basic
  <2>5. {} \notin Syn
    BY DEF Syn
  <2>6. ASSUME s.endPoint, s.state \in Attempting PROVE s.retx # {}
    BY <2>2, <2>3, <2>5, <2>6 DEF TimersRun, Young, Attempting
  <2> QED BY <2>2, <2>3, <2>4, <2>6 DEF TimersRun, DataTimed, NoTimers
<1> QED BY <1>1, <1>2

\* The invariant has both ends know of each other.
LEMMA InvIsAgreement == ASSUME ConnectionInv PROVE Agreement
<1>1. ASSUME NEW h \in Hosts, Fresh(sock[h])
      PROVE  /\ sock[h].state \in States
             /\ sock[h].synCount \in 0 .. SynRetries
             /\ sock[h].dataRetrCount \in 0 .. DataRetries
             /\ sock[h].size \in 0 .. 1 /\ sock[h].wrote \in 0 .. 1
             /\ sock[h].got \in 0 .. 1
             /\ sock[h].next \in Nat /\ sock[h].high \in Nat /\ sock[h].head \in Nat
             /\ sock[h].rx.next \in Nat /\ sock[h].retx \in Timers
             /\ sock[h].told \subseteq Tidings /\ ~sock[h].connected
  <2>1. SynRetries \in Nat /\ DataRetries \in Nat
    BY ConnectionAssumption
  <2> QED BY <1>1, <2>1, FreshIs, NewBuffer DEF States, Timers, NoTimers
<1>2. ASSUME NEW h \in Hosts, ~Fresh(sock[h])
      PROVE  /\ sock[h].state \in States
             /\ sock[h].synCount \in 0 .. SynRetries
             /\ sock[h].dataRetrCount \in 0 .. DataRetries
             /\ sock[h].size \in 0 .. 1 /\ sock[h].wrote \in 0 .. 1
             /\ sock[h].got \in 0 .. 1
             /\ sock[h].next \in Nat /\ sock[h].high \in Nat /\ sock[h].head \in Nat
             /\ sock[h].rx.next \in Nat /\ sock[h].retx \in Timers
             /\ sock[h].told \subseteq Tidings
             /\ sock[h].connected => sock[h].rx.next >= 1
  <2>1. Basic(sock[h], Rest(h))
    BY <1>2 DEF ConnectionInv, Sockets, Good
  <2> QED BY <2>1 DEF Basic, Typed, SmallBuffer
<1>3. TypeOK
  <2> SUFFICES ASSUME NEW h \in Hosts
               PROVE  /\ sock[h].state \in States
                      /\ sock[h].synCount \in 0 .. SynRetries
                      /\ sock[h].dataRetrCount \in 0 .. DataRetries
                      /\ sock[h].size \in 0 .. 1 /\ sock[h].wrote \in 0 .. 1
                      /\ sock[h].got \in 0 .. 1
                      /\ \A n \in {"next", "high", "head"} : sock[h][n] \in Nat
                      /\ sock[h].rx.next \in Nat
                      /\ sock[h].retx \in Timers /\ sock[h].told \subseteq Tidings
    BY DEF TypeOK, Timers, Tidings
  <2> QED BY <1>1, <1>2
<1>4. \A h \in Hosts : sock[h].connected =>
          sock[h].rx.next > 0 /\ sock[Peer(h)].rx.next > 0
  <2> SUFFICES ASSUME NEW h \in Hosts, sock[h].connected
               PROVE  sock[h].rx.next > 0 /\ sock[Peer(h)].rx.next > 0
    OBVIOUS
  <2>1. sock[h].rx.next >= 1 /\ sock[Peer(h)].rx.next >= 1
    BY <1>1, <1>2 DEF ConnectionInv, Met
  <2>2. sock[h].rx.next \in Nat /\ sock[Peer(h)].rx.next \in Nat
    BY <1>1, <1>2, PeerIs
  <2> QED BY <2>1, <2>2
<1> QED BY <1>3, <1>4 DEF Agreement

\* A socket counts as connected only once each end has the other's SYN, whatever is
\* lost, delayed, reordered or repeated and whoever connects (ProcessSynSent,
\* ProcessSynRcvd, SendEmptyPacket, Listen), and no retry counter goes below none.
THEOREM BothEndsAgree == ASSUME OneLife PROVE Spec => []Agreement
<1>1. Init => ConnectionInv
  BY InitIs
<1>2. ConnectionInv /\ [Next]_vars => ConnectionInv'
  BY StepKeeps
<1>3. ConnectionInv => Agreement
  BY InvIsAgreement
<1> QED BY <1>1, <1>2, <1>3, PTL DEF Spec

\* What waits for an answer has a timer running, whichever handler cancelled the last
\* one, and a socket without an end point has none (SendEmptyPacket, NewAck,
\* ReTxTimeout, LastAckTimeout, TimeWait, CancelAllTimers).
THEOREM TimersAlwaysRun == ASSUME OneLife PROVE Spec => []Timed
<1>1. Init => ConnectionInv
  BY InitIs
<1>2. ConnectionInv /\ [Next]_vars => ConnectionInv'
  BY StepKeeps
<1>3. ConnectionInv => Timed
  BY InvIsTimed
<1> QED BY <1>1, <1>2, <1>3, PTL DEF Spec
=============================================================================
