---------------------------- MODULE TransmitPath ----------------------------
(***************************************************************************)
(* What happens to a packet between IP and the far end of a point-to-point *)
(* link: TrafficControlLayer::Send, the root queue disc (pfifo_fast), the  *)
(* flow control of the device's transmission queues (NetDeviceQueue, with  *)
(* byte queue limits or without), the device queue, the transmitter and    *)
(* the channel.                                                            *)
(*                                                                         *)
(* Every callback of the code runs inside the event that triggers it, so   *)
(* an action is one event: a packet from IP, the ScheduleNow event of a    *)
(* dequeued packet, the end of a transmission, an arrival.                 *)
(***************************************************************************)
EXTENDS Integers, FiniteSets, Sequences

CONSTANTS
  Kinds,        \* socket priority and size (without the PPP header) of the packets
  MaxSends,     \* bound: packets that are sent, by the number of queues
  QueueCounts,  \* numbers of transmission queues a device may have
  Units,        \* units of the device queue's MaxSize: "packets", "bytes"
  Limited,      \* whether byte queue limits are installed (subset of BOOLEAN)
  DiscSize,     \* MaxSize of the queue disc, in packets
  DeviceSize,   \* [Units -> Nat]: MaxSize of a device queue
  MinLimit, MaxLimit, \* bounds of the dynamic queue limit
  Mtu, PppHeader,     \* MTU and size of the PPP header
  Quotas        \* how many packets one Run of the queue disc may send

ASSUME TransmitAssumption ==
  /\ Kinds \subseteq [priority : 0..15, size : 1..Mtu]
  /\ {DiscSize, Mtu} \cup Quotas \subseteq Nat \ {0}
  /\ {MinLimit, MaxLimit, PppHeader} \subseteq Nat /\ MinLimit =< MaxLimit
  /\ Units \subseteq {"packets", "bytes"} /\ Limited \subseteq BOOLEAN
  /\ QueueCounts \subseteq Nat \ {0} /\ \A u \in Units : DeviceSize[u] \in Nat \ {0}
  /\ \A k \in QueueCounts : MaxSends[k] \in Nat

VARIABLES
  s,     \* the node's traffic control layer, queue disc, device and channel
  got,   \* packets the far end handed to its upper layer
  lost   \* ids of the packets its error model took

vars == <<s, got, lost>>

Bands == 0..2
NoSlack == 2147483647            \* UINTMAX
Posdiff(a, b) == IF a > b THEN a - b ELSE 0
Larger(a, b) == IF a > b THEN a ELSE b
Smaller(a, b) == IF a < b THEN a ELSE b

Total(w) ==
  LET sum[i \in 0..Len(w)] == IF i = 0 THEN 0 ELSE sum[i - 1] + w[i]
  IN sum[Len(w)]

Bytes(q) == Total([i \in 1..Len(q) |-> q[i].size])

-----------------------------------------------------------------------------
(* DynamicQueueLimits: how many bytes a device queue may hold.             *)

ResetLimits ==
  [limit |-> 0, queued |-> 0, completed |-> 0, lastObj |-> 0, prevQueued |-> 0,
   prevLastObj |-> 0, prevOver |-> 0, lowestSlack |-> NoSlack, adjLimit |-> 0]

Available(l) == l.adjLimit - l.queued

Queued(l, count) == [l EXCEPT !.lastObj = count, !.queued = @ + count]

\* The limit follows what the transmitter completes: it grows when the queue
\* starved and shrinks by the smallest slack seen while the hold time ran.
Completed(l, count, held) ==
  LET completed == l.completed + count
      over == Posdiff(l.queued - l.completed, l.limit)
      inProgress == l.queued - completed
      prevInProgress == l.prevQueued - l.completed
      allPrevCompleted == completed >= l.prevQueued
      starved == (over > 0 /\ inProgress = 0) \/ (l.prevOver > 0 /\ allPrevCompleted)
      busy == ~starved /\ inProgress > 0 /\ prevInProgress > 0 /\ ~allPrevCompleted
      lastObjs == IF l.prevOver > 0 THEN Posdiff(l.prevLastObj, l.prevOver) ELSE 0
      slack == Larger(Posdiff(l.limit + l.prevOver, 2 * count), lastObjs)
      lowest == Smaller(slack, l.lowestSlack)
      wanted == CASE starved -> l.limit + Posdiff(completed, l.prevQueued) + l.prevOver
                  [] busy /\ held -> Posdiff(l.limit, lowest)
                  [] OTHER -> l.limit
      limit == Smaller(Larger(wanted, MinLimit), MaxLimit)
  IN [l EXCEPT !.limit = limit,
               !.adjLimit = limit + completed,
               !.prevOver = IF limit # l.limit THEN 0 ELSE over,
               !.prevLastObj = l.lastObj,
               !.completed = completed,
               !.prevQueued = l.queued,
               !.lowestSlack = CASE starved \/ (busy /\ held) -> NoSlack
                                 [] busy /\ ~held -> lowest
                                 [] OTHER -> @]

-----------------------------------------------------------------------------
(* The device queue, its flow control and the transmitter.                 *)

IsStopped(n, q) == n.dev[q].byDevice \/ n.dev[q].byLimits

WouldOverflow(n, q, packets, bytes) ==
  IF n.unit = "packets"
  THEN Len(n.dev[q].items) + packets > DeviceSize[n.unit]
  ELSE Bytes(n.dev[q].items) + bytes > DeviceSize[n.unit]

NotifyQueuedBytes(n, q, bytes) ==
  IF ~n.limited THEN n
  ELSE LET l == Queued(n.dev[q].limits, bytes)
       IN [n EXCEPT !.dev[q].limits = l, !.dev[q].byLimits = @ \/ Available(l) < 0]

PacketEnqueued_NoHeadroom(n, q, p) ==      \* mutant: stops one packet late
  LET m == NotifyQueuedBytes(n, q, p.size)
  IN [m EXCEPT !.dev[q].byDevice = @ \/ WouldOverflow(m, q, 0, 0)]

PacketEnqueued(n, q, p) ==
  LET m == NotifyQueuedBytes(n, q, p.size)
  IN [m EXCEPT !.dev[q].byDevice = @ \/ WouldOverflow(m, q, 1, Mtu)]

\* The dequeued packet goes on the wire; the ScheduleNow event that tells the
\* flow control about it runs later.
TransmitStart(n, q) ==
  LET p == Head(n.dev[q].items)
  IN [n EXCEPT !.dev[q].items = Tail(@),
               !.now = Append(@, [queue |-> q, bytes |-> p.size]),
               !.busy = TRUE,
               !.air = Append(@, p)]

\* PointToPointNetDevice::Send: the PPP header is part of what is queued. A
\* packet that finds no room is discarded, and stops the queue.
DeviceSend(n, q, p) ==
  LET framed == [p EXCEPT !.size = @ + PppHeader]
      queued == PacketEnqueued([n EXCEPT !.dev[q].items = Append(@, framed)], q, framed)
  IN CASE WouldOverflow(n, q, 1, framed.size) ->
            [n EXCEPT !.dev[q].byDevice = TRUE, !.discarded = @ \cup {p.id}]
       [] ~WouldOverflow(n, q, 1, framed.size) /\ n.busy -> queued
       [] OTHER -> TransmitStart(queued, q)

-----------------------------------------------------------------------------
(* The queue disc. Its requeued packet (none or one) counts no longer as   *)
(* one of its packets.                                                     *)

prio2band(priority) ==
  <<1, 2, 2, 2, 1, 2, 0, 0, 1, 1, 1, 1, 1, 1, 1, 1>>[priority + 1]

NPackets(n) == Len(n.bands[0]) + Len(n.bands[1]) + Len(n.bands[2])

Enqueue(n, p) ==
  IF NPackets(n) >= DiscSize THEN [n EXCEPT !.dropped = @ \cup {p.id}]
  ELSE [n EXCEPT !.bands[prio2band(p.priority)] = Append(@, p)]

\* The band pfifo_fast serves: the lowest one that has a packet.
NextBand(n) ==
  CHOOSE b \in Bands : n.bands[b] # <<>> /\ \A c \in 0..(b - 1) : n.bands[c] = <<>>

DequeuePacket_Passes(n) ==   \* mutant: a stopped requeued packet is passed
  LET none == [n |-> n, item |-> <<>>] IN
  IF n.requeued # <<>> /\ ~IsStopped(n, n.requeued[1].txq)
  THEN [n |-> [n EXCEPT !.requeued = <<>>], item |-> n.requeued]
  ELSE IF NPackets(n) > 0 /\ (Cardinality(DOMAIN n.dev) > 1 \/ ~IsStopped(n, 0))
       THEN [n |-> [n EXCEPT !.bands[NextBand(n)] = Tail(@)],
             item |-> <<Head(n.bands[NextBand(n)])>>]
       ELSE none

\* A requeued packet goes first, and nothing goes while its queue is stopped.
DequeuePacket(n) ==
  LET none == [n |-> n, item |-> <<>>] IN
  IF n.requeued # <<>>
  THEN IF IsStopped(n, n.requeued[1].txq) THEN none
       ELSE [n |-> [n EXCEPT !.requeued = <<>>], item |-> n.requeued]
  ELSE IF NPackets(n) > 0 /\ (Cardinality(DOMAIN n.dev) > 1 \/ ~IsStopped(n, 0))
       THEN [n |-> [n EXCEPT !.bands[NextBand(n)] = Tail(@)],
             item |-> <<Head(n.bands[NextBand(n)])>>]
       ELSE none

Requeue_Tail(n, p) ==        \* mutant: back to the end of its band
  [n EXCEPT !.bands[prio2band(p.priority)] = Append(@, p)]

Requeue(n, p) == [n EXCEPT !.requeued = <<p>>]

\* Whether Run goes on depends on the queue of the packet just sent.
Transmit(n, p) ==
  IF IsStopped(n, p.txq) THEN [n |-> Requeue(n, p), more |-> FALSE]
  ELSE LET m == DeviceSend(n, p.txq, p)
       IN [n |-> m, more |-> NPackets(m) > 0 /\ ~IsStopped(m, p.txq)]

Restart(n) ==
  LET d == DequeuePacket(n)
  IN IF d.item = <<>> THEN [n |-> n, more |-> FALSE] ELSE Transmit(d.n, d.item[1])

\* Run sends until Restart has nothing more to send or the quota is used up, in
\* which case nothing starts the queue disc again. run[k]: after k packets.
RunOn(n, quota) ==
  LET run[k \in 0..quota] ==
        IF k = 0 THEN [n |-> n, more |-> TRUE]
        ELSE LET before == run[k - 1]
             IN IF before.more THEN Restart(before.n) ELSE before
  IN IF run[quota].more THEN [run[quota].n EXCEPT !.ranOut = TRUE] ELSE run[quota].n

Run(n) == RunOn([n EXCEPT !.ranOut = FALSE], n.quota)

-----------------------------------------------------------------------------
(* Waking the queue disc. The callback is gone once the disc is deleted.   *)

WakeCallback(n) == IF n.root THEN Run(n) ELSE n

Wake(n, q) ==
  LET m == [n EXCEPT !.dev[q].byDevice = FALSE]
  IN IF n.dev[q].byDevice THEN WakeCallback(m) ELSE m

NotifyTransmittedBytes_Late(n, q, bytes, held) ==  \* mutant: never wakes
  LET l == Completed(n.dev[q].limits, bytes, held)
  IN IF ~n.limited THEN n
     ELSE [n EXCEPT !.dev[q].limits = l,
                    !.dev[q].byLimits = @ /\ Available(l) < 0]

NotifyTransmittedBytes(n, q, bytes, held) ==
  LET l == Completed(n.dev[q].limits, bytes, held)
      m == [n EXCEPT !.dev[q].limits = l]
      free == [m EXCEPT !.dev[q].byLimits = FALSE]
  IN IF ~n.limited THEN n
     ELSE IF Available(l) < 0 THEN m
     ELSE IF n.dev[q].byLimits THEN WakeCallback(free) ELSE free

PacketDequeued_NoLimits(n, q, bytes, held) ==      \* mutant: BQL not told
  IF WouldOverflow(n, q, 1, Mtu) THEN n ELSE Wake(n, q)

\* The event of a dequeued packet: byte queue limits first, then the room.
PacketDequeued(n, q, bytes, held) ==
  LET m == NotifyTransmittedBytes(n, q, bytes, held)
  IN IF WouldOverflow(m, q, 1, Mtu) THEN m ELSE Wake(m, q)

-----------------------------------------------------------------------------
(* The actions.                                                            *)

Queue == [items |-> <<>>, byDevice |-> FALSE, byLimits |-> FALSE, limits |-> ResetLimits]

Init ==
  /\ \E u \in Units, b \in Limited, k \in QueueCounts, quota \in Quotas :
       s = [unit |-> u, limited |-> b, quota |-> quota, root |-> TRUE,
            bands |-> [i \in Bands |-> <<>>], requeued |-> <<>>, ranOut |-> FALSE,
            dev |-> [q \in 0..(k - 1) |-> Queue],
            busy |-> FALSE, now |-> <<>>, air |-> <<>>, sent |-> 0,
            dropped |-> {}, discarded |-> {}, abandoned |-> {}]
  /\ got = <<>>
  /\ lost = {}

\* Where a packet may be, in stages from the far end back to IP: it has arrived,
\* is on the wire, in a device queue, requeued, or in a band of the queue disc.
Places(n) ==
  {<<0, 0>>, <<1, 0>>, <<3, 0>>} \cup ({2} \X DOMAIN n.dev) \cup ({4} \X Bands)

Line(n, arrived, place) ==
  CASE place[1] = 0 -> arrived
    [] place[1] = 1 -> n.air
    [] place[1] = 2 -> n.dev[place[2]].items
    [] place[1] = 3 -> n.requeued
    [] place[1] = 4 -> n.bands[place[2]]

Ids(q) == {q[i].id : i \in 1..Len(q)}

\* IP hands a packet over. Without a queue disc it goes to the device at once,
\* and is dropped when the queue is stopped.
Send ==
  /\ s.sent < MaxSends[Cardinality(DOMAIN s.dev)]
  /\ \E kind \in Kinds, q \in DOMAIN s.dev :
       LET p == [id |-> s.sent + 1, priority |-> kind.priority, size |-> kind.size, txq |-> q]
           n == [s EXCEPT !.sent = @ + 1]
       IN s' = CASE s.root -> Run(Enqueue(n, p))
                 [] ~s.root /\ ~IsStopped(n, q) -> DeviceSend(n, q, p)
                 [] ~s.root /\ IsStopped(n, q) -> [n EXCEPT !.dropped = @ \cup {p.id}]
  /\ UNCHANGED <<got, lost>>

\* The ScheduleNow event of the oldest dequeued packet.
Now ==
  /\ s.now # <<>>
  /\ LET e == Head(s.now) IN
     \E held \in BOOLEAN :
       s' = PacketDequeued([s EXCEPT !.now = Tail(@)], e.queue, e.bytes, held)
  /\ UNCHANGED <<got, lost>>

\* A transmission takes time, so what was scheduled for its start has run. The
\* transmitter goes on with the next packet of the device.
TransmitComplete ==
  /\ s.busy /\ s.now = <<>>
  /\ LET idle == [s EXCEPT !.busy = FALSE]
         ready == {q \in DOMAIN s.dev : s.dev[q].items # <<>>}
     IN \/ ready = {} /\ s' = idle
        \/ \E q \in ready : s' = TransmitStart(idle, q)
  /\ UNCHANGED <<got, lost>>

\* A packet started at this very instant is not there yet. The far end may lose
\* a packet to its error model.
Receive ==
  /\ Len(s.air) > Len(s.now)
  /\ s' = [s EXCEPT !.air = Tail(@)]
  /\ \/ got' = Append(got, Head(s.air)) /\ lost' = lost
     \/ got' = got /\ lost' = lost \cup {Head(s.air).id}

\* DeleteRootQueueDiscOnDevice. What the queue disc still holds is destroyed with
\* it (DoDispose): no trace and no statistic says so.
DeleteRoot ==
  /\ s.root
  /\ s' = [s EXCEPT !.root = FALSE, !.ranOut = FALSE, !.requeued = <<>>,
                    !.bands = [b \in Bands |-> <<>>],
                    !.abandoned = Ids(s.requeued)
                                    \cup UNION {Ids(s.bands[b]) : b \in Bands}]
  /\ UNCHANGED <<got, lost>>

Next == Send \/ Now \/ TransmitComplete \/ Receive \/ DeleteRoot

\* The scheduler runs what it holds. A Now step leaves no event behind, so to say
\* that pending events run is to say that there is none again and again.
Fairness == []<>(s.now = <<>>) /\ WF_vars(TransmitComplete) /\ WF_vars(Receive)

Spec == Init /\ [][Next]_vars /\ Fairness

-----------------------------------------------------------------------------
(* Properties.                                                             *)

\* What the ScheduleNow events of queue q have still to report.
Unreported(n, q) ==
  Total([i \in 1..Len(n.now) |-> IF n.now[i].queue = q THEN n.now[i].bytes ELSE 0])

\* Type correctness, with the capacities of the queues: a queue disc holds its
\* MaxSize and one requeued packet more, a device queue its MaxSize.
TypeOK ==
  /\ NPackets(s) =< DiscSize /\ Len(s.requeued) =< 1
  /\ \A q \in DOMAIN s.dev : ~WouldOverflow(s, q, 0, 0)
  /\ Len(s.now) =< 1 /\ (s.now # <<>> => s.busy)
  /\ \A x \in Places(s) : \A i \in 1..Len(Line(s, got, x)) :
       LET p == Line(s, got, x)[i]
       IN p.id \in 1..s.sent /\ p.size \in 1..(Mtu + PppHeader)

\* What became of the packets that are nowhere: the queue disc or IP dropped it, the
\* device discarded it, the far end lost it (each with a trace), or it went with the
\* queue disc.
Fates(n, l) == <<n.dropped, n.discarded, l, n.abandoned>>

\* Every packet IP handed over is in exactly one place (it waits, is on its way or has
\* arrived once) or met exactly one fate, whatever is requeued, runs on the quota or
\* is woken from two causes; and no queue holds more than it may. While there is a
\* queue disc none vanishes without a trace: only deleting it destroys packets,
\* those it held then.
Conserved ==
  LET here == UNION {Ids(Line(s, got, x)) : x \in Places(s)}
      fates == Fates(s, lost)
      out == UNION {fates[k] : k \in DOMAIN fates}
  IN /\ TypeOK
     /\ \A x, y \in Places(s) :
          \A i \in 1..Len(Line(s, got, x)), j \in 1..Len(Line(s, got, y)) :
            Line(s, got, x)[i].id = Line(s, got, y)[j].id => x = y /\ i = j
     /\ \A k, m \in DOMAIN fates : k # m => fates[k] \cap fates[m] = {}
     /\ here \cap out = {}
     /\ here \cup out = 1..s.sent
     /\ s.root => s.abandoned = {}

\* Packets of one band and one transmission queue arrive in the order in which
\* they were sent, whatever was requeued, stopped and woken on the way.
InOrder ==
  \A i, j \in DOMAIN got :
    i < j /\ got[i].txq = got[j].txq
          /\ prio2band(got[i].priority) = prio2band(got[j].priority)
      => got[i].id < got[j].id

\* A device queue in packet mode is stopped in time: no packet is discarded for
\* lack of room (net-device-queue-interface.h:389 "This should not happen").
NothingDiscarded == s.unit = "packets" => s.discarded = {}

\* The byte queue limits count what the device holds and what its ScheduleNow
\* event has not yet reported: no more is ever completed than was queued (the
\* assertion of Completed), and the queue is held by the limits only while they
\* are exceeded. (They may shrink below what is queued without stopping it.)
LimitsAgree ==
  s.limited =>
    \A q \in DOMAIN s.dev :
      LET l == s.dev[q].limits
      IN /\ l.queued - l.completed = Bytes(s.dev[q].items) + Unreported(s, q)
         /\ s.dev[q].byLimits => Available(l) < 0

\* The flow control never leaves a packet behind: as long as no Run stopped on
\* its quota, everything that waits in the queue disc or the device is sent, for
\* each stop of a queue is followed by a wake.
Drains == []<>(s.ranOut \/ \A x \in Places(s) : x[1] >= 2 => Line(s, got, x) = <<>>)
=============================================================================
