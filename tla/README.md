# SplineCC in TLA+

This directory specifies, model-checks and proves properties of the TCP in this
repository and of the simulator it runs in: the SplineCC congestion-control
algorithm, the ns-3 transport around it, the path of a packet from the transport
to the far end of a link, and the event loop that drives them all. The
repository is a copy of ns-3.40 in which SplineCC
(`src/src/internet/model/spline-cc.{h,cc}`) and an experiment script
(`src/scratch/dumbbell-my.cc`) are new and the rest is ns-3. File names without
a directory are those of `src/src/internet/model/`, and, for the simulator,
`src/src/core/model/`.

## 1. The system

ns-3 is a discrete-event simulator: events run one at a time, each to its end,
in the order of their time. Protocol code sees no threads; the event loop itself
does, for other threads may hand events over (`ScheduleWithContext`). What makes
the transport hard is the order in which events come: segments and
acknowledgments that are lost, duplicated, delayed or overtaken, timers that
expire between them, and handlers that each update several records of the same
fact (flags and counters, a window in bytes and in segments, a next sequence and
a highest sequence).

| Component | State | Operations | Interacts with |
|---|---|---|---|
| **SplineCC** (`spline-cc`) | `m_state`: mode, law, epoch counter, RTT and ACK measurements, window in segments, bandwidth | `PktsAcked`, `IncreaseWindow`, `GetSsThresh`, `CwndEvent` | called by TcpSocketBase; reads and writes the shared `TcpSocketState` (`m_tcb`) |
| **TcpSocketBase, loss recovery and sending** (`tcp-socket-base`) | `m_tcb` (window, threshold, congestion state), duplicate count, recovery point, RTO, retries, timers | `ReceivedAck`, `ProcessAck`, `DupAck`, `EnterRecovery`, `ReTxTimeout`, `SendPendingData`, `DoRetransmit`, `PersistTimeout` | both buffers, congestion control, recovery algorithm, IP |
| **Transmission buffer** (`tcp-tx-buffer`, `tcp-tx-item`) | unsent bytes, sent items with sacked/lost/retransmitted flags, three byte counters, highest SACK | `Add`, `CopyFromSequence`, `Update`, `DiscardUpTo`, `NextSeg`, `IsLost`, `SetSentListLost`, `AddRenoSack`, ... | driven by TcpSocketBase |
| **Receive buffer** (`tcp-rx-buffer`) | stored fragments, next expected sequence, FIN, SACK list | `Add`, `Extract`, `SetFinSequence` | driven by TcpSocketBase; its SACK list becomes the sender's `Update` |
| **Recovery algorithms** (`tcp-recovery-ops`, `tcp-prr-recovery`) and **NewReno** (`tcp-congestion-ops`) | bytes delivered and sent since the loss | `EnterRecovery`, `DoRecovery`, `ExitRecovery`, `UpdateBytesSent`; `IncreaseWindow`, `GetSsThresh` | set the window and the threshold |
| **Connection set-up and close** (`tcp-socket-base`, `tcp-l4-protocol`) | RFC 793 state, end points, SYN and FIN retries, LAST_ACK and TIME_WAIT timers, what the application was told | `Connect`, `Listen`, `CompleteFork`, `Close`, `ShutdownSend`, `ProcessSynSent`, ..., `SendRST` | both buffers, the application |
| **Event loop** (`default-simulator-impl`) | event list, clock, uid, stop flag, destroy events; a mutexed list of events from other threads and a flag read without the mutex | `Schedule`, `Cancel`, `Remove`, `Stop`, `ScheduleWithContext`, `Run`, `Destroy` | a scheduler; every model and every thread |
| **Schedulers** (`list-`, `map-`, `heap-`, `calendar-`, `priority-queue-scheduler`) | the event list | `Insert`, `RemoveNext`, `Remove` | the event loop |
| **Traffic control and link** (`traffic-control-layer`, `queue-disc`, `pfifo-fast-queue-disc`, `net-device-queue-interface`, `queue-limits`, `point-to-point-net-device`) | queue disc with a requeued packet, device queues that are stopped and woken, byte queue limits, transmitter | `Send`, `Run`, `Restart`, `Requeue`, `Wake`, `TransmitComplete`, `Receive` | IP above, the link below, the event loop (`ScheduleNow`) |
| **BBR, rate sampling, RTT estimator, other congestion controls, headers, factories, IP, other queue discs, the experiment script, the other ns-3 modules** | | | not modelled (section 6) |

`PROJECT.json` lists every part with its status, and every hazard with the
properties that would catch it.

### What has to be right, and what is hard

* SplineCC: the byte window by which the socket sends is the one the algorithm
  computed, and nothing but overflow empties it; the mode machine visits the modes its
  documentation names, at the times it names; the threshold it returns is in the
  unit the socket uses. Hard: uint32_t overflow, doubles truncated to integers,
  fields written by one hook and read by another several events later.
* Transmission buffer: counters equal what the flags say, whatever order the
  operations come in; a byte is never both sacked and lost. Hard: items are
  split and merged, flags move with them.
* Sender: never more in flight than the window allows; no byte that the receiver
  reported is sent again; the threshold is lowered once for each loss; it never
  stalls with data to send and no timer.
* Receive buffer: what is delivered is a prefix of what was sent, without gaps
  or repeats; a SACK block never covers a byte that is not stored.
* Connection: every attempt ends; the end of stream means all data is there;
  whatever waits for an answer has a timer; late segments of an old exchange do
  not disturb a connection. Hard: two state machines, four timers, refusals, and
  callbacks in which the application closes the socket that is being served.
* Event loop: time never goes back; `IsExpired` is exact though it only compares
  numbers; nothing handed over by a thread is overlooked. Hard: a flag read
  without the mutex, events that cancel or remove others, destroy events that
  schedule destroy events.
* Schedulers: the earliest event comes next, through every resize of the
  calendar and every removal from the heap.
* Traffic control: while there is a queue disc no packet is lost without a
  trace; none is copied or overtaken; each stop of a queue followed by a wake. Hard: two reasons for a stop, a queue disc
  with a packet in hand, callbacks that run the queue disc from inside a
  transmission.

## 2. Modules

| Module | Models | State and actions |
|---|---|---|
| `SplineCCLaw` | the arithmetic of `spline-cc.cc` as pure operators, one per function | none |
| `SplineCC` | the algorithm in its socket | `m`, `tcb`, `dupAckCount`; one action per path through `ProcessAck` and `ReTxTimeout` that reaches a hook |
| `TcpRxBuffer` | `tcp-rx-buffer.cc` as operators on a record | none |
| `TcpRxBufferLoops` | the loops of `Add`, `UpdateSackList` and `Extract`, statement by statement | none |
| `TcpReceiver` | the receiving half of `tcp-socket-base.cc` from ESTABLISHED on | `sock`, `edge`; `Arrive`, `DelAckTimeout`, `Read`, `Close`, `ShutdownSend` |
| `ReceiveStream` | what a receiver promises: the abstract specification `TcpReceiver` implements | `have`, `out`, `acked`, `gone` |
| `TcpTxBuffer` | `tcp-tx-buffer.cc` as operators on a record | none |
| `TcpCongestion` | NewReno, classic recovery and PRR as operators on the socket | none |
| `TcpSender` | the sending half of `tcp-socket-base.cc` in ESTABLISHED, with a network and a receiver | `sock`, `wire`, `held`, `edge`, `late`; `Send`, `SendPendingEvent`, `ReTxTimeout`, `PersistTimeout`, `Deliver`, `DeliverOnly`, `LateAck` |
| `TcpConnection` | set-up and close at both ends, over a network | `sock`, `net`, `listening`, `forks`; `Connect`, `Send`, `Close`, `ShutdownSend`, `Read`, `CloseListener`, `ConnectionSucceeded`, `CompleteFork`, the timers, `Deliver`, `ProcessListen`, `NoEndPointsFound`, `Lose` |
| `Simulator` | `default-simulator-impl.cc`, its main thread and other threads | the members of the class; an action per call and per step of the loop |
| `EventList` | what a scheduler promises and how the event loop uses it: implemented by `Simulator` and by the schedulers | `events`, `last`; `Insert`, `RemoveNext`, `Remove`, `Dispose` |
| `HeapScheduler` | the binary heap as operators | none |
| `EventSchedulers` | list, heap and calendar side by side under the same calls | `events`, `list`, `heap`, `calendar`, `uid`, `now`, `removed`, `taken` |
| `TransmitPath` | traffic control, device queues, byte queue limits, device, channel | `s`, `got`, `lost`; `Send`, `Now`, `TransmitComplete`, `Receive`, `DeleteRoot` |
| `TcpSenderInv` | the inductive invariant of `TcpSender` and the relations its operations establish, used in the proofs | |
| `SplineCCProofs`, `TcpReceiverProofs`, `TcpSenderProofs`, `TcpConnectionProofs`, `SimulatorProofs`, `EventSchedulersProofs`, `TransmitPathProofs` | theorems and lemmas | |
| `InductionFacts` | lemmas: induction and recursion over numbers and finite sets, stated for sets; pieces of sequences | |
| `MC...` | inputs and symmetry for model checking | |

### SplineCC

`m` is the C++ `m_state` field by field, without the fields that are written and
never read (`last_cwnd`, `last_max_cwnd`, `next_cwnd`, `pacing_rate`). `tcb`
holds the part of `TcpSocketState` that outlives a handler. An action is a whole
handler: for instance `ExitRecovery` is `EstimateRtt`, `PktsAcked`, the window
set to the threshold, and `IncreaseWindow` with everything that calls, in that
order. What the rest of the connection contributes to a handler (bytes in
flight, bytes delivered, segments acknowledged, the smoothed RTT, the window
chosen by the recovery algorithm) is chosen from finite sets; in the proofs the
sets are arbitrary.

Machine arithmetic is kept: `U32` wraps; a quotient computed in double and
truncated may come out one too small when it is exact (`cwnd_next_gain` divides
and multiplies by the same number: about one exact quotient in five loses one
segment on x86-64); a double out of range converted to `uint32_t` is undefined
and yields the low word, zero or the largest value.

Points where the model had to decide:

* `min_cwnd` is used by the `.cc` file and missing from the header; it is taken
  to be a `uint32_t`. `OnPacketLoss` is defined in neither the interface nor any
  caller and is not modelled.
* CA_CWR needs ECN, which TcpSocketBase has off by default; `CwndEvent` acts on
  CA_EVENT_CWND_RESTART only, "Not triggered" (`tcp-socket-state.h:100`).
* The pacing rate that `pacing_gain_rate` stores is overwritten by
  `UpdatePacingRate` (`tcp-socket-base.cc:2223`) in the same handler; only the
  flag `m_pacing` lasts, and only the flag is modelled.
* The `overload_*` branches of `prob_bw` and `prob_rtt` are behind two
  conditions that cover all cases and are left out; what the `stable_*` and
  `fairness_*` branches compute is kept, and then discarded by `cwnd_next_gain`,
  as in the code.

### Receiver

A packet is the sequence of its bytes, and a byte is named by its place in the
peer's stream, so a fragment stored under a wrong sequence number is a fragment
with the wrong bytes and `ReceivesStream` sees it. `rx` is the C++ object field
by field. `TcpRxBuffer` states what `Add` and `Extract` compute without their
loops (fragments never overlap, so the outcome has a closed form);
`TcpRxBufferLoops` keeps the loops with their early exits and mutating iterators,
and `LoopsAgree` compares the two in every reachable buffer for every segment
that can arrive there.

`sock` holds the socket's fields. A handler is an operator from `sock` to
`sock`, one per C++ function, composed in the order of the calls; the ACKs it
sends are collected in `sock.replies`. The peer is any sender that keeps to the
window it was given, over any network: `Segments` is every piece of its stream
below the highest right edge ever advertised (`edge`, a history variable), in
any cut and as often as the network likes, the FIN alone or with the last piece,
and `Probes` the byte a persist timer sends beyond a closed window.

What is left out, and what it excludes:

* sequence numbers do not wrap at 2^32;
* ECN is off, and this end sends no data: its FIN goes out as soon as it closes
  (`TcpConnection` has data and closing in both directions);
* the receive callback reads nothing or everything and never closes the socket
  (in `TcpConnection` it may);
* the socket starts as the handshake leaves it (`ProcessSynRcvd`): the count of
  delayed ACKs is at its limit, so the first segment is acknowledged at once;
* `ShutdownRecv` is not called; the 16-bit limit of the window field is not
  reached (its scaling is modelled: `Scaled`);
* CLOSING and LAST_ACK accept no data: they end the model.

### Sender

`tx` is the C++ buffer: the list of sent items with their three flags, the three
counters kept beside the flags, and the first byte of the item `m_highestSack`
points to. Unsent bytes carry no flags and are a number. As in the receiver a
handler is an operator from `sock` to `sock`, one per C++ function, composed in
the order of the calls; the segments it sends are collected in `sock.out`.
`SendPendingData` is the C++ loop, a recursive function of its turns (`SendTurn`): a
turn with nothing to send changes nothing, and twice as many turns as there are bytes
are enough, since a turn sends a byte for the first time or sends one more item again.

Around the sender: `wire` holds every segment ever sent, so that the network may
lose, repeat, delay and reorder at will. `held` and `edge` are the receiver: the
bytes it has and the right edge of its window, which never moves left. That is
what `EdgeStable`, `Consistent` and `ReceivesStream` say of `TcpReceiver`.
Its application reads nothing, or everything. An ACK reaches the sender at once,
not at all, or late (`late`), after ACKs that were sent after it. There is no
clock: a timer that is set may expire at any time.

`TcpCongestion` sets the window. Under `"classic"` and `"prr"` it is NewReno
with that recovery algorithm, as in the code, with the unsigned counters of PRR.
Under `"any"` the window becomes any of `Windows` wherever a handler calls
congestion control or the recovery algorithm: that stands for every algorithm,
SplineCC included, of which the sender's properties must not depend.

Two outcomes end the model: DROPPED, the retries used up, and NULL_ITEM, a null
pointer used.

What is left out, and what it excludes:

* sequence numbers do not wrap; the limit of the send buffer is not reached;
* no handshake, close, data from the peer or ECN; limited transmit is on, and
  pacing off, as they are by default (SplineCC turns pacing on, which makes
  `SendPendingData` stop after one segment until a timer calls it again);
* the application writes in events of its own, never from a callback;
* the receiver's list of SACK blocks does not overflow (it does in
  `receiver_safety`);
* PRR's other bound (CRB, which nothing selects), and congestion controls that
  take over by `HasCongControl` (BBR).

### Connection

`sock[h]` is the socket of host `h` that matters: the one that connects, or the
one the listener forked last. `net` is the segments under way, each delivered,
refused by a host without an end point, or lost, in any order. Each host writes
at most one byte, so that loss recovery and windows play no part and the timers,
states and callbacks do. `Reactions` is what the application does in a callback:
nothing, or read and close, which is how a socket comes to be closed by the
handler that serves it. `ScheduleNow` events (`CompleteFork`,
`ConnectionSucceeded`) run before time moves on, that is before a timer or the
application, and before or after segments that arrive at the same instant.

Left out: a socket that connects again after its close, segments without a flag,
ECN, and the checks of addresses and ports. The initial sequence number is 0, as
in the code.

### Event loop and schedulers

`Simulator` keeps the members of `DefaultSimulatorImpl`; an event is its time and
its uid, an `EventId` is the same pair. The main thread is a program that may call
anything at any point where a callback, a destroy event or the code outside `Run`
could. Each other thread pushes and clears the flag in two steps, both under the
mutex (`Push`, `Unlock`), since `ProcessEventsWithContext` reads the flag without
it (`ReadFlag`) before it takes the mutex and swaps the lists (`Swap`).

`EventList` is what both sides agree on. From above, `Simulator` implements it
with its set of events (`ListUsed`): it inserts only later than the present, takes
only the earliest. From below, `EventSchedulers` checks that the sorted list and
the calendar implement it (`EventListKept`): they return what the set returns. The
heap does so only while nothing is removed (`HeapTakesEarliest`, and the run
`heap_remove`). `SetScheduler` may change the implementation at any point; the
events move over in their order, one by one. A loop of the code that walks the
heap, empties it or searches the calendar is a recursive function of its turns, a
fold, or the least turn at which it stops.

Left out: reference counts, contexts, the wrap of the 32-bit uid, a second
simulation after `Destroy`, and the calendar's `Reverse` mode. The map and the
priority-queue scheduler leave the work to library containers.

### Traffic control and link

Every callback runs inside the event that triggers it, so an action is one event:
IP hands a packet over, a `ScheduleNow` event reports a dequeued packet, a
transmission ends, a packet arrives, the root queue disc is deleted. `s` is the
node's traffic control layer, queue disc, device and channel. `RunOn` is the loop
of `QueueDisc::Run` with its quota, as a recursive function. Byte queue limits
grow and shrink with unsigned arithmetic as in `dynamic-queue-limits.cc`.

Left out: `Peek` and classes, filters, queue discs that are not pfifo_fast
(the helper's default root is FqCoDel), a queue disc installed or a link taken
down while the simulation runs. The guard against re-entering `Run` (`m_running`)
is never needed here, which is why the model has none.

## 3. Runs

| Run | Question | Bounds |
|---|---|---|
| `splinecc_window` | Can anything but overflow empty the byte window, after any order of ACKs, recoveries and timeouts? Does a drain ever leave more than the bandwidth estimate allows? | words of 128 values, segments of four bytes: windows overflow within a few calls, down to an empty byte window in CA_OPEN, and drains that overflow and drains that do not both occur |
| `splinecc_rtt` | When is a new minimum RTT noticed, and when does an epoch drain? | words of 16; RTTs of half a second to two seconds in half-second ticks: below, at and above the resolution |
| `splinecc_ssthresh` | Is the threshold in bytes, as `tcp-socket.h` says? (No.) | words of 32, segments of two bytes |
| `receiver_safety` | Do counters, SACK list, window and end of file stay right, does the receiver implement `ReceiveStream`, do the closed forms compute what the loops do, and is everything acknowledged in the end? | seven bytes in segments of up to three, a buffer of five, a SACK list of two blocks instead of four so that it overflows, a delayed ACK for every second segment, window units of two |
| `sender_safety` | Do the scoreboard, its counters and the congestion state stay right while items are cut, joined, SACKed, lost and sent again, under any congestion control? Is anything sent that the receiver has, or has no room for? Does the retransmission timer run whenever something is out, but for a retransmission held back after a timeout? | five bytes written two and three at a time, segments of two, a buffer of five of which four are free at first, windows of two and six, two duplicates for a loss, one retry, with and without SACK and Nagle's algorithm: both Nagle's rule and silly-window avoidance hold retransmissions back |
| `sender_recovery` | Under NewReno with classic recovery and with PRR: is what is taken for lost justified, and is the threshold lowered once for what was out at a time? | five one-byte segments, a threshold of four, with and without SACK |
| `recovery_rto` | Is the threshold lowered once for a segment that times out again, as a comment says? (No.) | six segments, two retries |
| `connection` | Two ends connect, exchange a byte and close in every order: is nothing reset by accident, is the end of stream complete, is every wait timed, does every attempt end? | two SYNs, one data retry, one fork, A writes and may shut down, B listens; what is sent while more than one other segment is under way is lost (`MaxUnderway`) |
| `simulator` | A program that schedules, cancels, removes, stops and destroys in any order, and threads that hand over events at any moment: order, expiry, the flag, nothing overlooked | two threads, one event each, delays of 0 and 1, seven uids, two destroy events; the threads are symmetric |
| `schedulers` | Do list, heap and calendar return what a set would? | times up to 4, five events: the calendar of two buckets grows to four and shrinks again, its width changes, and events lie a year or more ahead |
| `heap_remove` | Does the heap still do after `Remove`? (No.) | times up to 3, seven events: the least heap with two subtrees deep enough |
| `queueing` | Is every packet accounted for, in order, and in the end sent? | five sends with one transmission queue, four with two; a queue disc of two packets, device queues of two packets or five bytes, quotas of one and two, with and without byte queue limits |

Why the bounds are enough.

* SplineCC is finite without extra bounds: words wrap, epochs are counted to
  nine, and every other field is a function of the inputs. The word is small on
  purpose: with 2^32 values the products that overflow need long runs, with 128
  many do, and the rest of the law does not depend on it. The input sets hold
  values on both sides of each comparison the law makes.
* The receiver is bounded by `StreamLength`; everything else is bounded by the
  buffer. Three fragments at once need six bytes (a byte and a gap for each, the
  first one missing), seven leave one to merge them; nothing in the buffer
  depends on more than two neighbours of a segment.
* The sender is bounded by `StreamLength` and `DataRetries`. Two and three bytes
  in segments of two give items of one and two bytes in either order, so that a
  retransmission of two bytes has to join and cut; three items are the least for
  a loss found by SACK with a threshold of two. Recovery needs more segments of
  less detail: five of one byte, so that one recovery can end and another begin.
* The connection needs one byte: a FIN before, with and after data. With two
  segments under way before a handler answers, segments of the two ends cross
  and one overtakes the other, and an old one meets a later state. Two
  SYNs are the least for a SYN that arrives after its connection was refused.
* In the simulator two threads are the least that can meet on the mutex, and one
  event each leaves one to be handed over while the other is being merged.
* In the queueing model five sends fill the queue disc and the device queue, and
  one more is dropped; two quotas put the end of `Run` before and after the last
  packet.

Fairness. `SplineCC`, `Simulator` and the schedulers assume none: their
properties are safety properties and their environment may stop at any time.
The simulator runs every event in its queue; hence `WF` of the delayed ACK timer
in the receiver, of the timers and the send event in the sender, of each host's
timers and of `CompleteFork` and `ConnectionSucceeded` in the connection, of
`TransmitComplete` and `Receive` in the queueing model, and there of
`[]<>(s.now = <<>>)`, which says that events scheduled for now are run before
anything else goes on for ever. A timer of the connection is fair only when no
event is scheduled for now, since those come first. Nothing is assumed of the
peer, the network or the application: `AttemptEnds` holds though every segment
may be lost.

Deadlock is checked in the two passing SplineCC runs, where an ACK can always
come. Elsewhere it is not, for the system does stop: all is sent and
acknowledged, the connection is closed, the simulator destroyed, the bounded
events used up.

### Findings

Three disagreements have a run that finds them:

1. `GetSsThresh` returns segments where the socket expects bytes, so a recovery
   leaves the connection with a threshold, and then a window, of a few bytes
   (`splinecc_ssthresh`; `spline-cc.cc:446` against `tcp-socket.h:138`).
2. Each further timeout of the same segment lowers the threshold again:
   `SetSentListLost` has cleared the flag the condition asks for
   (`recovery_rto`; `tcp-socket-base.cc:3828` against 3826).
3. `HeapScheduler::Remove` lets the item it moves walk down only; if it comes
   from another subtree and is earlier than its new parent, events run out of
   order (`heap_remove`; `heap-scheduler.cc:239`).

More was seen on the way. Where a definition of the modules states the sentence
that does not hold, it is named; none of these has a run of its own.

SplineCC: on congestion `probs()` sets DRAIN_PROBE, and with it the START_PROBE
law, which may grow the window (`DrainReducesWindow`; `src/README.md:157`). RTTs
are truncated to seconds, zero means both "below a second" and "unset", so the
minimum can rise (`MinRttIsMinimum`; `src/README.md:176`). The moving average of
the bandwidth (`src/README.md:181`) is never computed, since nothing assigns
`last_bw` (theorem `FilterNeverFed`). The mode is chosen anew at every call, not
on the two conditions of `src/README.md:199`.

Receiver: a FIN segment that starts below the next expected byte is dropped
without an ACK, new bytes included (`UnacceptableAcked`;
`tcp-socket-base.cc:2629` against 1301). A FIN with data that arrives in FIN_WAIT
is placed at the head of its segment and never acknowledged (`TimeWaitAcksFin`;
2506 against 2501). The SACK list may hold one block inside another
(`tcp-rx-buffer.h:169`: "isolated blocks"; `tcp-rx-buffer.cc:281` wants blocks
"that are not subsets of a SACK block already included"), and its first block
need not contain the segment that triggered the ACK (`tcp-rx-buffer.cc:266`). The
inner block takes room: with a list of two, bytes 1 and 4 stored and then 3 to 5
leave the blocks 3-6 and 4-5, and byte 1 goes unreported though two blocks
would hold everything. `SackComplete` therefore excepts a full list; the theorem
about it was false without that.

Sender: when the bytes sent fill the receiver's window exactly, rule 2 of
`NextSeg` returns an empty range, and a SACK then leads `SendDataPacket` to use a
null pointer (`SegmentIsThere`; `tcp-tx-buffer.cc:1019` against 1011).
`PersistTimeout` does the same with no unsent byte (`tcp-socket-base.cc:3905`).
After a retransmission timeout Nagle's rule, or silly-window avoidance, holds a
short retransmission back; nothing is sent, and no timer is left (`RtoRestarts`;
3363 against `tcp-socket-base.h:192`). `NeverStalls` says that this is the only
way to have bytes out and no retransmission timer: after a timeout, with
everything out SACKed or marked lost and nothing sent again, and a send that is
scheduled or held back. A sender that waits for its window to open is not such a
state: it must have the timer). `m_highestSack` may move down (`tcp-tx-buffer.cc:832` against
`tcp-tx-buffer.h:614`). Without SACK, segments counted as SACKed on a guess stay
counted after recovery.

Recovery: PRR's `m_recoveryFlightSize` is what is unacknowledged, not what is in
flight; `m_prrDelivered - m_prrOut` is unsigned and wraps, so the slow-start
bound differs from the formula in the documentation; an ACK that both SACKs and
advances counts delivered bytes twice.

Connection: a host in LAST_ACK takes the ACK of its data for that of its FIN, when
the peer has lost the FIN (`ClosedPeacefully`; 2597 against 2598).
After `ShutdownSend` the FIN does not always go out when the buffer empties
(`FinWhenEmpty`; 808 against 807). When a FIN overtakes data and the application
closes in the receive callback, `DoPeerClose` overwrites FIN_WAIT_1 with
CLOSE_WAIT and the socket waits for ever (`WaitsForClose`; `tcp-socket.h:75`). In
a simultaneous open (`Openings = {"connect"}`, in no run) the ACK of the SYN|ACK passes
for that of the FIN, and crossing SYN|ACKs reset the connection. `Close` with
unread data sends a RST and leaves the state as it was; `Send` after
`ShutdownSend` still adds the byte; a RST|ACK is ignored in SYN_SENT; CLOSING
becomes TIME_WAIT by any ACK in sequence.

Event loop: what a thread hands over after the last event stays until the next
`Run`, or is dropped by `DoDispose`. `simulator.h` says that destroy events
cannot be cancelled, removed or tested; the code can and a test does. A `Stop`
before `Run` is lost.

Traffic control: packets left when `Run` has used up its quota wait, with an idle
device, for the next packet ("\todo netif_schedule": `Drains` excepts it with
`ranOut`). A device queue counted in bytes ignores the PPP header when it asks
whether there is room, so a full packet may be discarded after all
(`net-device-queue-interface.h:389`: "This should not happen"); `NothingDiscarded`
is stated for packet mode. `pfifo_fast` checks two of its three bands
(`CheckConfig`, `i < 2`). Deleting the root queue disc destroys its packets silently: no
drop callback, no trace, no statistic (`traffic-control-layer.cc:264`,
`queue-disc.cc:376`, `queue.h:619`). The model keeps them apart from what is
dropped with a trace (`abandoned`), and `Conserved` says that these, and no others,
go that way: none before the disc is deleted, each packet to one fate. Byte queue limits that shrink below
what is queued do not stop the queue: a stopped queue is over its limit, and the
converse, which holds in `queueing` for its small limits, does not hold in
general (`LimitsAgree` states the one direction).

## 4. Proofs

Each theorem holds for every value of the constants that its assumptions allow.

**SplineCC** (`SplineCCProofs`; `LawAssumption`, `InputAssumption`: any word,
segment size, initial window and time resolution, any inputs within a word).
`TypeCorrect`, `WindowEmptyOnlyByOverflow`, `DrainIsBounded`, `DrainsAtEpochEnd` and
`MinimumNoticedLate` are what the runs check; `ModesPaired`, `FilterNeverFed` and
`PacingNeverOff` are stated as theorems only.
`Inv`, the inductive invariant, is their conjunction with three facts none of
them states: `last_bw` is 0 from the start (not only once a window exists), the
duplicate count reaches its threshold only on entering recovery (so that the
next duplicate keeps its type), and the PROBE_RTT law implies pacing (so that a
step that does not run the law keeps it). The proof is in three layers:
arithmetic (`ConvertedType`, `ScaledType`, ...), one lemma per function of the
law (`EstimateStep`, `StartProbeStep`, `GainStep`, `DrainStep`, `SwitchStep`,
put together in `IncreaseWindowStep`), and one step per action (`NextStep`, over
`QuietStep` and `IncreaseStep` for handlers that do not and do call
`IncreaseWindow`). The two properties about time come from `StepOK`, what a step
may do to the epoch counter and to the count of new minima, which the same lemmas
carry: `PktsAcked` has always folded the sample into the minimum before
`CongControl` compares the two, unless the handler skipped it.

**Receive buffer and receiver** (`TcpReceiverProofs`; `RxBufferAssumption`,
`ReceiverAssumption`: any stream, segment, buffer, SACK
list, window unit and delayed-ACK count). `ImplementsReceiveStream`: the receiver
implements `ReceiveStream`, that is, nothing is lost, repeated, reordered or
acknowledged too early. `EndOfFileIsComplete` and `EdgeNeverMovesBack`: a FIN
counts only when the whole stream is here, and no ACK takes window back.

* The first half says what each operation does to a buffer in order
  (`InOrderBuffer`: fragments apart, each made of the bytes of its place, the
  next expected byte the first that is missing): what `Add` stores after cutting
  a segment at both ends (`AddIs`), how far the next byte advances
  (`AdvanceIs`), what `Extract` takes (`ExtractIs`).
* The second half has one lemma per handler, each `Good(s) => Keeps(s, t)`:
  the result is good again and has given up nothing, so handlers compose as they
  do in the code and the step of an action is the chain of its handlers.
* The difficult part is the FIN. `Add` cuts a segment at the end of the buffer,
  and a FIN on a cut segment would count too early. `Offered` rules that out:
  every right edge an ACK has advertised lies in the buffer as long as no FIN has
  been taken, and a peer that keeps to the window sends its FIN below such an
  edge. `IInv == Good(sock) /\ Offered(sock, edge)` is inductive; `EofComplete`
  alone is not.
* `BufferIsConsistent` (the counters are those of what is stored, and a SACK block
  covers only stored bytes beyond a gap) needs sizes to be cardinalities
  (`SumSizesIs`) and the SACK list to be a recursive function of the blocks it
  merges, so its lemmas are inductions over the list.
* `SackListStaysComplete` (`SackComplete`) is about a step, and a handler may run
  several operations: a handler either `Leaves` the list, or `Files` one
  segment in it, and the two compose (`LeavesAndFiles`), since no handler stores two
  segments.

**Sender** (`TcpSenderProofs`, over `TcpSenderInv`; `SenderAssumption`,
`TxBufferAssumption`: any stream, writes, segment size, duplicate threshold, retries
and buffer of the peer, with and without SACK and Nagle's algorithm, NewReno with
classic recovery or PRR, or any congestion control that sets a window of at least one
byte). Every property the runs check is a theorem: `BufferIsConsistent`
(`CountersAgree`), `LossIsJustified` (`LostJustified`), `ScoreboardIsTrue`
(`ScoreboardTrue`), `CongStateIsRight` (`CongStateAgrees`), `SenderNeverStalls`
(`NeverStalls`), `SendsWithinWindow`, `SackedIsNotResent`, `ReducesOncePerWindow`, and
`SenderTypes`. All follow from one inductive invariant, `SenderInv`
(`SenderInvariant`).

* The buffer. The operations cut, join and drop items, so the invariant is about
  bytes: items tile what was sent (`Chained`), and a flag stands for the set of bytes
  of the items that carry it (`Sacked`, `Lost`, `Resent`). Each operation is described
  by what it does to these sets, and each counter is the size of its set (`TxOk`); that
  a sum of lengths is a number of bytes (`SumIs`) links the two. A cut or a join keeps
  all sets but the last (`Retiled`, `Joined`), whatever items come of it.
* `m_highestSack` is where the search for lost items begins and is not the highest
  SACKed item. What the proof needs is less: a byte marked lost behind the head has
  enough SACKed items beyond it (`Enough`), and SACKed items behind a byte never become
  fewer while the byte is out.
* The handlers. Inside a handler no timer need run, the flight may be unknown and
  recovery half begun: `Calm` is what holds throughout, `Processed` what `ReceivedAck`
  adds, and `Rest` what holds between two steps. The recursive function of
  `SendPendingData` is `Sends`, by induction on its turns.
* `NeverStalls` states the invariant's `Timer` of the items' flags, and is not
  inductive. After a timeout with nothing to send that Nagle's
  algorithm allows, no timer runs, and only what the timeout left behind (all lost,
  nothing in flight: `Stalled`) makes sure that the next ACK or write sends. `Timer`
  says so, and every handler must keep it until it sends.
* The network. `ScoreboardTrue` needs that a late ACK too names only bytes the
  receiver has (`AckOk`) and that the receiver has only what was sent (`Net`);
  `WithinWindow` that an ACK, however late, takes back no window; `SackedNotResent`
  and `ReducedOncePerWindow` are about steps and come from `Stepped`, which every
  handler's lemma carries. A window probe is one byte past what is out (`Reach`).

**Connection** (`TcpConnectionProofs`; `ConnectionAssumption`: any retries,
applications, segments under way and forks). `BothEndsAgree` (`Agreement`): a socket
counts as connected only when each end has the other's SYN. `TimersAlwaysRun` (`Timed`): a socket
that waits has a timer. Both are proved under `OneLife`: if the listener's
application writes, the listener forks at most once. The model, like the code, starts
every connection at sequence number 0, so with two lives a byte of the first could
be taken for one of the second; the run has one writer and one fork.

* A handler is a function of one socket, and one lemma for each says that it keeps
  `Good(s, c)`, the invariant of a socket `s` in a mode `c`: a set of what is known
  of the rest of the system (the host may write, has not written, the peer has this
  host's SYN, and so on). Two modes, `fin` and `aged`, hold only inside `PeerClose`
  and `ReceivedAck`, where the state has moved and its timer has not. `Timed` follows
  from one socket's invariant, `Agreement` does not.
* The last part puts the sockets together with the segments under way. Neither
  property is inductive without two facts about the network: before a host writes,
  nothing acknowledges more than its SYN and nothing it sent has data or a FIN
  (`Heard`), and a segment that acknowledges a SYN was sent by a socket that
  has that SYN (`Vouched`). `ConnectionInv` adds who may have what in its buffer
  (`Sockets`, `Underway`), that a connected socket's peer has its SYN (`Met`), and
  that the forks are counted and a listener's socket is the initial one before the
  first (`OnceOnly`).

**Event loop** (`SimulatorProofs`; `SimulatorAssumption`: any threads, delays and
bounds). `TimeNeverGoesBack` (`InOrder`), `IsExpiredIsExact`, `FlagIsTrue`,
`NothingLeftBehind` (`NoneLeft`), `CountIsRight`, `DestroyEventsRun`
(`DestroyAllRun`), `TypeCorrect`, and `ImplementsEventList`: the loop implements
`EventList`. The invariant has two
parts: `ListInv` says that what is pending is later than the present and that an
`EventId` that is later than the present is pending or cancelled; `QueueInv` says
that the flag is true of the list, whoever has the mutex, and that what waits
while the loop goes on came too late for the last merge. They meet in `MergeOne`.

**Schedulers** (`EventSchedulersProofs`; `BoundAssumption`: any bound on times and
uids, hence any number of events, buckets and widths). `EventListIsKept`: the
sorted list and the calendar implement `EventList`, both refinements step by step.
`CalendarStaysFit` (`CalendarFits`) and `HeapIsRight` (`HeapTakesEarliest`). The
invariant `IInv` has five parts: uids are distinct and below the next one
(`Known`), the schedulers have returned the same event (`Agreed`), the list is the
sorted sequence of the events (`Listed`), the calendar holds them, and its last
time is not later than the present (`Dated`), and the heap, until `Remove` is called, holds them in
heap order (`Heaped`).

* The calendar: each event is in the bucket of its day, each bucket is sorted, and
  the search begins on the day of the last event (`Bucketed`, `Begins`). That it
  finds the earliest event (`NextEventIs`) is arithmetic: an event is due in step
  `k` of the search exactly when its day is the `k`th from the first, and the first
  bucket with such an event leads all others; with none, a year is skipped.
  A resize samples the calendar by running it forward, so the samples are sorted
  and the new width positive, and puts every event in its new bucket, a fold over
  the set of events whose order does not matter.
* The heap: a turn of `BottomUp` or `TopDown` keeps it in order but for one place,
  and moves that place (`Rising`, `Sinking`); as the place goes down to 1 or up to
  the length, the turns the model grants are enough. `HeapTake` at the root is
  right for this reason, and at any other place it is not, which `heap_remove`
  shows.
* `SetScheduler` moves the events in their order: `SetRecursion` turns the fold
  into a function on sets of events, and each of the three schedulers is what
  inserting a set leaves.

**Traffic control and link** (`TransmitPathProofs`; `TransmitAssumption`: any packets, queue sizes, limits and quotas, any number of
transmission queues). `NoPacketVanishes` (`Conserved`), `ArriveInOrder`
(`InOrder`), `StoppedInTime` (`NothingDiscarded`), `LimitsCount` (`LimitsAgree`)
and `TypeCorrect`. The invariant sees the node as lines of packets, one for each
place a packet can be in. Globally (`Kept`), the identities in the lines are
distinct, in order along the path of a band and transmission queue, and with
what has met a fate they are all that was sent. Locally, each
packet is in a line of its own kind, the queue disc holds no more than its size
and one requeued packet, a device queue in packet mode that is not stopped has
room, the transmitter is busy while a dequeued packet is still to be reported,
and the byte queue limits count what is queued and not reported. A step takes a
packet out of one line, has it in hand (`InHand`), and puts it in another or
drops it; the fates are apart because what meets one was in hand (`Fated`). `Run`
is an induction over its turns of `Restart`.

**Induction** (`InductionFacts`). Since a theorem cannot be applied to an operator,
least elements, induction and recursion over the natural numbers and over the
subsets of a finite set are stated for sets: to use them on a formula, take the set
of what satisfies it. The recursive functions and folds of the models exist and
have the value their equation gives by these lemmas. Besides, what a sequence is
made of before, at and behind a place (`AroundIs`, `AroundTwo`, `BehindIs`).

**Only model-checked.** Liveness (`AckedEventually`, `AttemptEnds`, `Drains`) and
`ENABLED` are out of the prover's reach. So is that the turns granted to
`SendPendingData` are enough for its loop to end by itself: what the proofs say of the loop they
say after any number of turns. Of the
connection, `FinAcknowledged`, `EofMeansAll` and `Undisturbed` are not proved: they
relate what one end has taken to what the other was told by every segment that may
still be under way, and need a history of acknowledgments that the model does not
keep. What the loops of the receive buffer compute
(`LoopsAgree`) is a comparison with mutating iterators, which the model steps
through with recursive operators.

## 5. What could come next

1. Proofs about `TcpConnection`: `FinAcknowledged` and `EofMeansAll` relate the two
   ends and need more of the segments under way than `ConnectionInv` says.
2. Progress of the sender under fair delivery, and a reliable stream refined by
   sender and receiver together.
3. `SplineCC` in place of `"any"` under the sender.
4. Simultaneous open and more segments under way in `connection`, for which the
   state space is too large now.
5. BBR's mode machine and windowed filter, over rate samples from a small set.

## 6. Not modelled

* **BBR, rate sampling**: rates and gains in floating point over samples that only
  BBR reads; SplineCC does not use them. **RTT estimator**: its mean and variation
  are doubles; what the models need of it, a sample or a timeout, is an input.
* **Other congestion controls of ns-3**: unmodified, mostly real-valued growth
  laws, unused here except CUBIC as a competitor. `"any"` stands for them in the
  sender.
* **Headers, options, factories, helpers, tracing**: serialisation and object
  construction, no behaviour of their own. **Experiment script, results and
  plots**: configuration and data.
* **IP, ARP, UDP and routing**: the transport sees them as a network that may
  lose, delay, duplicate and reorder, which is how they are modelled.
* **Queue discs other than pfifo_fast**: active queue management with
  real-valued control laws; to the rest of the path each is delay and loss.
* **The remaining ns-3 modules** (Wi-Fi, LTE, mesh and ad-hoc routing, energy,
  mobility, the realtime and distributed simulators, and so on): far the largest
  part of the repository, a source tree of several thousand files that this
  project neither changes nor runs. Each would be a project of its own; nothing
  in the experiment, and nothing in the components above, depends on what they
  do. Modelling them in passing would give modules with no claim to
  faithfulness, so the share of the whole repository that is modelled is small
  by intention: it is the part its own experiments exercise.
