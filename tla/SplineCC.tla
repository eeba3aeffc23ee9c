------------------------------ MODULE SplineCC ------------------------------
(***************************************************************************)
(* SplineCC driven by the acknowledgment and timeout handlers of           *)
(* TcpSocketBase.  One action per path of TcpSocketBase::ProcessAck and    *)
(* ReTxTimeout that reaches a hook of the algorithm, with every hook the   *)
(* path calls, in its order.  What the rest of the connection contributes  *)
(* (bytes in flight, bytes delivered, segments acknowledged, RTT estimate, *)
(* the window chosen by the recovery algorithm) is an input.               *)
(*                                                                         *)
(* CA_CWR is left out: it needs ECN, which TcpSocketBase has off.  So is   *)
(* CwndEvent: it only acts on CA_EVENT_CWND_RESTART, "Not triggered"       *)
(* (tcp-socket-state.h:100).                                               *)
(***************************************************************************)
EXTENDS SplineCCLaw

CONSTANTS
    TimeMax,           \* Time::Max(), m_minRtt before the first estimate
    RttSamples,        \* values the smoothed RTT estimate takes, in ticks
    InFlights,         \* values of BytesInFlight() at an ACK
    Deliveries,        \* values of m_lastAckedSackedBytes at an ACK
    SegmentCounts,     \* values of segsAcked at an ACK
    RecoveryWindows    \* windows set by TcpRecoveryOps, in bytes

ASSUME InputAssumption ==
    /\ TimeMax \in Nat \ {0}
    /\ RttSamples \subseteq 1 .. TimeMax
    /\ InFlights \subseteq 0 .. Word - 1
    /\ Deliveries \subseteq 0 .. Word - 1
    /\ SegmentCounts \subseteq 0 .. Word - 1
    /\ RecoveryWindows \subseteq 0 .. Word - 1

VARIABLES
    m,             \* m_state of the SplineCcNew object
    tcb,           \* the TcpSocketState fields that outlive a handler
    dupAckCount    \* m_dupAckCount

vars == <<m, tcb, dupAckCount>>

retxThresh == 3

Acks == [segs : SegmentCounts, flight : InFlights, delivered : Deliveries,
         rtt : RttSamples \union {0}]     \* rtt = 0: the ACK gives no sample

-----------------------------------------------------------------------------
(***************************************************************************)
(* TcpSocketBase::EstimateRtt, which runs before ProcessAck.               *)
(***************************************************************************)
EstimateRtt(ack) ==
    IF ack.rtt = 0 THEN tcb
    ELSE [tcb EXCEPT !.lastRtt = ack.rtt, !.minRtt = MinOf(ack.rtt, @)]

\* The tcb as a hook of the algorithm reads it.
Seen(t, ack) == [congState |-> t.congState, cWnd |-> t.cWnd,
                 minRtt |-> t.minRtt, lastRtt |-> t.lastRtt,
                 bytesInFlight |-> ack.flight,
                 lastAckedSackedBytes |-> ack.delivered]

\* IncreaseWindow from state s, and what it stores in the socket.
Increase(s, t, ack) ==
    \E s2 \in IncreaseWindow(s, Seen(t, ack)) :
        /\ m' = s2
        /\ tcb' = [t EXCEPT !.cWnd = WindowOf(s2), !.pacing = PacingOf(s2, @)]

-----------------------------------------------------------------------------
Init ==
    /\ m = InitState
    /\ tcb = [congState |-> "OPEN", cWnd |-> U32(InitialCWnd * SegmentSize),
              ssThresh |-> Word - 1, lastRtt |-> 0, minRtt |-> TimeMax,
              pacing |-> FALSE]
    /\ dupAckCount = 0

\* A new cumulative ACK in CA_OPEN.
NewAckOpen(ack) ==
    /\ tcb.congState = "OPEN"
    /\ LET t == EstimateRtt(ack)
       IN  Increase(PktsAcked(m, ack.segs, t.lastRtt), t, ack)
    /\ UNCHANGED dupAckCount

\* An ACK that repeats SND.UNA and SACKs nothing new, in any state, or any
\* ACK that repeats SND.UNA in CA_LOSS.
RepeatedAck(ack) ==
    /\ tcb' = EstimateRtt(ack)
    /\ m' = PktsAcked(m, 1, tcb'.lastRtt)
    /\ UNCHANGED dupAckCount

\* A duplicate ACK that does not start recovery.  If it also moves SND.UNA,
\* the segments counted by earlier duplicates are subtracted.
DupAck(ack, advances) ==
    LET t == EstimateRtt(ack)
    IN  /\ tcb.congState \in {"OPEN", "DISORDER"}
        /\ dupAckCount + 1 < retxThresh
        /\ dupAckCount' = dupAckCount + 1
        /\ tcb' = [t EXCEPT !.congState = "DISORDER"]
        /\ m' = IF ~advances THEN PktsAcked(m, 1, t.lastRtt)
                ELSE IF ack.segs >= dupAckCount
                THEN PktsAcked(m, ack.segs - dupAckCount, t.lastRtt)
                ELSE m

\* The duplicate ACK that starts fast recovery: the third, or an earlier one
\* for which the scoreboard already declares a loss.
EnterRecovery(ack, window) ==
    LET t == EstimateRtt(ack)
    IN  /\ tcb.congState \in {"OPEN", "DISORDER"}
        /\ dupAckCount' = dupAckCount + 1
        /\ tcb' = [t EXCEPT !.congState = "RECOVERY",
                            !.ssThresh = GetSsThresh(m),
                            !.cWnd = window]
        /\ m' = PktsAcked(m, 1, t.lastRtt)

\* A partial or duplicate ACK in CA_RECOVERY.
AckInRecovery(ack, window) ==
    LET t == EstimateRtt(ack)
    IN  /\ tcb.congState = "RECOVERY"
        /\ tcb' = [t EXCEPT !.cWnd = window]
        /\ m' = PktsAcked(m, 1, t.lastRtt)
        /\ UNCHANGED dupAckCount

\* The ACK that ends CA_RECOVERY: the window becomes the threshold, then the
\* algorithm increases it.
ExitRecovery(ack) ==
    LET t == EstimateRtt(ack)
    IN  /\ tcb.congState = "RECOVERY"
        /\ Increase(PktsAcked(m, ack.segs, t.lastRtt),
                    [t EXCEPT !.congState = "OPEN", !.cWnd = t.ssThresh], ack)
        /\ dupAckCount' = 0

\* A cumulative ACK in CA_DISORDER with no new SACK information: back to
\* CA_OPEN.  With fewer segments than duplicates PktsAcked is skipped.
ExitDisorder(ack) ==
    LET t == EstimateRtt(ack)
        s == IF ack.segs >= dupAckCount
             THEN PktsAcked(m, ack.segs - dupAckCount, t.lastRtt) ELSE m
    IN  /\ tcb.congState = "DISORDER"
        /\ Increase(s, [t EXCEPT !.congState = "OPEN"], ack)
        /\ dupAckCount' = 0

\* The retransmission timer: one segment of window, CA_LOSS.
ReTxTimeout ==
    /\ tcb' = [tcb EXCEPT !.congState = "LOSS", !.cWnd = SegmentSize,
                          !.ssThresh = GetSsThresh(m)]
    /\ dupAckCount' = 0
    /\ UNCHANGED m

\* A cumulative ACK below m_recover in CA_LOSS.
PartialAckLoss(ack) ==
    /\ tcb.congState = "LOSS"
    /\ LET t == EstimateRtt(ack)
       IN  Increase(PktsAcked(m, ack.segs, t.lastRtt), t, ack)
    /\ UNCHANGED dupAckCount

\* The ACK that covers m_recover in CA_LOSS.
ExitLoss(ack) ==
    LET t == EstimateRtt(ack)
    IN  /\ tcb.congState = "LOSS"
        /\ Increase(PktsAcked(m, ack.segs, t.lastRtt),
                    [t EXCEPT !.congState = "OPEN"], ack)
        /\ UNCHANGED dupAckCount

Next ==
    \/ \E ack \in Acks :
        \/ NewAckOpen(ack)
        \/ RepeatedAck(ack)
        \/ \E advances \in BOOLEAN : DupAck(ack, advances)
        \/ \E window \in RecoveryWindows :
            EnterRecovery(ack, window) \/ AckInRecovery(ack, window)
        \/ ExitRecovery(ack)
        \/ ExitDisorder(ack)
        \/ PartialAckLoss(ack)
        \/ ExitLoss(ack)
    \/ ReTxTimeout

Spec == Init /\ [][Next]_vars
-----------------------------------------------------------------------------
(***************************************************************************)
(* Properties.                                                             *)
(***************************************************************************)
U32s == 0 .. Word - 1

\* Types of the algorithm's state and of the socket state it shares.
TypeOK ==
    /\ m \in [current_mode : Modes, probe_mode : Modes, epp : 0 .. 8,
              epp_min_rtt : Nat, last_min_rtt : Nat, curr_rtt : Nat,
              curr_ack : Nat, last_ack : Nat, curr_cwnd : U32s,
              bw : Nat, last_bw : Nat, fairness_rat : U32s]
    /\ tcb \in [congState : {"OPEN", "DISORDER", "RECOVERY", "LOSS"},
                cWnd : U32s, ssThresh : U32s, lastRtt : 0 .. TimeMax,
                minRtt : 1 .. TimeMax, pacing : BOOLEAN]
    /\ dupAckCount \in 0 .. retxThresh

\* The algorithm has computed a window at least once.
Started == m.bw > 0

\* IncreaseWindow ran in this step: it moves the epoch counter, nothing else
\* does.
Increased == m'.epp # m.epp

\* The 32-bit product of spline-cc.cc:63 does not hold the window in bytes.
Overflowed == m.curr_cwnd * SegmentSize >= Word

\* The byte window by which the socket sends is empty only by overflow.  In
\* CA_OPEN and CA_DISORDER, after any sequence of ACKs, recoveries and timeouts,
\* it is what the algorithm last computed, not what a recovery or a timeout left,
\* and it holds a segment unless it overflowed: then it is whatever remains
\* modulo Word, which may be nothing.  (start_probe, cwnd_next_gain and
\* drain_probe all end in a min or max of two computed quantities.)
WindowFloor ==
    Started /\ tcb.congState \in {"OPEN", "DISORDER"}
        => /\ tcb.cWnd = WindowOf(m)
           /\ tcb.cWnd >= SegmentSize \/ Overflowed

\* The two mode fields only ever hold three pairs: congestion (DRAIN_PROBE)
\* selects the START_PROBE law, everything else the PROBE_RTT law, and the
\* PROBE_BW law is never selected.
ModePairs ==
    Started => <<m.current_mode, m.probe_mode>> \in
        {<<PROBE_BW, PROBE_RTT>>, <<DRAIN_PROBE, START_PROBE>>,
         <<PROBE_RTT, DRAIN_PROBE>>}

\* The draining law runs at an epoch boundary and only there; a boundary
\* fails to drain only if reordering let a new minimum RTT through during the
\* epoch or in this very step.
DrainAtEpochEnd ==
    [][Increased => /\ m'.probe_mode = DRAIN_PROBE => m.epp = 8
                    /\ m.epp = 8 => \/ m'.probe_mode = DRAIN_PROBE
                                    \/ m.epp_min_rtt > 0
                                    \/ tcb.congState = "DISORDER"]_vars

\* Whatever the window was, and even when the START_PROBE law grew it earlier
\* in the same call, a drain leaves at most 10/16 of the bandwidth estimate.
DrainBound ==
    [][Increased /\ m'.probe_mode = DRAIN_PROBE
        => m'.curr_cwnd <= MaxOf((m'.bw * 10) \div 16, min_cwnd)]_vars

\* epp_min_rtt is the only input that lengthens an epoch.  PktsAcked has seen
\* every estimate before __epsilone_rtt does, except when CA_DISORDER ends
\* with fewer segments acknowledged than duplicates counted.
NewMinimumOnlyAfterReordering ==
    [][m'.epp_min_rtt > m.epp_min_rtt
        => /\ tcb.congState = "DISORDER" /\ tcb'.congState = "OPEN"
           /\ dupAckCount > 0 /\ m'.last_min_rtt < m.last_min_rtt]_vars

\* The PROBE_RTT law always runs with pacing on, and nothing the algorithm
\* does afterwards turns pacing off: START_PROBE is never the mode when
\* pacing_gain_rate runs.
PacingLatched ==
    [][/\ m'.probe_mode = PROBE_RTT => tcb'.pacing
       /\ tcb.pacing => tcb'.pacing]_vars

\* With last_bw never assigned, the estimate is the measured one with the
\* initial window as its floor: neither filtered nor averaged.
BandwidthUnfiltered ==
    Started => m.last_bw = 0 /\ m.bw >= InitialCWnd

-----------------------------------------------------------------------------
(***************************************************************************)
(* What README.md and the ns-3 headers say of the algorithm.               *)
(***************************************************************************)
\* README.md:157: DRAIN_PROBE "Reduces the excessive window when congestion
\* is detected", here with an RTT known and no overflow.
DrainReducesWindow ==
    [][(Increased /\ m'.current_mode = DRAIN_PROBE
        /\ tcb.lastRtt > 0 /\ m'.curr_cwnd * SegmentSize < Word)
       => m'.curr_cwnd <= tcb.cWnd \div SegmentSize]_vars

\* README.md:176: "last_min_rtt = min(last_min_rtt, curr_rtt)": it never
\* exceeds the smallest estimate, in seconds.
MinRttIsMinimum ==
    Started /\ tcb.lastRtt > 0 => m.last_min_rtt <= Seconds(tcb.minRtt)

\* tcp-socket.h:138: "the Slow Start Threshold (in bytes)": a threshold set
\* on entering recovery is worth at least one segment.
SsThreshInBytes ==
    Started /\ tcb.congState = "RECOVERY" => tcb.ssThresh >= SegmentSize
=============================================================================
