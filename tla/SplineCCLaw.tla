----------------------------- MODULE SplineCCLaw -----------------------------
(***************************************************************************)
(* The window law of SplineCC (src/src/internet/model/spline-cc.cc) as     *)
(* operators on two records, named as in the code: m, the algorithm's      *)
(* m_state, and t, the part of TcpSocketState (tcb) that the law reads.    *)
(*                                                                         *)
(* Units.  t.cWnd, t.bytesInFlight and t.lastAckedSackedBytes are bytes,   *)
(* m.curr_cwnd is segments.  Times are ticks, TicksPerSec to a second, so  *)
(* that GetSeconds() of a sub-second time has a fraction to lose.  A       *)
(* uint32_t holds 0 .. Word - 1 (Word = 2^32 in the code).                 *)
(*                                                                         *)
(* min_cwnd, which the .cc file uses and the header does not declare, is   *)
(* taken to be a uint32_t field.  Fields that are written and never read   *)
(* (last_cwnd, last_max_cwnd, next_cwnd, pacing_rate) are left out, and so *)
(* is the pacing rate stored in the tcb, which UpdatePacingRate overwrites *)
(* before it is used (tcp-socket-base.cc:2223).                            *)
(***************************************************************************)
EXTENDS Integers

CONSTANTS
    Word,          \* number of values of a uint32_t
    SegmentSize,   \* tcb->m_segmentSize, bytes
    InitialCWnd,   \* tcb->m_initialCWnd, segments
    TicksPerSec    \* resolution of Time

ASSUME LawAssumption ==
    /\ Word \in Nat \ {0}
    /\ SegmentSize \in Nat \ {0}
    /\ InitialCWnd \in Nat \ {0}
    /\ InitialCWnd < Word /\ SegmentSize < Word
    /\ 10 < Word
    /\ TicksPerSec \in Nat \ {0}

MinOf(a, b) == IF a <= b THEN a ELSE b
MaxOf(a, b) == IF a >= b THEN a ELSE b

(***************************************************************************)
(* Machine arithmetic.                                                     *)
(***************************************************************************)
U32(x) == x % Word

\* A quotient computed in double and truncated: the rounding of the operands
\* may land just below an exact integer, never above the true quotient.
Truncated(num, den) ==
    LET q == num \div den
    IN  IF num % den = 0 /\ q > 0 THEN {q, q - 1} ELSE {q}

\* A double out of range converted to uint32_t is undefined: the low word or
\* zero (cvttsd2si, x86-64), or the largest value (fcvtzu, aarch64).
CastU32(x) == IF x < Word THEN {x} ELSE {U32(x), 0, Word - 1}

Converted(num, den) == UNION {CastU32(x) : x \in Truncated(num, den)}

Seconds(ticks) == ticks \div TicksPerSec

(***************************************************************************)
(* Modes (spline-cc.h:24-29) and the congestion state the law looks at.    *)
(***************************************************************************)
START_PROBE == 0
PROBE_BW    == 1
PROBE_RTT   == 2
DRAIN_PROBE == 3
Modes == {START_PROBE, PROBE_BW, PROBE_RTT, DRAIN_PROBE}

InitState ==
    [current_mode |-> START_PROBE, probe_mode |-> START_PROBE,
     epp |-> 0, epp_min_rtt |-> 0, last_min_rtt |-> 0, curr_rtt |-> 0,
     curr_ack |-> 0, last_ack |-> 0, curr_cwnd |-> 0,
     bw |-> 0, last_bw |-> 0, fairness_rat |-> 0]

min_cwnd == IF InitialCWnd \div 8 = 0 THEN 10 ELSE InitialCWnd \div 8

(***************************************************************************)
(* Measurements.                                                           *)
(***************************************************************************)
\* Mutant: only the first sample reaches last_min_rtt.
PktsAcked_FirstOnly(m, segmentsAcked, rtt) ==
    IF rtt = 0 THEN m
    ELSE [m EXCEPT
            !.curr_rtt = Seconds(rtt),
            !.last_min_rtt = IF @ = 0 THEN Seconds(rtt) ELSE @,
            !.last_ack = m.curr_ack,
            !.curr_ack = segmentsAcked]

PktsAcked(m, segmentsAcked, rtt) ==
    IF rtt = 0 THEN m
    ELSE [m EXCEPT
            !.curr_rtt = Seconds(rtt),
            !.last_min_rtt =
                IF @ = 0 \/ Seconds(rtt) < @ THEN Seconds(rtt) ELSE @,
            !.last_ack = m.curr_ack,
            !.curr_ack = segmentsAcked]

epsilone_rtt(m) ==
    IF m.last_min_rtt > m.curr_rtt /\ m.curr_rtt > 0
    THEN [m EXCEPT !.last_min_rtt = m.curr_rtt, !.epp_min_rtt = @ + 1]
    ELSE m

fairness(m, t) ==
    IF t.bytesInFlight = 0 THEN 2
    ELSE U32((m.curr_cwnd * m.curr_cwnd * SegmentSize)
                \div (2 * t.bytesInFlight * t.bytesInFlight) + 1)

\* The estimate after the 75-150 % filter, or its floor while last_bw is 0.
filtered(m, bw) ==
    IF m.last_bw = 0 THEN MaxOf(bw, InitialCWnd)
    ELSE IF m.curr_rtt > U32(2 * m.last_min_rtt) THEN m.last_bw
    ELSE MinOf(MaxOf(bw, (m.last_bw * 3) \div 4), (m.last_bw * 6) \div 4)

\* __bw with throughput thr and raw estimate raw.
estimated(m, t, thr, raw) ==
    [m EXCEPT !.bw = filtered(m, raw),
              !.fairness_rat = fairness(m, t),
              !.current_mode =
                  IF (thr * 12) \div 16 > raw THEN DRAIN_PROBE ELSE @]

\* The outcomes of __bw.  m_minRtt starts at Time::Max() and only ever takes
\* positive estimates, so the branches for a zero m_minRtt (lines 93-96, 293,
\* 341) cannot be taken.
estimate_bw(m, t) ==
    {estimated(m, t, thr, raw) :
        thr \in Truncated(t.bytesInFlight * TicksPerSec, t.minRtt),
        raw \in Truncated(U32(m.curr_ack * SegmentSize) * TicksPerSec, t.minRtt)}

(***************************************************************************)
(* The probes.  Each returns the possible next values of m_state.          *)
(***************************************************************************)
AckDeficit(m, t) == t.congState = "LOSS" /\ m.curr_ack < m.last_ack

\* Mutant: no fallback for an empty cap.
orMin_Absent(cap) == cap

orMin(cap) == IF cap = 0 THEN min_cwnd ELSE cap

start_probe(m, t) ==
    LET grown  == U32(m.curr_cwnd + t.lastAckedSackedBytes \div SegmentSize)
        shrink == AckDeficit(m, t) \/ grown > t.bytesInFlight \div SegmentSize
        Caps   == Converted(m.fairness_rat * (m.bw - (m.bw * 13) \div 16)
                                * t.minRtt, TicksPerSec)
    IN  {[m EXCEPT !.curr_cwnd = IF shrink THEN MinOf(grown, orMin(cap))
                                 ELSE MaxOf(grown, orMin(cap))]
            : cap \in Caps}

scaled(cwnd, sixteenths) == U32(cwnd * sixteenths) \div 16

\* prob_rtt and prob_bw.  stable_* covers fairness_rat >= 2 and fairness_* the
\* rest, so the overload_* branches behind them are never reached.
prob(m, t) ==
    LET stable == m.fairness_rat >= 2 \/ U32(2 * t.bytesInFlight) < m.curr_cwnd
    IN  [m EXCEPT !.curr_cwnd =
            MaxOf(scaled(@, IF stable THEN 17 ELSE 8), min_cwnd)]

\* Restarts from the socket's window: what prob left in curr_cwnd is lost.
cwnd_next_gain(m, t) ==
    LET Current == Truncated(t.cWnd, SegmentSize)
        Caps    == Converted(m.fairness_rat * (m.bw - (m.bw * 14) \div 16)
                                * t.cWnd, m.bw)
    IN  {[m EXCEPT !.curr_cwnd = IF AckDeficit(m, t) THEN MinOf(c, orMin(cap))
                                 ELSE MaxOf(c, orMin(cap))]
            : c \in Current, cap \in Caps}

\* Mutant: the bandwidth estimate does not limit the drained window.
drain_probe_Unlimited(m) ==
    [m EXCEPT !.curr_cwnd = MaxOf(scaled(@, 10), min_cwnd)]

drain_probe(m) ==
    [m EXCEPT !.curr_cwnd = MaxOf(scaled(MinOf(@, m.bw), 10), min_cwnd)]

(***************************************************************************)
(* probs: the mode machine.                                                *)
(***************************************************************************)
Congested(m, t) ==
    \/ /\ t.bytesInFlight > U32(m.curr_ack * SegmentSize)
       /\ t.bytesInFlight > m.curr_cwnd
    \/ t.lastAckedSackedBytes < SegmentSize

tick(m) == [m EXCEPT !.epp = IF @ < 10 THEN @ + 1 ELSE @]

NextProbe(mode) == CASE mode = PROBE_BW    -> PROBE_RTT
                     [] mode = PROBE_RTT   -> DRAIN_PROBE
                     [] mode = DRAIN_PROBE -> START_PROBE
                     [] OTHER              -> PROBE_BW

\* Mutant: the epoch counter is not reset.
switch_NoReset(m, t) ==
    LET mode == IF m.epp = 9
                THEN IF m.epp_min_rtt > 0 THEN PROBE_BW ELSE PROBE_RTT
                ELSE IF Congested(m, t) THEN DRAIN_PROBE ELSE PROBE_BW
    IN  [m EXCEPT !.current_mode = mode, !.probe_mode = NextProbe(mode)]

\* Mutant: congestion takes precedence over the end of the epoch.
switch_CongestionFirst(m, t) ==
    LET mode == IF Congested(m, t) THEN DRAIN_PROBE
                ELSE IF m.epp = 9 THEN PROBE_RTT ELSE PROBE_BW
    IN  [m EXCEPT !.current_mode = mode,
                  !.probe_mode = NextProbe(mode),
                  !.epp = IF m.epp = 9 THEN 0 ELSE @]

switch(m, t) ==
    LET endOfEpoch == m.epp = 9
        mode == IF endOfEpoch
                THEN IF m.epp_min_rtt > 0 THEN PROBE_BW ELSE PROBE_RTT
                ELSE IF Congested(m, t) THEN DRAIN_PROBE ELSE PROBE_BW
    IN  [m EXCEPT !.current_mode = mode,
                  !.probe_mode = NextProbe(mode),
                  !.epp = IF endOfEpoch THEN 0 ELSE @,
                  !.epp_min_rtt = IF endOfEpoch THEN 0 ELSE @]

probe(m, t) == CASE m.probe_mode = START_PROBE -> start_probe(m, t)
                 [] m.probe_mode = DRAIN_PROBE -> {drain_probe(m)}
                 [] OTHER -> cwnd_next_gain(prob(m, t), t)

probs(m, t) ==
    LET Started == IF m.probe_mode = START_PROBE
                   THEN start_probe([tick(m) EXCEPT !.current_mode = START_PROBE], t)
                   ELSE {tick(m)}
    IN  UNION {probe(switch(s, t), t) : s \in Started}

SplineCCAlgo(m, t) ==
    UNION {probs(e, t) : e \in estimate_bw(epsilone_rtt(m), t)}

IncreaseWindow(m, t) ==
    SplineCCAlgo([m EXCEPT !.curr_rtt = Seconds(t.lastRtt),
                           !.curr_cwnd = t.cWnd \div SegmentSize], t)

\* What SplineCCAlgo and pacing_gain_rate leave in the tcb.
WindowOf(m) == U32(m.curr_cwnd * SegmentSize)
PacingOf(m, pacing) == IF m.probe_mode \in {PROBE_BW, PROBE_RTT}
                       THEN m.current_mode # START_PROBE
                       ELSE pacing

\* In segments, where every other GetSsThresh returns bytes.
GetSsThresh(m) == MaxOf(scaled(m.curr_cwnd, 14), 1)
=============================================================================
