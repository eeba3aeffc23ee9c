--------------------------- MODULE SplineCCProofs ---------------------------
(***************************************************************************)
(* Proofs about the window law and its state machine, for every word size, *)
(* segment size, initial window and set of inputs.                         *)
(***************************************************************************)
EXTENDS SplineCC, TLAPS

\* The types of the two records of the law.  The epoch counter has a range of
\* its own because it passes through 9 inside probs.
StateType(Epochs) ==
    [current_mode : Modes, probe_mode : Modes, epp : Epochs,
     epp_min_rtt : Nat, last_min_rtt : Nat, curr_rtt : Nat,
     curr_ack : Nat, last_ack : Nat, curr_cwnd : U32s,
     bw : Nat, last_bw : Nat, fairness_rat : U32s]

CongStates == {"OPEN", "DISORDER", "RECOVERY", "LOSS"}

SeenType ==
    [congState : CongStates, cWnd : U32s, minRtt : 1 .. TimeMax,
     lastRtt : 0 .. TimeMax, bytesInFlight : U32s,
     lastAckedSackedBytes : U32s]

-----------------------------------------------------------------------------
(***************************************************************************)
(* Arithmetic.                                                             *)
(***************************************************************************)

\* Division rounds down to a natural number.
LEMMA QuotientIsNat ==
    ASSUME NEW x \in Nat, NEW y \in Nat \ {0}
    PROVE  x \div y \in Nat
  OBVIOUS

\* U32 keeps every natural number in a word.
LEMMA U32Type ==
    ASSUME NEW x \in Nat
    PROVE  U32(x) \in U32s
  BY LawAssumption DEF U32, U32s

\* A conversion from double always yields a word.
LEMMA ConvertedType ==
    ASSUME NEW num \in Nat, NEW den \in Nat \ {0}
    PROVE  Converted(num, den) \subseteq U32s
  <1>1. num \div den \in Nat
    BY QuotientIsNat
  <1>2. Truncated(num, den) \subseteq Nat
    BY <1>1 DEF Truncated
  <1>3. \A x \in Nat : CastU32(x) \subseteq U32s
    BY U32Type, LawAssumption DEF CastU32, U32s
  <1> QED
    BY <1>2, <1>3 DEF Converted

\* The halving, draining and probing factors keep a window in a word.
LEMMA ScaledType ==
    ASSUME NEW c \in U32s, NEW k \in Nat
    PROVE  scaled(c, k) \in U32s
  <1>1. c * k \in Nat
    BY DEF U32s
  <1>2. U32(c * k) \in U32s
    BY <1>1, U32Type
  <1> QED
    BY <1>2, LawAssumption DEF scaled, U32s

\* The minimum window is a positive word.
LEMMA MinCwndType == min_cwnd \in U32s /\ min_cwnd >= 1
  BY LawAssumption DEF min_cwnd, U32s

\* The fallback makes every cap positive.
LEMMA OrMinType ==
    ASSUME NEW cap \in U32s
    PROVE  orMin(cap) \in U32s /\ orMin(cap) >= 1
  BY MinCwndType DEF orMin, U32s

-----------------------------------------------------------------------------
(***************************************************************************)
(* The parts of one call of IncreaseWindow.                                *)
(***************************************************************************)

\* An RTT that reaches the algorithm as a new minimum: below the one it knows
\* and not truncated to zero.
NewMinimum(s, rtt) == s.last_min_rtt > Seconds(rtt) /\ Seconds(rtt) > 0

\* PktsAcked keeps the types, touches nothing but the measurements, and leaves
\* no RTT it has seen to be noticed as a new minimum afterwards.
LEMMA PktsAckedStep ==
    ASSUME NEW s \in StateType(0 .. 8), NEW n \in Nat, NEW rtt \in 0 .. TimeMax
    PROVE  LET r == PktsAcked(s, n, rtt)
           IN  /\ r \in StateType(0 .. 8)
               /\ r.bw = s.bw /\ r.last_bw = s.last_bw
               /\ r.current_mode = s.current_mode
               /\ r.probe_mode = s.probe_mode
               /\ r.curr_cwnd = s.curr_cwnd /\ r.epp = s.epp
               /\ r.epp_min_rtt = s.epp_min_rtt
               /\ ~NewMinimum(r, rtt)
  <1>1. Seconds(rtt) \in Nat /\ (rtt = 0 => Seconds(rtt) = 0)
    BY InputAssumption, LawAssumption, QuotientIsNat DEF Seconds
  <1>2. CASE rtt = 0
    BY <1>1, <1>2 DEF PktsAcked, StateType, NewMinimum
  <1>3. CASE rtt # 0
    <2>1. PktsAcked(s, n, rtt) =
            [s EXCEPT !.curr_rtt = Seconds(rtt),
                      !.last_min_rtt =
                         IF @ = 0 \/ Seconds(rtt) < @ THEN Seconds(rtt) ELSE @,
                      !.last_ack = s.curr_ack, !.curr_ack = n]
      BY <1>3 DEF PktsAcked
    <2> DEFINE min == IF s.last_min_rtt = 0 \/ Seconds(rtt) < s.last_min_rtt
                      THEN Seconds(rtt) ELSE s.last_min_rtt
    <2>2. min \in Nat /\ ~(min > Seconds(rtt) /\ Seconds(rtt) > 0)
      BY <1>1 DEF StateType
    <2>3. PktsAcked(s, n, rtt) =
            [s EXCEPT !.curr_rtt = Seconds(rtt), !.last_min_rtt = min,
                      !.last_ack = s.curr_ack, !.curr_ack = n]
      BY <2>1
    <2> HIDE DEF min
    <2>4. PktsAcked(s, n, rtt) \in StateType(0 .. 8)
      BY <1>1, <2>2, <2>3 DEF StateType
    <2>5. PktsAcked(s, n, rtt).last_min_rtt = min
      BY <2>3 DEF StateType
    <2>6. ~NewMinimum(PktsAcked(s, n, rtt), rtt)
      BY <2>2, <2>5 DEF NewMinimum
    <2> QED
      BY <2>3, <2>4, <2>6 DEF StateType
  <1> QED
    BY <1>2, <1>3

\* A new minimum RTT only changes the minimum and its counter, and nothing
\* else changes the counter.
LEMMA EpsiloneStep ==
    ASSUME NEW s \in StateType(0 .. 8)
    PROVE  LET r == epsilone_rtt(s)
           IN  /\ r \in StateType(0 .. 8)
               /\ r.last_bw = s.last_bw /\ r.epp = s.epp
               /\ r.epp_min_rtt # s.epp_min_rtt
                    => /\ s.last_min_rtt > s.curr_rtt /\ s.curr_rtt > 0
                       /\ r.last_min_rtt < s.last_min_rtt
  <1>1. CASE s.last_min_rtt > s.curr_rtt /\ s.curr_rtt > 0
    <2>1. epsilone_rtt(s) = [s EXCEPT !.last_min_rtt = s.curr_rtt,
                                      !.epp_min_rtt = s.epp_min_rtt + 1]
      BY <1>1 DEF epsilone_rtt
    <2>2. s.epp_min_rtt + 1 \in Nat
      BY DEF StateType
    <2>3. /\ epsilone_rtt(s) \in StateType(0 .. 8)
          /\ epsilone_rtt(s).last_bw = s.last_bw /\ epsilone_rtt(s).epp = s.epp
          /\ epsilone_rtt(s).last_min_rtt = s.curr_rtt
      BY <2>1, <2>2 DEF StateType
    <2>4. epsilone_rtt(s).last_min_rtt < s.last_min_rtt
      BY <1>1, <2>3 DEF StateType
    <2> QED
      BY <1>1, <2>3, <2>4
  <1>2. CASE ~(s.last_min_rtt > s.curr_rtt /\ s.curr_rtt > 0)
    BY <1>2 DEF epsilone_rtt
  <1> QED
    BY <1>1, <1>2

\* The bandwidth estimate, with last_bw still 0, is at least the initial window.
LEMMA EstimateStep ==
    ASSUME NEW s \in StateType(0 .. 8), s.last_bw = 0, NEW t \in SeenType,
           NEW r \in estimate_bw(s, t)
    PROVE  /\ r \in StateType(0 .. 8)
           /\ r.last_bw = 0 /\ r.bw >= InitialCWnd
           /\ r.probe_mode = s.probe_mode /\ r.epp = s.epp
           /\ r.epp_min_rtt = s.epp_min_rtt /\ r.last_min_rtt = s.last_min_rtt
  <1> DEFINE Throughput == Truncated(t.bytesInFlight * TicksPerSec, t.minRtt)
  <1> DEFINE Raw == Truncated(U32(s.curr_ack * SegmentSize) * TicksPerSec, t.minRtt)
  <1>1. U32(s.curr_ack * SegmentSize) \in U32s
    <2>1. s.curr_ack * SegmentSize \in Nat
      BY LawAssumption DEF StateType
    <2> QED
      BY <2>1, U32Type
  <1>2. Raw \subseteq Nat
    <2>1. U32(s.curr_ack * SegmentSize) * TicksPerSec \in Nat
      BY <1>1, LawAssumption DEF U32s
    <2>2. t.minRtt \in Nat \ {0}
      BY InputAssumption DEF SeenType
    <2>3. (U32(s.curr_ack * SegmentSize) * TicksPerSec) \div t.minRtt \in Nat
      BY <2>1, <2>2, QuotientIsNat
    <2> QED
      BY <2>3 DEF Truncated
  <1>3. fairness(s, t) \in U32s
    <2>1. CASE t.bytesInFlight = 0
      BY <2>1, LawAssumption DEF fairness, U32s
    <2>2. CASE t.bytesInFlight # 0
      <3> DEFINE num == s.curr_cwnd * s.curr_cwnd * SegmentSize
      <3> DEFINE den == 2 * t.bytesInFlight * t.bytesInFlight
      <3>1. t.bytesInFlight \in Nat \ {0}
        BY <2>2 DEF SeenType, U32s
      <3>2. den \in Nat \ {0}
        BY <3>1
      <3>3. num \in Nat
        BY LawAssumption DEF StateType, U32s
      <3>4. num \div den + 1 \in Nat
        BY <3>2, <3>3, QuotientIsNat
      <3> QED
        BY <2>2, <3>4, U32Type DEF fairness
    <2> QED
      BY <2>1, <2>2
  <1>4. \A raw \in Nat : filtered(s, raw) \in Nat /\ filtered(s, raw) >= InitialCWnd
    BY LawAssumption DEF filtered, MaxOf
  <1>5. PICK thr \in Throughput, raw \in Raw : r = estimated(s, t, thr, raw)
    BY DEF estimate_bw
  <1>6. filtered(s, raw) \in Nat /\ filtered(s, raw) >= InitialCWnd
    BY <1>2, <1>4
  <1> QED
    BY <1>3, <1>5, <1>6 DEF estimated, StateType, Modes, DRAIN_PROBE

\* The START_PROBE law only changes the window, and never empties it away
\* from CA_LOSS.
LEMMA StartProbeStep ==
    ASSUME NEW E, NEW s \in StateType(E), NEW t \in SeenType,
           NEW r \in start_probe(s, t)
    PROVE  /\ r \in StateType(E)
           /\ r = [s EXCEPT !.curr_cwnd = r.curr_cwnd]
           /\ t.congState # "LOSS" => r.curr_cwnd >= 1
  <1> DEFINE grown == U32(s.curr_cwnd + t.lastAckedSackedBytes \div SegmentSize)
  <1> DEFINE num == s.fairness_rat * (s.bw - (s.bw * 13) \div 16) * t.minRtt
  <1>1. grown \in U32s
    <2>1. t.lastAckedSackedBytes \div SegmentSize \in Nat
      BY QuotientIsNat, LawAssumption DEF SeenType, U32s
    <2> QED
      BY <2>1, U32Type DEF StateType, U32s
  <1>2. num \in Nat
    <2>1. s.bw - (s.bw * 13) \div 16 \in Nat
      BY DEF StateType
    <2> QED
      BY <2>1, InputAssumption DEF StateType, SeenType, U32s
  <1>3. Converted(num, TicksPerSec) \subseteq U32s
    BY <1>2, ConvertedType, LawAssumption
  <1>4. PICK cap \in Converted(num, TicksPerSec) :
           r = [s EXCEPT !.curr_cwnd =
                  IF AckDeficit(s, t) \/ grown > t.bytesInFlight \div SegmentSize
                  THEN MinOf(grown, orMin(cap)) ELSE MaxOf(grown, orMin(cap))]
    BY DEF start_probe
  <1>5. orMin(cap) \in U32s /\ orMin(cap) >= 1
    BY <1>3, OrMinType
  <1>6. t.bytesInFlight \div SegmentSize \in Nat
    BY QuotientIsNat, LawAssumption DEF SeenType, U32s
  <1>7. MinOf(grown, orMin(cap)) \in U32s /\ MaxOf(grown, orMin(cap)) \in U32s
    BY <1>1, <1>5 DEF MinOf, MaxOf
  <1>8. r \in StateType(E) /\ r = [s EXCEPT !.curr_cwnd = r.curr_cwnd]
    BY <1>4, <1>7 DEF StateType
  <1>9. ASSUME t.congState # "LOSS" PROVE r.curr_cwnd >= 1
    <2>1. ~ AckDeficit(s, t)
      BY <1>9 DEF AckDeficit
    <2>2. grown > t.bytesInFlight \div SegmentSize => grown >= 1
      BY <1>1, <1>6 DEF U32s
    <2>3. r.curr_cwnd = IF grown > t.bytesInFlight \div SegmentSize
                        THEN MinOf(grown, orMin(cap)) ELSE MaxOf(grown, orMin(cap))
      BY <1>4, <2>1 DEF StateType
    <2> HIDE DEF grown
    <2> QED
      BY <1>1, <1>5, <2>2, <2>3 DEF MinOf, MaxOf, U32s
  <1> QED
    BY <1>8, <1>9

\* So does the PROBE_RTT law.
LEMMA GainStep ==
    ASSUME NEW E, NEW s \in StateType(E), s.bw >= 1, NEW t \in SeenType,
           NEW r \in cwnd_next_gain(s, t)
    PROVE  /\ r \in StateType(E)
           /\ r = [s EXCEPT !.curr_cwnd = r.curr_cwnd]
           /\ t.congState # "LOSS" => r.curr_cwnd >= 1
  <1> DEFINE num == s.fairness_rat * (s.bw - (s.bw * 14) \div 16) * t.cWnd
  <1>1. num \in Nat
    <2>1. s.bw - (s.bw * 14) \div 16 \in Nat
      BY DEF StateType
    <2> QED
      BY <2>1 DEF StateType, SeenType, U32s
  <1>2. Converted(num, s.bw) \subseteq U32s
    BY <1>1, ConvertedType DEF StateType
  <1>3. Truncated(t.cWnd, SegmentSize) \subseteq U32s
    <2>1. /\ t.cWnd \div SegmentSize \in Nat
          /\ t.cWnd \div SegmentSize <= t.cWnd
      BY LawAssumption, QuotientIsNat DEF SeenType, U32s
    <2> QED
      BY <2>1, LawAssumption DEF Truncated, U32s, SeenType
  <1>4. PICK c \in Truncated(t.cWnd, SegmentSize), cap \in Converted(num, s.bw) :
           r = [s EXCEPT !.curr_cwnd = IF AckDeficit(s, t) THEN MinOf(c, orMin(cap))
                                       ELSE MaxOf(c, orMin(cap))]
    BY DEF cwnd_next_gain
  <1>5. orMin(cap) \in U32s /\ orMin(cap) >= 1
    BY <1>2, OrMinType
  <1>6. c \in U32s
    BY <1>3
  <1>7. r \in StateType(E) /\ r = [s EXCEPT !.curr_cwnd = r.curr_cwnd]
    BY <1>4, <1>5, <1>6 DEF StateType, MinOf, MaxOf
  <1>8. ASSUME t.congState # "LOSS" PROVE r.curr_cwnd >= 1
    BY <1>4, <1>5, <1>6, <1>8 DEF AckDeficit, MaxOf, StateType, U32s
  <1> QED
    BY <1>7, <1>8

\* A drain leaves at least the minimum window and at most 10/16 of the estimate.
LEMMA DrainStep ==
    ASSUME NEW E, NEW s \in StateType(E)
    PROVE  LET r == drain_probe(s)
           IN  /\ r \in StateType(E)
               /\ r = [s EXCEPT !.curr_cwnd = r.curr_cwnd]
               /\ r.curr_cwnd >= 1
               /\ r.curr_cwnd <= MaxOf((s.bw * 10) \div 16, min_cwnd)
  <1> DEFINE c == MinOf(s.curr_cwnd, s.bw)
  <1>1. c \in U32s /\ c <= s.bw
    BY LawAssumption DEF MinOf, StateType, U32s
  <1>2. scaled(c, 10) \in U32s
    BY <1>1, ScaledType
  <1>3. scaled(c, 10) <= (s.bw * 10) \div 16
    <2>1. c * 10 \in Nat /\ c * 10 <= s.bw * 10
      BY <1>1 DEF StateType, U32s
    <2>2. U32(c * 10) \in Nat /\ U32(c * 10) <= c * 10
      BY <2>1, LawAssumption DEF U32
    <2> HIDE DEF c
    <2> QED
      BY <2>1, <2>2 DEF scaled, StateType
  <1> HIDE DEF c
  <1>4. drain_probe(s) = [s EXCEPT !.curr_cwnd = MaxOf(scaled(c, 10), min_cwnd)]
    BY DEF drain_probe, c
  <1> QED
    BY <1>2, <1>3, <1>4, MinCwndType DEF MaxOf, StateType, U32s

\* The pairs of modes that switch selects.
Pairs == {<<PROBE_BW, PROBE_RTT>>, <<DRAIN_PROBE, START_PROBE>>,
          <<PROBE_RTT, DRAIN_PROBE>>}

\* switch selects one of the three pairs, restarts the epoch at 9, drains then
\* and only then unless a minimum was counted, and leaves the window and the
\* estimates alone.
LEMMA SwitchStep ==
    ASSUME NEW s \in StateType(1 .. 9), NEW t \in SeenType
    PROVE  LET r == switch(s, t)
           IN  /\ r \in StateType(0 .. 8)
               /\ <<r.current_mode, r.probe_mode>> \in Pairs
               /\ r.bw = s.bw /\ r.last_bw = s.last_bw
               /\ r.curr_cwnd = s.curr_cwnd
               /\ r.epp = IF s.epp = 9 THEN 0 ELSE s.epp
               /\ r.epp_min_rtt = IF s.epp = 9 THEN 0 ELSE s.epp_min_rtt
               /\ r.last_min_rtt = s.last_min_rtt
               /\ r.probe_mode = DRAIN_PROBE <=> (s.epp = 9 /\ ~(s.epp_min_rtt > 0))
  <1> DEFINE mode == IF s.epp = 9
                     THEN IF s.epp_min_rtt > 0 THEN PROBE_BW ELSE PROBE_RTT
                     ELSE IF Congested(s, t) THEN DRAIN_PROBE ELSE PROBE_BW
  <1>1. /\ mode \in {PROBE_BW, PROBE_RTT, DRAIN_PROBE}
        /\ mode \in Modes /\ NextProbe(mode) \in Modes
        /\ <<mode, NextProbe(mode)>> \in Pairs
        /\ NextProbe(mode) = DRAIN_PROBE <=> (s.epp = 9 /\ ~(s.epp_min_rtt > 0))
    BY DEF Modes, NextProbe, Pairs, PROBE_BW, PROBE_RTT, DRAIN_PROBE, START_PROBE
  <1> HIDE DEF mode
  <1>2. switch(s, t) = [s EXCEPT !.current_mode = mode,
                          !.probe_mode = NextProbe(mode),
                          !.epp = IF s.epp = 9 THEN 0 ELSE @,
                          !.epp_min_rtt = IF s.epp = 9 THEN 0 ELSE @]
    BY DEF switch, mode
  <1>3. (IF s.epp = 9 THEN 0 ELSE s.epp) \in 0 .. 8
    BY DEF StateType
  <1>4. (IF s.epp = 9 THEN 0 ELSE s.epp_min_rtt) \in Nat
    BY DEF StateType
  <1> QED
    BY <1>1, <1>2, <1>3, <1>4 DEF StateType

\* tick counts the call.
LEMMA TickStep ==
    ASSUME NEW s \in StateType(0 .. 8)
    PROVE  tick(s) = [s EXCEPT !.epp = s.epp + 1] /\ tick(s) \in StateType(1 .. 9)
  BY DEF tick, StateType

\* prob only changes the window.
LEMMA ProbStep ==
    ASSUME NEW E, NEW s \in StateType(E), NEW t \in SeenType
    PROVE  /\ prob(s, t) \in StateType(E)
           /\ prob(s, t) = [s EXCEPT !.curr_cwnd = prob(s, t).curr_cwnd]
  <1>1. \A k \in Nat : MaxOf(scaled(s.curr_cwnd, k), min_cwnd) \in U32s
    BY ScaledType, MinCwndType DEF MaxOf, StateType
  <1>2. PICK k \in Nat :
           prob(s, t) = [s EXCEPT !.curr_cwnd = MaxOf(scaled(@, k), min_cwnd)]
    <2>1. CASE s.fairness_rat >= 2 \/ U32(2 * t.bytesInFlight) < s.curr_cwnd
      <3>1. prob(s, t) = [s EXCEPT !.curr_cwnd = MaxOf(scaled(@, 17), min_cwnd)]
        BY <2>1 DEF prob
      <3> QED
        BY <3>1
    <2>2. CASE ~(s.fairness_rat >= 2 \/ U32(2 * t.bytesInFlight) < s.curr_cwnd)
      <3>1. prob(s, t) = [s EXCEPT !.curr_cwnd = MaxOf(scaled(@, 8), min_cwnd)]
        BY <2>2 DEF prob
      <3> QED
        BY <3>1
    <2> QED
      BY <2>1, <2>2
  <1> QED
    BY <1>1, <1>2 DEF StateType

\* What any selected law keeps and establishes.
LEMMA ProbeStep ==
    ASSUME NEW s \in StateType(0 .. 8), s.bw >= 1, NEW t \in SeenType,
           <<s.current_mode, s.probe_mode>> \in Pairs,
           NEW r \in probe(s, t)
    PROVE  /\ r \in StateType(0 .. 8)
           /\ r = [s EXCEPT !.curr_cwnd = r.curr_cwnd]
           /\ t.congState # "LOSS" => r.curr_cwnd >= 1
           /\ s.probe_mode = DRAIN_PROBE
                => r.curr_cwnd <= MaxOf((s.bw * 10) \div 16, min_cwnd)
  <1>1. CASE s.probe_mode = START_PROBE
    <2>1. r \in start_probe(s, t)
      BY <1>1 DEF probe, START_PROBE, DRAIN_PROBE
    <2>2. s.probe_mode # DRAIN_PROBE
      BY <1>1 DEF START_PROBE, DRAIN_PROBE
    <2> QED
      BY <2>1, <2>2, StartProbeStep
  <1>2. CASE s.probe_mode = DRAIN_PROBE
    <2>1. r = drain_probe(s)
      BY <1>2 DEF probe, START_PROBE, DRAIN_PROBE
    <2> QED
      BY <2>1, DrainStep
  <1>3. CASE s.probe_mode = PROBE_RTT
    <2> DEFINE q == prob(s, t)
    <2>1. r \in cwnd_next_gain(q, t)
      BY <1>3 DEF probe, START_PROBE, DRAIN_PROBE, PROBE_RTT
    <2>2. q \in StateType(0 .. 8) /\ q = [s EXCEPT !.curr_cwnd = q.curr_cwnd]
      BY ProbStep
    <2> HIDE DEF q
    <2>3. q.bw >= 1
      BY <2>2 DEF StateType
    <2>4. /\ r \in StateType(0 .. 8)
          /\ r = [q EXCEPT !.curr_cwnd = r.curr_cwnd]
          /\ t.congState # "LOSS" => r.curr_cwnd >= 1
      BY <2>1, <2>2, <2>3, GainStep
    <2>5. s.probe_mode # DRAIN_PROBE
      BY <1>3 DEF PROBE_RTT, DRAIN_PROBE
    <2>6. r = [s EXCEPT !.curr_cwnd = r.curr_cwnd]
      BY <2>2, <2>4 DEF StateType
    <2> QED
      BY <2>4, <2>5, <2>6
  <1> QED
    BY <1>1, <1>2, <1>3 DEF Pairs

\* One call of IncreaseWindow, from any state whose bandwidth filter was never
\* fed: the types, the floor of the estimate, one of the three pairs of modes,
\* one step of the epoch, a window that is not empty away from CA_LOSS, and a
\* drain bounded by the estimate, at the end of an epoch in which no new
\* minimum was counted.
LEMMA IncreaseWindowStep ==
    ASSUME NEW s \in StateType(0 .. 8), s.last_bw = 0, NEW t \in SeenType,
           NEW r \in IncreaseWindow(s, t)
    PROVE  /\ r \in StateType(0 .. 8)
           /\ r.last_bw = 0 /\ r.bw >= InitialCWnd
           /\ <<r.current_mode, r.probe_mode>> \in Pairs
           /\ t.congState # "LOSS" => r.curr_cwnd >= 1
           /\ r.probe_mode = DRAIN_PROBE
                => r.curr_cwnd <= MaxOf((r.bw * 10) \div 16, min_cwnd)
           /\ r.epp = IF s.epp = 8 THEN 0 ELSE s.epp + 1
           /\ r.probe_mode = DRAIN_PROBE => s.epp = 8
           /\ s.epp = 8 => \/ r.probe_mode = DRAIN_PROBE
                           \/ s.epp_min_rtt > 0
                           \/ NewMinimum(s, t.lastRtt)
           /\ r.epp_min_rtt > s.epp_min_rtt
                => NewMinimum(s, t.lastRtt) /\ r.last_min_rtt < s.last_min_rtt
  <1> DEFINE s1 == [s EXCEPT !.curr_rtt = Seconds(t.lastRtt),
                             !.curr_cwnd = t.cWnd \div SegmentSize]
  <1> DEFINE s2 == epsilone_rtt(s1)
  <1>1. /\ s1 \in StateType(0 .. 8) /\ s1.last_bw = 0 /\ s1.epp = s.epp
        /\ s1.epp_min_rtt = s.epp_min_rtt /\ s1.last_min_rtt = s.last_min_rtt
        /\ s1.curr_rtt = Seconds(t.lastRtt)
    <2>1. Seconds(t.lastRtt) \in Nat
      BY QuotientIsNat, LawAssumption, InputAssumption DEF Seconds, SeenType
    <2>2. t.cWnd \div SegmentSize \in U32s
      <3>1. t.cWnd \in Nat /\ t.cWnd < Word
        BY LawAssumption DEF SeenType, U32s
      <3> QED
        BY <3>1, QuotientIsNat, LawAssumption DEF U32s
    <2> QED
      BY <2>1, <2>2 DEF StateType
  <1> HIDE DEF s1
  <1>2. /\ s2 \in StateType(0 .. 8) /\ s2.last_bw = 0 /\ s2.epp = s.epp
        /\ s2.epp_min_rtt # s.epp_min_rtt
             => NewMinimum(s, t.lastRtt) /\ s2.last_min_rtt < s.last_min_rtt
    BY <1>1, EpsiloneStep DEF NewMinimum
  <1>3. r \in SplineCCAlgo(s1, t)
    BY DEF IncreaseWindow, s1
  <1> HIDE DEF s2
  <1>4. PICK e \in estimate_bw(s2, t) : r \in probs(e, t)
    BY <1>3 DEF SplineCCAlgo, s2
  <1>5. /\ e \in StateType(0 .. 8)
        /\ e.last_bw = 0 /\ e.bw >= InitialCWnd /\ e.epp = s.epp
        /\ e.epp_min_rtt = s2.epp_min_rtt /\ e.last_min_rtt = s2.last_min_rtt
    BY <1>2, EstimateStep
  <1> DEFINE began == [tick(e) EXCEPT !.current_mode = START_PROBE]
  <1>6. /\ tick(e) \in StateType(1 .. 9) /\ began \in StateType(1 .. 9)
        /\ tick(e) = [e EXCEPT !.epp = e.epp + 1]
        /\ began = [tick(e) EXCEPT !.current_mode = START_PROBE]
    <2>1. tick(e) \in StateType(1 .. 9) /\ tick(e) = [e EXCEPT !.epp = e.epp + 1]
      BY <1>5, TickStep
    <2> QED
      BY <2>1 DEF StateType, Modes
  <1> HIDE DEF began
  <1>7. PICK q \in (IF e.probe_mode = START_PROBE THEN start_probe(began, t)
                    ELSE {tick(e)}) :
           r \in probe(switch(q, t), t)
    BY <1>4 DEF probs, began
  <1>8. /\ q \in StateType(1 .. 9) /\ q.last_bw = 0
        /\ q.bw = e.bw /\ q.epp = s.epp + 1
        /\ q.epp_min_rtt = e.epp_min_rtt /\ q.last_min_rtt = e.last_min_rtt
    <2>1. CASE e.probe_mode = START_PROBE
      <3>1. q \in start_probe(began, t)
        BY <1>7, <2>1
      <3>2. began \in StateType(1 .. 9)
        BY <1>6
      <3>3. /\ q \in StateType(1 .. 9)
            /\ q = [began EXCEPT !.curr_cwnd = q.curr_cwnd]
        BY <3>1, <3>2, StartProbeStep
      <3>4. /\ q.bw = began.bw /\ q.last_bw = began.last_bw /\ q.epp = began.epp
            /\ q.epp_min_rtt = began.epp_min_rtt
            /\ q.last_min_rtt = began.last_min_rtt
        BY <3>2, <3>3 DEF StateType
      <3>5. /\ began.bw = tick(e).bw /\ began.last_bw = tick(e).last_bw
            /\ began.epp = tick(e).epp
            /\ began.epp_min_rtt = tick(e).epp_min_rtt
            /\ began.last_min_rtt = tick(e).last_min_rtt
        <4> DEFINE k == tick(e)
        <4>1. k \in StateType(1 .. 9) /\ began = [k EXCEPT !.current_mode = START_PROBE]
          BY <1>6
        <4> HIDE DEF k
        <4>2. /\ began.bw = k.bw /\ began.last_bw = k.last_bw /\ began.epp = k.epp
              /\ began.epp_min_rtt = k.epp_min_rtt
              /\ began.last_min_rtt = k.last_min_rtt
          BY <4>1 DEF StateType
        <4> QED
          BY <4>2 DEF k
      <3>6. /\ tick(e).bw = e.bw /\ tick(e).last_bw = 0 /\ tick(e).epp = s.epp + 1
            /\ tick(e).epp_min_rtt = e.epp_min_rtt
            /\ tick(e).last_min_rtt = e.last_min_rtt
        BY <1>5, <1>6 DEF StateType
      <3> QED
        BY <3>3, <3>5, <3>6, <3>4
    <2>2. CASE e.probe_mode # START_PROBE
      <3>1. q = tick(e)
        BY <1>7, <2>2
      <3> QED
        BY <1>5, <1>6, <3>1 DEF StateType
    <2> QED
      BY <2>1, <2>2
  <1> DEFINE w == switch(q, t)
  <1>9. /\ w \in StateType(0 .. 8)
        /\ <<w.current_mode, w.probe_mode>> \in Pairs
        /\ w.bw = e.bw /\ w.last_bw = 0
        /\ w.epp = IF s.epp + 1 = 9 THEN 0 ELSE s.epp + 1
        /\ w.epp_min_rtt = IF s.epp + 1 = 9 THEN 0 ELSE s2.epp_min_rtt
        /\ w.last_min_rtt = s2.last_min_rtt
        /\ w.probe_mode = DRAIN_PROBE <=> (s.epp + 1 = 9 /\ ~(s2.epp_min_rtt > 0))
    BY <1>5, <1>8, SwitchStep
  <1>10. r \in probe(w, t)
    BY <1>7
  <1> HIDE DEF w
  <1>11. w.bw >= 1
    BY <1>5, <1>9, LawAssumption DEF StateType
  <1>12. /\ r \in StateType(0 .. 8)
         /\ r = [w EXCEPT !.curr_cwnd = r.curr_cwnd]
         /\ t.congState # "LOSS" => r.curr_cwnd >= 1
         /\ w.probe_mode = DRAIN_PROBE
              => r.curr_cwnd <= MaxOf((w.bw * 10) \div 16, min_cwnd)
    BY <1>9, <1>10, <1>11, ProbeStep
  <1>13. /\ r.bw = w.bw /\ r.last_bw = w.last_bw /\ r.epp = w.epp
         /\ r.current_mode = w.current_mode /\ r.probe_mode = w.probe_mode
         /\ r.epp_min_rtt = w.epp_min_rtt /\ r.last_min_rtt = w.last_min_rtt
    BY <1>9, <1>12 DEF StateType
  <1>14. r.epp = IF s.epp = 8 THEN 0 ELSE s.epp + 1
    BY <1>9, <1>13 DEF StateType
  <1>15. /\ s.epp \in Nat /\ s.epp_min_rtt \in Nat /\ s2.epp_min_rtt \in Nat
    BY <1>2 DEF StateType
  <1>16. /\ r.probe_mode = DRAIN_PROBE => s.epp = 8
         /\ s.epp = 8 => \/ r.probe_mode = DRAIN_PROBE
                         \/ s.epp_min_rtt > 0
                         \/ NewMinimum(s, t.lastRtt)
    BY <1>2, <1>9, <1>13, <1>15
  <1>17. r.epp_min_rtt > s.epp_min_rtt
           => NewMinimum(s, t.lastRtt) /\ r.last_min_rtt < s.last_min_rtt
    BY <1>2, <1>9, <1>13, <1>15
  <1> QED
    BY <1>5, <1>9, <1>12, <1>13, <1>14, <1>16, <1>17

-----------------------------------------------------------------------------
(***************************************************************************)
(* The inductive invariant.                                                *)
(***************************************************************************)
TcbType ==
    [congState : CongStates, cWnd : U32s, ssThresh : U32s,
     lastRtt : 0 .. TimeMax, minRtt : 1 .. TimeMax, pacing : BOOLEAN]

\* The safety invariants, with what they need of each other: the filter is
\* never fed, not even before the first window; the threshold of duplicates
\* is only reached on entering recovery; the PROBE_RTT law paces.
Inv ==
    /\ m \in StateType(0 .. 8) /\ tcb \in TcbType
    /\ dupAckCount \in 0 .. retxThresh
    /\ tcb.congState # "RECOVERY" => dupAckCount < retxThresh
    /\ m.last_bw = 0
    /\ m.bw > 0 => /\ m.bw >= InitialCWnd
                   /\ <<m.current_mode, m.probe_mode>> \in Pairs
                   /\ tcb.congState # "LOSS" => m.curr_cwnd >= 1
                   /\ tcb.congState \in {"OPEN", "DISORDER"}
                        => tcb.cWnd = WindowOf(m)
    /\ m.probe_mode = PROBE_RTT => tcb.pacing

\* What every step does besides keeping Inv.
StepOK ==
    /\ Increased /\ m'.probe_mode = DRAIN_PROBE
         => m'.curr_cwnd <= MaxOf((m'.bw * 10) \div 16, min_cwnd)
    /\ tcb.pacing => tcb'.pacing
    /\ Increased => /\ m'.probe_mode = DRAIN_PROBE => m.epp = 8
                    /\ m.epp = 8 => \/ m'.probe_mode = DRAIN_PROBE
                                    \/ m.epp_min_rtt > 0
                                    \/ tcb.congState = "DISORDER"
    /\ m'.epp_min_rtt > m.epp_min_rtt
         => /\ tcb.congState = "DISORDER" /\ tcb'.congState = "OPEN"
            /\ dupAckCount > 0 /\ m'.last_min_rtt < m.last_min_rtt

\* An RTT the algorithm has not been shown by PktsAcked: the measurements s are
\* those of before, and CA_DISORDER ends with duplicates still counted.
Unmeasured(s, t) ==
    /\ s = m /\ dupAckCount > 0
    /\ tcb.congState = "DISORDER" /\ t.congState = "OPEN"

\* The initial state satisfies the invariant.
LEMMA InitInv == Init => Inv
  <1> SUFFICES ASSUME Init PROVE Inv
    OBVIOUS
  <1>1. U32(InitialCWnd * SegmentSize) \in U32s
    BY U32Type, LawAssumption
  <1>2. m \in StateType(0 .. 8) /\ m.last_bw = 0 /\ m.bw = 0 /\ m.probe_mode = START_PROBE
    BY LawAssumption
    DEF Init, InitState, StateType, U32s, Modes, START_PROBE
  <1>3. tcb \in TcbType /\ dupAckCount = 0
    BY <1>1, LawAssumption, InputAssumption DEF Init, TcbType, CongStates, U32s
  <1> QED
    BY <1>2, <1>3 DEF Inv, retxThresh, START_PROBE, PROBE_RTT

\* The round-trip estimate of an ACK.
LEMMA EstimateRttStep ==
    ASSUME tcb \in TcbType, NEW ack \in Acks
    PROVE  /\ EstimateRtt(ack) \in TcbType
           /\ EstimateRtt(ack).congState = tcb.congState
           /\ EstimateRtt(ack).pacing = tcb.pacing
           /\ EstimateRtt(ack).cWnd = tcb.cWnd
           /\ ack.segs \in Nat /\ ack.segs \in U32s
  <1>1. ack.rtt # 0 => ack.rtt \in 1 .. TimeMax
    BY InputAssumption DEF Acks
  <1>2. tcb.minRtt \in 1 .. TimeMax
    BY DEF TcbType
  <1>3. ack.rtt # 0 => MinOf(ack.rtt, tcb.minRtt) \in 1 .. TimeMax
    BY <1>1, <1>2 DEF MinOf
  <1>4. ack.segs \in Nat /\ ack.segs \in U32s
    <2>1. ack.segs \in 0 .. Word - 1
      BY InputAssumption DEF Acks
    <2> QED
      BY <2>1, LawAssumption DEF U32s
  <1>5. CASE ack.rtt = 0
    BY <1>4, <1>5 DEF EstimateRtt
  <1>6. CASE ack.rtt # 0
    <2>1. ack.rtt \in 0 .. TimeMax
      BY <1>1, <1>6
    <2>2. EstimateRtt(ack) = [tcb EXCEPT !.lastRtt = ack.rtt,
                                         !.minRtt = MinOf(ack.rtt, @)]
      BY <1>6 DEF EstimateRtt
    <2> QED
      BY <1>3, <1>4, <1>6, <2>1, <2>2 DEF TcbType
  <1> QED
    BY <1>5, <1>6

\* The threshold a recovery or a timeout sets is a word.
LEMMA SsThreshType ==
    ASSUME m \in StateType(0 .. 8)
    PROVE  GetSsThresh(m) \in U32s
  <1>1. scaled(m.curr_cwnd, 14) \in U32s
    BY ScaledType DEF StateType
  <1> QED
    BY <1>1, LawAssumption DEF GetSsThresh, MaxOf, U32s

\* A handler that calls no hook but PktsAcked.
LEMMA QuietStep ==
    ASSUME Inv,
           m' \in StateType(0 .. 8),
           m'.bw = m.bw, m'.last_bw = m.last_bw, m'.epp = m.epp,
           m'.epp_min_rtt = m.epp_min_rtt,
           m'.current_mode = m.current_mode, m'.probe_mode = m.probe_mode,
           m'.curr_cwnd = m.curr_cwnd,
           tcb' \in TcbType, tcb'.pacing = tcb.pacing,
           tcb.congState = "LOSS" => tcb'.congState = "LOSS",
           tcb'.congState \in {"OPEN", "DISORDER"}
             => tcb.congState \in {"OPEN", "DISORDER"} /\ tcb'.cWnd = tcb.cWnd,
           dupAckCount' \in 0 .. retxThresh,
           tcb'.congState # "RECOVERY" => dupAckCount' < retxThresh
    PROVE  Inv' /\ StepOK
  <1>1. WindowOf(m)' = WindowOf(m)
    BY DEF WindowOf
  <1>2. Inv'
    BY <1>1 DEF Inv, retxThresh
  <1>3. ~(m'.epp_min_rtt > m.epp_min_rtt)
    BY DEF Inv, StateType
  <1> QED
    BY <1>2, <1>3 DEF StepOK, Increased

\* A handler that ends in IncreaseWindow.
LEMMA IncreaseStep ==
    ASSUME Inv,
           NEW s \in StateType(0 .. 8), s.last_bw = 0,
           s.epp = m.epp, s.epp_min_rtt = m.epp_min_rtt,
           NEW t \in TcbType, t.pacing = tcb.pacing,
           NewMinimum(s, t.lastRtt) => Unmeasured(s, t),
           NEW ack \in Acks, Increase(s, t, ack),
           dupAckCount' \in 0 .. retxThresh,
           t.congState # "RECOVERY" => dupAckCount' < retxThresh
    PROVE  Inv' /\ StepOK
  <1>1. /\ Seen(t, ack) \in SeenType /\ Seen(t, ack).congState = t.congState
        /\ Seen(t, ack).lastRtt = t.lastRtt
    <2>1. ack.flight \in U32s /\ ack.delivered \in U32s
      <3>1. ack.flight \in InFlights /\ ack.delivered \in Deliveries
        BY DEF Acks
      <3> QED
        BY <3>1, InputAssumption DEF U32s
    <2> QED
      BY <2>1 DEF Seen, SeenType, TcbType
  <1>2. PICK r \in IncreaseWindow(s, Seen(t, ack)) :
           /\ m' = r
           /\ tcb' = [t EXCEPT !.cWnd = WindowOf(r), !.pacing = PacingOf(r, @)]
    BY DEF Increase
  <1>3. /\ r \in StateType(0 .. 8)
        /\ r.last_bw = 0 /\ r.bw >= InitialCWnd
        /\ <<r.current_mode, r.probe_mode>> \in Pairs
        /\ t.congState # "LOSS" => r.curr_cwnd >= 1
        /\ r.probe_mode = DRAIN_PROBE
             => r.curr_cwnd <= MaxOf((r.bw * 10) \div 16, min_cwnd)
        /\ r.probe_mode = DRAIN_PROBE => s.epp = 8
        /\ s.epp = 8 => \/ r.probe_mode = DRAIN_PROBE
                        \/ s.epp_min_rtt > 0
                        \/ NewMinimum(s, t.lastRtt)
        /\ r.epp_min_rtt > s.epp_min_rtt
             => NewMinimum(s, t.lastRtt) /\ r.last_min_rtt < s.last_min_rtt
    BY <1>1, IncreaseWindowStep
  <1>4. WindowOf(r) \in U32s
    <2>1. r.curr_cwnd * SegmentSize \in Nat
      BY <1>3, LawAssumption DEF StateType, U32s
    <2> QED
      BY <2>1, U32Type DEF WindowOf
  <1>5. /\ PacingOf(r, t.pacing) \in BOOLEAN
        /\ r.probe_mode = PROBE_RTT => PacingOf(r, t.pacing)
        /\ t.pacing => PacingOf(r, t.pacing)
    <2>1. t.pacing \in BOOLEAN
      BY DEF TcbType
    <2>2. r.probe_mode \in {PROBE_BW, PROBE_RTT} => r.current_mode # START_PROBE
      BY <1>3 DEF Pairs, START_PROBE, PROBE_BW, PROBE_RTT, DRAIN_PROBE
    <2>3. CASE r.probe_mode \in {PROBE_BW, PROBE_RTT}
      BY <2>2, <2>3 DEF PacingOf
    <2>4. CASE r.probe_mode \notin {PROBE_BW, PROBE_RTT}
      BY <2>1, <2>4 DEF PacingOf
    <2> QED
      BY <2>3, <2>4
  <1>6. /\ tcb' \in TcbType /\ tcb'.pacing = PacingOf(r, t.pacing)
        /\ tcb'.congState = t.congState /\ tcb'.cWnd = WindowOf(r)
    BY <1>2, <1>4, <1>5 DEF TcbType
  <1>7. /\ m' \in StateType(0 .. 8) /\ m'.last_bw = 0 /\ m'.bw >= InitialCWnd
        /\ <<m'.current_mode, m'.probe_mode>> \in Pairs
        /\ tcb'.congState # "LOSS" => m'.curr_cwnd >= 1
        /\ tcb'.cWnd = WindowOf(m')
        /\ m'.probe_mode = PROBE_RTT => tcb'.pacing
    BY <1>2, <1>3, <1>5, <1>6
  <1>8. Inv'
    <2>1. tcb'.congState # "RECOVERY" => dupAckCount' < retxThresh
      BY <1>6
    <2> QED
      BY <1>6, <1>7, <2>1 DEF Inv
  <1>9. StepOK
    BY <1>2, <1>3, <1>5, <1>6 DEF StepOK, Unmeasured
  <1> QED
    BY <1>8, <1>9

\* The hook PktsAcked, from a state that satisfies the invariant.
LEMMA MeasureStep ==
    ASSUME Inv, NEW n \in Nat, NEW t \in TcbType
    PROVE  LET r == PktsAcked(m, n, t.lastRtt)
           IN  /\ r \in StateType(0 .. 8) /\ r.last_bw = 0 /\ r.bw = m.bw
               /\ r.current_mode = m.current_mode
               /\ r.probe_mode = m.probe_mode
               /\ r.curr_cwnd = m.curr_cwnd /\ r.epp = m.epp
               /\ r.epp_min_rtt = m.epp_min_rtt
               /\ ~NewMinimum(r, t.lastRtt)
  <1>1. t.lastRtt \in 0 .. TimeMax
    BY DEF TcbType
  <1> QED
    BY <1>1, PktsAckedStep DEF Inv

\* Every action keeps the invariant, bounds a drain and leaves pacing on.
LEMMA NextStep == Inv /\ Next => Inv' /\ StepOK
  <1> SUFFICES ASSUME Inv, Next PROVE Inv' /\ StepOK
    OBVIOUS
  <1>1. /\ m \in StateType(0 .. 8) /\ m.last_bw = 0
        /\ tcb \in TcbType /\ dupAckCount \in 0 .. retxThresh
        /\ tcb.congState # "RECOVERY" => dupAckCount < retxThresh
    BY DEF Inv
  \* The actions that end in IncreaseWindow.
  <1>2. ASSUME NEW ack \in Acks, NewAckOpen(ack) PROVE Inv' /\ StepOK
    <2> DEFINE t == EstimateRtt(ack)
    <2>1. t \in TcbType /\ t.pacing = tcb.pacing /\ ack.segs \in Nat
      BY <1>1, EstimateRttStep
    <2>2. Increase(PktsAcked(m, ack.segs, t.lastRtt), t, ack)
      BY <1>2 DEF NewAckOpen
    <2>3. dupAckCount' \in 0 .. retxThresh /\ dupAckCount' < retxThresh
      BY <1>1, <1>2 DEF NewAckOpen, retxThresh
    <2> HIDE DEF t
    <2> QED
      BY <1>1, <2>1, <2>2, <2>3, MeasureStep, IncreaseStep
  <1>3. ASSUME NEW ack \in Acks, PartialAckLoss(ack) PROVE Inv' /\ StepOK
    <2> DEFINE t == EstimateRtt(ack)
    <2>1. t \in TcbType /\ t.pacing = tcb.pacing /\ ack.segs \in Nat
      BY <1>1, EstimateRttStep
    <2>2. Increase(PktsAcked(m, ack.segs, t.lastRtt), t, ack)
      BY <1>3 DEF PartialAckLoss
    <2>3. dupAckCount' \in 0 .. retxThresh /\ dupAckCount' < retxThresh
      BY <1>1, <1>3 DEF PartialAckLoss, retxThresh
    <2> HIDE DEF t
    <2> QED
      BY <1>1, <2>1, <2>2, <2>3, MeasureStep, IncreaseStep
  <1>4. ASSUME NEW ack \in Acks, ExitLoss(ack) PROVE Inv' /\ StepOK
    <2> DEFINE t == EstimateRtt(ack)
    <2> DEFINE open == [t EXCEPT !.congState = "OPEN"]
    <2>1. t \in TcbType /\ t.pacing = tcb.pacing /\ ack.segs \in Nat
      BY <1>1, EstimateRttStep
    <2>2. Increase(PktsAcked(m, ack.segs, t.lastRtt), open, ack)
      BY <1>4 DEF ExitLoss
    <2>3. dupAckCount' \in 0 .. retxThresh /\ dupAckCount' < retxThresh
      BY <1>1, <1>4 DEF ExitLoss, retxThresh
    <2> HIDE DEF t
    <2>4. open \in TcbType /\ open.pacing = tcb.pacing /\ open.lastRtt = t.lastRtt
      BY <2>1 DEF TcbType, CongStates
    <2> HIDE DEF open
    <2> QED
      BY <1>1, <2>1, <2>2, <2>3, <2>4, MeasureStep, IncreaseStep
  <1>5. ASSUME NEW ack \in Acks, ExitRecovery(ack) PROVE Inv' /\ StepOK
    <2> DEFINE t == EstimateRtt(ack)
    <2> DEFINE open == [t EXCEPT !.congState = "OPEN", !.cWnd = t.ssThresh]
    <2>1. t \in TcbType /\ t.pacing = tcb.pacing /\ ack.segs \in Nat
      BY <1>1, EstimateRttStep
    <2>2. /\ Increase(PktsAcked(m, ack.segs, t.lastRtt), open, ack)
          /\ dupAckCount' = 0
      BY <1>5 DEF ExitRecovery
    <2> HIDE DEF t
    <2>3. open \in TcbType /\ open.pacing = tcb.pacing /\ open.lastRtt = t.lastRtt
      BY <2>1 DEF TcbType, CongStates
    <2>4. dupAckCount' \in 0 .. retxThresh /\ dupAckCount' < retxThresh
      BY <2>2 DEF retxThresh
    <2> HIDE DEF open
    <2> QED
      BY <1>1, <2>1, <2>2, <2>3, <2>4, MeasureStep, IncreaseStep
  <1>6. ASSUME NEW ack \in Acks, ExitDisorder(ack) PROVE Inv' /\ StepOK
    <2> DEFINE t == EstimateRtt(ack)
    <2> DEFINE open == [t EXCEPT !.congState = "OPEN"]
    <2> DEFINE s == IF ack.segs >= dupAckCount
                    THEN PktsAcked(m, ack.segs - dupAckCount, t.lastRtt) ELSE m
    <2>1. t \in TcbType /\ t.pacing = tcb.pacing /\ ack.segs \in Nat
      BY <1>1, EstimateRttStep
    <2>2. Increase(s, open, ack) /\ dupAckCount' = 0
      BY <1>6 DEF ExitDisorder
    <2> HIDE DEF t
    <2>3. open \in TcbType /\ open.pacing = tcb.pacing /\ open.lastRtt = t.lastRtt
      BY <2>1 DEF TcbType, CongStates
    <2>4. /\ s \in StateType(0 .. 8) /\ s.last_bw = 0
          /\ s.epp = m.epp /\ s.epp_min_rtt = m.epp_min_rtt
          /\ NewMinimum(s, t.lastRtt) => s = m /\ dupAckCount > 0
      <3>1. CASE ack.segs >= dupAckCount
        <4>1. ack.segs - dupAckCount \in Nat
          BY <1>1, <2>1, <3>1
        <4> QED
          BY <2>1, <3>1, <4>1, MeasureStep
      <3>2. CASE ~(ack.segs >= dupAckCount)
        BY <1>1, <2>1, <3>2
      <3> QED
        BY <3>1, <3>2
    <2>5. dupAckCount' \in 0 .. retxThresh /\ dupAckCount' < retxThresh
      BY <2>2 DEF retxThresh
    <2>6. tcb.congState = "DISORDER" /\ open.congState = "OPEN"
      BY <1>6, <2>1 DEF ExitDisorder, TcbType
    <2>7. NewMinimum(s, open.lastRtt) => Unmeasured(s, open)
      BY <2>3, <2>4, <2>6 DEF Unmeasured
    <2> HIDE DEF open, s
    <2> QED
      BY <2>2, <2>3, <2>4, <2>5, <2>7, IncreaseStep
  \* The actions that call no hook but PktsAcked.
  <1>7. ASSUME NEW ack \in Acks, RepeatedAck(ack) PROVE Inv' /\ StepOK
    <2>1. /\ tcb' \in TcbType /\ tcb'.pacing = tcb.pacing
          /\ tcb'.congState = tcb.congState /\ tcb'.cWnd = tcb.cWnd
      BY <1>1, <1>7, EstimateRttStep DEF RepeatedAck
    <2>2. m' = PktsAcked(m, 1, tcb'.lastRtt) /\ dupAckCount' = dupAckCount
      BY <1>7 DEF RepeatedAck
    <2> QED
      BY <1>1, <2>1, <2>2, MeasureStep, QuietStep
  <1>8. ASSUME NEW ack \in Acks, NEW advances \in BOOLEAN, DupAck(ack, advances)
        PROVE  Inv' /\ StepOK
    <2> DEFINE t == EstimateRtt(ack)
    <2>1. t \in TcbType /\ t.pacing = tcb.pacing /\ t.cWnd = tcb.cWnd /\ ack.segs \in Nat
      BY <1>1, EstimateRttStep
    <2>2. /\ tcb.congState \in {"OPEN", "DISORDER"}
          /\ dupAckCount + 1 < retxThresh /\ dupAckCount' = dupAckCount + 1
          /\ tcb' = [t EXCEPT !.congState = "DISORDER"]
          /\ m' = IF ~advances THEN PktsAcked(m, 1, t.lastRtt)
                  ELSE IF ack.segs >= dupAckCount
                  THEN PktsAcked(m, ack.segs - dupAckCount, t.lastRtt)
                  ELSE m
      BY <1>8 DEF DupAck
    <2> HIDE DEF t
    <2>3. tcb' \in TcbType /\ tcb'.pacing = tcb.pacing /\ tcb'.cWnd = tcb.cWnd
      BY <2>1, <2>2 DEF TcbType, CongStates
    <2>4. /\ m' \in StateType(0 .. 8) /\ m'.last_bw = m.last_bw /\ m'.bw = m.bw
          /\ m'.current_mode = m.current_mode /\ m'.probe_mode = m.probe_mode
          /\ m'.curr_cwnd = m.curr_cwnd /\ m'.epp = m.epp
          /\ m'.epp_min_rtt = m.epp_min_rtt
      <3>1. CASE ~advances
        BY <1>1, <2>1, <2>2, <3>1, MeasureStep
      <3>2. CASE advances /\ ack.segs >= dupAckCount
        <4>1. ack.segs - dupAckCount \in Nat
          BY <1>1, <2>1, <3>2
        <4> QED
          BY <1>1, <2>1, <2>2, <3>2, <4>1, MeasureStep
      <3>3. CASE advances /\ ~(ack.segs >= dupAckCount)
        BY <1>1, <2>2, <3>3
      <3> QED
        BY <3>1, <3>2, <3>3
    <2>5. dupAckCount' \in 0 .. retxThresh /\ dupAckCount' < retxThresh
      BY <1>1, <2>2 DEF retxThresh
    <2>6. tcb.congState # "LOSS" /\ tcb.congState \in {"OPEN", "DISORDER"}
      BY <2>2
    <2> QED
      BY <2>3, <2>4, <2>5, <2>6, QuietStep
  <1>9. ASSUME NEW ack \in Acks, NEW window \in RecoveryWindows,
               EnterRecovery(ack, window)
        PROVE  Inv' /\ StepOK
    <2> DEFINE t == EstimateRtt(ack)
    <2>1. t \in TcbType /\ t.pacing = tcb.pacing
      BY <1>1, EstimateRttStep
    <2>2. /\ tcb.congState \in {"OPEN", "DISORDER"}
          /\ dupAckCount' = dupAckCount + 1
          /\ tcb' = [t EXCEPT !.congState = "RECOVERY",
                              !.ssThresh = GetSsThresh(m), !.cWnd = window]
          /\ m' = PktsAcked(m, 1, t.lastRtt)
      BY <1>9 DEF EnterRecovery
    <2> HIDE DEF t
    <2>3. window \in U32s
      BY InputAssumption DEF U32s
    <2>4. /\ tcb' \in TcbType /\ tcb'.pacing = tcb.pacing
          /\ tcb'.congState = "RECOVERY"
      BY <1>1, <2>1, <2>2, <2>3, SsThreshType DEF TcbType, CongStates
    <2>5. dupAckCount' \in 0 .. retxThresh /\ tcb.congState # "LOSS"
      <3>1. dupAckCount < retxThresh
        BY <1>1, <2>2
      <3> QED
        BY <1>1, <2>2, <3>1 DEF retxThresh
    <2> QED
      BY <1>1, <2>1, <2>2, <2>4, <2>5, MeasureStep, QuietStep
  <1>10. ASSUME NEW ack \in Acks, NEW window \in RecoveryWindows,
                AckInRecovery(ack, window)
         PROVE  Inv' /\ StepOK
    <2> DEFINE t == EstimateRtt(ack)
    <2>1. t \in TcbType /\ t.pacing = tcb.pacing /\ t.congState = tcb.congState
      BY <1>1, EstimateRttStep
    <2>2. /\ tcb.congState = "RECOVERY" /\ dupAckCount' = dupAckCount
          /\ tcb' = [t EXCEPT !.cWnd = window]
          /\ m' = PktsAcked(m, 1, t.lastRtt)
      BY <1>10 DEF AckInRecovery
    <2> HIDE DEF t
    <2>3. window \in U32s
      BY InputAssumption DEF U32s
    <2>4. /\ tcb' \in TcbType /\ tcb'.pacing = tcb.pacing
          /\ tcb'.congState = "RECOVERY"
      BY <2>1, <2>2, <2>3 DEF TcbType
    <2> QED
      BY <1>1, <2>1, <2>2, <2>4, MeasureStep, QuietStep
  <1>11. ASSUME ReTxTimeout PROVE Inv' /\ StepOK
    <2>1. /\ tcb' = [tcb EXCEPT !.congState = "LOSS", !.cWnd = SegmentSize,
                                !.ssThresh = GetSsThresh(m)]
          /\ dupAckCount' = 0 /\ m' = m
      BY <1>11 DEF ReTxTimeout
    <2>2. SegmentSize \in U32s
      BY LawAssumption DEF U32s
    <2>3. /\ tcb' \in TcbType /\ tcb'.pacing = tcb.pacing
          /\ tcb'.congState = "LOSS"
      BY <1>1, <2>1, <2>2, SsThreshType DEF TcbType, CongStates
    <2>4. dupAckCount' \in 0 .. retxThresh /\ dupAckCount' < retxThresh
      BY <2>1 DEF retxThresh
    <2> QED
      BY <1>1, <2>1, <2>3, <2>4, QuietStep
  <1> QED
    BY <1>2, <1>3, <1>4, <1>5, <1>6, <1>7, <1>8, <1>9, <1>10, <1>11 DEF Next

\* A step that changes nothing.
LEMMA StutterStep == Inv /\ UNCHANGED vars => Inv' /\ StepOK
  <1> SUFFICES ASSUME Inv, UNCHANGED vars PROVE Inv' /\ StepOK
    OBVIOUS
  <1>1. Inv'
    BY DEF Inv, vars
  <1>2. ~(m'.epp_min_rtt > m.epp_min_rtt)
    BY DEF Inv, StateType, vars
  <1> QED
    BY <1>1, <1>2 DEF StepOK, Increased, vars

-----------------------------------------------------------------------------
(***************************************************************************)
(* The theorems.                                                           *)
(***************************************************************************)

\* The inductive invariant holds of every behaviour.
THEOREM Invariance == Spec => []Inv
  <1>1. Inv /\ [Next]_vars => Inv'
    BY NextStep, StutterStep
  <1> QED
    BY <1>1, InitInv, PTL DEF Spec

\* The fields of the algorithm and of the socket keep their types: no handler,
\* whatever it is given, leaves a value the code could not have stored.
THEOREM TypeCorrect == Spec => []TypeOK
  <1>1. Inv => TypeOK
    BY DEF Inv, TypeOK, StateType, TcbType, CongStates
  <1> QED
    BY <1>1, Invariance, PTL

\* A window of at least one segment that fits a word is not empty in bytes.
LEMMA WindowFits ==
    ASSUME NEW c \in U32s, c >= 1, c * SegmentSize < Word
    PROVE  U32(c * SegmentSize) >= SegmentSize
  <1> DEFINE x == c * SegmentSize
  <1>1. x \in Nat /\ x >= SegmentSize
    BY LawAssumption DEF U32s
  <1>2. x < Word
    OBVIOUS
  <1> HIDE DEF x
  <1>3. x % Word = x
    BY <1>1, <1>2, LawAssumption
  <1> QED
    BY <1>1, <1>3 DEF U32, x

\* In CA_OPEN and CA_DISORDER the socket's byte window is the algorithm's, modulo
\* the word (spline-cc.cc:63), and holds at least one segment unless it overflowed,
\* whatever the word size, the segment size and the values measured.
THEOREM WindowEmptyOnlyByOverflow == Spec => []WindowFloor
  <1>1. ASSUME Inv PROVE WindowFloor
    <2> SUFFICES ASSUME Started, tcb.congState \in {"OPEN", "DISORDER"}
                 PROVE  /\ tcb.cWnd = WindowOf(m)
                        /\ tcb.cWnd >= SegmentSize \/ Overflowed
      BY DEF WindowFloor
    <2>1. m.curr_cwnd \in U32s /\ m.curr_cwnd >= 1 /\ tcb.cWnd = WindowOf(m)
      BY <1>1 DEF Inv, Started, StateType
    <2>2. CASE Overflowed
      BY <2>1, <2>2
    <2>3. CASE ~Overflowed
      <3>1. m.curr_cwnd * SegmentSize < Word
        <4>1. m.curr_cwnd * SegmentSize \in Nat
          BY <2>1, LawAssumption DEF U32s
        <4> QED
          BY <2>3, <4>1, LawAssumption DEF Overflowed
      <3> QED
        BY <2>1, <3>1, WindowFits DEF WindowOf
    <2> QED
      BY <2>2, <2>3
  <1> QED
    BY <1>1, Invariance, PTL

\* The mode machine only ever rests in three pairs of modes: the PROBE_BW law
\* is never selected.
THEOREM ModesPaired == Spec => []ModePairs
  <1>1. Inv => ModePairs
    BY DEF Inv, ModePairs, Started, Pairs
  <1> QED
    BY <1>1, Invariance, PTL

\* The bandwidth estimate is never filtered nor averaged.
THEOREM FilterNeverFed == Spec => []BandwidthUnfiltered
  <1>1. Inv => BandwidthUnfiltered
    BY DEF Inv, BandwidthUnfiltered, Started
  <1> QED
    BY <1>1, Invariance, PTL

\* A drain leaves at most 10/16 of the bandwidth estimate, in every step.
THEOREM DrainIsBounded == Spec => DrainBound
  <1>1. Inv /\ [Next]_vars
          => [Increased /\ m'.probe_mode = DRAIN_PROBE
                => m'.curr_cwnd <= MaxOf((m'.bw * 10) \div 16, min_cwnd)]_vars
    BY NextStep, StutterStep DEF StepOK
  <1> QED
    BY <1>1, Invariance, PTL DEF Spec, DrainBound

\* The draining law runs at the end of an epoch and only there, and an epoch
\* ends without it only if a new minimum RTT came past PktsAcked.
THEOREM DrainsAtEpochEnd == Spec => DrainAtEpochEnd
  <1>1. Inv /\ [Next]_vars
          => [Increased => /\ m'.probe_mode = DRAIN_PROBE => m.epp = 8
                           /\ m.epp = 8 => \/ m'.probe_mode = DRAIN_PROBE
                                           \/ m.epp_min_rtt > 0
                                           \/ tcb.congState = "DISORDER"]_vars
    BY NextStep, StutterStep DEF StepOK
  <1> QED
    BY <1>1, Invariance, PTL DEF Spec, DrainAtEpochEnd

\* __epsilone_rtt notices a new minimum only when CA_DISORDER ends with fewer
\* segments acknowledged than duplicates counted: at any other time PktsAcked
\* has been there before it.
THEOREM MinimumNoticedLate == Spec => NewMinimumOnlyAfterReordering
  <1>1. Inv /\ [Next]_vars
          => [m'.epp_min_rtt > m.epp_min_rtt
                => /\ tcb.congState = "DISORDER" /\ tcb'.congState = "OPEN"
                   /\ dupAckCount > 0 /\ m'.last_min_rtt < m.last_min_rtt]_vars
    BY NextStep, StutterStep DEF StepOK
  <1> QED
    BY <1>1, Invariance, PTL DEF Spec, NewMinimumOnlyAfterReordering

\* The PROBE_RTT law runs with pacing on, and pacing never goes off again.
THEOREM PacingNeverOff == Spec => PacingLatched
  <1>1. Inv /\ [Next]_vars
          => [/\ m'.probe_mode = PROBE_RTT => tcb'.pacing
              /\ tcb.pacing => tcb'.pacing]_vars
    <2> SUFFICES ASSUME Inv, [Next]_vars
                 PROVE  /\ m'.probe_mode = PROBE_RTT => tcb'.pacing
                        /\ tcb.pacing => tcb'.pacing
      OBVIOUS
    <2>1. Inv' /\ StepOK
      BY NextStep, StutterStep
    <2> QED
      BY <2>1 DEF Inv, StepOK
  <1> QED
    BY <1>1, Invariance, PTL DEF Spec, PacingLatched
=============================================================================
