---------------------------- MODULE TcpCongestion ----------------------------
(***************************************************************************)
(* What the sending half of TcpSocketBase calls to set its window: NewReno *)
(* (tcp-congestion-ops.cc), the classic recovery (tcp-recovery-ops.cc) and *)
(* proportional rate reduction (tcp-prr-recovery.cc), as operators on the  *)
(* socket, of which they use                                               *)
(*                                                                         *)
(*   alg        "classic" or "prr" with NewReno, or "any": some congestion *)
(*              control that sets whatever window the ACK has with it      *)
(*   cWnd, ssThresh   m_cWnd, m_ssThresh                                   *)
(*   flight     m_bytesInFlight, as it was when it was last computed       *)
(*   prr        m_prrDelivered, m_prrOut, m_recoveryFlightSize             *)
(*                                                                         *)
(* c is what is known of the ACK being processed: the window of "any", the *)
(* bytes newly delivered, whether it acknowledges what was sent again.     *)
(* m_cWndInfl is traced only.                                              *)
(***************************************************************************)
EXTENDS TcpTxBuffer

NoPrr == [delivered |-> 0, out |-> 0, flightSize |-> 0]

CeilDiv(a, b) == (a + b - 1) \div b

-----------------------------------------------------------------------------
(***************************************************************************)
(* NewReno.                                                                *)
(***************************************************************************)
GetSsThresh(bytesInFlight) == MaxOf(2 * SegmentSize, bytesInFlight \div 2)

CongestionAvoidance(s, segs) ==
    IF segs > 0
    THEN [s EXCEPT !.cWnd = @ + MaxOf(1, (SegmentSize * SegmentSize) \div @)]
    ELSE s

\* An ACK that ends slow start counts for both, one segment less.
NewRenoIncrease(s, segs) ==
    LET slow == s.cWnd < s.ssThresh /\ segs > 0
        t    == IF slow THEN [s EXCEPT !.cWnd = @ + SegmentSize] ELSE s
    IN  IF t.cWnd >= t.ssThresh
        THEN CongestionAvoidance(t, IF slow THEN segs - 1 ELSE segs)
        ELSE t

IncreaseWindow(s, segs, c) ==
    IF s.alg = "any" THEN [s EXCEPT !.cWnd = c.window] ELSE NewRenoIncrease(s, segs)

Reduce(s, bytesInFlight) ==
    IF s.alg = "any" THEN s ELSE [s EXCEPT !.ssThresh = GetSsThresh(bytesInFlight)]

-----------------------------------------------------------------------------
(***************************************************************************)
(* Proportional rate reduction.  The counters are unsigned: a negative     *)
(* difference wraps, wins the maximum, and is negative again as an int.    *)
(***************************************************************************)
SlowStartBound(s, c) ==
    LET owed == s.prr.delivered - s.prr.out
    IN  CASE ~c.rtxAcked -> c.delivered
          [] c.rtxAcked /\ owed >= 0 -> MaxOf(owed, c.delivered) + SegmentSize
          [] c.rtxAcked /\ owed < 0 -> owed + SegmentSize

SendCount(s, c) ==
    IF s.flight > s.ssThresh
    THEN CeilDiv(s.prr.delivered * s.ssThresh, s.prr.flightSize) - s.prr.out
    ELSE MinOf(SlowStartBound(s, c), s.ssThresh - s.flight)

PrrWindow(s, c) ==
    [s EXCEPT !.cWnd = s.flight + MaxOf(SendCount(s, c),
                                        IF s.prr.out > 0 THEN 0 ELSE SegmentSize)]

PrrDoRecovery(s, c) == PrrWindow([s EXCEPT !.prr.delivered = @ + c.delivered], c)

PrrEnterRecovery(s, unAcked, c) ==
    PrrDoRecovery([s EXCEPT !.prr = [NoPrr EXCEPT !.flightSize = unAcked]], c)

-----------------------------------------------------------------------------
(***************************************************************************)
(* The recovery algorithm.                                                 *)
(***************************************************************************)
OpsEnterRecovery(s, unAcked, c) ==
    CASE s.alg = "any" -> [s EXCEPT !.cWnd = c.window]
      [] s.alg = "classic" -> [s EXCEPT !.cWnd = s.ssThresh]
      [] s.alg = "prr" -> PrrEnterRecovery(s, unAcked, c)

OpsDoRecovery(s, c) ==
    CASE s.alg = "any" -> [s EXCEPT !.cWnd = c.window]
      [] s.alg = "classic" -> s
      [] s.alg = "prr" -> PrrDoRecovery(s, c)

OpsUpdateBytesSent(s, n) ==
    IF s.alg = "prr" /\ s.congState = "RECOVERY" THEN [s EXCEPT !.prr.out = @ + n] ELSE s

\* Leaving recovery: the window is the threshold.
LeaveRecovery(s) == IF s.alg = "any" THEN s ELSE [s EXCEPT !.cWnd = s.ssThresh]
=============================================================================
