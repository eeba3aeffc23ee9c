----------------------------- MODULE MCSplineCC -----------------------------
(***************************************************************************)
(* Small instances of SplineCC.  uint32_t is given few values so that      *)
(* windows overflow; a segment is two bytes or four, so that segments and  *)
(* bytes differ; a tick is half a second, so that estimates below and      *)
(* above one second occur.  The window instance varies what the window     *)
(* depends on, with words wide enough for drains that do and do not        *)
(* overflow and segments that make a word divide a window in bytes, which  *)
(* is then empty; the rtt instance what the minimum RTT depends on.        *)
(***************************************************************************)
EXTENDS SplineCC

WindowRtts       == {3}
WindowFlights    == {0, 6}
WindowDeliveries == {0, 4}
WindowCounts     == {0, 2}

AllRtts       == {1, 2, 4}
RttFlights   == {2}
RttDeliveries == {4}
RttCounts    == {1}

RecoveryWindow == {2, 4}

LateDeliveries == {4}
LateWindow     == {4}
=============================================================================
