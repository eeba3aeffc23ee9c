---------------------------- MODULE ReceiveStream ----------------------------
(***************************************************************************)
(* What a receiver promises: the application reads the peer's stream from  *)
(* its beginning, in order and without gaps; a byte once received is never *)
(* given up; nothing is acknowledged that has not been received together   *)
(* with everything before it; and what is in order is acknowledged in the  *)
(* end.  One handler may do all three at once.                             *)
(***************************************************************************)
EXTENDS Integers, FiniteSets, SequencesExt

CONSTANT StreamLength

VARIABLES
    have,     \* bytes received, read or not
    out,      \* bytes the application has read, in order
    acked,    \* highest acknowledgment sent
    gone      \* the connection was reset

vars == <<have, out, acked, gone>>

Stream == 0 .. StreamLength - 1

\* Bytes received in order; past the last one, the FIN counts as one more.
InOrder(S) == Min({b \in 0 .. StreamLength : b \notin S})
Sendable(S) == IF InOrder(S) = StreamLength THEN StreamLength + 1 ELSE InOrder(S)

Init == have = {} /\ out = <<>> /\ acked = 0 /\ gone = FALSE

Receive == have' \subseteq Stream /\ have \subseteq have'

Deliver == /\ IsPrefix(out, out')
           /\ out' = [i \in 1 .. Len(out') |-> i - 1]
           /\ Len(out') <= InOrder(have')

Acknowledge == acked <= acked' /\ acked' <= Sendable(have')

Next == Receive /\ Deliver /\ Acknowledge /\ (gone => gone')

\* In-order bytes do not stay unacknowledged.
Answered == \A b \in 1 .. StreamLength : InOrder(have) >= b ~> acked >= b \/ gone

Spec == Init /\ [][Next]_vars /\ Answered
=============================================================================
