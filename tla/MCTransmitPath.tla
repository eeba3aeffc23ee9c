--------------------------- MODULE MCTransmitPath ---------------------------
(* Small instances of TransmitPath for TLC: urgent packets are short, and  *)
(* a device queue holds two packets.                                       *)
EXTENDS TransmitPath

TwoKinds == {[priority |-> 6, size |-> 1], [priority |-> 0, size |-> 2]}
Sends == <<5, 4>>
Rooms == [packets |-> 2, bytes |-> 5]
=============================================================================
