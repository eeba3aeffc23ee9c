------------------------- MODULE MCEventSchedulers --------------------------
(* The instance TLC checks; its bounds are in the configuration. *)
EXTENDS EventSchedulers
=============================================================================
