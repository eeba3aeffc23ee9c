---- MODULE MCSimulator ----
(* The instance TLC checks.  Threads are alike. *)
EXTENDS Simulator, TLC

CONSTANTS t1, t2

MCThreads == {t1, t2}
Alike == Permutations(MCThreads)
====
