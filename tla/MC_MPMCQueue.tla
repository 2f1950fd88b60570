---------------------------- MODULE MC_MPMCQueue ----------------------------
(* Model values of the TLC runs of MPMCQueue. *)
EXTENDS MPMCQueue, TLC
CONSTANTS t1, t2, t3, v1, v2, noValue
QueueSymmetry == Permutations({t1, t2, t3}) \cup Permutations({v1, v2})
=============================================================================
