--------------------------- MODULE MC_CommandPools ---------------------------
(* The render thread and another one that records. *)
EXTENDS CommandPools, TLC
CONSTANTS r, u
ThreadSymmetry == Permutations({r, u})
=============================================================================
