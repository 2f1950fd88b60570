-------------------------- MODULE MC_FiberScheduler --------------------------
(* Three jobs: c continues a and b.  In the liveness run all three have    *)
(* different priorities and the function of b waits for a; in the safety   *)
(* run b may continue a as well (a join, a chain or both), and all three   *)
(* share a queue of two cells, so that pushes are refused, by a full queue *)
(* as by a cell that a pop has not released.                               *)
EXTENDS FiberScheduler, TLC
CONSTANTS a, b, c, f1, f2
JobPriority == (a :> 1) @@ (b :> 0) @@ (c :> 2)
JoinEdges == {<<a, c>>, <<b, c>>}
AllEdges == JoinEdges \cup {<<a, b>>}
BWaitsForA == (a :> {}) @@ (b :> {a}) @@ (c :> {})
NoWaits == (a :> {}) @@ (b :> {}) @@ (c :> {})
SharedPriority == (a :> 1) @@ (b :> 1) @@ (c :> 1)
FiberSymmetry == Permutations({f1, f2})
=============================================================================
