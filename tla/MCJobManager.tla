---------------------------- MODULE MCJobManager ----------------------------
(* Model checking of JobManager on small instances; see the .cfg files.     *)
EXTENDS JobManager, TLC

CONSTANTS a, b, h1, h2, g1, g2, g3, g4, c1, c2

(* Goroutine slots, requests and configurations are interchangeable.        *)
Symmetry ==
  Permutations(Slots) \cup Permutations(Clients) \cup Permutations(Imports)
=============================================================================
