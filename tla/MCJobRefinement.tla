--------------------------- MODULE MCJobRefinement ---------------------------
(* Model checking of JobRefinement on small instances; see the .cfg files.  *)
EXTENDS JobRefinement, TLC

CONSTANTS a, b, h1, h2, g1, g2, g3, g4, c1, c2

Symmetry ==
  Permutations(Slots) \cup Permutations(Clients) \cup Permutations(Imports)
=============================================================================
