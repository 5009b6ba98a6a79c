----------------------------- MODULE MCDataFiles -----------------------------
(* Model checking of DataFiles on small instances; see the .cfg files.      *)
EXTENDS DataFiles, TLC

CONSTANTS a, b, c, e, j1, j2, r1, r2, h1, h2

Item(row, hash, base, named, naming) ==
  [row |-> row, hash |-> hash, base |-> base, named |-> named,
   update |-> TRUE, naming |-> naming]

(* Two items with the same file; a new version of the first, and a file     *)
(* whose name is not known (until it is found in the second's row).         *)
ItemInfoValue ==
  a :> Item(r1, h1, "n", TRUE, "preferIncoming") @@ b :> Item(r2, h1, "n", TRUE, "preferExisting")
  @@ c :> Item(r1, h2, "n", TRUE, "preferIncoming") @@ e :> Item(r2, h2, "ts", FALSE, "overwrite")
BatchesValue == j1 :> <<a, b>> @@ j2 :> <<c, e>>
==============================================================================
