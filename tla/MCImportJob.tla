----------------------------- MODULE MCImportJob -----------------------------
(* Model checking of ImportJob on small plans; see the .cfg files.          *)
EXTENDS ImportJob

(* Two data sources; the first has two files.                               *)
PlanValue == <<<<3, 1>>, <<1>>>>

(* The second graph of the first file comes without a checkpoint.           *)
UnmarkedValue == {<<1, 1, 2>>}
=============================================================================
