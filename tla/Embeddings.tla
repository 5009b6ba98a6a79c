------------------------------ MODULE Embeddings ------------------------------
(***************************************************************************)
(* embeddingJob: goroutines that have an embedding generated for each item  *)
(* of a list, or of an import, whose items are read page by page, and a     *)
(* checkpoint that the job is resumed from when the process stopped.        *)
(***************************************************************************)
EXTENDS Naturals, FiniteSets, SequencesExt

CONSTANTS
  Works,        (* [listed, items]: the jobs, each item with the embeddings   *)
                (* that it has and that are outdated, or not fit for one      *)
  PageSize, BatchSize,
  MaxSessions   (* how often the job is run                                   *)

EmbeddingsAssumption ==
  /\ {PageSize, BatchSize, MaxSessions} \subseteq Nat \ {0}
  /\ \A w \in Works : w.listed \in BOOLEAN /\ w.items \in Seq([fit : BOOLEAN, old : Nat])

VARIABLES
  work,
  phase,        (* "run", "page", "done", "error" or "stopped"                *)
  scan,         (* the page, where it starts, its last row, and the place in it*)
  spawned,      (* the goroutines that are under way, by their place          *)
  made,         (* the embeddings that the job has inserted, by item          *)
  attempted,    (* the items that it has come to                              *)
  saved,        (* the checkpoint in the table jobs                           *)
  resumed       (* the checkpoints that its runs began with                   *)

vars == <<work, phase, scan, spawned, made, attempted, saved, resumed>>

Items == DOMAIN work.items
NoCheckpoint == [start |-> 0, index |-> 0]

-----------------------------------------------------------------------------

(* The query joins items with their embeddings: an item without any is one  *)
(* row, and else each embedding that is outdated is one.                    *)
RowsOf(i) == IF ~work.items[i].fit THEN 0
             ELSE IF work.items[i].old = 0 /\ made[i] = 0 THEN 1 ELSE work.items[i].old
RowsAfter(last) ==
  FlattenSeq([i \in Items |-> IF i > last THEN [k \in 1..RowsOf(i) |-> i] ELSE <<>>])
Page(last) == SubSeq(RowsAfter(last), 1, IF Len(RowsAfter(last)) < PageSize THEN Len(RowsAfter(last)) ELSE PageSize)

Listed == [i \in Items |-> i]

Init ==
  /\ work \in Works
  /\ phase = "stopped"
  /\ scan = [page |-> <<>>, start |-> 0, last |-> 0, at |-> 1]
  /\ spawned = {} /\ attempted = {}
  /\ made = [i \in Items |-> 0]
  /\ saved = NoCheckpoint /\ resumed = <<>>

(* A list is processed as one page; for an import, what is left of the      *)
(* items is counted first, and there may be nothing to do.                  *)
Run ==
  /\ phase = "stopped" /\ Len(resumed) < MaxSessions
  /\ resumed' = Append(resumed, saved)
  /\ IF work.listed
     THEN /\ phase' = "page"
          /\ scan' = [page |-> Listed, start |-> 0, last |-> 0, at |-> saved.index + 1]
     ELSE /\ phase' = IF RowsAfter(0) = <<>> THEN "done" ELSE "run"
          /\ scan' = [page |-> <<>>, start |-> saved.start, last |-> saved.start, at |-> saved.index + 1]
  /\ UNCHANGED <<work, spawned, made, attempted, saved>>

LoadPage ==
  /\ phase = "run"
  /\ LET page == Page(scan.last) IN
       IF page = <<>> THEN phase' = "done" /\ UNCHANGED scan
       ELSE /\ phase' = "page"
            /\ scan' = [scan EXCEPT !.page = page, !.start = scan.last, !.last = Last(page)]
  /\ UNCHANGED <<work, spawned, made, attempted, saved, resumed>>

AtBoundary == scan.at % BatchSize = 0

(* Mutant of Position: the checkpoint says that this item is done as well.  *)
PositionAfter == scan.at
Position == scan.at - 1

(* One more goroutine; the last of a batch waits for those before it, and   *)
(* they are what the checkpoint covers.  It is written at most every two    *)
(* seconds.                                                                 *)
Spawn ==
  /\ phase = "page" /\ scan.at <= Len(scan.page)
  /\ AtBoundary => spawned = {}
  /\ saved' \in {saved} \cup (IF AtBoundary THEN {[start |-> scan.start, index |-> Position]} ELSE {})
  /\ spawned' = spawned \cup {scan.at}
  /\ scan' = [scan EXCEPT !.at = @ + 1]
  /\ UNCHANGED <<work, phase, made, attempted, resumed>>

(* A goroutine ends; the server has made the embedding, or not.             *)
Generate ==
  /\ \E k \in spawned :
       /\ spawned' = spawned \ {k}
       /\ attempted' = attempted \cup {scan.page[k]}
       /\ made' \in {made} \cup (IF work.items[scan.page[k]].fit
                                  THEN {[made EXCEPT ![scan.page[k]] = @ + 1]} ELSE {})
  /\ UNCHANGED <<work, phase, scan, saved, resumed>>

(* Mutant of FirstOfPage: the index of the checkpoint is kept.              *)
FirstResumed == resumed[Len(resumed)].index + 1
FirstOfPage == 1

(* The page is done when its goroutines are.                                *)
EndPage ==
  /\ phase = "page" /\ scan.at > Len(scan.page) /\ spawned = {}
  /\ phase' = IF work.listed THEN "done" ELSE "run"
  /\ scan' = [scan EXCEPT !.at = FirstOfPage]
  /\ UNCHANGED <<work, spawned, made, attempted, saved, resumed>>

(* Cancelled: goroutines that are under way fail or end.                    *)
Cancel ==
  /\ phase \in {"run", "page"}
  /\ phase' = "error"
  /\ UNCHANGED <<work, scan, spawned, made, attempted, saved, resumed>>

Stop ==
  /\ phase \in {"run", "page"}
  /\ phase' = "stopped"
  /\ spawned' = {}
  /\ UNCHANGED <<work, scan, made, attempted, saved, resumed>>

Next == Run \/ LoadPage \/ Spawn \/ Generate \/ EndPage \/ Cancel \/ Stop

Spec == Init /\ [][Next]_vars

-----------------------------------------------------------------------------

TypeOK ==
  /\ phase \in {"run", "page", "done", "error", "stopped"}
  /\ spawned \subseteq DOMAIN scan.page
  /\ made \in [Items -> Nat] /\ attempted \subseteq Items
  /\ \A k \in DOMAIN resumed : DOMAIN resumed[k] = {"start", "index"}

(* As many items as the checkpoint counts, if it was one in the midst of a  *)
(* page: they have their embeddings, so that the page that is read again    *)
(* begins after them, and others are passed over in their place.            *)
PassedOver == IF work.listed THEN 0 ELSE FoldLeft(LAMBDA sum, c : sum + c.index, 0, resumed)

(* A job that has ended came to every item that it is for, whatever         *)
(* restarts there were, but for those; and none is given two embeddings for *)
(* want of one (ml.go:59-183, 185-230).                                     *)
EveryItemIsEmbedded ==
  /\ phase = "done" =>
       Cardinality({i \in Items : work.items[i].fit} \ attempted) <= PassedOver
  /\ ~work.listed => \A i \in Items : work.items[i].old = 0 => made[i] <= 1
==============================================================================
