------------------------------ MODULE ImportJob ------------------------------
(***************************************************************************)
(* An import job: ImportJob.Run (timeline/imports.go), processor.process    *)
(* (processor.go), the batching goroutine (processing.go) and the pipeline  *)
(* of a batch (pipeline.go), with the checkpoints of its ActiveJob.         *)
(*                                                                         *)
(* A plan is a list of data sources, each with a list of files.  The data   *)
(* source sends the graphs of a file one by one over an unbuffered channel  *)
(* to a worker, which stores them in batches, one transaction per batch,    *)
(* and makes a checkpoint after each.  What happens to the job as a whole   *)
(* is the subject of JobManager.                                            *)
(***************************************************************************)
EXTENDS Naturals, Sequences

CONSTANTS
  Plan,           (* for each data source, the number of graphs of its files *)
  Unmarked,       (* graphs the data source sends without a checkpoint      *)
  EstimateTotal,  (* whether the size is estimated first                    *)
  BatchSize,      (* graphs per transaction                                 *)
  Faults,         (* what may go wrong: fail, cancel, panic, stop           *)
  MaxRuns,        (* times the job may be run (bound)                       *)
  None

Sources == 1..Len(Plan)
Files(i) == 1..Len(Plan[i])

(* A graph: the indices of its source and file (the code counts from 0),    *)
(* and its place in the file.                                               *)
Graphs ==
  UNION {UNION {{<<i, j, k>> : k \in 1..Plan[i][j]} : j \in Files(i)} : i \in Sources}

ASSUME PlanAssumption ==
  /\ Plan \in Seq(Seq(Nat))
  /\ BatchSize \in Nat \ {0}
  /\ EstimateTotal \in BOOLEAN
  /\ MaxRuns \in Nat
  /\ Faults \subseteq {"fail", "cancel", "panic", "stop"}

VARIABLES
  row,      (* the job's row: its state and checkpoint                      *)
  runs,     (* how often Run was called                                     *)
  pc,       (* where Run is                                                 *)
  ij,       (* its loop variables, and what its ActiveJob keeps in memory   *)
  chkpt,    (* its local variable chkpt: the checkpoint it started from     *)
  src,      (* the data source at work                                      *)
  wrk,      (* the worker, and one that a panicking data source left behind *)
  handled,  (* graphs committed (or refused one by one, which is logged)    *)
  lost,     (* history: graphs of batches that failed as a whole, or that a *)
            (* panicking data source had not brought to the database        *)
  panicked  (* history: whether a data source ever panicked                 *)

history == <<lost, panicked>>
dbVars == <<row, handled, history>>
runVars == <<runs, pc, ij, chkpt>>
vars == <<row, runs, pc, ij, chkpt, src, wrk, handled, lost, panicked>>

(* importJobCheckpoint: est is whether there is an estimate, ds the data    *)
(* source's own checkpoint (0: none).                                       *)
Checkpoint == [est: BOOLEAN, o: Nat, f: Nat, ds: Nat]

States == {"started", "interrupted", "aborted", "failed", "succeeded"}
Workers == {"main", "leaked"}
NoWorker == [at |-> "off", o |-> 1, f |-> 1, lo |-> 0, hi |-> 0]

Loop == [est: BOOLEAN, o: Nat, f: Nat, cancelled: BOOLEAN,
         chk: Checkpoint \cup {None}, result: States \cup {None}]
Worker == [at: {"off", "receive", "batch", "stored", "syncing"},
           o: Nat, f: Nat, lo: Nat, hi: Nat]

TypeOK ==
  /\ row \in [state: States, chk: Checkpoint \cup {None}]
  /\ runs \in 0..MaxRuns
  /\ pc \in {"off", "outer", "inner", "opening", "process", "ending", "endtx"}
  /\ ij \in Loop
  /\ chkpt \in Checkpoint
  /\ src \in {"idle", "reading", "sending", "ok", "stopped", "failed"}
  /\ wrk \in [Workers -> Worker]
  /\ \A w \in Workers : wrk[w].lo <= wrk[w].hi /\ wrk[w].hi <= wrk[w].lo + BatchSize
  /\ handled \subseteq Graphs
  /\ lost \subseteq Graphs
  /\ panicked \in BOOLEAN

-----------------------------------------------------------------------------
(* ActiveJob: Checkpoint and the end of the job.                            *)

At(est, o, f, ds) == [est |-> est, o |-> o, f |-> f, ds |-> ds]

(* The one connection for writing is the final transaction's meanwhile.     *)
CanWrite == pc # "endtx"

(* Kept in memory, and written: the first one of a run in any case, a later *)
(* one unless the last write was not long ago.  Both under the job's mutex. *)
MakeCheckpoint(c) ==
  /\ ij' = [ij EXCEPT !.chk = c]
  /\ \/ CanWrite /\ row' = [row EXCEPT !.chk = c]
     \/ ij.chk # None /\ row' = row

Return(result) ==          \* Run returns
  /\ pc' = "ending"
  /\ ij' = [ij EXCEPT !.result = result]
  /\ src' = "idle"
  /\ wrk' = [wrk EXCEPT !["main"] = NoWorker]
  /\ UNCHANGED <<runs, chkpt, row, handled, history>>

(* The final transaction of runJob takes the connection for writing, and    *)
(* then the mutex of the job, more than once.                               *)
BeginEnd ==
  /\ pc = "ending"
  /\ pc' = "endtx"
  /\ UNCHANGED <<dbVars, runs, ij, chkpt, src, wrk>>

EndJob ==
  /\ pc = "endtx"
  /\ wrk["leaked"].at # "syncing"
  /\ pc' = "off"
  /\ row' = [state |-> ij.result,
             chk |-> IF ij.result = "succeeded" THEN None ELSE ij.chk]
  /\ UNCHANGED <<runs, ij, chkpt, src, wrk, handled, history>>

-----------------------------------------------------------------------------
(* ImportJob.Run.                                                          *)

Fresh == [est |-> EstimateTotal, o |-> 1, f |-> 1, ds |-> 0]

(* The job is started, or started again from its checkpoint.                *)
Run ==
  LET c == IF row.chk = None THEN Fresh ELSE row.chk IN
  /\ pc = "off"
  /\ row.state # "succeeded"
  /\ wrk["leaked"] = NoWorker
  /\ runs < MaxRuns
  /\ runs' = runs + 1
  /\ row' = [row EXCEPT !.state = "started"]
  /\ chkpt' = c
  /\ ij' = [est |-> c.est, o |-> c.o, f |-> 1, cancelled |-> FALSE,
            chk |-> None, result |-> None]
  /\ pc' = "outer"
  /\ UNCHANGED <<src, wrk, handled, history>>

NextSource ==              \* the head of the outer loop
  /\ pc = "outer"
  /\ ij.o <= Len(Plan)
  /\ ~ij.cancelled
  /\ pc' = "inner"
  /\ ij' = [ij EXCEPT !.f = chkpt.f]
  /\ UNCHANGED <<dbVars, runs, chkpt, src, wrk>>

SourceDone ==
  /\ pc = "inner"
  /\ ij.f > Len(Plan[ij.o])
  /\ pc' = "outer"
  /\ ij' = [ij EXCEPT !.o = @ + 1]
  /\ UNCHANGED <<dbVars, runs, chkpt, src, wrk>>

(* The head of the inner loop: a checkpoint, but for a file that is resumed *)
(* from the data source's own.                                              *)
NextFile ==
  /\ pc = "inner"
  /\ ij.f <= Len(Plan[ij.o])
  /\ ~ij.cancelled
  /\ IF chkpt.ds = 0 THEN MakeCheckpoint(At(ij.est, ij.o, ij.f, 0))
                     ELSE UNCHANGED <<ij, row>>
  /\ pc' = "opening"
  /\ UNCHANGED <<runs, chkpt, src, wrk, handled, history>>

Cancelled ==               \* job.Context().Err() at the heads of the loops,
  /\ ij.cancelled          \* after the checkpoint, and at the end
  /\ \/ pc = "outer" /\ (ij.o <= Len(Plan) \/ ~ij.est)
     \/ pc = "inner" /\ ij.f <= Len(Plan[ij.o])
     \/ pc = "opening"
  /\ Return("aborted")

FileFails ==               \* it cannot be opened, or its source is unknown
  /\ "fail" \in Faults
  /\ pc = "opening"
  /\ Return("failed")

(* process begins: a worker, and a data source that skips what its          *)
(* checkpoint says.                                                         *)
Process ==
  /\ pc = "opening"
  /\ ~ij.cancelled
  /\ pc' = "process"
  /\ src' = "reading"
  /\ wrk' = [wrk EXCEPT !["main"] = [at |-> "receive", o |-> ij.o, f |-> ij.f,
                                     lo |-> chkpt.ds, hi |-> chkpt.ds]]
  /\ UNCHANGED <<dbVars, runs, ij, chkpt>>

FileDone ==
  /\ chkpt' = [chkpt EXCEPT !.ds = 0, !.f = 1]
  /\ ij' = [ij EXCEPT !.f = @ + 1]
  /\ pc' = "inner"
  /\ src' = "idle"

(* process returns once the worker has: with the data source's error, which *)
(* is only logged while the size is estimated.                              *)
ProcessReturns ==
  /\ pc = "process"
  /\ src \in {"ok", "stopped", "failed"}
  /\ wrk["main"].at = "off"
  /\ IF src = "ok" \/ ij.est
       THEN FileDone /\ UNCHANGED <<runs, row, wrk, handled, history>>
       ELSE Return(IF src = "stopped" THEN "aborted" ELSE "failed")

(* Mutant of Estimated: the import starts where the estimation was resumed. *)
EstimatedFromThere ==
  /\ pc = "outer"
  /\ ij.o > Len(Plan)
  /\ ij.est
  /\ ij' = [ij EXCEPT !.est = FALSE, !.o = chkpt.o]
  /\ UNCHANGED <<dbVars, runs, pc, chkpt, src, wrk>>

Estimated ==               \* once more through the plan, to import
  /\ pc = "outer"
  /\ ij.o > Len(Plan)
  /\ ij.est
  /\ ij' = [ij EXCEPT !.est = FALSE, !.o = 1]
  /\ chkpt' = [chkpt EXCEPT !.o = 1]
  /\ UNCHANGED <<dbVars, runs, pc, src, wrk>>

Succeed ==
  /\ pc = "outer"
  /\ ij.o > Len(Plan)
  /\ ~ij.est
  /\ ~ij.cancelled
  /\ Return("succeeded")

-----------------------------------------------------------------------------
(* The data source.                                                        *)

HasMore == wrk["main"].hi < Plan[ij.o][ij.f]

SourceReads ==             \* it has a graph, and blocks until it is received
  /\ src = "reading"
  /\ HasMore
  /\ src' = "sending"
  /\ UNCHANGED <<dbVars, runVars, wrk>>

(* It returns after its last graph, when the job is cancelled, or fails;    *)
(* done is closed.                                                          *)
SourceReturns ==
  /\ src = "reading"
  /\ \/ ~HasMore /\ src' = "ok"
     \/ ij.cancelled /\ src' = "stopped"
     \/ "fail" \in Faults /\ src' = "failed"
  /\ UNCHANGED <<dbVars, runVars, wrk>>

(* A panic is recovered in process, which returns no error: done is not     *)
(* closed, and a worker in the middle of a batch is left behind.            *)
SourcePanics ==
  LET w == wrk["main"] IN
  /\ "panic" \in Faults
  /\ src = "reading"
  /\ wrk["leaked"] = NoWorker
  /\ FileDone
  /\ wrk' = [main |-> NoWorker, leaked |-> IF w.at = "receive" THEN NoWorker ELSE w]
  /\ panicked' = TRUE
  /\ lost' = IF ij.est THEN lost
             ELSE lost \cup {g \in Graphs : g[1] = w.o /\ g[2] = w.f /\ g[3] > w.lo}
  /\ UNCHANGED <<runs, row, handled>>

-----------------------------------------------------------------------------
(* The worker.                                                             *)

(* Mutant of Full: one more.                                                *)
OverFull(w) == w.hi - w.lo >= BatchSize

Full(w) == w.hi - w.lo + 1 >= BatchSize      \* with the graph just received

(* Mutant of Receive: the graph's checkpoint is taken when it is received.  *)
ReceiveAndCheckpoint ==
  LET w == wrk["main"] IN
  /\ src = "sending"
  /\ w.at = "receive"
  /\ src' = "reading"
  /\ wrk' = [wrk EXCEPT !["main"].hi = @ + 1,
                        !["main"].lo = IF ij.est THEN @ + 1 ELSE @,
                        !["main"].at = IF ~ij.est /\ Full(w) THEN "batch" ELSE @]
  /\ MakeCheckpoint(At(ij.est, ij.o, ij.f, IF ij.est THEN 0 ELSE w.hi + 1))
  /\ UNCHANGED <<runs, pc, chkpt, handled, history>>

Receive ==                 \* while estimating, graphs are only counted
  LET w == wrk["main"] IN
  /\ src = "sending"
  /\ w.at = "receive"
  /\ src' = "reading"
  /\ wrk' = [wrk EXCEPT !["main"].hi = @ + 1,
                        !["main"].lo = IF ij.est THEN @ + 1 ELSE @,
                        !["main"].at = IF ~ij.est /\ Full(w) THEN "batch" ELSE @]
  /\ UNCHANGED <<dbVars, runVars>>

(* Mutant of Drain: the worker leaves as soon as the job is cancelled.      *)
DrainOrLeave ==
  LET w == wrk["main"] IN
  /\ src \in {"ok", "stopped", "failed"} \/ ij.cancelled
  /\ w.at = "receive"
  /\ wrk' = IF w.hi > w.lo /\ ~ij.cancelled
              THEN [wrk EXCEPT !["main"].at = "batch"]
              ELSE [wrk EXCEPT !["main"] = NoWorker]
  /\ UNCHANGED <<dbVars, runVars, src>>

(* done is closed: the last batch, unless the job is cancelled.             *)
Drain ==
  LET w == wrk["main"] IN
  /\ src \in {"ok", "stopped", "failed"}
  /\ w.at = "receive"
  /\ wrk' = IF w.hi > w.lo /\ ~ij.cancelled
              THEN [wrk EXCEPT !["main"].at = "batch"]
              ELSE [wrk EXCEPT !["main"] = NoWorker]
  /\ UNCHANGED <<dbVars, runVars, src>>

Batch(w) == {g \in Graphs : g[1] = w.o /\ g[2] = w.f /\ g[3] > w.lo /\ g[3] <= w.hi}

(* The pipeline: one transaction, which a cancelled context undoes.  Items  *)
(* that exist already are skipped.                                          *)
StoreBatch(x) ==
  LET batch == Batch(wrk[x]) IN
  /\ wrk[x].at = "batch"
  /\ CanWrite \/ ij.cancelled
  /\ wrk' = [wrk EXCEPT ![x].at = "stored"]
  /\ IF ij.cancelled
       THEN lost' = lost \cup (batch \ handled) /\ UNCHANGED handled
       ELSE handled' = handled \cup batch /\ UNCHANGED lost
  /\ UNCHANGED <<row, runVars, src, panicked>>

Marks(w) == {g[3] : g \in Batch(w) \ Unmarked}
LastMark(w) == CHOOSE k \in Marks(w) : \A m \in Marks(w) : m <= k

(* Whatever became of the batch, its last checkpoint is the job's.          *)
CheckpointBatch(x) ==
  LET w == wrk[x] IN
  /\ w.at = "stored"
  /\ wrk' = [wrk EXCEPT ![x] = IF x = "main"
                                 THEN [w EXCEPT !.at = "receive", !.lo = w.hi]
                                 ELSE NoWorker]
  /\ IF Marks(w) = {} THEN UNCHANGED <<ij, row>>
                      ELSE MakeCheckpoint(At(FALSE, w.o, w.f, LastMark(w)))
  /\ UNCHANGED <<runs, pc, chkpt, src, handled, history>>

(* A worker left behind makes a checkpoint during the final transaction: it *)
(* waits with the mutex for the connection, and who has the connection      *)
(* waits for the mutex.                                                     *)
SyncWaits ==
  LET w == wrk["leaked"] IN
  /\ w.at = "stored"
  /\ ~CanWrite
  /\ Marks(w) # {}
  /\ ij' = [ij EXCEPT !.chk = At(FALSE, w.o, w.f, LastMark(w))]
  /\ wrk' = [wrk EXCEPT !["leaked"].at = "syncing"]
  /\ UNCHANGED <<dbVars, runs, pc, chkpt, src>>

-----------------------------------------------------------------------------
(* The environment.                                                        *)

Cancel ==                  \* CancelJob
  /\ "cancel" \in Faults
  /\ pc \notin {"off", "ending", "endtx"}
  /\ ~ij.cancelled
  /\ ij' = [ij EXCEPT !.cancelled = TRUE]
  /\ UNCHANGED <<dbVars, runs, pc, chkpt, src, wrk>>

(* The process ends, or Close makes writing impossible; what is left is the *)
(* database.                                                                *)
Stop ==
  /\ "stop" \in Faults
  /\ pc # "off"
  /\ pc' = "off"
  /\ row' = [row EXCEPT !.state = "interrupted"]
  /\ src' = "idle"
  /\ wrk' = [w \in Workers |-> NoWorker]
  /\ UNCHANGED <<runs, ij, chkpt, handled, history>>

-----------------------------------------------------------------------------
Init ==
  /\ row = [state |-> "interrupted", chk |-> None]
  /\ runs = 0
  /\ pc = "off"
  /\ ij = [est |-> EstimateTotal, o |-> 1, f |-> 1, cancelled |-> FALSE,
           chk |-> None, result |-> None]
  /\ chkpt = Fresh
  /\ src = "idle"
  /\ wrk = [w \in Workers |-> NoWorker]
  /\ handled = {}
  /\ lost = {}
  /\ panicked = FALSE

RunStep ==
  \/ NextSource \/ SourceDone \/ NextFile \/ Cancelled \/ Process
  \/ ProcessReturns \/ Estimated \/ Succeed \/ BeginEnd \/ EndJob

SourceStep == SourceReads \/ SourceReturns

WorkerStep(x) == StoreBatch(x) \/ CheckpointBatch(x)

Next ==
  \/ Run \/ RunStep \/ FileFails
  \/ SourceStep \/ SourcePanics
  \/ Receive \/ Drain \/ \E x \in Workers : WorkerStep(x)
  \/ SyncWaits
  \/ Cancel \/ Stop

Spec == Init /\ [][Next]_vars

(* The goroutines of an import go on; nobody has to cancel it or to run it  *)
(* again.                                                                   *)
Fairness ==
  /\ WF_vars(RunStep)
  /\ WF_vars(SourceStep)
  /\ WF_vars(Receive)
  /\ WF_vars(Drain)
  /\ \A x \in Workers : WF_vars(WorkerStep(x))

FairSpec == Spec /\ Fairness

-----------------------------------------------------------------------------
(* Properties.                                                             *)

Before(i, j, k, l) == i < k \/ (i = k /\ j < l)

(* What an import that starts from c does not ask for again.                *)
Skipped(c) ==
  IF c = None \/ c.est THEN {}
  ELSE {g \in Graphs : \/ Before(g[1], g[2], c.o, c.f)
                       \/ g[1] = c.o /\ g[2] = c.f /\ g[3] <= c.ds}

(* A checkpoint is where to "begin/resume the job" (jobs.go:752): whatever  *)
(* an import resumed from it skips was stored before, or belongs to a batch *)
(* or data source whose failure has been logged.                            *)
NothingSkipped == Skipped(row.chk) \cup Skipped(ij.chk) \subseteq handled \cup lost

(* The same without that excuse: a checkpoint "should represent the point   *)
(* whereat this graph including its connected nodes/graphs are processed"   *)
(* (graph.go:57).                                                           *)
SkipsOnlyStored == Skipped(row.chk) \subseteq handled

(* An import that is recorded as succeeded has dealt with every graph of    *)
(* every file, however often it was stopped and resumed, while estimating   *)
(* or while importing (imports.go:368 and 384).                             *)
SucceededImportsAll == row.state = "succeeded" => Graphs \subseteq handled \cup lost

(* What a checkpoint lets an import pass over was dealt with, and so was    *)
(* everything when the import has succeeded (imports.go:368, 384).          *)
NothingIsPassedOver == TypeOK /\ NothingSkipped /\ SucceededImportsAll

(* A run of an import comes to an end, cancelled or not: the worker         *)
(* receives until the data source has returned (processing.go:117).  Only a *)
(* worker that a panicking data source left behind can keep it from that,   *)
(* when its checkpoint (jobs.go:782) meets the final transaction            *)
(* (jobs.go:508): each has what the other waits for.                        *)
ImportEnds == pc # "off" ~> pc = "off" \/ wrk["leaked"].at = "syncing"
=============================================================================
