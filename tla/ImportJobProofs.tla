--------------------------- MODULE ImportJobProofs ---------------------------
(***************************************************************************)
(* An import loses nothing: NothingIsPassedOver of ImportJob, for any plan, *)
(* batch size, number of runs and combination of faults.                    *)
(*                                                                         *)
(* The argument is about how far an import has come: wherever Run is, what  *)
(* lies before its place in the plan has been dealt with, unless the job is *)
(* cancelled, and then Run gets no further than the next head of a loop.    *)
(***************************************************************************)
EXTENDS ImportJob, WellFoundedInduction, TLAPS

Dealt == handled \cup lost

(* Everything in the plan before the graph k + 1 of file f of source o.     *)
Reached(o, f, k) ==
  {g \in Graphs : \/ Before(g[1], g[2], o, f)
                  \/ g[1] = o /\ g[2] = f /\ g[3] <= k}

Covered(o, f, k) == Reached(o, f, k) \subseteq Dealt

-----------------------------------------------------------------------------
(* The parts of the inductive invariant.                                    *)

InPlan(o, f) == o \in Sources /\ f \in Files(o)

(* Where Run is in the plan, and what its worker and data source do there.  *)
Place ==
  /\ pc \in {"ending", "endtx"} => ij.result \in States
  /\ pc \in {"outer", "inner", "opening", "process"} => ij.o >= 1
  /\ pc \in {"inner", "opening", "process"} => ij.o \in Sources
  /\ pc = "inner" => ij.f >= 1
  /\ pc \in {"opening", "process"} => ij.f \in Files(ij.o)

Work ==
  LET w == wrk["main"] IN
  /\ pc = "process" <=> src # "idle"
  /\ w.at # "off" => pc = "process" /\ w.o = ij.o /\ w.f = ij.f
  /\ pc = "process" /\ w.at = "off" => src \in {"ok", "stopped", "failed"}
  /\ ij.est /\ w.at # "off" => w.at = "receive" /\ w.lo = w.hi
  /\ w.at = "receive" => w.hi < w.lo + BatchSize
  /\ wrk["leaked"].at # "receive"
  /\ \A x \in Workers : wrk[x].at # "off" => InPlan(wrk[x].o, wrk[x].f)

(* The checkpoint a run started from says where in its first file to begin, *)
(* and nothing of the files after it.                                       *)
ResumePoint ==
  pc \in {"outer", "inner", "opening", "process"} =>
    \/ chkpt.f = 1 /\ chkpt.ds = 0
    \/ /\ ij.o = chkpt.o
       /\ InPlan(ij.o, chkpt.f)
       /\ pc # "outer" => ij.f = chkpt.f

(* A checkpoint names a file of the plan.                                   *)
CheckpointsAreInPlan == \A c \in {row.chk, ij.chk} : c # None => InPlan(c.o, c.f)

Structure == TypeOK /\ Place /\ Work /\ ResumePoint /\ CheckpointsAreInPlan

(* How far an import has come.                                              *)
RunIsCovered ==
  ~ij.est /\ ~ij.cancelled =>
    /\ pc = "outer" => Covered(ij.o, chkpt.f, chkpt.ds)
    /\ pc \in {"inner", "opening"} => Covered(ij.o, ij.f, chkpt.ds)
    /\ pc = "process" /\ wrk["main"].at = "off" /\ src = "ok" => Covered(ij.o, ij.f + 1, 0)

WorkIsCovered ==
  LET w == wrk["main"] IN
  ~ij.est /\ w.at # "off" =>
    /\ Covered(w.o, w.f, w.lo)
    /\ w.at = "stored" => Covered(w.o, w.f, w.hi)
    /\ src = "ok" => w.hi >= Plan[w.o][w.f]

LeakIsCovered ==
  LET w == wrk["leaked"] IN w.at # "off" => Covered(w.o, w.f, w.hi)

CheckpointsAreCovered == Skipped(row.chk) \cup Skipped(ij.chk) \subseteq Dealt

EndIsCovered ==
  row.state = "succeeded" \/ (pc \in {"ending", "endtx"} /\ ij.result = "succeeded")
    => Graphs \subseteq Dealt

Coverage ==
  /\ RunIsCovered /\ WorkIsCovered /\ LeakIsCovered
  /\ CheckpointsAreCovered /\ EndIsCovered

-----------------------------------------------------------------------------
(* The plan, and what is reached when one gets on in it.                    *)

LEMMA PlanType ==
  /\ Sources \subseteq Nat
  /\ \A o \in Sources : Plan[o] \in Seq(Nat) /\ Len(Plan[o]) \in Nat /\ Files(o) \subseteq Nat
  /\ \A o \in Sources : \A f \in Files(o) : Plan[o][f] \in Nat
<1> USE PlanAssumption DEF Sources, Files
<1>1. Len(Plan) \in Nat /\ \A o \in Sources : Plan[o] \in Seq(Nat)
  OBVIOUS
<1> QED
  BY <1>1

LEMMA GraphParts ==
  ASSUME NEW g \in Graphs
  PROVE  /\ InPlan(g[1], g[2])
         /\ g[1] \in Nat /\ g[2] \in Nat /\ g[3] \in Nat
         /\ g[1] >= 1 /\ g[2] >= 1 /\ g[3] >= 1
         /\ g[1] <= Len(Plan) /\ g[2] <= Len(Plan[g[1]]) /\ g[3] <= Plan[g[1]][g[2]]
<1>1. PICK i \in Sources : \E j \in Files(i) : \E k \in 1..Plan[i][j] : g = <<i, j, k>>
  BY DEF Graphs
<1>2. PICK j \in Files(i) : \E k \in 1..Plan[i][j] : g = <<i, j, k>>
  BY <1>1
<1>3. PICK k \in 1..Plan[i][j] : g = <<i, j, k>>
  BY <1>2
<1>4. g[1] = i /\ g[2] = j /\ g[3] = k
  BY <1>3
<1> QED
  BY <1>1, <1>2, <1>3, <1>4, PlanType DEF InPlan, Sources, Files

LEMMA NothingReached == Reached(1, 1, 0) = {}
BY GraphParts DEF Reached, Before

LEMMA FileReached ==
  ASSUME NEW o \in Nat, NEW f \in Nat, NEW k \in Nat, InPlan(o, f), k >= Plan[o][f]
  PROVE  Reached(o, f + 1, 0) \subseteq Reached(o, f, k)
<1>1. Plan[o][f] \in Nat
  BY PlanType DEF InPlan
<1>2. ASSUME NEW g \in Reached(o, f + 1, 0)
      PROVE  g \in Reached(o, f, k)
  <2>1. g \in Graphs /\ (Before(g[1], g[2], o, f + 1) \/ (g[1] = o /\ g[2] = f + 1 /\ g[3] <= 0))
    BY <1>2 DEF Reached
  <2>2. Before(g[1], g[2], o, f) \/ (g[1] = o /\ g[2] = f)
    BY <2>1, GraphParts DEF Before
  <2> QED
    BY <1>1, <2>1, <2>2, GraphParts DEF Reached
<1> QED
  BY <1>2

LEMMA SourceReached ==
  ASSUME NEW o \in Sources, NEW f \in Nat, NEW k \in Nat, f > Len(Plan[o])
  PROVE  Reached(o + 1, 1, 0) \subseteq Reached(o, f, k)
BY PlanType, GraphParts DEF Reached, Before

LEMMA PlanReached ==
  ASSUME NEW o \in Nat, NEW f, NEW k, o > Len(Plan)
  PROVE  Graphs \subseteq Reached(o, f, k)
BY PlanType, GraphParts, PlanAssumption DEF Reached, Before

LEMMA LessReached ==
  ASSUME NEW o, NEW f, NEW k \in Nat, NEW m \in Nat, m <= k
  PROVE  Reached(o, f, m) \subseteq Reached(o, f, k)
BY GraphParts DEF Reached

LEMMA BatchReached ==
  ASSUME NEW w, w.lo \in Nat, w.hi \in Nat
  PROVE  Reached(w.o, w.f, w.hi) \subseteq Reached(w.o, w.f, w.lo) \cup Batch(w)
BY GraphParts DEF Reached, Batch

LEMMA RestReached ==
  ASSUME NEW o \in Nat, NEW f \in Nat, NEW lo \in Nat, NEW k
  PROVE  LET rest == {g \in Graphs : g[1] = o /\ g[2] = f /\ g[3] > lo} IN
         /\ Reached(o, f, k) \subseteq Reached(o, f, lo) \cup rest
         /\ Reached(o, f + 1, 0) \subseteq Reached(o, f, lo) \cup rest
BY GraphParts DEF Reached, Before

LEMMA SkippedIsReached ==
  ASSUME NEW c
  PROVE  /\ Skipped(c) \subseteq Reached(c.o, c.f, c.ds)
         /\ c # None /\ ~c.est => Skipped(c) = Reached(c.o, c.f, c.ds)
BY DEF Skipped, Reached

-----------------------------------------------------------------------------
(* The last checkpoint of a batch is one of its own.                        *)

LEMMA Largest ==
  ASSUME NEW n \in Nat, NEW S \in SUBSET (0..n), S # {}
  PROVE  \E k \in S : \A m \in S : m <= k
<1> DEFINE T == {n - k : k \in S}
<1> DEFINE R == {ss \in Nat \X Nat : ss[1] < ss[2]}
<1>1. T \subseteq Nat /\ T # {}
  <2>1. \A k \in S : n - k \in Nat
    OBVIOUS
  <2> QED
    BY <2>1
<1>0. IsWellFoundedOn(R, Nat)
  BY NatLessThanWellFounded DEF OpToRel
<1>2. PICK t \in T : \A y \in T : <<y, t>> \notin R
  <2> HIDE DEF T, R
  <2> QED
    BY <1>1, <1>0, WFMin
<1>3. \A y \in T : ~(y < t)
  BY <1>1, <1>2
<1>4. PICK k \in S : t = n - k
  OBVIOUS
<1>5. ASSUME NEW m \in S PROVE m <= k
  <2>1. n - m \in T
    OBVIOUS
  <2>2. ~(n - m < n - k)
    BY <1>3, <1>4, <2>1
  <2>3. m \in 0..n /\ k \in 0..n
    OBVIOUS
  <2> QED
    BY <2>2, <2>3
<1> QED
  BY <1>4, <1>5

LEMMA LastMarkType ==
  ASSUME NEW w, w.hi \in Nat, Marks(w) # {}
  PROVE  LastMark(w) \in Nat /\ LastMark(w) <= w.hi
<1>1. Marks(w) \subseteq 0..w.hi
  BY GraphParts DEF Marks, Batch
<1>2. LastMark(w) \in Marks(w)
  BY <1>1, Largest DEF LastMark
<1> QED
  BY <1>1, <1>2

-----------------------------------------------------------------------------
(* Structure is an invariant by itself.                                     *)

LEMMA NoWorkerType == NoWorker \in Worker
BY DEF NoWorker, Worker

LEMMA StructureInit == Init => Structure
<1> SUFFICES ASSUME Init PROVE Structure
  OBVIOUS
<1> USE DEF Init
<1>2. ij \in Loop /\ chkpt \in Checkpoint /\ row \in [state: States, chk: Checkpoint \cup {None}]
  BY PlanAssumption DEF Loop, Fresh, Checkpoint, States
<1>3. TypeOK
  <2>1. wrk \in [Workers -> Worker]
    BY NoWorkerType
  <2>2. \A w \in Workers : wrk[w].lo <= wrk[w].hi /\ wrk[w].hi <= wrk[w].lo + BatchSize
    BY PlanAssumption DEF NoWorker
  <2>3. runs \in 0..MaxRuns /\ pc = "off" /\ src = "idle"
    BY PlanAssumption
  <2>4. handled \subseteq Graphs /\ lost \subseteq Graphs /\ panicked \in BOOLEAN
    OBVIOUS
  <2> HIDE DEF Init
  <2> QED
    BY <1>2, <2>1, <2>2, <2>3, <2>4 DEF TypeOK
<1>4. Place /\ Work /\ ResumePoint /\ CheckpointsAreInPlan
  BY DEF Place, Work, ResumePoint, CheckpointsAreInPlan, NoWorker, Workers
<1> QED
  BY <1>3, <1>4 DEF Structure

LEMMA MakeCheckpointType ==
  ASSUME Structure, NEW c \in Checkpoint, InPlan(c.o, c.f), MakeCheckpoint(c)
  PROVE  /\ row' \in [state: States, chk: Checkpoint \cup {None}]
         /\ ij' = [ij EXCEPT !.chk = c]
         /\ ij' \in Loop
         /\ row'.state = row.state
         /\ CheckpointsAreInPlan'
BY DEF Structure, TypeOK, Loop, MakeCheckpoint, CheckpointsAreInPlan, InPlan

LEMMA ReturnStructure ==
  ASSUME Structure, NEW result \in States, Return(result)
  PROVE  Structure'
<1> USE DEF Structure, Return
<1>1. TypeOK'
  <2>1. wrk' \in [Workers -> Worker] /\ ij' \in Loop
    BY NoWorkerType DEF TypeOK, Loop
  <2>2. \A w \in Workers : wrk'[w] = NoWorker \/ wrk'[w] = wrk[w]
    BY DEF TypeOK
  <2>3. \A w \in Workers : wrk'[w].lo <= wrk'[w].hi /\ wrk'[w].hi <= wrk'[w].lo + BatchSize
    BY <2>2, PlanAssumption DEF TypeOK, NoWorker
  <2> QED
    BY <2>1, <2>3 DEF TypeOK, history
<1>2. Place' /\ ResumePoint' /\ CheckpointsAreInPlan'
  BY DEF TypeOK, Loop, Place, ResumePoint, CheckpointsAreInPlan, InPlan
<1>3. Work'
  BY DEF TypeOK, Loop, Work, Workers, NoWorker, InPlan
<1> QED
  BY <1>1, <1>2, <1>3

LEMMA RunStructure == Structure /\ Run => Structure'
<1> SUFFICES ASSUME Structure, Run PROVE Structure'
  OBVIOUS
<1> USE DEF Structure, Run, dbVars, history
<1> DEFINE c == IF row.chk = None THEN Fresh ELSE row.chk
<1>1. c \in Checkpoint /\ c.o >= 1 /\ ((c.f = 1 /\ c.ds = 0) \/ InPlan(c.o, c.f))
  BY PlanAssumption, PlanType DEF TypeOK, Loop, Fresh, Checkpoint, CheckpointsAreInPlan, InPlan, Sources
<1> HIDE DEF c
<1>2. /\ chkpt' = c /\ pc' = "outer"
      /\ ij' = [est |-> c.est, o |-> c.o, f |-> 1, cancelled |-> FALSE, chk |-> None, result |-> None]
  BY DEF c
<1>3. TypeOK'
  <2>1. ij' \in Loop
    BY <1>1, <1>2 DEF Loop, Checkpoint
  <2>2. row' \in [state: States, chk: Checkpoint \cup {None}]
    BY DEF TypeOK, States
  <2> QED
    BY <1>1, <1>2, <2>1, <2>2, PlanAssumption DEF TypeOK
<1>4. Place' /\ ResumePoint'
  BY <1>1, <1>2 DEF Place, ResumePoint
<1>5. CheckpointsAreInPlan'
  BY <1>2 DEF TypeOK, Loop, CheckpointsAreInPlan, InPlan
<1>6. Work'
  BY <1>2 DEF TypeOK, Loop, Work, Workers, NoWorker, InPlan
<1> QED
  BY <1>3, <1>4, <1>5, <1>6

LEMMA LoopStructure ==
  ASSUME Structure, NextSource \/ SourceDone \/ NextFile \/ Estimated
  PROVE  Structure'
<1> USE DEF Structure, dbVars, history
<1>1. CASE NextSource
  <2>1. TypeOK' /\ CheckpointsAreInPlan'
    BY <1>1 DEF NextSource, TypeOK, Loop, CheckpointsAreInPlan, InPlan, Checkpoint
  <2>2. Place' /\ ResumePoint'
    BY <1>1, PlanType DEF NextSource, TypeOK, Loop, Place, ResumePoint, InPlan, Checkpoint, Sources, Files
  <2>3. Work'
    BY <1>1 DEF NextSource, TypeOK, Loop, Work, InPlan
  <2> QED
    BY <2>1, <2>2, <2>3
<1>2. CASE SourceDone
  <2>1. TypeOK' /\ CheckpointsAreInPlan'
    BY <1>2 DEF SourceDone, TypeOK, Loop, CheckpointsAreInPlan, InPlan
  <2>2. Place' /\ ResumePoint'
    BY <1>2, PlanType DEF SourceDone, TypeOK, Loop, Place, ResumePoint, InPlan, Checkpoint, Sources, Files
  <2>3. Work'
    BY <1>2 DEF SourceDone, TypeOK, Loop, Work, InPlan
  <2> QED
    BY <2>1, <2>2, <2>3
<1>3. CASE NextFile
  <2> DEFINE c == At(ij.est, ij.o, ij.f, 0)
  <2>1. InPlan(ij.o, ij.f)
    BY <1>3, PlanType DEF NextFile, TypeOK, Loop, Place, InPlan, Files
  <2>2. c \in Checkpoint /\ c.o = ij.o /\ c.f = ij.f
    BY DEF TypeOK, Loop, At, Checkpoint
  <2>3. \/ UNCHANGED <<ij, row>>
        \/ MakeCheckpoint(c)
    BY <1>3 DEF NextFile
  <2> HIDE DEF c
  <2>4. TypeOK' /\ CheckpointsAreInPlan' /\ ij' = [ij EXCEPT !.chk = ij'.chk]
    <3>1. CASE UNCHANGED <<ij, row>>
      BY <1>3, <3>1 DEF NextFile, TypeOK, Loop, CheckpointsAreInPlan, InPlan
    <3>2. CASE MakeCheckpoint(c)
      BY <1>3, <3>2, <2>1, <2>2, MakeCheckpointType DEF NextFile, TypeOK, Loop
    <3> QED
      BY <2>3, <3>1, <3>2
  <2>5. Place' /\ ResumePoint'
    BY <1>3, <2>1, <2>4 DEF NextFile, TypeOK, Loop, Place, ResumePoint, InPlan
  <2>6. Work'
    BY <1>3, <2>4 DEF NextFile, TypeOK, Loop, Work, InPlan
  <2> QED
    BY <2>4, <2>5, <2>6
<1>4. CASE Estimated
  <2>1. TypeOK' /\ CheckpointsAreInPlan'
    BY <1>4 DEF Estimated, TypeOK, Loop, CheckpointsAreInPlan, InPlan, Checkpoint
  <2>2. Place' /\ ResumePoint'
    BY <1>4, PlanType DEF Estimated, TypeOK, Loop, Place, ResumePoint, InPlan, Checkpoint, Sources
  <2>3. Work'
    BY <1>4 DEF Estimated, TypeOK, Loop, Work, InPlan
  <2> QED
    BY <2>1, <2>2, <2>3
<1> QED
  BY <1>1, <1>2, <1>3, <1>4

LEMMA FileDoneStructure ==
  ASSUME Structure, pc = "process", FileDone, row' = row
  PROVE  /\ ij' \in Loop /\ ij' = [ij EXCEPT !.f = ij.f + 1] /\ chkpt' \in Checkpoint
         /\ Place' /\ ResumePoint' /\ CheckpointsAreInPlan'
<1> USE DEF Structure, FileDone
<1>1. ij' \in Loop /\ ij' = [ij EXCEPT !.f = ij.f + 1] /\ chkpt' \in Checkpoint
  <2>1. ij' \in Loop
    BY DEF TypeOK, Loop
  <2>2. chkpt' \in Checkpoint
    BY DEF TypeOK, Checkpoint
  <2> QED
    BY <2>1, <2>2
<1>2. Place' /\ ResumePoint' /\ CheckpointsAreInPlan'
  BY PlanType DEF TypeOK, Loop, Place, ResumePoint, CheckpointsAreInPlan, InPlan, Checkpoint, Files
<1> QED
  BY <1>1, <1>2

LEMMA RunEndsStructure ==
  ASSUME Structure, Cancelled \/ FileFails \/ Succeed \/ BeginEnd \/ EndJob
  PROVE  Structure'
<1>1. CASE Cancelled
  BY <1>1, ReturnStructure DEF Cancelled, States
<1>2. CASE FileFails
  BY <1>2, ReturnStructure DEF FileFails, States
<1>3. CASE Succeed
  BY <1>3, ReturnStructure DEF Succeed, States
<1>4. CASE EndJob
  <2> USE <1>4 DEF Structure, EndJob, history
  <2>1. TypeOK' /\ CheckpointsAreInPlan'
    BY DEF TypeOK, Loop, Place, CheckpointsAreInPlan, InPlan
  <2>2. Place' /\ ResumePoint'
    BY DEF Place, ResumePoint
  <2>3. Work'
    BY DEF TypeOK, Work, InPlan
  <2> QED
    BY <2>1, <2>2, <2>3
<1>5. CASE BeginEnd
  <2> USE <1>5 DEF Structure, BeginEnd, dbVars, history
  <2>1. TypeOK' /\ CheckpointsAreInPlan'
    BY DEF TypeOK, CheckpointsAreInPlan, InPlan
  <2>2. Place' /\ ResumePoint'
    BY DEF Place, ResumePoint
  <2>3. Work'
    BY DEF Work, InPlan
  <2> QED
    BY <2>1, <2>2, <2>3
<1> QED
  BY <1>1, <1>2, <1>3, <1>4, <1>5

LEMMA ProcessStructure == Structure /\ Process => Structure'
<1> SUFFICES ASSUME Structure, Process PROVE Structure'
  OBVIOUS
<1> USE DEF Structure, Process, dbVars, history
<1> DEFINE w == [at |-> "receive", o |-> ij.o, f |-> ij.f, lo |-> chkpt.ds, hi |-> chkpt.ds]
<1>1. w \in Worker
  BY DEF TypeOK, Worker, Loop, Checkpoint
<1>2. /\ w.at = "receive" /\ w.o = ij.o /\ w.f = ij.f
      /\ w.lo \in Nat /\ w.hi = w.lo
  BY DEF TypeOK, Checkpoint
<1>3. wrk' = [wrk EXCEPT !["main"] = w]
  OBVIOUS
<1> HIDE DEF w
<1>4. TypeOK'
  <2>1. \A x \in Workers : wrk'[x] = w \/ wrk'[x] = wrk[x]
    BY <1>3 DEF TypeOK
  <2>2. \A x \in Workers : wrk'[x].lo <= wrk'[x].hi /\ wrk'[x].hi <= wrk'[x].lo + BatchSize
    BY <1>2, <2>1, PlanAssumption DEF TypeOK
  <2>3. wrk' \in [Workers -> Worker]
    BY <1>1, <1>3 DEF TypeOK
  <2> QED
    BY <2>2, <2>3 DEF TypeOK
<1>5. Place' /\ ResumePoint' /\ CheckpointsAreInPlan'
  BY DEF Place, ResumePoint, CheckpointsAreInPlan, InPlan
<1>6. Work'
  BY <1>2, <1>3, PlanAssumption DEF TypeOK, Place, Work, Workers, InPlan
<1> QED
  BY <1>4, <1>5, <1>6

LEMMA ProcessReturnsStructure == Structure /\ ProcessReturns => Structure'
<1> SUFFICES ASSUME Structure, ProcessReturns PROVE Structure'
  OBVIOUS
<1>1. CASE src = "ok" \/ ij.est
  <2>1. FileDone /\ UNCHANGED <<runs, row, wrk, handled, history>> /\ pc = "process" /\ wrk["main"].at = "off"
    BY <1>1 DEF ProcessReturns
  <2>2. /\ ij' \in Loop /\ ij' = [ij EXCEPT !.f = ij.f + 1] /\ chkpt' \in Checkpoint
        /\ Place' /\ ResumePoint' /\ CheckpointsAreInPlan'
    BY <2>1, FileDoneStructure
  <2>3. TypeOK'
    BY <2>1, <2>2 DEF Structure, TypeOK, FileDone, history
  <2>4. Work'
    BY <2>1, <2>2 DEF Structure, Work, FileDone, InPlan
  <2> QED
    BY <2>2, <2>3, <2>4 DEF Structure
<1>2. CASE ~(src = "ok" \/ ij.est)
  <2>1. Return(IF src = "stopped" THEN "aborted" ELSE "failed")
    BY <1>2 DEF ProcessReturns
  <2>2. (IF src = "stopped" THEN "aborted" ELSE "failed") \in States
    BY DEF States
  <2> QED
    BY <2>1, <2>2, ReturnStructure
<1> QED
  BY <1>1, <1>2

LEMMA SourceStructure ==
  ASSUME Structure, SourceReads \/ SourceReturns
  PROVE  Structure'
<1> USE DEF Structure, SourceReads, SourceReturns, dbVars, runVars, history
<1>1. TypeOK'
  BY DEF TypeOK
<1>2. Place' /\ ResumePoint' /\ CheckpointsAreInPlan'
  BY DEF Place, ResumePoint, CheckpointsAreInPlan, InPlan
<1>3. Work'
  BY DEF TypeOK, Work, InPlan
<1> QED
  BY <1>1, <1>2, <1>3

LEMMA PanicStructure == Structure /\ SourcePanics => Structure'
<1> SUFFICES ASSUME Structure, SourcePanics PROVE Structure'
  OBVIOUS
<1> DEFINE w == wrk["main"]
           v == IF w.at = "receive" THEN NoWorker ELSE w
<1>1. /\ pc = "process" /\ FileDone /\ row' = row /\ runs' = runs /\ handled' = handled
      /\ wrk' = [main |-> NoWorker, leaked |-> v]
      /\ panicked' = TRUE
      /\ lost' \subseteq lost \cup Graphs
  BY DEF Structure, Work, SourcePanics
<1>2. /\ ij' \in Loop /\ ij' = [ij EXCEPT !.f = ij.f + 1] /\ chkpt' \in Checkpoint
      /\ Place' /\ ResumePoint' /\ CheckpointsAreInPlan'
  BY <1>1, FileDoneStructure
<1>3. w \in Worker /\ v \in Worker
  BY NoWorkerType DEF Structure, TypeOK, Workers
<1>4. /\ wrk' \in [Workers -> Worker]
      /\ wrk'["main"] = NoWorker /\ wrk'["leaked"] = v
  BY <1>1, <1>3, NoWorkerType DEF Workers
<1>5. /\ NoWorker.lo = 0 /\ NoWorker.hi = 0 /\ NoWorker.at = "off"
      /\ w.lo <= w.hi /\ w.hi <= w.lo + BatchSize
      /\ v = w \/ v = NoWorker
      /\ v.at # "receive"
      /\ w.at # "off" => InPlan(w.o, w.f)
  BY DEF Structure, TypeOK, Work, Workers, NoWorker
<1> HIDE DEF w, v
<1>6. \A x \in Workers : wrk'[x].lo <= wrk'[x].hi /\ wrk'[x].hi <= wrk'[x].lo + BatchSize
  BY <1>4, <1>5, PlanAssumption DEF Workers
<1>7. TypeOK'
  BY <1>1, <1>2, <1>4, <1>6 DEF Structure, TypeOK, FileDone
<1>8. Work'
  BY <1>1, <1>4, <1>5 DEF Work, FileDone, Workers, InPlan
<1> QED
  BY <1>2, <1>7, <1>8 DEF Structure

LEMMA ReceiveStructure == Structure /\ Receive => Structure'
<1> SUFFICES ASSUME Structure, Receive PROVE Structure'
  OBVIOUS
<1> DEFINE w == wrk["main"]
           v == [w EXCEPT !.hi = @ + 1,
                          !.lo = IF ij.est THEN @ + 1 ELSE @,
                          !.at = IF ~ij.est /\ Full(w) THEN "batch" ELSE @]
<1>1. w \in Worker /\ w.at = "receive" /\ src = "sending" /\ src' = "reading"
  BY DEF Structure, TypeOK, Workers, Receive
<1>2. wrk' = [wrk EXCEPT !["main"] = v]
  BY DEF Receive, Structure, TypeOK, Worker, Workers
<1>3. UNCHANGED <<row, handled, lost, panicked, runs, pc, ij, chkpt>>
  BY DEF Receive, dbVars, runVars, history
<1>4. /\ v \in Worker
      /\ v.hi = w.hi + 1 /\ v.o = w.o /\ v.f = w.f
      /\ v.lo = IF ij.est THEN w.lo + 1 ELSE w.lo
      /\ v.at = IF ~ij.est /\ Full(w) THEN "batch" ELSE "receive"
  <2> DEFINE counted == ij.est
             full == ~ij.est /\ Full(w)
  <2>1. v = [w EXCEPT !.hi = @ + 1,
                      !.lo = IF counted THEN @ + 1 ELSE @,
                      !.at = IF full THEN "batch" ELSE @]
    OBVIOUS
  <2> HIDE DEF w, v, counted, full
  <2>2. v = [at |-> IF full THEN "batch" ELSE w.at, o |-> w.o, f |-> w.f,
             lo |-> IF counted THEN w.lo + 1 ELSE w.lo, hi |-> w.hi + 1]
    BY <1>1, <2>1 DEF Worker
  <2>3. w.hi + 1 \in Nat /\ (IF counted THEN w.lo + 1 ELSE w.lo) \in Nat
    BY <1>1 DEF Worker
  <2>4. v \in Worker
    BY <1>1, <2>2, <2>3 DEF Worker
  <2> QED
    BY <1>1, <2>2, <2>4 DEF counted, full
<1> HIDE DEF v
<1>5. /\ v.lo <= v.hi /\ v.hi <= v.lo + BatchSize
      /\ v.at = "receive" => v.hi < v.lo + BatchSize
      /\ v.at # "off"
      /\ ij.est => v.at = "receive" /\ v.lo = v.hi
  <2>1. /\ w.lo \in Nat /\ w.hi \in Nat /\ BatchSize \in Nat /\ BatchSize >= 1
        /\ w.lo <= w.hi /\ w.hi < w.lo + BatchSize
        /\ ij.est => w.lo = w.hi
    BY <1>1, PlanAssumption DEF Structure, TypeOK, Work, Workers, Worker
  <2> QED
    BY <1>4, <2>1 DEF Full
<1>6. \A x \in Workers : wrk'[x] = IF x = "main" THEN v ELSE wrk[x]
  BY <1>2 DEF Structure, TypeOK
<1>7. TypeOK'
  BY <1>1, <1>2, <1>3, <1>4, <1>5, <1>6 DEF Structure, TypeOK
<1>8. Place' /\ ResumePoint' /\ CheckpointsAreInPlan'
  BY <1>3 DEF Structure, Place, ResumePoint, CheckpointsAreInPlan, InPlan
<1>9. Work'
  BY <1>1, <1>3, <1>4, <1>5, <1>6 DEF Structure, Work, Workers, InPlan
<1> QED
  BY <1>7, <1>8, <1>9 DEF Structure

LEMMA DrainStructure == Structure /\ Drain => Structure'
<1> SUFFICES ASSUME Structure, Drain PROVE Structure'
  OBVIOUS
<1> DEFINE w == wrk["main"]
           v == IF w.hi > w.lo /\ ~ij.cancelled THEN [w EXCEPT !.at = "batch"] ELSE NoWorker
<1>1. w \in Worker /\ w.at = "receive" /\ src \in {"ok", "stopped", "failed"} /\ src' = src
  BY DEF Structure, TypeOK, Workers, Drain
<1>2. \A x \in Workers : wrk'[x] = IF x = "main" THEN v ELSE wrk[x]
  BY DEF Drain, Structure, TypeOK, Worker, Workers
<1>3. UNCHANGED <<row, handled, lost, panicked, runs, pc, ij, chkpt>>
  BY DEF Drain, dbVars, runVars, history
<1>4. v \in Worker
  BY <1>1, NoWorkerType DEF Worker
<1>5. \/ v = NoWorker
      \/ /\ v.at = "batch" /\ v.o = w.o /\ v.f = w.f /\ v.lo = w.lo /\ v.hi = w.hi
         /\ w.hi > w.lo
  BY <1>1 DEF Worker
<1>6. NoWorker.at = "off" /\ NoWorker.lo = 0 /\ NoWorker.hi = 0
  BY DEF NoWorker
<1>7. wrk' \in [Workers -> Worker]
  BY <1>4, NoWorkerType DEF Drain, Structure, TypeOK
<1> HIDE DEF v
<1>8. TypeOK'
  <2>1. v.lo <= v.hi /\ v.hi <= v.lo + BatchSize
    BY <1>5, <1>6, PlanAssumption DEF Structure, TypeOK, Workers
  <2> QED
    BY <1>1, <1>2, <1>3, <1>7, <2>1 DEF Structure, TypeOK
<1>9. Place' /\ ResumePoint' /\ CheckpointsAreInPlan'
  BY <1>3 DEF Structure, Place, ResumePoint, CheckpointsAreInPlan, InPlan
<1>10. Work'
  BY <1>1, <1>2, <1>3, <1>5, <1>6 DEF Structure, TypeOK, Work, Workers, Worker, InPlan
<1> QED
  BY <1>8, <1>9, <1>10 DEF Structure

LEMMA StoreStructure ==
  ASSUME Structure, NEW x \in Workers, StoreBatch(x)
  PROVE  Structure'
<1>1. /\ wrk[x].at = "batch" /\ wrk' = [wrk EXCEPT ![x].at = "stored"]
      /\ UNCHANGED <<row, panicked, runs, pc, ij, chkpt, src>>
      /\ handled' \subseteq handled \cup Graphs /\ lost' \subseteq lost \cup Graphs
  BY DEF StoreBatch, runVars, Batch
<1>2. /\ wrk' \in [Workers -> Worker]
      /\ \A y \in Workers : wrk'[y].o = wrk[y].o /\ wrk'[y].f = wrk[y].f
                            /\ wrk'[y].lo = wrk[y].lo /\ wrk'[y].hi = wrk[y].hi
                            /\ wrk'[y].at = IF y = x THEN "stored" ELSE wrk[y].at
  BY <1>1 DEF Structure, TypeOK, Worker
<1>3. TypeOK'
  BY <1>1, <1>2 DEF Structure, TypeOK
<1>4. Place' /\ ResumePoint' /\ CheckpointsAreInPlan'
  BY <1>1 DEF Structure, Place, ResumePoint, CheckpointsAreInPlan, InPlan
<1>5. Work'
  BY <1>1, <1>2 DEF Structure, Work, Workers, InPlan
<1> QED
  BY <1>3, <1>4, <1>5 DEF Structure

LEMMA CheckpointStructure ==
  ASSUME Structure, NEW x \in Workers, CheckpointBatch(x)
  PROVE  Structure'
<1> DEFINE w == wrk[x]
           v == IF x = "main" THEN [w EXCEPT !.at = "receive", !.lo = w.hi] ELSE NoWorker
           c == At(FALSE, w.o, w.f, LastMark(w))
<1>1. /\ w \in Worker /\ w.at = "stored" /\ InPlan(w.o, w.f)
      /\ w.lo <= w.hi
  BY DEF Structure, TypeOK, Work, CheckpointBatch
<1>2. /\ \A y \in Workers : wrk'[y] = IF y = x THEN v ELSE wrk[y]
      /\ UNCHANGED <<runs, pc, chkpt, src, handled, lost, panicked>>
  BY DEF Structure, TypeOK, CheckpointBatch, history
<1>3. v \in Worker /\ wrk' \in [Workers -> Worker]
  <2>1. v \in Worker
    BY <1>1, NoWorkerType DEF Worker
  <2>2. wrk' = [wrk EXCEPT ![x] = v]
    BY DEF CheckpointBatch
  <2> HIDE DEF v
  <2> QED
    BY <2>1, <2>2 DEF Structure, TypeOK
<1>4. \/ x = "main" /\ v.at = "receive" /\ v.o = w.o /\ v.f = w.f /\ v.lo = w.hi /\ v.hi = w.hi
      \/ x = "leaked" /\ v = NoWorker
  BY <1>1 DEF Worker, Workers
<1>5. NoWorker.at = "off" /\ NoWorker.lo = 0 /\ NoWorker.hi = 0
  BY DEF NoWorker
<1>6. /\ row' \in [state: States, chk: Checkpoint \cup {None}]
      /\ ij' \in Loop /\ ij' = [ij EXCEPT !.chk = ij'.chk]
      /\ CheckpointsAreInPlan'
  <2>1. CASE UNCHANGED <<ij, row>>
    BY <2>1 DEF Structure, TypeOK, Loop, CheckpointsAreInPlan, InPlan
  <2>2. CASE Marks(w) # {} /\ MakeCheckpoint(c)
    <3>1. LastMark(w) \in Nat
      BY <1>1, <2>2, LastMarkType DEF Worker
    <3>2. c \in Checkpoint /\ c.o = w.o /\ c.f = w.f
      BY <1>1, <3>1 DEF At, Checkpoint, Worker
    <3> HIDE DEF c, w
    <3>3. ij' \in Loop /\ ij' = [ij EXCEPT !.chk = c]
      BY <1>1, <2>2, <3>2, MakeCheckpointType
    <3>4. ij'.chk = c
      BY <3>3 DEF Structure, TypeOK, Loop
    <3> QED
      BY <1>1, <2>2, <3>2, <3>3, <3>4, MakeCheckpointType
  <2> QED
    BY <2>1, <2>2 DEF CheckpointBatch
<1> HIDE DEF v, c
<1>7. TypeOK'
  <2>1. v.lo <= v.hi /\ v.hi <= v.lo + BatchSize
    BY <1>1, <1>4, <1>5, PlanAssumption DEF Worker
  <2> QED
    BY <1>2, <1>3, <1>6, <2>1 DEF Structure, TypeOK
<1>8. Place' /\ ResumePoint'
  BY <1>2, <1>6 DEF Structure, TypeOK, Loop, Place, ResumePoint, InPlan
<1>9. Work'
  <2>1. ij'.est = ij.est /\ ij'.o = ij.o /\ ij'.f = ij.f
    BY <1>6 DEF Structure, TypeOK, Loop
  <2>2. x = "main" => v.hi < v.lo + BatchSize
    BY <1>1, <1>4, PlanAssumption DEF Worker
  <2>3. x = "main" => ~ij.est /\ pc = "process"
    BY <1>1 DEF Structure, TypeOK, Loop, Work
  <2> QED
    BY <1>1, <1>2, <1>4, <1>5, <2>1, <2>2, <2>3 DEF Structure, Work, Workers, InPlan
<1> QED
  BY <1>6, <1>7, <1>8, <1>9 DEF Structure

LEMMA SyncWaitsStructure == Structure /\ SyncWaits => Structure'
<1> SUFFICES ASSUME Structure, SyncWaits PROVE Structure'
  OBVIOUS
<1> DEFINE w == wrk["leaked"]
           c == At(FALSE, w.o, w.f, LastMark(w))
<1>1. w \in Worker /\ w.at = "stored" /\ InPlan(w.o, w.f)
  BY DEF Structure, TypeOK, Work, SyncWaits, Workers
<1>2. c \in Checkpoint /\ c.o = w.o /\ c.f = w.f
  <2>1. LastMark(w) \in Nat
    BY <1>1, LastMarkType DEF Worker, SyncWaits
  <2> QED
    BY <1>1, <2>1 DEF At, Checkpoint, Worker
<1>3. /\ ij' = [ij EXCEPT !.chk = c]
      /\ wrk' = [wrk EXCEPT !["leaked"].at = "syncing"]
      /\ UNCHANGED <<row, handled, lost, panicked, runs, pc, chkpt, src>>
  BY DEF SyncWaits, dbVars, history
<1> HIDE DEF c
<1>4. /\ ij' \in Loop /\ ij'.est = ij.est /\ ij'.o = ij.o /\ ij'.f = ij.f
      /\ ij'.result = ij.result /\ ij'.chk = c
  BY <1>2, <1>3 DEF Structure, TypeOK, Loop
<1>5. /\ wrk' \in [Workers -> Worker]
      /\ \A y \in Workers : wrk'[y].o = wrk[y].o /\ wrk'[y].f = wrk[y].f
                            /\ wrk'[y].lo = wrk[y].lo /\ wrk'[y].hi = wrk[y].hi
                            /\ wrk'[y].at = IF y = "leaked" THEN "syncing" ELSE wrk[y].at
  BY <1>3 DEF Structure, TypeOK, Worker, Workers
<1>6. TypeOK'
  BY <1>3, <1>4, <1>5 DEF Structure, TypeOK
<1>7. Place' /\ ResumePoint' /\ CheckpointsAreInPlan'
  BY <1>1, <1>2, <1>3, <1>4
     DEF Structure, TypeOK, Place, ResumePoint, CheckpointsAreInPlan, InPlan
<1>8. Work'
  BY <1>1, <1>3, <1>4, <1>5 DEF Structure, Work, Workers, InPlan
<1> QED
  BY <1>6, <1>7, <1>8 DEF Structure

LEMMA CancelStructure == Structure /\ Cancel => Structure'
<1> SUFFICES ASSUME Structure, Cancel PROVE Structure'
  OBVIOUS
<1> USE DEF Structure, Cancel, dbVars, history
<1>1. TypeOK' /\ CheckpointsAreInPlan'
  BY DEF TypeOK, Loop, CheckpointsAreInPlan, InPlan
<1>2. Place' /\ ResumePoint'
  BY DEF TypeOK, Loop, Place, ResumePoint, InPlan
<1>3. Work'
  BY DEF TypeOK, Loop, Work, InPlan
<1> QED
  BY <1>1, <1>2, <1>3

LEMMA StopStructure == Structure /\ Stop => Structure'
<1> SUFFICES ASSUME Structure, Stop PROVE Structure'
  OBVIOUS
<1> USE DEF Structure, Stop, history
<1>1. row' \in [state: States, chk: Checkpoint \cup {None}] /\ row'.chk = row.chk
  BY DEF TypeOK, States
<1>2. wrk' \in [Workers -> Worker] /\ \A w \in Workers : wrk'[w] = NoWorker
  BY NoWorkerType
<1>3. NoWorker.at = "off" /\ NoWorker.lo = 0 /\ NoWorker.hi = 0
  BY DEF NoWorker
<1>4. TypeOK'
  BY <1>1, <1>2, <1>3, PlanAssumption DEF TypeOK
<1>5. Place' /\ ResumePoint' /\ CheckpointsAreInPlan'
  BY <1>1 DEF Place, ResumePoint, CheckpointsAreInPlan, InPlan
<1>6. Work'
  BY <1>2, <1>3 DEF Work, Workers
<1> QED
  BY <1>4, <1>5, <1>6

LEMMA StructureNext == Structure /\ [Next]_vars => Structure'
<1> SUFFICES ASSUME Structure, [Next]_vars PROVE Structure'
  OBVIOUS
<1>1. CASE Run
  BY <1>1, RunStructure
<1>2. CASE RunStep
  BY <1>2, LoopStructure, RunEndsStructure, ProcessStructure, ProcessReturnsStructure DEF RunStep
<1>3. CASE FileFails
  BY <1>3, RunEndsStructure
<1>4. CASE SourceStep
  BY <1>4, SourceStructure DEF SourceStep
<1>5. CASE SourcePanics
  BY <1>5, PanicStructure
<1>6. CASE Receive \/ Drain
  BY <1>6, ReceiveStructure, DrainStructure
<1>7. ASSUME NEW x \in Workers, WorkerStep(x) PROVE Structure'
  BY <1>7, StoreStructure, CheckpointStructure DEF WorkerStep
<1>8. CASE Cancel \/ Stop
  BY <1>8, CancelStructure, StopStructure
<1>9. CASE SyncWaits
  BY <1>9, SyncWaitsStructure
<1>10. CASE UNCHANGED vars
  BY <1>10 DEF vars, Structure, TypeOK, Place, Work, ResumePoint, CheckpointsAreInPlan, InPlan
<1> QED
  BY <1>1, <1>2, <1>3, <1>4, <1>5, <1>6, <1>7, <1>8, <1>9, <1>10 DEF Next

(* The variables of an import keep their types: a batch never holds more    *)
(* graphs than fit, and nothing is stored that the plan does not have.      *)
THEOREM ImportTypeCorrect == Spec => []TypeOK
<1>1. Structure => TypeOK
  BY DEF Structure
<1> QED
  BY <1>1, StructureInit, StructureNext, PTL DEF Spec

-----------------------------------------------------------------------------
(* Coverage, given the structure.                                           *)

LEMMA CoverageInit == Init => Coverage
<1> SUFFICES ASSUME Init PROVE Coverage
  OBVIOUS
<1>1. EndIsCovered /\ WorkIsCovered /\ LeakIsCovered /\ RunIsCovered
  BY DEF Init, EndIsCovered, WorkIsCovered, LeakIsCovered, RunIsCovered, NoWorker, Workers
<1>2. CheckpointsAreCovered
  BY DEF Init, CheckpointsAreCovered, Skipped
<1> QED
  BY <1>1, <1>2 DEF Coverage

(* The checkpoints and the end, whatever else a step does.                  *)
LEMMA MakeCheckpointCovers ==
  ASSUME Structure, Coverage, NEW c, MakeCheckpoint(c), UNCHANGED <<handled, lost>>,
         Skipped(c) \subseteq Dealt, pc' = pc
  PROVE  CheckpointsAreCovered' /\ EndIsCovered'
<1>1. /\ row'.chk \in {c, row.chk} /\ row'.state = row.state
      /\ ij'.chk = c /\ ij'.result = ij.result
  BY DEF Structure, TypeOK, Loop, MakeCheckpoint
<1> QED
  BY <1>1 DEF Coverage, CheckpointsAreCovered, EndIsCovered, Dealt

LEMMA ReturnCoverage ==
  ASSUME Structure, Coverage, NEW result \in States, Return(result),
         result = "succeeded" => Graphs \subseteq Dealt
  PROVE  Coverage'
<1>1. /\ pc' = "ending" /\ ij'.result = result /\ ij'.chk = ij.chk
      /\ wrk'["main"].at = "off" /\ wrk'["leaked"] = wrk["leaked"]
      /\ UNCHANGED <<row, handled, lost>>
  BY DEF Structure, TypeOK, Loop, Workers, Return, NoWorker, history
<1>2. RunIsCovered' /\ WorkIsCovered'
  BY <1>1 DEF RunIsCovered, WorkIsCovered
<1>3. LeakIsCovered' /\ CheckpointsAreCovered' /\ EndIsCovered'
  BY <1>1 DEF Coverage, LeakIsCovered, Covered, CheckpointsAreCovered, EndIsCovered, Dealt
<1> QED
  BY <1>2, <1>3 DEF Coverage

LEMMA RunCoverage == Structure /\ Coverage /\ Run => Coverage'
<1> SUFFICES ASSUME Structure, Coverage, Run PROVE Coverage'
  OBVIOUS
<1> DEFINE c == IF row.chk = None THEN Fresh ELSE row.chk
<1>1. /\ pc' = "outer" /\ chkpt' = c /\ row.state # "succeeded"
      /\ ij' = [est |-> c.est, o |-> c.o, f |-> 1, cancelled |-> FALSE, chk |-> None, result |-> None]
      /\ row'.state = "started" /\ row'.chk = row.chk
      /\ UNCHANGED <<src, wrk, handled, lost>> /\ pc = "off"
  BY DEF Structure, TypeOK, Run, history
<1>2. ~c.est => Covered(c.o, c.f, c.ds)
  <2>1. CASE row.chk = None
    BY <2>1, NothingReached DEF Fresh, Covered
  <2>2. CASE row.chk # None
    BY <2>2, SkippedIsReached DEF Coverage, CheckpointsAreCovered, Covered
  <2> QED
    BY <2>1, <2>2
<1> HIDE DEF c
<1>3. RunIsCovered'
  BY <1>1, <1>2 DEF RunIsCovered, Covered, Dealt
<1>4. WorkIsCovered' /\ LeakIsCovered'
  BY <1>1 DEF Structure, Work, Coverage, WorkIsCovered, LeakIsCovered, Covered, Dealt
<1>5. CheckpointsAreCovered' /\ EndIsCovered'
  BY <1>1 DEF Coverage, CheckpointsAreCovered, EndIsCovered, Dealt, Skipped
<1> QED
  BY <1>3, <1>4, <1>5 DEF Coverage

(* A step of the loops: only RunIsCovered has to be shown.                  *)
LEMMA LoopCoverage ==
  ASSUME Structure, Coverage, RunIsCovered', pc' \in {"outer", "inner", "opening"},
         wrk["main"].at = "off", UNCHANGED <<wrk, handled, lost>>,
         CheckpointsAreCovered', row'.state = row.state
  PROVE  Coverage'
BY DEF Structure, TypeOK, Workers, Coverage, WorkIsCovered, LeakIsCovered, EndIsCovered, Covered,
       Dealt

LEMMA NextSourceCoverage == Structure /\ Coverage /\ NextSource => Coverage'
<1> SUFFICES ASSUME Structure, Coverage, NextSource PROVE Coverage'
  OBVIOUS
<1>1. /\ pc = "outer" /\ pc' = "inner" /\ ~ij.cancelled
      /\ ij'.o = ij.o /\ ij'.f = chkpt.f /\ ij'.est = ij.est /\ ij'.chk = ij.chk
      /\ UNCHANGED <<row, handled, lost, chkpt, wrk>>
  BY DEF Structure, TypeOK, Loop, NextSource, dbVars, history
<1>2. RunIsCovered'
  BY <1>1 DEF Coverage, RunIsCovered, Covered, Dealt
<1>3. CheckpointsAreCovered'
  BY <1>1 DEF Coverage, CheckpointsAreCovered, Dealt
<1> QED
  BY <1>1, <1>2, <1>3, LoopCoverage DEF Structure, Work

LEMMA SourceDoneCoverage == Structure /\ Coverage /\ SourceDone => Coverage'
<1> SUFFICES ASSUME Structure, Coverage, SourceDone PROVE Coverage'
  OBVIOUS
<1>1. /\ pc = "inner" /\ pc' = "outer" /\ ij.f > Len(Plan[ij.o])
      /\ ij'.o = ij.o + 1 /\ ij'.est = ij.est /\ ij'.chk = ij.chk /\ ij'.cancelled = ij.cancelled
      /\ UNCHANGED <<row, handled, lost, chkpt, wrk>>
  BY DEF Structure, TypeOK, Loop, SourceDone, dbVars, history
<1>2. ij.o \in Sources /\ ij.f \in Nat /\ Len(Plan[ij.o]) \in Nat
  BY <1>1, PlanType DEF Structure, TypeOK, Loop, Place
<1>3. chkpt.f = 1 /\ chkpt.ds = 0
  BY <1>1, <1>2 DEF Structure, ResumePoint, InPlan, Files
<1>4. RunIsCovered'
  <2>1. Reached(ij.o + 1, 1, 0) \subseteq Reached(ij.o, ij.f, 0)
    BY <1>1, <1>2, SourceReached
  <2> QED
    BY <1>1, <1>3, <2>1 DEF Coverage, RunIsCovered, Covered, Dealt
<1>5. CheckpointsAreCovered'
  BY <1>1 DEF Coverage, CheckpointsAreCovered, Dealt
<1> QED
  BY <1>1, <1>4, <1>5, LoopCoverage DEF Structure, Work

LEMMA NextFileCoverage == Structure /\ Coverage /\ NextFile => Coverage'
<1> SUFFICES ASSUME Structure, Coverage, NextFile PROVE Coverage'
  OBVIOUS
<1> DEFINE c == At(ij.est, ij.o, ij.f, 0)
<1>1. /\ pc = "inner" /\ pc' = "opening" /\ ~ij.cancelled
      /\ ij'.o = ij.o /\ ij'.f = ij.f /\ ij'.est = ij.est /\ ij'.cancelled = ij.cancelled
      /\ row'.state = row.state
      /\ UNCHANGED <<handled, lost, chkpt, wrk>>
  BY DEF Structure, TypeOK, Loop, NextFile, MakeCheckpoint, history
<1>2. RunIsCovered'
  BY <1>1 DEF Coverage, RunIsCovered, Covered, Dealt
<1>3. CheckpointsAreCovered'
  <2>1. CASE chkpt.ds = 0
    <3>1. c.est = ij.est /\ c.o = ij.o /\ c.f = ij.f /\ c.ds = 0
      BY DEF At
    <3>2. ij.est => Skipped(c) = {}
      BY <3>1 DEF Skipped
    <3>3. ~ij.est => Skipped(c) \subseteq Dealt
      BY <1>1, <2>1, <3>1, SkippedIsReached DEF Coverage, RunIsCovered, Covered
    <3>4. MakeCheckpoint(c)
      BY <2>1 DEF NextFile
    <3>5. row'.chk \in {c, row.chk} /\ ij'.chk = c
      BY <3>4 DEF Structure, TypeOK, Loop, MakeCheckpoint
    <3> QED
      BY <1>1, <3>2, <3>3, <3>5 DEF Coverage, CheckpointsAreCovered, Dealt
  <2>2. CASE chkpt.ds # 0
    BY <1>1, <2>2 DEF NextFile, Coverage, CheckpointsAreCovered, Dealt
  <2> QED
    BY <2>1, <2>2
<1> QED
  BY <1>1, <1>2, <1>3, LoopCoverage DEF Structure, Work

LEMMA EstimatedCoverage == Structure /\ Coverage /\ Estimated => Coverage'
<1> SUFFICES ASSUME Structure, Coverage, Estimated PROVE Coverage'
  OBVIOUS
<1>1. /\ pc = "outer" /\ pc' = "outer" /\ ij.o > Len(Plan)
      /\ ij'.o = 1 /\ chkpt'.f = chkpt.f /\ chkpt'.ds = chkpt.ds /\ ij'.chk = ij.chk
      /\ UNCHANGED <<row, handled, lost, wrk>>
  BY DEF Structure, TypeOK, Loop, Checkpoint, Estimated, dbVars, history
<1>2. chkpt.f = 1 /\ chkpt.ds = 0
  BY <1>1, PlanType, PlanAssumption DEF Structure, TypeOK, Loop, ResumePoint, InPlan, Sources
<1>3. RunIsCovered'
  BY <1>1, <1>2, NothingReached DEF RunIsCovered, Covered
<1>4. CheckpointsAreCovered'
  BY <1>1 DEF Coverage, CheckpointsAreCovered, Dealt
<1> QED
  BY <1>1, <1>3, <1>4, LoopCoverage DEF Structure, Work

LEMMA RunEndsCoverage ==
  ASSUME Structure, Coverage, Cancelled \/ FileFails \/ Succeed \/ BeginEnd \/ EndJob
  PROVE  Coverage'
<1>1. CASE Cancelled
  BY <1>1, ReturnCoverage DEF Cancelled, States
<1>2. CASE FileFails
  BY <1>2, ReturnCoverage DEF FileFails, States
<1>3. CASE Succeed
  <2>1. Covered(ij.o, chkpt.f, chkpt.ds)
    BY <1>3 DEF Succeed, Coverage, RunIsCovered
  <2>2. Graphs \subseteq Dealt
    BY <1>3, <2>1, PlanReached DEF Succeed, Structure, TypeOK, Loop, Covered
  <2> QED
    BY <1>3, <2>2, ReturnCoverage DEF Succeed, States
<1>4. CASE EndJob
  <2>1. /\ row'.state = ij.result /\ row'.chk \in {None, ij.chk} /\ pc = "endtx" /\ pc' = "off"
        /\ UNCHANGED <<ij, wrk, src, handled, lost>>
    BY <1>4 DEF EndJob, history
  <2>2. wrk'["main"].at = "off"
    BY <2>1 DEF Structure, Work
  <2>3. Skipped(None) = {}
    BY DEF Skipped
  <2>4. CheckpointsAreCovered' /\ EndIsCovered'
    BY <2>1, <2>3 DEF Coverage, CheckpointsAreCovered, EndIsCovered, Dealt
  <2>5. RunIsCovered' /\ WorkIsCovered' /\ LeakIsCovered'
    BY <2>1, <2>2 DEF Coverage, RunIsCovered, WorkIsCovered, LeakIsCovered, Covered, Dealt
  <2> QED
    BY <2>4, <2>5 DEF Coverage
<1>5. CASE BeginEnd
  <2>1. pc = "ending" /\ pc' = "endtx" /\ UNCHANGED <<row, ij, chkpt, wrk, src, handled, lost>>
    BY <1>5 DEF BeginEnd, dbVars, history
  <2> QED
    BY <2>1 DEF Coverage, RunIsCovered, WorkIsCovered, LeakIsCovered, CheckpointsAreCovered,
                EndIsCovered, Covered, Dealt
<1> QED
  BY <1>1, <1>2, <1>3, <1>4, <1>5

(* A step that neither returns nor makes a checkpoint, and changes nothing  *)
(* that has ended.                                                          *)
LEMMA KeepsCheckpoints ==
  ASSUME Coverage, row' = row, ij'.chk = ij.chk, ij'.result = ij.result,
         pc' \in {"ending", "endtx"} => pc = pc', Dealt \subseteq Dealt'
  PROVE  CheckpointsAreCovered' /\ EndIsCovered'
BY DEF Coverage, CheckpointsAreCovered, EndIsCovered

LEMMA ProcessCoverage == Structure /\ Coverage /\ Process => Coverage'
<1> SUFFICES ASSUME Structure, Coverage, Process PROVE Coverage'
  OBVIOUS
<1> DEFINE w == wrk'["main"]
<1>1. /\ pc = "opening" /\ ~ij.cancelled /\ pc' = "process" /\ src' = "reading"
      /\ UNCHANGED <<row, ij, chkpt, handled, lost>>
      /\ wrk'["leaked"] = wrk["leaked"]
  BY DEF Process, dbVars, history, Structure, TypeOK, Workers
<1>2. w.at = "receive" /\ w.o = ij.o /\ w.f = ij.f /\ w.lo = chkpt.ds
  BY DEF Process, Structure, TypeOK, Workers
<1>3. RunIsCovered' /\ WorkIsCovered'
  BY <1>1, <1>2 DEF Coverage, RunIsCovered, WorkIsCovered, Covered, Dealt
<1>4. LeakIsCovered'
  BY <1>1 DEF Coverage, LeakIsCovered, Covered, Dealt
<1>5. CheckpointsAreCovered' /\ EndIsCovered'
  BY <1>1, KeepsCheckpoints DEF Dealt
<1> QED
  BY <1>3, <1>4, <1>5 DEF Coverage

LEMMA ProcessReturnsCoverage == Structure /\ Coverage /\ ProcessReturns => Coverage'
<1> SUFFICES ASSUME Structure, Coverage, ProcessReturns PROVE Coverage'
  OBVIOUS
<1>1. CASE src = "ok" \/ ij.est
  <2>1. /\ pc = "process" /\ pc' = "inner" /\ wrk["main"].at = "off"
        /\ ij'.o = ij.o /\ ij'.f = ij.f + 1 /\ ij'.est = ij.est /\ ij'.cancelled = ij.cancelled
        /\ ij'.chk = ij.chk /\ ij'.result = ij.result /\ chkpt'.ds = 0
        /\ UNCHANGED <<row, wrk, handled, lost>>
    BY <1>1 DEF ProcessReturns, FileDone, Structure, TypeOK, Loop, Checkpoint, history
  <2>2. RunIsCovered'
    BY <1>1, <2>1 DEF Coverage, RunIsCovered, Covered, Dealt
  <2>3. CheckpointsAreCovered'
    BY <2>1, KeepsCheckpoints DEF Dealt
  <2> QED
    BY <2>1, <2>2, <2>3, LoopCoverage
<1>2. CASE ~(src = "ok" \/ ij.est)
  <2>1. Return(IF src = "stopped" THEN "aborted" ELSE "failed")
    BY <1>2 DEF ProcessReturns
  <2>2. (IF src = "stopped" THEN "aborted" ELSE "failed") \in States \ {"succeeded"}
    BY DEF States
  <2> QED
    BY <2>1, <2>2, ReturnCoverage
<1> QED
  BY <1>1, <1>2

LEMMA SourceCoverage ==
  ASSUME Structure, Coverage, SourceReads \/ SourceReturns
  PROVE  Coverage'
<1>1. /\ UNCHANGED <<row, handled, lost, runs, pc, ij, chkpt, wrk>>
      /\ src = "reading"
      /\ src' = "ok" => ~HasMore
  BY DEF SourceReads, SourceReturns, dbVars, runVars, history
<1>2. wrk["main"].at # "off" /\ wrk["main"].o = ij.o /\ wrk["main"].f = ij.f
  BY <1>1 DEF Structure, Work
<1>3. src' = "ok" => wrk["main"].hi >= Plan[ij.o][ij.f]
  <2>1. InPlan(ij.o, ij.f)
    BY <1>2 DEF Structure, Work, Workers, InPlan
  <2>2. Plan[ij.o][ij.f] \in Nat /\ wrk["main"].hi \in Nat
    BY <2>1, PlanType DEF InPlan, Structure, TypeOK, Workers, Worker
  <2> QED
    BY <1>1, <2>2 DEF HasMore
<1>4. RunIsCovered'
  BY <1>1, <1>2 DEF Coverage, RunIsCovered, Covered, Dealt
<1>5. WorkIsCovered' /\ LeakIsCovered'
  BY <1>1, <1>2, <1>3 DEF Coverage, WorkIsCovered, LeakIsCovered, Covered, Dealt
<1>6. CheckpointsAreCovered' /\ EndIsCovered'
  BY <1>1, KeepsCheckpoints DEF Dealt
<1> QED
  BY <1>4, <1>5, <1>6 DEF Coverage

LEMMA PanicCoverage == Structure /\ Coverage /\ SourcePanics => Coverage'
<1> SUFFICES ASSUME Structure, Coverage, SourcePanics PROVE Coverage'
  OBVIOUS
<1> DEFINE w == wrk["main"]
           v == IF w.at = "receive" THEN NoWorker ELSE w
           rest == {g \in Graphs : g[1] = w.o /\ g[2] = w.f /\ g[3] > w.lo}
<1>1. /\ src = "reading" /\ pc' = "inner"
      /\ ij'.o = ij.o /\ ij'.f = ij.f + 1 /\ ij'.est = ij.est /\ ij'.cancelled = ij.cancelled
      /\ ij'.chk = ij.chk /\ ij'.result = ij.result /\ chkpt'.ds = 0
      /\ row' = row /\ handled' = handled
      /\ wrk'["main"] = NoWorker /\ wrk'["leaked"] = v
      /\ lost' = IF ij.est THEN lost ELSE lost \cup rest
  BY DEF SourcePanics, FileDone, Structure, TypeOK, Loop, Checkpoint
<1>2. w.at # "off" /\ w.o = ij.o /\ w.f = ij.f
  BY <1>1 DEF Structure, Work
<1>3. w.o \in Nat /\ w.f \in Nat /\ w.lo \in Nat /\ w.hi \in Nat
  BY DEF Structure, TypeOK, Worker, Workers
<1>4. Dealt \subseteq Dealt'
  BY <1>1 DEF Dealt
<1>5. ~ij.est => /\ Reached(w.o, w.f, w.hi) \subseteq Dealt'
                 /\ Reached(w.o, w.f + 1, 0) \subseteq Dealt'
  <2>1. SUFFICES ASSUME ~ij.est
                 PROVE  /\ Reached(w.o, w.f, w.hi) \subseteq Dealt'
                        /\ Reached(w.o, w.f + 1, 0) \subseteq Dealt'
    OBVIOUS
  <2>2. Reached(w.o, w.f, w.lo) \subseteq Dealt
    BY <1>2, <2>1 DEF Coverage, WorkIsCovered, Covered
  <2>3. Dealt' = Dealt \cup rest
    BY <1>1, <2>1 DEF Dealt
  <2>4. /\ Reached(w.o, w.f, w.hi) \subseteq Reached(w.o, w.f, w.lo) \cup rest
        /\ Reached(w.o, w.f + 1, 0) \subseteq Reached(w.o, w.f, w.lo) \cup rest
    <3> HIDE DEF w
    <3> QED
      BY <1>3, RestReached
  <2> QED
    BY <2>2, <2>3, <2>4
<1>6. RunIsCovered'
  BY <1>1, <1>2, <1>5 DEF RunIsCovered, Covered
<1>7. WorkIsCovered'
  BY <1>1 DEF WorkIsCovered, NoWorker
<1>8. LeakIsCovered'
  <2>1. ij.est => v = NoWorker
    BY <1>2 DEF Structure, Work
  <2>2. NoWorker.at = "off"
    BY DEF NoWorker
  <2> QED
    BY <1>1, <1>5, <2>1, <2>2 DEF LeakIsCovered, Covered
<1>9. CheckpointsAreCovered' /\ EndIsCovered'
  BY <1>1, <1>4, KeepsCheckpoints
<1> QED
  BY <1>6, <1>7, <1>8, <1>9 DEF Coverage

LEMMA ReceiveCoverage == Structure /\ Coverage /\ Receive => Coverage'
<1> SUFFICES ASSUME Structure, Coverage, Receive PROVE Coverage'
  OBVIOUS
<1> DEFINE w == wrk["main"]
           v == wrk'["main"]
<1>1. /\ UNCHANGED <<row, handled, lost, runs, pc, ij, chkpt>>
      /\ src' = "reading" /\ w.at = "receive" /\ wrk'["leaked"] = wrk["leaked"]
  BY DEF Receive, Structure, TypeOK, Workers, dbVars, runVars, history
<1>2. v.at \in {"receive", "batch"} /\ v.o = w.o /\ v.f = w.f /\ (~ij.est => v.lo = w.lo)
  BY <1>1 DEF Receive, Structure, TypeOK, Workers, Worker
<1>3. RunIsCovered'
  BY <1>1, <1>2 DEF Coverage, RunIsCovered, Covered, Dealt
<1>4. WorkIsCovered'
  BY <1>1, <1>2 DEF Coverage, WorkIsCovered, Covered, Dealt
<1>5. LeakIsCovered'
  BY <1>1 DEF Coverage, LeakIsCovered, Covered, Dealt
<1>6. CheckpointsAreCovered' /\ EndIsCovered'
  BY <1>1, KeepsCheckpoints DEF Dealt
<1> QED
  BY <1>3, <1>4, <1>5, <1>6 DEF Coverage

LEMMA DrainCoverage == Structure /\ Coverage /\ Drain => Coverage'
<1> SUFFICES ASSUME Structure, Coverage, Drain PROVE Coverage'
  OBVIOUS
<1> DEFINE w == wrk["main"]
           v == wrk'["main"]
<1>1. /\ UNCHANGED <<row, handled, lost, runs, pc, ij, chkpt, src>>
      /\ w.at = "receive" /\ wrk'["leaked"] = wrk["leaked"]
  BY DEF Drain, Structure, TypeOK, Workers, dbVars, runVars, history
<1>2. /\ pc = "process" /\ w.o = ij.o /\ w.f = ij.f /\ InPlan(w.o, w.f)
      /\ w.lo \in Nat /\ w.hi \in Nat /\ w.lo <= w.hi
  BY <1>1 DEF Structure, TypeOK, Work, Workers, Worker
<1>3. CASE w.hi > w.lo /\ ~ij.cancelled
  <2>1. v.at = "batch" /\ v.o = w.o /\ v.f = w.f /\ v.lo = w.lo /\ v.hi = w.hi
    BY <1>3 DEF Drain, Structure, TypeOK, Workers, Worker
  <2>2. RunIsCovered' /\ WorkIsCovered'
    BY <1>1, <1>2, <2>1 DEF Coverage, RunIsCovered, WorkIsCovered, Covered, Dealt
  <2> QED
    BY <1>1, <2>2, KeepsCheckpoints DEF Coverage, LeakIsCovered, Covered, Dealt
<1>4. CASE ~(w.hi > w.lo /\ ~ij.cancelled)
  <2>1. v.at = "off"
    BY <1>4 DEF Drain, Structure, TypeOK, Workers, NoWorker
  <2>2. ~ij.est /\ ~ij.cancelled /\ src = "ok" => Covered(ij.o, ij.f + 1, 0)
    <3>1. SUFFICES ASSUME ~ij.est, ~ij.cancelled, src = "ok"
                   PROVE  Covered(ij.o, ij.f + 1, 0)
      OBVIOUS
    <3>2. w.lo = w.hi /\ w.hi >= Plan[w.o][w.f] /\ Covered(w.o, w.f, w.lo)
      BY <1>1, <1>2, <1>4, <3>1 DEF Coverage, WorkIsCovered
    <3>3. w.o \in Nat /\ w.f \in Nat
      BY <1>2, PlanType DEF InPlan
    <3>4. Reached(w.o, w.f + 1, 0) \subseteq Reached(w.o, w.f, w.lo)
      <4> HIDE DEF w
      <4> QED
        BY <1>2, <3>2, <3>3, FileReached
    <3> QED
      BY <1>2, <3>2, <3>4 DEF Covered
  <2>3. RunIsCovered' /\ WorkIsCovered'
    BY <1>1, <1>2, <2>1, <2>2 DEF Coverage, RunIsCovered, WorkIsCovered, Covered, Dealt
  <2> QED
    BY <1>1, <2>3, KeepsCheckpoints DEF Coverage, LeakIsCovered, Covered, Dealt
<1> QED
  BY <1>3, <1>4

(* A batch is stored, or, if its transaction fails, lost and logged: either *)
(* way the worker's part of the file is covered up to its end.              *)
LEMMA StoreCoverage ==
  ASSUME Structure, Coverage, NEW x \in Workers, StoreBatch(x)
  PROVE  Coverage'
<1> DEFINE w == wrk[x]
<1>1. /\ w.at = "batch" /\ UNCHANGED <<row, runs, pc, ij, chkpt, src>>
      /\ Dealt' = Dealt \cup Batch(w)
  BY DEF StoreBatch, runVars, Dealt
<1>2. \A y \in Workers : /\ wrk'[y].o = wrk[y].o /\ wrk'[y].f = wrk[y].f
                         /\ wrk'[y].lo = wrk[y].lo /\ wrk'[y].hi = wrk[y].hi
                         /\ wrk'[y].at = IF y = x THEN "stored" ELSE wrk[y].at
  BY DEF StoreBatch, Structure, TypeOK, Worker
<1>3. x = "main" => ~ij.est
  BY <1>1 DEF Structure, Work
<1>4. x = "main" => Reached(w.o, w.f, w.hi) \subseteq Dealt'
  <2>1. SUFFICES ASSUME x = "main" PROVE Reached(w.o, w.f, w.hi) \subseteq Dealt'
    OBVIOUS
  <2>2. Reached(w.o, w.f, w.lo) \subseteq Dealt
    BY <1>1, <1>3, <2>1 DEF Coverage, WorkIsCovered, Covered
  <2>3. w.lo \in Nat /\ w.hi \in Nat
    BY DEF Structure, TypeOK, Worker
  <2>4. Reached(w.o, w.f, w.hi) \subseteq Reached(w.o, w.f, w.lo) \cup Batch(w)
    <3> HIDE DEF w
    <3> QED
      BY <2>3, BatchReached
  <2> QED
    BY <1>1, <2>2, <2>4
<1>5. RunIsCovered'
  BY <1>1, <1>2 DEF Coverage, RunIsCovered, Covered, Workers
<1>6. WorkIsCovered'
  <2> SUFFICES ASSUME ~ij.est, wrk'["main"].at # "off"
               PROVE  /\ Reached(wrk["main"].o, wrk["main"].f, wrk["main"].lo) \subseteq Dealt'
                      /\ wrk'["main"].at = "stored" =>
                           Reached(wrk["main"].o, wrk["main"].f, wrk["main"].hi) \subseteq Dealt'
                      /\ src = "ok" => wrk["main"].hi >= Plan[wrk["main"].o][wrk["main"].f]
    BY <1>1, <1>2 DEF WorkIsCovered, Covered, Workers
  <2>1. wrk["main"].at # "off" /\ (x # "main" => wrk'["main"].at = wrk["main"].at)
    BY <1>1, <1>2 DEF Workers
  <2> QED
    BY <1>1, <1>4, <2>1 DEF Coverage, WorkIsCovered, Covered
<1>7. LeakIsCovered'
  BY <1>1, <1>2 DEF Coverage, LeakIsCovered, Covered, Workers
<1>8. CheckpointsAreCovered' /\ EndIsCovered'
  BY <1>1, KeepsCheckpoints
<1> QED
  BY <1>5, <1>6, <1>7, <1>8 DEF Coverage

(* What a batch leaves as the job's checkpoint lies within it.              *)
LEMMA CheckpointCoverage ==
  ASSUME Structure, Coverage, NEW x \in Workers, CheckpointBatch(x)
  PROVE  Coverage'
<1> DEFINE w == wrk[x]
           c == At(FALSE, w.o, w.f, LastMark(w))
<1>1. /\ w \in Worker /\ w.at = "stored" /\ Dealt' = Dealt
      /\ UNCHANGED <<runs, pc, chkpt, src, handled, lost>>
  BY DEF Structure, TypeOK, CheckpointBatch, history, Dealt
<1>2. Reached(w.o, w.f, w.hi) \subseteq Dealt
  BY <1>1 DEF Structure, Work, Coverage, WorkIsCovered, LeakIsCovered, Covered, Workers
<1>3. /\ ij'.est = ij.est /\ ij'.o = ij.o /\ ij'.f = ij.f /\ ij'.cancelled = ij.cancelled
  BY DEF CheckpointBatch, MakeCheckpoint, Structure, TypeOK, Loop
<1>4. /\ x = "main" => wrk'["main"] = [w EXCEPT !.at = "receive", !.lo = w.hi]
      /\ x = "main" => wrk'["leaked"] = wrk["leaked"]
      /\ x = "leaked" => wrk'["main"] = wrk["main"] /\ wrk'["leaked"].at = "off"
  BY DEF CheckpointBatch, Structure, TypeOK, Workers, NoWorker
<1>5. x = "main" => /\ wrk'["main"].at = "receive" /\ wrk'["main"].lo = w.hi
                    /\ wrk'["main"].o = w.o /\ wrk'["main"].f = w.f /\ wrk'["main"].hi = w.hi
  BY <1>1, <1>4 DEF Worker
<1>6. CheckpointsAreCovered' /\ EndIsCovered'
  <2>1. CASE UNCHANGED <<ij, row>>
    BY <1>1, <2>1, KeepsCheckpoints
  <2>2. CASE Marks(w) # {} /\ MakeCheckpoint(c)
    <3>1. LastMark(w) \in Nat /\ LastMark(w) <= w.hi /\ w.hi \in Nat
      BY <1>1, <2>2, LastMarkType DEF Worker
    <3>2. Reached(w.o, w.f, LastMark(w)) \subseteq Reached(w.o, w.f, w.hi)
      BY <3>1, LessReached
    <3>3. Skipped(c) \subseteq Reached(w.o, w.f, LastMark(w))
      BY SkippedIsReached DEF At
    <3> HIDE DEF c
    <3> QED
      BY <1>1, <1>2, <2>2, <3>2, <3>3, MakeCheckpointCovers
  <2> QED
    BY <2>1, <2>2 DEF CheckpointBatch
<1>7. RunIsCovered'
  BY <1>1, <1>3, <1>4, <1>5 DEF Coverage, RunIsCovered, Covered, Workers
<1>8. WorkIsCovered'
  BY <1>1, <1>2, <1>3, <1>4, <1>5 DEF Coverage, WorkIsCovered, Covered, Workers
<1>9. LeakIsCovered'
  BY <1>1, <1>4 DEF Coverage, LeakIsCovered, Covered, Workers
<1> QED
  BY <1>6, <1>7, <1>8, <1>9 DEF Coverage

LEMMA SyncWaitsCoverage == Structure /\ Coverage /\ SyncWaits => Coverage'
<1> SUFFICES ASSUME Structure, Coverage, SyncWaits PROVE Coverage'
  OBVIOUS
<1> DEFINE w == wrk["leaked"]
           c == At(FALSE, w.o, w.f, LastMark(w))
<1>1. /\ w \in Worker /\ w.at = "stored" /\ Dealt' = Dealt
      /\ UNCHANGED <<row, runs, pc, chkpt, src, handled, lost>>
  BY DEF Structure, TypeOK, SyncWaits, dbVars, history, Dealt, Workers
<1>2. /\ ij'.est = ij.est /\ ij'.o = ij.o /\ ij'.f = ij.f /\ ij'.cancelled = ij.cancelled
      /\ ij'.result = ij.result /\ ij'.chk = c
  BY DEF SyncWaits, Structure, TypeOK, Loop
<1>3. /\ wrk'["main"] = wrk["main"]
      /\ wrk'["leaked"].o = w.o /\ wrk'["leaked"].f = w.f /\ wrk'["leaked"].hi = w.hi
  BY <1>1 DEF SyncWaits, Structure, TypeOK, Workers, Worker
<1>4. Skipped(c) \subseteq Dealt
  <2>1. LastMark(w) \in Nat /\ LastMark(w) <= w.hi /\ w.hi \in Nat
    BY <1>1, LastMarkType DEF SyncWaits, Worker
  <2>2. Reached(w.o, w.f, LastMark(w)) \subseteq Reached(w.o, w.f, w.hi)
    BY <2>1, LessReached
  <2>3. Skipped(c) \subseteq Reached(w.o, w.f, LastMark(w))
    BY SkippedIsReached DEF At
  <2> QED
    BY <1>1, <2>2, <2>3 DEF Coverage, LeakIsCovered, Covered
<1> HIDE DEF c
<1>5. CheckpointsAreCovered' /\ EndIsCovered'
  BY <1>1, <1>2, <1>4 DEF Coverage, CheckpointsAreCovered, EndIsCovered
<1>6. RunIsCovered' /\ WorkIsCovered' /\ LeakIsCovered'
  BY <1>1, <1>2, <1>3 DEF Coverage, RunIsCovered, WorkIsCovered, LeakIsCovered, Covered
<1> QED
  BY <1>5, <1>6 DEF Coverage

LEMMA CancelCoverage == Structure /\ Coverage /\ Cancel => Coverage'
<1> SUFFICES ASSUME Structure, Coverage, Cancel PROVE Coverage'
  OBVIOUS
<1>1. /\ UNCHANGED <<row, handled, lost, pc, chkpt, src, wrk>> /\ Dealt' = Dealt
      /\ ij'.cancelled = TRUE /\ ij'.est = ij.est /\ ij'.chk = ij.chk /\ ij'.result = ij.result
  BY DEF Cancel, Structure, TypeOK, Loop, dbVars, history, Dealt
<1>2. RunIsCovered' /\ WorkIsCovered' /\ LeakIsCovered'
  BY <1>1 DEF Coverage, RunIsCovered, WorkIsCovered, LeakIsCovered, Covered
<1> QED
  BY <1>1, <1>2, KeepsCheckpoints DEF Coverage

LEMMA StopCoverage == Structure /\ Coverage /\ Stop => Coverage'
<1> SUFFICES ASSUME Structure, Coverage, Stop PROVE Coverage'
  OBVIOUS
<1>1. /\ UNCHANGED <<handled, lost, ij>> /\ Dealt' = Dealt /\ pc' = "off"
      /\ row'.state = "interrupted" /\ row'.chk = row.chk
      /\ \A w \in Workers : wrk'[w].at = "off"
  BY DEF Stop, Structure, TypeOK, NoWorker, history, Dealt
<1>2. RunIsCovered' /\ WorkIsCovered' /\ LeakIsCovered'
  BY <1>1 DEF RunIsCovered, WorkIsCovered, LeakIsCovered, Workers
<1>3. CheckpointsAreCovered' /\ EndIsCovered'
  BY <1>1 DEF Coverage, CheckpointsAreCovered, EndIsCovered
<1> QED
  BY <1>2, <1>3 DEF Coverage

LEMMA CoverageNext == Structure /\ Coverage /\ [Next]_vars => Coverage'
<1> SUFFICES ASSUME Structure, Coverage, [Next]_vars PROVE Coverage'
  OBVIOUS
<1>1. CASE Run
  BY <1>1, RunCoverage
<1>2. CASE RunStep
  BY <1>2, NextSourceCoverage, SourceDoneCoverage, NextFileCoverage, EstimatedCoverage,
     RunEndsCoverage, ProcessCoverage, ProcessReturnsCoverage
     DEF RunStep
<1>3. CASE FileFails
  BY <1>3, RunEndsCoverage
<1>4. CASE SourceStep
  BY <1>4, SourceCoverage DEF SourceStep
<1>5. CASE SourcePanics
  BY <1>5, PanicCoverage
<1>6. CASE Receive \/ Drain
  BY <1>6, ReceiveCoverage, DrainCoverage
<1>7. ASSUME NEW x \in Workers, WorkerStep(x) PROVE Coverage'
  BY <1>7, StoreCoverage, CheckpointCoverage DEF WorkerStep
<1>8. CASE Cancel \/ Stop
  BY <1>8, CancelCoverage, StopCoverage
<1>9. CASE SyncWaits
  BY <1>9, SyncWaitsCoverage
<1>10. CASE UNCHANGED vars
  BY <1>10 DEF vars, Coverage, RunIsCovered, WorkIsCovered, LeakIsCovered, CheckpointsAreCovered,
               EndIsCovered, Covered, Dealt
<1> QED
  BY <1>1, <1>2, <1>3, <1>4, <1>5, <1>6, <1>7, <1>8, <1>9, <1>10 DEF Next

(* An import passes over nothing, whatever its plan, and however often it   *)
(* is cancelled, stopped or panics and is resumed: what its checkpoints     *)
(* skip was stored, or its failure was logged, and an import recorded as    *)
(* succeeded has dealt with the whole plan.                                 *)
THEOREM ImportLosesNothing == Spec => []NothingIsPassedOver
<1>1. Structure /\ Coverage => NothingIsPassedOver
  BY DEF Structure, Coverage, CheckpointsAreCovered, EndIsCovered, Dealt,
         NothingIsPassedOver, NothingSkipped, SucceededImportsAll
<1>2. Init => Structure /\ Coverage
  BY StructureInit, CoverageInit
<1>3. Structure /\ Coverage /\ [Next]_vars => (Structure /\ Coverage)'
  BY StructureNext, CoverageNext
<1> QED
  BY <1>1, <1>2, <1>3, PTL DEF Spec

-----------------------------------------------------------------------------
(* An import that is neither cancelled nor panics loses no graph at all:    *)
(* only these two make lost grow.                                           *)

NothingLost == lost = {} /\ ~ij.cancelled

LEMMA NothingLostNext ==
  ASSUME "cancel" \notin Faults, "panic" \notin Faults, Structure, NothingLost, [Next]_vars
  PROVE  NothingLost'
<1> USE DEF NothingLost, dbVars, runVars, history, Return
<1>1. CASE Run
  BY <1>1 DEF Run
<1>2. CASE NextSource \/ SourceDone \/ Estimated
  BY <1>2 DEF Structure, TypeOK, Loop, NextSource, SourceDone, Estimated
<1>3. CASE FileFails \/ Succeed \/ Cancelled \/ BeginEnd \/ EndJob
  BY <1>3 DEF Structure, TypeOK, Loop, FileFails, Succeed, Cancelled, BeginEnd, EndJob
<1>4. CASE NextFile \/ Process
  BY <1>4 DEF Structure, TypeOK, Loop, NextFile, MakeCheckpoint, Process
<1>5. CASE ProcessReturns
  BY <1>5 DEF Structure, TypeOK, Loop, ProcessReturns, FileDone
<1>6. CASE SourceStep \/ SourcePanics \/ Receive \/ Drain \/ Cancel \/ Stop
  BY <1>6 DEF SourceStep, SourceReads, SourceReturns, SourcePanics, Receive, Drain, Cancel, Stop
<1>7. ASSUME NEW x \in Workers, WorkerStep(x) PROVE NothingLost'
  BY <1>7 DEF Structure, TypeOK, Loop, WorkerStep, StoreBatch, CheckpointBatch, MakeCheckpoint
<1>8. CASE SyncWaits
  BY <1>8 DEF Structure, TypeOK, Loop, SyncWaits
<1>9. CASE UNCHANGED vars
  BY <1>9 DEF vars
<1> QED
  BY <1>1, <1>2, <1>3, <1>4, <1>5, <1>6, <1>7, <1>8, <1>9 DEF Next, RunStep

(* If the process is stopped at any moment, and files fail, but no data     *)
(* source panics and nobody cancels, an import that is resumed skips only   *)
(* what is in the database, and has stored the whole plan when it succeeds. *)
THEOREM StopsLoseNothing ==
  ASSUME "cancel" \notin Faults, "panic" \notin Faults
  PROVE  Spec => [](SkipsOnlyStored /\ (row.state = "succeeded" => Graphs \subseteq handled))
<1>1. Init => Structure /\ Coverage /\ NothingLost
  BY StructureInit, CoverageInit DEF Init, NothingLost
<1>2. Structure /\ Coverage /\ NothingLost /\ [Next]_vars => (Structure /\ Coverage /\ NothingLost)'
  BY StructureNext, CoverageNext, NothingLostNext
<1>3. Structure /\ Coverage /\ NothingLost =>
        SkipsOnlyStored /\ (row.state = "succeeded" => Graphs \subseteq handled)
  BY DEF Coverage, CheckpointsAreCovered, EndIsCovered, Dealt, NothingLost, SkipsOnlyStored
<1> QED
  BY <1>1, <1>2, <1>3, PTL DEF Spec
=============================================================================
