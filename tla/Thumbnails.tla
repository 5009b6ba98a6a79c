------------------------------ MODULE Thumbnails ------------------------------
(***************************************************************************)
(* The thumbnails of the pictures in a timeline (thumbnails.go): the job    *)
(* that pages through the items of an import, or works on a list of files   *)
(* with checkpoints, in batches of goroutines; requests of the front end;   *)
(* and the files that imports and users change meanwhile.  Goroutines that  *)
(* need the thumbnail of one file are kept apart by MapMutex.               *)
(*                                                                         *)
(* Every item is a picture in a file; a picture that became one of the item *)
(* database (data_id) is treated alike.  Pausing and cancelling the job     *)
(* belong to JobManager.                                                    *)
(***************************************************************************)
EXTENDS Naturals, Sequences, FiniteSets

CONSTANTS
  Libraries,   (* the items a timeline may start with: functions of row IDs  *)
  Files,
  Broken,      (* files no thumbnail can be made of, as ffmpeg or vips fail  *)
  Unfit,       (* icons and GIFs, which no thumbnail is made of              *)
  Tasks,       (* thumbnailJob.Tasks, the files of a job that lists them     *)
  PageSize,    (* thumbnailJobPageSize                                       *)
  BatchSize,
  Clients,     (* requests for a thumbnail at one time (bound)               *)
  Changes,     (* what else happens to files: "replace", "delete", "add",    *)
  Changing,    (* and to which files (bound)                                 *)
  MaxVersions, (* how often a file is written under a name (bound)           *)
  MaxSessions, (* how often the program is started (bound)                   *)
  MaxInt64,
  None

Workers == 1..BatchSize
Procs == Workers \cup Clients
Pictures == UNION {DOMAIN l : l \in Libraries}
Times == {l[i].time : l \in Libraries, i \in Pictures} \ {None}

VARIABLES
  rows,     (* the picture items: timestamp, data file, thumb_hash, and      *)
            (* whether a job has modified them (modified_job_id)             *)
  content,  (* which of the files written under a name is there, 0: none;    *)
            (* 1 is what was there at first, if anything                     *)
  written,  (* which was the last                                            *)
  thumbs,   (* table thumbnails: of which file, and whether it was generated *)
            (* before the items were stored                                  *)
  proc,     (* what each goroutine does                                      *)
  job,
  set, at, key  (* thumbnailMapMu                                            *)

files == <<rows, content, written>>
mutex == <<set, at, key>>
vars == <<files, thumbs, proc, job, mutex>>

Mutex == INSTANCE MapMutex WITH Keys <- Files, NoKey <- None

Versions == 0..MaxVersions
Idle == [pc |-> "idle", file |-> None, of |-> 0, force |-> FALSE]

Row == [time: Times \cup {None}, file: Files \cup {None}, hash: Versions, updated: BOOLEAN]
Thumb == [of: Versions \ {0}, early: BOOLEAN]
Proc == [pc: {"idle", "lock", "check", "share", "store", "hash"},
         file: Files \cup {None}, of: Versions, force: BOOLEAN]
Cursor == [time: Nat \cup {None}, id: Nat]
Job == [state: {"running", "done"}, listed: BOOLEAN, regenerate: BOOLEAN,
        phase: {"count", "page", "batch"}, cursor: Cursor,
        queue: Seq(Files), next: Nat, checkpoint: Nat,
        progress: Nat, total: Nat, sessions: 1..MaxSessions]

ThumbnailsAssumption ==
  /\ BatchSize \in Nat \ {0} /\ PageSize \in Nat \ {0}
  /\ MaxVersions \in Nat \ {0} /\ MaxSessions \in Nat \ {0}
  /\ Pictures \subseteq Nat \ {0} /\ IsFiniteSet(Pictures)
  /\ MaxInt64 \in Nat /\ Times \subseteq 0..(MaxInt64 - 1)
  /\ \A l \in Libraries : l \in [Pictures -> Row] /\ \A i \in Pictures : l[i].hash \in {0, 1}
  /\ Tasks \in Seq(Files \ Unfit)
  /\ Clients \cap Nat = {} /\ None \notin Files \cup Nat \cup Thumb

-----------------------------------------------------------------------------
(* Paging.                                                                  *)

(* lastTimestamp starts at MaxInt64, lastItemID at 0. *)
FirstPage == [time |-> MaxInt64, id |-> 0]

(* NULL, which is smaller than every time for ORDER BY and neither smaller  *)
(* than nor equal to anything for WHERE.                                    *)
Earlier(t, u) == t # None /\ u # None /\ t < u
Same(t, u) == t # None /\ t = u

(* Mutant of After: a page begins below the last timestamp of the one before. *)
AfterTimestamp(i, c) == Earlier(rows[i].time, c.time) \/ (rows[i].time = None /\ i > c.id)

(* The predicate of thumbnailJobQuery.                                      *)
After(i, c) ==
  \/ Earlier(rows[i].time, c.time)
  \/ (Same(rows[i].time, c.time) \/ rows[i].time = None) /\ i > c.id

(* ORDER BY timestamp DESC, id ASC                                          *)
Before(i, j) ==
  \/ Earlier(rows[j].time, rows[i].time)
  \/ rows[i].time # None /\ rows[j].time = None
  \/ rows[i].time = rows[j].time /\ i < j

(* How many rows of S come before i, and S in that order.                   *)
Place(i, S) == Cardinality({j \in S : Before(j, i)})
InOrder(S) == [k \in 1..Cardinality(S) |-> CHOOSE i \in S : Place(i, S) = k - 1]

(* The rows of the page after c: LIMIT PageSize.                            *)
Found(c) == {i \in Pictures : rows[i].file # None /\ After(i, c)}
Page(c) == {i \in Found(c) : Place(i, Found(c)) < PageSize}

LastRow(page) == CHOOSE i \in page : \A j \in page : j = i \/ Before(j, i)
LastOf(page) == [time |-> rows[LastRow(page)].time, id |-> LastRow(page)]

(* pageResults: the first row of the page with each file that qualifies.    *)
PageTasks(page) ==
  {i \in page :
    /\ rows[i].file \notin Unfit
    /\ \A j \in page : Before(j, i) => rows[j].file # rows[i].file}

(* Whether the thumbnail is newer than the item.  An item that a job has    *)
(* modified never passes: that time is in milliseconds, generated in seconds.*)
Current(i) ==
  /\ thumbs[rows[i].file] # None
  /\ ~thumbs[rows[i].file].early
  /\ ~rows[i].updated

Needed(tasks) == {i \in tasks : job.regenerate \/ ~Current(i)}

(* Mutant of Skipped: what is left out is not counted. *)
SkippedSilently(tasks) == 0

(* job.Progress(1) for each task that is left out.                          *)
Skipped(tasks) == Cardinality(tasks \ Needed(tasks))

-----------------------------------------------------------------------------
(* thumbnailJob.Run                                                         *)

(* A listed job resumes at its checkpoint, the other at its first page.     *)
Begun(listed, regenerate, checkpoint, sessions) ==
  [state |-> "running", listed |-> listed, regenerate |-> regenerate,
   phase |-> IF listed THEN "batch" ELSE "count", cursor |-> FirstPage,
   queue |-> IF listed THEN Tasks ELSE <<>>, next |-> checkpoint,
   checkpoint |-> checkpoint, progress |-> checkpoint, total |-> 0,
   sessions |-> sessions]

InPhase(phase) == job.state = "running" /\ job.phase = phase

(* iteratePagesOfTasksFromImportJob with precountMode: one page, and the    *)
(* first query of the second pass once there is none.                       *)
CountPage ==
  /\ InPhase("count")
  /\ LET page == Page(job.cursor)
     IN job' = IF page = {}
               THEN [job EXCEPT !.phase = "page", !.cursor = FirstPage]
               ELSE [job EXCEPT !.cursor = LastOf(page),
                                !.total = @ + Cardinality(PageTasks(page))]
  /\ UNCHANGED <<files, thumbs, proc, mutex>>

(* Without it: one page, of which what has a thumbnail counts as done.      *)
LoadPage ==
  /\ InPhase("page")
  /\ LET page == Page(job.cursor)
         tasks == PageTasks(page)
         needed == InOrder(Needed(tasks))
     IN job' = IF page = {}
               THEN [job EXCEPT !.state = "done"]
               ELSE [job EXCEPT !.cursor = LastOf(page),
                                !.progress = @ + Skipped(tasks),
                                !.queue = [k \in DOMAIN needed |-> rows[needed[k]].file],
                                !.next = 0,
                                !.phase = IF Needed(tasks) = {} THEN "page" ELSE "batch"]
  /\ UNCHANGED <<files, thumbs, proc, mutex>>

(* wg.Wait *)
AllDone == \A w \in Workers : proc[w].pc = "idle"

AtBoundary == job.next % BatchSize = BatchSize - 1

(* Mutant of Ready: the batch is not waited for. *)
ReadyAtOnce == \E w \in Workers : proc[w].pc = "idle"

(* What is waited for before the next goroutine is spawned.                 *)
Ready == AtBoundary => AllDone

(* Goroutines are alike: the first of those that do not run.                *)
FirstIdle(w) == proc[w].pc = "idle" /\ \A v \in Workers : v < w => proc[v].pc # "idle"

(* processInBatches: the next task, after a checkpoint at the end of a batch.*)
Spawn ==
  /\ InPhase("batch") /\ job.next < Len(job.queue)
  /\ Ready
  /\ \E w \in Workers :
       /\ FirstIdle(w)
       /\ proc' = [proc EXCEPT ![w] = [Idle EXCEPT !.pc = "lock",
                                                   !.file = job.queue[job.next + 1]]]
  /\ job' = [job EXCEPT !.next = @ + 1,
                        !.checkpoint = IF AtBoundary /\ job.listed THEN job.next ELSE @]
  /\ UNCHANGED <<files, thumbs, mutex>>

FinishBatches ==
  /\ InPhase("batch") /\ job.next >= Len(job.queue)
  /\ AllDone
  /\ job' = IF job.listed THEN [job EXCEPT !.state = "done"]
                          ELSE [job EXCEPT !.phase = "page"]
  /\ UNCHANGED <<files, thumbs, proc, mutex>>

-----------------------------------------------------------------------------
(* thumbnailAndThumbhash, for a task of the job or a request.               *)

RowsOf(f) == {i \in Pictures : rows[i].file = f}
HashesOf(f) == {rows[i].hash : i \in RowsOf(f)} \ {0}
WithHash(f, h) == [i \in Pictures |-> IF i \in RowsOf(f) THEN [rows[i] EXCEPT !.hash = h] ELSE rows[i]]

(* Timeline.Thumbnail: a request that finds no thumbnail, or one without a  *)
(* hash, which is made again; the others change nothing.                    *)
Request(c, f) ==
  /\ proc[c].pc = "idle" /\ proc[c].file = None
  /\ RowsOf(f) # {} /\ f \notin Unfit
  /\ thumbs[f] = None \/ HashesOf(f) = {}
  /\ proc' = [proc EXCEPT ![c] = [pc |-> "lock", file |-> f, of |-> 0,
                                  force |-> thumbs[f] # None]]
  /\ UNCHANGED <<files, thumbs, job, mutex>>

(* The task is over, whether it succeeded or not: the job counts it.        *)
End(p) ==
  /\ proc' = [proc EXCEPT ![p] = IF p \in Workers THEN Idle ELSE [@ EXCEPT !.pc = "idle"]]
  /\ job' = IF p \in Workers THEN [job EXCEPT !.progress = @ + 1] ELSE job

Goto(p, pc, of) ==
  /\ proc' = [proc EXCEPT ![p].pc = pc, ![p].of = of]
  /\ UNCHANGED job

(* thumbnailMapMu.Lock(lockKey)                                             *)
Lock(p) ==
  /\ proc[p].pc = "lock"
  /\ Mutex!Lock(p, proc[p].file) \/ Mutex!Resume(p)
  /\ proc' = [proc EXCEPT ![p].pc = IF at'[p] = "holding" THEN "check" ELSE "lock"]
  /\ UNCHANGED <<files, thumbs, job>>

(* "see if it was already done"; if not, the file is read, which fails when *)
(* it is gone or cannot be decoded.                                         *)
Check(p) ==
  LET f == proc[p].file IN
  /\ proc[p].pc = "check"
  /\ UNCHANGED <<files, thumbs>>
  /\ \/ thumbs[f] # None /\ Goto(p, "share", thumbs[f].of) /\ UNCHANGED mutex
     \/ /\ thumbs[f] = None /\ content[f] # 0 /\ f \notin Broken
        /\ Goto(p, "store", content[f]) /\ UNCHANGED mutex
     \/ /\ thumbs[f] = None /\ (content[f] = 0 \/ f \in Broken)
        /\ End(p) /\ Mutex!Unlock(p)

(* Mutant of SharedHashes: the first row, with a hash or without one. *)
AnyHash(f) == IF RowsOf(f) = {} THEN {0} ELSE {rows[i].hash : i \in RowsOf(f)}

(* SELECT thumb_hash ... WHERE data_file=? AND thumb_hash IS NOT NULL LIMIT 1 *)
SharedHashes(f) == IF HashesOf(f) = {} THEN {0} ELSE HashesOf(f)

(* The thumbnail exists: the hash of one row is given to all.               *)
Share(p) ==
  LET f == proc[p].file IN
  /\ proc[p].pc = "share"
  /\ \E h \in SharedHashes(f) : rows' = WithHash(f, h)
  /\ Mutex!Unlock(p)
  /\ IF proc[p].force THEN Goto(p, "hash", proc[p].of) ELSE End(p)
  /\ UNCHANGED <<content, written, thumbs>>

Store(p) ==
  /\ proc[p].pc = "store"
  /\ thumbs' = [thumbs EXCEPT ![proc[p].file] = [of |-> proc[p].of, early |-> FALSE]]
  /\ Mutex!Unlock(p)
  /\ Goto(p, "hash", proc[p].of)
  /\ UNCHANGED files

(* generateAndStoreThumbhash, after the lock was released.                  *)
StoreHash(p) ==
  /\ proc[p].pc = "hash"
  /\ rows' = WithHash(proc[p].file, proc[p].of)
  /\ End(p)
  /\ UNCHANGED <<content, written, thumbs, mutex>>

Run(p) == Lock(p) \/ Check(p) \/ Share(p) \/ Store(p) \/ StoreHash(p)
-----------------------------------------------------------------------------
(* What happens to the files meanwhile.                                     *)

Written(f) ==
  /\ written[f] < MaxVersions
  /\ written' = [written EXCEPT ![f] = @ + 1]
  /\ content' = [content EXCEPT ![f] = written[f] + 1]

(* An import updates an item with another file: the old file goes, and its  *)
(* thumbnail (deleteDataFileAndThumbnailIfUnreferenced), and then...        *)
RemoveReplaced(f) ==
  /\ "replace" \in Changes
  /\ f \in Changing
  /\ content[f] # 0 /\ Cardinality(RowsOf(f)) = 1 /\ written[f] < MaxVersions
  /\ content' = [content EXCEPT ![f] = 0]
  /\ thumbs' = [thumbs EXCEPT ![f] = None]
  /\ UNCHANGED <<rows, written, proc, job, mutex>>

(* ... the new file takes its name, and the item keeps its hash.            *)
RestoreName(f) ==
  /\ content[f] = 0 /\ RowsOf(f) # {}
  /\ Written(f)
  /\ rows' = [i \in Pictures |-> IF i \in RowsOf(f) THEN [rows[i] EXCEPT !.updated = TRUE] ELSE rows[i]]
  /\ UNCHANGED <<thumbs, proc, job, mutex>>

(* DeleteItems with no retention: the row is erased, its file deleted when  *)
(* no other row has it, and deleteThumbnails fails, for the table has no    *)
(* column item_id (maintenance.go:175).                                     *)
Delete(i) ==
  LET f == rows[i].file IN
  /\ "delete" \in Changes
  /\ f \in Changing
  /\ rows' = [rows EXCEPT ![i] = [time |-> None, file |-> None, hash |-> 0, updated |-> FALSE]]
  /\ content' = [content EXCEPT ![f] = IF RowsOf(f) = {i} THEN 0 ELSE @]
  /\ UNCHANGED <<written, thumbs, proc, job, mutex>>

(* An import stores a new item, whose file gets a name that is free.        *)
Add(i, f) ==
  /\ "add" \in Changes
  /\ f \in Changing
  /\ rows[i].file = None /\ content[f] = 0 /\ RowsOf(f) = {}
  /\ Written(f)
  /\ rows' = [rows EXCEPT ![i].file = f]
  /\ UNCHANGED <<thumbs, proc, job, mutex>>

(* The program ends, and is started again: the job is interrupted and       *)
(* resumed (JobManager).                                                    *)
Crash ==
  /\ job.state = "running" /\ job.sessions < MaxSessions
  /\ proc' = [p \in Procs |-> Idle]
  /\ job' = Begun(job.listed, job.regenerate, job.checkpoint, job.sessions + 1)
  /\ set' = {}
  /\ at' = [p \in Procs |-> "out"]
  /\ key' = [p \in Procs |-> None]
  /\ UNCHANGED <<files, thumbs>>

-----------------------------------------------------------------------------

(* Items with a hash were there before, and so was their thumbnail.         *)
Init ==
  /\ rows \in Libraries
  /\ content = [f \in Files |-> IF RowsOf(f) = {} THEN 0 ELSE 1]
  /\ written = [f \in Files |-> 1]
  /\ thumbs = [f \in Files |-> IF HashesOf(f) = {} THEN None ELSE [of |-> 1, early |-> TRUE]]
  /\ proc = [p \in Procs |-> Idle]
  /\ \/ job = Begun(TRUE, FALSE, 0, 1)
     \/ \E regenerate \in BOOLEAN : job = Begun(FALSE, regenerate, 0, 1)
  /\ Mutex!Init

Next ==
  \/ CountPage \/ LoadPage \/ Spawn \/ FinishBatches
  \/ \E p \in Procs : Run(p)
  \/ \E c \in Clients, f \in Files : Request(c, f)
  \/ \E f \in Files : RemoveReplaced(f) \/ RestoreName(f)
  \/ \E i \in Pictures : Delete(i) \/ \E f \in Files : Add(i, f)
  \/ Crash

Spec == Init /\ [][Next]_vars

-----------------------------------------------------------------------------

TypeOK ==
  /\ rows \in [Pictures -> Row]
  /\ content \in [Files -> Versions]
  /\ written \in [Files -> Versions]
  /\ thumbs \in [Files -> Thumb \cup {None}]
  /\ proc \in [Procs -> Proc]
  /\ job \in Job
  /\ Mutex!TypeOK
  /\ \A p \in Procs : proc[p].pc \in {"check", "share", "store"} => at[p] = "holding"

(* A file's first content, which nothing has changed since, and of which a  *)
(* thumbnail can be made.                                                   *)
Steady(f) == content[f] = 1 /\ f \notin Broken \cup Unfit

(* thumbnails.go:495: "don't allow a thumbnail to be generated multiple     *)
(* times": of the goroutines that want the thumbnail of one file, at most   *)
(* one generates it at a time, and the others find it then, unless a job    *)
(* was to regenerate it: "regenerate thumbnails even if they already exist" *)
(* and "if the item has been updated" (thumbnails.go:80-82).                *)
GeneratedByOne ==
  \A p, q \in Procs :
    LET f == proc[p].file IN
    proc[p].pc = "store" =>
      /\ proc[q].pc = "store" /\ proc[q].file = f => p = q
      /\ thumbs[f] # None =>
           p \in Workers /\ (job.regenerate \/ \E i \in RowsOf(f) : rows[i].updated)

(* Paging is sure to come to a row: those without a timestamp are skipped   *)
(* but for the one with the highest row ID, for the predicate compares      *)
(* their row IDs with whatever the last page ended with.                    *)
Reached(i) == rows[i].time # None \/ \A j \in Pictures : j <= i

(* thumbnails.go:138-144: paging skips no item.  When the job is done,      *)
(* there is a thumbnail of every picture of the import that was there from  *)
(* the start and that paging comes to.                                      *)
EveryPictureIsVisited ==
  job.state = "done" /\ ~job.listed =>
    \A i \in Pictures :
      rows[i].file # None /\ Steady(rows[i].file) /\ Reached(i) => thumbs[rows[i].file] # None

(* thumbnails.go:107-115: a job that was resumed at its last checkpoint has *)
(* in the end done every task before the checkpoint as well.                *)
ListedTasksAreDone ==
  job.state = "done" /\ job.listed =>
    \A k \in 1..Len(Tasks) : Steady(Tasks[k]) => thumbs[Tasks[k]] # None

(* thumbnails.go:187-194, 286-290: the job ends at 100%: what is counted    *)
(* beforehand is what is done, skipped or failed later, whoever makes       *)
(* thumbnails meanwhile, if every item is still there with its first file.  *)
ProgressReachesTotal ==
  /\ job.state = "done" /\ ~job.listed /\ job.sessions = 1
  /\ \A i \in Pictures : rows[i].file # None /\ content[rows[i].file] = 1
  => job.progress = job.total

(* The job is sure to come to the thumbnail of a file.                      *)
Due(f) ==
  IF job.listed THEN \E k \in 1..Len(Tasks) : Tasks[k] = f ELSE \E i \in RowsOf(f) : Reached(i)

(* thumbnails.go:501: "thumbnail already exists, which implies that there's *)
(* a row in the DB with a thumbhash for it": a hash that one item has is    *)
(* had by all items of that file once the job is done and nobody works on   *)
(* it.  None of them has one only if the item that had it was deleted       *)
(* before it was shared, or the program ended between storing the thumbnail *)
(* and its hash: then the thumbnail is there and the quoted line is wrong.  *)
HashesAreShared ==
  job.state = "done" =>
    \A f \in Files :
      /\ Steady(f) /\ thumbs[f] # None /\ Due(f)
      /\ \A p \in Procs : proc[p].pc # "idle" => proc[p].file # f
      => \/ \A i \in RowsOf(f) : rows[i].hash = 1
         \/ /\ HashesOf(f) = {}
            /\ IF thumbs[f].early THEN "delete" \in Changes /\ f \in Changing
                                  ELSE job.sessions > 1
==============================================================================
