----------------------------- MODULE JobManager -----------------------------
(***************************************************************************)
(* The job manager of a timeline (timeline/jobs.go) and the part of         *)
(* openTimeline that resumes jobs (timeline/timeline.go).                   *)
(*                                                                         *)
(* A job is a row of the jobs table.  Starting it spawns a goroutine that   *)
(* runs its action and registers an ActiveJob in the map activeJobs.  HTTP  *)
(* requests create, start, cancel, pause and unpause jobs concurrently.     *)
(* Every write goes through WritePool, which has one connection: a          *)
(* transaction is a lock, and an ExecContext on the pool waits for it.      *)
(***************************************************************************)
EXTENDS Naturals, FiniteSets

CONSTANTS
  MaxJobs,      (* rows the jobs table may hold (bound)                     *)
  Imports,      (* the import configurations, which are hashes of jobs      *)
  ChildKinds,   (* thumbnails, embeddings: the jobs an import creates       *)
  Hosts,        (* machines the repository may be opened on                 *)
  Slots,        (* goroutines that may exist at once (bound)                *)
  Clients,      (* HTTP requests in progress at once (bound)                *)
  Requests,     (* what the requests may ask for                            *)
  Faults,       (* what may go wrong: fail, panic, disconnect, stop         *)
  Units,        (* units of work of every job                               *)
  MaxSessions,  (* times the timeline may be opened (bound)                 *)
  ResumeLimit,  (* jobs resumed by openTimeline (3 in the code)             *)
  None

RequestKinds == {"create", "schedule", "start", "restart", "cancel", "pause",
                 "unpause"}
FaultKinds == {"fail", "panic", "disconnect", "stop"}

ASSUME JobsAssumption ==
  /\ MaxJobs \in Nat \ {0}
  /\ Units \in Nat
  /\ MaxSessions \in Nat \ {0}
  /\ ResumeLimit \in Nat
  /\ Requests \subseteq RequestKinds
  /\ Faults \subseteq FaultKinds
  /\ None \notin Hosts \cup Slots \cup Clients
  /\ None \notin {"opener", "aborted", "succeeded", "failed"}
  /\ Slots \cap Clients = {}
  /\ "opener" \notin Slots \cup Clients

JobIds == 1..MaxJobs
Sessions == 1..MaxSessions
(* Job.hash(): an import is identified by its configuration, a child job by *)
(* its type and the import it belongs to.  The host name would be hashed    *)
(* too, but storeJob sets it after it has computed the hash.                *)
Hashes == Imports \cup (ChildKinds \X JobIds)
MaxProgress == 2 * Units    (* bound on the progress counter                *)

States == {"queued", "started", "paused", "aborted", "interrupted",
           "succeeded", "failed"}
Ended == {"aborted", "succeeded", "failed"}

VARIABLES
  jobs,      (* the jobs table, as committed                               *)
  wrows,     (* the jobs table, as the write connection sees it            *)
  writer,    (* who has a transaction open on the write connection         *)
  spawned,   (* the goroutine runJob started and has not registered yet    *)
  active,    (* activeJobs of each Timeline value, one per session         *)
  pc,        (* where each goroutine is                                    *)
  job,       (* the job row each goroutine works for                       *)
  mem,       (* the ActiveJob struct (or timer context) of each goroutine  *)
  cpc,       (* where each request is                                      *)
  req,       (* what each request asked for, and what it was answered      *)
  session,   (* the number of the latest Timeline value                    *)
  repo,      (* closed, opening or open, on which machine, what to resume  *)
  panicked   (* jobs whose goroutine panicked in this session              *)

dbVars == <<jobs, wrows, writer>>
goVars == <<spawned, active, pc, job, mem>>
reqVars == <<cpc, req>>
envVars == <<session, repo, panicked>>
vars == <<dbVars, goVars, reqVars, envVars>>

-----------------------------------------------------------------------------
(* The shape of the state.                                                 *)

Row == [state: States \cup {"none"}, hash: Hashes \cup {None},
        host: Hosts \cup {None}, future: BOOLEAN,
        chk: 0..Units, prog: 0..MaxProgress]

NoRow == [state |-> "none", hash |-> None, host |-> None, future |-> FALSE,
          chk |-> 0, prog |-> 0]

(* chk = 0 is a NULL (or empty) checkpoint: the action starts over.        *)
Mem == [sess: Sessions \cup {0}, by: Clients \cup {None}, cancelled: BOOLEAN,
        pos: 0..Units, chk: 0..Units, prog: 0..MaxProgress,
        paused: Clients \cup {None}, unpause: Clients \cup {None},
        result: Ended \cup {None}, done: BOOLEAN]

NoMem == [sess |-> 0, by |-> None, cancelled |-> FALSE, pos |-> 0, chk |-> 0,
          prog |-> 0, paused |-> None, unpause |-> None, result |-> None,
          done |-> FALSE]

GoPcs == {"free", "waiting", "launching", "run", "creating", "blocked",
          "ending", "endtx", "closing", "closed"}
ReqPcs == {"idle", "create", "startBegin", "start", "cancelBegin", "cancelWait",
           "cancelStuck", "pauseDB", "pauseSend", "pauseSet", "unpauseRead",
           "unpauseDB", "unpauseClose"}

Req == [op: RequestKinds \cup {None}, job: JobIds \cup {None},
        ref: Slots \cup {None}, reply: {"none", "ok", "error"}]
NoReq == [op |-> None, job |-> None, ref |-> None, reply |-> "none"]

Repo == [state: {"closed", "opening", "open"}, host: Hosts,
         resume: SUBSET JobIds]

(* A goroutine that carries out the action of a job, up to the commit of    *)
(* the job's final state.                                                   *)
Running(s) == pc[s] \in {"run", "creating", "blocked", "ending", "endtx"}

-----------------------------------------------------------------------------
(* The write connection.                                                   *)

Exec(rows) ==              \* WritePool.ExecContext: a write of its own
  /\ writer = None
  /\ jobs' = rows
  /\ wrows' = rows
  /\ UNCHANGED writer

Begin(owner, rows) ==      \* BeginTx, and the writes up to the next yield
  /\ writer = None
  /\ writer' = owner
  /\ wrows' = rows
  /\ UNCHANGED jobs

Commit(owner) ==
  /\ writer = owner
  /\ spawned = None
  /\ jobs' = wrows
  /\ writer' = None
  /\ UNCHANGED wrows

(* Also by database/sql, when the context of a request ends.  That may      *)
(* happen between the go statement of startJob and the registration in      *)
(* activeJobs, both outside the transaction; here the job is registered     *)
(* first, and the connection freed after.                                   *)
Rollback(owner) ==
  /\ writer = owner
  /\ spawned = None
  /\ wrows' = jobs
  /\ writer' = None
  /\ UNCHANGED jobs

-----------------------------------------------------------------------------
(* startJob and runJob.                                                    *)

Identical(rows, j) == {k \in JobIds \ {j} : rows[k].hash = rows[j].hash}

(* Mutants of Refused: no look at activeJobs; no look at identical jobs; an *)
(* identical job that is paused does not count.                             *)
RefusedByRow(rows, n, j) ==
  \/ \E k \in Identical(rows, j) : rows[k].state \in {"started", "paused"}
  \/ rows[j].state \in {"none", "started", "succeeded"}

RefusedIfActive(rows, n, j) ==
  active[n][j] # None \/ rows[j].state \in {"none", "started", "succeeded"}

RefusedUnlessPaused(rows, n, j) ==
  \/ \E k \in Identical(rows, j) : rows[k].state = "started"
  \/ RefusedIfActive(rows, n, j)

(* The checks at the head of startJob; the row must exist.                 *)
Refused(rows, n, j) ==
  \/ \E k \in Identical(rows, j) : rows[k].state \in {"started", "paused"}
  \/ active[n][j] # None
  \/ rows[j].state \in {"none", "started", "succeeded"}

(* A slot is reused when its goroutine has returned and nothing refers to   *)
(* its ActiveJob any more.                                                  *)
FreeSlots ==
  {s \in Slots : /\ pc[s] = "free"
                 /\ s # spawned
                 /\ \A c \in Clients : cpc[c] # "idle" => req[c].ref # s
                 /\ \A n \in Sessions, j \in JobIds : active[n][j] # s}

(* A goroutine returns.  Only a request that waits for it can still look at *)
(* its ActiveJob, and only at the done channel.                             *)
Return(s) ==
  /\ pc' = [pc EXCEPT ![s] = "free"]
  /\ IF s = spawned
       THEN UNCHANGED <<job, mem>>
       ELSE /\ job' = [job EXCEPT ![s] = 1]
            /\ mem' = [mem EXCEPT ![s] = [NoMem EXCEPT !.done =
                         mem[s].done /\ \E c \in Clients : req[c].ref = s]]

(* runJob: ActiveJob with the row's progress but no checkpoint of its own;  *)
(* the action gets the checkpoint that was loaded and starts there.         *)
ActiveJob(n, row, chk) == [NoMem EXCEPT !.sess = n, !.pos = chk, !.prog = row.prog]

(* Mutant of Launch: the row is not updated.                                *)
LaunchUnrecorded(rows, chk, pcs, n, j) ==
  \E s \in FreeSlots :
    /\ pc' = [pcs EXCEPT ![s] = "run"]
    /\ job' = [job EXCEPT ![s] = j]
    /\ mem' = [mem EXCEPT ![s] = ActiveJob(n, rows[j], chk)]
    /\ spawned' = s
    /\ wrows' = rows

(* start, inside startJob: the row becomes started and a goroutine runs it, *)
(* from the checkpoint that startJob has loaded.                            *)
Launch(rows, chk, pcs, n, j) ==
  \E s \in FreeSlots :
    /\ pc' = [pcs EXCEPT ![s] = "run"]
    /\ job' = [job EXCEPT ![s] = j]
    /\ mem' = [mem EXCEPT ![s] = ActiveJob(n, rows[j], chk)]
    /\ spawned' = s
    /\ wrows' = [rows EXCEPT ![j].state = "started"]

(* A queued job whose start is in the future gets a timer goroutine, which  *)
(* lives as long as the context startJob was given: the Timeline's (None)   *)
(* or that of a request.                                                    *)
Defer(rows, pcs, n, j, by) ==
  \E s \in FreeSlots :
    /\ pc' = [pcs EXCEPT ![s] = "waiting"]
    /\ job' = [job EXCEPT ![s] = j]
    /\ mem' = [mem EXCEPT ![s] = [NoMem EXCEPT !.sess = n, !.by = by]]
    /\ wrows' = rows
    /\ UNCHANGED spawned

Startable(rows, n, j) == ~Refused(rows, n, j)

StartJob(rows, pcs, n, j, by) ==
  /\ Startable(rows, n, j)
  /\ IF rows[j].state = "queued" /\ rows[j].future
       THEN Defer(rows, pcs, n, j, by)
       ELSE Launch(rows, rows[j].chk, pcs, n, j)

(* Back in runJob: the new goroutine goes into activeJobs, whatever it has  *)
(* done meanwhile.                                                          *)
Register ==
  /\ spawned # None
  /\ active' = [active EXCEPT ![mem[spawned].sess][job[spawned]] = spawned]
  /\ spawned' = None
  /\ UNCHANGED <<dbVars, pc, job, mem, reqVars, envVars>>

-----------------------------------------------------------------------------
(* CreateJob, by a request or (child jobs of an import) by a job action.    *)

Unused(j) == jobs[j].state = "none"
NextId(j) == Unused(j) /\ \A k \in JobIds : Unused(k) => j <= k

Insert(j, h, future) ==
  [jobs EXCEPT ![j] = [NoRow EXCEPT !.state = "queued", !.hash = h,
                                    !.host = repo.host, !.future = future]]

(* storeJob stores nothing and yields job 0, which startJob cannot load.    *)
QueuedAlready(h) == \E j \in JobIds : jobs[j].hash = h /\ jobs[j].state = "queued"

CreateRefused(j, h, n) ==
  QueuedAlready(h) \/ Refused(Insert(j, h, FALSE), n, j)

IsOpen == repo.state = "open"
Idle(c) == IsOpen /\ cpc[c] = "idle"

Answered(kind, reply) == [NoReq EXCEPT !.op = kind, !.reply = reply]

Answer(c, reply) ==        \* what was asked is remembered with an error
  /\ cpc' = [cpc EXCEPT ![c] = "idle"]
  /\ req' = [req EXCEPT ![c] = IF reply = "ok" THEN NoReq ELSE Answered(@.op, reply)]

Ask(c, kind, j, ref, next) ==
  /\ kind \in Requests
  /\ cpc' = [cpc EXCEPT ![c] = next]
  /\ req' = [req EXCEPT ![c] = [op |-> kind, job |-> j, ref |-> ref,
                                reply |-> "none"]]

Reject(c, kind) ==         \* answered with an error at once
  /\ kind \in Requests
  /\ req' = [req EXCEPT ![c] = Answered(kind, "error")]
  /\ UNCHANGED cpc

CreateJob(c, j, h, kind) ==
  /\ Idle(c)
  /\ writer = None
  /\ NextId(j)
  /\ kind \in {"create", "schedule"}
  /\ \/ /\ CreateRefused(j, h, session)
        /\ Reject(c, kind)
        /\ UNCHANGED <<dbVars, goVars>>
     \/ /\ ~CreateRefused(j, h, session)
        /\ writer' = c
        /\ StartJob(Insert(j, h, kind = "schedule"), pc, session, j, None)
        /\ Ask(c, kind, j, None, "create")
        /\ UNCHANGED <<jobs, active>>
  /\ UNCHANGED envVars

CommitRequest(c) ==        \* the end of CreateJob and StartJob
  /\ cpc[c] \in {"create", "start"}
  /\ Commit(c)
  /\ Answer(c, "ok")
  /\ UNCHANGED <<goVars, envVars>>

(* An import creates thumbnail and embedding jobs while it still runs; an   *)
(* error is only logged.                                                    *)
CreateChild(s, j, kind) ==
  LET h == <<kind, job[s]>>
      n == mem[s].sess
  IN /\ pc[s] = "run"
     /\ jobs[job[s]].hash \in Imports
     /\ writer = None
     /\ NextId(j)
     /\ ~CreateRefused(j, h, n)
     /\ writer' = s
     /\ StartJob(Insert(j, h, FALSE), [pc EXCEPT ![s] = "creating"], n, j, None)
     /\ UNCHANGED <<jobs, active, reqVars, envVars>>

CommitChild(s) ==
  /\ pc[s] = "creating"
  /\ Commit(s)
  /\ pc' = [pc EXCEPT ![s] = "run"]
  /\ UNCHANGED <<spawned, active, job, mem, reqVars, envVars>>

-----------------------------------------------------------------------------
(* StartJob, CancelJob, PauseJob and UnpauseJob, called by requests.        *)

Known(j) == jobs[j].state # "none"

RequestStart(c, j, kind) ==
  /\ Idle(c) /\ Known(j)
  /\ kind \in {"start", "restart"}
  /\ Ask(c, kind, j, None, "startBegin")
  /\ UNCHANGED <<dbVars, goVars, envVars>>

BeginStart(c) ==
  LET j == req[c].job
      rows == IF req[c].op = "restart"
                THEN [jobs EXCEPT ![j].chk = 0, ![j].prog = 0]
                ELSE jobs
  IN /\ cpc[c] = "startBegin"
     /\ writer = None
     /\ \/ /\ Refused(rows, session, j)
           /\ Answer(c, "error")
           /\ UNCHANGED <<dbVars, goVars>>
        \/ /\ writer' = c
           /\ StartJob(rows, pc, session, j, c)
           /\ cpc' = [cpc EXCEPT ![c] = "start"]
           /\ UNCHANGED <<jobs, active, req>>
     /\ UNCHANGED envVars

RequestCancel(c, j) ==
  /\ Idle(c) /\ Known(j)
  /\ LET s == active[session][j] IN
       IF s # None
         THEN /\ mem' = [mem EXCEPT ![s].cancelled = TRUE]
              /\ Ask(c, "cancel", j, s, "cancelWait")
         ELSE /\ Ask(c, "cancel", j, None, "cancelBegin")
              /\ UNCHANGED mem
  /\ UNCHANGED <<dbVars, spawned, active, pc, job, envVars>>

CancelWaited(c) ==
  /\ cpc[c] = "cancelWait"
  /\ mem[req[c].ref].done
  /\ Answer(c, "ok")
  /\ UNCHANGED <<dbVars, goVars, envVars>>

(* The UPDATE is executed on WritePool while this very request holds the    *)
(* pool's only connection: it waits until the request's context ends.       *)
BeginCancel(c) ==
  /\ cpc[c] = "cancelBegin"
  /\ writer = None
  /\ IF jobs[req[c].job].state \in {"queued", "started", "paused", "interrupted"}
       THEN /\ Begin(c, jobs)
            /\ cpc' = [cpc EXCEPT ![c] = "cancelStuck"]
            /\ UNCHANGED req
       ELSE /\ Answer(c, "error")
            /\ UNCHANGED dbVars
  /\ UNCHANGED <<goVars, envVars>>

RequestPause(c, j) ==
  /\ Idle(c) /\ Known(j)
  /\ LET s == active[session][j] IN
       IF s # None THEN Ask(c, "pause", j, s, "pauseDB") ELSE Reject(c, "pause")
  /\ UNCHANGED <<dbVars, goVars, envVars>>

PauseInDB(c) ==            \* step 1 of PauseJob
  /\ cpc[c] = "pauseDB"
  /\ LET j == req[c].job IN
       Exec([jobs EXCEPT ![j].state = IF @ = "started" THEN "paused" ELSE @])
  /\ cpc' = [cpc EXCEPT ![c] = "pauseSend"]
  /\ UNCHANGED <<goVars, req, envVars>>

PauseSet(c) ==             \* step 3; step 2 is the rendezvous in Continue
  /\ cpc[c] = "pauseSet"
  /\ LET s == req[c].ref IN
       mem' = [mem EXCEPT ![s].paused = IF @ = None THEN c ELSE @]
  /\ Answer(c, "ok")
  /\ UNCHANGED <<dbVars, spawned, active, pc, job, envVars>>

RequestUnpause(c, j) ==
  /\ Idle(c) /\ Known(j)
  /\ LET s == active[session][j] IN
       Ask(c, "unpause", j, s, IF s # None THEN "unpauseDB" ELSE "unpauseRead")
  /\ UNCHANGED <<dbVars, goVars, envVars>>

UnpauseRead(c) ==          \* not active: the same as starting it
  /\ cpc[c] = "unpauseRead"
  /\ IF jobs[req[c].job].state \in {"started", "paused", "failed"}
       THEN cpc' = [cpc EXCEPT ![c] = "startBegin"] /\ UNCHANGED req
       ELSE Answer(c, "error")
  /\ UNCHANGED <<dbVars, goVars, envVars>>

(* Mutant of UnpauseInDB: UPDATE without "AND state=paused".                *)
UnpauseAnyInDB(c) ==
  /\ cpc[c] = "unpauseDB"
  /\ Exec([jobs EXCEPT ![req[c].job].state = "started"])
  /\ cpc' = [cpc EXCEPT ![c] = "unpauseClose"]
  /\ UNCHANGED <<goVars, req, envVars>>

UnpauseInDB(c) ==
  /\ cpc[c] = "unpauseDB"
  /\ LET j == req[c].job IN
       Exec([jobs EXCEPT ![j].state = IF @ = "paused" THEN "started" ELSE @])
  /\ cpc' = [cpc EXCEPT ![c] = "unpauseClose"]
  /\ UNCHANGED <<goVars, req, envVars>>

(* Mutant of UnpauseClose: the channel is dropped and not closed.           *)
UnpauseForgets(c) ==
  /\ cpc[c] = "unpauseClose"
  /\ mem' = [mem EXCEPT ![req[c].ref].paused = None]
  /\ Answer(c, "ok")
  /\ UNCHANGED <<dbVars, spawned, active, pc, job, envVars>>

(* close(job.paused) releases the goroutine that received that channel.     *)
UnpauseClose(c) ==
  /\ cpc[c] = "unpauseClose"
  /\ LET s == req[c].ref
         ch == mem[s].paused IN
       mem' = [mem EXCEPT ![s].paused = None,
                          ![s].unpause = IF ch # None /\ @ = ch THEN None ELSE @]
  /\ Answer(c, "ok")
  /\ UNCHANGED <<dbVars, spawned, active, pc, job, envVars>>

(* The client goes away: its request context is cancelled.  BeginTx and     *)
(* ExecContext return an error, an open transaction is rolled back, and     *)
(* CancelJob stops waiting; the send in PauseJob does not look at it.       *)
Disconnect(c) ==
  /\ "disconnect" \in Faults
  /\ \/ /\ cpc[c] \in {"startBegin", "cancelBegin", "cancelWait", "pauseDB",
                       "unpauseDB"}
        /\ UNCHANGED dbVars
     \/ /\ cpc[c] \in {"start", "cancelStuck"}
        /\ Rollback(c)
  /\ Answer(c, "error")
  /\ UNCHANGED <<goVars, envVars>>

-----------------------------------------------------------------------------
(* A job action at work, as seen through ActiveJob.                         *)

Go(s, to) == pc' = [pc EXCEPT ![s] = to]

(* Mutant of End: an outcome for which no final state is chosen.            *)
EndUndecided(s, result) ==
  /\ Go(s, "ending")
  /\ mem' = [mem EXCEPT ![s].unpause = None]
  /\ UNCHANGED <<dbVars, spawned, active, job, reqVars, envVars>>

End(s, result) ==          \* action.Run returns
  /\ Go(s, "ending")
  /\ mem' = [mem EXCEPT ![s].result = result, ![s].unpause = None]
  /\ UNCHANGED <<dbVars, spawned, active, job, reqVars, envVars>>

Senders(s) == {c \in Clients : cpc[c] = "pauseSend" /\ req[c].ref = s}

(* Continue finds neither a cancellation nor a pause: one unit of work.     *)
Work(s) ==
  /\ pc[s] = "run"
  /\ ~mem[s].cancelled
  /\ Senders(s) = {}
  /\ mem[s].pos < Units
  /\ mem[s].prog < MaxProgress
  /\ mem' = [mem EXCEPT ![s].pos = @ + 1, ![s].prog = @ + 1]
  /\ UNCHANGED <<dbVars, spawned, active, pc, job, reqVars, envVars>>

(* Mutants of Checkpoint: the state is written as well; the progress is not. *)
CheckpointAndState(s) ==
  /\ pc[s] = "run"
  /\ mem[s].chk # mem[s].pos
  /\ mem' = [mem EXCEPT ![s].chk = mem[s].pos]
  /\ Exec([jobs EXCEPT ![job[s]].chk = mem[s].pos, ![job[s]].prog = mem[s].prog,
                       ![job[s]].state = "started"])
  /\ UNCHANGED <<spawned, active, pc, job, reqVars, envVars>>

CheckpointAlone(s) ==
  /\ pc[s] = "run"
  /\ mem[s].chk # mem[s].pos
  /\ mem' = [mem EXCEPT ![s].chk = mem[s].pos]
  /\ Exec([jobs EXCEPT ![job[s]].chk = mem[s].pos])
  /\ UNCHANGED <<spawned, active, pc, job, reqVars, envVars>>

(* Checkpoint: kept in memory, and written with the progress unless the     *)
(* last write was less than jobSyncInterval ago.                            *)
Checkpoint(s) ==
  /\ pc[s] = "run"
  /\ mem[s].chk # mem[s].pos
  /\ mem' = [mem EXCEPT ![s].chk = mem[s].pos]
  /\ \/ UNCHANGED dbVars
     \/ Exec([jobs EXCEPT ![job[s]].chk = mem[s].pos, ![job[s]].prog = mem[s].prog])
  /\ UNCHANGED <<spawned, active, pc, job, reqVars, envVars>>

ContinueCancelled(s) ==
  /\ \/ pc[s] = "run" /\ mem[s].pos < Units
     \/ pc[s] = "blocked"
  /\ mem[s].cancelled
  /\ End(s, "aborted")

ContinuePaused(s, c) ==    \* receives the channel the request sends
  /\ pc[s] = "run"
  /\ mem[s].pos < Units
  /\ c \in Senders(s)
  /\ Go(s, "blocked")
  /\ mem' = [mem EXCEPT ![s].unpause = c]
  /\ cpc' = [cpc EXCEPT ![c] = "pauseSet"]
  /\ UNCHANGED <<dbVars, spawned, active, job, req, envVars>>

ContinueUnpaused(s) ==
  /\ pc[s] = "blocked"
  /\ mem[s].unpause = None
  /\ Go(s, "run")
  /\ UNCHANGED <<dbVars, spawned, active, job, mem, reqVars, envVars>>

Succeed(s) ==
  /\ pc[s] = "run"
  /\ mem[s].pos = Units
  /\ End(s, "succeeded")

Fail(s) ==
  /\ "fail" \in Faults
  /\ pc[s] = "run"
  /\ End(s, "failed")

(* A panic skips everything but the deferred functions.                     *)
Panic(s) ==
  /\ "panic" \in Faults
  /\ pc[s] = "run"
  /\ Go(s, "closing")
  /\ panicked' = panicked \cup {job[s]}
  /\ UNCHANGED <<dbVars, spawned, active, job, mem, reqVars, session, repo>>

-----------------------------------------------------------------------------
(* The end of a job: its final state is written and the next job dequeued,  *)
(* in one transaction.                                                      *)

FinalRows(s) ==
  [jobs EXCEPT ![job[s]].state = mem[s].result,
               ![job[s]].prog = mem[s].prog,
               ![job[s]].chk = IF mem[s].result = "succeeded" THEN 0 ELSE mem[s].chk]

RunsHere(row) == row.host = repo.host \/ row.hash \notin Imports

(* Mutants of Queue: any machine will do; interrupted jobs are left.        *)
QueueAnywhere(rows) ==
  {j \in JobIds : rows[j].state \in {"queued", "interrupted"}}

QueueNewOnly(rows) == {j \in JobIds : rows[j].state = "queued" /\ RunsHere(rows[j])}

Queue(rows) ==
  {j \in JobIds : rows[j].state \in {"queued", "interrupted"} /\ RunsHere(rows[j])}

(* ORDER BY start: what is due comes before what is not.                    *)
First(rows, Q) == {j \in Q : rows[j].future => \A k \in Q : rows[k].future}

EndJob(s) ==
  LET rows == FinalRows(s)
      n == mem[s].sess
      pcs == [pc EXCEPT ![s] = "endtx"]
  IN /\ pc[s] = "ending"
     /\ writer = None
     /\ writer' = s
     /\ \/ /\ \/ Queue(rows) = {}
              \/ \E j \in First(rows, Queue(rows)) : Refused(rows, n, j)
           /\ pc' = pcs
           /\ wrows' = rows
           /\ UNCHANGED <<spawned, job, mem>>
        \/ \E j \in First(rows, Queue(rows)) : StartJob(rows, pcs, n, j, None)
     /\ UNCHANGED <<jobs, active, reqVars, envVars>>

(* Mutant of CommitEnd: the transaction is left open.                       *)
EndUncommitted(s) ==
  /\ pc[s] = "endtx"
  /\ spawned = None
  /\ Go(s, "closing")
  /\ UNCHANGED <<dbVars, spawned, active, job, mem, reqVars, envVars>>

CommitEnd(s) ==
  /\ pc[s] = "endtx"
  /\ Commit(s)
  /\ Go(s, "closing")
  /\ UNCHANGED <<spawned, active, job, mem, reqVars, envVars>>

(* Mutant of CloseDone: done is not closed when the job was aborted.        *)
CloseUnlessAborted(s) ==
  /\ pc[s] = "closing"
  /\ Go(s, "closed")
  /\ mem' = [mem EXCEPT ![s].done = mem[s].result # "aborted"]
  /\ UNCHANGED <<dbVars, spawned, active, job, reqVars, envVars>>

CloseDone(s) ==            \* deferred: close(job.done)
  /\ pc[s] = "closing"
  /\ Go(s, "closed")
  /\ mem' = [mem EXCEPT ![s].done = TRUE]
  /\ UNCHANGED <<dbVars, spawned, active, job, reqVars, envVars>>

Unregister(s) ==           \* deferred: delete(tl.activeJobs, job.id)
  /\ pc[s] = "closed"
  /\ Return(s)
  /\ active' = [active EXCEPT ![mem[s].sess][job[s]] = None]
  /\ UNCHANGED <<dbVars, spawned, reqVars, envVars>>

-----------------------------------------------------------------------------
(* Scheduled jobs.                                                         *)

StartTimeComes(j) ==
  /\ jobs[j].future
  /\ Exec([jobs EXCEPT ![j].future = FALSE])
  /\ UNCHANGED <<goVars, reqVars, envVars>>

(* Mutant of Expired: the timer has the context of the request that created *)
(* the job, which has been answered.                                        *)
ExpiredWithAnswer(s) == writer = None

(* The request is answered once its transaction has ended.                  *)
Expired(s) == mem[s].by # None /\ cpc[mem[s].by] # "start"

WaiterGivesUp(s) ==        \* the context of the request has ended
  /\ pc[s] = "waiting"
  /\ Expired(s)
  /\ Return(s)
  /\ UNCHANGED <<dbVars, spawned, active, reqVars, envVars>>

(* Mutant of Unaborted: only that the job still exists.                     *)
StillThere(j) == jobs[j].state # "none"

Unaborted(j) == jobs[j].state # "aborted"

(* The timer fires: nothing is checked but that the job was not aborted.    *)
(* The job was loaded when the timer was set: it was queued, and without a  *)
(* checkpoint, whatever the row has by now.                                 *)
WaiterFires(s) ==
  LET j == job[s] IN
  /\ pc[s] = "waiting"
  /\ ~Expired(s)
  /\ ~jobs[j].future
  /\ writer = None
  /\ \/ /\ ~Unaborted(j)
        /\ Return(s)
        /\ UNCHANGED <<dbVars, spawned>>
     \/ /\ Unaborted(j)
        /\ writer' = s
        /\ Launch(jobs, 0, [pc EXCEPT ![s] = "launching"], mem[s].sess, j)
        /\ UNCHANGED jobs
  /\ UNCHANGED <<active, reqVars, envVars>>

CommitWaiter(s) ==
  /\ pc[s] = "launching"
  /\ Commit(s)
  /\ Return(s)
  /\ UNCHANGED <<spawned, active, reqVars, envVars>>

-----------------------------------------------------------------------------
(* Opening the timeline, and the process going away.                        *)

NoGoroutines == \A s \in Slots : pc[s] = "free"

(* Up to ResumeLimit rows, in the order of start.  The query compares the   *)
(* column name, which is NULL, with the import type: only the host counts.  *)
Resumable(h) == {j \in JobIds : jobs[j].state \in {"started", "queued", "interrupted"}
                                /\ jobs[j].host = h}
Smaller(a, b) == IF a <= b THEN a ELSE b
ToResume(h) ==
  {R \in SUBSET Resumable(h) :
     /\ Cardinality(R) = Smaller(ResumeLimit, Cardinality(Resumable(h)))
     /\ \A j \in R, k \in Resumable(h) \ R : jobs[j].future => jobs[k].future}

OpenTimeline(h, R) ==
  /\ repo.state = "closed"
  /\ session < MaxSessions
  /\ h = repo.host \/ NoGoroutines
  /\ R \in ToResume(h) \cup {{}}      \* {} also when resumeJobs is off
  /\ Exec([j \in JobIds |->
             IF jobs[j].state = "started"
               THEN [jobs[j] EXCEPT !.state = "interrupted"] ELSE jobs[j]])
  /\ session' = session + 1
  /\ repo' = [state |-> "opening", host |-> h, resume |-> R]
  /\ panicked' = {}
  /\ UNCHANGED <<goVars, reqVars>>

OpenStarts(j) ==
  /\ repo.state = "opening"
  /\ j \in First(jobs, repo.resume)
  /\ writer = None
  /\ StartJob(jobs, pc, session, j, None)
  /\ writer' = "opener"
  /\ repo' = [repo EXCEPT !.resume = @ \ {j}]
  /\ UNCHANGED <<jobs, active, reqVars, session, panicked>>

OpenCommits ==
  /\ Commit("opener")
  /\ UNCHANGED <<goVars, reqVars, envVars>>

(* A job that cannot be started makes Open fail; the jobs started before    *)
(* keep running on a Timeline nobody holds.                                 *)
OpenFails(j) ==
  /\ repo.state = "opening"
  /\ j \in First(jobs, repo.resume)
  /\ writer = None
  /\ Refused(jobs, session, j)
  /\ repo' = [repo EXCEPT !.state = "closed", !.resume = {}]
  /\ UNCHANGED <<dbVars, goVars, reqVars, session, panicked>>

OpenReturns ==
  /\ repo.state = "opening"
  /\ repo.resume = {}
  /\ writer # "opener"
  /\ repo' = [repo EXCEPT !.state = "open"]
  /\ UNCHANGED <<dbVars, goVars, reqVars, session, panicked>>

(* The process stops, or Close cancels the Timeline's context and closes    *)
(* the pools: goroutines can no longer write, a transaction is lost.        *)
Stop ==
  /\ "stop" \in Faults
  /\ session < MaxSessions
  /\ wrows' = jobs
  /\ writer' = None
  /\ spawned' = None
  /\ active' = [n \in Sessions |-> [j \in JobIds |-> None]]
  /\ pc' = [s \in Slots |-> "free"]
  /\ mem' = [s \in Slots |-> NoMem]
  /\ cpc' = [c \in Clients |-> "idle"]
  /\ req' = [c \in Clients |-> NoReq]
  /\ repo' = [repo EXCEPT !.state = "closed", !.resume = {}]
  /\ job' = [s \in Slots |-> 1]
  /\ UNCHANGED <<jobs, session, panicked>>

-----------------------------------------------------------------------------
Init ==
  /\ jobs = [j \in JobIds |-> NoRow]
  /\ wrows = jobs
  /\ writer = None
  /\ spawned = None
  /\ active = [n \in Sessions |-> [j \in JobIds |-> None]]
  /\ pc = [s \in Slots |-> "free"]
  /\ job = [s \in Slots |-> 1]
  /\ mem = [s \in Slots |-> NoMem]
  /\ cpc = [c \in Clients |-> "idle"]
  /\ req = [c \in Clients |-> NoReq]
  /\ session = 0
  /\ repo \in [state: {"closed"}, host: Hosts, resume: {{}}]
  /\ panicked = {}

RequestStep(c) ==
  \/ \E j \in JobIds, h \in Imports, kind \in {"create", "schedule"} :
       CreateJob(c, j, h, kind)
  \/ \E j \in JobIds, kind \in {"start", "restart"} : RequestStart(c, j, kind)
  \/ \E j \in JobIds : RequestCancel(c, j)
  \/ \E j \in JobIds : RequestPause(c, j)
  \/ \E j \in JobIds : RequestUnpause(c, j)

HandlerStep(c) ==          \* what a request does once it was made
  \/ CommitRequest(c)
  \/ BeginStart(c)
  \/ CancelWaited(c)
  \/ BeginCancel(c)
  \/ PauseInDB(c)
  \/ PauseSet(c)
  \/ UnpauseRead(c)
  \/ UnpauseInDB(c)
  \/ UnpauseClose(c)

ActionStep(s) ==           \* what a job action does while it runs
  \/ Work(s)
  \/ Checkpoint(s)
  \/ ContinueCancelled(s)
  \/ \E c \in Clients : ContinuePaused(s, c)
  \/ ContinueUnpaused(s)
  \/ Succeed(s)
  \/ CommitChild(s)

GoroutineStep(s) ==        \* the job manager's part of a goroutine
  \/ EndJob(s)
  \/ CommitEnd(s)
  \/ CloseDone(s)
  \/ Unregister(s)
  \/ WaiterGivesUp(s)
  \/ WaiterFires(s)
  \/ CommitWaiter(s)

OpenStep ==
  \/ \E j \in JobIds : OpenStarts(j)
  \/ OpenCommits
  \/ \E j \in JobIds : OpenFails(j)
  \/ OpenReturns

Next ==
  \/ \E c \in Clients : RequestStep(c) \/ HandlerStep(c) \/ Disconnect(c)
  \/ Register
  \/ \E s \in Slots :
       \/ ActionStep(s)
       \/ GoroutineStep(s)
       \/ \E j \in JobIds, kind \in ChildKinds : CreateChild(s, j, kind)
       \/ Fail(s)
       \/ Panic(s)
  \/ \E j \in JobIds : StartTimeComes(j)
  \/ \E h \in Hosts, R \in SUBSET JobIds : OpenTimeline(h, R)
  \/ OpenStep
  \/ Stop

Spec == Init /\ [][Next]_vars

(* The goroutines and handlers the Go scheduler runs keep running, and one  *)
(* that waits for the write connection gets it if it is freed over and over *)
(* (database/sql serves waiting requests); nothing forces a request, a      *)
(* fault, or a client to go away.                                           *)
Fairness ==
  /\ \A c \in Clients : SF_vars(HandlerStep(c))
  /\ \A s \in Slots : SF_vars(ActionStep(s)) /\ SF_vars(GoroutineStep(s))
  /\ WF_vars(Register)
  /\ WF_vars(OpenStep)
  /\ \A j \in JobIds : WF_vars(StartTimeComes(j))

FairSpec == Spec /\ Fairness

-----------------------------------------------------------------------------
(* Properties.                                                             *)

TypeOK ==
  /\ jobs \in [JobIds -> Row]
  /\ wrows \in [JobIds -> Row]
  /\ writer \in Slots \cup Clients \cup {"opener", None}
  /\ spawned \in Slots \cup {None}
  /\ active \in [Sessions -> [JobIds -> Slots \cup {None}]]
  /\ pc \in [Slots -> GoPcs]
  /\ job \in [Slots -> JobIds]
  /\ mem \in [Slots -> Mem]
  /\ cpc \in [Clients -> ReqPcs]
  /\ req \in [Clients -> Req]
  /\ session \in 0..MaxSessions
  /\ repo \in Repo
  /\ panicked \in SUBSET JobIds

(* An action that is executing, or has returned and is not yet recorded.    *)
Live(s) == pc[s] \in {"run", "creating", "blocked", "ending"}

(* A job blocked in Continue can always be released: the channel it waits   *)
(* on is the one UnpauseJob would close, or PauseJob is about to store it.  *)
NoLostUnpause ==
  \A s \in Slots : pc[s] = "blocked" /\ mem[s].unpause # None =>
    LET c == mem[s].unpause IN
      \/ mem[s].paused = c
      \/ cpc[c] = "pauseSet" /\ req[c].ref = s

(* A row that says started has a goroutine working for it, unless that      *)
(* goroutine panicked: otherwise the row would refuse every identical job   *)
(* until the timeline is opened again.                                      *)
StartedHasRunner ==
  repo.state # "closed" =>
    \A j \in JobIds \ panicked : jobs[j].state = "started" =>
      \E s \in Slots : job[s] = j /\ (Live(s) \/ pc[s] = "endtx")

(* An ActiveJob can be reached by the requests as long as its action may    *)
(* run: activeJobs holds it from the commit of its start on.  It holds as   *)
(* long as no job is scheduled: the timer of one that was started before    *)
(* its time starts a second goroutine, which replaces the first.            *)
RunnerIsReachable ==
  \A s \in Slots : Live(s) /\ s # spawned /\ mem[s].sess = session =>
    active[session][job[s]] = s

(* JobPaused is an "intentional suspension (don't auto-resume)"             *)
(* (jobs.go:1203): only a request to start or unpause the job, the end of   *)
(* its goroutine, or the timer of a job that was started before its time    *)
(* (jobs.go:331 asks for nothing but that it was not aborted), takes a row  *)
(* out of the paused state.                                                 *)
PausedStaysPaused ==
  [][\A j \in JobIds : jobs[j].state = "paused" /\ jobs'[j].state # "paused" =>
       \/ \E c \in Clients : /\ req[c].job = j
                             /\ cpc[c] \in {"start", "unpauseDB"}
                             /\ cpc'[c] # cpc[c]
       \/ \E s \in Slots : /\ job[s] = j
                           /\ pc[s] \in {"endtx", "launching"}
                           /\ pc'[s] # pc[s]]_vars

(* A cancelled job does not come back: no timer, dequeuing or resumption    *)
(* starts an aborted job, only a request that names it (jobs.go:330-336).   *)
CancelledIsNotRestarted ==
  [][\A j \in JobIds : jobs[j].state = "aborted" /\ jobs'[j].state = "started" =>
       \E c \in Clients : req[c].job = j /\ cpc[c] = "start"]_vars

(* Import jobs use file paths of one machine: "only run import jobs on the  *)
(* same machine they were configured from" (jobs.go:545).  On another one   *)
(* only a request starts them.                                              *)
ImportsStayHome ==
  [][\A j \in JobIds :
       (/\ jobs[j].state # "started" /\ jobs'[j].state = "started"
        /\ ~RunsHere(jobs'[j])) =>
         \E c \in Clients : req[c].job = j /\ cpc[c] \in {"start", "unpauseDB"}]_vars

(* Progress is shown on resuming: whatever the row's checkpoint says was    *)
(* done, the row's progress counts (jobs.go:776-780).                       *)
ProgressCoversCheckpoint == \A j \in JobIds : jobs[j].chk <= jobs[j].prog

(* Every action that runs comes to an end that is recorded.                 *)
RunnersEnd == \A s \in Slots : Live(s) ~> ~Live(s)

(* CancelJob of an active job returns (jobs.go:901-908).                    *)
ActiveCancelReturns == \A c \in Clients : cpc[c] = "cancelWait" ~> cpc[c] = "idle"

(* All interrupted jobs of this machine are resumed when the timeline is    *)
(* opened with resumeJobs: the first ResumeLimit by openTimeline, the rest  *)
(* one by one as those end.                                                 *)
InterruptedAreResumed ==
  \A j \in JobIds :
    (/\ repo.state = "opening" /\ repo.resume # {}
     /\ jobs[j].state = "interrupted" /\ jobs[j].host = repo.host)
      ~> (jobs[j].state # "interrupted" \/ repo.state = "closed")

(* A job scheduled for later is started when its time has come, as long as  *)
(* the timeline stays open (jobs.go:316-342).                               *)
ScheduledStart ==
  \A j \in JobIds :
    (jobs[j].state = "queued" /\ \E s \in Slots : pc[s] = "waiting" /\ job[s] = j)
      ~> (jobs[j].state # "queued" \/ repo.state = "closed")

-----------------------------------------------------------------------------
(* What comments say and the code does not do.                             *)

(* jobs.go:913-916: a job that is still queued can be kept from running.    *)
CancelReturns == \A c \in Clients : cpc[c] = "cancelBegin" ~> cpc[c] = "idle"
=============================================================================
