-------------------------- MODULE JobManagerProofs --------------------------
(***************************************************************************)
(* The job manager, for any number of jobs, goroutines, requests, sessions  *)
(* and machines.                                                            *)
(*                                                                         *)
(* TypeInv is types.  PauseInv is about the hand-over of pauses.            *)
(* ProgressInv is the inductive invariant behind ProgressCoversCheckpoint.  *)
(* RowInv says what an open transaction may hold that is not committed, and *)
(* on whose behalf: a row changes in the step that commits, while the       *)
(* reason for the change lies in the steps before.  RunnerInv and ActiveInv *)
(* say which goroutines a started row has, and where they are registered.   *)
(* RefInv says what an open transaction holds that the lifecycle has not    *)
(* seen, and that what runs is recorded.                                    *)
(***************************************************************************)
EXTENDS JobRefinement, TLAPS

(* A write to one place of a function; elsewhere it is lost.                *)
LEMMA Update ==
  ASSUME NEW S, NEW T, NEW f \in [S -> T], NEW x, NEW v, x \in S => v \in T
  PROVE  /\ [f EXCEPT ![x] = v] \in [S -> T]
         /\ \A y \in S : [f EXCEPT ![x] = v][y] = IF y = x THEN v ELSE f[y]
OBVIOUS

LEMMA RowType ==
  ASSUME NEW rows \in [JobIds -> Row], NEW j \in JobIds, NEW st \in States
  PROVE  [rows EXCEPT ![j].state = st] \in [JobIds -> Row]
BY DEF Row, States

LEMMA ZeroInBounds == 0 \in 0..Units /\ 0 \in 0..MaxProgress
BY JobsAssumption DEF MaxProgress

LEMMA NoMemType == NoMem \in Mem
BY ZeroInBounds DEF NoMem, Mem

LEMMA ActiveJobType ==
  ASSUME NEW n \in Sessions \cup {0}, NEW row \in Row, NEW chk \in 0..Units
  PROVE  ActiveJob(n, row, chk) \in Mem
<1>1. ASSUME NEW m \in Mem, NEW p \in 0..Units, NEW q \in 0..MaxProgress
      PROVE  [m EXCEPT !.sess = n, !.pos = p, !.prog = q] \in Mem
  BY DEF Mem
<1>2. row.prog \in 0..MaxProgress
  BY DEF Row
<1> QED
  BY <1>1, <1>2, NoMemType DEF ActiveJob

(* A job starts from the checkpoint of its row, or from none.               *)
Launched(rows, pcs, n, j) == \E chk \in {0, rows[j].chk} : Launch(rows, chk, pcs, n, j)

LEMMA LaunchType ==
  ASSUME TypeOK,
         NEW rows \in [JobIds -> Row], NEW pcs \in [Slots -> GoPcs],
         NEW n \in Sessions \cup {0}, NEW j \in JobIds,
         Launched(rows, pcs, n, j)
  PROVE  /\ pc' \in [Slots -> GoPcs]
         /\ job' \in [Slots -> JobIds]
         /\ mem' \in [Slots -> Mem]
         /\ spawned' \in Slots \cup {None}
         /\ wrows' \in [JobIds -> Row]
<1>1. PICK s \in FreeSlots, chk \in {0, rows[j].chk} :
        /\ pc' = [pcs EXCEPT ![s] = "run"]
        /\ job' = [job EXCEPT ![s] = j]
        /\ mem' = [mem EXCEPT ![s] = ActiveJob(n, rows[j], chk)]
        /\ spawned' = s
        /\ wrows' = [rows EXCEPT ![j].state = "started"]
  BY DEF Launched, Launch
<1>2. s \in Slots
  BY DEF FreeSlots
<1>3. ActiveJob(n, rows[j], chk) \in Mem
  <2>1. chk \in 0..Units
    BY ZeroInBounds DEF Row
  <2> QED
    BY <2>1, ActiveJobType
<1>4. wrows' \in [JobIds -> Row]
  BY <1>1, RowType DEF States
<1> QED
  BY <1>1, <1>2, <1>3, <1>4 DEF TypeOK, GoPcs

LEMMA DeferType ==
  ASSUME TypeOK,
         NEW rows \in [JobIds -> Row], NEW pcs \in [Slots -> GoPcs],
         NEW n \in Sessions \cup {0}, NEW j \in JobIds,
         NEW by \in Clients \cup {None},
         Defer(rows, pcs, n, j, by)
  PROVE  /\ pc' \in [Slots -> GoPcs]
         /\ job' \in [Slots -> JobIds]
         /\ mem' \in [Slots -> Mem]
         /\ spawned' \in Slots \cup {None}
         /\ wrows' \in [JobIds -> Row]
<1>1. PICK s \in FreeSlots :
        /\ pc' = [pcs EXCEPT ![s] = "waiting"]
        /\ job' = [job EXCEPT ![s] = j]
        /\ mem' = [mem EXCEPT ![s] = [NoMem EXCEPT !.sess = n, !.by = by]]
        /\ wrows' = rows
        /\ UNCHANGED spawned
  BY DEF Defer
<1>2. s \in Slots
  BY DEF FreeSlots
<1>3. [NoMem EXCEPT !.sess = n, !.by = by] \in Mem
  <2>1. \A m \in Mem : [m EXCEPT !.sess = n, !.by = by] \in Mem
    BY DEF Mem
  <2> QED
    BY <2>1, NoMemType
<1> QED
  BY <1>1, <1>2, <1>3 DEF TypeOK, GoPcs

LEMMA StartJobType ==
  ASSUME TypeOK,
         NEW rows \in [JobIds -> Row], NEW pcs \in [Slots -> GoPcs],
         NEW n \in Sessions \cup {0}, NEW j \in JobIds,
         NEW by \in Clients \cup {None},
         StartJob(rows, pcs, n, j, by)
  PROVE  /\ pc' \in [Slots -> GoPcs]
         /\ job' \in [Slots -> JobIds]
         /\ mem' \in [Slots -> Mem]
         /\ spawned' \in Slots \cup {None}
         /\ wrows' \in [JobIds -> Row]
BY LaunchType, DeferType DEF StartJob, Launched

-----------------------------------------------------------------------------
(* The inductive invariant behind TypeOK: a timeline that is not closed has *)
(* a session, a request under way names a job, and an action that has       *)
(* returned has a result for the row.                                       *)
SessionOK == repo.state # "closed" => session \in Sessions
RequestsNameJobs == \A c \in Clients : cpc[c] # "idle" => req[c].job \in JobIds
EndingHasResult == \A s \in Slots : pc[s] = "ending" => mem[s].result \in Ended

TypeInv == TypeOK /\ SessionOK /\ RequestsNameJobs /\ EndingHasResult

LEMMA TypeInit == Init => TypeInv
<1> SUFFICES ASSUME Init PROVE TypeInv
  OBVIOUS
<1>1. NoRow \in Row
  BY ZeroInBounds DEF NoRow, Row
<1>2. NoReq \in Req
  BY DEF NoReq, Req
<1>3. 1 \in JobIds /\ session \in 0..MaxSessions
  BY JobsAssumption DEF Init, JobIds
<1>4. TypeOK
  BY <1>1, <1>2, <1>3, NoMemType DEF Init, TypeOK, GoPcs, ReqPcs, Repo
<1> QED
  BY <1>4 DEF Init, TypeInv, SessionOK, RequestsNameJobs, EndingHasResult

(* What StartJob does to the goroutines that exist already.                 *)
LEMMA StartJobKeeps ==
  ASSUME TypeOK,
         NEW rows \in [JobIds -> Row], NEW pcs \in [Slots -> GoPcs],
         NEW n \in Sessions \cup {0}, NEW j \in JobIds, NEW by,
         StartJob(rows, pcs, n, j, by)
  PROVE  \E s \in FreeSlots :
           /\ pc'[s] \in {"run", "waiting"}
           /\ \A t \in Slots \ {s} : pc'[t] = pcs[t] /\ mem'[t] = mem[t] /\ job'[t] = job[t]
<1>1. FreeSlots \subseteq Slots
  BY DEF FreeSlots
<1>2. CASE Launched(rows, pcs, n, j)
  <2>1. PICK s \in FreeSlots, chk \in {0, rows[j].chk} :
          /\ pc' = [pcs EXCEPT ![s] = "run"]
          /\ job' = [job EXCEPT ![s] = j]
          /\ mem' = [mem EXCEPT ![s] = ActiveJob(n, rows[j], chk)]
    BY <1>2 DEF Launched, Launch
  <2> WITNESS s \in FreeSlots
  <2> QED
    BY <1>1, <2>1 DEF TypeOK
<1>3. CASE Defer(rows, pcs, n, j, by)
  <2>1. PICK s \in FreeSlots :
          /\ pc' = [pcs EXCEPT ![s] = "waiting"]
          /\ job' = [job EXCEPT ![s] = j]
          /\ mem' = [mem EXCEPT ![s] = [NoMem EXCEPT !.sess = n, !.by = by]]
    BY <1>3 DEF Defer
  <2> WITNESS s \in FreeSlots
  <2> QED
    BY <1>1, <2>1 DEF TypeOK
<1> QED
  BY <1>2, <1>3 DEF StartJob, Launched

LEMMA AnswerType ==
  ASSUME TypeOK, RequestsNameJobs, NEW c \in Clients,
         NEW reply \in {"ok", "error"}, Answer(c, reply)
  PROVE  /\ cpc' \in [Clients -> ReqPcs]
         /\ req' \in [Clients -> Req]
         /\ RequestsNameJobs'
<1>1. NoReq \in Req /\ \A op \in RequestKinds \cup {None} : Answered(op, reply) \in Req
  BY DEF NoReq, Req, Answered
<1>2. req[c].op \in RequestKinds \cup {None}
  BY DEF TypeOK, Req
<1> QED
  BY <1>1, <1>2 DEF Answer, TypeOK, ReqPcs, RequestsNameJobs

LEMMA AskType ==
  ASSUME TypeOK, RequestsNameJobs, NEW c \in Clients,
         NEW kind, NEW j \in JobIds, NEW ref \in Slots \cup {None},
         NEW next \in ReqPcs, Ask(c, kind, j, ref, next)
  PROVE  /\ cpc' \in [Clients -> ReqPcs]
         /\ req' \in [Clients -> Req]
         /\ RequestsNameJobs'
BY JobsAssumption DEF Ask, TypeOK, Req, ReqPcs, RequestsNameJobs

LEMMA RejectType ==
  ASSUME TypeOK, RequestsNameJobs, NEW c \in Clients, Idle(c), NEW kind,
         Reject(c, kind)
  PROVE  /\ cpc' \in [Clients -> ReqPcs]
         /\ req' \in [Clients -> Req]
         /\ RequestsNameJobs'
<1>1. Answered(kind, "error") \in Req
  BY JobsAssumption DEF Reject, NoReq, Req, Answered
<1> QED
  BY <1>1 DEF Reject, TypeOK, RequestsNameJobs, Idle

LEMMA InsertType ==
  ASSUME TypeOK, NEW j \in JobIds, NEW h \in Hashes, NEW future \in BOOLEAN
  PROVE  Insert(j, h, future) \in [JobIds -> Row]
<1>1. NoRow \in Row
  BY ZeroInBounds DEF NoRow, Row
<1>2. \A row \in Row, host \in Hosts :
        [row EXCEPT !.state = "queued", !.hash = h, !.host = host, !.future = future] \in Row
  BY DEF Row, States
<1>3. repo.host \in Hosts
  BY DEF TypeOK, Repo
<1> QED
  BY <1>1, <1>2, <1>3 DEF Insert, TypeOK

(* Writes of the write connection.                                          *)
LEMMA CommitType ==
  ASSUME TypeOK, NEW owner, Commit(owner)
  PROVE  jobs' \in [JobIds -> Row] /\ wrows' \in [JobIds -> Row] /\ writer' = None
BY DEF Commit, TypeOK

LEMMA ReturnType ==
  ASSUME TypeOK, EndingHasResult, NEW s \in Slots, Return(s)
  PROVE  /\ pc' \in [Slots -> GoPcs]
         /\ job' \in [Slots -> JobIds]
         /\ mem' \in [Slots -> Mem]
         /\ EndingHasResult'
<1>1. 1 \in JobIds
  BY JobsAssumption DEF JobIds
<1>2. \A d \in BOOLEAN : [NoMem EXCEPT !.done = d] \in Mem
  <2>1. \A m \in Mem, d \in BOOLEAN : [m EXCEPT !.done = d] \in Mem
    BY DEF Mem
  <2> QED
    BY <2>1, NoMemType
<1>3. pc' = [pc EXCEPT ![s] = "free"] /\ pc' \in [Slots -> GoPcs]
  BY DEF Return, TypeOK, GoPcs
<1>4. CASE s = spawned
  BY <1>3, <1>4 DEF Return, TypeOK, EndingHasResult
<1>5. CASE s # spawned
  <2> DEFINE d == mem[s].done /\ \E c \in Clients : req[c].ref = s
  <2>1. job' = [job EXCEPT ![s] = 1] /\ mem' = [mem EXCEPT ![s] = [NoMem EXCEPT !.done = d]]
    BY <1>5 DEF Return
  <2>2. [NoMem EXCEPT !.done = d] \in Mem
    BY <1>2
  <2> QED
    BY <1>1, <1>3, <2>1, <2>2 DEF TypeOK, EndingHasResult
<1> QED
  BY <1>4, <1>5

(* The actions, in the order of Next.                                       *)
LEMMA CreateJobType ==
  ASSUME TypeInv, NEW c \in Clients, NEW j \in JobIds, NEW h \in Imports,
         NEW kind, CreateJob(c, j, h, kind)
  PROVE  TypeInv'
<1> USE DEF TypeInv
<1>1. CASE Reject(c, kind) /\ UNCHANGED <<dbVars, goVars, envVars>>
  <2>1. Idle(c)
    BY DEF CreateJob
  <2> QED
    BY <1>1, <2>1, RejectType DEF dbVars, goVars, envVars, TypeOK, SessionOK, EndingHasResult
<1>2. CASE /\ StartJob(Insert(j, h, kind = "schedule"), pc, session, j, None)
           /\ writer' = c
           /\ Ask(c, kind, j, None, "create")
           /\ UNCHANGED <<jobs, active, envVars>>
  <2>1. session \in Sessions \cup {0} /\ pc \in [Slots -> GoPcs]
    BY JobsAssumption DEF TypeOK, Sessions
  <2>2. Insert(j, h, kind = "schedule") \in [JobIds -> Row]
    BY InsertType DEF Hashes
  <2>3. /\ pc' \in [Slots -> GoPcs]
        /\ job' \in [Slots -> JobIds]
        /\ mem' \in [Slots -> Mem]
        /\ spawned' \in Slots \cup {None}
        /\ wrows' \in [JobIds -> Row]
    BY <1>2, <2>1, <2>2, StartJobType
  <2>4. EndingHasResult'
    BY <1>2, <2>1, <2>2, StartJobKeeps DEF EndingHasResult
  <2>5. /\ cpc' \in [Clients -> ReqPcs]
        /\ req' \in [Clients -> Req]
        /\ RequestsNameJobs'
    BY <1>2, AskType DEF ReqPcs
  <2> QED
    BY <1>2, <2>3, <2>4, <2>5 DEF TypeOK, SessionOK, envVars
<1> QED
  BY <1>1, <1>2 DEF CreateJob, dbVars, goVars, envVars

(* The actions of requests that answer or ask, and touch no goroutine.      *)
LEMMA RequestType ==
  ASSUME TypeInv, NEW c \in Clients,
         \/ \E j \in JobIds, kind \in {"start", "restart"} : RequestStart(c, j, kind)
         \/ \E j \in JobIds : RequestPause(c, j)
         \/ \E j \in JobIds : RequestUnpause(c, j)
         \/ CancelWaited(c)
         \/ UnpauseRead(c)
  PROVE  TypeInv'
<1> USE DEF TypeInv
<1>1. ASSUME NEW j \in JobIds, IsOpen
      PROVE  active[session][j] \in Slots \cup {None}
  BY <1>1 DEF IsOpen, SessionOK, TypeOK
<1>2. CASE \E j \in JobIds, kind \in {"start", "restart"} : RequestStart(c, j, kind)
  <2>1. PICK j \in JobIds, kind \in {"start", "restart"} : RequestStart(c, j, kind)
    BY <1>2
  <2>2. cpc' \in [Clients -> ReqPcs] /\ req' \in [Clients -> Req] /\ RequestsNameJobs'
    BY <2>1, AskType DEF RequestStart, ReqPcs
  <2> QED
    BY <2>1, <2>2 DEF RequestStart, dbVars, goVars, envVars, TypeOK, SessionOK, EndingHasResult
<1>3. CASE \E j \in JobIds : RequestPause(c, j)
  <2>1. PICK j \in JobIds : RequestPause(c, j)
    BY <1>3
  <2>2. cpc' \in [Clients -> ReqPcs] /\ req' \in [Clients -> Req] /\ RequestsNameJobs'
    BY <1>1, <2>1, AskType, RejectType DEF RequestPause, ReqPcs, Idle
  <2> QED
    BY <2>1, <2>2 DEF RequestPause, dbVars, goVars, envVars, TypeOK, SessionOK, EndingHasResult
<1>4. CASE \E j \in JobIds : RequestUnpause(c, j)
  <2>1. PICK j \in JobIds : RequestUnpause(c, j)
    BY <1>4
  <2>2. cpc' \in [Clients -> ReqPcs] /\ req' \in [Clients -> Req] /\ RequestsNameJobs'
    BY <1>1, <2>1, AskType DEF RequestUnpause, ReqPcs, Idle
  <2> QED
    BY <2>1, <2>2 DEF RequestUnpause, dbVars, goVars, envVars, TypeOK, SessionOK, EndingHasResult
<1>5. CASE CancelWaited(c)
  <2>1. cpc' \in [Clients -> ReqPcs] /\ req' \in [Clients -> Req] /\ RequestsNameJobs'
    BY <1>5, AnswerType DEF CancelWaited
  <2> QED
    BY <1>5, <2>1 DEF CancelWaited, dbVars, goVars, envVars, TypeOK, SessionOK, EndingHasResult
<1>6. CASE UnpauseRead(c)
  <2>1. CASE cpc' = [cpc EXCEPT ![c] = "startBegin"] /\ UNCHANGED req
    BY <1>6, <2>1
       DEF UnpauseRead, dbVars, goVars, envVars, TypeOK, SessionOK, EndingHasResult,
           RequestsNameJobs, ReqPcs
  <2>2. CASE Answer(c, "error")
    <3>1. cpc' \in [Clients -> ReqPcs] /\ req' \in [Clients -> Req] /\ RequestsNameJobs'
      BY <2>2, AnswerType
    <3> QED
      BY <1>6, <3>1 DEF UnpauseRead, dbVars, goVars, envVars, TypeOK, SessionOK, EndingHasResult
  <2> QED
    BY <1>6, <2>1, <2>2 DEF UnpauseRead
<1> QED
  BY <1>2, <1>3, <1>4, <1>5, <1>6

LEMMA RequestCancelType ==
  ASSUME TypeInv, NEW c \in Clients, NEW j \in JobIds, RequestCancel(c, j)
  PROVE  TypeInv'
<1> USE DEF TypeInv
<1>1. active[session][j] \in Slots \cup {None}
  BY DEF RequestCancel, Idle, IsOpen, SessionOK, TypeOK
<1>2. cpc' \in [Clients -> ReqPcs] /\ req' \in [Clients -> Req] /\ RequestsNameJobs'
  BY <1>1, AskType DEF RequestCancel, ReqPcs
<1>3. mem' \in [Slots -> Mem] /\ \A s \in Slots : mem'[s].result = mem[s].result
  <2> DEFINE t == active[session][j]
             new == [mem[t] EXCEPT !.cancelled = TRUE]
  <2>1. UNCHANGED mem \/ mem' = [mem EXCEPT ![t] = new]
    BY <1>1 DEF RequestCancel
  <2>2. mem \in [Slots -> Mem]
    BY DEF TypeOK
  <2>3. ASSUME t \in Slots
        PROVE  new \in Mem /\ new.result = mem[t].result
    <3>1. mem[t] \in Mem
      BY <2>2, <2>3
    <3> QED
      BY <3>1 DEF Mem
  <2> HIDE DEF new
  <2> QED
    BY <2>1, <2>2, <2>3, Update
<1> QED
  BY <1>2, <1>3 DEF RequestCancel, dbVars, envVars, TypeOK, SessionOK, EndingHasResult

LEMMA BeginStartType ==
  ASSUME TypeInv, NEW c \in Clients, BeginStart(c)
  PROVE  TypeInv'
<1> USE DEF TypeInv
<1> DEFINE j == req[c].job
           rows == IF req[c].op = "restart"
                     THEN [jobs EXCEPT ![j].chk = 0, ![j].prog = 0] ELSE jobs
<1>1. j \in JobIds /\ session \in Sessions \cup {0} /\ pc \in [Slots -> GoPcs]
  BY JobsAssumption DEF BeginStart, RequestsNameJobs, TypeOK, Sessions
<1>2. rows \in [JobIds -> Row]
  <2>1. \A row \in Row : [row EXCEPT !.chk = 0, !.prog = 0] \in Row
    BY ZeroInBounds DEF Row
  <2> QED
    BY <1>1, <2>1 DEF TypeOK
<1>3. CASE Answer(c, "error") /\ UNCHANGED <<dbVars, goVars, envVars>>
  <2>1. cpc' \in [Clients -> ReqPcs] /\ req' \in [Clients -> Req] /\ RequestsNameJobs'
    BY <1>3, AnswerType
  <2> QED
    BY <1>3, <2>1 DEF dbVars, goVars, envVars, TypeOK, SessionOK, EndingHasResult
<1>4. CASE /\ StartJob(rows, pc, session, j, c)
           /\ writer' = c
           /\ cpc' = [cpc EXCEPT ![c] = "start"]
           /\ UNCHANGED <<jobs, active, req, envVars>>
  <2>1. /\ pc' \in [Slots -> GoPcs]
        /\ job' \in [Slots -> JobIds]
        /\ mem' \in [Slots -> Mem]
        /\ spawned' \in Slots \cup {None}
        /\ wrows' \in [JobIds -> Row]
    BY <1>1, <1>2, <1>4, StartJobType
  <2>2. EndingHasResult'
    <3>1. PICK s \in FreeSlots :
             /\ pc'[s] \in {"run", "waiting"}
             /\ \A t \in Slots \ {s} : pc'[t] = pc[t] /\ mem'[t] = mem[t] /\ job'[t] = job[t]
      <4> HIDE DEF j, rows
      <4>1. TypeOK
        OBVIOUS
      <4> QED
        BY <1>1, <1>2, <1>4, <4>1, StartJobKeeps
    <3>2. ASSUME NEW t \in Slots, pc'[t] = "ending"
          PROVE  mem'[t].result \in Ended
      <4>1. t # s
        BY <3>1, <3>2
      <4>2. pc[t] = "ending" /\ mem'[t] = mem[t]
        BY <3>1, <3>2, <4>1
      <4> QED
        BY <4>2 DEF EndingHasResult
    <3> QED
      BY <3>2 DEF EndingHasResult
  <2>3. cpc' \in [Clients -> ReqPcs] /\ RequestsNameJobs'
    BY <1>1, <1>4 DEF TypeOK, ReqPcs, RequestsNameJobs
  <2> QED
    BY <1>4, <2>1, <2>2, <2>3 DEF TypeOK, SessionOK, envVars
<1> QED
  BY <1>3, <1>4 DEF BeginStart

(* The other steps of requests.                                             *)
LEMMA HandlerType ==
  ASSUME TypeInv, NEW c \in Clients, HandlerStep(c) \/ Disconnect(c)
  PROVE  TypeInv'
<1> USE DEF TypeInv
<1>1. CASE CommitRequest(c)
  <2>1. cpc' \in [Clients -> ReqPcs] /\ req' \in [Clients -> Req] /\ RequestsNameJobs'
    BY <1>1, AnswerType DEF CommitRequest
  <2>2. jobs' \in [JobIds -> Row] /\ wrows' \in [JobIds -> Row] /\ writer' = None
    BY <1>1, CommitType DEF CommitRequest
  <2> QED
    BY <1>1, <2>1, <2>2 DEF CommitRequest, goVars, envVars, TypeOK, SessionOK, EndingHasResult
<1>2. CASE BeginCancel(c)
  <2>1. CASE Begin(c, jobs) /\ cpc' = [cpc EXCEPT ![c] = "cancelStuck"] /\ UNCHANGED req
    BY <1>2, <2>1
       DEF BeginCancel, Begin, goVars, envVars, TypeOK, SessionOK, EndingHasResult,
           RequestsNameJobs, ReqPcs
  <2>2. CASE Answer(c, "error") /\ UNCHANGED dbVars
    <3>1. cpc' \in [Clients -> ReqPcs] /\ req' \in [Clients -> Req] /\ RequestsNameJobs'
      BY <2>2, AnswerType
    <3> QED
      BY <1>2, <2>2, <3>1
         DEF BeginCancel, dbVars, goVars, envVars, TypeOK, SessionOK, EndingHasResult
  <2> QED
    BY <1>2, <2>1, <2>2 DEF BeginCancel
<1>3. CASE PauseInDB(c) \/ UnpauseInDB(c)
  <2>1. jobs' \in [JobIds -> Row] /\ wrows' \in [JobIds -> Row] /\ writer' = writer
    <3>1. PICK st \in States :
            Exec([jobs EXCEPT ![req[c].job].state = IF @ = st THEN "paused" ELSE @])
              \/ Exec([jobs EXCEPT ![req[c].job].state = IF @ = st THEN "started" ELSE @])
      BY <1>3 DEF PauseInDB, UnpauseInDB, States
    <3>2. ASSUME NEW new \in {"paused", "started"}
          PROVE  [jobs EXCEPT ![req[c].job].state = IF @ = st THEN new ELSE @]
                   \in [JobIds -> Row]
      <4> DEFINE j == req[c].job
      <4>1. \A row \in Row : [row EXCEPT !.state = IF @ = st THEN new ELSE @] \in Row
        BY DEF Row, States
      <4>2. jobs \in [JobIds -> Row] /\ (j \in JobIds => jobs[j] \in Row)
        BY DEF TypeOK
      <4> HIDE DEF j
      <4> QED
        BY <4>1, <4>2, Update DEF j
    <3>3. writer' = writer /\ jobs' = wrows' /\ jobs' \in [JobIds -> Row]
      BY <3>1, <3>2 DEF Exec
    <3> QED
      BY <3>3
  <2> QED
    BY <1>3, <2>1
       DEF PauseInDB, UnpauseInDB, goVars, envVars, TypeOK, SessionOK, EndingHasResult,
           RequestsNameJobs, ReqPcs
<1>4. CASE PauseSet(c) \/ UnpauseClose(c)
  <2>1. cpc' \in [Clients -> ReqPcs] /\ req' \in [Clients -> Req] /\ RequestsNameJobs'
    BY <1>4, AnswerType DEF PauseSet, UnpauseClose
  <2>2. mem' \in [Slots -> Mem] /\ \A s \in Slots : mem'[s].result = mem[s].result
    <3> DEFINE s == req[c].ref
               set == [mem[s] EXCEPT !.paused = IF @ = None THEN c ELSE @]
               clear == [mem[s] EXCEPT !.paused = None,
                           !.unpause = IF mem[s].paused # None /\ @ = mem[s].paused
                                         THEN None ELSE @]
    <3>1. mem' = [mem EXCEPT ![s] = set] \/ mem' = [mem EXCEPT ![s] = clear]
      BY <1>4 DEF PauseSet, UnpauseClose
    <3>2. mem \in [Slots -> Mem]
      BY DEF TypeOK
    <3>3. ASSUME s \in Slots
          PROVE  /\ set \in Mem /\ set.result = mem[s].result
                 /\ clear \in Mem /\ clear.result = mem[s].result
      <4>1. mem[s] \in Mem
        BY <3>2, <3>3
      <4> QED
        BY <4>1 DEF Mem
    <3> HIDE DEF set, clear
    <3> QED
      BY <3>1, <3>2, <3>3, Update
  <2> QED
    BY <1>4, <2>1, <2>2
       DEF PauseSet, UnpauseClose, dbVars, envVars, TypeOK, SessionOK, EndingHasResult
<1>5. CASE Disconnect(c)
  <2>1. cpc' \in [Clients -> ReqPcs] /\ req' \in [Clients -> Req] /\ RequestsNameJobs'
    BY <1>5, AnswerType DEF Disconnect
  <2>2. jobs' = jobs /\ wrows' \in [JobIds -> Row] /\ writer' \in {writer, None}
    BY <1>5 DEF Disconnect, Rollback, dbVars, TypeOK
  <2> QED
    BY <1>5, <2>1, <2>2 DEF Disconnect, goVars, envVars, TypeOK, SessionOK, EndingHasResult
<1> QED
  BY <1>1, <1>2, <1>3, <1>4, <1>5, BeginStartType, RequestType DEF HandlerStep

LEMMA RegisterType == TypeInv /\ Register => TypeInv'
<1> SUFFICES ASSUME TypeInv, Register PROVE TypeInv'
  OBVIOUS
<1>1. active' \in [Sessions -> [JobIds -> Slots \cup {None}]]
  <2> DEFINE n == mem[spawned].sess
             new == [active[n] EXCEPT ![job[spawned]] = spawned]
  <2>1. active' = [active EXCEPT ![n] = new] /\ spawned \in Slots
    BY DEF Register, TypeInv, TypeOK
  <2>2. active \in [Sessions -> [JobIds -> Slots \cup {None}]]
    BY DEF TypeInv, TypeOK
  <2>3. n \in Sessions => new \in [JobIds -> Slots \cup {None}]
    BY <2>1, <2>2
  <2> HIDE DEF n, new
  <2> QED
    BY <2>1, <2>2, <2>3
<1> QED
  BY <1>1
     DEF Register, dbVars, reqVars, envVars, TypeInv, TypeOK, SessionOK,
         RequestsNameJobs, EndingHasResult

(* A goroutine moves on and changes its ActiveJob.                          *)
LEMMA MemStepType ==
  ASSUME TypeOK, EndingHasResult,
         NEW s \in Slots, NEW to \in GoPcs, NEW new \in Mem,
         pc' = [pc EXCEPT ![s] = to],
         mem' = [mem EXCEPT ![s] = new],
         to = "ending" => new.result \in Ended
  PROVE  /\ pc' \in [Slots -> GoPcs]
         /\ mem' \in [Slots -> Mem]
         /\ EndingHasResult'
<1>1. pc \in [Slots -> GoPcs] /\ mem \in [Slots -> Mem]
  BY DEF TypeOK
<1> QED
  BY <1>1 DEF EndingHasResult

LEMMA EndType ==
  ASSUME TypeInv, NEW s \in Slots, NEW result \in Ended, End(s, result)
  PROVE  TypeInv'
<1> DEFINE new == [mem[s] EXCEPT !.result = result, !.unpause = None]
<1>1. mem[s] \in Mem
  BY DEF TypeInv, TypeOK
<1>2. new \in Mem /\ new.result = result
  BY <1>1 DEF Mem
<1>3. pc' = [pc EXCEPT ![s] = "ending"] /\ mem' = [mem EXCEPT ![s] = new]
  BY DEF End, Go
<1> HIDE DEF new
<1>4. pc' \in [Slots -> GoPcs] /\ mem' \in [Slots -> Mem] /\ EndingHasResult'
  BY <1>2, <1>3, MemStepType DEF GoPcs, TypeInv
<1> QED
  BY <1>4 DEF End, dbVars, reqVars, envVars, TypeInv, TypeOK, SessionOK, RequestsNameJobs

LEMMA ActionType ==
  ASSUME TypeInv, NEW s \in Slots, ActionStep(s) \/ Fail(s) \/ Panic(s)
  PROVE  TypeInv'
<1> USE DEF TypeInv
<1>1. mem[s] \in Mem /\ mem \in [Slots -> Mem] /\ job[s] \in JobIds
  BY DEF TypeOK
<1>2. CASE Work(s)
  <2> DEFINE new == [mem[s] EXCEPT !.pos = @ + 1, !.prog = @ + 1]
  <2>1. /\ mem[s].pos \in 0..Units /\ mem[s].pos < Units
        /\ mem[s].prog \in 0..MaxProgress /\ mem[s].prog < MaxProgress
    BY <1>1, <1>2 DEF Work, Mem
  <2>2. mem[s].pos + 1 \in 0..Units /\ mem[s].prog + 1 \in 0..MaxProgress
    BY <2>1, JobsAssumption DEF MaxProgress
  <2>3. new \in Mem
    BY <1>1, <2>2 DEF Mem
  <2>4. mem' = [mem EXCEPT ![s] = new] /\ pc' = [pc EXCEPT ![s] = "run"]
    BY <1>2 DEF Work, TypeOK
  <2> HIDE DEF new
  <2>5. pc' \in [Slots -> GoPcs] /\ mem' \in [Slots -> Mem] /\ EndingHasResult'
    BY <2>3, <2>4, MemStepType DEF GoPcs
  <2> QED
    BY <1>2, <2>5 DEF Work, dbVars, reqVars, envVars, TypeOK, SessionOK, RequestsNameJobs
<1>3. CASE Checkpoint(s)
  <2> DEFINE new == [mem[s] EXCEPT !.chk = mem[s].pos]
             row == [jobs[job[s]] EXCEPT !.chk = mem[s].pos, !.prog = mem[s].prog]
  <2>1. new \in Mem
    BY <1>1 DEF Mem
  <2>2. row \in Row
    <3>1. mem[s].pos \in 0..Units /\ mem[s].prog \in 0..MaxProgress
      BY <1>1 DEF Mem
    <3>2. jobs[job[s]] \in Row
      BY <1>1 DEF TypeOK
    <3> QED
      BY <3>1, <3>2 DEF Row
  <2>3. /\ mem' = [mem EXCEPT ![s] = new]
        /\ UNCHANGED dbVars \/ Exec([jobs EXCEPT ![job[s]] = row])
        /\ pc' = [pc EXCEPT ![s] = "run"]
    BY <1>3 DEF Checkpoint, TypeOK
  <2> HIDE DEF new, row
  <2>4. [jobs EXCEPT ![job[s]] = row] \in [JobIds -> Row]
    BY <2>2 DEF TypeOK
  <2>5. jobs' \in [JobIds -> Row] /\ wrows' \in [JobIds -> Row] /\ writer' = writer
    BY <2>3, <2>4 DEF Exec, dbVars, TypeOK
  <2>6. pc' \in [Slots -> GoPcs] /\ mem' \in [Slots -> Mem] /\ EndingHasResult'
    BY <2>1, <2>3, MemStepType DEF GoPcs
  <2> QED
    BY <1>3, <2>5, <2>6
       DEF Checkpoint, reqVars, envVars, TypeOK, SessionOK, RequestsNameJobs
<1>4. CASE ContinueCancelled(s) \/ Succeed(s) \/ Fail(s)
  BY <1>4, EndType DEF ContinueCancelled, Succeed, Fail, Ended
<1>5. CASE \E c \in Clients : ContinuePaused(s, c)
  <2>1. PICK c \in Clients : ContinuePaused(s, c)
    BY <1>5
  <2> DEFINE new == [mem[s] EXCEPT !.unpause = c]
  <2>2. new \in Mem
    BY <1>1 DEF Mem
  <2>3. mem' = [mem EXCEPT ![s] = new] /\ pc' = [pc EXCEPT ![s] = "blocked"]
    BY <2>1 DEF ContinuePaused, Go
  <2>4. cpc[c] = "pauseSend" /\ cpc' = [cpc EXCEPT ![c] = "pauseSet"]
    BY <2>1 DEF ContinuePaused, Senders
  <2> HIDE DEF new
  <2>5. pc' \in [Slots -> GoPcs] /\ mem' \in [Slots -> Mem] /\ EndingHasResult'
    BY <2>2, <2>3, MemStepType DEF GoPcs
  <2>6. cpc' \in [Clients -> ReqPcs]
    BY <2>4 DEF TypeOK, ReqPcs
  <2> QED
    BY <2>1, <2>4, <2>5, <2>6
       DEF ContinuePaused, dbVars, envVars, TypeOK, SessionOK, RequestsNameJobs
<1>6. CASE ContinueUnpaused(s)
  BY <1>6
     DEF ContinueUnpaused, Go, dbVars, reqVars, envVars, TypeOK, SessionOK,
         RequestsNameJobs, EndingHasResult, GoPcs
<1>7. CASE CommitChild(s)
  <2>1. jobs' \in [JobIds -> Row] /\ wrows' \in [JobIds -> Row] /\ writer' = None
    BY <1>7, CommitType DEF CommitChild
  <2> QED
    BY <1>7, <2>1
       DEF CommitChild, reqVars, envVars, TypeOK, SessionOK, RequestsNameJobs,
           EndingHasResult, GoPcs
<1>8. CASE Panic(s)
  BY <1>1, <1>8
     DEF Panic, Go, dbVars, reqVars, TypeOK, SessionOK, RequestsNameJobs,
         EndingHasResult, GoPcs
<1> QED
  BY <1>2, <1>3, <1>4, <1>5, <1>6, <1>7, <1>8 DEF ActionStep

LEMMA CreateChildType ==
  ASSUME TypeInv, NEW s \in Slots, NEW j \in JobIds, NEW kind \in ChildKinds,
         CreateChild(s, j, kind)
  PROVE  TypeInv'
<1> USE DEF TypeInv
<1> DEFINE h == <<kind, job[s]>>
           n == mem[s].sess
           pcs == [pc EXCEPT ![s] = "creating"]
           rows == Insert(j, h, FALSE)
<1>1. h \in Hashes /\ n \in Sessions \cup {0} /\ pcs \in [Slots -> GoPcs]
  BY DEF TypeOK, Hashes, Mem, GoPcs
<1>2. rows \in [JobIds -> Row]
  BY <1>1, InsertType
<1>3. StartJob(rows, pcs, n, j, None) /\ writer' = s /\ UNCHANGED <<jobs, active, reqVars, envVars>>
  BY DEF CreateChild
<1> HIDE DEF h, n, rows
<1>4. /\ pc' \in [Slots -> GoPcs]
      /\ job' \in [Slots -> JobIds]
      /\ mem' \in [Slots -> Mem]
      /\ spawned' \in Slots \cup {None}
      /\ wrows' \in [JobIds -> Row]
  BY <1>1, <1>2, <1>3, StartJobType
<1>5. EndingHasResult'
  BY <1>1, <1>2, <1>3, StartJobKeeps DEF EndingHasResult, TypeOK
<1> QED
  BY <1>3, <1>4, <1>5 DEF reqVars, envVars, TypeOK, SessionOK, RequestsNameJobs

LEMMA EndJobType ==
  ASSUME TypeInv, NEW s \in Slots, EndJob(s)
  PROVE  TypeInv'
<1> USE DEF TypeInv
<1> DEFINE n == mem[s].sess
           pcs == [pc EXCEPT ![s] = "endtx"]
           rows == FinalRows(s)
<1>1. mem[s] \in Mem /\ n \in Sessions \cup {0} /\ pcs \in [Slots -> GoPcs]
  BY DEF TypeOK, Mem, GoPcs
<1>2. rows \in [JobIds -> Row]
  <2> DEFINE row == [jobs[job[s]] EXCEPT !.state = mem[s].result, !.prog = mem[s].prog,
                       !.chk = IF mem[s].result = "succeeded" THEN 0 ELSE mem[s].chk]
  <2>1. job[s] \in JobIds /\ jobs[job[s]] \in Row /\ jobs \in [JobIds -> Row]
    BY DEF TypeOK
  <2>2. /\ mem[s].result \in States /\ mem[s].prog \in 0..MaxProgress
        /\ mem[s].chk \in 0..Units
    BY <1>1 DEF EndJob, EndingHasResult, Ended, States, Mem
  <2>3. row \in Row
    BY <2>1, <2>2, ZeroInBounds DEF Row
  <2>4. rows = [jobs EXCEPT ![job[s]] = row]
    BY <2>1 DEF FinalRows, Row
  <2> HIDE DEF row, rows
  <2> QED
    BY <2>1, <2>3, <2>4
<1>3. /\ writer' = s /\ UNCHANGED <<jobs, active, reqVars, envVars>>
      /\ \/ pc' = pcs /\ wrows' = rows /\ UNCHANGED <<spawned, job, mem>>
         \/ \E j \in JobIds : StartJob(rows, pcs, n, j, None)
  BY DEF EndJob, First, Queue
<1> HIDE DEF n, rows
<1>4. /\ pc' \in [Slots -> GoPcs]
      /\ job' \in [Slots -> JobIds]
      /\ mem' \in [Slots -> Mem]
      /\ spawned' \in Slots \cup {None}
      /\ wrows' \in [JobIds -> Row]
  BY <1>1, <1>2, <1>3, StartJobType DEF TypeOK
<1>5. EndingHasResult'
  <2>1. CASE pc' = pcs /\ UNCHANGED mem
    BY <2>1 DEF EndingHasResult, TypeOK
  <2>2. CASE \E j \in JobIds : StartJob(rows, pcs, n, j, None)
    BY <1>1, <1>2, <2>2, StartJobKeeps DEF EndingHasResult, TypeOK
  <2> QED
    BY <1>3, <2>1, <2>2
<1> QED
  BY <1>3, <1>4, <1>5 DEF reqVars, envVars, TypeOK, SessionOK, RequestsNameJobs

LEMMA WaiterFiresType ==
  ASSUME TypeInv, NEW s \in Slots, WaiterFires(s)
  PROVE  TypeInv'
<1> USE DEF TypeInv
<1> DEFINE n == mem[s].sess
           pcs == [pc EXCEPT ![s] = "launching"]
<1>1. /\ n \in Sessions \cup {0} /\ pcs \in [Slots -> GoPcs] /\ job[s] \in JobIds
      /\ jobs \in [JobIds -> Row]
  BY DEF TypeOK, Mem, GoPcs
<1>2. CASE Return(s) /\ UNCHANGED <<dbVars, spawned, active, reqVars, envVars>>
  <2>1. /\ pc' \in [Slots -> GoPcs] /\ job' \in [Slots -> JobIds]
        /\ mem' \in [Slots -> Mem] /\ EndingHasResult'
    BY <1>2, ReturnType
  <2> QED
    BY <1>2, <2>1 DEF dbVars, reqVars, envVars, TypeOK, SessionOK, RequestsNameJobs
<1>3. CASE /\ Launched(jobs, pcs, n, job[s])
           /\ writer' = s
           /\ UNCHANGED <<jobs, active, reqVars, envVars>>
  <2>1. /\ pc' \in [Slots -> GoPcs]
        /\ job' \in [Slots -> JobIds]
        /\ mem' \in [Slots -> Mem]
        /\ spawned' \in Slots \cup {None}
        /\ wrows' \in [JobIds -> Row]
    BY <1>1, <1>3, LaunchType
  <2>2. PICK t \in Slots : pc' = [pcs EXCEPT ![t] = "run"] /\ \E new : mem' = [mem EXCEPT ![t] = new]
    BY <1>3 DEF Launched, Launch, FreeSlots
  <2>3. EndingHasResult'
    BY <2>2 DEF EndingHasResult, TypeOK
  <2> QED
    BY <1>3, <2>1, <2>3 DEF reqVars, envVars, TypeOK, SessionOK, RequestsNameJobs
<1> QED
  BY <1>2, <1>3 DEF WaiterFires, Launched

LEMMA GoroutineType ==
  ASSUME TypeInv, NEW s \in Slots, GoroutineStep(s)
  PROVE  TypeInv'
<1> USE DEF TypeInv
<1>1. CASE CommitEnd(s)
  <2>1. jobs' \in [JobIds -> Row] /\ wrows' \in [JobIds -> Row] /\ writer' = None
    BY <1>1, CommitType DEF CommitEnd
  <2> QED
    BY <1>1, <2>1
       DEF CommitEnd, Go, reqVars, envVars, TypeOK, SessionOK, RequestsNameJobs,
           EndingHasResult, GoPcs
<1>2. CASE CloseDone(s)
  <2> DEFINE new == [mem[s] EXCEPT !.done = TRUE]
  <2>1. mem[s] \in Mem
    BY DEF TypeOK
  <2>2. new \in Mem
    BY <2>1 DEF Mem
  <2>3. pc' = [pc EXCEPT ![s] = "closed"] /\ mem' = [mem EXCEPT ![s] = new]
    BY <1>2 DEF CloseDone, Go
  <2> HIDE DEF new
  <2>4. pc' \in [Slots -> GoPcs] /\ mem' \in [Slots -> Mem] /\ EndingHasResult'
    BY <2>2, <2>3, MemStepType DEF GoPcs
  <2> QED
    BY <1>2, <2>4 DEF CloseDone, dbVars, reqVars, envVars, TypeOK, SessionOK, RequestsNameJobs
<1>3. CASE Unregister(s) \/ WaiterGivesUp(s)
  <2>1. /\ pc' \in [Slots -> GoPcs] /\ job' \in [Slots -> JobIds]
        /\ mem' \in [Slots -> Mem] /\ EndingHasResult'
    BY <1>3, ReturnType DEF Unregister, WaiterGivesUp
  <2>2. active' \in [Sessions -> [JobIds -> Slots \cup {None}]]
    <3> DEFINE n == mem[s].sess
               new == [active[n] EXCEPT ![job[s]] = None]
    <3>1. active' = active \/ active' = [active EXCEPT ![n] = new]
      BY <1>3 DEF Unregister, WaiterGivesUp
    <3>2. active \in [Sessions -> [JobIds -> Slots \cup {None}]]
      BY DEF TypeOK
    <3>3. n \in Sessions => new \in [JobIds -> Slots \cup {None}]
      BY <3>2
    <3> HIDE DEF n, new
    <3> QED
      BY <3>1, <3>2, <3>3
  <2> QED
    BY <1>3, <2>1, <2>2
       DEF Unregister, WaiterGivesUp, dbVars, reqVars, envVars, TypeOK, SessionOK,
           RequestsNameJobs
<1>4. CASE CommitWaiter(s)
  <2>1. jobs' \in [JobIds -> Row] /\ wrows' \in [JobIds -> Row] /\ writer' = None
    BY <1>4, CommitType DEF CommitWaiter
  <2>2. /\ pc' \in [Slots -> GoPcs] /\ job' \in [Slots -> JobIds]
        /\ mem' \in [Slots -> Mem] /\ EndingHasResult'
    BY <1>4, ReturnType DEF CommitWaiter
  <2> QED
    BY <1>4, <2>1, <2>2
       DEF CommitWaiter, reqVars, envVars, TypeOK, SessionOK, RequestsNameJobs
<1> QED
  BY <1>1, <1>2, <1>3, <1>4, EndJobType, WaiterFiresType DEF GoroutineStep

LEMMA StartTimeType ==
  ASSUME TypeInv, NEW j \in JobIds, StartTimeComes(j)
  PROVE  TypeInv'
<1> DEFINE row == [jobs[j] EXCEPT !.future = FALSE]
<1>1. jobs \in [JobIds -> Row] /\ jobs[j] \in Row
  BY DEF TypeInv, TypeOK
<1>2. row \in Row
  BY <1>1 DEF Row
<1>3. Exec([jobs EXCEPT ![j] = row]) /\ UNCHANGED <<goVars, reqVars, envVars>>
  BY DEF StartTimeComes
<1> HIDE DEF row
<1>4. jobs' \in [JobIds -> Row] /\ wrows' \in [JobIds -> Row] /\ writer' = writer
  BY <1>1, <1>2, <1>3 DEF Exec
<1> QED
  BY <1>3, <1>4
     DEF goVars, reqVars, envVars, TypeInv, TypeOK, SessionOK, RequestsNameJobs,
         EndingHasResult

LEMMA OpenTimelineType ==
  ASSUME TypeInv, NEW h \in Hosts, NEW R \in SUBSET JobIds, OpenTimeline(h, R)
  PROVE  TypeInv'
<1> USE DEF TypeInv
<1>1. jobs' \in [JobIds -> Row] /\ wrows' \in [JobIds -> Row] /\ writer' = writer
  <2> DEFINE cut(j) == [jobs[j] EXCEPT !.state = "interrupted"]
  <2>1. ASSUME NEW j \in JobIds
        PROVE  jobs[j] \in Row /\ cut(j) \in Row
    <3>1. jobs[j] \in Row
      BY DEF TypeOK
    <3> QED
      BY <3>1 DEF Row, States
  <2>2. Exec([j \in JobIds |-> IF jobs[j].state = "started" THEN cut(j) ELSE jobs[j]])
    BY DEF OpenTimeline
  <2> HIDE DEF cut
  <2> QED
    BY <2>1, <2>2 DEF Exec
<1>2. session' \in 0..MaxSessions /\ session' \in Sessions
  BY JobsAssumption DEF OpenTimeline, TypeOK, Sessions
<1>3. repo' \in Repo /\ panicked' \in SUBSET JobIds
  BY DEF OpenTimeline, Repo
<1> QED
  BY <1>1, <1>2, <1>3
     DEF OpenTimeline, goVars, reqVars, TypeOK, SessionOK, RequestsNameJobs, EndingHasResult

LEMMA OpenStepType ==
  ASSUME TypeInv, OpenStep
  PROVE  TypeInv'
<1> USE DEF TypeInv
<1>1. repo \in Repo
  BY DEF TypeOK
<1>2. CASE \E j \in JobIds : OpenStarts(j)
  <2>1. PICK j \in JobIds : OpenStarts(j)
    BY <1>2
  <2>2. /\ session \in Sessions \cup {0} /\ pc \in [Slots -> GoPcs]
        /\ jobs \in [JobIds -> Row]
    BY JobsAssumption DEF TypeOK, Sessions
  <2>3. /\ pc' \in [Slots -> GoPcs]
        /\ job' \in [Slots -> JobIds]
        /\ mem' \in [Slots -> Mem]
        /\ spawned' \in Slots \cup {None}
        /\ wrows' \in [JobIds -> Row]
    BY <2>1, <2>2, StartJobType DEF OpenStarts
  <2>4. EndingHasResult'
    BY <2>1, <2>2, StartJobKeeps DEF OpenStarts, EndingHasResult
  <2>5. repo' \in Repo /\ repo'.state = repo.state
    BY <1>1, <2>1 DEF OpenStarts, Repo
  <2> QED
    BY <2>1, <2>3, <2>4, <2>5 DEF OpenStarts, reqVars, TypeOK, SessionOK, RequestsNameJobs
<1>3. CASE OpenCommits
  <2>1. jobs' \in [JobIds -> Row] /\ wrows' \in [JobIds -> Row] /\ writer' = None
    BY <1>3, CommitType DEF OpenCommits
  <2> QED
    BY <1>3, <2>1
       DEF OpenCommits, goVars, reqVars, envVars, TypeOK, SessionOK, RequestsNameJobs,
           EndingHasResult
<1>4. CASE (\E j \in JobIds : OpenFails(j)) \/ OpenReturns
  <2>1. /\ UNCHANGED <<dbVars, goVars, reqVars, session, panicked>>
        /\ repo' \in Repo /\ (repo'.state # "closed" => repo.state # "closed")
    BY <1>1, <1>4 DEF OpenFails, OpenReturns, Repo
  <2> QED
    BY <2>1 DEF dbVars, goVars, reqVars, TypeOK, SessionOK, RequestsNameJobs, EndingHasResult
<1> QED
  BY <1>2, <1>3, <1>4 DEF OpenStep

LEMMA StopType == TypeInv /\ Stop => TypeInv'
<1> SUFFICES ASSUME TypeInv, Stop PROVE TypeInv'
  OBVIOUS
<1>1. NoReq \in Req /\ 1 \in JobIds
  BY JobsAssumption DEF NoReq, Req, JobIds
<1>2. repo' \in Repo /\ repo'.state = "closed"
  BY DEF Stop, Repo, TypeInv, TypeOK
<1> QED
  BY <1>1, <1>2, NoMemType
     DEF Stop, TypeInv, TypeOK, SessionOK, RequestsNameJobs, EndingHasResult, GoPcs, ReqPcs

LEMMA TypeNext == TypeInv /\ [Next]_vars => TypeInv'
<1> SUFFICES ASSUME TypeInv, [Next]_vars PROVE TypeInv'
  OBVIOUS
<1>1. ASSUME NEW c \in Clients, RequestStep(c) \/ HandlerStep(c) \/ Disconnect(c)
      PROVE  TypeInv'
  BY <1>1, CreateJobType, RequestType, RequestCancelType, HandlerType DEF RequestStep
<1>2. ASSUME NEW s \in Slots,
             \/ ActionStep(s) \/ GoroutineStep(s) \/ Fail(s) \/ Panic(s)
             \/ \E j \in JobIds, kind \in ChildKinds : CreateChild(s, j, kind)
      PROVE  TypeInv'
  BY <1>2, ActionType, GoroutineType, CreateChildType
<1>3. CASE UNCHANGED vars
  BY <1>3
     DEF vars, dbVars, goVars, reqVars, envVars, TypeInv, TypeOK, SessionOK,
         RequestsNameJobs, EndingHasResult
<1> QED
  BY <1>1, <1>2, <1>3, RegisterType, StartTimeType, OpenTimelineType, OpenStepType,
     StopType DEF Next

(* The state of the job manager is well formed, whatever the requests, the  *)
(* faults and the interleaving: rows, ActiveJobs and requests never hold    *)
(* anything but what jobs.go writes there.                                  *)
THEOREM TypeCorrect == Spec => []TypeOK
<1>1. Spec => []TypeInv
  BY TypeInit, TypeNext, PTL DEF Spec
<1>2. TypeInv => TypeOK
  BY DEF TypeInv
<1> QED
  BY <1>1, <1>2, PTL

-----------------------------------------------------------------------------
(***************************************************************************)
(* A paused job can always be released: NoLostUnpause of JobManager, for    *)
(* any number of jobs, goroutines and requests.                             *)
(*                                                                         *)
(* PauseJob hands its channel to the goroutine first and stores it in the   *)
(* ActiveJob afterwards; UnpauseJob closes the stored channel.  The proof   *)
(* says who holds the channel in between.                                   *)
(***************************************************************************)

(* A request between the rendezvous and the store: its goroutine waits for  *)
(* its channel and nothing else is stored, or it has ended meanwhile.       *)
Pending(c, s) == cpc[c] = "pauseSet" /\ req[c].ref = s

PendingBlocks ==
  \A c \in Clients, s \in Slots : Pending(c, s) =>
    /\ pc[s] \notin {"run", "creating"}
    /\ pc[s] = "blocked" => mem[s].unpause = c /\ mem[s].paused = None

RunningIsNotPaused ==
  \A s \in Slots : pc[s] \in {"run", "creating"} => mem[s].paused = None

(* What is stored is what a blocked goroutine waits for.                    *)
StoredIsAwaited ==
  \A s \in Slots : pc[s] = "blocked" => mem[s].paused \in {None, mem[s].unpause}

AwaitedIsHeld ==
  \A s \in Slots : pc[s] = "blocked" /\ mem[s].unpause # None =>
    mem[s].paused = mem[s].unpause \/ Pending(mem[s].unpause, s)

PauseInv == PendingBlocks /\ RunningIsNotPaused /\ StoredIsAwaited /\ AwaitedIsHeld

LEMMA PauseInit == Init => PauseInv
BY DEF Init, PauseInv, PendingBlocks, Pending, RunningIsNotPaused, StoredIsAwaited, AwaitedIsHeld

(* A step that lets the pending requests and the blocked goroutines be, and *)
(* makes only goroutines run that nobody is about to pause.                 *)
QuietRequests ==
  \A c \in Clients : /\ cpc'[c] = "pauseSet" <=> cpc[c] = "pauseSet"
                     /\ cpc[c] = "pauseSet" => req'[c].ref = req[c].ref

QuietGoroutines ==
  \A s \in Slots :
    /\ pc'[s] = "blocked" => /\ pc[s] = "blocked"
                             /\ mem'[s].paused = mem[s].paused
                             /\ mem'[s].unpause = mem[s].unpause
    /\ pc'[s] \in {"run", "creating"} =>
         /\ mem'[s].paused = None
         /\ pc[s] \in {"run", "creating"} \/ \A c \in Clients : ~Pending(c, s)

LEMMA QuietStep ==
  ASSUME TypeOK, PauseInv, QuietRequests, QuietGoroutines
  PROVE  PauseInv'
<1> USE DEF Pending
<1>1. PendingBlocks'
  BY DEF PauseInv, PendingBlocks, QuietRequests, QuietGoroutines
<1>2. RunningIsNotPaused'
  BY DEF RunningIsNotPaused, QuietGoroutines
<1>3. StoredIsAwaited'
  BY DEF PauseInv, StoredIsAwaited, QuietGoroutines
<1>4. AwaitedIsHeld'
  <2> SUFFICES ASSUME NEW s \in Slots, pc'[s] = "blocked", mem'[s].unpause # None
               PROVE  mem'[s].paused = mem'[s].unpause \/ Pending(mem[s].unpause, s)'
    BY DEF AwaitedIsHeld, QuietGoroutines
  <2>1. mem[s].unpause \in Clients /\ pc[s] = "blocked" /\ mem[s].unpause = mem'[s].unpause
    BY DEF TypeOK, Mem, QuietGoroutines
  <2> QED
    BY <2>1 DEF PauseInv, AwaitedIsHeld, QuietRequests, QuietGoroutines
<1> QED
  BY <1>1, <1>2, <1>3, <1>4 DEF PauseInv

LEMMA FreshMem ==
  ASSUME NEW n, NEW row, NEW chk, NEW by, NEW d
  PROVE  /\ ActiveJob(n, row, chk).paused = None
         /\ [NoMem EXCEPT !.sess = n, !.by = by].paused = None
         /\ [NoMem EXCEPT !.done = d].paused = None
BY DEF ActiveJob, NoMem

(* Starting a job: the goroutine is new, and nobody refers to it.           *)
LEMMA StartQuiet ==
  ASSUME TypeOK, PauseInv, NEW rows, NEW pcs \in [Slots -> GoPcs], NEW n, NEW j, NEW by,
         Launched(rows, pcs, n, j) \/ Defer(rows, pcs, n, j, by),
         \A t \in Slots : \/ pcs[t] = pc[t]
                          \/ pcs[t] \in {"endtx", "launching"}
                          \/ pcs[t] = "creating" /\ pc[t] = "run"
  PROVE  QuietGoroutines
<1>1. PICK s, new :
        /\ s \in FreeSlots
        /\ pc' = [pcs EXCEPT ![s] = "run"] \/ pc' = [pcs EXCEPT ![s] = "waiting"]
        /\ mem' = [mem EXCEPT ![s] = new]
        /\ new.paused = None
  <2>1. CASE Launched(rows, pcs, n, j)
    <3>1. PICK s \in FreeSlots, chk \in {0, rows[j].chk} :
            pc' = [pcs EXCEPT ![s] = "run"] /\ mem' = [mem EXCEPT ![s] = ActiveJob(n, rows[j], chk)]
      BY <2>1 DEF Launched, Launch
    <3> WITNESS s, ActiveJob(n, rows[j], chk)
    <3> QED
      BY <3>1, FreshMem
  <2>2. CASE Defer(rows, pcs, n, j, by)
    <3> DEFINE new == [NoMem EXCEPT !.sess = n, !.by = by]
    <3>1. PICK s \in FreeSlots : /\ pc' = [pcs EXCEPT ![s] = "waiting"]
                                 /\ mem' = [mem EXCEPT ![s] = new]
      BY <2>2 DEF Defer
    <3> WITNESS s, new
    <3> QED
      BY <3>1, FreshMem
  <2> QED
    BY <2>1, <2>2
<1>2. s \in Slots /\ \A c \in Clients : ~Pending(c, s)
  BY <1>1 DEF FreeSlots, Pending
<1>3. mem \in [Slots -> Mem] /\ pc \in [Slots -> GoPcs]
  BY DEF TypeOK
<1>4. /\ pc'[s] \in {"run", "waiting"} /\ mem'[s].paused = None
      /\ \A t \in Slots \ {s} : pc'[t] = pcs[t] /\ mem'[t] = mem[t]
  BY <1>1, <1>2, <1>3
<1> QED
  BY <1>2, <1>4 DEF QuietGoroutines, PauseInv, RunningIsNotPaused

LEMMA ReturnQuiet ==
  ASSUME TypeOK, PauseInv, NEW s \in Slots, Return(s)
  PROVE  QuietGoroutines
<1>1. mem \in [Slots -> Mem] /\ pc \in [Slots -> GoPcs]
  BY DEF TypeOK
<1>2. pc'[s] = "free" /\ \A t \in Slots \ {s} : pc'[t] = pc[t] /\ mem'[t] = mem[t]
  BY <1>1 DEF Return
<1> QED
  BY <1>2 DEF QuietGoroutines, PauseInv, RunningIsNotPaused

(* A goroutine that goes on without becoming blocked or running.            *)
LEMMA GoQuiet ==
  ASSUME TypeOK, PauseInv, NEW s \in Slots, NEW to \in GoPcs, NEW new,
         pc' = [pc EXCEPT ![s] = to],
         mem' = [mem EXCEPT ![s] = new],
         to # "blocked",
         to \in {"run", "creating"} =>
           pc[s] \in {"run", "creating"} /\ new.paused = mem[s].paused
  PROVE  QuietGoroutines
<1>1. mem \in [Slots -> Mem] /\ pc \in [Slots -> GoPcs]
  BY DEF TypeOK
<1>2. /\ pc'[s] = to /\ mem'[s] = new
      /\ \A t \in Slots \ {s} : pc'[t] = pc[t] /\ mem'[t] = mem[t]
  BY <1>1
<1> QED
  BY <1>2 DEF QuietGoroutines, PauseInv, RunningIsNotPaused

LEMMA SameGoroutines ==
  ASSUME PauseInv, UNCHANGED <<pc, mem>>
  PROVE  QuietGoroutines
BY DEF QuietGoroutines, PauseInv, RunningIsNotPaused

LEMMA SameRequests == ASSUME UNCHANGED reqVars PROVE QuietRequests
BY DEF QuietRequests, reqVars

(* A request that is not pending now and does not become so.                *)
LEMMA OtherRequest ==
  ASSUME TypeOK, NEW c \in Clients, cpc[c] # "pauseSet",
         NEW next, next # "pauseSet", cpc' = [cpc EXCEPT ![c] = next],
         \A d \in Clients \ {c} : req'[d] = req[d]
  PROVE  QuietRequests
<1>1. cpc \in [Clients -> ReqPcs]
  BY DEF TypeOK
<1> QED
  BY <1>1 DEF QuietRequests

LEMMA AnswerQuiet ==
  ASSUME TypeOK, NEW c \in Clients, cpc[c] # "pauseSet", NEW reply, Answer(c, reply)
  PROVE  QuietRequests
<1>1. req \in [Clients -> Req]
  BY DEF TypeOK
<1>2. \A d \in Clients \ {c} : req'[d] = req[d]
  BY <1>1 DEF Answer
<1> QED
  BY <1>2, OtherRequest DEF Answer

LEMMA AskQuiet ==
  ASSUME TypeOK, NEW c \in Clients, cpc[c] # "pauseSet", NEW kind, NEW j, NEW ref,
         NEW next, next # "pauseSet", Ask(c, kind, j, ref, next)
  PROVE  QuietRequests
<1>1. req \in [Clients -> Req]
  BY DEF TypeOK
<1>2. \A d \in Clients \ {c} : req'[d] = req[d]
  BY <1>1 DEF Ask
<1> QED
  BY <1>2, OtherRequest DEF Ask

LEMMA RejectQuiet ==
  ASSUME TypeOK, NEW c \in Clients, cpc[c] # "pauseSet", NEW kind, Reject(c, kind)
  PROVE  QuietRequests
<1>1. req \in [Clients -> Req]
  BY DEF TypeOK
<1>2. cpc' = cpc /\ \A d \in Clients \ {c} : req'[d] = req[d]
  BY <1>1 DEF Reject
<1> QED
  BY <1>2 DEF QuietRequests

-----------------------------------------------------------------------------
(* The steps that pause or release a job.                                   *)
LEMMA ContinuePausedPreserves ==
  ASSUME TypeOK, PauseInv, NEW s \in Slots, NEW c \in Clients, ContinuePaused(s, c)
  PROVE  PauseInv'
<1>1. /\ pc[s] = "run" /\ cpc[c] = "pauseSend" /\ req[c].ref = s /\ req' = req
      /\ mem[s].paused = None /\ \A d \in Clients : ~Pending(d, s)
  BY DEF ContinuePaused, Senders, PauseInv, RunningIsNotPaused, PendingBlocks
<1>2. /\ pc'[s] = "blocked" /\ \A t \in Slots \ {s} : pc'[t] = pc[t] /\ mem'[t] = mem[t]
      /\ mem'[s].unpause = c /\ mem'[s].paused = mem[s].paused
      /\ cpc'[c] = "pauseSet" /\ \A d \in Clients \ {c} : cpc'[d] = cpc[d]
  BY DEF ContinuePaused, Go, TypeOK, Mem
<1>3. Pending(c, s)' /\ \A d \in Clients \ {c}, t \in Slots : Pending(d, t)' = Pending(d, t)
  BY <1>1, <1>2 DEF Pending
<1>4. \A t \in Slots : ~Pending(c, t) /\ (Pending(c, t)' => t = s)
  BY <1>1 DEF Pending
<1>5. PendingBlocks'
  BY <1>1, <1>2, <1>3, <1>4 DEF PauseInv, PendingBlocks
<1>6. RunningIsNotPaused'
  BY <1>2 DEF PauseInv, RunningIsNotPaused
<1>7. StoredIsAwaited'
  BY <1>1, <1>2 DEF PauseInv, StoredIsAwaited
<1>8. AwaitedIsHeld'
  <2> SUFFICES ASSUME NEW t \in Slots, pc'[t] = "blocked", mem'[t].unpause # None
               PROVE  \/ mem'[t].paused = mem'[t].unpause
                      \/ cpc'[mem'[t].unpause] = "pauseSet" /\ req'[mem'[t].unpause].ref = t
    BY DEF AwaitedIsHeld, Pending
  <2>1. CASE t = s
    BY <1>1, <1>2, <2>1
  <2>2. CASE t # s
    <3>1. mem[t].unpause \in Clients /\ mem'[t] = mem[t] /\ pc[t] = "blocked"
      BY <1>2, <2>2 DEF TypeOK, Mem
    <3>2. mem[t].paused = mem[t].unpause \/ Pending(mem[t].unpause, t)
      BY <2>2, <3>1 DEF PauseInv, AwaitedIsHeld
    <3> QED
      BY <1>1, <1>2, <3>1, <3>2 DEF Pending
  <2> QED
    BY <2>1, <2>2
<1> QED
  BY <1>5, <1>6, <1>7, <1>8 DEF PauseInv

LEMMA PauseSetPreserves ==
  ASSUME TypeOK, PauseInv, NEW c \in Clients, PauseSet(c)
  PROVE  PauseInv'
<1> DEFINE s == req[c].ref
           new == [mem[s] EXCEPT !.paused = IF @ = None THEN c ELSE @]
<1>1. /\ cpc[c] = "pauseSet" /\ pc' = pc /\ mem' = [mem EXCEPT ![s] = new]
      /\ cpc'[c] = "idle"
      /\ \A d \in Clients \ {c} : cpc'[d] = cpc[d] /\ req'[d] = req[d]
  BY DEF PauseSet, Answer, TypeOK
<1>2. ASSUME NEW t \in Slots, t # s
      PROVE  mem'[t] = mem[t]
  BY <1>1, <1>2 DEF TypeOK
<1>3. ASSUME s \in Slots
      PROVE  /\ Pending(c, s) /\ pc[s] \notin {"run", "creating"}
             /\ pc[s] = "blocked" => /\ mem[s].unpause = c /\ mem[s].paused = None
                                     /\ mem'[s].unpause = c /\ mem'[s].paused = c
             /\ \A d \in Clients \ {c} : pc[s] = "blocked" => ~Pending(d, s)
  <2>1. Pending(c, s) /\ mem[s] \in Mem /\ mem'[s] = new
    BY <1>1, <1>3 DEF Pending, TypeOK
  <2> QED
    BY <1>3, <2>1 DEF PauseInv, PendingBlocks, Mem
<1> HIDE DEF new
<1>4. \A d \in Clients, t \in Slots :
        Pending(d, t)' <=> d # c /\ Pending(d, t)
  BY <1>1 DEF Pending
<1>5. PendingBlocks'
  BY <1>1, <1>2, <1>3, <1>4 DEF PauseInv, PendingBlocks
<1>6. RunningIsNotPaused'
  BY <1>1, <1>2, <1>3 DEF PauseInv, RunningIsNotPaused
<1>7. StoredIsAwaited'
  BY <1>1, <1>2, <1>3 DEF PauseInv, StoredIsAwaited
<1>8. AwaitedIsHeld'
  <2> SUFFICES ASSUME NEW t \in Slots, pc'[t] = "blocked", mem'[t].unpause # None
               PROVE  \/ mem'[t].paused = mem'[t].unpause
                      \/ cpc'[mem'[t].unpause] = "pauseSet" /\ req'[mem'[t].unpause].ref = t
    BY DEF AwaitedIsHeld, Pending
  <2>1. CASE t = s
    BY <1>1, <1>3, <2>1
  <2>2. CASE t # s
    <3>1. mem[t].unpause \in Clients /\ mem'[t] = mem[t] /\ pc[t] = "blocked"
      BY <1>1, <1>2, <2>2 DEF TypeOK, Mem
    <3>2. mem[t].paused = mem[t].unpause \/ Pending(mem[t].unpause, t)
      BY <3>1 DEF PauseInv, AwaitedIsHeld
    <3> QED
      BY <1>1, <2>2, <3>1, <3>2 DEF Pending
  <2> QED
    BY <2>1, <2>2
<1> QED
  BY <1>5, <1>6, <1>7, <1>8 DEF PauseInv

LEMMA UnpauseClosePreserves ==
  ASSUME TypeOK, PauseInv, NEW c \in Clients, UnpauseClose(c)
  PROVE  PauseInv'
<1> DEFINE s == req[c].ref
           new == [mem[s] EXCEPT !.paused = None,
                     !.unpause = IF mem[s].paused # None /\ @ = mem[s].paused THEN None ELSE @]
<1>1. /\ cpc[c] = "unpauseClose" /\ pc' = pc /\ mem' = [mem EXCEPT ![s] = new]
      /\ cpc'[c] = "idle"
      /\ \A d \in Clients \ {c} : cpc'[d] = cpc[d] /\ req'[d] = req[d]
  BY DEF UnpauseClose, Answer, TypeOK
<1>2. ASSUME NEW t \in Slots, t # s
      PROVE  mem'[t] = mem[t]
  BY <1>1, <1>2 DEF TypeOK
<1>3. ASSUME s \in Slots
      PROVE  /\ mem'[s].paused = None
             /\ mem'[s].unpause = IF mem[s].paused # None /\ mem[s].unpause = mem[s].paused
                                    THEN None ELSE mem[s].unpause
  <2>1. mem[s] \in Mem /\ mem'[s] = new
    BY <1>1, <1>3 DEF TypeOK
  <2> QED
    BY <2>1 DEF Mem
<1> HIDE DEF new
<1>4. \A d \in Clients, t \in Slots : Pending(d, t)' <=> Pending(d, t)
  BY <1>1 DEF Pending
<1>5. PendingBlocks'
  BY <1>1, <1>2, <1>3, <1>4 DEF PauseInv, PendingBlocks
<1>6. RunningIsNotPaused'
  BY <1>1, <1>2, <1>3 DEF PauseInv, RunningIsNotPaused
<1>7. StoredIsAwaited'
  BY <1>1, <1>2, <1>3 DEF PauseInv, StoredIsAwaited
<1>8. AwaitedIsHeld'
  <2> SUFFICES ASSUME NEW t \in Slots, pc'[t] = "blocked", mem'[t].unpause # None
               PROVE  \/ mem'[t].paused = mem'[t].unpause
                      \/ cpc'[mem'[t].unpause] = "pauseSet" /\ req'[mem'[t].unpause].ref = t
    BY DEF AwaitedIsHeld, Pending
  <2>1. pc[t] = "blocked" /\ mem[t].unpause \in Clients /\ mem'[t].unpause = mem[t].unpause
    BY <1>1, <1>2, <1>3 DEF TypeOK, Mem
  <2>2. mem[t].paused = mem[t].unpause \/ Pending(mem[t].unpause, t)
    BY <2>1 DEF PauseInv, AwaitedIsHeld
  <2>3. mem[t].paused = mem[t].unpause => mem'[t].paused = mem'[t].unpause
    BY <1>2, <1>3, <2>1, JobsAssumption
  <2> QED
    BY <1>1, <2>1, <2>2, <2>3 DEF Pending
<1> QED
  BY <1>5, <1>6, <1>7, <1>8 DEF PauseInv

-----------------------------------------------------------------------------
(* All other steps are quiet.                                               *)
LEMMA RequestQuiet ==
  ASSUME TypeInv, PauseInv, NEW c \in Clients, RequestStep(c)
  PROVE  PauseInv'
<1> USE DEF TypeInv
<1>1. cpc[c] = "idle"
  BY DEF RequestStep, CreateJob, RequestStart, RequestCancel, RequestPause,
         RequestUnpause, Idle
<1>2. QuietRequests
  <2>1. CASE \E j \in JobIds, h \in Imports, kind \in {"create", "schedule"} :
               CreateJob(c, j, h, kind)
    BY <1>1, <2>1, RejectQuiet, AskQuiet DEF CreateJob
  <2>2. CASE \E j \in JobIds, kind \in {"start", "restart"} : RequestStart(c, j, kind)
    BY <1>1, <2>2, AskQuiet DEF RequestStart
  <2>3. CASE \E j \in JobIds : RequestCancel(c, j)
    BY <1>1, <2>3, AskQuiet DEF RequestCancel
  <2>4. CASE \E j \in JobIds : RequestPause(c, j)
    BY <1>1, <2>4, RejectQuiet, AskQuiet DEF RequestPause
  <2>5. CASE \E j \in JobIds : RequestUnpause(c, j)
    BY <1>1, <2>5, AskQuiet DEF RequestUnpause
  <2> QED
    BY <2>1, <2>2, <2>3, <2>4, <2>5 DEF RequestStep
<1>3. QuietGoroutines
  <2>1. CASE \E j \in JobIds, h \in Imports, kind \in {"create", "schedule"} :
               CreateJob(c, j, h, kind)
    <3>1. PICK j \in JobIds, h \in Imports, kind \in {"create", "schedule"} :
            CreateJob(c, j, h, kind)
      BY <2>1
    <3>2. \/ UNCHANGED <<pc, mem>>
          \/ StartJob(Insert(j, h, kind = "schedule"), pc, session, j, None)
      BY <3>1 DEF CreateJob, goVars
    <3>3. pc \in [Slots -> GoPcs]
      BY DEF TypeOK
    <3> QED
      BY <3>2, <3>3, SameGoroutines, StartQuiet DEF StartJob, Launched
  <2>2. CASE \E j \in JobIds : RequestCancel(c, j)
    <3>1. PICK j \in JobIds : RequestCancel(c, j)
      BY <2>2
    <3> DEFINE s == active[session][j]
    <3>2. /\ pc' = pc /\ mem \in [Slots -> Mem]
          /\ mem' = mem \/ mem' = [mem EXCEPT ![s].cancelled = TRUE]
      BY <3>1 DEF RequestCancel, TypeOK
    <3>3. \A t \in Slots : /\ mem'[t].paused = mem[t].paused
                           /\ mem'[t].unpause = mem[t].unpause
      BY <3>2 DEF Mem
    <3> QED
      BY <3>2, <3>3 DEF QuietGoroutines, PauseInv, RunningIsNotPaused
  <2>3. CASE UNCHANGED <<pc, mem>>
    BY <2>3, SameGoroutines
  <2> QED
    BY <2>1, <2>2, <2>3
       DEF RequestStep, RequestStart, RequestPause, RequestUnpause, goVars
<1> QED
  BY <1>2, <1>3, QuietStep

LEMMA HandlerQuiet ==
  ASSUME TypeInv, PauseInv, NEW c \in Clients,
         HandlerStep(c) \/ Disconnect(c), ~PauseSet(c), ~UnpauseClose(c)
  PROVE  PauseInv'
<1> USE DEF TypeInv
<1>1. CASE BeginStart(c)
  <2>1. pc \in [Slots -> GoPcs]
    BY DEF TypeOK
  <2>2. QuietGoroutines
    BY <1>1, <2>1, SameGoroutines, StartQuiet DEF BeginStart, StartJob, Launched, goVars
  <2>3. QuietRequests
    <3>1. CASE Answer(c, "error")
      BY <1>1, <3>1, AnswerQuiet DEF BeginStart
    <3>2. CASE cpc' = [cpc EXCEPT ![c] = "start"] /\ UNCHANGED req
      BY <1>1, <3>2, OtherRequest DEF BeginStart
    <3> QED
      BY <1>1, <3>1, <3>2 DEF BeginStart
  <2> QED
    BY <2>2, <2>3, QuietStep
<1>2. CASE CommitRequest(c) \/ CancelWaited(c) \/ Disconnect(c)
  <2>1. QuietRequests
    BY <1>2, AnswerQuiet DEF CommitRequest, CancelWaited, Disconnect
  <2>2. UNCHANGED <<pc, mem>>
    BY <1>2 DEF CommitRequest, CancelWaited, Disconnect, goVars
  <2> QED
    BY <2>1, <2>2, SameGoroutines, QuietStep
<1>3. CASE BeginCancel(c) \/ PauseInDB(c) \/ UnpauseRead(c) \/ UnpauseInDB(c)
  <2>1. cpc[c] \in {"cancelBegin", "pauseDB", "unpauseRead", "unpauseDB"}
    BY <1>3 DEF BeginCancel, PauseInDB, UnpauseRead, UnpauseInDB
  <2>2. \/ Answer(c, "error")
        \/ \E next \in {"cancelStuck", "pauseSend", "startBegin", "unpauseClose"} :
             cpc' = [cpc EXCEPT ![c] = next] /\ UNCHANGED req
    BY <1>3 DEF BeginCancel, PauseInDB, UnpauseRead, UnpauseInDB
  <2>3. QuietRequests
    BY <2>1, <2>2, AnswerQuiet, OtherRequest
  <2>4. UNCHANGED <<pc, mem>>
    BY <1>3 DEF BeginCancel, PauseInDB, UnpauseRead, UnpauseInDB, goVars
  <2> QED
    BY <2>3, <2>4, SameGoroutines, QuietStep
<1> QED
  BY <1>1, <1>2, <1>3 DEF HandlerStep

LEMMA ActionQuiet ==
  ASSUME TypeInv, PauseInv, NEW s \in Slots,
         \/ ActionStep(s) \/ Fail(s) \/ Panic(s)
         \/ \E j \in JobIds, kind \in ChildKinds : CreateChild(s, j, kind),
         \A c \in Clients : ~ContinuePaused(s, c)
  PROVE  PauseInv'
<1> USE DEF TypeInv
<1>1. pc \in [Slots -> GoPcs] /\ mem \in [Slots -> Mem] /\ mem[s] \in Mem
  BY DEF TypeOK
<1>2. CASE Work(s) \/ Checkpoint(s)
  <2>1. PICK new : mem' = [mem EXCEPT ![s] = new] /\ new.paused = mem[s].paused
    <3>1. /\ [mem[s] EXCEPT !.pos = @ + 1, !.prog = @ + 1].paused = mem[s].paused
          /\ [mem[s] EXCEPT !.chk = mem[s].pos].paused = mem[s].paused
      BY <1>1 DEF Mem
    <3> QED
      BY <1>2, <3>1 DEF Work, Checkpoint
  <2>2. pc' = [pc EXCEPT ![s] = "run"] /\ pc[s] = "run"
    BY <1>1, <1>2 DEF Work, Checkpoint
  <2>3. QuietGoroutines
    BY <2>1, <2>2, GoQuiet DEF GoPcs
  <2> QED
    BY <1>2, <2>3, SameRequests, QuietStep DEF Work, Checkpoint
<1>3. CASE \E result \in Ended : End(s, result)
  <2>1. PICK new : mem' = [mem EXCEPT ![s] = new]
    BY <1>3 DEF End
  <2>2. pc' = [pc EXCEPT ![s] = "ending"] /\ UNCHANGED reqVars
    BY <1>3 DEF End, Go
  <2>3. QuietGoroutines
    BY <2>1, <2>2, GoQuiet DEF GoPcs
  <2> QED
    BY <2>2, <2>3, SameRequests, QuietStep
<1>4. CASE ContinueUnpaused(s)
  <2>1. /\ pc[s] = "blocked" /\ mem[s].unpause = None /\ mem' = mem
        /\ pc' = [pc EXCEPT ![s] = "run"] /\ UNCHANGED reqVars
    BY <1>4 DEF ContinueUnpaused, Go
  <2>2. mem[s].paused = None /\ \A c \in Clients : ~Pending(c, s)
    BY <2>1, JobsAssumption DEF PauseInv, StoredIsAwaited, PendingBlocks
  <2>3. QuietGoroutines
    BY <1>1, <2>1, <2>2 DEF QuietGoroutines, PauseInv, RunningIsNotPaused
  <2> QED
    BY <2>1, <2>3, SameRequests, QuietStep
<1>5. CASE CommitChild(s)
  <2>1. /\ pc[s] = "creating" /\ mem' = [mem EXCEPT ![s] = mem[s]]
        /\ pc' = [pc EXCEPT ![s] = "run"] /\ UNCHANGED reqVars
    BY <1>1, <1>5 DEF CommitChild
  <2>2. QuietGoroutines
    BY <2>1, GoQuiet DEF GoPcs
  <2> QED
    BY <2>1, <2>2, SameRequests, QuietStep
<1>6. CASE Panic(s)
  <2>1. /\ mem' = [mem EXCEPT ![s] = mem[s]]
        /\ pc' = [pc EXCEPT ![s] = "closing"] /\ UNCHANGED reqVars
    BY <1>1, <1>6 DEF Panic, Go
  <2>2. QuietGoroutines
    BY <2>1, GoQuiet DEF GoPcs
  <2> QED
    BY <2>1, <2>2, SameRequests, QuietStep
<1>7. CASE \E j \in JobIds, kind \in ChildKinds : CreateChild(s, j, kind)
  <2>1. PICK j \in JobIds, kind \in ChildKinds : CreateChild(s, j, kind)
    BY <1>7
  <2> DEFINE pcs == [pc EXCEPT ![s] = "creating"]
             rows == Insert(j, <<kind, job[s]>>, FALSE)
  <2>2. pcs \in [Slots -> GoPcs] /\ \A t \in Slots :
          pcs[t] = pc[t] \/ (pcs[t] = "creating" /\ pc[t] = "run")
    BY <1>1, <2>1 DEF CreateChild, GoPcs
  <2>3. StartJob(rows, pcs, mem[s].sess, j, None) /\ UNCHANGED reqVars
    BY <2>1 DEF CreateChild
  <2> HIDE DEF pcs, rows
  <2>4. QuietGoroutines
    BY <2>2, <2>3, StartQuiet DEF StartJob, Launched
  <2> QED
    BY <2>3, <2>4, SameRequests, QuietStep
<1> QED
  BY <1>2, <1>3, <1>4, <1>5, <1>6, <1>7
     DEF ActionStep, ContinueCancelled, Succeed, Fail, Ended

LEMMA GoroutineQuiet ==
  ASSUME TypeInv, PauseInv, NEW s \in Slots, GoroutineStep(s)
  PROVE  PauseInv'
<1> USE DEF TypeInv
<1>1. pc \in [Slots -> GoPcs] /\ mem \in [Slots -> Mem] /\ mem[s] \in Mem
  BY DEF TypeOK
<1>2. CASE EndJob(s) \/ WaiterFires(s)
  <2>1. PICK to \in {"endtx", "launching"} :
          \/ Return(s)
          \/ pc' = [pc EXCEPT ![s] = to] /\ mem' = [mem EXCEPT ![s] = mem[s]]
          \/ \E rows, j, n : \/ StartJob(rows, [pc EXCEPT ![s] = to], n, j, None)
                             \/ Launched(rows, [pc EXCEPT ![s] = to], n, j)
    BY <1>1, <1>2 DEF EndJob, WaiterFires, Launched
  <2>2. /\ [pc EXCEPT ![s] = to] \in [Slots -> GoPcs]
        /\ \A t \in Slots : \/ [pc EXCEPT ![s] = to][t] = pc[t]
                             \/ [pc EXCEPT ![s] = to][t] \in {"endtx", "launching"}
    BY <1>1 DEF GoPcs
  <2>3. QuietGoroutines
    <3>1. CASE Return(s)
      BY <3>1, ReturnQuiet
    <3>2. CASE pc' = [pc EXCEPT ![s] = to] /\ mem' = [mem EXCEPT ![s] = mem[s]]
      BY <3>2, GoQuiet DEF GoPcs
    <3>3. ASSUME NEW rows, NEW j, NEW n,
                 \/ StartJob(rows, [pc EXCEPT ![s] = to], n, j, None)
                 \/ Launched(rows, [pc EXCEPT ![s] = to], n, j)
          PROVE  QuietGoroutines
      <4> DEFINE pcs == [pc EXCEPT ![s] = to]
      <4>1. Launched(rows, pcs, n, j) \/ Defer(rows, pcs, n, j, None)
        BY <3>3 DEF StartJob, Launched
      <4> QED
        BY <2>2, <4>1, StartQuiet
    <3> QED
      BY <2>1, <3>1, <3>2, <3>3
  <2> QED
    BY <1>2, <2>3, SameRequests, QuietStep DEF EndJob, WaiterFires
<1>3. CASE CommitEnd(s) \/ CloseDone(s)
  <2>1. PICK to, new : to \in {"closing", "closed"} /\
          pc' = [pc EXCEPT ![s] = to] /\ mem' = [mem EXCEPT ![s] = new]
    BY <1>1, <1>3 DEF CommitEnd, CloseDone, Go
  <2>2. QuietGoroutines
    BY <2>1, <1>1, GoQuiet DEF GoPcs
  <2> QED
    BY <1>3, <2>2, SameRequests, QuietStep DEF CommitEnd, CloseDone
<1>4. CASE Unregister(s) \/ WaiterGivesUp(s) \/ CommitWaiter(s)
  BY <1>4, ReturnQuiet, SameRequests, QuietStep DEF Unregister, WaiterGivesUp, CommitWaiter
<1> QED
  BY <1>2, <1>3, <1>4 DEF GoroutineStep

LEMMA OpenQuiet ==
  ASSUME TypeInv, PauseInv,
         \/ Register
         \/ \E j \in JobIds : StartTimeComes(j)
         \/ \E h \in Hosts, R \in SUBSET JobIds : OpenTimeline(h, R)
         \/ OpenStep
  PROVE  PauseInv'
<1> USE DEF TypeInv
<1>1. CASE \E j \in JobIds : OpenStarts(j)
  <2>1. PICK j \in JobIds : OpenStarts(j)
    BY <1>1
  <2>2. pc \in [Slots -> GoPcs]
    BY DEF TypeOK
  <2>3. QuietGoroutines
    BY <2>1, <2>2, StartQuiet DEF OpenStarts, StartJob, Launched
  <2> QED
    BY <2>1, <2>3, SameRequests, QuietStep DEF OpenStarts
<1>2. CASE UNCHANGED <<pc, mem, reqVars>>
  BY <1>2, SameGoroutines, SameRequests, QuietStep
<1> QED
  BY <1>1, <1>2
     DEF Register, StartTimeComes, OpenTimeline, OpenStep, OpenCommits, OpenFails,
         OpenReturns, goVars

LEMMA StopQuiet == Stop => PauseInv'
BY DEF Stop, PauseInv, PendingBlocks, Pending, RunningIsNotPaused, StoredIsAwaited, AwaitedIsHeld

LEMMA PauseNext == TypeInv /\ PauseInv /\ [Next]_vars => PauseInv'
<1> SUFFICES ASSUME TypeInv, PauseInv, [Next]_vars PROVE PauseInv'
  OBVIOUS
<1>1. ASSUME NEW c \in Clients, RequestStep(c) \/ HandlerStep(c) \/ Disconnect(c)
      PROVE  PauseInv'
  BY <1>1, RequestQuiet, HandlerQuiet, PauseSetPreserves, UnpauseClosePreserves DEF TypeInv
<1>2. ASSUME NEW s \in Slots,
             \/ ActionStep(s) \/ GoroutineStep(s) \/ Fail(s) \/ Panic(s)
             \/ \E j \in JobIds, kind \in ChildKinds : CreateChild(s, j, kind)
      PROVE  PauseInv'
  BY <1>2, ActionQuiet, GoroutineQuiet, ContinuePausedPreserves DEF TypeInv
<1>3. CASE UNCHANGED vars
  BY <1>3, SameGoroutines, SameRequests, QuietStep DEF vars, goVars, reqVars, TypeInv
<1> QED
  BY <1>1, <1>2, <1>3, OpenQuiet, StopQuiet DEF Next

(* However requests to pause, unpause, cancel and start interleave with the *)
(* actions, a goroutine blocked in Continue waits for a channel that        *)
(* UnpauseJob can close, or that PauseJob is about to store.                *)
THEOREM PausedCanBeReleased == Spec => []NoLostUnpause
<1>1. PauseInv => NoLostUnpause
  BY DEF PauseInv, AwaitedIsHeld, Pending, NoLostUnpause
<1>2. Spec => []TypeInv
  BY TypeInit, TypeNext, PTL DEF Spec
<1>3. Spec => []PauseInv
  BY <1>2, PauseInit, PauseNext, PTL DEF Spec
<1> QED
  BY <1>1, <1>3, PTL

-----------------------------------------------------------------------------
(* Progress.                                                                *)

(* The checkpoint is behind the progress wherever both are kept: in the     *)
(* table, in the open transaction and in the ActiveJob.                     *)
ProgressInv ==
  /\ \A j \in JobIds : jobs[j].chk <= jobs[j].prog /\ wrows[j].chk <= wrows[j].prog
  /\ \A s \in Slots : mem[s].pos <= mem[s].prog /\ mem[s].chk <= mem[s].prog

-----------------------------------------------------------------------------
(* The write connection: nothing is uncommitted while it is free, and who   *)
(* is in a transaction holds it.                                            *)
FreeIsCommitted == writer = None => spawned = None /\ wrows = jobs

BusyWriters ==
  /\ \A c \in Clients : cpc[c] \in {"create", "start", "cancelStuck"} <=> writer = c
  /\ \A s \in Slots : pc[s] \in {"creating", "endtx", "launching"} <=> writer = s

(* A row keeps its machine and its hash.                                    *)
RowsKeepIdentity ==
  \A j \in JobIds : jobs[j].state # "none" =>
    /\ wrows[j].state # "none"
    /\ wrows[j].host = jobs[j].host /\ wrows[j].hash = jobs[j].hash

(* Requests, and what they cancel, need an open timeline; only a timeline   *)
(* that is being opened has jobs to resume, which are this machine's and    *)
(* neither paused nor aborted.                                              *)
RequestsNeedOpen ==
  /\ \A c \in Clients : cpc[c] # "idle" => repo.state = "open"
  /\ \A s \in Slots : mem[s].cancelled \/ mem[s].result = "aborted" => repo.state = "open"
  /\ repo.resume # {} => repo.state = "opening"

ResumeIsHere ==
  \A j \in repo.resume :
    /\ jobs[j].host = repo.host
    /\ jobs[j].state \notin {"none", "paused", "aborted"}
    /\ wrows[j].state \notin {"none", "paused", "aborted"}

(* The transaction of a request that starts job j.                          *)
Asked(j) == \E c \in Clients : writer = c /\ cpc[c] = "start" /\ req[c].job = j

(* A start that is not committed was asked for, or it concerns a job of     *)
(* this machine that was not aborted.                                       *)
StartsAreSound ==
  \A j \in JobIds : wrows[j].state = "started" /\ jobs[j].state # "started" =>
    Asked(j) \/ (jobs[j].state # "aborted" /\ RunsHere(wrows[j]))

(* A pause that is not yet over was ended by a request, by the end of the   *)
(* job or by its timer.                                                     *)
PausesEndSoundly ==
  \A j \in JobIds : jobs[j].state = "paused" /\ wrows[j].state # "paused" =>
    Asked(j) \/ \E s \in Slots : job[s] = j /\ pc[s] \in {"endtx", "launching"}

(* A timer is that of a request, which it does not survive, or of a job of  *)
(* this machine; the row of one being created may not be committed.         *)
TimersAreHome ==
  \A s \in Slots : pc[s] = "waiting" /\ mem[s].by = None =>
    /\ wrows[job[s]].state # "none" /\ RunsHere(wrows[job[s]])
    /\ jobs[job[s]].state # "none" \/ \E c \in Clients : writer = c /\ cpc[c] = "create"

RowInv ==
  /\ FreeIsCommitted
  /\ BusyWriters
  /\ RowsKeepIdentity
  /\ RequestsNeedOpen
  /\ ResumeIsHere
  /\ StartsAreSound
  /\ PausesEndSoundly
  /\ TimersAreHome

-----------------------------------------------------------------------------
(* What starting a job does.                                                *)
StartedIn(s, rows, pcs, n, j) ==
  /\ pc'[s] = "run"
  /\ \E chk \in {0, rows[j].chk} : mem'[s] = ActiveJob(n, rows[j], chk)
  /\ spawned' = s
  /\ wrows' = [rows EXCEPT ![j].state = "started"]

DeferredIn(s, rows, n, j, by) ==
  /\ rows[j].state = "queued" /\ rows[j].future
  /\ pc'[s] = "waiting" /\ mem'[s] = [NoMem EXCEPT !.sess = n, !.by = by]
  /\ spawned' = spawned
  /\ wrows' = rows

LEMMA LaunchEffect ==
  ASSUME TypeOK, NEW rows, NEW pcs \in [Slots -> GoPcs], NEW n, NEW j \in JobIds,
         Launched(rows, pcs, n, j)
  PROVE  \E s \in FreeSlots :
           /\ s \in Slots /\ job'[s] = j /\ StartedIn(s, rows, pcs, n, j)
           /\ \A t \in Slots \ {s} : pc'[t] = pcs[t] /\ mem'[t] = mem[t] /\ job'[t] = job[t]
<1>1. PICK s \in FreeSlots, chk \in {0, rows[j].chk} :
        /\ pc' = [pcs EXCEPT ![s] = "run"]
        /\ job' = [job EXCEPT ![s] = j]
        /\ mem' = [mem EXCEPT ![s] = ActiveJob(n, rows[j], chk)]
        /\ spawned' = s
        /\ wrows' = [rows EXCEPT ![j].state = "started"]
  BY DEF Launched, Launch
<1>2. s \in Slots
  BY DEF FreeSlots
<1> WITNESS s \in FreeSlots
<1> QED
  BY <1>1, <1>2 DEF TypeOK, StartedIn

LEMMA StartEffect ==
  ASSUME TypeOK, NEW rows, NEW pcs \in [Slots -> GoPcs], NEW n, NEW j \in JobIds, NEW by,
         StartJob(rows, pcs, n, j, by)
  PROVE  \E s \in FreeSlots :
           /\ s \in Slots /\ job'[s] = j
           /\ StartedIn(s, rows, pcs, n, j) \/ DeferredIn(s, rows, n, j, by)
           /\ \A t \in Slots \ {s} : pc'[t] = pcs[t] /\ mem'[t] = mem[t] /\ job'[t] = job[t]
<1>1. CASE Launched(rows, pcs, n, j)
  BY <1>1, LaunchEffect
<1>2. CASE Defer(rows, pcs, n, j, by) /\ rows[j].state = "queued" /\ rows[j].future
  <2>1. PICK s \in FreeSlots :
          /\ pc' = [pcs EXCEPT ![s] = "waiting"]
          /\ job' = [job EXCEPT ![s] = j]
          /\ mem' = [mem EXCEPT ![s] = [NoMem EXCEPT !.sess = n, !.by = by]]
          /\ wrows' = rows
          /\ UNCHANGED spawned
    BY <1>2 DEF Defer
  <2>2. s \in Slots
    BY DEF FreeSlots
  <2> WITNESS s \in FreeSlots
  <2> QED
    BY <1>2, <2>1, <2>2 DEF TypeOK, DeferredIn
<1> QED
  BY <1>1, <1>2 DEF StartJob, Launched

LEMMA FreshFields ==
  ASSUME NEW n, NEW row, NEW chk, NEW by, NEW d
  PROVE  /\ ActiveJob(n, row, chk).sess = n /\ ActiveJob(n, row, chk).by = None
         /\ ActiveJob(n, row, chk).pos = chk /\ ActiveJob(n, row, chk).prog = row.prog
         /\ ActiveJob(n, row, chk).chk = 0 /\ ~ActiveJob(n, row, chk).cancelled
         /\ ActiveJob(n, row, chk).result = None
         /\ [NoMem EXCEPT !.sess = n, !.by = by].sess = n
         /\ [NoMem EXCEPT !.sess = n, !.by = by].by = by
         /\ [NoMem EXCEPT !.sess = n, !.by = by].pos = 0
         /\ [NoMem EXCEPT !.sess = n, !.by = by].chk = 0
         /\ [NoMem EXCEPT !.sess = n, !.by = by].prog = 0
         /\ ~[NoMem EXCEPT !.sess = n, !.by = by].cancelled
         /\ [NoMem EXCEPT !.sess = n, !.by = by].result = None
         /\ [NoMem EXCEPT !.done = d].pos = 0 /\ [NoMem EXCEPT !.done = d].chk = 0
         /\ [NoMem EXCEPT !.done = d].prog = 0
         /\ ~[NoMem EXCEPT !.done = d].cancelled /\ [NoMem EXCEPT !.done = d].result = None
BY DEF ActiveJob, NoMem

(* What returning does.                                                     *)
LEMMA ReturnEffect ==
  ASSUME TypeOK, NEW s \in Slots, Return(s)
  PROVE  /\ pc'[s] = "free"
         /\ s = spawned => job'[s] = job[s] /\ mem'[s] = mem[s]
         /\ s # spawned => \E d : mem'[s] = [NoMem EXCEPT !.done = d]
         /\ \A t \in Slots \ {s} : pc'[t] = pc[t] /\ mem'[t] = mem[t] /\ job'[t] = job[t]
BY DEF Return, TypeOK

-----------------------------------------------------------------------------
(* Progress covers the checkpoint.                                          *)
Covered(rows) == \A j \in JobIds : rows[j].chk <= rows[j].prog

MemCovered == \A s \in Slots : mem[s].pos <= mem[s].prog /\ mem[s].chk <= mem[s].prog

LEMMA ProgressInit == Init => ProgressInv
BY JobsAssumption DEF Init, ProgressInv, NoRow, NoMem

LEMMA StartCovers ==
  ASSUME TypeOK, MemCovered,
         NEW rows \in [JobIds -> Row], Covered(rows),
         NEW pcs \in [Slots -> GoPcs], NEW n, NEW j \in JobIds, NEW by,
         StartJob(rows, pcs, n, j, by) \/ Launched(rows, pcs, n, j)
  PROVE  Covered(wrows') /\ MemCovered'
<1>1. PICK s \in Slots :
        /\ StartedIn(s, rows, pcs, n, j) \/ DeferredIn(s, rows, n, j, by)
        /\ \A t \in Slots \ {s} : mem'[t] = mem[t]
  BY StartEffect, LaunchEffect
<1>2. Covered(wrows')
  BY <1>1 DEF StartedIn, DeferredIn, Covered, Row
<1>3. mem'[s].pos <= mem'[s].prog /\ mem'[s].chk <= mem'[s].prog
  <2>1. rows[j].chk <= rows[j].prog /\ 0 <= rows[j].prog
    BY JobsAssumption DEF Covered, Row, MaxProgress
  <2>2. CASE StartedIn(s, rows, pcs, n, j)
    <3>1. /\ mem'[s].pos \in {0, rows[j].chk} /\ mem'[s].prog = rows[j].prog /\ mem'[s].chk = 0
      BY <2>2 DEF StartedIn, ActiveJob, NoMem
    <3> QED
      BY <2>1, <3>1
  <2>3. CASE DeferredIn(s, rows, n, j, by)
    <3>1. mem'[s].pos = 0 /\ mem'[s].prog = 0 /\ mem'[s].chk = 0
      BY <2>3 DEF DeferredIn, NoMem
    <3> QED
      BY <3>1
  <2> QED
    BY <1>1, <2>2, <2>3
<1> QED
  BY <1>1, <1>2, <1>3 DEF MemCovered

LEMMA ReturnCovers ==
  ASSUME TypeOK, MemCovered, NEW s \in Slots, Return(s)
  PROVE  MemCovered'
<1>1. CASE s # spawned
  <2>1. PICK d : mem'[s] = [NoMem EXCEPT !.done = d]
    BY <1>1, ReturnEffect
  <2>2. mem'[s].pos = 0 /\ mem'[s].prog = 0 /\ mem'[s].chk = 0
    BY <2>1 DEF NoMem
  <2> QED
    BY <2>2, ReturnEffect DEF MemCovered
<1> QED
  BY <1>1, ReturnEffect DEF MemCovered

LEMMA InsertCovers ==
  ASSUME TypeOK, Covered(jobs), NEW j \in JobIds, NEW h, NEW future
  PROVE  Covered(Insert(j, h, future))
BY DEF Insert, Covered, NoRow, TypeOK

LEMMA ProgressNext ==
  ASSUME TypeInv, ProgressInv, [Next]_vars
  PROVE  ProgressInv'
<1> USE DEF TypeInv
<1>0. /\ Covered(jobs) /\ Covered(wrows) /\ MemCovered
      /\ jobs \in [JobIds -> Row] /\ wrows \in [JobIds -> Row] /\ pc \in [Slots -> GoPcs]
      /\ mem \in [Slots -> Mem] /\ job \in [Slots -> JobIds]
  BY DEF ProgressInv, Covered, MemCovered, TypeOK
<1>1. SUFFICES Covered(jobs') /\ Covered(wrows') /\ MemCovered'
  BY DEF ProgressInv, Covered, MemCovered
<1>2. ASSUME NEW c \in Clients, RequestStep(c)
      PROVE  Covered(jobs') /\ Covered(wrows') /\ MemCovered'
  <2>1. ASSUME NEW j \in JobIds, NEW h \in Imports, NEW kind \in {"create", "schedule"},
               CreateJob(c, j, h, kind)
        PROVE  Covered(jobs') /\ Covered(wrows') /\ MemCovered'
    <3>1. CASE UNCHANGED <<dbVars, goVars>>
      BY <1>0, <3>1 DEF dbVars, goVars, Covered, MemCovered
    <3>2. CASE StartJob(Insert(j, h, kind = "schedule"), pc, session, j, None) /\ UNCHANGED jobs
      <4>1. Insert(j, h, kind = "schedule") \in [JobIds -> Row]
        BY InsertType DEF Hashes
      <4> QED
        BY <1>0, <3>2, <4>1, InsertCovers, StartCovers
    <3> QED
      BY <2>1, <3>1, <3>2 DEF CreateJob
  <2>2. ASSUME NEW j \in JobIds, RequestCancel(c, j)
        PROVE  Covered(jobs') /\ Covered(wrows') /\ MemCovered'
    <3>1. UNCHANGED dbVars
      BY <2>2 DEF RequestCancel
    <3>2. PICK s : mem' = mem \/ mem' = [mem EXCEPT ![s].cancelled = TRUE]
      BY <2>2 DEF RequestCancel
    <3>3. \A t \in Slots : /\ mem'[t].pos = mem[t].pos
                           /\ mem'[t].prog = mem[t].prog /\ mem'[t].chk = mem[t].chk
      BY <1>0, <3>2 DEF Mem
    <3> QED
      BY <1>0, <3>1, <3>3 DEF dbVars, MemCovered, Covered
  <2>3. CASE UNCHANGED <<dbVars, goVars>>
    BY <1>0, <2>3 DEF dbVars, goVars, Covered, MemCovered
  <2> QED
    BY <1>2, <2>1, <2>2, <2>3 DEF RequestStep, RequestStart, RequestPause, RequestUnpause
<1>3. ASSUME NEW c \in Clients, HandlerStep(c) \/ Disconnect(c)
      PROVE  Covered(jobs') /\ Covered(wrows') /\ MemCovered'
  <2>1. CASE BeginStart(c)
    <3> DEFINE j == req[c].job
               rows == IF req[c].op = "restart"
                         THEN [jobs EXCEPT ![j].chk = 0, ![j].prog = 0] ELSE jobs
    <3>1. j \in JobIds
      BY <2>1 DEF BeginStart, RequestsNameJobs
    <3>2. rows \in [JobIds -> Row] /\ Covered(rows)
      <4>1. \A row \in Row : [row EXCEPT !.chk = 0, !.prog = 0] \in Row
        BY ZeroInBounds DEF Row
      <4> DEFINE zero == [jobs[j] EXCEPT !.chk = 0, !.prog = 0]
      <4>2. rows = jobs \/ rows = [jobs EXCEPT ![j] = zero]
        BY <1>0, <3>1 DEF Row
      <4>3. zero \in Row /\ zero.chk = 0 /\ zero.prog = 0
        BY <1>0, <3>1, <4>1 DEF Row
      <4> HIDE DEF zero, rows
      <4> QED
        BY <1>0, <3>1, <4>2, <4>3 DEF Covered
    <3>3. CASE UNCHANGED <<dbVars, goVars>>
      BY <1>0, <3>3 DEF dbVars, goVars, Covered, MemCovered
    <3>4. CASE StartJob(rows, pc, session, j, c) /\ UNCHANGED jobs
      <4> HIDE DEF rows, j
      <4> QED
        BY <1>0, <3>1, <3>2, <3>4, StartCovers
    <3> QED
      BY <2>1, <3>3, <3>4 DEF BeginStart
  <2>2. CASE PauseInDB(c) \/ UnpauseInDB(c)
    <3>1. MemCovered'
      BY <1>0, <2>2 DEF PauseInDB, UnpauseInDB, goVars, MemCovered
    <3>2. \E x : Exec([jobs EXCEPT ![req[c].job].state = x])
      BY <2>2 DEF PauseInDB, UnpauseInDB
    <3>3. jobs' = wrows' /\ \A j \in JobIds : jobs'[j].chk = jobs[j].chk /\ jobs'[j].prog = jobs[j].prog
      BY <1>0, <3>2 DEF Exec, Row
    <3> QED
      BY <1>0, <3>1, <3>3 DEF Covered
  <2>3. CASE PauseSet(c) \/ UnpauseClose(c)
    <3>1. PICK s, x, y : \/ mem' = [mem EXCEPT ![s].paused = x]
                         \/ mem' = [mem EXCEPT ![s].paused = x, ![s].unpause = y]
      BY <2>3 DEF PauseSet, UnpauseClose
    <3>2. \A t \in Slots : /\ mem'[t].pos = mem[t].pos
                           /\ mem'[t].prog = mem[t].prog /\ mem'[t].chk = mem[t].chk
      BY <1>0, <3>1 DEF Mem
    <3>3. UNCHANGED dbVars
      BY <2>3 DEF PauseSet, UnpauseClose
    <3> QED
      BY <1>0, <3>2, <3>3 DEF dbVars, MemCovered, Covered
  <2>4. CASE CommitRequest(c) \/ CancelWaited(c) \/ BeginCancel(c) \/ UnpauseRead(c) \/ Disconnect(c)
    BY <1>0, <2>4
       DEF CommitRequest, CancelWaited, BeginCancel, UnpauseRead, Disconnect, Commit, Begin,
           Rollback, dbVars, goVars, Covered, MemCovered
  <2> QED
    BY <1>3, <2>1, <2>2, <2>3, <2>4 DEF HandlerStep
<1>4. ASSUME NEW s \in Slots, ActionStep(s) \/ Fail(s) \/ Panic(s)
      PROVE  Covered(jobs') /\ Covered(wrows') /\ MemCovered'
  <2>0. /\ mem[s].pos \in Nat /\ mem[s].prog \in Nat /\ mem[s].chk \in Nat
        /\ mem[s].pos <= mem[s].prog /\ mem[s].chk <= mem[s].prog
    BY <1>0 DEF Mem, MemCovered
  <2>1. CASE Work(s)
    <3>1. /\ mem'[s].pos = mem[s].pos + 1 /\ mem'[s].prog = mem[s].prog + 1
          /\ mem'[s].chk = mem[s].chk
          /\ \A t \in Slots \ {s} : mem'[t] = mem[t]
      BY <1>0, <2>1 DEF Work, Mem
    <3>2. UNCHANGED dbVars
      BY <2>1 DEF Work
    <3>3. mem'[s].pos <= mem'[s].prog /\ mem'[s].chk <= mem'[s].prog
      BY <2>0, <3>1
    <3> QED
      BY <1>0, <3>1, <3>2, <3>3 DEF dbVars, Covered, MemCovered
  <2>2. CASE Checkpoint(s)
    <3>1. /\ mem'[s].pos = mem[s].pos /\ mem'[s].prog = mem[s].prog
          /\ mem'[s].chk = mem[s].pos
          /\ \A t \in Slots \ {s} : mem'[t] = mem[t]
      BY <1>0, <2>2 DEF Checkpoint, Mem
    <3>2. CASE UNCHANGED dbVars
      BY <1>0, <2>0, <3>1, <3>2 DEF dbVars, Covered, MemCovered
    <3>3. CASE Exec([jobs EXCEPT ![job[s]].chk = mem[s].pos, ![job[s]].prog = mem[s].prog])
      <4>1. jobs' = wrows' /\ jobs'[job[s]].chk = mem[s].pos /\ jobs'[job[s]].prog = mem[s].prog
            /\ \A j \in JobIds \ {job[s]} : jobs'[j] = jobs[j]
        BY <1>0, <3>3 DEF Exec, Row
      <4> QED
        BY <1>0, <2>0, <3>1, <4>1 DEF Covered, MemCovered
    <3> QED
      BY <2>2, <3>2, <3>3 DEF Checkpoint
  <2>3. CASE ContinueCancelled(s) \/ Succeed(s) \/ Fail(s)
    <3>1. PICK x : mem' = [mem EXCEPT ![s].result = x, ![s].unpause = None] /\ UNCHANGED dbVars
      BY <2>3 DEF ContinueCancelled, Succeed, Fail, End
    <3>2. \A t \in Slots : /\ mem'[t].pos = mem[t].pos
                           /\ mem'[t].prog = mem[t].prog /\ mem'[t].chk = mem[t].chk
      BY <1>0, <3>1 DEF Mem
    <3> QED
      BY <1>0, <3>1, <3>2 DEF dbVars, MemCovered, Covered
  <2>4. CASE \E c \in Clients : ContinuePaused(s, c)
    <3>1. PICK x : mem' = [mem EXCEPT ![s].unpause = x] /\ UNCHANGED dbVars
      BY <2>4 DEF ContinuePaused
    <3>2. \A t \in Slots : /\ mem'[t].pos = mem[t].pos
                           /\ mem'[t].prog = mem[t].prog /\ mem'[t].chk = mem[t].chk
      BY <1>0, <3>1 DEF Mem
    <3> QED
      BY <1>0, <3>1, <3>2 DEF dbVars, MemCovered, Covered
  <2>5. CASE ContinueUnpaused(s) \/ Panic(s) \/ CommitChild(s)
    BY <1>0, <2>5 DEF ContinueUnpaused, Panic, CommitChild, Commit, dbVars, Covered, MemCovered
  <2> QED
    BY <1>4, <2>1, <2>2, <2>3, <2>4, <2>5 DEF ActionStep
<1>5. ASSUME NEW s \in Slots, NEW j \in JobIds, NEW kind \in ChildKinds, CreateChild(s, j, kind)
      PROVE  Covered(jobs') /\ Covered(wrows') /\ MemCovered'
  <2> DEFINE h == <<kind, job[s]>>
             pcs == [pc EXCEPT ![s] = "creating"]
             rows == Insert(j, h, FALSE)
  <2>1. h \in Hashes /\ pcs \in [Slots -> GoPcs]
    BY <1>0 DEF Hashes, GoPcs
  <2>2. rows \in [JobIds -> Row] /\ Covered(rows)
    BY <1>0, <2>1, InsertType, InsertCovers
  <2>3. StartJob(rows, pcs, mem[s].sess, j, None) /\ UNCHANGED jobs
    BY <1>5 DEF CreateChild
  <2> HIDE DEF rows, pcs
  <2> QED
    BY <1>0, <2>1, <2>2, <2>3, StartCovers
<1>6. ASSUME NEW s \in Slots, GoroutineStep(s)
      PROVE  Covered(jobs') /\ Covered(wrows') /\ MemCovered'
  <2>1. CASE EndJob(s)
    <3> DEFINE rows == FinalRows(s)
               pcs == [pc EXCEPT ![s] = "endtx"]
               r == mem[s].result
               row == [jobs[job[s]] EXCEPT !.state = r, !.prog = mem[s].prog,
                         !.chk = IF r = "succeeded" THEN 0 ELSE mem[s].chk]
    <3>1. /\ job[s] \in JobIds /\ jobs[job[s]] \in Row /\ mem[s] \in Mem /\ r \in States
          /\ mem[s].prog \in 0..MaxProgress /\ mem[s].chk \in 0..Units
          /\ mem[s].chk <= mem[s].prog
      BY <1>0, <2>1 DEF EndJob, EndingHasResult, Mem, MemCovered, Ended, States
    <3>2. rows = [jobs EXCEPT ![job[s]] = row]
      BY <1>0, <3>1 DEF FinalRows, Row
    <3>3. row \in Row /\ row.chk <= row.prog
      <4>1. /\ row.chk = IF r = "succeeded" THEN 0 ELSE mem[s].chk
            /\ row.prog = mem[s].prog
        BY <3>1 DEF Row
      <4>2. row.chk \in 0..Units /\ row.chk <= row.prog
        BY <3>1, <4>1, ZeroInBounds, JobsAssumption DEF MaxProgress
      <4>3. row \in Row
        BY <3>1, ZeroInBounds DEF Row
      <4> QED
        BY <4>2, <4>3
    <3> HIDE DEF row
    <3>4. rows \in [JobIds -> Row] /\ Covered(rows) /\ pcs \in [Slots -> GoPcs]
      BY <1>0, <3>2, <3>3 DEF Covered, GoPcs
    <3> HIDE DEF rows, pcs
    <3>5. /\ UNCHANGED jobs
          /\ \/ wrows' = rows /\ UNCHANGED mem
             \/ \E j \in JobIds : StartJob(rows, pcs, mem[s].sess, j, None)
      BY <2>1 DEF EndJob, First, Queue, rows, pcs
    <3>6. CASE wrows' = rows /\ UNCHANGED mem
      BY <1>0, <3>4, <3>5, <3>6 DEF MemCovered
    <3>7. CASE \E j \in JobIds : StartJob(rows, pcs, mem[s].sess, j, None)
      BY <1>0, <3>4, <3>5, <3>7, StartCovers
    <3> QED
      BY <3>5, <3>6, <3>7
  <2>2. CASE WaiterFires(s)
    <3> DEFINE pcs == [pc EXCEPT ![s] = "launching"]
    <3>1. pcs \in [Slots -> GoPcs]
      BY <1>0 DEF GoPcs
    <3>2. CASE Return(s) /\ UNCHANGED dbVars
      BY <1>0, <3>2, ReturnCovers DEF dbVars
    <3>3. CASE Launched(jobs, pcs, mem[s].sess, job[s]) /\ UNCHANGED jobs
      <4> HIDE DEF pcs
      <4> QED
        BY <1>0, <3>1, <3>3, StartCovers
    <3> QED
      BY <2>2, <3>2, <3>3 DEF WaiterFires, Launched
  <2>3. CASE Unregister(s) \/ WaiterGivesUp(s) \/ CommitWaiter(s)
    <3>1. MemCovered'
      BY <1>0, <2>3, ReturnCovers DEF Unregister, WaiterGivesUp, CommitWaiter
    <3> QED
      BY <1>0, <2>3, <3>1 DEF Unregister, WaiterGivesUp, CommitWaiter, Commit, dbVars
  <2>4. CASE CommitEnd(s)
    BY <1>0, <2>4 DEF CommitEnd, Commit, MemCovered
  <2>5. CASE CloseDone(s)
    <3>1. mem' = [mem EXCEPT ![s].done = TRUE] /\ UNCHANGED dbVars
      BY <2>5 DEF CloseDone
    <3>2. \A t \in Slots : /\ mem'[t].pos = mem[t].pos
                           /\ mem'[t].prog = mem[t].prog /\ mem'[t].chk = mem[t].chk
      BY <1>0, <3>1 DEF Mem
    <3> QED
      BY <1>0, <3>1, <3>2 DEF dbVars, MemCovered, Covered
  <2> QED
    BY <1>6, <2>1, <2>2, <2>3, <2>4, <2>5 DEF GoroutineStep
<1>7. ASSUME NEW j \in JobIds, StartTimeComes(j)
      PROVE  Covered(jobs') /\ Covered(wrows') /\ MemCovered'
  <2>1. jobs' = wrows' /\ \A k \in JobIds : jobs'[k].chk = jobs[k].chk /\ jobs'[k].prog = jobs[k].prog
    BY <1>0, <1>7 DEF StartTimeComes, Exec, Row
  <2> QED
    BY <1>0, <1>7, <2>1 DEF StartTimeComes, goVars, Covered, MemCovered
<1>8. ASSUME NEW h \in Hosts, NEW R \in SUBSET JobIds, OpenTimeline(h, R)
      PROVE  Covered(jobs') /\ Covered(wrows') /\ MemCovered'
  <2>1. jobs' = wrows' /\ \A k \in JobIds : jobs'[k].chk = jobs[k].chk /\ jobs'[k].prog = jobs[k].prog
    BY <1>0, <1>8 DEF OpenTimeline, Exec, Row
  <2> QED
    BY <1>0, <1>8, <2>1 DEF OpenTimeline, goVars, Covered, MemCovered
<1>9. CASE OpenStep
  <2>1. CASE \E j \in JobIds : OpenStarts(j)
    <3>1. PICK j \in JobIds : StartJob(jobs, pc, session, j, None) /\ UNCHANGED jobs
      BY <2>1 DEF OpenStarts
    <3> QED
      BY <1>0, <3>1, StartCovers
  <2>2. CASE OpenCommits \/ OpenReturns \/ \E j \in JobIds : OpenFails(j)
    BY <1>0, <2>2
       DEF OpenCommits, OpenReturns, OpenFails, Commit, dbVars, goVars, Covered, MemCovered
  <2> QED
    BY <1>9, <2>1, <2>2 DEF OpenStep
<1>10. CASE Stop
  BY <1>0, <1>10, JobsAssumption DEF Stop, NoMem, Covered, MemCovered
<1>11. CASE Register \/ UNCHANGED vars
  BY <1>0, <1>11 DEF Register, vars, dbVars, goVars, Covered, MemCovered
<1> QED
  BY <1>2, <1>3, <1>4, <1>5, <1>6, <1>7, <1>8, <1>9, <1>10, <1>11 DEF Next

(* What the row's checkpoint says was done, its progress counts, however    *)
(* the job was checkpointed, cancelled, restarted or interrupted: progress  *)
(* and checkpoint are added to, written and reset together                  *)
(* (jobs.go:776-803).                                                       *)
THEOREM ProgressIsCounted == Spec => []ProgressCoversCheckpoint
<1>1. Spec => []TypeInv
  BY TypeInit, TypeNext, PTL DEF Spec
<1>2. Spec => []ProgressInv
  BY <1>1, ProgressInit, ProgressNext, PTL DEF Spec
<1>3. ProgressInv => ProgressCoversCheckpoint
  BY DEF ProgressInv, ProgressCoversCheckpoint
<1> QED
  BY <1>2, <1>3, PTL

-----------------------------------------------------------------------------
(* RequestsNeedOpen is inductive by itself: once a timeline is open, only   *)
(* Stop closes it, which ends every goroutine and request.                  *)
OpenStays == repo.state = "open" => repo'.state = "open"

QuietMem ==
  \A s \in Slots : mem'[s].cancelled \/ mem'[s].result = "aborted" =>
    mem[s].cancelled \/ mem[s].result = "aborted" \/ repo.state = "open"

QuietCpc == \A c \in Clients : cpc'[c] # "idle" => cpc[c] # "idle" \/ repo.state = "open"

LEMMA OpenStep1 ==
  ASSUME RequestsNeedOpen, OpenStays, QuietMem, QuietCpc,
         repo'.resume # {} => repo'.state = "opening"
  PROVE  RequestsNeedOpen'
BY DEF RequestsNeedOpen, OpenStays, QuietMem, QuietCpc

LEMMA StartQuietMem ==
  ASSUME TypeOK, NEW rows, NEW pcs \in [Slots -> GoPcs], NEW n, NEW j \in JobIds, NEW by,
         StartJob(rows, pcs, n, j, by) \/ Launched(rows, pcs, n, j)
  PROVE  QuietMem
<1>1. PICK s \in Slots :
        /\ StartedIn(s, rows, pcs, n, j) \/ DeferredIn(s, rows, n, j, by)
        /\ \A t \in Slots \ {s} : mem'[t] = mem[t]
  BY StartEffect, LaunchEffect
<1>2. ~mem'[s].cancelled /\ mem'[s].result = None
  <2>1. CASE StartedIn(s, rows, pcs, n, j)
    BY <2>1 DEF StartedIn, ActiveJob, NoMem
  <2>2. CASE DeferredIn(s, rows, n, j, by)
    BY <2>2 DEF DeferredIn, NoMem
  <2> QED
    BY <1>1, <2>1, <2>2
<1>3. None # "aborted"
  BY JobsAssumption
<1> QED
  BY <1>1, <1>2, <1>3 DEF QuietMem

LEMMA ReturnQuietMem ==
  ASSUME TypeOK, NEW s \in Slots, Return(s)
  PROVE  QuietMem
<1>1. CASE s # spawned
  <2>1. PICK d : mem'[s] = [NoMem EXCEPT !.done = d]
    BY <1>1, ReturnEffect
  <2>2. ~mem'[s].cancelled /\ mem'[s].result # "aborted"
    BY <2>1, JobsAssumption DEF NoMem
  <2> QED
    BY <2>2, ReturnEffect DEF QuietMem
<1> QED
  BY <1>1, ReturnEffect DEF QuietMem

(* Steps that keep the flags of every ActiveJob.                            *)
SameFlags ==
  \A s \in Slots : mem'[s].cancelled = mem[s].cancelled /\ mem'[s].result = mem[s].result

LEMMA ActorFlags ==
  ASSUME TypeOK, NEW s,
         \/ \E x : mem' = [mem EXCEPT ![s].paused = x]
         \/ \E x, y : mem' = [mem EXCEPT ![s].paused = x, ![s].unpause = y]
         \/ \E x : mem' = [mem EXCEPT ![s].unpause = x]
         \/ \E x, y : mem' = [mem EXCEPT ![s].pos = x, ![s].prog = y]
         \/ \E x : mem' = [mem EXCEPT ![s].chk = x]
         \/ \E x : mem' = [mem EXCEPT ![s].done = x]
         \/ UNCHANGED mem
  PROVE  SameFlags
<1>0. mem \in [Slots -> Mem]
  BY DEF TypeOK
<1>1. CASE \E x, y : mem' = [mem EXCEPT ![s].paused = x, ![s].unpause = y]
  BY <1>0, <1>1 DEF SameFlags, Mem
<1>2. CASE \E x, y : mem' = [mem EXCEPT ![s].pos = x, ![s].prog = y]
  BY <1>0, <1>2 DEF SameFlags, Mem
<1>3. CASE \E x : \/ mem' = [mem EXCEPT ![s].paused = x]
                  \/ mem' = [mem EXCEPT ![s].unpause = x]
  BY <1>0, <1>3 DEF SameFlags, Mem
<1>4. CASE \E x : \/ mem' = [mem EXCEPT ![s].chk = x]
                  \/ mem' = [mem EXCEPT ![s].done = x]
  BY <1>0, <1>4 DEF SameFlags, Mem
<1>5. CASE UNCHANGED mem
  BY <1>5 DEF SameFlags
<1> QED
  BY <1>1, <1>2, <1>3, <1>4, <1>5

LEMMA ClientCpc ==
  ASSUME TypeOK, NEW c \in Clients, cpc[c] # "idle" \/ repo.state = "open" \/ cpc' = cpc,
         \A d \in Clients \ {c} : cpc'[d] = cpc[d]
  PROVE  QuietCpc
BY DEF QuietCpc

LEMMA OpenNext ==
  ASSUME TypeInv, RequestsNeedOpen, [Next]_vars
  PROVE  RequestsNeedOpen'
<1> USE DEF TypeInv
<1>0. /\ pc \in [Slots -> GoPcs] /\ mem \in [Slots -> Mem] /\ job \in [Slots -> JobIds]
      /\ cpc \in [Clients -> ReqPcs] /\ jobs \in [JobIds -> Row] /\ repo \in Repo
  BY DEF TypeOK
<1>1. ASSUME SameFlags PROVE QuietMem
  BY <1>1 DEF SameFlags, QuietMem
<1>2. ASSUME UNCHANGED repo PROVE OpenStays /\ (repo'.resume # {} => repo'.state = "opening")
  BY <1>2 DEF OpenStays, RequestsNeedOpen
<1>3. ASSUME NEW c \in Clients, RequestStep(c)
      PROVE  RequestsNeedOpen'
  <2>1. repo.state = "open" /\ UNCHANGED repo
    BY <1>3 DEF RequestStep, CreateJob, RequestStart, RequestCancel, RequestPause,
                RequestUnpause, Idle, IsOpen, envVars
  <2> QED
    BY <1>2, <2>1, OpenStep1 DEF QuietMem, QuietCpc
<1>4. ASSUME NEW c \in Clients, HandlerStep(c) \/ Disconnect(c)
      PROVE  RequestsNeedOpen'
  <2>1. UNCHANGED repo
    BY <1>4 DEF HandlerStep, CommitRequest, BeginStart, CancelWaited, BeginCancel, PauseInDB,
                PauseSet, UnpauseRead, UnpauseInDB, UnpauseClose, Disconnect, envVars
  <2>2. cpc[c] # "idle"
    BY <1>4 DEF HandlerStep, CommitRequest, BeginStart, CancelWaited, BeginCancel, PauseInDB,
                PauseSet, UnpauseRead, UnpauseInDB, UnpauseClose, Disconnect
  <2>3. repo.state = "open"
    BY <2>2 DEF RequestsNeedOpen
  <2> QED
    BY <1>2, <2>1, <2>3, OpenStep1 DEF QuietMem, QuietCpc
<1>5. ASSUME NEW s \in Slots, ActionStep(s) \/ Fail(s) \/ Panic(s)
      PROVE  RequestsNeedOpen'
  <2>1. UNCHANGED repo
    BY <1>5 DEF ActionStep, Work, Checkpoint, ContinueCancelled, ContinuePaused,
                ContinueUnpaused, Succeed, CommitChild, Fail, Panic, End, envVars
  <2>2. QuietCpc
    <3>1. CASE \E c \in Clients : ContinuePaused(s, c)
      BY <1>0, <3>1 DEF ContinuePaused, Senders, QuietCpc
    <3>2. CASE UNCHANGED cpc
      BY <3>2 DEF QuietCpc
    <3> QED
      BY <1>5, <3>1, <3>2
         DEF ActionStep, Work, Checkpoint, ContinueCancelled, ContinueUnpaused, Succeed,
             CommitChild, Fail, Panic, End, reqVars
  <2>3. QuietMem
    <3>1. CASE ContinueCancelled(s)
      <4>1. mem[s].cancelled /\ \A t \in Slots \ {s} : mem'[t] = mem[t]
        BY <1>0, <3>1 DEF ContinueCancelled, End
      <4> QED
        BY <4>1 DEF QuietMem
    <3>2. CASE Succeed(s) \/ Fail(s)
      <4>1. PICK r \in {"succeeded", "failed"} :
              mem' = [mem EXCEPT ![s].result = r, ![s].unpause = None]
        BY <3>2 DEF Succeed, Fail, End
      <4>2. /\ mem'[s].result = r /\ mem'[s].cancelled = mem[s].cancelled
            /\ \A t \in Slots \ {s} : mem'[t] = mem[t]
        BY <1>0, <4>1 DEF Mem
      <4> QED
        BY <4>2 DEF QuietMem
    <3>3. CASE Work(s)
      BY <1>1, <3>3, ActorFlags DEF Work
    <3>4. CASE Checkpoint(s)
      BY <1>1, <3>4, ActorFlags DEF Checkpoint
    <3>5. CASE \E c \in Clients : ContinuePaused(s, c)
      BY <1>1, <3>5, ActorFlags DEF ContinuePaused
    <3>6. CASE UNCHANGED mem
      BY <3>6 DEF QuietMem
    <3> QED
      BY <1>5, <3>1, <3>2, <3>3, <3>4, <3>5, <3>6
         DEF ActionStep, ContinueUnpaused, CommitChild, Panic
  <2> QED
    BY <1>2, <2>1, <2>2, <2>3, OpenStep1
<1>6. ASSUME NEW s \in Slots,
             \/ GoroutineStep(s)
             \/ \E j \in JobIds, kind \in ChildKinds : CreateChild(s, j, kind)
      PROVE  RequestsNeedOpen'
  <2>1. UNCHANGED repo /\ UNCHANGED cpc
    BY <1>6 DEF GoroutineStep, CreateChild, EndJob, CommitEnd, CloseDone, Unregister,
                WaiterGivesUp, WaiterFires, CommitWaiter, envVars, reqVars
  <2>2. [pc EXCEPT ![s] = "endtx"] \in [Slots -> GoPcs]
        /\ [pc EXCEPT ![s] = "launching"] \in [Slots -> GoPcs]
        /\ [pc EXCEPT ![s] = "creating"] \in [Slots -> GoPcs]
    BY <1>0 DEF GoPcs
  <2>3. QuietMem
    <3>1. CASE EndJob(s)
      <4>1. \/ UNCHANGED mem
            \/ \E j \in JobIds :
                 StartJob(FinalRows(s), [pc EXCEPT ![s] = "endtx"], mem[s].sess, j, None)
        BY <3>1 DEF EndJob, First, Queue
      <4> QED
        BY <2>2, <4>1, StartQuietMem DEF QuietMem
    <3>2. CASE \E j \in JobIds, kind \in ChildKinds : CreateChild(s, j, kind)
      BY <2>2, <3>2, StartQuietMem DEF CreateChild
    <3>3. CASE WaiterFires(s)
      BY <1>0, <2>2, <3>3, StartQuietMem, ReturnQuietMem DEF WaiterFires, Launched
    <3>4. CASE Unregister(s) \/ WaiterGivesUp(s) \/ CommitWaiter(s)
      BY <3>4, ReturnQuietMem DEF Unregister, WaiterGivesUp, CommitWaiter
    <3>5. CASE CloseDone(s)
      BY <1>1, <3>5, ActorFlags DEF CloseDone
    <3>6. CASE UNCHANGED mem
      BY <3>6 DEF QuietMem
    <3> QED
      BY <1>6, <3>1, <3>2, <3>3, <3>4, <3>5, <3>6 DEF GoroutineStep, CommitEnd
  <2> QED
    BY <1>2, <2>1, <2>3, OpenStep1 DEF QuietCpc
<1>7. CASE OpenStep
  <2>1. UNCHANGED cpc
    BY <1>7 DEF OpenStep, OpenStarts, OpenCommits, OpenFails, OpenReturns, reqVars
  <2>2. QuietMem
    <3>1. CASE \E j \in JobIds : OpenStarts(j)
      BY <1>0, <3>1, StartQuietMem DEF OpenStarts
    <3>2. CASE UNCHANGED mem
      BY <3>2 DEF QuietMem
    <3> QED
      BY <1>7, <3>1, <3>2 DEF OpenStep, OpenCommits, OpenFails, OpenReturns, goVars
  <2>3. OpenStays /\ (repo'.resume # {} => repo'.state = "opening")
    BY <1>0, <1>7 DEF OpenStep, OpenStarts, OpenCommits, OpenFails, OpenReturns, envVars,
                      OpenStays, RequestsNeedOpen, Repo
  <2> QED
    BY <2>1, <2>2, <2>3, OpenStep1 DEF QuietCpc
<1>8. CASE \E h \in Hosts, R \in SUBSET JobIds : OpenTimeline(h, R)
  BY <1>8 DEF OpenTimeline, goVars, reqVars, RequestsNeedOpen
<1>9. CASE Stop
  BY <1>0, <1>9, JobsAssumption DEF Stop, RequestsNeedOpen, NoMem, Repo
<1>10. CASE Register \/ (\E j \in JobIds : StartTimeComes(j)) \/ UNCHANGED vars
  BY <1>10 DEF Register, StartTimeComes, vars, dbVars, goVars, reqVars, envVars, RequestsNeedOpen
<1> QED
  BY <1>3, <1>4, <1>5, <1>6, <1>7, <1>8, <1>9, <1>10 DEF Next

-----------------------------------------------------------------------------
(* RowInv, step by step.  In every step but a few, whoever is not among X   *)
(* keeps its place in a transaction, and no timer appears.                  *)
InTx == {"create", "start", "cancelStuck"}
GoInTx == {"creating", "endtx", "launching"}

QuietBut(X) ==
  /\ repo'.host = repo.host /\ repo'.resume \subseteq repo.resume
  /\ \A c \in Clients \ X : cpc[c] \in InTx \/ cpc'[c] \in InTx =>
       cpc'[c] = cpc[c] /\ req'[c].job = req[c].job
  /\ \A s \in Slots \ X :
       /\ pc[s] \in GoInTx \/ pc'[s] \in GoInTx => pc'[s] = pc[s] /\ job'[s] = job[s]
       /\ pc'[s] = "waiting" =>
            pc[s] = "waiting" /\ job'[s] = job[s] /\ mem'[s].by = mem[s].by

LEMMA QuietRows ==
  ASSUME RowInv, RequestsNeedOpen', QuietBut({}), UNCHANGED dbVars,
         writer = None => spawned' = None
  PROVE  RowInv'
<1> USE DEF RowInv, dbVars, QuietBut, InTx, GoInTx
<1>1. FreeIsCommitted' /\ RowsKeepIdentity'
  BY DEF FreeIsCommitted, RowsKeepIdentity
<1>2. BusyWriters'
  BY DEF BusyWriters
<1>3. ResumeIsHere'
  BY DEF ResumeIsHere
<1>4. \A j \in JobIds : Asked(j) => Asked(j)'
  BY DEF Asked
<1>5. StartsAreSound'
  BY <1>4 DEF StartsAreSound, RunsHere
<1>6. PausesEndSoundly'
  BY <1>4 DEF PausesEndSoundly
<1>7. TimersAreHome'
  <2> SUFFICES ASSUME NEW s \in Slots, pc'[s] = "waiting", mem'[s].by = None
               PROVE  /\ wrows[job[s]].state # "none" /\ RunsHere(wrows[job[s]])'
                      /\ \/ jobs[job[s]].state # "none"
                         \/ \E c \in Clients : writer = c /\ cpc'[c] = "create"
    BY DEF TimersAreHome
  <2>1. pc[s] = "waiting" /\ mem[s].by = None
    OBVIOUS
  <2>2. RunsHere(wrows[job[s]])' = RunsHere(wrows[job[s]])
    BY DEF RunsHere
  <2> QED
    BY <2>1, <2>2 DEF TimersAreHome
<1> QED
  BY <1>1, <1>2, <1>3, <1>5, <1>6, <1>7

(* A write of its own that lets every row keep its machine and hash.        *)
LEMMA ExecRows ==
  ASSUME RowInv, RequestsNeedOpen', QuietBut({}), NEW rows, Exec(rows),
         spawned' = spawned, job \in [Slots -> JobIds], repo.resume \in SUBSET JobIds,
         \A j \in JobIds : jobs[j].state # "none" =>
           /\ rows[j].state # "none"
           /\ rows[j].host = jobs[j].host /\ rows[j].hash = jobs[j].hash,
         \A j \in repo.resume : rows[j].state \notin {"paused", "aborted"}
  PROVE  RowInv'
<1> USE DEF RowInv, Exec, QuietBut, InTx, GoInTx
<1>1. FreeIsCommitted' /\ RowsKeepIdentity' /\ StartsAreSound' /\ PausesEndSoundly'
  BY DEF FreeIsCommitted, RowsKeepIdentity, StartsAreSound, PausesEndSoundly
<1>2. BusyWriters'
  BY DEF BusyWriters
<1>3. ResumeIsHere'
  BY DEF ResumeIsHere
<1>4. TimersAreHome'
  <2> SUFFICES ASSUME NEW s \in Slots, pc'[s] = "waiting", mem'[s].by = None
               PROVE  rows[job[s]].state # "none" /\ RunsHere(rows[job[s]])'
    BY DEF TimersAreHome
  <2>1. /\ pc[s] = "waiting" /\ mem[s].by = None /\ job[s] \in JobIds
        /\ jobs[job[s]].state # "none" /\ RunsHere(jobs[job[s]])
    BY DEF TimersAreHome, FreeIsCommitted, BusyWriters
  <2> QED
    BY <2>1 DEF RunsHere
<1> QED
  BY <1>1, <1>2, <1>3, <1>4

(* The end of a transaction, committed or not.                              *)
LEMMA EndRows ==
  ASSUME RowInv, RequestsNeedOpen', NEW x, QuietBut({x}), writer = x, x # None,
         spawned = None, spawned' = None, writer' = None,
         jobs' = wrows' /\ wrows' \in {jobs, wrows},
         x \in Clients => cpc'[x] \notin InTx /\ cpc[x] \in InTx,
         x \in Slots => pc'[x] \notin GoInTx \cup {"waiting"},
         wrows' = wrows \/ (x \in Clients /\ cpc[x] # "create"),
         job \in [Slots -> JobIds], repo.resume \in SUBSET JobIds, Slots \cap Clients = {}
  PROVE  RowInv'
<1>1. FreeIsCommitted' /\ RowsKeepIdentity' /\ StartsAreSound' /\ PausesEndSoundly'
  <2>1. jobs' = wrows'
    OBVIOUS
  <2>2. FreeIsCommitted'
    BY <2>1 DEF FreeIsCommitted
  <2>3. RowsKeepIdentity'
    BY <2>1 DEF RowsKeepIdentity
  <2>4. StartsAreSound' /\ PausesEndSoundly'
    BY <2>1 DEF StartsAreSound, PausesEndSoundly
  <2> QED
    BY <2>2, <2>3, <2>4
<1> USE DEF RowInv, QuietBut, InTx, GoInTx
<1>2. BusyWriters'
  BY JobsAssumption DEF BusyWriters
<1>3. ResumeIsHere'
  <2> SUFFICES ASSUME NEW j \in repo'.resume
               PROVE  /\ jobs'[j].host = repo.host
                      /\ jobs'[j].state \notin {"none", "paused", "aborted"}
    BY DEF ResumeIsHere
  <2>1. /\ j \in JobIds /\ jobs[j].host = repo.host
        /\ jobs[j].state \notin {"none", "paused", "aborted"}
        /\ wrows[j].state \notin {"none", "paused", "aborted"}
    BY DEF ResumeIsHere
  <2>2. wrows[j].host = jobs[j].host
    BY <2>1 DEF RowsKeepIdentity
  <2>3. CASE jobs' = jobs
    BY <2>1, <2>3
  <2>4. CASE jobs' = wrows
    BY <2>1, <2>2, <2>4
  <2> QED
    BY <2>3, <2>4
<1>4. TimersAreHome'
  <2> SUFFICES ASSUME NEW s \in Slots, pc'[s] = "waiting", mem'[s].by = None
               PROVE  (wrows[job[s]].state # "none" /\ RunsHere(wrows[job[s]]))'
    BY DEF TimersAreHome
  <2>0. s # x
    OBVIOUS
  <2>1. /\ pc[s] = "waiting" /\ mem[s].by = None /\ job[s] \in JobIds /\ job'[s] = job[s]
        /\ wrows[job[s]].state # "none" /\ RunsHere(wrows[job[s]])
        /\ jobs[job[s]].state # "none" \/ cpc[x] = "create"
    BY <2>0 DEF TimersAreHome
  <2>2. CASE wrows' = wrows
    BY <2>1, <2>2 DEF RunsHere
  <2>3. CASE wrows' = jobs /\ cpc[x] # "create"
    BY <2>1, <2>3 DEF RunsHere, RowsKeepIdentity
  <2> QED
    BY <2>2, <2>3
<1> QED
  BY <1>1, <1>2, <1>3, <1>4

(* The beginning of a transaction of owner that starts job j, or puts it    *)
(* off, in goroutine s; rows is what it has written before.                 *)
LEMMA BeginRows ==
  ASSUME TypeOK, RowInv, RequestsNeedOpen', writer = None, jobs' = jobs,
         NEW owner \in Slots \cup Clients \cup {"opener"}, writer' = owner,
         NEW s \in Slots, s # owner, pc'[s] \in {"run", "waiting"},
         QuietBut({owner, s}),
         owner \in Clients => cpc'[owner] \in InTx,
         owner \in Slots => pc'[owner] \in GoInTx,
         NEW rows \in [JobIds -> Row], NEW j \in JobIds, job'[s] = j,
         wrows' = rows \/ wrows' = [rows EXCEPT ![j].state = "started"],
         \A k \in JobIds : jobs[k].state # "none" =>
           /\ rows[k].state # "none"
           /\ rows[k].host = jobs[k].host /\ rows[k].hash = jobs[k].hash,
         \A k \in JobIds : rows[k].state = "started" => jobs[k].state = "started",
         \A k \in JobIds : jobs[k].state = "paused" /\ rows[k].state # "paused" =>
           owner \in Slots /\ job'[owner] = k /\ pc'[owner] = "endtx",
         \A k \in repo'.resume : rows[k].state \notin {"paused", "aborted"},
         \/ Asked(j)'
         \/ /\ jobs[j].state # "aborted" /\ RunsHere(rows[j])
            /\ jobs[j].state = "paused" =>
                 owner \in Slots /\ job'[owner] = j /\ pc'[owner] \in {"endtx", "launching"},
         pc'[s] = "waiting" /\ mem'[s].by = None =>
           /\ rows[j].state # "none" /\ RunsHere(rows[j])
           /\ jobs[j].state # "none" \/ (owner \in Clients /\ cpc'[owner] = "create")
  PROVE  RowInv'
<1>0. repo.resume \in SUBSET JobIds /\ Slots \cap Clients = {} /\ writer' # None
      /\ job \in [Slots -> JobIds] /\ repo'.host = repo.host
  BY JobsAssumption DEF TypeOK, Repo, QuietBut
<1>1. \A k \in JobIds : /\ wrows'[k].host = rows[k].host /\ wrows'[k].hash = rows[k].hash
                        /\ wrows'[k].state = rows[k].state
                             \/ (k = j /\ wrows'[k].state = "started")
  BY DEF Row
<1>2. RowsKeepIdentity'
  BY <1>1 DEF RowsKeepIdentity
<1>3. FreeIsCommitted'
  BY <1>0 DEF FreeIsCommitted
<1>4. BusyWriters'
  <2>1. ASSUME NEW c \in Clients
        PROVE  cpc'[c] \in InTx <=> owner = c
    <3>1. cpc[c] \notin InTx /\ c # s
      BY <1>0, JobsAssumption DEF RowInv, BusyWriters, InTx
    <3> QED
      BY <3>1 DEF QuietBut
  <2>2. ASSUME NEW t \in Slots
        PROVE  pc'[t] \in GoInTx <=> owner = t
    <3>1. pc[t] \notin GoInTx
      BY JobsAssumption DEF RowInv, BusyWriters, GoInTx
    <3>2. CASE t = s
      BY <3>2 DEF GoInTx
    <3> QED
      BY <3>1, <3>2 DEF QuietBut
  <2> QED
    BY <2>1, <2>2 DEF BusyWriters, InTx, GoInTx
<1>5. ResumeIsHere'
  BY <1>0, <1>1 DEF RowInv, ResumeIsHere, QuietBut
<1>6. \A k \in JobIds : RunsHere(rows[k]) => RunsHere(wrows[k])'
  BY <1>0, <1>1 DEF RunsHere
<1>7. StartsAreSound'
  BY <1>1, <1>6 DEF StartsAreSound
<1>8. PausesEndSoundly'
  <2> SUFFICES ASSUME NEW k \in JobIds, jobs[k].state = "paused", wrows'[k].state # "paused"
               PROVE  Asked(k)' \/ \E t \in Slots : job'[t] = k /\ pc'[t] \in {"endtx", "launching"}
    BY DEF PausesEndSoundly
  <2>1. CASE rows[k].state # "paused"
    BY <2>1
  <2>2. CASE k = j
    BY <2>2
  <2> QED
    BY <1>1, <2>1, <2>2
<1>9. TimersAreHome'
  <2> SUFFICES ASSUME NEW t \in Slots, pc'[t] = "waiting", mem'[t].by = None
               PROVE  /\ (wrows[job[t]].state # "none" /\ RunsHere(wrows[job[t]]))'
                      /\ \/ jobs[job'[t]].state # "none"
                         \/ \E c \in Clients : writer' = c /\ cpc'[c] = "create"
    BY DEF TimersAreHome
  <2>1. CASE t = s
    BY <1>1, <1>6, <2>1
  <2>2. CASE t # s
    <3>1. t # owner
      BY DEF GoInTx
    <3>2. pc[t] = "waiting" /\ job'[t] = job[t] /\ mem[t].by = None /\ job[t] \in JobIds
      BY <1>0, <2>2, <3>1 DEF QuietBut
    <3>3. /\ jobs[job[t]].state # "none" /\ RunsHere(jobs[job[t]])
      BY <3>2, JobsAssumption DEF RowInv, TimersAreHome, FreeIsCommitted
    <3>4. rows[job[t]].state # "none" /\ RunsHere(rows[job[t]])
      BY <3>2, <3>3 DEF RunsHere
    <3> QED
      BY <1>1, <1>6, <3>2, <3>3, <3>4
  <2> QED
    BY <2>1, <2>2
<1> QED
  BY <1>2, <1>3, <1>4, <1>5, <1>7, <1>8, <1>9 DEF RowInv

(* The beginning of a transaction that starts no job.                       *)
LEMMA BeginOnlyRows ==
  ASSUME TypeOK, RowInv, RequestsNeedOpen', writer = None, jobs' = jobs,
         UNCHANGED repo,
         NEW owner \in Slots \cup Clients, writer' = owner, QuietBut({owner}),
         owner \in Clients => cpc'[owner] \in InTx,
         owner \in Slots => pc'[owner] \in GoInTx,
         NEW rows \in [JobIds -> Row], wrows' = rows,
         \A k \in JobIds : jobs[k].state # "none" =>
           /\ rows[k].state # "none"
           /\ rows[k].host = jobs[k].host /\ rows[k].hash = jobs[k].hash,
         \A k \in JobIds : rows[k].state = "started" => jobs[k].state = "started",
         \A k \in JobIds : jobs[k].state = "paused" /\ rows[k].state # "paused" =>
           owner \in Slots /\ job'[owner] = k /\ pc'[owner] = "endtx",
         \A k \in repo.resume : rows[k].state \notin {"paused", "aborted"}
  PROVE  RowInv'
<1>0. repo.resume \in SUBSET JobIds /\ Slots \cap Clients = {} /\ writer' # None
      /\ job \in [Slots -> JobIds]
  BY JobsAssumption DEF TypeOK, Repo
<1>1. RowsKeepIdentity' /\ FreeIsCommitted' /\ StartsAreSound'
  BY <1>0 DEF RowsKeepIdentity, FreeIsCommitted, StartsAreSound
<1>2. PausesEndSoundly'
  BY DEF PausesEndSoundly
<1>3. BusyWriters'
  <2>1. ASSUME NEW c \in Clients
        PROVE  cpc'[c] \in InTx <=> owner = c
    BY JobsAssumption DEF QuietBut, RowInv, BusyWriters, InTx
  <2>2. ASSUME NEW t \in Slots
        PROVE  pc'[t] \in GoInTx <=> owner = t
    BY JobsAssumption DEF QuietBut, RowInv, BusyWriters, GoInTx
  <2> QED
    BY <2>1, <2>2 DEF BusyWriters, InTx, GoInTx
<1>4. ResumeIsHere'
  BY <1>0 DEF RowInv, ResumeIsHere
<1>5. TimersAreHome'
  <2> SUFFICES ASSUME NEW t \in Slots, pc'[t] = "waiting", mem'[t].by = None
               PROVE  /\ (wrows[job[t]].state # "none" /\ RunsHere(wrows[job[t]]))'
                      /\ jobs[job'[t]].state # "none"
    BY DEF TimersAreHome
  <2>1. t # owner
    BY DEF GoInTx
  <2>2. pc[t] = "waiting" /\ job'[t] = job[t] /\ mem[t].by = None /\ job[t] \in JobIds
    BY <1>0, <2>1 DEF QuietBut
  <2>3. /\ jobs[job[t]].state # "none" /\ RunsHere(jobs[job[t]])
    BY <2>2, JobsAssumption DEF RowInv, TimersAreHome, FreeIsCommitted
  <2> QED
    BY <2>2, <2>3 DEF RunsHere
<1> QED
  BY <1>1, <1>2, <1>3, <1>4, <1>5 DEF RowInv

(* Steps of one client, or of one goroutine, outside of transactions.       *)
LEMMA ClientQuiet ==
  ASSUME TypeOK, NEW c \in Clients, cpc[c] \notin InTx, cpc'[c] \notin InTx,
         \A d \in Clients \ {c} : cpc'[d] = cpc[d] /\ req'[d] = req[d],
         UNCHANGED <<pc, job, repo>>,
         \A s \in Slots : mem'[s].by = mem[s].by
  PROVE  QuietBut({})
BY DEF QuietBut

LEMMA SlotQuiet ==
  ASSUME TypeOK, NEW s \in Slots,
         pc[s] \notin GoInTx, pc'[s] \notin GoInTx \cup {"waiting"},
         \A t \in Slots \ {s} : pc'[t] = pc[t] /\ job'[t] = job[t] /\ mem'[t] = mem[t],
         UNCHANGED <<repo, reqVars>>
  PROVE  QuietBut({})
BY DEF QuietBut, reqVars

LEMMA AnswerFrame ==
  ASSUME TypeOK, NEW c \in Clients, NEW reply, Answer(c, reply)
  PROVE  /\ cpc'[c] = "idle"
         /\ \A d \in Clients \ {c} : cpc'[d] = cpc[d] /\ req'[d] = req[d]
BY DEF Answer, TypeOK

LEMMA AskFrame ==
  ASSUME TypeOK, NEW c \in Clients, NEW kind, NEW j, NEW ref, NEW next, Ask(c, kind, j, ref, next)
  PROVE  /\ cpc'[c] = next /\ req'[c].job = j
         /\ \A d \in Clients \ {c} : cpc'[d] = cpc[d] /\ req'[d] = req[d]
BY DEF Ask, TypeOK

LEMMA RejectFrame ==
  ASSUME TypeOK, NEW c \in Clients, NEW kind, Reject(c, kind)
  PROVE  /\ cpc' = cpc
         /\ \A d \in Clients \ {c} : req'[d] = req[d]
BY DEF Reject, TypeOK

LEMMA InsertRow ==
  ASSUME TypeOK, NEW j \in JobIds, NEW h, NEW future \in BOOLEAN, NextId(j)
  PROVE  /\ Insert(j, h, future)[j].state = "queued"
         /\ Insert(j, h, future)[j].future = future
         /\ Insert(j, h, future)[j].host = repo.host
         /\ jobs[j].state = "none"
         /\ \A k \in JobIds \ {j} : Insert(j, h, future)[k] = jobs[k]
BY DEF Insert, NoRow, NextId, Unused, TypeOK

LEMMA RequestRows ==
  ASSUME TypeInv, RowInv, RequestsNeedOpen', NEW c \in Clients, RequestStep(c)
  PROVE  RowInv'
<1> USE DEF TypeInv
<1>0. /\ cpc[c] = "idle" /\ "idle" \notin InTx /\ pc \in [Slots -> GoPcs]
      /\ repo.resume = {}
      /\ writer = None => spawned = None
  BY DEF RequestStep, CreateJob, RequestStart, RequestCancel, RequestPause,
         RequestUnpause, Idle, InTx, TypeOK, RowInv, FreeIsCommitted, RequestsNeedOpen, IsOpen
<1>1. ASSUME NEW j \in JobIds, NEW h \in Imports, NEW kind \in {"create", "schedule"},
             CreateJob(c, j, h, kind)
      PROVE  RowInv'
  <2>1. CASE Reject(c, kind) /\ UNCHANGED <<dbVars, goVars, envVars>>
    <3>1. QuietBut({})
      BY <1>0, <2>1, RejectFrame, ClientQuiet DEF goVars, envVars
    <3> QED
      BY <1>0, <2>1, <3>1, QuietRows DEF goVars, dbVars
  <2>2. CASE /\ writer' = c
             /\ StartJob(Insert(j, h, kind = "schedule"), pc, session, j, None)
             /\ Ask(c, kind, j, None, "create")
             /\ UNCHANGED <<jobs, active, envVars>>
    <3> DEFINE rows == Insert(j, h, kind = "schedule")
    <3>1. NextId(j) /\ writer = None
      BY <1>1 DEF CreateJob
    <3>2. PICK s \in FreeSlots :
            /\ s \in Slots /\ job'[s] = j
            /\ StartedIn(s, rows, pc, session, j) \/ DeferredIn(s, rows, session, j, None)
            /\ \A t \in Slots \ {s} : pc'[t] = pc[t] /\ mem'[t] = mem[t] /\ job'[t] = job[t]
      BY <1>0, <2>2, StartEffect
    <3>3. /\ rows \in [JobIds -> Row] /\ rows[j].state = "queued" /\ rows[j].host = repo.host
          /\ jobs[j].state = "none" /\ \A k \in JobIds \ {j} : rows[k] = jobs[k]
      <4> DEFINE future == kind = "schedule"
      <4>1. h \in Hashes /\ future \in BOOLEAN /\ TypeOK
        BY DEF Hashes
      <4>2. rows = Insert(j, h, future)
        OBVIOUS
      <4> HIDE DEF rows, future
      <4>3. rows \in [JobIds -> Row]
        BY <4>1, <4>2, InsertType
      <4> QED
        BY <3>1, <4>1, <4>2, <4>3, InsertRow
    <3> HIDE DEF rows
    <3>4. /\ cpc'[c] = "create" /\ req'[c].job = j
          /\ \A d \in Clients \ {c} : cpc'[d] = cpc[d] /\ req'[d] = req[d]
      BY <2>2, AskFrame
    <3>5. QuietBut({c, s})
      BY <2>2, <3>2, <3>4 DEF QuietBut, envVars
    <3>6. /\ pc'[s] \in {"run", "waiting"}
          /\ wrows' = rows \/ wrows' = [rows EXCEPT ![j].state = "started"]
      BY <3>2 DEF StartedIn, DeferredIn
    <3>7. s # c /\ c \notin Slots
      BY <3>2, JobsAssumption
    <3>8. RunsHere(rows[j])
      BY <3>3 DEF RunsHere
    <3>9. repo'.resume = {}
      BY <1>0, <2>2 DEF envVars
    <3>10. /\ \A k \in JobIds : jobs[k].state # "none" => rows[k] = jobs[k]
           /\ \A k \in JobIds : rows[k].state = "started" => jobs[k].state = "started"
           /\ \A k \in JobIds : jobs[k].state = "paused" => rows[k].state = "paused"
      BY <3>3
    <3>11. /\ c \in Slots \cup Clients \cup {"opener"} /\ cpc'[c] \in InTx
           /\ jobs' = jobs /\ writer' = c /\ TypeOK
      BY <2>2, <3>4 DEF InTx
    <3> HIDE DEF TypeInv
    <3> QED
      BY <3>1, <3>2, <3>3, <3>4, <3>5, <3>6, <3>7, <3>8, <3>9, <3>10, <3>11, BeginRows
  <2> QED
    BY <1>1, <2>1, <2>2 DEF CreateJob, goVars, dbVars
<1>2. ASSUME NEW j \in JobIds, RequestCancel(c, j)
      PROVE  RowInv'
  <2>1. PICK s : mem' = mem \/ mem' = [mem EXCEPT ![s].cancelled = TRUE]
    BY <1>2 DEF RequestCancel
  <2>2. \A t \in Slots : mem'[t].by = mem[t].by
    BY <2>1 DEF TypeOK, Mem
  <2>3. /\ cpc'[c] \in {"cancelWait", "cancelBegin"}
        /\ \A d \in Clients \ {c} : cpc'[d] = cpc[d] /\ req'[d] = req[d]
    BY <1>2, AskFrame DEF RequestCancel
  <2>4. QuietBut({})
    BY <1>0, <1>2, <2>2, <2>3, ClientQuiet DEF RequestCancel, envVars, InTx
  <2> QED
    BY <1>0, <1>2, <2>4, QuietRows DEF RequestCancel
<1>3. ASSUME NEW j \in JobIds,
             \/ \E kind \in {"start", "restart"} : RequestStart(c, j, kind)
             \/ RequestPause(c, j) \/ RequestUnpause(c, j)
      PROVE  RowInv'
  <2>1. UNCHANGED <<dbVars, goVars, envVars>>
    BY <1>3 DEF RequestStart, RequestPause, RequestUnpause
  <2>2. /\ cpc'[c] \in {"startBegin", "pauseDB", "unpauseDB", "unpauseRead", "idle"}
        /\ \A d \in Clients \ {c} : cpc'[d] = cpc[d] /\ req'[d] = req[d]
    <3>1. \/ \E kind, ref, next : Ask(c, kind, j, ref, next)
               /\ next \in {"startBegin", "pauseDB", "unpauseDB", "unpauseRead"}
          \/ Reject(c, "pause")
      BY <1>3 DEF RequestStart, RequestPause, RequestUnpause
    <3> QED
      BY <1>0, <3>1, AskFrame, RejectFrame
  <2>3. QuietBut({})
    BY <1>0, <2>1, <2>2, ClientQuiet DEF goVars, envVars, InTx
  <2> QED
    BY <1>0, <2>1, <2>3, QuietRows DEF goVars
<1> QED
  BY <1>1, <1>2, <1>3 DEF RequestStep

LEMMA BeginStartRows ==
  ASSUME TypeInv, RowInv, RequestsNeedOpen', NEW c \in Clients, BeginStart(c)
  PROVE  RowInv'
<1>3. req[c].job \in JobIds
  BY DEF BeginStart, TypeInv, RequestsNameJobs
<1>4. PICK j \in JobIds : j = req[c].job
  BY <1>3
<1> DEFINE rows == IF req[c].op = "restart"
                     THEN [jobs EXCEPT ![j].chk = 0, ![j].prog = 0] ELSE jobs
<1>0. /\ cpc[c] = "startBegin" /\ writer = None /\ TypeOK
      /\ pc \in [Slots -> GoPcs] /\ spawned = None
      /\ repo.resume = {}
      /\ jobs \in [JobIds -> Row]
  BY JobsAssumption
     DEF BeginStart, TypeInv, TypeOK, RequestsNameJobs, RowInv, FreeIsCommitted, RequestsNeedOpen
<1>1. CASE Answer(c, "error") /\ UNCHANGED <<dbVars, goVars, envVars>>
  <2>1. QuietBut({})
    BY <1>0, <1>1, AnswerFrame, ClientQuiet DEF goVars, envVars, InTx
  <2> QED
    BY <1>0, <1>1, <2>1, QuietRows DEF goVars
<1>2. CASE /\ writer' = c
           /\ StartJob(rows, pc, session, j, c)
           /\ cpc' = [cpc EXCEPT ![c] = "start"]
           /\ UNCHANGED <<jobs, active, req, envVars>>
  <2>1. rows \in [JobIds -> Row]
    <3>1. \A row \in Row : [row EXCEPT !.chk = 0, !.prog = 0] \in Row
      BY ZeroInBounds DEF Row
    <3> DEFINE zero == [jobs[j] EXCEPT !.chk = 0, !.prog = 0]
    <3>2. rows = jobs \/ rows = [jobs EXCEPT ![j] = zero]
      BY <1>0 DEF Row
    <3>3. zero \in Row
      BY <1>0, <3>1
    <3> HIDE DEF zero, rows
    <3> QED
      BY <1>0, <3>2, <3>3
  <2>2. \A k \in JobIds : /\ rows[k].state = jobs[k].state /\ rows[k].host = jobs[k].host
                          /\ rows[k].hash = jobs[k].hash
    BY <1>0 DEF Row
  <2>0. StartJob(rows, pc, session, j, c) /\ req'[c].job = j
    BY <1>2, <1>4
  <2> HIDE DEF rows
  <2>3. PICK s \in FreeSlots :
          /\ s \in Slots /\ job'[s] = j
          /\ StartedIn(s, rows, pc, session, j) \/ DeferredIn(s, rows, session, j, c)
          /\ \A t \in Slots \ {s} : pc'[t] = pc[t] /\ mem'[t] = mem[t] /\ job'[t] = job[t]
    BY <1>0, <2>0, StartEffect
  <2>4. cpc'[c] = "start" /\ \A d \in Clients \ {c} : cpc'[d] = cpc[d]
    BY <1>0, <1>2 DEF TypeOK
  <2>5. QuietBut({c, s})
    BY <1>2, <2>3, <2>4 DEF QuietBut, envVars
  <2>6. /\ pc'[s] \in {"run", "waiting"}
        /\ wrows' = rows \/ wrows' = [rows EXCEPT ![j].state = "started"]
        /\ pc'[s] = "waiting" => mem'[s].by # None
    <3>1. c # None
      BY JobsAssumption
    <3>2. CASE StartedIn(s, rows, pc, session, j)
      BY <3>2 DEF StartedIn
    <3>3. CASE DeferredIn(s, rows, session, j, c)
      <4>1. mem'[s] = [NoMem EXCEPT !.sess = session, !.by = c]
        BY <3>3 DEF DeferredIn
      <4>2. mem'[s].by = c
        BY <4>1 DEF NoMem
      <4> QED
        BY <3>1, <3>3, <4>2 DEF DeferredIn
    <3> QED
      BY <2>3, <3>2, <3>3
  <2>7. s # c
    BY <2>3, JobsAssumption
  <2>8. Asked(j)'
    BY <1>2, <2>0, <2>4 DEF Asked
  <2>9. /\ c \in Slots \cup Clients \cup {"opener"} /\ cpc'[c] \in InTx
        /\ c \in Slots => FALSE
        /\ jobs' = jobs /\ writer' = c /\ repo'.resume = {}
    BY <1>0, <1>2, <2>4, JobsAssumption DEF InTx, envVars
  <2> QED
    BY <1>0, <2>1, <2>2, <2>3, <2>5, <2>6, <2>7, <2>8, <2>9, BeginRows
<1> QED
  BY <1>1, <1>2, <1>4 DEF BeginStart, goVars, dbVars

LEMMA HandlerRows ==
  ASSUME TypeInv, RowInv, RequestsNeedOpen', NEW c \in Clients, HandlerStep(c) \/ Disconnect(c)
  PROVE  RowInv'
<1>0. /\ TypeOK /\ repo.resume \in SUBSET JobIds /\ job \in [Slots -> JobIds]
      /\ jobs \in [JobIds -> Row] /\ mem \in [Slots -> Mem]
      /\ Slots \cap Clients = {} /\ c # None
      /\ writer = None => spawned = None
  BY JobsAssumption DEF TypeInv, TypeOK, Repo, RowInv, FreeIsCommitted
<1>1. CASE CommitRequest(c)
  <2>1. /\ cpc'[c] = "idle" /\ cpc[c] \in InTx
        /\ \A d \in Clients \ {c} : cpc'[d] = cpc[d] /\ req'[d] = req[d]
    BY <1>0, <1>1, AnswerFrame DEF CommitRequest, InTx
  <2>2. QuietBut({c})
    BY <1>1, <2>1 DEF CommitRequest, QuietBut, goVars, envVars
  <2>3. /\ writer = c /\ spawned = None /\ spawned' = None /\ writer' = None
        /\ jobs' = wrows' /\ wrows' = wrows
    BY <1>1 DEF CommitRequest, Commit, goVars
  <2> QED
    BY <1>0, <2>1, <2>2, <2>3, EndRows DEF InTx
<1>2. CASE BeginCancel(c)
  <2>1. CASE Answer(c, "error") /\ UNCHANGED dbVars
    <3>1. QuietBut({})
      BY <1>0, <1>2, <2>1, AnswerFrame, ClientQuiet DEF BeginCancel, goVars, envVars, InTx
    <3> QED
      BY <1>0, <1>2, <2>1, <3>1, QuietRows DEF BeginCancel, goVars
  <2>2. CASE Begin(c, jobs) /\ cpc' = [cpc EXCEPT ![c] = "cancelStuck"] /\ UNCHANGED req
    <3>1. cpc'[c] = "cancelStuck" /\ \A d \in Clients \ {c} : cpc'[d] = cpc[d]
      BY <1>0, <2>2 DEF TypeOK
    <3>2. QuietBut({c})
      BY <1>2, <2>2, <3>1 DEF BeginCancel, QuietBut, goVars, envVars
    <3>3. /\ writer = None /\ writer' = c /\ jobs' = jobs /\ wrows' = jobs /\ UNCHANGED repo
          /\ cpc'[c] \in InTx /\ c \in Slots \cup Clients /\ c \notin Slots
      BY <1>0, <1>2, <2>2, <3>1 DEF BeginCancel, Begin, envVars, InTx
    <3>4. \A k \in repo.resume : jobs[k].state \notin {"paused", "aborted"}
      BY DEF RowInv, ResumeIsHere
    <3> QED
      BY <1>0, <3>2, <3>3, <3>4, BeginOnlyRows
  <2> QED
    BY <1>2, <2>1, <2>2 DEF BeginCancel
<1>3. CASE PauseInDB(c) \/ UnpauseInDB(c)
  <2>1. PICK x : /\ Exec([jobs EXCEPT ![req[c].job].state = x])
                 /\ x \in {"paused", "started", jobs[req[c].job].state}
    BY <1>3 DEF PauseInDB, UnpauseInDB
  <2> DEFINE rows == [jobs EXCEPT ![req[c].job].state = x]
  <2>2. /\ cpc[c] \notin InTx /\ cpc[c] # "idle"
        /\ cpc'[c] \notin InTx /\ \A d \in Clients \ {c} : cpc'[d] = cpc[d]
        /\ UNCHANGED <<goVars, req, envVars>>
    BY <1>0, <1>3 DEF PauseInDB, UnpauseInDB, InTx, TypeOK
  <2>3. repo.resume = {}
    BY <2>2 DEF RowInv, RequestsNeedOpen
  <2>4. QuietBut({})
    BY <1>0, <2>2, ClientQuiet DEF goVars, envVars
  <2>5. \A k \in JobIds : jobs[k].state # "none" =>
          /\ rows[k].state # "none"
          /\ rows[k].host = jobs[k].host /\ rows[k].hash = jobs[k].hash
    BY <1>0, <2>1 DEF Row
  <2>6. Exec(rows) /\ spawned' = spawned
    BY <2>1, <2>2 DEF goVars
  <2> HIDE DEF rows
  <2> QED
    BY <1>0, <2>3, <2>4, <2>5, <2>6, ExecRows
<1>4. CASE PauseSet(c) \/ UnpauseClose(c)
  <2>1. PICK s, x, y : \/ mem' = [mem EXCEPT ![s].paused = x]
                       \/ mem' = [mem EXCEPT ![s].paused = x, ![s].unpause = y]
    BY <1>4 DEF PauseSet, UnpauseClose
  <2>2. \A t \in Slots : mem'[t].by = mem[t].by
    BY <1>0, <2>1 DEF Mem
  <2>3. /\ cpc'[c] = "idle" /\ \A d \in Clients \ {c} : cpc'[d] = cpc[d] /\ req'[d] = req[d]
    BY <1>0, <1>4, AnswerFrame DEF PauseSet, UnpauseClose
  <2>4. QuietBut({})
    BY <1>0, <1>4, <2>2, <2>3, ClientQuiet DEF PauseSet, UnpauseClose, envVars, InTx
  <2> QED
    BY <1>0, <1>4, <2>4, QuietRows DEF PauseSet, UnpauseClose
<1>5. CASE CancelWaited(c) \/ UnpauseRead(c)
  <2>1. /\ cpc'[c] \in {"idle", "startBegin"}
        /\ \A d \in Clients \ {c} : cpc'[d] = cpc[d] /\ req'[d] = req[d]
    <3>1. Answer(c, "ok") \/ Answer(c, "error")
            \/ (cpc' = [cpc EXCEPT ![c] = "startBegin"] /\ UNCHANGED req)
      BY <1>5 DEF CancelWaited, UnpauseRead
    <3> QED
      BY <1>0, <3>1, AnswerFrame DEF TypeOK
  <2>2. QuietBut({})
    BY <1>0, <1>5, <2>1, ClientQuiet DEF CancelWaited, UnpauseRead, goVars, envVars, InTx
  <2> QED
    BY <1>0, <1>5, <2>2, QuietRows DEF CancelWaited, UnpauseRead, goVars
<1>6. CASE Disconnect(c)
  <2>1. /\ cpc'[c] = "idle" /\ \A d \in Clients \ {c} : cpc'[d] = cpc[d] /\ req'[d] = req[d]
    BY <1>0, <1>6, AnswerFrame DEF Disconnect
  <2>2. CASE cpc[c] \notin InTx /\ UNCHANGED dbVars
    <3>1. QuietBut({})
      BY <1>0, <1>6, <2>1, <2>2, ClientQuiet DEF Disconnect, goVars, envVars, InTx
    <3> QED
      BY <1>0, <1>6, <2>2, <3>1, QuietRows DEF Disconnect, goVars
  <2>3. CASE cpc[c] \in {"start", "cancelStuck"} /\ Rollback(c)
    <3>1. QuietBut({c})
      BY <1>6, <2>1 DEF Disconnect, QuietBut, goVars, envVars
    <3>2. /\ writer = c /\ spawned = None /\ spawned' = None /\ writer' = None
          /\ jobs' = wrows' /\ wrows' = jobs
      BY <1>6, <2>3 DEF Disconnect, Rollback, goVars
    <3> QED
      BY <1>0, <2>1, <2>3, <3>1, <3>2, EndRows DEF InTx
  <2> QED
    BY <1>6, <2>2, <2>3 DEF Disconnect, InTx
<1> QED
  BY <1>1, <1>2, <1>3, <1>4, <1>5, <1>6, BeginStartRows DEF HandlerStep

LEMMA ActionRows ==
  ASSUME TypeInv, RowInv, RequestsNeedOpen', NEW s \in Slots, ActionStep(s) \/ Fail(s) \/ Panic(s)
  PROVE  RowInv'
<1>0. /\ TypeOK /\ repo.resume \in SUBSET JobIds /\ job \in [Slots -> JobIds]
      /\ pc \in [Slots -> GoPcs] /\ cpc \in [Clients -> ReqPcs]
      /\ jobs \in [JobIds -> Row] /\ mem \in [Slots -> Mem]
      /\ Slots \cap Clients = {} /\ s # None
      /\ writer = None => spawned = None
  BY JobsAssumption DEF TypeInv, TypeOK, Repo, RowInv, FreeIsCommitted
<1>1. CASE CommitChild(s)
  <2>1. pc'[s] = "run" /\ \A t \in Slots \ {s} : pc'[t] = pc[t]
    BY <1>0, <1>1 DEF CommitChild, Go
  <2>2. QuietBut({s})
    BY <1>1, <2>1 DEF CommitChild, QuietBut, reqVars, envVars
  <2>3. /\ writer = s /\ spawned = None /\ spawned' = None /\ writer' = None
        /\ jobs' = wrows' /\ wrows' = wrows
    BY <1>1 DEF CommitChild, Commit
  <2>4. s \in Slots /\ s \notin Clients /\ pc'[s] \notin GoInTx \cup {"waiting"}
    BY <1>0, <2>1 DEF GoInTx
  <2> QED
    BY <1>0, <2>2, <2>3, <2>4, EndRows
<1>2. CASE \E c \in Clients : ContinuePaused(s, c)
  <2>1. PICK c \in Clients : ContinuePaused(s, c)
    BY <1>2
  <2>2. /\ cpc[c] \notin InTx /\ cpc'[c] \notin InTx /\ \A d \in Clients \ {c} : cpc'[d] = cpc[d]
        /\ pc[s] \notin GoInTx /\ pc'[s] \notin GoInTx \cup {"waiting"}
        /\ \A t \in Slots \ {s} : pc'[t] = pc[t] /\ job'[t] = job[t] /\ mem'[t] = mem[t]
    BY <1>0, <2>1 DEF ContinuePaused, Senders, Go, InTx, GoInTx
  <2>3. UNCHANGED <<repo, req, dbVars, spawned>>
    BY <2>1 DEF ContinuePaused, envVars
  <2>4. QuietBut({})
    BY <2>2, <2>3 DEF QuietBut
  <2> QED
    BY <1>0, <2>3, <2>4, QuietRows DEF dbVars
<1>3. CASE Checkpoint(s)
  <2>1. /\ pc[s] \notin GoInTx /\ pc'[s] \notin GoInTx \cup {"waiting"}
        /\ \A t \in Slots \ {s} : pc'[t] = pc[t] /\ job'[t] = job[t] /\ mem'[t] = mem[t]
        /\ UNCHANGED <<repo, reqVars, spawned>>
    BY <1>0, <1>3 DEF Checkpoint, GoInTx, envVars
  <2>2. QuietBut({})
    BY <1>0, <2>1, SlotQuiet
  <2>3. CASE UNCHANGED dbVars
    BY <1>0, <2>1, <2>2, <2>3, QuietRows
  <2>4. CASE Exec([jobs EXCEPT ![job[s]].chk = mem[s].pos, ![job[s]].prog = mem[s].prog])
    <3> DEFINE rows == [jobs EXCEPT ![job[s]].chk = mem[s].pos, ![job[s]].prog = mem[s].prog]
    <3>1. \A j \in JobIds : /\ rows[j].state = jobs[j].state
                            /\ rows[j].host = jobs[j].host /\ rows[j].hash = jobs[j].hash
      BY <1>0 DEF Row
    <3>2. Exec(rows)
      BY <2>4
    <3> HIDE DEF rows
    <3>3. \A j \in repo.resume : jobs[j].state \notin {"paused", "aborted"}
      BY DEF RowInv, ResumeIsHere
    <3> QED
      BY <1>0, <2>1, <2>2, <3>1, <3>2, <3>3, ExecRows
  <2> QED
    BY <1>3, <2>3, <2>4 DEF Checkpoint
<1>4. CASE \/ Work(s) \/ ContinueCancelled(s) \/ ContinueUnpaused(s) \/ Succeed(s)
           \/ Fail(s) \/ Panic(s)
  <2>1. /\ pc[s] \notin GoInTx /\ pc'[s] \notin GoInTx \cup {"waiting"}
        /\ \A t \in Slots \ {s} : pc'[t] = pc[t] /\ job'[t] = job[t] /\ mem'[t] = mem[t]
        /\ UNCHANGED <<repo, reqVars, spawned, dbVars>>
    BY <1>0, <1>4 DEF Work, ContinueCancelled, ContinueUnpaused, Succeed, Fail, Panic, End, Go,
                      GoInTx, envVars
  <2>2. QuietBut({})
    BY <1>0, <2>1, SlotQuiet
  <2> QED
    BY <1>0, <2>1, <2>2, QuietRows
<1> QED
  BY <1>1, <1>2, <1>3, <1>4 DEF ActionStep

LEMMA CreateChildRows ==
  ASSUME TypeInv, RowInv, RequestsNeedOpen',
         NEW s \in Slots, NEW j \in JobIds, NEW kind \in ChildKinds, CreateChild(s, j, kind)
  PROVE  RowInv'
<1> DEFINE h == <<kind, job[s]>>
           pcs == [pc EXCEPT ![s] = "creating"]
           future == FALSE
           rows == Insert(j, h, future)
           n == mem[s].sess
<1>0. /\ TypeOK /\ repo.resume \in SUBSET JobIds /\ job \in [Slots -> JobIds]
      /\ pc \in [Slots -> GoPcs] /\ Slots \cap Clients = {} /\ s # None
      /\ writer = None /\ spawned = None /\ NextId(j) /\ pc[s] = "run"
  BY JobsAssumption DEF TypeInv, TypeOK, Repo, RowInv, FreeIsCommitted, CreateChild
<1>1. /\ writer' = s /\ StartJob(rows, pcs, n, j, None)
      /\ jobs' = jobs /\ repo' = repo /\ cpc' = cpc /\ req' = req
  BY DEF CreateChild, reqVars, envVars
<1>2. h \in Hashes /\ pcs \in [Slots -> GoPcs] /\ future \in BOOLEAN /\ ~future
  BY <1>0 DEF Hashes, GoPcs
<1>3. rows = Insert(j, h, future) /\ pcs[s] = "creating" /\ \A u \in Slots \ {s} : pcs[u] = pc[u]
  BY <1>0
<1> HIDE DEF h, pcs, rows, n, future
<1>4. /\ rows \in [JobIds -> Row] /\ rows[j].state = "queued" /\ rows[j].host = repo.host
      /\ rows[j].future = future
      /\ jobs[j].state = "none" /\ \A k \in JobIds \ {j} : rows[k] = jobs[k]
  BY <1>0, <1>2, <1>3, InsertType, InsertRow
<1>5. PICK t \in FreeSlots :
        /\ t \in Slots /\ job'[t] = j
        /\ StartedIn(t, rows, pcs, n, j) \/ DeferredIn(t, rows, n, j, None)
        /\ \A u \in Slots \ {t} : pc'[u] = pcs[u] /\ mem'[u] = mem[u] /\ job'[u] = job[u]
  BY <1>0, <1>1, <1>2, StartEffect
<1>6. /\ pc'[t] = "run" /\ wrows' = [rows EXCEPT ![j].state = "started"]
  BY <1>2, <1>4, <1>5 DEF StartedIn, DeferredIn
<1>7. s # t
  BY <1>0, <1>5 DEF FreeSlots
<1>8. QuietBut({s, t})
  BY <1>0, <1>1, <1>3, <1>5 DEF QuietBut
<1>9. /\ pc'[s] \in GoInTx /\ s \notin Clients
      /\ RunsHere(rows[j])
  BY <1>0, <1>3, <1>4, <1>5, <1>7 DEF GoInTx, RunsHere
<1>10. /\ \A k \in JobIds : jobs[k].state # "none" => rows[k] = jobs[k]
       /\ \A k \in JobIds : rows[k].state = "started" => jobs[k].state = "started"
       /\ \A k \in JobIds : jobs[k].state = "paused" => rows[k].state = "paused"
  BY <1>4
<1>11. \A k \in repo'.resume : rows[k].state \notin {"paused", "aborted"}
  <2>1. \A k \in repo.resume : k \in JobIds /\ k # j /\ jobs[k].state \notin {"paused", "aborted"}
    BY <1>0, <1>4 DEF RowInv, ResumeIsHere
  <2> QED
    BY <1>1, <1>4, <2>1
<1>12. /\ s \in Slots \cup Clients \cup {"opener"} /\ s \in Slots /\ s \notin Clients
       /\ t \in Slots /\ t # s /\ job'[t] = j /\ TypeOK /\ writer = None
       /\ jobs' = jobs /\ writer' = s
       /\ jobs[j].state \notin {"aborted", "paused"} /\ pc'[t] # "waiting"
  BY <1>0, <1>1, <1>4, <1>5, <1>6, <1>7, <1>9
<1>13. rows \in [JobIds -> Row]
  BY <1>4
<1>14. /\ TypeOK /\ RowInv /\ RequestsNeedOpen' /\ writer = None /\ jobs' = jobs
  BY <1>12
<1>15. s \in Slots \cup Clients \cup {"opener"} /\ writer' = s
  BY <1>12
<1>16. t \in Slots /\ t # s /\ pc'[t] \in {"run", "waiting"} /\ QuietBut({s, t})
  BY <1>6, <1>8, <1>12
<1>17. /\ s \in Clients => cpc'[s] \in InTx
       /\ s \in Slots => pc'[s] \in GoInTx
       /\ j \in JobIds /\ job'[t] = j
       /\ wrows' = rows \/ wrows' = [rows EXCEPT ![j].state = "started"]
  BY <1>6, <1>9, <1>12
<1>18. /\ \A k \in JobIds : jobs[k].state # "none" =>
           /\ rows[k].state # "none"
           /\ rows[k].host = jobs[k].host /\ rows[k].hash = jobs[k].hash
       /\ \A k \in JobIds : rows[k].state = "started" => jobs[k].state = "started"
       /\ \A k \in JobIds : jobs[k].state = "paused" /\ rows[k].state # "paused" =>
           s \in Slots /\ job'[s] = k /\ pc'[s] = "endtx"
  BY <1>10
<1>19. \/ Asked(j)'
       \/ /\ jobs[j].state # "aborted" /\ RunsHere(rows[j])
          /\ jobs[j].state = "paused" =>
               s \in Slots /\ job'[s] = j /\ pc'[s] \in {"endtx", "launching"}
  BY <1>9, <1>12
<1>20. pc'[t] = "waiting" /\ mem'[t].by = None =>
           /\ rows[j].state # "none" /\ RunsHere(rows[j])
           /\ jobs[j].state # "none" \/ (s \in Clients /\ cpc'[s] = "create")
  BY <1>12
<1> QED
  BY <1>11, <1>13, <1>14, <1>15, <1>16, <1>17, <1>18, <1>19, <1>20, BeginRows

(* The rows EndJob writes: those of the table but for the job that ended.   *)
LEMMA FinalRowsEffect ==
  ASSUME TypeInv, NEW s \in Slots, pc[s] = "ending"
  PROVE  /\ FinalRows(s) \in [JobIds -> Row]
         /\ FinalRows(s)[job[s]].state \in Ended
         /\ FinalRows(s)[job[s]].state = mem[s].result
         /\ FinalRows(s)[job[s]].host = jobs[job[s]].host
         /\ FinalRows(s)[job[s]].hash = jobs[job[s]].hash
         /\ FinalRows(s)[job[s]].future = jobs[job[s]].future
         /\ \A k \in JobIds \ {job[s]} : FinalRows(s)[k] = jobs[k]
<1> USE DEF TypeInv
<1>0. /\ jobs \in [JobIds -> Row] /\ job \in [Slots -> JobIds] /\ mem \in [Slots -> Mem]
  BY DEF TypeOK
<1> DEFINE r == mem[s].result
           row == [jobs[job[s]] EXCEPT !.state = r, !.prog = mem[s].prog,
                     !.chk = IF r = "succeeded" THEN 0 ELSE mem[s].chk]
<1>1. /\ job[s] \in JobIds /\ jobs[job[s]] \in Row /\ mem[s] \in Mem
      /\ mem[s].prog \in 0..MaxProgress /\ mem[s].chk \in 0..Units
  BY <1>0 DEF Mem
<1>2. r \in Ended /\ r \in States
  BY DEF EndingHasResult, Ended, States
<1>3. FinalRows(s) = [jobs EXCEPT ![job[s]] = row]
  BY <1>0, <1>1 DEF FinalRows, Row
<1>4. /\ row \in Row /\ row.state = r /\ row.host = jobs[job[s]].host
      /\ row.hash = jobs[job[s]].hash /\ row.future = jobs[job[s]].future
  BY <1>1, <1>2, ZeroInBounds DEF Row
<1>5. r = mem[s].result
  OBVIOUS
<1> HIDE DEF row, r
<1>6. [jobs EXCEPT ![job[s]] = row] \in [JobIds -> Row]
  BY <1>0, <1>1, <1>4
<1> QED
  BY <1>0, <1>1, <1>2, <1>3, <1>4, <1>5, <1>6

LEMMA EndJobRows ==
  ASSUME TypeInv, RowInv, RequestsNeedOpen', NEW s \in Slots, EndJob(s)
  PROVE  RowInv'
<1> DEFINE rows == FinalRows(s)
           n == mem[s].sess
           pcs == [pc EXCEPT ![s] = "endtx"]
<1>0. /\ TypeOK /\ repo.resume \in SUBSET JobIds /\ job \in [Slots -> JobIds]
      /\ pc \in [Slots -> GoPcs] /\ s \notin Clients /\ s # None
      /\ writer = None /\ pc[s] = "ending"
  BY JobsAssumption DEF TypeInv, TypeOK, Repo, EndJob
<1>1. /\ writer' = s /\ jobs' = jobs /\ repo' = repo /\ cpc' = cpc /\ req' = req
  BY DEF EndJob, reqVars, envVars
<1>2. /\ rows \in [JobIds -> Row] /\ rows[job[s]].state \in Ended
      /\ rows[job[s]].state = mem[s].result
      /\ rows[job[s]].host = jobs[job[s]].host /\ rows[job[s]].hash = jobs[job[s]].hash
      /\ \A k \in JobIds \ {job[s]} : rows[k] = jobs[k]
  BY <1>0, FinalRowsEffect
<1>3. pcs \in [Slots -> GoPcs] /\ pcs[s] = "endtx" /\ \A u \in Slots \ {s} : pcs[u] = pc[u]
  BY <1>0 DEF GoPcs
<1>4. \/ pc' = pcs /\ wrows' = rows /\ UNCHANGED <<spawned, job, mem>>
      \/ \E j \in Queue(rows) : j \in JobIds /\ StartJob(rows, pcs, n, j, None)
  BY DEF EndJob, First, Queue
<1> HIDE DEF rows, n, pcs
<1>5. \A k \in JobIds : jobs[k].state # "none" =>
        /\ rows[k].state # "none"
        /\ rows[k].host = jobs[k].host /\ rows[k].hash = jobs[k].hash
  BY <1>2 DEF Ended
<1>6. \A k \in JobIds : rows[k].state = "started" => jobs[k].state = "started"
  BY <1>2 DEF Ended
<1>7. \A k \in repo.resume : rows[k].state \notin {"paused", "aborted"}
  <2>1. repo.resume # {} => mem[s].result # "aborted"
    BY DEF RowInv, RequestsNeedOpen
  <2> QED
    BY <1>0, <1>2, <2>1 DEF Ended, RowInv, ResumeIsHere
<1>8. CASE pc' = pcs /\ wrows' = rows /\ UNCHANGED <<spawned, job, mem>>
  <2>1. QuietBut({s})
    BY <1>1, <1>3, <1>8 DEF QuietBut
  <2>2. pc'[s] = "endtx" /\ pc'[s] \in GoInTx
    BY <1>3, <1>8 DEF GoInTx
  <2>3. \A k \in JobIds : jobs[k].state = "paused" /\ rows[k].state # "paused" =>
          s \in Slots /\ job'[s] = k /\ pc'[s] = "endtx"
    BY <1>2, <1>8, <2>2
  <2> QED
    BY <1>0, <1>1, <1>2, <1>5, <1>6, <1>7, <1>8, <2>1, <2>2, <2>3, BeginOnlyRows
<1>9. CASE \E j \in Queue(rows) : j \in JobIds /\ StartJob(rows, pcs, n, j, None)
  <2>1. PICK j \in JobIds : j \in Queue(rows) /\ StartJob(rows, pcs, n, j, None)
    BY <1>9
  <2>2. PICK t \in FreeSlots :
          /\ t \in Slots /\ job'[t] = j
          /\ StartedIn(t, rows, pcs, n, j) \/ DeferredIn(t, rows, n, j, None)
          /\ \A u \in Slots \ {t} : pc'[u] = pcs[u] /\ mem'[u] = mem[u] /\ job'[u] = job[u]
    BY <1>0, <1>3, <2>1, StartEffect
  <2>3. s # t
    BY <1>0, <2>2 DEF FreeSlots
  <2>4. rows[j].state \in {"queued", "interrupted"} /\ RunsHere(rows[j])
    BY <2>1 DEF Queue
  <2>5. jobs[j].state \in {"queued", "interrupted"}
    BY <1>2, <2>4 DEF Ended
  <2>6. pc'[s] = "endtx" /\ job'[s] = job[s]
    BY <1>3, <2>2, <2>3
  <2>14. /\ TypeOK /\ RowInv /\ RequestsNeedOpen' /\ writer = None /\ jobs' = jobs
    BY <1>0, <1>1
  <2>15. s \in Slots \cup Clients \cup {"opener"} /\ writer' = s
    BY <1>1
  <2>16. t \in Slots /\ t # s /\ pc'[t] \in {"run", "waiting"} /\ QuietBut({s, t})
    BY <1>1, <1>3, <2>2, <2>3 DEF QuietBut, StartedIn, DeferredIn
  <2>17. /\ s \in Clients => cpc'[s] \in InTx
         /\ s \in Slots => pc'[s] \in GoInTx
         /\ j \in JobIds /\ job'[t] = j
         /\ wrows' = rows \/ wrows' = [rows EXCEPT ![j].state = "started"]
    BY <1>0, <2>2, <2>6 DEF GoInTx, StartedIn, DeferredIn
  <2>18. \A k \in JobIds : jobs[k].state = "paused" /\ rows[k].state # "paused" =>
           s \in Slots /\ job'[s] = k /\ pc'[s] = "endtx"
    BY <1>2, <2>6
  <2>19. \/ Asked(j)'
         \/ /\ jobs[j].state # "aborted" /\ RunsHere(rows[j])
            /\ jobs[j].state = "paused" =>
                 s \in Slots /\ job'[s] = j /\ pc'[s] \in {"endtx", "launching"}
    BY <2>4, <2>5
  <2>20. pc'[t] = "waiting" /\ mem'[t].by = None =>
             /\ rows[j].state # "none" /\ RunsHere(rows[j])
             /\ jobs[j].state # "none" \/ (s \in Clients /\ cpc'[s] = "create")
    BY <2>4, <2>5
  <2>21. rows \in [JobIds -> Row] /\ \A k \in repo'.resume : rows[k].state \notin {"paused", "aborted"}
    BY <1>1, <1>2, <1>7
  <2> QED
    BY <1>5, <1>6, <2>14, <2>15, <2>16, <2>17, <2>18, <2>19, <2>20, <2>21, BeginRows
<1> QED
  BY <1>4, <1>8, <1>9

LEMMA WaiterRows ==
  ASSUME TypeInv, RowInv, RequestsNeedOpen', NEW s \in Slots, WaiterFires(s)
  PROVE  RowInv'
<1>0. /\ TypeOK /\ repo.resume \in SUBSET JobIds /\ job \in [Slots -> JobIds]
      /\ pc \in [Slots -> GoPcs] /\ s \notin Clients /\ s # None
      /\ writer = None /\ pc[s] = "waiting" /\ spawned = None /\ wrows = jobs
      /\ jobs \in [JobIds -> Row] /\ mem[s].by \in Clients \cup {None}
      /\ repo' = repo /\ cpc' = cpc /\ req' = req
  BY JobsAssumption
     DEF TypeInv, TypeOK, Repo, Mem, WaiterFires, RowInv, FreeIsCommitted, reqVars, envVars
<1>1. PICK j \in JobIds : j = job[s]
  BY <1>0
<1>2. CASE Return(s) /\ UNCHANGED <<dbVars, spawned>>
  <2>1. /\ pc[s] \notin GoInTx /\ pc'[s] \notin GoInTx \cup {"waiting"}
        /\ \A t \in Slots \ {s} : pc'[t] = pc[t] /\ job'[t] = job[t] /\ mem'[t] = mem[t]
    BY <1>0, <1>2, ReturnEffect DEF GoInTx
  <2>2. QuietBut({})
    BY <1>0, <2>1 DEF QuietBut
  <2> QED
    BY <1>0, <1>2, <2>2, QuietRows
<1>3. CASE /\ Unaborted(j) /\ writer' = s
           /\ Launched(jobs, [pc EXCEPT ![s] = "launching"], mem[s].sess, j)
           /\ UNCHANGED jobs
  <2> DEFINE pcs == [pc EXCEPT ![s] = "launching"]
             n == mem[s].sess
  <2>1. pcs \in [Slots -> GoPcs] /\ pcs[s] = "launching" /\ \A u \in Slots \ {s} : pcs[u] = pc[u]
    BY <1>0 DEF GoPcs
  <2>2. Launched(jobs, pcs, n, j)
    BY <1>3
  <2> HIDE DEF pcs, n
  <2>3. PICK t \in FreeSlots :
          /\ t \in Slots /\ job'[t] = j /\ StartedIn(t, jobs, pcs, n, j)
          /\ \A u \in Slots \ {t} : pc'[u] = pcs[u] /\ mem'[u] = mem[u] /\ job'[u] = job[u]
    BY <1>0, <2>1, <2>2, LaunchEffect
  <2>4. s # t
    BY <1>0, <2>3 DEF FreeSlots
  <2>5. mem[s].by = None
    <3>1. mem[s].by = None \/ cpc[mem[s].by] = "start"
      BY DEF WaiterFires, Expired
    <3>2. \A c \in Clients : cpc[c] # "start"
      BY <1>0, JobsAssumption DEF RowInv, BusyWriters
    <3> QED
      BY <1>0, <3>1, <3>2
  <2>6. jobs[j].state # "none" /\ RunsHere(jobs[j])
    <3>1. \A c \in Clients : writer # c
      BY <1>0, JobsAssumption
    <3> QED
      BY <1>0, <1>1, <2>5, <3>1 DEF RowInv, TimersAreHome
  <2>7. pc'[s] = "launching" /\ job'[s] = j
    BY <1>1, <2>1, <2>3, <2>4
  <2>14. /\ TypeOK /\ RowInv /\ RequestsNeedOpen' /\ writer = None /\ jobs' = jobs
    BY <1>0, <1>3
  <2>15. s \in Slots \cup Clients \cup {"opener"} /\ writer' = s
    BY <1>3
  <2>16. t \in Slots /\ t # s /\ pc'[t] \in {"run", "waiting"} /\ QuietBut({s, t})
    BY <1>0, <2>1, <2>3, <2>4 DEF QuietBut, StartedIn
  <2>17. /\ s \in Clients => cpc'[s] \in InTx
         /\ s \in Slots => pc'[s] \in GoInTx
         /\ j \in JobIds /\ job'[t] = j
         /\ wrows' = jobs \/ wrows' = [jobs EXCEPT ![j].state = "started"]
    BY <1>0, <2>3, <2>7 DEF GoInTx, StartedIn
  <2>18. /\ \A k \in JobIds : jobs[k].state # "none" =>
             /\ jobs[k].state # "none"
             /\ jobs[k].host = jobs[k].host /\ jobs[k].hash = jobs[k].hash
         /\ \A k \in JobIds : jobs[k].state = "started" => jobs[k].state = "started"
         /\ \A k \in JobIds : jobs[k].state = "paused" /\ jobs[k].state # "paused" =>
             s \in Slots /\ job'[s] = k /\ pc'[s] = "endtx"
    OBVIOUS
  <2>19. \/ Asked(j)'
         \/ /\ jobs[j].state # "aborted" /\ RunsHere(jobs[j])
            /\ jobs[j].state = "paused" =>
                 s \in Slots /\ job'[s] = j /\ pc'[s] \in {"endtx", "launching"}
    BY <1>3, <2>6, <2>7 DEF Unaborted
  <2>20. pc'[t] = "waiting" /\ mem'[t].by = None =>
             /\ jobs[j].state # "none" /\ RunsHere(jobs[j])
             /\ jobs[j].state # "none" \/ (s \in Clients /\ cpc'[s] = "create")
    BY <2>6
  <2>21. jobs \in [JobIds -> Row] /\ \A k \in repo'.resume : jobs[k].state \notin {"paused", "aborted"}
    BY <1>0 DEF RowInv, ResumeIsHere
  <2> QED
    BY <2>14, <2>15, <2>16, <2>17, <2>18, <2>19, <2>20, <2>21, BeginRows
<1> QED
  BY <1>1, <1>2, <1>3 DEF WaiterFires, Launched

LEMMA GoroutineRows ==
  ASSUME TypeInv, RowInv, RequestsNeedOpen', NEW s \in Slots, GoroutineStep(s)
  PROVE  RowInv'
<1>0. /\ TypeOK /\ repo.resume \in SUBSET JobIds /\ job \in [Slots -> JobIds]
      /\ pc \in [Slots -> GoPcs] /\ s \notin Clients /\ s # None /\ Slots \cap Clients = {}
      /\ writer = None => spawned = None
  BY JobsAssumption DEF TypeInv, TypeOK, Repo, RowInv, FreeIsCommitted
<1>1. CASE CommitEnd(s) \/ CommitWaiter(s)
  <2>1. /\ pc'[s] \in {"closing", "free"}
        /\ \A t \in Slots \ {s} : pc'[t] = pc[t] /\ job'[t] = job[t] /\ mem'[t] = mem[t]
    BY <1>0, <1>1, ReturnEffect DEF CommitEnd, CommitWaiter, Go
  <2>2. QuietBut({s})
    BY <1>1, <2>1 DEF CommitEnd, CommitWaiter, QuietBut, reqVars, envVars
  <2>3. /\ writer = s /\ spawned = None /\ spawned' = None /\ writer' = None
        /\ jobs' = wrows' /\ wrows' = wrows
    BY <1>1 DEF CommitEnd, CommitWaiter, Commit
  <2>4. s \in Slots /\ s \notin Clients /\ pc'[s] \notin GoInTx \cup {"waiting"}
    BY <1>0, <2>1 DEF GoInTx
  <2> QED
    BY <1>0, <2>2, <2>3, <2>4, EndRows
<1>2. CASE CloseDone(s) \/ Unregister(s) \/ WaiterGivesUp(s)
  <2>1. /\ pc[s] \notin GoInTx /\ pc'[s] \notin GoInTx \cup {"waiting"}
        /\ \A t \in Slots \ {s} : pc'[t] = pc[t] /\ job'[t] = job[t] /\ mem'[t] = mem[t]
        /\ UNCHANGED <<repo, reqVars, spawned, dbVars>>
    <3>1. CASE CloseDone(s)
      BY <1>0, <3>1 DEF CloseDone, Go, GoInTx, envVars, TypeOK
    <3>2. CASE Unregister(s) \/ WaiterGivesUp(s)
      <4>1. Return(s) /\ pc[s] \in {"closed", "waiting"} /\ UNCHANGED <<repo, reqVars, spawned, dbVars>>
        BY <3>2 DEF Unregister, WaiterGivesUp, envVars
      <4> QED
        BY <1>0, <4>1, ReturnEffect DEF GoInTx
    <3> QED
      BY <1>2, <3>1, <3>2
  <2>2. QuietBut({})
    BY <1>0, <2>1, SlotQuiet
  <2> QED
    BY <1>0, <2>1, <2>2, QuietRows
<1> QED
  BY <1>1, <1>2, EndJobRows, WaiterRows DEF GoroutineStep

LEMMA OpenStartRows ==
  ASSUME TypeInv, RowInv, RequestsNeedOpen', NEW j \in JobIds, OpenStarts(j)
  PROVE  RowInv'
<1>0. /\ TypeOK /\ jobs \in [JobIds -> Row] /\ pc \in [Slots -> GoPcs] /\ writer = None
      /\ repo.resume \in SUBSET JobIds /\ repo \in Repo /\ j \in repo.resume
      /\ StartJob(jobs, pc, session, j, None)
      /\ UNCHANGED <<jobs, reqVars>> /\ writer' = "opener"
      /\ "opener" \notin Clients /\ "opener" \notin Slots
  BY JobsAssumption DEF TypeInv, TypeOK, Repo, OpenStarts, First
<1>1. repo'.host = repo.host /\ repo'.resume \subseteq repo.resume
  BY <1>0 DEF OpenStarts, Repo
<1>2. \A k \in repo.resume : /\ jobs[k].host = repo.host
                             /\ jobs[k].state \notin {"none", "paused", "aborted"}
  BY DEF RowInv, ResumeIsHere
<1>3. RunsHere(jobs[j])
  BY <1>0, <1>2 DEF RunsHere
<1>4. PICK t \in FreeSlots :
        /\ t \in Slots /\ job'[t] = j
        /\ StartedIn(t, jobs, pc, session, j) \/ DeferredIn(t, jobs, session, j, None)
        /\ \A u \in Slots \ {t} : pc'[u] = pc[u] /\ mem'[u] = mem[u] /\ job'[u] = job[u]
  BY <1>0, StartEffect
<1>14. /\ TypeOK /\ RowInv /\ RequestsNeedOpen' /\ writer = None /\ jobs' = jobs
  BY <1>0
<1>15. "opener" \in Slots \cup Clients \cup {"opener"} /\ writer' = "opener"
  BY <1>0
<1>16. t \in Slots /\ t # "opener" /\ pc'[t] \in {"run", "waiting"} /\ QuietBut({"opener", t})
  BY <1>0, <1>1, <1>4 DEF QuietBut, StartedIn, DeferredIn, reqVars
<1>17. /\ "opener" \in Clients => cpc'["opener"] \in InTx
       /\ "opener" \in Slots => pc'["opener"] \in GoInTx
       /\ j \in JobIds /\ job'[t] = j
       /\ wrows' = jobs \/ wrows' = [jobs EXCEPT ![j].state = "started"]
  BY <1>0, <1>4 DEF StartedIn, DeferredIn
<1>18. /\ \A k \in JobIds : jobs[k].state # "none" =>
            /\ jobs[k].state # "none"
            /\ jobs[k].host = jobs[k].host /\ jobs[k].hash = jobs[k].hash
       /\ \A k \in JobIds : jobs[k].state = "started" => jobs[k].state = "started"
       /\ \A k \in JobIds : jobs[k].state = "paused" /\ jobs[k].state # "paused" =>
            "opener" \in Slots /\ job'["opener"] = k /\ pc'["opener"] = "endtx"
  OBVIOUS
<1>19. \/ Asked(j)'
       \/ /\ jobs[j].state # "aborted" /\ RunsHere(jobs[j])
          /\ jobs[j].state = "paused" =>
               "opener" \in Slots /\ job'["opener"] = j /\ pc'["opener"] \in {"endtx", "launching"}
  BY <1>0, <1>2, <1>3
<1>20. pc'[t] = "waiting" /\ mem'[t].by = None =>
           /\ jobs[j].state # "none" /\ RunsHere(jobs[j])
           /\ jobs[j].state # "none" \/ ("opener" \in Clients /\ cpc'["opener"] = "create")
  BY <1>0, <1>2, <1>3
<1>21. jobs \in [JobIds -> Row] /\ \A k \in repo'.resume : jobs[k].state \notin {"paused", "aborted"}
  BY <1>0, <1>1, <1>2
<1> QED
  BY <1>14, <1>15, <1>16, <1>17, <1>18, <1>19, <1>20, <1>21, BeginRows

LEMMA OpenRows ==
  ASSUME TypeInv, RowInv, RequestsNeedOpen', OpenStep
  PROVE  RowInv'
<1>0. /\ TypeOK /\ repo.resume \in SUBSET JobIds /\ job \in [Slots -> JobIds] /\ repo \in Repo
      /\ Slots \cap Clients = {} /\ "opener" \notin Clients /\ "opener" \notin Slots
      /\ "opener" # None
      /\ writer = None => spawned = None
  BY JobsAssumption DEF TypeInv, TypeOK, Repo, RowInv, FreeIsCommitted
<1>1. CASE \E j \in JobIds : OpenStarts(j)
  BY <1>1, OpenStartRows
<1>2. CASE OpenCommits
  <2>0. PICK x : x = "opener"
    OBVIOUS
  <2>1. QuietBut({x})
    BY <1>2 DEF OpenCommits, QuietBut, goVars, reqVars, envVars
  <2>2. Commit(x) /\ UNCHANGED goVars
    BY <1>2, <2>0 DEF OpenCommits
  <2>3. /\ writer = x /\ spawned = None /\ spawned' = None /\ writer' = None
        /\ jobs' = wrows' /\ wrows' = wrows
    BY <2>2 DEF Commit, goVars
  <2>4. x # None /\ x \notin Clients /\ x \notin Slots
    BY <1>0, <2>0
  <2> QED
    BY <1>0, <2>1, <2>3, <2>4, EndRows
<1>3. CASE OpenReturns \/ \E j \in JobIds : OpenFails(j)
  <2>1. /\ repo'.host = repo.host /\ repo'.resume \subseteq repo.resume
        /\ UNCHANGED <<dbVars, goVars, reqVars>>
    BY <1>0, <1>3 DEF OpenReturns, OpenFails, Repo
  <2>2. QuietBut({})
    BY <2>1 DEF QuietBut, goVars, reqVars
  <2>3. writer = None => spawned' = None
    BY <2>1 DEF RowInv, FreeIsCommitted, goVars
  <2> QED
    BY <2>1, <2>2, <2>3, QuietRows
<1> QED
  BY <1>1, <1>2, <1>3 DEF OpenStep

LEMMA OpenTimelineRows ==
  ASSUME TypeInv, RowInv, RequestsNeedOpen',
         NEW h \in Hosts, NEW R \in SUBSET JobIds, OpenTimeline(h, R)
  PROVE  RowInv'
<1> DEFINE rows == [j \in JobIds |->
                      IF jobs[j].state = "started"
                        THEN [jobs[j] EXCEPT !.state = "interrupted"] ELSE jobs[j]]
<1>0. /\ jobs \in [JobIds -> Row] /\ job \in [Slots -> JobIds]
      /\ writer = None /\ writer' = None /\ spawned = None /\ wrows = jobs
      /\ UNCHANGED <<goVars, reqVars>>
      /\ repo'.host = h /\ repo'.resume = R /\ (h = repo.host \/ NoGoroutines)
  BY DEF TypeInv, TypeOK, OpenTimeline, Exec, RowInv, FreeIsCommitted
<1>1. jobs' = rows /\ wrows' = rows
  BY DEF OpenTimeline, Exec
<1>2. \A j \in JobIds : /\ rows[j].host = jobs[j].host /\ rows[j].hash = jobs[j].hash
                        /\ rows[j].state = IF jobs[j].state = "started" THEN "interrupted"
                                           ELSE jobs[j].state
  BY <1>0 DEF Row
<1>3. \A j \in R : jobs[j].state \in {"started", "queued", "interrupted"} /\ jobs[j].host = h
  BY DEF OpenTimeline, ToResume, Resumable
<1> HIDE DEF rows
<1>4. FreeIsCommitted' /\ RowsKeepIdentity' /\ StartsAreSound' /\ PausesEndSoundly'
  BY <1>0, <1>1 DEF FreeIsCommitted, RowsKeepIdentity, StartsAreSound, PausesEndSoundly, goVars
<1>5. BusyWriters'
  BY <1>0 DEF RowInv, BusyWriters, goVars, reqVars
<1>6. ResumeIsHere'
  BY <1>0, <1>1, <1>2, <1>3 DEF ResumeIsHere
<1>7. TimersAreHome'
  <2> SUFFICES ASSUME NEW s \in Slots, pc'[s] = "waiting", mem'[s].by = None
               PROVE  (wrows[job[s]].state # "none" /\ RunsHere(wrows[job[s]]))'
    BY <1>0, <1>1 DEF TimersAreHome, goVars
  <2>1. pc[s] = "waiting" /\ mem[s].by = None /\ h = repo.host /\ job[s] \in JobIds
    BY <1>0 DEF NoGoroutines, goVars
  <2>2. jobs[job[s]].state # "none" /\ RunsHere(jobs[job[s]])
    BY <1>0, <2>1 DEF RowInv, TimersAreHome
  <2> QED
    BY <1>0, <1>1, <1>2, <2>1, <2>2 DEF RunsHere, goVars
<1> QED
  BY <1>4, <1>5, <1>6, <1>7 DEF RowInv

LEMMA RowInit == Init => RowInv
BY JobsAssumption
   DEF Init, RowInv, FreeIsCommitted, BusyWriters, RowsKeepIdentity, RequestsNeedOpen,
       ResumeIsHere, StartsAreSound, PausesEndSoundly, TimersAreHome, NoRow, NoMem

LEMMA RowNext ==
  ASSUME TypeInv, RowInv, [Next]_vars
  PROVE  RowInv'
<1>0. /\ RequestsNeedOpen' /\ TypeOK /\ repo.resume \in SUBSET JobIds
      /\ job \in [Slots -> JobIds] /\ jobs \in [JobIds -> Row]
      /\ writer = None => spawned = None
  BY OpenNext DEF RowInv, FreeIsCommitted, TypeInv, TypeOK, Repo
<1>1. ASSUME NEW c \in Clients, RequestStep(c) \/ HandlerStep(c) \/ Disconnect(c)
      PROVE  RowInv'
  BY <1>0, <1>1, RequestRows, HandlerRows
<1>2. ASSUME NEW s \in Slots,
             \/ ActionStep(s) \/ GoroutineStep(s) \/ Fail(s) \/ Panic(s)
             \/ \E j \in JobIds, kind \in ChildKinds : CreateChild(s, j, kind)
      PROVE  RowInv'
  BY <1>0, <1>2, ActionRows, GoroutineRows, CreateChildRows
<1>3. ASSUME NEW j \in JobIds, StartTimeComes(j)
      PROVE  RowInv'
  <2> DEFINE rows == [jobs EXCEPT ![j].future = FALSE]
  <2>1. \A k \in JobIds : /\ rows[k].state = jobs[k].state
                          /\ rows[k].host = jobs[k].host /\ rows[k].hash = jobs[k].hash
    BY <1>0 DEF Row
  <2>2. Exec(rows) /\ UNCHANGED <<goVars, reqVars, envVars>>
    BY <1>3 DEF StartTimeComes
  <2> HIDE DEF rows
  <2>3. QuietBut({}) /\ spawned' = spawned
    BY <2>2 DEF QuietBut, goVars, reqVars, envVars
  <2>4. \A k \in repo.resume : jobs[k].state \notin {"paused", "aborted"}
    BY DEF RowInv, ResumeIsHere
  <2> QED
    BY <1>0, <2>1, <2>2, <2>3, <2>4, ExecRows
<1>4. CASE Stop
  BY <1>4, JobsAssumption
     DEF Stop, RowInv, FreeIsCommitted, BusyWriters, RowsKeepIdentity, RequestsNeedOpen,
         ResumeIsHere, StartsAreSound, PausesEndSoundly, TimersAreHome, NoMem, TypeInv, TypeOK, Repo
<1>5. CASE Register \/ UNCHANGED vars
  <2>1. QuietBut({}) /\ UNCHANGED dbVars
    BY <1>5 DEF Register, vars, goVars, reqVars, envVars, QuietBut
  <2>2. writer = None => spawned' = None
    BY <1>0, <1>5 DEF Register, vars, goVars
  <2> QED
    BY <1>0, <2>1, <2>2, QuietRows
<1> QED
  BY <1>0, <1>1, <1>2, <1>3, <1>4, <1>5, OpenRows, OpenTimelineRows DEF Next

LEMMA RowsAlways == Spec => [](TypeInv /\ RowInv)
<1>1. Spec => []TypeInv
  BY TypeInit, TypeNext, PTL DEF Spec
<1> QED
  BY <1>1, RowInit, RowNext, PTL DEF Spec

-----------------------------------------------------------------------------
(* What a step writes into the table: an ExecContext of its own, or a       *)
(* transaction that ends.  Every other step leaves the committed rows.      *)
LEMMA CommittedChange ==
  ASSUME TypeInv, [Next]_vars, NEW j \in JobIds, jobs'[j] # jobs[j]
  PROVE  \/ \E c \in Clients : CommitRequest(c) \/ PauseInDB(c) \/ UnpauseInDB(c)
         \/ \E s \in Slots : CommitChild(s) \/ Checkpoint(s) \/ CommitEnd(s) \/ CommitWaiter(s)
         \/ OpenCommits
         \/ \E k \in JobIds : StartTimeComes(k)
         \/ \E h \in Hosts, R \in SUBSET JobIds : OpenTimeline(h, R)
<1>1. jobs' # jobs
  OBVIOUS
<1>2. ASSUME NEW c \in Clients, RequestStep(c) \/ HandlerStep(c) \/ Disconnect(c)
      PROVE  CommitRequest(c) \/ PauseInDB(c) \/ UnpauseInDB(c)
  BY <1>1, <1>2
     DEF RequestStep, CreateJob, RequestStart, RequestCancel, RequestPause, RequestUnpause,
         HandlerStep, BeginStart, CancelWaited, BeginCancel, Begin, PauseSet, UnpauseRead,
         UnpauseClose, Disconnect, Rollback, dbVars
<1>3. ASSUME NEW s \in Slots,
             \/ ActionStep(s) \/ GoroutineStep(s) \/ Fail(s) \/ Panic(s)
             \/ \E k \in JobIds, kind \in ChildKinds : CreateChild(s, k, kind)
      PROVE  CommitChild(s) \/ Checkpoint(s) \/ CommitEnd(s) \/ CommitWaiter(s)
  BY <1>1, <1>3
     DEF ActionStep, Work, ContinueCancelled, ContinuePaused, ContinueUnpaused, Succeed, End,
         GoroutineStep, EndJob, CloseDone, Unregister, WaiterGivesUp, WaiterFires, Fail, Panic,
         CreateChild, dbVars
<1>4. CASE OpenStep
  BY <1>1, <1>4 DEF OpenStep, OpenStarts, OpenFails, OpenReturns, dbVars
<1>5. CASE Register \/ Stop \/ UNCHANGED vars
  BY <1>1, <1>5 DEF Register, Stop, vars, dbVars
<1> QED
  BY <1>2, <1>3, <1>4, <1>5 DEF Next

(* The row of a commit is the one the transaction held.                     *)
LEMMA CommitHolds ==
  ASSUME TypeInv, RowInv, NEW j \in JobIds
  PROVE  /\ \A c \in Clients : CommitRequest(c) =>
              /\ jobs'[j] = wrows[j] /\ writer = c /\ cpc[c] \in {"create", "start"}
              /\ cpc'[c] = "idle" /\ UNCHANGED <<repo, pc, job>>
         /\ \A s \in Slots : CommitChild(s) \/ CommitEnd(s) \/ CommitWaiter(s) =>
              /\ jobs'[j] = wrows[j] /\ writer = s /\ pc'[s] # pc[s]
              /\ UNCHANGED <<repo, cpc, req>>
         /\ OpenCommits => /\ jobs'[j] = wrows[j] /\ writer = "opener"
                           /\ UNCHANGED <<repo, cpc, req, pc, job>>
<1>1. ASSUME NEW c \in Clients, CommitRequest(c)
      PROVE  /\ jobs'[j] = wrows[j] /\ writer = c /\ cpc[c] \in {"create", "start"}
             /\ cpc'[c] = "idle" /\ UNCHANGED <<repo, pc, job>>
  BY <1>1, AnswerFrame DEF CommitRequest, Commit, goVars, envVars, TypeInv
<1>2. ASSUME NEW s \in Slots, CommitChild(s) \/ CommitEnd(s) \/ CommitWaiter(s)
      PROVE  /\ jobs'[j] = wrows[j] /\ writer = s /\ pc'[s] # pc[s]
             /\ UNCHANGED <<repo, cpc, req>>
  BY <1>2, ReturnEffect
     DEF CommitChild, CommitEnd, CommitWaiter, Commit, Go, reqVars, envVars, TypeInv, TypeOK
<1>3. ASSUME OpenCommits
      PROVE  /\ jobs'[j] = wrows[j] /\ writer = "opener"
             /\ UNCHANGED <<repo, cpc, req, pc, job>>
  BY <1>3 DEF OpenCommits, Commit, goVars, reqVars, envVars
<1> QED
  BY <1>1, <1>2, <1>3

(* The writes that are no transaction.                                      *)
LEMMA ExecChange ==
  ASSUME TypeInv, NEW j \in JobIds
  PROVE  /\ \A c \in Clients : PauseInDB(c) /\ jobs'[j] # jobs[j] =>
              jobs[j].state = "started" /\ jobs'[j].state = "paused"
         /\ \A c \in Clients : UnpauseInDB(c) /\ jobs'[j] # jobs[j] =>
              /\ jobs[j].state = "paused" /\ jobs'[j].state = "started"
              /\ req[c].job = j /\ cpc[c] = "unpauseDB" /\ cpc'[c] # cpc[c]
         /\ \A s \in Slots : Checkpoint(s) => jobs'[j].state = jobs[j].state
         /\ \A k \in JobIds : StartTimeComes(k) => jobs'[j].state = jobs[j].state
         /\ \A h \in Hosts, R \in SUBSET JobIds : OpenTimeline(h, R) =>
              jobs'[j].state = IF jobs[j].state = "started" THEN "interrupted" ELSE jobs[j].state
<1>0. jobs \in [JobIds -> Row] /\ job \in [Slots -> JobIds] /\ cpc \in [Clients -> ReqPcs]
  BY DEF TypeInv, TypeOK
<1>1. ASSUME NEW c \in Clients, PauseInDB(c), jobs'[j] # jobs[j]
      PROVE  jobs[j].state = "started" /\ jobs'[j].state = "paused"
  BY <1>0, <1>1 DEF PauseInDB, Exec, Row
<1>2. ASSUME NEW c \in Clients, UnpauseInDB(c), jobs'[j] # jobs[j]
      PROVE  /\ jobs[j].state = "paused" /\ jobs'[j].state = "started"
             /\ req[c].job = j /\ cpc[c] = "unpauseDB" /\ cpc'[c] # cpc[c]
  BY <1>0, <1>2 DEF UnpauseInDB, Exec, Row
<1>3. ASSUME NEW s \in Slots, Checkpoint(s)
      PROVE  jobs'[j].state = jobs[j].state
  <2>1. CASE UNCHANGED dbVars
    BY <2>1 DEF dbVars
  <2>2. CASE Exec([jobs EXCEPT ![job[s]].chk = mem[s].pos, ![job[s]].prog = mem[s].prog])
    BY <1>0, <2>2 DEF Exec, Row
  <2> QED
    BY <1>3, <2>1, <2>2 DEF Checkpoint
<1>4. ASSUME NEW k \in JobIds, StartTimeComes(k)
      PROVE  jobs'[j].state = jobs[j].state
  BY <1>0, <1>4 DEF StartTimeComes, Exec, Row
<1>5. ASSUME NEW h \in Hosts, NEW R \in SUBSET JobIds, OpenTimeline(h, R)
      PROVE  jobs'[j].state = IF jobs[j].state = "started" THEN "interrupted" ELSE jobs[j].state
  BY <1>0, <1>5 DEF OpenTimeline, Exec, Row
<1> QED
  BY <1>1, <1>2, <1>3, <1>4, <1>5

(* Import jobs use file paths of one machine.  Whatever starts a job on     *)
(* another machine, dequeuing, a timer or resumption, it is no import that  *)
(* was configured elsewhere: only a request starts one (jobs.go:545).       *)
THEOREM ImportsRunAtHome == Spec => ImportsStayHome
<1> DEFINE A == \A j \in JobIds :
       (/\ jobs[j].state # "started" /\ jobs'[j].state = "started"
        /\ ~RunsHere(jobs'[j])) =>
         \E c \in Clients : req[c].job = j /\ cpc[c] \in {"start", "unpauseDB"}
<1>1. TypeInv /\ RowInv /\ [Next]_vars => [A]_vars
  <2> SUFFICES ASSUME TypeInv, RowInv, [Next]_vars, NEW j \in JobIds,
                      jobs[j].state # "started", jobs'[j].state = "started", ~RunsHere(jobs'[j])
               PROVE  \E c \in Clients : req[c].job = j /\ cpc[c] \in {"start", "unpauseDB"}
    OBVIOUS
  <2>1. jobs'[j] # jobs[j]
    OBVIOUS
  <2>2. ASSUME jobs'[j] = wrows[j], UNCHANGED repo
        PROVE  \E c \in Clients : req[c].job = j /\ cpc[c] \in {"start", "unpauseDB"}
    <3>1. wrows[j].state = "started" /\ ~RunsHere(wrows[j])
      BY <2>2 DEF RunsHere
    <3> QED
      BY <3>1 DEF RowInv, StartsAreSound, Asked
  <2>3. CASE \E c \in Clients : CommitRequest(c)
    BY <2>2, <2>3, CommitHolds
  <2>4. CASE \E s \in Slots : CommitChild(s) \/ CommitEnd(s) \/ CommitWaiter(s)
    BY <2>2, <2>4, CommitHolds
  <2>5. CASE OpenCommits
    BY <2>2, <2>5, CommitHolds
  <2>6. CASE \E c \in Clients : PauseInDB(c) \/ UnpauseInDB(c)
    BY <2>1, <2>6, ExecChange
  <2>7. CASE \/ \E s \in Slots : Checkpoint(s)
             \/ \E k \in JobIds : StartTimeComes(k)
             \/ \E h \in Hosts, R \in SUBSET JobIds : OpenTimeline(h, R)
    BY <2>7, ExecChange
  <2> QED
    BY <2>1, <2>3, <2>4, <2>5, <2>6, <2>7, CommittedChange
<1>2. Spec => [][A]_vars
  BY <1>1, RowsAlways, PTL DEF Spec
<1> QED
  BY <1>2 DEF ImportsStayHome

(* A cancelled job does not come back: no timer, dequeuing or resumption    *)
(* starts an aborted job (jobs.go:330-336), whatever it read before.        *)
THEOREM CancelledStaysCancelled == Spec => CancelledIsNotRestarted
<1> DEFINE A == \A j \in JobIds : jobs[j].state = "aborted" /\ jobs'[j].state = "started" =>
                  \E c \in Clients : req[c].job = j /\ cpc[c] = "start"
<1>1. TypeInv /\ RowInv /\ [Next]_vars => [A]_vars
  <2> SUFFICES ASSUME TypeInv, RowInv, [Next]_vars, NEW j \in JobIds,
                      jobs[j].state = "aborted", jobs'[j].state = "started"
               PROVE  \E c \in Clients : req[c].job = j /\ cpc[c] = "start"
    OBVIOUS
  <2>1. jobs'[j] # jobs[j]
    OBVIOUS
  <2>2. ASSUME jobs'[j] = wrows[j]
        PROVE  \E c \in Clients : req[c].job = j /\ cpc[c] = "start"
    BY <2>2 DEF RowInv, StartsAreSound, Asked
  <2>3. CASE \/ \E c \in Clients : CommitRequest(c)
             \/ \E s \in Slots : CommitChild(s) \/ CommitEnd(s) \/ CommitWaiter(s)
             \/ OpenCommits
    BY <2>2, <2>3, CommitHolds
  <2>4. CASE \/ \E c \in Clients : PauseInDB(c) \/ UnpauseInDB(c)
             \/ \E s \in Slots : Checkpoint(s)
             \/ \E k \in JobIds : StartTimeComes(k)
             \/ \E h \in Hosts, R \in SUBSET JobIds : OpenTimeline(h, R)
    BY <2>1, <2>4, ExecChange
  <2> QED
    BY <2>1, <2>3, <2>4, CommittedChange
<1>2. Spec => [][A]_vars
  BY <1>1, RowsAlways, PTL DEF Spec
<1> QED
  BY <1>2 DEF CancelledIsNotRestarted

(* JobPaused is an "intentional suspension (don't auto-resume)"             *)
(* (jobs.go:1203): a row leaves the paused state only on request, by the    *)
(* end of the goroutine that works for it, or by its timer.                 *)
THEOREM PausedIsIntentional == Spec => PausedStaysPaused
<1> DEFINE Ends(j) == \/ \E c \in Clients : /\ req[c].job = j
                                            /\ cpc[c] \in {"start", "unpauseDB"}
                                            /\ cpc'[c] # cpc[c]
                      \/ \E s \in Slots : /\ job[s] = j
                                          /\ pc[s] \in {"endtx", "launching"}
                                          /\ pc'[s] # pc[s]
           A == \A j \in JobIds : jobs[j].state = "paused" /\ jobs'[j].state # "paused" => Ends(j)
<1>1. TypeInv /\ RowInv /\ [Next]_vars => [A]_vars
  <2> SUFFICES ASSUME TypeInv, RowInv, [Next]_vars, NEW j \in JobIds,
                      jobs[j].state = "paused", jobs'[j].state # "paused"
               PROVE  Ends(j)
    OBVIOUS
  <2>1. jobs'[j] # jobs[j]
    OBVIOUS
  <2>2. ASSUME jobs'[j] = wrows[j]
        PROVE  \/ \E c \in Clients : writer = c /\ cpc[c] = "start" /\ req[c].job = j
               \/ \E s \in Slots : /\ writer = s /\ job[s] = j
                                   /\ pc[s] \in {"endtx", "launching"}
    BY <2>2 DEF RowInv, PausesEndSoundly, Asked, BusyWriters
  <2>3. CASE \E c \in Clients : CommitRequest(c)
    <3>1. PICK c \in Clients : CommitRequest(c)
      BY <2>3
    <3>2. /\ jobs'[j] = wrows[j] /\ writer = c /\ cpc'[c] # cpc[c]
      BY <3>1, CommitHolds
    <3> QED
      BY <2>2, <3>2, JobsAssumption
  <2>4. CASE \E s \in Slots : CommitChild(s) \/ CommitEnd(s) \/ CommitWaiter(s)
    <3>1. PICK s \in Slots : CommitChild(s) \/ CommitEnd(s) \/ CommitWaiter(s)
      BY <2>4
    <3>2. /\ jobs'[j] = wrows[j] /\ writer = s /\ pc'[s] # pc[s]
      BY <3>1, CommitHolds
    <3> QED
      BY <2>2, <3>2, JobsAssumption
  <2>5. CASE OpenCommits
    <3>1. jobs'[j] = wrows[j] /\ writer = "opener"
      BY <2>5, CommitHolds
    <3> QED
      BY <2>2, <3>1, JobsAssumption
  <2>6. CASE \/ \E c \in Clients : PauseInDB(c) \/ UnpauseInDB(c)
             \/ \E s \in Slots : Checkpoint(s)
             \/ \E k \in JobIds : StartTimeComes(k)
             \/ \E h \in Hosts, R \in SUBSET JobIds : OpenTimeline(h, R)
    BY <2>1, <2>6, ExecChange
  <2> QED
    BY <2>1, <2>3, <2>4, <2>5, <2>6, CommittedChange
<1>2. Spec => [][A]_vars
  BY <1>1, RowsAlways, PTL DEF Spec
<1> QED
  BY <1>2 DEF PausedStaysPaused

-----------------------------------------------------------------------------
(***************************************************************************)
(* Which goroutine stands behind a row that says started and behind an      *)
(* entry of activeJobs, for any number of jobs, goroutines, requests,       *)
(* sessions and machines.                                                   *)
(*                                                                         *)
(* A row and the goroutine that works for it are never changed in one step: *)
(* the row is written in a transaction that is committed later, by another  *)
(* goroutine or a request, and activeJobs is changed outside of it.         *)
(* RunnerInv says how far they may be apart, ActiveInv what activeJobs      *)
(* holds as long as no job is scheduled.                                    *)
(***************************************************************************)

(* A goroutine of runJob, from its start to the end of its deferred calls.  *)
Busy(s) == pc[s] \in {"run", "creating", "blocked", "ending", "endtx", "closing", "closed"}

LiveFor(j) == \E s \in Slots : job[s] = j /\ Live(s)
Runner(j) == \E s \in Slots : job[s] = j /\ (Live(s) \/ pc[s] = "endtx")

(* Goroutines and entries of activeJobs belong to sessions that have begun. *)
SessionsHaveBegun ==
  /\ \A s \in Slots : pc[s] # "free" \/ s = spawned => mem[s].sess \in 1..session
  /\ \A n \in Sessions, j \in JobIds : active[n][j] # None => n <= session

(* The goroutine that is not yet registered runs, unless it has panicked:   *)
(* to end, it would need the write connection, which its starter holds.     *)
SpawnedLives ==
  spawned # None => Live(spawned) \/ job[spawned] \in panicked

(* The rows that say started, committed or not, have a runner.              *)
StartedIsLive ==
  repo.state # "closed" =>
    \A j \in JobIds \ panicked :
      /\ jobs[j].state = "started" => Runner(j)
      /\ wrows[j].state = "started" => LiveFor(j)

(* A paused row without a runner is one that an earlier session left: no    *)
(* ActiveJob stands for it and no request to unpause found one.             *)
LeftPaused ==
  repo.state # "closed" =>
    \A j \in JobIds \ panicked : jobs[j].state = "paused" /\ ~Runner(j) =>
      /\ active[session][j] = None
      /\ \A c \in Clients : cpc[c] = "unpauseDB" => req[c].job # j

(* No transaction pauses a job.                                             *)
PausesAreCommitted ==
  \A j \in JobIds : wrows[j].state = "paused" => jobs[j].state = "paused"

(* The final state of a job that ends is in the transaction until that is   *)
(* committed, whatever job it starts next.                                  *)
EndsAreRecorded == \A s \in Slots : pc[s] = "endtx" => wrows[job[s]].state \in Ended

RunnerInv ==
  /\ SessionsHaveBegun
  /\ SpawnedLives
  /\ StartedIsLive
  /\ LeftPaused
  /\ PausesAreCommitted
  /\ EndsAreRecorded

-----------------------------------------------------------------------------
(* Without scheduled jobs there are no timers, and activeJobs names one     *)
(* goroutine per job and session: the one that runs.                        *)
NoTimers ==
  /\ \A s \in Slots : pc[s] \notin {"waiting", "launching"}
  /\ \A j \in JobIds : ~jobs[j].future /\ ~wrows[j].future

Registered ==
  \A s \in Slots : Busy(s) /\ s # spawned => active[mem[s].sess][job[s]] = s

SpawnedIsAlone ==
  spawned # None => active[mem[spawned].sess][job[spawned]] = None

ActiveInv == NoTimers /\ Registered /\ SpawnedIsAlone

-----------------------------------------------------------------------------
(* RunnerInv, step by step.  A calm step leaves sessions, registrations and *)
(* the goroutines in place; those of X are new, or have just begun.         *)
Calm(X) ==
  /\ session' = session /\ (repo'.state # "closed" => repo.state # "closed")
  /\ panicked \subseteq panicked'
  /\ \A n \in Sessions, j \in JobIds : active'[n][j] \in {active[n][j], None}
  /\ \A c \in Clients : cpc'[c] = "unpauseDB" =>
       \/ cpc[c] = "unpauseDB" /\ req'[c].job = req[c].job
       \/ active[session][req'[c].job] # None
  /\ \A s \in Slots \ X :
       /\ pc'[s] # "free" => pc[s] # "free" /\ mem'[s].sess = mem[s].sess
       /\ s = spawned => job'[s] = job[s] /\ mem'[s].sess = mem[s].sess
  /\ \A s \in Slots \cap X : mem'[s].sess \in 1..session
  /\ spawned' \in {spawned, None} \cup X

(* Goroutines that run go on, or panic.                                     *)
KeepsLive ==
  \A s \in Slots : Live(s) => job'[s] = job[s] /\ (Live(s)' \/ job[s] \in panicked')

KeepsEnds == \A s \in Slots : pc[s] = "endtx" \/ pc'[s] = "endtx" => pc'[s] = pc[s] /\ job'[s] = job[s]

LEMMA RunnersKept ==
  ASSUME KeepsLive, KeepsEnds, NEW j, j \notin panicked'
  PROVE  (LiveFor(j) => LiveFor(j)') /\ (Runner(j) => Runner(j)')
BY DEF KeepsLive, KeepsEnds, LiveFor, Runner, Live

LEMMA SessionsNext ==
  ASSUME TypeInv, SessionsHaveBegun, NEW X, Calm(X)
  PROVE  SessionsHaveBegun'
<1>1. ASSUME NEW s \in Slots, pc'[s] # "free" \/ s = spawned'
      PROVE  mem'[s].sess \in 1..session'
  <2>1. s \in X \/ pc[s] # "free" \/ s = spawned
    BY <1>1, JobsAssumption DEF Calm
  <2> QED
    BY <1>1, <2>1, JobsAssumption DEF Calm, SessionsHaveBegun
<1>2. ASSUME NEW n \in Sessions, NEW j \in JobIds, active'[n][j] # None
      PROVE  n <= session'
  BY <1>2 DEF Calm, SessionsHaveBegun
<1> QED
  BY <1>1, <1>2 DEF SessionsHaveBegun

(* What has to be shown of the table in a step that is calm.                *)
LEMMA TableRunners ==
  ASSUME TypeInv, RunnerInv, NEW X, Calm(X),
         SpawnedLives',
         repo.state # "closed" => \A j \in JobIds \ panicked' :
           /\ jobs'[j].state = "started" => Runner(j)'
           /\ wrows'[j].state = "started" => LiveFor(j)'
           /\ jobs'[j].state = "paused" => Runner(j)' \/ (jobs[j].state = "paused" /\ ~Runner(j)),
         PausesAreCommitted', EndsAreRecorded'
  PROVE  RunnerInv'
<1>1. SessionsHaveBegun'
  BY SessionsNext DEF RunnerInv
<1>3. StartedIsLive'
  BY DEF StartedIsLive, Calm
<1>4. LeftPaused'
  <2> SUFFICES ASSUME repo'.state # "closed", NEW j \in JobIds \ panicked',
                      jobs'[j].state = "paused", ~Runner(j)'
               PROVE  /\ active'[session'][j] = None
                      /\ \A c \in Clients : cpc'[c] = "unpauseDB" => req'[c].job # j
    BY DEF LeftPaused
  <2>1. /\ repo.state # "closed" /\ session \in Sessions /\ session' = session
        /\ j \in JobIds \ panicked /\ jobs[j].state = "paused" /\ ~Runner(j)
    BY DEF Calm, TypeInv, SessionOK
  <2>2. /\ active[session][j] = None
        /\ \A c \in Clients : cpc[c] = "unpauseDB" => req[c].job # j
    BY <2>1 DEF RunnerInv, LeftPaused
  <2> QED
    BY <2>1, <2>2 DEF Calm
<1> QED
  BY <1>1, <1>3, <1>4 DEF RunnerInv

(* The goroutine that is not yet registered goes on in a calm step.         *)
LEMMA SpawnedKept ==
  ASSUME TypeInv, RunnerInv, Calm({}), KeepsLive
  PROVE  SpawnedLives'
<1> SUFFICES ASSUME spawned' # None
             PROVE  (Live(spawned) \/ job[spawned] \in panicked)'
  BY DEF SpawnedLives
<1>1. spawned' = spawned /\ spawned \in Slots
  BY DEF Calm, TypeInv, TypeOK
<1>2. job'[spawned] = job[spawned]
  BY <1>1 DEF Calm
<1>3. CASE Live(spawned)
  <2>1. PICK s \in Slots : s = spawned
    BY <1>1
  <2>2. Live(s)' \/ job'[s] \in panicked'
    BY <1>2, <1>3, <2>1 DEF KeepsLive
  <2> QED
    BY <1>1, <2>1, <2>2 DEF Live
<1>4. CASE job[spawned] \in panicked
  BY <1>1, <1>2, <1>4 DEF Calm
<1> QED
  BY <1>1, <1>3, <1>4 DEF RunnerInv, SpawnedLives

LEMMA QuietRunners ==
  ASSUME TypeInv, RunnerInv, Calm({}), KeepsLive, KeepsEnds, UNCHANGED dbVars
  PROVE  RunnerInv'
<1>1. SpawnedLives'
  BY SpawnedKept
<1>2. repo.state # "closed" => \A j \in JobIds \ panicked' :
        /\ jobs'[j].state = "started" => Runner(j)'
        /\ wrows'[j].state = "started" => LiveFor(j)'
        /\ jobs'[j].state = "paused" => Runner(j)' \/ (jobs[j].state = "paused" /\ ~Runner(j))
  BY RunnersKept DEF dbVars, RunnerInv, StartedIsLive, Calm
<1>3. PausesAreCommitted' /\ EndsAreRecorded'
  BY DEF dbVars, RunnerInv, PausesAreCommitted, EndsAreRecorded, KeepsEnds
<1> QED
  BY <1>1, <1>2, <1>3, TableRunners

(* A write of its own: it keeps the states, pauses what is started, or      *)
(* starts what is paused and has a goroutine.                               *)
LEMMA ExecRunners ==
  ASSUME TypeInv, RowInv, RunnerInv, Calm({}), KeepsLive, KeepsEnds,
         writer = None, jobs' = wrows',
         \A j \in JobIds :
           \/ jobs'[j].state = jobs[j].state
           \/ jobs[j].state = "started" /\ jobs'[j].state = "paused"
           \/ /\ jobs[j].state = "paused" /\ jobs'[j].state = "started"
              /\ Runner(j) \/ j \in panicked
  PROVE  RunnerInv'
<1>1. SpawnedLives'
  BY SpawnedKept
<1>2. \A s \in Slots : pc[s] # "endtx"
  BY JobsAssumption DEF RowInv, BusyWriters
<1>3. ASSUME repo.state # "closed", NEW j \in JobIds \ panicked'
      PROVE  /\ jobs'[j].state = "started" => LiveFor(j)' /\ Runner(j)'
             /\ jobs'[j].state = "paused" => Runner(j)' \/ (jobs[j].state = "paused" /\ ~Runner(j))
  <2>1. j \in JobIds \ panicked
    BY DEF Calm
  <2>2. jobs[j].state = "started" => Runner(j)
    BY <1>3, <2>1 DEF RunnerInv, StartedIsLive
  <2>3. Runner(j) => LiveFor(j)
    BY <1>2 DEF Runner, LiveFor
  <2>4. (LiveFor(j) => LiveFor(j)') /\ (Runner(j) => Runner(j)')
    BY RunnersKept
  <2> QED
    BY <2>1, <2>2, <2>3, <2>4
<1>4. PausesAreCommitted' /\ EndsAreRecorded'
  BY <1>2 DEF PausesAreCommitted, EndsAreRecorded, KeepsEnds
<1> QED
  BY <1>1, <1>3, <1>4, TableRunners

(* A transaction is committed.                                              *)
LEMMA CommitRunners ==
  ASSUME TypeInv, RunnerInv, Calm({}), KeepsLive,
         \A s \in Slots : pc'[s] = "endtx" => pc[s] = "endtx" /\ job'[s] = job[s],
         jobs' = wrows, wrows' = wrows
  PROVE  RunnerInv'
<1>1. SpawnedLives'
  BY SpawnedKept
<1>2. ASSUME repo.state # "closed", NEW j \in JobIds \ panicked'
      PROVE  /\ wrows[j].state = "started" => LiveFor(j)' /\ Runner(j)'
             /\ wrows[j].state = "paused" => Runner(j)' \/ (jobs[j].state = "paused" /\ ~Runner(j))
  <2>1. j \in JobIds \ panicked
    BY DEF Calm
  <2>2. LiveFor(j) => LiveFor(j)'
    BY DEF KeepsLive, LiveFor, Live
  <2>3. LiveFor(j)' => Runner(j)'
    BY DEF LiveFor, Runner
  <2>4. wrows[j].state = "paused" => jobs[j].state = "paused" /\ (Runner(j) => LiveFor(j))
    BY DEF RunnerInv, PausesAreCommitted, EndsAreRecorded, Runner, LiveFor, Ended
  <2>5. wrows[j].state = "started" => LiveFor(j)
    BY <1>2, <2>1 DEF RunnerInv, StartedIsLive
  <2> QED
    BY <2>2, <2>3, <2>4, <2>5
<1>3. PausesAreCommitted' /\ EndsAreRecorded'
  BY DEF RunnerInv, PausesAreCommitted, EndsAreRecorded
<1> QED
  BY <1>1, <1>2, <1>3, TableRunners

(* A transaction begins: it may start job j, in a goroutine of X.           *)
LEMMA BeginRunners ==
  ASSUME TypeInv, RowInv, RunnerInv, NEW X, Calm(X),
         writer = None, jobs' = jobs, NEW rows \in [JobIds -> Row], NEW j \in JobIds,
         SpawnedLives',
         \A s \in Slots : Live(s) => job'[s] = job[s] /\ (Live(s)' \/ pc'[s] = "endtx"),
         \A k \in JobIds : rows[k].state = "started" => jobs[k].state = "started",
         \A k \in JobIds : rows[k].state = "paused" => jobs[k].state = "paused",
         \/ wrows' = rows
         \/ wrows' = [rows EXCEPT ![j].state = "started"] /\ LiveFor(j)',
         EndsAreRecorded'
  PROVE  RunnerInv'
<1>1. \A s \in Slots : pc[s] # "endtx"
  BY JobsAssumption DEF RowInv, BusyWriters
<1>2. \A k \in JobIds : /\ Runner(k) => LiveFor(k)
                        /\ Runner(k) => Runner(k)'
                        /\ Runner(k)' => LiveFor(k)' \/ wrows'[k].state \in Ended
  BY <1>1 DEF Runner, LiveFor, EndsAreRecorded
<1>3. \A k \in JobIds : \/ wrows'[k].state = rows[k].state
                        \/ k = j /\ wrows'[k].state = "started" /\ LiveFor(j)'
  BY DEF Row
<1>4. PausesAreCommitted'
  BY <1>3 DEF PausesAreCommitted
<1>5. ASSUME repo.state # "closed", NEW k \in JobIds \ panicked'
      PROVE  /\ jobs[k].state = "started" => Runner(k)'
             /\ wrows'[k].state = "started" => LiveFor(k)'
             /\ jobs[k].state = "paused" => Runner(k)' \/ (jobs[k].state = "paused" /\ ~Runner(k))
  <2>1. k \in JobIds \ panicked
    BY DEF Calm
  <2>2. jobs[k].state = "started" => Runner(k)
    BY <1>5, <2>1 DEF RunnerInv, StartedIsLive
  <2>3. "started" \notin Ended
    BY DEF Ended
  <2> QED
    BY <1>2, <1>3, <2>1, <2>2, <2>3
<1> QED
  BY <1>4, <1>5, TableRunners

(* A transaction begins and starts job j for session n.                     *)
LEMMA StartRunners ==
  ASSUME TypeInv, RowInv, RunnerInv, writer = None, jobs' = jobs,
         UNCHANGED <<active, session, panicked>>, repo'.state = repo.state,
         \A c \in Clients : cpc'[c] = "unpauseDB" =>
           cpc[c] = "unpauseDB" /\ req'[c].job = req[c].job,
         NEW rows \in [JobIds -> Row], NEW pcs \in [Slots -> GoPcs], NEW n \in 1..session,
         NEW j \in JobIds, NEW by,
         StartJob(rows, pcs, n, j, by) \/ Launched(rows, pcs, n, j),
         \A s \in Slots : /\ pcs[s] # "free" => pc[s] # "free"
                          /\ Live(s) => pcs[s] \in {"run", "creating", "blocked", "ending", "endtx"}
                          /\ pcs[s] = "endtx" => rows[job[s]].state \in Ended /\ job[s] # j,
         \A k \in JobIds : rows[k].state = "started" => jobs[k].state = "started",
         \A k \in JobIds : rows[k].state = "paused" => jobs[k].state = "paused"
  PROVE  RunnerInv'
<1>0. /\ TypeOK /\ job \in [Slots -> JobIds] /\ active \in [Sessions -> [JobIds -> Slots \cup {None}]]
      /\ spawned = None
  BY DEF TypeInv, TypeOK, RowInv, FreeIsCommitted
<1>1. PICK t \in FreeSlots :
        /\ t \in Slots /\ job'[t] = j
        /\ StartedIn(t, rows, pcs, n, j) \/ DeferredIn(t, rows, n, j, by)
        /\ \A s \in Slots \ {t} : pc'[s] = pcs[s] /\ mem'[s] = mem[s] /\ job'[s] = job[s]
  BY <1>0, StartEffect, LaunchEffect
<1>2. pc[t] = "free" /\ ~Live(t)
  BY <1>1 DEF FreeSlots, Live
<1>3. mem'[t].sess = n
  <2>1. CASE StartedIn(t, rows, pcs, n, j)
    BY <2>1 DEF StartedIn, ActiveJob, NoMem
  <2>2. CASE DeferredIn(t, rows, n, j, by)
    BY <2>2 DEF DeferredIn, NoMem
  <2> QED
    BY <1>1, <2>1, <2>2
<1>4. \/ wrows' = [rows EXCEPT ![j].state = "started"] /\ pc'[t] = "run" /\ spawned' = t
      \/ wrows' = rows /\ pc'[t] = "waiting" /\ spawned' = None
  BY <1>0, <1>1 DEF StartedIn, DeferredIn
<1>5. SpawnedLives'
  BY <1>4 DEF SpawnedLives, Live
<1>6. Calm({t})
  <2>1. \A m \in Sessions, k \in JobIds : active'[m][k] = active[m][k]
    OBVIOUS
  <2>2. \A s \in Slots \ {t} : pc'[s] # "free" => pc[s] # "free" /\ mem'[s].sess = mem[s].sess
    BY <1>1
  <2> QED
    BY <1>0, <1>1, <1>3, <1>4, <2>1, <2>2, JobsAssumption DEF Calm
<1>7. \A s \in Slots : Live(s) => job'[s] = job[s] /\ (Live(s)' \/ pc'[s] = "endtx")
  BY <1>1, <1>2 DEF Live
<1>8. wrows' = rows \/ (wrows' = [rows EXCEPT ![j].state = "started"] /\ LiveFor(j)')
  BY <1>1, <1>4 DEF LiveFor, Live
<1>9. EndsAreRecorded'
  <2> SUFFICES ASSUME NEW s \in Slots, pc'[s] = "endtx"
               PROVE  wrows'[job'[s]].state \in Ended
    BY DEF EndsAreRecorded
  <2>1. s # t
    BY <1>4
  <2>2. job'[s] = job[s] /\ rows[job[s]].state \in Ended /\ job[s] # j /\ job[s] \in JobIds
    BY <1>0, <1>1, <2>1
  <2> QED
    BY <1>4, <2>2
<1> QED
  BY <1>5, <1>6, <1>7, <1>8, <1>9, BeginRunners

(* Steps of one request, and of one goroutine, that touch no registration.  *)
LEMMA ClientCalm ==
  ASSUME TypeInv, NEW c \in Clients, cpc'[c] # "unpauseDB",
         \A d \in Clients \ {c} : cpc'[d] = cpc[d] /\ req'[d] = req[d],
         UNCHANGED <<spawned, active, pc, job, session, repo, panicked>>,
         \A s \in Slots : mem'[s].sess = mem[s].sess
  PROVE  Calm({}) /\ KeepsLive /\ KeepsEnds
<1>1. active \in [Sessions -> [JobIds -> Slots \cup {None}]]
  BY DEF TypeInv, TypeOK
<1> QED
  BY <1>1 DEF Calm, KeepsLive, KeepsEnds, Live

LEMMA SlotCalm ==
  ASSUME TypeInv, NEW s \in Slots,
         \A t \in Slots \ {s} : pc'[t] = pc[t] /\ job'[t] = job[t] /\ mem'[t].sess = mem[t].sess,
         pc'[s] # "free" => pc[s] # "free" /\ mem'[s].sess = mem[s].sess,
         s = spawned => job'[s] = job[s] /\ mem'[s].sess = mem[s].sess,
         Live(s) => job'[s] = job[s] /\ (Live(s)' \/ job[s] \in panicked'),
         \A n \in Sessions, j \in JobIds : active'[n][j] \in {active[n][j], None},
         \A c \in Clients : cpc'[c] = "unpauseDB" => cpc[c] = "unpauseDB",
         UNCHANGED <<spawned, req, session, repo>>, panicked \subseteq panicked'
  PROVE  Calm({}) /\ KeepsLive
BY DEF Calm, KeepsLive, Live

LEMMA RequestRunners ==
  ASSUME TypeInv, RowInv, RunnerInv, NEW c \in Clients, RequestStep(c)
  PROVE  RunnerInv'
<1>0. /\ TypeOK /\ job \in [Slots -> JobIds] /\ mem \in [Slots -> Mem] /\ jobs \in [JobIds -> Row]
      /\ pc \in [Slots -> GoPcs]
      /\ active \in [Sessions -> [JobIds -> Slots \cup {None}]]
      /\ cpc[c] = "idle" /\ IsOpen /\ session \in Sessions
  BY DEF TypeInv, TypeOK, SessionOK, IsOpen, RequestStep, CreateJob, RequestStart, RequestCancel,
         RequestPause, RequestUnpause, Idle
<1>1. ASSUME NEW j \in JobIds, NEW h \in Imports, NEW kind \in {"create", "schedule"},
             CreateJob(c, j, h, kind)
      PROVE  RunnerInv'
  <2>1. CASE Reject(c, kind) /\ UNCHANGED <<dbVars, goVars, envVars>>
    <3>1. Calm({}) /\ KeepsLive /\ KeepsEnds
      BY <1>0, <2>1, RejectFrame, ClientCalm DEF goVars, envVars
    <3> QED
      BY <2>1, <3>1, QuietRunners
  <2>2. CASE /\ StartJob(Insert(j, h, kind = "schedule"), pc, session, j, None)
             /\ Ask(c, kind, j, None, "create")
             /\ UNCHANGED <<jobs, active, envVars>>
    <3> DEFINE future == kind = "schedule"
               rows == Insert(j, h, future)
    <3>1. NextId(j) /\ writer = None /\ h \in Hashes /\ future \in BOOLEAN
      BY <1>1 DEF CreateJob, Hashes
    <3>2. rows = Insert(j, h, future) /\ StartJob(rows, pc, session, j, None)
      BY <2>2
    <3> HIDE DEF rows, future
    <3>3. /\ rows \in [JobIds -> Row] /\ rows[j].state = "queued"
          /\ \A k \in JobIds \ {j} : rows[k] = jobs[k]
      BY <1>0, <3>1, <3>2, InsertType, InsertRow
    <3>4. /\ cpc'[c] = "create" /\ \A d \in Clients \ {c} : cpc'[d] = cpc[d] /\ req'[d] = req[d]
      BY <1>0, <2>2, AskFrame
    <3>5. \A d \in Clients : cpc'[d] = "unpauseDB" => cpc[d] = "unpauseDB" /\ req'[d].job = req[d].job
      BY <3>4
    <3>6. /\ jobs' = jobs /\ UNCHANGED <<active, session, panicked>> /\ repo'.state = repo.state
          /\ session \in 1..session
      BY <1>0, <2>2 DEF envVars, Sessions
    <3>7. /\ \A k \in JobIds : rows[k].state = "started" => jobs[k].state = "started"
          /\ \A k \in JobIds : rows[k].state = "paused" => jobs[k].state = "paused"
      BY <3>3
    <3>8. \A s \in Slots : /\ Live(s) => pc[s] \in {"run", "creating", "blocked", "ending", "endtx"}
                           /\ pc[s] # "endtx"
      BY <3>1, JobsAssumption DEF Live, RowInv, BusyWriters
    <3> QED
      BY <1>0, <3>1, <3>2, <3>3, <3>5, <3>6, <3>7, <3>8, StartRunners
  <2> QED
    BY <1>1, <2>1, <2>2 DEF CreateJob, goVars, dbVars
<1>2. ASSUME NEW j \in JobIds, RequestCancel(c, j)
      PROVE  RunnerInv'
  <2>1. PICK s : mem' = mem \/ mem' = [mem EXCEPT ![s].cancelled = TRUE]
    BY <1>2 DEF RequestCancel
  <2>2. \A t \in Slots : mem'[t].sess = mem[t].sess
    BY <1>0, <2>1 DEF Mem
  <2>3. /\ cpc'[c] \in {"cancelWait", "cancelBegin"}
        /\ \A d \in Clients \ {c} : cpc'[d] = cpc[d] /\ req'[d] = req[d]
    BY <1>0, <1>2, AskFrame DEF RequestCancel
  <2>4. Calm({}) /\ KeepsLive /\ KeepsEnds
    BY <1>2, <2>2, <2>3, ClientCalm DEF RequestCancel, envVars
  <2> QED
    BY <1>2, <2>4, QuietRunners DEF RequestCancel
<1>3. ASSUME NEW j \in JobIds,
             (\E kind \in {"start", "restart"} : RequestStart(c, j, kind)) \/ RequestPause(c, j)
      PROVE  RunnerInv'
  <2>1. UNCHANGED <<dbVars, goVars, envVars>>
    BY <1>3 DEF RequestStart, RequestPause
  <2>2. /\ cpc'[c] \in {"startBegin", "pauseDB", "idle"}
        /\ \A d \in Clients \ {c} : cpc'[d] = cpc[d] /\ req'[d] = req[d]
    <3>1. \/ \E kind, ref, next : Ask(c, kind, j, ref, next) /\ next \in {"startBegin", "pauseDB"}
          \/ Reject(c, "pause")
      BY <1>3 DEF RequestStart, RequestPause
    <3> QED
      BY <1>0, <3>1, AskFrame, RejectFrame
  <2>3. Calm({}) /\ KeepsLive /\ KeepsEnds
    BY <2>1, <2>2, ClientCalm DEF goVars, envVars
  <2> QED
    BY <2>1, <2>3, QuietRunners
<1>4. ASSUME NEW j \in JobIds, RequestUnpause(c, j)
      PROVE  RunnerInv'
  <2>1. UNCHANGED <<dbVars, goVars, envVars>>
    BY <1>4 DEF RequestUnpause
  <2>2. /\ req'[c].job = j
        /\ cpc'[c] = IF active[session][j] # None THEN "unpauseDB" ELSE "unpauseRead"
        /\ \A d \in Clients \ {c} : cpc'[d] = cpc[d] /\ req'[d] = req[d]
    BY <1>0, <1>4, AskFrame DEF RequestUnpause
  <2>3. Calm({}) /\ KeepsLive /\ KeepsEnds
    BY <1>0, <2>1, <2>2 DEF goVars, envVars, Calm, KeepsLive, KeepsEnds, Live
  <2> QED
    BY <2>1, <2>3, QuietRunners
<1> QED
  BY <1>1, <1>2, <1>3, <1>4 DEF RequestStep

LEMMA BeginStartRunners ==
  ASSUME TypeInv, RowInv, RunnerInv, NEW c \in Clients, BeginStart(c)
  PROVE  RunnerInv'
<1>1. req[c].job \in JobIds
  BY DEF BeginStart, TypeInv, RequestsNameJobs
<1>2. PICK j \in JobIds : j = req[c].job
  BY <1>1
<1> DEFINE rows == IF req[c].op = "restart"
                     THEN [jobs EXCEPT ![j].chk = 0, ![j].prog = 0] ELSE jobs
<1>3. /\ TypeOK /\ jobs \in [JobIds -> Row] /\ pc \in [Slots -> GoPcs] /\ cpc \in [Clients -> ReqPcs]
      /\ writer = None /\ session \in Sessions
  BY DEF BeginStart, TypeInv, TypeOK, RowInv, RequestsNeedOpen, SessionOK
<1>4. CASE Answer(c, "error") /\ UNCHANGED <<dbVars, goVars, envVars>>
  <2>1. Calm({}) /\ KeepsLive /\ KeepsEnds
    BY <1>3, <1>4, AnswerFrame, ClientCalm DEF goVars, envVars
  <2> QED
    BY <1>4, <2>1, QuietRunners
<1>5. CASE /\ StartJob(rows, pc, session, j, c)
           /\ cpc' = [cpc EXCEPT ![c] = "start"]
           /\ UNCHANGED <<jobs, active, req, envVars>>
  <2>1. rows \in [JobIds -> Row]
    <3>1. \A row \in Row : [row EXCEPT !.chk = 0, !.prog = 0] \in Row
      BY ZeroInBounds DEF Row
    <3> DEFINE zero == [jobs[j] EXCEPT !.chk = 0, !.prog = 0]
    <3>2. rows = jobs \/ rows = [jobs EXCEPT ![j] = zero]
      BY <1>3 DEF Row
    <3>3. zero \in Row
      BY <1>3, <3>1
    <3> HIDE DEF zero, rows
    <3> QED
      BY <1>3, <3>2, <3>3
  <2>2. \A k \in JobIds : rows[k].state = jobs[k].state
    BY <1>3 DEF Row
  <2>3. StartJob(rows, pc, session, j, c)
    BY <1>5
  <2> HIDE DEF rows
  <2>4. \A d \in Clients : cpc'[d] = "unpauseDB" => cpc[d] = "unpauseDB" /\ req'[d].job = req[d].job
    BY <1>3, <1>5
  <2>5. /\ jobs' = jobs /\ UNCHANGED <<active, session, panicked>> /\ repo'.state = repo.state
        /\ session \in 1..session
    BY <1>3, <1>5 DEF envVars, Sessions
  <2>6. \A s \in Slots : /\ Live(s) => pc[s] \in {"run", "creating", "blocked", "ending", "endtx"}
                         /\ pc[s] # "endtx"
    BY <1>3, JobsAssumption DEF Live, RowInv, BusyWriters
  <2> QED
    BY <1>3, <2>1, <2>2, <2>3, <2>4, <2>5, <2>6, StartRunners
<1> QED
  BY <1>2, <1>4, <1>5 DEF BeginStart, goVars, dbVars

LEMMA HandlerRunners ==
  ASSUME TypeInv, RowInv, RunnerInv, NEW c \in Clients, HandlerStep(c) \/ Disconnect(c)
  PROVE  RunnerInv'
<1>0. /\ TypeOK /\ job \in [Slots -> JobIds] /\ mem \in [Slots -> Mem] /\ jobs \in [JobIds -> Row]
      /\ pc \in [Slots -> GoPcs] /\ cpc \in [Clients -> ReqPcs]
  BY DEF TypeInv, TypeOK
<1>1. CASE CommitRequest(c)
  <2>1. Calm({}) /\ KeepsLive
    BY <1>0, <1>1, AnswerFrame, ClientCalm DEF CommitRequest, goVars, envVars
  <2>2. pc' = pc /\ job' = job /\ jobs' = wrows /\ wrows' = wrows
    BY <1>1 DEF CommitRequest, Commit, goVars
  <2> QED
    BY <2>1, <2>2, CommitRunners
<1>2. CASE CancelWaited(c) \/ UnpauseRead(c)
  <2>1. /\ cpc'[c] # "unpauseDB" /\ \A d \in Clients \ {c} : cpc'[d] = cpc[d] /\ req'[d] = req[d]
        /\ UNCHANGED <<dbVars, goVars, envVars>>
    BY <1>0, <1>2, AnswerFrame DEF CancelWaited, UnpauseRead
  <2>2. Calm({}) /\ KeepsLive /\ KeepsEnds
    BY <2>1, ClientCalm DEF goVars, envVars
  <2> QED
    BY <2>1, <2>2, QuietRunners
<1>3. CASE BeginCancel(c)
  <2>1. /\ cpc'[c] # "unpauseDB" /\ \A d \in Clients \ {c} : cpc'[d] = cpc[d] /\ req'[d] = req[d]
        /\ UNCHANGED <<goVars, envVars>>
    BY <1>0, <1>3, AnswerFrame DEF BeginCancel
  <2>2. Calm({}) /\ KeepsLive /\ KeepsEnds
    BY <2>1, ClientCalm DEF goVars, envVars
  <2>3. CASE UNCHANGED dbVars
    BY <2>2, <2>3, QuietRunners
  <2>4. CASE Begin(c, jobs)
    <3>1. writer = None /\ jobs' = jobs /\ wrows' = jobs
      BY <2>4 DEF Begin
    <3>2. SpawnedLives'
      BY <2>2, SpawnedKept
    <3>3. \A s \in Slots : pc'[s] # "endtx" /\ (Live(s) => job'[s] = job[s] /\ Live(s)')
      BY <2>1, <3>1, JobsAssumption DEF goVars, RowInv, BusyWriters, Live
    <3>4. EndsAreRecorded'
      BY <3>3 DEF EndsAreRecorded
    <3>5. PICK j \in JobIds : j = 1
      BY JobsAssumption DEF JobIds
    <3> QED
      BY <1>0, <2>2, <3>1, <3>2, <3>3, <3>4, <3>5, BeginRunners
  <2> QED
    BY <1>3, <2>3, <2>4 DEF BeginCancel
<1>4. CASE PauseInDB(c) \/ UnpauseInDB(c)
  <2>1. /\ cpc'[c] # "unpauseDB" /\ \A d \in Clients \ {c} : cpc'[d] = cpc[d] /\ req'[d] = req[d]
        /\ UNCHANGED <<goVars, envVars>>
    BY <1>0, <1>4 DEF PauseInDB, UnpauseInDB
  <2>2. Calm({}) /\ KeepsLive /\ KeepsEnds
    BY <2>1, ClientCalm DEF goVars, envVars
  <2>3. writer = None /\ jobs' = wrows'
    BY <1>4 DEF PauseInDB, UnpauseInDB, Exec
  <2>4. ASSUME NEW j \in JobIds, jobs'[j].state # jobs[j].state
        PROVE  \/ jobs[j].state = "started" /\ jobs'[j].state = "paused"
               \/ /\ jobs[j].state = "paused" /\ jobs'[j].state = "started"
                  /\ Runner(j) \/ j \in panicked
    <3>1. CASE PauseInDB(c)
      BY <2>4, <3>1, ExecChange
    <3>2. CASE UnpauseInDB(c)
      <4>1. /\ jobs[j].state = "paused" /\ jobs'[j].state = "started"
            /\ req[c].job = j /\ cpc[c] = "unpauseDB"
        BY <2>4, <3>2, ExecChange
      <4>2. repo.state # "closed"
        BY <4>1 DEF RowInv, RequestsNeedOpen
      <4> QED
        BY <4>1, <4>2 DEF RunnerInv, LeftPaused
    <3> QED
      BY <1>4, <3>1, <3>2
  <2> QED
    BY <2>2, <2>3, <2>4, ExecRunners
<1>5. CASE PauseSet(c) \/ UnpauseClose(c)
  <2>1. PICK s, x, y : \/ mem' = [mem EXCEPT ![s].paused = x]
                       \/ mem' = [mem EXCEPT ![s].paused = x, ![s].unpause = y]
    BY <1>5 DEF PauseSet, UnpauseClose
  <2>2. \A t \in Slots : mem'[t].sess = mem[t].sess
    BY <1>0, <2>1 DEF Mem
  <2>3. /\ cpc'[c] = "idle" /\ \A d \in Clients \ {c} : cpc'[d] = cpc[d] /\ req'[d] = req[d]
        /\ UNCHANGED <<dbVars, spawned, active, pc, job, envVars>>
    BY <1>0, <1>5, AnswerFrame DEF PauseSet, UnpauseClose
  <2>4. Calm({}) /\ KeepsLive /\ KeepsEnds
    BY <2>2, <2>3, ClientCalm DEF envVars
  <2> QED
    BY <2>3, <2>4, QuietRunners
<1>6. CASE Disconnect(c)
  <2>1. /\ cpc'[c] = "idle" /\ \A d \in Clients \ {c} : cpc'[d] = cpc[d] /\ req'[d] = req[d]
        /\ UNCHANGED <<goVars, envVars>>
    BY <1>0, <1>6, AnswerFrame DEF Disconnect
  <2>2. Calm({}) /\ KeepsLive /\ KeepsEnds
    BY <2>1, ClientCalm DEF goVars, envVars
  <2>3. CASE UNCHANGED dbVars
    BY <2>2, <2>3, QuietRunners
  <2>4. CASE Rollback(c)
    <3>1. wrows' = jobs /\ jobs' = jobs /\ writer = c
      BY <2>4 DEF Rollback
    <3>2. \A s \in Slots : pc[s] # "endtx" /\ pc'[s] # "endtx"
      BY <2>1, <3>1, JobsAssumption DEF RowInv, BusyWriters, goVars
    <3>3. SpawnedLives'
      BY <2>2, SpawnedKept
    <3>4. EndsAreRecorded' /\ PausesAreCommitted'
      BY <3>1, <3>2 DEF EndsAreRecorded, PausesAreCommitted
    <3>5. ASSUME repo.state # "closed", NEW j \in JobIds \ panicked'
          PROVE  /\ jobs[j].state = "started" => Runner(j)' /\ LiveFor(j)'
                 /\ jobs[j].state = "paused" => Runner(j)' \/ (jobs[j].state = "paused" /\ ~Runner(j))
      <4>1. j \in JobIds \ panicked
        BY <2>2 DEF Calm
      <4>2. jobs[j].state = "started" => Runner(j)
        BY <3>5, <4>1 DEF RunnerInv, StartedIsLive
      <4>3. Runner(j) => LiveFor(j)
        BY <3>2 DEF Runner, LiveFor
      <4> QED
        BY <2>2, <4>2, <4>3, RunnersKept
    <3> QED
      BY <2>2, <3>1, <3>3, <3>4, <3>5, TableRunners
  <2> QED
    BY <1>6, <2>3, <2>4 DEF Disconnect
<1> QED
  BY <1>1, <1>2, <1>3, <1>4, <1>5, <1>6, BeginStartRunners DEF HandlerStep

LEMMA ActionRunners ==
  ASSUME TypeInv, RowInv, RunnerInv, NEW s \in Slots, ActionStep(s) \/ Fail(s) \/ Panic(s)
  PROVE  RunnerInv'
<1>0. /\ TypeOK /\ job \in [Slots -> JobIds] /\ mem \in [Slots -> Mem] /\ jobs \in [JobIds -> Row]
      /\ pc \in [Slots -> GoPcs] /\ cpc \in [Clients -> ReqPcs]
      /\ active \in [Sessions -> [JobIds -> Slots \cup {None}]]
  BY DEF TypeInv, TypeOK
<1>1. /\ UNCHANGED <<job, spawned, active, req, session, repo>> /\ panicked \subseteq panicked'
      /\ \A n \in Sessions, j \in JobIds : active'[n][j] \in {active[n][j], None}
  BY DEF ActionStep, Work, Checkpoint, ContinueCancelled, ContinuePaused, ContinueUnpaused, Succeed,
         End, CommitChild, Fail, Panic, reqVars, envVars
<1>2. /\ pc[s] \in {"run", "blocked", "creating"}
      /\ Live(s)' \/ job[s] \in panicked'
      /\ pc'[s] \notin {"endtx", "free"}
      /\ \A t \in Slots \ {s} : pc'[t] = pc[t]
  BY <1>0 DEF ActionStep, Work, Checkpoint, ContinueCancelled, ContinuePaused, ContinueUnpaused,
              Succeed, End, CommitChild, Fail, Panic, Go, Live
<1>3. \A t \in Slots : mem'[t].sess = mem[t].sess
  <2>1. PICK x, y : \/ mem' = mem
                    \/ mem' = [mem EXCEPT ![s].pos = x, ![s].prog = y]
                    \/ mem' = [mem EXCEPT ![s].chk = x]
                    \/ mem' = [mem EXCEPT ![s].unpause = x]
                    \/ mem' = [mem EXCEPT ![s].result = x, ![s].unpause = y]
    <3>1. CASE Work(s)
      BY <3>1 DEF Work
    <3>2. CASE ~Work(s)
      BY <3>2 DEF ActionStep, Checkpoint, ContinueCancelled, ContinuePaused,
                  ContinueUnpaused, Succeed, End, CommitChild, Fail, Panic
    <3> QED
      BY <3>1, <3>2
  <2>2. CASE mem' = [mem EXCEPT ![s].pos = x, ![s].prog = y]
    BY <1>0, <2>2 DEF Mem
  <2>3. CASE mem' = [mem EXCEPT ![s].result = x, ![s].unpause = y]
    BY <1>0, <2>3 DEF Mem
  <2>4. CASE mem' = [mem EXCEPT ![s].chk = x]
    BY <1>0, <2>4 DEF Mem
  <2>5. CASE mem' = [mem EXCEPT ![s].unpause = x]
    BY <1>0, <2>5 DEF Mem
  <2> QED
    BY <2>1, <2>2, <2>3, <2>4, <2>5
<1>4. \A c \in Clients : cpc'[c] = "unpauseDB" => cpc[c] = "unpauseDB"
  <2>1. CASE \E c \in Clients : ContinuePaused(s, c)
    BY <1>0, <2>1 DEF ContinuePaused
  <2>2. CASE UNCHANGED cpc
    BY <2>2
  <2> QED
    BY <2>1, <2>2 DEF ActionStep, Work, Checkpoint, ContinueCancelled, ContinueUnpaused, Succeed,
                      End, CommitChild, Fail, Panic, reqVars
<1>5. Calm({}) /\ KeepsLive /\ KeepsEnds
  <2>1. Calm({}) /\ KeepsLive
    BY <1>1, <1>2, <1>3, <1>4, SlotCalm
  <2> QED
    BY <1>1, <1>2, <2>1 DEF KeepsEnds
<1>6. CASE CommitChild(s)
  <2>1. jobs' = wrows /\ wrows' = wrows
    BY <1>6 DEF CommitChild, Commit
  <2> QED
    BY <1>1, <1>2, <1>5, <2>1, CommitRunners DEF KeepsEnds
<1>7. CASE UNCHANGED dbVars
  BY <1>5, <1>7, QuietRunners
<1>8. CASE Checkpoint(s)
  <2>1. \A j \in JobIds : jobs'[j].state = jobs[j].state
    BY <1>8, ExecChange
  <2>2. UNCHANGED dbVars \/ (writer = None /\ jobs' = wrows')
    BY <1>8 DEF Checkpoint, Exec
  <2> QED
    BY <1>5, <1>7, <2>1, <2>2, ExecRunners
<1> QED
  BY <1>6, <1>7, <1>8 DEF ActionStep, Work, ContinueCancelled, ContinuePaused, ContinueUnpaused,
                          Succeed, End, Fail, Panic

LEMMA CreateChildRunners ==
  ASSUME TypeInv, RowInv, RunnerInv,
         NEW s \in Slots, NEW j \in JobIds, NEW kind \in ChildKinds, CreateChild(s, j, kind)
  PROVE  RunnerInv'
<1> DEFINE h == <<kind, job[s]>>
           pcs == [pc EXCEPT ![s] = "creating"]
           future == FALSE
           rows == Insert(j, h, future)
           n == mem[s].sess
<1>0. /\ TypeOK /\ job \in [Slots -> JobIds] /\ pc \in [Slots -> GoPcs]
      /\ writer = None /\ NextId(j) /\ pc[s] = "run"
      /\ n \in 1..session
  BY DEF TypeInv, TypeOK, CreateChild, RunnerInv, SessionsHaveBegun
<1>1. /\ StartJob(rows, pcs, n, j, None) /\ jobs' = jobs
      /\ UNCHANGED <<active, session, panicked>> /\ repo'.state = repo.state
      /\ \A c \in Clients : cpc'[c] = "unpauseDB" =>
           cpc[c] = "unpauseDB" /\ req'[c].job = req[c].job
  BY DEF CreateChild, reqVars, envVars
<1>2. /\ h \in Hashes /\ future \in BOOLEAN /\ rows = Insert(j, h, future)
      /\ pcs \in [Slots -> GoPcs] /\ pcs[s] = "creating" /\ \A u \in Slots \ {s} : pcs[u] = pc[u]
  BY <1>0 DEF Hashes, GoPcs
<1> HIDE DEF h, pcs, rows, n, future
<1>3. /\ rows \in [JobIds -> Row] /\ rows[j].state = "queued"
      /\ \A k \in JobIds \ {j} : rows[k] = jobs[k]
  BY <1>0, <1>2, InsertType, InsertRow
<1>4. \A t \in Slots : /\ pcs[t] # "free" => pc[t] # "free"
                       /\ Live(t) => pcs[t] \in {"run", "creating", "blocked", "ending", "endtx"}
                       /\ pcs[t] # "endtx"
  BY <1>0, <1>2, JobsAssumption DEF Live, RowInv, BusyWriters
<1>5. /\ \A k \in JobIds : rows[k].state = "started" => jobs[k].state = "started"
      /\ \A k \in JobIds : rows[k].state = "paused" => jobs[k].state = "paused"
  BY <1>3
<1> QED
  BY <1>0, <1>1, <1>2, <1>3, <1>4, <1>5, StartRunners

LEMMA EndJobRunners ==
  ASSUME TypeInv, RowInv, RunnerInv, NEW s \in Slots, EndJob(s)
  PROVE  RunnerInv'
<1> DEFINE rows == FinalRows(s)
           n == mem[s].sess
           pcs == [pc EXCEPT ![s] = "endtx"]
<1>0. /\ TypeOK /\ job \in [Slots -> JobIds] /\ pc \in [Slots -> GoPcs]
      /\ active \in [Sessions -> [JobIds -> Slots \cup {None}]]
      /\ writer = None /\ pc[s] = "ending" /\ n \in 1..session
      /\ spawned = None
  BY DEF TypeInv, TypeOK, EndJob, RunnerInv, SessionsHaveBegun, RowInv, FreeIsCommitted
<1>1. /\ jobs' = jobs /\ repo' = repo /\ cpc' = cpc /\ req' = req
      /\ UNCHANGED <<active, session, panicked>>
  BY DEF EndJob, reqVars, envVars
<1>2. /\ rows \in [JobIds -> Row] /\ rows[job[s]].state \in Ended
      /\ \A k \in JobIds \ {job[s]} : rows[k] = jobs[k]
  BY <1>0, FinalRowsEffect
<1>3. pcs \in [Slots -> GoPcs] /\ pcs[s] = "endtx" /\ \A u \in Slots \ {s} : pcs[u] = pc[u]
  BY <1>0 DEF GoPcs
<1>4. \/ pc' = pcs /\ wrows' = rows /\ UNCHANGED <<spawned, job, mem>>
      \/ \E j \in Queue(rows) : j \in JobIds /\ StartJob(rows, pcs, n, j, None)
  BY DEF EndJob, First, Queue
<1> HIDE DEF rows, n, pcs
<1>5. \A t \in Slots : pc[t] # "endtx"
  BY <1>0, JobsAssumption DEF RowInv, BusyWriters
<1>6. /\ \A k \in JobIds : rows[k].state = "started" => jobs[k].state = "started"
      /\ \A k \in JobIds : rows[k].state = "paused" => jobs[k].state = "paused"
  BY <1>2 DEF Ended
<1>7. \A t \in Slots : /\ pcs[t] # "free" => pc[t] # "free"
                       /\ Live(t) => pcs[t] \in {"run", "creating", "blocked", "ending", "endtx"}
                       /\ pcs[t] = "endtx" => t = s
  BY <1>0, <1>3, <1>5 DEF Live
<1>8. CASE pc' = pcs /\ wrows' = rows /\ UNCHANGED <<spawned, job, mem>>
  <2>1. Calm({})
    BY <1>0, <1>1, <1>7, <1>8 DEF Calm
  <2>2. \A t \in Slots : Live(t) => job'[t] = job[t] /\ (Live(t)' \/ pc'[t] = "endtx")
    BY <1>7, <1>8 DEF Live
  <2>3. EndsAreRecorded' /\ SpawnedLives'
    BY <1>0, <1>2, <1>7, <1>8 DEF EndsAreRecorded, SpawnedLives
  <2>4. PICK j \in JobIds : j = job[s]
    BY <1>0
  <2> QED
    BY <1>0, <1>1, <1>2, <1>6, <1>8, <2>1, <2>2, <2>3, <2>4, BeginRunners
<1>9. CASE \E j \in Queue(rows) : j \in JobIds /\ StartJob(rows, pcs, n, j, None)
  <2>1. PICK j \in JobIds : j \in Queue(rows) /\ StartJob(rows, pcs, n, j, None)
    BY <1>9
  <2>2. job[s] # j
    BY <1>2, <2>1 DEF Queue, Ended
  <2>3. \A t \in Slots : /\ pcs[t] # "free" => pc[t] # "free"
                         /\ Live(t) => pcs[t] \in {"run", "creating", "blocked", "ending", "endtx"}
                         /\ pcs[t] = "endtx" => rows[job[t]].state \in Ended /\ job[t] # j
    BY <1>2, <1>7, <2>2
  <2>4. /\ repo'.state = repo.state
        /\ \A c \in Clients : cpc'[c] = "unpauseDB" =>
             cpc[c] = "unpauseDB" /\ req'[c].job = req[c].job
    BY <1>1
  <2>5. StartJob(rows, pcs, n, j, None)
    BY <2>1
  <2>6. /\ writer = None /\ jobs' = jobs /\ UNCHANGED <<active, session, panicked>>
        /\ rows \in [JobIds -> Row] /\ pcs \in [Slots -> GoPcs] /\ n \in 1..session
    BY <1>0, <1>1, <1>2, <1>3
  <2> QED
    BY <1>6, <2>3, <2>4, <2>5, <2>6, StartRunners
<1> QED
  BY <1>4, <1>8, <1>9

LEMMA GoroutineRunners ==
  ASSUME TypeInv, RowInv, RunnerInv, NEW s \in Slots, GoroutineStep(s)
  PROVE  RunnerInv'
<1>0. /\ TypeOK /\ job \in [Slots -> JobIds] /\ mem \in [Slots -> Mem] /\ pc \in [Slots -> GoPcs]
      /\ active \in [Sessions -> [JobIds -> Slots \cup {None}]]
  BY DEF TypeInv, TypeOK
<1>1. CASE \/ CommitEnd(s) \/ CommitWaiter(s) \/ CloseDone(s) \/ Unregister(s) \/ WaiterGivesUp(s)
           \/ (Return(s) /\ pc[s] = "waiting" /\ UNCHANGED <<dbVars, spawned, active, reqVars, envVars>>)
  <2>1. /\ pc[s] \in {"endtx", "launching", "closing", "closed", "waiting"}
        /\ pc'[s] \in {"closing", "closed", "free"}
        /\ \A t \in Slots \ {s} : pc'[t] = pc[t] /\ job'[t] = job[t] /\ mem'[t] = mem[t]
        /\ pc'[s] # "free" \/ s = spawned => job'[s] = job[s] /\ mem'[s].sess = mem[s].sess
    <3>1. CASE CommitEnd(s)
      BY <1>0, <3>1 DEF CommitEnd, Go
    <3>2. CASE CloseDone(s)
      BY <1>0, <3>2 DEF CloseDone, Go, Mem
    <3>3. CASE Return(s) /\ pc[s] \in {"launching", "closed", "waiting"}
      BY <1>0, <3>3, ReturnEffect
    <3> QED
      BY <1>1, <3>1, <3>2, <3>3 DEF CommitWaiter, Unregister, WaiterGivesUp
  <2>2. /\ UNCHANGED <<spawned, cpc, req, session, repo, panicked>>
        /\ \A n \in Sessions, j \in JobIds : active'[n][j] \in {active[n][j], None}
    <3>1. CASE Unregister(s)
      BY <1>0, <3>1 DEF Unregister, reqVars, envVars
    <3>2. CASE ~Unregister(s)
      BY <1>1, <3>2 DEF CommitEnd, CommitWaiter, CloseDone, WaiterGivesUp, reqVars, envVars
    <3> QED
      BY <3>1, <3>2
  <2>3. ~Live(s)
    BY <2>1 DEF Live
  <2>4. Calm({}) /\ KeepsLive
    BY <2>1, <2>2, <2>3, SlotCalm
  <2>5. CASE CommitEnd(s) \/ CommitWaiter(s)
    <3>1. jobs' = wrows /\ wrows' = wrows
      BY <2>5 DEF CommitEnd, CommitWaiter, Commit
    <3> QED
      BY <2>1, <2>4, <3>1, CommitRunners
  <2>6. CASE UNCHANGED dbVars /\ pc[s] # "endtx"
    <3>1. KeepsEnds
      BY <2>1, <2>6 DEF KeepsEnds
    <3> QED
      BY <2>4, <2>6, <3>1, QuietRunners
  <2> QED
    BY <1>1, <2>5, <2>6 DEF CloseDone, Unregister, WaiterGivesUp
<1>2. CASE WaiterFires(s)
  <2>1. PICK j \in JobIds : j = job[s]
    BY <1>0
  <2>2. CASE Return(s) /\ UNCHANGED <<dbVars, spawned>>
    BY <1>1, <1>2, <2>2 DEF WaiterFires
  <2>3. CASE Launched(jobs, [pc EXCEPT ![s] = "launching"], mem[s].sess, j) /\ UNCHANGED jobs
    <3> DEFINE pcs == [pc EXCEPT ![s] = "launching"]
               n == mem[s].sess
    <3>1. /\ pcs \in [Slots -> GoPcs] /\ pcs[s] = "launching"
          /\ \A u \in Slots \ {s} : pcs[u] = pc[u]
      BY <1>0 DEF GoPcs
    <3>2. /\ Launched(jobs, pcs, n, j) /\ jobs' = jobs /\ writer = None /\ pc[s] = "waiting"
          /\ UNCHANGED <<active, session, panicked>> /\ repo'.state = repo.state
          /\ \A c \in Clients : cpc'[c] = "unpauseDB" =>
               cpc[c] = "unpauseDB" /\ req'[c].job = req[c].job
      BY <1>2, <2>3 DEF WaiterFires, reqVars, envVars
    <3>3. n \in 1..session /\ jobs \in [JobIds -> Row]
      BY <1>0, <3>2 DEF RunnerInv, SessionsHaveBegun, TypeOK
    <3> HIDE DEF pcs, n
    <3>4. \A t \in Slots : /\ pcs[t] # "free" => pc[t] # "free"
                           /\ Live(t) => pcs[t] \in {"run", "creating", "blocked", "ending", "endtx"}
                           /\ pcs[t] # "endtx"
      BY <1>0, <3>1, <3>2, JobsAssumption DEF Live, RowInv, BusyWriters
    <3> QED
      BY <3>1, <3>2, <3>3, <3>4, StartRunners
  <2> QED
    BY <1>2, <2>1, <2>2, <2>3 DEF WaiterFires, Launched
<1> QED
  BY <1>1, <1>2, EndJobRunners DEF GoroutineStep

LEMMA OpenRunners ==
  ASSUME TypeInv, RowInv, RunnerInv, OpenStep
  PROVE  RunnerInv'
<1>0. /\ TypeOK /\ jobs \in [JobIds -> Row] /\ pc \in [Slots -> GoPcs] /\ repo \in Repo
      /\ active \in [Sessions -> [JobIds -> Slots \cup {None}]]
  BY DEF TypeInv, TypeOK
<1>1. ASSUME NEW j \in JobIds, OpenStarts(j)
      PROVE  RunnerInv'
  <2>1. /\ StartJob(jobs, pc, session, j, None) /\ writer = None /\ jobs' = jobs
        /\ UNCHANGED <<active, session, panicked>> /\ repo'.state = repo.state
        /\ \A c \in Clients : cpc'[c] = "unpauseDB" =>
             cpc[c] = "unpauseDB" /\ req'[c].job = req[c].job
    BY <1>0, <1>1 DEF OpenStarts, reqVars, Repo
  <2>2. session \in 1..session
    BY <1>1 DEF TypeInv, SessionOK, OpenStarts, Sessions
  <2>3. \A s \in Slots : /\ pc[s] # "free" => pc[s] # "free"
                         /\ Live(s) => pc[s] \in {"run", "creating", "blocked", "ending", "endtx"}
                         /\ pc[s] # "endtx"
    BY <2>1, JobsAssumption DEF Live, RowInv, BusyWriters
  <2>4. /\ \A k \in JobIds : jobs[k].state = "started" => jobs[k].state = "started"
        /\ \A k \in JobIds : jobs[k].state = "paused" => jobs[k].state = "paused"
    OBVIOUS
  <2> QED
    BY <1>0, <2>1, <2>2, <2>3, <2>4, StartRunners
<1>2. CASE OpenCommits
  <2>1. Calm({}) /\ KeepsLive
    BY <1>0, <1>2 DEF OpenCommits, Calm, KeepsLive, Live, goVars, reqVars, envVars
  <2>2. pc' = pc /\ job' = job /\ jobs' = wrows /\ wrows' = wrows
    BY <1>2 DEF OpenCommits, Commit, goVars
  <2> QED
    BY <2>1, <2>2, CommitRunners
<1>3. CASE OpenReturns \/ \E j \in JobIds : OpenFails(j)
  <2>1. /\ UNCHANGED <<dbVars, goVars, reqVars, session, panicked>>
        /\ repo.state # "closed"
    BY <1>3 DEF OpenReturns, OpenFails
  <2>2. Calm({}) /\ KeepsLive /\ KeepsEnds
    BY <1>0, <2>1 DEF Calm, KeepsLive, KeepsEnds, Live, goVars, reqVars
  <2> QED
    BY <2>1, <2>2, QuietRunners
<1> QED
  BY <1>1, <1>2, <1>3 DEF OpenStep

(* Opening interrupts what was started, and a new session has no ActiveJob. *)
LEMMA OpenTimelineRunners ==
  ASSUME TypeInv, RowInv, RunnerInv,
         NEW h \in Hosts, NEW R \in SUBSET JobIds, OpenTimeline(h, R)
  PROVE  RunnerInv'
<1>0. /\ active \in [Sessions -> [JobIds -> Slots \cup {None}]] /\ session \in 0..MaxSessions
      /\ session' = session + 1 /\ session' \in Sessions
      /\ writer = None /\ spawned = None /\ jobs' = wrows' /\ repo.state = "closed"
      /\ spawned' = spawned /\ active' = active /\ pc' = pc /\ job' = job /\ mem' = mem
      /\ cpc' = cpc /\ req' = req
  BY JobsAssumption
     DEF TypeInv, TypeOK, OpenTimeline, Exec, RowInv, FreeIsCommitted, Sessions, goVars, reqVars
<1>1. \A j \in JobIds : jobs'[j].state # "started"
  BY ExecChange
<1>2. SessionsHaveBegun'
  BY <1>0 DEF RunnerInv, SessionsHaveBegun, Sessions
<1>3. SpawnedLives' /\ PausesAreCommitted' /\ StartedIsLive'
  BY <1>0, <1>1 DEF SpawnedLives, PausesAreCommitted, StartedIsLive
<1>4. EndsAreRecorded'
  BY <1>0, JobsAssumption DEF EndsAreRecorded, RowInv, BusyWriters
<1>5. LeftPaused'
  <2>1. \A j \in JobIds : active'[session'][j] = None
    BY <1>0 DEF RunnerInv, SessionsHaveBegun
  <2>2. \A c \in Clients : cpc'[c] # "unpauseDB"
    BY <1>0 DEF RowInv, RequestsNeedOpen
  <2> QED
    BY <2>1, <2>2 DEF LeftPaused
<1> QED
  BY <1>2, <1>3, <1>4, <1>5 DEF RunnerInv

(* The new goroutine goes into activeJobs: its job has a runner.            *)
LEMMA RegisterRunners ==
  ASSUME TypeInv, RowInv, RunnerInv, Register
  PROVE  RunnerInv'
<1>0. /\ active \in [Sessions -> [JobIds -> Slots \cup {None}]] /\ mem \in [Slots -> Mem]
      /\ spawned \in Slots /\ spawned' = None
      /\ active' = [active EXCEPT ![mem[spawned].sess][job[spawned]] = spawned]
      /\ UNCHANGED <<dbVars, pc, job, mem, reqVars, envVars>>
  BY DEF Register, TypeInv, TypeOK
<1>1. mem[spawned].sess \in 1..session /\ (Live(spawned) \/ job[spawned] \in panicked)
  BY <1>0, JobsAssumption DEF RunnerInv, SessionsHaveBegun, SpawnedLives
<1>2. \A n \in Sessions, j \in JobIds :
        \/ active'[n][j] = active[n][j]
        \/ n = mem[spawned].sess /\ j = job[spawned]
  BY <1>0
<1>3. SessionsHaveBegun'
  <2>1. ASSUME NEW s \in Slots, pc'[s] # "free" \/ s = spawned'
        PROVE  mem'[s].sess \in 1..session'
    BY <1>0, <2>1, JobsAssumption DEF RunnerInv, SessionsHaveBegun, envVars
  <2>2. ASSUME NEW n \in Sessions, NEW j \in JobIds, active'[n][j] # None
        PROVE  n <= session'
    BY <1>0, <1>1, <1>2, <2>2 DEF RunnerInv, SessionsHaveBegun, envVars
  <2> QED
    BY <2>1, <2>2 DEF SessionsHaveBegun
<1>4. \A j \in JobIds : Runner(j)' = Runner(j) /\ LiveFor(j)' = LiveFor(j)
  BY <1>0 DEF Runner, LiveFor, Live
<1>5. SpawnedLives' /\ PausesAreCommitted' /\ EndsAreRecorded' /\ StartedIsLive'
  BY <1>0, <1>4 DEF SpawnedLives, PausesAreCommitted, EndsAreRecorded, StartedIsLive, RunnerInv,
                    dbVars, envVars
<1>6. LeftPaused'
  <2> SUFFICES ASSUME repo.state # "closed", NEW j \in JobIds \ panicked,
                      jobs[j].state = "paused", ~Runner(j)
               PROVE  /\ active'[session][j] = None
                      /\ \A c \in Clients : cpc[c] = "unpauseDB" => req[c].job # j
    BY <1>0, <1>4 DEF LeftPaused, dbVars, reqVars, envVars
  <2>1. /\ active[session][j] = None /\ session \in Sessions
        /\ \A c \in Clients : cpc[c] = "unpauseDB" => req[c].job # j
    BY DEF RunnerInv, LeftPaused, TypeInv, SessionOK
  <2>2. j # job[spawned]
    BY <1>0, <1>1 DEF Runner
  <2> QED
    BY <1>2, <2>1, <2>2
<1> QED
  BY <1>3, <1>5, <1>6 DEF RunnerInv

LEMMA RunnerInit == Init => RunnerInv
BY JobsAssumption
   DEF Init, RunnerInv, SessionsHaveBegun, SpawnedLives, StartedIsLive, LeftPaused,
       PausesAreCommitted, EndsAreRecorded, NoRow

LEMMA RunnerNext ==
  ASSUME TypeInv, RowInv, RunnerInv, [Next]_vars
  PROVE  RunnerInv'
<1>0. /\ TypeOK /\ jobs \in [JobIds -> Row]
      /\ active \in [Sessions -> [JobIds -> Slots \cup {None}]]
  BY DEF TypeInv, TypeOK
<1>1. ASSUME NEW c \in Clients, RequestStep(c) \/ HandlerStep(c) \/ Disconnect(c)
      PROVE  RunnerInv'
  BY <1>1, RequestRunners, HandlerRunners
<1>2. ASSUME NEW s \in Slots,
             \/ ActionStep(s) \/ GoroutineStep(s) \/ Fail(s) \/ Panic(s)
             \/ \E j \in JobIds, kind \in ChildKinds : CreateChild(s, j, kind)
      PROVE  RunnerInv'
  BY <1>2, ActionRunners, GoroutineRunners, CreateChildRunners
<1>3. ASSUME NEW j \in JobIds, StartTimeComes(j)
      PROVE  RunnerInv'
  <2>1. Calm({}) /\ KeepsLive /\ KeepsEnds
    BY <1>0, <1>3 DEF StartTimeComes, Calm, KeepsLive, KeepsEnds, Live, goVars, reqVars, envVars
  <2>2. writer = None /\ jobs' = wrows' /\ \A k \in JobIds : jobs'[k].state = jobs[k].state
    BY <1>0, <1>3, ExecChange DEF StartTimeComes, Exec
  <2> QED
    BY <2>1, <2>2, ExecRunners
<1>4. CASE Stop
  BY <1>4, JobsAssumption
     DEF Stop, RunnerInv, SessionsHaveBegun, SpawnedLives, StartedIsLive, LeftPaused,
         PausesAreCommitted, EndsAreRecorded, TypeInv, TypeOK, Repo
<1>5. CASE UNCHANGED vars
  <2>1. Calm({}) /\ KeepsLive /\ KeepsEnds
    BY <1>0, <1>5 DEF vars, Calm, KeepsLive, KeepsEnds, Live, goVars, reqVars, envVars
  <2> QED
    BY <1>5, <2>1, QuietRunners DEF vars
<1> QED
  BY <1>1, <1>2, <1>3, <1>4, <1>5, OpenRunners, OpenTimelineRunners, RegisterRunners DEF Next

LEMMA RunnersAlways == Spec => [](TypeInv /\ RowInv /\ RunnerInv)
<1>1. Spec => [](TypeInv /\ RowInv)
  BY RowsAlways
<1>2. Init => RunnerInv
  BY RunnerInit
<1>3. TypeInv /\ RowInv /\ RunnerInv /\ [Next]_vars => RunnerInv'
  BY RunnerNext
<1> QED
  BY <1>1, <1>2, <1>3, PTL DEF Spec

(* In every reachable state, a row that says started has a goroutine        *)
(* working for it, or its goroutine panicked: however requests, children,   *)
(* endings, timers and openings are interleaved, no started row is left     *)
(* over that would refuse every identical job (startJob).                   *)
THEOREM StartedIsBeingRun == Spec => []StartedHasRunner
<1>1. TypeInv /\ RowInv /\ RunnerInv => StartedHasRunner
  BY DEF RunnerInv, StartedIsLive, Runner, StartedHasRunner
<1> QED
  BY <1>1, RunnersAlways, PTL

-----------------------------------------------------------------------------
(* ActiveInv, step by step.  A settled step starts no goroutine and leaves  *)
(* activeJobs alone.                                                        *)
Settled ==
  /\ active' = active /\ spawned' = spawned
  /\ \A s \in Slots :
       /\ pc'[s] # "free" => pc[s] # "free" /\ pc'[s] \notin {"waiting", "launching"}
       /\ pc'[s] # "free" \/ s = spawned => job'[s] = job[s] /\ mem'[s].sess = mem[s].sess

DueStays ==
  \A j \in JobIds : jobs'[j].future \/ wrows'[j].future => jobs[j].future \/ wrows[j].future

LEMMA SettledActive ==
  ASSUME TypeInv, ActiveInv, Settled, DueStays
  PROVE  ActiveInv'
<1>0. pc \in [Slots -> GoPcs] /\ spawned \in Slots \cup {None} /\ None \notin Slots
  BY JobsAssumption DEF TypeInv, TypeOK
<1>1. NoTimers'
  BY DEF ActiveInv, NoTimers, Settled, DueStays
<1>2. Registered'
  <2> SUFFICES ASSUME NEW s \in Slots, Busy(s)', s # spawned'
               PROVE  active'[mem'[s].sess][job'[s]] = s
    BY DEF Registered
  <2>1. Busy(s) /\ s # spawned /\ job'[s] = job[s] /\ mem'[s].sess = mem[s].sess
    BY <1>0 DEF Settled, Busy, ActiveInv, NoTimers, GoPcs
  <2> QED
    BY <2>1 DEF Settled, ActiveInv, Registered
<1>3. SpawnedIsAlone'
  <2> SUFFICES ASSUME spawned' # None
               PROVE  (active[mem[spawned].sess][job[spawned]] = None)'
    BY DEF SpawnedIsAlone
  <2>1. PICK s \in Slots : s = spawned /\ s = spawned'
    BY <1>0 DEF Settled
  <2>2. job'[s] = job[s] /\ mem'[s].sess = mem[s].sess /\ active' = active
    BY <2>1 DEF Settled
  <2>3. active[mem[s].sess][job[s]] = None
    BY <1>0, <2>1 DEF ActiveInv, SpawnedIsAlone
  <2>4. active'[mem'[s].sess][job'[s]] = None
    BY <2>2, <2>3
  <2> QED
    BY <2>1, <2>4
<1> QED
  BY <1>1, <1>2, <1>3 DEF ActiveInv

(* A job that is not scheduled is started: no ActiveJob stands for it.      *)
LEMMA StartActive ==
  ASSUME TypeInv, RowInv, ActiveInv, writer = None, jobs' = jobs, active' = active,
         NEW rows \in [JobIds -> Row], NEW pcs \in [Slots -> GoPcs], NEW n \in Sessions,
         NEW j \in JobIds, NEW by, StartJob(rows, pcs, n, j, by),
         \A s \in Slots : pcs[s] # "free" => pc[s] # "free" /\ pcs[s] \notin {"waiting", "launching"},
         \A k \in JobIds : ~rows[k].future
  PROVE  ActiveInv'
<1>0. /\ TypeOK /\ spawned = None /\ None \notin Slots /\ active[n][j] = None
      /\ pc \in [Slots -> GoPcs]
  BY JobsAssumption DEF TypeInv, TypeOK, RowInv, FreeIsCommitted, StartJob, Startable, Refused
<1>1. PICK t \in FreeSlots :
        /\ t \in Slots /\ job'[t] = j
        /\ StartedIn(t, rows, pcs, n, j) \/ DeferredIn(t, rows, n, j, by)
        /\ \A s \in Slots \ {t} : pc'[s] = pcs[s] /\ mem'[s] = mem[s] /\ job'[s] = job[s]
  BY <1>0, StartEffect
<1>2. StartedIn(t, rows, pcs, n, j)
  BY <1>1 DEF DeferredIn
<1>3. /\ pc'[t] = "run" /\ spawned' = t /\ wrows' = [rows EXCEPT ![j].state = "started"]
      /\ mem'[t].sess = n
  BY <1>2 DEF StartedIn, ActiveJob, NoMem
<1>4. \A k \in JobIds : ~wrows'[k].future
  BY <1>3 DEF Row
<1>5. NoTimers'
  BY <1>1, <1>3, <1>4 DEF NoTimers, ActiveInv
<1>6. Registered'
  <2> SUFFICES ASSUME NEW s \in Slots, Busy(s)', s # spawned'
               PROVE  active'[mem'[s].sess][job'[s]] = s
    BY DEF Registered
  <2>1. s # t /\ Busy(s) /\ s # spawned /\ job'[s] = job[s] /\ mem'[s] = mem[s]
    BY <1>0, <1>1, <1>3 DEF Busy, ActiveInv, NoTimers, GoPcs
  <2> QED
    BY <2>1 DEF ActiveInv, Registered
<1>7. SpawnedIsAlone'
  <2>1. active'[mem'[t].sess][job'[t]] = None
    BY <1>0, <1>1, <1>3
  <2> QED
    BY <1>3, <2>1 DEF SpawnedIsAlone
<1> QED
  BY <1>5, <1>6, <1>7 DEF ActiveInv

LEMMA RequestActive ==
  ASSUME TypeInv, RowInv, ActiveInv, "schedule" \notin Requests,
         NEW c \in Clients, RequestStep(c) \/ HandlerStep(c) \/ Disconnect(c)
  PROVE  ActiveInv'
<1>0. /\ TypeOK /\ jobs \in [JobIds -> Row] /\ pc \in [Slots -> GoPcs] /\ mem \in [Slots -> Mem]
      /\ \A j \in JobIds : ~jobs[j].future /\ ~wrows[j].future
      /\ \A s \in Slots : pc[s] \notin {"waiting", "launching"}
  BY DEF TypeInv, TypeOK, ActiveInv, NoTimers
<1>1. ASSUME NEW j \in JobIds, NEW h \in Imports, NEW kind \in {"create", "schedule"},
             CreateJob(c, j, h, kind)
      PROVE  ActiveInv'
  <2>1. CASE UNCHANGED <<dbVars, goVars>>
    BY <1>0, <2>1, SettledActive DEF dbVars, goVars, Settled, DueStays
  <2>2. CASE /\ StartJob(Insert(j, h, kind = "schedule"), pc, session, j, None)
             /\ Ask(c, kind, j, None, "create")
             /\ UNCHANGED <<jobs, active>>
    <3> DEFINE future == kind = "schedule"
               rows == Insert(j, h, future)
    <3>1. /\ NextId(j) /\ writer = None /\ h \in Hashes /\ future \in BOOLEAN /\ ~future
          /\ session \in Sessions
      BY <1>1, <2>2 DEF CreateJob, Hashes, Ask, Idle, IsOpen, TypeInv, SessionOK
    <3>2. rows = Insert(j, h, future) /\ StartJob(rows, pc, session, j, None)
      BY <2>2
    <3> HIDE DEF rows, future
    <3>3. rows \in [JobIds -> Row] /\ \A k \in JobIds : ~rows[k].future
      BY <1>0, <3>1, <3>2, InsertType, InsertRow
    <3>4. \A s \in Slots : pc[s] # "free" => pc[s] # "free" /\ pc[s] \notin {"waiting", "launching"}
      BY <1>0
    <3> QED
      BY <1>0, <2>2, <3>1, <3>2, <3>3, <3>4, StartActive
  <2> QED
    BY <1>1, <2>1, <2>2 DEF CreateJob
<1>2. CASE BeginStart(c)
  <2>1. req[c].job \in JobIds /\ session \in Sessions
    BY <1>2 DEF BeginStart, TypeInv, RequestsNameJobs, RowInv, RequestsNeedOpen, SessionOK
  <2>2. PICK j \in JobIds : j = req[c].job
    BY <2>1
  <2> DEFINE rows == IF req[c].op = "restart"
                       THEN [jobs EXCEPT ![j].chk = 0, ![j].prog = 0] ELSE jobs
  <2>3. CASE UNCHANGED <<dbVars, goVars>>
    BY <1>0, <2>3, SettledActive DEF dbVars, goVars, Settled, DueStays
  <2>4. CASE StartJob(rows, pc, session, j, c) /\ UNCHANGED <<jobs, active>> /\ writer = None
    <3> DEFINE zero == [jobs[j] EXCEPT !.chk = 0, !.prog = 0]
    <3>1. rows = jobs \/ rows = [jobs EXCEPT ![j] = zero]
      BY <1>0 DEF Row
    <3>2. zero \in Row /\ ~zero.future
      <4>1. \A row \in Row : [row EXCEPT !.chk = 0, !.prog = 0] \in Row
        BY ZeroInBounds DEF Row
      <4>2. zero.future = jobs[j].future
        BY <1>0 DEF Row
      <4> QED
        BY <1>0, <4>1, <4>2
    <3>3. StartJob(rows, pc, session, j, c)
      BY <2>4
    <3> HIDE DEF zero, rows
    <3>4. rows \in [JobIds -> Row] /\ \A k \in JobIds : ~rows[k].future
      BY <1>0, <3>1, <3>2
    <3>5. \A s \in Slots : pc[s] # "free" => pc[s] # "free" /\ pc[s] \notin {"waiting", "launching"}
      BY <1>0
    <3> QED
      BY <1>0, <2>1, <2>4, <3>3, <3>4, <3>5, StartActive
  <2> QED
    BY <1>2, <2>2, <2>3, <2>4 DEF BeginStart
<1>3. ASSUME UNCHANGED <<spawned, active, pc, job>>,
             \A s \in Slots : mem'[s].sess = mem[s].sess,
             \A j \in JobIds : ~jobs'[j].future /\ ~wrows'[j].future
      PROVE  ActiveInv'
  BY <1>0, <1>3, SettledActive DEF Settled, DueStays
<1>4. CASE \E j \in JobIds : RequestCancel(c, j)
  <2>1. PICK s : mem' = mem \/ mem' = [mem EXCEPT ![s].cancelled = TRUE]
    BY <1>4 DEF RequestCancel
  <2>2. \A t \in Slots : mem'[t].sess = mem[t].sess
    BY <1>0, <2>1 DEF Mem
  <2> QED
    BY <1>0, <1>3, <1>4, <2>2 DEF RequestCancel, dbVars
<1>5. CASE PauseSet(c) \/ UnpauseClose(c)
  <2>1. PICK s, x, y : \/ mem' = [mem EXCEPT ![s].paused = x]
                       \/ mem' = [mem EXCEPT ![s].paused = x, ![s].unpause = y]
    BY <1>5 DEF PauseSet, UnpauseClose
  <2>2. \A t \in Slots : mem'[t].sess = mem[t].sess
    BY <1>0, <2>1 DEF Mem
  <2> QED
    BY <1>0, <1>3, <1>5, <2>2 DEF PauseSet, UnpauseClose, dbVars
<1>6. CASE \/ \E j \in JobIds, kind \in {"start", "restart"} : RequestStart(c, j, kind)
           \/ \E j \in JobIds : RequestPause(c, j) \/ RequestUnpause(c, j)
           \/ CommitRequest(c) \/ CancelWaited(c) \/ BeginCancel(c) \/ UnpauseRead(c) \/ Disconnect(c)
  <2>1. UNCHANGED goVars
    BY <1>6 DEF RequestStart, RequestPause, RequestUnpause, CommitRequest, CancelWaited, BeginCancel,
                UnpauseRead, Disconnect
  <2>2. jobs' \in {jobs, wrows} /\ wrows' \in {jobs, wrows}
    BY <1>6 DEF RequestStart, RequestPause, RequestUnpause, CommitRequest, CancelWaited, BeginCancel,
                UnpauseRead, Disconnect, Commit, Rollback, Begin, dbVars
  <2>3. \A j \in JobIds : ~jobs'[j].future /\ ~wrows'[j].future
    BY <1>0, <2>2
  <2> QED
    BY <1>3, <2>1, <2>3 DEF goVars
<1>7. CASE PauseInDB(c) \/ UnpauseInDB(c)
  <2>1. UNCHANGED goVars /\ jobs' = wrows'
    BY <1>7 DEF PauseInDB, UnpauseInDB, Exec
  <2>2. \A j \in JobIds : ~jobs'[j].future
    BY <1>0, <1>7 DEF PauseInDB, UnpauseInDB, Exec, Row
  <2> QED
    BY <1>3, <2>1, <2>2 DEF goVars
<1> QED
  BY <1>1, <1>2, <1>4, <1>5, <1>6, <1>7 DEF RequestStep, HandlerStep

LEMMA ActionActive ==
  ASSUME TypeInv, ActiveInv, NEW s \in Slots, ActionStep(s) \/ Fail(s) \/ Panic(s)
  PROVE  ActiveInv'
<1>0. /\ jobs \in [JobIds -> Row] /\ pc \in [Slots -> GoPcs] /\ mem \in [Slots -> Mem]
      /\ job \in [Slots -> JobIds]
      /\ \A j \in JobIds : ~jobs[j].future /\ ~wrows[j].future
      /\ \A t \in Slots : pc[t] \notin {"waiting", "launching"}
  BY DEF TypeInv, TypeOK, ActiveInv, NoTimers
<1>1. UNCHANGED <<job, spawned, active>>
  BY DEF ActionStep, Work, Checkpoint, ContinueCancelled, ContinuePaused, ContinueUnpaused, Succeed,
         End, CommitChild, Fail, Panic
<1>2. /\ pc[s] \in {"run", "blocked", "creating"}
      /\ pc'[s] \notin {"waiting", "launching"}
      /\ \A t \in Slots \ {s} : pc'[t] = pc[t]
  BY <1>0 DEF ActionStep, Work, Checkpoint, ContinueCancelled, ContinuePaused, ContinueUnpaused,
              Succeed, End, CommitChild, Fail, Panic, Go
<1>3. \A t \in Slots : mem'[t].sess = mem[t].sess
  <2>1. PICK x, y : \/ mem' = mem
                    \/ mem' = [mem EXCEPT ![s].pos = x, ![s].prog = y]
                    \/ mem' = [mem EXCEPT ![s].chk = x]
                    \/ mem' = [mem EXCEPT ![s].unpause = x]
                    \/ mem' = [mem EXCEPT ![s].result = x, ![s].unpause = y]
    <3>1. CASE Work(s)
      BY <3>1 DEF Work
    <3>2. CASE ~Work(s)
      BY <3>2 DEF ActionStep, Checkpoint, ContinueCancelled, ContinuePaused,
                  ContinueUnpaused, Succeed, End, CommitChild, Fail, Panic
    <3> QED
      BY <3>1, <3>2
  <2>2. CASE mem' = [mem EXCEPT ![s].pos = x, ![s].prog = y]
    BY <1>0, <2>2 DEF Mem
  <2>3. CASE mem' = [mem EXCEPT ![s].result = x, ![s].unpause = y]
    BY <1>0, <2>3 DEF Mem
  <2>4. CASE mem' = [mem EXCEPT ![s].chk = x]
    BY <1>0, <2>4 DEF Mem
  <2>5. CASE mem' = [mem EXCEPT ![s].unpause = x]
    BY <1>0, <2>5 DEF Mem
  <2> QED
    BY <2>1, <2>2, <2>3, <2>4, <2>5
<1>4. DueStays
  <2>1. CASE UNCHANGED dbVars \/ CommitChild(s)
    BY <1>0, <2>1 DEF dbVars, CommitChild, Commit, DueStays
  <2>2. CASE Exec([jobs EXCEPT ![job[s]].chk = mem[s].pos, ![job[s]].prog = mem[s].prog])
    BY <1>0, <2>2 DEF Exec, Row, DueStays
  <2> QED
    BY <2>1, <2>2 DEF ActionStep, Work, Checkpoint, ContinueCancelled, ContinuePaused,
                      ContinueUnpaused, Succeed, End, Fail, Panic
<1>5. Settled
  BY <1>0, <1>1, <1>2, <1>3 DEF Settled
<1> QED
  BY <1>4, <1>5, SettledActive

LEMMA CreateChildActive ==
  ASSUME TypeInv, RowInv, RunnerInv, ActiveInv,
         NEW s \in Slots, NEW j \in JobIds, NEW kind \in ChildKinds, CreateChild(s, j, kind)
  PROVE  ActiveInv'
<1> DEFINE h == <<kind, job[s]>>
           pcs == [pc EXCEPT ![s] = "creating"]
           future == FALSE
           rows == Insert(j, h, future)
           n == mem[s].sess
<1>0. /\ TypeOK /\ job \in [Slots -> JobIds] /\ pc \in [Slots -> GoPcs]
      /\ writer = None /\ NextId(j) /\ pc[s] = "run" /\ n \in 1..session /\ session \in 0..MaxSessions
      /\ jobs' = jobs /\ active' = active
  BY DEF TypeInv, TypeOK, CreateChild, RunnerInv, SessionsHaveBegun
<1>1. StartJob(rows, pcs, n, j, None)
  BY DEF CreateChild
<1>2. /\ h \in Hashes /\ future \in BOOLEAN /\ ~future /\ rows = Insert(j, h, future)
      /\ pcs \in [Slots -> GoPcs] /\ pcs[s] = "creating" /\ \A u \in Slots \ {s} : pcs[u] = pc[u]
  BY <1>0 DEF Hashes, GoPcs
<1> HIDE DEF h, pcs, rows, n, future
<1>3. rows \in [JobIds -> Row] /\ \A k \in JobIds : ~rows[k].future
  BY <1>0, <1>2, InsertType, InsertRow DEF ActiveInv, NoTimers
<1>4. \A t \in Slots : pcs[t] # "free" => pc[t] # "free" /\ pcs[t] \notin {"waiting", "launching"}
  BY <1>0, <1>2 DEF ActiveInv, NoTimers
<1>5. n \in Sessions
  BY <1>0, JobsAssumption DEF Sessions
<1>6. pcs \in [Slots -> GoPcs]
  BY <1>2
<1> QED
  BY <1>0, <1>1, <1>3, <1>4, <1>5, <1>6, StartActive

LEMMA EndJobActive ==
  ASSUME TypeInv, RowInv, RunnerInv, ActiveInv, NEW s \in Slots, EndJob(s)
  PROVE  ActiveInv'
<1> DEFINE rows == FinalRows(s)
           n == mem[s].sess
           pcs == [pc EXCEPT ![s] = "endtx"]
<1>0. /\ TypeOK /\ job \in [Slots -> JobIds] /\ pc \in [Slots -> GoPcs]
      /\ writer = None /\ pc[s] = "ending" /\ n \in 1..session /\ session \in 0..MaxSessions
      /\ jobs' = jobs /\ active' = active
  BY DEF TypeInv, TypeOK, EndJob, RunnerInv, SessionsHaveBegun
<1>1. rows \in [JobIds -> Row] /\ \A k \in JobIds : ~rows[k].future
  BY <1>0, FinalRowsEffect DEF ActiveInv, NoTimers
<1>2. pcs \in [Slots -> GoPcs] /\ pcs[s] = "endtx" /\ \A u \in Slots \ {s} : pcs[u] = pc[u]
  BY <1>0 DEF GoPcs
<1>3. \/ pc' = pcs /\ wrows' = rows /\ UNCHANGED <<spawned, job, mem>>
      \/ \E j \in Queue(rows) : j \in JobIds /\ StartJob(rows, pcs, n, j, None)
  BY DEF EndJob, First, Queue
<1>4. n \in Sessions
  BY <1>0, JobsAssumption DEF Sessions
<1> HIDE DEF rows, n, pcs
<1>5. \A t \in Slots : pcs[t] # "free" => pc[t] # "free" /\ pcs[t] \notin {"waiting", "launching"}
  BY <1>0, <1>2 DEF ActiveInv, NoTimers
<1>6. CASE pc' = pcs /\ wrows' = rows /\ UNCHANGED <<spawned, job, mem>>
  <2>1. Settled /\ DueStays
    BY <1>0, <1>1, <1>5, <1>6 DEF Settled, DueStays, ActiveInv, NoTimers
  <2> QED
    BY <2>1, SettledActive
<1>7. CASE \E j \in Queue(rows) : j \in JobIds /\ StartJob(rows, pcs, n, j, None)
  <2>1. PICK j \in JobIds : StartJob(rows, pcs, n, j, None)
    BY <1>7
  <2> QED
    BY <1>0, <1>1, <1>2, <1>4, <1>5, <2>1, StartActive
<1> QED
  BY <1>3, <1>6, <1>7

(* A goroutine that was registered takes its own entry away.                *)
LEMMA UnregisterActive ==
  ASSUME TypeInv, RunnerInv, ActiveInv, NEW s \in Slots, Unregister(s)
  PROVE  ActiveInv'
<1>0. /\ TypeOK /\ job \in [Slots -> JobIds] /\ pc \in [Slots -> GoPcs] /\ pc[s] = "closed"
      /\ active \in [Sessions -> [JobIds -> Slots \cup {None}]] /\ None \notin Slots
      /\ active' = [active EXCEPT ![mem[s].sess][job[s]] = None]
      /\ UNCHANGED <<dbVars, spawned>>
      /\ pc'[s] = "free" /\ (s = spawned => job'[s] = job[s] /\ mem'[s] = mem[s])
      /\ \A t \in Slots \ {s} : pc'[t] = pc[t] /\ mem'[t] = mem[t] /\ job'[t] = job[t]
      /\ spawned \in Slots \cup {None}
      /\ mem[s].sess \in 1..session /\ session \in 0..MaxSessions
  BY JobsAssumption, ReturnEffect
     DEF Unregister, TypeInv, TypeOK, RunnerInv, SessionsHaveBegun
<1>1. \A n \in Sessions, j \in JobIds :
        active'[n][j] = IF n = mem[s].sess /\ j = job[s] THEN None ELSE active[n][j]
  BY <1>0, JobsAssumption
<1>2. NoTimers'
  BY <1>0 DEF ActiveInv, NoTimers, dbVars
<1>3. Registered'
  <2> SUFFICES ASSUME NEW t \in Slots, Busy(t)', t # spawned'
               PROVE  active'[mem'[t].sess][job'[t]] = t
    BY DEF Registered
  <2>1. t # s /\ Busy(t) /\ t # spawned /\ job'[t] = job[t] /\ mem'[t] = mem[t]
    BY <1>0 DEF Busy
  <2>2. active[mem[t].sess][job[t]] = t /\ mem[t].sess \in Sessions /\ job[t] \in JobIds
    BY <1>0, <2>1, JobsAssumption
       DEF ActiveInv, Registered, Busy, RunnerInv, SessionsHaveBegun, Sessions
  <2>3. mem[t].sess # mem[s].sess \/ job[t] # job[s]
    <3>1. CASE s = spawned
      BY <1>0, <2>2, <3>1 DEF ActiveInv, SpawnedIsAlone
    <3>2. CASE s # spawned
      BY <1>0, <2>1, <2>2, <3>2 DEF ActiveInv, Registered, Busy
    <3> QED
      BY <3>1, <3>2
  <2> QED
    BY <1>1, <2>1, <2>2, <2>3
<1>4. SpawnedIsAlone'
  <2> SUFFICES ASSUME spawned # None
               PROVE  active'[mem'[spawned].sess][job'[spawned]] = None
    BY <1>0 DEF SpawnedIsAlone
  <2>1. PICK t \in Slots : t = spawned
    BY <1>0
  <2>2. mem[t].sess \in Sessions /\ job[t] \in JobIds /\ active[mem[t].sess][job[t]] = None
    BY <1>0, <2>1, JobsAssumption
       DEF RunnerInv, SessionsHaveBegun, Sessions, ActiveInv, SpawnedIsAlone
  <2>3. job'[t] = job[t] /\ mem'[t] = mem[t]
    BY <1>0, <2>1
  <2>4. active'[mem'[t].sess][job'[t]] = None
    BY <1>1, <2>2, <2>3
  <2> QED
    BY <1>0, <2>1, <2>4
<1> QED
  BY <1>2, <1>3, <1>4 DEF ActiveInv

LEMMA RegisterActive ==
  ASSUME TypeInv, RunnerInv, ActiveInv, Register
  PROVE  ActiveInv'
<1>0. /\ active \in [Sessions -> [JobIds -> Slots \cup {None}]] /\ job \in [Slots -> JobIds]
      /\ spawned \in Slots /\ spawned' = None /\ None \notin Slots /\ session \in 0..MaxSessions
      /\ active' = [active EXCEPT ![mem[spawned].sess][job[spawned]] = spawned]
      /\ UNCHANGED <<dbVars, pc, job, mem>>
      /\ mem[spawned].sess \in 1..session
      /\ active[mem[spawned].sess][job[spawned]] = None
  BY JobsAssumption
     DEF Register, TypeInv, TypeOK, RunnerInv, SessionsHaveBegun, ActiveInv, SpawnedIsAlone
<1>1. \A n \in Sessions, j \in JobIds :
        active'[n][j] = IF n = mem[spawned].sess /\ j = job[spawned] THEN spawned ELSE active[n][j]
  BY <1>0, JobsAssumption
<1>2. NoTimers' /\ SpawnedIsAlone'
  BY <1>0 DEF ActiveInv, NoTimers, dbVars, SpawnedIsAlone
<1>3. Registered'
  <2> SUFFICES ASSUME NEW t \in Slots, Busy(t)
               PROVE  active'[mem[t].sess][job[t]] = t
    BY <1>0 DEF Registered, Busy
  <2>1. mem[t].sess \in Sessions /\ job[t] \in JobIds
    BY <1>0, JobsAssumption DEF Busy, RunnerInv, SessionsHaveBegun, Sessions
  <2>2. CASE t = spawned
    BY <1>1, <2>1, <2>2
  <2>3. CASE t # spawned
    BY <1>0, <1>1, <2>1, <2>3 DEF ActiveInv, Registered
  <2> QED
    BY <2>2, <2>3
<1> QED
  BY <1>2, <1>3 DEF ActiveInv

LEMMA ActiveInit == Init => ActiveInv
BY DEF Init, ActiveInv, NoTimers, Registered, SpawnedIsAlone, NoRow, Busy

LEMMA ActiveNext ==
  ASSUME TypeInv, RowInv, RunnerInv, ActiveInv, "schedule" \notin Requests, [Next]_vars
  PROVE  ActiveInv'
<1>0. /\ TypeOK /\ jobs \in [JobIds -> Row] /\ pc \in [Slots -> GoPcs] /\ mem \in [Slots -> Mem]
      /\ \A j \in JobIds : ~jobs[j].future /\ ~wrows[j].future
      /\ \A t \in Slots : pc[t] \notin {"waiting", "launching"}
  BY DEF TypeInv, TypeOK, ActiveInv, NoTimers
<1>1. ASSUME NEW s \in Slots, GoroutineStep(s)
      PROVE  ActiveInv'
  <2>1. CASE CommitEnd(s)
    <3>1. /\ pc[s] = "endtx" /\ pc'[s] = "closing" /\ \A t \in Slots \ {s} : pc'[t] = pc[t]
          /\ UNCHANGED <<spawned, active, job, mem>> /\ jobs' = wrows /\ wrows' = wrows
      BY <1>0, <2>1 DEF CommitEnd, Commit, Go
    <3> QED
      BY <1>0, <3>1, SettledActive DEF Settled, DueStays
  <2>2. CASE CloseDone(s)
    <3>1. /\ pc[s] = "closing" /\ pc'[s] = "closed" /\ \A t \in Slots \ {s} : pc'[t] = pc[t]
          /\ UNCHANGED <<spawned, active, job, dbVars>>
          /\ \A t \in Slots : mem'[t].sess = mem[t].sess
      BY <1>0, <2>2 DEF CloseDone, Go, Mem
    <3> QED
      BY <1>0, <3>1, SettledActive DEF Settled, DueStays, dbVars
  <2> QED
    BY <1>0, <1>1, <2>1, <2>2, EndJobActive, UnregisterActive
       DEF GoroutineStep, WaiterGivesUp, WaiterFires, CommitWaiter
<1>2. CASE OpenStep
  <2>1. ASSUME NEW j \in JobIds, OpenStarts(j)
        PROVE  ActiveInv'
    <3>1. /\ StartJob(jobs, pc, session, j, None) /\ writer = None /\ jobs' = jobs /\ active' = active
          /\ session \in Sessions
      BY <2>1 DEF OpenStarts, TypeInv, SessionOK
    <3>2. \A t \in Slots : pc[t] # "free" => pc[t] # "free" /\ pc[t] \notin {"waiting", "launching"}
      BY <1>0
    <3> QED
      BY <1>0, <3>1, <3>2, StartActive
  <2>2. CASE UNCHANGED goVars /\ (UNCHANGED dbVars \/ Commit("opener"))
    BY <1>0, <2>2, SettledActive DEF Settled, DueStays, goVars, dbVars, Commit
  <2> QED
    BY <1>2, <2>1, <2>2 DEF OpenStep, OpenCommits, OpenFails, OpenReturns
<1>3. CASE (\E h \in Hosts, R \in SUBSET JobIds : OpenTimeline(h, R)) \/ \E j \in JobIds : StartTimeComes(j)
  <2>1. UNCHANGED goVars /\ jobs' = wrows'
    BY <1>3 DEF OpenTimeline, StartTimeComes, Exec
  <2>2. \A j \in JobIds : ~jobs'[j].future
    BY <1>0, <1>3 DEF OpenTimeline, StartTimeComes, Exec, Row
  <2> QED
    BY <1>0, <2>1, <2>2, SettledActive DEF Settled, DueStays, goVars
<1>4. CASE Stop
  BY <1>0, <1>4 DEF Stop, ActiveInv, NoTimers, Registered, SpawnedIsAlone, Busy
<1>5. CASE UNCHANGED vars
  BY <1>0, <1>5, SettledActive DEF vars, goVars, dbVars, Settled, DueStays
<1> QED
  BY <1>1, <1>2, <1>3, <1>4, <1>5, RequestActive, ActionActive, CreateChildActive, RegisterActive
     DEF Next

(* Without scheduled jobs, whatever runs in the session that is open can be *)
(* reached: activeJobs holds it, and PauseJob, UnpauseJob and CancelJob     *)
(* find it there.  The assumption is needed: the timer of a scheduled job   *)
(* that a request has started before its time starts a second goroutine.    *)
THEOREM RunnersAreReachable ==
  ASSUME "schedule" \notin Requests
  PROVE  Spec => []RunnerIsReachable
<1>1. Spec => [](TypeInv /\ RowInv /\ RunnerInv)
  BY RunnersAlways
<1>2. Init => ActiveInv
  BY ActiveInit
<1>3. TypeInv /\ RowInv /\ RunnerInv /\ ActiveInv /\ [Next]_vars => ActiveInv'
  BY ActiveNext
<1>4. ActiveInv => RunnerIsReachable
  BY DEF ActiveInv, Registered, Busy, Live, RunnerIsReachable
<1> QED
  BY <1>1, <1>2, <1>3, <1>4, PTL DEF Spec

(* Without scheduled jobs, no job is run by two goroutines of one session:  *)
(* startJob finds the first in activeJobs, or as the goroutine its own      *)
(* transaction has just started (jobs.go:251-262).                          *)
OneRunner ==
  \A s, t \in Slots : Live(s) /\ Live(t) /\ job[s] = job[t] /\ mem[s].sess = mem[t].sess => s = t

THEOREM JobsRunOnce ==
  ASSUME "schedule" \notin Requests
  PROVE  Spec => []OneRunner
<1>1. Spec => [](TypeInv /\ RowInv /\ RunnerInv)
  BY RunnersAlways
<1>2. Init => ActiveInv
  BY ActiveInit
<1>3. TypeInv /\ RowInv /\ RunnerInv /\ ActiveInv /\ [Next]_vars => ActiveInv'
  BY ActiveNext
<1>4. ActiveInv => OneRunner
  BY JobsAssumption DEF ActiveInv, Registered, SpawnedIsAlone, Busy, Live, OneRunner
<1> QED
  BY <1>1, <1>2, <1>3, <1>4, PTL DEF Spec

-----------------------------------------------------------------------------
(* The refinement of JobLifecycle, where no job is scheduled, no action     *)
(* panics, no client goes away and no opening fails half way.               *)
(*                                                                         *)
(* A start and the end of a job are steps of the lifecycle when their       *)
(* transaction is committed, a pause and its end when they are written; all *)
(* else is invisible.                                                       *)

(* A goroutine that holds the transaction that records its end.             *)
Ending(j) == \E s \in Slots : pc[s] = "endtx" /\ job[s] = j

(* Nothing survives the session it was started in.                          *)
ThisSession ==
  /\ panicked = {}
  /\ writer # None => repo.state # "closed"
  /\ \A s \in Slots : pc[s] # "free" => mem[s].sess = session /\ repo.state # "closed"

(* What the open transaction changes: it may start one job, and record the  *)
(* end of its goroutine's own.                                              *)
TxChanges ==
  /\ \A i \in JobIds : wrows[i].state # jobs[i].state => StartPending(i) \/ Ending(i)
  /\ \A i \in JobIds : wrows[i].hash # jobs[i].hash => StartPending(i) /\ jobs[i].state = "none"
  /\ \A i \in JobIds : wrows[i].state # "none" => wrows[i].hash \in Hashes

(* The checks of startJob still hold when the start is committed.           *)
StartHolds(k) ==
  /\ jobs[k].state # "succeeded"
  /\ \A l \in JobIds : StartPending(l) => l = k
  /\ \A i \in JobIds \ {k} :
       jobs[i].hash = wrows[k].hash /\ jobs[i].state \in {"started", "paused"} => Ending(i)
  /\ (\E i \in JobIds : Ending(i)) => jobs[k].state \in {"queued", "interrupted"}

StartsHold == \A k \in JobIds : StartPending(k) => StartHolds(k)

RunnersRecorded ==
  \A s \in Slots : Running(s) =>
    StartPending(job[s]) \/ jobs[job[s]].state \in {"started", "paused"}

RefInv == ThisSession /\ TxChanges /\ StartsHold /\ RunnersRecorded

(* All that the job manager's invariants say.                               *)
AllInv == TypeInv /\ RowInv /\ RunnerInv /\ ActiveInv /\ RefInv

Unseen == UNCHANGED <<StateOf, HashOf, RunningJobs>>
Refines == RefInv' /\ [Lifecycle!Next]_<<StateOf, HashOf, RunningJobs>>

(* No job is scheduled, no action panics and no client goes away.           *)
Undisturbed == "schedule" \notin Requests /\ "panic" \notin Faults /\ "disconnect" \notin Faults

-----------------------------------------------------------------------------
(* What the invariants say together.                                        *)
LEMMA BusyAlone ==
  ASSUME AllInv, NEW s \in Slots, NEW t \in Slots, Busy(s), Busy(t), job[s] = job[t]
  PROVE  s = t
<1>1. mem[s].sess = session /\ mem[t].sess = session
  BY DEF AllInv, RefInv, ThisSession, Busy
<1> QED
  BY <1>1, JobsAssumption DEF AllInv, ActiveInv, Registered, SpawnedIsAlone

LEMMA FreeHasNoPending ==
  ASSUME AllInv, writer = None
  PROVE  /\ spawned = None /\ wrows = jobs
         /\ \A i \in JobIds : ~StartPending(i) /\ ~Ending(i)
         /\ \A s \in Slots : pc[s] # "endtx"
BY JobsAssumption DEF AllInv, RowInv, FreeIsCommitted, BusyWriters, StartPending, Ending

(* A step in which no row, transaction or running goroutine changes.        *)
StillRunning ==
  \A s \in Slots : /\ Running(s)' = Running(s)
                   /\ Running(s) => job'[s] = job[s]
                   /\ pc'[s] = "endtx" <=> pc[s] = "endtx"

SessionStays ==
  /\ session' = session /\ panicked' = panicked
  /\ writer' # None => writer # None \/ repo.state # "closed"
  /\ repo.state # "closed" => repo'.state # "closed"
  /\ \A s \in Slots : pc'[s] # "free" => pc[s] # "free" /\ mem'[s].sess = mem[s].sess

LEMMA SessionKept ==
  ASSUME AllInv, SessionStays
  PROVE  ThisSession'
BY DEF AllInv, RefInv, ThisSession, SessionStays

LEMMA QuietRefines ==
  ASSUME AllInv, jobs' = jobs, wrows' = wrows, writer' = writer \/ writer = None,
         StillRunning, SessionStays
  PROVE  RefInv' /\ Unseen
<1>0. \A j \in JobIds : StartPending(j)' <=> StartPending(j)
  BY DEF AllInv, RowInv, FreeIsCommitted, StartPending
<1>1. \A j \in JobIds : StartPending(j)' = StartPending(j)
  BY <1>0 DEF StartPending
<1>2. \A j \in JobIds : Ending(j)' = Ending(j)
  BY DEF StillRunning, Ending, Running
<1>3. Unseen
  BY <1>1 DEF Unseen, StateOf, HashOf, RunningJobs, StillRunning
<1>4. TxChanges'
  BY <1>1, <1>2 DEF AllInv, RefInv, TxChanges
<1>5. StartsHold'
  BY <1>1, <1>2 DEF AllInv, RefInv, StartsHold, StartHolds
<1>6. RunnersRecorded'
  <2> SUFFICES ASSUME NEW s \in Slots, Running(s)'
               PROVE  (StartPending(job[s]) \/ jobs[job[s]].state \in {"started", "paused"})'
    BY DEF RunnersRecorded
  <2>1. Running(s) /\ job'[s] = job[s] /\ job[s] \in JobIds
    BY DEF StillRunning, AllInv, TypeInv, TypeOK
  <2>2. StartPending(job[s]) \/ jobs[job[s]].state \in {"started", "paused"}
    BY <2>1 DEF AllInv, RefInv, RunnersRecorded
  <2>3. PICK j \in JobIds : j = job[s] /\ j = job'[s]
    BY <2>1
  <2>4. StartPending(j)' \/ jobs'[j].state \in {"started", "paused"}
    BY <1>1, <2>2, <2>3
  <2> QED
    BY <2>3, <2>4 DEF StartPending
<1> QED
  BY <1>3, <1>4, <1>5, <1>6, SessionKept DEF RefInv

(* A write of its own, by a request or a goroutine: states and hashes stay. *)
LEMMA ExecRefines ==
  ASSUME AllInv, writer = None, writer' = None, jobs' = wrows', StillRunning, SessionStays,
         \A j \in JobIds : jobs'[j].hash = jobs[j].hash,
         \A j \in JobIds :
           \/ jobs'[j].state = jobs[j].state
           \/ jobs[j].state \in {"started", "paused"} /\ jobs'[j].state \in {"started", "paused"}
  PROVE  /\ RefInv' /\ HashOf' = HashOf
         /\ RunningJobs' = RunningJobs
         /\ RunningJobs = {j \in JobIds : \E s \in Slots : Running(s) /\ job[s] = j}
<1>0. jobs \in [JobIds -> Row] /\ job \in [Slots -> JobIds]
  BY DEF AllInv, TypeInv, TypeOK
<1>1. \A j \in JobIds : ~StartPending(j) /\ ~StartPending(j)' /\ ~Ending(j)
  BY FreeHasNoPending DEF StartPending
<1>2. HashOf' = HashOf
  BY DEF HashOf
<1>3. /\ RunningJobs = {j \in JobIds : \E s \in Slots : Running(s) /\ job[s] = j}
      /\ RunningJobs' = RunningJobs
  BY <1>1 DEF RunningJobs, StillRunning
<1>4. TxChanges'
  <2>1. \A j \in JobIds : wrows'[j].state # "none" => wrows'[j].hash \in Hashes
    BY FreeHasNoPending DEF AllInv, RefInv, TxChanges
  <2> QED
    BY <2>1 DEF TxChanges
<1>5. StartsHold'
  BY <1>1 DEF StartsHold
<1>6. RunnersRecorded'
  BY <1>0, <1>1 DEF AllInv, RefInv, RunnersRecorded, StillRunning
<1> QED
  BY <1>2, <1>3, <1>4, <1>5, <1>6, SessionKept DEF RefInv

(* A commit makes the end of a job, the start of one, or both visible.      *)
LEMMA CommitRefines ==
  ASSUME AllInv, writer # None, spawned = None, jobs' = wrows, wrows' = wrows, writer' = None,
         \A s \in Slots : /\ Running(s)' <=> Running(s) /\ pc[s] # "endtx"
                          /\ pc'[s] # "endtx"
                          /\ Running(s) => job'[s] = job[s],
         SessionStays
  PROVE  Refines
<1> USE DEF Refines
<1>0. /\ jobs \in [JobIds -> Row] /\ wrows \in [JobIds -> Row] /\ job \in [Slots -> JobIds]
      /\ repo.state # "closed" /\ panicked = {} /\ TxChanges /\ StartsHold /\ RunnersRecorded
      /\ EndsAreRecorded /\ StartedIsLive
  BY DEF AllInv, TypeInv, TypeOK, RefInv, ThisSession, RunnerInv
<1>1. \A j \in JobIds : ~StartPending(j)' /\ ~Ending(j)'
  BY DEF StartPending, Ending
<1>2. RunningJobs' = {j \in JobIds : \E s \in Slots : Running(s) /\ pc[s] # "endtx" /\ job[s] = j}
  BY <1>1 DEF RunningJobs
<1>10. /\ RunningJobs \subseteq JobIds /\ RunningJobs' \subseteq JobIds
       /\ \A i \in JobIds : i \in RunningJobs' <=>
            \E s \in Slots : Running(s) /\ pc[s] # "endtx" /\ job[s] = i
       /\ \A i \in JobIds : i \in RunningJobs <=>
            ~StartPending(i) /\ \E s \in Slots : Running(s) /\ job[s] = i
  BY <1>2 DEF RunningJobs
<1>3. ASSUME NEW s \in Slots, Running(s), pc[s] # "endtx", Ending(job[s])
      PROVE  FALSE
  BY <1>3, BusyAlone DEF Ending, Busy, Running
<1>4. RefInv'
  <2>1. TxChanges' /\ StartsHold'
    BY <1>0, <1>1 DEF TxChanges, StartsHold
  <2>2. RunnersRecorded'
    <3> SUFFICES ASSUME NEW s \in Slots, Running(s), pc[s] # "endtx"
                 PROVE  wrows[job[s]].state \in {"started", "paused"}
      BY DEF RunnersRecorded
    <3>1. PICK j \in JobIds : j = job[s]
      BY <1>0
    <3> QED
      BY <1>0, <1>3, <3>1 DEF RunnersRecorded, TxChanges, StartPending
  <2> QED
    BY <2>1, <2>2, SessionKept DEF RefInv
<1>5. \A i \in RunningJobs : /\ ~StartPending(i) /\ jobs[i].state \in {"started", "paused"}
                             /\ \E s \in Slots : Running(s) /\ job[s] = i
  BY <1>0 DEF RunningJobs, RunnersRecorded
<1>6. ASSUME NEW k \in JobIds, StartPending(k)
      PROVE  /\ wrows[k].state = "started" /\ jobs[k].state \notin {"started", "succeeded"}
             /\ k \notin RunningJobs /\ k \in RunningJobs' /\ wrows[k].hash \in Hashes
             /\ \A i \in JobIds : StartPending(i) => i = k
             /\ \A i \in RunningJobs : HashOf[i] = wrows[k].hash => Ending(i)
             /\ (\E i \in JobIds : Ending(i)) => jobs[k].state \in {"queued", "interrupted"}
             /\ jobs[k].state # "none" => HashOf[k] = wrows[k].hash
  <2>1. StartHolds(k) /\ wrows[k].state = "started" /\ jobs[k].state # "started"
    BY <1>0, <1>6 DEF StartsHold, StartPending
  <2>2. LiveFor(k)
    BY <1>0, <2>1 DEF StartedIsLive
  <2>3. k \in RunningJobs'
    BY <1>2, <2>2 DEF LiveFor, Live, Running
  <2>4. \A i \in RunningJobs : HashOf[i] = wrows[k].hash => Ending(i)
    BY <1>5, <1>6, <2>1 DEF StartHolds, HashOf, RunningJobs
  <2>5. jobs[k].state # "none" => HashOf[k] = wrows[k].hash
    BY <1>0 DEF TxChanges, HashOf
  <2> QED
    BY <1>0, <1>5, <1>6, <2>1, <2>3, <2>4, <2>5 DEF StartHolds, TxChanges
<1>7. ASSUME NEW k \in JobIds, StartPending(k), \A i \in JobIds : ~Ending(i)
      PROVE  Lifecycle!Next
  <2>1. StateOf' = [StateOf EXCEPT ![k] = "started"]
    BY <1>0, <1>6, <1>7 DEF StateOf, TxChanges
  <2>2. RunningJobs' = RunningJobs \cup {k}
    <3>1. \A s \in Slots : pc[s] # "endtx"
      BY <1>0, <1>7 DEF Ending
    <3>2. \A i \in JobIds \ {k} : ~StartPending(i)
      BY <1>6, <1>7
    <3> QED
      BY <1>2, <1>6, <1>7, <3>1, <3>2 DEF RunningJobs
  <2>3. CASE jobs[k].state = "none"
    <3>1. HashOf' = [HashOf EXCEPT ![k] = wrows[k].hash]
      BY <1>0, <1>6, <1>7 DEF HashOf, TxChanges
    <3>2. StateOf[k] = "none" /\ \A i \in RunningJobs : HashOf[i] # wrows[k].hash
      BY <1>6, <1>7, <2>3 DEF StateOf, RunningJobs
    <3>3. Lifecycle!Create(k, wrows[k].hash) /\ wrows[k].hash \in Hashes
      BY <1>6, <1>7, <2>1, <2>2, <3>1, <3>2 DEF Lifecycle!Create
    <3> QED
      BY <3>3 DEF Lifecycle!Next
  <2>4. CASE jobs[k].state # "none"
    <3>1. HashOf' = HashOf
      BY <1>0, <1>6, <1>7, <2>4 DEF HashOf, TxChanges
    <3>2. /\ StateOf[k] \in {"queued", "interrupted", "paused", "aborted", "failed"}
          /\ \A i \in RunningJobs : HashOf[i] # HashOf[k]
      BY <1>0, <1>6, <1>7, <2>4 DEF StateOf, RunningJobs, Row, States
    <3>3. Lifecycle!Start(k)
      BY <1>6, <1>7, <2>1, <2>2, <3>1, <3>2 DEF Lifecycle!Start, Lifecycle!Alone
    <3> QED
      BY <3>3 DEF Lifecycle!Next
  <2> QED
    BY <2>3, <2>4
<1>8. ASSUME NEW t \in Slots, pc[t] = "endtx"
      PROVE  Lifecycle!Next
  <2>1. PICK j \in JobIds : j = job[t]
    BY <1>0
  <2>2. PICK result \in Ended : result = wrows[j].state
    BY <1>0, <1>8, <2>1 DEF EndsAreRecorded
  <2>3. /\ Running(t) /\ Ending(j) /\ ~StartPending(j)
        /\ \A s \in Slots : pc[s] = "endtx" => s = t
        /\ \A i \in JobIds : Ending(i) => i = j
    BY <1>8, <2>1, <2>2, JobsAssumption
       DEF Running, Ending, StartPending, Ended, AllInv, RowInv, BusyWriters
  <2>4. j \in RunningJobs
    BY <2>1, <2>3 DEF RunningJobs
  <2>5. \A s \in Slots : Running(s) /\ job[s] = j => s = t
    BY <1>8, <2>1, BusyAlone DEF Busy, Running
  <2>6. HashOf' = HashOf
    <3>1. \A i \in JobIds : StartPending(i) => jobs[i].state # "none"
      BY <1>6, <2>3
    <3> QED
      BY <1>0, <3>1 DEF HashOf, TxChanges
  <2>7. CASE \E k \in JobIds : StartPending(k)
    <3>1. PICK k \in JobIds : StartPending(k)
      BY <2>7
    <3>2. StateOf' = [StateOf EXCEPT ![j] = result, ![k] = "started"]
      <4>1. k # j /\ wrows[k].state = "started" /\ \A i \in JobIds : StartPending(i) => i = k
        BY <1>6, <2>3, <3>1
      <4>2. \A i \in JobIds :
              wrows[i].state = IF i = k THEN "started" ELSE IF i = j THEN result ELSE jobs[i].state
        BY <1>0, <2>2, <2>3, <4>1 DEF TxChanges
      <4> QED
        BY <4>1, <4>2 DEF StateOf
    <3>3. RunningJobs' = (RunningJobs \ {j}) \cup {k}
      <4>1. k # j /\ k \in RunningJobs' /\ \A i \in JobIds : StartPending(i) => i = k
        BY <1>6, <2>3, <3>1
      <4>2. ASSUME NEW i \in JobIds, i # k, i # j
            PROVE  i \in RunningJobs' <=> i \in RunningJobs
        BY <1>10, <2>1, <2>3, <4>1, <4>2
      <4>3. j \notin RunningJobs'
        BY <1>8, <1>10, <2>5
      <4> QED
        BY <1>10, <4>1, <4>2, <4>3
    <3>4. /\ StateOf[k] \in {"queued", "interrupted"} /\ k \notin RunningJobs
          /\ \A i \in RunningJobs \ {j} : HashOf[i] # HashOf[k]
      BY <1>6, <2>3, <3>1 DEF StateOf, RunningJobs
    <3>5. Lifecycle!FinishAndStart(j, result, k)
      BY <2>4, <2>6, <3>2, <3>3, <3>4 DEF Lifecycle!FinishAndStart
    <3> QED
      BY <3>5 DEF Lifecycle!Next, Lifecycle!Ended, Ended
  <2>8. CASE \A k \in JobIds : ~StartPending(k)
    <3>1. StateOf' = [StateOf EXCEPT ![j] = result]
      BY <1>0, <2>2, <2>3, <2>8 DEF StateOf, TxChanges
    <3>2. RunningJobs' = RunningJobs \ {j}
      <4>1. ASSUME NEW i \in JobIds, i # j
            PROVE  i \in RunningJobs' <=> i \in RunningJobs
        BY <1>10, <2>1, <2>3, <2>8, <4>1
      <4>2. j \notin RunningJobs'
        BY <1>8, <1>10, <2>5
      <4> QED
        BY <1>10, <4>1, <4>2
    <3>3. Lifecycle!Finish(j, result)
      BY <2>4, <2>6, <3>1, <3>2 DEF Lifecycle!Finish
    <3> QED
      BY <3>3 DEF Lifecycle!Next, Lifecycle!Ended, Ended
  <2> QED
    BY <2>7, <2>8
<1>9. CASE \A i \in JobIds : ~StartPending(i) /\ ~Ending(i)
  <2>1. StateOf' = StateOf /\ HashOf' = HashOf
    BY <1>0, <1>9 DEF StateOf, HashOf, TxChanges
  <2>2. RunningJobs' = RunningJobs
    BY <1>0, <1>2, <1>9 DEF RunningJobs, Ending
  <2> QED
    BY <1>4, <2>1, <2>2
<1> QED
  BY <1>4, <1>7, <1>8, <1>9 DEF Ending

(* The start of job j is not seen until it is committed: no goroutine works *)
(* for it before, and no identical job is carried out, but perhaps by the   *)
(* goroutine that ends with the same transaction.                           *)
LEMMA StartRefines ==
  ASSUME AllInv, writer = None, writer' # None, jobs' = jobs,
         UNCHANGED <<active, session, panicked>>,
         repo'.state = repo.state, repo.state # "closed",
         NEW rows \in [JobIds -> Row], NEW pcs \in [Slots -> GoPcs], NEW j \in JobIds, NEW by,
         StartJob(rows, pcs, session, j, by),
         \A k \in JobIds : ~rows[k].future,
         \A s \in Slots : /\ pcs[s] # "free" => pc[s] # "free"
                          /\ Running(s) <=> pcs[s] \in {"run", "creating", "blocked", "ending", "endtx"},
         \A i \in JobIds \ {j} :
           /\ rows[i].hash = jobs[i].hash
           /\ \/ rows[i].state = jobs[i].state
              \/ rows[i].state \in Ended /\ \E s \in Slots : pcs[s] = "endtx" /\ job[s] = i,
         \A s \in Slots : pcs[s] = "endtx" => jobs[j].state \in {"queued", "interrupted"},
         rows[j].hash \in Hashes,
         jobs[j].state # "none" => rows[j].hash = jobs[j].hash /\ rows[j].state = jobs[j].state
  PROVE  RefInv' /\ Unseen
<1>0. /\ TypeOK /\ jobs \in [JobIds -> Row] /\ job \in [Slots -> JobIds]
      /\ spawned = None /\ wrows = jobs
      /\ \A i \in JobIds : ~StartPending(i)
      /\ active[session][j] = None /\ rows[j].state \notin {"none", "started", "succeeded"}
      /\ \A k \in JobIds \ {j} : rows[k].hash = rows[j].hash => rows[k].state \notin {"started", "paused"}
  BY FreeHasNoPending DEF AllInv, TypeInv, TypeOK, StartJob, Startable, Refused, Identical
<1>1. PICK t \in FreeSlots :
        /\ t \in Slots /\ job'[t] = j
        /\ StartedIn(t, rows, pcs, session, j) \/ DeferredIn(t, rows, session, j, by)
        /\ \A s \in Slots \ {t} : pc'[s] = pcs[s] /\ mem'[s] = mem[s] /\ job'[s] = job[s]
  BY <1>0, StartEffect
<1>2. StartedIn(t, rows, pcs, session, j)
  BY <1>1 DEF DeferredIn
<1>3. /\ pc'[t] = "run" /\ wrows' = [rows EXCEPT ![j].state = "started"] /\ mem'[t].sess = session
      /\ pcs[t] = "free" /\ ~Running(t)
  BY <1>1, <1>2 DEF StartedIn, ActiveJob, NoMem, FreeSlots, Running
<1>4. \A i \in JobIds : /\ wrows'[i].hash = rows[i].hash
                        /\ wrows'[i].state = IF i = j THEN "started" ELSE rows[i].state
  BY <1>3 DEF Row
<1>5. StartPending(j)' /\ \A i \in JobIds \ {j} : ~StartPending(i)'
  BY <1>0, <1>4 DEF StartPending, Ended
<1>6. \A s \in Slots : Running(s) => job[s] # j
  BY <1>0, JobsAssumption DEF AllInv, RefInv, ThisSession, ActiveInv, Registered, Busy, Running
<1>7. \A s \in Slots \ {t} : (Running(s)' <=> Running(s)) /\ job'[s] = job[s]
  BY <1>1 DEF Running
<1>8. Unseen
  <2>1. StateOf' = StateOf /\ HashOf' = HashOf
    BY DEF StateOf, HashOf
  <2>2. ASSUME NEW i \in JobIds, i # j
        PROVE  i \in RunningJobs' <=> i \in RunningJobs
    BY <1>0, <1>1, <1>3, <1>5, <1>7, <2>2 DEF RunningJobs
  <2>3. j \notin RunningJobs /\ j \notin RunningJobs'
    BY <1>5, <1>6 DEF RunningJobs
  <2>4. RunningJobs \subseteq JobIds /\ RunningJobs' \subseteq JobIds
    BY DEF RunningJobs
  <2>5. RunningJobs' = RunningJobs
    <3>1. \A i \in JobIds : i \in RunningJobs' <=> i \in RunningJobs
      BY <2>2, <2>3
    <3> QED
      BY <2>4, <3>1
  <2> QED
    BY <2>1, <2>5 DEF Unseen
<1>9. \A i \in JobIds : Ending(i)' <=> \E s \in Slots : pcs[s] = "endtx" /\ job[s] = i
  <2>1. \A s \in Slots : pc'[s] = "endtx" <=> pcs[s] = "endtx"
    BY <1>1, <1>3
  <2> QED
    BY <1>1, <1>3, <2>1 DEF Ending
<1>10. TxChanges'
  <2>1. ASSUME NEW i \in JobIds, wrows'[i].state # jobs'[i].state
        PROVE  StartPending(i)' \/ Ending(i)'
    BY <1>4, <1>5, <1>9, <2>1
  <2>2. ASSUME NEW i \in JobIds, wrows'[i].hash # jobs'[i].hash
        PROVE  StartPending(i)' /\ jobs'[i].state = "none"
    BY <1>4, <1>5, <2>2
  <2>3. ASSUME NEW i \in JobIds, wrows'[i].state # "none"
        PROVE  wrows'[i].hash \in Hashes
    <3>1. CASE i = j
      BY <1>4, <3>1
    <3>2. CASE i # j
      <4>1. jobs[i].state # "none"
        <5>1. CASE rows[i].state = jobs[i].state
          BY <1>4, <2>3, <3>2, <5>1
        <5>2. CASE \E s \in Slots : pcs[s] = "endtx" /\ job[s] = i
          BY <1>0, <5>2 DEF AllInv, RefInv, RunnersRecorded, Running
        <5> QED
          BY <3>2, <5>1, <5>2
      <4> QED
        BY <1>0, <1>4, <3>2, <4>1 DEF AllInv, RefInv, TxChanges
    <3> QED
      BY <3>1, <3>2
  <2> QED
    BY <2>1, <2>2, <2>3 DEF TxChanges
<1>11. StartHolds(j)'
  <2>1. jobs'[j].state # "succeeded"
    BY <1>0
  <2>2. ASSUME NEW i \in JobIds \ {j}, jobs'[i].hash = wrows'[j].hash,
               jobs'[i].state \in {"started", "paused"}
        PROVE  Ending(i)'
    BY <1>0, <1>4, <1>9, <2>2
  <2>3. (\E i \in JobIds : Ending(i)') => jobs'[j].state \in {"queued", "interrupted"}
    BY <1>9
  <2> QED
    BY <1>5, <2>1, <2>2, <2>3 DEF StartHolds
<1>12. RunnersRecorded'
  <2> SUFFICES ASSUME NEW s \in Slots, Running(s)'
               PROVE  (StartPending(job[s]) \/ jobs[job[s]].state \in {"started", "paused"})'
    BY DEF RunnersRecorded
  <2>1. CASE s = t
    <3>1. writer' # None /\ wrows'[j].state = "started" /\ jobs'[j].state # "started"
      BY <1>5 DEF StartPending
    <3> QED
      BY <1>1, <2>1, <3>1 DEF StartPending
  <2>2. CASE s # t
    <3>1. jobs[job[s]].state \in {"started", "paused"}
      BY <1>0, <1>7, <2>2 DEF AllInv, RefInv, RunnersRecorded
    <3> QED
      BY <1>7, <2>2, <3>1
  <2> QED
    BY <2>1, <2>2
<1>13. ThisSession'
  BY <1>1, <1>3 DEF AllInv, RefInv, ThisSession
<1> QED
  BY <1>5, <1>8, <1>10, <1>11, <1>12, <1>13 DEF RefInv, StartsHold

-----------------------------------------------------------------------------
(* Every action of the job manager.                                         *)
LEMMA UnseenRefines ==
  ASSUME RefInv', Unseen
  PROVE  Refines
BY DEF Refines, Unseen

LEMMA ClientStays ==
  ASSUME UNCHANGED <<pc, job, session, panicked, repo>>,
         writer' # None => writer # None \/ repo.state # "closed",
         \A s \in Slots : mem'[s].sess = mem[s].sess
  PROVE  StillRunning /\ SessionStays
BY DEF StillRunning, SessionStays, Running

LEMMA RequestRefines ==
  ASSUME AllInv, Undisturbed, NEW c \in Clients, RequestStep(c)
  PROVE  Refines
<1>0. /\ TypeOK /\ job \in [Slots -> JobIds] /\ mem \in [Slots -> Mem] /\ pc \in [Slots -> GoPcs]
      /\ repo.state # "closed"
  BY DEF AllInv, TypeInv, TypeOK, RequestStep, CreateJob, RequestStart, RequestCancel,
         RequestPause, RequestUnpause, Idle, IsOpen
<1>1. ASSUME UNCHANGED <<dbVars, pc, job, envVars>>, \A s \in Slots : mem'[s].sess = mem[s].sess
      PROVE  Refines
  BY <1>1, ClientStays, QuietRefines, UnseenRefines DEF dbVars, envVars
<1>2. ASSUME NEW j \in JobIds, NEW h \in Imports, NEW kind \in {"create", "schedule"},
             CreateJob(c, j, h, kind)
      PROVE  Refines
  <2>1. CASE UNCHANGED <<dbVars, goVars, envVars>>
    BY <1>1, <2>1 DEF goVars
  <2>2. CASE /\ StartJob(Insert(j, h, kind = "schedule"), pc, session, j, None)
             /\ Ask(c, kind, j, None, "create") /\ writer' = c
             /\ UNCHANGED <<jobs, active, envVars>>
    <3> DEFINE future == kind = "schedule"
               rows == Insert(j, h, future)
    <3>1. /\ NextId(j) /\ writer = None /\ h \in Hashes /\ future \in BOOLEAN /\ ~future
      BY <1>2, <2>2 DEF CreateJob, Hashes, Ask, Undisturbed
    <3>2. rows = Insert(j, h, future) /\ StartJob(rows, pc, session, j, None) /\ rows[j].hash = h
      BY <2>2, <3>1 DEF Insert, NoRow, NextId, AllInv, TypeInv, TypeOK
    <3> HIDE DEF rows, future
    <3>3. /\ rows \in [JobIds -> Row] /\ jobs[j].state = "none" /\ rows[j].hash \in Hashes
          /\ \A k \in JobIds \ {j} : rows[k] = jobs[k]
          /\ \A k \in JobIds : ~rows[k].future
      BY <1>0, <3>1, <3>2, InsertType, InsertRow DEF AllInv, ActiveInv, NoTimers
    <3>4. \A s \in Slots : pc[s] # "endtx"
      BY <3>1, FreeHasNoPending
    <3>5. \A s \in Slots : /\ pc[s] # "free" => pc[s] # "free"
                           /\ Running(s) <=> pc[s] \in {"run", "creating", "blocked", "ending", "endtx"}
      BY DEF Running
    <3>6. \A i \in JobIds \ {j} :
            /\ rows[i].hash = jobs[i].hash
            /\ \/ rows[i].state = jobs[i].state
               \/ rows[i].state \in Ended /\ \E s \in Slots : pc[s] = "endtx" /\ job[s] = i
      BY <3>3
    <3>7. /\ UNCHANGED <<active, session, panicked>> /\ repo'.state = repo.state /\ repo.state # "closed"
          /\ writer' # None /\ jobs' = jobs
      BY <1>0, <2>2, JobsAssumption DEF envVars
    <3>8. RefInv' /\ Unseen
      BY <1>0, <3>1, <3>2, <3>3, <3>4, <3>5, <3>6, <3>7, StartRefines
    <3> QED
      BY <3>8, UnseenRefines
  <2> QED
    BY <1>2, <2>1, <2>2 DEF CreateJob, Reject
<1>3. CASE \E j \in JobIds : RequestCancel(c, j)
  <2>1. PICK s : mem' = mem \/ mem' = [mem EXCEPT ![s].cancelled = TRUE]
    BY <1>3 DEF RequestCancel
  <2>2. \A t \in Slots : mem'[t].sess = mem[t].sess
    BY <1>0, <2>1 DEF Mem
  <2> QED
    BY <1>1, <1>3, <2>2 DEF RequestCancel
<1>4. CASE \/ \E j \in JobIds, kind \in {"start", "restart"} : RequestStart(c, j, kind)
           \/ \E j \in JobIds : RequestPause(c, j) \/ RequestUnpause(c, j)
  BY <1>1, <1>4 DEF RequestStart, RequestPause, RequestUnpause, goVars
<1> QED
  BY <1>2, <1>3, <1>4 DEF RequestStep

LEMMA BeginStartRefines ==
  ASSUME AllInv, NEW c \in Clients, BeginStart(c)
  PROVE  Refines
<1>0. /\ TypeOK /\ job \in [Slots -> JobIds] /\ pc \in [Slots -> GoPcs] /\ jobs \in [JobIds -> Row]
      /\ repo.state # "closed" /\ req[c].job \in JobIds /\ writer = None
  BY DEF AllInv, TypeInv, TypeOK, BeginStart, RequestsNameJobs, RowInv, RequestsNeedOpen
<1>1. PICK j \in JobIds : j = req[c].job
  BY <1>0
<1> DEFINE rows == IF req[c].op = "restart"
                     THEN [jobs EXCEPT ![j].chk = 0, ![j].prog = 0] ELSE jobs
<1>2. CASE UNCHANGED <<dbVars, goVars, envVars>>
  BY <1>2, ClientStays, QuietRefines, UnseenRefines DEF dbVars, goVars, envVars
<1>3. CASE /\ StartJob(rows, pc, session, j, c) /\ writer' = c
           /\ UNCHANGED <<jobs, active, req, envVars>>
  <2>1. \A i \in JobIds : /\ rows[i].state = jobs[i].state /\ rows[i].hash = jobs[i].hash
                          /\ rows[i].future = jobs[i].future
    BY <1>0 DEF Row
  <2>2. rows \in [JobIds -> Row]
    <3>1. \A row \in Row : [row EXCEPT !.chk = 0, !.prog = 0] \in Row
      BY ZeroInBounds DEF Row
    <3> DEFINE zero == [jobs[j] EXCEPT !.chk = 0, !.prog = 0]
    <3>2. rows = jobs \/ rows = [jobs EXCEPT ![j] = zero]
      BY <1>0 DEF Row
    <3>3. zero \in Row
      BY <1>0, <3>1
    <3> HIDE DEF zero, rows
    <3> QED
      BY <1>0, <3>2, <3>3
  <2>3. StartJob(rows, pc, session, j, c)
    BY <1>3
  <2> HIDE DEF rows
  <2>4. rows[j].hash \in Hashes /\ \A k \in JobIds : ~rows[k].future
    <3>1. rows[j].state # "none"
      BY <2>3 DEF StartJob, Startable, Refused
    <3> QED
      BY <1>0, <2>1, <3>1, FreeHasNoPending DEF AllInv, RefInv, TxChanges, ActiveInv, NoTimers
  <2>5. \A s \in Slots : pc[s] # "endtx"
    BY <1>0, FreeHasNoPending
  <2>6. \A s \in Slots : /\ pc[s] # "free" => pc[s] # "free"
                         /\ Running(s) <=> pc[s] \in {"run", "creating", "blocked", "ending", "endtx"}
    BY DEF Running
  <2>7. \A i \in JobIds \ {j} :
          /\ rows[i].hash = jobs[i].hash
          /\ \/ rows[i].state = jobs[i].state
             \/ rows[i].state \in Ended /\ \E s \in Slots : pc[s] = "endtx" /\ job[s] = i
    BY <2>1
  <2>8. /\ UNCHANGED <<active, session, panicked>> /\ repo'.state = repo.state /\ repo.state # "closed"
        /\ writer' # None /\ jobs' = jobs
    BY <1>0, <1>3, JobsAssumption DEF envVars
  <2>9. jobs[j].state # "none" => rows[j].hash = jobs[j].hash /\ rows[j].state = jobs[j].state
    BY <2>1
  <2>10. RefInv' /\ Unseen
    BY <1>0, <2>2, <2>3, <2>4, <2>5, <2>6, <2>7, <2>8, <2>9, StartRefines
  <2> QED
    BY <2>10, UnseenRefines
<1> QED
  BY <1>1, <1>2, <1>3 DEF BeginStart

(* The writes of PauseJob and UnpauseJob are seen at once.                  *)
LEMMA PauseRefines ==
  ASSUME AllInv, NEW c \in Clients, PauseInDB(c) \/ UnpauseInDB(c)
  PROVE  Refines
<1>0. /\ jobs \in [JobIds -> Row] /\ job \in [Slots -> JobIds] /\ req[c].job \in JobIds
      /\ writer = None /\ writer' = None /\ jobs' = wrows' /\ UNCHANGED <<goVars, envVars>>
      /\ repo.state # "closed" /\ cpc[c] \in {"pauseDB", "unpauseDB"}
  BY DEF AllInv, TypeInv, TypeOK, PauseInDB, UnpauseInDB, Exec, RequestsNameJobs, RowInv,
         RequestsNeedOpen
<1>1. PICK j \in JobIds : j = req[c].job
  BY <1>0
<1>2. /\ \A i \in JobIds : jobs'[i].hash = jobs[i].hash
      /\ \A i \in JobIds \ {j} : jobs'[i].state = jobs[i].state
      /\ \/ jobs'[j].state = jobs[j].state
         \/ cpc[c] = "pauseDB" /\ jobs[j].state = "started" /\ jobs'[j].state = "paused"
         \/ cpc[c] = "unpauseDB" /\ jobs[j].state = "paused" /\ jobs'[j].state = "started"
  BY <1>0, <1>1 DEF PauseInDB, UnpauseInDB, Exec, Row
<1>3. StillRunning /\ SessionStays
  BY <1>0, ClientStays DEF goVars, envVars
<1>4. /\ RefInv' /\ HashOf' = HashOf /\ RunningJobs' = RunningJobs
      /\ RunningJobs = {i \in JobIds : \E s \in Slots : Running(s) /\ job[s] = i}
  BY <1>0, <1>2, <1>3, ExecRefines
<1>5. CASE jobs'[j].state = jobs[j].state
  <2>1. StateOf' = StateOf
    BY <1>2, <1>5 DEF StateOf
  <2> QED
    BY <1>4, <2>1 DEF Refines
<1>6. CASE jobs[j].state = "started" /\ jobs'[j].state = "paused"
  <2>1. StateOf' = [StateOf EXCEPT ![j] = "paused"] /\ StateOf[j] = "started"
    BY <1>2, <1>6 DEF StateOf
  <2>2. Runner(j)
    BY <1>0, <1>6 DEF AllInv, RunnerInv, StartedIsLive, RefInv, ThisSession
  <2>3. j \in RunningJobs
    BY <1>4, <2>2 DEF Runner, Running, Live
  <2>4. Lifecycle!Pause(j)
    BY <1>4, <2>1, <2>3 DEF Lifecycle!Pause
  <2> QED
    BY <1>4, <2>4 DEF Refines, Lifecycle!Next
<1>7. CASE cpc[c] = "unpauseDB" /\ jobs[j].state = "paused" /\ jobs'[j].state = "started"
  <2>1. StateOf' = [StateOf EXCEPT ![j] = "started"] /\ StateOf[j] = "paused"
    BY <1>2, <1>7 DEF StateOf
  <2>2. Runner(j)
    BY <1>0, <1>1, <1>7 DEF AllInv, RunnerInv, LeftPaused, RefInv, ThisSession
  <2>3. j \in RunningJobs
    BY <1>4, <2>2 DEF Runner, Running, Live
  <2>4. Lifecycle!Unpause(j)
    BY <1>4, <2>1, <2>3 DEF Lifecycle!Unpause
  <2> QED
    BY <1>4, <2>4 DEF Refines, Lifecycle!Next
<1> QED
  BY <1>2, <1>5, <1>6, <1>7

LEMMA HandlerRefines ==
  ASSUME AllInv, NEW c \in Clients, HandlerStep(c)
  PROVE  Refines
<1>0. /\ TypeOK /\ job \in [Slots -> JobIds] /\ mem \in [Slots -> Mem] /\ pc \in [Slots -> GoPcs]
  BY DEF AllInv, TypeInv, TypeOK
<1>1. CASE CommitRequest(c)
  <2>1. /\ writer = c /\ writer # None /\ spawned = None /\ jobs' = wrows /\ wrows' = wrows
        /\ writer' = None /\ UNCHANGED <<goVars, envVars>>
    BY <1>1, JobsAssumption DEF CommitRequest, Commit
  <2>2. \A s \in Slots : pc[s] # "endtx"
    BY <2>1, JobsAssumption DEF AllInv, RowInv, BusyWriters
  <2>3. SessionStays
    BY <2>1, ClientStays DEF goVars, envVars
  <2>4. \A s \in Slots : /\ Running(s)' <=> Running(s) /\ pc[s] # "endtx"
                         /\ pc'[s] # "endtx"
                         /\ Running(s) => job'[s] = job[s]
    BY <2>1, <2>2 DEF Running, goVars
  <2> QED
    BY <2>1, <2>3, <2>4, CommitRefines
<1>2. ASSUME UNCHANGED <<pc, job, envVars>>, \A s \in Slots : mem'[s].sess = mem[s].sess,
             jobs' = jobs, wrows' = wrows, writer' = writer \/ (writer = None /\ repo.state # "closed")
      PROVE  Refines
  BY <1>2, ClientStays, QuietRefines, UnseenRefines DEF envVars
<1>3. CASE PauseSet(c) \/ UnpauseClose(c)
  <2>1. PICK s, x, y : \/ mem' = [mem EXCEPT ![s].paused = x]
                       \/ mem' = [mem EXCEPT ![s].paused = x, ![s].unpause = y]
    BY <1>3 DEF PauseSet, UnpauseClose
  <2>2. \A t \in Slots : mem'[t].sess = mem[t].sess
    BY <1>0, <2>1 DEF Mem
  <2> QED
    BY <1>2, <1>3, <2>2 DEF PauseSet, UnpauseClose, dbVars
<1>4. CASE CancelWaited(c) \/ UnpauseRead(c)
  BY <1>2, <1>4 DEF CancelWaited, UnpauseRead, dbVars, goVars
<1>5. CASE BeginCancel(c)
  <2>1. UNCHANGED <<goVars, envVars>> /\ repo.state # "closed" /\ wrows = jobs
    BY <1>5 DEF BeginCancel, AllInv, RowInv, RequestsNeedOpen, FreeIsCommitted
  <2>2. jobs' = jobs /\ wrows' = wrows /\ (writer' = writer \/ (writer = None /\ repo.state # "closed"))
    BY <1>5, <2>1 DEF BeginCancel, Begin, dbVars
  <2> QED
    BY <1>2, <2>1, <2>2 DEF goVars
<1> QED
  BY <1>1, <1>3, <1>4, <1>5, BeginStartRefines, PauseRefines DEF HandlerStep

LEMMA ActionRefines ==
  ASSUME AllInv, NEW s \in Slots, ActionStep(s) \/ Fail(s)
  PROVE  Refines
<1>0. /\ TypeOK /\ job \in [Slots -> JobIds] /\ mem \in [Slots -> Mem] /\ pc \in [Slots -> GoPcs]
      /\ jobs \in [JobIds -> Row]
  BY DEF AllInv, TypeInv, TypeOK
<1>1. UNCHANGED <<job, session, panicked, repo>>
  BY DEF ActionStep, Work, Checkpoint, ContinueCancelled, ContinuePaused, ContinueUnpaused, Succeed,
         End, CommitChild, Fail, envVars
<1>2. /\ pc[s] \in {"run", "blocked", "creating"} /\ pc'[s] \in {"run", "blocked", "ending"}
      /\ \A t \in Slots \ {s} : pc'[t] = pc[t]
  BY <1>0 DEF ActionStep, Work, Checkpoint, ContinueCancelled, ContinuePaused, ContinueUnpaused,
              Succeed, End, CommitChild, Fail, Go
<1>3. \A t \in Slots : mem'[t].sess = mem[t].sess
  <2>1. PICK x, y : \/ mem' = mem
                    \/ mem' = [mem EXCEPT ![s].pos = x, ![s].prog = y]
                    \/ mem' = [mem EXCEPT ![s].chk = x]
                    \/ mem' = [mem EXCEPT ![s].unpause = x]
                    \/ mem' = [mem EXCEPT ![s].result = x, ![s].unpause = y]
    <3>1. CASE Work(s)
      BY <3>1 DEF Work
    <3>2. CASE ~Work(s)
      BY <3>2 DEF ActionStep, Checkpoint, ContinueCancelled, ContinuePaused,
                  ContinueUnpaused, Succeed, End, CommitChild, Fail
    <3> QED
      BY <3>1, <3>2
  <2>2. CASE mem' = [mem EXCEPT ![s].pos = x, ![s].prog = y]
    BY <1>0, <2>2 DEF Mem
  <2>3. CASE mem' = [mem EXCEPT ![s].result = x, ![s].unpause = y]
    BY <1>0, <2>3 DEF Mem
  <2>4. CASE mem' = [mem EXCEPT ![s].chk = x]
    BY <1>0, <2>4 DEF Mem
  <2>5. CASE mem' = [mem EXCEPT ![s].unpause = x]
    BY <1>0, <2>5 DEF Mem
  <2> QED
    BY <2>1, <2>2, <2>3, <2>4, <2>5
<1>4. StillRunning
  BY <1>1, <1>2 DEF StillRunning, Running
<1>5. CASE UNCHANGED dbVars
  <2>1. SessionStays
    BY <1>1, <1>2, <1>3, <1>5 DEF SessionStays, dbVars
  <2> QED
    BY <1>4, <1>5, <2>1, QuietRefines, UnseenRefines DEF dbVars
<1>6. CASE CommitChild(s)
  <2>1. /\ writer = s /\ writer # None /\ spawned = None /\ jobs' = wrows /\ wrows' = wrows
        /\ writer' = None /\ pc[s] = "creating"
    BY <1>6, JobsAssumption DEF CommitChild, Commit
  <2>2. \A t \in Slots : pc[t] # "endtx"
    BY <2>1, JobsAssumption DEF AllInv, RowInv, BusyWriters
  <2>3. SessionStays
    BY <1>1, <1>2, <1>3, <2>1 DEF SessionStays
  <2>4. \A t \in Slots : /\ Running(t)' <=> Running(t) /\ pc[t] # "endtx"
                         /\ pc'[t] # "endtx"
                         /\ Running(t) => job'[t] = job[t]
    BY <1>1, <1>2, <2>2 DEF Running
  <2> QED
    BY <2>1, <2>3, <2>4, CommitRefines
<1>7. CASE Exec([jobs EXCEPT ![job[s]].chk = mem[s].pos, ![job[s]].prog = mem[s].prog])
  <2>1. /\ writer = None /\ writer' = None /\ jobs' = wrows'
        /\ \A j \in JobIds : jobs'[j].hash = jobs[j].hash /\ jobs'[j].state = jobs[j].state
    BY <1>0, <1>7 DEF Exec, Row
  <2>2. SessionStays
    BY <1>1, <1>2, <1>3, <2>1 DEF SessionStays
  <2>3. RefInv' /\ HashOf' = HashOf /\ RunningJobs' = RunningJobs
    BY <1>4, <2>1, <2>2, ExecRefines
  <2>4. StateOf' = StateOf
    BY <2>1 DEF StateOf
  <2> QED
    BY <2>3, <2>4 DEF Refines
<1> QED
  BY <1>5, <1>6, <1>7 DEF ActionStep, Work, Checkpoint, ContinueCancelled, ContinuePaused,
                          ContinueUnpaused, Succeed, End, Fail

LEMMA CreateChildRefines ==
  ASSUME AllInv, NEW s \in Slots, NEW j \in JobIds, NEW kind \in ChildKinds, CreateChild(s, j, kind)
  PROVE  Refines
<1> DEFINE h == <<kind, job[s]>>
           pcs == [pc EXCEPT ![s] = "creating"]
           future == FALSE
           rows == Insert(j, h, future)
<1>0. /\ TypeOK /\ job \in [Slots -> JobIds] /\ pc \in [Slots -> GoPcs] /\ jobs \in [JobIds -> Row]
      /\ writer = None /\ NextId(j) /\ pc[s] = "run" /\ mem[s].sess = session /\ repo.state # "closed"
      /\ jobs' = jobs /\ UNCHANGED <<active, session, panicked>>
      /\ repo'.state = repo.state /\ writer' # None
  BY JobsAssumption DEF AllInv, TypeInv, TypeOK, CreateChild, RefInv, ThisSession, envVars
<1>1. StartJob(rows, pcs, session, j, None)
  BY <1>0 DEF CreateChild
<1>2. /\ h \in Hashes /\ future \in BOOLEAN /\ ~future /\ rows = Insert(j, h, future)
      /\ rows[j].hash = h
      /\ pcs \in [Slots -> GoPcs] /\ pcs[s] = "creating" /\ \A u \in Slots \ {s} : pcs[u] = pc[u]
  BY <1>0 DEF Hashes, GoPcs, Insert, NoRow
<1> HIDE DEF h, pcs, rows, future
<1>3. /\ rows \in [JobIds -> Row] /\ jobs[j].state = "none" /\ rows[j].hash \in Hashes
      /\ \A k \in JobIds \ {j} : rows[k] = jobs[k]
      /\ \A k \in JobIds : ~rows[k].future
  BY <1>0, <1>2, InsertType, InsertRow DEF AllInv, ActiveInv, NoTimers
<1>4. \A t \in Slots : pcs[t] # "endtx"
  BY <1>0, <1>2, FreeHasNoPending
<1>5. \A t \in Slots : /\ pcs[t] # "free" => pc[t] # "free"
                       /\ Running(t) <=> pcs[t] \in {"run", "creating", "blocked", "ending", "endtx"}
  BY <1>0, <1>2 DEF Running
<1>6. \A i \in JobIds \ {j} :
        /\ rows[i].hash = jobs[i].hash
        /\ \/ rows[i].state = jobs[i].state
           \/ rows[i].state \in Ended /\ \E t \in Slots : pcs[t] = "endtx" /\ job[t] = i
  BY <1>3
<1>7. pcs \in [Slots -> GoPcs]
  BY <1>2
<1>8. RefInv' /\ Unseen
  BY <1>0, <1>1, <1>3, <1>4, <1>5, <1>6, <1>7, StartRefines
<1> QED
  BY <1>8, UnseenRefines

(* The end of a job is written, and perhaps the start of the next: neither  *)
(* is seen before the commit.                                               *)
LEMMA EndJobRefines ==
  ASSUME AllInv, NEW s \in Slots, EndJob(s)
  PROVE  Refines
<1> DEFINE rows == FinalRows(s)
           pcs == [pc EXCEPT ![s] = "endtx"]
<1>0. /\ TypeOK /\ job \in [Slots -> JobIds] /\ pc \in [Slots -> GoPcs] /\ jobs \in [JobIds -> Row]
      /\ writer = None /\ pc[s] = "ending" /\ mem[s].sess = session /\ repo.state # "closed"
      /\ jobs' = jobs /\ UNCHANGED <<active, session, panicked>>
      /\ repo'.state = repo.state /\ writer' # None
  BY JobsAssumption DEF AllInv, TypeInv, TypeOK, EndJob, RefInv, ThisSession, envVars
<1>1. /\ rows \in [JobIds -> Row] /\ rows[job[s]].state \in Ended
      /\ rows[job[s]].hash = jobs[job[s]].hash /\ rows[job[s]].future = jobs[job[s]].future
      /\ \A k \in JobIds \ {job[s]} : rows[k] = jobs[k]
  BY <1>0, FinalRowsEffect DEF AllInv
<1>2. pcs \in [Slots -> GoPcs] /\ pcs[s] = "endtx" /\ \A u \in Slots \ {s} : pcs[u] = pc[u]
  BY <1>0 DEF GoPcs
<1>3. \/ pc' = pcs /\ wrows' = rows /\ UNCHANGED <<spawned, job, mem>>
      \/ \E j \in Queue(rows) : j \in JobIds /\ StartJob(rows, pcs, session, j, None)
  BY <1>0 DEF EndJob, First, Queue
<1>4. PICK e \in JobIds : e = job[s]
  BY <1>0
<1> HIDE DEF rows, pcs
<1>5. /\ \A t \in Slots : pc[t] # "endtx"
      /\ wrows = jobs /\ \A i \in JobIds : ~StartPending(i) /\ ~Ending(i)
  BY <1>0, FreeHasNoPending
<1>6. \A t \in Slots : /\ pcs[t] # "free" => pc[t] # "free"
                       /\ Running(t) <=> pcs[t] \in {"run", "creating", "blocked", "ending", "endtx"}
  BY <1>0, <1>2 DEF Running
<1>7. CASE pc' = pcs /\ wrows' = rows /\ UNCHANGED <<spawned, job, mem>>
  <2>1. \A i \in JobIds : Ending(i)' <=> i = e
    BY <1>2, <1>4, <1>5, <1>7 DEF Ending
  <2>2. \A i \in JobIds : ~StartPending(i)'
    <3>1. \A i \in JobIds : rows[i].state = "started" => jobs[i].state = "started"
      BY <1>1, <1>4 DEF Ended
    <3> QED
      BY <1>0, <1>7, <3>1 DEF StartPending
  <2>3. \A t \in Slots : (Running(t)' <=> Running(t)) /\ job'[t] = job[t]
    BY <1>6, <1>7 DEF Running
  <2>4. Unseen
    <3>1. StateOf' = StateOf /\ HashOf' = HashOf
      BY <1>0 DEF StateOf, HashOf
    <3>2. RunningJobs' = RunningJobs
      BY <1>5, <2>2, <2>3 DEF RunningJobs
    <3> QED
      BY <3>1, <3>2 DEF Unseen
  <2>5. RunnersRecorded'
    <3> SUFFICES ASSUME NEW t \in Slots, Running(t)'
                 PROVE  (StartPending(job[t]) \/ jobs[job[t]].state \in {"started", "paused"})'
      BY DEF RunnersRecorded
    <3>1. jobs[job[t]].state \in {"started", "paused"}
      BY <1>0, <1>5, <2>3 DEF AllInv, RefInv, RunnersRecorded
    <3> QED
      BY <1>0, <2>3, <3>1
  <2>6. TxChanges'
    <3>1. \A i \in JobIds : wrows'[i].hash = jobs'[i].hash
      BY <1>0, <1>1, <1>4, <1>7
    <3>2. \A i \in JobIds : wrows'[i].state # jobs'[i].state => i = e
      BY <1>0, <1>1, <1>4, <1>7
    <3>3. jobs[e].state # "none"
      BY <1>0, <1>4, <1>5 DEF AllInv, RefInv, RunnersRecorded, Running
    <3>4. \A i \in JobIds : wrows'[i].state # "none" => wrows'[i].hash \in Hashes
      <4>1. \A i \in JobIds : wrows'[i].state # "none" => jobs[i].state # "none"
        BY <1>0, <3>2, <3>3
      <4> QED
        BY <1>0, <1>5, <3>1, <4>1 DEF AllInv, RefInv, TxChanges
    <3> QED
      BY <2>1, <3>1, <3>2, <3>4 DEF TxChanges
  <2>7. StartsHold'
    BY <2>2 DEF StartsHold
  <2>8. ThisSession'
    BY <1>0, <1>6, <1>7 DEF AllInv, RefInv, ThisSession
  <2> QED
    BY <2>4, <2>5, <2>6, <2>7, <2>8, UnseenRefines DEF RefInv
<1>8. CASE \E j \in Queue(rows) : j \in JobIds /\ StartJob(rows, pcs, session, j, None)
  <2>1. PICK j \in JobIds : j \in Queue(rows) /\ StartJob(rows, pcs, session, j, None)
    BY <1>8
  <2>2. j # e /\ rows[j] = jobs[j] /\ jobs[j].state \in {"queued", "interrupted"}
    BY <1>1, <1>4, <2>1 DEF Queue, Ended
  <2>3. \A k \in JobIds : ~rows[k].future
    BY <1>1, <1>4 DEF AllInv, ActiveInv, NoTimers
  <2>4. rows[j].hash \in Hashes
    BY <1>5, <2>2 DEF AllInv, RefInv, TxChanges
  <2>5. \A i \in JobIds \ {j} :
          /\ rows[i].hash = jobs[i].hash
          /\ \/ rows[i].state = jobs[i].state
             \/ rows[i].state \in Ended /\ \E t \in Slots : pcs[t] = "endtx" /\ job[t] = i
    BY <1>1, <1>2, <1>4
  <2>6. StartJob(rows, pcs, session, j, None)
    BY <2>1
  <2>7. rows \in [JobIds -> Row] /\ pcs \in [Slots -> GoPcs]
    BY <1>1, <1>2
  <2>8. RefInv' /\ Unseen
    BY <1>0, <1>6, <2>2, <2>3, <2>4, <2>5, <2>6, <2>7, StartRefines
  <2> QED
    BY <2>8, UnseenRefines
<1> QED
  BY <1>3, <1>7, <1>8

LEMMA GoroutineRefines ==
  ASSUME AllInv, NEW s \in Slots, GoroutineStep(s)
  PROVE  Refines
<1>0. /\ TypeOK /\ job \in [Slots -> JobIds] /\ mem \in [Slots -> Mem] /\ pc \in [Slots -> GoPcs]
      /\ \A t \in Slots : pc[t] \notin {"waiting", "launching"}
  BY DEF AllInv, TypeInv, TypeOK, ActiveInv, NoTimers
<1>1. CASE CommitEnd(s)
  <2>1. /\ writer = s /\ writer # None /\ spawned = None /\ jobs' = wrows /\ wrows' = wrows
        /\ writer' = None /\ pc[s] = "endtx" /\ pc'[s] = "closing"
        /\ \A t \in Slots \ {s} : pc'[t] = pc[t]
        /\ UNCHANGED <<job, mem, session, panicked, repo>>
    BY <1>0, <1>1, JobsAssumption DEF CommitEnd, Commit, Go, envVars
  <2>2. \A t \in Slots : pc[t] = "endtx" => t = s
    BY <2>1, JobsAssumption DEF AllInv, RowInv, BusyWriters
  <2>3. SessionStays
    BY <2>1 DEF SessionStays
  <2>4. \A t \in Slots : /\ Running(t)' <=> Running(t) /\ pc[t] # "endtx"
                         /\ pc'[t] # "endtx"
                         /\ Running(t) => job'[t] = job[t]
    BY <2>1, <2>2 DEF Running
  <2> QED
    BY <2>1, <2>3, <2>4, CommitRefines
<1>2. CASE CloseDone(s)
  <2>1. /\ pc[s] = "closing" /\ pc'[s] = "closed" /\ \A t \in Slots \ {s} : pc'[t] = pc[t]
        /\ \A t \in Slots : mem'[t].sess = mem[t].sess
        /\ UNCHANGED <<dbVars, job, session, panicked, repo>>
    BY <1>0, <1>2 DEF CloseDone, Go, Mem, envVars
  <2>2. StillRunning /\ SessionStays
    BY <2>1 DEF StillRunning, SessionStays, Running, dbVars
  <2> QED
    BY <2>1, <2>2, QuietRefines, UnseenRefines DEF dbVars
<1>3. CASE Unregister(s)
  <2>1. /\ pc[s] = "closed" /\ pc'[s] = "free" /\ \A t \in Slots \ {s} : pc'[t] = pc[t]
        /\ \A t \in Slots \ {s} : mem'[t] = mem[t] /\ job'[t] = job[t]
        /\ UNCHANGED <<dbVars, session, panicked, repo>>
    BY <1>0, <1>3 DEF Unregister, Return, envVars
  <2>2. StillRunning /\ SessionStays
    BY <2>1 DEF StillRunning, SessionStays, Running, dbVars
  <2> QED
    BY <2>1, <2>2, QuietRefines, UnseenRefines DEF dbVars
<1> QED
  BY <1>0, <1>1, <1>2, <1>3, EndJobRefines DEF GoroutineStep, WaiterGivesUp, WaiterFires, CommitWaiter

(* A timeline that could be opened, and whose jobs were resumed: a failed   *)
(* opening leaves the jobs it has started running on a Timeline that nobody *)
(* holds (timeline.go:447), and the next opening interrupts them.           *)
LEMMA OpenRefines ==
  ASSUME AllInv, OpenStep, \A j \in JobIds : ~OpenFails(j)
  PROVE  Refines
<1>0. /\ TypeOK /\ job \in [Slots -> JobIds] /\ pc \in [Slots -> GoPcs] /\ jobs \in [JobIds -> Row]
      /\ repo \in Repo
  BY DEF AllInv, TypeInv, TypeOK
<1>1. ASSUME NEW j \in JobIds, OpenStarts(j)
      PROVE  Refines
  <2>1. /\ StartJob(jobs, pc, session, j, None) /\ writer = None /\ writer' # None /\ jobs' = jobs
        /\ UNCHANGED <<active, session, panicked>> /\ repo'.state = repo.state /\ repo.state # "closed"
    BY <1>0, <1>1, JobsAssumption DEF OpenStarts, Repo
  <2>2. jobs[j].state # "none"
    BY <2>1 DEF StartJob, Startable, Refused
  <2>3. jobs[j].hash \in Hashes /\ \A k \in JobIds : ~jobs[k].future
    BY <2>1, <2>2, FreeHasNoPending DEF AllInv, RefInv, TxChanges, ActiveInv, NoTimers
  <2>4. \A t \in Slots : pc[t] # "endtx"
    BY <2>1, FreeHasNoPending
  <2>5. \A t \in Slots : /\ pc[t] # "free" => pc[t] # "free"
                         /\ Running(t) <=> pc[t] \in {"run", "creating", "blocked", "ending", "endtx"}
    BY DEF Running
  <2>6. \A i \in JobIds \ {j} :
          /\ jobs[i].hash = jobs[i].hash
          /\ \/ jobs[i].state = jobs[i].state
             \/ jobs[i].state \in Ended /\ \E t \in Slots : pc[t] = "endtx" /\ job[t] = i
    OBVIOUS
  <2>7. RefInv' /\ Unseen
    BY <1>0, <2>1, <2>3, <2>4, <2>5, <2>6, StartRefines
  <2> QED
    BY <2>7, UnseenRefines
<1>2. CASE OpenCommits
  <2>1. /\ writer = "opener" /\ writer # None /\ spawned = None /\ jobs' = wrows /\ wrows' = wrows
        /\ writer' = None /\ UNCHANGED <<goVars, envVars>>
    BY <1>2, JobsAssumption DEF OpenCommits, Commit
  <2>2. \A t \in Slots : pc[t] # "endtx"
    BY <2>1, JobsAssumption DEF AllInv, RowInv, BusyWriters
  <2>3. SessionStays
    BY <2>1, ClientStays DEF goVars, envVars
  <2>4. \A t \in Slots : /\ Running(t)' <=> Running(t) /\ pc[t] # "endtx"
                         /\ pc'[t] # "endtx"
                         /\ Running(t) => job'[t] = job[t]
    BY <2>1, <2>2 DEF Running, goVars
  <2> QED
    BY <2>1, <2>3, <2>4, CommitRefines
<1>3. CASE OpenReturns
  <2>1. /\ repo'.state = "open" /\ UNCHANGED <<dbVars, goVars, session, panicked>>
    BY <1>0, <1>3 DEF OpenReturns, Repo
  <2>2. StillRunning /\ SessionStays
    BY <2>1 DEF StillRunning, SessionStays, Running, dbVars, goVars
  <2> QED
    BY <2>1, <2>2, QuietRefines, UnseenRefines DEF dbVars
<1> QED
  BY <1>1, <1>2, <1>3 DEF OpenStep

LEMMA OpenTimelineRefines ==
  ASSUME AllInv, NEW h \in Hosts, NEW R \in SUBSET JobIds, OpenTimeline(h, R)
  PROVE  Refines
<1>0. /\ jobs \in [JobIds -> Row] /\ repo.state = "closed" /\ repo'.state = "opening"
      /\ writer = None /\ writer' = None /\ jobs' = wrows' /\ panicked' = {}
      /\ UNCHANGED goVars
  BY DEF AllInv, TypeInv, TypeOK, OpenTimeline, Exec
<1>1. \A s \in Slots : pc[s] = "free" /\ ~Running(s) /\ pc'[s] = "free" /\ ~Running(s)'
  BY <1>0 DEF AllInv, RefInv, ThisSession, Running, goVars
<1>2. \A j \in JobIds : /\ jobs'[j].hash = jobs[j].hash
                        /\ jobs'[j].state = IF jobs[j].state = "started" THEN "interrupted" ELSE jobs[j].state
  BY <1>0 DEF OpenTimeline, Exec, Row
<1>3. RunningJobs = {} /\ RunningJobs' = {}
  BY <1>1 DEF RunningJobs
<1>4. ThisSession'
  BY <1>0, <1>1 DEF ThisSession
<1>5. TxChanges'
  BY <1>0, <1>2, FreeHasNoPending DEF AllInv, RefInv, TxChanges
<1>6. StartsHold' /\ RunnersRecorded'
  BY <1>0, <1>1 DEF StartsHold, RunnersRecorded, StartPending
<1>7. Lifecycle!Reopen
  <2>1. HashOf' = HashOf
    BY <1>2 DEF HashOf
  <2>2. StateOf' = [j \in JobIds |-> IF StateOf[j] = "started" THEN "interrupted" ELSE StateOf[j]]
    BY <1>2 DEF StateOf
  <2> QED
    BY <1>3, <2>1, <2>2 DEF Lifecycle!Reopen
<1> QED
  BY <1>4, <1>5, <1>6, <1>7 DEF Refines, RefInv, Lifecycle!Next

LEMMA RegisterRefines ==
  ASSUME AllInv, Register
  PROVE  Refines
<1>1. UNCHANGED <<dbVars, pc, job, mem, session, repo, panicked>>
  BY DEF Register, envVars
<1>2. StillRunning /\ SessionStays
  BY <1>1, ClientStays DEF dbVars
<1> QED
  BY <1>1, <1>2, QuietRefines, UnseenRefines DEF dbVars

(* What a transaction had not committed is lost, and all goroutines with it.*)
LEMMA StopRefines ==
  ASSUME AllInv, Stop
  PROVE  Refines
<1>0. /\ jobs \in [JobIds -> Row] /\ jobs' = jobs /\ wrows' = jobs /\ writer' = None
      /\ panicked' = panicked /\ \A s \in Slots : pc'[s] = "free" /\ ~Running(s)'
  BY DEF AllInv, TypeInv, TypeOK, Stop, Running
<1>1. ThisSession'
  BY <1>0 DEF AllInv, RefInv, ThisSession
<1>2. \A j \in JobIds : jobs[j].state # "none" => jobs[j].hash \in Hashes
  BY DEF AllInv, RowInv, RowsKeepIdentity, RefInv, TxChanges
<1>3. TxChanges' /\ StartsHold' /\ RunnersRecorded'
  BY <1>0, <1>2 DEF TxChanges, StartsHold, RunnersRecorded, StartPending
<1>4. Lifecycle!Crash
  <2>1. StateOf' = StateOf /\ HashOf' = HashOf
    BY <1>0 DEF StateOf, HashOf
  <2>2. RunningJobs' = {}
    BY <1>0 DEF RunningJobs
  <2> QED
    BY <2>1, <2>2 DEF Lifecycle!Crash
<1> QED
  BY <1>1, <1>3, <1>4 DEF Refines, RefInv, Lifecycle!Next

LEMMA RefInit == Init => RefInv /\ Lifecycle!Init
<1> SUFFICES ASSUME Init PROVE RefInv /\ Lifecycle!Init
  OBVIOUS
<1>1. \A j \in JobIds : jobs[j].state = "none" /\ jobs[j].hash = None
  BY DEF Init, NoRow
<1>2. \A s \in Slots : pc[s] = "free" /\ ~Running(s)
  BY DEF Init, Running
<1>3. writer = None /\ wrows = jobs /\ panicked = {} /\ \A j \in JobIds : ~StartPending(j)
  BY DEF Init, StartPending
<1>4. RefInv
  BY <1>1, <1>2, <1>3 DEF RefInv, ThisSession, TxChanges, StartsHold, RunnersRecorded
<1>5. RunningJobs = {}
  BY <1>2 DEF RunningJobs
<1> QED
  BY <1>1, <1>4, <1>5 DEF Lifecycle!Init, StateOf, HashOf

LEMMA RefNext ==
  ASSUME AllInv, Undisturbed, [Next]_vars, [\A j \in JobIds : ~OpenFails(j)]_vars
  PROVE  Refines
<1>1. CASE UNCHANGED vars
  <2>1. UNCHANGED <<dbVars, pc, job, mem, session, repo, panicked>>
    BY <1>1 DEF vars, goVars, envVars
  <2>2. StillRunning /\ SessionStays
    BY <2>1, ClientStays DEF dbVars
  <2> QED
    BY <2>1, <2>2, QuietRefines, UnseenRefines DEF dbVars
<1>2. CASE Next /\ \A j \in JobIds : ~OpenFails(j)
  <2>1. ASSUME NEW c \in Clients, RequestStep(c) \/ HandlerStep(c) \/ Disconnect(c)
        PROVE  Refines
    BY <2>1, RequestRefines, HandlerRefines DEF Disconnect, Undisturbed
  <2>2. ASSUME NEW s \in Slots,
               \/ ActionStep(s) \/ GoroutineStep(s) \/ Fail(s) \/ Panic(s)
               \/ \E j \in JobIds, kind \in ChildKinds : CreateChild(s, j, kind)
        PROVE  Refines
    BY <2>2, ActionRefines, GoroutineRefines, CreateChildRefines DEF Panic, Undisturbed
  <2>3. ASSUME NEW j \in JobIds, StartTimeComes(j)
        PROVE  Refines
    BY <2>3 DEF StartTimeComes, AllInv, ActiveInv, NoTimers
  <2> QED
    BY <1>2, <2>1, <2>2, <2>3, OpenRefines, OpenTimelineRefines, RegisterRefines, StopRefines DEF Next
<1> QED
  BY <1>1, <1>2

(* The hypothesis on openings as a step, and the invariants of all steps.   *)
OpensSucceed == [][\A j \in JobIds : ~OpenFails(j)]_vars

LEMMA RefAlways ==
  ASSUME Undisturbed
  PROVE  Spec /\ OpensSucceed => []AllInv
<1>1. Spec => [](TypeInv /\ RowInv /\ RunnerInv)
  BY RunnersAlways
<1>2. Init => ActiveInv /\ RefInv
  BY ActiveInit, RefInit
<1>3. TypeInv /\ RowInv /\ RunnerInv /\ ActiveInv /\ [Next]_vars => ActiveInv'
  BY ActiveNext DEF Undisturbed
<1>4. TypeInv /\ RowInv /\ RunnerInv /\ ActiveInv /\ RefInv /\ [Next]_vars
        /\ [\A j \in JobIds : ~OpenFails(j)]_vars => RefInv'
  BY RefNext DEF AllInv, Refines
<1>5. TypeInv /\ RowInv /\ RunnerInv /\ ActiveInv /\ RefInv => AllInv
  BY DEF AllInv
<1> QED
  BY <1>1, <1>2, <1>3, <1>4, <1>5, PTL DEF Spec, OpensSucceed

(* The job manager implements the lifecycle: every step of its goroutines,  *)
(* requests and transactions is a start, an end, a pause, a crash or an     *)
(* opening of the lifecycle, or is not seen in it.                          *)
THEOREM JobManagerImplements ==
  ASSUME Undisturbed
  PROVE  Spec /\ OpensSucceed => ImplementsLifecycle
<1>1. Spec /\ OpensSucceed => []AllInv
  BY RefAlways
<1>2. Init => Lifecycle!Init
  BY RefInit
<1>3. AllInv /\ [Next]_vars /\ [\A j \in JobIds : ~OpenFails(j)]_vars
        => [Lifecycle!Next]_<<StateOf, HashOf, RunningJobs>>
  BY RefNext DEF Refines
<1> QED
  BY <1>1, <1>2, <1>3, PTL
     DEF Spec, OpensSucceed, ImplementsLifecycle, Lifecycle!Spec, Lifecycle!vars

-----------------------------------------------------------------------------
(* What the lifecycle promises, whatever implements it.                     *)

LifecycleInv == Lifecycle!TypeOK /\ Lifecycle!Exclusive /\ Lifecycle!RunningIsRecorded

LEMMA LifecycleInit == Lifecycle!Init => LifecycleInv
BY DEF Lifecycle!Init, LifecycleInv, Lifecycle!TypeOK, Lifecycle!Exclusive,
       Lifecycle!RunningIsRecorded, Lifecycle!States

LEMMA LifecycleNext ==
  LifecycleInv /\ [Lifecycle!Next]_<<StateOf, HashOf, RunningJobs>> => LifecycleInv'
<1> SUFFICES ASSUME LifecycleInv, [Lifecycle!Next]_<<StateOf, HashOf, RunningJobs>>
             PROVE  LifecycleInv'
  OBVIOUS
<1> USE DEF LifecycleInv, Lifecycle!TypeOK, Lifecycle!Exclusive, Lifecycle!RunningIsRecorded
<1>1. ASSUME NEW j \in JobIds, NEW h \in Hashes, Lifecycle!Create(j, h)
      PROVE  LifecycleInv'
  <2>1. j \notin RunningJobs
    BY <1>1 DEF Lifecycle!Create
  <2> QED
    BY <1>1, <2>1 DEF Lifecycle!Create, Lifecycle!States
<1>2. ASSUME NEW j \in JobIds, Lifecycle!Start(j)
      PROVE  LifecycleInv'
  BY <1>2 DEF Lifecycle!Start, Lifecycle!Alone, Lifecycle!States
<1>3. ASSUME NEW j \in JobIds, NEW result \in Lifecycle!Ended, Lifecycle!Finish(j, result)
      PROVE  LifecycleInv'
  BY <1>3 DEF Lifecycle!Finish, Lifecycle!States, Lifecycle!Ended
<1>4. ASSUME NEW j \in JobIds, NEW k \in JobIds, NEW result \in Lifecycle!Ended,
             Lifecycle!FinishAndStart(j, result, k)
      PROVE  LifecycleInv'
  BY <1>4 DEF Lifecycle!FinishAndStart, Lifecycle!States, Lifecycle!Ended
<1>5. ASSUME NEW j \in JobIds, Lifecycle!Pause(j) \/ Lifecycle!Unpause(j)
      PROVE  LifecycleInv'
  BY <1>5 DEF Lifecycle!Pause, Lifecycle!Unpause, Lifecycle!States
<1>6. CASE Lifecycle!Crash \/ Lifecycle!Reopen
  BY <1>6 DEF Lifecycle!Crash, Lifecycle!Reopen, Lifecycle!States
<1>7. CASE UNCHANGED <<StateOf, HashOf, RunningJobs>>
  BY <1>7
<1> QED
  BY <1>1, <1>2, <1>3, <1>4, <1>5, <1>6, <1>7 DEF Lifecycle!Next

(* No two identical jobs are carried out at once: every way to start a job  *)
(* checks it, and no other step adds to what is carried out.                *)
THEOREM LifecycleIsExclusive == Lifecycle!Spec => []Lifecycle!Exclusive
<1>1. LifecycleInv => Lifecycle!Exclusive
  BY DEF LifecycleInv
<1> QED
  BY <1>1, LifecycleInit, LifecycleNext, PTL DEF Lifecycle!Spec, Lifecycle!vars

(* What is carried out is recorded as started or paused, so that a crash    *)
(* leaves it to be interrupted and resumed, or paused.                      *)
THEOREM LifecycleRecordsRuns == Lifecycle!Spec => []Lifecycle!RunningIsRecorded
<1>1. LifecycleInv => Lifecycle!RunningIsRecorded
  BY DEF LifecycleInv
<1> QED
  BY <1>1, LifecycleInit, LifecycleNext, PTL DEF Lifecycle!Spec, Lifecycle!vars

(* Whatever is carried out is recorded as started or paused: a crash leaves *)
(* nothing behind that looks finished or never started.                     *)
THEOREM RunsAreAlwaysRecorded ==
  ASSUME Undisturbed
  PROVE  Spec /\ OpensSucceed => []RunsAreRecorded
BY JobManagerImplements, LifecycleRecordsRuns, PTL DEF ImplementsLifecycle, RunsAreRecorded

(* No two identical jobs are carried out at the same time, from the commit  *)
(* of their start to that of their end (jobs.go:251-262): the lifecycle,    *)
(* which the job manager implements, allows it nowhere.                     *)
THEOREM IdenticalJobsRunApart ==
  ASSUME Undisturbed
  PROVE  Spec /\ OpensSucceed => []Lifecycle!Exclusive
BY JobManagerImplements, LifecycleIsExclusive, PTL DEF ImplementsLifecycle
=============================================================================
