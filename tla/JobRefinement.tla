---------------------------- MODULE JobRefinement ----------------------------
(***************************************************************************)
(* JobManager implements JobLifecycle, as long as no job is scheduled, no   *)
(* action panics and no client goes away (the runs about those show what    *)
(* goes wrong then).                                                        *)
(***************************************************************************)
EXTENDS JobManager

(* A start that is not committed yet.                                       *)
StartPending(j) ==
  writer # None /\ wrows[j].state = "started" /\ jobs[j].state # "started"

StateOf == [j \in JobIds |-> jobs[j].state]
HashOf == [j \in JobIds |-> jobs[j].hash]
RunningJobs ==
  {j \in JobIds : ~StartPending(j) /\ \E s \in Slots : Running(s) /\ job[s] = j}

Lifecycle ==
  INSTANCE JobLifecycle WITH
    Jobs <- JobIds, state <- StateOf, hash <- HashOf, running <- RunningJobs

(* Every step of the job manager is a step of the lifecycle, or none:       *)
(* goroutines, requests and transactions add no behaviour of their own.     *)
ImplementsLifecycle == Lifecycle!Spec

(* The database says started or paused of every job that is carried out     *)
(* once its start is committed, so that a crash leaves nothing behind that  *)
(* looks finished or never started.                                         *)
RunsAreRecorded == Lifecycle!RunningIsRecorded
=============================================================================
