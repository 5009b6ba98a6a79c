---------------------------- MODULE JobLifecycle ----------------------------
(***************************************************************************)
(* What the job manager promises (timeline/jobs.go, the comments of the job *)
(* states and of startJob): a job's action is carried out only after its    *)
(* start was recorded and until its end is recorded, no two identical jobs  *)
(* are carried out at once, and what a crash cuts short is interrupted at   *)
(* the next opening.  No goroutines, requests or transactions: JobManager   *)
(* implements this.                                                         *)
(***************************************************************************)
CONSTANTS
  Jobs,     (* job identifiers                                              *)
  Hashes,   (* what makes two jobs identical                                *)
  None

States == {"none", "queued", "started", "paused", "aborted", "interrupted",
           "succeeded", "failed"}
Ended == {"aborted", "succeeded", "failed"}

VARIABLES
  state,    (* the recorded state of each job                               *)
  hash,     (* the recorded type and configuration of each job              *)
  running   (* the jobs that are carried out                                *)

vars == <<state, hash, running>>

Alone(j) == \A i \in running : hash[i] # hash[j]

(* A new job waits its turn or is started at once.                          *)
Create(j, h) ==
  /\ state[j] = "none"
  /\ hash' = [hash EXCEPT ![j] = h]
  /\ \/ /\ state' = [state EXCEPT ![j] = "queued"]
        /\ UNCHANGED running
     \/ /\ \A i \in running : hash[i] # h
        /\ state' = [state EXCEPT ![j] = "started"]
        /\ running' = running \cup {j}

(* Paused: what was paused when the program stopped.                        *)
Start(j) ==
  /\ state[j] \in {"queued", "interrupted", "paused", "aborted", "failed"}
  /\ j \notin running
  /\ Alone(j)
  /\ state' = [state EXCEPT ![j] = "started"]
  /\ running' = running \cup {j}
  /\ UNCHANGED hash

Finish(j, result) ==
  /\ j \in running
  /\ state' = [state EXCEPT ![j] = result]
  /\ running' = running \ {j}
  /\ UNCHANGED hash

(* The end of a job and the start of the next are recorded together.        *)
FinishAndStart(j, result, k) ==
  /\ j \in running
  /\ k \notin running
  /\ state[k] \in {"queued", "interrupted"}
  /\ \A i \in running \ {j} : hash[i] # hash[k]
  /\ state' = [state EXCEPT ![j] = result, ![k] = "started"]
  /\ running' = (running \ {j}) \cup {k}
  /\ UNCHANGED hash

Pause(j) ==
  /\ j \in running
  /\ state[j] = "started"
  /\ state' = [state EXCEPT ![j] = "paused"]
  /\ UNCHANGED <<hash, running>>

Unpause(j) ==
  /\ j \in running
  /\ state[j] = "paused"
  /\ state' = [state EXCEPT ![j] = "started"]
  /\ UNCHANGED <<hash, running>>

Crash ==
  /\ running' = {}
  /\ UNCHANGED <<state, hash>>

Reopen ==
  /\ running = {}
  /\ state' = [j \in Jobs |-> IF state[j] = "started" THEN "interrupted" ELSE state[j]]
  /\ UNCHANGED <<hash, running>>

Init ==
  /\ state = [j \in Jobs |-> "none"]
  /\ hash = [j \in Jobs |-> None]
  /\ running = {}

Next ==
  \/ \E j \in Jobs, h \in Hashes : Create(j, h)
  \/ \E j \in Jobs : Start(j) \/ Pause(j) \/ Unpause(j)
  \/ \E j \in Jobs, result \in Ended : Finish(j, result)
  \/ \E j, k \in Jobs, result \in Ended : FinishAndStart(j, result, k)
  \/ Crash
  \/ Reopen

Spec == Init /\ [][Next]_vars

-----------------------------------------------------------------------------
TypeOK ==
  /\ state \in [Jobs -> States]
  /\ hash \in [Jobs -> Hashes \cup {None}]
  /\ running \subseteq Jobs

(* No two identical jobs are carried out at the same time.                  *)
Exclusive == \A i, j \in running : i # j => hash[i] # hash[j]

(* What is carried out is recorded as started or paused, so that it is      *)
(* interrupted, or left paused, if it is cut short.                         *)
RunningIsRecorded == \A j \in running : state[j] \in {"started", "paused"}
=============================================================================
