---------------------------- MODULE OpenTimelines ----------------------------
(***************************************************************************)
(* Which timelines the application has open (tlzapp: bindings.go, state.go, *)
(* config.go, app.go): requests open and close them, the list of their      *)
(* folders is kept in the configuration and opened again at the next start, *)
(* the server restarts when its settings change, and the folders are moved, *)
(* copied and removed under the program's feet.                             *)
(*                                                                         *)
(* A request holds openTimelinesMu from its first look at the table until   *)
(* the configuration is saved: the table, the list in memory and the file   *)
(* change one after the other, and the file is empty in between.  Settings  *)
(* are saved meanwhile under the configuration's own lock.  The listing of  *)
(* open timelines decides what to close under the lock and closes it later. *)
(***************************************************************************)
EXTENDS Naturals, FiniteSets, Sequences, SequencesExt

CONSTANTS
  Folders,   (* absolute paths                                               *)
  Sub,       (* the folder "My Timeline" in each of them, or None            *)
  Ids,       (* timeline IDs, each of them created at most once              *)
  Disks,     (* what the folders may hold at first                           *)
  Sort,      (* sort.StringSlice: the sorted list of each set of folders     *)
  MaxMoves,  (* how often folders are moved, copied or removed (bound)       *)
  MaxStarts, (* how often the server is started (bound)                      *)
  MaxFailures, (* how often an opening or a save fails (bound)               *)
  Torn,      (* a configuration file that is empty or cut off                *)
  None

Holds == Ids \cup {"absent", "empty", "other"}

OpenTimelinesAssumption ==
  /\ Sub \in [Folders -> Folders \cup {None}]
  /\ Disks \subseteq [Folders -> Holds]
  /\ Sort \in [SUBSET Folders -> Seq(Folders)]
  /\ \A S \in SUBSET Folders : IsInjective(Sort[S]) /\ ToSet(Sort[S]) = S
  /\ MaxMoves \in Nat /\ MaxStarts \in Nat /\ MaxFailures \in Nat
  /\ Torn \notin Seq(Folders)
  /\ None \notin Folders \cup Ids
  /\ {"absent", "empty", "other"} \cap Ids = {}

VARIABLES
  disk,     (* what each folder holds: a timeline, nothing, or other files   *)
  used,     (* IDs that were given to a timeline                             *)
  open,     (* openTimelines: the RepoDir of each open timeline              *)
  handles,  (* how many times each timeline's databases are open             *)
  left,     (* those of them that a failed opening has left behind           *)
  sync,     (* what the holder of openTimelinesMu has changed: the table, or *)
            (* the list too; "no" when the lock is free                      *)
  entry,    (* and the timeline that it enters or removes                    *)
  repos,    (* Config.Repositories                                           *)
  saved,    (* the same in the configuration file                            *)
  writer,   (* who has emptied the file to write it: sync, settings, start   *)
  unsaved,  (* the last save has failed                                      *)
  phase,    (* of the server: down, starting, serving, or stopping           *)
  last,     (* lastOpenedRepos of openRepos                                  *)
  i,        (* and how many of them it has been through                      *)
  failed,   (* timelines that this start could not open                      *)
  stale,    (* timelines that a listing has found gone, but not closed yet   *)
  moves, starts, failures

tableVars == <<open, handles, left, sync, entry, failed, failures>>
configVars == <<repos, saved, writer, unsaved>>
serverVars == <<phase, last, i, stale, moves, starts>>
vars == <<disk, used, tableVars, configVars, serverVars>>

-----------------------------------------------------------------------------

(* The folder a timeline may be created in when that was chosen, or None.   *)
AssessCreate(d) ==
  IF disk[d] \in {"absent", "empty"} THEN d
  ELSE IF disk[d] = "other" /\ Sub[d] # None /\ disk[Sub[d]] \in {"absent", "empty"}
       THEN Sub[d] ELSE None

(* The folder of the timeline that is there when d was chosen, or None:     *)
(* AssessFolder, whose TimelinePath is d or the "My Timeline" in it.        *)
AssessOpen(d) ==
  IF disk[d] \in Ids THEN d
  ELSE IF disk[d] = "other" /\ Sub[d] # None /\ disk[Sub[d]] \in Ids
       THEN Sub[d] ELSE None

OpenIds(table) == {id \in Ids : table[id] # None}
Dirs(table) == {table[id] : id \in OpenIds(table)}

(* The sorted folders of what is open.                                      *)
Sorted(table) == Sort[Dirs(table)]

(* Whether openRepository refuses d at once, by its path.                   *)
PathIsOpen(d) == d \in Dirs(open)

(* The table has changed, and the configuration does not have it yet.       *)
Changed(id) == sync' = "table" /\ entry' = id

(* A timeline of this ID has been opened at d: the second time it is closed *)
(* again ("closing redundantly-opened timeline").                           *)
Enter(id, d) ==
  IF open[id] # None
  THEN UNCHANGED tableVars
  ELSE /\ open' = [open EXCEPT ![id] = d]
       /\ handles' = [handles EXCEPT ![id] = @ + 1]
       /\ Changed(id)
       /\ UNCHANGED <<left, failed, failures>>

(* timeline.Open fails.  At first what it has opened is closed again; once  *)
(* it resumes jobs its own err is shadowed, the deferred call closes        *)
(* nothing, and both databases are left open.                               *)
Fail(id) ==
  /\ failures < MaxFailures
  /\ failures' = failures + 1
  /\ failed' = IF phase = "starting" THEN failed \cup {id} ELSE failed
  /\ \/ UNCHANGED <<handles, left>>
     \/ /\ handles' = [handles EXCEPT ![id] = @ + 1]
        /\ left' = [left EXCEPT ![id] = @ + 1]
  /\ UNCHANGED <<open, sync, entry>>

(* openRepository(d, false), which changes nothing when it refuses.         *)
OpenAt(d) ==
  LET at == AssessOpen(d)
  IN IF PathIsOpen(d) \/ at = None
     THEN UNCHANGED tableVars
     ELSE Enter(disk[at], at) \/ Fail(disk[at])

(* What folders hold once d holds h: its parent is not empty any more, or   *)
(* its own folder gone with it.                                             *)
Put(d, h) ==
  [f \in Folders |->
     IF f = d THEN h
     ELSE IF h = "absent" /\ Sub[d] = f THEN "absent"
     ELSE IF h # "absent" /\ Sub[f] = d /\ disk[f] \in {"absent", "empty"} THEN "other"
     ELSE disk[f]]

(* openRepository(d, true), which may fail as well, before or after there   *)
(* is a folder or a database; no jobs are resumed.                          *)
CreateAt(d) ==
  LET at == AssessCreate(d) IN
  /\ ~PathIsOpen(d) /\ at # None
  /\ \/ \E id \in Ids \ used :
          /\ disk' = Put(at, id)
          /\ used' = used \cup {id}
          /\ \/ Enter(id, at)
             \/ /\ failures < MaxFailures /\ failures' = failures + 1
                /\ UNCHANGED <<open, handles, left, sync, entry, failed>>
     \/ /\ failures < MaxFailures /\ failures' = failures + 1
        /\ disk' = Put(at, "empty")
        /\ UNCHANGED <<used, open, handles, left, sync, entry, failed>>

(* CloseRepository, which refuses what is not open; Timeline.Close never    *)
(* returns an error.                                                        *)
CloseId(id) ==
  /\ open[id] # None
  /\ open' = [open EXCEPT ![id] = None]
  /\ handles' = [handles EXCEPT ![id] = @ - 1]
  /\ Changed(id)
  /\ UNCHANGED <<left, failed, failures>>

-----------------------------------------------------------------------------
(* Requests, which the old server still serves while it is stopped.         *)

Serves == phase \in {"serving", "stopping"}
LockIsFree == sync = "no"

Open(d) ==
  /\ Serves /\ LockIsFree
  /\ OpenAt(d)
  /\ UNCHANGED <<disk, used, configVars, serverVars>>

Create(d) ==
  /\ Serves /\ LockIsFree
  /\ CreateAt(d)
  /\ UNCHANGED <<configVars, serverVars>>

Close(id) ==
  /\ Serves /\ LockIsFree
  /\ CloseId(id)
  /\ UNCHANGED <<disk, used, configVars, serverVars>>

(* getOpenRepositories: what has lost its database is closed...             *)
List ==
  /\ Serves /\ LockIsFree
  /\ stale' = stale \cup {id \in OpenIds(open) : disk[open[id]] \notin Ids}
  /\ UNCHANGED <<disk, used, tableVars, configVars, phase, last, i, moves, starts>>

(* ... when the deferred call gets the write lock, whatever is open by then. *)
CloseStale(id) ==
  /\ id \in stale /\ LockIsFree
  /\ stale' = stale \ {id}
  /\ \/ CloseId(id)
     \/ open[id] = None /\ UNCHANGED tableVars
  /\ UNCHANGED <<disk, used, configVars, phase, last, i, moves, starts>>

-----------------------------------------------------------------------------
(* The configuration.                                                       *)

Release == sync' = "no" /\ entry' = None

(* Mutant of SyncOpenRepos: the list is changed in memory only. *)
SyncInMemory ==
  /\ sync = "table" /\ writer = "none"
  /\ repos' = Sorted(open)
  /\ Release
  /\ UNCHANGED <<disk, used, open, handles, left, failed, failures, saved, writer, unsaved, serverVars>>

(* syncOpenRepos, under cfg.Lock: the list, to be saved if it has changed.  *)
SyncOpenRepos ==
  /\ sync = "table" /\ writer = "none"
  /\ repos' = Sorted(open)
  /\ IF repos' = repos THEN Release ELSE sync' = "list" /\ UNCHANGED entry
  /\ UNCHANGED <<disk, used, open, handles, left, failed, failures, saved, writer, unsaved, serverVars>>

(* Mutant of Listed: the list is the one that syncOpenRepos replaces. *)
ListedNow == repos

(* lastOpenedRepos, which syncOpenRepos leaves alone.                       *)
Listed == last

StartIsThrough == phase = "starting" /\ i >= Len(Listed) /\ LockIsFree

(* unsyncedSave empties the file (os.Create): called by syncOpenRepos, when *)
(* settings have changed, and at the end of openRepos.                      *)
Truncate ==
  /\ writer = "none"
  /\ \/ sync = "list" /\ writer' = "sync"
     \/ Serves /\ writer' = "settings"
     \/ StartIsThrough /\ writer' = "start"
  /\ saved' = Torn
  /\ UNCHANGED <<disk, used, tableVars, repos, unsaved, serverVars>>

(* ... and writes it.  At the end of openRepos requests are served.         *)
Encode ==
  /\ writer # "none"
  /\ writer' = "none"
  /\ saved' = repos
  /\ unsaved' = FALSE
  /\ IF writer = "sync" THEN Release ELSE UNCHANGED <<sync, entry>>
  /\ IF writer = "start" THEN phase' = "serving" /\ failed' = {} ELSE UNCHANGED <<phase, failed>>
  /\ UNCHANGED <<disk, used, open, handles, left, failures, repos, last, i, stale, moves, starts>>

(* The file cannot be created, or not be written.  Requests log the error   *)
(* and go on; a start gives up, which is an Exit.                           *)
SaveFails ==
  /\ failures < MaxFailures
  /\ failures' = failures + 1
  /\ \/ writer = "none" /\ sync = "list" /\ Release
     \/ writer = "sync" /\ Release
     \/ writer = "settings" /\ UNCHANGED <<sync, entry>>
  /\ writer' = "none"
  /\ unsaved' = TRUE
  /\ UNCHANGED <<disk, used, open, handles, left, failed, repos, saved, serverVars>>

-----------------------------------------------------------------------------
(* Starting and stopping.                                                   *)

(* A process starts with the configuration file, unless that is torn        *)
(* ("failed loading config"); the server opens what the configuration       *)
(* lists, keeping the list it has begun with.                               *)
Start ==
  /\ phase = "down" /\ starts < MaxStarts
  /\ saved # Torn
  /\ phase' = "starting"
  /\ starts' = starts + 1
  /\ repos' = saved
  /\ last' = saved
  /\ i' = 0
  /\ UNCHANGED <<disk, used, tableVars, saved, writer, unsaved, stale, moves>>

(* openRepos, one folder after the other.                                   *)
Reopen ==
  /\ phase = "starting" /\ i < Len(Listed) /\ LockIsFree
  /\ OpenAt(Listed[i + 1])
  /\ i' = i + 1
  /\ UNCHANGED <<disk, used, configVars, phase, last, stale, moves, starts>>

(* Mutant of ShutdownTimelines: the table is emptied, nothing is closed. *)
ShutdownTable ==
  /\ open' = [id \in Ids |-> None]
  /\ UNCHANGED <<handles, configVars>>

(* Mutant of ShutdownTimelines: the list of what is open is saved, too. *)
ShutdownAndSave ==
  /\ open' = [id \in Ids |-> None]
  /\ handles' = left
  /\ repos' = Sorted(open') /\ saved' = Sorted(open')
  /\ UNCHANGED <<writer, unsaved>>

(* shutdownTimelines closes everything and leaves the configuration alone.  *)
ShutdownTimelines ==
  /\ open' = [id \in Ids |-> None]
  /\ handles' = [id \in Ids |-> handles[id] - (IF open[id] # None THEN 1 ELSE 0)]
  /\ UNCHANGED configVars

(* App.cancel: on a signal, or for a restart of the server.                 *)
Stop ==
  /\ phase = "serving" /\ LockIsFree
  /\ phase' = "stopping"
  /\ ShutdownTimelines
  /\ UNCHANGED <<disk, used, left, sync, entry, failed, failures, last, i, stale, moves, starts>>

(* httpServer.Shutdown has returned, as no request is in progress (its      *)
(* timeout of 10 s is not modelled); ChangeSettings starts a new server in  *)
(* the same process, with the configuration in memory.                      *)
Restart ==
  /\ phase = "stopping" /\ stale = {} /\ starts < MaxStarts
  /\ LockIsFree /\ writer = "none"
  /\ phase' = "starting"
  /\ starts' = starts + 1
  /\ last' = repos
  /\ i' = 0
  /\ UNCHANGED <<disk, used, tableVars, configVars, stale, moves>>

(* The process ends, after Stop or at any other moment.                     *)
Exit ==
  /\ phase # "down"
  /\ phase' = "down"
  /\ open' = [id \in Ids |-> None]
  /\ handles' = [id \in Ids |-> 0]
  /\ left' = [id \in Ids |-> 0]
  /\ Release
  /\ repos' = <<>>
  /\ writer' = "none" /\ unsaved' = FALSE
  /\ last' = <<>>
  /\ i' = 0
  /\ failed' = {}
  /\ stale' = {}
  /\ UNCHANGED <<disk, used, saved, failures, moves, starts>>

(* A folder is removed, or the timeline in it copied to a free place (to    *)
(* copy it and then remove it is to move it), but not while the server is   *)
(* starting.  A database that is open stays open.                           *)
Change(d) ==
  /\ phase # "starting" /\ moves < MaxMoves
  /\ moves' = moves + 1
  /\ \/ disk' = Put(d, "absent")
     \/ \E e \in Folders :
          disk[d] \in Ids /\ disk[e] = "absent" /\ disk' = Put(e, disk[d])
  /\ UNCHANGED <<used, tableVars, configVars, phase, last, i, stale, starts>>

-----------------------------------------------------------------------------

Init ==
  /\ disk \in Disks
  /\ used = {disk[d] : d \in Folders} \cap Ids
  /\ open = [id \in Ids |-> None]
  /\ handles = [id \in Ids |-> 0] /\ left = [id \in Ids |-> 0]
  /\ sync = "no" /\ entry = None
  /\ repos = <<>> /\ saved = <<>>
  /\ writer = "none" /\ unsaved = FALSE
  /\ phase = "down" /\ last = <<>> /\ i = 0
  /\ failed = {} /\ stale = {}
  /\ moves = 0 /\ starts = 0 /\ failures = 0

Next ==
  \/ \E d \in Folders : Open(d) \/ Create(d) \/ Change(d)
  \/ \E id \in Ids : Close(id) \/ CloseStale(id)
  \/ List
  \/ SyncOpenRepos \/ Truncate \/ Encode \/ SaveFails
  \/ Start \/ Reopen \/ Stop \/ Restart \/ Exit

Spec == Init /\ [][Next]_vars

-----------------------------------------------------------------------------

TypeOK ==
  /\ disk \in [Folders -> Holds]
  /\ used \subseteq Ids
  /\ open \in [Ids -> Folders \cup {None}]
  /\ handles \in [Ids -> 0..MaxFailures + 1] /\ left \in [Ids -> 0..MaxFailures]
  /\ sync \in {"no", "table", "list"} /\ entry \in Ids \cup {None}
  /\ {repos, last} \subseteq Seq(Folders) /\ IsInjective(repos)
  /\ saved # Torn => saved \in Seq(Folders) /\ IsInjective(saved)
  /\ writer \in {"none", "sync", "settings", "start"} /\ unsaved \in BOOLEAN
  /\ phase \in {"down", "starting", "serving", "stopping"}
  /\ i \in 0..Len(last)
  /\ failed \subseteq Ids /\ stale \subseteq Ids
  /\ moves \in 0..MaxMoves /\ starts \in 0..MaxStarts /\ failures \in 0..MaxFailures

(* bindings.go:90-92, 126-138: "don't allow a timeline to be opened twice": *)
(* a timeline reached by another path, as the folder above it or a copy, is *)
(* closed again, and a stop closes all.  The only databases open beyond the *)
(* table are those that a failure to resume jobs has left (timeline.go:     *)
(* 447-470), which timeline.go:348 means to close.                          *)
HandlesAreListed ==
  \A id \in Ids : handles[id] = left[id] + (IF open[id] = None THEN 0 ELSE 1)

(* A timeline whose request has saved what it did.                          *)
Settled == OpenIds(open) \ {entry}

(* bindings.go:165: "persist newly opened repo so it can be resumed on      *)
(* restart": unless the last save has failed, the file names every timeline *)
(* that is open, but the one that is being entered, at every moment at      *)
(* which the process may be killed; but it is empty while it is written.    *)
OpenIsRemembered ==
  phase # "down" /\ ~unsaved =>
    IF writer = "none" THEN saved # Torn /\ \A id \in Settled : open[id] \in ToSet(saved)
    ELSE \A id \in Settled : open[id] \in ToSet(repos)

(* state.go:31-62: neither a start, a stop nor the end of the process takes *)
(* from the file what was open, or tears it: torn is only what was being    *)
(* written when the process ended, or could not be written.                 *)
ForgetsNothing ==
  phase' # phase /\ ~unsaved =>
    IF saved' = Torn THEN writer # "none"
    ELSE \A id \in Settled : open[id] \in ToSet(saved')

(* app.go:495-512: a start goes through all folders the configuration named *)
(* when it began, though each that it opens rewrites the configuration: a   *)
(* timeline in one of them is open in the end, or has failed to open.       *)
StartReopensAll ==
  StartIsThrough =>
    \A k \in 1..Len(last) :
      disk[last[k]] \in Ids => disk[last[k]] \in OpenIds(open) \cup failed \/ last[k] \in Dirs(open)

(* bindings.go:95-175, app.go:480-515: the table, the databases and the     *)
(* configuration agree but for the step that is being made, and a start     *)
(* opens what it should.                                                    *)
OpenTimelinesAreKept == HandlesAreListed /\ OpenIsRemembered /\ StartReopensAll
==============================================================================
