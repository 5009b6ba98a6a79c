------------------------- MODULE OpenTimelinesProofs -------------------------
(***************************************************************************)
(* The table of open timelines, their databases and the configuration agree *)
(* but for the step that is being made, for any folders, timelines, starts  *)
(* of the program and failures, and whatever is done to the folders         *)
(* meanwhile.                                                               *)
(***************************************************************************)
EXTENDS OpenTimelines, TLAPS

-----------------------------------------------------------------------------
(* The parts of the inductive invariant.                                    *)

(* A list of folders, each of them once.                                    *)
Lists == {l \in Seq(Folders) : IsInjective(l)}

TableTyped ==
  /\ open \in [Ids -> Folders \cup {None}]
  /\ handles \in [Ids -> Nat] /\ left \in [Ids -> Nat]
  /\ sync \in {"no", "table", "list"} /\ entry \in Ids \cup {None}
  /\ failed \subseteq Ids /\ failures \in 0..MaxFailures
  /\ \A id \in Ids : left[id] <= failures

ConfigTyped ==
  /\ repos \in Lists /\ saved \in Lists \cup {Torn}
  /\ writer \in {"none", "sync", "settings", "start"} /\ unsaved \in BOOLEAN

ServerTyped ==
  /\ disk \in [Folders -> Holds] /\ used \subseteq Ids
  /\ last \in Seq(Folders) /\ i \in 0..Len(last)
  /\ phase \in {"down", "starting", "serving", "stopping"}
  /\ stale \subseteq Ids
  /\ moves \in 0..MaxMoves /\ starts \in 0..MaxStarts

(* Who holds openTimelinesMu has an entry that the list need not have yet;  *)
(* whoever writes the file has emptied it.                                  *)
LockIsHeld == sync = "no" => entry = None
WriterHasTorn ==
  /\ writer # "none" => saved = Torn /\ phase # "down"
  /\ writer = "sync" => sync = "list"
  /\ writer = "start" => StartIsThrough
  /\ writer = "settings" => Serves

(* The list in memory has what is open, and so has the one in the file;     *)
(* they are the same but while a new list is saved.                         *)
MemoryIsComplete ==
  IF sync = "table" THEN \A id \in Settled : open[id] \in ToSet(repos)
  ELSE Dirs(open) \subseteq ToSet(repos)
MemoryIsSaved ==
  phase # "down" /\ writer = "none" /\ ~unsaved =>
    /\ saved # Torn
    /\ sync # "list" => saved = repos
    /\ \A id \in Settled : open[id] \in ToSet(saved)

(* Nothing is open without a process, and no listing is under way when the  *)
(* start begins.                                                            *)
DownIsClosed == phase = "down" => ~unsaved /\ sync = "no" /\ \A id \in Ids : open[id] = None
NothingIsStale == phase \in {"down", "starting"} => stale = {}

(* What the start has been through.                                         *)
Reopened ==
  phase = "starting" =>
    \A k \in 1..i : disk[last[k]] \in Ids =>
      disk[last[k]] \in OpenIds(open) \cup failed \/ last[k] \in Dirs(open)

TimelinesInv ==
  /\ TableTyped /\ ConfigTyped /\ ServerTyped
  /\ HandlesAreListed
  /\ LockIsHeld /\ WriterHasTorn
  /\ MemoryIsComplete /\ MemoryIsSaved
  /\ DownIsClosed /\ NothingIsStale
  /\ Reopened

-----------------------------------------------------------------------------
(* The table.                                                               *)

LEMMA DirsAreFolders ==
  ASSUME NEW table \in [Ids -> Folders \cup {None}]
  PROVE  Dirs(table) \in SUBSET Folders
BY DEF Dirs, OpenIds

LEMMA SortedIsList ==
  ASSUME OpenTimelinesAssumption, TableTyped
  PROVE  Sorted(open) \in Lists /\ ToSet(Sorted(open)) = Dirs(open)
<1>1. Dirs(open) \in SUBSET Folders
  BY DirsAreFolders DEF TableTyped
<1> QED
  BY <1>1 DEF OpenTimelinesAssumption, Sorted, Lists

LEMMA TornIsNoList ==
  ASSUME OpenTimelinesAssumption
  PROVE  Torn \notin Lists
BY DEF OpenTimelinesAssumption, Lists

(* What a step under openTimelinesMu does to the table: at most one entry   *)
(* changes, and the list has to follow.                                     *)
OneEntry ==
  /\ TableTyped' /\ HandlesAreListed'
  /\ \/ UNCHANGED <<open, sync, entry>>
     \/ /\ sync' = "table" /\ entry' \in Ids
        /\ \A id \in Ids : id # entry' => open'[id] = open[id]

LEMMA UnchangedIsOne ==
  ASSUME TimelinesInv, UNCHANGED tableVars
  PROVE  OneEntry
BY DEF TimelinesInv, TableTyped, OneEntry, HandlesAreListed, tableVars

(* Nothing that is open is closed.                                          *)
Grows ==
  /\ \A id \in Ids : open[id] # None => open'[id] = open[id]
  /\ failed \subseteq failed'

LEMMA EnterIsOne ==
  ASSUME OpenTimelinesAssumption, TimelinesInv, NEW id \in Ids, NEW d \in Folders,
         Enter(id, d)
  PROVE  OneEntry /\ Grows /\ open'[id] # None
<1>1. TableTyped /\ HandlesAreListed
  BY DEF TimelinesInv
<1>2. d # None
  BY DEF OpenTimelinesAssumption
<1>3. CASE open[id] # None
  <2>1. UNCHANGED tableVars
    BY <1>3 DEF Enter
  <2> QED
    BY <1>3, <2>1, UnchangedIsOne DEF Grows, tableVars
<1>4. CASE open[id] = None
  <2>1. /\ open' = [open EXCEPT ![id] = d]
        /\ handles' = [handles EXCEPT ![id] = @ + 1]
        /\ sync' = "table" /\ entry' = id
        /\ UNCHANGED <<left, failed, failures>>
    BY <1>4 DEF Enter, Changed
  <2>2. TableTyped'
    BY <1>1, <2>1 DEF TableTyped
  <2>3. HandlesAreListed'
    BY <1>1, <1>2, <1>4, <2>1 DEF TableTyped, HandlesAreListed
  <2>4. /\ \A j \in Ids : j # id => open'[j] = open[j]
        /\ open'[id] = d
    BY <1>1, <2>1 DEF TableTyped
  <2> QED
    BY <1>2, <1>4, <2>1, <2>2, <2>3, <2>4 DEF Grows, OneEntry
<1> QED
  BY <1>3, <1>4

LEMMA FailIsOne ==
  ASSUME OpenTimelinesAssumption, TimelinesInv, NEW id \in Ids, Fail(id)
  PROVE  /\ OneEntry /\ Grows
         /\ phase = "starting" => id \in failed'
<1>1. TableTyped /\ HandlesAreListed
  BY DEF TimelinesInv
<1>2. failures' = failures + 1 /\ failures' \in 0..MaxFailures
  BY <1>1 DEF Fail, TableTyped, OpenTimelinesAssumption
<1>3. TableTyped'
  BY <1>1, <1>2 DEF Fail, TableTyped
<1>4. HandlesAreListed'
  BY <1>1 DEF Fail, TableTyped, HandlesAreListed
<1> QED
  BY <1>3, <1>4 DEF Fail, Grows, OneEntry

LEMMA OpenAtIsOne ==
  ASSUME OpenTimelinesAssumption, TimelinesInv, NEW d \in Folders, OpenAt(d)
  PROVE  /\ OneEntry /\ Grows
         /\ phase = "starting" /\ disk[d] \in Ids =>
              d \in Dirs(open) \/ open'[disk[d]] # None \/ disk[d] \in failed'
<1> DEFINE at == AssessOpen(d)
<1>1. at # None => at \in Folders /\ disk[at] \in Ids
  BY DEF AssessOpen, OpenTimelinesAssumption
<1>2. disk[d] \in Ids => at = d /\ at # None
  BY DEF AssessOpen, OpenTimelinesAssumption
<1>3. CASE PathIsOpen(d) \/ at = None
  <2>1. UNCHANGED tableVars
    BY <1>3 DEF OpenAt
  <2> QED
    BY <1>2, <1>3, <2>1, UnchangedIsOne DEF PathIsOpen, Grows, tableVars
<1>4. CASE ~PathIsOpen(d) /\ at # None
  <2>1. Enter(disk[at], at) \/ Fail(disk[at])
    BY <1>4 DEF OpenAt
  <2> QED
    BY <1>1, <1>2, <1>4, <2>1, EnterIsOne, FailIsOne
<1> QED
  BY <1>3, <1>4

LEMMA CloseIsOne ==
  ASSUME OpenTimelinesAssumption, TimelinesInv, NEW id \in Ids, CloseId(id)
  PROVE  OneEntry
<1>1. TableTyped /\ HandlesAreListed
  BY DEF TimelinesInv
<1>2. /\ open[id] # None
      /\ open' = [open EXCEPT ![id] = None]
      /\ handles' = [handles EXCEPT ![id] = @ - 1]
      /\ sync' = "table" /\ entry' = id
      /\ UNCHANGED <<left, failed, failures>>
  BY DEF CloseId, Changed
<1>3. handles[id] = left[id] + 1
  BY <1>1, <1>2 DEF HandlesAreListed
<1>4. handles'[id] = left[id] /\ handles' \in [Ids -> Nat]
  BY <1>1, <1>2, <1>3 DEF TableTyped
<1>5. TableTyped'
  BY <1>1, <1>2, <1>4 DEF TableTyped
<1>6. HandlesAreListed'
  BY <1>1, <1>2, <1>4 DEF TableTyped, HandlesAreListed
<1>7. \A j \in Ids : j # id => open'[j] = open[j]
  BY <1>1, <1>2 DEF TableTyped
<1> QED
  BY <1>2, <1>5, <1>6, <1>7 DEF OneEntry

LEMMA PutType ==
  ASSUME OpenTimelinesAssumption, disk \in [Folders -> Holds], NEW d \in Folders, NEW h \in Holds
  PROVE  Put(d, h) \in [Folders -> Holds]
BY DEF Put, Holds

(* The configuration keeps up with a change of one entry.                   *)
LEMMA OneEntryAgrees ==
  ASSUME TimelinesInv, OneEntry, LockIsFree, phase # "down", writer # "start",
         UNCHANGED <<configVars, phase>>
  PROVE  /\ LockIsHeld' /\ WriterHasTorn' /\ MemoryIsComplete' /\ MemoryIsSaved'
         /\ DownIsClosed'
<1> USE DEF LockIsFree
<1>1. entry = None /\ Dirs(open) \subseteq ToSet(repos)
  BY DEF TimelinesInv, LockIsHeld, MemoryIsComplete
<1>2. WriterHasTorn'
  BY DEF TimelinesInv, WriterHasTorn, Serves, configVars
<1>3. CASE UNCHANGED <<open, sync, entry>>
  <2>1. LockIsHeld' /\ MemoryIsComplete' /\ MemoryIsSaved' /\ DownIsClosed'
    BY <1>3 DEF TimelinesInv, LockIsHeld, MemoryIsComplete, MemoryIsSaved, DownIsClosed,
                Settled, OpenIds, Dirs, configVars
  <2> QED
    BY <1>2, <2>1
<1>4. CASE /\ sync' = "table" /\ entry' \in Ids
           /\ \A id \in Ids : id # entry' => open'[id] = open[id]
  <2>1. Settled' \subseteq OpenIds(open) /\ \A id \in Settled' : open'[id] = open[id]
    BY <1>4 DEF Settled, OpenIds
  <2>2. \A id \in OpenIds(open) : open[id] \in Dirs(open)
    BY DEF Dirs
  <2>3. \A id \in Settled' : open'[id] \in ToSet(repos)
    BY <1>1, <2>1, <2>2
  <2>4. MemoryIsComplete'
    BY <1>4, <2>3 DEF MemoryIsComplete, configVars
  <2>5. MemoryIsSaved'
    <3> SUFFICES ASSUME writer = "none", ~unsaved
                 PROVE  saved # Torn /\ saved = repos
      BY <1>4, <2>3 DEF MemoryIsSaved, configVars
    <3> QED
      BY DEF TimelinesInv, MemoryIsSaved
  <2>6. LockIsHeld' /\ DownIsClosed'
    BY <1>4 DEF LockIsHeld, DownIsClosed
  <2> QED
    BY <1>2, <2>4, <2>5, <2>6
<1> QED
  BY <1>3, <1>4 DEF OneEntry

-----------------------------------------------------------------------------
(* One lemma per action.                                                    *)

(* A step of a request: it may change the folders, and what is stale.       *)
LEMMA RequestStep ==
  ASSUME TimelinesInv, OneEntry, LockIsFree, phase \in {"serving", "stopping"},
         disk' \in [Folders -> Holds], used' \subseteq Ids, stale' \subseteq Ids,
         UNCHANGED <<configVars, phase, last, i, moves, starts>>
  PROVE  TimelinesInv'
<1>1. writer # "start"
  BY DEF TimelinesInv, WriterHasTorn, StartIsThrough
<1>2. TableTyped' /\ ConfigTyped' /\ ServerTyped' /\ HandlesAreListed'
  BY DEF TimelinesInv, OneEntry, ConfigTyped, ServerTyped, configVars
<1>3. LockIsHeld' /\ WriterHasTorn' /\ MemoryIsComplete' /\ MemoryIsSaved' /\ DownIsClosed'
  BY <1>1, OneEntryAgrees
<1>4. NothingIsStale' /\ Reopened'
  BY DEF NothingIsStale, Reopened
<1> QED
  BY <1>2, <1>3, <1>4 DEF TimelinesInv

LEMMA OpenPreserves ==
  ASSUME OpenTimelinesAssumption, TimelinesInv, NEW d \in Folders, Open(d)
  PROVE  TimelinesInv'
<1>1. OneEntry
  BY OpenAtIsOne DEF Open
<1> QED
  BY <1>1, RequestStep DEF Open, Serves, TimelinesInv, ServerTyped, serverVars

LEMMA CreatePreserves ==
  ASSUME OpenTimelinesAssumption, TimelinesInv, NEW d \in Folders, Create(d)
  PROVE  TimelinesInv'
<1> DEFINE at == AssessCreate(d)
<1>1. at \in Folders
  BY DEF Create, CreateAt, AssessCreate, OpenTimelinesAssumption
<1>2. OneEntry
  <2>1. CASE \E id \in Ids \ used : Enter(id, at)
    BY <1>1, <2>1, EnterIsOne
  <2>2. CASE /\ failures < MaxFailures /\ failures' = failures + 1
             /\ UNCHANGED <<open, handles, left, sync, entry, failed>>
    <3>1. failures' \in 0..MaxFailures
      BY <2>2 DEF TimelinesInv, TableTyped, OpenTimelinesAssumption
    <3>2. TableTyped'
      BY <2>2, <3>1 DEF TimelinesInv, TableTyped
    <3> QED
      BY <2>2, <3>2 DEF TimelinesInv, HandlesAreListed, OneEntry
  <2> QED
    BY <2>1, <2>2 DEF Create, CreateAt
<1>3. disk' \in [Folders -> Holds]
  <2>1. \E h \in Holds : disk' = Put(at, h)
    BY DEF Create, CreateAt, Holds
  <2> QED
    BY <1>1, <2>1, PutType DEF TimelinesInv, ServerTyped
<1>4. used' \subseteq Ids /\ stale' \subseteq Ids
  BY DEF Create, CreateAt, TimelinesInv, ServerTyped, serverVars
<1> QED
  BY <1>2, <1>3, <1>4, RequestStep DEF Create, Serves, serverVars

LEMMA ClosePreserves ==
  ASSUME OpenTimelinesAssumption, TimelinesInv, NEW id \in Ids, Close(id)
  PROVE  TimelinesInv'
<1>1. OneEntry
  BY CloseIsOne DEF Close
<1> QED
  BY <1>1, RequestStep DEF Close, Serves, TimelinesInv, ServerTyped, serverVars

LEMMA CloseStalePreserves ==
  ASSUME OpenTimelinesAssumption, TimelinesInv, NEW id \in Ids, CloseStale(id)
  PROVE  TimelinesInv'
<1>1. phase \in {"serving", "stopping"}
  BY DEF CloseStale, TimelinesInv, ServerTyped, NothingIsStale
<1>2. OneEntry
  BY CloseIsOne, UnchangedIsOne DEF CloseStale
<1> QED
  BY <1>1, <1>2, RequestStep DEF CloseStale, TimelinesInv, ServerTyped

LEMMA ListPreserves ==
  ASSUME TimelinesInv, List
  PROVE  TimelinesInv'
<1>1. OneEntry
  BY UnchangedIsOne DEF List
<1>2. stale' \subseteq Ids
  BY DEF List, TimelinesInv, ServerTyped, OpenIds
<1> QED
  BY <1>1, <1>2, RequestStep DEF List, Serves, TimelinesInv, ServerTyped

(* openRepos opens one more, and closes none.                               *)
LEMMA ReopenPreserves ==
  ASSUME OpenTimelinesAssumption, TimelinesInv, Reopen
  PROVE  TimelinesInv'
<1> DEFINE d == last[i + 1]
<1>1. /\ phase = "starting" /\ i < Len(last) /\ LockIsFree /\ OpenAt(d) /\ i' = i + 1
      /\ UNCHANGED <<disk, used, configVars, phase, last, stale, moves, starts>>
  BY DEF Reopen, Listed
<1>2. last \in Seq(Folders) /\ i \in 0..Len(last) /\ Len(last) \in Nat
  BY DEF TimelinesInv, ServerTyped
<1>3. d \in Folders
  BY <1>1, <1>2
<1>4. /\ OneEntry /\ Grows
      /\ disk[d] \in Ids => d \in Dirs(open) \/ open'[disk[d]] # None \/ disk[d] \in failed'
  BY <1>1, <1>3, OpenAtIsOne
<1>5. writer # "start"
  BY <1>1, <1>2 DEF TimelinesInv, WriterHasTorn, StartIsThrough, Listed
<1>6. LockIsHeld' /\ WriterHasTorn' /\ MemoryIsComplete' /\ MemoryIsSaved' /\ DownIsClosed'
  BY <1>1, <1>4, <1>5, OneEntryAgrees
<1>7. TableTyped' /\ ConfigTyped' /\ ServerTyped' /\ HandlesAreListed'
  BY <1>1, <1>2, <1>4 DEF TimelinesInv, OneEntry, ConfigTyped, ServerTyped, configVars
<1>8. NothingIsStale'
  BY <1>1 DEF TimelinesInv, NothingIsStale
<1>9. OpenIds(open) \subseteq OpenIds(open') /\ Dirs(open) \subseteq Dirs(open') /\ failed \subseteq failed'
  BY <1>4 DEF Grows, OpenIds, Dirs
<1>10. Reopened'
  <2> SUFFICES ASSUME NEW k \in 1..(i + 1), disk[last[k]] \in Ids
               PROVE  disk[last[k]] \in OpenIds(open') \cup failed' \/ last[k] \in Dirs(open')
    BY <1>1 DEF Reopened, OpenIds, Dirs
  <2>1. CASE k = i + 1
    BY <1>4, <1>9, <2>1 DEF OpenIds
  <2>2. CASE k # i + 1
    <3>1. k \in 1..i
      BY <1>2, <2>2
    <3> QED
      BY <1>1, <1>9, <3>1 DEF TimelinesInv, Reopened
  <2> QED
    BY <2>1, <2>2
<1> QED
  BY <1>6, <1>7, <1>8, <1>10 DEF TimelinesInv

(* The list follows the table.                                              *)
LEMMA SyncPreserves ==
  ASSUME OpenTimelinesAssumption, TimelinesInv, SyncOpenRepos
  PROVE  TimelinesInv'
<1>1. /\ sync = "table" /\ writer = "none" /\ repos' = Sorted(open)
      /\ UNCHANGED <<disk, used, open, handles, left, failed, failures, saved, writer, unsaved, serverVars>>
  BY DEF SyncOpenRepos
<1>2. repos' \in Lists /\ ToSet(repos') = Dirs(open)
  BY <1>1, SortedIsList DEF TimelinesInv
<1>3. \/ repos' = repos /\ sync' = "no" /\ entry' = None
      \/ sync' = "list" /\ entry' = entry
  BY DEF SyncOpenRepos, Release
<1>4. TableTyped' /\ ConfigTyped' /\ ServerTyped'
  BY <1>1, <1>2, <1>3 DEF TimelinesInv, TableTyped, ConfigTyped, ServerTyped, serverVars
<1>5. HandlesAreListed' /\ LockIsHeld' /\ WriterHasTorn' /\ NothingIsStale' /\ Reopened'
  BY <1>1, <1>3 DEF TimelinesInv, HandlesAreListed, LockIsHeld, WriterHasTorn, NothingIsStale,
                    Reopened, OpenIds, Dirs, serverVars
<1>6. MemoryIsComplete'
  BY <1>1, <1>2, <1>3 DEF MemoryIsComplete, Dirs, OpenIds
<1>7. DownIsClosed'
  BY <1>1, <1>3 DEF TimelinesInv, DownIsClosed, serverVars
<1>8. MemoryIsSaved'
  <2> SUFFICES ASSUME phase # "down", ~unsaved
               PROVE  /\ saved # Torn
                      /\ sync' # "list" => saved = repos'
                      /\ \A id \in Settled' : open[id] \in ToSet(saved)
    BY <1>1 DEF MemoryIsSaved, serverVars
  <2>1. saved # Torn /\ saved = repos /\ \A id \in Settled : open[id] \in ToSet(saved)
    BY <1>1 DEF TimelinesInv, MemoryIsSaved
  <2>2. CASE sync' = "list"
    BY <1>1, <1>3, <2>1, <2>2 DEF Settled, OpenIds
  <2>3. CASE sync' # "list"
    <3>1. repos' = repos
      BY <1>3, <2>3
    <3>2. \A id \in Settled' : open[id] \in Dirs(open)
      BY <1>1 DEF Settled, OpenIds, Dirs
    <3> QED
      BY <1>2, <2>1, <3>1, <3>2
  <2> QED
    BY <2>2, <2>3
<1> QED
  BY <1>4, <1>5, <1>6, <1>7, <1>8 DEF TimelinesInv

LEMMA TruncatePreserves ==
  ASSUME TimelinesInv, Truncate
  PROVE  TimelinesInv'
<1>1. /\ writer' # "none" /\ saved' = Torn
      /\ UNCHANGED <<disk, used, tableVars, repos, unsaved, serverVars>>
  BY DEF Truncate
<1>2. TableTyped' /\ ConfigTyped' /\ ServerTyped'
  BY <1>1 DEF Truncate, TimelinesInv, TableTyped, ConfigTyped, ServerTyped, tableVars, serverVars
<1>3. HandlesAreListed' /\ LockIsHeld' /\ MemoryIsComplete' /\ DownIsClosed' /\ NothingIsStale' /\ Reopened'
  BY <1>1 DEF TimelinesInv, HandlesAreListed, LockIsHeld, MemoryIsComplete, DownIsClosed,
              NothingIsStale, Reopened, Settled, OpenIds, Dirs, tableVars, serverVars
<1>4. phase # "down"
  BY DEF Truncate, TimelinesInv, DownIsClosed, Serves, StartIsThrough
<1>5. WriterHasTorn' /\ MemoryIsSaved'
  BY <1>1, <1>4 DEF Truncate, WriterHasTorn, MemoryIsSaved, StartIsThrough, LockIsFree, Listed, Serves,
                    tableVars, serverVars
<1> QED
  BY <1>2, <1>3, <1>5 DEF TimelinesInv

LEMMA EncodePreserves ==
  ASSUME OpenTimelinesAssumption, TimelinesInv, Encode
  PROVE  TimelinesInv'
<1>1. /\ writer # "none" /\ writer' = "none" /\ saved' = repos /\ unsaved' = FALSE
      /\ UNCHANGED <<disk, used, open, handles, left, failures, repos, last, i, stale, moves, starts>>
  BY DEF Encode
<1>2. \/ UNCHANGED <<sync, entry>>
      \/ writer = "sync" /\ sync = "list" /\ sync' = "no" /\ entry' = None
  BY DEF Encode, Release, TimelinesInv, WriterHasTorn
<1>3. \/ UNCHANGED <<phase, failed>>
      \/ phase = "starting" /\ phase' = "serving" /\ failed' = {}
  BY DEF Encode, TimelinesInv, WriterHasTorn, StartIsThrough
<1>4. TableTyped' /\ ConfigTyped' /\ ServerTyped'
  BY <1>1, <1>2, <1>3 DEF TimelinesInv, TableTyped, ConfigTyped, ServerTyped
<1>5. phase # "down" /\ phase' # "down"
  BY <1>1, <1>3 DEF TimelinesInv, WriterHasTorn
<1>6. HandlesAreListed' /\ LockIsHeld' /\ WriterHasTorn' /\ DownIsClosed' /\ NothingIsStale' /\ Reopened'
  BY <1>1, <1>2, <1>3, <1>5 DEF TimelinesInv, HandlesAreListed, LockIsHeld, WriterHasTorn, DownIsClosed,
              NothingIsStale, Reopened, OpenIds, Dirs
<1>7. MemoryIsComplete'
  BY <1>1, <1>2 DEF TimelinesInv, MemoryIsComplete, Settled, OpenIds, Dirs
<1>8. \A id \in Settled' : open'[id] \in ToSet(repos')
  BY <1>7 DEF MemoryIsComplete, Settled, OpenIds, Dirs
<1>9. saved' # Torn
  BY <1>1, TornIsNoList DEF TimelinesInv, ConfigTyped
<1>10. MemoryIsSaved'
  BY <1>1, <1>8, <1>9 DEF MemoryIsSaved
<1> QED
  BY <1>4, <1>6, <1>7, <1>10 DEF TimelinesInv

LEMMA SaveFailsPreserves ==
  ASSUME OpenTimelinesAssumption, TimelinesInv, SaveFails
  PROVE  TimelinesInv'
<1>1. /\ writer' = "none" /\ unsaved' = TRUE
      /\ failures' = failures + 1 /\ failures' \in 0..MaxFailures
      /\ UNCHANGED <<disk, used, open, handles, left, failed, repos, saved, serverVars>>
  BY DEF SaveFails, TimelinesInv, TableTyped, OpenTimelinesAssumption
<1>2. \/ UNCHANGED <<sync, entry>>
      \/ sync = "list" /\ sync' = "no" /\ entry' = None
  BY DEF SaveFails, Release, TimelinesInv, WriterHasTorn
<1>3. TableTyped' /\ ConfigTyped' /\ ServerTyped'
  BY <1>1, <1>2 DEF TimelinesInv, TableTyped, ConfigTyped, ServerTyped, serverVars
<1>4. phase # "down"
  BY DEF SaveFails, TimelinesInv, DownIsClosed, WriterHasTorn
<1>5. HandlesAreListed' /\ LockIsHeld' /\ WriterHasTorn' /\ DownIsClosed' /\ NothingIsStale' /\ Reopened'
  BY <1>1, <1>2, <1>4 DEF TimelinesInv, HandlesAreListed, LockIsHeld, WriterHasTorn, DownIsClosed,
              NothingIsStale, Reopened, OpenIds, Dirs, serverVars
<1>6. MemoryIsComplete' /\ MemoryIsSaved'
  BY <1>1, <1>2 DEF TimelinesInv, MemoryIsComplete, MemoryIsSaved, Settled, OpenIds, Dirs, serverVars
<1> QED
  BY <1>3, <1>5, <1>6 DEF TimelinesInv

LEMMA StartPreserves ==
  ASSUME OpenTimelinesAssumption, TimelinesInv, Start
  PROVE  TimelinesInv'
<1>1. saved \in Lists /\ saved \in Seq(Folders) /\ 0 \in 0..Len(saved)
  BY DEF Start, TimelinesInv, ConfigTyped, Lists
<1>2. starts' \in 0..MaxStarts
  BY DEF Start, TimelinesInv, ServerTyped, OpenTimelinesAssumption
<1>3. TableTyped' /\ ConfigTyped' /\ ServerTyped'
  BY <1>1, <1>2 DEF Start, TimelinesInv, TableTyped, ConfigTyped, ServerTyped, tableVars
<1>4. (\A id \in Ids : open[id] = None) /\ sync = "no" /\ ~unsaved /\ writer = "none" /\ stale = {}
  BY DEF Start, TimelinesInv, DownIsClosed, WriterHasTorn, NothingIsStale
<1>5. HandlesAreListed' /\ LockIsHeld' /\ WriterHasTorn' /\ DownIsClosed' /\ NothingIsStale'
  BY <1>4 DEF Start, TimelinesInv, HandlesAreListed, LockIsHeld, WriterHasTorn, DownIsClosed,
              NothingIsStale, tableVars
<1>6. MemoryIsComplete' /\ MemoryIsSaved'
  BY <1>4 DEF Start, MemoryIsComplete, MemoryIsSaved, Settled, OpenIds, Dirs, tableVars
<1>7. Reopened'
  BY DEF Start, Reopened
<1> QED
  BY <1>3, <1>5, <1>6, <1>7 DEF TimelinesInv

LEMMA StopPreserves ==
  ASSUME TimelinesInv, Stop
  PROVE  TimelinesInv'
<1>1. /\ phase = "serving" /\ LockIsFree /\ phase' = "stopping"
      /\ open' = [id \in Ids |-> None]
      /\ handles' = [id \in Ids |-> handles[id] - (IF open[id] # None THEN 1 ELSE 0)]
      /\ UNCHANGED <<configVars, disk, used, left, sync, entry, failed, failures, last, i, stale, moves, starts>>
  BY DEF Stop, ShutdownTimelines
<1>2. handles' = [id \in Ids |-> left[id]]
  BY <1>1 DEF TimelinesInv, TableTyped, HandlesAreListed
<1>3. TableTyped' /\ ConfigTyped' /\ ServerTyped'
  BY <1>1, <1>2 DEF TimelinesInv, TableTyped, ConfigTyped, ServerTyped, configVars
<1>4. HandlesAreListed' /\ LockIsHeld' /\ WriterHasTorn' /\ DownIsClosed' /\ NothingIsStale' /\ Reopened'
  BY <1>1, <1>2 DEF TimelinesInv, TableTyped, HandlesAreListed, LockIsHeld, WriterHasTorn, DownIsClosed,
        NothingIsStale, Reopened, Serves, StartIsThrough, configVars
<1>5. OpenIds(open') = {}
  BY <1>1 DEF OpenIds
<1>6. MemoryIsComplete' /\ MemoryIsSaved'
  BY <1>1, <1>5 DEF TimelinesInv, MemoryIsComplete, MemoryIsSaved, Settled, OpenIds, Dirs, configVars, LockIsFree
<1> QED
  BY <1>3, <1>4, <1>6 DEF TimelinesInv

LEMMA RestartPreserves ==
  ASSUME OpenTimelinesAssumption, TimelinesInv, Restart
  PROVE  TimelinesInv'
<1>1. repos \in Seq(Folders) /\ 0 \in 0..Len(repos)
  BY DEF TimelinesInv, ConfigTyped, Lists
<1>2. starts' \in 0..MaxStarts
  BY DEF Restart, TimelinesInv, ServerTyped, OpenTimelinesAssumption
<1>3. TableTyped' /\ ConfigTyped' /\ ServerTyped'
  BY <1>1, <1>2 DEF Restart, TimelinesInv, TableTyped, ConfigTyped, ServerTyped, tableVars, configVars
<1>4. HandlesAreListed' /\ LockIsHeld' /\ WriterHasTorn' /\ DownIsClosed' /\ NothingIsStale' /\ Reopened'
  BY DEF Restart, TimelinesInv, HandlesAreListed, LockIsHeld, WriterHasTorn, DownIsClosed,
         NothingIsStale, Reopened, tableVars, configVars
<1>5. MemoryIsComplete' /\ MemoryIsSaved'
  BY DEF Restart, TimelinesInv, MemoryIsComplete, MemoryIsSaved, Settled, OpenIds, Dirs, tableVars, configVars
<1> QED
  BY <1>3, <1>4, <1>5 DEF TimelinesInv

LEMMA ExitPreserves ==
  ASSUME OpenTimelinesAssumption, TimelinesInv, Exit
  PROVE  TimelinesInv'
<1>1. <<>> \in Lists /\ 0 \in 0..Len(<<>>)
  BY DEF Lists, IsInjective
<1>2. TableTyped'
  BY DEF Exit, Release, TimelinesInv, TableTyped
<1>3. ConfigTyped' /\ ServerTyped'
  BY <1>1 DEF Exit, TimelinesInv, ConfigTyped, ServerTyped, Lists
<1>4. HandlesAreListed' /\ LockIsHeld' /\ WriterHasTorn' /\ DownIsClosed' /\ NothingIsStale' /\ Reopened'
  BY DEF Exit, Release, HandlesAreListed, LockIsHeld, WriterHasTorn, DownIsClosed, NothingIsStale, Reopened
<1>5. MemoryIsComplete' /\ MemoryIsSaved'
  BY DEF Exit, Release, MemoryIsComplete, MemoryIsSaved, Dirs, OpenIds
<1> QED
  BY <1>2, <1>3, <1>4, <1>5 DEF TimelinesInv

LEMMA ChangePreserves ==
  ASSUME OpenTimelinesAssumption, TimelinesInv, NEW d \in Folders, Change(d)
  PROVE  TimelinesInv'
<1>1. disk' \in [Folders -> Holds]
  BY PutType DEF Change, TimelinesInv, ServerTyped, Holds
<1>2. moves' \in 0..MaxMoves
  BY DEF Change, TimelinesInv, ServerTyped, OpenTimelinesAssumption
<1>3. UNCHANGED <<tableVars, configVars, phase, last, i, stale>> /\ phase # "starting"
  BY DEF Change
<1>4. TableTyped' /\ ConfigTyped' /\ ServerTyped'
  BY <1>1, <1>2 DEF Change, TimelinesInv, TableTyped, ConfigTyped, ServerTyped, tableVars, configVars
<1>5. HandlesAreListed' /\ LockIsHeld' /\ WriterHasTorn' /\ DownIsClosed' /\ NothingIsStale' /\ Reopened'
  BY <1>3 DEF TimelinesInv, HandlesAreListed, LockIsHeld, WriterHasTorn, DownIsClosed, NothingIsStale,
              Reopened, StartIsThrough, Listed, LockIsFree, Serves, tableVars, configVars
<1>6. MemoryIsComplete' /\ MemoryIsSaved'
  BY <1>3 DEF TimelinesInv, MemoryIsComplete, MemoryIsSaved, Settled, OpenIds, Dirs, tableVars, configVars
<1> QED
  BY <1>4, <1>5, <1>6 DEF TimelinesInv

-----------------------------------------------------------------------------
(* The invariant, and what follows from it.                                 *)

LEMMA InitTimelines ==
  ASSUME OpenTimelinesAssumption, Init
  PROVE  TimelinesInv
<1>1. <<>> \in Lists /\ <<>> \in Seq(Folders) /\ 0 \in 0..Len(<<>>)
  BY DEF Lists, IsInjective
<1>2. TableTyped /\ ConfigTyped /\ ServerTyped
  <2>1. TableTyped
    BY DEF Init, TableTyped, OpenTimelinesAssumption
  <2>2. ConfigTyped
    BY <1>1 DEF Init, ConfigTyped
  <2>3. disk \in [Folders -> Holds] /\ used \subseteq Ids
    BY DEF Init, OpenTimelinesAssumption
  <2> QED
    BY <1>1, <2>1, <2>2, <2>3 DEF Init, ServerTyped, OpenTimelinesAssumption
<1>3. HandlesAreListed /\ LockIsHeld /\ WriterHasTorn /\ DownIsClosed /\ NothingIsStale /\ Reopened
  BY DEF Init, HandlesAreListed, LockIsHeld, WriterHasTorn, DownIsClosed, NothingIsStale, Reopened
<1>4. MemoryIsComplete /\ MemoryIsSaved
  BY DEF Init, MemoryIsComplete, MemoryIsSaved, Dirs, OpenIds
<1> QED
  BY <1>2, <1>3, <1>4 DEF TimelinesInv

LEMMA StutterPreserves ==
  ASSUME TimelinesInv, UNCHANGED vars
  PROVE  TimelinesInv'
<1> USE DEF vars, tableVars, configVars, serverVars
<1>1. TableTyped' /\ ConfigTyped' /\ ServerTyped'
  BY DEF TimelinesInv, TableTyped, ConfigTyped, ServerTyped
<1>2. HandlesAreListed' /\ LockIsHeld' /\ WriterHasTorn' /\ DownIsClosed' /\ NothingIsStale' /\ Reopened'
  BY DEF TimelinesInv, HandlesAreListed, LockIsHeld, WriterHasTorn, DownIsClosed, NothingIsStale,
         Reopened, StartIsThrough, Listed, LockIsFree, Serves, OpenIds, Dirs
<1>3. MemoryIsComplete' /\ MemoryIsSaved'
  BY DEF TimelinesInv, MemoryIsComplete, MemoryIsSaved, Settled, OpenIds, Dirs
<1> QED
  BY <1>1, <1>2, <1>3 DEF TimelinesInv

LEMMA NextTimelines ==
  ASSUME OpenTimelinesAssumption, TimelinesInv, [Next]_vars
  PROVE  TimelinesInv'
<1>1. CASE UNCHANGED vars
  BY <1>1, StutterPreserves
<1>2. ASSUME NEW d \in Folders, Open(d) \/ Create(d) \/ Change(d)
      PROVE  TimelinesInv'
  BY <1>2, OpenPreserves, CreatePreserves, ChangePreserves
<1>3. ASSUME NEW id \in Ids, Close(id) \/ CloseStale(id)
      PROVE  TimelinesInv'
  BY <1>3, ClosePreserves, CloseStalePreserves
<1>4. CASE List \/ SyncOpenRepos \/ Truncate \/ Encode \/ SaveFails
  BY <1>4, ListPreserves, SyncPreserves, TruncatePreserves, EncodePreserves, SaveFailsPreserves
<1>5. CASE Start \/ Reopen \/ Stop \/ Restart \/ Exit
  BY <1>5, StartPreserves, ReopenPreserves, StopPreserves, RestartPreserves, ExitPreserves
<1> QED
  BY <1>1, <1>2, <1>3, <1>4, <1>5 DEF Next

(* The inductive invariant.                                                 *)
LEMMA TimelinesAreInvariant ==
  ASSUME OpenTimelinesAssumption
  PROVE  Spec => []TimelinesInv
<1>1. Init => TimelinesInv
  BY InitTimelines
<1>2. TimelinesInv /\ [Next]_vars => TimelinesInv'
  BY NextTimelines
<1> QED
  BY <1>1, <1>2, PTL DEF Spec

(* Every timeline whose request is through is on the list.                  *)
LEMMA SettledIsListed ==
  ASSUME TimelinesInv, NEW id \in Settled
  PROVE  open[id] \in ToSet(repos)
BY DEF TimelinesInv, MemoryIsComplete, Settled, OpenIds, Dirs

(* What is open is in the configuration file, or is being written to it.    *)
LEMMA OpenIsSaved ==
  ASSUME TimelinesInv
  PROVE  OpenIsRemembered
BY SettledIsListed DEF TimelinesInv, MemoryIsSaved, OpenIsRemembered

(* Every state of the application has its type, for any folders, timelines, *)
(* failures and number of starts.                                           *)
THEOREM TimelinesAreTyped ==
  ASSUME OpenTimelinesAssumption
  PROVE  Spec => []TypeOK
<1>1. TimelinesInv => TypeOK
  <2> SUFFICES ASSUME TimelinesInv PROVE TypeOK
    OBVIOUS
  <2>1. left \in [Ids -> 0..MaxFailures]
    BY DEF TimelinesInv, TableTyped, OpenTimelinesAssumption
  <2>2. handles \in [Ids -> 0..MaxFailures + 1]
    <3>1. \A id \in Ids : handles[id] \in Nat /\ left[id] \in 0..MaxFailures
                         /\ (handles[id] = left[id] \/ handles[id] = left[id] + 1)
      BY <2>1 DEF TimelinesInv, TableTyped, HandlesAreListed
    <3>2. MaxFailures \in Nat
      BY DEF OpenTimelinesAssumption
    <3>3. \A id \in Ids : handles[id] \in 0..MaxFailures + 1
      BY <3>1, <3>2
    <3> QED
      BY <3>3 DEF TimelinesInv, TableTyped
  <2> QED
    BY <2>1, <2>2 DEF TimelinesInv, TableTyped, ConfigTyped, ServerTyped, Lists, TypeOK
<1> QED
  BY <1>1, TimelinesAreInvariant, PTL

(* A timeline that is listed has its databases open once however it was     *)
(* reached, and only a failure to resume jobs leaves others; unless a save  *)
(* has failed, the configuration file names every open timeline but the one *)
(* being entered, or is being written by a process that knows them; and a   *)
(* start opens every timeline that is where the file says, or fails to.     *)
THEOREM TimelinesAreKept ==
  ASSUME OpenTimelinesAssumption
  PROVE  Spec => []OpenTimelinesAreKept
<1>1. TimelinesInv => OpenTimelinesAreKept
  <2> SUFFICES ASSUME TimelinesInv PROVE OpenTimelinesAreKept
    OBVIOUS
  <2>1. HandlesAreListed /\ OpenIsRemembered
    BY OpenIsSaved DEF TimelinesInv
  <2>2. StartReopensAll
    <3> SUFFICES ASSUME phase = "starting", i >= Len(last), NEW k \in 1..Len(last), disk[last[k]] \in Ids
                 PROVE  disk[last[k]] \in OpenIds(open) \cup failed \/ last[k] \in Dirs(open)
      BY DEF StartReopensAll, StartIsThrough, Listed
    <3>1. last \in Seq(Folders) /\ i \in 0..Len(last)
      BY DEF TimelinesInv, ServerTyped
    <3>2. k \in 1..i
      BY <3>1
    <3> QED
      BY <3>2 DEF TimelinesInv, Reopened
  <2> QED
    BY <2>1, <2>2 DEF OpenTimelinesAreKept
<1> QED
  BY <1>1, TimelinesAreInvariant, PTL

(* Unless a save has failed, neither a start, a stop, a restart nor the end *)
(* of the process takes from the configuration file what was open; the file *)
(* is torn after it only if it was being written.                           *)
THEOREM PhasesForgetNothing ==
  ASSUME OpenTimelinesAssumption
  PROVE  Spec => [][ForgetsNothing]_vars
<1>1. TimelinesInv /\ [Next]_vars => [ForgetsNothing]_vars
  <2> SUFFICES ASSUME TimelinesInv, Next, phase' # phase, ~unsaved
               PROVE  IF saved' = Torn THEN writer # "none"
                      ELSE \A id \in Settled : open[id] \in ToSet(saved')
    BY DEF ForgetsNothing
  <2>1. \A id \in Settled : open[id] \in ToSet(repos)
    BY SettledIsListed
  <2>2. Start \/ Encode \/ Stop \/ Restart \/ Exit
    BY DEF Next, Open, Create, Change, Close, CloseStale, List, SyncOpenRepos, Truncate, SaveFails,
           Reopen, serverVars
  <2>3. CASE Encode
    <3>1. saved' = repos /\ writer # "none"
      BY <2>3 DEF Encode
    <3> QED
      BY <2>1, <3>1
  <2>4. CASE Start \/ Stop \/ Restart \/ Exit
    <3>1. saved' = saved
      BY <2>4 DEF Start, Stop, ShutdownTimelines, Restart, Exit, configVars
    <3>2. CASE phase = "down"
      <4>1. Settled = {} /\ saved # Torn
        BY <2>4, <3>2 DEF Start, Stop, Restart, Exit, TimelinesInv, DownIsClosed, Settled, OpenIds
      <4> QED
        BY <3>1, <4>1
    <3>3. CASE phase # "down" /\ writer = "none"
      BY <3>1, <3>3 DEF TimelinesInv, MemoryIsSaved
    <3>4. CASE phase # "down" /\ writer # "none"
      BY <3>1, <3>4 DEF TimelinesInv, WriterHasTorn
    <3> QED
      BY <3>2, <3>3, <3>4
  <2> QED
    BY <2>2, <2>3, <2>4
<1> QED
  BY <1>1, TimelinesAreInvariant, PTL DEF Spec
==============================================================================
