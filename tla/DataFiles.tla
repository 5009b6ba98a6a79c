------------------------------ MODULE DataFiles ------------------------------
(***************************************************************************)
(* The data files of items, from their download to their deletion.          *)
(*                                                                         *)
(* A batch of an import first downloads its files, all at once and outside  *)
(* of any transaction (pipeline.go phase1), then stores its items in one    *)
(* transaction (phase2), which deduplicates, renames and deletes files as   *)
(* it goes.  Files are not rolled back with it.  Meanwhile a user deletes   *)
(* items and the maintenance loop those that have expired: their files go   *)
(* after the transaction has been committed (timeline.go, maintenance.go).  *)
(*                                                                         *)
(* All names are in one directory; creating and removing directories is not *)
(* modelled.                                                                *)
(* Names differ by more than their case.                                    *)
(***************************************************************************)
EXTENDS Naturals, FiniteSets, Sequences, Bags

CONSTANTS
  Batches,   (* one batch of items per import job: sequences of items       *)
  Repeated,  (* jobs that may be run again once they are over (bound)       *)
  ItemInfo,  (* what each item is, see ItemType                             *)
  RowIds,    (* the row an item is found in, or stored in                   *)
  Bases,     (* file names items come with                                  *)
  Hashes,    (* contents of files                                           *)
  Suffixes,  (* random suffixes a name is tried with (bound)                *)
  Deleters,  (* who deletes items: a user, the maintenance loop             *)
  MaxFaults, (* how many things go wrong (bound)                            *)
  None

Jobs == DOMAIN Batches
Items == DOMAIN ItemInfo

(* update: whether the update preferences of its import prefer the incoming *)
(* data, and what else it comes with, such as its time; naming: the policy  *)
(* they make for its file name.  With neither, an existing item is skipped. *)
Policies == {"keep", "preferExisting", "preferIncoming", "overwrite"}
ItemType == [row: RowIds, hash: Hashes \cup {None}, base: Bases,
             named: BOOLEAN, update: BOOLEAN, naming: Policies]

(* base is canonicalItemDataFileName: the file name an item comes with, or  *)
(* one made of its ID or time.                                              *)
FileName(i) == IF ItemInfo[i].named THEN ItemInfo[i].base ELSE None

(* The name itself, and with "__" and random letters before the extension.  *)
Names == Bases \X (Suffixes \cup {""})

ASSUME FilesAssumption ==
  /\ ItemInfo \in [Items -> ItemType]
  /\ \A j \in Jobs : Batches[j] \in Seq(Items)
  /\ Repeated \subseteq Jobs
  /\ MaxFaults \in Nat
  /\ IsFiniteSet(RowIds)
  /\ None \notin RowIds \cup Bases \cup Names \cup Hashes \cup Jobs
  /\ "" \notin Suffixes \cup Bases
  /\ {"partial", "placeholder"} \cap Hashes = {}

(* An item is one occurrence, in one place of one batch: two items that are *)
(* alike are two members of Items.                                          *)
ASSUME BatchesAssumption ==
  \A j, k \in Jobs : \A m \in DOMAIN Batches[j], n \in DOMAIN Batches[k] :
    Batches[j][m] = Batches[k][n] => j = k /\ m = n

Contents == Hashes \cup {"partial", "placeholder"}
Row == [file: Names \cup {None}, hash: Hashes \cup {None},
        base: Bases \cup {None, ""}, erased: BOOLEAN]

VARIABLES
  disk,    (* the content of every file that exists                         *)
  rows,    (* the items table, as committed                                 *)
  writer,  (* the import whose transaction is open                          *)
  work,    (* the items table, as that transaction sees it                  *)
  next,    (* the item it stores next                                       *)
  touched, (* the files it has deleted or renamed                           *)
  item,    (* what became of each item of a batch                           *)
  purge,   (* how often each deleter has yet to delete a file, and has done *)
  faults,  (* how many things went wrong                                    *)
  torn,    (* history: names whose file went where no row knows of it       *)
  strays   (* history: names that were left behind without a row            *)

vars == <<disk, rows, writer, work, next, touched, item, purge, faults, torn,
          strays>>
txVars == <<writer, work, next, touched>>

Fault == faults < MaxFaults /\ faults' = faults + 1

-----------------------------------------------------------------------------
(* The file system.                                                        *)

Exists(d, n) == n \in DOMAIN d
With(d, n, c) == [m \in DOMAIN d \cup {n} |-> IF m = n THEN c ELSE d[m]]
Without(d, n) == [m \in DOMAIN d \ {n} |-> d[m]]
Renamed(d, old, new) ==         \* os.Rename replaces what is there
  IF Exists(d, old) /\ old # new THEN Without(With(d, new, d[old]), old) ELSE d

Present(t) == DOMAIN t
Users(t, n) == {r \in Present(t) : t[r].file = n}

(* openUniqueCanonicalItemDataFile: the name itself if it is free, or else  *)
(* with a suffix; none if it gives up.  A name that is free on disk but     *)
(* taken by a row is passed over (with the table t of the transaction),     *)
(* after its placeholder has been created.                                  *)
(* Mutant of Free: the file is created without O_EXCL.                      *)
FreeOrNot(d, base) == {n \in Names : n[1] = base}
Free(d, base) == {n \in Names : n[1] = base /\ ~Exists(d, n)}
Claimed(d, t, base) == {n \in Free(d, base) : Users(t, n) # {}}
Unique(d, t, base) ==
  LET free == Free(d, base) \ Claimed(d, t, base)
  IN IF <<base, "">> \in free THEN {<<base, "">>}
     ELSE IF free # {} THEN free ELSE {None}
Placeholders(d, t, base) ==
  IF <<base, "">> \in Claimed(d, t, base) THEN {<<base, "">>} ELSE {}

NoTable == [r \in {} |-> None]
NoPurge == [todo |-> EmptyBag, done |-> {}]

-----------------------------------------------------------------------------
(* Phase 1: the items of a batch are downloaded concurrently.               *)

Nothing == [pc |-> "idle", path |-> None, hash |-> None]

OpenFile(i) ==
  /\ item[i].pc = "idle"
  /\ \E n \in IF ItemInfo[i].hash = None THEN {None}
              ELSE Unique(disk, NoTable, ItemInfo[i].base) :
       /\ item' = [item EXCEPT ![i] =
                     [pc |-> IF n = None THEN "ready" ELSE "copying",
                      path |-> n, hash |-> None]]
       /\ disk' = IF n = None THEN disk ELSE With(disk, n, "partial")
  /\ UNCHANGED <<rows, txVars, purge, faults, torn, strays>>

FinishDownload(i) ==
  /\ item[i].pc = "copying"
  /\ item' = [item EXCEPT ![i].pc = "ready", ![i].hash = ItemInfo[i].hash]
  /\ disk' = IF Exists(disk, item[i].path)
             THEN With(disk, item[i].path, ItemInfo[i].hash) ELSE disk
  /\ UNCHANGED <<rows, txVars, purge, faults, torn, strays>>

(* io.Copy fails: downloadAndHashDataFile deletes the file, but the item    *)
(* keeps its name.                                                          *)
FailDownload(i) ==
  /\ Fault
  /\ item[i].pc = "copying"
  /\ item' = [item EXCEPT ![i].pc = "ready"]
  /\ disk' = Without(disk, item[i].path)
  /\ UNCHANGED <<rows, txVars, purge, torn, strays>>

(* Sync fails, and the file stays, which no row will have.                  *)
FailSync(i) ==
  /\ Fault
  /\ item[i].pc = "copying"
  /\ item' = [item EXCEPT ![i].pc = "ready"]
  /\ strays' = strays \cup {item[i].path}
  /\ UNCHANGED <<disk, rows, txVars, purge, torn>>

(* An empty file is deleted, and the item is one without a file.            *)
EmptyDownload(i) ==
  /\ Fault
  /\ item[i].pc = "copying"
  /\ item' = [item EXCEPT ![i].pc = "ready", ![i].path = None]
  /\ disk' = Without(disk, item[i].path)
  /\ UNCHANGED <<rows, txVars, purge, torn, strays>>

-----------------------------------------------------------------------------
(* Phase 2.  Storing an item takes it through several steps, each of which  *)
(* takes a state of the transaction to the next one.                        *)

BeginBatch(j) ==
  /\ writer = None
  /\ \A k \in DOMAIN Batches[j] : item[Batches[j][k]].pc = "ready"
  /\ Batches[j] # <<>>
  /\ writer' = j
  /\ work' = rows
  /\ next' = 1
  /\ touched' = {}
  /\ UNCHANGED <<disk, rows, item, purge, faults, torn, strays>>

(* The files, the table, the name of the incoming file and the one it       *)
(* should have had, and what is kept of the history.                        *)
State(i) == [d |-> disk, t |-> work, path |-> item[i].path,
             intended |-> ItemInfo[i].base, gone |-> touched,
             faults |-> faults, torn |-> torn, strays |-> strays]

Delete(s, n) == [s EXCEPT !.d = Without(@, n), !.gone = @ \cup {n}]

Moved(s, old, new) ==
  [s EXCEPT !.d = Renamed(@, old, new),
            !.torn = IF old \in @ THEN @ \cup {new} ELSE @]

(* deleteDataFileAndThumbnailIfUnreferenced.                               *)
(* Mutant: nobody asks who else has the file.                               *)
DeleteAnyway(s, n) == Delete(s, n)
DeleteIfUnreferenced(s, n) == IF Users(s.t, n) = {} THEN Delete(s, n) ELSE s

(* renameDataFile: all rows with the file get the new name.                 *)
Repoint(t, old, new) ==
  [r \in Present(t) |-> IF t[r].file = old THEN [t[r] EXCEPT !.file = new]
                        ELSE t[r]]
RenameFile(s, old, base) ==
  { LET holders == Placeholders(s.d, s.t, base)
        d == [m \in DOMAIN s.d \cup holders |->
                IF m \in holders THEN "placeholder" ELSE s.d[m]]
        left == [s EXCEPT !.d = d, !.strays = @ \cup holders]
    IN IF new = None THEN [s |-> left, name |-> old, ok |-> FALSE]
       ELSE IF ~Exists(d, old)       \* os.Rename fails
       THEN [s |-> [left EXCEPT !.d = With(@, new, "placeholder"),
                                !.strays = @ \cup {new}],
             name |-> old, ok |-> FALSE]
       ELSE [s |-> [Moved(left, old, new) EXCEPT !.t = Repoint(@, old, new),
                                                 !.gone = @ \cup {old}],
             name |-> new, ok |-> TRUE]
    : new \in Unique(s.d, s.t, base) }

(* handleDuplicateItemDataFile: the states in which the item uses the file  *)
(* of another row with the same hash.                                       *)
(* Mutant of Duplicates: files of the same name are taken for equal.        *)
DuplicatesByName(i, s) ==
  {r \in Present(s.t) : /\ s.t[r].base = FileName(i)
                        /\ s.t[r].file \notin {None, s.path}}
Duplicates(i, s) == {r \in Present(s.t) : /\ s.t[r].hash = item[i].hash
                                          /\ s.t[r].file \notin {None, s.path}}
Adopted(i, s, f) ==
  IF s.d[f] = item[i].hash
  THEN [Delete(s, s.path) EXCEPT !.path = f]
  ELSE [Moved(s, s.path, f) EXCEPT !.path = f]

UpdatesFile(i, r, s) ==
  ItemInfo[i].update /\ s.path # None /\ r.hash # item[i].hash
(* shouldProcessExistingItem strikes a policy out that would change nothing.*)
UpdatesBase(i, r) ==
  /\ ItemInfo[i].naming # "keep"
  /\ IF ItemInfo[i].named THEN r.base # FileName(i)
     ELSE ItemInfo[i].naming = "overwrite" /\ r.base \notin {None, ""}

(* New file name information: the file in the database is renamed, and the  *)
(* name of the row is the item's from here on, even if it has none.  The    *)
(* same happens to a row without a name if the item updates its time.       *)
ExistingRenamed(i, s) ==
  LET r == s.t[ItemInfo[i].row]
      given == IF ItemInfo[i].named THEN FileName(i) ELSE ""
      kept == [s |-> s, name |-> r.base]
      renamed == {[s |-> x.s, name |-> IF x.ok THEN given ELSE r.base] :
                    x \in RenameFile(s, r.file, ItemInfo[i].base)}
      retimes == r.base = None /\ ItemInfo[i].update
  IN IF r.file = None THEN {kept}
     ELSE IF UpdatesBase(i, r) \/ (r.base = None /\ ItemInfo[i].named) THEN renamed
     ELSE IF retimes THEN {kept} \cup renamed
     ELSE {kept}

(* A file of an item without a name is renamed after the row, for which an  *)
(* empty name is one as well: canonicalItemDataFileName makes one up.       *)
IncomingRenamed(i, x) ==
  LET base == IF x.name = "" THEN ItemInfo[i].base ELSE x.name
  IN IF x.name # None /\ ~ItemInfo[i].named /\ x.s.path # None
     THEN {[s |-> [y.s EXCEPT !.path = y.name, !.intended = base], name |-> x.name] :
             y \in RenameFile(x.s, x.s.path, base)}
     ELSE {x}

(* fillItemRow and insertOrUpdateItem; a policy that prefers what exists    *)
(* renames the file all the same.                                           *)
BaseOf(i, r, name) ==
  IF ~UpdatesBase(i, r) \/ (ItemInfo[i].naming = "preferExisting" /\ r.base # None) THEN r.base
  ELSE IF ItemInfo[i].named THEN FileName(i) ELSE name

Filled(i, s, name) ==
  LET id == ItemInfo[i].row
      hash == IF s.path = None THEN None ELSE item[i].hash
      r == s.t[id]
      row == IF id \notin Present(s.t)
             THEN [file |-> s.path, hash |-> hash, base |-> FileName(i),
                   erased |-> FALSE]
             ELSE [file |-> IF UpdatesFile(i, r, s) THEN s.path ELSE r.file,
                   hash |-> IF UpdatesFile(i, r, s) THEN hash ELSE r.hash,
                   base |-> BaseOf(i, r, name),
                   erased |-> r.erased]
  IN [s EXCEPT !.t = With(@, id, row)]

(* Clean-up: the incoming file was not used, or the old one is not any more.*)
Unused(s) == IF s.path # None /\ Users(s.t, s.path) = {}
             THEN Delete(s, s.path) ELSE s
(* Mutant of Replaced: the old file is left where it is.                    *)
NotReplaced(s, old) == s
Replaced(s, old) ==
  IF s.path # None /\ old \notin {None, s.path}
  THEN DeleteIfUnreferenced(s, old) ELSE s

(* The name the item should have had may be free now.                       *)
(* Mutant of Restored: it is taken without asking.                          *)
RestoredOver(i, s, old) ==
  LET want == <<s.intended, "">>
  IN IF s.path \in {None, want} \/ old \in {None, s.path} \/ ~Exists(s.d, s.path)
     THEN s
     ELSE [Moved(s, s.path, want) EXCEPT !.t = Repoint(@, s.path, want),
                                         !.gone = @ \cup {s.path}]
Restored(i, s, old) ==
  LET want == <<s.intended, "">>
  IN IF \/ s.path = None
        \/ old \in {None, s.path}
        \/ s.path = want
        \/ Exists(s.d, want)
     THEN s
     ELSE IF Exists(s.d, s.path)
     THEN [Moved(s, s.path, want) EXCEPT !.t = Repoint(@, s.path, want),
                                         !.gone = @ \cup {s.path}]
     ELSE [s EXCEPT !.d = With(@, want, "placeholder"),
                    !.strays = @ \cup {want}]

OldFile(s, id) == IF id \in Present(s.t) THEN s.t[id].file ELSE None

Renamings(i, s) ==
  IF ItemInfo[i].row \notin Present(s.t) THEN {[s |-> s, name |-> None]}
  ELSE UNION { IncomingRenamed(i, x) : x \in ExistingRenamed(i, s) }

(* storeItem for a new item, or one that is to be updated.                  *)
Stored(i, s, name) ==
  LET old == OldFile(s, ItemInfo[i].row)
  IN Restored(i, Replaced(Unused(Filled(i, s, name)), old), old)

(* An item that was erased, or that no preference wants updated, is skipped *)
(* and its file, unless it is one of a row, stays behind.  An item may also *)
(* be updated for what is not modelled.                                     *)
Updates(i, r, s) == UpdatesFile(i, r, s) \/ UpdatesBase(i, r)
MaySkip(i, s) ==
  LET id == ItemInfo[i].row
  IN id \in Present(s.t) /\ (s.t[id].erased \/ ~Updates(i, s.t[id], s))
MayStore(i, s) ==
  LET id == ItemInfo[i].row
  IN id \in Present(s.t) =>
       ~s.t[id].erased /\ (ItemInfo[i].update \/ Updates(i, s.t[id], s))

StrayIfUnused(s, n) == IF n # None /\ Users(s.t, n) = {}
                       THEN [s EXCEPT !.strays = @ \cup {n}] ELSE s
LeftBehind(s) == StrayIfUnused(s, s.path)

(* An error after the look for duplicates: the deferred function deletes    *)
(* the file, which by now may be the one of another row,                    *)
Refused(s) ==
  IF s.path = None THEN [s EXCEPT !.faults = @ + 1]
  ELSE [Delete(s, s.path) EXCEPT
          !.faults = @ + 1,
          !.torn = IF Users(s.t, s.path) # {} THEN @ \cup {s.path} ELSE @]

(* or, when it comes after the row has been written, that of its own; then  *)
(* nobody cleans up.  The transaction goes on either way.                   *)
RefusedLate(i, s, name) ==
  Refused(StrayIfUnused(Filled(i, s, name), OldFile(s, ItemInfo[i].row)))

(* The deferred function does not see an error of distillUpdatePolicies.    *)
Undecided(s) == [LeftBehind(s) EXCEPT !.faults = @ + 1]

Errors(i, s, renamed) ==
  {Refused(s)} \cup {Refused(x.s) : x \in renamed}
    \cup {RefusedLate(i, x.s, x.name) : x \in renamed}
    \cup (IF ItemInfo[i].row \in Present(s.t) THEN {Undecided(s)} ELSE {})

Settled(i, s) ==
  LET renamed == IF MayStore(i, s) THEN Renamings(i, s) ELSE {}
  IN (IF MaySkip(i, s) THEN {LeftBehind(s)} ELSE {})
     \cup {Stored(i, x.s, x.name) : x \in renamed}
     \cup (IF s.faults < MaxFaults THEN Errors(i, s, renamed) ELSE {})

(* processItem: a download that failed, or a file another row has that      *)
(* cannot be opened, fails the item before it is stored.                    *)
Outcomes(i, s) ==
  IF s.path = None THEN Settled(i, s)
  ELSE IF item[i].hash = None THEN {s}
  ELSE IF Duplicates(i, s) = {} THEN Settled(i, s)
  ELSE UNION { LET f == s.t[r].file
               IN IF Exists(s.d, f) THEN Settled(i, Adopted(i, s, f))
                  ELSE {LeftBehind(s)}
               : r \in Duplicates(i, s) }

StoreItem ==
  /\ writer # None
  /\ next \in DOMAIN Batches[writer]
  /\ LET i == Batches[writer][next]
     IN /\ \E s \in Outcomes(i, State(i)) :
             /\ disk' = s.d
             /\ work' = s.t
             /\ touched' = s.gone
             /\ faults' = s.faults
             /\ torn' = s.torn
             /\ strays' = s.strays
        /\ item' = [item EXCEPT ![i] = [Nothing EXCEPT !.pc = "done"]]
  /\ next' = next + 1
  /\ UNCHANGED <<rows, writer, purge>>

NoTx == /\ writer' = None
        /\ work' = NoTable
        /\ next' = 0
        /\ touched' = {}

CommitBatch ==
  /\ writer # None
  /\ next > Len(Batches[writer])
  /\ rows' = work
  /\ NoTx
  /\ UNCHANGED <<disk, item, purge, faults, torn, strays>>

(* "NOTE: if DB transaction fails, this rename does not get rolled back"    *)
(* (pipeline.go:1045); neither do the deletions.  Files that only the       *)
(* transaction knew of stay behind.                                         *)
UndoneFiles(t) == {n \in DOMAIN disk : Users(t, n) # {} /\ Users(rows, n) = {}}
RollbackBatch ==
  /\ Fault
  /\ writer # None
  /\ item' = [i \in Items |->
                IF \E k \in DOMAIN Batches[writer] : Batches[writer][k] = i
                THEN [Nothing EXCEPT !.pc = "done"] ELSE item[i]]
  /\ torn' = torn \cup touched
  /\ strays' = strays \cup UndoneFiles(work) \cup
       {item[Batches[writer][k]].path :
          k \in {m \in DOMAIN Batches[writer] :
                   item[Batches[writer][m]].path # None}}
  /\ NoTx
  /\ UNCHANGED <<disk, rows, purge>>

(* The program ends and starts again: transactions and downloads are gone.  *)
Stop ==
  /\ Fault
  /\ torn' = torn \cup touched
  /\ strays' = strays \cup UndoneFiles(work)
                 \cup {item[i].path : i \in {k \in Items : item[k].path # None}}
                 \cup UNION {BagToSet(purge[u].todo) : u \in Deleters}
  /\ item' = [i \in Items |-> [Nothing EXCEPT !.pc = "done"]]
  /\ purge' = [u \in Deleters |-> NoPurge]
  /\ NoTx
  /\ UNCHANGED <<disk, rows>>

-----------------------------------------------------------------------------
(* Deletion: rows first, files after the commit.                            *)

(* DeleteItems lists a file once for each row that is erased, maintenance   *)
(* (findExpiredDeletedItems) once.  Rows it leaves alone keep their files.  *)
Orphaned(S) ==
  {n \in Names : Users(rows, n) # {} /\ Users(rows, n) \subseteq S}
Times(u, S) ==
  [n \in Orphaned(S) |-> IF u = "user" THEN Cardinality(Users(rows, n)) ELSE 1]
(* Mutant of Blank: the path is set to "" and not to NULL.                  *)
BlankPath == [file |-> "", hash |-> None, base |-> None, erased |-> TRUE]
Blank == [file |-> None, hash |-> None, base |-> None, erased |-> TRUE]

(* The rows of a request (with Retain = 0), or those that have expired.     *)
EraseRows(u) ==
  /\ writer = None
  /\ purge[u] = NoPurge
  /\ \E S \in SUBSET {r \in Present(rows) : ~rows[r].erased} :
       /\ S # {}
       /\ rows' = [r \in Present(rows) |-> IF r \in S THEN Blank ELSE rows[r]]
       /\ purge' = [purge EXCEPT ![u].todo = Times(u, S)]
  /\ UNCHANGED <<disk, txVars, item, faults, torn, strays>>

(* deleteRepoFiles, one file at a time.                                     *)
RemoveFile(u) ==
  \E n \in BagToSet(purge[u].todo) :
    LET left == purge[u].todo (-) SetToBag({n})
    IN /\ purge' = [purge EXCEPT
                      ![u] = IF left = EmptyBag THEN NoPurge
                             ELSE [todo |-> left, done |-> @.done \cup {n}]]
       /\ disk' = Without(disk, n)
       /\ torn' = IF n \in purge[u].done THEN torn \cup {n} ELSE torn
       /\ UNCHANGED <<rows, txVars, item, faults, strays>>

(* The items of an import that is over are imported again.                  *)
ImportAgain(j) ==
  /\ j \in Repeated
  /\ writer # j
  /\ Batches[j] # <<>>
  /\ \A k \in DOMAIN Batches[j] : item[Batches[j][k]].pc = "done"
  /\ item' = [i \in Items |->
                IF \E k \in DOMAIN Batches[j] : Batches[j][k] = i
                THEN Nothing ELSE item[i]]
  /\ UNCHANGED <<disk, rows, txVars, purge, faults, torn, strays>>

Init ==
  /\ disk = NoTable
  /\ rows = NoTable
  /\ writer = None
  /\ work = NoTable
  /\ next = 0
  /\ touched = {}
  /\ item = [i \in Items |-> Nothing]
  /\ purge = [u \in Deleters |-> NoPurge]
  /\ faults = 0
  /\ torn = {}
  /\ strays = {}

Download(i) ==
  OpenFile(i) \/ FinishDownload(i) \/ FailDownload(i) \/ FailSync(i) \/ EmptyDownload(i)

Next ==
  \/ \E i \in Items : Download(i)
  \/ \E j \in Jobs : BeginBatch(j) \/ ImportAgain(j)
  \/ StoreItem
  \/ CommitBatch
  \/ RollbackBatch
  \/ Stop
  \/ \E u \in Deleters : EraseRows(u) \/ RemoveFile(u)

Spec == Init /\ [][Next]_vars

-----------------------------------------------------------------------------
TypeOK ==
  /\ DOMAIN disk \subseteq Names
  /\ \A n \in DOMAIN disk : disk[n] \in Contents
  /\ \A t \in {rows, work} :
       /\ Present(t) \subseteq RowIds
       /\ \A r \in Present(t) : t[r] \in Row
  /\ writer \in Jobs \cup {None}
  /\ next \in Nat
  /\ touched \subseteq Names
  /\ item \in [Items -> [pc: {"idle", "copying", "ready", "done"},
                         path: Names \cup {None}, hash: Hashes \cup {None}]]
  /\ DOMAIN purge = Deleters
  /\ \A u \in Deleters :
       /\ IsABag(purge[u].todo)
       /\ BagToSet(purge[u].todo) \cup purge[u].done \subseteq Names
  /\ faults \in 0..MaxFaults
  /\ torn \subseteq Names
  /\ strays \subseteq Names

(* The database is the source of truth: the file of every row is on disk    *)
(* with the content it is known by, whatever imports and deletions run, but *)
(* for the names that the code is known to lose: the file of another row    *)
(* that a failed item deletes, what a transaction that is undone had moved  *)
(* or deleted, and what a request deletes for the second time.              *)
Truth == IF writer = None THEN rows ELSE work
RowsHaveTheirFiles ==
  \A r \in Present(Truth) :
    LET n == Truth[r].file
    IN n \notin {None} \cup torn => Exists(disk, n) /\ disk[n] = Truth[r].hash

(* Rows that share a file agree on its content (dedup, renames and updates  *)
(* of shared files are done for all of them).                               *)
SharedMeansEqual ==
  \A q, r \in Present(rows) :
    rows[q].file = rows[r].file /\ rows[q].file \notin torn
    => rows[q].hash = rows[r].hash

(* A file that was downloaded for an item that waits for its batch is there *)
(* when its turn comes.                                                     *)
DownloadsAreSafe ==
  \A i \in Items :
    LET n == item[i].path
    IN item[i].pc = "ready" /\ item[i].hash # None /\ n \notin {None} \cup torn
       => Exists(disk, n) /\ disk[n] = item[i].hash

(* Two items that are downloaded at a time do not share a file.             *)
OwnDownloads ==
  \A i, k \in Items :
    /\ i # k
    /\ \A x \in {i, k} : item[x].pc = "copying" \/ item[x].hash # None
    /\ item[i].path = item[k].path
    => item[i].path \in {None} \cup torn

(* No file is forgotten, but for those the code leaves behind: each is one  *)
(* of a row, of a download, or about to be deleted.                         *)
EveryFileIsAccountedFor ==
  \A n \in DOMAIN disk :
    \/ Users(rows, n) \cup Users(work, n) # {}
    \/ \E i \in Items : item[i].path = n
    \/ \E u \in Deleters : n \in BagToSet(purge[u].todo)
    \/ n \in torn \cup strays

(* Every row has its file, rows that share one hold the same, and every     *)
(* file belongs to a row or is accounted for (pipeline.go:801).             *)
FilesAreKept == RowsHaveTheirFiles /\ SharedMeansEqual /\ EveryFileIsAccountedFor

(* itemfiles.go:72: no download or renaming takes the file of another.      *)
DownloadsAreKept == DownloadsAreSafe /\ OwnDownloads

(* "If this function returns with an error, we can avoid an orphaned data   *)
(* file by deleting it" (pipeline.go:801): an item that is not stored takes *)
(* no file with it that a row has.                                          *)
FailedItemsSpareRows ==
  [][ StoreItem /\ work' = work =>
      \A r \in Present(work) :
        Exists(disk, work[r].file) => Exists(disk', work[r].file) ]_vars

=============================================================================
