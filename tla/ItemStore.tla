------------------------------ MODULE ItemStore ------------------------------
(***************************************************************************)
(* The table items: imports store items in it (pipeline.go storeItem,       *)
(* processing.go loadItemRow), users delete them (timeline.go DeleteItems), *)
(* the maintenance loop erases what was deleted long enough ago             *)
(* (maintenance.go), and an import that ends removes its empty rows         *)
(* (imports.go deleteEmptyItems).                                           *)
(*                                                                         *)
(* Each action is a transaction on the only write connection.  Rows are     *)
(* never reused: RowIds bounds how many there can be.                       *)
(***************************************************************************)
EXTENDS ItemPolicies

CONSTANTS
  RowIds,      (* row IDs (bound)                                          *)
  Items,       (* the items data sources may send                          *)
  Constraints  (* unique constraints of the imports: field -> strict NULLs *)

ASSUME StoreAssumption ==
  /\ Items \subseteq ItemType
  /\ DOMAIN Constraints \subseteq
       {"data_source_name", "data", "timestamp", "original_location"}
  /\ None \notin RowIds

(* A data source names an item by its own ID or sets a retrieval key for a  *)
(* piece of one (facebook/models.go:157, takeoutarchive.go:336,             *)
(* attachments.go:22); none does both.  The content is text or a file.      *)
ASSUME ItemsAssumption ==
  \A it \in Items : /\ it.id = None \/ it.key = None
                    /\ it.text = None \/ it.file = None

VARIABLES
  rows,   (* the rows that exist                                           *)
  used,   (* row IDs given out                                             *)
  ended,  (* imports that are over, or in their last step                  *)
  empty   (* what each ending import has found empty                       *)

vars == <<rows, used, ended, empty>>

Present == DOMAIN rows
NoData(r) == r.text = None /\ r.file = None

-----------------------------------------------------------------------------
(* loadItemRow with checkDeleted: the rows an item may be found in.         *)

(* eq: a missing value is compared with IS, so NULL is equal to NULL.       *)
ByKey(it, r) == it.key # None /\ r.key = it.key
ByID(j, it, r) == it.id # None /\ r.ds = DS[j] /\ r.id = it.id

(* Mutant of WasDeleted: only the ID is compared. *)
WasDeletedByID(j, it, r) == r.deleted # "no" /\ r.idHash = IdHash(j, it)

WasDeleted(j, it, r) ==
  r.deleted # "no" /\ (r.idHash = IdHash(j, it)
                       \/ r.contentHash = ContentHash(it))

Dropped(field, it) ==   \* soft NULLs: an unknown value constrains nothing
  /\ ~Constraints[field]
  /\ CASE field = "data_source_name" -> FALSE
       [] field = "data" -> ~HasData(it)
       [] field = "timestamp" -> it.time = 0
       [] field = "original_location" -> it.place = None

Agrees(field, j, it, r) ==
  CASE field = "data_source_name" -> r.ds = DS[j]
    [] field = "data" -> r.text = it.text /\ r.file = it.file
    [] field = "timestamp" -> r.time = it.time
    [] field = "original_location" -> r.place = it.place

Constrained(it) == {f \in DOMAIN Constraints : ~Dropped(f, it)}

(* Without any criterion the query is refused, or is not valid SQL.         *)
Findable(it) ==
  IF DOMAIN Constraints = {} THEN it.id # None \/ it.key # None
  ELSE Constrained(it) # {}

(* The two queries of the UNION ALL, of which LIMIT 1 takes the first row;  *)
(* which one that is within a query is SQLite's choice.                     *)
Direct(j, it) ==
  {i \in Present : \/ ByKey(it, rows[i])
                   \/ ByID(j, it, rows[i])
                   \/ WasDeleted(j, it, rows[i])}
Alike(j, it) ==
  IF DOMAIN Constraints = {} THEN {}
  ELSE {i \in Present : \A f \in Constrained(it) : Agrees(f, j, it, rows[i])}

(* Mutant of Found: what looks alike comes first. *)
FoundAlikeFirst(j, it) ==
  IF Alike(j, it) # {} THEN Alike(j, it) ELSE Direct(j, it)
Found(j, it) == IF Direct(j, it) # {} THEN Direct(j, it) ELSE Alike(j, it)

-----------------------------------------------------------------------------
(* Imports.                                                                *)

Working(j) == j \notin ended

InsertItem(j, it) ==
  /\ Working(j)
  /\ Findable(it)
  /\ Found(j, it) = {}
  /\ \E i \in RowIds \ used :
       /\ rows' = [k \in Present \cup {i} |->
                     IF k = i THEN Inserted(j, it) ELSE rows[k]]
       /\ used' = used \cup {i}
  /\ UNCHANGED <<ended, empty>>

UpdateItem(j, it) ==
  /\ Working(j)
  /\ Findable(it)
  /\ \E i \in Found(j, it) :
       rows' = [rows EXCEPT ![i] = Updated(j, it, rows[i])]
  /\ UNCHANGED <<used, ended, empty>>

(* deleteEmptyItems reads the rows to delete outside of a transaction.      *)

(* Mutant of EmptyRow: a row without text. *)
EmptyOfText(j, r) == r.job = j /\ r.text = None /\ r.key = None
EmptyRow(j, r) == r.job = j /\ NoData(r) /\ r.key = None

FindEmptyItems(j) ==
  /\ Working(j)
  /\ ended' = ended \cup {j}
  /\ empty' = [empty EXCEPT ![j] = {i \in Present : EmptyRow(j, rows[i])}]
  /\ UNCHANGED <<rows, used>>

(* deleteItemRows.                                                         *)
DeleteEmptyItems(j) ==
  /\ j \in ended
  /\ empty[j] # {}
  /\ rows' = [i \in Present \ empty[j] |-> rows[i]]
  /\ empty' = [empty EXCEPT ![j] = {}]
  /\ UNCHANGED <<used, ended>>

-----------------------------------------------------------------------------
(* Deletion.                                                               *)

(* deleteDataInItemRows: what is left is the ID of the row and its hashes.  *)

(* Mutant of Erased: the hash of the ID is emptied with the ID. *)
ErasedWithHash(r) ==
  [r EXCEPT !.ds = None, !.job = None, !.mod = None, !.id = None,
            !.text = None, !.file = None, !.type = None, !.place = None,
            !.time = 0, !.meta = NoMeta, !.deleted = "erased", !.idHash = None]
Erased(r) ==
  [r EXCEPT !.ds = None, !.job = None, !.mod = None, !.id = None,
            !.text = None, !.file = None, !.type = None, !.place = None,
            !.time = 0, !.meta = NoMeta, !.deleted = "erased"]

(* The statement that should clear both hashes (timeline.go:1056) assigns   *)
(* the value of "NULL AND initial_content_hash=NULL" to the first.          *)
Forgotten(r) == [r EXCEPT !.idHash = None]

(* The hashes are cleared only where the rows are visited one by one.       *)
DeleteItems(S, remember, retain) ==
  /\ S # {}
  /\ LET hashed(r) == IF ~remember /\ ~retain THEN Forgotten(r) ELSE r
         gone(r) == IF retain THEN [r EXCEPT !.deleted = "trash"] ELSE Erased(r)
     IN rows' = [i \in Present |-> IF i \in S THEN gone(hashed(rows[i]))
                                   ELSE rows[i]]
  /\ UNCHANGED <<used, ended, empty>>

(* deleteExpiredItems: the rows whose retention period is over, in one      *)
(* transaction.                                                             *)
DeleteExpiredItems(S) ==
  /\ S # {}
  /\ \A i \in S : rows[i].deleted = "trash"
  /\ rows' = [i \in Present |-> IF i \in S THEN Erased(rows[i]) ELSE rows[i]]
  /\ UNCHANGED <<used, ended, empty>>

-----------------------------------------------------------------------------
Init ==
  /\ rows = [i \in {} |-> None]
  /\ used = {}
  /\ ended = {}
  /\ empty = [j \in Jobs |-> {}]

Import(j, it) == InsertItem(j, it) \/ UpdateItem(j, it)

Next ==
  \/ \E j \in Jobs, it \in Items : InsertItem(j, it)
  \/ \E j \in Jobs, it \in Items : UpdateItem(j, it)
  \/ \E j \in Jobs : FindEmptyItems(j)
  \/ \E j \in Jobs : DeleteEmptyItems(j)
  \/ \E S \in SUBSET Present, remember, retain \in BOOLEAN :
       DeleteItems(S, remember, retain)
  \/ \E S \in SUBSET Present : DeleteExpiredItems(S)

Spec == Init /\ [][Next]_vars

-----------------------------------------------------------------------------
(* Properties.                                                             *)

(* Rows, row IDs and findings have their types.                             *)
TypeOK ==
  /\ Present \subseteq used
  /\ used \subseteq RowIds
  /\ rows \in [Present -> RowType]
  /\ ended \subseteq Jobs
  /\ empty \in [Jobs -> SUBSET RowIds]

(* An original ID names one item of its data source: no sequence of imports *)
(* of pieces, updates and deletions makes two rows carry it.  The table     *)
(* forbids it (schema.sql:201), so that an import would fail there.         *)
UniqueOriginalIds ==
  \A i, k \in Present :
    /\ rows[i].id # None
    /\ rows[i].ds = rows[k].ds
    /\ rows[i].id = rows[k].id
    => i = k

(* Nor do two rows carry one retrieval key (schema.sql:192).                *)
UniqueRetrievalKeys ==
  \A i, k \in Present : rows[i].key # None /\ rows[i].key = rows[k].key => i = k

(* An item that is found deleted by the hash of its ID or, if it has one,   *)
(* of its content gets no new row, whether the old one is in the trash or   *)
(* erased.                                                                  *)
Remembers(r, j, it) ==
  /\ r.deleted # "no"
  /\ \/ IdHash(j, it) # None /\ r.idHash = IdHash(j, it)
     \/ ContentHash(it) # None /\ r.contentHash = ContentHash(it)
RememberedIsNotImported ==
  [][used' # used =>
       \A j \in Jobs, it \in Items :
         InsertItem(j, it) => \A i \in Present : ~Remembers(rows[i], j, it)]_vars

(* These hashes are what "Keep the row hashes to remember the signature(s)  *)
(* of what was deleted" (maintenance.go:250) is about.  While its row is    *)
(* there, a hash that is set never changes, whatever is imported into the   *)
(* row, deleted or expired: only a deletion that is to forget clears the    *)
(* one of the ID.  A deleted row is not revived, gets no hash any more, and *)
(* no import touches it while it is in the trash.                           *)
Remembering ==
  \E S \in SUBSET Present :
    \/ DeleteExpiredItems(S)
    \/ \E retain \in BOOLEAN : DeleteItems(S, TRUE, retain)
FootprintsStay ==
  [][\A i \in Present \cap DOMAIN rows' :
       LET r == rows[i]
           s == rows'[i]
       IN /\ r.contentHash # None => s.contentHash = r.contentHash
          /\ s.idHash # r.idHash =>
               \/ r.idHash = None /\ r.deleted = "no"
               \/ s.idHash = None /\ s.deleted = "erased" /\ ~Remembering
          /\ r.deleted # "no" => s.deleted # "no" /\ s.contentHash = r.contentHash
          /\ r.deleted = "trash" /\ s.deleted = "trash" => s = r]_vars

(* And they are the right ones: what the deletion of a row will remember is *)
(* the ID it has, under its data source, although pieces of several imports *)
(* are merged into it; and a row that has content has a hash of some.       *)
FootprintsAreTheirOwn ==
  \A i \in Present : rows[i].deleted = "no" =>
    /\ rows[i].idHash = IF rows[i].id = None THEN None ELSE <<rows[i].ds, rows[i].id>>
    /\ ~NoData(rows[i]) => rows[i].contentHash # None

(* An import never empties a field, except the text of an item whose data   *)
(* is to be overwritten; and with a policy that prefers what is there,      *)
(* another import does not change the data either.                          *)
KnownStaysKnown ==
  \A i \in Present, j \in Jobs, it \in Items :
    LET old == rows[i]
        new == Updated(j, it, old)
        policy == DistillPolicies(j, it, old)["data"]
    IN /\ \A c \in {"place", "id", "file", "text", "contentHash"} :
            old[c] # None /\ new[c] = None
              => c = "text" /\ policy = "overwrite"
       /\ old.time # 0 => new.time # 0
       /\ policy = "preferExisting" /\ old.job # j =>
            \A c \in {"file", "text", "contentHash"} :
              old[c] # None => new[c] = old[c]

(* To import the same item again changes nothing any more, whatever state   *)
(* the row had got into.  It depends on the preferences: a priority by time *)
(* for the data may be decided otherwise once the time is updated, and the  *)
(* second time the data follows.                                            *)
ImportIsIdempotent ==
  \A i \in Present, j \in Jobs, it \in Items :
    LET once == Updated(j, it, rows[i])
    IN rows[i].job # None => Updated(j, it, once) = once

(* With a preference for the bigger (or smaller) file it does not matter in *)
(* which order two files of an item arrive.                                 *)
BySize(j) ==
  /\ "data" \in DOMAIN Preferences[j]
  /\ Preferences[j]["data"].priorities # <<>>
  /\ Preferences[j]["data"].priorities[1].property = "size"
OrderIsIrrelevant ==
  \A i \in Present : rows[i].text = None /\ rows[i].deleted = "no" =>
    \A j \in {k \in Jobs : BySize(k)} :
      \A y, z \in {it \in Items : it.file # None} :
        Length[y.file] < Length[z.file] =>
          Updated(j, z, Updated(j, y, rows[i])).file
            = Updated(j, y, Updated(j, z, rows[i])).file

(* An erased item holds nothing any more, for ever: no import fills it in   *)
(* and no deletion brings anything back.                                    *)
ErasedStaysEmpty ==
  \A i \in Present : rows[i].deleted = "erased" =>
    rows[i] = Erased(rows[i])

(* Rows disappear, with their hashes, only at the end of an import that has *)
(* found them empty.  Content goes with them just when another import has   *)
(* filled them in since: they were read outside of the transaction that     *)
(* deletes them (imports.go:488 against 527).                               *)
DiscardsOnlyEmpty ==
  [][\A i \in Present : i \notin DOMAIN rows' =>
       /\ \E j \in ended : i \in empty[j]
       /\ NoData(rows[i]) \/ rows[i].mod \notin {None, rows[i].job}]_vars

(* No statement of an import breaks a constraint of the table, and nothing  *)
(* is left in an erased row (processing.go:334, 844).                       *)
RowsAreSound ==
  TypeOK /\ UniqueOriginalIds /\ UniqueRetrievalKeys /\ ErasedStaysEmpty

(* What a user has deleted is remembered: its hashes are those of its ID    *)
(* and first content, stay as long as its row, and keep it from being       *)
(* imported again (processing.go:915-936, maintenance.go:240-270); and only *)
(* rows found empty disappear (imports.go:488).                             *)
DeletionsAreRemembered ==
  /\ RememberedIsNotImported
  /\ FootprintsStay
  /\ []FootprintsAreTheirOwn
  /\ DiscardsOnlyEmpty

=============================================================================
