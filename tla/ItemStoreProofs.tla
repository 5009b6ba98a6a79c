--------------------------- MODULE ItemStoreProofs ---------------------------
(***************************************************************************)
(* The table of items, for every value of the constants: any imports with   *)
(* any preferences, data sources and constraints, any items and any number  *)
(* of rows.                                                                 *)
(***************************************************************************)
EXTENDS ItemStore, WellFoundedInduction, TLAPS

-----------------------------------------------------------------------------
(* What an update makes of a row.                                          *)

(* A policy chooses between what is there and what comes in.                *)
LEMMA SetChooses ==
  ASSUME NEW policy, NEW allow \in BOOLEAN, NEW old, NEW new
  PROVE  /\ Set(policy, allow, old, new) \in {old, new}
         /\ policy # "overwrite" /\ old # None => Set(policy, allow, old, new) # None
         /\ old # None /\ new # None => Set(policy, allow, old, new) # None
         /\ policy \in {"keep", "preferExisting"} /\ old # None
              => Set(policy, allow, old, new) = old
  BY DEF Set, Coalesce

(* An update leaves a deleted row alone.                                    *)
LEMMA DeletedIsKept ==
  ASSUME NEW j, NEW it, NEW r, r.deleted # "no"
  PROVE  Updated(j, it, r) = r
<1>1. \A f \in Fields : UpdatesOf(j, it, r)[f] = "keep"
  BY DEF UpdatesOf
<1>2. ~Reprocess(UpdatesOf(j, it, r))
  BY <1>1 DEF Reprocess
<1> QED
  BY <1>2 DEF Updated

(* Fields of the updated row, for any row.                                  *)
UpdatedTime(j, it, r) ==
  Set(UpdatesOf(j, it, r)["timestamp"], HasData(it),
      IF r.time = 0 THEN None ELSE r.time,
      IF it.time # 0 THEN it.time ELSE IF r.time = 0 THEN None ELSE r.time)

LEMMA UpdatedFields ==
  ASSUME NEW j, NEW it, NEW r \in RowType, Reprocess(UpdatesOf(j, it, r))
  PROVE  LET u == Updated(j, it, r)
             upd == UpdatesOf(j, it, r)
         IN /\ u.ds = r.ds
            /\ u.job = r.job
            /\ u.mod = IF r.job \notin {None, j} THEN j ELSE r.mod
            /\ u.key = r.key
            /\ u.deleted = r.deleted
            /\ u.id = Set(upd["original_id"], HasData(it), r.id, Coalesce(it.id, r.id))
            /\ u.idHash = Set(upd["original_id"], HasData(it), r.idHash, IdHash(j, it))
            /\ u.text = Set(upd["data"], HasData(it), r.text, it.text)
            /\ u.file = Set(upd["data"], HasData(it), r.file, Coalesce(it.file, r.file))
            /\ u.type = Set(upd["data"], HasData(it), r.type,
                            Coalesce(MediaType(it), r.type))
            /\ u.contentHash = IF upd["data"] = "keep" THEN r.contentHash
                               ELSE Coalesce(r.contentHash, ContentHash(it))
            /\ u.place = Set(upd["original_location"], HasData(it), r.place,
                             Coalesce(it.place, r.place))
            /\ u.time = IF UpdatedTime(j, it, r) = None THEN 0 ELSE UpdatedTime(j, it, r)
            /\ u.meta = IF upd["metadata"] # "keep" /\ it.meta # NoMeta
                        THEN MergedMeta(upd["metadata"], it, r) ELSE r.meta
  BY DEF Updated, Marked, RowType, UpdatedTime

(* Rows stay rows.                                                         *)
LEMMA UpdatedType ==
  ASSUME NEW j \in Jobs, NEW it \in ItemType, NEW r \in RowType
  PROVE  Updated(j, it, r) \in RowType
<1>1. CASE ~Reprocess(UpdatesOf(j, it, r))
  BY <1>1 DEF Updated
<1>2. CASE Reprocess(UpdatesOf(j, it, r))
  <2> DEFINE upd == UpdatesOf(j, it, r)
             u == Updated(j, it, r)
  <2>1. HasData(it) \in BOOLEAN
    BY DEF HasData
  <2>2. /\ r.id \in Opt(Ids) /\ r.idHash \in Opt(DataSources \X Ids)
        /\ r.text \in Opt(Texts) /\ r.file \in Opt(Files) /\ r.type \in Opt(Types)
        /\ r.place \in Opt(Places) /\ r.time \in Times \cup {0} /\ r.meta \in Meta
        /\ r.contentHash \in Opt(ContentHashes)
        /\ r.ds \in Opt(DataSources) /\ r.job \in Opt(Jobs) /\ r.mod \in Opt(Jobs)
        /\ r.key \in Opt(Keys) /\ r.deleted \in {"no", "trash", "erased"}
    BY DEF RowType
  <2>3. /\ it.id \in Opt(Ids) /\ it.text \in Opt(Texts) /\ it.file \in Opt(Files)
        /\ it.place \in Opt(Places) /\ it.time \in Times \cup {0} /\ it.meta \in Meta
    BY DEF ItemType
  <2>4. IdHash(j, it) \in Opt(DataSources \X Ids)
    BY <2>3, PoliciesAssumption DEF IdHash, Opt
  <2>5. ContentHash(it) \in Opt(ContentHashes)
    BY <2>3, PoliciesAssumption DEF ContentHash, ContentHashes, HasData, Data, Opt
  <2>6. MediaType(it) \in Opt(Types)
    BY DEF MediaType, Types, Opt
  <2>7. MergedMeta(upd["metadata"], it, r) \in Meta
    BY <2>2, <2>3 DEF MergedMeta, Meta
  <2>8. \A S, x, y : x \in Opt(S) /\ y \in Opt(S) => Coalesce(x, y) \in Opt(S)
    BY DEF Coalesce
  <2>9. \A S, p, x, y : x \in Opt(S) /\ y \in Opt(S)
          => Set(p, HasData(it), x, y) \in Opt(S)
    BY <2>1, SetChooses
  <2>10. u.time \in Times \cup {0}
    <3>1. UpdatedTime(j, it, r) \in Opt(Times)
      BY <2>1, <2>2, <2>3, SetChooses DEF UpdatedTime, Opt
    <3> QED
      BY <1>2, <3>1, UpdatedFields DEF Opt
  <2>11. /\ u.id \in Opt(Ids) /\ u.idHash \in Opt(DataSources \X Ids)
         /\ u.text \in Opt(Texts) /\ u.file \in Opt(Files) /\ u.type \in Opt(Types)
         /\ u.place \in Opt(Places) /\ u.contentHash \in Opt(ContentHashes)
    BY <1>2, <2>2, <2>3, <2>4, <2>5, <2>6, <2>8, <2>9, UpdatedFields
  <2>12. /\ u.ds = r.ds /\ u.job = r.job /\ u.key = r.key /\ u.deleted = r.deleted
         /\ u.mod \in Opt(Jobs) /\ u.meta \in Meta
    BY <1>2, <2>2, <2>3, <2>7, UpdatedFields DEF Opt
  <2>13. u = [ds |-> u.ds, job |-> u.job, mod |-> u.mod, id |-> u.id, key |-> u.key,
              text |-> u.text, file |-> u.file, type |-> u.type, place |-> u.place,
              time |-> u.time, meta |-> u.meta, idHash |-> u.idHash,
              contentHash |-> u.contentHash, deleted |-> u.deleted]
    BY <1>2 DEF Updated, Marked, RowType
  <2>14. u.ds \in Opt(DataSources) /\ u.job \in Opt(Jobs) /\ u.key \in Opt(Keys)
         /\ u.deleted \in {"no", "trash", "erased"}
    BY <2>2, <2>12
  <2> HIDE DEF u
  <2>15. u \in RowType
    BY <2>10, <2>11, <2>12, <2>13, <2>14 DEF RowType
  <2> QED
    BY <2>15 DEF u
<1> QED
  BY <1>1, <1>2

(* Of the fields that say what a row is, only the ID may change, and only   *)
(* from unknown to the item's, unless the user's preferences name it.       *)
IdsAreAssigned == \A j \in Jobs : "original_id" \notin DOMAIN Preferences[j]

LEMMA UpdatedIdentity ==
  ASSUME NEW j \in Jobs, NEW it \in ItemType, NEW r \in RowType
  PROVE  LET u == Updated(j, it, r) IN
         /\ u.ds = r.ds /\ u.job = r.job /\ u.key = r.key /\ u.deleted = r.deleted
         /\ u # r => r.deleted = "no"
         /\ u # r /\ r.job \notin {None, j} => u.mod = j
         /\ u.mod # r.mod => r.job \notin {None, j} /\ u.mod = j
         /\ IdsAreAssigned /\ u.id # r.id =>
              r.id = None /\ r.job = j /\ u.id = it.id
<1>1. CASE ~Reprocess(UpdatesOf(j, it, r))
  BY <1>1 DEF Updated
<1>2. CASE Reprocess(UpdatesOf(j, it, r))
  <2>1. r.deleted = "no"
    BY <1>2, Zenon DEF Reprocess, UpdatesOf
  <2> DEFINE u == Updated(j, it, r)
             upd == UpdatesOf(j, it, r)
  <2>2. ASSUME IdsAreAssigned, u.id # r.id
        PROVE  r.id = None /\ r.job = j /\ u.id = it.id
    <3>1. DistillPolicies(j, it, r)["original_id"] = "keep"
      BY <2>2 DEF IdsAreAssigned, DistillPolicies, Fields
    <3>2. upd["original_id"] # "keep"
      BY <1>2, <2>2, UpdatedFields DEF Set
    <3>3. r.job = j /\ Lacks("original_id", it, r)
      BY <3>1, <3>2 DEF UpdatesOf, PiecewisePolicies, Fields
    <3>4. r.id = None /\ it.id # None
      BY <3>3 DEF Lacks
    <3>5. u.id = Set(upd["original_id"], HasData(it), r.id, Coalesce(it.id, r.id))
      BY <1>2, UpdatedFields
    <3>6. HasData(it) \in BOOLEAN
      BY DEF HasData
    <3> HIDE DEF u, upd
    <3>7. u.id \in {r.id, Coalesce(it.id, r.id)}
      BY <3>5, <3>6, SetChooses
    <3> QED
      BY <2>2, <3>3, <3>4, <3>7 DEF Coalesce
  <2>3. /\ u.ds = r.ds /\ u.job = r.job /\ u.key = r.key /\ u.deleted = r.deleted
        /\ u.mod = IF r.job \notin {None, j} THEN j ELSE r.mod
    BY <1>2, UpdatedFields
  <2> HIDE DEF u
  <2>4. /\ u # r => r.deleted = "no"
        /\ u # r /\ r.job \notin {None, j} => u.mod = j
        /\ u.mod # r.mod => r.job \notin {None, j} /\ u.mod = j
    BY <2>1, <2>3
  <2>5. IdsAreAssigned /\ u.id # r.id => r.id = None /\ r.job = j /\ u.id = it.id
    BY <2>2
  <2> QED
    BY <2>3, <2>4, <2>5 DEF u
<1> QED
  BY <1>1, <1>2

-----------------------------------------------------------------------------
(* What is known stays known.                                              *)

LEMMA DataPolicy ==
  ASSUME NEW j \in Jobs, NEW it \in ItemType, NEW r \in RowType
  PROVE  LET policy == DistillPolicies(j, it, r)["data"]
             upd == UpdatesOf(j, it, r)["data"]
         IN /\ upd = "overwrite" => policy = "overwrite"
            /\ policy = "preferExisting" /\ r.job # j => upd \in {"keep", "preferExisting"}
  BY DEF UpdatesOf, PiecewisePolicies, Fields

(* No field becomes unknown, but the text of data that is overwritten; and  *)
(* data of another import is kept if that is preferred.                     *)
LEMMA FieldsAreKept ==
  ASSUME NEW j \in Jobs, NEW it \in ItemType, NEW r \in RowType
  PROVE  LET u == Updated(j, it, r)
             policy == DistillPolicies(j, it, r)["data"]
         IN /\ r.place # None => u.place # None
            /\ r.id # None => u.id # None
            /\ r.file # None => u.file # None
            /\ r.contentHash # None => u.contentHash = r.contentHash
            /\ r.text # None /\ u.text = None => policy = "overwrite"
            /\ r.time # 0 => u.time # 0
            /\ policy = "preferExisting" /\ r.job # j =>
                 /\ r.file # None => u.file = r.file
                 /\ r.text # None => u.text = r.text
<1>1. CASE ~Reprocess(UpdatesOf(j, it, r))
  BY <1>1 DEF Updated
<1>2. CASE Reprocess(UpdatesOf(j, it, r))
  <2> DEFINE u == Updated(j, it, r)
             upd == UpdatesOf(j, it, r)
             allow == HasData(it)
  <2>1. allow \in BOOLEAN
    BY DEF HasData
  <2>2. /\ u.id = Set(upd["original_id"], allow, r.id, Coalesce(it.id, r.id))
        /\ u.text = Set(upd["data"], allow, r.text, it.text)
        /\ u.file = Set(upd["data"], allow, r.file, Coalesce(it.file, r.file))
        /\ u.contentHash = IF upd["data"] = "keep" THEN r.contentHash
                           ELSE Coalesce(r.contentHash, ContentHash(it))
        /\ u.place = Set(upd["original_location"], allow, r.place,
                         Coalesce(it.place, r.place))
    BY <1>2, UpdatedFields
  <2>3. u.time = IF UpdatedTime(j, it, r) = None THEN 0 ELSE UpdatedTime(j, it, r)
    BY <1>2, UpdatedFields
  <2>4. \A x, y : y # None => Coalesce(x, y) # None /\ Coalesce(y, x) = y
    BY DEF Coalesce
  <2>5. r.time # 0 => u.time # 0
    <3> SUFFICES ASSUME r.time # 0 PROVE u.time # 0
      OBVIOUS
    <3>1. r.time \in Times /\ it.time \in Times \cup {0}
      BY DEF RowType, ItemType
    <3>2. UpdatedTime(j, it, r) \in {r.time, IF it.time # 0 THEN it.time ELSE r.time}
      BY <2>1, SetChooses DEF UpdatedTime
    <3>3. UpdatedTime(j, it, r) \notin {0, None}
      BY <3>1, <3>2, PoliciesAssumption
    <3> QED
      BY <2>3, <3>3
  <2> DEFINE policy == DistillPolicies(j, it, r)["data"]
  <2>6. /\ upd["data"] = "overwrite" => policy = "overwrite"
        /\ policy = "preferExisting" /\ r.job # j => upd["data"] \in {"keep", "preferExisting"}
    BY DataPolicy
  <2> HIDE DEF u, upd, allow, policy
  <2>7. /\ r.place # None => u.place # None
        /\ r.id # None => u.id # None
        /\ r.file # None => u.file # None
    BY <2>1, <2>2, <2>4, SetChooses
  <2>8. r.contentHash # None => u.contentHash = r.contentHash
    BY <2>2, <2>4
  <2>9. r.text # None /\ u.text = None => policy = "overwrite"
    <3>1. r.text # None /\ upd["data"] # "overwrite"
            => Set(upd["data"], allow, r.text, it.text) # None
      BY <2>1, SetChooses
    <3> QED
      BY <2>2, <2>6, <3>1
  <2>10. policy = "preferExisting" /\ r.job # j =>
           /\ r.file # None => u.file = r.file
           /\ r.text # None => u.text = r.text
    BY <2>1, <2>2, <2>6, SetChooses
  <2> QED
    BY <2>5, <2>7, <2>8, <2>9, <2>10 DEF u, policy
<1> QED
  BY <1>1, <1>2

-----------------------------------------------------------------------------
(* Deletion.                                                               *)

(* A deletion leaves of a row all but its mark, or nothing but its hashes   *)
(* and its key.                                                             *)
Spares(r, s) ==
  /\ s.ds = r.ds /\ s.job = r.job /\ s.mod = r.mod /\ s.id = r.id
  /\ s.text = r.text /\ s.file = r.file
  /\ s = r \/ s.deleted = "trash"
Empties(s) ==
  /\ s.ds = None /\ s.job = None /\ s.id = None /\ NoData(s)
  /\ s.deleted = "erased" /\ s = Erased(s)
Leaves(r, s) == s \in RowType /\ s.key = r.key /\ (Spares(r, s) \/ Empties(s))

Trashed(r) == [r EXCEPT !.deleted = "trash"]

Husk(key, idHash, contentHash) ==
  [ds |-> None, job |-> None, mod |-> None, id |-> None, key |-> key,
   text |-> None, file |-> None, type |-> None, place |-> None,
   time |-> 0, meta |-> NoMeta, idHash |-> idHash,
   contentHash |-> contentHash, deleted |-> "erased"]

LEMMA ErasedIsHusk ==
  ASSUME NEW r \in RowType
  PROVE  Erased(r) = Husk(r.key, r.idHash, r.contentHash)
<1> SUFFICES ASSUME NEW s, s = Erased(r)
             PROVE  s = Husk(r.key, r.idHash, r.contentHash)
  OBVIOUS
<1>1. s = [ds |-> s.ds, job |-> s.job, mod |-> s.mod, id |-> s.id, key |-> s.key,
           text |-> s.text, file |-> s.file, type |-> s.type, place |-> s.place,
           time |-> s.time, meta |-> s.meta, idHash |-> s.idHash,
           contentHash |-> s.contentHash, deleted |-> s.deleted]
  BY DEF RowType, Erased
<1>2. /\ s.ds = None /\ s.job = None /\ s.mod = None /\ s.id = None /\ s.key = r.key
      /\ s.text = None /\ s.file = None /\ s.type = None /\ s.place = None
      /\ s.time = 0 /\ s.meta = NoMeta /\ s.idHash = r.idHash
      /\ s.contentHash = r.contentHash /\ s.deleted = "erased"
  BY DEF RowType, Erased
<1> QED
  BY <1>1, <1>2 DEF Husk

LEMMA ErasedEmpties ==
  ASSUME NEW r \in RowType
  PROVE  Erased(r) \in RowType /\ Erased(r).key = r.key /\ Empties(Erased(r))
<1> DEFINE s == Husk(r.key, r.idHash, r.contentHash)
<1>1. r.key \in Opt(Keys) /\ r.idHash \in Opt(DataSources \X Ids)
      /\ r.contentHash \in Opt(ContentHashes)
  BY DEF RowType
<1>2. NoMeta \in Meta
  BY DEF NoMeta, Meta, Opt
<1>3. s \in RowType
  BY <1>1, <1>2 DEF RowType, Opt, Husk
<1>4. /\ s.key = r.key /\ s.ds = None /\ s.job = None /\ s.id = None
      /\ s.text = None /\ s.file = None /\ s.deleted = "erased"
      /\ s.idHash = r.idHash /\ s.contentHash = r.contentHash
  BY DEF Husk
<1> HIDE DEF s
<1>5. Erased(s) = Husk(s.key, s.idHash, s.contentHash)
  BY <1>3, ErasedIsHusk
<1>6. s = Erased(s)
  BY <1>4, <1>5 DEF s
<1>7. Empties(s)
  BY <1>4, <1>6 DEF Empties, NoData
<1> QED
  BY <1>3, <1>4, <1>7, ErasedIsHusk DEF s

LEMMA ForgottenType ==
  ASSUME NEW r \in RowType
  PROVE  /\ Forgotten(r) \in RowType
         /\ Forgotten(r).key = r.key
  BY DEF RowType, Forgotten, Opt

LEMMA TrashedLeaves ==
  ASSUME NEW r \in RowType
  PROVE  Leaves(r, Trashed(r))
<1>1. Trashed(r) \in RowType
  BY DEF RowType, Trashed
<1> QED
  BY <1>1 DEF Leaves, Spares, Trashed, RowType

LEMMA SameLeaves ==
  ASSUME NEW r \in RowType
  PROVE  Leaves(r, r)
  BY DEF Leaves, Spares

(* No deletion brings a row back or fills one in.                           *)
LEMMA DeletionLeaves ==
  ASSUME TypeOK,
         \/ \E S \in SUBSET Present, remember, retain \in BOOLEAN :
              DeleteItems(S, remember, retain)
         \/ \E S \in SUBSET Present : DeleteExpiredItems(S)
  PROVE  /\ rows' \in [Present -> RowType] /\ Present' = Present
         /\ \A i \in Present : Leaves(rows[i], rows'[i])
         /\ UNCHANGED <<used, ended, empty>>
<1>1. \A i \in Present : rows[i] \in RowType
  BY DEF TypeOK
<1>2. CASE \E S \in SUBSET Present, remember, retain \in BOOLEAN :
             DeleteItems(S, remember, retain)
  <2>1. PICK S \in SUBSET Present, remember, retain \in BOOLEAN :
          DeleteItems(S, remember, retain)
    BY <1>2
  <2>2. /\ Present' = Present
        /\ \A i \in Present : rows'[i] \in
             {rows[i], Trashed(rows[i]), Erased(rows[i]), Erased(Forgotten(rows[i]))}
    BY <2>1 DEF DeleteItems, Trashed, Present
  <2>3. \A i \in Present : Leaves(rows[i], Erased(Forgotten(rows[i])))
    BY <1>1, ForgottenType, ErasedEmpties DEF Leaves
  <2>4. \A i \in Present : Leaves(rows[i], rows'[i])
    BY <1>1, <2>2, <2>3, ErasedEmpties, TrashedLeaves, SameLeaves DEF Leaves
  <2>5. rows' = [i \in Present |-> rows'[i]]
    BY <2>1 DEF DeleteItems
  <2>6. UNCHANGED <<used, ended, empty>>
    BY <2>1 DEF DeleteItems
  <2> QED
    BY <2>2, <2>4, <2>5, <2>6 DEF Leaves
<1>3. CASE \E S \in SUBSET Present : DeleteExpiredItems(S)
  <2>1. PICK S \in SUBSET Present : DeleteExpiredItems(S)
    BY <1>3
  <2>2. /\ Present' = Present
        /\ \A i \in Present : rows'[i] \in {rows[i], Erased(rows[i])}
    BY <2>1 DEF DeleteExpiredItems, Present
  <2>3. \A i \in Present : Leaves(rows[i], rows'[i])
    BY <1>1, <2>2, ErasedEmpties, SameLeaves DEF Leaves
  <2>4. rows' = [i \in Present |-> rows'[i]]
    BY <2>1 DEF DeleteExpiredItems
  <2>5. UNCHANGED <<used, ended, empty>>
    BY <2>1 DEF DeleteExpiredItems
  <2> QED
    BY <2>2, <2>3, <2>4, <2>5 DEF Leaves
<1> QED
  BY <1>2, <1>3

-----------------------------------------------------------------------------
(* The inductive invariant.                                                *)

(* A row belongs to an import and its data source until it is erased.       *)
RowsHaveJobs ==
  \A i \in Present :
    /\ rows[i].job # None => rows[i].ds = DS[rows[i].job]
    /\ rows[i].job = None => rows[i].deleted # "no" /\ NoData(rows[i])

(* What an ending import has found empty is its own and still empty, unless *)
(* another import has been there.                                           *)
FindingsAreEmpty ==
  \A j \in Jobs :
    /\ empty[j] \subseteq used
    /\ empty[j] # {} => j \in ended
    /\ \A i \in empty[j] \cap Present :
         /\ rows[i].job \in {None, j}
         /\ NoData(rows[i]) \/ rows[i].mod \notin {None, rows[i].job}

StoreInv ==
  /\ TypeOK
  /\ RowsHaveJobs
  /\ UniqueRetrievalKeys
  /\ ErasedStaysEmpty
  /\ FindingsAreEmpty

LEMMA StoreInit == Init => StoreInv
  BY DEF Init, StoreInv, TypeOK, RowsHaveJobs, UniqueRetrievalKeys,
         ErasedStaysEmpty, FindingsAreEmpty, Present

(* What an insertion adds.                                                 *)
LEMMA InsertedRow ==
  ASSUME NEW j \in Jobs, NEW it \in ItemType
  PROVE  LET r == Inserted(j, it) IN
         /\ r \in RowType
         /\ r.ds = DS[j] /\ r.job = j /\ r.id = it.id /\ r.key = it.key
         /\ r.deleted = "no"
<1>1. /\ DS[j] \in Opt(DataSources) /\ j \in Opt(Jobs) /\ None \in Opt(Jobs)
      /\ it.id \in Opt(Ids) /\ it.key \in Opt(Keys) /\ it.text \in Opt(Texts)
      /\ it.file \in Opt(Files) /\ it.place \in Opt(Places)
      /\ it.time \in Times \cup {0} /\ it.meta \in Meta
  BY PoliciesAssumption DEF ItemType, Opt
<1>2. IdHash(j, it) \in Opt(DataSources \X Ids)
  BY <1>1, PoliciesAssumption DEF IdHash, Opt
<1>3. ContentHash(it) \in Opt(ContentHashes)
  BY <1>1, PoliciesAssumption DEF ContentHash, ContentHashes, HasData, Data, Opt
<1>4. MediaType(it) \in Opt(Types)
  BY DEF MediaType, Types, Opt
<1>5. Inserted(j, it) \in RowType
  BY <1>1, <1>2, <1>3, <1>4 DEF Inserted, RowType
<1> QED
  BY <1>5 DEF Inserted

LEMMA InsertItemStep ==
  ASSUME NEW j \in Jobs, NEW it \in Items, TypeOK, InsertItem(j, it)
  PROVE  \E i \in RowIds \ used :
           /\ Present' = Present \cup {i}
           /\ i \notin Present
           /\ rows'[i] = Inserted(j, it)
           /\ \A k \in Present : rows'[k] = rows[k]
           /\ rows' \in [Present' -> RowType]
           /\ used' = used \cup {i}
           /\ UNCHANGED <<ended, empty>>
           /\ Direct(j, it) = {}
<1>1. it \in ItemType
  BY StoreAssumption
<1>2. PICK i \in RowIds \ used :
        /\ rows' = [k \in Present \cup {i} |->
                      IF k = i THEN Inserted(j, it) ELSE rows[k]]
        /\ used' = used \cup {i}
  BY DEF InsertItem
<1>3. Present' = Present \cup {i} /\ i \notin Present
  BY <1>2 DEF TypeOK, Present
<1>4. rows'[i] = Inserted(j, it) /\ \A k \in Present : rows'[k] = rows[k]
  BY <1>2, <1>3
<1>5. rows' \in [Present \cup {i} -> RowType]
  BY <1>1, <1>2, InsertedRow DEF TypeOK
<1>6. Direct(j, it) = {}
  BY DEF InsertItem, Found
<1>7. UNCHANGED <<ended, empty>>
  BY DEF InsertItem
<1> QED
  BY <1>2, <1>3, <1>4, <1>5, <1>6, <1>7

LEMMA UpdateItemStep ==
  ASSUME NEW j \in Jobs, NEW it \in Items, TypeOK, UpdateItem(j, it)
  PROVE  \E i \in Found(j, it) :
           /\ i \in Present
           /\ rows'[i] = Updated(j, it, rows[i])
           /\ \A k \in Present \ {i} : rows'[k] = rows[k]
           /\ rows' \in [Present -> RowType] /\ Present' = Present
           /\ j \notin ended
           /\ UNCHANGED <<used, ended, empty>>
<1>1. it \in ItemType
  BY StoreAssumption
<1>2. PICK i \in Found(j, it) : rows' = [rows EXCEPT ![i] = Updated(j, it, rows[i])]
  BY DEF UpdateItem
<1>3. i \in Present
  BY DEF Found, Direct, Alike
<1>4. Updated(j, it, rows[i]) \in RowType
  BY <1>1, <1>3, UpdatedType DEF TypeOK
<1>5. rows' \in [Present -> RowType] /\ Present' = Present
  BY <1>2, <1>3, <1>4 DEF TypeOK, Present
<1>6. rows'[i] = Updated(j, it, rows[i]) /\ \A k \in Present \ {i} : rows'[k] = rows[k]
  BY <1>2, <1>3 DEF TypeOK
<1>7. j \notin ended /\ UNCHANGED <<used, ended, empty>>
  BY DEF UpdateItem, Working
<1> QED
  BY <1>3, <1>5, <1>6, <1>7

LEMMA InsertKeeps ==
  ASSUME NEW j \in Jobs, NEW it \in Items, StoreInv, InsertItem(j, it)
  PROVE  StoreInv'
<1>1. it \in ItemType /\ TypeOK
  BY StoreAssumption DEF StoreInv
<1>2. PICK i \in RowIds \ used :
        /\ Present' = Present \cup {i}
        /\ i \notin Present
        /\ rows'[i] = Inserted(j, it)
        /\ \A k \in Present : rows'[k] = rows[k]
        /\ rows' \in [Present' -> RowType]
        /\ used' = used \cup {i}
        /\ UNCHANGED <<ended, empty>>
        /\ Direct(j, it) = {}
  BY <1>1, InsertItemStep
<1>3. /\ rows'[i] \in RowType
      /\ rows'[i].ds = DS[j] /\ rows'[i].job = j /\ rows'[i].id = it.id
      /\ rows'[i].key = it.key /\ rows'[i].deleted = "no"
  BY <1>1, <1>2, InsertedRow
<1>4. TypeOK'
  BY <1>1, <1>2 DEF TypeOK
<1>5. RowsHaveJobs'
  <2>1. \A k \in Present : rows'[k] = rows[k]
    BY <1>2
  <2> QED
    BY <1>2, <1>3, <2>1, PoliciesAssumption DEF RowsHaveJobs, StoreInv, NoData
<1>6. UniqueRetrievalKeys'
  <2>1. \A k \in Present : it.key # None => rows[k].key # it.key
    BY <1>2 DEF Direct, ByKey
  <2> QED
    BY <1>2, <1>3, <2>1 DEF UniqueRetrievalKeys, StoreInv
<1>7. ErasedStaysEmpty'
  BY <1>2, <1>3 DEF ErasedStaysEmpty, StoreInv
<1>8. FindingsAreEmpty'
  BY <1>2 DEF FindingsAreEmpty, StoreInv, NoData
<1> QED
  BY <1>4, <1>5, <1>6, <1>7, <1>8 DEF StoreInv

LEMMA UpdateKeeps ==
  ASSUME NEW j \in Jobs, NEW it \in Items, StoreInv, UpdateItem(j, it)
  PROVE  StoreInv'
<1>1. it \in ItemType /\ TypeOK
  BY StoreAssumption DEF StoreInv
<1>2. PICK i \in Found(j, it) :
        /\ i \in Present
        /\ rows'[i] = Updated(j, it, rows[i])
        /\ \A k \in Present \ {i} : rows'[k] = rows[k]
        /\ rows' \in [Present -> RowType] /\ Present' = Present
        /\ j \notin ended
        /\ UNCHANGED <<used, ended, empty>>
  BY <1>1, UpdateItemStep
<1>3. rows[i] \in RowType
  BY <1>1, <1>2 DEF TypeOK
<1>4. /\ rows'[i].ds = rows[i].ds /\ rows'[i].job = rows[i].job
      /\ rows'[i].key = rows[i].key /\ rows'[i].deleted = rows[i].deleted
      /\ rows'[i] # rows[i] => rows[i].deleted = "no"
      /\ rows'[i] # rows[i] /\ rows[i].job \notin {None, j} => rows'[i].mod = j
  BY <1>1, <1>2, <1>3, UpdatedIdentity
<1>5. \A k \in Present :
        /\ rows'[k].ds = rows[k].ds /\ rows'[k].job = rows[k].job
        /\ rows'[k].key = rows[k].key /\ rows'[k].deleted = rows[k].deleted
        /\ rows'[k] # rows[k] => rows[k].deleted = "no"
        /\ rows'[k] # rows[k] /\ rows[k].job \notin {None, j} => rows'[k].mod = j
  BY <1>2, <1>4
<1>6. TypeOK'
  BY <1>1, <1>2 DEF TypeOK
<1>7. RowsHaveJobs'
  <2> SUFFICES ASSUME NEW k \in Present
               PROVE  /\ rows'[k].job # None => rows'[k].ds = DS[rows'[k].job]
                      /\ rows'[k].job = None => /\ rows'[k].deleted # "no"
                                                /\ NoData(rows'[k])
    BY <1>2 DEF RowsHaveJobs
  <2>1. /\ rows[k].job # None => rows[k].ds = DS[rows[k].job]
        /\ rows[k].job = None => rows[k].deleted # "no" /\ NoData(rows[k])
    BY DEF StoreInv, RowsHaveJobs
  <2> QED
    BY <1>5, <2>1
<1>8. UniqueRetrievalKeys'
  BY <1>2, <1>5 DEF UniqueRetrievalKeys, StoreInv
<1>9. ErasedStaysEmpty'
  BY <1>2, <1>5 DEF ErasedStaysEmpty, StoreInv
<1>10. FindingsAreEmpty'
  <2> SUFFICES ASSUME NEW h \in Jobs
               PROVE  /\ empty[h] \subseteq used
                      /\ empty[h] # {} => h \in ended
                      /\ \A k \in empty[h] \cap Present :
                           /\ rows'[k].job \in {None, h}
                           /\ \/ NoData(rows'[k])
                              \/ rows'[k].mod \notin {None, rows'[k].job}
    BY <1>2 DEF FindingsAreEmpty
  <2>1. /\ empty[h] \subseteq used
        /\ empty[h] # {} => h \in ended
    BY DEF StoreInv, FindingsAreEmpty
  <2>2. ASSUME NEW k \in empty[h] \cap Present
        PROVE  /\ rows'[k].job \in {None, h}
               /\ NoData(rows'[k]) \/ rows'[k].mod \notin {None, rows'[k].job}
    <3>1. /\ rows[k].job \in {None, h}
          /\ NoData(rows[k]) \/ rows[k].mod \notin {None, rows[k].job}
      BY <2>2 DEF StoreInv, FindingsAreEmpty
    <3>2. h \in ended /\ h # j /\ h # None /\ j # None
      BY <1>2, <2>1, <2>2, PoliciesAssumption
    <3>3. CASE rows'[k] = rows[k]
      BY <3>1, <3>3
    <3>4. CASE rows'[k] # rows[k]
      <4>1. rows[k].job # None
        BY <1>5, <3>4 DEF StoreInv, RowsHaveJobs
      <4>2. rows[k].job = h /\ rows'[k].job = h /\ rows'[k].mod = j
        BY <1>5, <3>1, <3>2, <3>4, <4>1
      <4> QED
        BY <3>2, <4>2
    <3> QED
      BY <3>3, <3>4
  <2> QED
    BY <2>1, <2>2
<1> QED
  BY <1>6, <1>7, <1>8, <1>9, <1>10 DEF StoreInv

LEMMA DeletionKeeps ==
  ASSUME StoreInv,
         \/ \E S \in SUBSET Present, remember, retain \in BOOLEAN :
              DeleteItems(S, remember, retain)
         \/ \E S \in SUBSET Present : DeleteExpiredItems(S)
  PROVE  StoreInv'
<1>1. TypeOK
  BY DEF StoreInv
<1>2. /\ rows' \in [Present -> RowType] /\ Present' = Present
      /\ \A i \in Present : Leaves(rows[i], rows'[i])
      /\ UNCHANGED <<used, ended, empty>>
  BY <1>1, DeletionLeaves
<1>3. TypeOK'
  BY <1>1, <1>2 DEF TypeOK
<1>4. UniqueRetrievalKeys'
  BY <1>2 DEF UniqueRetrievalKeys, StoreInv, Leaves
<1>5. ASSUME NEW i \in Present
      PROVE  /\ rows'[i].job # None => rows'[i].ds = DS[rows'[i].job]
             /\ rows'[i].job = None => rows'[i].deleted # "no" /\ NoData(rows'[i])
             /\ rows'[i].deleted = "erased" => rows'[i] = Erased(rows'[i])
             /\ rows'[i].job \in {None, rows[i].job}
             /\ NoData(rows[i]) => NoData(rows'[i])
             /\ \/ NoData(rows'[i])
                \/ rows'[i].mod = rows[i].mod /\ rows'[i].job = rows[i].job
  <2>1. /\ rows[i].job # None => rows[i].ds = DS[rows[i].job]
        /\ rows[i].job = None => rows[i].deleted # "no" /\ NoData(rows[i])
        /\ rows[i].deleted = "erased" => rows[i] = Erased(rows[i])
    BY DEF StoreInv, RowsHaveJobs, ErasedStaysEmpty
  <2>2. CASE Spares(rows[i], rows'[i])
    BY <2>1, <2>2 DEF Spares, NoData
  <2>3. CASE Empties(rows'[i])
    BY <2>3 DEF Empties
  <2> QED
    BY <1>2, <2>2, <2>3 DEF Leaves
<1>6. RowsHaveJobs' /\ ErasedStaysEmpty'
  BY <1>2, <1>5 DEF RowsHaveJobs, ErasedStaysEmpty
<1>7. FindingsAreEmpty'
  <2> SUFFICES ASSUME NEW h \in Jobs, NEW k \in empty[h] \cap Present
               PROVE  /\ rows'[k].job \in {None, h}
                      /\ NoData(rows'[k]) \/ rows'[k].mod \notin {None, rows'[k].job}
    BY <1>2 DEF FindingsAreEmpty, StoreInv
  <2>1. /\ rows[k].job \in {None, h}
        /\ NoData(rows[k]) \/ rows[k].mod \notin {None, rows[k].job}
    BY DEF FindingsAreEmpty, StoreInv
  <2> QED
    BY <1>5, <2>1
<1> QED
  BY <1>3, <1>4, <1>6, <1>7 DEF StoreInv

LEMMA EndKeeps ==
  ASSUME NEW j \in Jobs, StoreInv, FindEmptyItems(j) \/ DeleteEmptyItems(j)
  PROVE  StoreInv'
<1>1. TypeOK
  BY DEF StoreInv
<1>2. /\ Present' \subseteq Present
      /\ rows' \in [Present' -> RowType]
      /\ \A i \in Present' : rows'[i] = rows[i]
      /\ used' = used
  BY <1>1 DEF FindEmptyItems, DeleteEmptyItems, TypeOK, Present
<1>3. /\ ended \subseteq ended' /\ ended' \subseteq Jobs
      /\ empty' \in [Jobs -> SUBSET RowIds]
  BY <1>1 DEF FindEmptyItems, DeleteEmptyItems, TypeOK
<1>4. TypeOK'
  BY <1>1, <1>2, <1>3 DEF TypeOK
<1>5. RowsHaveJobs' /\ UniqueRetrievalKeys' /\ ErasedStaysEmpty'
  BY <1>2 DEF RowsHaveJobs, UniqueRetrievalKeys, ErasedStaysEmpty, StoreInv
<1>6. ASSUME NEW h \in Jobs
      PROVE  /\ empty'[h] \subseteq used
             /\ empty'[h] # {} => h \in ended'
             /\ \A k \in empty'[h] \cap Present' :
                  /\ rows[k].job \in {None, h}
                  /\ NoData(rows[k]) \/ rows[k].mod \notin {None, rows[k].job}
  <2>1. CASE empty'[h] = empty[h]
    BY <1>2, <1>3, <2>1 DEF FindingsAreEmpty, StoreInv
  <2>2. CASE FindEmptyItems(j) /\ h = j
    BY <1>1, <1>2, <2>2 DEF FindEmptyItems, TypeOK, EmptyRow
  <2>3. CASE DeleteEmptyItems(j) /\ h = j
    BY <1>1, <1>2, <2>3 DEF DeleteEmptyItems, TypeOK
  <2>4. h # j => empty'[h] = empty[h]
    BY <1>1 DEF FindEmptyItems, DeleteEmptyItems, TypeOK
  <2> QED
    BY <2>1, <2>2, <2>3, <2>4
<1>7. FindingsAreEmpty'
  BY <1>2, <1>6 DEF FindingsAreEmpty
<1> QED
  BY <1>4, <1>5, <1>7 DEF StoreInv

LEMMA StoreNext == StoreInv /\ [Next]_vars => StoreInv'
<1> SUFFICES ASSUME StoreInv, [Next]_vars PROVE StoreInv'
  OBVIOUS
<1>1. CASE UNCHANGED vars
  BY <1>1 DEF vars, StoreInv, TypeOK, RowsHaveJobs, UniqueRetrievalKeys,
              ErasedStaysEmpty, FindingsAreEmpty, Present
<1>2. CASE Next
  BY <1>2, InsertKeeps, UpdateKeeps, DeletionKeeps, EndKeeps DEF Next
<1> QED
  BY <1>1, <1>2

LEMMA StoreAlways == Spec => []StoreInv
  BY StoreInit, StoreNext, PTL DEF Spec

-----------------------------------------------------------------------------
(* Original IDs.                                                           *)

LEMMA InsertKeepsIds ==
  ASSUME NEW j \in Jobs, NEW it \in Items, StoreInv, UniqueOriginalIds,
         InsertItem(j, it)
  PROVE  UniqueOriginalIds'
<1>1. it \in ItemType /\ TypeOK
  BY StoreAssumption DEF StoreInv
<1>2. PICK i \in RowIds \ used :
        /\ Present' = Present \cup {i}
        /\ i \notin Present
        /\ rows'[i] = Inserted(j, it)
        /\ \A k \in Present : rows'[k] = rows[k]
        /\ Direct(j, it) = {}
  BY <1>1, InsertItemStep
<1>3. rows'[i].ds = DS[j] /\ rows'[i].id = it.id
  BY <1>1, <1>2, InsertedRow
<1>4. \A k \in Present :
        it.id # None => rows[k].ds # DS[j] \/ rows[k].id # it.id
  BY <1>2 DEF Direct, ByID
<1> QED
  BY <1>2, <1>3, <1>4 DEF UniqueOriginalIds

(* A row takes the ID of an item that is found in it, if no row has that    *)
(* ID: then the first query would have found it.                            *)
LEMMA UpdateKeepsIds ==
  ASSUME NEW j \in Jobs, NEW it \in Items, StoreInv, UniqueOriginalIds,
         IdsAreAssigned, UpdateItem(j, it)
  PROVE  UniqueOriginalIds'
<1>1. it \in ItemType /\ TypeOK
  BY StoreAssumption DEF StoreInv
<1>2. PICK i \in Found(j, it) :
        /\ i \in Present
        /\ rows'[i] = Updated(j, it, rows[i])
        /\ \A k \in Present \ {i} : rows'[k] = rows[k]
        /\ Present' = Present
  BY <1>1, UpdateItemStep
<1>3. rows[i] \in RowType
  BY <1>1, <1>2 DEF TypeOK
<1>4. /\ rows'[i].ds = rows[i].ds
      /\ rows'[i] # rows[i] => rows[i].deleted = "no"
      /\ rows'[i].id # rows[i].id =>
           rows[i].id = None /\ rows[i].job = j /\ rows'[i].id = it.id
  BY <1>1, <1>2, <1>3, UpdatedIdentity
<1>5. CASE rows'[i].id = rows[i].id
  <2>1. \A k \in Present : rows'[k].id = rows[k].id /\ rows'[k].ds = rows[k].ds
    BY <1>2, <1>4, <1>5
  <2> QED
    BY <1>2, <2>1 DEF UniqueOriginalIds
<1>6. CASE rows'[i].id # rows[i].id
  <2>0. it.id = None \/ it.key = None
    BY ItemsAssumption
  <2>1. /\ rows[i].id = None /\ it.id # None /\ rows[i].deleted = "no"
        /\ rows[i].ds = DS[j] /\ it.key = None
    BY <1>2, <1>4, <1>6, <2>0, PoliciesAssumption DEF StoreInv, RowsHaveJobs
  <2>2. i \notin Direct(j, it)
    BY <2>1 DEF Direct, ByKey, ByID, WasDeleted
  <2>3. Direct(j, it) = {}
    BY <2>2 DEF Found
  <2>4. \A k \in Present : rows[k].ds # DS[j] \/ rows[k].id # it.id
    BY <2>1, <2>3 DEF Direct, ByID
  <2>5. rows'[i].id = it.id /\ rows'[i].ds = DS[j]
    BY <1>4, <1>6, <2>1
  <2> QED
    BY <1>2, <2>4, <2>5 DEF UniqueOriginalIds
<1> QED
  BY <1>5, <1>6

LEMMA DeletionKeepsIds ==
  ASSUME StoreInv, UniqueOriginalIds,
         \/ \E S \in SUBSET Present, remember, retain \in BOOLEAN :
              DeleteItems(S, remember, retain)
         \/ \E S \in SUBSET Present : DeleteExpiredItems(S)
         \/ \E j \in Jobs : FindEmptyItems(j) \/ DeleteEmptyItems(j)
  PROVE  UniqueOriginalIds'
<1>1. /\ Present' \subseteq Present
      /\ \A i \in Present' :
           \/ rows'[i].id = None
           \/ rows'[i].id = rows[i].id /\ rows'[i].ds = rows[i].ds
  <2>1. CASE \/ \E S \in SUBSET Present, remember, retain \in BOOLEAN :
                  DeleteItems(S, remember, retain)
             \/ \E S \in SUBSET Present : DeleteExpiredItems(S)
    BY <2>1, DeletionLeaves DEF StoreInv, Leaves, Spares, Empties
  <2>2. CASE \E j \in Jobs : FindEmptyItems(j) \/ DeleteEmptyItems(j)
    BY <2>2 DEF FindEmptyItems, DeleteEmptyItems, Present
  <2> QED
    BY <2>1, <2>2
<1> QED
  BY <1>1 DEF UniqueOriginalIds

(* Row IDs, retrieval keys and types are sound in every state, and an       *)
(* erased row holds nothing but its hashes and its key: whatever is         *)
(* imported, updated and deleted, in whatever order.                        *)
THEOREM TableIsTyped == Spec => [](TypeOK /\ UniqueRetrievalKeys /\ ErasedStaysEmpty)
<1>1. StoreInv => TypeOK /\ UniqueRetrievalKeys /\ ErasedStaysEmpty
  BY DEF StoreInv
<1> QED
  BY <1>1, StoreAlways, PTL

(* Unless the user's preferences name the original ID, which the settings   *)
(* of an import do not offer (import.html:542-552), no statement of an      *)
(* import breaks a constraint of the table.                                 *)
THEOREM TableIsSound == IdsAreAssigned => (Spec => []RowsAreSound)
<1> SUFFICES ASSUME IdsAreAssigned PROVE Spec => []RowsAreSound
  OBVIOUS
<1>1. Init => UniqueOriginalIds
  BY DEF Init, UniqueOriginalIds, Present
<1>2. StoreInv /\ UniqueOriginalIds /\ [Next]_vars => UniqueOriginalIds'
  <2> SUFFICES ASSUME StoreInv, UniqueOriginalIds, [Next]_vars
               PROVE  UniqueOriginalIds'
    OBVIOUS
  <2>1. CASE UNCHANGED vars
    BY <2>1 DEF vars, UniqueOriginalIds, Present
  <2>2. CASE Next
    BY <2>2, InsertKeepsIds, UpdateKeepsIds, DeletionKeepsIds DEF Next
  <2> QED
    BY <2>1, <2>2
<1>3. StoreInv /\ UniqueOriginalIds => RowsAreSound
  BY DEF StoreInv, RowsAreSound
<1> QED
  BY <1>1, <1>2, <1>3, StoreAlways, PTL DEF Spec

-----------------------------------------------------------------------------
(* An import never empties a field, but for the text of data that is to be  *)
(* overwritten, and data of another import is kept if that is preferred:    *)
(* for any row, item and preferences, with any number of priorities.        *)
THEOREM KnownIsKept == Spec => []KnownStaysKnown
<1>1. StoreInv => KnownStaysKnown
  <2> SUFFICES ASSUME StoreInv, NEW i \in Present, NEW j \in Jobs, NEW it \in Items
               PROVE  LET old == rows[i]
                          new == Updated(j, it, old)
                          policy == DistillPolicies(j, it, old)["data"]
                      IN /\ \A c \in {"place", "id", "file", "text", "contentHash"} :
                              old[c] # None /\ new[c] = None
                                => c = "text" /\ policy = "overwrite"
                         /\ old.time # 0 => new.time # 0
                         /\ policy = "preferExisting" /\ old.job # j =>
                              \A c \in {"file", "text", "contentHash"} :
                                old[c] # None => new[c] = old[c]
    BY DEF KnownStaysKnown
  <2>1. rows[i] \in RowType /\ it \in ItemType
    BY StoreAssumption DEF StoreInv, TypeOK
  <2> DEFINE old == rows[i]
             new == Updated(j, it, old)
             policy == DistillPolicies(j, it, old)["data"]
  <2>2. /\ old.place # None => new.place # None
        /\ old.id # None => new.id # None
        /\ old.file # None => new.file # None
        /\ old.contentHash # None => new.contentHash = old.contentHash
        /\ old.text # None /\ new.text = None => policy = "overwrite"
        /\ old.time # 0 => new.time # 0
        /\ policy = "preferExisting" /\ old.job # j =>
             /\ old.file # None => new.file = old.file
             /\ old.text # None => new.text = old.text
    BY <2>1, FieldsAreKept
  <2> HIDE DEF old, new, policy
  <2>3. /\ \A c \in {"place", "id", "file", "text", "contentHash"} :
             old[c] # None /\ new[c] = None => c = "text" /\ policy = "overwrite"
        /\ old.time # 0 => new.time # 0
        /\ policy = "preferExisting" /\ old.job # j =>
             \A c \in {"file", "text", "contentHash"} :
               old[c] # None => new[c] = old[c]
    BY <2>2
  <2> QED
    BY <2>3 DEF old, new, policy
<1> QED
  BY <1>1, StoreAlways, PTL

(* Hashes.  An update sets that of the ID with the ID, and that of the      *)
(* content with the first content.                                          *)
LEMMA UpdatedFootprint ==
  ASSUME NEW j \in Jobs, NEW it \in ItemType, NEW r \in RowType, IdsAreAssigned
  PROVE  LET u == Updated(j, it, r) IN
         /\ r.contentHash # None => u.contentHash = r.contentHash
         /\ ~NoData(u) => ~NoData(r) \/ u.contentHash # None
         /\ \/ u.id = r.id /\ u.idHash = r.idHash
            \/ /\ r.id = None /\ r.job = j /\ it.id # None
               /\ u.id = it.id /\ u.idHash = IdHash(j, it)
<1>1. CASE ~Reprocess(UpdatesOf(j, it, r))
  BY <1>1 DEF Updated
<1>2. CASE Reprocess(UpdatesOf(j, it, r))
  <2> DEFINE u == Updated(j, it, r)
             upd == UpdatesOf(j, it, r)
  <2>1. /\ u.id = Set(upd["original_id"], HasData(it), r.id, Coalesce(it.id, r.id))
        /\ u.idHash = Set(upd["original_id"], HasData(it), r.idHash, IdHash(j, it))
        /\ u.text = Set(upd["data"], HasData(it), r.text, it.text)
        /\ u.file = Set(upd["data"], HasData(it), r.file, Coalesce(it.file, r.file))
        /\ u.contentHash = IF upd["data"] = "keep" THEN r.contentHash
                           ELSE Coalesce(r.contentHash, ContentHash(it))
    BY <1>2, UpdatedFields
  <2>2. r.deleted = "no"
    BY <1>2, Zenon DEF Reprocess, UpdatesOf
  <2>3. DistillPolicies(j, it, r)["original_id"] = "keep"
    BY DEF IdsAreAssigned, DistillPolicies, Fields
  <2>4. upd["original_id"] = IF r.job = j /\ Lacks("original_id", it, r)
                             THEN "preferIncoming" ELSE "keep"
    BY <2>2, <2>3 DEF UpdatesOf, PiecewisePolicies, Idle, Fields
  <2>5. Lacks("original_id", it, r) <=> r.id = None /\ it.id # None
    BY DEF Lacks
  <2>6. it.id # None => IdHash(j, it) # None
    BY PoliciesAssumption DEF IdHash, ItemType, Opt
  <2>7. HasData(it) => ContentHash(it) # None
    BY PoliciesAssumption DEF ContentHash, HasData, Data, ItemType, Opt
  <2> HIDE DEF u, upd
  <2>8. \/ u.id = r.id /\ u.idHash = r.idHash
        \/ /\ r.id = None /\ r.job = j /\ it.id # None
           /\ u.id = it.id /\ u.idHash = IdHash(j, it)
    <3>1. CASE r.job = j /\ r.id = None /\ it.id # None
      BY <2>1, <2>4, <2>5, <2>6, <3>1 DEF Set, Coalesce
    <3>2. CASE ~(r.job = j /\ r.id = None /\ it.id # None)
      BY <2>1, <2>4, <2>5, <3>2 DEF Set
    <3> QED
      BY <3>1, <3>2
  <2>9. r.contentHash # None => u.contentHash = r.contentHash
    BY <2>1 DEF Coalesce
  <2>10. ~NoData(u) => ~NoData(r) \/ u.contentHash # None
    <3> SUFFICES ASSUME NoData(r), ~NoData(u) PROVE u.contentHash # None
      OBVIOUS
    <3>1. HasData(it) \in BOOLEAN
      BY DEF HasData
    <3>2. upd["data"] # "keep"
      BY <2>1 DEF NoData, Set
    <3>3. it.text # None \/ it.file # None
      BY <2>1, <3>1, SetChooses DEF NoData, Coalesce
    <3> QED
      BY <2>1, <2>7, <3>2, <3>3 DEF HasData, Coalesce
  <2> QED
    BY <2>8, <2>9, <2>10 DEF u
<1> QED
  BY <1>1, <1>2

(* A deletion keeps both hashes; only one that is to forget clears that of  *)
(* the ID, and what is left is erased.                                      *)
DeletedFootprint(r, s) ==
  /\ s.contentHash = r.contentHash
  /\ s = r \/ s.deleted # "no"
  /\ \/ s.idHash = r.idHash
     \/ s.idHash = None /\ s.deleted = "erased"
  /\ r.deleted = "trash" /\ s.deleted = "trash" => s = r

LEMMA DeletionFootprint ==
  ASSUME TypeOK,
         \/ \E S \in SUBSET Present, remember, retain \in BOOLEAN :
              DeleteItems(S, remember, retain)
         \/ \E S \in SUBSET Present : DeleteExpiredItems(S),
         NEW i \in Present
  PROVE  /\ DeletedFootprint(rows[i], rows'[i])
         /\ Remembering => rows'[i].idHash = rows[i].idHash
<1> DEFINE r == rows[i]
<1>1. r \in RowType
  BY DEF TypeOK
<1>2. Forgotten(r) \in RowType
  BY <1>1, ForgottenType
<1>3. rows'[i] \in {r, Trashed(r), Erased(r), Erased(Forgotten(r))}
  BY DEF DeleteItems, DeleteExpiredItems, Trashed
<1>4. DeletedFootprint(r, r)
  BY DEF DeletedFootprint
<1>5. DeletedFootprint(r, Trashed(r))
  <2>1. /\ Trashed(r).contentHash = r.contentHash /\ Trashed(r).idHash = r.idHash
        /\ Trashed(r).deleted = "trash"
    BY <1>1 DEF Trashed, RowType
  <2>2. r.deleted = "trash" => Trashed(r) = r
    BY <1>1 DEF Trashed, RowType
  <2> QED
    BY <2>1, <2>2 DEF DeletedFootprint
<1>6. DeletedFootprint(r, Erased(r))
  BY <1>1, ErasedIsHusk DEF DeletedFootprint, Husk
<1>7. DeletedFootprint(r, Erased(Forgotten(r)))
  <2>1. Forgotten(r).idHash = None /\ Forgotten(r).contentHash = r.contentHash
    BY <1>1 DEF Forgotten, RowType
  <2> QED
    BY <1>2, <2>1, ErasedIsHusk DEF DeletedFootprint, Husk
<1>8. ASSUME Remembering PROVE rows'[i].idHash = r.idHash
  <2>1. rows'[i] \in {r, Trashed(r), Erased(r)}
    BY <1>8 DEF Remembering, DeleteItems, DeleteExpiredItems, Trashed
  <2>2. Trashed(r).idHash = r.idHash
    BY <1>1 DEF Trashed, RowType
  <2>3. Erased(r).idHash = r.idHash
    BY <1>1, ErasedIsHusk DEF Husk
  <2> QED
    BY <2>1, <2>2, <2>3
<1> QED
  BY <1>3, <1>4, <1>5, <1>6, <1>7, <1>8

LEMMA EndFootprint ==
  ASSUME TypeOK, \E j \in Jobs : FindEmptyItems(j) \/ DeleteEmptyItems(j)
  PROVE  Present' \subseteq Present /\ \A i \in Present' : rows'[i] = rows[i]
<1>1. CASE \E j \in Jobs : FindEmptyItems(j)
  BY <1>1 DEF FindEmptyItems, Present
<1>2. CASE \E j \in Jobs : DeleteEmptyItems(j)
  BY <1>2 DEF DeleteEmptyItems, Present
<1> QED
  BY <1>1, <1>2

(* The hashes of a live row are those of its ID and of some content.        *)
Own(r) ==
  r.deleted = "no" =>
    /\ r.idHash = IF r.id = None THEN None ELSE <<r.ds, r.id>>
    /\ ~NoData(r) => r.contentHash # None

LEMMA OwnIsKept ==
  ASSUME StoreInv, FootprintsAreTheirOwn, IdsAreAssigned, [Next]_vars
  PROVE  FootprintsAreTheirOwn'
<1> SUFFICES ASSUME NEW i \in Present' PROVE Own(rows'[i])
  BY DEF FootprintsAreTheirOwn, Own
<1>1. \A k \in Present : Own(rows[k])
  BY DEF FootprintsAreTheirOwn, Own
<1>2. TypeOK
  BY DEF StoreInv
<1>3. CASE UNCHANGED vars
  BY <1>1, <1>3 DEF vars, Present
<1>4. ASSUME NEW j \in Jobs, NEW it \in Items, InsertItem(j, it)
      PROVE  Own(rows'[i])
  <2>1. PICK n \in RowIds \ used :
          /\ Present' = Present \cup {n}
          /\ rows'[n] = Inserted(j, it)
          /\ \A k \in Present : rows'[k] = rows[k]
    BY <1>2, <1>4, InsertItemStep
  <2>2. HasData(it) => ContentHash(it) # None
    BY StoreAssumption, PoliciesAssumption
    DEF ContentHash, HasData, Data, ItemType, Opt
  <2>3. Own(Inserted(j, it))
    BY <2>2 DEF Own, Inserted, NoData, HasData, IdHash
  <2> QED
    BY <1>1, <2>1, <2>3
<1>5. ASSUME NEW j \in Jobs, NEW it \in Items, UpdateItem(j, it)
      PROVE  Own(rows'[i])
  <2>1. PICK n \in Present :
          /\ rows'[n] = Updated(j, it, rows[n])
          /\ \A k \in Present \ {n} : rows'[k] = rows[k]
          /\ Present' = Present
    BY <1>2, <1>5, UpdateItemStep
  <2> DEFINE r == rows[n]
             u == Updated(j, it, r)
  <2>2. r \in RowType /\ it \in ItemType
    BY <1>2, StoreAssumption DEF TypeOK
  <2>3. u.deleted = r.deleted /\ u.ds = r.ds
    BY <2>2, UpdatedIdentity
  <2>4. /\ r.contentHash # None => u.contentHash = r.contentHash
        /\ ~NoData(u) => ~NoData(r) \/ u.contentHash # None
        /\ \/ u.id = r.id /\ u.idHash = r.idHash
           \/ /\ r.id = None /\ r.job = j /\ it.id # None
              /\ u.id = it.id /\ u.idHash = IdHash(j, it)
    BY <2>2, UpdatedFootprint
  <2>5. r.job = j => r.ds = DS[j]
    BY PoliciesAssumption DEF StoreInv, RowsHaveJobs
  <2>6. Own(r)
    BY <1>1
  <2> HIDE DEF r, u
  <2>7. Own(u)
    BY <2>3, <2>4, <2>5, <2>6 DEF Own, IdHash
  <2> QED
    BY <1>1, <2>1, <2>7 DEF r, u
<1>6. CASE \/ \E S \in SUBSET Present, remember, retain \in BOOLEAN :
                DeleteItems(S, remember, retain)
           \/ \E S \in SUBSET Present : DeleteExpiredItems(S)
  <2>1. i \in Present
    BY <1>2, <1>6, DeletionLeaves
  <2>2. DeletedFootprint(rows[i], rows'[i])
    BY <1>2, <1>6, <2>1, DeletionFootprint
  <2> QED
    BY <1>1, <2>1, <2>2 DEF DeletedFootprint, Own
<1>7. CASE \E j \in Jobs : FindEmptyItems(j) \/ DeleteEmptyItems(j)
  BY <1>1, <1>2, <1>7, EndFootprint
<1> QED
  BY <1>3, <1>4, <1>5, <1>6, <1>7 DEF Next

(* What FootprintsStay says of one row.                                     *)
Stays(r, s) ==
  /\ r.contentHash # None => s.contentHash = r.contentHash
  /\ s.idHash # r.idHash =>
       \/ r.idHash = None /\ r.deleted = "no"
       \/ s.idHash = None /\ s.deleted = "erased" /\ ~Remembering
  /\ r.deleted # "no" => s.deleted # "no" /\ s.contentHash = r.contentHash
  /\ r.deleted = "trash" /\ s.deleted = "trash" => s = r

LEMMA FootprintStays ==
  ASSUME StoreInv, FootprintsAreTheirOwn, IdsAreAssigned, [Next]_vars,
         NEW i \in Present \cap DOMAIN rows'
  PROVE  Stays(rows[i], rows'[i])
<1>1. TypeOK
  BY DEF StoreInv
<1>2. rows'[i] = rows[i] => Stays(rows[i], rows'[i])
  BY DEF Stays
<1>3. CASE UNCHANGED vars
  BY <1>2, <1>3 DEF vars
<1>4. ASSUME NEW j \in Jobs, NEW it \in Items, InsertItem(j, it)
      PROVE  Stays(rows[i], rows'[i])
  <2>1. rows'[i] = rows[i]
    BY <1>1, <1>4, InsertItemStep
  <2> QED
    BY <1>2, <2>1
<1>5. ASSUME NEW j \in Jobs, NEW it \in Items, UpdateItem(j, it)
      PROVE  Stays(rows[i], rows'[i])
  <2> DEFINE r == rows[i]
             u == Updated(j, it, r)
  <2>1. rows'[i] = r \/ rows'[i] = u
    BY <1>1, <1>5, UpdateItemStep
  <2>2. r \in RowType /\ it \in ItemType
    BY <1>1, StoreAssumption DEF TypeOK
  <2>3. u.deleted = r.deleted /\ (u # r => r.deleted = "no")
    BY <2>2, UpdatedIdentity
  <2>4. /\ r.contentHash # None => u.contentHash = r.contentHash
        /\ u.idHash = r.idHash \/ r.id = None
    BY <2>2, UpdatedFootprint
  <2>5. r.deleted = "no" /\ r.id = None => r.idHash = None
    BY DEF FootprintsAreTheirOwn
  <2> HIDE DEF r, u
  <2>6. Stays(r, u)
    <3>1. CASE u = r
      BY <3>1 DEF Stays
    <3>2. CASE u # r
      BY <2>3, <2>4, <2>5, <3>2 DEF Stays
    <3> QED
      BY <3>1, <3>2
  <2> QED
    BY <1>2, <2>1, <2>6 DEF r
<1>6. CASE \/ \E S \in SUBSET Present, remember, retain \in BOOLEAN :
                DeleteItems(S, remember, retain)
           \/ \E S \in SUBSET Present : DeleteExpiredItems(S)
  <2>1. /\ DeletedFootprint(rows[i], rows'[i])
        /\ Remembering => rows'[i].idHash = rows[i].idHash
    BY <1>1, <1>6, DeletionFootprint
  <2> QED
    BY <2>1 DEF DeletedFootprint, Stays
<1>7. CASE \E j \in Jobs : FindEmptyItems(j) \/ DeleteEmptyItems(j)
  <2>1. rows'[i] = rows[i]
    BY <1>1, <1>7, EndFootprint DEF Present
  <2> QED
    BY <1>2, <2>1
<1> QED
  BY <1>3, <1>4, <1>5, <1>6, <1>7 DEF Next

(* Unless the user's preferences name the original ID, the hashes of a row  *)
(* are those of its ID and content and stay as long as it does, but for     *)
(* those a deletion is to forget; while they are there nothing they stand   *)
(* for is imported again; and only rows found empty disappear.              *)
THEOREM FootprintsAreRemembered == IdsAreAssigned => (Spec => DeletionsAreRemembered)
<1> SUFFICES ASSUME IdsAreAssigned PROVE Spec => DeletionsAreRemembered
  OBVIOUS
<1> DEFINE A == used' # used =>
                  \A j \in Jobs, it \in Items :
                    InsertItem(j, it) => \A i \in Present : ~Remembers(rows[i], j, it)
           B == \A i \in Present : i \notin DOMAIN rows' =>
                  /\ \E j \in ended : i \in empty[j]
                  /\ NoData(rows[i]) \/ rows[i].mod \notin {None, rows[i].job}
           C == \A i \in Present \cap DOMAIN rows' : Stays(rows[i], rows'[i])
<1>1. Init => FootprintsAreTheirOwn
  BY DEF Init, FootprintsAreTheirOwn, Present
<1>2. ASSUME NEW j \in Jobs, NEW it \in Items, InsertItem(j, it), NEW i \in Present
      PROVE  ~Remembers(rows[i], j, it)
  BY <1>2 DEF InsertItem, Found, Direct, WasDeleted, Remembers
<1>3. A
  BY <1>2
<1>4. StoreInv /\ [Next]_vars => B
  <2> SUFFICES ASSUME StoreInv, [Next]_vars, NEW k \in Present, k \notin DOMAIN rows'
               PROVE  /\ \E j \in ended : k \in empty[j]
                      /\ NoData(rows[k]) \/ rows[k].mod \notin {None, rows[k].job}
    OBVIOUS
  <2>1. TypeOK
    BY DEF StoreInv
  <2>2. CASE \E j \in Jobs : DeleteEmptyItems(j)
    <3>1. PICK j \in Jobs : k \in empty[j] /\ j \in ended
      BY <2>2 DEF DeleteEmptyItems
    <3> QED
      BY <3>1 DEF StoreInv, FindingsAreEmpty
  <2>3. CASE \E j \in Jobs, it \in Items : InsertItem(j, it)
    BY <2>1, <2>3, InsertItemStep DEF Present
  <2>4. CASE \E j \in Jobs, it \in Items : UpdateItem(j, it)
    BY <2>1, <2>4, UpdateItemStep DEF Present
  <2>5. CASE \/ \E S \in SUBSET Present, remember, retain \in BOOLEAN :
                  DeleteItems(S, remember, retain)
             \/ \E S \in SUBSET Present : DeleteExpiredItems(S)
    BY <2>1, <2>5, DeletionLeaves DEF Present
  <2>6. CASE UNCHANGED vars \/ \E j \in Jobs : FindEmptyItems(j)
    BY <2>6 DEF vars, FindEmptyItems, Present
  <2> QED
    BY <2>2, <2>3, <2>4, <2>5, <2>6 DEF Next
<1>5. StoreInv /\ FootprintsAreTheirOwn /\ [Next]_vars => FootprintsAreTheirOwn' /\ C
  BY OwnIsKept, FootprintStays
<1> HIDE DEF A, B, C
<1>6. Spec => [][A]_vars
  BY <1>3, PTL
<1>7. Spec => [][B]_vars
  BY <1>4, StoreAlways, PTL DEF Spec
<1>8. Spec => []FootprintsAreTheirOwn /\ [][C]_vars
  BY <1>1, <1>5, StoreAlways, PTL DEF Spec
<1>9. Spec => RememberedIsNotImported
  BY <1>6 DEF RememberedIsNotImported, A
<1>10. Spec => DiscardsOnlyEmpty
  BY <1>7 DEF DiscardsOnlyEmpty, B
<1>11. Spec => FootprintsStay
  BY <1>8 DEF FootprintsStay, C, Stays
<1> QED
  BY <1>8, <1>9, <1>10, <1>11 DEF DeletionsAreRemembered

-----------------------------------------------------------------------------
(* Preferences by size.                                                    *)

(* Size decides alone about the data.                                       *)
BySizeAlone == \A j \in Jobs : BySize(j) => DOMAIN Preferences[j]["data"].priorities = {1}

Wins(value, new, old) == IF value = "bigger" THEN new > old ELSE new < old

LEMMA SizeDecides ==
  ASSUME NEW j \in Jobs, NEW it \in ItemType, NEW r \in RowType,
         BySize(j), BySizeAlone, it.file # None, it.text = None, r.text = None,
         r.deleted = "no"
  PROVE  LET pref == Preferences[j]["data"]
             value == pref.priorities[1].value
             taken == value = "bigger" \/ r.job = j \/ ~pref.nulls
             u == Updated(j, it, r)
         IN /\ u \in RowType /\ u.text = None /\ u.job = r.job /\ u.deleted = "no"
            /\ u.file = IF r.file = None THEN IF taken THEN it.file ELSE None
                        ELSE IF Wins(value, Length[it.file], Length[r.file])
                             THEN it.file ELSE r.file
<1> DEFINE pref == Preferences[j]["data"]
           value == pref.priorities[1].value
           taken == value = "bigger" \/ r.job = j \/ ~pref.nulls
           u == Updated(j, it, r)
           upd == UpdatesOf(j, it, r)["data"]
           dist == DistillPolicies(j, it, r)["data"]
           size == IF r.file = None THEN 0 ELSE 1 + Length[r.file]
           verdict == Verdict(pref.priorities[1], j, it, r)
<1>1. /\ it.file \in Files /\ Length[it.file] \in Nat
      /\ r.file # None => r.file \in Files /\ Length[r.file] \in Nat
  BY PoliciesAssumption DEF ItemType, RowType, Opt
<1>2. HasData(it) /\ Size(it) = 1 + Length[it.file] /\ Size(r) = size
  BY DEF HasData, Size, Data
<1>3. verdict = IF value = "bigger"
                THEN Favours(size > Size(it), Size(it) > size)
                ELSE Favours(size < Size(it), Size(it) < size)
  BY <1>2 DEF BySize, Verdict
<1>4. dist = IF verdict = "neither" THEN "keep"
             ELSE IF verdict = "existing"
                  THEN IF pref.nulls THEN "keep" ELSE "preferExisting"
                  ELSE IF pref.nulls THEN "overwrite" ELSE "preferIncoming"
  <2>1. dist = Distill(pref, j, it, r)
    BY DEF DistillPolicies, BySize, Fields
  <2>2. DOMAIN pref.priorities = {1}
    BY DEF BySizeAlone
  <2>3. \A D : D = {1} => (CHOOSE i \in D : \A k \in D : i <= k) = 1
    OBVIOUS
  <2>4. CASE verdict = "neither"
    <3>1. {i \in DOMAIN pref.priorities :
             Verdict(pref.priorities[i], j, it, r) # "neither"} = {}
      BY <2>2, <2>4
    <3> QED
      BY <2>1, <2>4, <3>1 DEF Distill
  <2>5. CASE verdict # "neither"
    <3>1. {i \in DOMAIN pref.priorities :
             Verdict(pref.priorities[i], j, it, r) # "neither"} = {1}
      BY <2>2, <2>5
    <3> QED
      BY <2>1, <2>3, <2>5, <3>1 DEF Distill
  <2> QED
    BY <2>4, <2>5
<1>5. /\ upd = (IF r.file = it.file THEN "keep"
                ELSE IF r.job = j /\ r.file = None THEN "preferIncoming" ELSE dist)
  BY <1>1, <1>2, PoliciesAssumption
     DEF UpdatesOf, PiecewisePolicies, Lacks, Idle, Fields, HasData
<1>6. u \in RowType /\ u.job = r.job /\ u.deleted = "no"
  BY UpdatedType, UpdatedIdentity
<1>7. /\ u.text = Set(upd, HasData(it), r.text, it.text)
      /\ u.file = Set(upd, HasData(it), r.file, Coalesce(it.file, r.file))
  <2>1. CASE Reprocess(UpdatesOf(j, it, r))
    BY <2>1, UpdatedFields
  <2>2. CASE ~Reprocess(UpdatesOf(j, it, r))
    <3>1. upd = "keep" /\ u = r
      BY <2>2 DEF Reprocess, Updated, Fields
    <3> QED
      BY <3>1 DEF Set
  <2> QED
    BY <2>1, <2>2
<1> HIDE DEF u, upd, dist, verdict, value, taken
<1>8. u.text = None
  BY <1>7 DEF Set, Coalesce
<1>9. u.file = IF upd = "keep" THEN r.file
               ELSE IF upd = "preferExisting" /\ r.file # None THEN r.file
               ELSE it.file
  BY <1>1, <1>2, <1>7 DEF Set, Coalesce
<1>10. CASE r.file = None
  <2>1. dist = IF value = "bigger"
               THEN IF pref.nulls THEN "overwrite" ELSE "preferIncoming"
               ELSE IF pref.nulls THEN "keep" ELSE "preferExisting"
    BY <1>1, <1>2, <1>3, <1>4, <1>10 DEF Favours
  <2>2. u.file = IF taken THEN it.file ELSE None
    BY <1>5, <1>9, <1>10, <2>1 DEF taken
  <2> QED
    BY <1>6, <1>8, <1>10, <2>2 DEF u, taken, value
<1>11. CASE r.file # None
  <2>1. dist = IF Wins(value, Length[it.file], Length[r.file])
               THEN IF pref.nulls THEN "overwrite" ELSE "preferIncoming"
               ELSE IF Length[it.file] = Length[r.file] THEN "keep"
               ELSE IF pref.nulls THEN "keep" ELSE "preferExisting"
    BY <1>1, <1>2, <1>3, <1>4, <1>11 DEF Favours, Wins
  <2>2. u.file = IF Wins(value, Length[it.file], Length[r.file]) THEN it.file ELSE r.file
    BY <1>5, <1>9, <1>11, <2>1
  <2> QED
    BY <1>6, <1>8, <1>11, <2>2 DEF u, value
<1> QED
  BY <1>10, <1>11

(* If size alone decides about the data, it does not matter in which order  *)
(* two files of an item arrive, whatever is in the row before.              *)
THEOREM SizesCommute == BySizeAlone => (Spec => []OrderIsIrrelevant)
<1> SUFFICES ASSUME BySizeAlone PROVE Spec => []OrderIsIrrelevant
  OBVIOUS
<1>1. StoreInv => OrderIsIrrelevant
  <2> SUFFICES ASSUME StoreInv, NEW i \in Present, rows[i].text = None,
                      rows[i].deleted = "no", NEW j \in Jobs, BySize(j),
                      NEW y \in Items, y.file # None, NEW z \in Items, z.file # None,
                      Length[y.file] < Length[z.file]
               PROVE  Updated(j, z, Updated(j, y, rows[i])).file
                        = Updated(j, y, Updated(j, z, rows[i])).file
    BY DEF OrderIsIrrelevant
  <2> DEFINE r == rows[i]
             ry == Updated(j, y, r)
             rz == Updated(j, z, r)
             value == Preferences[j]["data"].priorities[1].value
             taken == value = "bigger" \/ r.job = j \/ ~Preferences[j]["data"].nulls
             Best(it, old) ==
               IF old = None THEN IF taken THEN it.file ELSE None
               ELSE IF Wins(value, Length[it.file], Length[old]) THEN it.file ELSE old
  <2>1. /\ r \in RowType /\ y \in ItemType /\ z \in ItemType
        /\ y.text = None /\ z.text = None
    BY StoreAssumption, ItemsAssumption DEF StoreInv, TypeOK
  <2>2. /\ ry \in RowType /\ ry.text = None /\ ry.job = r.job /\ ry.deleted = "no"
        /\ ry.file = Best(y, r.file)
    BY <2>1, SizeDecides
  <2>3. /\ rz \in RowType /\ rz.text = None /\ rz.job = r.job /\ rz.deleted = "no"
        /\ rz.file = Best(z, r.file)
    BY <2>1, SizeDecides
  <2> HIDE DEF ry, rz
  <2>4. Updated(j, z, ry).file = Best(z, ry.file)
    BY <2>1, <2>2, SizeDecides
  <2>5. Updated(j, y, rz).file = Best(y, rz.file)
    BY <2>1, <2>3, SizeDecides
  <2>6. /\ y.file \in Files /\ z.file \in Files
        /\ r.file # None => r.file \in Files
        /\ \A f \in Files : Length[f] \in Nat /\ f # None
    BY <2>1, PoliciesAssumption DEF ItemType, RowType, Opt
  <2> HIDE DEF value, taken, r
  <2>7. Best(z, Best(y, r.file)) = Best(y, Best(z, r.file))
    BY <2>6 DEF Wins
  <2> QED
    BY <2>2, <2>3, <2>4, <2>5, <2>7 DEF ry, rz, r
<1> QED
  BY <1>1, StoreAlways, PTL

-----------------------------------------------------------------------------
(* Importing again.                                                        *)

(* Priorities that look only at what no import changes in a row: its data   *)
(* source, and which of the two items is there already.                     *)
StablePreferences ==
  \A j \in Jobs : \A f \in DOMAIN Preferences[j] :
    \A i \in DOMAIN Preferences[j][f].priorities :
      Preferences[j][f].priorities[i].property \in {"keep", "data_source"}

LEMMA NatHasMinimum ==
  ASSUME NEW D \in SUBSET Nat, D # {}
  PROVE  \E n \in D : \A k \in D : n <= k
<1> DEFINE R == OpToRel(<, Nat)
<1>0. R = {ss \in Nat \X Nat : ss[1] < ss[2]}
  BY Zenon DEF OpToRel
<1>2. IsWellFoundedOn(R, Nat)
  BY NatLessThanWellFounded
<1> HIDE DEF R
<1>1. \A m, n \in Nat : <<m, n>> \in R <=> m < n
  BY <1>0
<1>3. PICK n \in D : \A k \in D : <<k, n>> \notin R
  BY <1>2, WFMin
<1>4. n \in Nat /\ \A k \in D : k \in Nat /\ ~(k < n)
  BY <1>1, <1>3
<1> QED
  BY <1>4

LEMMA PoliciesAreStable ==
  ASSUME StablePreferences, NEW j \in Jobs, NEW it, NEW r, NEW u, u.ds = r.ds
  PROVE  DistillPolicies(j, it, u) = DistillPolicies(j, it, r)
<1>1. ASSUME NEW f \in DOMAIN Preferences[j]
      PROVE  Distill(Preferences[j][f], j, it, u) = Distill(Preferences[j][f], j, it, r)
  <2> DEFINE pref == Preferences[j][f]
  <2>1. ASSUME NEW i \in DOMAIN pref.priorities
        PROVE  Verdict(pref.priorities[i], j, it, u) = Verdict(pref.priorities[i], j, it, r)
    <3>1. pref.priorities[i].property \in {"keep", "data_source"}
      BY <1>1, <2>1 DEF StablePreferences
    <3> QED
      BY <3>1 DEF Verdict
  <2> HIDE DEF pref
  <2>2. {i \in DOMAIN pref.priorities : Verdict(pref.priorities[i], j, it, u) # "neither"}
          = {i \in DOMAIN pref.priorities : Verdict(pref.priorities[i], j, it, r) # "neither"}
    BY <2>1
  <2> DEFINE D == {i \in DOMAIN pref.priorities :
                     Verdict(pref.priorities[i], j, it, r) # "neither"}
             first == CHOOSE i \in D : \A k \in D : i <= k
  <2> SUFFICES Distill(pref, j, it, u) = Distill(pref, j, it, r)
    BY DEF pref
  <2>3. CASE D = {}
    BY <2>2, <2>3 DEF Distill
  <2>4. CASE D # {}
    <3>1. D \subseteq DOMAIN pref.priorities /\ D \in SUBSET Nat
      BY PoliciesAssumption DEF pref
    <3> HIDE DEF D
    <3>2. \E i \in D : \A k \in D : i <= k
      BY <2>4, <3>1, NatHasMinimum
    <3>3. first \in D
      BY <3>2
    <3>4. Verdict(pref.priorities[first], j, it, u) = Verdict(pref.priorities[first], j, it, r)
      BY <2>1, <3>1, <3>3
    <3> QED
      BY <2>2, <2>4, <3>4 DEF Distill, D
  <2> QED
    BY <2>3, <2>4
<1> QED
  BY <1>1 DEF DistillPolicies

(* Applying a policy twice.                                                *)
LEMMA SetTwice ==
  ASSUME NEW p, NEW allow \in BOOLEAN, NEW old, NEW new
  PROVE  /\ Set(p, allow, Set(p, allow, old, new), new) = Set(p, allow, old, new)
         /\ LET once == Set(p, allow, old, Coalesce(new, old))
            IN Set(p, allow, once, Coalesce(new, once)) = once
         /\ Set("keep", allow, old, new) = old
  BY DEF Set, Coalesce

(* Policies of the fields of a row that is not deleted.                     *)
LEMMA PolicyOfField ==
  ASSUME NEW j, NEW it, NEW r, r.deleted = "no", NEW f \in Fields
  PROVE  LET pol == IF r.job = j /\ Lacks(f, it, r) THEN "preferIncoming"
                    ELSE DistillPolicies(j, it, r)[f]
         IN UpdatesOf(j, it, r)[f] = IF Idle(f, pol, it, r) THEN "keep" ELSE pol
  BY DEF UpdatesOf, PiecewisePolicies

(* A field that is updated the second time was updated under the same       *)
(* policy the first time.                                                   *)
LEMMA SamePolicies ==
  ASSUME StablePreferences, NEW j \in Jobs, NEW it \in ItemType, NEW r \in RowType,
         r.deleted = "no", Reprocess(UpdatesOf(j, it, r)),
         NEW u, u = Updated(j, it, r),
         NEW f \in {"data", "original_location", "timestamp"},
         UpdatesOf(j, it, u)[f] # "keep"
  PROVE  UpdatesOf(j, it, r)[f] = UpdatesOf(j, it, u)[f]
<1> DEFINE p == UpdatesOf(j, it, r)[f]
           q == UpdatesOf(j, it, u)[f]
           d == DistillPolicies(j, it, r)[f]
           pr == IF r.job = j /\ Lacks(f, it, r) THEN "preferIncoming" ELSE d
           pu == IF r.job = j /\ Lacks(f, it, u) THEN "preferIncoming" ELSE d
           allow == HasData(it)
<1>1. u \in RowType /\ u.ds = r.ds /\ u.job = r.job /\ u.deleted = "no" /\ f \in Fields
  BY UpdatedType, UpdatedIdentity DEF Fields
<1>2. DistillPolicies(j, it, u)[f] = d
  BY <1>1, PoliciesAreStable
<1>3. p = IF Idle(f, pr, it, r) THEN "keep" ELSE pr
  BY <1>1, PolicyOfField
<1>4. q = IF Idle(f, pu, it, u) THEN "keep" ELSE pu
  BY <1>1, <1>2, PolicyOfField
<1>5. q = pu /\ ~Idle(f, pu, it, u) /\ q # "keep"
  BY <1>4
<1>6. allow \in BOOLEAN
  BY DEF HasData
<1>7. /\ it.text \in Opt(Texts) /\ it.file \in Opt(Files) /\ it.time \in Times \cup {0}
      /\ r.time \in Times \cup {0} /\ u.time \in Times \cup {0} /\ 0 \notin Times
      /\ None \notin Times
  BY <1>1, PoliciesAssumption DEF ItemType, RowType
<1> SUFFICES p = q
  OBVIOUS
<1>8. CASE f = "data"
  <2>1. /\ u.text = Set(p, allow, r.text, it.text)
        /\ u.file = Set(p, allow, r.file, Coalesce(it.file, r.file))
    BY <1>8, UpdatedFields
  <2> HIDE DEF p, q, d, allow
  <2>2. p # "keep"
    <3> SUFFICES ASSUME p = "keep" PROVE FALSE
      OBVIOUS
    <3>1. u.text = r.text /\ u.file = r.file
      BY <2>1 DEF Set
    <3>2. pu = pr /\ (Idle(f, pr, it, r) <=> Idle(f, pr, it, u))
      BY <1>8, <3>1 DEF Lacks, Idle, HasData
    <3> QED
      BY <1>3, <1>5, <3>2
  <2>3. p = pr
    BY <1>3, <2>2
  <2>4. ~Lacks(f, it, u)
    <3>1. it.text # None => u.text # None
      BY <1>8, <2>1, <2>2 DEF Set, Coalesce, HasData, allow
    <3>2. it.file # None => u.file # None
      BY <1>8, <2>1, <2>2 DEF Set, Coalesce, HasData, allow
    <3> QED
      BY <1>8, <3>1, <3>2 DEF Lacks, HasData
  <2>5. ~(r.job = j /\ Lacks(f, it, r))
    <3> SUFFICES ASSUME r.job = j, Lacks(f, it, r) PROVE FALSE
      OBVIOUS
    <3>1. p = "preferIncoming" /\ r.text = None /\ r.file = None /\ HasData(it)
      BY <1>8, <2>3 DEF Lacks
    <3>2. u.text = it.text /\ u.file = it.file
      BY <2>1, <3>1 DEF Set, Coalesce
    <3> QED
      BY <1>5, <1>8, <3>1, <3>2 DEF Idle, HasData
  <2> QED
    BY <1>5, <2>3, <2>4, <2>5
<1>9. CASE f = "original_location"
  <2>1. u.place = Set(p, allow, r.place, Coalesce(it.place, r.place))
    BY <1>9, UpdatedFields
  <2> HIDE DEF p, q, d, allow
  <2>2. p # "keep"
    <3> SUFFICES ASSUME p = "keep" PROVE FALSE
      OBVIOUS
    <3>1. u.place = r.place
      BY <1>6, <2>1, SetTwice
    <3>2. pu = pr /\ (Idle(f, pr, it, r) <=> Idle(f, pr, it, u))
      BY <1>9, <3>1 DEF Lacks, Idle
    <3> QED
      BY <1>3, <1>5, <3>2
  <2>3. p = pr
    BY <1>3, <2>2
  <2>4. ~Lacks(f, it, u)
    BY <1>9, <2>1, <2>2 DEF Set, Coalesce, Lacks
  <2>5. ~(r.job = j /\ Lacks(f, it, r))
    <3> SUFFICES ASSUME r.job = j, Lacks(f, it, r) PROVE FALSE
      OBVIOUS
    <3>1. p = "preferIncoming" /\ r.place = None /\ it.place # None
      BY <1>9, <2>3 DEF Lacks
    <3>2. u.place = it.place
      BY <2>1, <3>1 DEF Set, Coalesce
    <3> QED
      BY <1>5, <1>9, <3>2 DEF Idle
  <2> QED
    BY <1>5, <2>3, <2>4, <2>5
<1>10. CASE f = "timestamp"
  <2> DEFINE old == IF r.time = 0 THEN None ELSE r.time
             new == IF it.time # 0 THEN it.time ELSE old
             t == Set(p, allow, old, new)
  <2>1. u.time = IF t = None THEN 0 ELSE t
    BY <1>10, UpdatedFields DEF UpdatedTime
  <2> HIDE DEF p, q, d, allow
  <2>2. p # "keep"
    <3> SUFFICES ASSUME p = "keep" PROVE FALSE
      OBVIOUS
    <3>1. u.time = r.time
      BY <1>6, <1>7, <2>1, SetTwice
    <3>2. pu = pr /\ (Idle(f, pr, it, r) <=> Idle(f, pr, it, u))
      BY <1>10, <3>1 DEF Lacks, Idle
    <3> QED
      BY <1>3, <1>5, <3>2
  <2>3. p = pr
    BY <1>3, <2>2
  <2>4. ~Lacks(f, it, u)
    BY <1>7, <1>10, <2>1, <2>2 DEF Set, Coalesce, Lacks
  <2>5. ~(r.job = j /\ Lacks(f, it, r))
    <3> SUFFICES ASSUME r.job = j, Lacks(f, it, r) PROVE FALSE
      OBVIOUS
    <3>1. p = "preferIncoming" /\ r.time = 0 /\ it.time # 0
      BY <1>10, <2>3 DEF Lacks
    <3>2. u.time = it.time
      BY <1>7, <2>1, <3>1 DEF Set, Coalesce
    <3> QED
      BY <1>5, <1>10, <3>2 DEF Idle
  <2> QED
    BY <1>5, <2>3, <2>4, <2>5
<1> QED
  BY <1>8, <1>9, <1>10

LEMMA SameMetadata ==
  ASSUME StablePreferences, NEW j \in Jobs, NEW it \in ItemType, NEW r \in RowType,
         r.deleted = "no", Reprocess(UpdatesOf(j, it, r)),
         NEW u, u = Updated(j, it, r), Reprocess(UpdatesOf(j, it, u))
  PROVE  Updated(j, it, u).meta = u.meta
<1> DEFINE p == UpdatesOf(j, it, r)["metadata"]
           q == UpdatesOf(j, it, u)["metadata"]
           d == DistillPolicies(j, it, r)["metadata"]
           pol == IF r.job = j /\ it.meta # NoMeta THEN "preferIncoming" ELSE d
<1>1. u \in RowType /\ u.ds = r.ds /\ u.job = r.job /\ u.deleted = "no"
  BY UpdatedType, UpdatedIdentity
<1>2. DistillPolicies(j, it, u)["metadata"] = d
  BY <1>1, PoliciesAreStable
<1>3. "metadata" \in Fields /\ (\A x : Lacks("metadata", it, x) <=> it.meta # NoMeta)
  BY DEF Fields, Lacks
<1>4. p = IF Idle("metadata", pol, it, r) THEN "keep" ELSE pol
  BY <1>3, PolicyOfField
<1>5. q = IF Idle("metadata", pol, it, u) THEN "keep" ELSE pol
  BY <1>1, <1>2, <1>3, PolicyOfField
<1>6. \A x : Idle("metadata", pol, it, x) <=>
               \/ it.meta = NoMeta /\ (x.meta = NoMeta \/ pol # "overwrite")
               \/ x.meta # NoMeta /\ ~MetaChanges(pol, it, x)
  BY DEF Idle
<1>7. u.meta = IF p # "keep" /\ it.meta # NoMeta THEN MergedMeta(p, it, r) ELSE r.meta
  BY UpdatedFields
<1>8. Updated(j, it, u).meta = IF q # "keep" /\ it.meta # NoMeta
                               THEN MergedMeta(q, it, u) ELSE u.meta
  BY <1>1, UpdatedFields
<1>9. it.meta \in Meta /\ r.meta \in Meta /\ u.meta \in Meta
  BY <1>1 DEF ItemType, RowType
<1> HIDE DEF p, q, d, pol
<1> SUFFICES ASSUME q # "keep", it.meta # NoMeta PROVE FALSE
  BY <1>8
<1>10. q = pol /\ (u.meta = NoMeta \/ MetaChanges(pol, it, u))
  BY <1>5, <1>6
<1>11. CASE p = "keep"
  <2>1. u.meta = r.meta
    BY <1>7, <1>11
  <2>2. MetaChanges(pol, it, u) <=> MetaChanges(pol, it, r)
    BY <2>1 DEF MetaChanges
  <2>3. pol # "keep" /\ ~Idle("metadata", pol, it, r)
    BY <1>6, <1>10, <2>1, <2>2
  <2> QED
    BY <1>4, <1>11, <2>3
<1>12. CASE p # "keep"
  <2>1. p = pol /\ u.meta = MergedMeta(pol, it, r)
    BY <1>4, <1>7, <1>12
  <2>2. PICK k \in MetaKeys : it.meta[k] # None
    BY <1>9 DEF Meta, NoMeta
  <2>3. CASE r.meta = NoMeta
    <3>1. u.meta = it.meta
      BY <2>1, <2>3 DEF MergedMeta
    <3> QED
      BY <1>10, <3>1 DEF MetaChanges
  <2>4. CASE r.meta # NoMeta /\ pol = "preferExisting"
    <3>1. u.meta = [i \in MetaKeys |-> IF r.meta[i] # None THEN r.meta[i] ELSE it.meta[i]]
      BY <2>1, <2>4 DEF MergedMeta
    <3>2. \A i \in MetaKeys : it.meta[i] # None => u.meta[i] # None
      BY <3>1
    <3>3. u.meta # NoMeta
      BY <2>2, <3>2 DEF NoMeta
    <3> QED
      BY <1>10, <2>4, <3>2, <3>3 DEF MetaChanges
  <2>5. CASE r.meta # NoMeta /\ pol = "preferIncoming"
    <3>1. u.meta = [i \in MetaKeys |-> IF it.meta[i] # None THEN it.meta[i] ELSE r.meta[i]]
      BY <2>1, <2>5 DEF MergedMeta
    <3>2. \A i \in MetaKeys : it.meta[i] # None => u.meta[i] = it.meta[i]
      BY <3>1
    <3>3. u.meta # NoMeta
      BY <2>2, <3>2 DEF NoMeta
    <3> QED
      BY <1>10, <3>2, <3>3 DEF MetaChanges
  <2>6. CASE r.meta # NoMeta /\ pol \notin {"preferExisting", "preferIncoming"}
    <3>1. u.meta = it.meta
      BY <2>1, <2>6 DEF MergedMeta
    <3> QED
      BY <1>10, <3>1 DEF MetaChanges
  <2> QED
    BY <2>3, <2>4, <2>5, <2>6
<1> QED
  BY <1>11, <1>12

LEMMA SameIds ==
  ASSUME StablePreferences, NEW j \in Jobs, NEW it \in ItemType, NEW r \in RowType,
         r.deleted = "no", Reprocess(UpdatesOf(j, it, r)),
         NEW u, u = Updated(j, it, r), Reprocess(UpdatesOf(j, it, u))
  PROVE  Updated(j, it, u).id = u.id /\ Updated(j, it, u).idHash = u.idHash
<1> DEFINE p == UpdatesOf(j, it, r)["original_id"]
           q == UpdatesOf(j, it, u)["original_id"]
           d == DistillPolicies(j, it, r)["original_id"]
           allow == HasData(it)
           w == Updated(j, it, u)
           taken(x) == r.job = j /\ x.id = None /\ it.id # None
<1>1. u \in RowType /\ u.ds = r.ds /\ u.job = r.job /\ u.deleted = "no"
  BY UpdatedType, UpdatedIdentity
<1>2. DistillPolicies(j, it, u)["original_id"] = d
  BY <1>1, PoliciesAreStable
<1>3. /\ "original_id" \in Fields
      /\ \A pol, x : ~Idle("original_id", pol, it, x)
      /\ \A x : Lacks("original_id", it, x) <=> x.id = None /\ it.id # None
  BY DEF Fields, Lacks, Idle
<1>4. p = IF taken(r) THEN "preferIncoming" ELSE d
  BY <1>3, PolicyOfField
<1>5. q = IF taken(u) THEN "preferIncoming" ELSE d
  BY <1>1, <1>2, <1>3, PolicyOfField
<1>6. /\ u.id = Set(p, allow, r.id, Coalesce(it.id, r.id))
      /\ u.idHash = Set(p, allow, r.idHash, IdHash(j, it))
  BY UpdatedFields
<1>7. /\ w.id = Set(q, allow, u.id, Coalesce(it.id, u.id))
      /\ w.idHash = Set(q, allow, u.idHash, IdHash(j, it))
  BY <1>1, UpdatedFields
<1>8. allow \in BOOLEAN /\ (it.id # None => IdHash(j, it) # None)
  BY PoliciesAssumption DEF HasData, IdHash, ItemType, Opt
<1> HIDE DEF p, q, d, allow, w
<1>9. CASE taken(r)
  <2>1. u.id = it.id /\ u.idHash = IdHash(j, it)
    BY <1>4, <1>6, <1>8, <1>9 DEF Set, Coalesce
  <2>2. w.id = it.id /\ w.idHash = IdHash(j, it)
    BY <1>7, <1>8, <1>9, <2>1 DEF Set, Coalesce
  <2> QED
    BY <2>1, <2>2 DEF w
<1>10. CASE ~taken(r)
  <2>1. p = d
    BY <1>4, <1>10
  <2>2. CASE q = d
    <3>1. w.id = u.id /\ w.idHash = u.idHash
      BY <1>6, <1>7, <1>8, <2>1, <2>2, SetTwice
    <3> QED
      BY <3>1 DEF w
  <2>3. CASE taken(u)
    <3>1. r.id # None
      BY <1>10, <2>3
    <3>2. u.id # None
      BY <1>6, <3>1 DEF Set, Coalesce
    <3> QED
      BY <2>3, <3>2
  <2> QED
    BY <1>5, <2>2, <2>3
<1> QED
  BY <1>9, <1>10

LEMMA TwiceIsOnce ==
  ASSUME StablePreferences, NEW j \in Jobs, NEW it \in ItemType, NEW r \in RowType
  PROVE  Updated(j, it, Updated(j, it, r)) = Updated(j, it, r)
<1> SUFFICES ASSUME NEW u, u = Updated(j, it, r), NEW w, w = Updated(j, it, u)
             PROVE  w = u
  OBVIOUS
<1>1. u \in RowType /\ w \in RowType
  BY UpdatedType
<1>2. CASE u = r
  BY <1>2
<1>3. CASE ~Reprocess(UpdatesOf(j, it, u))
  BY <1>3 DEF Updated
<1>4. CASE u # r /\ Reprocess(UpdatesOf(j, it, u))
  <2>0. r.deleted = "no"
    BY <1>4, UpdatedIdentity
  <2>1. r.deleted = "no" /\ Reprocess(UpdatesOf(j, it, r))
    BY <1>4, <2>0 DEF Updated
  <2> DEFINE allow == HasData(it)
             p == UpdatesOf(j, it, r)
             q == UpdatesOf(j, it, u)
  <2>2. allow \in BOOLEAN
    BY DEF HasData
  <2>3. \A f \in {"data", "original_location", "timestamp"} :
          q[f] # "keep" => p[f] = q[f]
    BY <2>1, SamePolicies
  <2>4. /\ u.text = Set(p["data"], allow, r.text, it.text)
        /\ u.file = Set(p["data"], allow, r.file, Coalesce(it.file, r.file))
        /\ u.type = Set(p["data"], allow, r.type, Coalesce(MediaType(it), r.type))
        /\ u.contentHash = IF p["data"] = "keep" THEN r.contentHash
                           ELSE Coalesce(r.contentHash, ContentHash(it))
        /\ u.place = Set(p["original_location"], allow, r.place,
                         Coalesce(it.place, r.place))
        /\ u.mod = IF r.job \notin {None, j} THEN j ELSE r.mod
        /\ u.job = r.job
    BY <2>1, UpdatedFields
  <2>5. /\ w.text = Set(q["data"], allow, u.text, it.text)
        /\ w.file = Set(q["data"], allow, u.file, Coalesce(it.file, u.file))
        /\ w.type = Set(q["data"], allow, u.type, Coalesce(MediaType(it), u.type))
        /\ w.contentHash = IF q["data"] = "keep" THEN u.contentHash
                           ELSE Coalesce(u.contentHash, ContentHash(it))
        /\ w.place = Set(q["original_location"], allow, u.place,
                         Coalesce(it.place, u.place))
        /\ w.mod = IF u.job \notin {None, j} THEN j ELSE u.mod
        /\ w.job = u.job /\ w.ds = u.ds /\ w.key = u.key /\ w.deleted = u.deleted
    BY <1>1, <1>4, UpdatedFields
  <2>6. w.time = u.time
    <3> DEFINE known(x) == IF x = 0 THEN None ELSE x
               tu == Set(p["timestamp"], allow, known(r.time),
                         Coalesce(known(it.time), known(r.time)))
               tw == Set(q["timestamp"], allow, known(u.time),
                         Coalesce(known(it.time), known(u.time)))
    <3>1. /\ it.time \in Times \cup {0} /\ r.time \in Times \cup {0}
          /\ u.time \in Times \cup {0} /\ None \notin Times /\ 0 \notin Times
      BY <1>1, PoliciesAssumption DEF ItemType, RowType
    <3>2. u.time = IF tu = None THEN 0 ELSE tu
      BY <2>1, <3>1, UpdatedFields DEF UpdatedTime, Coalesce
    <3>3. w.time = IF tw = None THEN 0 ELSE tw
      BY <1>1, <1>4, <3>1, UpdatedFields DEF UpdatedTime, Coalesce
    <3>4. known(u.time) = tu
      <4>1. tu \in {known(r.time), Coalesce(known(it.time), known(r.time))}
        BY <2>2, SetChooses
      <4> QED
        BY <3>1, <3>2, <4>1 DEF Coalesce
    <3>5. tw = tu
      <4>1. CASE q["timestamp"] = "keep"
        BY <3>4, <4>1 DEF Set
      <4>2. CASE q["timestamp"] # "keep"
        BY <2>2, <2>3, <3>4, <4>2, SetTwice
      <4> QED
        BY <4>1, <4>2
    <3> QED
      BY <3>2, <3>3, <3>5
  <2>7. w.meta = u.meta /\ w.id = u.id /\ w.idHash = u.idHash
    BY <1>4, <2>1, SameMetadata, SameIds
  <2> HIDE DEF p, q, allow
  <2>8. w.text = u.text /\ w.file = u.file /\ w.type = u.type
    <3>1. CASE q["data"] = "keep"
      BY <2>5, <3>1 DEF Set
    <3>2. CASE q["data"] # "keep"
      BY <2>2, <2>3, <2>4, <2>5, <3>2, SetTwice
    <3> QED
      BY <3>1, <3>2
  <2>9. w.contentHash = u.contentHash
    BY <2>3, <2>4, <2>5 DEF Coalesce
  <2>10. w.place = u.place
    <3>1. CASE q["original_location"] = "keep"
      BY <2>5, <3>1 DEF Set
    <3>2. CASE q["original_location"] # "keep"
      BY <2>2, <2>3, <2>4, <2>5, <3>2, SetTwice
    <3> QED
      BY <3>1, <3>2
  <2>11. w.mod = u.mod
    BY <2>4, <2>5
  <2> QED
    BY <1>1, <2>5, <2>6, <2>7, <2>8, <2>9, <2>10, <2>11 DEF RowType
<1> QED
  BY <1>2, <1>3, <1>4

(* If the priorities of the preferences do not look at what an import       *)
(* changes, an item imported once more changes nothing, whatever is in the  *)
(* row.                                                                     *)
THEOREM RepetitionIsIdle == StablePreferences => (Spec => []ImportIsIdempotent)
<1> SUFFICES ASSUME StablePreferences PROVE Spec => []ImportIsIdempotent
  OBVIOUS
<1>1. StoreInv => ImportIsIdempotent
  BY TwiceIsOnce, StoreAssumption DEF StoreInv, TypeOK, ImportIsIdempotent
<1> QED
  BY <1>1, StoreAlways, PTL
=============================================================================
