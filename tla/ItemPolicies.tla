---------------------------- MODULE ItemPolicies ----------------------------
(***************************************************************************)
(* What an import does to the row of an item that exists already: the       *)
(* user's preferences become a policy per field (timeline.go,               *)
(* distillUpdatePolicies), fields that would not change are struck out      *)
(* (processing.go, shouldProcessExistingItem), and the rest is merged into  *)
(* the row (fillItemRow, insertOrUpdateItem).  Nothing here has state.      *)
(*                                                                         *)
(* The columns that behave alike are represented by one of them:            *)
(* original_location stands for every plain nullable column.                *)
(***************************************************************************)
EXTENDS Naturals, FiniteSets, Sequences

CONSTANTS
  Jobs,        (* imports                                                  *)
  DataSources, (* data sources                                             *)
  Ids,         (* original IDs, assigned by a data source                  *)
  Texts,       (* text contents, kept in the row                           *)
  Files,       (* contents of data files, which are their hashes           *)
  Places,      (* values of original_location                              *)
  Times,       (* timestamps other than zero                               *)
  MetaKeys,    (* keys of the metadata                                     *)
  MetaVals,    (* values of the metadata                                   *)
  Keys,        (* retrieval keys                                           *)
  Length,      (* the length of every text and file                        *)
  DS,          (* the data source of every import                          *)
  Preferences, (* of every import, per field: priorities, nulls            *)
  None

ASSUME PoliciesAssumption ==
  /\ Times \subseteq Nat \ {0}
  /\ Length \in [Texts \cup Files -> Nat]
  /\ DS \in [Jobs -> DataSources]
  /\ \A j \in Jobs : \A f \in DOMAIN Preferences[j] :
       DOMAIN Preferences[j][f].priorities \subseteq Nat
  /\ None \notin Jobs \cup DataSources \cup Ids \cup Texts \cup Files
                 \cup Places \cup Times \cup MetaVals \cup Keys
                 \cup DataSources \X Ids
                 \cup (Times \cup {0}) \X (Texts \cup Files)
  /\ Texts \cap Files = {}

Opt(S) == S \cup {None}

(* Retrieval keys and IDs: an item has one or the other.                    *)
Meta == [MetaKeys -> Opt(MetaVals)]
NoMeta == [k \in MetaKeys |-> None]

ItemType ==
  [id: Opt(Ids), key: Opt(Keys), text: Opt(Texts), file: Opt(Files),
   place: Opt(Places), time: Times \cup {0}, meta: Meta]

(* extended_items: the columns the decisions read.                          *)
Types == {"text", "binary"}
ContentHashes == (Times \cup {0}) \X (Texts \cup Files)
RowType ==
  [ds: Opt(DataSources), job: Opt(Jobs), mod: Opt(Jobs),
   id: Opt(Ids), key: Opt(Keys), text: Opt(Texts), file: Opt(Files),
   type: Opt(Types), place: Opt(Places), time: Times \cup {0}, meta: Meta,
   idHash: Opt(DataSources \X Ids), contentHash: Opt(ContentHashes),
   deleted: {"no", "trash", "erased"}]

Fields == {"data", "original_location", "timestamp", "metadata", "original_id"}

(* UpdatePolicyKeepExisting, which is the same as no policy, and so on.     *)
Policies == {"keep", "preferExisting", "overwrite", "preferIncoming"}

HasData(it) == it.text # None \/ it.file # None
MediaType(it) ==
  IF it.text # None THEN "text" ELSE IF it.file # None THEN "binary" ELSE None
Data(x) == IF x.text # None THEN x.text ELSE x.file

(* makeIDHash and makeContentHash; a hash is what was hashed.               *)
IdHash(j, it) == IF it.id = None THEN None ELSE <<DS[j], it.id>>
ContentHash(it) == IF HasData(it) THEN <<it.time, Data(it)>> ELSE None

-----------------------------------------------------------------------------
(* From preferences to policies.                                           *)

(* A priority decides for one of the two, or does not distinguish them.     *)
(* A missing text or file has length -1 in the code: here 0, the others     *)
(* being one longer.                                                        *)

(* Mutant of Size: only text has a size. *)
SizeOfText(x) == IF x.text # None THEN 1 + Length[x.text] ELSE 0
Size(x) == IF HasData(x) THEN 1 + Length[Data(x)] ELSE 0

Favours(existing, incoming) ==
  IF existing THEN "existing" ELSE IF incoming THEN "incoming" ELSE "neither"

Verdict(priority, j, it, r) ==
  LET value == priority.value IN
  CASE priority.property = "keep" ->
         Favours(value = "existing", value = "incoming")
    [] priority.property = "data_source" ->
         IF r.ds = DS[j] THEN "neither"
         ELSE Favours(r.ds = value, DS[j] = value)
    [] priority.property = "media_type" ->
         IF r.type = MediaType(it) THEN "neither"
         ELSE Favours(r.type = value, MediaType(it) = value)
    [] priority.property = "size" ->
         IF value = "bigger"
         THEN Favours(Size(r) > Size(it), Size(it) > Size(r))
         ELSE Favours(Size(r) < Size(it), Size(it) < Size(r))
    [] priority.property = "timestamp" ->      \* a known one beats none
         LET better(x, y) ==
               x # 0 /\ (y = 0 \/ IF value = "earlier" THEN x < y ELSE x > y)
         IN Favours(better(r.time, it.time), better(it.time, r.time))

(* distillUpdatePolicy: the first priority that decides.                    *)
Distill(pref, j, it, r) ==
  LET deciding == {i \in DOMAIN pref.priorities :
                     Verdict(pref.priorities[i], j, it, r) # "neither"}
      first == CHOOSE i \in deciding : \A k \in deciding : i <= k
  IN IF deciding = {} THEN "keep"
     ELSE IF Verdict(pref.priorities[first], j, it, r) = "existing"
          THEN IF pref.nulls THEN "keep" ELSE "preferExisting"
          ELSE IF pref.nulls THEN "overwrite" ELSE "preferIncoming"

DistillPolicies(j, it, r) ==
  [f \in Fields |-> IF f \in DOMAIN Preferences[j]
                    THEN Distill(Preferences[j][f], j, it, r) ELSE "keep"]

-----------------------------------------------------------------------------
(* Which of them remain.                                                   *)

(* Within one import the data source may give an item in pieces: what the   *)
(* row lacks is taken.                                                      *)
Lacks(f, it, r) ==
  CASE f = "data" -> r.text = None /\ r.file = None /\ HasData(it)
    [] f = "original_location" -> r.place = None /\ it.place # None
    [] f = "timestamp" -> r.time = 0 /\ it.time # 0
    [] f = "original_id" -> r.id = None /\ it.id # None
    [] f = "metadata" -> it.meta # NoMeta

PiecewisePolicies(j, it, r, pol) ==
  [f \in Fields |->
     IF r.job = j /\ Lacks(f, it, r) THEN "preferIncoming" ELSE pol[f]]

(* Metadata is merged per key; an overwriting policy merges nothing.        *)
MergedMeta(policy, it, r) ==
  CASE r.meta # NoMeta /\ policy = "preferExisting" ->
         [k \in MetaKeys |-> IF r.meta[k] # None THEN r.meta[k] ELSE it.meta[k]]
    [] r.meta # NoMeta /\ policy = "preferIncoming" ->
         [k \in MetaKeys |-> IF it.meta[k] # None THEN it.meta[k] ELSE r.meta[k]]
    [] OTHER -> it.meta

MetaChanges(policy, it, r) ==
  \/ \E k \in MetaKeys : it.meta[k] # None /\ r.meta[k] = None
  \/ /\ policy = "preferIncoming"
     /\ \E k \in MetaKeys : /\ None \notin {it.meta[k], r.meta[k]}
                            /\ it.meta[k] # r.meta[k]

(* The policies the deferred function of shouldProcessExistingItem deletes: *)
(* updates that would not change the row.                                   *)
Idle(f, policy, it, r) ==
  CASE f = "data" ->
         \/ ~HasData(it) /\ ~HasData(r)
         \/ r.text # None /\ r.text = it.text
         \/ r.file # None /\ r.file = it.file
         \/ ~HasData(it) /\ policy # "overwrite"
    [] f = "original_location" ->
         r.place = it.place \/ (it.place = None /\ policy # "overwrite")
    [] f = "timestamp" ->
         r.time = it.time \/ (it.time = 0 /\ policy # "overwrite")
    [] f = "metadata" ->
         \/ it.meta = NoMeta /\ (r.meta = NoMeta \/ policy # "overwrite")
         \/ r.meta # NoMeta /\ ~MetaChanges(policy, it, r)
    [] f = "original_id" -> FALSE

(* shouldProcessExistingItem: the updates of the item, none if there is     *)
(* nothing to do.  Whatever else asks for the item to be processed (missing *)
(* data, a failed integrity check) comes to nothing without a policy left.  *)

(* Mutant of UpdatesOf: erased rows are updated as well. *)
UpdatesOfAny(j, it, r) ==
  LET pol == PiecewisePolicies(j, it, r, DistillPolicies(j, it, r))
  IN [f \in Fields |-> IF Idle(f, pol[f], it, r) THEN "keep" ELSE pol[f]]
UpdatesOf(j, it, r) ==
  LET pol == PiecewisePolicies(j, it, r, DistillPolicies(j, it, r))
  IN [f \in Fields |-> IF r.deleted # "no" \/ Idle(f, pol[f], it, r)
                       THEN "keep" ELSE pol[f]]

Reprocess(upd) == \E f \in Fields : upd[f] # "keep"

-----------------------------------------------------------------------------
(* Merging.                                                                *)

Coalesce(x, y) == IF x # None THEN x ELSE y

(* appendToQuery: new is the value fillItemRow put into the loaded row.     *)

(* Mutant of Set: a missing value is written too. *)
SetNulls(policy, allowOverwrite, old, new) ==
  CASE policy = "keep" -> old
    [] policy = "preferExisting" -> Coalesce(old, new)
    [] OTHER -> new
Set(policy, allowOverwrite, old, new) ==
  CASE policy = "keep" -> old
    [] policy = "preferExisting" -> Coalesce(old, new)
    [] policy = "overwrite" /\ allowOverwrite -> new
    [] OTHER -> Coalesce(new, old)

(* The row stays with the import that inserted it; modified_job_id names    *)
(* the last other one to update it.                                         *)

(* Mutant of Marked: the row becomes the last import's. *)
MarkedOwn(j, r) == [r EXCEPT !.job = j]
Marked(j, r) == [r EXCEPT !.mod = IF r.job \notin {None, j} THEN j ELSE @]

(* fillItemRow keeps what it loaded where the item has nothing, except for  *)
(* the text and the metadata, which it replaces in any case.                *)
Updated(j, it, r) ==
  LET upd == UpdatesOf(j, it, r)
      set(f, old, new) == Set(upd[f], HasData(it), old, new)
      data(old, new) == set("data", old, new)
      time == set("timestamp", IF r.time = 0 THEN None ELSE r.time,
                  IF it.time # 0 THEN it.time
                  ELSE IF r.time = 0 THEN None ELSE r.time)
  IN IF ~Reprocess(upd) THEN r
     ELSE [Marked(j, r) EXCEPT
             !.id = set("original_id", @, Coalesce(it.id, @)),
             !.idHash = set("original_id", @, IdHash(j, it)),
             !.text = data(@, it.text),
             !.file = data(@, Coalesce(it.file, @)),
             !.type = data(@, Coalesce(MediaType(it), @)),
             !.contentHash = IF upd["data"] = "keep" THEN @
                             ELSE Coalesce(@, ContentHash(it)),
             !.place = set("original_location", @, Coalesce(it.place, @)),
             !.time = IF time = None THEN 0 ELSE time,
             !.meta = IF upd["metadata"] # "keep" /\ it.meta # NoMeta
                      THEN MergedMeta(upd["metadata"], it, r) ELSE @]

Inserted(j, it) ==
  [ds |-> DS[j], job |-> j, mod |-> None, id |-> it.id, key |-> it.key,
   text |-> it.text, file |-> it.file, type |-> MediaType(it),
   place |-> it.place, time |-> it.time, meta |-> it.meta,
   idHash |-> IdHash(j, it), contentHash |-> ContentHash(it),
   deleted |-> "no"]

=============================================================================
