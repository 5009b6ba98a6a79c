------------------------------- MODULE Entities -------------------------------
(***************************************************************************)
(* The people of a timeline: how imports recognise them by their attributes *)
(* and join them, and how a user joins them (entities.go).                  *)
(*                                                                         *)
(* The rows an import stores do not name a person but an attribute, the one *)
(* that identifies the person on the data source, or else the special       *)
(* "_entity" attribute made of the person's row ID: whoever is linked to    *)
(* the attribute is the person.  Joining two people is moving links.        *)
(*                                                                         *)
(* One graph of a batch is one step: batches and merges are transactions on *)
(* the one write connection.  A merge reads its people before it has that   *)
(* connection.  Coordinates, places (found by name) and metadata (handled   *)
(* like names) are left out.                                                *)
(***************************************************************************)
EXTENDS Naturals, FiniteSets, Sequences, SequencesExt, FiniteSetsExt, TLC

CONSTANTS
  Values,     (* what an attribute may say                                  *)
  Persons,    (* what data sources say of a person, see PersonType          *)
  Records,    (* what imports bring: record |-> [source, kind, ends]        *)
  Additions,  (* the people a user adds                                     *)
  Users,      (* whose merges may overlap                                   *)
  Requests,   (* what they merge: [keep, merge], row IDs, one at least      *)
  MaxPeople,  (* how many people are ever created (bound)                   *)
  None

Owner == 1
Ids == 1..MaxPeople

PersonType == [id: Ids \cup {0}, name: STRING, picture: BOOLEAN,
               attrs: Seq([value: Values, role: {"identity", "identifying", "plain"}])]

(* Normalised: one identity at most (normalizeEntity).                      *)
EntitiesAssumption ==
  /\ Additions \subseteq Persons
  /\ \A in \in Persons :
       /\ in \in PersonType
       /\ \A i, j \in DOMAIN in.attrs :
            in.attrs[i].role = "identity" /\ in.attrs[j].role = "identity" => i = j
  /\ \A r \in DOMAIN Records :
       /\ Records[r].kind \in {"item", "relationship"}
       /\ Len(Records[r].ends) = (IF Records[r].kind = "item" THEN 1 ELSE 2)
       /\ Range(Records[r].ends) \subseteq Persons
  /\ MaxPeople \in Nat \ {0}
  /\ None \notin Ids

VARIABLES
  db,      (* [people, links, pictures, created], see TypeOK                *)
  stored,  (* the items and relationships stored                            *)
  pending  (* per user, the merge whose people have been read               *)

vars == <<db, stored, pending>>

(* identity: the attribute of a latentID; of PassThrough there is one per   *)
(* row ID, by text: the lookups of mergeEntities compare it with a number   *)
(* and never find it (schema.sql "value" ANY).                              *)
PassThrough(id) == <<"_entity", id>>
Attributes == Values \cup {PassThrough(id) : id \in Ids}

(* births: which of the people ever created this row stands for; only for   *)
(* the properties.                                                          *)
Row == [name: STRING, picture: Ids \cup {None}, births: SUBSET Ids]
Link == [entity: Ids, attr: Attributes, source: {Records[r].source : r \in DOMAIN Records} \cup {None}]

People(d) == DOMAIN d.people

(* The row IDs SQLite gives: one more than the largest in the table.        *)
NewId(d) == 1 + Max(People(d))

(* INSERT INTO entities.                                                    *)
Added(d, name, picture) ==
  LET id == NewId(d) IN
  [d EXCEPT !.people =
              [e \in People(d) \cup {id} |->
                 IF e = id
                 THEN [name |-> name, picture |-> IF picture THEN id ELSE None,
                       births |-> {d.created + 1}]
                 ELSE d.people[e]],
            !.pictures = IF picture THEN @ \cup {id} ELSE @,
            !.created = @ + 1]

-----------------------------------------------------------------------------
(* Finding people.                                                          *)

(* Mutant of Alike: only the identity of the data source counts.            *)
AlikeByIdentity(d, in) ==
  {e \in People(d) : \E l \in d.links, i \in DOMAIN in.attrs :
     in.attrs[i].role = "identity" /\ l = [l EXCEPT !.entity = e, !.attr = in.attrs[i].value]}

(* loadEntities: by the attributes that identify, in the order of their IDs *)
(* (the order of the index, and of UNION).                                  *)
Identifies(attr) == attr.role \in {"identity", "identifying"}
Alike(d, in) ==
  {e \in People(d) : \E l \in d.links, i \in DOMAIN in.attrs :
     Identifies(in.attrs[i]) /\ l = [l EXCEPT !.entity = e, !.attr = in.attrs[i].value]}

Found(d, in) ==
  IF Alike(d, in) = {} THEN {in.id} \cap People(d) ELSE Alike(d, in)

(* Mutant of Compatible: whoever shares an attribute is one person.         *)
CompatibleAlways(d, es) == TRUE

(* entityNamesCompatible.                                                   *)
Compatible(d, es) ==
  \A e, f \in es : "" \in {d.people[e].name, d.people[f].name} \/ d.people[e].name = d.people[f].name

-----------------------------------------------------------------------------
(* Linking attributes.                                                      *)

Linked(e, a, s) == [entity |-> e, attr |-> a, source |-> s]

(* Mutant of Linkable: foreign keys are off.                                *)
LinkableAlways(d, e) == TRUE

(* FOREIGN KEY (entity_id).                                                 *)
Linkable(d, e) == e \in People(d)

(* The inner loop of processEntity, for one attribute and one entity; the   *)
(* row it looks at is any of those that match (LIMIT 1).  It fails on the   *)
(* foreign key when the entity has been merged, and on the UNIQUE           *)
(* constraint when the row of this source exists beside the one it picked.  *)
LinkOutcomes(r, e, attr, src) ==
  LET identity == attr.role = "identity"
      new == Linked(e, attr.value, IF identity THEN src ELSE None)
      matching == {l \in r.db.links : /\ l.entity = e /\ l.attr = attr.value
                                      /\ identity => l.source \in {src, None}}
  IN  IF ~r.ok THEN {r}
      ELSE IF matching = {}
      THEN IF Linkable(r.db, e) THEN {[r EXCEPT !.db.links = @ \cup {new}]}
                                 ELSE {[r EXCEPT !.ok = FALSE]}
      ELSE {IF l.source # None \/ ~identity THEN r
            ELSE IF new \in r.db.links THEN [r EXCEPT !.ok = FALSE]
            ELSE [r EXCEPT !.db.links = (@ \ {l}) \cup {new}] : l \in matching}

(* Each attribute with each of the people, in order.                        *)
LinkedAll(r, es, attrs, src) ==
  LET count == Len(es) * Len(attrs)
      after[n \in 0..count] ==
        IF n = 0 THEN {r}
        ELSE UNION {LinkOutcomes(q, es[((n - 1) % Len(es)) + 1],
                                 attrs[((n - 1) \div Len(es)) + 1], src) : q \in after[n - 1]}
  IN  after[count]

(* storeLinkBetweenEntityAndNonIDAttribute.                                 *)
PlainLink(d, e, a) ==
  IF \E l \in d.links : l.entity = e /\ l.attr = a THEN d
  ELSE [d EXCEPT !.links = @ \cup {Linked(e, a, None)}]

-----------------------------------------------------------------------------
(* Joining people: mergeEntities.  keep and merge are what was read of the  *)
(* rows: [id, name, picture].                                               *)

Read(d, id) == [id |-> id, name |-> d.people[id].name, picture |-> d.people[id].picture]

KeptAs(keep, merge) ==
  [keep EXCEPT !.name = IF @ = "" THEN merge.name ELSE @,
               !.picture = IF @ = None THEN merge.picture ELSE @]

(* Mutant of Moved: links are not moved, and go with the merged entity.     *)
Forgotten(links, from, to) == {l \in links : l.entity # from}

(* Links the kept entity has in the same way are dropped, the others move.  *)
Moved(links, from, to) ==
  {l \in links : l.entity # from} \cup {[l EXCEPT !.entity = to] : l \in {k \in links : k.entity = from}}

(* Mutant of Unneeded: it is deleted though the kept entity took it over.   *)
UnneededAlways(keep, merge) == {merge.picture} \ {None}

(* The picture of the merged entity that is not needed.                     *)
Unneeded(keep, merge) == IF keep.picture = None THEN {} ELSE {merge.picture} \ {None}

(* One of the entities to merge.  The links of a merged entity cannot be    *)
(* moved to one that is gone (foreign key).                                 *)
MergeOne(r, merge) ==
  LET keep == KeptAs(r.keep, merge)
      row(p) == [p EXCEPT !.name = keep.name, !.picture = keep.picture,
                          !.births = @ \cup (IF merge.id \in People(r.db)
                                             THEN r.db.people[merge.id].births ELSE {})]
  IN  IF ~r.ok \/ (keep.id \notin People(r.db) /\ \E l \in r.db.links : l.entity = merge.id)
      THEN [r EXCEPT !.ok = FALSE]
      ELSE [r EXCEPT !.keep = keep,
                     !.db.people = [e \in People(r.db) \ {merge.id} |->
                                      IF e = keep.id THEN row(r.db.people[e]) ELSE r.db.people[e]],
                     !.db.links = Moved(@, merge.id, keep.id),
                     !.db.pictures = @ \ Unneeded(r.keep, merge)]

MergeEntities(d, keep, merges) ==
  FoldLeft(MergeOne, [ok |-> TRUE, db |-> d, keep |-> keep], merges)

-----------------------------------------------------------------------------
(* processEntity: what may come of it, [ok, db, entity, attr]; entity = 0   *)
(* when there is nobody (Entity.IsEmpty).  People joined stay joined when   *)
(* it fails: the transaction goes on.                                       *)

Empty(in) == in.id = 0 /\ in.name = "" /\ ~in.picture /\ in.attrs = <<>>

Identity(in) ==
  LET is == {i \in DOMAIN in.attrs : in.attrs[i].role = "identity"}
  IN  IF is = {} THEN None ELSE in.attrs[CHOOSE i \in is : TRUE].value

(* One match: what it lacks is filled in.  Whether the names agree is not   *)
(* asked.                                                                   *)
Completed(d, e, in) ==
  LET row == d.people[e]
      pictured == row.picture = None /\ in.picture
  IN  [d EXCEPT !.people[e].name = IF @ = "" THEN in.name ELSE @,
                !.people[e].picture = IF pictured THEN e ELSE @,
                !.pictures = IF pictured THEN @ \cup {e} ELSE @]

(* More than one: they are joined if their names allow it.                  *)
Joined(d, es) ==
  LET keep == Min(es)
      others == SetToSortSeq(es \ {keep}, <)
  IN  IF Compatible(d, es)
      THEN MergeEntities(d, Read(d, keep), [i \in DOMAIN others |-> Read(d, others[i])]).db
      ELSE d

Failed(d) == [ok |-> FALSE, db |-> d, entity |-> 0, attr |-> None]

ProcessEntity(d, in, src) ==
  LET es == Found(d, in)
      ready == CASE es = {} -> Added(d, in.name, in.picture)
                 [] Cardinality(es) = 1 -> Completed(d, Min(es), in)
                 [] OTHER -> Joined(d, es)
      (* the list still names the people just joined with the first         *)
      list == IF es = {} THEN <<NewId(d)>> ELSE SetToSortSeq(es, <)
      first == [ok |-> TRUE, db |-> ready, entity |-> list[1], attr |-> Identity(in)]
  IN  IF Empty(in) THEN {[Failed(d) EXCEPT !.ok = TRUE]}
      ELSE IF es = {} /\ in.id > 0 /\ in.attrs = <<>> THEN {Failed(d)}
      ELSE LinkedAll(first, list, in.attrs, src)

(* identifyingAttributeID.                                                  *)
WithAttribute(r) ==
  IF ~r.ok \/ r.attr # None THEN r
  ELSE [r EXCEPT !.db = PlainLink(@, r.entity, PassThrough(r.entity)),
                 !.attr = PassThrough(r.entity)]

-----------------------------------------------------------------------------
Init ==
  /\ db = [people |-> Owner :> [name |-> "owner", picture |-> None, births |-> {1}],
           links |-> {}, pictures |-> {}, created |-> 1]
  /\ stored = {}
  /\ pending = [u \in Users |-> None]

(* fillItemRow for the owner of an item; linkRelation for the two sides of  *)
(* a relationship.  Nothing is stored if one fails; nobody owns an item     *)
(* without owner, while a relationship needs both sides.                    *)
EndOutcomes(r, in, src) ==
  IF ~r.ok THEN {r}
  ELSE {LET w == IF q.entity = 0 THEN [q EXCEPT !.ok = r.kind = "item"] ELSE WithAttribute(q)
        IN  [r EXCEPT !.ok = w.ok, !.db = w.db,
                      !.ends = Append(@, [attr |-> w.attr,
                                          of |-> IF w.ok /\ w.entity # 0
                                                 THEN w.db.people[w.entity].births ELSE {}])]
        : q \in ProcessEntity(r.db, in, src)}

RecordOutcomes(d, r) ==
  LET rec == Records[r]
      start == [ok |-> TRUE, db |-> d, kind |-> rec.kind, ends |-> <<>>]
      one == EndOutcomes(start, rec.ends[1], rec.source)
  IN  IF rec.kind = "item" THEN one
      ELSE UNION {EndOutcomes(q, rec.ends[2], rec.source) : q \in one}

(* An item found in the timeline is not looked at again (no update          *)
(* policies); a relationship is stored unless it is there with the same     *)
(* ends (storeRelationship).                                                *)
Import(r) ==
  /\ Records[r].kind = "item" => \A s \in stored : s.record # r
  /\ \E q \in RecordOutcomes(db, r) :
       /\ q.db.created <= MaxPeople
       /\ db' = q.db
       /\ stored' = IF q.ok /\ \A s \in stored : s.record = r =>
                                  \E i \in DOMAIN q.ends : s.ends[i].attr # q.ends[i].attr
                    THEN stored \cup {[record |-> r, ends |-> q.ends]}
                    ELSE stored
  /\ UNCHANGED pending

(* StoreEntity: a user adds a person; it is not compared with the others.   *)
AddEntity(in) ==
  /\ db.created < MaxPeople
  /\ LET d == Added(db, in.name, FALSE)
         after[n \in 0..Len(in.attrs)] ==
           IF n = 0 THEN d ELSE PlainLink(after[n - 1], NewId(db), in.attrs[n].value)
     IN  db' = after[Len(in.attrs)]
  /\ UNCHANGED <<stored, pending>>

(* Timeline.MergeEntities: the owner is always kept, in exchange for the    *)
(* one to keep.  After the exchange that one may still be in the list.      *)
Accepted(q) ==
  /\ \A i, j \in DOMAIN q.merge : q.merge[i] = q.merge[j] => i = j
  /\ \A i \in DOMAIN q.merge :
       q.merge[i] = q.keep => q.keep # Owner /\ \E j \in 1..(i - 1) : q.merge[j] = Owner

(* Mutant of Exchanged: the entity the user chose is kept.                  *)
AsRequested(q) == q

Exchanged(q) ==
  IF Owner \in Range(q.merge)
  THEN [keep |-> Owner, merge |-> [i \in DOMAIN q.merge |->
                                     IF q.merge[i] = Owner THEN q.keep ELSE q.merge[i]]]
  ELSE q

(* The people are loaded one after the other, the one to keep at last, and  *)
(* outside of a transaction.                                                *)
RequestMerge(u, q) ==
  LET x == Exchanged(q) IN
  /\ pending[u] = None
  /\ Accepted(q) /\ Head(x.merge) \in People(db)
  /\ pending' = [pending EXCEPT ![u] = [read |-> <<Read(db, Head(x.merge))>>,
                                       todo |-> Append(Tail(x.merge), x.keep)]]
  /\ UNCHANGED <<db, stored>>

Load(u) ==
  /\ pending[u] # None /\ pending[u].todo # <<>>
  /\ LET id == Head(pending[u].todo)
     IN  pending' = [pending EXCEPT ![u] =
           IF id \in People(db) THEN [read |-> Append(@.read, Read(db, id)), todo |-> Tail(@.todo)] ELSE None]
  /\ UNCHANGED <<db, stored>>

Loaded(p) == p # None /\ p.todo = <<>>
Keep(p) == Last(p.read)
Merged(p) == Front(p.read)

(* When it fails the transaction is rolled back, but not what became of     *)
(* the pictures.                                                            *)
Merge(u) ==
  /\ Loaded(pending[u])
  /\ LET r == MergeEntities(db, Keep(pending[u]), Merged(pending[u]))
     IN  db' = IF ~r.ok THEN [db EXCEPT !.pictures = r.db.pictures] ELSE r.db
  /\ pending' = [pending EXCEPT ![u] = None]
  /\ UNCHANGED stored

Next ==
  \/ \E r \in DOMAIN Records : Import(r)
  \/ \E in \in Additions : AddEntity(in)
  \/ \E u \in Users : (\E q \in Requests : RequestMerge(u, q)) \/ Load(u) \/ Merge(u)

Spec == Init /\ [][Next]_vars

-----------------------------------------------------------------------------
(* The owner's row is always there; links join people and attributes that   *)
(* exist, each in one way on one source.                                    *)
TypeOK ==
  /\ People(db) \subseteq Ids
  /\ db.people \in [People(db) -> Row]
  /\ db.links \subseteq Link
  /\ {l.entity : l \in db.links} \subseteq People(db)
  /\ db.pictures \subseteq Ids
  /\ db.created \in Ids
  /\ \A s \in stored : s.record \in DOMAIN Records

(* The owner of the timeline is never merged into somebody else, by a user  *)
(* or by an import.                                                         *)
OwnerStays == Owner \in People(db) /\ 1 \in db.people[Owner].births

(* What was stored for a person can be found with that person, or the one   *)
(* it became part of, however often people are joined and row IDs reused.   *)
RecordsKeepTheirPeople ==
  \A s \in stored : \A i \in DOMAIN s.ends :
    s.ends[i].attr # None =>
      \E l \in db.links : l.attr = s.ends[i].attr /\ l.entity \in People(db)
                          /\ s.ends[i].of \subseteq db.people[l.entity].births

(* entities.go:617-627: "Obviously, these entities should not be combined,  *)
(* as one is named Jane and the other is named Joe!": an import leaves      *)
(* everybody who has a name a row of that name, for all that the row stood  *)
(* for, so that it neither renames people nor joins two whose names differ. *)
(* Who comes in under another name but matches one person only is taken for *)
(* that person all the same (548-598), and leaves no trace to compare.      *)
(* The user's merges, which end a request, may join whom they like.         *)
NamesStay ==
  UNCHANGED pending =>
    \A e \in People(db) : db.people[e].name # "" =>
      \E f \in People(db') : /\ db.people[e].births \subseteq db'.people[f].births
                            /\ db'.people[f].name = db.people[e].name

(* Somebody imported again is recognised: who can be identified and has     *)
(* been processed changes nothing the second time.  (Requests that are only *)
(* pending do not matter: every db is reached without them, too.)           *)
Plain(d) == [links |-> d.links, people |-> d.people]
KnownAreRecognised ==
  (\A u \in Users : pending[u] = None) =>
  \A r \in DOMAIN Records : \A in \in Range(Records[r].ends) :
    (\E i \in DOMAIN in.attrs : Identifies(in.attrs[i])) =>
      \A once \in ProcessEntity(db, in, Records[r].source) :
        once.ok => \A twice \in ProcessEntity(once.db, in, Records[r].source) :
                     twice.ok => Plain(twice.db) = Plain(once.db)

(* A merge whose people have not changed since they were read loses neither *)
(* a link nor the name nor the picture; unless they share the file of a     *)
(* picture, which they do after a merge of outdated rows, or when a row ID  *)
(* is used again: the file is named after it (entities.go:412).             *)
Fresh(p) ==
  LET all == p.read
  IN  /\ \A i \in DOMAIN all : all[i].id \in People(db) /\ all[i] = Read(db, all[i].id)
      /\ \A i, j \in DOMAIN all :
           i # j => all[i].id # all[j].id /\ (all[i].picture = None \/ all[i].picture # all[j].picture)
Kept(p, d) ==
  LET all == Range(p.read)
      row == d.people[Keep(p).id]
  IN  /\ \A l \in db.links : (\E m \in all : l.entity = m.id) =>
                               [l EXCEPT !.entity = Keep(p).id] \in d.links
      /\ (\E m \in all : m.name # "") => row.name # ""
      /\ (\E m \in all : m.picture # None) => row.picture # None
      /\ row.picture \in db.pictures => row.picture \in d.pictures
MergeLosesNothing ==
  \A u \in Users :
    Loaded(pending[u]) /\ pending'[u] = None /\ Fresh(pending[u]) => Kept(pending[u], db')
==============================================================================
