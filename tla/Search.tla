-------------------------------- MODULE Search --------------------------------
(***************************************************************************)
(* Searching for items and for people (timeline/search.go, searchentities.go)*)
(* by a client that asks for page after page.  Filters become groups of     *)
(* conditions on rows in which an item is joined with whoever it is of and  *)
(* with its relationships; the rows are grouped by item, and a page is cut  *)
(* from what is ordered.  People come as one row for each attribute and are *)
(* put together again.                                                      *)
(*                                                                          *)
(* The filters by other columns are like those by source or by class, the   *)
(* longitude is like the latitude, and texts are compared as a whole.       *)
(* Searching by embeddings is not modelled, nor is obfuscation.             *)
(***************************************************************************)
EXTENDS Naturals, Sequences, FiniteSets, FiniteSetsExt, SequencesExt

CONSTANTS
  Timelines,     (* [items, relationships, owners, people]                    *)
  Searches,      (* the parameters of searches for items                      *)
  PeopleSearches, (* [names, attributes, limit]                               *)
  RelatedLimit,
  None

SearchAssumption ==
  /\ RelatedLimit \in Nat \ {0}
  /\ \A q \in Searches : q.limit \in Nat \ {0} /\ q.sample \in Nat /\ q.related \in Nat

VARIABLES
  tl,            (* the timeline that is searched                             *)
  query,         (* params of the client, but for the offset                  *)
  offset, pages, (* the pages so far, each [items, total]                     *)
  asked,         (* the search for people                                     *)
  state          (* "paging", "done" or "error"                               *)

vars == <<tl, query, offset, pages, asked, state>>

Items == DOMAIN tl.items
Relationships == DOMAIN tl.relationships

-----------------------------------------------------------------------------
(* The rows                                                                 *)

RootItemsOnly(q) == ~q.flat /\ (q.row = None \/ q.row = {})

(* A left join has a row with 0 for an item that has no relationship.       *)
Joined(q, i) ==
  LET of == {n \in Relationships : tl.relationships[n].to = i}
  IN IF q.toPerson # {} THEN {n \in Relationships : tl.relationships[n].from = i}
     ELSE IF (RootItemsOnly(q) \/ q.relations # {}) /\ of # {} THEN of
     ELSE {0}

(* An attribute may be of several people.                                   *)
Owners(i) == LET by == tl.items[i].attribute
             IN IF by = None \/ tl.owners[by] = {} THEN {None} ELSE tl.owners[by]

RowsOf(q, i) == {[item |-> i, person |-> p, via |-> n] : p \in Owners(i), n \in Joined(q, i)}

(* No slice is no condition, and an empty one asks for NULL.                *)
Among(values, v) == values # None /\ (v \in values \/ (values = {} /\ v = None))

Above(q, v, bound) == v # None /\ bound # None /\ (v > bound \/ (q.inclusive /\ v = bound))
Below(q, v, bound) == v # None /\ bound # None /\ (v < bound \/ (q.inclusive /\ v = bound))

(* Mutant of Root: only what nothing points at.                             *)
RootOfAll(r) == r.via = 0

Root(r) ==
  r.via = 0 \/ LET rel == tl.relationships[r.via] IN ~rel.directed \/ ~rel.subordinating

Labelled(r, f) ==
  (r.via # 0 /\ tl.relationships[r.via].label = f.label) # f.not

(* Each with its name, whether it is part of the query, and whether the row *)
(* meets it; by and(), the groups are all required or, with OrFields, any.  *)
Conditions(q, r) ==
  LET i == tl.items[r.item]
      on(name, is, met) == <<name, is, met>>
  IN {on("row", q.row # None, Among(q.row, r.item)),
      on("source", q.source # None, Among(q.source, i.source)),
      on("person", q.person # None, Among(q.person, r.person)),
      on("class", q.class \notin {None, {}}, Among(q.class, i.class)),
      on("text", q.text # None, Among(q.text, i.text)),
      on("to", q.toPerson # {}, r.via # 0 /\ tl.relationships[r.via].attribute \in q.toPerson),
      on("start", q.start # None,
         Above(q, i.time, q.start) \/ (~q.strictStart /\ Above(q, i.until, q.start))),
      on("end", q.end # None, Below(q, i.time, q.end)),
      on("spill", q.end # None /\ q.strictEnd, i.until = None \/ Below(q, i.until, q.end)),
      on("nowhere", q.noLocation, i.place = None),
      on("min", ~q.noLocation /\ q.min # None, Above(q, i.place, q.min)),
      on("max", ~q.noLocation /\ q.max # None, Below(q, i.place, q.max)),
      on("deleted", ~q.deleted /\ (q.row = None \/ q.row = {}), ~i.deleted),
      on("hidden", TRUE, ~i.hidden),
      on("sample", q.sample > 1, q.sample > 1 /\ r.item % q.sample = 0),
      on("root", RootItemsOnly(q), Root(r))}
     \cup {on(f.label, TRUE, Labelled(r, f)) : f \in q.relations}

Matches(q, r) ==
  LET groups == {c \in Conditions(q, r) : c[2]}
  IN IF q.orFields THEN \E c \in groups : c[3] ELSE \A c \in groups : c[3]

(* GROUP BY items.id                                                        *)
Found(q) == {i \in Items : \E r \in RowsOf(q, i) : Matches(q, r)}

-----------------------------------------------------------------------------
(* Order and pages                                                          *)

Distance(t, u) == IF t > u THEN t - u ELSE u - t

(* NULL comes before everything, so it comes last in descending order.      *)
(* Where the query leaves an order open, SQLite, which sorts stably, keeps  *)
(* that of the groups: for what was stored at once, for everything when no  *)
(* sorting is asked for, and below for people of one name.                  *)
Less(v, w) == w # None /\ (v = None \/ v < w)

Ascending(q) ==
  q.sort = "ASC" \/ (q.sort = "" /\ (q.start # None \/ q.min # None) /\ q.end = None /\ q.max = None)

Before(q, i, j) ==
  LET x == tl.items[i]
      y == tl.items[j]
      near(v) == IF v = None THEN None ELSE Distance(v, q.near)
      ordered(v, w) == Less(v, w) \/ (v = w /\ i < j)
  IN CASE q.sort = "none" -> i < j
       [] q.sort # "none" /\ q.near # None -> ordered(near(x.time), near(y.time))
       [] q.sort # "none" /\ q.near = None /\ q.order = "stored" ->
            (IF Ascending(q) THEN x.stored < y.stored ELSE x.stored > y.stored)
              \/ (x.stored = y.stored /\ i < j)
       [] OTHER ->
            IF Ascending(q) THEN ordered(x.time, y.time)
                            ELSE Less(y.time, x.time) \/ (x.time = y.time /\ i > j)

Listing(q) ==
  LET found == Found(q)
      rank(i) == 1 + Cardinality({j \in found : Before(q, j, i)})
  IN [n \in 1..Cardinality(found) |-> CHOOSE i \in found : rank(i) = n]

Cut(q, list, from) == SubSeq(list, from + 1, Min({from + q.limit, Len(list)}))

(* Mutant of Total: one for each row of the join.                           *)
TotalOfRows(q) == Cardinality({r \in UNION {RowsOf(q, i) : i \in Items} : Matches(q, r)})

(* count() over () counts groups; count(DISTINCT items.id) agrees with it.   *)
Total(q) == Cardinality(Found(q))

(* The total is read with each row, so a page without rows has none.        *)
Answer(q, from) ==
  LET list == IF q.onlyTotal THEN <<>> ELSE Cut(q, Listing(q), from)
  IN [items |-> IF q.geojson THEN SelectSeq(list, LAMBDA i : tl.items[i].place # None) ELSE list,
      total |-> IF q.onlyTotal \/ (q.withTotal /\ list # <<>>) THEN Total(q) ELSE 0,
      full |-> Len(list) = q.limit]

(* The table of the relations is joined only together with relationships    *)
(* that end at the item, so looking for senders to somebody needs "flat".   *)
Accepted(q) ==
  /\ q.related <= 2
  /\ ~(q.withTotal /\ q.onlyTotal)
  /\ ~(q.onlyTotal /\ q.geojson)
  /\ q.toPerson # {} => ~RootItemsOnly(q) /\ q.relations = {}
  /\ q.sort \in {"", "ASC", "DESC", "none"}

-----------------------------------------------------------------------------
(* What is related to a result                                              *)

Ends(n) == {tl.relationships[n].from, tl.relationships[n].to} \ {None}

(* Of a hidden item nothing is shown, and of others the first few.          *)
Expanded(i) ==
  LET of == {n \in Relationships : i \in Ends(n)}
  IN IF tl.items[i].hidden THEN {}
     ELSE {n \in of : Cardinality({k \in of : k < n}) < RelatedLimit}

(* An item is loaded for each of the others it has a relationship with.     *)
LoadedFor(j) == UNION {Ends(n) : n \in Expanded(j)} \ {j}

Related(i, degrees) ==
  LET next(s) == s \cup UNION {LoadedFor(j) : j \in s}
      reached[d \in 0..degrees] == IF d = 0 THEN {i} ELSE next(reached[d - 1])
  IN reached[degrees]

(* Of whom a loaded item is, is read with an inner join, which has no row   *)
(* for an attribute of nobody, and then the whole search fails.             *)
Unowned(i) == tl.items[i].attribute # None /\ tl.owners[tl.items[i].attribute] = {}

Unloadable(i, degrees) ==
  degrees > 0 /\ \E j \in Related(i, degrees - 1) : \E k \in LoadedFor(j) : Unowned(k)

-----------------------------------------------------------------------------
(* People                                                                   *)

PeopleRows(p) ==
  LET wanted(e) == /\ p.names = {} \/ tl.people[e].name \in p.names
                   /\ p.attributes = {} \/ tl.people[e].attributes \cap p.attributes # {}
      whose(e) == IF tl.people[e].attributes = {} THEN {None} ELSE tl.people[e].attributes
  IN UNION {{[person |-> e, attribute |-> a] : a \in whose(e)} :
              e \in {x \in DOMAIN tl.people : wanted(x)}}

(* Mutant of PeopleBefore: the rows of a name in the order of attributes.   *)
ByAttribute(r, s) ==
  LET x == tl.people[r.person].name
      y == tl.people[s.person].name
  IN IF x = y THEN Less(r.attribute, s.attribute)
                \/ (r.attribute = s.attribute /\ r.person < s.person)
     ELSE y = None \/ (x # None /\ x < y)

(* ORDER BY entities.name NULLS LAST, and people of one name as they are    *)
(* grouped, which the statement leaves to SQLite.                           *)
PeopleBefore(r, s) ==
  LET x == tl.people[r.person].name
      y == tl.people[s.person].name
  IN IF x = y THEN r.person < s.person \/ (r.person = s.person /\ Less(r.attribute, s.attribute))
     ELSE y = None \/ (x # None /\ x < y)

(* LIMIT counts rows.                                                       *)
PeopleRead(p) ==
  LET rows == PeopleRows(p)
      rank(r) == 1 + Cardinality({s \in rows : PeopleBefore(s, r)})
  IN [n \in 1..Min({p.limit, Cardinality(rows)}) |-> CHOOSE r \in rows : rank(r) = n]

(* A row of the same person is added to the aggregate; another one ends it. *)
People(p) ==
  LET add(list, r) ==
        IF list # <<>> /\ list[Len(list)].person = r.person
          THEN [list EXCEPT ![Len(list)].attributes = Append(@, r.attribute)]
          ELSE Append(list, [person |-> r.person, attributes |-> <<r.attribute>>])
      all == FoldLeft(add, <<>>, PeopleRead(p))
  IN SubSeq(all, 1, Min({p.limit, Len(all)}))

-----------------------------------------------------------------------------

Init ==
  /\ tl \in Timelines /\ query \in Searches /\ asked \in PeopleSearches
  /\ offset = 0 /\ pages = <<>> /\ state = "paging"

(* A page with a result from which an item of nobody would be loaded.       *)
Fails(q, from) ==
  ~q.onlyTotal /\ ~q.geojson
    /\ \E i \in ToSet(Cut(q, Listing(q), from)) : Unloadable(i, q.related)

(* Search, called for one page after the other as long as pages are full.   *)
NextPage ==
  /\ state = "paging" /\ Accepted(query) /\ ~Fails(query, offset)
  /\ LET answer == Answer(query, offset)
     IN /\ pages' = Append(pages, answer)
        /\ state' = IF answer.full /\ ~query.onlyTotal THEN "paging" ELSE "done"
  /\ offset' = offset + query.limit
  /\ UNCHANGED <<tl, query, asked>>

Refuse ==
  /\ state = "paging" /\ (~Accepted(query) \/ Fails(query, offset))
  /\ state' = "error"
  /\ UNCHANGED <<tl, query, offset, pages, asked>>

Next == NextPage \/ Refuse

Spec == Init /\ [][Next]_vars

-----------------------------------------------------------------------------

TypeOK ==
  /\ offset \in Nat /\ state \in {"paging", "done", "error"}
  /\ \A n \in DOMAIN pages : Range(pages[n].items) \subseteq Items /\ pages[n].total \in Nat

Shown == FlattenSeq([n \in DOMAIN pages |-> pages[n].items])

(* What an item itself says of a search that requires all its filters,      *)
(* whatever rows the joins make of it.                                      *)
Visible(q, i) ==
  LET x == tl.items[i]
      into == {n \in Relationships : tl.relationships[n].to = i}
      dependent == {n \in into : tl.relationships[n].directed /\ tl.relationships[n].subordinating}
  IN /\ ~x.hidden
     /\ x.deleted => q.deleted \/ q.row \notin {None, {}}
     /\ RootItemsOnly(q) => into = {} \/ into # dependent
     /\ q.person \notin {None, {}} => \E p \in q.person : x.attribute # None /\ p \in tl.owners[x.attribute]
     /\ q.toPerson # {} => \E n \in Relationships : /\ tl.relationships[n].from = i
                                                    /\ tl.relationships[n].attribute \in q.toPerson
     /\ \A f \in q.relations : ~f.not => \E n \in into : tl.relationships[n].label = f.label

(* "By default, search results will prioritize the root nodes" (search.go:119)*)
(* and "always skip hidden items" (661): the pages together hold every item  *)
(* that the filters let through, once and in the order of the first page,   *)
(* and each page tells how many they are.                                   *)
PagesAreExact ==
  ~query.orFields =>
    /\ \A n \in DOMAIN Shown : Visible(query, Shown[n])
    /\ IsInjective(Shown)
    /\ ~query.onlyTotal /\ ~query.geojson =>
         /\ \A i \in Items : Visible(query, i) /\ query.relations = {} =>
              \/ i \in Range(Shown)
              \/ \A r \in RowsOf(query, i) : \E c \in Conditions(query, r) :
                   c[2] /\ ~c[3] /\ c[1] \notin {"root", "hidden", "deleted", "to"}
         /\ query.near = None /\ query.order = "" /\ query.sort # "none" =>
              \A m, n \in DOMAIN Shown : m < n =>
                LET x == tl.items[Shown[m]].time
                    y == tl.items[Shown[n]].time
                IN IF Ascending(query) THEN ~Less(y, x) ELSE ~Less(x, y)
    /\ \A n \in DOMAIN pages :
         pages[n].items # <<>> /\ query.withTotal /\ ~query.geojson => pages[n].total = Len(Shown)

(* Nothing farther than asked for comes with a result, and what comes with  *)
(* an item in one step leads back to it, unless there is too much of it.    *)
RelatedIsMutual ==
  \A i, j \in Items :
    j \in Related(i, 1) /\ ~tl.items[j].hidden
      /\ Cardinality({n \in Relationships : j \in Ends(n)}) <= RelatedLimit => i \in Related(j, 1)

(* "we know they will appear together" (searchentities.go:78): nobody is    *)
(* listed twice, and everybody but the last has all attributes.             *)
PeopleAreWhole ==
  LET list == People(asked)
  IN /\ \A m, n \in DOMAIN list : list[m].person = list[n].person => m = n
     /\ \A n \in DOMAIN list : n < Len(list) =>
          ToSet(list[n].attributes) \ {None} = tl.people[list[n].person].attributes

SearchIsExact == state = "done" => PagesAreExact /\ RelatedIsMutual /\ PeopleAreWhole
==============================================================================
