---------------------------- MODULE Conversations ----------------------------
(***************************************************************************)
(* The list of recent conversations (timeline/conversations.go): pages of   *)
(* rows, the newest first, one row for each recipient of a message, are put *)
(* together to messages and the messages to conversations, which are told   *)
(* apart by the people who take part.  A conversation that is chosen from   *)
(* the list is then loaded by its people.                                   *)
(*                                                                          *)
(* The rows do not change in between: the list is made in one transaction.  *)
(* Every person has one attribute.  Of the filters there is the one by      *)
(* people; those that only leave out messages are not modelled.             *)
(***************************************************************************)
EXTENDS Naturals, Sequences, FiniteSets, FiniteSetsExt, SequencesExt

CONSTANTS
  Mailboxes,    (* the messages of a timeline, as functions from numbers     *)
  Filters,      (* the sets of people that are asked for                     *)
  RowLimit, PreviewSize, MaxQueries, Limit,
  None

ConversationsAssumption ==
  /\ {RowLimit, PreviewSize, MaxQueries, Limit} \subseteq Nat \ {0}
  /\ \A box \in Mailboxes : \A m \in DOMAIN box :
       box[m].time \in (Nat \ {0}) \cup {None} /\ box[m].kind \in {"message", "other"}

VARIABLES
  items,        (* number -> [time, from, to, kind], to: <<[who, relation]>> *)
  tie,          (* how SQLite happens to order rows of the same time         *)
  people,       (* params.EntityID                                           *)
  stage, page,  (* the rows of a page that are not scanned yet               *)
  full,         (* whether the page had RowLimit rows                        *)
  queries, until,  (* untilUnixMs                                            *)
  current, last,   (* currentConvo, lastItemID                               *)
  convos,       (* convosMap                                                 *)
  scanned       (* all rows that were scanned, in order                      *)

given == <<items, tie, people>>
vars == <<given, stage, page, full, queries, until, current, last, convos, scanned>>

-----------------------------------------------------------------------------
(* The query                                                               *)

Row(m, k) == [item |-> m, n |-> k, from |-> items[m].from, to |-> items[m].to[k].who]

(* What was sent, or is a message by its classification.                    *)
RowsOf(m) ==
  {Row(m, k) : k \in {n \in DOMAIN items[m].to :
                        items[m].kind = "message" \/ items[m].to[n].relation = "sent"}}

(* The filter by people keeps the rows that name one of them.               *)
Wanted(r) == people = {} \/ r.from \in people \/ r.to \in people

Time(r) == items[r.item].time
Newer(t, u) == t # None /\ (u = None \/ t > u)

(* ORDER BY timestamp DESC; NULL is the smallest, and the rows of one time  *)
(* come in the order in which the tables are read.                          *)
Precedes(r, s) ==
  \/ Newer(Time(r), Time(s))
  \/ /\ Time(r) = Time(s)
     /\ IF tie = "items" THEN r.item < s.item \/ (r.item = s.item /\ r.n < s.n)
                         ELSE r.n < s.n \/ (r.n = s.n /\ r.item < s.item)

Page(t) ==
  LET found == {r \in UNION {RowsOf(m) : m \in DOMAIN items} :
                  Wanted(r) /\ (t = None \/ (Time(r) # None /\ Newer(t, Time(r))))}
      place(r) == 1 + Cardinality({s \in found : Precedes(s, r)})
  IN [n \in 1..Min({RowLimit, Cardinality(found)}) |-> CHOOSE r \in found : place(r) = n]

-----------------------------------------------------------------------------
(* Putting the rows together                                                *)

NoConversation == [people |-> <<>>, messages |-> <<>>]

AppendIfUnique(s, p) == IF p = None \/ p \in ToSet(s) THEN s ELSE Append(s, p)

(* The row's message is added for each row, not for each message.           *)
Aggregated(c, r) ==
  [people |-> AppendIfUnique(AppendIfUnique(c.people, r.from), r.to),
   messages |-> IF Len(c.messages) < PreviewSize THEN Append(c.messages, r.item)
                                                 ELSE c.messages]

(* Mutant of Key: the hash of the people in the order of their appearance.  *)
KeyInOrder(c) == c.people

Key(c) == ToSet(c.people)      \* the hash of the sorted IDs

Qualifies(c) == Cardinality(people) <= 1 \/ people \subseteq ToSet(c.people)

Previewed(c, d) ==
  LET more == c.messages \o d.messages
  IN [c EXCEPT !.messages = SubSeq(more, 1, Min({PreviewSize, Len(more)}))]

Saved ==
  IF current.messages = <<>> \/ ~Qualifies(current) THEN convos
  ELSE LET k == Key(current)
       IN IF k \in DOMAIN convos
            THEN [convos EXCEPT ![k] = Previewed(@, current)]
            ELSE [l \in DOMAIN convos \cup {k} |-> IF l = k THEN current ELSE convos[l]]

Filled(c) == Cardinality(DOMAIN c) >= Limit

-----------------------------------------------------------------------------

Init ==
  /\ items \in Mailboxes /\ tie \in {"items", "relationships"} /\ people \in Filters
  /\ stage = "query" /\ page = <<>> /\ full = FALSE /\ queries = 0 /\ until = None
  /\ current = NoConversation /\ last = 0 /\ convos = <<>> /\ scanned = <<>>

Query ==
  /\ stage = "query" /\ ~Filled(convos) /\ queries < MaxQueries
  /\ page' = Page(until)
  /\ full' = (Len(page') = RowLimit)
  /\ queries' = queries + 1 /\ stage' = "scan"
  /\ UNCHANGED <<given, until, current, last, convos, scanned>>

NewMessage == Head(page).item # last

(* The first row of the next message ends the one before: saveConvoAndReset *)
(* may then find that there are enough.                                     *)
Enough ==
  /\ stage = "scan" /\ page # <<>> /\ NewMessage
  /\ current.messages # <<>> /\ Filled(Saved)
  /\ convos' = Saved /\ current' = NoConversation /\ stage' = "end"
  /\ UNCHANGED <<given, page, full, queries, until, last, scanned>>

ScanRow ==
  /\ stage = "scan" /\ page # <<>>
  /\ ~(NewMessage /\ current.messages # <<>> /\ Filled(Saved))
  /\ LET r == Head(page)
     IN /\ convos' = IF NewMessage THEN Saved ELSE convos
        /\ current' = Aggregated(IF NewMessage THEN NoConversation ELSE current, r)
        /\ last' = r.item
        /\ until' = IF Time(r) = None THEN until ELSE Time(r)
        /\ scanned' = Append(scanned, r)
  /\ page' = Tail(page)
  /\ UNCHANGED <<given, stage, full, queries>>

EndPage ==
  /\ stage = "scan" /\ page = <<>>
  /\ stage' = IF full THEN "query" ELSE "end"
  /\ UNCHANGED <<given, page, full, queries, until, current, last, convos, scanned>>

NoMoreQueries ==
  /\ stage = "query" /\ (Filled(convos) \/ queries = MaxQueries)
  /\ stage' = "end"
  /\ UNCHANGED <<given, page, full, queries, until, current, last, convos, scanned>>

Finish ==
  /\ stage = "end"
  /\ convos' = Saved /\ current' = NoConversation /\ stage' = "done"
  /\ UNCHANGED <<given, page, full, queries, until, last, scanned>>

Next == Query \/ Enough \/ ScanRow \/ EndPage \/ NoMoreQueries \/ Finish

Spec == Init /\ [][Next]_vars

-----------------------------------------------------------------------------
(* Loading the conversation of some people: the messages in which exactly   *)
(* they take part, whatever relates them to it.  A message of nobody known  *)
(* is lost in the last join.                                                *)

Participants(m) ==
  ({items[m].from} \cup {items[m].to[k].who : k \in DOMAIN items[m].to}) \ {None}

LoadConversation(ids) ==
  {m \in DOMAIN items : /\ ids # {} /\ items[m].from # None /\ items[m].to # <<>>
                        /\ Participants(m) = ids}

-----------------------------------------------------------------------------

Seen == {scanned[n].item : n \in DOMAIN scanned}

(* A message that came in one piece: no page ended, and no other message    *)
(* of the same time came in between.                                        *)
Whole(m) ==
  LET at == {n \in DOMAIN scanned : scanned[n].item = m}
  IN /\ at # {} /\ at = Min(at)..Max(at)
     /\ Cardinality(at) = Cardinality(RowsOf(m)) /\ {scanned[n] : n \in at} = RowsOf(m)

(* "The set of entities defines a unique conversation" (conversations.go:37):*)
(* each is listed once, with messages of just these people, the newest first,*)
(* and can be loaded again.                                                 *)
ListedOnce ==
  /\ \A k, l \in DOMAIN convos : ToSet(convos[k].people) = ToSet(convos[l].people) => k = l
  /\ \A k \in DOMAIN convos : LET ms == convos[k].messages IN
       /\ \A i, j \in DOMAIN ms : i < j => ~Newer(items[ms[j]].time, items[ms[i]].time)
       /\ \A i \in DOMAIN ms : Whole(ms[i]) /\ items[ms[i]].kind = "message" =>
            /\ ToSet(convos[k].people) = Participants(ms[i])
            /\ items[ms[i]].from # None => ms[i] \in LoadConversation(ToSet(convos[k].people))

(* No message is passed over for an older one, and when all queries were    *)
(* made none is missing, but where messages have the time at which a page   *)
(* ended; whoever wrote one that came in one piece is in the list.          *)
NoneIsPassedOver ==
  stage = "done" =>
    LET visible == {m \in DOMAIN items : \E r \in RowsOf(m) : Wanted(r)}
        sametime(m) == \E s \in Seen : items[s].time = items[m].time
    IN \A m \in visible :
         /\ m \notin Seen /\ ~sametime(m) =>
              /\ \A s \in Seen : ~Newer(items[m].time, items[s].time)
              /\ items[m].time = None \/ Filled(convos) \/ queries = MaxQueries
         /\ Whole(m) /\ items[m].kind = "message" /\ people \subseteq Participants(m) =>
              \E k \in DOMAIN convos : ToSet(convos[k].people) = Participants(m)

RecentsAreExact == ListedOnce /\ NoneIsPassedOver
==============================================================================
