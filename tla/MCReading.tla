------------------------------ MODULE MCReading ------------------------------
(* What reads a timeline, or data that are to be imported: each of these    *)
(* systems is given its input in the beginning, and no two run at once, so  *)
(* that one run checks them all.                                            *)
EXTENDS MCSources

CONSTANTS Systems  (* those that a run checks *)

VARIABLES
  system,
  items, tie, people, stage, page, full, queries, until, current, lastRow, convos, scanned,
  tl, query, offset, pages, asked

conversationVars ==
  <<items, tie, people, stage, page, full, queries, until, current, lastRow, convos, scanned>>
searchVars == <<tl, query, offset, pages, asked>>

-----------------------------------------------------------------------------
(* Conversations of three people; the first message is one to both others.  *)

To(person) == [who |-> person, relation |-> "sent"]

Mails ==
  {[from |-> "ann", to |-> <<To("bob")>>, kind |-> "message"],
   [from |-> "bob", to |-> <<To("ann")>>, kind |-> "message"],
   [from |-> "ann", to |-> <<To("bob"), To("cid")>>, kind |-> "message"],
   [from |-> None, to |-> <<To("bob")>>, kind |-> "message"],
   [from |-> "cid", to |-> <<To("bob"), [who |-> "ann", relation |-> "depicts"]>>, kind |-> "other"]}

Sent(times, mails) ==
  [n \in DOMAIN mails |-> [time |-> times[n], from |-> mails[n].from,
                           to |-> mails[n].to, kind |-> mails[n].kind]]

MailboxesValue ==
  {Sent(times, <<[from |-> "bob", to |-> <<To("ann"), To("cid")>>, kind |-> "message"]>> \o mails) :
     times \in {<<4, 3, 2, 1>>, <<3, 3, 2, 1>>, <<3, None, 2, 2>>, <<None, None, None, None>>},
     mails \in [1..3 -> Mails]}

Recent == INSTANCE Conversations WITH
  Mailboxes <- MailboxesValue, Filters <- {{}, {"ann"}, {"bob", "cid"}},
  RowLimit <- 3, PreviewSize <- 2, MaxQueries <- 3, Limit <- 2, last <- lastRow

ASSUME Recent!ConversationsAssumption

-----------------------------------------------------------------------------
(* Searches                                                                 *)

Item(start, end, att) ==
  [source |-> "s1", attribute |-> att, class |-> "note", text |-> None, time |-> start,
   until |-> end, place |-> start, stored |-> 1, deleted |-> FALSE, hidden |-> FALSE]

Pool ==
  {Item(1, None, "a1"), Item(2, 4, "a2"),
   [Item(2, None, None) EXCEPT !.hidden = TRUE, !.stored = 2],
   [Item(None, None, "a3") EXCEPT !.deleted = TRUE, !.source = "s2"],
   [Item(None, None, "a2") EXCEPT !.class = None, !.stored = 2]}

Rel(source, target, att, what) ==
  [from |-> source, to |-> target, attribute |-> att, label |-> what,
   directed |-> what # "near", subordinating |-> what = "attached"]

Nets ==
  {<<>>, <<Rel(1, 2, None, "attached")>>,
   <<Rel(1, 2, None, "attached"), Rel(3, 2, None, "near"), Rel(1, None, "a1", "sent")>>,
   <<Rel(1, None, "a1", "sent"), Rel(1, None, "a2", "sent"), Rel(1, 3, None, "attached")>>,
   <<Rel(3, 1, None, "near"), Rel(2, 1, None, "reply"), Rel(2, 3, None, "attached")>>}

TimelinesValue ==
  {[items |-> pool, relationships |-> net,
    owners |-> ("a1" :> {1, 2}) @@ ("a2" :> {3}) @@ ("a3" :> {}),
    people |-> <<[name |-> 2, attributes |-> {1, 2}], [name |-> 2, attributes |-> {1}],
                 [name |-> 1, attributes |-> {2}]>>] : pool \in [1..3 -> Pool], net \in Nets}

AnySearch ==
  [row |-> None, source |-> None, person |-> None, class |-> None, text |-> None,
   toPerson |-> {}, start |-> None, end |-> None, strictStart |-> FALSE, strictEnd |-> FALSE,
   inclusive |-> FALSE, noLocation |-> FALSE, min |-> None, max |-> None, deleted |-> FALSE,
   sample |-> 0, flat |-> FALSE, relations |-> {}, orFields |-> FALSE, sort |-> "", order |-> "",
   near |-> None, limit |-> 2, related |-> 1, withTotal |-> TRUE, onlyTotal |-> FALSE,
   geojson |-> FALSE]

SearchesValue ==
  {AnySearch, [AnySearch EXCEPT !.flat = TRUE, !.person = {1, 2}], [AnySearch EXCEPT !.toPerson = {"a1"}],
   [AnySearch EXCEPT !.toPerson = {"a1", "a2"}, !.flat = TRUE],
   [AnySearch EXCEPT !.start = 1, !.inclusive = TRUE],
   [AnySearch EXCEPT !.end = 3, !.strictEnd = TRUE, !.limit = 1],
   [AnySearch EXCEPT !.near = 2], [AnySearch EXCEPT !.order = "stored", !.flat = TRUE],
   [AnySearch EXCEPT !.row = {1, 2}], [AnySearch EXCEPT !.source = {"s2"}, !.deleted = TRUE],
   [AnySearch EXCEPT !.relations = {[label |-> "near", not |-> FALSE]}],
   [AnySearch EXCEPT !.orFields = TRUE, !.class = {None}],
   [AnySearch EXCEPT !.onlyTotal = TRUE, !.withTotal = FALSE],
   [AnySearch EXCEPT !.geojson = TRUE], [AnySearch EXCEPT !.related = 3],
   [AnySearch EXCEPT !.sort = "none", !.end = 3, !.related = 0]}

Found == INSTANCE Search WITH
  Timelines <- TimelinesValue, Searches <- SearchesValue,
  PeopleSearches <- {[names |-> {}, attributes |-> {}, limit |-> 3]}, RelatedLimit <- 3

ASSUME Found!SearchAssumption

-----------------------------------------------------------------------------

(* The variables that a system has no use for are 0.                        *)
NoConversation ==
  /\ items = 0 /\ tie = 0 /\ people = 0 /\ stage = 0 /\ page = 0 /\ full = 0 /\ queries = 0
  /\ until = 0 /\ current = 0 /\ lastRow = 0 /\ convos = 0 /\ scanned = 0
NoSearch == tl = 0 /\ query = 0 /\ offset = 0 /\ pages = 0 /\ asked = 0
NoSource ==
  /\ given = 0 /\ place = 0 /\ result = 0 /\ held = 0 /\ known = 0
  /\ kind = 0 /\ flag = 0 /\ pc = 0 /\ running = 0

ReadingVars == <<conversationVars, searchVars, sourceVars, state>>

NoReading == NoConversation /\ NoSearch /\ NoSource /\ state = 0

Reading == {"conversations", "search"} \cup Sources

ReadingInit ==
  CASE system = "conversations" -> Recent!Init /\ NoSearch /\ NoSource /\ state = 0
    [] system = "search" -> Found!Init /\ NoConversation /\ NoSource
    [] OTHER -> SourceInit(system) /\ NoConversation /\ NoSearch

ReadingNext ==
  \/ system = "conversations" /\ Recent!Next /\ UNCHANGED <<searchVars, sourceVars, state>>
  \/ system = "search" /\ Found!Next /\ UNCHANGED <<conversationVars, sourceVars>>
  \/ SourceNext(system) /\ UNCHANGED <<conversationVars, searchVars>>

-----------------------------------------------------------------------------

(* The list of conversations holds each once, with messages of just its     *)
(* people, and passes over none but where a page ended within messages of   *)
(* one time (conversations.go:93-390).                                      *)
RecentsAreExact == system = "conversations" => Recent!RecentsAreExact

(* The pages of a search hold every item that the filters let through once  *)
(* and in order, and people are found whole (search.go, searchentities.go). *)
SearchIsExact == system = "search" => Found!TypeOK /\ Found!SearchIsExact

(* What data sources recognise in a folder is in the plan of an import, and *)
(* for no data source twice; an interrupted import takes up where it        *)
(* stopped, the points of every device come once and in order, the pieces   *)
(* of a photo come together, and the files of a folder all, once and dated  *)
(* (bindings.go:341-640, email.go, smsbackuprestore.go, takeoutarchive.go,  *)
(* googlelocation.go, media.go).                                            *)
ReadingIsComplete ==
  /\ system = "readers" => Again!TypeOK /\ Again!ResumesWhereItStopped
  /\ system = "scan" => Scan!TypeOK /\ Scan!DevicesAreRead
  /\ system = "photos" => Photos!TypeOK /\ Photos!PhotosAreWhole
  /\ system = "folders" => Media!TypeOK /\ Media!FolderIsImported
  /\ system = "plans" => Plans!TypeOK /\ Plans!PlansAreComplete

(* Whatever an export holds, each message of it is stored once, whole, from *)
(* who wrote it and to everybody else who took part (the data sources       *)
(* smsbackuprestore, googlevoice, imessage, whatsapp, telegram, facebook and *)
(* instagram).                                                              *)
MessagesAreRight ==
  /\ system = "texts" => Texts!TypeOK /\ Texts!MessagesAreRight
  /\ system = "voices" => Voices!TypeOK /\ Voices!VoicesAreRight
  /\ system = "apples" => Apples!TypeOK /\ Apples!ChatIsRight
  /\ system = "whats" => Whats!TypeOK /\ Whats!ChatIsRead
  /\ system = "telegrams" => Telegrams!TypeOK /\ Telegrams!ChatsAreRight
  /\ system = "faces" => Faces!TypeOK /\ Faces!ExportIsWhole
  /\ system = "instas" => Instas!TypeOK /\ Instas!PostsAreWhole

(* Every node and edge of a graph finds its way into the timeline, once, but*)
(* for what failed, was skipped or hangs on it (pipeline.go:617-763).       *)
GraphsAreWhole == system = "graphs" => Whole!TypeOK /\ Whole!GraphsAreWhole
==============================================================================
