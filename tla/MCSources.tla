------------------------------ MODULE MCSources ------------------------------
(* What data sources make of the files that they are given: instances of    *)
(* their modules, which share variables because one is checked at a time.   *)
EXTENDS Integers, SequencesExt, FiniteSets, TLC

CONSTANTS None

VARIABLES
  given, place, state, result,  (* what is read, how far, and what came of it *)
  held, known, kind, flag,      (* what is remembered between two steps       *)
  pc, running                   (* of several goroutines                      *)

sourceVars == <<given, place, result, held, known, kind, flag, pc, running>>

SeqsUpTo(S, n) == UNION {[1..k -> S] : k \in 0..n}

-----------------------------------------------------------------------------
(* Interrupted imports: a file of a kind that has one, or three of them.    *)

File(mbox, units) == [mbox |-> mbox, units |-> units]

ArchivesValue ==
  {[kind |-> k, files |-> <<File(FALSE, units)>>] :
     k \in {"sms", "location", "legacy"}, units \in [1..4 -> BOOLEAN]}
  \cup {[kind |-> k, files |-> <<File(k = "mail", u), File(FALSE, v), File(k = "mail", w)>>] :
          k \in {"mail", "photos"}, u \in SeqsUpTo({TRUE}, 3), v \in SeqsUpTo({TRUE}, 1),
          w \in {<<TRUE>>, <<TRUE, FALSE, TRUE>>, <<FALSE, TRUE, TRUE>>}}

Again == INSTANCE Readers WITH
  Archives <- ArchivesValue, QueueSize <- 2, MaxStops <- 2,
  archive <- given, reader <- state, ahead <- known, queue <- held,
  stored <- result, saved <- kind, resumed <- flag

ASSUME Again!ReadersAssumption

(* Points of up to three devices, one without a tag, and one more goroutine.*)
Scan == INSTANCE DeviceScan WITH
  Histories <- SeqsUpTo(0..2, 4), MaxGoroutines <- 1,
  history <- given, tag <- kind, holder <- held, seen <- known, out <- result,
  cancelled <- flag, result <- state, at <- place

ASSUME Scan!ScanAssumption

-----------------------------------------------------------------------------
(* Text messages: addresses are written in several ways, or not at all.     *)

Addresses ==
  {[raw |-> a[1], number |-> a[2], from |-> from] :
     a \in {<<"o", "own">>, <<"o2", "own">>, <<"b", "bob">>, <<"c", "cid">>, <<"", None>>},
     from \in BOOLEAN}

Multimedia(addrs, box, parts) ==
  [kind |-> "mms", addrs |-> addrs, box |-> box, parts |-> parts, contact |-> "name", inFrame |-> TRUE]

Part(text, seq) == [text |-> text, seq |-> seq]
Owners == <<[raw |-> "o", number |-> "own", from |-> TRUE], [raw |-> "b", number |-> "bob", from |-> FALSE]>>

BackupsValue ==
  {Multimedia(addrs, box, <<Part(TRUE, 0)>>) :
     addrs \in SeqsUpTo(Addresses, 3), box \in {"received", "sent"}}
  \cup {Multimedia(Owners, "sent", parts) :
          parts \in SeqsUpTo({Part(text, seq) : text \in BOOLEAN, seq \in {-1, 0, 1}}, 3)}
  \cup {[kind |-> "sms", type |-> type, address |-> addr, contact |-> "name", body |-> "text",
         inFrame |-> in] :
          type \in {"received", "sent", "draft", "failed"}, addr \in Addresses, in \in BOOLEAN}

Texts == INSTANCE TextMessages WITH
  Backups <- BackupsValue, OwnerNumber <- "own", backup <- given, graphs <- result

ASSUME Texts!TextAssumption

-----------------------------------------------------------------------------
(* Conversations of Google Voice: the owner's number of it is "v" or unknown.*)

Cite(number, name) == [number |-> number, name |-> name]
Cites == {Cite("v", "Me"), Cite("p", "Me"), Cite("b", "bob"), Cite("b", "b"), Cite("c", "cid"),
          Cite("d", "cid"), Cite(None, "cid")}

Said(who, text, pictures) == [from |-> who, text |-> text, pictures |-> pictures]
VoiceTexts ==
  {Said(who, "hi", <<>>) : who \in Cites}
  \cup {Said(Cite("b", "bob"), text, pictures) :
          text \in {"", "MMS Received"}, pictures \in {<<>>, <<"p">>, <<None, "q">>, <<"p", "q">>}}

VoicesValue ==
  {[participants |-> listed, messages |-> messages, title |-> title] :
     listed \in SeqsUpTo(Cites, 1) \cup {<<Cite("b", "bob"), Cite("c", "cid")>>},
     messages \in SeqsUpTo(VoiceTexts, 2) \ {<<>>},
     title \in {[is |-> "number", value |-> "b"], [is |-> "name", value |-> "bob"], [is |-> "other"]}}

Voices == INSTANCE VoiceMessages WITH
  Cards <- {None, <<"v">>, <<"p", "v">>}, Files <- VoicesValue,
  card <- known, file <- given, graphs <- result

-----------------------------------------------------------------------------
(* iMessage: bob has a number, eve an address.                              *)

Handle(who) == [number |-> who, email |-> who = "eve"]
Chat(who) == [i \in DOMAIN who |-> Handle(who[i])]
Attached(data, named) == [data |-> data, named |-> named]

Apple(guid, from, to, files, text, target) ==
  [guid |-> guid, fromMe |-> from = None, handle |-> IF from = None THEN Handle("bob") ELSE Handle(from),
   to |-> Chat(to), files |-> files, text |-> text, target |-> target, emoji |-> "heart", reply |-> None]

AppleTexts(guid) ==
  {Apple(guid, None, to, files, text, None) :
     to \in {<<"bob">>, <<"bob", "eve">>}, text \in BOOLEAN,
     files \in {<<>>, <<Attached("x", TRUE)>>, <<Attached("x", TRUE), Attached("y", TRUE)>>,
                <<Attached("x", TRUE), Attached("x", TRUE)>>}}
  \cup {Apple(guid, "bob", <<"bob", "eve">>, <<Attached(data, TRUE), Attached("y", named)>>, FALSE, target) :
          data \in {None, "x"}, named \in BOOLEAN, target \in {None, 1, 9}}
  \cup {Apple(guid, "eve", <<"bob", "eve">>, <<>>, TRUE, target) : target \in {None, 1, 9}}
  \cup {Apple(guid, None, <<"bob">>, <<Attached(None, TRUE)>>, FALSE, None),
        Apple(guid, None, <<>>, <<>>, TRUE, None)}

AppleChatsValue ==
  {[frame |-> {}, messages |-> <<first, second, third>>] :
     first \in AppleTexts(1), second \in AppleTexts(2),
     third \in {Apple(3, "bob", <<"bob", "eve">>, <<Attached("x", TRUE)>>, FALSE, 1),
                Apple(3, None, <<"bob">>, <<>>, TRUE, None)}}
  \cup {[frame |-> {"since", "until"}, messages |-> <<only>>] : only \in AppleTexts(1)}

Apples == INSTANCE IMessages WITH
  Chats <- AppleChatsValue, DeviceID <- "me",
  chat <- given, next <- place, current <- held, graphs <- result

-----------------------------------------------------------------------------
(* WhatsApp: files of up to three pieces.                                   *)

Piece(date, name, mark, columns) == [date |-> date, name |-> name, mark |-> mark, columns |-> columns]

Pieces ==
  {Piece("right", name, FALSE, <<"text">>) : name \in {"ann", "bob", None}}
  \cup {Piece("right", "cid", TRUE, columns) : columns \in {<<"", "attached">>, <<"", "other">>, <<"">>}}
  \cup {Piece("right", "dan", FALSE, <<"", also>>) : also \in {"poll", "place", "other"}}
  \cup {Piece(None, name, FALSE, <<"text">>) : name \in {"ann", None}}
  \cup {Piece("impossible", name, FALSE, <<"text">>) : name \in {"ann", None}}

Whats == INSTANCE WhatsApp WITH
  Chats <- SeqsUpTo(Pieces, 3),
  chat <- given, messages <- held, people <- known, graphs <- result, at <- place

ASSUME Whats!ChatsAssumption

-----------------------------------------------------------------------------
(* Telegram: two chats, of which one may be of many people or have no name   *)
(* to show, one with oneself between; the owner may come late or never.      *)

Field(part, says) == [part |-> part, says |-> says]
Unnamed(type, id, messages) == <<Field("type", type), Field("id", id), Field("messages", messages)>>
Talk(name, type, id, messages) == <<Field("name", name)>> \o Unnamed(type, id, messages)

Wrote(from, name, what, type) == [from |-> from, name |-> name, what |-> what, type |-> type]
Talks(id, name) ==
  SeqsUpTo({Wrote("own", "owner", <<id, 1>>, "message"), Wrote(id, name, <<id, 2>>, "message"),
            Wrote(id, "alias", <<id, 3>>, "message"), Wrote(id, name, <<id, 4>>, "service")}, 2)

Self == <<Field("owner", "own")>>
Saved == Unnamed("saved_messages", "s", <<Wrote("own", "owner", <<"s", 1>>, "message")>>)

ExportsValue ==
  {Self \o <<Field("contact", "eve")>> \o Talk("bob", one, "b", m) \o Talk(name, two, "c", n) :
     one \in {"personal_chat", "private_group"}, two \in {"personal_chat", "private_group"},
     m \in Talks("b", "bob"), n \in Talks("c", "cid"), name \in {"cid", None}}
  \cup {Self \o Talk("bob", "personal_chat", "b", m) \o Saved \o Talk("cid", "personal_chat", "c", n) :
          m \in Talks("b", "bob"), n \in Talks("c", "cid")}
  \cup {Talk("bob", "personal_chat", "b", m) \o late :
          m \in Talks("b", "bob"), late \in {<<>>, Self \o Talk("cid", "personal_chat", "c", <<>>)}}

Telegrams == INSTANCE Telegram WITH
  Exports <- ExportsValue,
  export <- given, owner <- known, peer <- held, type <- kind, seenChats <- flag, graphs <- result, at <- place

ASSUME Telegrams!ExportsAssumption

-----------------------------------------------------------------------------
(* Facebook and Instagram: "jose'" is what an export makes of a name.       *)

FixedNames == [raw \in {"ann", "jose'", "bob"} |-> IF raw = "jose'" THEN "jose" ELSE raw]

Medium(uri, says, taken) == [uri |-> uri, created |-> 2, taken |-> taken, says |-> says]
Msg(sender, content, link, quoted, files) ==
  [sender |-> sender, content |-> content, link |-> link, quoted |-> quoted, shareText |-> None,
   files |-> files, sticker |-> None, time |-> 3, reactions |-> <<"bob">>]

Inbox(messages) ==
  [inbox |-> <<[participants |-> <<"ann", "jose'", "bob">>, messages |-> messages]>>,
   archived |-> <<[participants |-> <<"bob", "ann">>, messages |-> <<Msg("bob", "so", None, FALSE, <<>>)>>]>>]

Messages ==
  {Msg("jose'", "hi", None, FALSE, <<>>), Msg("ann", None, None, FALSE, <<>>),
   Msg("ann", "see", "link", TRUE, <<Medium("u", None, -1)>>),
   [Msg("bob", None, "link", FALSE, <<>>) EXCEPT !.shareText = "look"],
   [Msg("bob", None, None, FALSE, <<Medium("u", "sea", 0)>>) EXCEPT !.sticker = Medium("st", None, 0)]}

Threaded ==
  {[l \in {"messages"} |-> Inbox(ms)] : ms \in SeqsUpTo(Messages, 2)}
  \cup {[l \in {"your_facebook_activity", "messages"} |-> Inbox(<<m>>)] : m \in Messages} \cup {<<>>}

Empty(part) ==
  [export |-> "e", part |-> part, profile |-> None, oldPosts |-> <<>>, posts |-> <<>>, albums |-> <<>>,
   media |-> <<>>, photos |-> <<>>, places |-> <<>>, checkins |-> <<>>, messages |-> <<>>]

Attachment(text, media, link, where) == [text |-> text, media |-> media, link |-> link, place |-> where]
FacePost(text, attachments) == [time |-> 1, text |-> text, wall |-> None, attachments |-> attachments]

(* The posts in one archive, the file of the medium in it or another, and    *)
(* further pieces of it in a third.                                         *)
FacePosts ==
  {FacePost("sea", <<<<Attachment(None, Medium("u", says, taken), None, None)>>, <<Attachment(None, None, "l", None)>>>>) :
     says \in {None, "sea", "sun"}, taken \in {0, 5}}
  \cup {FacePost("sea", <<<<Attachment("x", Medium("u", None, 0), None, None),
                          Attachment(None, None, None, "here")>>>>)}
FaceFile(uri) == [uri |-> uri, isMedia |-> uri # "doc", time |-> 0]
FaceParts ==
  {<<[Empty(1) EXCEPT !.profile = profile, !.posts = <<<<post>>>>, !.media = in1, !.checkins = <<>>],
     [Empty(2) EXCEPT !.media = <<FaceFile("u"), FaceFile("doc")>>, !.photos = photos],
     [Empty(3) EXCEPT !.albums = albums, !.messages = [l \in {"messages"} |-> Inbox(<<m>>)]]>> :
     profile \in {None, "own"}, post \in FacePosts, in1 \in {<<>>, <<FaceFile("u")>>},
     photos \in {<<>>, <<Medium("u", "noon", 0)>>, <<Medium("w", None, 0)>>},
     albums \in {<<>>, <<[uri |-> "u", created |-> 2, says |-> "trip", album |-> "a"],
                         [uri |-> None, created |-> 2, says |-> None, album |-> "a"]>>},
     m \in {Msg("ann", "hi", None, FALSE, <<Medium("v", None, 0)>>)}}
FaceExports ==
  {[i \in 1..3 |-> parts[order[i]]] : parts \in FaceParts,
     order \in {<<1, 2, 3>>, <<3, 2, 1>>, <<2, 3, 1>>}}
  \cup {<<[Empty(1) EXCEPT !.messages = messages,
           !.places = <<[time |-> 1, place |-> "here"]>>,
           !.checkins = <<[time |-> 2, says |-> None, place |-> where, coords |-> coords]>>]>> :
          messages \in Threaded, where \in {None, "here"}, coords \in {"right", "wrong", "zero"}}
  \cup {<<[Empty(1) EXCEPT !.oldPosts = <<<<FacePost("a", <<>>)>>>>, !.posts = posts]>> :
          posts \in {<<>>, <<<<FacePost("b", <<>>)>>, <<FacePost("c", <<>>)>>>>}}

Faces == INSTANCE FacebookArchives WITH
  Exports <- FaceExports, Usernames <- {None, "own", "other"}, RepoOwner <- "own", Fixed <- FixedNames,
  archives <- given, at <- place, phase <- state, n <- held, username <- kind, owner <- known,
  graphs <- result, rows <- flag

InstaMedium(uri, title) == [uri |-> uri, title |-> title, created |-> 4]
InstaPosts ==
  {[title |-> title, created |-> created, media |-> media] :
     title \in {None, "sun"}, created \in {0, 1},
     media \in {<<>>, <<InstaMedium("u", None)>>, <<InstaMedium("u", "sea"), InstaMedium("w", None)>>,
                <<InstaMedium("u", None), InstaMedium("w", None)>>}}
InstaExports ==
  {[export |-> "e", part |-> 1, profile |-> "own", posts |-> posts, messages |-> <<>>,
    stories |-> <<[uri |-> "s", title |-> "t", created |-> 5]>>] :
     posts \in {<<[new |-> ps, old |-> None], [new |-> None, old |-> <<p>>], [new |-> None, old |-> None],
                  [new |-> <<p>>, old |-> <<p>>]>> : ps \in SeqsUpTo(InstaPosts, 1), p \in InstaPosts}}
  \cup {[export |-> "e", part |-> 1, profile |-> profile, posts |-> <<>>, messages |-> messages,
         stories |-> <<>>] : messages \in Threaded, profile \in {None, "own"}}

Instas == INSTANCE Instagram WITH
  Exports <- InstaExports, Fixed <- FixedNames,
  export <- given, phase <- state, n <- place, owner <- known, graphs <- result

-----------------------------------------------------------------------------
(* Google Photos: an export of two archives, each with what was put there.   *)

PhotoName(stem, k, ext) == [stem |-> stem, n |-> k, edited |-> FALSE, ext |-> ext, raw |-> FALSE]
Title(stem, long, rest, ext, special) ==
  [stem |-> stem, long |-> long, rest |-> rest, ext |-> ext, special |-> special]
PhotoFile(name, is, content) == [name |-> name, is |-> is, content |-> content]
Pixels(time, flaw, video) == [time |-> time, flaw |-> flaw, video |-> video]
About(title, taken, created) ==
  [title |-> title, url |-> TRUE, taken |-> taken, created |-> created, modified |-> None,
   people |-> {"ann"}, geo |-> <<1, 0>>, exif |-> <<2, 2>>]
AboutAlbum == PhotoFile(PhotoName(<<8, 1>>, 0, "json"), "meta", [title |-> None, description |-> "trip"])

(* Two titles of which the export keeps the same 47 letters, the first      *)
(* perhaps of no more than these; in a directory, "(1)" comes before ".".   *)
Stem == <<47, 1>>
Alikes == {<<Title(Stem, long, 1, "jpg", FALSE), Title(Stem, TRUE, 2, "jpg", TRUE)>> : long \in BOOLEAN}
Numbered(titles) ==
  FlattenSeq([i \in DOMAIN titles |->
    LET k == Len(titles) + 1 - i IN
    <<PhotoFile(PhotoName(<<46, 1>>, k - 1, "json"), "json", About(titles[k], 3, 4)),
      PhotoFile(PhotoName(Stem, k - 1, "jpg"), "media", Pixels(7, None, FALSE))>>])
Alike(titles) == {[folder |-> "A", name |-> PhotoName(Stem, k - 1, "jpg"), title |-> titles[k]] : k \in DOMAIN titles}

(* A picture with its edited variant, a video beside it, and other files.   *)
LiveTitle == Title(<<3, 1>>, FALSE, 1, "JPG", FALSE)
Live(content, video, about) ==
  <<PhotoFile(PhotoName(<<3, 1>>, 0, "JPG"), "media", content),
   PhotoFile([PhotoName(<<3, 1>>, 0, "JPG") EXCEPT !.edited = TRUE], "media", Pixels(8, None, FALSE)),
   PhotoFile(PhotoName(<<3, 1>>, 0, video), "media", Pixels(6, None, FALSE)),
   PhotoFile(PhotoName(<<7, 1>>, 0, "json"), "json", about)>>

(* The first archive has another folder with a photo of such a name.        *)
OtherTitle == Title(Stem, TRUE, 3, "jpg", FALSE)
Other == Numbered(<<OtherTitle>>)
OtherPhoto == {[folder |-> "B", name |-> PhotoName(Stem, 0, "jpg"), title |-> OtherTitle]}

Parts(first, second) ==
  <<[name |-> <<"takeout", "day", "001">>,
     albums |-> <<[folder |-> "A", files |-> first], [folder |-> "B", files |-> Other]>>],
    [name |-> <<"takeout", "day", "3", "002">>, albums |-> <<[folder |-> "A", files |-> second]>>]>>
Split(files, photos, until) ==
  {[archives |-> Parts(SelectSeq(files, LAMBDA f : f \in first), SelectSeq(files, LAMBDA f : f \notin first)),
    until |-> until, photos |-> photos \cup OtherPhoto] : first \in SUBSET ToSet(files)}

LivePhoto == {[folder |-> "A", name |-> PhotoName(<<3, 1>>, 0, "JPG"), title |-> LiveTitle]}
PhotoExports ==
  UNION {Split(Append(Numbered(titles), AboutAlbum), Alike(titles), None) : titles \in Alikes}
  \cup UNION {Split(Live(Pixels(7, x[1], x[2]), x[3], About(x[4], x[5], 4)), LivePhoto, x[6]) :
               x \in {<<None, FALSE, "MOV", LiveTitle, None, None>>, <<"offset", FALSE, "", LiveTitle, 3, None>>,
                      <<None, TRUE, "MOV", None, 3, None>>, <<None, FALSE, "MOV", LiveTitle, -1, 5>>}}

Photos == INSTANCE TakeoutPhotos WITH
  Exports <- PhotoExports, MaxStops <- 1,
  export <- given, at <- place, n <- pc, phase <- state, ahead <- held, checkpoint <- running,
  truncatedNames <- known, rows <- result, links <- kind, stops <- flag

-----------------------------------------------------------------------------
(* Plans: folders a, a/b and c or ab in one that the user chose, of photos  *)
(* (m), tracks (v) and others (x); deep: a/b/d, with a/z after it.          *)

Recognised(s, threshold) == [source |-> s, threshold |-> threshold]
AsPhoto == <<Recognised("m", 45)>>
AsBoth == <<Recognised("v", 90), Recognised("m", 45)>>
AsOther == <<Recognised("x", 0)>>

Walked(path, dir, found) == [path |-> path, dir |-> dir, hidden |-> path = <<<<"r">>, <<".">>>>, found |-> found]
Folder(path, found) == <<Walked(path, TRUE, found)>>
Holding(path, founds) == [i \in DOMAIN founds |-> Walked(Append(path, <<<<"1", "2", "3">>[i]>>), FALSE, founds[i])]

InRoot(name) == <<<<"r">>, name>>
Contents == {<<>>, <<AsPhoto, <<>>>>, <<AsBoth, AsBoth>>, <<AsOther, AsPhoto, AsBoth>>}
Within(path, letter) == Append(path, <<letter>>)

WalksValue ==
  {LET A == InRoot(<<"a">>) B == Within(A, "b") D == Within(B, "d") IN
   Folder(<<<<"r">>>>, <<>>) \o Holding(<<<<"r">>>>, top) \o Folder(InRoot(<<".">>), AsPhoto)
   \o Folder(A, <<>>) \o Holding(A, one)
   \o Folder(B, found)
   \o (IF deep THEN Folder(D, <<>>) \o Holding(D, two) \o Folder(Within(A, "z"), AsPhoto) ELSE Holding(B, two))
   \o Folder(InRoot(other), <<>>) \o Holding(InRoot(other), three) :
     top \in {<<>>, <<AsPhoto, <<>>>>}, one \in Contents, two \in Contents, three \in Contents,
     found \in {<<>>, AsOther}, deep \in BOOLEAN, other \in {<<"c">>, <<"a", "b">>}}

Plans == INSTANCE ImportPlanner WITH
  Sources <- {"m", "v", "x"}, Trees <- WalksValue, Recursives <- BOOLEAN,
  walked <- given, recursive <- flag, n <- place, tree <- held, currentDir <- kind,
  pairings <- result, dirSizes <- known, phase <- state

ASSUME Plans!PlannerAssumption

-----------------------------------------------------------------------------
(* Graphs: a picture with what is attached to it and who is on it; one that *)
(* a person reacted to, twice; an item outside of the timeframe with others *)
(* below it; and an edge between two nodes below a third.                   *)

An(item, key) == [kind |-> item, key |-> key, out |-> FALSE]
Out(key) == [kind |-> "item", key |-> key, out |-> TRUE]
Edge(holder, label, from, to, value, metadata) ==
  [holder |-> holder, label |-> label, from |-> from, to |-> to, value |-> value, metadata |-> metadata]
Link(holder, label, to) == Edge(holder, label, None, to, "", FALSE)
Reaction(value) == Edge(1, "reacted", 2, None, value, FALSE)
Face(holder) == Edge(holder, "includes", None, 3, None, TRUE)

GraphOf(nodes, edges) == [nodes |-> nodes, edges |-> edges]
Showing(person, edge) ==
  GraphOf(<<An("item", 1), An("item", 2), An("entity", person), An("entity", 11)>>,
          <<Link(1, "attached", 2), edge, Link(1, "includes", 4)>>)
Reacted(key, who, value) ==
  GraphOf(<<An("item", key), An("entity", who), An("item", 3)>>, <<Reaction(value), Link(1, "attached", 3)>>)
BelowSkipped(top) ==
  GraphOf(<<top, An("item", 2), Out(4), An("entity", 10)>>,
          <<Link(1, "attached", 2), Link(2, "attached", 3), Link(3, "sent", 4)>>)
Between == GraphOf(<<An("item", 1), An("entity", 10), An("item", 2)>>, <<Edge(1, "sent", 2, 3, "", FALSE)>>)

FirstGraphs ==
  {Showing(10, Face(2)), Showing(10, Link(1, "includes", 3)), Showing(0, Link(2, "includes", 3)),
   Reacted(1, 10, "like"), BelowSkipped(Out(1)), BelowSkipped(An("item", 1)), Between}
LaterGraphs == {Reacted(1, 10, "love"), Reacted(2, 0, "like"), Reacted(1, 10, ""), Showing(11, Face(1)), Between}

Whole == INSTANCE ItemGraphs WITH
  Imports <- {<<<<one>>, <<two, one>>>> : one \in FirstGraphs, two \in LaterGraphs}, MaxBroken <- 1,
  import <- given, n <- place, at <- pc, phase <- state, skipped <- flag, broken <- running,
  stack <- held, ids <- known, db <- result, saved <- kind

ASSUME Whole!GraphsAssumption

-----------------------------------------------------------------------------
(* Folders of media: hidden ones, albums that files share, a video beside    *)
(* its picture; and a file of which several times are known.                 *)

TimesOf(embedded, path, modified) == [embedded |-> embedded, path |-> path, modified |-> modified]
Lying(path, is, album, times) ==
  [path |-> path, is |-> is, hidden |-> path[Len(path)][1] = ".", album |-> album, times |-> times]
Holds(folderIsAlbum, range, use, entries) ==
  [entries |-> <<Lying(<<<<"r">>>>, "folder", None, TimesOf(0, 0, 0))>> \o entries, folderIsAlbum |-> folderIsAlbum,
   useFilePathTime |-> "path" \in use, useFileModTime |-> "modified" \in use, range |-> range]

FoldersValue ==
  {Holds(all, None, {},
     <<Lying(InRoot(<<".", "h">>), "folder", None, TimesOf(0, 0, 0)),
       Lying(Append(InRoot(<<".", "h">>), <<"x">>), "media", "A", TimesOf(0, 0, 0)),
       Lying(InRoot(<<".", "y">>), "media", "A", TimesOf(0, 0, 0)),
       Lying(InRoot(<<"a">>), "media", one, TimesOf(3, 0, 1)),
       Lying(InRoot(<<"b">>), "sidecar", None, TimesOf(0, 0, 0)),
       Lying(InRoot(<<"c">>), "folder", None, TimesOf(0, 0, 0)),
       Lying(Append(InRoot(<<"c">>), <<"d">>), "media", two, TimesOf(0, 0, 2)),
       Lying(Append(InRoot(<<"c">>), <<"e">>), other, None, TimesOf(0, 0, 0)),
       Lying(InRoot(<<"f">>), "media", three, TimesOf(0, 0, 0))>>) :
     all \in BOOLEAN, other \in {"other", "unreadable"}, one \in {None, "A"}, two \in {None, "A"}, three \in {"A", "B"}}
  \cup {Holds(FALSE, range, use, <<Lying(InRoot(<<"a">>), "media", None, TimesOf(one, two, three))>>) :
          range \in {None, {2}, {1, 2}}, use \in SUBSET {"path", "modified"},
          one \in 0..3, two \in 0..3, three \in {0, 1, 3}}

Media == INSTANCE MediaFolder WITH
  Folders <- FoldersValue, MaxGoroutines <- 2,
  folder <- given, phase <- state, at <- place, failed <- running, pc <- pc, running <- kind,
  holder <- held, collections <- known, cancelled <- flag, out <- result

ASSUME Media!FolderAssumption

-----------------------------------------------------------------------------

Sources == {"readers", "scan", "texts", "voices", "apples", "whats", "telegrams", "faces", "instas", "photos", "plans", "graphs", "folders"}

SourceInit(source) ==
  CASE source = "readers" -> Again!Init /\ pc = 0 /\ running = 0
    [] source = "scan" -> Scan!Init
    [] source = "texts" -> Texts!Init
         /\ place = 0 /\ state = 0 /\ held = 0 /\ known = 0 /\ kind = 0 /\ flag = 0 /\ pc = 0 /\ running = 0
    [] source = "voices" -> Voices!Init /\ place = 0 /\ state = 0 /\ held = 0 /\ kind = 0 /\ flag = 0 /\ pc = 0 /\ running = 0
    [] source = "apples" -> Apples!Init /\ state = 0 /\ known = 0 /\ kind = 0 /\ flag = 0 /\ pc = 0 /\ running = 0
    [] source = "whats" -> Whats!Init /\ kind = 0 /\ flag = 0 /\ pc = 0 /\ running = 0
    [] source = "telegrams" -> Telegrams!Init /\ pc = 0 /\ running = 0
    [] source = "faces" -> Faces!Init /\ pc = 0 /\ running = 0
    [] source = "photos" -> Photos!Init
    [] source = "folders" -> Media!Init
    [] source = "plans" -> Plans!Init /\ pc = 0 /\ running = 0
    [] source = "graphs" -> Whole!Init
    [] source = "instas" -> Instas!Init /\ held = 0 /\ kind = 0 /\ flag = 0 /\ pc = 0 /\ running = 0

SourceNext(source) ==
  \/ source = "readers" /\ Again!Next /\ UNCHANGED <<pc, running>>
  \/ source = "scan" /\ Scan!Next
  \/ source = "texts" /\ Texts!Next /\ UNCHANGED <<place, state, held, known, kind, flag, pc, running>>
  \/ source = "voices" /\ Voices!Next /\ UNCHANGED <<place, state, held, kind, flag, pc, running>>
  \/ source = "apples" /\ Apples!Next /\ UNCHANGED <<state, known, kind, flag, pc, running>>
  \/ source = "whats" /\ Whats!Next /\ UNCHANGED <<kind, flag, pc, running>>
  \/ source = "telegrams" /\ Telegrams!Next /\ UNCHANGED <<pc, running>>
  \/ source = "faces" /\ Faces!Next /\ UNCHANGED <<pc, running>>
  \/ source = "photos" /\ Photos!Next
  \/ source = "plans" /\ Plans!Next /\ UNCHANGED <<pc, running>>
  \/ source = "graphs" /\ Whole!Next
  \/ source = "folders" /\ Media!Next
  \/ source = "instas" /\ Instas!Next /\ UNCHANGED <<held, kind, flag, pc, running>>
==============================================================================
