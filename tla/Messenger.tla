------------------------------ MODULE Messenger ------------------------------
(* What the exports of Facebook and Instagram have in common: media that    *)
(* another archive of the export may hold (facebook/models.go), and threads *)
(* of messages (facebook/messages.go).  Nothing here has state.             *)
(*                                                                          *)
(* A text is the sequence of what was put together in it.                   *)
EXTENDS Integers, Sequences, SequencesExt

CONSTANTS
  Fixed,  (* names as an export has them -> as they were meant              *)
  None

Optional(x) == IF x = None THEN <<>> ELSE <<x>>

(* Strings are UTF-8 in which each byte was taken for a character.          *)
FixString(s) == Fixed[s]

-----------------------------------------------------------------------------
(* Media                                                                    *)

(* Mutant of RetrievalKey: each archive of an export for itself. *)
KeyOfArchive(archive, uri) == <<archive.export, archive.part, uri>>

(* An archive is named <export>-<part>.                                     *)
RetrievalKey(archive, uri) == <<archive.export, uri>>

(* When it was taken comes before when it was posted, but one that was taken*)
(* before the year 0 is of no time, not even of its post.                   *)
MediaTime(m, before) ==
  CASE m.taken < 0 -> 0
    [] m.taken > 0 -> m.taken
    [] m.taken = 0 /\ m.created > 0 -> m.created
    [] OTHER -> before

(* The file is left to whichever archive holds it.                          *)
FillItem(archive, m, postText, before) ==
  [key |-> RetrievalKey(archive, m.uri), data |-> None, time |-> MediaTime(m, before),
   says |-> IF m.says = postText THEN None ELSE m.says]

TextItem(text, time) == [key |-> None, data |-> text, time |-> time, says |-> None]

-----------------------------------------------------------------------------
(* Messages                                                                 *)

Layouts == <<"your_instagram_activity", "your_facebook_activity", "messages">>

(* The first layout that is there, and of it the inbox and what was archived*)
Threads(archive) ==
  LET there == SelectSeq(Layouts, LAMBDA layout : layout \in DOMAIN archive.messages)
  IN IF there = <<>> THEN <<>>
     ELSE archive.messages[Head(there)].inbox \o archive.messages[Head(there)].archived

(* Photos, videos, GIFs and audio are "files"; there is one sticker at most.*)
Attached(archive, msg) ==
  LET of(m) == FillItem(archive, m, None, 0)
      files == msg.files \o Optional(msg.sticker)
  IN [i \in DOMAIN files |-> [of(files[i]) EXCEPT !.time = IF @ = 0 THEN msg.time ELSE @]]

(* Mutant of Text: a link that is shared is added in any case. *)
TextAndLink(msg) == Optional(msg.content) \o Optional(msg.link) \o Optional(msg.shareText)

(* The link that is shared, unless the content has it, and its text.        *)
Text(msg) ==
  IF msg.link = None THEN Optional(msg.content)
  ELSE Optional(msg.content) \o (IF msg.quoted THEN <<>> ELSE <<msg.link>>)
                             \o Optional(msg.shareText)

(* Mutant of SentTo: the names are compared as they are in the export. *)
SentToRaw(thread, senderName) ==
  SelectSeq(thread.participants, LAMBDA p : p # senderName)

SentTo(thread, senderName) ==
  SelectSeq([i \in DOMAIN thread.participants |-> FixString(thread.participants[i])],
            LAMBDA p : p # senderName)

Skipped(archive, msg) == Text(msg) = <<>> /\ Attached(archive, msg) = <<>>

(* The first item is the root: the text, or else the first attachment.      *)
(* The name of who reacts is taken as it is in the export.                  *)
MessageGraph(archive, thread, msg) ==
  LET sender == FixString(msg.sender)
      text == IF Text(msg) = <<>> THEN <<>> ELSE <<TextItem(Text(msg), msg.time)>>
  IN [kind |-> "message", from |-> sender, items |-> text \o Attached(archive, msg),
      to |-> SentTo(thread, sender), others |-> msg.reactions]

(* The messages of an archive with their threads, in order.                 *)
MessagesOf(archive) ==
  LET of(thread) == [i \in DOMAIN thread.messages |->
                       [thread |-> thread, msg |-> thread.messages[i]]]
      threads == Threads(archive)
  IN FlattenSeq([i \in DOMAIN threads |-> of(threads[i])])

-----------------------------------------------------------------------------

(* A message that says or shows anything is sent once, with all of it: a    *)
(* link is not repeated, every file has a time, and everybody else who takes*)
(* part receives it, however the export spells the names; it is never sent  *)
(* to who wrote it (messages.go:54-195).                                    *)
MessageIsWhole(archive, thread, msg, g) ==
  LET files == msg.files \o Optional(msg.sticker)
      members == {FixString(thread.participants[i]) : i \in DOMAIN thread.participants}
      texts == SelectSeq(g.items, LAMBDA it : it.key = None)
      media == SelectSeq(g.items, LAMBDA it : it.key # None)
      words == FlattenSeq([i \in DOMAIN texts |-> texts[i].data])
  IN /\ g.from = FixString(msg.sender)
     /\ {g.to[i] : i \in DOMAIN g.to} = members \ {g.from}
     /\ g.items # <<>> /\ Len(texts) <= 1
     /\ [i \in DOMAIN media |-> media[i].key] = [i \in DOMAIN files |-> RetrievalKey(archive, files[i].uri)]
     /\ \A i \in DOMAIN g.items : g.items[i].time > 0
     /\ {words[i] : i \in DOMAIN words}
          = (({msg.content, msg.link} \cup IF msg.link = None THEN {} ELSE {msg.shareText}) \ {None})
            \ IF msg.quoted THEN {msg.link} ELSE {}
==============================================================================
