--------------------------- MODULE FacebookArchives ---------------------------
(***************************************************************************)
(* The data source facebook: an import of the archives that an export was   *)
(* split into, in any order, of which one holds the profile and some hold   *)
(* manifests of the media that are in others.  Each piece of a medium has   *)
(* one retrieval key, and the pipeline joins the pieces in one row.         *)
(***************************************************************************)
EXTENDS Messenger, FiniteSets

CONSTANTS
  Exports,   (* sequences of archives                                       *)
  Usernames, (* what the options of the data source may have, or None       *)
  RepoOwner  (* the user name the owner of the timeline has, or None        *)

VARIABLES
  archives,
  at,        (* the archive that is read                                    *)
  phase,     (* what is read of it                                          *)
  n,         (* the entry that is next                                      *)
  username,  (* Options.Username                                            *)
  owner,     (* Archive.owner                                               *)
  graphs,    (* what was sent to the pipeline                               *)
  rows       (* of items that have a retrieval key                          *)

vars == <<archives, at, phase, n, username, owner, graphs, rows>>

Phases == <<"posts", "albums", "media", "photos", "places", "checkins", "messages">>

(* Posts are in numbered files; from the first number on that the older     *)
(* layout does not have, the newer one is tried.                            *)
Posts(a) == FlattenSeq(a.oldPosts \o SubSeq(a.posts, Len(a.oldPosts) + 1, Len(a.posts)))

Entries(a, p) ==
  CASE p = "posts" -> Posts(a)
    [] p = "albums" -> a.albums
    [] p = "media" -> a.media
    [] p = "photos" -> a.photos
    [] p = "places" -> a.places
    [] p = "checkins" -> a.checkins
    [] p = "messages" -> MessagesOf(a)

Init ==
  /\ archives \in Exports
  /\ at = 1 /\ phase = "owner" /\ n = 1
  /\ username \in Usernames
  /\ owner = None
  /\ graphs = <<>>
  /\ rows = <<>>

Archive == archives[at]
Entry == Entries(Archive, phase)[n]
HasEntry(p) == phase = p /\ n <= Len(Entries(Archive, p))

-----------------------------------------------------------------------------
(* setOwnerEntity                                                           *)

(* Mutant of Mismatch: the profile is not compared with the options. *)
MismatchOfNobody(name) == Archive.profile = None /\ name = None

Mismatch(name) == IF Archive.profile = None THEN name = None ELSE Archive.profile # name

SetOwnerEntity ==
  LET name == IF username = None THEN RepoOwner ELSE username IN
  /\ phase = "owner"
  /\ username' = name
  /\ IF Mismatch(name) THEN phase' = "error" /\ UNCHANGED owner
     ELSE phase' = Head(Phases) /\ owner' = IF Archive.profile = None THEN name ELSE Archive.profile
  /\ n' = 1
  /\ UNCHANGED <<archives, at, graphs, rows>>

-----------------------------------------------------------------------------
(* The pipeline (processing.go, shouldProcessExistingItem): what a row of   *)
(* the same import lacks is taken, and metadata are merged.                 *)

NoRow == [data |-> None, time |-> 0, says |-> None]

Merged(row, it) ==
  [data |-> IF row.data = None THEN it.data ELSE row.data,
   time |-> IF row.time = 0 THEN it.time ELSE row.time,
   says |-> IF it.says = None THEN row.says ELSE it.says]

Stored(rs, it) ==
  IF it.key = None THEN rs
  ELSE [k \in DOMAIN rs \cup {it.key} |->
          IF k # it.key THEN rs[k] ELSE Merged(IF k \in DOMAIN rs THEN rs[k] ELSE NoRow, it)]

Send(g) ==
  /\ graphs' = Append(graphs, g)
  /\ rows' = FoldLeft(Stored, rows, g.items)
  /\ n' = n + 1
  /\ UNCHANGED <<archives, at, phase, username, owner>>

PassOver ==
  /\ n' = n + 1
  /\ UNCHANGED <<archives, at, phase, username, owner, graphs, rows>>

Graph(kind, items, to, others) ==
  [kind |-> kind, from |-> owner, items |-> items, to |-> to, others |-> others]

-----------------------------------------------------------------------------
(* Each kind of entry.  Of what an attachment may be, the first counts; one *)
(* with a text leaves nothing, as its text is asked to differ from a        *)
(* description that it does not have.                                       *)
AttachedItems(post, x) ==
  CASE x.text # None -> <<>>
    [] x.text = None /\ x.media # None -> <<FillItem(Archive, x.media, post.text, post.time)>>
    [] x.text = None /\ x.media = None /\ x.link # None -> <<TextItem(<<x.link>>, post.time)>>
    [] OTHER -> <<>>

AttachedPlaces(x) ==
  IF x.text = None /\ x.media = None /\ x.link = None THEN Optional(x.place) ELSE <<>>

ProcessPost ==
  /\ HasEntry("posts")
  /\ LET xs == FlattenSeq(Entry.attachments)
         items == FlattenSeq([i \in DOMAIN xs |-> AttachedItems(Entry, xs[i])])
         places == FlattenSeq([i \in DOMAIN xs |-> AttachedPlaces(xs[i])])
     IN Send(Graph("post", <<TextItem(Optional(Entry.text), Entry.time)>> \o items,
                   Optional(Entry.wall), places))

(* A photo of an album, which becomes a collection.                         *)
ProcessAlbumEntry ==
  /\ HasEntry("albums")
  /\ IF Entry.uri = None THEN PassOver
     ELSE Send(Graph("album", <<[key |-> RetrievalKey(Archive, Entry.uri), data |-> None,
                                 time |-> Entry.created, says |-> Entry.says]>>,
                     <<>>, <<Entry.album>>))

(* A file of a folder with media, if its extension is one of those.         *)
ProcessPostMedia ==
  /\ HasEntry("media")
  /\ IF ~Entry.isMedia THEN PassOver
     ELSE Send(Graph("media", <<[key |-> RetrievalKey(Archive, Entry.uri), data |-> Entry.uri,
                                 time |-> Entry.time, says |-> None]>>, <<>>, <<>>))

ProcessPhotoOrVideo ==
  /\ HasEntry("photos")
  /\ Send(Graph("photo", <<FillItem(Archive, Entry, None, 0)>>, <<>>, <<>>))

ProcessTaggedPlace ==
  /\ HasEntry("places")
  /\ Send(Graph("visit", <<TextItem(<<>>, Entry.time)>>, <<>>, <<Entry.place>>))

(* Coordinates that cannot be parsed, and such with a zero, are left out.   *)
ProcessCheckin ==
  /\ HasEntry("checkins")
  /\ Send(Graph("visit", <<TextItem(Optional(Entry.says), Entry.time)>>, <<>>,
                Optional(Entry.place) \o (IF Entry.coords = "right" THEN <<Entry.coords>> ELSE <<>>)))

ProcessMessage ==
  /\ HasEntry("messages")
  /\ IF Skipped(Archive, Entry.msg) THEN PassOver
     ELSE Send(MessageGraph(Archive, Entry.thread, Entry.msg))

(* The next phase, the next archive, or the end.                            *)
NextPhase ==
  /\ phase \in {Phases[i] : i \in DOMAIN Phases}
  /\ n > Len(Entries(Archive, phase))
  /\ n' = 1
  /\ LET i == CHOOSE i \in DOMAIN Phases : Phases[i] = phase
         over == i = Len(Phases)
     IN /\ phase' = CASE ~over -> Phases[i + 1]
                      [] over /\ at < Len(archives) -> "owner"
                      [] OTHER -> "done"
        /\ at' = IF over /\ at < Len(archives) THEN at + 1 ELSE at
  /\ UNCHANGED <<archives, username, owner, graphs, rows>>

(* The import is cancelled, or something cannot be read or decoded.         *)
Fail ==
  /\ phase \notin {"owner", "done", "error"}
  /\ phase' = "error"
  /\ UNCHANGED <<archives, at, n, username, owner, graphs, rows>>

Next ==
  \/ SetOwnerEntity
  \/ ProcessPost
  \/ ProcessAlbumEntry
  \/ ProcessPostMedia
  \/ ProcessPhotoOrVideo
  \/ ProcessTaggedPlace
  \/ ProcessCheckin
  \/ ProcessMessage
  \/ NextPhase
  \/ Fail

Spec == Init /\ [][Next]_vars

-----------------------------------------------------------------------------

TypeOK ==
  /\ at \in DOMAIN archives /\ n \in Nat \ {0}
  /\ phase \in {"owner", "done", "error"} \cup {Phases[i] : i \in DOMAIN Phases}
  /\ DOMAIN rows \subseteq {<<archives[i].export, k[2]>> : i \in DOMAIN archives, k \in DOMAIN rows}

All(p) == UNION {{Entries(archives[i], p)[k] : k \in DOMAIN Entries(archives[i], p)} :
                   i \in DOMAIN archives}
AttachmentsOf(post) == {x \in Range(FlattenSeq(post.attachments)) : x.text = None /\ x.media # None}
FilesOf(msg) == Range(msg.files \o Optional(msg.sticker))

(* What manifests say of media, with the text that it need not repeat.      *)
Manifest ==
  UNION {{[media |-> x.media, text |-> post.text] : x \in AttachmentsOf(post)} : post \in All("posts")}
  \cup {[media |-> m, text |-> None] :
          m \in {x \in All("albums") : x.uri # None} \cup All("photos")
                \cup UNION {FilesOf(x.msg) : x \in All("messages")}}
Mentioned == {x.media.uri : x \in Manifest}
Described == {x.media.uri : x \in {y \in Manifest : y.media.says \notin {None, y.text}}}
Held == {x.uri : x \in {y \in All("media") : y.isMedia}}

(* In whatever order the archives are read, a medium has one row: with its  *)
(* file if any archive holds it, and described if any manifest describes it *)
(* (archive.go:295-483, models.go:153-246).                                 *)
MediaAreJoined ==
  phase = "done" =>
    \A uri \in Held \cup Mentioned :
      LET of == {k \in DOMAIN rows : k[Len(k)] = uri}
      IN /\ Cardinality(of) = 1
         /\ \A k \in of : /\ (rows[k].data = uri) = (uri \in Held)
                          /\ (rows[k].says # None) = (uri \in Described)

(* Everything that one imports is one person's, whom the profile, if there  *)
(* is one, and the options agree on (archive.go:662-702).                   *)
OwnerIsOne ==
  \A i \in DOMAIN graphs :
    graphs[i].kind # "message" =>
      /\ graphs[i].from # None /\ graphs[i].from = username
      /\ \A k \in 1..at : k < at \/ phase \notin {"owner", "error"} => archives[k].profile \in {None, username}

(* The messages that have been sent are, one by one, those that say or show *)
(* something.                                                               *)
MessagesAreWhole ==
  LET all == FlattenSeq([i \in 1..at |-> LET of == MessagesOf(archives[i]) IN
                           [k \in DOMAIN of |-> [archive |-> archives[i], thread |-> of[k].thread,
                                                 msg |-> of[k].msg]]])
      due == SelectSeq(all, LAMBDA m : \/ m.msg.content # None \/ m.msg.link # None
                                       \/ m.msg.files # <<>> \/ m.msg.sticker # None)
      sent == SelectSeq(graphs, LAMBDA g : g.kind = "message")
  IN /\ Len(sent) <= Len(due) /\ phase = "done" => Len(sent) = Len(due)
     /\ \A i \in DOMAIN sent :
          MessageIsWhole(due[i].archive, due[i].thread, due[i].msg, sent[i])

ExportIsWhole == MediaAreJoined /\ OwnerIsOne /\ MessagesAreWhole
==============================================================================
