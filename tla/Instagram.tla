------------------------------ MODULE Instagram ------------------------------
(***************************************************************************)
(* The data source instagram: posts, stories and messages of an export      *)
(* whose layout changed over the years.                                     *)
(***************************************************************************)
EXTENDS Messenger, FiniteSets

CONSTANTS Exports

VARIABLES
  export,
  phase, n,  (* what is read, and the entry of it that is next              *)
  owner,
  graphs     (* what was sent to the pipeline; None stands for no graph     *)

vars == <<export, phase, n, owner, graphs>>

(* The files are numbered, each in the newer layout or in the older one;    *)
(* the first number that is in neither ends the search.                     *)
PostsIndex ==
  LET missing == {i \in 1..Len(export.posts) + 1 :
                    i > Len(export.posts) \/ (export.posts[i].new = None /\ export.posts[i].old = None)}
      until == CHOOSE i \in missing : \A k \in missing : i <= k
  IN FlattenSeq([i \in 1..until - 1 |->
       IF export.posts[i].new # None THEN export.posts[i].new ELSE export.posts[i].old])

Entries(p) ==
  CASE p = "posts" -> PostsIndex
    [] p = "stories" -> export.stories
    [] p = "messages" -> MessagesOf(export)

Init ==
  /\ export \in Exports
  /\ phase = "profile" /\ n = 1
  /\ owner = None
  /\ graphs = <<>>

LoadProfile ==
  /\ phase = "profile"
  /\ IF export.profile = None THEN phase' = "error" /\ UNCHANGED owner
     ELSE phase' = "posts" /\ owner' = export.profile
  /\ UNCHANGED <<export, n, graphs>>

Entry == Entries(phase)[n]
HasEntry(p) == phase = p /\ n <= Len(Entries(p))

Send(g) ==
  /\ graphs' = Append(graphs, g)
  /\ n' = n + 1
  /\ UNCHANGED <<export, phase, owner>>

-----------------------------------------------------------------------------

(* The titles of the post and of its media.                                 *)
AllText(post) == FlattenSeq(<<Optional(post.title)>> \o [i \in DOMAIN post.media |-> Optional(post.media[i].title)])

(* Without a time of its own, a post is of the time of its first medium.    *)
Panics(post) == AllText(post) # <<>> /\ post.created = 0 /\ post.media = <<>>
Timestamp(post) == IF post.created > 0 THEN post.created ELSE Head(post.media).created

TimelineItem(m) ==
  [key |-> None, data |-> <<m.uri>>, time |-> m.created, says |-> None]

(* Mutant of FirstMedia: the first medium counts as the root in any case. *)
FirstOfAny(post) == 2

(* The index of the first medium that is attached to something else.        *)
FirstMedia(post) == IF AllText(post) = <<>> THEN 2 ELSE 1

(* The root is the text, or the first medium, or there is no graph at all.  *)
PostGraph(post) ==
  LET root == IF AllText(post) # <<>> THEN TextItem(AllText(post), Timestamp(post))
              ELSE TimelineItem(post.media[1])
      rest == SubSeq(post.media, FirstMedia(post), Len(post.media))
  IN IF AllText(post) = <<>> /\ post.media = <<>> THEN None
     ELSE [kind |-> "post", from |-> owner, to |-> <<>>, others |-> <<>>,
           items |-> <<root>> \o [i \in DOMAIN rest |-> TimelineItem(rest[i])]]

ProcessPost ==
  /\ HasEntry("posts")
  /\ IF Panics(Entry) THEN phase' = "panic" /\ UNCHANGED <<export, n, owner, graphs>>
     ELSE Send(PostGraph(Entry))

ProcessStory ==
  /\ HasEntry("stories")
  /\ Send([kind |-> "story", from |-> owner, to |-> <<>>, others |-> <<>>,
           items |-> <<[TimelineItem(Entry) EXCEPT !.says = Entry.title]>>])

(* GetMessages, which passes over messages that are empty.                  *)
ProcessMessage ==
  /\ HasEntry("messages")
  /\ IF Skipped(export, Entry.msg) THEN n' = n + 1 /\ UNCHANGED <<export, phase, owner, graphs>>
     ELSE Send(MessageGraph(export, Entry.thread, Entry.msg))

NextPhase ==
  /\ phase \in {"posts", "stories", "messages"}
  /\ n > Len(Entries(phase))
  /\ n' = 1
  /\ phase' = CASE phase = "posts" -> "stories" [] phase = "stories" -> "messages" [] OTHER -> "done"
  /\ UNCHANGED <<export, owner, graphs>>

Next == LoadProfile \/ ProcessPost \/ ProcessStory \/ ProcessMessage \/ NextPhase

Spec == Init /\ [][Next]_vars

-----------------------------------------------------------------------------

TypeOK ==
  /\ phase \in {"profile", "posts", "stories", "messages", "done", "error", "panic"}
  /\ n \in Nat \ {0}

(* Once the posts are read, each medium of them has come once, every title  *)
(* is in the text of its post, and no post is of an unknown time; a message *)
(* is whole (instagram.go:126-162, models.go:45-65).                        *)
PostsAreWhole ==
  LET sent == SelectSeq(graphs, LAMBDA g : g # None /\ g.kind = "post")
      full == SelectSeq(PostsIndex, LAMBDA p : AllText(p) # <<>> \/ p.media # <<>>)
      messages == SelectSeq(graphs, LAMBDA g : g # None /\ g.kind = "message")
      due == SelectSeq(MessagesOf(export), LAMBDA m : ~Skipped(export, m.msg))
  IN /\ phase \in {"stories", "messages", "done"} => Len(sent) = Len(full)
     /\ \A i \in DOMAIN sent :
          LET items == sent[i].items
              titles == {full[i].title} \cup {m.title : m \in Range(full[i].media)}
          IN /\ \A m \in Range(full[i].media) :
                  Cardinality({k \in DOMAIN items : items[k].data = <<m.uri>>}) = 1
             /\ \A t \in titles \ {None} : \E k \in DOMAIN items[1].data : items[1].data[k] = t
             /\ \A k \in DOMAIN items : items[k].time > 0
     /\ \A i \in DOMAIN messages : MessageIsWhole(export, due[i].thread, due[i].msg, messages[i])
==============================================================================
