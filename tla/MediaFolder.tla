----------------------------- MODULE MediaFolder -----------------------------
(***************************************************************************)
(* The import of a folder of pictures, videos and sounds (media.go): a walk *)
(* that starts a goroutine for each file, which share the collections that  *)
(* they find and send their graphs while they hold the lock on these.       *)
(***************************************************************************)
EXTENDS Naturals, FiniteSets, SequencesExt

CONSTANTS
  Folders,        (* [entries, folderIsAlbum, useFilePathTime, useFileModTime, range]:*)
                  (* what a walk comes to, in order, and the options           *)
  MaxGoroutines,  (* the capacity of throttle                                  *)
  None

(* fs.WalkDir comes to a folder first, and to nothing else before it has    *)
(* been through what lies in it.                                            *)
WalkOrder(entries) ==
  \A i, j \in DOMAIN entries : entries[i].is = "folder" /\ IsPrefix(entries[i].path, entries[j].path) =>
    i <= j /\ \A k \in i..j : IsPrefix(entries[i].path, entries[k].path)

FolderAssumption ==
  /\ MaxGoroutines \in Nat \ {0}
  /\ \A f \in Folders :
       /\ f.entries \in Seq(Range(f.entries)) /\ WalkOrder(f.entries)
       /\ \A e \in Range(f.entries) :
            /\ e.is \in {"folder", "media", "sidecar", "other", "unreadable"} /\ e.hidden \in BOOLEAN
            /\ e.path \in Seq(Range(e.path)) /\ e.times \in [{"embedded", "path", "modified"} -> Nat]

VARIABLES
  folder,
  phase,          (* "walk", "room", "wait", "done" or "error"                 *)
  at,             (* the entry that the walk is at                             *)
  failed,         (* the walk has ended with an error                          *)
  pc, running,    (* of the goroutine of each entry, and the tokens in throttle*)
  holder,         (* who holds collectionsMu                                   *)
  collections,    (* by name, the goroutine that made it                       *)
  cancelled,
  out             (* the graphs that the pipeline has received                 *)

vars == <<folder, phase, at, failed, pc, running, holder, collections, cancelled, out>>

Entries == folder.entries
Entry == Entries[at]
Active == {g \in DOMAIN Entries : pc[g] \notin {"none", "done"}}

-----------------------------------------------------------------------------

(* 0 is no timestamp, and any range contains it.                            *)
InRange(t) == t = 0 \/ folder.range = None \/ t \in folder.range

Preferred(t, other) == IF t = 0 \/ (~InRange(t) /\ InRange(other)) THEN other ELSE t

(* Mutant of Timestamp: what comes later replaces what is out of range.     *)
TimestampLast(times) ==
  LET better(t, other) == IF t = 0 \/ ~InRange(t) THEN other ELSE t
      embeddedOrPath == IF folder.useFilePathTime /\ times.path # 0
                        THEN better(times.embedded, times.path) ELSE times.embedded
  IN IF folder.useFileModTime THEN better(embeddedOrPath, times.modified) ELSE embeddedOrPath

(* Embedded, of the path, or of the file: the first, or one in the range.   *)
Timestamp(times) ==
  LET embeddedOrPath == IF folder.useFilePathTime /\ times.path # 0
                        THEN Preferred(times.embedded, times.path) ELSE times.embedded
  IN IF folder.useFileModTime THEN Preferred(embeddedOrPath, times.modified) ELSE embeddedOrPath

(* The names under which an entry's collections are kept; a folder as an    *)
(* album goes by that of the folder in which the import starts.             *)
Albums(e) == ({e.album} \ {None}) \cup (IF folder.folderIsAlbum THEN {"."} ELSE {})

(* Mutant of Collected: a new one is not kept.                              *)
CollectedNowhere(g) == [c \in {} |-> 0]

Collected(g) ==
  [c \in DOMAIN collections \cup Albums(Entries[g]) |->
     IF c \in DOMAIN collections THEN collections[c] ELSE g]

Graph(g) ==
  [entry |-> g, time |-> Timestamp(Entries[g].times),
   collections |-> {<<c, IF c \in DOMAIN collections THEN collections[c] ELSE g>> : c \in Albums(Entries[g])}]

-----------------------------------------------------------------------------

Init ==
  /\ folder \in Folders
  /\ phase = "walk" /\ at = 1 /\ failed = FALSE
  /\ pc = [g \in DOMAIN folder.entries |-> "none"] /\ running = 0
  /\ holder = 0 /\ collections = [c \in {} |-> 0]
  /\ cancelled = FALSE /\ out = <<>>

Aborted == cancelled \/ (at <= Len(Entries) /\ Entry.is = "unreadable")
Walking == phase = "walk" /\ at <= Len(Entries) /\ ~Aborted

(* Hidden files, folders, other files, and videos that come with a picture. *)
Pass ==
  /\ Walking /\ ~(Entry.is = "folder" /\ Entry.hidden)
  /\ Entry.hidden \/ Entry.is # "media"
  /\ at' = at + 1
  /\ UNCHANGED <<folder, phase, failed, pc, running, holder, collections, cancelled, out>>

SkipDir ==
  /\ Walking /\ Entry.is = "folder" /\ Entry.hidden
  /\ at' \in (at + 1)..(Len(Entries) + 1)
  /\ \A i \in at..(at' - 1) : IsPrefix(Entry.path, Entries[i].path)
  /\ at' <= Len(Entries) => ~IsPrefix(Entry.path, Entries[at'].path)
  /\ UNCHANGED <<folder, phase, failed, pc, running, holder, collections, cancelled, out>>

Medium ==
  /\ Walking /\ Entry.is = "media" /\ ~Entry.hidden
  /\ phase' = "room"
  /\ UNCHANGED <<folder, at, failed, pc, running, holder, collections, cancelled, out>>

(* The walk waits for room in throttle, even if it is cancelled meanwhile.  *)
Spawn ==
  /\ phase = "room" /\ running < MaxGoroutines
  /\ running' = running + 1
  /\ pc' = [pc EXCEPT ![at] = "begin"]
  /\ phase' = "walk" /\ at' = at + 1
  /\ UNCHANGED <<folder, failed, holder, collections, cancelled, out>>

(* Mutant of EndWalk: FileImport returns.                                   *)
EndWalkAtOnce ==
  /\ phase = "walk" /\ (Aborted \/ at > Len(Entries))
  /\ phase' = IF at <= Len(Entries) THEN "error" ELSE "done"
  /\ failed' = (at <= Len(Entries))
  /\ UNCHANGED <<folder, at, pc, running, holder, collections, cancelled, out>>

(* The walk is over, or ends with an error if there was more of it: it was  *)
(* cancelled, or the entry cannot be read.                                  *)
EndWalk ==
  /\ phase = "walk" /\ (Aborted \/ at > Len(Entries))
  /\ phase' = "wait"
  /\ failed' = (at <= Len(Entries))
  /\ UNCHANGED <<folder, at, pc, running, holder, collections, cancelled, out>>

(* The deferred wg.Wait.                                                    *)
Return ==
  /\ phase = "wait" /\ Active = {}
  /\ phase' = IF failed THEN "error" ELSE "done"
  /\ UNCHANGED <<folder, at, failed, pc, running, holder, collections, cancelled, out>>

Begin(g) ==
  /\ pc[g] = "begin"
  /\ pc' = [pc EXCEPT ![g] = IF cancelled THEN "done" ELSE "read"]
  /\ running' = IF cancelled THEN running - 1 ELSE running
  /\ UNCHANGED <<folder, phase, at, failed, holder, collections, cancelled, out>>

(* What the file says of itself has been read.                              *)
Lock(g) ==
  /\ pc[g] = "read" /\ holder = 0
  /\ holder' = g
  /\ pc' = [pc EXCEPT ![g] = "send"]
  /\ UNCHANGED <<folder, phase, at, failed, running, collections, cancelled, out>>

(* The worker receives, cancelled or not, until FileImport has returned.    *)
Send(g) ==
  /\ pc[g] = "send" /\ phase \in {"walk", "room", "wait"}
  /\ out' = Append(out, Graph(g))
  /\ collections' = Collected(g)
  /\ holder' = 0 /\ running' = running - 1
  /\ pc' = [pc EXCEPT ![g] = "done"]
  /\ UNCHANGED <<folder, phase, at, failed, cancelled>>

Cancel ==
  /\ phase \in {"walk", "room", "wait"} /\ ~cancelled
  /\ cancelled' = TRUE
  /\ UNCHANGED <<folder, phase, at, failed, pc, running, holder, collections, out>>

Progress ==
  \/ Pass \/ SkipDir \/ Medium \/ Spawn \/ EndWalk \/ Return
  \/ \E g \in DOMAIN Entries : Begin(g) \/ Lock(g) \/ Send(g)

Next == Progress \/ Cancel

Spec == Init /\ [][Next]_vars

-----------------------------------------------------------------------------

Names == {e.album : e \in Range(Entries)} \cup {"."}
Graphs == [entry : DOMAIN Entries, time : Nat, collections : SUBSET (Names \X DOMAIN Entries)]

TypeOK ==
  /\ folder \in Folders
  /\ phase \in {"walk", "room", "wait", "done", "error"}
  /\ at \in 1..(Len(Entries) + 1)
  /\ pc \in [DOMAIN Entries -> {"none", "begin", "read", "send", "done"}]
  /\ running = Cardinality(Active) /\ running <= MaxGoroutines
  /\ holder \in DOMAIN Entries \cup {0} /\ \A g \in DOMAIN Entries : pc[g] = "send" <=> holder = g
  /\ DOMAIN collections \subseteq Names /\ collections \in [DOMAIN collections -> DOMAIN Entries]
  /\ out \in Seq(Graphs)
  /\ failed \in BOOLEAN /\ cancelled \in BOOLEAN

InHidden(g) ==
  \E h \in DOMAIN Entries : Entries[h].hidden /\ (h = g \/ Entries[h].is = "folder")
                         /\ IsPrefix(Entries[h].path, Entries[g].path)

(* Every medium that is not hidden comes once, unless cancelled.            *)
MediaComeOnce ==
  /\ \A m, n \in DOMAIN out : out[m].entry = out[n].entry => m = n
  /\ \A m \in DOMAIN out : Entries[out[m].entry].is = "media" /\ ~InHidden(out[m].entry)
  /\ phase = "done" /\ ~cancelled =>
       {g \in DOMAIN Entries : Entries[g].is = "media" /\ ~InHidden(g)} = {out[m].entry : m \in DOMAIN out}

(* An album is one collection, whichever goroutine comes to it first.       *)
AlbumsAreShared ==
  \A m, n \in DOMAIN out :
    /\ {c[1] : c \in out[m].collections} = Albums(Entries[out[m].entry])
    /\ \A c \in out[m].collections, d \in out[n].collections : c[1] = d[1] => c = d

(* "a timestamp within this range will be preferred over one not in the     *)
(* range" (media.go:53-58), and else they rank as they are tried; but that  *)
(* a file has no time of modification counts as one within any range.       *)
TimesAreChosen ==
  \A m \in DOMAIN out :
    LET times == Entries[out[m].entry].times
        tried == <<times.embedded, IF folder.useFilePathTime THEN times.path ELSE 0,
                   IF folder.useFileModTime THEN times.modified ELSE 0>>
        known == {k \in 1..3 : tried[k] # 0}
        within == {k \in known : folder.range = None \/ tried[k] \in folder.range}
        best == IF within # {} THEN within ELSE known
    IN (folder.useFileModTime => times.modified # 0) =>
         IF best = {} THEN out[m].time = 0
         ELSE \E k \in best : out[m].time = tried[k] /\ \A l \in best : k <= l

(* "if we return before they finish sending a value, they'll get            *)
(* deadlocked" (media.go:119-123): no goroutine is left behind, and none    *)
(* waits for ever, nor the walk for room.                                   *)
NoneIsLeft ==
  /\ phase \in {"done", "error"} => Active = {}
  /\ phase \in {"walk", "room", "wait"} => ENABLED Progress

FolderIsImported == MediaComeOnce /\ AlbumsAreShared /\ TimesAreChosen /\ NoneIsLeft
==============================================================================
