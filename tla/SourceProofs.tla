---------------------------- MODULE SourceProofs ----------------------------
(***************************************************************************)
(* The data sources: MediaFolder, for any folder that is walked in order,   *)
(* any options and any capacity of the throttle; DeviceScan, for any        *)
(* history and any capacity; and Readers, for any archives, any number of   *)
(* interruptions and any checkpoints that they left.                        *)
(*                                                                          *)
(* They have nothing to do with each other, but that the latter two are     *)
(* instances here that take the variables of the same names.                *)
(***************************************************************************)
EXTENDS MediaFolder, FiniteSetTheorems, WellFoundedInduction, NaturalsInduction, TLAPS

Visible(g) == Entries[g].is = "media" /\ ~InHidden(g)

-----------------------------------------------------------------------------
(* The inductive invariant.                                                 *)

(* What lies in a hidden folder is behind the walk once the folder is, and  *)
(* what is behind the walk has a goroutine just if it is to be imported.    *)
WalkInv ==
  /\ \A h \in 1..(at - 1) : Entries[h].is = "folder" /\ Entries[h].hidden =>
       \A j \in at..Len(Entries) : ~IsPrefix(Entries[h].path, Entries[j].path)
  /\ phase = "room" => at <= Len(Entries) /\ Entry.is = "media" /\ ~Entry.hidden
  /\ \A g \in DOMAIN Entries : pc[g] # "none" <=> g < at /\ Visible(g)
  /\ phase \in {"wait", "done"} /\ ~failed => at > Len(Entries)
  /\ phase = "done" => ~failed

(* A goroutine that ends has sent its graph, or was cancelled.              *)
SentInv ==
  /\ \A m \in DOMAIN out : pc[out[m].entry] = "done" /\ \A n \in DOMAIN out : out[m].entry = out[n].entry => m = n
  /\ \A g \in DOMAIN Entries : pc[g] = "done" /\ ~cancelled => \E m \in DOMAIN out : out[m].entry = g

(* A graph refers to collections that are kept.                             *)
CollectionsInv ==
  \A m \in DOMAIN out :
    /\ {c[1] : c \in out[m].collections} = Albums(Entries[out[m].entry])
    /\ \A c \in out[m].collections : c[1] \in DOMAIN collections /\ collections[c[1]] = c[2]

TimesInv == \A m \in DOMAIN out : out[m].time = Timestamp(Entries[out[m].entry].times)

NoneIsActive == phase \in {"done", "error"} => Active = {}

MediaInv == TypeOK /\ WalkInv /\ SentInv /\ CollectionsInv /\ TimesInv /\ NoneIsActive

-----------------------------------------------------------------------------

LEMMA EntriesType ==
  ASSUME FolderAssumption, folder \in Folders
  PROVE  /\ Entries \in Seq(Range(Entries)) /\ Len(Entries) \in Nat /\ DOMAIN Entries = 1..Len(Entries)
         /\ 0 \notin DOMAIN Entries /\ IsFiniteSet(DOMAIN Entries) /\ WalkOrder(Entries)
         /\ \A g \in DOMAIN Entries :
              /\ Entries[g] \in Range(Entries) /\ Entries[g].album \in Names
              /\ Entries[g].path \in Seq(Range(Entries[g].path))
              /\ Entries[g].times \in [{"embedded", "path", "modified"} -> Nat]
<1>1. Entries \in Seq(Range(Entries)) /\ WalkOrder(Entries)
  BY DEF FolderAssumption, Entries
<1>2. Len(Entries) \in Nat /\ DOMAIN Entries = 1..Len(Entries)
  BY <1>1
<1>3. \A g \in DOMAIN Entries : Entries[g] \in Range(Entries)
  BY DEF Range
<1>4. \A g \in DOMAIN Entries : /\ Entries[g].path \in Seq(Range(Entries[g].path)) /\ Entries[g].album \in Names
                                /\ Entries[g].times \in [{"embedded", "path", "modified"} -> Nat]
  BY <1>3 DEF FolderAssumption, Entries, Names
<1>5. IsFiniteSet(DOMAIN Entries)
  BY <1>2, FS_Interval
<1> QED
  BY <1>1, <1>2, <1>3, <1>4, <1>5

LEMMA PrefixOfPrefix ==
  ASSUME NEW S, NEW T, NEW U, NEW s \in Seq(S), NEW t \in Seq(T), NEW u \in Seq(U),
         IsPrefix(s, t), IsPrefix(t, u)
  PROVE  IsPrefix(s, u)
<1>1. Len(s) \in Nat /\ Len(t) \in Nat /\ Len(u) \in Nat /\ Len(s) <= Len(t) /\ Len(t) <= Len(u)
  BY DEF IsPrefix
<1>2. \A i \in 1..Len(s) : s[i] = t[i]
  <2> TAKE i \in 1..Len(s)
  <2>1. SubSeq(s, 1, Len(s))[i] = s[i] /\ SubSeq(t, 1, Len(s))[i] = t[i]
    BY <1>1
  <2> QED
    BY <2>1 DEF IsPrefix
<1>3. \A i \in 1..Len(t) : t[i] = u[i]
  <2> TAKE i \in 1..Len(t)
  <2>1. SubSeq(t, 1, Len(t))[i] = t[i] /\ SubSeq(u, 1, Len(t))[i] = u[i]
    BY <1>1
  <2> QED
    BY <2>1 DEF IsPrefix
<1>4. \A i \in 1..Len(s) : s[i] = u[i]
  BY <1>1, <1>2, <1>3
<1>5. SubSeq(s, 1, Len(s)) = SubSeq(u, 1, Len(s))
  BY <1>1, <1>4
<1> QED
  BY <1>1, <1>5 DEF IsPrefix

LEMMA PrefixOfItself ==
  ASSUME NEW S, NEW s \in Seq(S)
  PROVE  IsPrefix(s, s)
BY DEF IsPrefix

(* An entry that is hidden, or lies in a folder that is, is not visible.    *)
LEMMA HiddenBelow ==
  ASSUME FolderAssumption, folder \in Folders, NEW g \in DOMAIN Entries, NEW h \in DOMAIN Entries,
         Entries[h].hidden, h = g \/ (Entries[h].is = "folder" /\ IsPrefix(Entries[h].path, Entries[g].path))
  PROVE  ~Visible(g)
<1>1. IsPrefix(Entries[h].path, Entries[g].path)
  BY EntriesType, PrefixOfItself
<1> QED
  BY <1>1 DEF Visible, InHidden

(* Whether an entry is visible depends on the folder alone.                 *)
LEMMA FolderIsKept ==
  ASSUME UNCHANGED folder
  PROVE  Entries' = Entries /\ Names' = Names /\ Graphs' = Graphs /\ \A g : Visible(g)' <=> Visible(g)
BY DEF Entries, Names, Graphs, Visible, InHidden

LEMMA TimestampType ==
  ASSUME FolderAssumption, folder \in Folders, NEW g \in DOMAIN Entries
  PROVE  Timestamp(Entries[g].times) \in Nat
<1> DEFINE times == Entries[g].times
<1>1. times.embedded \in Nat /\ times.path \in Nat /\ times.modified \in Nat
  BY EntriesType
<1> QED
  BY <1>1 DEF Timestamp, Preferred

LEMMA GraphType ==
  ASSUME FolderAssumption, TypeOK, NEW g \in DOMAIN Entries
  PROVE  /\ Graph(g) \in Graphs /\ Albums(Entries[g]) \subseteq Names
         /\ DOMAIN Collected(g) = DOMAIN collections \cup Albums(Entries[g])
         /\ Collected(g) \in [DOMAIN Collected(g) -> DOMAIN Entries]
         /\ {c[1] : c \in Graph(g).collections} = Albums(Entries[g])
         /\ \A c \in Graph(g).collections : c[1] \in DOMAIN Collected(g) /\ Collected(g)[c[1]] = c[2]
<1>0. folder \in Folders
  BY DEF TypeOK
<1>1. Albums(Entries[g]) \subseteq Names
  BY <1>0, EntriesType DEF Albums, Names
<1>2. \A c \in DOMAIN collections : collections[c] \in DOMAIN Entries
  BY DEF TypeOK
<1> DEFINE Owner(c) == IF c \in DOMAIN collections THEN collections[c] ELSE g
           Pairs == {<<c, Owner(c)>> : c \in Albums(Entries[g])}
<1>3. \A c : Owner(c) \in DOMAIN Entries
  BY <1>2
<1>4. Pairs \in SUBSET (Names \X DOMAIN Entries)
  BY <1>1, <1>3
<1>5. /\ Graph(g).collections = Pairs /\ Graph(g).entry = g /\ Graph(g).time = Timestamp(Entries[g].times)
      /\ Graph(g) = [entry |-> g, time |-> Timestamp(Entries[g].times), collections |-> Pairs]
  BY DEF Graph
<1>6. Graph(g) \in Graphs
  BY <1>0, <1>4, <1>5, TimestampType DEF Graphs
<1>7. Collected(g) = [c \in DOMAIN collections \cup Albums(Entries[g]) |-> Owner(c)]
  BY DEF Collected
<1> HIDE DEF Owner
<1>9. \A c \in Pairs : c[1] \in Albums(Entries[g]) /\ c[2] = Owner(c[1])
  OBVIOUS
<1>10. \A a \in Albums(Entries[g]) : \E c \in Pairs : c[1] = a
  <2> TAKE a \in Albums(Entries[g])
  <2>1. <<a, Owner(a)>> \in Pairs /\ <<a, Owner(a)>>[1] = a
    OBVIOUS
  <2> QED
    BY <2>1
<1>8. {c[1] : c \in Pairs} = Albums(Entries[g])
  BY <1>9, <1>10
<1> QED
  BY <1>1, <1>3, <1>5, <1>6, <1>7, <1>8, <1>9

LEMMA InvInit == ASSUME FolderAssumption PROVE Init => MediaInv
<1> SUFFICES ASSUME Init PROVE MediaInv
  OBVIOUS
<1>0. folder \in Folders /\ Entries = folder.entries
  BY DEF Init, Entries
<1>1. Len(Entries) \in Nat /\ DOMAIN Entries = 1..Len(Entries) /\ 0 \notin DOMAIN Entries
  BY <1>0, EntriesType
<1>2. Active = {} /\ Cardinality(Active) = 0
  BY <1>0, FS_EmptySet DEF Init, Active
<1>3. TypeOK
  <2>1. 0 <= MaxGoroutines
    BY DEF FolderAssumption
  <2>2. out \in Seq(Graphs)
    BY DEF Init
  <2>3. collections \in [DOMAIN collections -> DOMAIN Entries] /\ DOMAIN collections = {}
    BY DEF Init
  <2>4. pc \in [DOMAIN Entries -> {"none", "begin", "read", "send", "done"}] /\ \A g \in DOMAIN Entries : pc[g] = "none"
    BY <1>0 DEF Init
  <2>5. \A g \in DOMAIN Entries : pc[g] = "send" <=> holder = g
    BY <2>4, <1>1 DEF Init
  <2>6. at \in 1..(Len(Entries) + 1) /\ holder \in DOMAIN Entries \cup {0} /\ running = Cardinality(Active)
    BY <1>1, <1>2 DEF Init
  <2>7. /\ phase \in {"walk", "room", "wait", "done", "error"} /\ running <= MaxGoroutines
        /\ failed \in BOOLEAN /\ cancelled \in BOOLEAN
    BY <2>1 DEF Init
  <2>8. DOMAIN collections \subseteq Names
    BY <2>3
  <2> QED
    BY <1>0, <2>2, <2>3, <2>4, <2>5, <2>6, <2>7, <2>8 DEF TypeOK
<1>4. WalkInv
  BY <1>0, <1>1 DEF Init, WalkInv
<1>5. SentInv /\ CollectionsInv /\ TimesInv
  BY <1>0 DEF Init, SentInv, CollectionsInv, TimesInv
<1>6. NoneIsActive
  BY <1>2 DEF NoneIsActive
<1> QED
  BY <1>3, <1>4, <1>5, <1>6 DEF MediaInv

LEMMA OutType ==
  ASSUME FolderAssumption, TypeOK, NEW m \in DOMAIN out
  PROVE  out[m] \in Graphs /\ out[m].entry \in DOMAIN Entries
<1>1. out[m] \in Graphs
  BY DEF TypeOK
<1> QED
  BY <1>1 DEF Graphs

(* Steps that send nothing leave what was sent as it was.                   *)
LEMMA SentIsKept ==
  ASSUME FolderAssumption, TypeOK, CollectionsInv, TimesInv, UNCHANGED <<folder, collections, out>>
  PROVE  CollectionsInv' /\ TimesInv'
<1>1. Entries' = Entries /\ folder' = folder /\ collections' = collections /\ out' = out
  BY FolderIsKept
<1>2. \A e : Albums(e)' = Albums(e) /\ \A t : Timestamp(t)' = Timestamp(t)
  BY DEF Albums, Timestamp, Preferred, InRange
<1>3. CollectionsInv'
  BY <1>1, <1>2 DEF CollectionsInv
<1>4. TimesInv'
  BY <1>1, <1>2 DEF TimesInv
<1> QED
  BY <1>3, <1>4

(* Nor does a step of the walk alone change what goroutines do.             *)
LEMMA WalkKeeps ==
  ASSUME FolderAssumption, MediaInv, WalkInv', at' \in 1..(Len(Entries) + 1), failed' \in BOOLEAN,
         phase' \in {"walk", "room", "wait", "done", "error"}, phase' \in {"done", "error"} => Active = {},
         UNCHANGED <<folder, pc, running, holder, collections, cancelled, out>>
  PROVE  MediaInv'
<1>1. Entries' = Entries /\ Names' = Names /\ Graphs' = Graphs /\ Active' = Active
  BY FolderIsKept DEF Active
<1>2. TypeOK'
  BY <1>1 DEF MediaInv, TypeOK
<1>3. SentInv' /\ NoneIsActive'
  BY <1>1 DEF MediaInv, SentInv, NoneIsActive
<1> QED
  BY <1>2, <1>3, SentIsKept DEF MediaInv

LEMMA PassKeeps ==
  ASSUME FolderAssumption, MediaInv, Pass
  PROVE  MediaInv'
<1>1. folder \in Folders /\ at \in 1..Len(Entries) /\ Entries' = Entries /\ \A g : Visible(g)' <=> Visible(g)
  BY FolderIsKept, EntriesType DEF Pass, Walking, MediaInv, TypeOK
<1>2. Len(Entries) \in Nat /\ DOMAIN Entries = 1..Len(Entries)
  BY <1>1, EntriesType
<1>3. ~Visible(at)
  BY <1>1, <1>2, HiddenBelow DEF Pass, Entry, Visible
<1>4. WalkInv'
  <2>1. ASSUME NEW h \in 1..(at' - 1), Entries[h].is = "folder", Entries[h].hidden, NEW j \in at'..Len(Entries)
        PROVE  ~IsPrefix(Entries[h].path, Entries[j].path)
    <3>1. h # at
      BY <2>1 DEF Pass, Entry
    <3>2. h \in 1..(at - 1) /\ j \in at..Len(Entries)
      BY <1>1, <1>2, <3>1 DEF Pass
    <3> QED
      BY <2>1, <3>2 DEF MediaInv, WalkInv
  <2>2. \A g \in DOMAIN Entries : pc[g] # "none" <=> g < at' /\ Visible(g)
    <3> TAKE g \in DOMAIN Entries
    <3>1. g < at' <=> g < at \/ g = at
      BY <1>1, <1>2 DEF Pass
    <3> QED
      BY <1>3, <3>1 DEF MediaInv, WalkInv
  <2>3. phase' = "walk" /\ pc' = pc
    BY DEF Pass, Walking
  <2> QED
    BY <1>1, <2>1, <2>2, <2>3 DEF WalkInv
<1> QED
  BY <1>1, <1>2, <1>4, WalkKeeps DEF Pass, Walking, MediaInv, TypeOK

LEMMA SkipDirKeeps ==
  ASSUME FolderAssumption, MediaInv, SkipDir
  PROVE  MediaInv'
<1>1. PICK k \in (at + 1)..(Len(Entries) + 1) : at' = k
  BY DEF SkipDir
<1>2. /\ folder \in Folders /\ at \in 1..Len(Entries) /\ Entries' = Entries /\ \A g : Visible(g)' <=> Visible(g)
      /\ phase = "walk" /\ phase' = "walk" /\ pc' = pc
      /\ Entry = Entries[at]
  BY FolderIsKept, EntriesType DEF SkipDir, Walking, MediaInv, TypeOK, Entry
<1>3. Len(Entries) \in Nat /\ DOMAIN Entries = 1..Len(Entries)
  BY <1>2, EntriesType
<1>4. at \in 1..Len(Entries) /\ k \in Nat /\ at < k /\ k <= Len(Entries) + 1
  BY <1>2, <1>3
<1>5. \A g \in at..(k - 1) : ~Visible(g)
  <2> TAKE g \in at..(k - 1)
  <2>1. g \in DOMAIN Entries /\ at \in DOMAIN Entries
    BY <1>4, <1>3
  <2> QED
    BY <1>1, <1>2, <2>1, HiddenBelow DEF SkipDir
(* What comes after the first entry outside of the folder is outside, too.  *)
<1>6. \A j \in k..Len(Entries) : ~IsPrefix(Entry.path, Entries[j].path)
  <2> SUFFICES ASSUME NEW j \in k..Len(Entries), IsPrefix(Entry.path, Entries[j].path) PROVE FALSE
    OBVIOUS
  <2>1. j \in DOMAIN Entries /\ at \in DOMAIN Entries /\ k \in at..j /\ k <= Len(Entries)
    BY <1>2, <1>3
  <2>2. IsPrefix(Entry.path, Entries[k].path)
    BY <1>2, <2>1, EntriesType DEF WalkOrder, SkipDir
  <2> QED
    BY <1>1, <2>1, <2>2 DEF SkipDir
<1>7. WalkInv'
  <2>1. ASSUME NEW h \in 1..(k - 1), Entries[h].is = "folder", Entries[h].hidden, NEW j \in k..Len(Entries)
        PROVE  ~IsPrefix(Entries[h].path, Entries[j].path)
    <3>1. CASE h \in 1..(at - 1)
      <4>1. j \in at..Len(Entries)
        BY <1>2, <1>3
      <4> QED
        BY <2>1, <3>1, <4>1 DEF MediaInv, WalkInv
    <3>2. CASE h \notin 1..(at - 1)
      <4>1. h \in at..(k - 1) /\ h \in DOMAIN Entries /\ j \in DOMAIN Entries /\ at \in DOMAIN Entries
        BY <1>4, <1>3, <3>2
      <4>2. IsPrefix(Entries[at].path, Entries[h].path)
        BY <1>1, <1>2, <4>1 DEF SkipDir
      <4>3. ~IsPrefix(Entries[at].path, Entries[j].path)
        BY <1>2, <1>6
      <4> QED
        BY <1>2, <4>1, <4>2, <4>3, EntriesType, PrefixOfPrefix
    <3> QED
      BY <3>1, <3>2
  <2>2. \A g \in DOMAIN Entries : pc[g] # "none" <=> g < k /\ Visible(g)
    <3> TAKE g \in DOMAIN Entries
    <3>1. g < k <=> g < at \/ g \in at..(k - 1)
      BY <1>2, <1>3
    <3> QED
      BY <1>5, <3>1 DEF MediaInv, WalkInv
  <2> QED
    BY <1>1, <1>2, <2>1, <2>2 DEF WalkInv
<1> QED
  BY <1>1, <1>2, <1>3, <1>7, WalkKeeps DEF SkipDir, MediaInv, TypeOK

LEMMA MediumKeeps ==
  ASSUME FolderAssumption, MediaInv, Medium
  PROVE  MediaInv'
<1>1. folder \in Folders /\ Entries' = Entries /\ \A g : Visible(g)' <=> Visible(g)
  BY FolderIsKept DEF Medium, MediaInv, TypeOK
<1>2. WalkInv'
  BY <1>1 DEF Medium, Walking, Entry, MediaInv, WalkInv
<1> QED
  BY <1>1, <1>2, WalkKeeps DEF Medium, MediaInv, TypeOK

LEMMA EndWalkKeeps ==
  ASSUME FolderAssumption, MediaInv, EndWalk
  PROVE  MediaInv'
<1>1. folder \in Folders /\ Entries' = Entries /\ \A g : Visible(g)' <=> Visible(g)
  BY FolderIsKept DEF EndWalk, MediaInv, TypeOK
<1>2. Len(Entries) \in Nat /\ at \in 1..(Len(Entries) + 1)
  BY <1>1, EntriesType DEF MediaInv, TypeOK
<1>3. ~failed' => at > Len(Entries)
  <2>1. at <= Len(Entries) => failed'
    BY DEF EndWalk
  <2> QED
    BY <1>2, <2>1
<1>4. WalkInv'
  BY <1>1, <1>3 DEF EndWalk, MediaInv, WalkInv
<1> QED
  BY <1>1, <1>2, <1>4, WalkKeeps DEF EndWalk, MediaInv, TypeOK

LEMMA ReturnKeeps ==
  ASSUME FolderAssumption, MediaInv, Return
  PROVE  MediaInv'
<1>1. folder \in Folders /\ Entries' = Entries /\ \A g : Visible(g)' <=> Visible(g)
  BY FolderIsKept DEF Return, MediaInv, TypeOK
<1>2. WalkInv'
  BY <1>1 DEF Return, MediaInv, WalkInv
<1> QED
  BY <1>1, <1>2, WalkKeeps DEF Return, MediaInv, TypeOK

LEMMA ActiveIsFinite ==
  ASSUME FolderAssumption, TypeOK
  PROVE  IsFiniteSet(Active) /\ Cardinality(Active) \in Nat
<1>1. IsFiniteSet(DOMAIN Entries) /\ Active \subseteq DOMAIN Entries
  BY EntriesType DEF TypeOK, Active
<1> QED
  BY <1>1, FS_Subset, FS_CardinalityType

LEMMA SpawnKeeps ==
  ASSUME FolderAssumption, MediaInv, Spawn
  PROVE  MediaInv'
<1>1. /\ folder \in Folders /\ Entries' = Entries /\ Names' = Names /\ Graphs' = Graphs
      /\ \A g : Visible(g)' <=> Visible(g)
  BY FolderIsKept DEF Spawn, MediaInv, TypeOK
<1>2. Len(Entries) \in Nat /\ DOMAIN Entries = 1..Len(Entries) /\ at \in 1..Len(Entries) /\ at \in DOMAIN Entries
  <2>1. Len(Entries) \in Nat /\ DOMAIN Entries = 1..Len(Entries)
    BY <1>1, EntriesType
  <2>2. at \in 1..(Len(Entries) + 1) /\ at <= Len(Entries)
    BY DEF Spawn, MediaInv, TypeOK, WalkInv
  <2> QED
    BY <2>1, <2>2
(* The folders above are not hidden: the walk would not have come here.     *)
<1>3. Visible(at)
  <2>1. ASSUME NEW h \in DOMAIN Entries, Entries[h].is = "folder", IsPrefix(Entries[h].path, Entries[at].path)
        PROVE  ~Entries[h].hidden
    <3>1. h <= at
      BY <1>1, <1>2, <2>1, EntriesType DEF WalkOrder
    <3>2. h # at
      BY <2>1 DEF Spawn, MediaInv, WalkInv, Entry
    <3>3. h \in 1..(at - 1) /\ at \in at..Len(Entries)
      BY <1>2, <3>1, <3>2
    <3> QED
      BY <2>1, <3>3 DEF MediaInv, WalkInv
  <2> QED
    BY <1>2, <2>1 DEF Visible, InHidden, Spawn, MediaInv, WalkInv, Entry
<1>4. pc[at] = "none" /\ pc' = [pc EXCEPT ![at] = "begin"] /\ at' = at + 1 /\ phase' = "walk"
  <2>1. ~(at < at)
    BY <1>2
  <2> QED
    BY <1>2, <2>1 DEF Spawn, MediaInv, WalkInv
<1>5. /\ pc \in [DOMAIN Entries -> {"none", "begin", "read", "send", "done"}]
      /\ \A g \in DOMAIN Entries : pc'[g] = IF g = at THEN "begin" ELSE pc[g]
  BY <1>4 DEF MediaInv, TypeOK
<1>6. TypeOK'
  <2>1. Active' = Active \cup {at} /\ at \notin Active
    BY <1>1, <1>2, <1>4, <1>5 DEF Active
  <2>2. Cardinality(Active') = Cardinality(Active) + 1
    BY <2>1, ActiveIsFinite, FS_AddElement DEF MediaInv
  <2>3. running' = Cardinality(Active') /\ running' <= MaxGoroutines
    BY <2>2, ActiveIsFinite DEF Spawn, MediaInv, TypeOK, FolderAssumption
  <2>4. at' \in 1..(Len(Entries) + 1)
    BY <1>2, <1>4
  <2>5. \A g \in DOMAIN Entries : pc'[g] = "send" <=> holder' = g
    BY <1>2, <1>4, <1>5 DEF Spawn, MediaInv, TypeOK
  <2> QED
    BY <1>1, <1>4, <1>5, <2>3, <2>4, <2>5 DEF Spawn, MediaInv, TypeOK
<1>7. WalkInv'
  <2>1. ASSUME NEW h \in 1..at, Entries[h].is = "folder", Entries[h].hidden, NEW j \in (at + 1)..Len(Entries)
        PROVE  ~IsPrefix(Entries[h].path, Entries[j].path)
    <3>1. h # at
      BY <2>1 DEF Spawn, MediaInv, WalkInv, Entry
    <3>2. h \in 1..(at - 1) /\ j \in at..Len(Entries)
      BY <1>2, <3>1
    <3> QED
      BY <2>1, <3>2 DEF MediaInv, WalkInv
  <2>2. \A g \in DOMAIN Entries : pc'[g] # "none" <=> g < at + 1 /\ Visible(g)
    <3> TAKE g \in DOMAIN Entries
    <3>1. g < at + 1 <=> g < at \/ g = at
      BY <1>2
    <3> QED
      BY <1>3, <1>5, <3>1 DEF MediaInv, WalkInv
  <2>3. at' - 1 = at
    BY <1>2, <1>4
  <2> QED
    BY <1>1, <1>4, <2>1, <2>2, <2>3 DEF WalkInv
<1>8. SentInv'
  <2>1. \A m \in DOMAIN out : pc'[out[m].entry] = "done"
    <3> TAKE m \in DOMAIN out
    <3>1. out[m].entry \in DOMAIN Entries /\ pc[out[m].entry] = "done"
      BY OutType DEF MediaInv, SentInv
    <3> QED
      BY <1>4, <1>5, <3>1
  <2>2. out' = out /\ cancelled' = cancelled
    BY DEF Spawn
  <2> QED
    BY <1>1, <1>5, <2>1, <2>2 DEF MediaInv, SentInv
<1>9. CollectionsInv' /\ TimesInv' /\ NoneIsActive'
  BY <1>4, SentIsKept DEF MediaInv, NoneIsActive, Spawn
<1> QED
  BY <1>6, <1>7, <1>8, <1>9 DEF MediaInv

(* Steps of one goroutine.                                                  *)
LEMMA StepOfOne ==
  ASSUME FolderAssumption, MediaInv, NEW g \in DOMAIN Entries, pc[g] \in {"begin", "read", "send"},
         NEW c \in {"read", "send", "done"}, pc' = [pc EXCEPT ![g] = c],
         UNCHANGED <<folder, phase, at, failed>>
  PROVE  /\ WalkInv' /\ NoneIsActive'
         /\ Entries' = Entries /\ Names' = Names /\ Graphs' = Graphs
         /\ pc' \in [DOMAIN Entries -> {"none", "begin", "read", "send", "done"}]
         /\ \A h \in DOMAIN Entries : pc'[h] = IF h = g THEN c ELSE pc[h]
         /\ phase \in {"walk", "room", "wait"}
         /\ Cardinality(Active)' = IF c = "done" THEN running - 1 ELSE running
<1>1. /\ Entries' = Entries /\ Names' = Names /\ Graphs' = Graphs /\ \A h : Visible(h)' <=> Visible(h)
  BY FolderIsKept
<1>2. pc \in [DOMAIN Entries -> {"none", "begin", "read", "send", "done"}]
  BY DEF MediaInv, TypeOK
<1>3. \A h \in DOMAIN Entries : pc'[h] = IF h = g THEN c ELSE pc[h]
  BY <1>2
<1>4. WalkInv'
  <2>1. \A h \in DOMAIN Entries : pc'[h] # "none" <=> pc[h] # "none"
    BY <1>3
  <2> QED
    BY <1>1, <2>1 DEF MediaInv, WalkInv, Entry
<1>5. g \in Active
  BY DEF Active
<1>6. phase \in {"walk", "room", "wait"}
  BY <1>5 DEF MediaInv, TypeOK, NoneIsActive
<1>7. Active' = IF c = "done" THEN Active \ {g} ELSE Active
  BY <1>1, <1>3 DEF Active
<1>8. Cardinality(Active)' = IF c = "done" THEN running - 1 ELSE running
  BY <1>5, <1>7, ActiveIsFinite, FS_RemoveElement DEF MediaInv, TypeOK
<1> QED
  BY <1>1, <1>2, <1>3, <1>4, <1>6, <1>8 DEF NoneIsActive

LEMMA BeginKeeps ==
  ASSUME FolderAssumption, MediaInv, NEW g \in DOMAIN Entries, Begin(g)
  PROVE  MediaInv'
<1> DEFINE c == IF cancelled THEN "done" ELSE "read"
<1>1. pc' = [pc EXCEPT ![g] = c] /\ pc[g] = "begin" /\ c \in {"read", "send", "done"}
  BY DEF Begin
<1>2. running' = IF c = "done" THEN running - 1 ELSE running
  BY DEF Begin
<1>0. c = "done" => cancelled
  OBVIOUS
<1> HIDE DEF c
<1>3. /\ WalkInv' /\ NoneIsActive' /\ Entries' = Entries /\ Names' = Names /\ Graphs' = Graphs
      /\ pc' \in [DOMAIN Entries -> {"none", "begin", "read", "send", "done"}]
      /\ \A h \in DOMAIN Entries : pc'[h] = IF h = g THEN c ELSE pc[h]
      /\ Cardinality(Active)' = running'
  <2>1. pc[g] \in {"begin", "read", "send"} /\ UNCHANGED <<folder, phase, at, failed>>
    BY DEF Begin
  <2> QED
    BY <1>1, <1>2, <2>1, StepOfOne
<1>4. TypeOK'
  <2>1. running' <= MaxGoroutines
    BY <1>2, ActiveIsFinite DEF MediaInv, TypeOK, FolderAssumption
  <2>2. \A h \in DOMAIN Entries : pc'[h] = "send" <=> holder' = h
    BY <1>1, <1>3, <1>0 DEF Begin, MediaInv, TypeOK, c
  <2> QED
    BY <1>3, <2>1, <2>2 DEF Begin, MediaInv, TypeOK
<1>5. SentInv'
  <2>1. \A m \in DOMAIN out : pc'[out[m].entry] = "done"
    <3> TAKE m \in DOMAIN out
    <3>1. out[m].entry \in DOMAIN Entries /\ pc[out[m].entry] = "done"
      BY OutType DEF MediaInv, SentInv
    <3> QED
      BY <1>1, <1>3, <3>1
  <2>2. out' = out /\ cancelled' = cancelled
    BY DEF Begin
  <2> QED
    BY <1>0, <1>3, <2>1, <2>2 DEF MediaInv, SentInv
<1> QED
  BY <1>3, <1>4, <1>5, SentIsKept DEF Begin, MediaInv

LEMMA LockKeeps ==
  ASSUME FolderAssumption, MediaInv, NEW g \in DOMAIN Entries, Lock(g)
  PROVE  MediaInv'
<1>1. pc' = [pc EXCEPT ![g] = "send"] /\ pc[g] = "read" /\ running' = running /\ holder = 0 /\ holder' = g
  BY DEF Lock
<1>2. /\ WalkInv' /\ NoneIsActive' /\ Entries' = Entries /\ Names' = Names /\ Graphs' = Graphs
      /\ pc' \in [DOMAIN Entries -> {"none", "begin", "read", "send", "done"}]
      /\ \A h \in DOMAIN Entries : pc'[h] = IF h = g THEN "send" ELSE pc[h]
      /\ Cardinality(Active)' = running'
  BY <1>1, StepOfOne DEF Lock
<1>3. TypeOK'
  <2>1. \A h \in DOMAIN Entries : pc'[h] = "send" <=> holder' = h
    BY <1>1, <1>2, EntriesType DEF MediaInv, TypeOK
  <2> QED
    BY <1>1, <1>2, <2>1 DEF Lock, MediaInv, TypeOK
<1>4. SentInv'
  <2>1. \A m \in DOMAIN out : pc'[out[m].entry] = "done"
    <3> TAKE m \in DOMAIN out
    <3>1. out[m].entry \in DOMAIN Entries /\ pc[out[m].entry] = "done"
      BY OutType DEF MediaInv, SentInv
    <3> QED
      BY <1>1, <1>2, <3>1
  <2>2. out' = out /\ cancelled' = cancelled
    BY DEF Lock
  <2> QED
    BY <1>2, <2>1, <2>2 DEF MediaInv, SentInv
<1> QED
  BY <1>2, <1>3, <1>4, SentIsKept DEF Lock, MediaInv

LEMMA SendKeeps ==
  ASSUME FolderAssumption, MediaInv, NEW g \in DOMAIN Entries, Send(g)
  PROVE  MediaInv'
<1>0. folder \in Folders /\ TypeOK /\ SentInv /\ CollectionsInv /\ TimesInv
  BY DEF MediaInv, TypeOK
<1>1. /\ pc' = [pc EXCEPT ![g] = "done"] /\ pc[g] = "send" /\ running' = running - 1 /\ holder = g /\ holder' = 0
      /\ out' = Append(out, Graph(g)) /\ collections' = Collected(g)
      /\ UNCHANGED <<folder, phase, at, failed, cancelled>>
  BY <1>0 DEF Send, TypeOK
<1>2. /\ WalkInv' /\ NoneIsActive' /\ Entries' = Entries /\ Names' = Names /\ Graphs' = Graphs
      /\ pc' \in [DOMAIN Entries -> {"none", "begin", "read", "send", "done"}]
      /\ \A h \in DOMAIN Entries : pc'[h] = IF h = g THEN "done" ELSE pc[h]
      /\ Cardinality(Active)' = running - 1
  BY <1>1, StepOfOne
<1>3. /\ out \in Seq(Graphs) /\ Len(out) \in Nat /\ DOMAIN out = 1..Len(out) /\ Graph(g) \in Graphs
      /\ Graph(g).entry = g /\ Graph(g).time = Timestamp(Entries[g].times)
  <2>1. Graph(g) \in Graphs
    BY <1>0, GraphType
  <2>2. out \in Seq(Graphs)
    BY <1>0 DEF TypeOK
  <2> QED
    BY <2>1, <2>2 DEF Graph
<1>4. /\ out' \in Seq(Graphs) /\ DOMAIN out' = DOMAIN out \cup {Len(out) + 1} /\ Len(out) + 1 \notin DOMAIN out
      /\ out'[Len(out) + 1] = Graph(g) /\ \A m \in DOMAIN out : out'[m] = out[m]
  BY <1>1, <1>3
<1>5. \A m \in DOMAIN out' : (m \in DOMAIN out /\ out'[m] = out[m]) \/ (m = Len(out) + 1 /\ out'[m] = Graph(g))
  BY <1>4
<1>6. TypeOK'
  <2>1. running - 1 <= MaxGoroutines
    BY <1>0, ActiveIsFinite DEF TypeOK, FolderAssumption
  <2>2. \A h \in DOMAIN Entries : pc'[h] = "send" <=> holder' = h
    BY <1>0, <1>1, <1>2, EntriesType DEF TypeOK
  <2>3. DOMAIN collections' \subseteq Names /\ collections' \in [DOMAIN collections' -> DOMAIN Entries]
    BY <1>0, <1>1, GraphType DEF TypeOK
  <2> QED
    BY <1>0, <1>1, <1>2, <1>4, <2>1, <2>2, <2>3 DEF TypeOK
<1>7. SentInv'
  <2>1. \A m \in DOMAIN out : out[m].entry \in DOMAIN Entries /\ out[m].entry # g /\ pc[out[m].entry] = "done"
    BY <1>0, <1>1, OutType DEF SentInv
  <2>2. \A m \in DOMAIN out' : pc'[out'[m].entry] = "done"
    BY <1>2, <1>3, <1>5, <2>1
  <2>3. \A m, n \in DOMAIN out' : out'[m].entry = out'[n].entry => m = n
    BY <1>0, <1>3, <1>5, <2>1 DEF SentInv
  <2>4. ASSUME NEW h \in DOMAIN Entries, pc'[h] = "done", ~cancelled PROVE \E m \in DOMAIN out' : out'[m].entry = h
    <3>1. CASE h = g
      BY <1>3, <1>4, <3>1
    <3>2. CASE h # g
      <4>1. PICK m \in DOMAIN out : out[m].entry = h
        BY <1>0, <1>2, <2>4, <3>2 DEF SentInv
      <4> QED
        BY <1>4, <4>1
    <3> QED
      BY <3>1, <3>2
  <2> QED
    BY <1>1, <1>2, <2>2, <2>3, <2>4 DEF SentInv
<1>8. CollectionsInv'
  <2>1. \A e : Albums(e)' = Albums(e)
    BY <1>1 DEF Albums
  <2>2. \A c \in DOMAIN collections : c \in DOMAIN Collected(g) /\ Collected(g)[c] = collections[c]
    BY DEF Collected
  <2>3. ASSUME NEW m \in DOMAIN out'
        PROVE  /\ {c[1] : c \in out'[m].collections} = Albums(Entries[out'[m].entry])
               /\ \A c \in out'[m].collections : c[1] \in DOMAIN Collected(g) /\ Collected(g)[c[1]] = c[2]
    <3>1. CASE m \in DOMAIN out /\ out'[m] = out[m]
      BY <1>0, <2>2, <3>1 DEF CollectionsInv
    <3>2. CASE out'[m] = Graph(g)
      BY <1>0, <1>3, <3>2, GraphType
    <3> QED
      BY <1>5, <3>1, <3>2
  <2> QED
    BY <1>1, <1>2, <2>1, <2>3 DEF CollectionsInv
<1>9. TimesInv'
  <2>1. \A t : Timestamp(t)' = Timestamp(t)
    BY <1>1 DEF Timestamp, Preferred, InRange
  <2>2. \A m \in DOMAIN out' : out'[m].time = Timestamp(Entries[out'[m].entry].times)
    BY <1>0, <1>3, <1>5 DEF TimesInv
  <2> QED
    BY <1>2, <2>1, <2>2 DEF TimesInv
<1> QED
  BY <1>2, <1>6, <1>7, <1>8, <1>9 DEF MediaInv

LEMMA CancelKeeps ==
  ASSUME FolderAssumption, MediaInv, Cancel
  PROVE  MediaInv'
<1>1. /\ Entries' = Entries /\ Names' = Names /\ Graphs' = Graphs /\ Active' = Active
      /\ \A g : Visible(g)' <=> Visible(g)
  BY FolderIsKept DEF Cancel, Active
<1>2. TypeOK'
  BY <1>1 DEF Cancel, MediaInv, TypeOK
<1>3. WalkInv' /\ SentInv' /\ NoneIsActive'
  BY <1>1 DEF Cancel, MediaInv, WalkInv, SentInv, NoneIsActive, Entry
<1> QED
  BY <1>2, <1>3, SentIsKept DEF Cancel, MediaInv

LEMMA InvNext == ASSUME FolderAssumption, MediaInv, [Next]_vars PROVE MediaInv'
<1>1. CASE UNCHANGED vars
  <2>1. /\ Entries' = Entries /\ Names' = Names /\ Graphs' = Graphs /\ Active' = Active
        /\ \A g : Visible(g)' <=> Visible(g)
    BY <1>1, FolderIsKept DEF vars, Active
  <2>2. TypeOK'
    BY <1>1, <2>1 DEF vars, MediaInv, TypeOK
  <2>3. WalkInv' /\ SentInv' /\ NoneIsActive'
    BY <1>1, <2>1 DEF vars, MediaInv, WalkInv, SentInv, NoneIsActive, Entry
  <2> QED
    BY <1>1, <2>2, <2>3, SentIsKept DEF vars, MediaInv
<1>2. CASE Next
  BY <1>2, PassKeeps, SkipDirKeeps, MediumKeeps, SpawnKeeps, EndWalkKeeps, ReturnKeeps,
     BeginKeeps, LockKeeps, SendKeeps, CancelKeeps DEF Next, Progress
<1> QED
  BY <1>1, <1>2

LEMMA InvHolds == ASSUME FolderAssumption PROVE Spec => []MediaInv
BY InvInit, InvNext, PTL DEF Spec

-----------------------------------------------------------------------------

(* media.go: what the walk, its goroutines and the map of collections hold  *)
(* has its type in every state, throttle holds one token for each goroutine *)
(* that works, and collectionsMu is held by the one that sends.             *)
THEOREM FolderIsTyped == ASSUME FolderAssumption PROVE Spec => []TypeOK
<1>1. MediaInv => TypeOK
  BY DEF MediaInv
<1> QED
  BY <1>1, InvHolds, PTL

(* FileImport (media.go:105-334): of a folder that was walked to its end,   *)
(* each medium that is not hidden is sent once, and nothing else, whichever *)
(* folders the walk leaves out and however its goroutines overlap.          *)
THEOREM MediaAlwaysComeOnce == ASSUME FolderAssumption PROVE Spec => []MediaComeOnce
<1>1. ASSUME MediaInv PROVE MediaComeOnce
  <2>1. \A m, n \in DOMAIN out : out[m].entry = out[n].entry => m = n
    BY <1>1 DEF MediaInv, SentInv
  <2>2. \A m \in DOMAIN out : out[m].entry \in DOMAIN Entries /\ Visible(out[m].entry)
    <3> TAKE m \in DOMAIN out
    <3>1. out[m].entry \in DOMAIN Entries /\ pc[out[m].entry] # "none"
      BY <1>1, OutType DEF MediaInv, SentInv
    <3> QED
      BY <1>1, <3>1 DEF MediaInv, WalkInv
  <2>3. ASSUME phase = "done", ~cancelled, NEW g \in DOMAIN Entries, Visible(g)
        PROVE  \E m \in DOMAIN out : out[m].entry = g
    <3>1. g < at
      BY <1>1, <2>3, EntriesType DEF MediaInv, WalkInv, TypeOK
    <3>2. pc[g] # "none" /\ g \notin Active
      BY <1>1, <2>3, <3>1 DEF MediaInv, WalkInv, NoneIsActive
    <3> QED
      BY <1>1, <2>3, <3>2 DEF MediaInv, SentInv, Active
  <2> QED
    BY <2>1, <2>2, <2>3 DEF MediaComeOnce, Visible
<1> QED
  BY <1>1, InvHolds, PTL

(* media.go:276-327: whatever goroutine comes to an album first makes its   *)
(* collection, and all other media of the album are put into that one.      *)
THEOREM AlbumsAreAlwaysShared == ASSUME FolderAssumption PROVE Spec => []AlbumsAreShared
<1>1. ASSUME MediaInv PROVE AlbumsAreShared
  <2>1. ASSUME NEW m \in DOMAIN out, NEW n \in DOMAIN out,
               NEW c \in out[m].collections, NEW d \in out[n].collections, c[1] = d[1]
        PROVE  c = d
    <3>1. c[2] = d[2]
      BY <1>1, <2>1 DEF MediaInv, CollectionsInv
    <3>2. c \in Names \X DOMAIN Entries /\ d \in Names \X DOMAIN Entries
      BY <1>1, OutType DEF MediaInv, Graphs
    <3> QED
      BY <2>1, <3>1, <3>2
  <2> QED
    BY <1>1, <2>1 DEF MediaInv, CollectionsInv, AlbumsAreShared
<1> QED
  BY <1>1, InvHolds, PTL

(* media.go:200-238: an item gets the first of the times that are known of  *)
(* it and lie in the range, or else the first that is known.                *)
THEOREM TimesAreAlwaysChosen == ASSUME FolderAssumption PROVE Spec => []TimesAreChosen
<1>1. ASSUME MediaInv, NEW m \in DOMAIN out, folder.useFileModTime => Entries[out[m].entry].times.modified # 0
      PROVE  LET times == Entries[out[m].entry].times
                 tried == <<times.embedded, IF folder.useFilePathTime THEN times.path ELSE 0,
                            IF folder.useFileModTime THEN times.modified ELSE 0>>
                 known == {k \in 1..3 : tried[k] # 0}
                 within == {k \in known : folder.range = None \/ tried[k] \in folder.range}
                 best == IF within # {} THEN within ELSE known
             IN IF best = {} THEN out[m].time = 0
                ELSE \E k \in best : out[m].time = tried[k] /\ \A l \in best : k <= l
  <2> DEFINE times == Entries[out[m].entry].times
             a == times.embedded
             b == IF folder.useFilePathTime THEN times.path ELSE 0
             c == IF folder.useFileModTime THEN times.modified ELSE 0
             tried == <<a, b, c>>
             known == {k \in 1..3 : tried[k] # 0}
             within == {k \in known : folder.range = None \/ tried[k] \in folder.range}
             best == IF within # {} THEN within ELSE known
             Good(t) == t # 0 /\ (folder.range = None \/ t \in folder.range)
             T == out[m].time
  <2>1. T = Timestamp(times)
    BY <1>1 DEF MediaInv, TimesInv
  <2>2. \A t, o : o # 0 => Preferred(t, o) = IF t = 0 \/ (~Good(t) /\ Good(o)) THEN o ELSE t
    BY DEF Preferred, InRange
  <2>3. Timestamp(times) = LET ab == IF b # 0 THEN Preferred(a, b) ELSE a
                           IN IF c # 0 THEN Preferred(ab, c) ELSE ab
    BY <1>1 DEF Timestamp
  <2>4. \A k \in 1..3 : k \in known <=> tried[k] # 0
    OBVIOUS
  <2>5. \A k \in 1..3 : k \in within <=> Good(tried[k])
    OBVIOUS
  <2>6. known \subseteq 1..3 /\ within \subseteq 1..3 /\ tried[1] = a /\ tried[2] = b /\ tried[3] = c
    OBVIOUS
  <2>7. /\ Good(a) => T = a
        /\ ~Good(a) /\ Good(b) => T = b
        /\ ~Good(a) /\ ~Good(b) /\ Good(c) => T = c
    BY <2>1, <2>2, <2>3
  <2>8. ~Good(a) /\ ~Good(b) /\ ~Good(c) => T = IF a # 0 THEN a ELSE IF b # 0 THEN b ELSE c
    BY <2>1, <2>2, <2>3
  <2> HIDE DEF a, b, c, tried, known, within, Good, T
  <2>9. CASE Good(a) \/ Good(b) \/ Good(c)
    <3>1. within # {} /\ best = within
      BY <2>5, <2>6, <2>9
    <3>2. \E k \in within : T = tried[k] /\ \A l \in within : k <= l
      BY <2>5, <2>6, <2>7, <2>9
    <3> QED
      BY <3>1, <3>2 DEF a, b, c, tried, known, within, T
  <2>10. CASE ~Good(a) /\ ~Good(b) /\ ~Good(c)
    <3>1. within = {} /\ best = known
      <4>1. ~Good(tried[1]) /\ ~Good(tried[2]) /\ ~Good(tried[3])
        BY <2>6, <2>10
      <4>2. \A k \in 1..3 : k = 1 \/ k = 2 \/ k = 3
        OBVIOUS
      <4>3. \A k \in 1..3 : k \notin within
        BY <2>5, <4>1, <4>2
      <4> QED
        BY <2>6, <4>3
    <3>2. IF known = {} THEN T = 0 ELSE \E k \in known : T = tried[k] /\ \A l \in known : k <= l
      BY <2>4, <2>6, <2>8, <2>10
    <3> QED
      BY <3>1, <3>2 DEF a, b, c, tried, known, within, T
  <2> QED
    BY <2>9, <2>10
<1>2. MediaInv => TimesAreChosen
  BY <1>1 DEF TimesAreChosen
<1> QED
  BY <1>2, InvHolds, PTL

(* "if we return before they finish sending a value, they'll get            *)
(* deadlocked" (media.go:119-123): FileImport returns, also with an error,  *)
(* when no goroutine of it is left.                                         *)
THEOREM NoGoroutineIsLeft == ASSUME FolderAssumption PROVE Spec => [](phase \in {"done", "error"} => Active = {})
<1>1. MediaInv => (phase \in {"done", "error"} => Active = {})
  BY DEF MediaInv, NoneIsActive
<1> QED
  BY <1>1, InvHolds, PTL

-----------------------------------------------------------------------------
(* That the import of a folder is not stuck.                                *)

LEMMA NatHasMinimum ==
  ASSUME NEW D \in SUBSET Nat, D # {}
  PROVE  \E n \in D : \A k \in D : n <= k
<1> DEFINE R == OpToRel(<, Nat)
<1>1. R = {ss \in Nat \X Nat : ss[1] < ss[2]}
  BY Zenon DEF OpToRel
<1>2. IsWellFoundedOn(R, Nat)
  BY NatLessThanWellFounded
<1> HIDE DEF R
<1>3. \A m, n \in Nat : <<m, n>> \in R <=> m < n
  BY <1>1
<1>4. PICK n \in D : \A k \in D : <<k, n>> \notin R
  BY <1>2, WFMin
<1>5. n \in Nat /\ \A k \in D : k \in Nat /\ ~(k < n)
  BY <1>3, <1>4
<1> QED
  BY <1>5

(* What the guards of the walk's steps ask for: of EndWalk, Pass, SkipDir,  *)
(* Medium, Spawn and Return.                                                *)
EndOfFolder(k) ==
  /\ k \in (at + 1)..(Len(Entries) + 1)
  /\ \A i \in at..(k - 1) : IsPrefix(Entry.path, Entries[i].path)
  /\ k <= Len(Entries) => ~IsPrefix(Entry.path, Entries[k].path)

WalkCanGo ==
  \/ phase = "walk" /\ (Aborted \/ at > Len(Entries))
  \/ Walking /\ ~(Entry.is = "folder" /\ Entry.hidden) /\ (Entry.hidden \/ Entry.is # "media")
  \/ Walking /\ Entry.is = "folder" /\ Entry.hidden /\ \E k \in Nat : EndOfFolder(k)
  \/ Walking /\ Entry.is = "media" /\ ~Entry.hidden
  \/ phase = "room" /\ running < MaxGoroutines
  \/ phase = "wait" /\ Active = {}

(* And of those of a goroutine: Begin, Lock and Send.                       *)
GoroutineCanGo(g) ==
  \/ pc[g] = "begin"
  \/ pc[g] = "read" /\ holder = 0
  \/ pc[g] = "send" /\ phase \in {"walk", "room", "wait"}

LEMMA FolderHasAnEnd ==
  ASSUME FolderAssumption, TypeOK, at <= Len(Entries)
  PROVE  \E k \in Nat : EndOfFolder(k)
<1>1. /\ Len(Entries) \in Nat /\ DOMAIN Entries = 1..Len(Entries) /\ at \in DOMAIN Entries
      /\ IsPrefix(Entry.path, Entry.path)
  BY EntriesType, PrefixOfItself DEF TypeOK, Entry
<1> DEFINE D == {k \in (at + 1)..(Len(Entries) + 1) :
                   k = Len(Entries) + 1 \/ ~IsPrefix(Entry.path, Entries[k].path)}
<1>2. D \in SUBSET Nat /\ Len(Entries) + 1 \in D
  BY <1>1
<1>3. PICK k \in D : \A i \in D : k <= i
  BY <1>2, NatHasMinimum
<1>4. \A i \in at..(k - 1) : IsPrefix(Entry.path, Entries[i].path)
  <2> TAKE i \in at..(k - 1)
  <2>1. CASE i = at
    BY <1>1, <2>1 DEF Entry
  <2>2. CASE i # at
    BY <1>1, <1>3, <2>2
  <2> QED
    BY <2>1, <2>2
<1>5. EndOfFolder(k)
  BY <1>1, <1>3, <1>4 DEF EndOfFolder
<1> QED
  BY <1>2, <1>5

LEMMA ActiveGoes ==
  ASSUME FolderAssumption, TypeOK, phase \in {"walk", "room", "wait"}, Active # {}
  PROVE  \E g \in DOMAIN Entries : GoroutineCanGo(g)
<1>1. PICK g \in DOMAIN Entries : pc[g] \in {"begin", "read", "send"}
  BY DEF TypeOK, Active
<1>2. CASE pc[g] = "read" /\ holder # 0
  <2>1. holder \in DOMAIN Entries /\ pc[holder] = "send"
    BY <1>2 DEF TypeOK
  <2> QED
    BY <2>1 DEF GoroutineCanGo
<1> QED
  BY <1>1, <1>2 DEF GoroutineCanGo

(* Until FileImport has returned, the walk or a goroutine can go on: none   *)
(* waits for ever for room, for collectionsMu or for the others.            *)
THEOREM FolderIsNeverStuck ==
  ASSUME FolderAssumption
  PROVE  Spec => [](phase \in {"walk", "room", "wait"} =>
                      WalkCanGo \/ \E g \in DOMAIN Entries : GoroutineCanGo(g))
<1>1. ASSUME TypeOK, phase \in {"walk", "room", "wait"}
      PROVE  WalkCanGo \/ \E g \in DOMAIN Entries : GoroutineCanGo(g)
  <2>1. CASE phase = "walk"
    <3>1. CASE Aborted \/ at > Len(Entries)
      BY <2>1, <3>1 DEF WalkCanGo
    <3>2. CASE ~Aborted /\ ~(at > Len(Entries))
      <4>1. Len(Entries) \in Nat /\ at <= Len(Entries)
        BY <1>1, <3>2, EntriesType DEF TypeOK
      <4>2. Walking /\ Entry.hidden \in BOOLEAN
        <5>1. Entry \in Range(Entries)
          BY <1>1, <4>1, EntriesType DEF TypeOK, Entry
        <5> QED
          BY <1>1, <2>1, <3>2, <4>1, <5>1 DEF FolderAssumption, TypeOK, Entries, Walking
      <4>3. \E k \in Nat : EndOfFolder(k)
        BY <1>1, <4>1, FolderHasAnEnd
      <4> QED
        BY <4>2, <4>3 DEF WalkCanGo
    <3> QED
      BY <3>1, <3>2
  <2>2. CASE phase = "room"
    <3>1. CASE Active = {}
      <4>1. running = 0 /\ 0 < MaxGoroutines
        BY <1>1, <3>1, FS_EmptySet DEF TypeOK, FolderAssumption
      <4> QED
        BY <2>2, <4>1 DEF WalkCanGo
    <3> QED
      BY <1>1, <3>1, ActiveGoes
  <2>3. CASE phase = "wait"
    BY <1>1, <2>3, ActiveGoes DEF WalkCanGo
  <2> QED
    BY <1>1, <2>1, <2>2, <2>3
<1>2. MediaInv => (phase \in {"walk", "room", "wait"} =>
                     WalkCanGo \/ \E g \in DOMAIN Entries : GoroutineCanGo(g))
  BY <1>1 DEF MediaInv
<1> QED
  BY <1>2, InvHolds, PTL

-----------------------------------------------------------------------------
(* The history of locations.                                                *)

CONSTANTS Histories

VARIABLES history, tag, seen, result

Scan == INSTANCE DeviceScan

LEMMA SameOperators == \A S : Scan!Cardinality(S) = Cardinality(S) /\ Scan!Range(S) = Range(S)
BY DEF Scan!Cardinality, Cardinality, Scan!Range, Range

(* The decoders that were started.                                          *)
Taken == {d \in Scan!Decoders : pc[d] # "free"}

-----------------------------------------------------------------------------
(* The inductive invariant.                                                 *)

(* What a decoder has passed is somebody's, and only the main one may be    *)
(* without a device before there are others.                                *)
DecodersInv ==
  \A d \in Scan!Decoders :
    /\ pc[d] = "free" => d # 0 /\ at[d] = 1
    /\ pc[d] # "free" => \A p \in 1..(at[d] - 1) : history[p] \in seen
    /\ pc[d] \in {"send", "spawn"} => at[d] \in DOMAIN history /\ Scan!Point(d) \in seen
    /\ pc[d] = "send" => Scan!Point(d) = tag[d]
    /\ pc[d] = "spawn" => holder = d /\ tag[d] # 0
    /\ holder = d => pc[d] = "spawn"
    /\ pc[d] = "done" => cancelled \/ at[d] > Len(history)
    /\ d # 0 /\ pc[d] # "free" => tag[0] # 0 /\ tag[d] \in seen

(* A device has one decoder, or one that is about to start its decoder.     *)
OwnersInv ==
  /\ \A d, e \in Taken : tag[d] = tag[e] => d = e
  /\ \A d \in Scan!Decoders : pc[d] = "spawn" =>
       /\ \A e \in Taken : tag[e] # Scan!Point(d)
       /\ \A m \in DOMAIN out : history[out[m].point] # Scan!Point(d)
  /\ \A t \in seen \ {0} : \E d \in Taken : tag[d] = t \/ (pc[d] = "spawn" /\ Scan!Point(d) = t)

(* What was sent of a device was sent by its decoder, in order.             *)
SendsInv ==
  \A m \in DOMAIN out :
    /\ out[m].decoder \in Taken /\ out[m].point < at[out[m].decoder]
    /\ history[out[m].point] \in seen
    /\ \A d \in Taken : tag[d] = history[out[m].point] => d = out[m].decoder
    /\ \A n \in DOMAIN out : history[out[m].point] = history[out[n].point] =>
         out[m].decoder = out[n].decoder /\ (m < n => out[m].point < out[n].point)

Sent(p) == \E m \in DOMAIN out : out[m].point = p

(* What a decoder has passed of its own device was sent.                    *)
PassedInv ==
  /\ \A d \in Taken : \A p \in 1..(at[d] - 1) : tag[d] # 0 /\ history[p] = tag[d] => Sent(p)
  /\ Scan!Devices = {0} => \A p \in 1..(at[0] - 1) : Sent(p)

NoDecoderIsActive == result = "done" => Scan!Active = {}

ScanInv == Scan!TypeOK /\ DecodersInv /\ OwnersInv /\ SendsInv /\ PassedInv /\ NoDecoderIsActive

-----------------------------------------------------------------------------

LEMMA HistoryType ==
  ASSUME Scan!ScanAssumption, history \in Histories
  PROVE  /\ history \in Seq(Nat) /\ Len(history) \in Nat /\ DOMAIN history = 1..Len(history)
         /\ Scan!Devices = {history[p] : p \in DOMAIN history} /\ Scan!Devices \subseteq Nat
         /\ IsFiniteSet(Scan!Devices) /\ Cardinality(Scan!Devices) \in Nat
         /\ IsFiniteSet(Scan!Decoders) /\ 0 \in Scan!Decoders /\ Scan!Decoders \subseteq Nat /\ None \notin Nat
<1>1. history \in Seq(Nat) /\ None \notin Nat
  BY DEF Scan!ScanAssumption
<1>2. Len(history) \in Nat /\ DOMAIN history = 1..Len(history)
  BY <1>1
<1>3. Scan!Devices = {history[p] : p \in DOMAIN history}
  BY DEF Scan!Devices, Scan!Range
<1>4. Scan!Devices \subseteq Nat
  BY <1>1, <1>2, <1>3
<1>5. IsFiniteSet(Scan!Devices)
  <2>1. IsFiniteSet(1..Len(history))
    BY <1>2, FS_Interval
  <2>2. history \in Surjection(1..Len(history), Scan!Devices)
    BY <1>1, <1>2, <1>3 DEF Surjection
  <2> QED
    BY <2>1, <2>2, FS_Surjection
<1>6. Cardinality(Scan!Devices) \in Nat
  BY <1>5, FS_CardinalityType
<1>7. IsFiniteSet(Scan!Decoders)
  BY <1>6, SameOperators, FS_Interval DEF Scan!Decoders
<1> QED
  BY <1>1, <1>2, <1>3, <1>4, <1>5, <1>6, <1>7, SameOperators DEF Scan!Decoders

LEMMA InputIsKept ==
  ASSUME UNCHANGED history
  PROVE  Scan!Devices' = Scan!Devices /\ Scan!Decoders' = Scan!Decoders
BY DEF Scan!Devices, Scan!Decoders

LEMMA ScanInvInit == ASSUME Scan!ScanAssumption PROVE Scan!Init => ScanInv
<1> SUFFICES ASSUME Scan!Init PROVE ScanInv
  OBVIOUS
<1>0. history \in Histories
  BY DEF Scan!Init
<1>1. Scan!Active \ {0} = {}
  BY DEF Scan!Init, Scan!Active
<1>2. Cardinality(Scan!Active \ {0}) = 0
  BY <1>1, FS_EmptySet
<1>3. Len(history) \in Nat /\ 0 \in Scan!Decoders /\ Scan!Decoders \subseteq Nat
  BY <1>0, HistoryType
<1>4. Scan!TypeOK
  <2>1. 0 <= MaxGoroutines
    BY DEF Scan!ScanAssumption
  <2>2. out \in Seq([point : DOMAIN history, decoder : Scan!Decoders])
    BY DEF Scan!Init
  <2>3. /\ pc \in [Scan!Decoders -> {"free", "scan", "spawn", "send", "done"}]
        /\ tag \in [Scan!Decoders -> seen \cup {0}] /\ at \in [Scan!Decoders -> 1..(Len(history) + 1)]
    BY <1>3 DEF Scan!Init
  <2> QED
    BY <1>0, <1>2, <2>1, <2>2, <2>3, SameOperators DEF Scan!Init, Scan!TypeOK
<1>5. DecodersInv
  BY <1>3 DEF Scan!Init, DecodersInv
<1>6. OwnersInv
  BY DEF Scan!Init, OwnersInv, Taken
<1>7. SendsInv /\ PassedInv /\ NoDecoderIsActive
  <2>1. \A d \in Scan!Decoders : at[d] = 1
    BY DEF Scan!Init
  <2>2. PassedInv
    BY <1>3, <2>1 DEF PassedInv, Taken
  <2>3. SendsInv /\ NoDecoderIsActive
    BY DEF Scan!Init, SendsInv, NoDecoderIsActive
  <2> QED
    BY <2>2, <2>3
<1> QED
  BY <1>4, <1>5, <1>6, <1>7 DEF ScanInv

LEMMA SendsType ==
  ASSUME Scan!ScanAssumption, ScanInv, NEW m \in DOMAIN out
  PROVE  out[m].point \in DOMAIN history /\ out[m].point \in Nat /\ out[m].decoder \in Scan!Decoders
<1> DEFINE Sends == [point : DOMAIN history, decoder : Scan!Decoders]
<1>1. out[m] \in Sends
  <2>1. out \in Seq(Sends)
    BY DEF ScanInv, Scan!TypeOK
  <2> HIDE DEF Sends
  <2> QED
    BY <2>1
<1>2. DOMAIN history \subseteq Nat
  BY HistoryType DEF ScanInv, Scan!TypeOK
<1> QED
  BY <1>1, <1>2

(* What was sent remains right while decoders go on, and new owners have    *)
(* devices of which nothing was sent.                                       *)
LEMMA SendsAreKept ==
  ASSUME Scan!ScanAssumption, ScanInv, UNCHANGED <<history, out>>, seen \subseteq seen', Taken \subseteq Taken',
         \A d \in Taken : at'[d] \in Nat /\ at[d] <= at'[d],
         \A d \in Taken', m \in DOMAIN out :
           tag'[d] = history[out[m].point] => d \in Taken /\ tag[d] = tag'[d]
  PROVE  SendsInv'
<1>1. \A m \in DOMAIN out : out[m].decoder \in Taken /\ out[m].point \in Nat
  BY SendsType DEF ScanInv, SendsInv
<1>2. \A d \in Taken : at[d] \in Nat
  BY HistoryType DEF ScanInv, Scan!TypeOK, Taken
<1>3. \A m \in DOMAIN out : out[m].point < at'[out[m].decoder]
  BY <1>1, <1>2 DEF ScanInv, SendsInv
<1> QED
  BY <1>3 DEF ScanInv, SendsInv

(* Steps of one decoder that change neither what runs nor what was sent.    *)
LEMMA SkipPointKeeps ==
  ASSUME Scan!ScanAssumption, ScanInv, NEW d \in Scan!Decoders, Scan!SkipPoint(d)
  PROVE  ScanInv'
<1> USE DEF Scan!SkipPoint, Scan!HasPoint
<1>0. /\ Scan!Devices' = Scan!Devices /\ Scan!Decoders' = Scan!Decoders /\ Scan!Active' = Scan!Active /\ Taken' = Taken
  BY InputIsKept DEF Scan!Active, Taken
<1>1. /\ Len(history) \in Nat /\ DOMAIN history = 1..Len(history) /\ Scan!Decoders \subseteq Nat
      /\ at[d] \in 1..Len(history)
  BY HistoryType DEF ScanInv, Scan!TypeOK
<1>2. Scan!TypeOK'
  BY <1>0, <1>1 DEF ScanInv, Scan!TypeOK
<1>3. DecodersInv'
  BY <1>0, <1>1 DEF ScanInv, Scan!TypeOK, DecodersInv, Scan!Point
<1>4. OwnersInv'
  <2>1. \A e \in Scan!Decoders : pc[e] = "spawn" => Scan!Point(e)' = Scan!Point(e)
    BY DEF ScanInv, Scan!TypeOK, Scan!Point
  <2> QED
    BY <1>0, <2>1 DEF ScanInv, OwnersInv, Taken
<1>5. SendsInv'
  <2>1. \A e \in Scan!Decoders : at'[e] \in Nat /\ at[e] <= at'[e]
    BY <1>1 DEF ScanInv, Scan!TypeOK
  <2> QED
    BY <1>0, <2>1, SendsAreKept DEF Taken
<1>6. PassedInv'
  <2>1. /\ \A e \in Scan!Decoders \ {d} : at'[e] = at[e]
        /\ at'[d] = at[d] + 1 /\ history[at[d]] # tag[d]
        /\ UNCHANGED <<history, tag, out>>
    BY DEF ScanInv, Scan!TypeOK, Scan!Point
  <2>2. \A e \in Taken : \A p \in 1..(at'[e] - 1) : tag[e] # 0 /\ history[p] = tag[e] => Sent(p)
    BY <1>1, <2>1 DEF ScanInv, PassedInv, Taken
  <2>3. Scan!Devices # {0}
    <3>1. history[at[d]] \in Scan!Devices
      BY <1>1, HistoryType DEF ScanInv, Scan!TypeOK
    <3>2. tag[d] \in Scan!Devices \cup {0}
      BY DEF ScanInv, Scan!TypeOK
    <3> QED
      BY <2>1, <3>1, <3>2
  <2> QED
    BY <1>0, <2>1, <2>2, <2>3 DEF PassedInv, Sent
<1>7. NoDecoderIsActive'
  BY <1>0 DEF ScanInv, NoDecoderIsActive
<1> QED
  BY <1>2, <1>3, <1>4, <1>5, <1>6, <1>7 DEF ScanInv

LEMMA OwnPointKeeps ==
  ASSUME Scan!ScanAssumption, ScanInv, NEW d \in Scan!Decoders, Scan!OwnPoint(d)
  PROVE  ScanInv'
<1> USE DEF Scan!OwnPoint, Scan!HasPoint
<1>0. /\ Scan!Devices' = Scan!Devices /\ Scan!Decoders' = Scan!Decoders /\ Scan!Active' = Scan!Active /\ Taken' = Taken
  BY InputIsKept DEF Scan!Active, Taken, ScanInv, Scan!TypeOK
<1>1. /\ Len(history) \in Nat /\ DOMAIN history = 1..Len(history) /\ Scan!Decoders \subseteq Nat
      /\ at[d] \in 1..Len(history)
  BY HistoryType DEF ScanInv, Scan!TypeOK
<1>2. Scan!TypeOK'
  BY <1>0, <1>1 DEF ScanInv, Scan!TypeOK
<1>3. DecodersInv'
  BY <1>0, <1>1 DEF ScanInv, Scan!TypeOK, DecodersInv, Scan!Point
<1>4. OwnersInv'
  BY <1>0, <1>1 DEF ScanInv, Scan!TypeOK, OwnersInv, Scan!Point, Taken
<1>5. SendsInv'
  BY <1>0, <1>1 DEF ScanInv, Scan!TypeOK, SendsInv
<1>6. PassedInv'
  BY <1>0, <1>1 DEF ScanInv, Scan!TypeOK, PassedInv, Sent
<1>7. NoDecoderIsActive'
  BY <1>0 DEF ScanInv, NoDecoderIsActive
<1> QED
  BY <1>2, <1>3, <1>4, <1>5, <1>6, <1>7 DEF ScanInv

(* Nobody has passed a point of a device that is seen for the first time.   *)
LEMMA FirstPointOf ==
  ASSUME Scan!ScanAssumption, ScanInv, NEW d \in Taken, NEW t, t \notin seen
  PROVE  /\ \A p \in 1..(at[d] - 1) : history[p] # t
         /\ \A m \in DOMAIN out : history[out[m].point] # t
         /\ \A e \in Scan!Decoders : pc[e] = "spawn" => Scan!Point(e) # t
         /\ \A e \in Taken : tag[e] = t => e = 0 /\ t = 0
<1>1. \A p \in 1..(at[d] - 1) : history[p] # t
  BY DEF ScanInv, DecodersInv, Taken
<1>2. \A m \in DOMAIN out : history[out[m].point] # t
  BY DEF ScanInv, SendsInv
<1>3. \A e \in Scan!Decoders : pc[e] = "spawn" => Scan!Point(e) # t
  BY DEF ScanInv, DecodersInv
<1>4. \A e \in Taken : tag[e] = t => e = 0 /\ t = 0
  BY DEF ScanInv, DecodersInv, Scan!TypeOK, Taken
<1> QED
  BY <1>1, <1>2, <1>3, <1>4

LEMMA TakeDeviceKeeps ==
  ASSUME Scan!ScanAssumption, ScanInv, NEW d \in Scan!Decoders, Scan!TakeDevice(d)
  PROVE  ScanInv'
<1> DEFINE t == Scan!Point(d)
<1> USE DEF Scan!TakeDevice, Scan!HasPoint
<1>0. /\ Scan!Devices' = Scan!Devices /\ Scan!Decoders' = Scan!Decoders /\ Scan!Active' = Scan!Active /\ Taken' = Taken
      /\ d \in Taken
  BY InputIsKept DEF Scan!Active, Taken, ScanInv, Scan!TypeOK
<1>1. /\ Len(history) \in Nat /\ DOMAIN history = 1..Len(history) /\ Scan!Decoders \subseteq Nat
      /\ at[d] \in 1..Len(history) /\ t \in Scan!Devices /\ t \in Nat /\ 0 \in Scan!Decoders
  BY HistoryType DEF ScanInv, Scan!TypeOK, Scan!Point
<1>2. /\ \A e \in Scan!Decoders \ {d} : tag'[e] = tag[e] /\ pc'[e] = pc[e]
      /\ tag'[d] = t /\ pc'[d] = "send" /\ \A e \in Scan!Decoders : Scan!Point(e)' = Scan!Point(e)
      /\ seen' = seen \cup {t} /\ t \notin seen /\ pc[d] = "scan" /\ tag[d] = 0
      /\ UNCHANGED <<history, at, holder, running, out, cancelled, result>>
  BY DEF ScanInv, Scan!TypeOK, Scan!Point
<1>3. /\ \A p \in 1..(at[d] - 1) : history[p] # t
      /\ \A m \in DOMAIN out : history[out[m].point] # t
      /\ \A e \in Scan!Decoders : pc[e] = "spawn" => Scan!Point(e) # t
      /\ \A e \in Taken : tag[e] = t => e = 0 /\ t = 0
  BY <1>0, <1>2, FirstPointOf
<1>4. \A e \in Taken : tag[e] = 0 => e = d
  BY <1>0, <1>2 DEF ScanInv, OwnersInv
<1>5. Scan!TypeOK'
  BY <1>0, <1>1 DEF ScanInv, Scan!TypeOK
<1> HIDE DEF t, Scan!TakeDevice, Scan!HasPoint
<1>6. DecodersInv'
  <2>1. \A e \in Scan!Decoders : e # 0 /\ pc'[e] # "free" => tag'[0] # 0 /\ tag'[e] \in seen'
    BY <1>0, <1>1, <1>2, <1>4 DEF ScanInv, DecodersInv, Taken
  <2>2. t = Scan!Point(d)
    BY DEF t
  <2> QED
    BY <1>0, <1>1, <1>2, <2>1, <2>2 DEF ScanInv, DecodersInv
<1>7. OwnersInv'
  <2>1. \A e, f \in Taken : tag'[e] = tag'[f] => e = f
    BY <1>0, <1>2, <1>3, <1>4 DEF ScanInv, OwnersInv, Taken
  <2>2. \A e \in Scan!Decoders : pc'[e] = "spawn" => pc[e] = "spawn"
    BY <1>2
  <2>3. \A e \in Scan!Decoders : pc[e] = "spawn" =>
          (\A f \in Taken : tag'[f] # Scan!Point(e)) /\ (\A m \in DOMAIN out : history[out[m].point] # Scan!Point(e))
    BY <1>0, <1>2, <1>3 DEF ScanInv, OwnersInv, Taken
  <2>4. \A u \in seen' \ {0} : \E e \in Taken : tag'[e] = u \/ (pc'[e] = "spawn" /\ Scan!Point(e) = u)
    <3>1. d \in Taken /\ tag'[d] = t
      BY <1>0, <1>2
    <3>2. ASSUME NEW u \in seen \ {0}
          PROVE  \E e \in Taken : tag'[e] = u \/ (pc'[e] = "spawn" /\ Scan!Point(e) = u)
      <4>1. PICK e \in Taken : tag[e] = u \/ (pc[e] = "spawn" /\ Scan!Point(e) = u)
        BY DEF ScanInv, OwnersInv
      <4> QED
        BY <1>2, <4>1 DEF Taken
    <3> QED
      BY <1>2, <3>1, <3>2
  <2> QED
    BY <1>0, <1>2, <2>1, <2>2, <2>3, <2>4 DEF OwnersInv, Scan!Point
<1>8. SendsInv'
  <2>1. \A e \in Taken : at'[e] \in Nat /\ at[e] <= at'[e]
    BY <1>2, HistoryType DEF ScanInv, Scan!TypeOK, Taken
  <2> QED
    BY <1>0, <1>2, <1>3, <2>1, SendsAreKept DEF Taken
<1>9. PassedInv'
  <2>1. \A e \in Taken : \A p \in 1..(at[e] - 1) : tag'[e] # 0 /\ history[p] = tag'[e] => Sent(p)
    BY <1>2, <1>3 DEF ScanInv, PassedInv, Taken
  <2> QED
    BY <1>0, <1>2, <2>1 DEF ScanInv, PassedInv, Sent
<1>10. NoDecoderIsActive'
  BY <1>0, <1>2 DEF ScanInv, NoDecoderIsActive
<1> QED
  BY <1>5, <1>6, <1>7, <1>8, <1>9, <1>10 DEF ScanInv

LEMMA FindDeviceKeeps ==
  ASSUME Scan!ScanAssumption, ScanInv, NEW d \in Scan!Decoders, Scan!FindDevice(d)
  PROVE  ScanInv'
<1> DEFINE t == Scan!Point(d)
<1> USE DEF Scan!FindDevice, Scan!HasPoint
<1>0. /\ Scan!Devices' = Scan!Devices /\ Scan!Decoders' = Scan!Decoders /\ Scan!Active' = Scan!Active /\ Taken' = Taken
      /\ d \in Taken
  BY InputIsKept DEF Scan!Active, Taken, ScanInv, Scan!TypeOK
<1>1. /\ Len(history) \in Nat /\ DOMAIN history = 1..Len(history) /\ Scan!Decoders \subseteq Nat
      /\ at[d] \in 1..Len(history) /\ t \in Scan!Devices /\ t \in Nat /\ None \notin Scan!Decoders /\ 0 \in Scan!Decoders
  BY HistoryType DEF ScanInv, Scan!TypeOK, Scan!Point
<1>2. /\ \A e \in Scan!Decoders \ {d} : pc'[e] = pc[e]
      /\ pc'[d] = "spawn" /\ \A e \in Scan!Decoders : Scan!Point(e)' = Scan!Point(e)
      /\ seen' = seen \cup {t} /\ t \notin seen /\ pc[d] = "scan" /\ tag[d] # 0 /\ holder' = d
      /\ UNCHANGED <<history, tag, at, running, out, cancelled, result>>
  BY DEF ScanInv, Scan!TypeOK, Scan!Point
<1>3. \A e \in Scan!Decoders : pc[e] # "spawn"
  BY <1>1 DEF ScanInv, DecodersInv
<1>4. /\ \A m \in DOMAIN out : history[out[m].point] # t
      /\ \A e \in Taken : tag[e] = t => e = 0 /\ t = 0
  BY <1>0, <1>2, FirstPointOf
<1>5. \A e \in Taken : tag[e] # t
  BY <1>0, <1>1, <1>2, <1>4 DEF ScanInv, DecodersInv, Taken
<1>6. Scan!TypeOK'
  BY <1>0, <1>1 DEF ScanInv, Scan!TypeOK
<1>7. t = Scan!Point(d)
  OBVIOUS
<1> HIDE DEF t, Scan!FindDevice, Scan!HasPoint
<1>8. DecodersInv'
  BY <1>0, <1>1, <1>2, <1>3, <1>7 DEF ScanInv, DecodersInv
<1>9. OwnersInv'
  <2>1. \A e \in Scan!Decoders : pc'[e] = "spawn" => e = d
    BY <1>2, <1>3
  <2>2. \A u \in seen' \ {0} : \E e \in Taken : tag[e] = u \/ (pc'[e] = "spawn" /\ Scan!Point(e) = u)
    <3>1. \A u \in seen \ {0} : \E e \in Taken : tag[e] = u
      BY <1>3 DEF ScanInv, OwnersInv, Taken
    <3> QED
      BY <1>0, <1>2, <1>7, <3>1
  <2>3. history[at[d]] = t
    BY <1>7 DEF Scan!Point
  <2> QED
    BY <1>0, <1>2, <1>4, <1>5, <2>1, <2>2, <2>3 DEF ScanInv, OwnersInv, Scan!Point
<1>10. SendsInv'
  BY <1>0, <1>2 DEF ScanInv, SendsInv
<1>11. PassedInv'
  BY <1>0, <1>2 DEF ScanInv, PassedInv, Sent
<1>12. NoDecoderIsActive'
  BY <1>0, <1>2 DEF ScanInv, NoDecoderIsActive
<1> QED
  BY <1>6, <1>8, <1>9, <1>10, <1>11, <1>12 DEF ScanInv

LEMMA ActiveType ==
  ASSUME Scan!ScanAssumption, ScanInv
  PROVE  IsFiniteSet(Scan!Active \ {0}) /\ running = Cardinality(Scan!Active \ {0}) /\ running \in Nat
<1>1. IsFiniteSet(Scan!Decoders) /\ Scan!Active \ {0} \subseteq Scan!Decoders
  BY HistoryType DEF ScanInv, Scan!TypeOK, Scan!Active
<1>2. IsFiniteSet(Scan!Active \ {0}) /\ Cardinality(Scan!Active \ {0}) \in Nat
  BY <1>1, FS_Subset, FS_CardinalityType
<1> QED
  BY <1>2, SameOperators DEF ScanInv, Scan!TypeOK

LEMMA DecoderSpawnKeeps ==
  ASSUME Scan!ScanAssumption, ScanInv, NEW d \in Scan!Decoders, Scan!Spawn(d)
  PROVE  ScanInv'
<1> DEFINE t == Scan!Point(d)
<1>1. PICK e \in Scan!Decoders : /\ pc[e] = "free"
                            /\ pc' = [pc EXCEPT ![d] = "scan", ![e] = "scan"]
                            /\ tag' = [tag EXCEPT ![e] = t]
  BY DEF Scan!Spawn
<1>2. /\ Len(history) \in Nat /\ DOMAIN history = 1..Len(history) /\ Scan!Decoders \subseteq Nat
      /\ at[d] \in 1..Len(history) /\ 0 \in Scan!Decoders /\ t \in seen /\ seen \subseteq Scan!Devices
      /\ \A f \in Scan!Decoders : at[f] \in Nat
  <2>1. /\ Len(history) \in Nat /\ DOMAIN history = 1..Len(history) /\ Scan!Decoders \subseteq Nat
        /\ 0 \in Scan!Decoders
    BY HistoryType DEF ScanInv, Scan!TypeOK
  <2>2. at[d] \in DOMAIN history /\ t \in seen
    BY DEF ScanInv, DecodersInv, Scan!Spawn
  <2>3. seen \subseteq Scan!Devices /\ \A f \in Scan!Decoders : at[f] \in 1..(Len(history) + 1)
    BY DEF ScanInv, Scan!TypeOK
  <2> QED
    BY <2>1, <2>2, <2>3
<1>3. /\ pc[d] = "spawn" /\ running < MaxGoroutines /\ holder = d /\ e # d /\ e # 0 /\ at[e] = 1
      /\ tag[d] # 0
  BY <1>1, <1>2 DEF Scan!Spawn, ScanInv, DecodersInv
<1>4. /\ \A f \in Scan!Decoders \ {d, e} : pc'[f] = pc[f] /\ tag'[f] = tag[f] /\ at'[f] = at[f]
      /\ pc'[d] = "scan" /\ tag'[d] = tag[d] /\ at'[d] = at[d] + 1
      /\ pc'[e] = "scan" /\ tag'[e] = t /\ at'[e] = 1
      /\ UNCHANGED <<history, seen, out, cancelled, result>> /\ holder' = None /\ running' = running + 1
  BY <1>1, <1>3 DEF Scan!Spawn, ScanInv, Scan!TypeOK
<1>5. /\ Scan!Devices' = Scan!Devices /\ Scan!Decoders' = Scan!Decoders
      /\ Taken' = Taken \cup {e} /\ d \in Taken /\ e \notin Taken
      /\ Scan!Active' = Scan!Active \cup {e} /\ d \in Scan!Active /\ e \notin Scan!Active
  BY <1>1, <1>3, <1>4, InputIsKept DEF Taken, Scan!Active
<1>6. \A f \in Scan!Decoders : pc[f] = "spawn" => f = d
  BY <1>3 DEF ScanInv, DecodersInv
<1>7. history[at[d]] = t /\ (\A f \in Taken : tag[f] # t) /\ \A m \in DOMAIN out : history[out[m].point] # t
  BY <1>3 DEF ScanInv, OwnersInv, Scan!Point
<1>8. Scan!TypeOK'
  <2>1. Scan!Active' \ {0} = (Scan!Active \ {0}) \cup {e}
    BY <1>3, <1>5
  <2>2. running' = Cardinality(Scan!Active' \ {0})
    BY <1>4, <1>5, <2>1, ActiveType, FS_AddElement
  <2>3. running' <= MaxGoroutines
    BY <1>3, <1>4, ActiveType DEF Scan!ScanAssumption
  <2>4. /\ pc' \in [Scan!Decoders -> {"free", "scan", "spawn", "send", "done"}]
        /\ tag' \in [Scan!Decoders -> seen \cup {0}]
    BY <1>1, <1>2 DEF ScanInv, Scan!TypeOK
  <2>5. at' \in [Scan!Decoders -> 1..(Len(history) + 1)]
    <3>1. at \in [Scan!Decoders -> 1..(Len(history) + 1)] /\ at' = [at EXCEPT ![d] = @ + 1]
      BY DEF ScanInv, Scan!TypeOK, Scan!Spawn
    <3> QED
      BY <1>2, <3>1
  <2> QED
    BY <1>4, <1>5, <2>2, <2>3, <2>4, <2>5, SameOperators DEF ScanInv, Scan!TypeOK
<1> HIDE DEF t
<1>9. DecodersInv'
  <2>1. \A f \in Scan!Decoders : pc'[f] # "free" => \A p \in 1..(at'[f] - 1) : history[p] \in seen
    BY <1>2, <1>3, <1>4, <1>7 DEF ScanInv, DecodersInv
  <2>2. tag'[0] # 0
    BY <1>2, <1>3, <1>4 DEF ScanInv, DecodersInv
  <2>3. \A f \in Scan!Decoders : f # 0 /\ pc'[f] # "free" => tag'[f] \in seen
    BY <1>2, <1>3, <1>4 DEF ScanInv, DecodersInv
  <2>4. \A f \in Scan!Decoders : pc'[f] = "free" => f # 0 /\ at'[f] = 1
    BY <1>3, <1>4 DEF ScanInv, DecodersInv
  <2>5. \A f \in Scan!Decoders : pc'[f] # "spawn"
    BY <1>4, <1>6
  <2>6. \A f \in Scan!Decoders : pc'[f] = "send" \/ pc'[f] = "done" =>
          pc'[f] = pc[f] /\ at'[f] = at[f] /\ tag'[f] = tag[f]
    BY <1>4
  <2>7. \A f \in Scan!Decoders : holder' # f
    BY <1>2 DEF Scan!Spawn, Scan!ScanAssumption
  <2> QED
    BY <1>4, <1>5, <2>1, <2>2, <2>3, <2>4, <2>5, <2>6, <2>7 DEF ScanInv, DecodersInv, Scan!Point
<1>10. OwnersInv'
  <2>1. \A f, g \in Taken' : tag'[f] = tag'[g] => f = g
    BY <1>4, <1>5, <1>7 DEF ScanInv, OwnersInv, Taken
  <2>2. \A f \in Scan!Decoders : pc'[f] # "spawn"
    BY <1>4, <1>6
  <2>3. \A u \in seen \ {0} : \E f \in Taken' : tag'[f] = u
    <3>1. SUFFICES ASSUME NEW u \in seen \ {0} PROVE \E f \in Taken' : tag'[f] = u
      OBVIOUS
    <3>2. PICK f \in Taken : tag[f] = u \/ (pc[f] = "spawn" /\ Scan!Point(f) = u)
      BY DEF ScanInv, OwnersInv
    <3>3. CASE tag[f] = u
      BY <1>4, <1>5, <3>3 DEF Taken
    <3>4. CASE pc[f] = "spawn" /\ Scan!Point(f) = u
      BY <1>4, <1>5, <1>6, <3>4 DEF Taken, t
    <3> QED
      BY <3>2, <3>3, <3>4
  <2> QED
    BY <1>4, <1>5, <2>1, <2>2, <2>3 DEF OwnersInv
<1>11. SendsInv'
  <2>1. \A f \in Taken : at'[f] \in Nat /\ at[f] <= at'[f]
    BY <1>2, <1>4, <1>5 DEF Taken
  <2>2. \A f \in Taken', m \in DOMAIN out : tag'[f] = history[out[m].point] => f \in Taken /\ tag[f] = tag'[f]
    BY <1>4, <1>5, <1>7 DEF Taken
  <2> QED
    BY <1>4, <1>5, <2>1, <2>2, SendsAreKept
<1>12. PassedInv'
  <2>1. \A f \in Taken' : \A p \in 1..(at'[f] - 1) : tag'[f] # 0 /\ history[p] = tag'[f] => Sent(p)
    <3>1. \A p \in 1..(at'[d] - 1) : tag'[d] # 0 /\ history[p] = tag'[d] => Sent(p)
      <4>1. tag[d] # history[at[d]]
        BY <1>5, <1>7
      <4> QED
        BY <1>2, <1>4, <1>5, <4>1 DEF ScanInv, PassedInv
    <3>2. \A f \in Taken \ {d} : at'[f] = at[f] /\ tag'[f] = tag[f]
      BY <1>4, <1>5 DEF Taken
    <3> QED
      BY <1>4, <1>5, <3>1, <3>2 DEF ScanInv, PassedInv
  <2>2. Scan!Devices = {0} => d # 0
    BY <1>2, <1>3 DEF ScanInv, Scan!TypeOK
  <2>3. Scan!Devices = {0} => at'[0] = at[0]
    BY <1>2, <1>3, <1>4, <2>2
  <2> QED
    BY <1>4, <1>5, <2>1, <2>3 DEF ScanInv, PassedInv, Sent
<1>13. NoDecoderIsActive'
  BY <1>4, <1>5 DEF ScanInv, NoDecoderIsActive
<1> QED
  BY <1>8, <1>9, <1>10, <1>11, <1>12, <1>13 DEF ScanInv

LEMMA DecoderSendKeeps ==
  ASSUME Scan!ScanAssumption, ScanInv, NEW d \in Scan!Decoders, Scan!Send(d)
  PROVE  ScanInv'
<1> DEFINE k == Len(out) + 1
<1>1. /\ Len(history) \in Nat /\ DOMAIN history = 1..Len(history) /\ Scan!Decoders \subseteq Nat
      /\ at[d] \in 1..Len(history) /\ 0 \in Scan!Decoders
      /\ \A e \in Scan!Decoders : at[e] \in Nat
      /\ pc[d] = "send" /\ history[at[d]] = tag[d] /\ tag[d] \in seen
  <2>1. pc[d] = "send" /\ Scan!Point(d) = tag[d] /\ tag[d] \in seen /\ at[d] <= Len(history)
    BY DEF ScanInv, DecodersInv, Scan!Send
  <2> QED
    BY <2>1, HistoryType DEF ScanInv, Scan!TypeOK, Scan!Point
<1>2. /\ \A e \in Scan!Decoders \ {d} : pc'[e] = pc[e] /\ at'[e] = at[e]
      /\ pc'[d] = "scan" /\ at'[d] = at[d] + 1
      /\ UNCHANGED <<history, tag, holder, seen, running, cancelled, result>>
  BY DEF Scan!Send, ScanInv, Scan!TypeOK
<1>3. /\ Scan!Devices' = Scan!Devices /\ Scan!Decoders' = Scan!Decoders
      /\ Taken' = Taken /\ d \in Taken /\ Scan!Active' = Scan!Active /\ d \in Scan!Active
  BY <1>1, <1>2, InputIsKept DEF Taken, Scan!Active
<1>4. /\ Len(out) \in Nat /\ k \in Nat /\ DOMAIN out = 1..Len(out) /\ DOMAIN out' = DOMAIN out \cup {k}
      /\ \A m \in DOMAIN out : out'[m] = out[m] /\ m < k /\ m \in Nat
      /\ out'[k].point = at[d] /\ out'[k].decoder = d
  BY DEF Scan!Send, ScanInv, Scan!TypeOK
<1>5. Scan!TypeOK'
  <2>1. [point |-> at[d], decoder |-> d] \in [point : DOMAIN history, decoder : Scan!Decoders]
    BY <1>1
  <2>2. out' \in Seq([point : DOMAIN history, decoder : Scan!Decoders])
    BY <2>1 DEF Scan!Send, ScanInv, Scan!TypeOK
  <2>3. /\ pc' \in [Scan!Decoders -> {"free", "scan", "spawn", "send", "done"}]
        /\ at' \in [Scan!Decoders -> 1..(Len(history) + 1)]
    BY <1>1 DEF Scan!Send, ScanInv, Scan!TypeOK
  <2> QED
    BY <1>2, <1>3, <2>2, <2>3 DEF ScanInv, Scan!TypeOK
<1> HIDE DEF k
<1>6. DecodersInv'
  <2>1. \A e \in Scan!Decoders : pc'[e] # "free" => \A p \in 1..(at'[e] - 1) : history[p] \in seen
    BY <1>1, <1>2 DEF ScanInv, DecodersInv
  <2>2. \A e \in Scan!Decoders : pc'[e] # "scan" => e # d /\ pc'[e] = pc[e] /\ at'[e] = at[e]
    BY <1>2
  <2> QED
    BY <1>1, <1>2, <1>3, <2>1, <2>2 DEF ScanInv, DecodersInv, Scan!Point
<1>7. OwnersInv'
  <2>1. \A e \in Scan!Decoders : pc'[e] = "spawn" => pc[e] = "spawn" /\ at'[e] = at[e]
    BY <1>2
  <2>2. \A e \in Scan!Decoders : pc[e] = "spawn" => pc'[e] = "spawn" /\ at'[e] = at[e]
    BY <1>1, <1>2
  <2>3. \A e \in Scan!Decoders : pc[e] = "spawn" => \A m \in DOMAIN out' : history[out'[m].point] # history[at[e]]
    BY <1>1, <1>3, <1>4 DEF ScanInv, OwnersInv, Scan!Point
  <2>4. \A u \in seen \ {0} : \E e \in Taken : tag[e] = u \/ (pc'[e] = "spawn" /\ history[at'[e]] = u)
    BY <2>2 DEF ScanInv, OwnersInv, Scan!Point, Taken
  <2> QED
    BY <1>2, <1>3, <2>1, <2>3, <2>4 DEF ScanInv, OwnersInv, Scan!Point
<1>8. SendsInv'
  <2>1. \A m \in DOMAIN out : /\ out[m].decoder \in Taken /\ out[m].point \in Nat
                              /\ out[m].point < at[out[m].decoder]
    BY SendsType DEF ScanInv, SendsInv
  <2>2. \A e \in Taken : at[e] \in Nat /\ at'[e] \in Nat /\ at[e] <= at'[e]
    BY <1>1, <1>2 DEF Taken
  <2>3. \A m \in DOMAIN out' :
          /\ out'[m].decoder \in Taken /\ out'[m].point < at'[out'[m].decoder]
          /\ history[out'[m].point] \in seen
          /\ \A e \in Taken : tag[e] = history[out'[m].point] => e = out'[m].decoder
    <3>1. ASSUME NEW m \in DOMAIN out
          PROVE  /\ out'[m].decoder \in Taken /\ out'[m].point < at'[out'[m].decoder]
                 /\ history[out'[m].point] \in seen
                 /\ \A e \in Taken : tag[e] = history[out'[m].point] => e = out'[m].decoder
      BY <1>4, <2>1, <2>2 DEF ScanInv, SendsInv
    <3>2. /\ out'[k].decoder \in Taken /\ out'[k].point < at'[out'[k].decoder]
          /\ history[out'[k].point] \in seen
          /\ \A e \in Taken : tag[e] = history[out'[k].point] => e = out'[k].decoder
      BY <1>1, <1>2, <1>3, <1>4 DEF ScanInv, OwnersInv
    <3> QED
      BY <1>4, <3>1, <3>2
  <2>4. \A m, n \in DOMAIN out' : history[out'[m].point] = history[out'[n].point] =>
          out'[m].decoder = out'[n].decoder /\ (m < n => out'[m].point < out'[n].point)
    <3>1. \A m, n \in DOMAIN out : history[out'[m].point] = history[out'[n].point] =>
            out'[m].decoder = out'[n].decoder /\ (m < n => out'[m].point < out'[n].point)
      BY <1>4 DEF ScanInv, SendsInv
    <3>2. \A m \in DOMAIN out : history[out[m].point] = tag[d] => out[m].decoder = d /\ out[m].point < at[d]
      BY <1>3, <2>1 DEF ScanInv, SendsInv
    <3>3. \A m \in DOMAIN out : ~(k < m)
      BY <1>4
    <3>4. history[out'[k].point] = tag[d] /\ out'[k].decoder = d /\ out'[k].point = at[d] /\ ~(k < k)
      BY <1>1, <1>4
    <3> QED
      BY <1>4, <3>1, <3>2, <3>3, <3>4
  <2> QED
    BY <1>2, <1>3, <2>3, <2>4 DEF SendsInv
<1>9. PassedInv'
  <2>1. \A p : Sent(p) => Sent(p)'
    BY <1>4 DEF Sent
  <2>2. \A p : p = at[d] => Sent(p)'
    BY <1>4 DEF Sent
  <2>3. ASSUME NEW e \in Taken, NEW p \in 1..(at'[e] - 1), tag[e] # 0, history[p] = tag[e]
        PROVE  Sent(p)'
    <3>1. CASE p \in 1..(at[e] - 1)
      BY <2>1, <2>3, <3>1 DEF ScanInv, PassedInv
    <3>2. CASE p \notin 1..(at[e] - 1)
      BY <1>1, <1>2, <2>2, <2>3, <3>2 DEF Taken
    <3> QED
      BY <3>1, <3>2
  <2>4. ASSUME Scan!Devices = {0}, NEW p \in 1..(at'[0] - 1)
        PROVE  Sent(p)'
    <3>1. CASE p \in 1..(at[0] - 1)
      BY <2>1, <2>4, <3>1 DEF ScanInv, PassedInv
    <3>2. CASE p \notin 1..(at[0] - 1)
      BY <1>1, <1>2, <2>2, <2>4, <3>2
    <3> QED
      BY <3>1, <3>2
  <2> QED
    BY <1>2, <1>3, <2>3, <2>4 DEF PassedInv
<1>10. NoDecoderIsActive'
  BY <1>2, <1>3 DEF ScanInv, NoDecoderIsActive
<1> QED
  BY <1>5, <1>6, <1>7, <1>8, <1>9, <1>10 DEF ScanInv

LEMMA EndKeeps ==
  ASSUME Scan!ScanAssumption, ScanInv, NEW d \in Scan!Decoders, Scan!End(d)
  PROVE  ScanInv'
<1>1. pc[d] = "scan" /\ (cancelled \/ at[d] > Len(history))
  BY DEF Scan!End
<1>2. /\ \A e \in Scan!Decoders \ {d} : pc'[e] = pc[e]
      /\ pc'[d] = "done" /\ UNCHANGED <<history, tag, at, holder, seen, out, cancelled>>
  BY DEF Scan!End, ScanInv, Scan!TypeOK
<1>3. /\ Scan!Devices' = Scan!Devices /\ Scan!Decoders' = Scan!Decoders /\ Taken' = Taken
      /\ Scan!Active' = Scan!Active \ {d} /\ d \in Scan!Active
  BY <1>2, InputIsKept DEF Taken, Scan!Active, Scan!End
<1>4. Scan!TypeOK'
  <2>1. CASE d = 0
    BY <1>2, <1>3, <2>1 DEF Scan!End, ScanInv, Scan!TypeOK
  <2>2. CASE d # 0
    <3>1. Scan!Active' \ {0} = (Scan!Active \ {0}) \ {d} /\ d \in Scan!Active \ {0}
      BY <1>3, <2>2
    <3>2. running' = running - 1
      BY <2>2 DEF Scan!End
    <3>3. running' = Cardinality(Scan!Active' \ {0})
      BY <3>1, <3>2, ActiveType, FS_RemoveElement
    <3>4. running' <= MaxGoroutines
      BY <3>2, ActiveType DEF Scan!ScanAssumption, ScanInv, Scan!TypeOK
    <3> QED
      BY <1>2, <1>3, <2>2, <3>3, <3>4, SameOperators DEF Scan!End, ScanInv, Scan!TypeOK
  <2> QED
    BY <2>1, <2>2
<1>5. DecodersInv'
  BY <1>1, <1>2, <1>3 DEF ScanInv, DecodersInv, Scan!Point, Scan!End
<1>6. OwnersInv'
  BY <1>2, <1>3 DEF ScanInv, OwnersInv, Scan!Point, Taken, Scan!End
<1>7. SendsInv'
  BY <1>2, <1>3 DEF ScanInv, SendsInv
<1>8. PassedInv'
  BY <1>2, <1>3 DEF ScanInv, PassedInv, Sent
<1>9. NoDecoderIsActive'
  BY <1>3 DEF ScanInv, NoDecoderIsActive, Scan!End
<1> QED
  BY <1>4, <1>5, <1>6, <1>7, <1>8, <1>9 DEF ScanInv

LEMMA OthersKeep ==
  ASSUME Scan!ScanAssumption, ScanInv, Scan!Wait \/ Scan!Cancel \/ UNCHANGED Scan!vars
  PROVE  ScanInv'
<1>1. /\ UNCHANGED <<history, pc, tag, at, holder, seen, running, out>> /\ (cancelled => cancelled')
      /\ cancelled' \in BOOLEAN /\ result' \in {"none", "done", "error"}
      /\ result' = "done" => Scan!Active = {}
  BY DEF Scan!Wait, Scan!Cancel, Scan!vars, ScanInv, Scan!TypeOK, NoDecoderIsActive
<1>2. Scan!Devices' = Scan!Devices /\ Scan!Decoders' = Scan!Decoders /\ Taken' = Taken /\ Scan!Active' = Scan!Active
  BY <1>1, InputIsKept DEF Taken, Scan!Active
<1>3. Scan!TypeOK'
  BY <1>1, <1>2 DEF ScanInv, Scan!TypeOK
<1>4. DecodersInv' /\ OwnersInv'
  BY <1>1, <1>2 DEF ScanInv, DecodersInv, OwnersInv, Scan!Point
<1>5. SendsInv' /\ PassedInv' /\ NoDecoderIsActive'
  BY <1>1, <1>2 DEF ScanInv, SendsInv, PassedInv, Sent, NoDecoderIsActive
<1> QED
  BY <1>3, <1>4, <1>5 DEF ScanInv

LEMMA ScanInvNext == ASSUME Scan!ScanAssumption PROVE ScanInv /\ [Scan!Next]_(Scan!vars) => ScanInv'
BY SkipPointKeeps, OwnPointKeeps, TakeDeviceKeeps, FindDeviceKeeps, DecoderSpawnKeeps, DecoderSendKeeps, EndKeeps,
   OthersKeep DEF Scan!Next, Scan!Progress, Scan!Step

LEMMA ScanIsInvariant == ASSUME Scan!ScanAssumption PROVE Scan!Spec => []ScanInv
BY ScanInvInit, ScanInvNext, PTL DEF Scan!Spec
-----------------------------------------------------------------------------

(* Every state of the decoders has its type, and throttle holds as many     *)
(* tokens as there are goroutines.                                          *)
THEOREM ScanIsTyped == ASSUME Scan!ScanAssumption PROVE Scan!Spec => []Scan!TypeOK
<1>1. ScanInv => Scan!TypeOK
  BY DEF ScanInv
<1> QED
  BY <1>1, ScanIsInvariant, PTL

(* However many devices there are and however their points and the          *)
(* goroutines interleave: no point is sent twice, each device's points come *)
(* from one decoder and in order, and all of them if the scan is done and   *)
(* was not cancelled (googlelocation.go:161-240).                           *)
THEOREM PathsStayWhole == ASSUME Scan!ScanAssumption PROVE Scan!Spec => []Scan!PathsAreWhole
<1>1. ASSUME ScanInv PROVE Scan!PathsAreWhole
  <2>1. ASSUME NEW t \in Scan!Devices, NEW m \in Scan!SentOf(t), NEW n \in Scan!SentOf(t)
        PROVE  out[m].decoder = out[n].decoder /\ (m < n => out[m].point < out[n].point)
    BY <1>1 DEF ScanInv, SendsInv, Scan!SentOf
  <2>2. ASSUME NEW t \in Scan!Devices, result = "done", ~cancelled, t # 0 \/ Scan!Devices = {0},
               NEW p \in DOMAIN history, history[p] = t
        PROVE  \E m \in Scan!SentOf(t) : out[m].point = p
    <3>1. /\ Len(history) \in Nat /\ DOMAIN history = 1..Len(history) /\ 0 \in Scan!Decoders
          /\ \A d \in Scan!Decoders : at[d] \in 1..(Len(history) + 1)
      BY <1>1, HistoryType DEF ScanInv, Scan!TypeOK
    <3>2. \A d \in Taken : pc[d] = "done" /\ at[d] > Len(history)
      BY <1>1, <2>2 DEF ScanInv, NoDecoderIsActive, Scan!Active, Taken, DecodersInv
    <3>3. 0 \in Taken
      BY <1>1, <3>1 DEF ScanInv, DecodersInv, Taken
    <3>4. \A d \in Taken : p \in 1..(at[d] - 1)
      BY <3>1, <3>2 DEF Taken
    <3>5. Sent(p)
      <4>1. CASE Scan!Devices = {0}
        BY <1>1, <3>3, <3>4, <4>1 DEF ScanInv, PassedInv
      <4>2. CASE t # 0
        <5>1. t \in seen
          BY <1>1, <2>2, <3>3, <3>4 DEF ScanInv, DecodersInv, Taken
        <5>2. PICK d \in Taken : tag[d] = t
          BY <1>1, <3>2, <4>2, <5>1 DEF ScanInv, OwnersInv
        <5> QED
          BY <1>1, <2>2, <3>4, <4>2, <5>2 DEF ScanInv, PassedInv
      <4> QED
        BY <2>2, <4>1, <4>2
    <3> QED
      BY <2>2, <3>5 DEF Sent, Scan!SentOf
  <2> QED
    BY <2>1, <2>2 DEF Scan!PathsAreWhole
<1> QED
  BY <1>1, ScanIsInvariant, PTL

(* FileImport reports success only when no goroutine is left.               *)
THEOREM NoDecoderIsLeft == ASSUME Scan!ScanAssumption PROVE Scan!Spec => [](result = "done" => Scan!Active = {})
<1>1. ScanInv => (result = "done" => Scan!Active = {})
  BY DEF ScanInv, NoDecoderIsActive
<1> QED
  BY <1>1, ScanIsInvariant, PTL
-----------------------------------------------------------------------------
(* That the scan is not stuck.                                              *)

(* What the guards of a decoder's steps ask for: of those to read a point,  *)
(* to end, to start a goroutine and to send.                                *)
DecoderCanGo(d) ==
  \/ Scan!HasPoint(d)
  \/ pc[d] = "scan" /\ (cancelled \/ at[d] > Len(history))
  \/ /\ pc[d] = "spawn" /\ running < MaxGoroutines
     /\ \E e \in Scan!Decoders : /\ pc[e] = "free"
                                 /\ \A f \in Scan!Decoders : pc[f] = "free" => e <= f
  \/ pc[d] = "send" /\ result = "none"

(* A decoder that starts another finds one that is free, and fewer devices  *)
(* are taken than there are: each by one decoder, and the new one by none.  *)
LEMMA RoomForADevice ==
  ASSUME Scan!ScanAssumption, ScanInv, NEW d \in Scan!Decoders, pc[d] = "spawn"
  PROVE  /\ IsFiniteSet(Taken) /\ Cardinality(Taken) \in Nat
         /\ Cardinality(Taken) < Cardinality(Scan!Devices)
         /\ Cardinality(Scan!Devices) \in Nat
         /\ \E e \in Scan!Decoders : /\ pc[e] = "free"
                                     /\ \A f \in Scan!Decoders : pc[f] = "free" => e <= f
<1> DEFINE t == Scan!Point(d)
           Others == Scan!Devices \ {t}
           free == {e \in Scan!Decoders : pc[e] = "free"}
<1>1. /\ IsFiniteSet(Scan!Devices) /\ Cardinality(Scan!Devices) \in Nat
      /\ Scan!Decoders = 0..Cardinality(Scan!Devices)
  BY HistoryType, SameOperators DEF ScanInv, Scan!TypeOK, Scan!Decoders
<1>2. t \in Scan!Devices /\ t \in seen /\ seen \subseteq Scan!Devices /\ tag[d] # 0 /\ d \in Taken
  BY DEF ScanInv, Scan!TypeOK, DecodersInv, Taken
<1>3. \A e \in Taken : tag[e] \in seen /\ tag[e] # t
  <2>1. \A e \in Taken : tag[e] \in seen \cup {0} /\ e \in Scan!Decoders
    BY DEF ScanInv, Scan!TypeOK, Taken
  <2>2. 0 \in Taken => tag[0] # 0
    BY <1>2 DEF ScanInv, DecodersInv, Taken
  <2>4. \A e \in Taken : e # 0 => tag[e] \in seen
    BY DEF ScanInv, DecodersInv, Taken
  <2>3. \A e \in Taken : tag[e] # t
    BY DEF ScanInv, OwnersInv
  <2> QED
    BY <2>1, <2>2, <2>3, <2>4
<1>4. IsFiniteSet(Others) /\ Cardinality(Others) = Cardinality(Scan!Devices) - 1
  BY <1>1, <1>2, FS_RemoveElement
<1> HIDE DEF t, Others
<1>5. IsFiniteSet(Taken) /\ Cardinality(Taken) <= Cardinality(Others)
  <2> DEFINE owned == [e \in Taken |-> tag[e]]
  <2>1. owned \in [Taken -> Others]
    BY <1>2, <1>3 DEF Others
  <2>2. \A e, f \in Taken : owned[e] = owned[f] => e = f
    BY DEF ScanInv, OwnersInv
  <2>3. owned \in Injection(Taken, Others)
    BY <2>1, <2>2 DEF Injection, IsInjective
  <2> QED
    BY <1>4, <2>3, FS_Injection
<1>6. Cardinality(Taken) \in Nat /\ Cardinality(Taken) < Cardinality(Scan!Devices)
  BY <1>1, <1>4, <1>5, FS_CardinalityType
<1>7. free # {}
  <2>1. Cardinality(Scan!Decoders) = Cardinality(Scan!Devices) + 1
    BY <1>1, FS_Interval
  <2>2. Taken # Scan!Decoders
    BY <1>1, <1>6, <2>1
  <2> QED
    BY <2>2 DEF Taken
<1>8. PICK e \in free : \A f \in free : e <= f
  <2>1. free \subseteq Nat
    BY <1>1
  <2> QED
    BY <1>7, <2>1, NatHasMinimum
<1> QED
  BY <1>1, <1>5, <1>6, <1>8

(* As long as FileImport has not returned and a goroutine is left, one of   *)
(* them can go on, unless one waits for room with the mutex locked; then    *)
(* there are more devices than fit (googlelocation.go:204-225).             *)
THEOREM OnlyRoomIsWaitedFor ==
  ASSUME Scan!ScanAssumption
  PROVE  Scan!Spec => [](/\ result = "none" /\ Scan!Active # {}
                         /\ \A d \in Scan!Decoders : ~DecoderCanGo(d)
                         => holder # None /\ Cardinality(Scan!Devices) > MaxGoroutines + 1)
<1>1. ASSUME ScanInv, result = "none", Scan!Active # {}, \A d \in Scan!Decoders : ~DecoderCanGo(d)
      PROVE  holder # None /\ Cardinality(Scan!Devices) > MaxGoroutines + 1
  <2>1. None \notin Nat /\ Scan!Decoders \subseteq Nat /\ Len(history) \in Nat /\ 0 \in Scan!Decoders
    BY <1>1, HistoryType DEF ScanInv, Scan!TypeOK
  <2>2. PICK d \in Scan!Decoders : pc[d] = "spawn"
    <3>1. PICK e \in Scan!Active : TRUE
      BY <1>1
    <3>2. e \in Scan!Decoders /\ pc[e] \in {"scan", "spawn", "send"} /\ at[e] \in Nat
      BY <1>1, <2>1, <3>1 DEF Scan!Active, ScanInv, Scan!TypeOK
    <3>3. CASE pc[e] = "scan"
      <4>1. ~cancelled /\ at[e] <= Len(history) /\ holder # None
        BY <1>1, <2>1, <3>2, <3>3 DEF DecoderCanGo, Scan!HasPoint
      <4>2. holder \in Scan!Decoders
        BY <1>1, <4>1 DEF ScanInv, Scan!TypeOK
      <4> QED
        BY <1>1, <4>2 DEF ScanInv, DecodersInv
    <3>4. pc[e] # "send"
      BY <1>1, <3>2 DEF DecoderCanGo
    <3> QED
      BY <3>2, <3>3, <3>4
  <2>3. holder # None
    BY <1>1, <2>1, <2>2 DEF ScanInv, DecodersInv
  <2>4. /\ IsFiniteSet(Taken) /\ Cardinality(Taken) \in Nat /\ Cardinality(Scan!Devices) \in Nat
        /\ Cardinality(Taken) < Cardinality(Scan!Devices) /\ ~(running < MaxGoroutines)
    BY <1>1, <2>2, RoomForADevice DEF DecoderCanGo
  <2>5. running + 1 <= Cardinality(Taken) /\ running \in Nat
    <3> DEFINE workers == Scan!Active \ {0}
    <3>1. workers \cup {0} \subseteq Taken /\ 0 \notin workers
      BY <1>1, <2>1 DEF ScanInv, DecodersInv, Scan!Active, Taken
    <3>2. IsFiniteSet(workers)
      BY <2>4, <3>1, FS_Subset
    <3>3. Cardinality(workers \cup {0}) = Cardinality(workers) + 1
      BY <3>1, <3>2, FS_AddElement
    <3>4. Cardinality(workers \cup {0}) <= Cardinality(Taken)
      BY <2>4, <3>1, FS_Subset
    <3>5. running = Cardinality(workers) /\ Cardinality(workers) \in Nat
      BY <1>1, <3>2, SameOperators, FS_CardinalityType DEF ScanInv, Scan!TypeOK
    <3> QED
      BY <3>3, <3>4, <3>5
  <2>6. MaxGoroutines \in Nat
    BY DEF Scan!ScanAssumption
  <2> QED
    BY <2>3, <2>4, <2>5, <2>6
<1>2. ScanInv => (/\ result = "none" /\ Scan!Active # {}
                  /\ \A d \in Scan!Decoders : ~DecoderCanGo(d)
                  => holder # None /\ Cardinality(Scan!Devices) > MaxGoroutines + 1)
  BY <1>1
<1> QED
  BY <1>2, ScanIsInvariant, PTL

-----------------------------------------------------------------------------
(* Imports that are resumed.                                                *)

CONSTANTS Archives, QueueSize, MaxStops

VARIABLES archive, reader, place, ahead, queue, stored, saved, resumed

Again == INSTANCE Readers

(* The order in which the data are read.                                    *)
Before(p, q) == p[1] < q[1] \/ (p[1] = q[1] /\ p[2] < q[2])

UnitPlaces == {p \in Nat \X Nat : p[1] \in DOMAIN Again!Files /\ p[2] \in DOMAIN Again!Units(p[1])}
EndPlace == <<Len(Again!Files) + 1, 1>>

(* The checkpoint that this run began with, and its place.                  *)
Current == IF resumed = <<>> THEN Again!NoCheckpoint ELSE resumed[Len(resumed)]
Target == <<Current.file, Current.index + 1>>

(* A checkpoint says that a place was stored before it, or with it.         *)
Covered(c, p) == Again!Precedes(p, c) \/ (c # Again!NoCheckpoint /\ Again!CheckpointOf(p) = c)

Checkpoints == {Again!NoCheckpoint} \cup {Again!CheckpointOf(p) : p \in Again!Places}

Done(p) == p \in stored \/ Again!Mistaken(p)
Queued(p, n) == \E m \in DOMAIN queue : m < n /\ queue[m] = p

-----------------------------------------------------------------------------
(* The inductive invariant.                                                 *)

ReaderTypes ==
  /\ archive \in Archives /\ reader \in {"reading", "stopped", "finished"}
  /\ place \in UnitPlaces \cup {EndPlace}
  /\ queue \in Seq(Again!Places) /\ Len(queue) <= QueueSize /\ stored \subseteq Again!Places
  /\ saved \in Checkpoints /\ resumed \in Seq(Checkpoints)
  /\ ahead \in [file : Nat, index : Nat]
  /\ reader # "reading" => queue = <<>>
  /\ reader = "finished" => Again!AtEnd

(* What remains ahead of a source that reads.                               *)
OneFileAhead == archive.kind \in {"sms", "location", "legacy"} => ahead = Current

PhotosAhead ==
  archive.kind = "photos" =>
    IF Current = Again!NoCheckpoint THEN ahead = Again!NoCheckpoint
    ELSE ahead = IF Before(Target, place) THEN Again!NoCheckpoint ELSE Current

(* In a mailbox the number is ahead until it was found, or forever if the   *)
(* message was the last one.                                                *)
MailAhead ==
  archive.kind = "mail" =>
    /\ Current = Again!NoCheckpoint => ahead = Again!NoCheckpoint
    /\ ahead.file # 0 => ahead = Current /\ ~Before(<<Current.file, 1>>, place)
    /\ ahead.file = 0 /\ Current # Again!NoCheckpoint =>
         /\ place[1] >= Current.file
         /\ \/ ahead.index = 0 /\ (place[1] = Current.file => place[2] > Current.index)
            \/ /\ ahead.index = Current.index /\ Current.index # 0
               /\ IF place[1] = Current.file THEN place[2] <= Current.index + 1
                  ELSE Again!Mbox(Current.file) /\ Again!IsLast(Target)

AheadInv == reader = "reading" => OneFileAhead /\ PhotosAhead /\ MailAhead

(* What was read is on its way in order, and what a checkpoint covers is    *)
(* not needed any more.                                                     *)
ReadInv ==
  reader # "stopped" => \A p \in Again!Places : Before(p, place) => Done(p) \/ Queued(p, Len(queue) + 1)
QueueInv == \A n \in DOMAIN queue : \A p \in Again!Places : Before(p, queue[n]) => Done(p) \/ Queued(p, n)
CheckpointsInv == \A p \in Again!Places : Covered(Current, p) \/ Covered(saved, p) => Done(p)
NotSentAgain == \A n \in DOMAIN queue : ~Again!Precedes(queue[n], Current)

ReadersInv == ReaderTypes /\ AheadInv /\ ReadInv /\ QueueInv /\ CheckpointsInv /\ NotSentAgain

-----------------------------------------------------------------------------

LEMMA FilesType ==
  ASSUME Again!ReadersAssumption, archive \in Archives
  PROVE  /\ archive.kind \in Again!Kinds /\ Len(Again!Files) \in Nat /\ DOMAIN Again!Files = 1..Len(Again!Files)
         /\ \A f \in DOMAIN Again!Files :
              /\ Again!Mbox(f) \in BOOLEAN /\ Len(Again!Units(f)) \in Nat /\ DOMAIN Again!Units(f) = 1..Len(Again!Units(f))
              /\ \A u \in DOMAIN Again!Units(f) : Again!Units(f)[u] \in BOOLEAN
              /\ archive.kind = "mail" => Again!Mbox(f) \/ Len(Again!Units(f)) <= 1
         /\ archive.kind \in {"sms", "location", "legacy"} => Len(Again!Files) = 1
<1> DEFINE F == [mbox : BOOLEAN, units : Seq(BOOLEAN)]
<1>1. /\ archive.kind \in Again!Kinds /\ Again!Files \in Seq(F)
      /\ archive.kind \in {"sms", "location", "legacy"} => Len(Again!Files) = 1
      /\ archive.kind = "mail" => \A f \in DOMAIN Again!Files : Again!Mbox(f) \/ Len(Again!Units(f)) <= 1
  BY DEF Again!ReadersAssumption, Again!Files, Again!Mbox, Again!Units
<1>2. Len(Again!Files) \in Nat /\ DOMAIN Again!Files = 1..Len(Again!Files) /\ \A f \in DOMAIN Again!Files : Again!Files[f] \in F
  <2> HIDE DEF F
  <2> QED
    BY <1>1
<1>3. \A f \in DOMAIN Again!Files : Again!Mbox(f) \in BOOLEAN /\ Again!Units(f) \in Seq(BOOLEAN)
  BY <1>2 DEF Again!Mbox, Again!Units
<1>4. \A s \in Seq(BOOLEAN) : Len(s) \in Nat /\ DOMAIN s = 1..Len(s) /\ \A u \in DOMAIN s : s[u] \in BOOLEAN
  OBVIOUS
<1> QED
  BY <1>1, <1>2, <1>3, <1>4

LEMMA PlacesType ==
  ASSUME Again!ReadersAssumption, archive \in Archives
  PROVE  /\ Again!Places = {p \in UnitPlaces : Again!Units(p[1])[p[2]]}
         /\ \A p \in UnitPlaces : /\ p = <<p[1], p[2]>> /\ p[1] \in 1..Len(Again!Files)
                                  /\ p[1] \in Nat /\ p[2] \in Nat /\ p[2] \in 1..Len(Again!Units(p[1]))
         /\ EndPlace[1] = Len(Again!Files) + 1 /\ EndPlace[2] = 1 /\ Len(Again!Files) \in Nat
         /\ EndPlace \notin UnitPlaces
<1>1. \A p \in UnitPlaces : /\ p = <<p[1], p[2]>> /\ p[1] \in 1..Len(Again!Files)
                            /\ p[1] \in Nat /\ p[2] \in Nat /\ p[2] \in 1..Len(Again!Units(p[1]))
  BY FilesType DEF UnitPlaces
<1>2. \A p : p \in UNION {{f} \X DOMAIN Again!Units(f) : f \in DOMAIN Again!Files} <=> p \in UnitPlaces
  <2>1. ASSUME NEW f \in DOMAIN Again!Files, NEW p \in {f} \X DOMAIN Again!Units(f)
        PROVE  p \in UnitPlaces
    <3>1. p[1] = f /\ p[2] \in DOMAIN Again!Units(f) /\ f \in Nat /\ p[2] \in Nat /\ p = <<p[1], p[2]>>
      BY <2>1, FilesType
    <3> QED
      BY <3>1 DEF UnitPlaces
  <2>2. ASSUME NEW p \in UnitPlaces
        PROVE  p \in {p[1]} \X DOMAIN Again!Units(p[1]) /\ p[1] \in DOMAIN Again!Files
    BY DEF UnitPlaces
  <2> QED
    BY <2>1, <2>2
<1>3. EndPlace[1] = Len(Again!Files) + 1 /\ EndPlace[2] = 1 /\ Len(Again!Files) \in Nat
  BY FilesType DEF EndPlace
<1> QED
  BY <1>1, <1>2, <1>3 DEF Again!Places

(* The first unit of the first file, from f on, that has any.               *)
LEMMA FirstFromType ==
  ASSUME Again!ReadersAssumption, archive \in Archives, NEW f \in 1..(Len(Again!Files) + 1)
  PROVE  /\ Again!FirstFrom(f) \in UnitPlaces \cup {EndPlace}
         /\ Again!FirstFrom(f)[1] >= f /\ Again!FirstFrom(f)[1] \in Nat /\ Again!FirstFrom(f)[2] = 1
         /\ \A q \in UnitPlaces : q[1] >= f => ~Before(q, Again!FirstFrom(f))
<1> DEFINE D == {g \in f..(Len(Again!Files) + 1) : g \in DOMAIN Again!Files => Again!Units(g) # <<>>}
           m == Again!Min(D)
<1>1. Len(Again!Files) \in Nat /\ DOMAIN Again!Files = 1..Len(Again!Files)
  BY FilesType
<1>2. D \in SUBSET Nat /\ Len(Again!Files) + 1 \in D
  BY <1>1
<1>3. m \in D /\ \A g \in D : m <= g
  <2>1. \E g \in D : \A k \in D : g <= k
    BY <1>2, NatHasMinimum
  <2> QED
    BY <2>1 DEF Again!Min
<1>4. Again!FirstFrom(f) = <<m, 1>>
  BY DEF Again!FirstFrom
<1> HIDE DEF m
<1>5. m \in f..(Len(Again!Files) + 1) /\ (m \in DOMAIN Again!Files => Again!Units(m) # <<>>)
  BY <1>3
<1>6. Again!FirstFrom(f) \in UnitPlaces \cup {EndPlace}
  <2>1. CASE m \in DOMAIN Again!Files
    <3>1. 1 \in DOMAIN Again!Units(m) /\ m \in Nat
      BY <1>1, <1>5, <2>1, FilesType
    <3> QED
      BY <1>4, <2>1, <3>1 DEF UnitPlaces
  <2>2. CASE m = Len(Again!Files) + 1
    BY <1>4, <2>2 DEF EndPlace
  <2> QED
    BY <1>1, <1>5, <2>1, <2>2
<1>7. ASSUME NEW q \in UnitPlaces, q[1] >= f PROVE ~Before(q, Again!FirstFrom(f))
  <2>1. /\ q[1] \in 1..Len(Again!Files) /\ q[1] \in Nat /\ q[2] \in Nat
        /\ q[2] \in 1..Len(Again!Units(q[1])) /\ q[2] \in DOMAIN Again!Units(q[1])
    BY PlacesType, FilesType DEF UnitPlaces
  <2>2. Again!Units(q[1]) # <<>>
    BY <2>1
  <2>3. q[1] \in D
    BY <1>1, <1>7, <2>1, <2>2
  <2>4. m <= q[1] /\ m \in Nat
    BY <1>2, <1>3, <2>3
  <2> QED
    BY <1>4, <2>1, <2>4 DEF Before
<1> QED
  BY <1>1, <1>4, <1>5, <1>6, <1>7

(* The unit that is read after p.                                           *)
LEMMA FollowingType ==
  ASSUME Again!ReadersAssumption, archive \in Archives, NEW p \in UnitPlaces
  PROVE  /\ Again!Following(p) \in UnitPlaces \cup {EndPlace}
         /\ IF Again!IsLast(p) THEN Again!Following(p)[1] > p[1] ELSE Again!Following(p) = <<p[1], p[2] + 1>>
         /\ \A q \in UnitPlaces : Before(q, Again!Following(p)) => Before(q, p) \/ q = p
         /\ \A q \in UnitPlaces : Before(p, q) => ~Before(q, Again!Following(p))
<1>1. /\ p = <<p[1], p[2]>> /\ p[1] \in 1..Len(Again!Files) /\ p[1] \in Nat /\ p[2] \in Nat
      /\ p[2] \in 1..Len(Again!Units(p[1])) /\ Len(Again!Files) \in Nat /\ Len(Again!Units(p[1])) \in Nat
  BY PlacesType, FilesType
<1>2. \A q \in UnitPlaces : /\ q = <<q[1], q[2]>> /\ q[1] \in Nat /\ q[2] \in Nat
                            /\ q[2] \in 1..Len(Again!Units(q[1])) /\ Len(Again!Units(q[1])) \in Nat
  BY PlacesType, FilesType
<1>3. CASE Again!IsLast(p)
  <2>1. p[1] + 1 \in 1..(Len(Again!Files) + 1) /\ Again!Following(p) = Again!FirstFrom(p[1] + 1)
    BY <1>1, <1>3 DEF Again!Following
  <2>2. /\ Again!Following(p) \in UnitPlaces \cup {EndPlace} /\ Again!Following(p)[1] >= p[1] + 1
        /\ Again!Following(p)[1] \in Nat /\ Again!Following(p)[2] = 1
        /\ \A q \in UnitPlaces : q[1] >= p[1] + 1 => ~Before(q, Again!Following(p))
    BY <2>1, FirstFromType
  <2>3. \A q \in UnitPlaces : q[1] < p[1] + 1 => Before(q, p) \/ q = p
    BY <1>1, <1>2, <1>3 DEF Again!IsLast, Before
  <2>4. \A q \in UnitPlaces : Before(p, q) => q[1] >= p[1] + 1
    BY <1>1, <1>2, <1>3 DEF Again!IsLast, Before
  <2> QED
    BY <1>1, <1>2, <1>3, <2>2, <2>3, <2>4
<1>4. CASE ~Again!IsLast(p)
  <2>1. Again!Following(p) = <<p[1], p[2] + 1>>
    BY <1>4 DEF Again!Following
  <2>2. Again!Following(p) \in UnitPlaces
    BY <1>1, <1>4, <2>1, FilesType DEF Again!IsLast, UnitPlaces
  <2>3. \A q \in UnitPlaces : (Before(q, Again!Following(p)) => Before(q, p) \/ q = p)
                           /\ (Before(p, q) => ~Before(q, Again!Following(p)))
    BY <1>1, <1>2, <2>1 DEF Before
  <2> QED
    BY <1>4, <2>1, <2>2, <2>3
<1> QED
  BY <1>3, <1>4

-----------------------------------------------------------------------------

(* A checkpoint is none, or one of a unit that became a graph.              *)
LEMMA CheckpointType ==
  ASSUME Again!ReadersAssumption, archive \in Archives, NEW c \in Checkpoints
  PROVE  /\ c \in [file : Nat, index : Nat] /\ c.file \in Nat /\ c.index \in Nat
         /\ archive.kind \in {"sms", "location", "legacy"} => c.file = 0
         /\ archive.kind = "legacy" => c = Again!NoCheckpoint
         /\ archive.kind \in {"mail", "photos"} /\ c # Again!NoCheckpoint =>
              c.file # 0 /\ <<c.file, c.index + 1>> \in UnitPlaces /\ c.file \in DOMAIN Again!Files
<1>1. CASE c = Again!NoCheckpoint
  BY <1>1 DEF Again!NoCheckpoint
<1>2. CASE c # Again!NoCheckpoint
  <2>1. PICK p \in UnitPlaces : c = Again!CheckpointOf(p)
    BY <1>2, PlacesType DEF Checkpoints
  <2>2. /\ p = <<p[1], p[2]>> /\ p[1] \in 1..Len(Again!Files) /\ p[2] \in 1..Len(Again!Units(p[1]))
        /\ p[1] \in Nat /\ p[2] \in Nat /\ Len(Again!Files) \in Nat /\ DOMAIN Again!Files = 1..Len(Again!Files)
        /\ p[2] - 1 \in Nat /\ (p[2] - 1) + 1 = p[2] /\ p[1] # 0
    BY PlacesType, FilesType
  <2>3. /\ archive.kind # "legacy"
        /\ c = [file |-> IF archive.kind \in {"mail", "photos"} THEN p[1] ELSE 0, index |-> p[2] - 1]
    BY <1>2, <2>1 DEF Again!CheckpointOf
  <2>4. c.index = p[2] - 1 /\ c.file = IF archive.kind \in {"mail", "photos"} THEN p[1] ELSE 0
    BY <2>3
  <2>5. c \in [file : Nat, index : Nat] /\ c.file \in Nat /\ c.index \in Nat
    BY <2>2, <2>3, <2>4
  <2>6. archive.kind \in {"mail", "photos"} => <<c.file, c.index + 1>> = p
    BY <2>2, <2>4
  <2> QED
    BY <1>2, <2>2, <2>3, <2>4, <2>5, <2>6
<1> QED
  BY <1>1, <1>2

LEMMA CurrentType ==
  ASSUME Again!ReadersAssumption, ReaderTypes
  PROVE  Current \in Checkpoints
<1>1. Again!NoCheckpoint \in Checkpoints /\ resumed \in Seq(Checkpoints)
  BY DEF Checkpoints, ReaderTypes
<1>2. ASSUME resumed # <<>> PROVE resumed[Len(resumed)] \in Checkpoints
  BY <1>1, <1>2
<1> QED
  BY <1>1, <1>2 DEF Current

LEMMA CoveredIsBefore ==
  ASSUME Again!ReadersAssumption, archive \in Archives, NEW p \in Again!Places, NEW q \in Again!Places,
         Covered(Again!CheckpointOf(q), p)
  PROVE  Before(p, q) \/ p = q
<1>1. /\ p = <<p[1], p[2]>> /\ p[1] \in 1..Len(Again!Files) /\ p[2] \in 1..Len(Again!Units(p[1]))
      /\ q = <<q[1], q[2]>> /\ q[1] \in 1..Len(Again!Files) /\ q[2] \in 1..Len(Again!Units(q[1]))
      /\ p[1] \in Nat /\ p[2] \in Nat /\ q[1] \in Nat /\ q[2] \in Nat /\ Len(Again!Files) \in Nat
      /\ p[1] # 0 /\ q[1] # 0
  BY PlacesType
<1>2. archive.kind \in {"sms", "location", "legacy"} => p[1] = 1 /\ q[1] = 1
  BY <1>1, FilesType
<1>3. archive.kind # "legacy"
  BY <1>1 DEF Covered, Again!CheckpointOf, Again!Precedes, Again!NoCheckpoint
<1>4. archive.kind \in {"sms", "location", "mail", "photos"}
  BY <1>3, FilesType DEF Again!Kinds
<1>5. Again!Precedes(p, Again!CheckpointOf(q)) => Before(p, q)
  BY <1>1, <1>2, <1>3, <1>4 DEF Again!Precedes, Again!CheckpointOf, Before
<1>6. Again!CheckpointOf(p) = Again!CheckpointOf(q) => p = q
  <2>1. /\ Again!CheckpointOf(p).index = p[2] - 1 /\ Again!CheckpointOf(q).index = q[2] - 1
        /\ archive.kind \in {"mail", "photos"} => Again!CheckpointOf(p).file = p[1] /\ Again!CheckpointOf(q).file = q[1]
    BY <1>3 DEF Again!CheckpointOf
  <2>2. Again!CheckpointOf(p) = Again!CheckpointOf(q) => p[2] = q[2] /\ p[1] = q[1]
    BY <1>1, <1>2, <1>4, <2>1
  <2> QED
    BY <1>1, <2>2
<1> QED
  BY <1>5, <1>6 DEF Covered

(* A unit is passed over just if the checkpoint covers it, but for what     *)
(* email.go is mistaken about, and what it precedes is not sent again.      *)
LEMMA PassingIsSound ==
  ASSUME Again!ReadersAssumption, ReaderTypes, AheadInv, reader = "reading", place \in UnitPlaces
  PROVE  /\ Again!PassedOver(place) => Covered(Current, place) \/ Again!Mistaken(place)
         /\ ~Again!PassedOver(place) => ~Again!Precedes(place, Current)
<1> DEFINE c == Current
<1>1. archive \in Archives /\ c \in Checkpoints /\ archive.kind \in Again!Kinds
  BY CurrentType, FilesType DEF ReaderTypes
<1>2. /\ place = <<place[1], place[2]>> /\ place[1] \in 1..Len(Again!Files) /\ place[2] \in 1..Len(Again!Units(place[1]))
      /\ place[1] \in Nat /\ place[2] \in Nat /\ place[1] # 0 /\ Len(Again!Files) \in Nat
      /\ Len(Again!Units(place[1])) \in Nat /\ DOMAIN Again!Files = 1..Len(Again!Files)
      /\ archive.kind \in {"sms", "location", "legacy"} => place[1] = 1
      /\ archive.kind = "mail" => Again!Mbox(place[1]) \/ Len(Again!Units(place[1])) <= 1
  BY <1>1, PlacesType, FilesType
<1>3. /\ c.file \in Nat /\ c.index \in Nat
      /\ archive.kind \in {"sms", "location", "legacy"} => c.file = 0
      /\ archive.kind = "legacy" => c = Again!NoCheckpoint
      /\ archive.kind \in {"mail", "photos"} /\ c # Again!NoCheckpoint =>
           c.file # 0 /\ Target \in UnitPlaces /\ c.file \in DOMAIN Again!Files
      /\ c \in [file : Nat, index : Nat]
  BY <1>1, CheckpointType DEF Target
<1>4. Again!NoCheckpoint.file = 0 /\ Again!NoCheckpoint.index = 0 /\ ~Again!Precedes(place, Again!NoCheckpoint)
  BY <1>2 DEF Again!NoCheckpoint, Again!Precedes
<1> HIDE DEF c
<1>5. CASE archive.kind \in {"sms", "location", "legacy"}
  <2>1. ahead = c
    BY <1>5 DEF AheadInv, OneFileAhead, c
  <2>2. CASE archive.kind = "sms"
    <3>1. Again!CheckpointOf(place) = [file |-> 0, index |-> place[2] - 1]
      BY <2>2 DEF Again!CheckpointOf
    <3>2. place[2] - 1 = c.index => Again!CheckpointOf(place) = c
      BY <1>3, <2>2, <3>1
    <3>3. Again!PassedOver(place) <=> c.index > 0 /\ place[2] - 1 <= c.index
      BY <2>1, <2>2 DEF Again!PassedOver
    <3> QED
      BY <1>2, <1>3, <1>4, <2>2, <3>2, <3>3 DEF Covered, Again!Precedes, c
  <2>3. CASE archive.kind = "location"
    <3>1. Again!PassedOver(place) <=> c.index > 0 /\ place[2] - 1 < c.index
      BY <2>1, <2>3 DEF Again!PassedOver
    <3> QED
      BY <1>2, <1>3, <2>3, <3>1 DEF Covered, Again!Precedes, c
  <2>4. CASE archive.kind = "legacy"
    BY <1>3, <1>4, <2>4 DEF Again!PassedOver, c
  <2> QED
    BY <1>5, <2>2, <2>3, <2>4
<1>6. CASE archive.kind = "photos"
  <2>1. Again!PassedOver(place) <=> ahead.file # 0 /\ ahead # Again!CheckpointOf(place)
    BY <1>6 DEF Again!PassedOver
  <2>2. Again!CheckpointOf(place) = [file |-> place[1], index |-> place[2] - 1]
    BY <1>6 DEF Again!CheckpointOf
  <2>3. CASE c = Again!NoCheckpoint
    BY <1>4, <1>6, <2>1, <2>3 DEF AheadInv, PhotosAhead, c
  <2>4. CASE c # Again!NoCheckpoint /\ Before(Target, place)
    <3>1. ahead = Again!NoCheckpoint
      BY <1>6, <2>4 DEF AheadInv, PhotosAhead, c
    <3>2. ~Again!Precedes(place, c)
      BY <1>2, <1>3, <1>6, <2>4 DEF Before, Again!Precedes, Target, c
    <3> QED
      BY <1>4, <2>1, <3>1, <3>2 DEF c
  <2>5. CASE c # Again!NoCheckpoint /\ ~Before(Target, place)
    <3>1. ahead = c /\ c.file # 0
      BY <1>3, <1>6, <2>5 DEF AheadInv, PhotosAhead, c
    <3>2. Target[1] = c.file /\ Target[2] = c.index + 1
      BY DEF Target, c
    <3>3. Again!Precedes(place, c) \/ (place[1] = c.file /\ place[2] - 1 = c.index)
      BY <1>2, <1>3, <2>5, <3>2 DEF Before, Again!Precedes
    <3>4. place[1] = c.file /\ place[2] - 1 = c.index => Again!CheckpointOf(place) = c /\ ~Again!Precedes(place, c)
      BY <1>2, <1>3, <2>2 DEF Again!Precedes
    <3>5. Again!Precedes(place, c) => Again!CheckpointOf(place) # c
      BY <1>2, <1>3, <2>2 DEF Again!Precedes
    <3> QED
      BY <2>1, <3>1, <3>3, <3>4, <3>5 DEF Covered, c
  <2> QED
    BY <2>3, <2>4, <2>5
<1>7. CASE archive.kind = "mail"
  <2>1. Again!PassedOver(place) <=>
          Again!OtherFile(place) \/ (Again!Counted(place) /\ ahead.index # 0 /\ place[2] - 1 < ahead.index)
    BY <1>7 DEF Again!PassedOver
  <2>2. CASE c = Again!NoCheckpoint
    BY <1>2, <1>4, <1>7, <2>1, <2>2 DEF AheadInv, MailAhead, Again!OtherFile, c
  <2>3. CASE c # Again!NoCheckpoint
    <3>1. /\ c.file # 0 /\ c.file \in DOMAIN Again!Files /\ Target[1] = c.file /\ Target[2] = c.index + 1
          /\ c.index + 1 \in 1..Len(Again!Units(c.file)) /\ Len(Again!Units(c.file)) \in Nat
          /\ Again!Mbox(c.file) \/ Len(Again!Units(c.file)) <= 1
      BY <1>1, <1>3, <1>7, <2>3, PlacesType, FilesType DEF Target, c
    <3>2. place[1] = c.file /\ place[2] - 1 < c.index => Again!Counted(place)
      BY <1>2, <1>3, <3>1 DEF Again!Counted, Again!IsLast
    <3>3. Again!Precedes(place, c) <=> place[1] < c.file \/ (place[1] = c.file /\ place[2] - 1 < c.index)
      BY <1>2, <3>1 DEF Again!Precedes
    <3>4. CASE ahead.file # 0
      <4>1. ahead = c /\ ~(c.file < place[1])
        BY <1>2, <1>3, <1>7, <3>4 DEF AheadInv, MailAhead, Before, c
      <4> QED
        BY <1>2, <1>3, <2>1, <3>1, <3>2, <3>3, <4>1 DEF Again!OtherFile, Covered, c
    <3>5. CASE ahead.file = 0
      <4>1. ~Again!OtherFile(place)
        BY <3>5 DEF Again!OtherFile
      <4>2. place[1] >= c.file
        BY <1>7, <2>3, <3>5 DEF AheadInv, MailAhead, c
      <4>3. CASE ahead.index = 0
        <5>1. place[1] = c.file => place[2] > c.index
          BY <1>7, <2>3, <3>5, <4>3, <1>2, <1>3 DEF AheadInv, MailAhead, c
        <5> QED
          BY <1>2, <1>3, <2>1, <3>3, <4>1, <4>2, <4>3, <5>1 DEF c
      <4>4. CASE ahead.index # 0
        <5>1. /\ ahead.index = c.index /\ c.index # 0
              /\ place[1] # c.file => Again!Mbox(c.file) /\ Again!IsLast(Target)
          BY <1>7, <2>3, <3>5, <4>4 DEF AheadInv, MailAhead, c
        <5>2. CASE place[1] = c.file
          BY <1>2, <1>3, <2>1, <3>2, <3>3, <4>1, <5>1, <5>2 DEF Covered, c
        <5>3. CASE place[1] > c.file
          <6>1. resumed # <<>> /\ c = resumed[Len(resumed)]
            BY <2>3 DEF Current, c
          <6>2. Len(resumed) \in DOMAIN resumed
            BY <6>1 DEF ReaderTypes
          <6>3. c.file \in 1..(place[1] - 1) /\ <<c.file, c.index + 1>> = Target
            BY <1>2, <1>3, <3>1, <5>3 DEF Target, c
          <6>4. Again!Counted(place) /\ place[2] - 1 < c.index => Again!Mistaken(place)
            BY <1>7, <5>1, <5>3, <6>1, <6>2, <6>3 DEF Again!Mistaken
          <6>5. ~Again!Precedes(place, c)
            BY <1>2, <1>3, <3>3, <5>3
          <6> QED
            BY <2>1, <4>1, <5>1, <6>4, <6>5 DEF c
        <5> QED
          BY <1>2, <1>3, <4>2, <5>2, <5>3
      <4> QED
        BY <4>3, <4>4
    <3> QED
      BY <3>4, <3>5
  <2> QED
    BY <2>2, <2>3
<1> QED
  BY <1>1, <1>5, <1>6, <1>7 DEF Again!Kinds

LEMMA ReadFrame ==
  ASSUME UNCHANGED archive
  PROVE  /\ Again!Files' = Again!Files /\ Again!Places' = Again!Places /\ UnitPlaces' = UnitPlaces /\ EndPlace' = EndPlace
         /\ Checkpoints' = Checkpoints
         /\ \A p : Again!CheckpointOf(p)' = Again!CheckpointOf(p) /\ Again!IsLast(p)' = Again!IsLast(p)
         /\ \A c, p : Covered(c, p)' <=> Covered(c, p)
         /\ \A f : Again!Mbox(f)' = Again!Mbox(f)
BY
  DEF Again!Files, Again!Places, UnitPlaces, EndPlace, Checkpoints, Again!CheckpointOf, Again!IsLast,
      Covered, Again!Precedes, Again!Mbox, Again!Units,
       Again!NoCheckpoint

LEMMA ReadKeepsAhead ==
  ASSUME Again!ReadersAssumption, ReaderTypes, AheadInv, Again!Read
  PROVE  AheadInv' /\ ahead' \in [file : Nat, index : Nat]
<1> DEFINE c == Current
           next == Again!Following(place)
<1>1. /\ archive \in Archives /\ c \in Checkpoints /\ archive.kind \in Again!Kinds
      /\ reader = "reading" /\ place \in UnitPlaces /\ ahead \in [file : Nat, index : Nat]
      /\ place' = next /\ ahead' = Again!Reached(place) /\ UNCHANGED <<archive, reader, resumed>>
  BY CurrentType, FilesType, PlacesType DEF ReaderTypes, Again!Read, Again!AtEnd
<1>2. /\ place = <<place[1], place[2]>> /\ place[1] \in 1..Len(Again!Files) /\ place[2] \in 1..Len(Again!Units(place[1]))
      /\ place[1] \in Nat /\ place[2] \in Nat /\ place[1] # 0 /\ Len(Again!Files) \in Nat
      /\ Len(Again!Units(place[1])) \in Nat /\ DOMAIN Again!Files = 1..Len(Again!Files)
      /\ archive.kind = "mail" => Again!Mbox(place[1]) \/ Len(Again!Units(place[1])) <= 1
  BY <1>1, PlacesType, FilesType
<1>3. /\ c.file \in Nat /\ c.index \in Nat /\ c \in [file : Nat, index : Nat]
      /\ archive.kind \in {"mail", "photos"} /\ c # Again!NoCheckpoint =>
           c.file # 0 /\ Target \in UnitPlaces /\ c.file \in DOMAIN Again!Files
  BY <1>1, CheckpointType DEF Target
<1>4. /\ IF Again!IsLast(place) THEN next[1] > place[1] ELSE next = <<place[1], place[2] + 1>>
      /\ \A q \in UnitPlaces : Before(place, q) => ~Before(q, next)
      /\ next[1] \in Nat /\ next[2] \in Nat
  <2>1. next \in UnitPlaces \cup {EndPlace}
    BY <1>1, FollowingType
  <2>2. next[1] \in Nat /\ next[2] \in Nat
    BY <1>1, <2>1, PlacesType
  <2> QED
    BY <1>1, <2>2, FollowingType
<1>5. Again!NoCheckpoint.file = 0 /\ Again!NoCheckpoint.index = 0 /\ Again!NoCheckpoint \in [file : Nat, index : Nat]
  BY DEF Again!NoCheckpoint
<1>6. ahead' \in [file : Nat, index : Nat]
  BY <1>1, <1>5 DEF Again!Reached
<1>7. Current' = c /\ Target' = Target /\ Again!NoCheckpoint' = Again!NoCheckpoint /\ Target = <<c.file, c.index + 1>>
  BY <1>1 DEF Current, Target, Again!NoCheckpoint
<1> HIDE DEF c, next
<1>8. OneFileAhead'
  <2>1. SUFFICES ASSUME archive.kind \in {"sms", "location", "legacy"} PROVE ahead' = c
    BY <1>1, <1>7 DEF OneFileAhead
  <2> QED
    BY <1>1, <2>1 DEF AheadInv, OneFileAhead, Again!Reached, c
<1>9. PhotosAhead'
  <2>1. SUFFICES ASSUME archive.kind = "photos"
                 PROVE  IF c = Again!NoCheckpoint THEN ahead' = Again!NoCheckpoint
                        ELSE ahead' = IF Before(Target, next) THEN Again!NoCheckpoint ELSE c
    BY <1>1, <1>7 DEF PhotosAhead, Before
  <2>2. ahead' = IF ahead.file # 0 /\ ahead # Again!CheckpointOf(place) THEN ahead ELSE Again!NoCheckpoint
    BY <1>1, <2>1 DEF Again!Reached, Again!PassedOver
  <2>3. CASE c = Again!NoCheckpoint
    BY <1>1, <1>5, <2>1, <2>2, <2>3 DEF AheadInv, PhotosAhead, c
  <2>4. CASE c # Again!NoCheckpoint /\ Before(Target, place)
    <3>1. ahead = Again!NoCheckpoint
      BY <1>1, <2>1, <2>4 DEF AheadInv, PhotosAhead, c
    <3>2. Before(Target, next)
      BY <1>2, <1>3, <1>4, <1>7, <2>4 DEF Before
    <3> QED
      BY <1>5, <2>2, <2>4, <3>1, <3>2
  <2>5. CASE c # Again!NoCheckpoint /\ ~Before(Target, place)
    <3>1. ahead = c /\ c.file # 0 /\ Target \in UnitPlaces
      BY <1>1, <1>3, <2>1, <2>5 DEF AheadInv, PhotosAhead, c
    <3>2. Again!CheckpointOf(place) = [file |-> place[1], index |-> place[2] - 1]
      BY <2>1 DEF Again!CheckpointOf
    <3>3. CASE place = Target
      <4>1. place[1] = c.file /\ place[2] - 1 = c.index
        BY <1>3, <1>7, <3>3
      <4>2. Again!CheckpointOf(place) = c
        BY <1>3, <3>2, <4>1
      <4>3. Before(Target, next)
        BY <1>2, <1>4, <3>3 DEF Before
      <4> QED
        BY <2>2, <2>5, <3>1, <4>2, <4>3
    <3>4. CASE place # Target
      <4>1. Before(place, Target)
        BY <1>2, <1>3, <1>7, <2>5, <3>4 DEF Before
      <4>2. ~Before(Target, next)
        BY <1>4, <3>1, <4>1
      <4>3. Again!CheckpointOf(place) # c
        BY <1>2, <1>3, <1>7, <3>2, <3>4
      <4> QED
        BY <2>2, <2>5, <3>1, <4>2, <4>3
    <3> QED
      BY <3>3, <3>4
  <2> QED
    BY <2>3, <2>4, <2>5
<1>10. MailAhead'
  <2>1. SUFFICES ASSUME archive.kind = "mail"
                 PROVE  /\ c = Again!NoCheckpoint => ahead' = Again!NoCheckpoint
                        /\ ahead'.file # 0 => ahead' = c /\ ~Before(<<c.file, 1>>, next)
                        /\ ahead'.file = 0 /\ c # Again!NoCheckpoint =>
                             /\ next[1] >= c.file
                             /\ \/ ahead'.index = 0 /\ (next[1] = c.file => next[2] > c.index)
                                \/ /\ ahead'.index = c.index /\ c.index # 0
                                   /\ IF next[1] = c.file THEN next[2] <= c.index + 1
                                      ELSE Again!Mbox(c.file) /\ Again!IsLast(Target)
    BY <1>1, <1>7, ReadFrame DEF MailAhead, Before
  <2>2. Again!PassedOver(place) <=>
          Again!OtherFile(place) \/ (Again!Counted(place) /\ ahead.index # 0 /\ place[2] - 1 < ahead.index)
    BY <2>1 DEF Again!PassedOver
  <2>3. ahead' = IF Again!OtherFile(place) THEN ahead
                 ELSE [file |-> 0, index |-> IF Again!Counted(place) /\ ~Again!PassedOver(place) THEN 0 ELSE ahead.index]
    BY <1>1, <2>1 DEF Again!Reached
  <2>4. MailAhead
    BY <1>1 DEF AheadInv
  <2>5. CASE c = Again!NoCheckpoint
    <3>1. ahead = Again!NoCheckpoint /\ ~Again!OtherFile(place)
      BY <1>5, <2>1, <2>4, <2>5 DEF MailAhead, Again!OtherFile, c
    <3>2. ahead' = Again!NoCheckpoint
      BY <2>3, <3>1 DEF Again!NoCheckpoint
    <3> QED
      BY <1>5, <2>5, <3>2
  <2>6. CASE c # Again!NoCheckpoint
    <3>1. /\ c.file # 0 /\ c.file \in DOMAIN Again!Files /\ Target[1] = c.file /\ Target[2] = c.index + 1
          /\ c.index + 1 \in 1..Len(Again!Units(c.file)) /\ Len(Again!Units(c.file)) \in Nat
          /\ (Again!Mbox(c.file) \/ Len(Again!Units(c.file)) <= 1) /\ Target \in UnitPlaces
      BY <1>1, <1>3, <1>7, <2>1, <2>6, PlacesType, FilesType
    <3>2. place[1] = c.file /\ place[2] - 1 < c.index => Again!Counted(place) /\ ~Again!IsLast(place)
      BY <1>2, <1>3, <3>1 DEF Again!Counted, Again!IsLast
    <3>3. CASE ahead.file # 0
      <4>1. ahead = c /\ ~Before(<<c.file, 1>>, place)
        BY <2>1, <2>4, <3>3 DEF MailAhead, c
      <4>2. <<c.file, 1>> \in UnitPlaces
        BY <1>3, <3>1, FilesType, <1>1 DEF UnitPlaces
      <4>3. CASE Again!OtherFile(place)
        <5>1. Before(place, <<c.file, 1>>)
          BY <1>2, <1>3, <4>1, <4>3 DEF Again!OtherFile, Before
        <5>2. ~Before(<<c.file, 1>>, next)
          BY <1>4, <4>2, <5>1
        <5> QED
          BY <2>3, <3>1, <4>1, <4>3, <5>2
      <4>4. CASE ~Again!OtherFile(place)
        <5>1. place[1] = c.file /\ place[2] = 1
          BY <1>2, <1>3, <3>3, <4>1, <4>4 DEF Again!OtherFile, Before
        <5>2. ahead'.file = 0 /\ next[1] >= c.file
          BY <1>2, <1>4, <2>3, <4>4, <5>1
        <5>3. CASE c.index = 0
          <6>1. ahead'.index = 0
            BY <2>3, <4>1, <4>4, <5>3
          <6>2. next[1] = c.file => next[2] > 0
            BY <1>2, <1>4, <5>1
          <6> QED
            BY <2>6, <5>2, <5>3, <6>1, <6>2
        <5>4. CASE c.index # 0
          <6>1. Again!Counted(place) /\ ~Again!IsLast(place) /\ Again!PassedOver(place)
            BY <1>3, <2>2, <3>2, <4>1, <5>1, <5>4
          <6>2. ahead'.index = c.index /\ next = <<c.file, 2>>
            BY <1>4, <2>3, <4>1, <4>4, <5>1, <6>1
          <6>3. next[1] = c.file /\ next[2] <= c.index + 1
            BY <1>3, <5>4, <6>2
          <6> QED
            BY <2>6, <5>2, <5>4, <6>2, <6>3
        <5> QED
          BY <5>3, <5>4
      <4> QED
        BY <4>3, <4>4
    <3>4. CASE ahead.file = 0
      <4>1. ~Again!OtherFile(place) /\ ahead'.file = 0 /\ place[1] >= c.file
        BY <2>1, <2>3, <2>4, <2>6, <3>4 DEF Again!OtherFile, MailAhead, c
      <4>2. next[1] >= c.file
        BY <1>2, <1>3, <1>4, <4>1
      <4>3. ahead'.index = IF Again!Counted(place) /\ ~Again!PassedOver(place) THEN 0 ELSE ahead.index
        BY <2>3, <4>1
      <4>4. CASE ahead.index = 0
        <5>1. place[1] = c.file => place[2] > c.index
          BY <1>2, <1>3, <2>1, <2>4, <2>6, <3>4, <4>4 DEF MailAhead, c
        <5>2. next[1] = c.file => next[2] > c.index
          BY <1>2, <1>3, <1>4, <4>1, <5>1
        <5> QED
          BY <4>1, <4>2, <4>3, <4>4, <5>2, <2>6
      <4>5. CASE ahead.index # 0
        <5>1. /\ ahead.index = c.index /\ c.index # 0
              /\ IF place[1] = c.file THEN place[2] <= c.index + 1 ELSE Again!Mbox(c.file) /\ Again!IsLast(Target)
          BY <2>1, <2>4, <2>6, <3>4, <4>5 DEF MailAhead, c
        <5>2. CASE place[1] = c.file /\ place[2] - 1 < c.index
          <6>1. ahead'.index = c.index /\ next = <<c.file, place[2] + 1>>
            BY <1>4, <2>2, <3>2, <4>3, <5>1, <5>2
          <6>2. next[1] = c.file /\ next[2] <= c.index + 1
            BY <1>2, <1>3, <5>2, <6>1
          <6> QED
            BY <2>6, <4>1, <4>2, <5>1, <6>1, <6>2
        <5>3. CASE place[1] = c.file /\ ~(place[2] - 1 < c.index)
          <6>1. place = Target /\ ~Again!PassedOver(place) /\ Again!Mbox(c.file)
            BY <1>2, <1>3, <1>7, <2>2, <3>1, <4>1, <5>1, <5>3
          <6>2. CASE Again!Counted(place)
            <7>1. ahead'.index = 0 /\ (next[1] = c.file => next[2] > c.index)
              BY <1>2, <1>3, <1>4, <4>3, <5>3, <6>1, <6>2
            <7> QED
              BY <2>6, <4>1, <4>2, <7>1
          <6>3. CASE ~Again!Counted(place)
            <7>1. Again!IsLast(Target) /\ ahead'.index = c.index /\ next[1] # c.file
              BY <1>2, <1>3, <1>4, <4>3, <5>1, <5>3, <6>1, <6>3 DEF Again!Counted
            <7> QED
              BY <2>6, <4>1, <4>2, <5>1, <6>1, <7>1
          <6> QED
            BY <6>2, <6>3
        <5>4. CASE place[1] # c.file
          <6>1. next[1] # c.file /\ ahead'.index \in {0, c.index}
            BY <1>2, <1>3, <1>4, <4>1, <4>3, <5>1, <5>4
          <6> QED
            BY <2>6, <4>1, <4>2, <5>1, <5>4, <6>1
        <5> QED
          BY <5>2, <5>3, <5>4
      <4> QED
        BY <4>4, <4>5
    <3> QED
      BY <3>3, <3>4
  <2> QED
    BY <2>5, <2>6
<1> QED
  BY <1>6, <1>8, <1>9, <1>10 DEF AheadInv

-----------------------------------------------------------------------------

LEMMA MistakesStay ==
  ASSUME UNCHANGED archive, ReaderTypes,
         resumed' = resumed \/ \E c \in Checkpoints : resumed' = Append(resumed, c)
  PROVE  \A p : Again!Mistaken(p) => Again!Mistaken(p)'
<1>1. DOMAIN resumed \subseteq DOMAIN resumed' /\ \A n \in DOMAIN resumed : resumed'[n] = resumed[n]
  <2>1. CASE resumed' = resumed
    BY <2>1
  <2>2. CASE \E c \in Checkpoints : resumed' = Append(resumed, c)
    BY <2>2 DEF ReaderTypes
  <2> QED
    BY <2>1, <2>2
<1> SUFFICES ASSUME NEW p, Again!Mistaken(p) PROVE Again!Mistaken(p)'
  OBVIOUS
<1>2. PICK n \in DOMAIN resumed :
        /\ resumed[n].file \in 1..(p[1] - 1) /\ Again!Mbox(resumed[n].file)
        /\ Again!IsLast(<<resumed[n].file, resumed[n].index + 1>>) /\ p[2] - 1 < resumed[n].index
  BY DEF Again!Mistaken
<1>3. n \in DOMAIN resumed' /\ resumed'[n] = resumed[n]
  BY <1>1
<1> QED
  BY <1>2, <1>3, ReadFrame
    DEF Again!Mistaken, Again!Counted, Again!Mbox, Again!IsLast, Again!Units, Again!Files

LEMMA ReadersInvInit == ASSUME Again!ReadersAssumption PROVE Again!Init => ReadersInv
<1> SUFFICES ASSUME Again!Init PROVE ReadersInv
  OBVIOUS
<1>1. archive \in Archives /\ Len(Again!Files) \in Nat
  BY FilesType DEF Again!Init
<1>2. /\ place = Again!FirstFrom(1) /\ place \in UnitPlaces \cup {EndPlace}
      /\ \A q \in UnitPlaces : ~Before(q, place)
  <2>1. 1 \in 1..(Len(Again!Files) + 1) /\ \A q \in UnitPlaces : q[1] >= 1
    BY <1>1, PlacesType
  <2> QED
    BY <1>1, <2>1, FirstFromType DEF Again!Init
<1>3. Again!Places \subseteq UnitPlaces
  BY <1>1, PlacesType
<1>4. Current = Again!NoCheckpoint
  BY DEF Again!Init, Current
<1>5. ReaderTypes
  BY <1>2 DEF Again!Init, ReaderTypes, Checkpoints, Again!NoCheckpoint, Again!ReadersAssumption
<1>6. AheadInv
  BY <1>4 DEF Again!Init, AheadInv, OneFileAhead, PhotosAhead, MailAhead, Again!NoCheckpoint
<1>7. \A p \in Again!Places : ~Covered(Again!NoCheckpoint, p)
  <2>1. \A p \in Again!Places : p[1] \in Nat /\ p[2] \in Nat /\ p[2] >= 1
    BY <1>1, <1>3, PlacesType
  <2> QED
    BY <2>1 DEF Covered, Again!Precedes, Again!NoCheckpoint
<1> QED
  BY <1>2, <1>3, <1>4, <1>5, <1>6, <1>7
    DEF Again!Init, ReadersInv, ReadInv, QueueInv, CheckpointsInv, NotSentAgain

LEMMA ReadKeeps ==
  ASSUME Again!ReadersAssumption, ReadersInv, Again!Read
  PROVE  ReadersInv'
<1>1. /\ archive \in Archives /\ reader = "reading" /\ place \in UnitPlaces /\ place' = Again!Following(place)
      /\ queue \in Seq(Again!Places) /\ Len(queue) \in Nat /\ DOMAIN queue = 1..Len(queue) /\ Len(queue) < QueueSize
      /\ UNCHANGED <<archive, reader, stored, saved, resumed>>
  BY PlacesType DEF ReadersInv, ReaderTypes, Again!Read, Again!AtEnd
<1>2. /\ place' \in UnitPlaces \cup {EndPlace}
      /\ \A q \in UnitPlaces : Before(q, place') => Before(q, place) \/ q = place
  BY <1>1, FollowingType
<1>3. Again!Places = {p \in UnitPlaces : Again!Units(p[1])[p[2]]}
  BY <1>1, PlacesType
<1>4. /\ \A p : Done(p)' <=> Done(p)
      /\ Current' = Current /\ Again!Files' = Again!Files /\ Again!Places' = Again!Places /\ UnitPlaces' = UnitPlaces
      /\ EndPlace' = EndPlace /\ Checkpoints' = Checkpoints
      /\ \A c, p : Covered(c, p)' <=> Covered(c, p)
  BY <1>1, ReadFrame
    DEF Done, Again!Mistaken, Current, Again!NoCheckpoint, Again!Counted, Again!Mbox, Again!IsLast,
        Again!Units, Again!Files
<1>5. /\ Again!PassedOver(place) => Covered(Current, place) \/ Again!Mistaken(place)
      /\ ~Again!PassedOver(place) => ~Again!Precedes(place, Current)
  BY <1>1, PassingIsSound DEF ReadersInv
<1>6. AheadInv' /\ ahead' \in [file : Nat, index : Nat]
  BY ReadKeepsAhead DEF ReadersInv
<1>7. CASE ~Again!PassedOver(place) /\ Again!Units(place[1])[place[2]]
  <2>1. queue' = Append(queue, place) /\ place \in Again!Places
    BY <1>1, <1>3, <1>7 DEF Again!Read
  <2>2. /\ queue' \in Seq(Again!Places) /\ Len(queue') = Len(queue) + 1 /\ DOMAIN queue' = 1..(Len(queue) + 1)
        /\ \A n \in DOMAIN queue : queue'[n] = queue[n]
        /\ queue'[Len(queue) + 1] = place
    BY <1>1, <2>1
  <2>3. ReaderTypes'
    BY <1>1, <1>2, <1>4, <1>6, <2>2 DEF ReadersInv, ReaderTypes, Again!ReadersAssumption
  <2>4. \A p : \A n \in 1..(Len(queue) + 1) : Queued(p, n) => Queued(p, n)'
    BY <1>1, <2>2 DEF Queued
  <2>5. ReadInv'
    <3>1. ASSUME NEW p \in Again!Places, Before(p, place') PROVE Done(p) \/ Queued(p, Len(queue) + 1)'
      <4>1. CASE p = place
        BY <1>1, <2>2, <4>1 DEF Queued
      <4>2. CASE Before(p, place)
        <5>1. Done(p) \/ Queued(p, Len(queue) + 1)
          BY <1>1, <4>2 DEF ReadersInv, ReadInv
        <5> QED
          BY <1>1, <2>2, <5>1 DEF Queued
      <4> QED
        BY <1>2, <1>3, <3>1, <4>1, <4>2
    <3> QED
      BY <1>1, <1>4, <3>1 DEF ReadInv, Before
  <2>6. QueueInv'
    <3>1. ASSUME NEW n \in DOMAIN queue', NEW p \in Again!Places, Before(p, queue'[n])
          PROVE  Done(p) \/ Queued(p, n)'
      <4>1. CASE n \in DOMAIN queue
        BY <1>1, <2>2, <2>4, <3>1, <4>1 DEF ReadersInv, QueueInv
      <4>2. CASE n = Len(queue) + 1
        BY <1>1, <2>2, <2>4, <3>1, <4>2 DEF ReadersInv, ReadInv
      <4> QED
        BY <1>1, <2>2, <4>1, <4>2
    <3> QED
      BY <1>4, <3>1 DEF QueueInv, Before
  <2>7. NotSentAgain'
    BY <1>1, <1>4, <1>5, <1>7, <2>2 DEF ReadersInv, NotSentAgain, Again!Precedes
  <2> QED
    BY <1>1, <1>4, <1>6, <2>3, <2>5, <2>6, <2>7 DEF ReadersInv, CheckpointsInv
<1>8. CASE Again!PassedOver(place) \/ ~Again!Units(place[1])[place[2]]
  <2>1. queue' = queue
    BY <1>8 DEF Again!Read
  <2>2. ReaderTypes'
    BY <1>1, <1>2, <1>4, <1>6, <2>1 DEF ReadersInv, ReaderTypes
  <2>3. place \in Again!Places => Done(place)
    <3>1. place \in Again!Places => Covered(Current, place) \/ Again!Mistaken(place)
      BY <1>3, <1>5, <1>8
    <3> QED
      BY <3>1 DEF ReadersInv, CheckpointsInv, Done
  <2>4. ReadInv'
    <3>1. ASSUME NEW p \in Again!Places, Before(p, place') PROVE Done(p) \/ Queued(p, Len(queue) + 1)
      BY <1>1, <1>2, <1>3, <2>3, <3>1 DEF ReadersInv, ReadInv
    <3> QED
      BY <1>4, <2>1, <3>1 DEF ReadInv, Before, Queued
  <2>5. QueueInv' /\ NotSentAgain'
    BY <1>4, <2>1 DEF ReadersInv, QueueInv, NotSentAgain, Before, Queued, Again!Precedes
  <2> QED
    BY <1>1, <1>4, <1>6, <2>2, <2>4, <2>5 DEF ReadersInv, CheckpointsInv
<1> QED
  BY <1>7, <1>8

LEMMA StoreKeeps ==
  ASSUME Again!ReadersAssumption, ReadersInv, Again!Store
  PROVE  ReadersInv'
<1> DEFINE q == Head(queue)
<1>1. /\ archive \in Archives /\ reader = "reading" /\ queue # <<>> /\ queue \in Seq(Again!Places)
      /\ Len(queue) \in Nat /\ DOMAIN queue = 1..Len(queue) /\ Len(queue) >= 1
      /\ q \in Again!Places /\ q = queue[1]
      /\ UNCHANGED <<archive, reader, place, ahead, resumed>>
      /\ stored' = stored \cup {q} /\ saved' \in {saved, Again!CheckpointOf(q)}
  BY DEF ReadersInv, ReaderTypes, Again!Store
<1>2. /\ queue' = Tail(queue) /\ queue' \in Seq(Again!Places) /\ Len(queue') = Len(queue) - 1
      /\ DOMAIN queue' = 1..(Len(queue) - 1) /\ \A n \in DOMAIN queue' : queue'[n] = queue[n + 1]
  BY <1>1 DEF Again!Store
<1> HIDE DEF q
<1>3. /\ \A p : Done(p)' <=> Done(p) \/ p = q
      /\ Current' = Current /\ Again!Files' = Again!Files /\ Again!Places' = Again!Places /\ UnitPlaces' = UnitPlaces
      /\ EndPlace' = EndPlace /\ Checkpoints' = Checkpoints
      /\ \A c, p : Covered(c, p)' <=> Covered(c, p)
  BY <1>1, ReadFrame
    DEF Done, Again!Mistaken, Current, Again!NoCheckpoint, Again!Counted, Again!Mbox, Again!IsLast,
        Again!Units, Again!Files
<1>4. \A p : \A n \in 1..(Len(queue) + 1) : Queued(p, n) => p = q \/ Queued(p, n - 1)'
  <2> SUFFICES ASSUME NEW p, NEW n \in 1..(Len(queue) + 1), Queued(p, n), p # q PROVE Queued(p, n - 1)'
    OBVIOUS
  <2>1. PICK m \in DOMAIN queue : m < n /\ queue[m] = p
    BY DEF Queued
  <2>2. m - 1 \in DOMAIN queue' /\ queue'[m - 1] = p /\ m - 1 < n - 1
    BY <1>1, <1>2, <2>1
  <2> QED
    BY <2>2 DEF Queued
<1>5. ReaderTypes'
  <2>1. saved' \in Checkpoints
    BY <1>1 DEF ReadersInv, ReaderTypes, Checkpoints
  <2>2. Len(queue') <= QueueSize
    BY <1>1, <1>2 DEF ReadersInv, ReaderTypes, Again!ReadersAssumption
  <2> QED
    BY <1>1, <1>2, <1>3, <2>1, <2>2 DEF ReadersInv, ReaderTypes
<1>6. AheadInv'
  BY <1>1, <1>3, ReadFrame
    DEF ReadersInv, AheadInv, OneFileAhead, PhotosAhead, MailAhead, Before, Target, Again!NoCheckpoint
<1>7. ReadInv'
  <2>1. Len(queue) + 1 \in 1..(Len(queue) + 1) /\ Len(queue') + 1 = (Len(queue) + 1) - 1
    BY <1>1, <1>2
  <2>2. ASSUME NEW p \in Again!Places, Before(p, place) PROVE Done(p) \/ p = q \/ Queued(p, Len(queue) + 1)'
    <3>1. Done(p) \/ Queued(p, Len(queue) + 1)
      BY <1>1, <2>2 DEF ReadersInv, ReadInv
    <3>2. ASSUME NEW n, n = Len(queue) + 1, Queued(p, n), p # q PROVE Queued(p, Len(queue) + 1)'
      <4>1. Queued(p, n - 1)' /\ n - 1 = Len(queue') + 1
        BY <1>4, <2>1, <3>2
      <4> QED
        BY <4>1 DEF Queued
    <3> QED
      BY <3>1, <3>2
  <2> QED
    BY <1>1, <1>3, <2>2 DEF ReadInv, Before
<1>8. QueueInv'
  <2>1. ASSUME NEW n \in DOMAIN queue', NEW p \in Again!Places, Before(p, queue'[n])
        PROVE  Done(p) \/ p = q \/ Queued(p, n)'
    <3>1. n + 1 \in DOMAIN queue /\ queue'[n] = queue[n + 1] /\ (n + 1) - 1 = n
      BY <1>1, <1>2
    <3>2. Done(p) \/ Queued(p, n + 1)
      BY <2>1, <3>1 DEF ReadersInv, QueueInv
    <3>3. n + 1 \in 1..(Len(queue) + 1)
      BY <1>1, <3>1
    <3> QED
      BY <1>4, <3>1, <3>2, <3>3
  <2> QED
    BY <1>3, <2>1 DEF QueueInv, Before
<1>9. CheckpointsInv'
  <2>1. ASSUME NEW p \in Again!Places, Covered(Again!CheckpointOf(q), p) PROVE Done(p) \/ p = q
    <3>1. Before(p, q) \/ p = q
      BY <1>1, <2>1, CoveredIsBefore
    <3>2. Before(p, q) => Done(p)
      <4>1. 1 \in DOMAIN queue
        BY <1>1
      <4>2. ~Queued(p, 1)
        BY <1>1 DEF Queued
      <4> QED
        BY <1>1, <4>1, <4>2 DEF ReadersInv, QueueInv
    <3> QED
      BY <3>1, <3>2
  <2> QED
    BY <1>1, <1>3, <2>1 DEF ReadersInv, CheckpointsInv
<1>10. NotSentAgain'
  <2>1. \A n \in DOMAIN queue' : n + 1 \in DOMAIN queue
    BY <1>1, <1>2
  <2> QED
    BY <1>2, <1>3, <2>1 DEF ReadersInv, NotSentAgain, Again!Precedes
<1> QED
  BY <1>5, <1>6, <1>7, <1>8, <1>9, <1>10 DEF ReadersInv

LEMMA ReadersInvNext == ASSUME Again!ReadersAssumption PROVE ReadersInv /\ [Again!Next]_(Again!vars) => ReadersInv'
<1> SUFFICES ASSUME ReadersInv, [Again!Next]_(Again!vars) PROVE ReadersInv'
  OBVIOUS
<1> USE DEF ReadersInv
<1>1. ASSUME UNCHANGED archive
      PROVE  /\ Again!Files' = Again!Files /\ Again!Places' = Again!Places /\ UnitPlaces' = UnitPlaces /\ EndPlace' = EndPlace
             /\ Checkpoints' = Checkpoints /\ Again!NoCheckpoint' = Again!NoCheckpoint
             /\ \A c, p : Covered(c, p)' <=> Covered(c, p)
             /\ \A p : Again!IsLast(p)' = Again!IsLast(p)
             /\ \A f : Again!Mbox(f)' = Again!Mbox(f)
  BY <1>1, ReadFrame DEF Again!NoCheckpoint
<1>2. CASE Again!Read
  BY <1>2, ReadKeeps
<1>3. CASE Again!Store
  BY <1>3, StoreKeeps
<1>4. CASE Again!Finish \/ UNCHANGED Again!vars
  <2>1. UNCHANGED <<archive, place, ahead, queue, stored, saved, resumed>>
    BY <1>4 DEF Again!Finish, Again!vars
  <2>2. /\ \A p : Done(p)' <=> Done(p)
        /\ \A p, n : Queued(p, n)' <=> Queued(p, n)
        /\ Current' = Current /\ Target' = Target /\ Again!AtEnd' = Again!AtEnd
    BY <1>1, <2>1
     
        DEF Done, Again!Mistaken, Queued, Current, Target, Again!AtEnd, Again!NoCheckpoint, Again!Counted,
            Again!Mbox, Again!IsLast, Again!Units, Again!Files
  <2>3. ReaderTypes'
    BY <1>1, <1>4, <2>1, <2>2 DEF ReaderTypes, Again!Finish, Again!vars
  <2>4. reader' = "reading" => reader = "reading"
    BY <1>4 DEF Again!Finish, Again!vars
  <2>5. AheadInv'
    BY <1>1, <2>1, <2>2, <2>4 DEF AheadInv, OneFileAhead, PhotosAhead, MailAhead, Before
  <2>6. reader' # "stopped" => reader # "stopped"
    BY <1>4 DEF Again!Finish, Again!vars
  <2>7. ReadInv' /\ QueueInv'
    BY <1>1, <2>1, <2>2, <2>6 DEF ReadInv, QueueInv, Before
  <2> QED
    BY <1>1, <2>1, <2>2, <2>3, <2>5, <2>7 DEF CheckpointsInv, NotSentAgain, Again!Precedes
<1>5. CASE Again!Stop
  <2>1. UNCHANGED <<archive, place, ahead, stored, saved, resumed>> /\ queue' = <<>> /\ reader' = "stopped"
    BY <1>5 DEF Again!Stop
  <2>2. /\ \A p : Done(p)' <=> Done(p)
        /\ Current' = Current
    BY <1>1, <2>1
      DEF Done, Again!Mistaken, Current, Again!NoCheckpoint, Again!Counted, Again!Mbox, Again!IsLast,
          Again!Units, Again!Files
  <2>3. ReaderTypes'
    BY <1>1, <2>1 DEF ReaderTypes, Again!ReadersAssumption
  <2> QED
    BY <1>1, <2>1, <2>2, <2>3 DEF AheadInv, ReadInv, QueueInv, CheckpointsInv, NotSentAgain
<1>6. CASE Again!Resume
  <2>1. /\ UNCHANGED <<archive, queue, stored, saved>> /\ queue = <<>> /\ reader' = "reading"
        /\ place' = Again!FirstFrom(1) /\ ahead' = saved /\ resumed' = Append(resumed, saved)
        /\ saved \in Checkpoints /\ archive \in Archives /\ resumed \in Seq(Checkpoints)
    BY <1>6 DEF Again!Resume, ReaderTypes
  <2>2. Current' = saved
    BY <2>1 DEF Current
  <2>3. /\ place' \in UnitPlaces \cup {EndPlace} /\ place'[2] = 1 /\ place'[1] \in Nat
        /\ \A q \in UnitPlaces : ~Before(q, place')
    <3>1. 1 \in 1..(Len(Again!Files) + 1) /\ \A q \in UnitPlaces : q[1] >= 1
      BY <2>1, FilesType, PlacesType
    <3> QED
      BY <2>1, <3>1, FirstFromType
  <2>4. \A p : Done(p) => Done(p)'
    BY <2>1, MistakesStay DEF Done
  <2>5. /\ saved \in [file : Nat, index : Nat]
        /\ archive.kind \in {"mail", "photos"} /\ saved # Again!NoCheckpoint =>
             saved.file # 0 /\ <<saved.file, saved.index + 1>> \in UnitPlaces
        /\ archive.kind \in {"mail", "photos"} /\ saved # Again!NoCheckpoint => <<saved.file, 1>> \in UnitPlaces
    <3>1. /\ saved \in [file : Nat, index : Nat] /\ saved.file \in Nat
          /\ archive.kind \in {"mail", "photos"} /\ saved # Again!NoCheckpoint =>
               /\ saved.file # 0 /\ <<saved.file, saved.index + 1>> \in UnitPlaces
               /\ saved.file \in DOMAIN Again!Files
      BY <2>1, CheckpointType
    <3>2. ASSUME <<saved.file, saved.index + 1>> \in UnitPlaces, saved.file \in DOMAIN Again!Files
          PROVE  <<saved.file, 1>> \in UnitPlaces
      BY <2>1, <3>1, <3>2, FilesType DEF UnitPlaces
    <3> QED
      BY <3>1, <3>2
  <2>6. ReaderTypes'
    <3>1. resumed' \in Seq(Checkpoints)
      BY <2>1
    <3> QED
      BY <1>1, <2>1, <2>3, <2>5, <3>1 DEF ReaderTypes
  <2>7. AheadInv'
    <3>1. Target' = <<saved.file, saved.index + 1>>
      BY <2>2 DEF Target
    <3>2. Again!NoCheckpoint.file = 0
      BY DEF Again!NoCheckpoint
    <3>3. OneFileAhead' /\ PhotosAhead'
      BY <1>1, <2>1, <2>2, <2>3, <2>5, <3>1 DEF OneFileAhead, PhotosAhead, Before
    <3>4. MailAhead'
      BY <1>1, <2>1, <2>2, <2>3, <2>5, <3>2 DEF MailAhead, Before
    <3> QED
      BY <3>3, <3>4 DEF AheadInv
  <2>8. ReadInv'
    <3>1. Again!Places \subseteq UnitPlaces
      BY <2>1, PlacesType
    <3> QED
      BY <1>1, <2>1, <2>3, <3>1 DEF ReadInv, Before
  <2>9. CheckpointsInv'
    BY <1>1, <2>1, <2>2, <2>4 DEF CheckpointsInv
  <2> QED
    BY <2>1, <2>6, <2>7, <2>8, <2>9 DEF QueueInv, NotSentAgain
<1> QED
  BY <1>2, <1>3, <1>4, <1>5, <1>6 DEF Again!Next

LEMMA ReadersInvHolds == ASSUME Again!ReadersAssumption PROVE Again!Spec => []ReadersInv
BY ReadersInvInit, ReadersInvNext, PTL DEF Again!Spec

-----------------------------------------------------------------------------

(* "clear checkpoint so we don't skip remaining messages" (email.go:178):   *)
(* however often an import is interrupted, and whatever the checkpoint was, *)
(* one that finishes has stored all that become graphs but those that       *)
(* email.go is mistaken about, and what precedes the checkpoint is not sent *)
(* again.                                                                   *)
THEOREM ResumingLosesNothing == ASSUME Again!ReadersAssumption PROVE Again!Spec => []Again!ResumesWhereItStopped
<1>1. ASSUME ReadersInv PROVE Again!ResumesWhereItStopped
  <2>1. ASSUME reader = "finished", NEW p \in Again!Places PROVE p \in stored \/ Again!Mistaken(p)
    <3>1. archive \in Archives /\ queue = <<>> /\ place = EndPlace
      BY <1>1, <2>1, PlacesType DEF ReadersInv, ReaderTypes, Again!AtEnd, UnitPlaces
    <3>2. Before(p, place)
      BY <3>1, PlacesType DEF Before
    <3>3. ~Queued(p, Len(queue) + 1)
      BY <3>1 DEF Queued
    <3> QED
      BY <1>1, <2>1, <3>2, <3>3 DEF ReadersInv, ReadInv, Done
  <2>2. resumed # <<>> => \A n \in DOMAIN queue : ~Again!Precedes(queue[n], resumed[Len(resumed)])
    BY <1>1 DEF ReadersInv, NotSentAgain, Current
  <2> QED
    BY <2>1, <2>2 DEF Again!ResumesWhereItStopped
<1> QED
  BY <1>1, ReadersInvHolds, PTL

(* Of sources that are not mailboxes nothing is lost at all.                *)
THEOREM OnlyMailIsPassedOver ==
  ASSUME Again!ReadersAssumption
  PROVE  Again!Spec => [](archive.kind # "mail" => Again!NoneIsPassedOver)
<1>1. Again!ResumesWhereItStopped => (archive.kind # "mail" => Again!NoneIsPassedOver)
  BY DEF Again!ResumesWhereItStopped, Again!NoneIsPassedOver, Again!Mistaken
<1> QED
  BY <1>1, ResumingLosesNothing, PTL

(* Types, and that the queue holds no more than it has room for.            *)
THEOREM ReadersAreTyped == ASSUME Again!ReadersAssumption PROVE Again!Spec => []Again!TypeOK
<1>1. ASSUME ReadersInv PROVE Again!TypeOK
  <2>1. \A n \in DOMAIN queue : queue[n] \in Again!Places
    BY <1>1 DEF ReadersInv, ReaderTypes
  <2> QED
    BY <1>1, <2>1 DEF ReadersInv, ReaderTypes, Again!TypeOK
<1> QED
  BY <1>1, ReadersInvHolds, PTL
=============================================================================
