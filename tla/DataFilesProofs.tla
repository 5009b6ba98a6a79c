--------------------------- MODULE DataFilesProofs ---------------------------
(***************************************************************************)
(* No file is lost: FilesAreKept and DownloadsAreKept of DataFiles, for any *)
(* batches, items, names, contents and deleters, and however many things go *)
(* wrong.                                                                   *)
(*                                                                         *)
(* The steps that store an item take a state of the transaction to another  *)
(* one.  Each of them leaves alone what others rely on, which is their      *)
(* downloads and what is to be deleted; keeps what rows say true; and every *)
(* file accounted for, but for the one or two it is about.                  *)
(***************************************************************************)
EXTENDS DataFiles, FiniteSetTheorems, TLAPS

-----------------------------------------------------------------------------
(* Types, in the form proofs need.                                          *)

Disk == UNION {[D -> Contents] : D \in SUBSET Names}
Table == UNION {[D -> Row] : D \in SUBSET RowIds}
Todo == UNION {[D -> Nat \ {0}] : D \in SUBSET Names}
Purge == [todo: Todo, done: SUBSET Names]
ItemState == [pc: {"idle", "copying", "ready", "done"}, path: Names \cup {None},
              hash: Hashes \cup {None}]
TxState == [d: Disk, t: Table, path: Names \cup {None}, intended: Bases, gone: SUBSET Names,
            faults: 0..MaxFaults, torn: SUBSET Names, strays: SUBSET Names]

(* The names of rows.                                                       *)
RowNames == Bases \cup {None, ""}

Typed ==
  /\ disk \in Disk
  /\ rows \in Table /\ work \in Table
  /\ writer \in Jobs \cup {None}
  /\ next \in Nat
  /\ touched \in SUBSET Names
  /\ item \in [Items -> ItemState]
  /\ purge \in [Deleters -> Purge]
  /\ faults \in 0..MaxFaults
  /\ torn \in SUBSET Names
  /\ strays \in SUBSET Names

-----------------------------------------------------------------------------
(* The parts of the inductive invariant.                                    *)

(* An item that has a file: one that is being downloaded or was.            *)
Own(i) == item[i].path # None /\ (item[i].pc = "copying" \/ item[i].hash # None)

(* What a deleter deletes for the first time.                               *)
Doomed(u) == BagToSet(purge[u].todo) \ purge[u].done

(* The rows of a table that do not concern excused names tell the truth.    *)
True(t, d, excused) ==
  \A r \in Present(t) :
    t[r].file \notin {None} \cup excused => t[r].file \in DOMAIN d /\ d[t[r].file] = t[r].hash

(* The stages of an item.                                                   *)
ItemsAreStaged ==
  \A i \in Items :
    /\ item[i].pc \in {"idle", "done"} => item[i].path = None
    /\ item[i].pc = "copying" => item[i].path # None /\ item[i].hash = None /\ ItemInfo[i].hash # None
    /\ item[i].path = None => item[i].hash = None

BatchIsReady ==
  /\ writer = None => work = NoTable /\ touched = {}
  /\ writer # None =>
       \A m \in DOMAIN Batches[writer] : m >= next => item[Batches[writer][m]].pc = "ready"

FilesHaveHashes ==
  /\ \A r \in Present(rows) : rows[r].file = None <=> rows[r].hash = None
  /\ \A r \in Present(work) : work[r].file = None <=> work[r].hash = None

(* Both tables are true: the committed one but for what the transaction has *)
(* touched.                                                                 *)
TablesAreTrue == True(rows, disk, torn \cup touched) /\ True(work, disk, torn)

(* No row has what is being downloaded or about to be deleted.              *)
Unclaimed(n) ==
  n \in DOMAIN disk /\ Users(work, n) = {} /\ (n \notin touched => Users(rows, n) = {})
OwnAreFree == \A i \in Items : Own(i) /\ item[i].path \notin torn => Unclaimed(item[i].path)
DoomedAreFree == \A u \in Deleters : \A n \in Doomed(u) \ torn : Unclaimed(n)

(* Nor do two goroutines have it.                                           *)
OwnedOnce ==
  /\ OwnDownloads
  /\ \A i \in Items, u \in Deleters :
       Own(i) /\ item[i].path \in Doomed(u) => item[i].path \in torn
  /\ \A u, v \in Deleters : u # v => Doomed(u) \cap Doomed(v) \subseteq torn

OwnPaths == {item[i].path : i \in {k \in Items : Own(k)}}
ToDelete == UNION {BagToSet(purge[u].todo) : u \in Deleters}

Accounted ==
  \A n \in DOMAIN disk :
    Users(Truth, n) # {} \/ n \in OwnPaths \cup ToDelete \cup torn \cup strays

FilesInv ==
  /\ Typed
  /\ ItemsAreStaged
  /\ BatchIsReady
  /\ FilesHaveHashes
  /\ TablesAreTrue
  /\ SharedMeansEqual
  /\ OwnAreFree
  /\ DoomedAreFree
  /\ OwnedOnce
  /\ DownloadsAreSafe
  /\ Accounted

-----------------------------------------------------------------------------
(* Files and tables.                                                        *)

LEMMA DiskType ==
  ASSUME NEW d \in Disk
  PROVE  d \in [DOMAIN d -> Contents] /\ DOMAIN d \in SUBSET Names
BY DEF Disk

LEMMA MakeDisk ==
  ASSUME NEW D \in SUBSET Names, NEW d \in [D -> Contents]
  PROVE  d \in Disk /\ DOMAIN d = D
BY DEF Disk

LEMMA TableType ==
  ASSUME NEW t \in Table
  PROVE  t \in [DOMAIN t -> Row] /\ DOMAIN t \in SUBSET RowIds
BY DEF Table

LEMMA MakeTable ==
  ASSUME NEW D \in SUBSET RowIds, NEW t \in [D -> Row]
  PROVE  t \in Table /\ DOMAIN t = D
BY DEF Table

LEMMA WithFile ==
  ASSUME NEW d \in Disk, NEW n \in Names, NEW c \in Contents
  PROVE  /\ With(d, n, c) \in Disk
         /\ \A m : m \in DOMAIN With(d, n, c) <=> m \in DOMAIN d \/ m = n
         /\ With(d, n, c)[n] = c
         /\ \A m \in DOMAIN d : m # n => With(d, n, c)[m] = d[m]
<1>1. With(d, n, c) \in [DOMAIN d \cup {n} -> Contents]
  BY DiskType DEF With
<1>2. DOMAIN d \cup {n} \in SUBSET Names
  BY DiskType
<1>3. With(d, n, c) \in Disk /\ DOMAIN With(d, n, c) = DOMAIN d \cup {n}
  BY <1>1, <1>2, MakeDisk
<1> QED
  BY <1>3 DEF With

LEMMA WithoutFile ==
  ASSUME NEW d \in Disk, NEW n
  PROVE  /\ Without(d, n) \in Disk
         /\ \A m : m \in DOMAIN Without(d, n) <=> m \in DOMAIN d /\ m # n
         /\ \A m \in DOMAIN d : m # n => Without(d, n)[m] = d[m]
<1>1. Without(d, n) \in [DOMAIN d \ {n} -> Contents]
  BY DiskType DEF Without
<1>2. DOMAIN d \ {n} \in SUBSET Names
  BY DiskType
<1>3. Without(d, n) \in Disk /\ DOMAIN Without(d, n) = DOMAIN d \ {n}
  BY <1>1, <1>2, MakeDisk
<1> QED
  BY <1>3 DEF Without

LEMMA RenamedFile ==
  ASSUME NEW d \in Disk, NEW old \in Names, NEW new \in Names, old \in DOMAIN d, old # new
  PROVE  /\ Renamed(d, old, new) \in Disk
         /\ \A m : m \in DOMAIN Renamed(d, old, new) <=> m # old /\ (m \in DOMAIN d \/ m = new)
         /\ Renamed(d, old, new)[new] = d[old]
         /\ \A m \in DOMAIN d : m # old /\ m # new => Renamed(d, old, new)[m] = d[m]
<1>1. d[old] \in Contents
  BY DiskType
<1> DEFINE e == With(d, new, d[old])
<1>2. /\ e \in Disk /\ e[new] = d[old]
      /\ \A m : m \in DOMAIN e <=> m \in DOMAIN d \/ m = new
      /\ \A m \in DOMAIN d : m # new => e[m] = d[m]
  BY <1>1, WithFile
<1>3. Renamed(d, old, new) = Without(e, old)
  BY DEF Renamed, Exists
<1> HIDE DEF e
<1>4. /\ Without(e, old) \in Disk
      /\ \A m : m \in DOMAIN Without(e, old) <=> m \in DOMAIN e /\ m # old
      /\ \A m \in DOMAIN e : m # old => Without(e, old)[m] = e[m]
  BY <1>2, WithoutFile
<1> QED
  BY <1>2, <1>3, <1>4

LEMMA WithRow ==
  ASSUME NEW t \in Table, NEW r \in RowIds, NEW x \in Row
  PROVE  /\ With(t, r, x) \in Table
         /\ \A q : q \in DOMAIN With(t, r, x) <=> q \in DOMAIN t \/ q = r
         /\ With(t, r, x)[r] = x
         /\ \A q \in DOMAIN t : q # r => With(t, r, x)[q] = t[q]
<1>1. With(t, r, x) \in [DOMAIN t \cup {r} -> Row]
  BY TableType DEF With
<1>2. DOMAIN t \cup {r} \in SUBSET RowIds
  BY TableType
<1>3. With(t, r, x) \in Table /\ DOMAIN With(t, r, x) = DOMAIN t \cup {r}
  BY <1>1, <1>2, MakeTable
<1> QED
  BY <1>3 DEF With

LEMMA RepointedRows ==
  ASSUME NEW t \in Table, NEW old \in Names, NEW new \in Names
  PROVE  /\ Repoint(t, old, new) \in Table
         /\ DOMAIN Repoint(t, old, new) = DOMAIN t
         /\ \A r \in DOMAIN t :
              /\ Repoint(t, old, new)[r].file = IF t[r].file = old THEN new ELSE t[r].file
              /\ Repoint(t, old, new)[r].hash = t[r].hash
              /\ Repoint(t, old, new)[r].base = t[r].base
              /\ Repoint(t, old, new)[r].erased = t[r].erased
<1>1. \A r \in DOMAIN t : t[r] \in Row
  BY TableType
<1>2. \A r \in DOMAIN t : [t[r] EXCEPT !.file = new] \in Row
  BY <1>1 DEF Row
<1>3. Repoint(t, old, new) \in [DOMAIN t -> Row]
  BY <1>1, <1>2 DEF Repoint, Present
<1>4. Repoint(t, old, new) \in Table /\ DOMAIN Repoint(t, old, new) = DOMAIN t
  BY <1>3, TableType, MakeTable
<1>5. ASSUME NEW r \in DOMAIN t
      PROVE  /\ Repoint(t, old, new)[r].file = IF t[r].file = old THEN new ELSE t[r].file
             /\ Repoint(t, old, new)[r].hash = t[r].hash
             /\ Repoint(t, old, new)[r].base = t[r].base
             /\ Repoint(t, old, new)[r].erased = t[r].erased
  BY <1>1 DEF Repoint, Present, Row
<1> QED
  BY <1>4, <1>5

-----------------------------------------------------------------------------
(* The steps that store item i.                                             *)

(* What others rely on, and all that others account for.                    *)
OtherPaths(i) == {item[k].path : k \in {x \in Items \ {i} : Own(x)}}
Relied(i) == OtherPaths(i) \cup UNION {Doomed(u) : u \in Deleters}
Others(i) == OtherPaths(i) \cup ToDelete

Spared(i, d, t, lost) ==
  \A n \in Relied(i) \ lost : n \in DOMAIN d /\ d[n] = disk[n] /\ Users(t, n) = {}

Sound(i, s) ==
  /\ s \in TxState
  /\ True(rows, s.d, s.torn \cup s.gone)
  /\ True(s.t, s.d, s.torn)
  /\ Spared(i, s.d, s.t, s.torn)
  /\ \A r \in Present(s.t) : s.t[r].file = None <=> s.t[r].hash = None
  /\ torn \subseteq s.torn /\ touched \subseteq s.gone

(* Files without a row are somebody else's, or those of X.                  *)
Known(i, s, X) ==
  \A n \in DOMAIN s.d : Users(s.t, n) # {} \/ n \in Others(i) \cup s.torn \cup s.strays \cup X

(* A name nobody else relies on.                                            *)
Safe(i, s, n) == n \in s.torn \/ n \notin Relied(i)
(* One that may be removed or written over.                                 *)
Disposable(i, s, n) == n \in s.torn \/ (n \notin Relied(i) /\ Users(s.t, n) = {})

LEMMA DeleteFields ==
  ASSUME NEW s \in TxState, NEW n \in Names
  PROVE  LET x == Delete(s, n) IN
         /\ x \in TxState
         /\ x.d = Without(s.d, n) /\ x.t = s.t /\ x.path = s.path /\ x.intended = s.intended
         /\ x.gone = s.gone \cup {n} /\ x.faults = s.faults /\ x.torn = s.torn
         /\ x.strays = s.strays
<1>1. Without(s.d, n) \in Disk
  BY WithoutFile DEF TxState
<1> QED
  BY <1>1 DEF Delete, TxState

LEMMA DeleteSound ==
  ASSUME NEW i \in Items, NEW s, Sound(i, s), NEW n \in Names, Disposable(i, s, n)
  PROVE  /\ Sound(i, Delete(s, n))
         /\ \A X : Known(i, s, X \cup {n}) => Known(i, Delete(s, n), X)
<1> DEFINE x == Delete(s, n)
<1>1. s \in TxState /\ s.d \in Disk
  BY DEF Sound, TxState
<1>2. /\ x \in TxState
      /\ x.d = Without(s.d, n) /\ x.t = s.t /\ x.gone = s.gone \cup {n} /\ x.torn = s.torn
      /\ x.strays = s.strays
  BY <1>1, DeleteFields
<1> HIDE DEF x
<1>3. /\ \A m : m \in DOMAIN x.d <=> m \in DOMAIN s.d /\ m # n
      /\ \A m \in DOMAIN s.d : m # n => x.d[m] = s.d[m]
  <2>1. /\ \A m : m \in DOMAIN Without(s.d, n) <=> m \in DOMAIN s.d /\ m # n
        /\ \A m \in DOMAIN s.d : m # n => Without(s.d, n)[m] = s.d[m]
    BY <1>1, WithoutFile
  <2> QED
    BY <1>2, <2>1
<1>4. True(rows, x.d, x.torn \cup x.gone)
  BY <1>2, <1>3 DEF Sound, True
<1>5. True(x.t, x.d, x.torn)
  BY <1>2, <1>3 DEF Sound, True, Disposable, Users
<1>6. Spared(i, x.d, x.t, x.torn)
  BY <1>2, <1>3 DEF Sound, Spared, Disposable
<1>7. Sound(i, x)
  BY <1>2, <1>4, <1>5, <1>6 DEF Sound
<1>8. ASSUME NEW X, Known(i, s, X \cup {n}) PROVE Known(i, x, X)
  BY <1>2, <1>3, <1>8 DEF Known
<1> QED
  BY <1>7, <1>8 DEF x

(* A file is renamed for all of its rows.                                   *)
Shifted(s, old, new) ==
  [Moved(s, old, new) EXCEPT !.t = Repoint(@, old, new), !.gone = @ \cup {old}]

LEMMA ShiftedFields ==
  ASSUME NEW s \in TxState, NEW old \in DOMAIN s.d, NEW new \in Names, old # new
  PROVE  LET x == Shifted(s, old, new) IN
         /\ x \in TxState
         /\ x.d = Renamed(s.d, old, new) /\ x.t = Repoint(s.t, old, new)
         /\ x.path = s.path /\ x.intended = s.intended /\ x.faults = s.faults
         /\ x.gone = s.gone \cup {old}
         /\ x.torn = IF old \in s.torn THEN s.torn \cup {new} ELSE s.torn
         /\ x.strays = s.strays
<1>1. s.d \in Disk /\ s.t \in Table
  BY DEF TxState
<1>2. old \in Names
  BY <1>1, DiskType
<1>3. Renamed(s.d, old, new) \in Disk /\ Repoint(s.t, old, new) \in Table
  BY <1>1, <1>2, RenamedFile, RepointedRows
<1> QED
  BY <1>2, <1>3 DEF Shifted, Moved, TxState

LEMMA ShiftedSound ==
  ASSUME NEW i \in Items, NEW s, Sound(i, s), NEW old \in DOMAIN s.d, NEW new \in Names,
         new \notin DOMAIN s.d, Safe(i, s, old)
  PROVE  /\ Sound(i, Shifted(s, old, new))
         /\ Users(s.t, old) # {} => \A X : Known(i, s, X) => Known(i, Shifted(s, old, new), X)
         /\ \A X : Known(i, s, X \cup {old}) => Known(i, Shifted(s, old, new), X \cup {new})
<1> SUFFICES ASSUME NEW x, x = Shifted(s, old, new)
             PROVE  /\ Sound(i, x)
                    /\ Users(s.t, old) # {} => \A X : Known(i, s, X) => Known(i, x, X)
                    /\ \A X : Known(i, s, X \cup {old}) => Known(i, x, X \cup {new})
  OBVIOUS
<1>1. s \in TxState /\ s.d \in Disk /\ s.t \in Table /\ old # new /\ old \in Names
  BY DiskType DEF Sound, TxState
<1>2. /\ x \in TxState
      /\ x.d = Renamed(s.d, old, new) /\ x.t = Repoint(s.t, old, new)
      /\ x.gone = s.gone \cup {old}
      /\ x.torn = IF old \in s.torn THEN s.torn \cup {new} ELSE s.torn
      /\ x.strays = s.strays
  BY <1>1, ShiftedFields
<1>3. /\ \A m : m \in DOMAIN x.d <=> m # old /\ (m \in DOMAIN s.d \/ m = new)
      /\ x.d[new] = s.d[old]
      /\ \A m \in DOMAIN s.d : m # old /\ m # new => x.d[m] = s.d[m]
  <2>1. /\ \A m : m \in DOMAIN Renamed(s.d, old, new) <=> m # old /\ (m \in DOMAIN s.d \/ m = new)
        /\ Renamed(s.d, old, new)[new] = s.d[old]
        /\ \A m \in DOMAIN s.d : m # old /\ m # new => Renamed(s.d, old, new)[m] = s.d[m]
    BY <1>1, RenamedFile
  <2> QED
    BY <1>2, <2>1
<1>4. /\ DOMAIN x.t = DOMAIN s.t
      /\ \A r \in DOMAIN s.t : /\ x.t[r].file = IF s.t[r].file = old THEN new ELSE s.t[r].file
                               /\ x.t[r].hash = s.t[r].hash
  BY <1>1, <1>2, RepointedRows
<1>5. s.torn \subseteq x.torn /\ (old \in s.torn => new \in x.torn)
  BY <1>2
<1>6. new \notin Relied(i) \ s.torn
  BY DEF Sound, Spared
<1>7. True(rows, x.d, x.torn \cup x.gone)
  <2> SUFFICES ASSUME NEW r \in Present(rows), rows[r].file \notin {None} \cup x.torn \cup x.gone
               PROVE  rows[r].file \in DOMAIN x.d /\ x.d[rows[r].file] = rows[r].hash
    BY DEF True
  <2>1. rows[r].file \notin {None} \cup s.torn \cup s.gone \cup {old}
    BY <1>2, <1>5
  <2>2. rows[r].file \in DOMAIN s.d /\ s.d[rows[r].file] = rows[r].hash
    BY <2>1 DEF Sound, True
  <2> QED
    BY <1>3, <2>1, <2>2
<1>8. True(x.t, x.d, x.torn)
  <2> SUFFICES ASSUME NEW r \in Present(x.t), x.t[r].file \notin {None} \cup x.torn
               PROVE  x.t[r].file \in DOMAIN x.d /\ x.d[x.t[r].file] = x.t[r].hash
    BY DEF True
  <2>1. r \in DOMAIN s.t
    BY <1>4 DEF Present
  <2>2. CASE s.t[r].file = old
    <3>1. old \notin s.torn /\ old # None
      BY <1>1, <1>4, <1>5, <2>1, <2>2, FilesAssumption
    <3>2. s.d[old] = s.t[r].hash
      BY <2>1, <2>2, <3>1 DEF Sound, True, Present
    <3> QED
      BY <1>1, <1>3, <1>4, <2>1, <2>2, <3>2
  <2>3. CASE s.t[r].file # old
    <3>1. x.t[r].file = s.t[r].file /\ x.t[r].hash = s.t[r].hash /\ s.t[r].file \notin {None} \cup s.torn
      BY <1>4, <1>5, <2>1, <2>3
    <3>2. s.t[r].file \in DOMAIN s.d /\ s.d[s.t[r].file] = s.t[r].hash
      BY <2>1, <3>1 DEF Sound, True, Present
    <3> QED
      BY <1>3, <2>3, <3>1, <3>2
  <2> QED
    BY <2>2, <2>3
<1>9. Spared(i, x.d, x.t, x.torn)
  <2> SUFFICES ASSUME NEW n \in Relied(i) \ x.torn
               PROVE  n \in DOMAIN x.d /\ x.d[n] = disk[n] /\ Users(x.t, n) = {}
    BY DEF Spared
  <2>1. n \in DOMAIN s.d /\ s.d[n] = disk[n] /\ Users(s.t, n) = {}
    BY <1>5 DEF Sound, Spared
  <2>2. n # old /\ n # new
    BY <1>5, <1>6 DEF Safe
  <2> QED
    BY <1>3, <1>4, <2>1, <2>2 DEF Users, Present
<1>10. \A r \in Present(x.t) : x.t[r].file = None <=> x.t[r].hash = None
  BY <1>1, <1>4, FilesAssumption DEF Sound, Present
<1>11. Sound(i, x)
  BY <1>2, <1>5, <1>7, <1>8, <1>9, <1>10 DEF Sound
<1>12. \A n \in Names : Users(s.t, n) # {} /\ n # old => Users(x.t, n) # {}
  BY <1>4 DEF Users, Present
<1>13. Users(s.t, old) # {} => Users(x.t, new) # {}
  BY <1>4 DEF Users, Present
<1>14. DOMAIN s.d \subseteq Names
  BY <1>1, DiskType
<1>15. ASSUME NEW X, Users(s.t, old) # {}, Known(i, s, X) PROVE Known(i, x, X)
  BY <1>2, <1>3, <1>5, <1>12, <1>13, <1>14, <1>15 DEF Known
<1>16. ASSUME NEW X, Known(i, s, X \cup {old}) PROVE Known(i, x, X \cup {new})
  BY <1>2, <1>3, <1>5, <1>12, <1>13, <1>14, <1>16 DEF Known
<1> QED
  BY <1>11, <1>15, <1>16

(* A change that concerns neither files nor rows.                           *)
LEMMA AsideSound ==
  ASSUME NEW i \in Items, NEW s, Sound(i, s), NEW x \in TxState,
         x.d = s.d, x.t = s.t, x.gone = s.gone, s.torn \subseteq x.torn
  PROVE  /\ Sound(i, x)
         /\ s.strays \subseteq x.strays => \A X : Known(i, s, X) => Known(i, x, X)
<1>1. True(rows, x.d, x.torn \cup x.gone)
  BY DEF Sound, True
<1>2. True(x.t, x.d, x.torn)
  BY DEF Sound, True
<1>3. Spared(i, x.d, x.t, x.torn)
  BY DEF Sound, Spared
<1>4. Sound(i, x)
  BY <1>1, <1>2, <1>3 DEF Sound
<1>5. ASSUME s.strays \subseteq x.strays, NEW X, Known(i, s, X) PROVE Known(i, x, X)
  BY <1>5 DEF Known
<1> QED
  BY <1>4, <1>5

(* Files under names that were free.                                        *)
Added(s, H) ==
  [s EXCEPT !.d = [m \in DOMAIN @ \cup H |-> IF m \in H THEN "placeholder" ELSE @[m]],
            !.strays = @ \cup H]

LEMMA AddedFields ==
  ASSUME NEW s \in TxState, NEW H \in SUBSET Names
  PROVE  LET x == Added(s, H) IN
         /\ x \in TxState
         /\ x.t = s.t /\ x.path = s.path /\ x.intended = s.intended /\ x.gone = s.gone
         /\ x.faults = s.faults /\ x.torn = s.torn /\ x.strays = s.strays \cup H
         /\ \A m : m \in DOMAIN x.d <=> m \in DOMAIN s.d \/ m \in H
         /\ \A m \in DOMAIN s.d : m \notin H => x.d[m] = s.d[m]
<1> DEFINE d == [m \in DOMAIN s.d \cup H |-> IF m \in H THEN "placeholder" ELSE s.d[m]]
<1>1. s.d \in Disk /\ DOMAIN s.d \cup H \in SUBSET Names
  BY DiskType DEF TxState
<1>2. d \in [DOMAIN s.d \cup H -> Contents]
  BY <1>1, DiskType DEF Contents
<1>3. d \in Disk
  BY <1>1, <1>2, MakeDisk
<1>4. /\ \A m : m \in DOMAIN d <=> m \in DOMAIN s.d \/ m \in H
      /\ \A m \in DOMAIN s.d : m \notin H => d[m] = s.d[m]
  OBVIOUS
<1>5. Added(s, H) = [s EXCEPT !.d = d, !.strays = s.strays \cup H]
  BY DEF Added, TxState
<1> HIDE DEF d
<1> QED
  BY <1>3, <1>4, <1>5 DEF TxState

LEMMA AddedSound ==
  ASSUME NEW i \in Items, NEW s, Sound(i, s), NEW H \in SUBSET Names, H \cap DOMAIN s.d = {}
  PROVE  /\ Sound(i, Added(s, H))
         /\ \A X : Known(i, s, X) => Known(i, Added(s, H), X)
<1> DEFINE x == Added(s, H)
<1>1. s \in TxState
  BY DEF Sound
<1>2. /\ x \in TxState
      /\ x.t = s.t /\ x.gone = s.gone /\ x.torn = s.torn /\ x.strays = s.strays \cup H
      /\ \A m : m \in DOMAIN x.d <=> m \in DOMAIN s.d \/ m \in H
      /\ \A m \in DOMAIN s.d : m \notin H => x.d[m] = s.d[m]
  BY <1>1, AddedFields
<1> HIDE DEF x
<1>3. \A m \in DOMAIN s.d : m \in DOMAIN x.d /\ x.d[m] = s.d[m]
  BY <1>2
<1>4. True(rows, x.d, x.torn \cup x.gone)
  BY <1>2, <1>3 DEF Sound, True
<1>5. True(x.t, x.d, x.torn)
  BY <1>2, <1>3 DEF Sound, True
<1>6. Spared(i, x.d, x.t, x.torn)
  BY <1>2, <1>3 DEF Sound, Spared
<1>7. Sound(i, x)
  BY <1>2, <1>4, <1>5, <1>6 DEF Sound
<1>8. ASSUME NEW X, Known(i, s, X) PROVE Known(i, x, X)
  BY <1>2, <1>8 DEF Known
<1> QED
  BY <1>7, <1>8 DEF x

LEMMA UniqueIsFree ==
  ASSUME NEW d, NEW t, NEW base, NEW n \in Unique(d, t, base), n # None
  PROVE  n \in Names /\ n \notin DOMAIN d /\ Users(t, n) = {}
<1>1. n \in Free(d, base) \ Claimed(d, t, base)
  BY DEF Unique
<1> QED
  BY <1>1 DEF Free, Claimed, Exists

LEMMA PlaceholdersAreNew ==
  ASSUME NEW d, NEW t, NEW base
  PROVE  /\ Placeholders(d, t, base) \in SUBSET Names
         /\ Placeholders(d, t, base) \cap DOMAIN d = {}
         /\ \A n \in Placeholders(d, t, base) : Users(t, n) # {}
BY DEF Placeholders, Claimed, Free, Exists

(* What renameDataFile may do: nothing, leave a placeholder behind, rename. *)
LEMMA RenameFileCases ==
  ASSUME NEW s \in TxState, NEW old \in Names, NEW base \in Bases, NEW x \in RenameFile(s, old, base)
  PROVE  LET left == Added(s, Placeholders(s.d, s.t, base)) IN
         \/ x.s = left /\ x.name = old
         \/ \E new \in Names :
              /\ new \notin DOMAIN left.d
              /\ \/ x.s = Added(left, {new}) /\ x.name = old
                 \/ old \in DOMAIN left.d /\ x.s = Shifted(left, old, new) /\ x.name = new
<1> DEFINE H == Placeholders(s.d, s.t, base)
           d == [m \in DOMAIN s.d \cup H |-> IF m \in H THEN "placeholder" ELSE s.d[m]]
           left == [s EXCEPT !.d = d, !.strays = @ \cup H]
           more(new) == [left EXCEPT !.d = With(@, new, "placeholder"), !.strays = @ \cup {new}]
<1>1. left = Added(s, H)
  BY DEF Added, TxState
<1>2. left \in TxState /\ H \in SUBSET Names
  BY <1>1, PlaceholdersAreNew, AddedFields
<1>3. left.d = d
  BY DEF TxState
<1>4. ASSUME NEW new PROVE more(new) = Added(left, {new})
  <2>1. With(left.d, new, "placeholder") =
          [m \in DOMAIN left.d \cup {new} |-> IF m \in {new} THEN "placeholder" ELSE left.d[m]]
    BY DEF With
  <2> HIDE DEF left
  <2> QED
    BY <1>2, <2>1 DEF Added, TxState
<1>5. PICK new \in Unique(s.d, s.t, base) :
        x = IF new = None THEN [s |-> left, name |-> old, ok |-> FALSE]
            ELSE IF ~Exists(d, old) THEN [s |-> more(new), name |-> old, ok |-> FALSE]
            ELSE [s |-> Shifted(left, old, new), name |-> new, ok |-> TRUE]
  BY DEF RenameFile, Shifted
<1>6. new # None => new \in Names /\ new \notin DOMAIN s.d /\ new \notin H
  BY UniqueIsFree, PlaceholdersAreNew
<1>7. DOMAIN d = DOMAIN s.d \cup H
  OBVIOUS
<1> HIDE DEF H, d, left, more
<1>8. CASE new = None
  <2>1. x.s = left /\ x.name = old
    BY <1>5, <1>8
  <2> QED
    BY <1>1, <2>1 DEF H
<1>9. CASE new # None /\ ~Exists(d, old)
  <2>1. x.s = Added(left, {new}) /\ x.name = old
    BY <1>4, <1>5, <1>9
  <2>2. new \in Names /\ new \notin DOMAIN left.d
    BY <1>3, <1>6, <1>7, <1>9
  <2> QED
    BY <1>1, <2>1, <2>2 DEF H
<1>10. CASE new # None /\ Exists(d, old)
  <2>1. x.s = Shifted(left, old, new) /\ x.name = new
    BY <1>5, <1>10
  <2>2. new \in Names /\ new \notin DOMAIN left.d /\ old \in DOMAIN left.d
    BY <1>3, <1>6, <1>7, <1>10 DEF Exists
  <2> QED
    BY <1>1, <2>1, <2>2 DEF H
<1> QED
  BY <1>8, <1>9, <1>10

(* What a file that was old before and is new now takes with it.            *)
RowsFollow(s, x, old, new) ==
  /\ DOMAIN x.t = DOMAIN s.t
  /\ \A r \in DOMAIN s.t : /\ x.t[r].file = IF s.t[r].file = old THEN new ELSE s.t[r].file
                           /\ x.t[r].hash = s.t[r].hash
                           /\ x.t[r].base = s.t[r].base
                           /\ x.t[r].erased = s.t[r].erased
FilesFollow(s, x, old, new) ==
  /\ s.torn \subseteq x.torn
  /\ old \in s.torn => new \in x.torn
  /\ old \in DOMAIN s.d => new \in DOMAIN x.d /\ x.d[new] = s.d[old]
  /\ \A m \in DOMAIN s.d : m # old => m \in DOMAIN x.d /\ x.d[m] = s.d[m]
Accounts(i, s, x, old, new) ==
  /\ Users(s.t, old) # {} => \A X : Known(i, s, X) => Known(i, x, X)
  /\ \A X : Known(i, s, X \cup {old}) => Known(i, x, X \cup {new})
Follows(i, s, x, old, new) ==
  /\ Sound(i, x)
  /\ x.path = s.path /\ x.intended = s.intended /\ x.faults = s.faults
  /\ new \in Names /\ Safe(i, x, new)
  /\ RowsFollow(s, x, old, new)
  /\ FilesFollow(s, x, old, new)
  /\ Accounts(i, s, x, old, new)

LEMMA AddedFollows ==
  ASSUME NEW i \in Items, NEW s, Sound(i, s), NEW old \in Names, Safe(i, s, old),
         NEW H \in SUBSET Names, H \cap DOMAIN s.d = {}
  PROVE  Follows(i, s, Added(s, H), old, old)
<1> SUFFICES ASSUME NEW x, x = Added(s, H) PROVE Follows(i, s, x, old, old)
  OBVIOUS
<1>1. s \in TxState
  BY DEF Sound
<1>2. /\ x \in TxState
      /\ x.t = s.t /\ x.path = s.path /\ x.intended = s.intended /\ x.gone = s.gone
      /\ x.faults = s.faults /\ x.torn = s.torn /\ x.strays = s.strays \cup H
      /\ \A m : m \in DOMAIN x.d <=> m \in DOMAIN s.d \/ m \in H
      /\ \A m \in DOMAIN s.d : m \notin H => x.d[m] = s.d[m]
  BY <1>1, AddedFields
<1>3. Sound(i, x) /\ \A X : Known(i, s, X) => Known(i, x, X)
  BY AddedSound
<1>4. Safe(i, x, old)
  BY <1>2 DEF Safe
<1>5. RowsFollow(s, x, old, old)
  BY <1>2 DEF RowsFollow
<1>6. FilesFollow(s, x, old, old)
  BY <1>2 DEF FilesFollow
<1>7. Accounts(i, s, x, old, old)
  BY <1>3 DEF Accounts
<1> QED
  BY <1>2, <1>3, <1>4, <1>5, <1>6, <1>7 DEF Follows

LEMMA ShiftedFollows ==
  ASSUME NEW i \in Items, NEW s, Sound(i, s), NEW old \in DOMAIN s.d, NEW new \in Names,
         new \notin DOMAIN s.d, Safe(i, s, old)
  PROVE  Follows(i, s, Shifted(s, old, new), old, new)
<1> SUFFICES ASSUME NEW x, x = Shifted(s, old, new) PROVE Follows(i, s, x, old, new)
  OBVIOUS
<1>1. s \in TxState /\ s.d \in Disk /\ s.t \in Table /\ old # new /\ old \in Names
  BY DiskType DEF Sound, TxState
<1>2. /\ x \in TxState
      /\ x.d = Renamed(s.d, old, new) /\ x.t = Repoint(s.t, old, new)
      /\ x.path = s.path /\ x.intended = s.intended /\ x.faults = s.faults
      /\ x.torn = IF old \in s.torn THEN s.torn \cup {new} ELSE s.torn
  BY <1>1, ShiftedFields
<1>3. /\ Sound(i, x)
      /\ Users(s.t, old) # {} => \A X : Known(i, s, X) => Known(i, x, X)
      /\ \A X : Known(i, s, X \cup {old}) => Known(i, x, X \cup {new})
  BY ShiftedSound
<1>4. s.torn \subseteq x.torn /\ (old \in s.torn => new \in x.torn)
  BY <1>2
<1>5. new \notin Relied(i) \ s.torn
  BY DEF Sound, Spared
<1>6. Safe(i, x, new)
  BY <1>4, <1>5 DEF Safe
<1>7. RowsFollow(s, x, old, new)
  BY <1>1, <1>2, RepointedRows DEF RowsFollow
<1>8. /\ \A m : m \in DOMAIN Renamed(s.d, old, new) <=> m # old /\ (m \in DOMAIN s.d \/ m = new)
      /\ Renamed(s.d, old, new)[new] = s.d[old]
      /\ \A m \in DOMAIN s.d : m # old /\ m # new => Renamed(s.d, old, new)[m] = s.d[m]
  BY <1>1, RenamedFile
<1>9. FilesFollow(s, x, old, new)
  BY <1>1, <1>2, <1>4, <1>8 DEF FilesFollow
<1>10. Accounts(i, s, x, old, new)
  BY <1>3 DEF Accounts
<1> QED
  BY <1>2, <1>3, <1>6, <1>7, <1>9, <1>10 DEF Follows

LEMMA FollowsTwice ==
  ASSUME NEW i \in Items, NEW s, NEW x, NEW y, NEW old, NEW new,
         Follows(i, s, x, old, old), Follows(i, x, y, old, new)
  PROVE  Follows(i, s, y, old, new)
<1>1. RowsFollow(s, y, old, new)
  <2>1. RowsFollow(s, x, old, old) /\ RowsFollow(x, y, old, new)
    BY DEF Follows
  <2> QED
    BY <2>1 DEF RowsFollow
<1>2. FilesFollow(s, y, old, new)
  <2>1. FilesFollow(s, x, old, old) /\ FilesFollow(x, y, old, new)
    BY DEF Follows
  <2> QED
    BY <2>1 DEF FilesFollow
<1>3. Accounts(i, s, y, old, new)
  <2>1. Accounts(i, s, x, old, old) /\ Accounts(i, x, y, old, new)
    BY DEF Follows
  <2>2. Users(s.t, old) # {} => Users(x.t, old) # {}
    BY DEF Follows, RowsFollow, Users, Present
  <2> QED
    BY <2>1, <2>2 DEF Accounts
<1> QED
  BY <1>1, <1>2, <1>3 DEF Follows

LEMMA RenameFileFollows ==
  ASSUME NEW i \in Items, NEW s, Sound(i, s), NEW old \in Names, Safe(i, s, old),
         NEW base \in Bases, NEW x \in RenameFile(s, old, base)
  PROVE  Follows(i, s, x.s, old, x.name)
<1> DEFINE H == Placeholders(s.d, s.t, base)
           left == Added(s, H)
<1>1. s \in TxState
  BY DEF Sound
<1>2. H \in SUBSET Names /\ H \cap DOMAIN s.d = {}
  BY PlaceholdersAreNew
<1>3. \/ x.s = left /\ x.name = old
      \/ \E new \in Names :
           /\ new \notin DOMAIN left.d
           /\ \/ x.s = Added(left, {new}) /\ x.name = old
              \/ old \in DOMAIN left.d /\ x.s = Shifted(left, old, new) /\ x.name = new
  BY <1>1, RenameFileCases
<1> HIDE DEF H
<1>4. Follows(i, s, left, old, old)
  BY <1>2, AddedFollows
<1> HIDE DEF left
<1>5. CASE x.s = left /\ x.name = old
  BY <1>4, <1>5
<1>6. Sound(i, left) /\ Safe(i, left, old)
  BY <1>4 DEF Follows
<1>7. ASSUME NEW new \in Names, new \notin DOMAIN left.d, x.s = Added(left, {new}), x.name = old
      PROVE  Follows(i, s, x.s, old, x.name)
  <2>1. Follows(i, left, Added(left, {new}), old, old)
    BY <1>6, <1>7, AddedFollows
  <2> QED
    BY <1>4, <1>7, <2>1, FollowsTwice
<1>8. ASSUME NEW new \in Names, new \notin DOMAIN left.d, old \in DOMAIN left.d,
             x.s = Shifted(left, old, new), x.name = new
      PROVE  Follows(i, s, x.s, old, x.name)
  <2>1. Follows(i, left, Shifted(left, old, new), old, new)
    BY <1>6, <1>8, ShiftedFollows
  <2> QED
    BY <1>4, <1>8, <2>1, FollowsTwice
<1> QED
  BY <1>3, <1>5, <1>7, <1>8

-----------------------------------------------------------------------------
(* The file an item comes with, or that of another row it has adopted, is   *)
(* nobody else's and has the content of the item.  If it was the file of    *)
(* the item's own row and has been renamed for it, the row will not take it.*)
Same(i, s) ==
  ItemInfo[i].row \in Present(s.t) /\ s.t[ItemInfo[i].row].hash = item[i].hash
Right(i, s) ==
  s.path # None =>
    /\ Safe(i, s, s.path)
    /\ item[i].hash \in Hashes
    /\ \/ s.path \in s.torn
       \/ s.path \in DOMAIN s.d /\ s.d[s.path] = item[i].hash
       \/ Same(i, s)
Ready(i, s) == Sound(i, s) /\ Known(i, s, {s.path}) /\ Right(i, s)

LEMMA StateTypes ==
  ASSUME NEW s \in TxState
  PROVE  /\ s.d \in Disk /\ s.t \in Table /\ s.path \in Names \cup {None}
         /\ \A r \in Present(s.t) :
              /\ s.t[r].file \in Names \cup {None}
              /\ s.t[r].hash \in Hashes \cup {None}
              /\ s.t[r].base \in RowNames
              /\ s.t[r].erased \in BOOLEAN
<1>1. s.d \in Disk /\ s.t \in Table /\ s.path \in Names \cup {None}
  BY DEF TxState
<1>2. \A r \in Present(s.t) : s.t[r] \in Row
  BY <1>1, TableType DEF Present
<1> QED
  BY <1>1, <1>2 DEF Row, RowNames

LEMMA ItemTypes ==
  ASSUME NEW i \in Items
  PROVE  /\ ItemInfo[i].row \in RowIds /\ ItemInfo[i].base \in Bases
         /\ ItemInfo[i].hash \in Hashes \cup {None}
         /\ FileName(i) \in Bases \cup {None}
BY FilesAssumption DEF ItemType, FileName

LEMMA BatchItems ==
  \A j \in Jobs : \A m \in DOMAIN Batches[j] : Batches[j][m] \in Items
<1> SUFFICES ASSUME NEW j \in Jobs PROVE \A m \in DOMAIN Batches[j] : Batches[j][m] \in Items
  OBVIOUS
<1>1. Batches[j] \in Seq(Items)
  BY FilesAssumption
<1> QED
  BY <1>1

LEMMA HeldIsSafe ==
  ASSUME NEW i, NEW s, Sound(i, s), NEW r \in Present(s.t)
  PROVE  Safe(i, s, s.t[r].file)
BY DEF Sound, Spared, Safe, Users

LEMMA ExistingReady ==
  ASSUME NEW i \in Items, NEW s, Ready(i, s), ItemInfo[i].row \in Present(s.t),
         NEW z \in ExistingRenamed(i, s)
  PROVE  /\ Ready(i, z.s) /\ ItemInfo[i].row \in Present(z.s.t) /\ z.s.faults = s.faults
         /\ z.name \in RowNames
<1> DEFINE id == ItemInfo[i].row
           old == s.t[id].file
           base == s.t[id].base
           given == IF ItemInfo[i].named THEN FileName(i) ELSE ""
<1>1. CASE z = [s |-> s, name |-> base]
  <2>1. base \in RowNames
    BY StateTypes DEF Ready, Sound
  <2> QED
    BY <1>1, <2>1
<1>2. ASSUME old # None, NEW x \in RenameFile(s, old, ItemInfo[i].base), NEW y, y = x.s
      PROVE  Ready(i, y) /\ id \in Present(y.t) /\ y.faults = s.faults
  <2>1. Sound(i, s) /\ s \in TxState /\ Known(i, s, {s.path}) /\ Right(i, s)
    BY DEF Ready, Sound
  <2>2. old \in Names
    BY <1>2, <2>1, StateTypes
  <2>3. Safe(i, s, old)
    BY <2>1, HeldIsSafe
  <2>4. ItemInfo[i].base \in Bases
    BY ItemTypes
  <2>5. Follows(i, s, y, old, x.name)
    BY <1>2, <2>1, <2>2, <2>3, <2>4, RenameFileFollows
  <2>6. /\ Sound(i, y) /\ y.path = s.path /\ y.faults = s.faults
        /\ RowsFollow(s, y, old, x.name) /\ FilesFollow(s, y, old, x.name)
        /\ Accounts(i, s, y, old, x.name)
    BY <2>5 DEF Follows
  <2>7. Users(s.t, old) # {}
    BY DEF Users
  <2>8. Known(i, y, {y.path})
    BY <2>1, <2>6, <2>7 DEF Accounts
  <2>9. id \in Present(y.t) /\ (Same(i, s) => Same(i, y))
    BY <2>6 DEF RowsFollow, Same, Present
  <2>10. s.torn \subseteq y.torn
    BY <2>6 DEF FilesFollow
  <2>11. ASSUME s.path # None
         PROVE  \/ s.path \in y.torn
                \/ s.path \in DOMAIN y.d /\ y.d[s.path] = item[i].hash
                \/ Same(i, y)
    <3>1. CASE s.path \in s.torn \/ Same(i, s)
      BY <2>9, <2>10, <3>1
    <3>2. CASE s.path \in DOMAIN s.d /\ s.d[s.path] = item[i].hash /\ s.path # old
      BY <2>6, <3>2 DEF FilesFollow
    <3>3. CASE s.d[s.path] = item[i].hash /\ s.path = old /\ s.path \notin s.torn
      <4>1. s.d[old] = s.t[id].hash
        BY <1>2, <2>1, <3>3 DEF Sound, True
      <4> QED
        BY <2>9, <3>3, <4>1 DEF Same
    <3> QED
      BY <2>1, <2>11, <3>1, <3>2, <3>3 DEF Right
  <2>12. Right(i, y)
    BY <2>1, <2>6, <2>10, <2>11 DEF Right, Safe
  <2> QED
    BY <2>6, <2>8, <2>9, <2>12 DEF Ready
<1>3. base \in RowNames /\ given \in RowNames
  BY StateTypes, ItemTypes DEF Ready, Sound, RowNames
<1> HIDE DEF old, id, base, given
<1>4. ASSUME old # None, NEW x \in RenameFile(s, old, ItemInfo[i].base),
             z = [s |-> x.s, name |-> IF x.ok THEN given ELSE base]
      PROVE  /\ Ready(i, z.s) /\ id \in Present(z.s.t) /\ z.s.faults = s.faults
             /\ z.name \in RowNames
  BY <1>2, <1>3, <1>4
<1>5. \/ z = [s |-> s, name |-> base]
      \/ old # None /\ \E x \in RenameFile(s, old, ItemInfo[i].base) :
                           z = [s |-> x.s, name |-> IF x.ok THEN given ELSE base]
  BY DEF ExistingRenamed, old, id, base, given
<1> QED
  BY <1>1, <1>4, <1>5 DEF id

LEMMA IncomingReady ==
  ASSUME NEW i \in Items, NEW w, Ready(i, w.s), ItemInfo[i].row \in Present(w.s.t),
         w.name \in RowNames, NEW z \in IncomingRenamed(i, w)
  PROVE  /\ Ready(i, z.s) /\ ItemInfo[i].row \in Present(z.s.t) /\ z.s.faults = w.s.faults
         /\ z.name \in RowNames
<1> DEFINE id == ItemInfo[i].row
           s == w.s
           base == IF w.name = "" THEN ItemInfo[i].base ELSE w.name
<1>1. CASE z = w
  BY <1>1
<1>2. ASSUME base \in Bases, s.path # None, NEW x \in RenameFile(s, s.path, base),
             NEW y, y = [x.s EXCEPT !.path = x.name, !.intended = base]
      PROVE  Ready(i, y) /\ id \in Present(y.t) /\ y.faults = s.faults
  <2>1. Sound(i, s) /\ s \in TxState /\ Known(i, s, {s.path}) /\ Right(i, s)
    BY DEF Ready, Sound
  <2>2. s.path \in Names /\ base \in Bases
    BY <1>2, <2>1, StateTypes
  <2>0. id \in Present(s.t) /\ id = ItemInfo[i].row
    OBVIOUS
  <2> HIDE DEF s, base, id
  <2>3. Safe(i, s, s.path)
    BY <1>2, <2>1 DEF Right
  <2>4. Follows(i, s, x.s, s.path, x.name)
    BY <1>2, <2>1, <2>2, <2>3, RenameFileFollows
  <2>5. /\ Sound(i, x.s) /\ x.s.faults = s.faults /\ x.s \in TxState
        /\ x.name \in Names /\ Safe(i, x.s, x.name)
        /\ RowsFollow(s, x.s, s.path, x.name) /\ FilesFollow(s, x.s, s.path, x.name)
        /\ Accounts(i, s, x.s, s.path, x.name)
    BY <2>4 DEF Follows, Sound
  <2>6. /\ y \in TxState /\ y.d = x.s.d /\ y.t = x.s.t /\ y.path = x.name /\ y.gone = x.s.gone
        /\ y.faults = x.s.faults /\ y.torn = x.s.torn /\ y.strays = x.s.strays
    BY <1>2, <2>2, <2>5 DEF TxState
  <2>7. Sound(i, y) /\ \A X : Known(i, x.s, X) => Known(i, y, X)
    BY <2>5, <2>6, AsideSound
  <2>8. Known(i, x.s, {x.name})
    <3>1. Known(i, s, {} \cup {s.path})
      BY <2>1
    <3>2. Known(i, x.s, {} \cup {x.name})
      BY <2>5, <3>1 DEF Accounts
    <3> QED
      BY <3>2
  <2>9. Known(i, y, {y.path})
    BY <2>6, <2>7, <2>8
  <2>10. id \in Present(y.t) /\ (Same(i, s) => Same(i, y))
    BY <2>0, <2>5, <2>6 DEF RowsFollow, Same, Present
  <2>11. Safe(i, y, y.path)
    BY <2>5, <2>6 DEF Safe
  <2>12. \/ y.path \in y.torn
         \/ y.path \in DOMAIN y.d /\ y.d[y.path] = item[i].hash
         \/ Same(i, y)
    BY <1>2, <2>1, <2>5, <2>6, <2>10 DEF Right, FilesFollow
  <2>13. Right(i, y)
    BY <1>2, <2>1, <2>11, <2>12 DEF Right
  <2> QED
    BY <2>5, <2>6, <2>7, <2>9, <2>10, <2>13 DEF Ready
<1>3. w.name # None => base \in Bases
  BY ItemTypes DEF RowNames
<1>4. \/ z = w
      \/ w.name # None /\ s.path # None
           /\ \E x \in RenameFile(s, s.path, base) :
                z = [s |-> [x.s EXCEPT !.path = x.name, !.intended = base], name |-> w.name]
  BY DEF IncomingRenamed
<1> HIDE DEF s, base, id
<1>5. ASSUME base \in Bases, s.path # None, NEW x \in RenameFile(s, s.path, base),
             z = [s |-> [x.s EXCEPT !.path = x.name, !.intended = base], name |-> w.name]
      PROVE  /\ Ready(i, z.s) /\ id \in Present(z.s.t) /\ z.s.faults = s.faults
             /\ z.name \in RowNames
  BY <1>2, <1>5
<1> QED
  BY <1>1, <1>3, <1>4, <1>5 DEF s, id

LEMMA RenamingsReady ==
  ASSUME NEW i \in Items, NEW s, Ready(i, s), NEW y \in Renamings(i, s)
  PROVE  Ready(i, y.s) /\ y.s.faults = s.faults /\ y.name \in RowNames
<1>1. CASE ItemInfo[i].row \notin Present(s.t)
  <2>1. y = [s |-> s, name |-> None]
    BY <1>1 DEF Renamings
  <2>2. None \in RowNames
    BY DEF RowNames
  <2> QED
    BY <2>1, <2>2
<1>2. CASE ItemInfo[i].row \in Present(s.t)
  <2>1. PICK x \in ExistingRenamed(i, s) : y \in IncomingRenamed(i, x)
    BY <1>2 DEF Renamings
  <2>2. /\ Ready(i, x.s) /\ ItemInfo[i].row \in Present(x.s.t) /\ x.s.faults = s.faults
        /\ x.name \in RowNames
    BY <1>2, ExistingReady
  <2> QED
    BY <2>1, <2>2, IncomingReady
<1> QED
  BY <1>1, <1>2

-----------------------------------------------------------------------------
(* The row is filled in, and the files are cleaned up.                      *)

(* The row takes the incoming file, or keeps the one it has.                *)
Takes(i, s) ==
  ItemInfo[i].row \in Present(s.t) => UpdatesFile(i, s.t[ItemInfo[i].row], s)

LEMMA FilledFields ==
  ASSUME NEW i \in Items, NEW s \in TxState, s.path # None => item[i].hash \in Hashes,
         NEW name \in RowNames
  PROVE  LET x == Filled(i, s, name)
             id == ItemInfo[i].row
         IN /\ x \in TxState
            /\ x.d = s.d /\ x.path = s.path /\ x.intended = s.intended /\ x.gone = s.gone
            /\ x.faults = s.faults /\ x.torn = s.torn /\ x.strays = s.strays
            /\ \A r : r \in DOMAIN x.t <=> r \in DOMAIN s.t \/ r = id
            /\ \A r \in DOMAIN s.t : r # id => x.t[r] = s.t[r]
            /\ Takes(i, s) => /\ x.t[id].file = s.path
                              /\ x.t[id].hash = IF s.path = None THEN None ELSE item[i].hash
            /\ ~Takes(i, s) => /\ x.t[id].file = s.t[id].file
                               /\ x.t[id].hash = s.t[id].hash
<1> DEFINE id == ItemInfo[i].row
           hash == IF s.path = None THEN None ELSE item[i].hash
           r == s.t[id]
           new == [file |-> s.path, hash |-> hash, base |-> FileName(i), erased |-> FALSE]
           changed == [file |-> IF UpdatesFile(i, r, s) THEN s.path ELSE r.file,
                       hash |-> IF UpdatesFile(i, r, s) THEN hash ELSE r.hash,
                       base |-> BaseOf(i, r, name),
                       erased |-> r.erased]
           row == IF id \notin Present(s.t) THEN new ELSE changed
           x == Filled(i, s, name)
<1>1. x = [s EXCEPT !.t = With(@, id, row)]
  BY DEF Filled
<1>2. s.t \in Table /\ id \in RowIds /\ FileName(i) \in Bases \cup {None} /\ hash \in Hashes \cup {None}
      /\ s.path \in Names \cup {None}
  BY StateTypes, ItemTypes
<1>3. id \notin Present(s.t) => new \in Row
  BY <1>2 DEF Row
<1>4. id \in Present(s.t) => changed \in Row
  <2>1. id \in Present(s.t) =>
          /\ r.file \in Names \cup {None} /\ r.hash \in Hashes \cup {None}
          /\ r.base \in RowNames /\ r.erased \in BOOLEAN
    BY StateTypes
  <2>2. id \in Present(s.t) => BaseOf(i, r, name) \in RowNames
    BY <1>2, <2>1 DEF BaseOf, RowNames
  <2> HIDE DEF r, hash
  <2> QED
    BY <1>2, <2>1, <2>2 DEF Row, RowNames
<1>5. /\ Takes(i, s) => row.file = s.path /\ row.hash = hash
      /\ ~Takes(i, s) => row.file = r.file /\ row.hash = r.hash
  <2> HIDE DEF r, hash
  <2>1. /\ Takes(i, s) <=> (id \in Present(s.t) => UpdatesFile(i, r, s))
    BY DEF Takes, r
  <2> QED
    BY <2>1
<1>6. row \in Row
  BY <1>3, <1>4
<1> HIDE DEF row
<1>7. /\ With(s.t, id, row) \in Table
      /\ \A q : q \in DOMAIN With(s.t, id, row) <=> q \in DOMAIN s.t \/ q = id
      /\ With(s.t, id, row)[id] = row
      /\ \A q \in DOMAIN s.t : q # id => With(s.t, id, row)[q] = s.t[q]
  BY <1>2, <1>6, WithRow
<1>8. /\ x \in TxState /\ x.t = With(s.t, id, row)
      /\ x.d = s.d /\ x.path = s.path /\ x.intended = s.intended /\ x.gone = s.gone
      /\ x.faults = s.faults /\ x.torn = s.torn /\ x.strays = s.strays
  BY <1>1, <1>7 DEF TxState
<1> HIDE DEF x, hash, r, id
<1>9. /\ \A q : q \in DOMAIN x.t <=> q \in DOMAIN s.t \/ q = id
      /\ \A q \in DOMAIN s.t : q # id => x.t[q] = s.t[q]
      /\ x.t[id] = row
  BY <1>7, <1>8
<1> QED
  BY <1>5, <1>8, <1>9 DEF x, hash, r, id

LEMMA FilledSound ==
  ASSUME NEW i \in Items, NEW s, Ready(i, s), NEW name \in RowNames
  PROVE  LET x == Filled(i, s, name)
             old == OldFile(s, ItemInfo[i].row)
         IN /\ Sound(i, x) /\ x.path = s.path /\ x.intended = s.intended /\ x.faults = s.faults
            /\ s.path # None => Safe(i, x, s.path)
            /\ old # None => Safe(i, x, old)
            /\ Known(i, x, {s.path, old})
            /\ s.path = None => Known(i, x, {})
<1> SUFFICES ASSUME NEW x, x = Filled(i, s, name), NEW id, id = ItemInfo[i].row,
                    NEW old, old = OldFile(s, id)
             PROVE  /\ Sound(i, x) /\ x.path = s.path /\ x.intended = s.intended
                    /\ x.faults = s.faults
                    /\ s.path # None => Safe(i, x, s.path)
                    /\ old # None => Safe(i, x, old)
                    /\ Known(i, x, {s.path, old})
                    /\ s.path = None => Known(i, x, {})
  OBVIOUS
<1>1. Sound(i, s) /\ s \in TxState /\ Known(i, s, {s.path}) /\ Right(i, s)
  BY DEF Ready, Sound
<1>2. s.path # None => item[i].hash \in Hashes
  BY <1>1 DEF Right
<1>3. /\ x \in TxState
      /\ x.d = s.d /\ x.path = s.path /\ x.intended = s.intended /\ x.gone = s.gone
      /\ x.faults = s.faults /\ x.torn = s.torn /\ x.strays = s.strays
      /\ \A r : r \in DOMAIN x.t <=> r \in DOMAIN s.t \/ r = id
      /\ \A r \in DOMAIN s.t : r # id => x.t[r] = s.t[r]
      /\ Takes(i, s) => /\ x.t[id].file = s.path
                        /\ x.t[id].hash = IF s.path = None THEN None ELSE item[i].hash
      /\ ~Takes(i, s) => /\ x.t[id].file = s.t[id].file
                         /\ x.t[id].hash = s.t[id].hash
  BY <1>1, <1>2, FilledFields
<1>4. True(rows, x.d, x.torn \cup x.gone)
  BY <1>1, <1>3 DEF Sound, True
<1>5. s.path # None => Safe(i, s, s.path)
  BY <1>1 DEF Right
<1>6. old # None => Safe(i, s, old)
  BY <1>1, HeldIsSafe DEF OldFile
<1>7. None \notin DOMAIN s.d
  BY <1>1, StateTypes, DiskType, FilesAssumption
<1>8. CASE Takes(i, s)
  <2>1. x.t[id].file = s.path /\ x.t[id].hash = IF s.path = None THEN None ELSE item[i].hash
    BY <1>3, <1>8
  <2>2. s.path \notin {None} \cup s.torn => s.path \in DOMAIN s.d /\ s.d[s.path] = item[i].hash
    <3>1. ~Same(i, s) \/ s.path = None
      BY <1>8 DEF Takes, Same, UpdatesFile
    <3> QED
      BY <1>1, <3>1 DEF Right
  <2>3. True(x.t, x.d, x.torn)
    <3> SUFFICES ASSUME NEW r \in Present(x.t), x.t[r].file \notin {None} \cup x.torn
                 PROVE  x.t[r].file \in DOMAIN x.d /\ x.d[x.t[r].file] = x.t[r].hash
      BY DEF True
    <3>1. CASE r = id
      BY <1>3, <2>1, <2>2, <3>1
    <3>2. CASE r # id
      BY <1>1, <1>3, <3>2 DEF Sound, True, Present
    <3> QED
      BY <3>1, <3>2
  <2>4. \A n : n # s.path => (Users(s.t, n) = {} => Users(x.t, n) = {})
    BY <1>3, <2>1 DEF Users, Present
  <2>5. Spared(i, x.d, x.t, x.torn)
    <3> SUFFICES ASSUME NEW n \in Relied(i) \ x.torn
                 PROVE  n \in DOMAIN x.d /\ x.d[n] = disk[n] /\ Users(x.t, n) = {}
      BY DEF Spared
    <3>1. n \in DOMAIN s.d /\ s.d[n] = disk[n] /\ Users(s.t, n) = {}
      BY <1>1, <1>3 DEF Sound, Spared
    <3>2. n # s.path
      BY <1>3, <1>5, <1>7, <3>1 DEF Safe
    <3> QED
      BY <1>3, <2>4, <3>1, <3>2
  <2>6. \A r \in Present(x.t) : x.t[r].file = None <=> x.t[r].hash = None
    <3> SUFFICES ASSUME NEW r \in Present(x.t) PROVE x.t[r].file = None <=> x.t[r].hash = None
      OBVIOUS
    <3>1. CASE r = id
      BY <1>2, <2>1, <3>1, FilesAssumption
    <3>2. CASE r # id
      BY <1>1, <1>3, <3>2 DEF Sound, Present
    <3> QED
      BY <3>1, <3>2
  <2>7. Sound(i, x)
    BY <1>1, <1>3, <1>4, <2>3, <2>5, <2>6 DEF Sound
  <2>8. \A n : Users(s.t, n) # {} /\ n # old => Users(x.t, n) # {}
    BY <1>3 DEF Users, Present, OldFile
  <2>9. Known(i, x, {s.path, old})
    BY <1>1, <1>3, <2>8 DEF Known
  <2>10. ASSUME s.path = None PROVE Known(i, x, {})
    <3>1. old = None
      BY <1>8, <2>10 DEF Takes, UpdatesFile, OldFile
    <3> QED
      BY <1>3, <1>7, <2>9, <2>10, <3>1 DEF Known
  <2> QED
    BY <1>3, <1>5, <1>6, <2>7, <2>9, <2>10 DEF Safe
<1>9. CASE ~Takes(i, s)
  <2>1. id \in Present(s.t)
    BY <1>9 DEF Takes
  <2>2. /\ Present(x.t) = Present(s.t)
        /\ \A r \in Present(s.t) : x.t[r].file = s.t[r].file /\ x.t[r].hash = s.t[r].hash
    BY <1>3, <1>9, <2>1 DEF Present
  <2>3. \A n : Users(x.t, n) = Users(s.t, n)
    BY <2>2 DEF Users
  <2>4. True(x.t, x.d, x.torn)
    BY <1>1, <1>3, <2>2 DEF Sound, True
  <2>5. Spared(i, x.d, x.t, x.torn)
    BY <1>1, <1>3, <2>3 DEF Sound, Spared
  <2>6. Sound(i, x)
    BY <1>1, <1>3, <1>4, <2>2, <2>4, <2>5 DEF Sound
  <2>7. Known(i, x, {s.path})
    BY <1>1, <1>3, <2>3 DEF Known
  <2>8. Known(i, x, {s.path, old})
    BY <2>7 DEF Known
  <2>9. s.path = None => Known(i, x, {})
    BY <1>3, <1>7, <2>7 DEF Known
  <2> QED
    BY <1>3, <1>5, <1>6, <2>6, <2>8, <2>9 DEF Safe
<1> QED
  BY <1>8, <1>9

(* Nothing of item i is left that is not accounted for.                     *)
Final(i, s) == Sound(i, s) /\ Known(i, s, {})

(* What is left to be cleaned up: the incoming file, if no row has it, and  *)
(* the one the row had before.                                              *)
Cleanable(i, s, old) ==
  /\ Sound(i, s)
  /\ s.path # None => Safe(i, s, s.path)
  /\ old # None => Safe(i, s, old)

LEMMA NoneIsNoFile ==
  ASSUME NEW i, NEW s, Sound(i, s)
  PROVE  /\ None \notin DOMAIN s.d
         /\ \A X : Known(i, s, X \cup {None}) => Known(i, s, X)
<1>1. None \notin DOMAIN s.d
  BY StateTypes, DiskType, FilesAssumption DEF Sound
<1> QED
  BY <1>1 DEF Known

LEMMA HeldIsKnown ==
  ASSUME NEW i, NEW s, NEW n, Users(s.t, n) # {}, NEW X, Known(i, s, X \cup {n})
  PROVE  Known(i, s, X)
BY DEF Known

LEMMA UnusedSound ==
  ASSUME NEW i \in Items, NEW s, NEW old, Cleanable(i, s, old), Known(i, s, {s.path, old}),
         s.path = None => Known(i, s, {})
  PROVE  LET x == Unused(s)
         IN /\ Cleanable(i, x, old)
            /\ x.path = s.path /\ x.intended = s.intended /\ x.faults = s.faults
            /\ Known(i, x, {old})
            /\ x.path = None \/ old = x.path => Known(i, x, {})
            /\ x.path \in DOMAIN x.d => Users(x.t, x.path) # {}
<1>1. Sound(i, s) /\ s \in TxState
  BY DEF Cleanable, Sound
<1>2. CASE s.path = None
  <2>1. Unused(s) = s
    BY <1>2 DEF Unused
  <2>2. Known(i, s, {}) /\ None \notin DOMAIN s.d
    BY <1>1, <1>2, NoneIsNoFile
  <2>3. Known(i, s, {old})
    BY <2>2 DEF Known
  <2> QED
    BY <1>2, <2>1, <2>2, <2>3
<1>3. CASE s.path # None /\ Users(s.t, s.path) # {}
  <2>1. Unused(s) = s
    BY <1>3 DEF Unused
  <2>2. Known(i, s, {old})
    BY <1>3 DEF Known
  <2>3. old = s.path => Known(i, s, {})
    BY <1>3, <2>2 DEF Known
  <2> QED
    BY <1>3, <2>1, <2>2, <2>3
<1>4. CASE s.path # None /\ Users(s.t, s.path) = {}
  <2> SUFFICES ASSUME NEW x, x = Delete(s, s.path)
               PROVE  /\ Cleanable(i, x, old)
                      /\ x.path = s.path /\ x.intended = s.intended /\ x.faults = s.faults
                      /\ Known(i, x, {old})
                      /\ old = x.path => Known(i, x, {})
                      /\ x.path \notin DOMAIN x.d
    BY <1>4 DEF Unused
  <2>1. s.path \in Names /\ s.d \in Disk
    BY <1>1, <1>4, StateTypes
  <2>2. Disposable(i, s, s.path)
    BY <1>4 DEF Cleanable, Safe, Disposable
  <2>3. /\ Sound(i, Delete(s, s.path))
        /\ \A X : Known(i, s, X \cup {s.path}) => Known(i, Delete(s, s.path), X)
    BY <1>1, <2>1, <2>2, DeleteSound
  <2>4. /\ x.d = Without(s.d, s.path) /\ x.t = s.t /\ x.path = s.path
        /\ x.intended = s.intended /\ x.faults = s.faults /\ x.torn = s.torn
    BY <1>1, <2>1, DeleteFields
  <2>5. Cleanable(i, x, old)
    BY <2>3, <2>4 DEF Cleanable, Safe
  <2>6. Known(i, s, {old} \cup {s.path})
    BY DEF Known
  <2>7. Known(i, x, {old})
    BY <2>3, <2>6
  <2>8. ASSUME old = s.path PROVE Known(i, x, {})
    <3>1. Known(i, s, {} \cup {s.path})
      BY <2>6, <2>8 DEF Known
    <3> QED
      BY <2>3, <3>1
  <2>9. s.path \notin DOMAIN x.d
    BY <2>1, <2>4, WithoutFile
  <2> QED
    BY <2>4, <2>5, <2>7, <2>8, <2>9
<1> QED
  BY <1>2, <1>3, <1>4

LEMMA ReplacedSound ==
  ASSUME NEW i \in Items, NEW s, NEW old \in Names \cup {None}, Cleanable(i, s, old),
         Known(i, s, {old}), s.path = None \/ old = s.path => Known(i, s, {}),
         s.path \in DOMAIN s.d => Users(s.t, s.path) # {}
  PROVE  LET x == Replaced(s, old)
         IN /\ Final(i, x)
            /\ x.path = s.path /\ x.intended = s.intended /\ x.faults = s.faults
            /\ x.path # None => Safe(i, x, x.path)
            /\ x.path \in DOMAIN x.d => Users(x.t, x.path) # {}
<1>1. Sound(i, s) /\ s \in TxState
  BY DEF Cleanable, Sound
<1>2. CASE s.path = None \/ old \in {None, s.path} \/ Users(s.t, old) # {}
  <2>1. Replaced(s, old) = s
    BY <1>2 DEF Replaced, DeleteIfUnreferenced
  <2>2. Known(i, s, {} \cup {old})
    BY DEF Known
  <2>3. Known(i, s, {})
    BY <1>1, <1>2, <2>2, NoneIsNoFile, HeldIsKnown
  <2> QED
    BY <1>1, <2>1, <2>3 DEF Final, Cleanable
<1>3. CASE s.path # None /\ old \notin {None, s.path} /\ Users(s.t, old) = {}
  <2> SUFFICES ASSUME NEW x, x = Delete(s, old)
               PROVE  /\ Final(i, x)
                      /\ x.path = s.path /\ x.intended = s.intended /\ x.faults = s.faults
                      /\ Safe(i, x, x.path)
                      /\ x.path \in DOMAIN x.d => Users(x.t, x.path) # {}
    BY <1>3 DEF Replaced, DeleteIfUnreferenced
  <2>1. old \in Names /\ s.d \in Disk
    BY <1>1, <1>3, StateTypes
  <2>2. Disposable(i, s, old)
    BY <1>3 DEF Cleanable, Safe, Disposable
  <2>3. /\ Sound(i, Delete(s, old))
        /\ \A X : Known(i, s, X \cup {old}) => Known(i, Delete(s, old), X)
    BY <1>1, <2>1, <2>2, DeleteSound
  <2>4. /\ x.d = Without(s.d, old) /\ x.t = s.t /\ x.path = s.path
        /\ x.intended = s.intended /\ x.faults = s.faults /\ x.torn = s.torn
    BY <1>1, <2>1, DeleteFields
  <2>5. Known(i, s, {} \cup {old})
    BY DEF Known
  <2>6. Final(i, x)
    BY <2>3, <2>5 DEF Final
  <2>7. \A m \in DOMAIN x.d : m \in DOMAIN s.d
    BY <2>1, <2>4, WithoutFile
  <2> QED
    BY <1>3, <2>4, <2>6, <2>7 DEF Cleanable, Safe
<1> QED
  BY <1>2, <1>3

LEMMA RestoredSound ==
  ASSUME NEW i \in Items, NEW s, NEW old, Final(i, s),
         s.path # None => Safe(i, s, s.path),
         s.path \in DOMAIN s.d => Users(s.t, s.path) # {}
  PROVE  Final(i, Restored(i, s, old)) /\ Restored(i, s, old).faults = s.faults
<1> DEFINE want == <<s.intended, "">>
<1>1. Sound(i, s) /\ s \in TxState /\ Known(i, s, {})
  BY DEF Final, Sound
<1>2. want \in Names
  BY <1>1 DEF TxState, Names
<1>3. CASE s.path = None \/ old \in {None, s.path} \/ s.path = want \/ Exists(s.d, want)
  <2>1. Restored(i, s, old) = s
    BY <1>3 DEF Restored
  <2> QED
    BY <2>1
<1>4. CASE /\ ~(s.path = None \/ old \in {None, s.path} \/ s.path = want \/ Exists(s.d, want))
           /\ Exists(s.d, s.path)
  <2>1. Restored(i, s, old) = Shifted(s, s.path, want)
    BY <1>4 DEF Restored, Shifted
  <2>2. s.path \in DOMAIN s.d /\ want \notin DOMAIN s.d
    BY <1>4 DEF Exists
  <2> HIDE DEF want
  <2>3. Follows(i, s, Shifted(s, s.path, want), s.path, want)
    BY <1>1, <1>2, <1>4, <2>2, ShiftedFollows
  <2>4. Known(i, Shifted(s, s.path, want), {})
    BY <1>1, <2>2, <2>3 DEF Follows, Accounts
  <2> QED
    BY <2>1, <2>3, <2>4 DEF Follows, Final
<1>5. CASE /\ ~(s.path = None \/ old \in {None, s.path} \/ s.path = want \/ Exists(s.d, want))
           /\ ~Exists(s.d, s.path)
  <2>1. Restored(i, s, old) = [s EXCEPT !.d = With(@, want, "placeholder"), !.strays = @ \cup {want}]
    BY <1>5 DEF Restored
  <2>2. With(s.d, want, "placeholder") =
          [m \in DOMAIN s.d \cup {want} |-> IF m \in {want} THEN "placeholder" ELSE s.d[m]]
    BY DEF With
  <2>3. {want} \in SUBSET Names /\ {want} \cap DOMAIN s.d = {}
    BY <1>2, <1>5 DEF Exists
  <2> HIDE DEF want
  <2>4. Restored(i, s, old) = Added(s, {want})
    BY <1>1, <2>1, <2>2 DEF Added, TxState
  <2>5. Sound(i, Added(s, {want})) /\ Known(i, Added(s, {want}), {})
    BY <1>1, <2>3, AddedSound
  <2>6. Added(s, {want}).faults = s.faults
    BY <1>1, <2>3, AddedFields
  <2> QED
    BY <2>4, <2>5, <2>6 DEF Final
<1> QED
  BY <1>3, <1>4, <1>5

LEMMA StoredFinal ==
  ASSUME NEW i \in Items, NEW s, Ready(i, s), NEW name \in RowNames
  PROVE  Final(i, Stored(i, s, name))
<1> SUFFICES ASSUME NEW old, old = OldFile(s, ItemInfo[i].row),
                    NEW x, x = Filled(i, s, name), NEW y, y = Unused(x), NEW z, z = Replaced(y, old)
             PROVE  Final(i, Restored(i, z, old))
  BY DEF Stored
<1>1. /\ Sound(i, x) /\ x.path = s.path
      /\ s.path # None => Safe(i, x, s.path)
      /\ old # None => Safe(i, x, old)
      /\ Known(i, x, {s.path, old})
      /\ s.path = None => Known(i, x, {})
  BY FilledSound
<1>2. /\ Cleanable(i, y, old)
      /\ Known(i, y, {old})
      /\ y.path = None \/ old = y.path => Known(i, y, {})
      /\ y.path \in DOMAIN y.d => Users(y.t, y.path) # {}
  <2>1. Cleanable(i, x, old) /\ Known(i, x, {x.path, old}) /\ (x.path = None => Known(i, x, {}))
    BY <1>1 DEF Cleanable
  <2> QED
    BY <2>1, UnusedSound
<1>3. old \in Names \cup {None}
  BY StateTypes DEF OldFile, Ready, Sound
<1>4. /\ Final(i, z)
      /\ z.path # None => Safe(i, z, z.path)
      /\ z.path \in DOMAIN z.d => Users(z.t, z.path) # {}
  BY <1>2, <1>3, ReplacedSound
<1> QED
  BY <1>4, RestoredSound

-----------------------------------------------------------------------------
(* Items that are not stored, and items with the file of another row.       *)

LEMMA StraySound ==
  ASSUME NEW i \in Items, NEW s, Sound(i, s), NEW n \in Names \cup {None}
  PROVE  LET x == StrayIfUnused(s, n)
         IN /\ Sound(i, x) /\ \A X : Known(i, s, X \cup {n}) => Known(i, x, X)
            /\ x.d = s.d /\ x.t = s.t /\ x.path = s.path /\ x.faults = s.faults /\ x.torn = s.torn
<1>1. s \in TxState
  BY DEF Sound
<1>2. CASE n # None /\ Users(s.t, n) = {}
  <2> SUFFICES ASSUME NEW x, x = [s EXCEPT !.strays = @ \cup {n}]
               PROVE  /\ Sound(i, x) /\ \A X : Known(i, s, X \cup {n}) => Known(i, x, X)
                      /\ x.d = s.d /\ x.t = s.t /\ x.path = s.path /\ x.faults = s.faults
                      /\ x.torn = s.torn
    BY <1>2 DEF StrayIfUnused
  <2>1. /\ x \in TxState
        /\ x.d = s.d /\ x.t = s.t /\ x.gone = s.gone /\ x.torn = s.torn
        /\ x.path = s.path /\ x.faults = s.faults /\ x.strays = s.strays \cup {n}
    BY <1>1, <1>2 DEF TxState
  <2>2. Sound(i, x)
    BY <2>1, AsideSound
  <2>3. \A X : Known(i, s, X \cup {n}) => Known(i, x, X)
    BY <2>1 DEF Known
  <2> QED
    BY <2>1, <2>2, <2>3
<1>3. CASE n = None \/ Users(s.t, n) # {}
  <2>1. StrayIfUnused(s, n) = s
    BY <1>3 DEF StrayIfUnused
  <2>2. \A X : Known(i, s, X \cup {n}) => Known(i, s, X)
    BY <1>3, NoneIsNoFile, HeldIsKnown
  <2> QED
    BY <2>1, <2>2
<1> QED
  BY <1>2, <1>3

LEMMA LeftBehindFinal ==
  ASSUME NEW i \in Items, NEW s, Sound(i, s), Known(i, s, {s.path})
  PROVE  Final(i, LeftBehind(s)) /\ LeftBehind(s).faults = s.faults
<1>1. s.path \in Names \cup {None}
  BY DEF Sound, TxState
<1>2. Known(i, s, {} \cup {s.path})
  OBVIOUS
<1> QED
  BY <1>1, <1>2, StraySound DEF LeftBehind, Final

LEMMA FaultSound ==
  ASSUME NEW i \in Items, NEW s, Sound(i, s), s.faults < MaxFaults
  PROVE  /\ s.faults + 1 \in 0..MaxFaults
         /\ Sound(i, [s EXCEPT !.faults = @ + 1])
         /\ \A X : Known(i, s, X) => Known(i, [s EXCEPT !.faults = @ + 1], X)
<1>1. s \in TxState /\ s.faults \in 0..MaxFaults /\ MaxFaults \in Nat
  BY FilesAssumption DEF Sound, TxState
<1>2. s.faults + 1 \in 0..MaxFaults
  BY <1>1
<1> SUFFICES ASSUME NEW x, x = [s EXCEPT !.faults = @ + 1]
             PROVE  Sound(i, x) /\ \A X : Known(i, s, X) => Known(i, x, X)
  BY <1>2
<1>3. /\ x \in TxState
      /\ x.d = s.d /\ x.t = s.t /\ x.gone = s.gone /\ x.torn = s.torn /\ x.strays = s.strays
  BY <1>1, <1>2 DEF TxState
<1> QED
  BY <1>3, AsideSound

LEMMA UndecidedFinal ==
  ASSUME NEW i \in Items, NEW s, Sound(i, s), Known(i, s, {s.path}), s.faults < MaxFaults
  PROVE  Final(i, Undecided(s))
<1>1. Final(i, LeftBehind(s)) /\ LeftBehind(s).faults < MaxFaults
  BY LeftBehindFinal
<1> QED
  BY <1>1, FaultSound DEF Final, Undecided

LEMMA RefusedFinal ==
  ASSUME NEW i \in Items, NEW s, Sound(i, s), Known(i, s, {s.path}),
         s.path # None => Safe(i, s, s.path), s.faults < MaxFaults
  PROVE  Final(i, Refused(s))
<1>1. s \in TxState
  BY DEF Sound
<1>2. s.faults + 1 \in 0..MaxFaults
  BY FaultSound
<1>3. CASE s.path = None
  <2>1. Known(i, s, {} \cup {None})
    BY <1>3
  <2>2. Known(i, s, {})
    BY <2>1, NoneIsNoFile
  <2> QED
    BY <1>3, <2>2, FaultSound DEF Final, Refused
<1>4. CASE s.path # None
  <2> DEFINE gone == IF Users(s.t, s.path) # {} THEN s.torn \cup {s.path} ELSE s.torn
             y == [s EXCEPT !.faults = @ + 1, !.torn = gone]
  <2>1. s.path \in Names /\ gone \in SUBSET Names /\ s.torn \subseteq gone
        /\ (Users(s.t, s.path) # {} => s.path \in gone)
    BY <1>1, <1>4 DEF TxState
  <2> HIDE DEF gone
  <2>2. /\ y \in TxState
        /\ y.d = s.d /\ y.t = s.t /\ y.path = s.path /\ y.intended = s.intended /\ y.gone = s.gone
        /\ y.faults = s.faults + 1 /\ y.torn = gone /\ y.strays = s.strays
    BY <1>1, <1>2, <2>1 DEF TxState
  <2>3. Refused(s) = Delete(y, s.path)
    <3>1. Refused(s) = [Delete(s, s.path) EXCEPT !.faults = @ + 1, !.torn = gone]
      BY <1>1, <1>4 DEF Refused, gone, Delete, TxState
    <3> QED
      BY <1>1, <3>1 DEF Delete, TxState
  <2> HIDE DEF y
  <2>4. Sound(i, y) /\ \A X : Known(i, s, X) => Known(i, y, X)
    BY <1>1, <2>1, <2>2, AsideSound
  <2>5. Disposable(i, y, s.path)
    BY <1>1, <1>4, <2>1, <2>2 DEF Safe, Disposable
  <2>6. Known(i, y, {} \cup {s.path})
    BY <1>1, <2>4
  <2>7. Sound(i, Delete(y, s.path)) /\ Known(i, Delete(y, s.path), {})
    BY <2>1, <2>4, <2>5, <2>6, DeleteSound
  <2> QED
    BY <2>3, <2>7 DEF Final
<1> QED
  BY <1>3, <1>4

LEMMA RefusedEarly ==
  ASSUME NEW i \in Items, NEW s, Ready(i, s), s.faults < MaxFaults
  PROVE  Final(i, Refused(s))
BY RefusedFinal DEF Ready, Right

LEMMA RefusedLateFinal ==
  ASSUME NEW i \in Items, NEW s, Ready(i, s), NEW name \in RowNames,
         s.faults < MaxFaults
  PROVE  Final(i, RefusedLate(i, s, name))
<1> SUFFICES ASSUME NEW old, old = OldFile(s, ItemInfo[i].row),
                    NEW x, x = Filled(i, s, name), NEW y, y = StrayIfUnused(x, old)
             PROVE  Final(i, Refused(y))
  BY DEF RefusedLate
<1>1. /\ Sound(i, x) /\ x.path = s.path /\ x.faults = s.faults
      /\ s.path # None => Safe(i, x, s.path)
      /\ Known(i, x, {s.path, old})
  BY FilledSound
<1>2. old \in Names \cup {None}
  BY StateTypes DEF OldFile, Ready, Sound
<1>3. Known(i, x, {s.path} \cup {old})
  BY <1>1 DEF Known
<1>4. /\ Sound(i, y) /\ Known(i, y, {s.path})
      /\ y.path = x.path /\ y.faults = x.faults /\ y.torn = x.torn
  BY <1>1, <1>2, <1>3, StraySound
<1>5. s.path # None => Safe(i, y, s.path)
  BY <1>1, <1>4 DEF Safe
<1> QED
  BY <1>1, <1>4, <1>5, RefusedFinal

LEMMA SettledFinal ==
  ASSUME NEW i \in Items, NEW s, Ready(i, s), NEW z \in Settled(i, s)
  PROVE  Final(i, z)
<1> DEFINE renamed == IF MayStore(i, s) THEN Renamings(i, s) ELSE {}
<1>1. Sound(i, s) /\ Known(i, s, {s.path})
  BY DEF Ready
<1>2. \A x \in renamed :
        Ready(i, x.s) /\ x.s.faults = s.faults /\ x.name \in RowNames
  BY RenamingsReady
<1>3. \/ z = LeftBehind(s)
      \/ \E x \in renamed : z = Stored(i, x.s, x.name)
      \/ s.faults < MaxFaults /\ z \in Errors(i, s, renamed)
  BY DEF Settled
<1> HIDE DEF renamed
<1>4. CASE z = LeftBehind(s)
  BY <1>1, <1>4, LeftBehindFinal
<1>5. ASSUME NEW x \in renamed, z = Stored(i, x.s, x.name) PROVE Final(i, z)
  BY <1>2, <1>5, StoredFinal
<1>6. ASSUME s.faults < MaxFaults, z \in Errors(i, s, renamed) PROVE Final(i, z)
  <2>1. CASE z = Refused(s)
    BY <1>6, <2>1, RefusedEarly
  <2>2. ASSUME NEW x \in renamed, z = Refused(x.s) PROVE Final(i, z)
    BY <1>2, <1>6, <2>2, RefusedEarly
  <2>3. ASSUME NEW x \in renamed, z = RefusedLate(i, x.s, x.name) PROVE Final(i, z)
    BY <1>2, <1>6, <2>3, RefusedLateFinal
  <2>4. CASE z = Undecided(s)
    BY <1>1, <1>6, <2>4, UndecidedFinal
  <2> QED
    BY <1>6, <2>1, <2>2, <2>3, <2>4 DEF Errors
<1> QED
  BY <1>3, <1>4, <1>5, <1>6

(* An item whose turn has just come.                                        *)
Fresh(i, s) ==
  /\ Sound(i, s)
  /\ s.path = None => item[i].hash = None
  /\ item[i].hash = None => Known(i, s, {})
  /\ item[i].hash # None =>
       /\ Ready(i, s)
       /\ Disposable(i, s, s.path)
       /\ s.path \in s.torn \cup s.gone \/ Users(rows, s.path) = {}

LEMMA AdoptedReady ==
  ASSUME NEW i \in Items, NEW s, Fresh(i, s), item[i].hash # None, s.path # None,
         NEW r \in Duplicates(i, s), s.t[r].file \in DOMAIN s.d
  PROVE  Ready(i, Adopted(i, s, s.t[r].file))
<1> DEFINE f == s.t[r].file
<1>1. /\ Sound(i, s) /\ s \in TxState /\ Known(i, s, {s.path}) /\ Right(i, s)
      /\ Disposable(i, s, s.path)
      /\ s.path \in s.torn \cup s.gone \/ Users(rows, s.path) = {}
      /\ item[i].hash \in Hashes
  BY DEF Fresh, Ready, Sound, Right
<1>2. /\ r \in Present(s.t) /\ s.t[r].hash = item[i].hash /\ f \notin {None, s.path}
  BY DEF Duplicates
<1>3. s.path \in Names /\ f \in Names /\ s.d \in Disk
  BY <1>1, <1>2, StateTypes
<1>4. CASE s.d[f] = item[i].hash
  <2> DEFINE y == Delete(s, s.path)
             x == [y EXCEPT !.path = f]
  <2>1. Adopted(i, s, f) = x
    BY <1>4 DEF Adopted
  <2>2. /\ y \in TxState
        /\ y.d = Without(s.d, s.path) /\ y.t = s.t /\ y.torn = s.torn
    BY <1>1, <1>3, DeleteFields
  <2>3. Known(i, s, {} \cup {s.path})
    BY <1>1
  <2>4. Sound(i, y) /\ Known(i, y, {})
    BY <1>1, <1>3, <2>3, DeleteSound
  <2> HIDE DEF y
  <2>5. /\ x \in TxState /\ x.d = y.d /\ x.t = y.t /\ x.gone = y.gone /\ x.torn = y.torn
        /\ x.strays = y.strays /\ x.path = f
    BY <1>3, <2>2 DEF TxState
  <2> HIDE DEF x
  <2>6. Sound(i, x) /\ Known(i, x, {})
    BY <2>4, <2>5, AsideSound
  <2>7. Known(i, x, {x.path})
    BY <2>6 DEF Known
  <2>8. Safe(i, s, f)
    BY <1>1, <1>2, HeldIsSafe
  <2>9. f \in DOMAIN Without(s.d, s.path) /\ Without(s.d, s.path)[f] = s.d[f]
    BY <1>2, <1>3, WithoutFile
  <2>10. Right(i, x)
    BY <1>1, <1>4, <2>2, <2>5, <2>8, <2>9 DEF Right, Safe
  <2> QED
    BY <2>1, <2>6, <2>7, <2>10 DEF Ready
<1>5. CASE s.d[f] # item[i].hash
  <2> DEFINE y == Moved(s, s.path, f)
             x == [y EXCEPT !.path = f]
  <2>1. Adopted(i, s, f) = x
    BY <1>5 DEF Adopted
  <2>2. f \in s.torn
    BY <1>1, <1>2, <1>5 DEF Sound, True
  <2>3. Renamed(s.d, s.path, f) \in Disk
    BY <1>2, <1>3, RenamedFile DEF Renamed, Exists
  <2>4. /\ x \in TxState /\ x.d = Renamed(s.d, s.path, f) /\ x.t = s.t /\ x.path = f
        /\ x.gone = s.gone /\ x.torn = s.torn /\ x.strays = s.strays
    BY <1>1, <1>3, <2>2, <2>3 DEF Moved, TxState
  <2> HIDE DEF x
  <2>5. \A m \in DOMAIN s.d : m # s.path /\ m # f => m \in DOMAIN x.d /\ x.d[m] = s.d[m]
    BY <1>2, <1>3, <2>4, RenamedFile DEF Renamed, Exists
  <2>6. \A m \in DOMAIN x.d : m = f \/ (m \in DOMAIN s.d /\ m # s.path)
    BY <1>2, <1>3, <2>4, RenamedFile DEF Renamed, Exists
  <2>7. True(rows, x.d, x.torn \cup x.gone)
    BY <1>1, <2>2, <2>4, <2>5 DEF Sound, True, Users
  <2>8. True(x.t, x.d, x.torn)
    BY <1>1, <2>2, <2>4, <2>5 DEF Sound, True, Disposable, Users
  <2>9. Spared(i, x.d, x.t, x.torn)
    BY <1>1, <2>2, <2>4, <2>5 DEF Sound, Spared, Disposable
  <2>10. Sound(i, x)
    BY <1>1, <2>4, <2>7, <2>8, <2>9 DEF Sound
  <2>11. Known(i, x, {x.path})
    BY <1>1, <2>4, <2>6 DEF Known
  <2>12. Right(i, x)
    BY <1>1, <2>2, <2>4 DEF Right, Safe
  <2> QED
    BY <2>1, <2>10, <2>11, <2>12 DEF Ready
<1> QED
  BY <1>4, <1>5

LEMMA OutcomesFinal ==
  ASSUME NEW i \in Items, NEW s, Fresh(i, s), NEW z \in Outcomes(i, s)
  PROVE  Final(i, z)
<1>1. Sound(i, s)
  BY DEF Fresh
<1>2. CASE s.path = None
  <2>1. Known(i, s, {})
    BY <1>2 DEF Fresh
  <2>2. Ready(i, s)
    BY <1>1, <1>2, <2>1 DEF Ready, Right, Known
  <2>3. z \in Settled(i, s)
    BY <1>2 DEF Outcomes
  <2> QED
    BY <2>2, <2>3, SettledFinal
<1>3. CASE s.path # None /\ item[i].hash = None
  <2>1. z = s
    BY <1>3 DEF Outcomes
  <2> QED
    BY <1>1, <1>3, <2>1 DEF Fresh, Final
<1>4. CASE s.path # None /\ item[i].hash # None
  <2>1. Ready(i, s)
    BY <1>4 DEF Fresh
  <2>2. CASE z \in Settled(i, s)
    BY <2>1, <2>2, SettledFinal
  <2>3. CASE z = LeftBehind(s)
    BY <2>1, <2>3, LeftBehindFinal DEF Ready
  <2>4. ASSUME NEW r \in Duplicates(i, s), s.t[r].file \in DOMAIN s.d,
               z \in Settled(i, Adopted(i, s, s.t[r].file))
        PROVE  Final(i, z)
    BY <1>4, <2>4, AdoptedReady, SettledFinal
  <2>5. \/ z \in Settled(i, s)
        \/ z = LeftBehind(s)
        \/ \E r \in Duplicates(i, s) : /\ s.t[r].file \in DOMAIN s.d
                                       /\ z \in Settled(i, Adopted(i, s, s.t[r].file))
    BY <1>4 DEF Outcomes, Exists
  <2> QED
    BY <2>2, <2>3, <2>4, <2>5
<1> QED
  BY <1>2, <1>3, <1>4

-----------------------------------------------------------------------------
(* Phase 1: the step of one download, which concerns one file.              *)

(* Item i goes on as x, and the file is p.                                  *)
Claims(x) == x.path # None /\ (x.pc = "copying" \/ x.hash # None)
ItemGoesOn(i, x, p) ==
  /\ item[i].pc # "ready" /\ item' = [item EXCEPT ![i] = x]
  /\ x \in ItemState /\ x.pc \in {"copying", "ready"}
  /\ x.pc = "copying" => x.path # None /\ x.hash = None /\ ItemInfo[i].hash # None
  /\ x.path = None => x.hash = None
  /\ Own(i) => item[i].path = p
  /\ Claims(x) => x.path = p
FileGoesOn(x, p) ==
  /\ disk' \in Disk
  /\ \A m \in DOMAIN disk : m # p => m \in DOMAIN disk' /\ disk'[m] = disk[m]
  /\ \A m \in DOMAIN disk' : m # p => m \in DOMAIN disk
  /\ Claims(x) => p \in torn \/ p \in DOMAIN disk'
  /\ p \in DOMAIN disk' => p \in torn \cup strays' \/ Claims(x)
  /\ x.pc = "ready" /\ x.hash # None /\ p \notin torn => disk'[p] = x.hash
  /\ strays \subseteq strays' /\ strays' \in SUBSET Names
FreeForItem(i, p) ==
  \/ p \in torn \cup {None}
  \/ /\ Users(work, p) = {} /\ (p \notin touched => Users(rows, p) = {})
     /\ \A k \in Items \ {i} : Own(k) => item[k].path # p
     /\ \A u \in Deleters : p \notin Doomed(u)

LEMMA DownloadStep ==
  ASSUME FilesInv, UNCHANGED <<rows, txVars, purge, torn>>, faults' \in 0..MaxFaults,
         NEW i \in Items, NEW x, NEW p,
         ItemGoesOn(i, x, p), FileGoesOn(x, p), FreeForItem(i, p)
  PROVE  FilesInv'
<1>0. /\ item[i].pc # "ready" /\ item' = [item EXCEPT ![i] = x]
      /\ x \in ItemState /\ x.pc \in {"copying", "ready"}
      /\ x.pc = "copying" => x.path # None /\ x.hash = None /\ ItemInfo[i].hash # None
      /\ x.path = None => x.hash = None
      /\ Own(i) => item[i].path = p
      /\ Claims(x) => x.path = p
      /\ disk' \in Disk
      /\ \A m \in DOMAIN disk : m # p => m \in DOMAIN disk' /\ disk'[m] = disk[m]
      /\ \A m \in DOMAIN disk' : m # p => m \in DOMAIN disk
      /\ Claims(x) => p \in torn \/ p \in DOMAIN disk'
      /\ p \in DOMAIN disk' => p \in torn \cup strays' \/ Claims(x)
      /\ x.pc = "ready" /\ x.hash # None /\ p \notin torn => disk'[p] = x.hash
      /\ strays \subseteq strays' /\ strays' \in SUBSET Names
      /\ \/ p \in torn \cup {None}
         \/ /\ Users(work, p) = {} /\ (p \notin touched => Users(rows, p) = {})
            /\ \A k \in Items \ {i} : Own(k) => item[k].path # p
            /\ \A u \in Deleters : p \notin Doomed(u)
  BY DEF ItemGoesOn, FileGoesOn, FreeForItem
<1> USE <1>0 DEF Claims
<1> USE DEF txVars
<1>1. /\ Typed /\ ItemsAreStaged /\ BatchIsReady /\ FilesHaveHashes /\ TablesAreTrue
      /\ SharedMeansEqual /\ OwnAreFree /\ DoomedAreFree /\ OwnedOnce /\ DownloadsAreSafe /\ Accounted
  BY DEF FilesInv
<1>2. item \in [Items -> ItemState]
  BY <1>1 DEF Typed
<1>3. item'[i] = x /\ \A k \in Items : k # i => item'[k] = item[k]
  BY <1>2
<1>4. Typed'
  BY <1>1 DEF Typed
<1>5. ItemsAreStaged'
  <2> SUFFICES ASSUME NEW k \in Items
               PROVE  /\ item'[k].pc \in {"idle", "done"} => item'[k].path = None
                      /\ item'[k].pc = "copying" =>
                           item'[k].path # None /\ item'[k].hash = None /\ ItemInfo[k].hash # None
                      /\ item'[k].path = None => item'[k].hash = None
    BY DEF ItemsAreStaged
  <2>1. CASE k = i
    BY <1>3, <2>1
  <2>2. CASE k # i
    BY <1>1, <1>3, <2>2 DEF ItemsAreStaged
  <2> QED
    BY <2>1, <2>2
<1>6. BatchIsReady'
  <2>1. (writer = None => work = NoTable /\ touched = {})'
    BY <1>1 DEF BatchIsReady
  <2>2. ASSUME writer # None, NEW m \in DOMAIN Batches[writer], m >= next
        PROVE  item'[Batches[writer][m]].pc = "ready"
    <3>1. item[Batches[writer][m]].pc = "ready"
      BY <1>1, <2>2 DEF BatchIsReady
    <3>2. Batches[writer][m] \in Items
      BY <1>1, <2>2, BatchItems DEF Typed
    <3> QED
      BY <1>3, <3>1, <3>2
  <2> QED
    BY <2>1, <2>2 DEF BatchIsReady
<1>7. FilesHaveHashes' /\ SharedMeansEqual'
  BY <1>1 DEF FilesHaveHashes, SharedMeansEqual, Present, Users
<1>8. True(rows, disk, torn \cup touched)'
  BY <1>1 DEF TablesAreTrue, True, Users, Present
<1>9. True(work, disk, torn)'
  BY <1>1 DEF TablesAreTrue, True, Users, Present
<1>10. \A k \in Items : k # i => (Own(k)' <=> Own(k))
  BY <1>3 DEF Own
<1>11. Own(i)' => item'[i].path = p /\ (p \in torn \/ p \in DOMAIN disk')
  BY <1>3 DEF Own
<1>12. \A u \in Deleters : Doomed(u)' = Doomed(u)
  BY DEF Doomed
<1>13. \A n : n # p /\ Unclaimed(n) => Unclaimed(n)'
  BY DEF Unclaimed, Users, Present
<1>14. p \in DOMAIN disk' => p \in torn \/ Unclaimed(p)'
  <2>1. p \in DOMAIN disk' => p # None
    BY DiskType, FilesAssumption
  <2> QED
    BY <2>1 DEF Unclaimed, Users, Present
<1>15. OwnAreFree'
  <2> SUFFICES ASSUME NEW k \in Items, Own(k)', item'[k].path \notin torn
               PROVE  Unclaimed(item[k].path)'
    BY DEF OwnAreFree
  <2>1. CASE k = i
    BY <1>11, <1>14, <2>1
  <2>2. CASE k # i
    <3>1. Own(k) /\ item'[k].path = item[k].path
      BY <1>3, <1>10, <2>2
    <3>2. Unclaimed(item[k].path) /\ item[k].path # p
      BY <1>1, <2>2, <3>1 DEF OwnAreFree, Own
    <3> QED
      BY <1>13, <3>1, <3>2
  <2> QED
    BY <2>1, <2>2
<1>16. DoomedAreFree'
  <2> SUFFICES ASSUME NEW u \in Deleters, NEW n \in Doomed(u) \ torn PROVE Unclaimed(n)'
    BY <1>12 DEF DoomedAreFree
  <2>1. Unclaimed(n)
    BY <1>1 DEF DoomedAreFree
  <2>2. n # None
    BY <1>1, <2>1, DiskType, FilesAssumption DEF Unclaimed, Typed
  <2> QED
    BY <1>13, <2>1, <2>2
<1>17. OwnedOnce'
  <2>1. \A k \in Items : k # i /\ Own(k) => item[k].path # p \/ p \in torn
    BY DEF Own
  <2>2. OwnDownloads'
    <3> SUFFICES ASSUME NEW k \in Items, NEW l \in Items, k # l,
                        \A y \in {k, l} : item'[y].pc = "copying" \/ item'[y].hash # None,
                        item'[k].path = item'[l].path
                 PROVE  item'[k].path \in {None} \cup torn
      BY DEF OwnDownloads
    <3>1. CASE k # i /\ l # i
      BY <1>1, <1>3, <3>1 DEF OwnedOnce, OwnDownloads
    <3>2. CASE k = i
      BY <1>3, <1>10, <1>11, <2>1, <3>2 DEF Own
    <3>3. CASE l = i
      BY <1>3, <1>10, <1>11, <2>1, <3>3 DEF Own
    <3> QED
      BY <3>1, <3>2, <3>3
  <2>3. ASSUME NEW k \in Items, NEW u \in Deleters, Own(k)', item'[k].path \in Doomed(u)
        PROVE  item'[k].path \in torn
    <3>1. CASE k = i
      BY <1>3, <1>11, <2>3, <3>1 DEF Own
    <3>2. CASE k # i
      BY <1>1, <1>3, <1>10, <2>3, <3>2 DEF OwnedOnce
    <3> QED
      BY <3>1, <3>2
  <2>4. \A u, v \in Deleters : u # v => Doomed(u) \cap Doomed(v) \subseteq torn
    BY <1>1 DEF OwnedOnce
  <2> QED
    BY <1>12, <2>2, <2>3, <2>4 DEF OwnedOnce
<1>18. DownloadsAreSafe'
  <2> SUFFICES ASSUME NEW k \in Items, item'[k].pc = "ready", item'[k].hash # None,
                      item'[k].path \notin {None} \cup torn
               PROVE  item'[k].path \in DOMAIN disk' /\ disk'[item'[k].path] = item'[k].hash
    BY DEF DownloadsAreSafe, Exists
  <2>1. CASE k = i
    BY <1>3, <2>1
  <2>2. CASE k # i
    <3>1. item[k].path \in DOMAIN disk /\ disk[item[k].path] = item[k].hash
      BY <1>1, <1>3, <2>2 DEF DownloadsAreSafe, Exists
    <3>2. item[k].path # p
      BY <1>3, <2>2 DEF Own
    <3> QED
      BY <1>3, <2>2, <3>1, <3>2
  <2> QED
    BY <2>1, <2>2
<1>19. Accounted'
  <2> SUFFICES ASSUME NEW n \in DOMAIN disk'
               PROVE  Users(Truth', n) # {} \/ n \in OwnPaths' \cup ToDelete \cup torn \cup strays'
    BY DEF Accounted, Users, Present, ToDelete
  <2>0. Truth' = Truth
    BY DEF Truth
  <2>1. CASE n = p
    <3>1. p # None
      BY <2>1, DiskType, FilesAssumption
    <3>2. p \in torn \cup strays' \/ (Own(i)' /\ item'[i].path = p)
      BY <1>3, <2>1, <3>1 DEF Own
    <3>3. Own(i)' => item'[i].path \in OwnPaths'
      BY DEF OwnPaths
    <3> QED
      BY <2>1, <3>2, <3>3
  <2>2. CASE n # p
    <3>1. n \in DOMAIN disk
      BY <2>2
    <3>2. Users(Truth, n) # {} \/ n \in OwnPaths \cup ToDelete \cup torn \cup strays
      BY <1>1, <3>1 DEF Accounted
    <3>3. ASSUME n \in OwnPaths PROVE n \in OwnPaths'
      <4>1. PICK k \in Items : Own(k) /\ item[k].path = n
        BY <3>3 DEF OwnPaths
      <4>2. k # i
        BY <2>2, <4>1
      <4>3. Own(k)' /\ item'[k].path = n
        BY <1>3, <1>10, <4>1, <4>2
      <4> QED
        BY <4>3 DEF OwnPaths
    <3> QED
      BY <2>0, <3>2, <3>3
  <2> QED
    BY <2>1, <2>2
<1> QED
  BY <1>4, <1>5, <1>6, <1>7, <1>8, <1>9, <1>15, <1>16, <1>17, <1>18, <1>19 DEF FilesInv, TablesAreTrue

(* A name that is not on disk is nobody's.                                  *)
LEMMA NewIsFree ==
  ASSUME FilesInv, NEW n \in Names, n \notin DOMAIN disk, n \notin torn
  PROVE  /\ Users(work, n) = {} /\ (n \notin touched => Users(rows, n) = {})
         /\ \A k \in Items : Own(k) => item[k].path # n
         /\ \A u \in Deleters : n \notin Doomed(u)
<1>1. n # None
  BY FilesAssumption
<1>2. Users(work, n) = {} /\ (n \notin touched => Users(rows, n) = {})
  BY <1>1 DEF FilesInv, TablesAreTrue, True, Users
<1>3. \A k \in Items : Own(k) => item[k].path # n
  BY DEF FilesInv, OwnAreFree, Unclaimed
<1>4. \A u \in Deleters : n \notin Doomed(u)
  BY DEF FilesInv, DoomedAreFree, Unclaimed
<1> QED
  BY <1>2, <1>3, <1>4

LEMMA OpenFilePreserves ==
  ASSUME FilesInv, NEW i \in Items, OpenFile(i)
  PROVE  FilesInv'
<1>1. PICK n \in IF ItemInfo[i].hash = None THEN {None}
                 ELSE Unique(disk, NoTable, ItemInfo[i].base) :
        /\ item' = [item EXCEPT ![i] = [pc |-> IF n = None THEN "ready" ELSE "copying",
                                        path |-> n, hash |-> None]]
        /\ disk' = IF n = None THEN disk ELSE With(disk, n, "partial")
  BY DEF OpenFile
<1>2. /\ item[i].pc = "idle"
      /\ UNCHANGED <<rows, txVars, purge, torn, strays>> /\ faults' = faults
  BY DEF OpenFile
<1>3. disk \in Disk /\ item \in [Items -> ItemState] /\ faults \in 0..MaxFaults
      /\ strays \in SUBSET Names
  BY DEF FilesInv, Typed
<1>4. ~Own(i)
  BY <1>2 DEF FilesInv, ItemsAreStaged, Own
<1>5. CASE n = None
  <2> DEFINE x == [pc |-> "ready", path |-> None, hash |-> None]
  <2>1. x \in ItemState /\ item' = [item EXCEPT ![i] = x]
    BY <1>1, <1>5 DEF ItemState
  <2>2. x.pc = "ready" /\ x.path = None /\ x.hash = None
    OBVIOUS
  <2> HIDE DEF x
  <2>3. disk' = disk
    BY <1>1, <1>5
  <2>4. None \notin DOMAIN disk'
    BY <1>3, <2>3, DiskType, FilesAssumption
  <2> QED
    <3>1. ItemGoesOn(i, x, None)
      BY <1>2, <1>4, <2>1, <2>2 DEF ItemGoesOn, Claims
    <3>2. FileGoesOn(x, None)
      BY <1>2, <1>3, <2>2, <2>3, <2>4 DEF FileGoesOn, Claims
    <3> QED
      BY <1>2, <1>3, <3>1, <3>2, DownloadStep DEF FreeForItem
<1>6. CASE n # None
  <2> DEFINE x == [pc |-> "copying", path |-> n, hash |-> None]
  <2>1. ItemInfo[i].hash # None /\ n \in Names /\ n \notin DOMAIN disk
    BY <1>1, <1>6, UniqueIsFree
  <2>2. x \in ItemState /\ item' = [item EXCEPT ![i] = x]
    BY <1>1, <1>6, <2>1 DEF ItemState
  <2>3. x.pc = "copying" /\ x.path = n /\ x.hash = None
    OBVIOUS
  <2> HIDE DEF x
  <2>4. disk' = With(disk, n, "partial")
    BY <1>1, <1>6
  <2>5. /\ disk' \in Disk
        /\ \A m : m \in DOMAIN disk' <=> m \in DOMAIN disk \/ m = n
        /\ \A m \in DOMAIN disk : m # n => disk'[m] = disk[m]
    <3>1. "partial" \in Contents
      BY DEF Contents
    <3> QED
      BY <1>3, <2>1, <2>4, <3>1, WithFile
  <2>6. n \in torn \/
          /\ Users(work, n) = {} /\ (n \notin touched => Users(rows, n) = {})
          /\ \A k \in Items \ {i} : Own(k) => item[k].path # n
          /\ \A u \in Deleters : n \notin Doomed(u)
    BY <2>1, NewIsFree
  <2> QED
    <3>1. ItemGoesOn(i, x, n)
      BY <1>2, <1>4, <1>6, <2>1, <2>2, <2>3 DEF ItemGoesOn, Claims
    <3>2. FileGoesOn(x, n)
      BY <1>2, <1>3, <1>6, <2>3, <2>5 DEF FileGoesOn, Claims
    <3>3. FreeForItem(i, n)
      BY <2>6 DEF FreeForItem
    <3> QED
      BY <1>2, <1>3, <3>1, <3>2, <3>3, DownloadStep
<1> QED
  BY <1>5, <1>6

(* What an item has is nobody else's.                                       *)
LEMMA OwnIsFree ==
  ASSUME FilesInv, NEW i \in Items, Own(i), item[i].path \notin torn
  PROVE  /\ item[i].path \in DOMAIN disk
         /\ Users(work, item[i].path) = {}
         /\ item[i].path \notin touched => Users(rows, item[i].path) = {}
         /\ \A k \in Items \ {i} : Own(k) => item[k].path # item[i].path
         /\ \A u \in Deleters : item[i].path \notin Doomed(u)
<1>1. Unclaimed(item[i].path)
  BY DEF FilesInv, OwnAreFree
<1>2. \A k \in Items \ {i} : Own(k) => item[k].path # item[i].path
  BY DEF FilesInv, OwnedOnce, OwnDownloads, Own
<1>3. \A u \in Deleters : item[i].path \notin Doomed(u)
  BY DEF FilesInv, OwnedOnce
<1> QED
  BY <1>1, <1>2, <1>3 DEF Unclaimed

LEMMA FinishDownloadPreserves ==
  ASSUME FilesInv, NEW i \in Items, FinishDownload(i)
  PROVE  FilesInv'
<1> DEFINE p == item[i].path
           x == [pc |-> "ready", path |-> p, hash |-> ItemInfo[i].hash]
<1>1. /\ item[i].pc = "copying"
      /\ UNCHANGED <<rows, txVars, purge, torn, strays>> /\ faults' = faults
      /\ item' = [item EXCEPT ![i].pc = "ready", ![i].hash = ItemInfo[i].hash]
      /\ disk' = IF Exists(disk, p) THEN With(disk, p, ItemInfo[i].hash) ELSE disk
  BY DEF FinishDownload
<1>2. disk \in Disk /\ item \in [Items -> ItemState] /\ faults \in 0..MaxFaults
      /\ strays \in SUBSET Names
  BY DEF FilesInv, Typed
<1>3. p # None /\ ItemInfo[i].hash # None /\ Own(i)
  BY <1>1 DEF FilesInv, ItemsAreStaged, Own
<1>4. p \in Names /\ ItemInfo[i].hash \in Hashes
  <2>1. item[i] \in ItemState
    BY <1>2
  <2> QED
    BY <1>3, <2>1, ItemTypes DEF ItemState
<1>5. x \in ItemState
  BY <1>4 DEF ItemState
<1>6. item' = [item EXCEPT ![i] = x]
  <2>1. item[i] \in ItemState
    BY <1>2
  <2>2. item' \in [Items -> [pc: {"ready"}, path: Names \cup {None}, hash: {ItemInfo[i].hash}]
                              \cup ItemState]
    BY <1>1, <1>2, <2>1 DEF ItemState
  <2>3. \A k \in Items : k # i => item'[k] = item[k]
    BY <1>1, <1>2
  <2>4. item'[i] = x
    BY <1>1, <1>2, <2>1 DEF ItemState, x
  <2> QED
    BY <1>2, <2>2, <2>3, <2>4
<1>7. x.pc = "ready" /\ x.path = p /\ x.hash = ItemInfo[i].hash
  OBVIOUS
<1> HIDE DEF x
<1>8. /\ disk' \in Disk
      /\ \A m : m \in DOMAIN disk' <=> m \in DOMAIN disk
      /\ \A m \in DOMAIN disk : m # p => disk'[m] = disk[m]
      /\ p \in DOMAIN disk => disk'[p] = ItemInfo[i].hash
  <2>1. ItemInfo[i].hash \in Contents
    BY <1>4 DEF Contents
  <2> QED
    BY <1>1, <1>2, <1>4, <2>1, WithFile DEF Exists
<1>9. p \in torn \/
        /\ p \in DOMAIN disk
        /\ Users(work, p) = {} /\ (p \notin touched => Users(rows, p) = {})
        /\ \A k \in Items \ {i} : Own(k) => item[k].path # p
        /\ \A u \in Deleters : p \notin Doomed(u)
  BY <1>3, OwnIsFree
<1>10. ItemGoesOn(i, x, p)
  BY <1>1, <1>3, <1>5, <1>6, <1>7 DEF ItemGoesOn, Claims
<1>11. FileGoesOn(x, p)
  BY <1>1, <1>2, <1>3, <1>7, <1>8, <1>9 DEF FileGoesOn, Claims
<1>12. FreeForItem(i, p)
  BY <1>9 DEF FreeForItem
<1> QED
  BY <1>1, <1>2, <1>10, <1>11, <1>12, DownloadStep

(* A download that fails: the file goes, or nobody knows of it any more.    *)
LEMMA DownloadLostPreserves ==
  ASSUME FilesInv, NEW i \in Items, item[i].pc = "copying", NEW path \in {item[i].path, None},
         item' = [item EXCEPT ![i] = [pc |-> "ready", path |-> path, hash |-> None]],
         \/ disk' = Without(disk, item[i].path) /\ strays' = strays
         \/ disk' = disk /\ strays' = strays \cup {item[i].path},
         Fault, UNCHANGED <<rows, txVars, purge, torn>>
  PROVE  FilesInv'
<1> DEFINE p == item[i].path
           x == [pc |-> "ready", path |-> path, hash |-> None]
<1>1. disk \in Disk /\ item \in [Items -> ItemState] /\ faults \in 0..MaxFaults
      /\ strays \in SUBSET Names
  BY DEF FilesInv, Typed
<1>2. p # None /\ Own(i)
  BY DEF FilesInv, ItemsAreStaged, Own
<1>3. p \in Names
  BY <1>1, <1>2 DEF ItemState
<1>4. x \in ItemState /\ item' = [item EXCEPT ![i] = x]
  BY <1>3 DEF ItemState
<1>5. x.pc = "ready" /\ x.hash = None
  OBVIOUS
<1> HIDE DEF x
<1>6. /\ disk' \in Disk
      /\ \A m \in DOMAIN disk : m # p => m \in DOMAIN disk' /\ disk'[m] = disk[m]
      /\ \A m \in DOMAIN disk' : m # p => m \in DOMAIN disk
      /\ p \in DOMAIN disk' => p \in strays'
      /\ strays \subseteq strays' /\ strays' \in SUBSET Names
  <2>1. CASE disk' = Without(disk, p) /\ strays' = strays
    BY <1>1, <2>1, WithoutFile
  <2>2. CASE disk' = disk /\ strays' = strays \cup {p}
    BY <1>1, <1>3, <2>2
  <2> QED
    BY <2>1, <2>2
<1>7. p \in torn \/
        /\ p \in DOMAIN disk
        /\ Users(work, p) = {} /\ (p \notin touched => Users(rows, p) = {})
        /\ \A k \in Items \ {i} : Own(k) => item[k].path # p
        /\ \A u \in Deleters : p \notin Doomed(u)
  BY <1>2, OwnIsFree
<1>8. faults' \in 0..MaxFaults
  <2>1. MaxFaults \in Nat
    BY FilesAssumption
  <2> QED
    BY <1>1, <2>1 DEF Fault
<1>9. ItemGoesOn(i, x, p)
  BY <1>2, <1>4, <1>5 DEF ItemGoesOn, Claims
<1>10. FileGoesOn(x, p)
  BY <1>5, <1>6 DEF FileGoesOn, Claims
<1>11. FreeForItem(i, p)
  BY <1>7 DEF FreeForItem
<1> QED
  BY <1>8, <1>9, <1>10, <1>11, DownloadStep

LEMMA FailDownloadPreserves ==
  ASSUME FilesInv, NEW i \in Items, FailDownload(i)
  PROVE  FilesInv'
<1> DEFINE x == [pc |-> "ready", path |-> item[i].path, hash |-> None]
<1>1. item \in [Items -> ItemState] /\ item[i].hash = None
  BY DEF FilesInv, Typed, FailDownload, ItemsAreStaged
<1>2. item' = [item EXCEPT ![i].pc = "ready"]
  BY DEF FailDownload
<1>3. item' = [item EXCEPT ![i] = x]
  <2>1. item[i] \in ItemState
    BY <1>1
  <2>2. item' \in [Items -> ItemState]
    BY <1>1, <1>2, <2>1 DEF ItemState
  <2>3. \A k \in Items : k # i => item'[k] = item[k]
    BY <1>1, <1>2
  <2>4. item'[i] = x
    BY <1>1, <1>2, <2>1 DEF ItemState
  <2> HIDE DEF x
  <2> QED
    BY <1>1, <2>2, <2>3, <2>4
<1> QED
  BY <1>3, DownloadLostPreserves DEF FailDownload

LEMMA FailSyncPreserves ==
  ASSUME FilesInv, NEW i \in Items, FailSync(i)
  PROVE  FilesInv'
<1> DEFINE x == [pc |-> "ready", path |-> item[i].path, hash |-> None]
<1>1. item \in [Items -> ItemState] /\ item[i].hash = None
  BY DEF FilesInv, Typed, FailSync, ItemsAreStaged
<1>2. item' = [item EXCEPT ![i].pc = "ready"]
  BY DEF FailSync
<1>3. item' = [item EXCEPT ![i] = x]
  <2>1. item[i] \in ItemState
    BY <1>1
  <2>2. item' \in [Items -> ItemState]
    BY <1>1, <1>2, <2>1 DEF ItemState
  <2>3. \A k \in Items : k # i => item'[k] = item[k]
    BY <1>1, <1>2
  <2>4. item'[i] = x
    BY <1>1, <1>2, <2>1 DEF ItemState
  <2> HIDE DEF x
  <2> QED
    BY <1>1, <2>2, <2>3, <2>4
<1> QED
  BY <1>3, DownloadLostPreserves DEF FailSync

LEMMA EmptyDownloadPreserves ==
  ASSUME FilesInv, NEW i \in Items, EmptyDownload(i)
  PROVE  FilesInv'
<1> DEFINE x == [pc |-> "ready", path |-> None, hash |-> None]
<1>1. item \in [Items -> ItemState] /\ item[i].hash = None
  BY DEF FilesInv, Typed, EmptyDownload, ItemsAreStaged
<1>2. item' = [item EXCEPT ![i].pc = "ready", ![i].path = None]
  BY DEF EmptyDownload
<1>3. item' = [item EXCEPT ![i] = x]
  <2>1. item[i] \in ItemState
    BY <1>1
  <2>2. item' \in [Items -> ItemState]
    BY <1>1, <1>2, <2>1 DEF ItemState
  <2>3. \A k \in Items : k # i => item'[k] = item[k]
    BY <1>1, <1>2
  <2>4. item'[i] = x
    BY <1>1, <1>2, <2>1 DEF ItemState
  <2> HIDE DEF x
  <2> QED
    BY <1>1, <2>2, <2>3, <2>4
<1> QED
  BY <1>3, DownloadLostPreserves DEF EmptyDownload

-----------------------------------------------------------------------------
(* Phase 2: transactions.                                                   *)

LEMMA NoTableIsEmpty ==
  /\ NoTable \in Table /\ NoTable \in Disk /\ Present(NoTable) = {}
  /\ \A n : Users(NoTable, n) = {}
<1>1. NoTable \in [{} -> Row] /\ NoTable \in [{} -> Contents] /\ DOMAIN NoTable = {}
  BY DEF NoTable
<1>2. NoTable \in Table /\ NoTable \in Disk
  BY <1>1, MakeTable, MakeDisk
<1> QED
  BY <1>1, <1>2 DEF Present, Users

LEMMA BeginBatchPreserves ==
  ASSUME FilesInv, NEW j \in Jobs, BeginBatch(j)
  PROVE  FilesInv'
<1>1. /\ Typed /\ ItemsAreStaged /\ BatchIsReady /\ FilesHaveHashes /\ TablesAreTrue
      /\ SharedMeansEqual /\ OwnAreFree /\ DoomedAreFree /\ OwnedOnce /\ DownloadsAreSafe /\ Accounted
  BY DEF FilesInv
<1>2. /\ writer = None /\ writer' = j /\ work' = rows /\ next' = 1 /\ touched' = {}
      /\ UNCHANGED <<disk, rows, item, purge, faults, torn, strays>>
      /\ \A k \in DOMAIN Batches[j] : item[Batches[j][k]].pc = "ready"
  BY DEF BeginBatch
<1>3. work = NoTable /\ touched = {} /\ j # None
  BY <1>1, <1>2, FilesAssumption DEF BatchIsReady
<1>4. Typed'
  BY <1>1, <1>2 DEF Typed
<1>5. ItemsAreStaged' /\ SharedMeansEqual' /\ DownloadsAreSafe'
  BY <1>1, <1>2 DEF ItemsAreStaged, SharedMeansEqual, DownloadsAreSafe, Present
<1>6. BatchIsReady'
  BY <1>2, <1>3 DEF BatchIsReady
<1>7. FilesHaveHashes'
  BY <1>1, <1>2 DEF FilesHaveHashes, Present
<1>8. TablesAreTrue'
  BY <1>1, <1>2, <1>3 DEF TablesAreTrue, True, Present
<1>9. \A n : Unclaimed(n) => Unclaimed(n)'
  BY <1>2, <1>3 DEF Unclaimed, Users, Present
<1>10. /\ \A k \in Items : Own(k)' <=> Own(k)
       /\ \A u \in Deleters : Doomed(u)' = Doomed(u)
  BY <1>2 DEF Own, Doomed
<1>11. OwnAreFree' /\ DoomedAreFree'
  BY <1>1, <1>2, <1>9, <1>10 DEF OwnAreFree, DoomedAreFree
<1>12. OwnedOnce'
  BY <1>1, <1>2, <1>10 DEF OwnedOnce, OwnDownloads
<1>13. Accounted'
  <2>1. Truth' = rows /\ Truth = rows
    BY <1>2, <1>3 DEF Truth
  <2>2. OwnPaths' = OwnPaths /\ ToDelete' = ToDelete
    BY <1>2 DEF OwnPaths, Own, ToDelete
  <2>3. \A n \in DOMAIN disk : Users(rows, n) # {} \/ n \in OwnPaths \cup ToDelete \cup torn \cup strays
    BY <1>1, <2>1 DEF Accounted
  <2> QED
    BY <1>2, <2>1, <2>2, <2>3 DEF Accounted, Users, Present
<1> QED
  BY <1>4, <1>5, <1>6, <1>7, <1>8, <1>11, <1>12, <1>13 DEF FilesInv

LEMMA CommitBatchPreserves ==
  ASSUME FilesInv, CommitBatch
  PROVE  FilesInv'
<1>1. /\ Typed /\ ItemsAreStaged /\ BatchIsReady /\ FilesHaveHashes /\ TablesAreTrue
      /\ SharedMeansEqual /\ OwnAreFree /\ DoomedAreFree /\ OwnedOnce /\ DownloadsAreSafe /\ Accounted
  BY DEF FilesInv
<1>2. /\ writer # None /\ writer' = None /\ rows' = work /\ work' = NoTable /\ next' = 0
      /\ touched' = {} /\ UNCHANGED <<disk, item, purge, faults, torn, strays>>
  BY DEF CommitBatch, NoTx
<1>3. Typed'
  BY <1>1, <1>2, NoTableIsEmpty DEF Typed
<1>4. ItemsAreStaged' /\ DownloadsAreSafe'
  BY <1>1, <1>2 DEF ItemsAreStaged, DownloadsAreSafe
<1>5. SharedMeansEqual'
  <2> SUFFICES ASSUME NEW q \in Present(work), NEW r \in Present(work),
                      work[q].file = work[r].file, work[q].file \notin torn
               PROVE  work[q].hash = work[r].hash
    BY <1>2 DEF SharedMeansEqual, Present
  <2>1. CASE work[q].file = None
    BY <1>1, <2>1 DEF FilesHaveHashes
  <2>2. CASE work[q].file # None
    BY <1>1, <2>2 DEF TablesAreTrue, True
  <2> QED
    BY <2>1, <2>2
<1>6. BatchIsReady'
  BY <1>2 DEF BatchIsReady
<1>7. FilesHaveHashes'
  BY <1>1, <1>2, NoTableIsEmpty DEF FilesHaveHashes, Present
<1>8. TablesAreTrue'
  BY <1>1, <1>2, NoTableIsEmpty DEF TablesAreTrue, True, Present
<1>9. \A n : Unclaimed(n) => Unclaimed(n)'
  BY <1>2, NoTableIsEmpty DEF Unclaimed, Users, Present
<1>10. /\ \A k \in Items : Own(k)' <=> Own(k)
       /\ \A u \in Deleters : Doomed(u)' = Doomed(u)
  BY <1>2 DEF Own, Doomed
<1>11. OwnAreFree' /\ DoomedAreFree'
  BY <1>1, <1>2, <1>9, <1>10 DEF OwnAreFree, DoomedAreFree
<1>12. OwnedOnce'
  BY <1>1, <1>2, <1>10 DEF OwnedOnce, OwnDownloads
<1>13. Accounted'
  <2>1. Truth' = work /\ Truth = work
    BY <1>2 DEF Truth
  <2>2. OwnPaths' = OwnPaths /\ ToDelete' = ToDelete
    BY <1>2 DEF OwnPaths, Own, ToDelete
  <2>3. \A n \in DOMAIN disk : Users(work, n) # {} \/ n \in OwnPaths \cup ToDelete \cup torn \cup strays
    BY <1>1, <2>1 DEF Accounted
  <2> QED
    BY <1>2, <2>1, <2>2, <2>3 DEF Accounted, Users, Present
<1> QED
  BY <1>3, <1>4, <1>5, <1>6, <1>7, <1>8, <1>11, <1>12, <1>13 DEF FilesInv

(* The item whose turn it is.                                               *)
LEMMA TurnIsFresh ==
  ASSUME FilesInv, writer # None, next \in DOMAIN Batches[writer]
  PROVE  Batches[writer][next] \in Items /\ Fresh(Batches[writer][next], State(Batches[writer][next]))
<1> SUFFICES ASSUME NEW i, i = Batches[writer][next], NEW s, s = State(i)
             PROVE  i \in Items /\ Fresh(i, s)
  OBVIOUS
<1>1. /\ Typed /\ ItemsAreStaged /\ BatchIsReady /\ FilesHaveHashes /\ TablesAreTrue
      /\ OwnAreFree /\ DoomedAreFree /\ OwnedOnce /\ DownloadsAreSafe /\ Accounted
  BY DEF FilesInv
<1>2. i \in Items /\ item[i].pc = "ready"
  BY <1>1, BatchItems DEF Typed, BatchIsReady
<1>3. item[i] \in ItemState
  BY <1>1, <1>2 DEF Typed
<1>4. /\ s.d = disk /\ s.t = work /\ s.path = item[i].path /\ s.gone = touched
      /\ s.torn = torn /\ s.strays = strays /\ s \in TxState
  <2>1. item[i].path \in Names \cup {None} /\ ItemInfo[i].base \in Bases
    BY <1>2, <1>3, ItemTypes DEF ItemState
  <2> QED
    BY <1>1, <2>1 DEF State, TxState, Typed
<1>5. Own(i) <=> item[i].hash # None
  BY <1>1, <1>2 DEF Own, ItemsAreStaged
<1>6. Sound(i, s)
  <2>1. Spared(i, disk, work, torn)
    <3> SUFFICES ASSUME NEW n \in Relied(i) \ torn PROVE n \in DOMAIN disk /\ Users(work, n) = {}
      BY DEF Spared
    <3>1. CASE n \in OtherPaths(i)
      BY <1>1, <3>1 DEF OtherPaths, OwnAreFree, Unclaimed
    <3>2. CASE \E u \in Deleters : n \in Doomed(u)
      BY <1>1, <3>2 DEF DoomedAreFree, Unclaimed
    <3> QED
      BY <3>1, <3>2 DEF Relied
  <2>2. True(rows, disk, torn \cup touched) /\ True(work, disk, torn)
    BY <1>1 DEF TablesAreTrue
  <2>3. \A r \in Present(work) : work[r].file = None <=> work[r].hash = None
    BY <1>1 DEF FilesHaveHashes
  <2> QED
    BY <1>4, <2>1, <2>2, <2>3 DEF Sound
<1>7. \A n \in DOMAIN disk :
        Users(work, n) # {} \/ n \in OwnPaths \cup ToDelete \cup torn \cup strays
  BY <1>1 DEF Accounted, Truth
<1>8. OwnPaths \subseteq OtherPaths(i) \cup {item[i].path}
  BY <1>2 DEF OwnPaths, OtherPaths
<1>9. Known(i, s, {s.path})
  BY <1>4, <1>7, <1>8 DEF Known, Others
<1>10. ASSUME item[i].hash = None PROVE Known(i, s, {})
  <2>1. OwnPaths \subseteq OtherPaths(i)
    BY <1>5, <1>10 DEF OwnPaths, OtherPaths
  <2> QED
    BY <1>4, <1>7, <2>1 DEF Known, Others
<1>11. ASSUME item[i].hash # None
       PROVE  /\ Ready(i, s) /\ Disposable(i, s, s.path)
              /\ s.path \in s.torn \cup s.gone \/ Users(rows, s.path) = {}
  <2>1. Own(i) /\ item[i].path # None /\ item[i].hash \in Hashes
    BY <1>3, <1>5, <1>11 DEF Own, ItemState
  <2>2. item[i].path \notin torn =>
          /\ item[i].path \in DOMAIN disk
          /\ Users(work, item[i].path) = {}
          /\ item[i].path \notin touched => Users(rows, item[i].path) = {}
          /\ \A k \in Items \ {i} : Own(k) => item[k].path # item[i].path
          /\ \A u \in Deleters : item[i].path \notin Doomed(u)
    BY <1>2, <2>1, OwnIsFree
  <2>3. item[i].path \notin torn => item[i].path \notin Relied(i)
    BY <2>2 DEF Relied, OtherPaths
  <2>4. item[i].path \notin torn => disk[item[i].path] = item[i].hash
    BY <1>1, <1>2, <1>11, <2>1 DEF DownloadsAreSafe
  <2>5. Right(i, s)
    BY <1>4, <2>1, <2>2, <2>3, <2>4 DEF Right, Safe
  <2>6. Disposable(i, s, s.path)
    BY <1>4, <2>2, <2>3 DEF Disposable
  <2> QED
    BY <1>4, <1>6, <1>9, <2>2, <2>5, <2>6 DEF Ready
<1>12. s.path = None => item[i].hash = None
  BY <1>1, <1>2, <1>4 DEF ItemsAreStaged
<1> QED
  BY <1>2, <1>6, <1>10, <1>11, <1>12 DEF Fresh

LEMMA StoreItemPreserves ==
  ASSUME FilesInv, StoreItem
  PROVE  FilesInv'
<1>0. PICK i : i = Batches[writer][next]
  OBVIOUS
<1> DEFINE gone == [pc |-> "done", path |-> None, hash |-> None]
<1>1. /\ Typed /\ ItemsAreStaged /\ BatchIsReady /\ FilesHaveHashes /\ TablesAreTrue
      /\ SharedMeansEqual /\ OwnAreFree /\ DoomedAreFree /\ OwnedOnce /\ DownloadsAreSafe /\ Accounted
  BY DEF FilesInv
<1>2. /\ writer # None /\ next \in DOMAIN Batches[writer] /\ next' = next + 1
      /\ UNCHANGED <<rows, writer, purge>>
      /\ item' = [item EXCEPT ![i] = gone]
  <2>1. [Nothing EXCEPT !.pc = "done"] = gone
    BY DEF Nothing
  <2> QED
    BY <1>0, <2>1 DEF StoreItem
<1>3. PICK s \in Outcomes(i, State(i)) :
        /\ disk' = s.d /\ work' = s.t /\ touched' = s.gone /\ faults' = s.faults
        /\ torn' = s.torn /\ strays' = s.strays
  BY <1>0 DEF StoreItem
<1>4. i \in Items /\ Fresh(i, State(i))
  BY <1>0, <1>2, TurnIsFresh
<1>5. Final(i, s)
  BY <1>3, <1>4, OutcomesFinal
<1>6. item'[i] = gone /\ \A k \in Items : k # i => item'[k] = item[k]
  BY <1>1, <1>2, <1>4 DEF Typed
<1>7. gone \in ItemState /\ gone.pc = "done" /\ gone.path = None /\ gone.hash = None
  BY DEF ItemState
<1> HIDE DEF gone
<1>8. /\ True(rows, disk', torn' \cup touched') /\ True(work', disk', torn')
      /\ \A n \in Relied(i) \ torn' :
           n \in DOMAIN disk' /\ disk'[n] = disk[n] /\ Users(work', n) = {}
      /\ \A r \in Present(work') : work'[r].file = None <=> work'[r].hash = None
      /\ torn \subseteq torn' /\ touched \subseteq touched'
      /\ \A n \in DOMAIN disk' :
           Users(work', n) # {} \/ n \in OtherPaths(i) \cup ToDelete \cup torn' \cup strays'
  BY <1>3, <1>5 DEF Final, Sound, Known, Spared, Others
<1>9. Typed'
  <2>1. /\ disk' \in Disk /\ work' \in Table /\ touched' \in SUBSET Names
        /\ faults' \in 0..MaxFaults /\ torn' \in SUBSET Names /\ strays' \in SUBSET Names
    BY <1>3, <1>5 DEF Final, Sound, TxState
  <2>2. item' \in [Items -> ItemState]
    BY <1>1, <1>2, <1>7 DEF Typed
  <2>3. next' \in Nat /\ rows' \in Table /\ writer' \in Jobs \cup {None} /\ purge' \in [Deleters -> Purge]
    BY <1>1, <1>2 DEF Typed
  <2> QED
    BY <2>1, <2>2, <2>3 DEF Typed
<1>10. ItemsAreStaged'
  <2> SUFFICES ASSUME NEW k \in Items
               PROVE  /\ item'[k].pc \in {"idle", "done"} => item'[k].path = None
                      /\ item'[k].pc = "copying" =>
                           item'[k].path # None /\ item'[k].hash = None /\ ItemInfo[k].hash # None
                      /\ item'[k].path = None => item'[k].hash = None
    BY DEF ItemsAreStaged
  <2>1. CASE k = i
    BY <1>6, <1>7, <2>1
  <2>2. CASE k # i
    BY <1>1, <1>6, <2>2 DEF ItemsAreStaged
  <2> QED
    BY <2>1, <2>2
<1>11. BatchIsReady'
  <2> SUFFICES ASSUME NEW m \in DOMAIN Batches[writer], m >= next + 1
               PROVE  item'[Batches[writer][m]].pc = "ready"
    BY <1>2 DEF BatchIsReady
  <2>1. writer \in Jobs /\ next \in Nat
    BY <1>1, <1>2 DEF Typed
  <2>2. Batches[writer] \in Seq(Items)
    BY <2>1, FilesAssumption
  <2>3. m \in Nat /\ m # next /\ m >= next
    BY <2>1, <2>2
  <2>4. Batches[writer][m] # i /\ Batches[writer][m] \in Items
    BY <1>0, <1>2, <2>1, <2>3, BatchesAssumption, BatchItems
  <2>5. item[Batches[writer][m]].pc = "ready"
    BY <1>1, <1>2, <2>3 DEF BatchIsReady
  <2> QED
    BY <1>6, <2>4, <2>5
<1>12. FilesHaveHashes'
  BY <1>1, <1>2, <1>8 DEF FilesHaveHashes, Present
<1>13. TablesAreTrue'
  BY <1>2, <1>8 DEF TablesAreTrue, True, Present
<1>14. SharedMeansEqual'
  BY <1>1, <1>2, <1>8 DEF SharedMeansEqual, Present
<1>15. ~Own(i)' /\ \A k \in Items : k # i => (Own(k)' <=> Own(k))
  BY <1>6, <1>7 DEF Own
<1>16. \A u \in Deleters : Doomed(u)' = Doomed(u)
  BY <1>2 DEF Doomed
<1>17. \A n \in Relied(i) \ torn' : Unclaimed(n) => Unclaimed(n)'
  BY <1>2, <1>8 DEF Unclaimed, Users, Present
<1>18. OwnAreFree'
  <2> SUFFICES ASSUME NEW k \in Items, Own(k)', item'[k].path \notin torn'
               PROVE  Unclaimed(item[k].path)'
    BY DEF OwnAreFree
  <2>1. k # i /\ Own(k) /\ item'[k].path = item[k].path
    BY <1>6, <1>15
  <2>2. item[k].path \in Relied(i)
    BY <2>1 DEF Relied, OtherPaths
  <2>3. Unclaimed(item[k].path)
    BY <1>1, <1>8, <2>1 DEF OwnAreFree
  <2> QED
    BY <1>17, <2>1, <2>2, <2>3
<1>19. DoomedAreFree'
  <2> SUFFICES ASSUME NEW u \in Deleters, NEW n \in Doomed(u) \ torn' PROVE Unclaimed(n)'
    BY <1>16 DEF DoomedAreFree
  <2>1. n \in Relied(i)
    BY DEF Relied
  <2>2. Unclaimed(n)
    BY <1>1, <1>8 DEF DoomedAreFree
  <2> QED
    BY <1>17, <2>1, <2>2
<1>20. OwnedOnce'
  <2>1. OwnDownloads'
    <3> SUFFICES ASSUME NEW k \in Items, NEW l \in Items, k # l,
                        \A y \in {k, l} : item'[y].pc = "copying" \/ item'[y].hash # None,
                        item'[k].path = item'[l].path
                 PROVE  item'[k].path \in {None} \cup torn'
      BY DEF OwnDownloads
    <3>1. k # i /\ l # i
      BY <1>6, <1>7
    <3>2. item[k].path \in {None} \cup torn
      BY <1>1, <1>6, <3>1 DEF OwnedOnce, OwnDownloads
    <3> QED
      BY <1>6, <1>8, <3>1, <3>2
  <2>2. \A k \in Items, u \in Deleters :
          Own(k)' /\ item'[k].path \in Doomed(u) => item'[k].path \in torn'
    BY <1>1, <1>6, <1>8, <1>15 DEF OwnedOnce
  <2>3. \A u, v \in Deleters : u # v => Doomed(u) \cap Doomed(v) \subseteq torn'
    BY <1>1, <1>8 DEF OwnedOnce
  <2> QED
    BY <1>16, <2>1, <2>2, <2>3 DEF OwnedOnce
<1>21. DownloadsAreSafe'
  <2> SUFFICES ASSUME NEW k \in Items, item'[k].pc = "ready", item'[k].hash # None,
                      item'[k].path \notin {None} \cup torn'
               PROVE  item'[k].path \in DOMAIN disk' /\ disk'[item'[k].path] = item'[k].hash
    BY DEF DownloadsAreSafe, Exists
  <2>1. k # i /\ item'[k] = item[k]
    BY <1>6, <1>7
  <2>2. disk[item[k].path] = item[k].hash
    BY <1>1, <1>8, <2>1 DEF DownloadsAreSafe
  <2>3. item[k].path \in Relied(i)
    BY <2>1 DEF Relied, OtherPaths, Own
  <2> QED
    BY <1>8, <2>1, <2>2, <2>3
<1>22. Accounted'
  <2>1. Truth' = work'
    BY <1>2 DEF Truth
  <2>2. ToDelete' = ToDelete
    BY <1>2 DEF ToDelete
  <2>3. OtherPaths(i) \subseteq OwnPaths'
    <3> SUFFICES ASSUME NEW k \in Items \ {i}, Own(k) PROVE item[k].path \in OwnPaths'
      BY DEF OtherPaths
    <3>1. Own(k)' /\ item'[k].path = item[k].path
      BY <1>6, <1>15
    <3> QED
      BY <3>1 DEF OwnPaths
  <2>4. \A n \in DOMAIN disk' :
          Users(Truth', n) # {} \/ n \in OwnPaths' \cup ToDelete' \cup torn' \cup strays'
    BY <1>8, <2>1, <2>2, <2>3
  <2> QED
    BY <2>4 DEF Accounted, Users, Present
<1> QED
  BY <1>9, <1>10, <1>11, <1>12, <1>13, <1>14, <1>18, <1>19, <1>20, <1>21, <1>22 DEF FilesInv

-----------------------------------------------------------------------------
(* Transactions and runs that are undone, and imports that are repeated.    *)

LEMMA TodoType ==
  ASSUME NEW B \in Todo
  PROVE  DOMAIN B \in SUBSET Names /\ \A n \in DOMAIN B : B[n] \in Nat \ {0}
BY DEF Todo

LEMMA NoPurgeIsEmpty ==
  NoPurge \in Purge /\ BagToSet(NoPurge.todo) = {} /\ NoPurge.done = {}
<1>1. EmptyBag \in [{} -> Nat \ {0}] /\ DOMAIN EmptyBag = {}
  BY DEF EmptyBag, SetToBag
<1>2. EmptyBag \in Todo
  BY <1>1 DEF Todo
<1> QED
  BY <1>1, <1>2 DEF NoPurge, Purge, BagToSet

LEMMA UndoStep ==
  ASSUME FilesInv, NoTx, UNCHANGED <<disk, rows>>, torn' = torn \cup touched,
         faults' \in 0..MaxFaults,
         item' \in [Items -> ItemState], purge' \in [Deleters -> Purge], strays' \in SUBSET Names,
         strays \cup UndoneFiles(work) \subseteq strays',
         \A k \in Items :
           \/ item'[k] = item[k]
           \/ /\ item'[k].pc = "done" /\ item'[k].path = None /\ item'[k].hash = None
              /\ item[k].path \in strays' \cup {None},
         \A u \in Deleters :
           \/ purge'[u] = purge[u]
           \/ purge'[u] = NoPurge /\ BagToSet(purge[u].todo) \subseteq strays'
  PROVE  FilesInv'
<1>1. /\ Typed /\ ItemsAreStaged /\ BatchIsReady /\ FilesHaveHashes /\ TablesAreTrue
      /\ SharedMeansEqual /\ OwnAreFree /\ DoomedAreFree /\ OwnedOnce /\ DownloadsAreSafe /\ Accounted
  BY DEF FilesInv
<1>2. writer' = None /\ work' = NoTable /\ next' = 0 /\ touched' = {}
  BY DEF NoTx
<1>3. Typed'
  <2>1. torn' \in SUBSET Names
    BY <1>1 DEF Typed
  <2> QED
    BY <1>1, <1>2, <2>1, NoTableIsEmpty DEF Typed
<1>4. ItemsAreStaged'
  BY <1>1 DEF ItemsAreStaged
<1>5. BatchIsReady'
  BY <1>2 DEF BatchIsReady
<1>6. FilesHaveHashes'
  BY <1>1, <1>2, NoTableIsEmpty DEF FilesHaveHashes, Present
<1>7. TablesAreTrue'
  BY <1>1, <1>2, NoTableIsEmpty DEF TablesAreTrue, True, Present
<1>8. SharedMeansEqual'
  BY <1>1 DEF SharedMeansEqual, Present
<1>9. \A k \in Items : Own(k)' => Own(k) /\ item'[k] = item[k]
  BY DEF Own
<1>10. \A u \in Deleters : Doomed(u)' \subseteq Doomed(u)
  BY NoPurgeIsEmpty DEF Doomed
<1>11. \A n : n \notin torn' /\ Unclaimed(n) => Unclaimed(n)'
  BY <1>2, NoTableIsEmpty DEF Unclaimed, Users, Present
<1>12. OwnAreFree'
  <2> SUFFICES ASSUME NEW k \in Items, Own(k)', item'[k].path \notin torn'
               PROVE  Unclaimed(item[k].path)'
    BY DEF OwnAreFree
  <2>1. Own(k) /\ item'[k] = item[k] /\ item[k].path \notin torn
    BY <1>9
  <2>2. Unclaimed(item[k].path)
    BY <1>1, <2>1 DEF OwnAreFree
  <2> QED
    BY <1>11, <2>1, <2>2
<1>13. DoomedAreFree'
  BY <1>1, <1>10, <1>11 DEF DoomedAreFree
<1>14. OwnedOnce'
  <2>1. OwnDownloads'
    <3> SUFFICES ASSUME NEW k \in Items, NEW l \in Items, k # l,
                        \A y \in {k, l} : item'[y].pc = "copying" \/ item'[y].hash # None,
                        item'[k].path = item'[l].path
                 PROVE  item'[k].path \in {None} \cup torn'
      BY DEF OwnDownloads
    <3>1. CASE item'[k] = item[k] /\ item'[l] = item[l]
      BY <1>1, <3>1 DEF OwnedOnce, OwnDownloads
    <3>2. CASE item'[k].path = None \/ item'[l].path = None
      BY <3>2
    <3> QED
      BY <3>1, <3>2
  <2>2. \A k \in Items, u \in Deleters :
          Own(k)' /\ item'[k].path \in Doomed(u)' => item'[k].path \in torn'
    BY <1>1, <1>9, <1>10 DEF OwnedOnce
  <2>3. \A u, v \in Deleters : u # v => Doomed(u)' \cap Doomed(v)' \subseteq torn'
    BY <1>1, <1>10 DEF OwnedOnce
  <2> QED
    BY <2>1, <2>2, <2>3 DEF OwnedOnce
<1>15. DownloadsAreSafe'
  <2> SUFFICES ASSUME NEW k \in Items, item'[k].pc = "ready", item'[k].hash # None,
                      item'[k].path \notin {None} \cup torn'
               PROVE  item'[k].path \in DOMAIN disk /\ disk[item'[k].path] = item'[k].hash
    BY DEF DownloadsAreSafe, Exists
  <2>1. item'[k] = item[k]
    OBVIOUS
  <2> QED
    BY <1>1, <2>1 DEF DownloadsAreSafe, Exists
<1>16. Accounted'
  <2> SUFFICES ASSUME NEW n \in DOMAIN disk
               PROVE  Users(rows, n) # {} \/ n \in OwnPaths' \cup ToDelete' \cup torn' \cup strays'
    BY <1>2 DEF Accounted, Truth, Users, Present
  <2>1. Users(Truth, n) # {} \/ n \in OwnPaths \cup ToDelete \cup torn \cup strays
    BY <1>1 DEF Accounted
  <2>2. CASE Users(Truth, n) # {}
    BY <2>2 DEF Truth, UndoneFiles
  <2>3. CASE n \in OwnPaths
    <3>1. PICK k \in Items : Own(k) /\ item[k].path = n
      BY <2>3 DEF OwnPaths
    <3>2. item'[k] = item[k] => n \in OwnPaths'
      BY <3>1 DEF OwnPaths, Own
    <3>3. n # None
      BY <3>1 DEF Own
    <3> QED
      BY <3>1, <3>2, <3>3
  <2>4. CASE n \in ToDelete
    <3>1. PICK u \in Deleters : n \in BagToSet(purge[u].todo)
      BY <2>4 DEF ToDelete
    <3>2. purge'[u] = purge[u] => n \in ToDelete'
      BY <3>1 DEF ToDelete
    <3> QED
      BY <3>1, <3>2
  <2> QED
    BY <2>1, <2>2, <2>3, <2>4
<1> QED
  BY <1>3, <1>4, <1>5, <1>6, <1>7, <1>8, <1>12, <1>13, <1>14, <1>15, <1>16 DEF FilesInv

LEMMA FaultIsBounded ==
  ASSUME FilesInv, Fault
  PROVE  faults' \in 0..MaxFaults
<1>1. faults \in 0..MaxFaults /\ MaxFaults \in Nat
  BY FilesAssumption DEF FilesInv, Typed
<1> QED
  BY <1>1 DEF Fault

LEMMA DoneItem ==
  LET x == [Nothing EXCEPT !.pc = "done"]
  IN x \in ItemState /\ x.pc = "done" /\ x.path = None /\ x.hash = None
BY DEF Nothing, ItemState

LEMMA RollbackBatchPreserves ==
  ASSUME FilesInv, RollbackBatch
  PROVE  FilesInv'
<1> DEFINE gone == [Nothing EXCEPT !.pc = "done"]
<1>1. /\ writer # None /\ NoTx /\ UNCHANGED <<disk, rows, purge>> /\ torn' = torn \cup touched
      /\ item' = [i \in Items |->
                    IF \E k \in DOMAIN Batches[writer] : Batches[writer][k] = i
                    THEN gone ELSE item[i]]
      /\ strays' = strays \cup UndoneFiles(work) \cup
           {item[Batches[writer][k]].path :
              k \in {m \in DOMAIN Batches[writer] : item[Batches[writer][m]].path # None}}
  BY DEF RollbackBatch
<1>2. faults' \in 0..MaxFaults
  BY FaultIsBounded DEF RollbackBatch
<1>3. Typed /\ \A k \in DOMAIN Batches[writer] : Batches[writer][k] \in Items
  BY <1>1, BatchItems DEF FilesInv, Typed
<1>4. gone \in ItemState /\ gone.pc = "done" /\ gone.path = None /\ gone.hash = None
  BY DoneItem
<1> HIDE DEF gone
<1>5. item' \in [Items -> ItemState]
  BY <1>1, <1>3, <1>4 DEF Typed
<1>6. strays' \in SUBSET Names
  <2>1. \A k \in DOMAIN Batches[writer] : item[Batches[writer][k]].path \in Names \cup {None}
    BY <1>3 DEF Typed, ItemState
  <2>2. UndoneFiles(work) \subseteq Names
    BY <1>3, DiskType DEF UndoneFiles, Typed
  <2> QED
    BY <1>1, <1>3, <2>1, <2>2 DEF Typed
<1>7. ASSUME NEW i \in Items
      PROVE  \/ item'[i] = item[i]
             \/ /\ item'[i].pc = "done" /\ item'[i].path = None /\ item'[i].hash = None
                /\ item[i].path \in strays' \cup {None}
  <2>1. CASE \E k \in DOMAIN Batches[writer] : Batches[writer][k] = i
    BY <1>1, <1>4, <2>1
  <2>2. CASE ~\E k \in DOMAIN Batches[writer] : Batches[writer][k] = i
    BY <1>1, <2>2
  <2> QED
    BY <2>1, <2>2
<1>8. purge' \in [Deleters -> Purge] /\ \A u \in Deleters : purge'[u] = purge[u]
  BY <1>1, <1>3 DEF Typed
<1>9. strays \cup UndoneFiles(work) \subseteq strays'
  BY <1>1
<1> QED
  BY <1>1, <1>2, <1>5, <1>6, <1>7, <1>8, <1>9, UndoStep

LEMMA StopPreserves ==
  ASSUME FilesInv, Stop
  PROVE  FilesInv'
<1> DEFINE gone == [Nothing EXCEPT !.pc = "done"]
           paths == {item[i].path : i \in {k \in Items : item[k].path # None}}
<1>1. /\ NoTx /\ UNCHANGED <<disk, rows>> /\ torn' = torn \cup touched
      /\ item' = [i \in Items |-> gone] /\ purge' = [u \in Deleters |-> NoPurge]
      /\ strays' = strays \cup UndoneFiles(work) \cup paths
                     \cup UNION {BagToSet(purge[u].todo) : u \in Deleters}
  BY DEF Stop
<1>2. faults' \in 0..MaxFaults
  BY FaultIsBounded DEF Stop
<1>3. Typed
  BY DEF FilesInv
<1>4. gone \in ItemState /\ gone.pc = "done" /\ gone.path = None /\ gone.hash = None
  BY DoneItem
<1> HIDE DEF gone
<1>5. item' \in [Items -> ItemState] /\ purge' \in [Deleters -> Purge]
  BY <1>1, <1>4, NoPurgeIsEmpty
<1>6. strays' \in SUBSET Names
  <2>1. paths \subseteq Names
    BY <1>3 DEF Typed, ItemState
  <2>2. UndoneFiles(work) \subseteq Names
    BY <1>3, DiskType DEF UndoneFiles, Typed
  <2>3. \A u \in Deleters : BagToSet(purge[u].todo) \subseteq Names
    BY <1>3, TodoType DEF Typed, Purge, BagToSet
  <2> HIDE DEF paths
  <2> QED
    BY <1>1, <1>3, <2>1, <2>2, <2>3 DEF Typed
<1>7. \A i \in Items : /\ item'[i].pc = "done" /\ item'[i].path = None /\ item'[i].hash = None
                       /\ item[i].path \in strays' \cup {None}
  BY <1>1, <1>4
<1>8. \A u \in Deleters : purge'[u] = NoPurge /\ BagToSet(purge[u].todo) \subseteq strays'
  BY <1>1
<1>9. strays \cup UndoneFiles(work) \subseteq strays'
  BY <1>1
<1> QED
  BY <1>1, <1>2, <1>5, <1>6, <1>7, <1>8, <1>9, UndoStep

LEMMA ImportAgainPreserves ==
  ASSUME FilesInv, NEW j \in Jobs, ImportAgain(j)
  PROVE  FilesInv'
<1>1. /\ Typed /\ ItemsAreStaged /\ BatchIsReady /\ FilesHaveHashes /\ TablesAreTrue
      /\ SharedMeansEqual /\ OwnAreFree /\ DoomedAreFree /\ OwnedOnce /\ DownloadsAreSafe /\ Accounted
  BY DEF FilesInv
<1>2. UNCHANGED <<disk, rows, txVars, purge, faults, torn, strays>>
  BY DEF ImportAgain
<1> USE DEF txVars
<1>3. Nothing \in ItemState /\ Nothing.pc = "idle" /\ Nothing.path = None /\ Nothing.hash = None
  BY DEF Nothing, ItemState
<1>4. item' \in [Items -> ItemState]
  BY <1>1, <1>3 DEF Typed, ImportAgain
<1>5. \A i \in Items : item'[i] = item[i] \/ (item[i].pc = "done" /\ item'[i] = Nothing)
  BY DEF ImportAgain
<1>6. Typed'
  BY <1>1, <1>2, <1>4 DEF Typed
<1>7. ItemsAreStaged' /\ DownloadsAreSafe'
  BY <1>1, <1>2, <1>3, <1>5 DEF ItemsAreStaged, DownloadsAreSafe
<1>8. BatchIsReady'
  <2>1. (writer = None => work = NoTable /\ touched = {})'
    BY <1>1, <1>2 DEF BatchIsReady
  <2>2. ASSUME writer # None, NEW m \in DOMAIN Batches[writer], m >= next
        PROVE  item'[Batches[writer][m]].pc = "ready"
    <3>1. item[Batches[writer][m]].pc = "ready"
      BY <1>1, <2>2 DEF BatchIsReady
    <3>2. Batches[writer][m] \in Items
      BY <1>1, <2>2, BatchItems DEF Typed
    <3> QED
      BY <1>5, <3>1, <3>2
  <2> QED
    BY <1>2, <2>1, <2>2 DEF BatchIsReady
<1>9. FilesHaveHashes' /\ SharedMeansEqual'
  BY <1>1, <1>2 DEF FilesHaveHashes, SharedMeansEqual, Present
<1>10. TablesAreTrue'
  BY <1>1, <1>2 DEF TablesAreTrue, True, Present
<1>11. /\ \A k \in Items : Own(k)' <=> Own(k)
       /\ \A k \in Items : Own(k) => item'[k] = item[k]
       /\ \A u \in Deleters : Doomed(u)' = Doomed(u)
  BY <1>1, <1>2, <1>3, <1>5 DEF Own, Doomed, ItemsAreStaged
<1>12. \A n : Unclaimed(n) => Unclaimed(n)'
  BY <1>2 DEF Unclaimed, Users, Present
<1>13. OwnAreFree'
  <2> SUFFICES ASSUME NEW k \in Items, Own(k)', item'[k].path \notin torn
               PROVE  Unclaimed(item[k].path)'
    BY <1>2, <1>11 DEF OwnAreFree
  <2>1. Unclaimed(item[k].path) /\ item'[k] = item[k]
    BY <1>1, <1>11 DEF OwnAreFree
  <2> QED
    BY <1>12, <2>1
<1>14. DoomedAreFree'
  BY <1>1, <1>2, <1>11, <1>12 DEF DoomedAreFree
<1>15. OwnedOnce'
  <2>1. OwnDownloads'
    BY <1>1, <1>2, <1>3, <1>5 DEF OwnedOnce, OwnDownloads
  <2>2. \A k \in Items, u \in Deleters :
          Own(k)' /\ item'[k].path \in Doomed(u) => item'[k].path \in torn
    BY <1>1, <1>11 DEF OwnedOnce
  <2> QED
    BY <1>1, <1>2, <1>11, <2>1, <2>2 DEF OwnedOnce
<1>16. Accounted'
  <2>1. Truth' = Truth /\ ToDelete' = ToDelete
    BY <1>2 DEF Truth, ToDelete
  <2>2. OwnPaths' = OwnPaths
    <3>1. OwnPaths \subseteq OwnPaths'
      BY <1>11 DEF OwnPaths
    <3>2. OwnPaths' \subseteq OwnPaths
      BY <1>11 DEF OwnPaths
    <3> QED
      BY <3>1, <3>2
  <2>3. \A n \in DOMAIN disk :
          Users(Truth, n) # {} \/ n \in OwnPaths \cup ToDelete \cup torn \cup strays
    BY <1>1 DEF Accounted
  <2> QED
    BY <1>2, <2>1, <2>2, <2>3 DEF Accounted, Users, Present
<1> QED
  BY <1>6, <1>7, <1>8, <1>9, <1>10, <1>13, <1>14, <1>15, <1>16 DEF FilesInv

-----------------------------------------------------------------------------
(* Deletion.                                                                *)

LEMMA TimesType ==
  ASSUME Typed, NEW u, NEW S
  PROVE  Times(u, S) \in Todo /\ BagToSet(Times(u, S)) = Orphaned(S)
<1>1. ASSUME NEW n \in Orphaned(S) PROVE Cardinality(Users(rows, n)) \in Nat \ {0}
  <2>1. Users(rows, n) \subseteq RowIds /\ Users(rows, n) # {}
    BY <1>1, TableType DEF Typed, Users, Present, Orphaned
  <2>2. IsFiniteSet(Users(rows, n))
    BY <2>1, FS_Subset, FilesAssumption
  <2> QED
    BY <2>1, <2>2, FS_CardinalityType, FS_EmptySet
<1>2. Times(u, S) \in [Orphaned(S) -> Nat \ {0}]
  BY <1>1 DEF Times
<1>3. Orphaned(S) \in SUBSET Names
  BY DEF Orphaned
<1> QED
  BY <1>2, <1>3 DEF Todo, BagToSet

LEMMA EraseRowsPreserves ==
  ASSUME FilesInv, NEW u \in Deleters, EraseRows(u)
  PROVE  FilesInv'
<1>1. /\ Typed /\ ItemsAreStaged /\ BatchIsReady /\ FilesHaveHashes /\ TablesAreTrue
      /\ SharedMeansEqual /\ OwnAreFree /\ DoomedAreFree /\ OwnedOnce /\ DownloadsAreSafe /\ Accounted
  BY DEF FilesInv
<1>2. PICK S \in SUBSET Present(rows) :
        /\ rows' = [r \in Present(rows) |-> IF r \in S THEN Blank ELSE rows[r]]
        /\ purge' = [purge EXCEPT ![u].todo = Times(u, S)]
  BY DEF EraseRows
<1>3. /\ writer = None /\ purge[u] = NoPurge
      /\ UNCHANGED <<disk, txVars, item, faults, torn, strays>>
  BY DEF EraseRows
<1> USE DEF txVars
<1>4. work = NoTable /\ touched = {}
  BY <1>1, <1>3 DEF BatchIsReady
<1>5. Blank \in Row /\ Blank.file = None /\ Blank.hash = None
  BY DEF Blank, Row
<1>6. /\ Present(rows') = Present(rows)
      /\ \A r \in Present(rows) : rows'[r] = IF r \in S THEN Blank ELSE rows[r]
  BY <1>2 DEF Present
<1>7. /\ Times(u, S) \in Todo /\ BagToSet(Times(u, S)) = Orphaned(S)
      /\ Orphaned(S) \subseteq Names
  BY <1>1, TimesType DEF Orphaned
<1>8. /\ purge[u] \in Purge /\ BagToSet(purge[u].todo) = {} /\ purge[u].done = {}
  BY <1>3, NoPurgeIsEmpty
<1>9. /\ purge'[u].todo = Times(u, S) /\ purge'[u].done = {} /\ purge'[u] \in Purge
      /\ \A v \in Deleters : v # u => purge'[v] = purge[v]
      /\ purge' \in [Deleters -> Purge]
  <2>1. purge \in [Deleters -> Purge]
    BY <1>1 DEF Typed
  <2>2. purge'[u] = [purge[u] EXCEPT !.todo = Times(u, S)]
    BY <1>2, <2>1
  <2>3. purge'[u].todo = Times(u, S) /\ purge'[u].done = {} /\ purge'[u] \in Purge
    BY <1>7, <1>8, <2>2 DEF Purge
  <2>4. \A v \in Deleters : v # u => purge'[v] = purge[v]
    BY <1>2, <2>1
  <2>5. purge' \in [Deleters -> Purge]
    <3>1. purge' = [purge EXCEPT ![u] = purge'[u]]
      BY <1>2, <2>1, <2>2
    <3> QED
      BY <2>1, <2>3, <3>1
  <2> QED
    BY <2>3, <2>4, <2>5
<1>10. rows' \in Table
  <2>1. rows' \in [DOMAIN rows -> Row] /\ DOMAIN rows \in SUBSET RowIds
    BY <1>1, <1>2, <1>5, TableType DEF Typed, Present
  <2> QED
    BY <2>1, MakeTable
<1>11. Typed'
  BY <1>1, <1>3, <1>9, <1>10 DEF Typed
<1>12. ItemsAreStaged' /\ DownloadsAreSafe' /\ BatchIsReady'
  BY <1>1, <1>3 DEF ItemsAreStaged, DownloadsAreSafe, BatchIsReady
<1>13. FilesHaveHashes'
  BY <1>1, <1>3, <1>5, <1>6 DEF FilesHaveHashes, Present
<1>14. TablesAreTrue'
  BY <1>1, <1>3, <1>5, <1>6 DEF TablesAreTrue, True, Present
<1>15. SharedMeansEqual'
  <2> SUFFICES ASSUME NEW q \in Present(rows), NEW r \in Present(rows),
                      rows'[q].file = rows'[r].file, rows'[q].file \notin torn
               PROVE  rows'[q].hash = rows'[r].hash
    BY <1>3, <1>6 DEF SharedMeansEqual
  <2>1. CASE rows'[q].file = None
    BY <1>6, <1>13, <2>1 DEF FilesHaveHashes
  <2>2. CASE rows'[q].file # None
    BY <1>1, <1>5, <1>6, <2>2 DEF SharedMeansEqual
  <2> QED
    BY <2>1, <2>2
<1>16. \A n \in Names : Users(rows', n) \subseteq Users(rows, n) \ S
  <2>1. \A n \in Names : n # None
    BY FilesAssumption
  <2> QED
    BY <1>5, <1>6, <2>1 DEF Users
<1>17. \A n \in Names : Unclaimed(n) => Unclaimed(n)'
  BY <1>3, <1>4, <1>16 DEF Unclaimed, Users, Present
<1>18. DOMAIN disk \subseteq Names
  BY <1>1, DiskType DEF Typed
<1>19. /\ \A k \in Items : Own(k)' <=> Own(k)
       /\ \A v \in Deleters : v # u => Doomed(v)' = Doomed(v)
       /\ Doomed(u)' = Orphaned(S)
  BY <1>3, <1>7, <1>9 DEF Own, Doomed
<1>20. \A n \in Orphaned(S) \ torn :
         /\ n \in DOMAIN disk /\ Users(rows, n) # {} /\ Unclaimed(n)'
  <2> SUFFICES ASSUME NEW n \in Orphaned(S) \ torn
               PROVE  n \in DOMAIN disk /\ Users(rows, n) # {} /\ Unclaimed(n)'
    OBVIOUS
  <2>1. n \in Names /\ Users(rows, n) # {} /\ Users(rows, n) \subseteq S
    BY DEF Orphaned
  <2>2. n # None
    BY <2>1, FilesAssumption
  <2>3. n \in DOMAIN disk
    BY <1>1, <1>4, <2>1, <2>2 DEF TablesAreTrue, True, Users
  <2>4. Users(rows', n) = {}
    BY <1>16, <2>1
  <2>5. Users(work', n) = {}
    BY <1>3, <1>4, NoTableIsEmpty
  <2> QED
    BY <1>3, <2>1, <2>3, <2>4, <2>5 DEF Unclaimed, Users, Present
<1>21. OwnAreFree'
  <2> SUFFICES ASSUME NEW k \in Items, Own(k), item[k].path \notin torn PROVE Unclaimed(item[k].path)'
    BY <1>3, <1>19 DEF OwnAreFree
  <2>1. Unclaimed(item[k].path) /\ item'[k].path = item[k].path /\ item[k].path \in Names
    BY <1>1, <1>3, <1>18 DEF OwnAreFree, Unclaimed
  <2> QED
    BY <1>17, <2>1
<1>22. DoomedAreFree'
  <2> SUFFICES ASSUME NEW v \in Deleters, NEW n \in Doomed(v)' \ torn PROVE Unclaimed(n)'
    BY <1>3 DEF DoomedAreFree
  <2>1. CASE v = u
    BY <1>19, <1>20, <2>1
  <2>2. CASE v # u
    <3>1. Unclaimed(n) /\ n \in Names
      BY <1>1, <1>18, <1>19, <2>2 DEF DoomedAreFree, Unclaimed
    <3> QED
      BY <1>17, <3>1
  <2> QED
    BY <2>1, <2>2
<1>23. OwnedOnce'
  <2>1. OwnDownloads'
    BY <1>1, <1>3 DEF OwnedOnce, OwnDownloads
  <2>2. ASSUME NEW k \in Items, NEW v \in Deleters, Own(k), item[k].path \in Doomed(v)'
        PROVE  item[k].path \in torn
    <3>1. CASE v = u
      <4>1. item[k].path \notin torn => Users(rows, item[k].path) = {}
        BY <1>1, <1>4, <2>2 DEF OwnAreFree, Unclaimed
      <4> QED
        BY <1>19, <1>20, <2>2, <3>1, <4>1
    <3>2. CASE v # u
      BY <1>1, <1>19, <2>2, <3>2 DEF OwnedOnce
    <3> QED
      BY <3>1, <3>2
  <2>3. ASSUME NEW v \in Deleters, NEW w \in Deleters, v # w, NEW n \in Doomed(v)' \cap Doomed(w)'
        PROVE  n \in torn
    <3>1. CASE v # u /\ w # u
      BY <1>1, <1>19, <2>3, <3>1 DEF OwnedOnce
    <3>2. CASE v = u
      <4>1. n \in Doomed(w) /\ n \in Orphaned(S)
        BY <1>19, <2>3, <3>2
      <4>2. n \notin torn => Users(rows, n) = {}
        BY <1>1, <1>4, <4>1 DEF DoomedAreFree, Unclaimed
      <4> QED
        BY <1>20, <4>1, <4>2
    <3>3. CASE w = u
      <4>1. n \in Doomed(v) /\ n \in Orphaned(S)
        BY <1>19, <2>3, <3>3
      <4>2. n \notin torn => Users(rows, n) = {}
        BY <1>1, <1>4, <4>1 DEF DoomedAreFree, Unclaimed
      <4> QED
        BY <1>20, <4>1, <4>2
    <3> QED
      BY <3>1, <3>2, <3>3
  <2> QED
    BY <1>3, <1>19, <2>1, <2>2, <2>3 DEF OwnedOnce
<1>24. Accounted'
  <2> SUFFICES ASSUME NEW n \in DOMAIN disk
               PROVE  Users(rows', n) # {} \/ n \in OwnPaths \cup ToDelete' \cup torn \cup strays
    BY <1>3 DEF Accounted, Truth, Users, Present, OwnPaths, Own
  <2>1. n \in Names /\ n # None
    BY <1>18, FilesAssumption
  <2>2. Users(rows, n) # {} \/ n \in OwnPaths \cup ToDelete \cup torn \cup strays
    BY <1>1, <1>3 DEF Accounted, Truth
  <2>3. CASE Users(rows, n) # {} /\ Users(rows, n) \subseteq S
    <3>1. n \in Orphaned(S)
      BY <2>1, <2>3 DEF Orphaned
    <3>2. n \in ToDelete'
      BY <1>7, <1>9, <3>1 DEF ToDelete
    <3> QED
      BY <3>2
  <2>4. CASE ~(Users(rows, n) \subseteq S)
    BY <1>6, <2>4 DEF Users
  <2>5. CASE n \in ToDelete
    <3>1. PICK v \in Deleters : n \in BagToSet(purge[v].todo)
      BY <2>5 DEF ToDelete
    <3>2. v # u
      BY <1>8, <3>1
    <3>3. n \in ToDelete'
      BY <1>9, <3>1, <3>2 DEF ToDelete
    <3> QED
      BY <3>3
  <2> QED
    BY <2>2, <2>3, <2>4, <2>5
<1> QED
  BY <1>11, <1>12, <1>13, <1>14, <1>15, <1>21, <1>22, <1>23, <1>24 DEF FilesInv

(* One copy less.                                                           *)
LEMMA LeftType ==
  ASSUME NEW B \in Todo, NEW n \in BagToSet(B)
  PROVE  LET left == B (-) SetToBag({n})
         IN /\ left \in Todo
            /\ BagToSet(left) \subseteq BagToSet(B)
            /\ BagToSet(B) \ {n} \subseteq BagToSet(left)
<1> DEFINE C == [e \in DOMAIN B |-> IF e \in {n} THEN B[e] - 1 ELSE B[e]]
           D == {e \in DOMAIN C : C[e] > 0}
           left == [e \in D |-> C[e]]
<1>1. DOMAIN B \in SUBSET Names /\ \A e \in DOMAIN B : B[e] \in Nat \ {0}
  BY TodoType
<1>2. B (-) SetToBag({n}) = left
  BY DEF (-), SetToBag
<1>3. \A e \in DOMAIN B : C[e] \in Nat /\ (e # n => C[e] > 0)
  BY <1>1
<1>4. D \subseteq DOMAIN B /\ DOMAIN B \ {n} \subseteq D
  BY <1>3
<1>5. left \in [D -> Nat \ {0}] /\ DOMAIN left = D
  BY <1>3
<1>6. D \in SUBSET Names
  BY <1>1, <1>4
<1>7. left \in Todo
  BY <1>5, <1>6 DEF Todo
<1> QED
  BY <1>2, <1>4, <1>5, <1>7 DEF BagToSet

LEMMA RemoveFilePreserves ==
  ASSUME FilesInv, NEW u \in Deleters, RemoveFile(u)
  PROVE  FilesInv'
<1>1. /\ Typed /\ ItemsAreStaged /\ BatchIsReady /\ FilesHaveHashes /\ TablesAreTrue
      /\ SharedMeansEqual /\ OwnAreFree /\ DoomedAreFree /\ OwnedOnce /\ DownloadsAreSafe /\ Accounted
  BY DEF FilesInv
<1>2. PICK n \in BagToSet(purge[u].todo) :
        LET left == purge[u].todo (-) SetToBag({n})
        IN /\ purge' = [purge EXCEPT
                          ![u] = IF left = EmptyBag THEN NoPurge
                                 ELSE [todo |-> left, done |-> @.done \cup {n}]]
           /\ disk' = Without(disk, n)
           /\ torn' = IF n \in purge[u].done THEN torn \cup {n} ELSE torn
           /\ UNCHANGED <<rows, txVars, item, faults, strays>>
  BY DEF RemoveFile
<1>3. PICK left : left = purge[u].todo (-) SetToBag({n})
  OBVIOUS
<1>4. /\ purge' = [purge EXCEPT
                     ![u] = IF left = EmptyBag THEN NoPurge
                            ELSE [todo |-> left, done |-> purge[u].done \cup {n}]]
      /\ disk' = Without(disk, n)
      /\ torn' = IF n \in purge[u].done THEN torn \cup {n} ELSE torn
      /\ UNCHANGED <<rows, txVars, item, faults, strays>>
  BY <1>2, <1>3
<1> USE DEF txVars
<1>5. purge \in [Deleters -> Purge] /\ purge[u] \in Purge /\ purge[u].todo \in Todo
  BY <1>1 DEF Typed, Purge
<1>6. n \in Names /\ n # None
  BY <1>5, TodoType, FilesAssumption DEF BagToSet
<1>7. /\ left \in Todo /\ BagToSet(left) \subseteq BagToSet(purge[u].todo)
      /\ BagToSet(purge[u].todo) \ {n} \subseteq BagToSet(left)
  BY <1>3, <1>5, LeftType
<1>8. BagToSet(EmptyBag) = {}
  BY NoPurgeIsEmpty DEF NoPurge
<1>9. /\ purge'[u] = IF left = EmptyBag THEN NoPurge
                     ELSE [todo |-> left, done |-> purge[u].done \cup {n}]
      /\ \A v \in Deleters : v # u => purge'[v] = purge[v]
  BY <1>4, <1>5
<1>10. /\ purge'[u] \in Purge
       /\ BagToSet(purge'[u].todo) \subseteq BagToSet(purge[u].todo)
       /\ BagToSet(purge[u].todo) \ {n} \subseteq BagToSet(purge'[u].todo)
       /\ BagToSet(purge'[u].todo) \ purge'[u].done \subseteq Doomed(u) \ {n}
  <2>1. CASE left = EmptyBag
    <3>1. purge'[u] = NoPurge
      BY <1>9, <2>1
    <3> QED
      BY <1>7, <1>8, <2>1, <3>1, NoPurgeIsEmpty
  <2>2. CASE left # EmptyBag
    <3>1. purge'[u].todo = left /\ purge'[u].done = purge[u].done \cup {n}
      BY <1>9, <2>2
    <3>2. purge'[u] \in Purge
      BY <1>5, <1>6, <1>7, <1>9, <2>2 DEF Purge
    <3> QED
      BY <1>7, <3>1, <3>2 DEF Doomed
  <2> QED
    BY <2>1, <2>2
<1>11. purge' \in [Deleters -> Purge]
  <2>1. purge' = [purge EXCEPT ![u] = purge'[u]]
    BY <1>4, <1>5, <1>9
  <2> QED
    BY <1>5, <1>10, <2>1
<1>12. /\ disk' \in Disk
       /\ \A m : m \in DOMAIN disk' <=> m \in DOMAIN disk /\ m # n
       /\ \A m \in DOMAIN disk : m # n => disk'[m] = disk[m]
  BY <1>1, <1>4, WithoutFile DEF Typed
<1>13. torn \subseteq torn' /\ torn' \in SUBSET Names /\ (n \in purge[u].done => n \in torn')
  BY <1>1, <1>4, <1>6 DEF Typed
<1>14. n \in torn' \/
         /\ n \in Doomed(u) /\ Users(work, n) = {} /\ (n \notin touched => Users(rows, n) = {})
         /\ \A k \in Items : Own(k) => item[k].path # n
         /\ \A v \in Deleters : v # u => n \notin Doomed(v)
  <2> SUFFICES ASSUME n \notin torn'
               PROVE  /\ n \in Doomed(u) /\ Users(work, n) = {}
                      /\ n \notin touched => Users(rows, n) = {}
                      /\ \A k \in Items : Own(k) => item[k].path # n
                      /\ \A v \in Deleters : v # u => n \notin Doomed(v)
    OBVIOUS
  <2>1. n \in Doomed(u) /\ n \notin torn
    BY <1>13 DEF Doomed
  <2>2. Unclaimed(n)
    BY <1>1, <2>1 DEF DoomedAreFree
  <2>3. \A k \in Items : Own(k) => item[k].path # n
    BY <1>1, <2>1 DEF OwnedOnce
  <2>4. \A v \in Deleters : v # u => n \notin Doomed(v)
    BY <1>1, <2>1 DEF OwnedOnce
  <2> QED
    BY <2>1, <2>2, <2>3, <2>4 DEF Unclaimed
<1>15. Typed'
  BY <1>1, <1>4, <1>11, <1>12, <1>13 DEF Typed
<1>16. ItemsAreStaged' /\ BatchIsReady'
  BY <1>1, <1>4 DEF ItemsAreStaged, BatchIsReady
<1>17. FilesHaveHashes'
  BY <1>1, <1>4 DEF FilesHaveHashes, Present
<1>18. SharedMeansEqual'
  BY <1>1, <1>4, <1>13 DEF SharedMeansEqual, Present
<1>19. True(rows, disk, torn \cup touched)'
  BY <1>1, <1>4, <1>12, <1>13, <1>14 DEF TablesAreTrue, True, Users, Present
<1>20. True(work, disk, torn)'
  BY <1>1, <1>4, <1>12, <1>13, <1>14 DEF TablesAreTrue, True, Users, Present
<1>21. \A m : m # n /\ Unclaimed(m) => Unclaimed(m)'
  BY <1>4, <1>12 DEF Unclaimed, Users, Present
<1>22. /\ \A k \in Items : (Own(k)' <=> Own(k)) /\ item'[k] = item[k]
       /\ \A v \in Deleters : v # u => Doomed(v)' = Doomed(v)
       /\ Doomed(u)' \subseteq Doomed(u) \ {n}
  BY <1>4, <1>9, <1>10 DEF Own, Doomed
<1>23. OwnAreFree'
  <2> SUFFICES ASSUME NEW k \in Items, Own(k), item[k].path \notin torn' PROVE Unclaimed(item[k].path)'
    BY <1>22 DEF OwnAreFree
  <2>1. Unclaimed(item[k].path) /\ item'[k].path = item[k].path
    BY <1>1, <1>13, <1>22 DEF OwnAreFree
  <2>2. item[k].path # n
    BY <1>14
  <2> QED
    BY <1>21, <2>1, <2>2
<1>24. DoomedAreFree'
  <2> SUFFICES ASSUME NEW v \in Deleters, NEW m \in Doomed(v)' \ torn' PROVE Unclaimed(m)'
    BY DEF DoomedAreFree
  <2>1. m # n /\ m \in Doomed(v)
    BY <1>14, <1>22
  <2>2. Unclaimed(m)
    BY <1>1, <1>13, <2>1 DEF DoomedAreFree
  <2> QED
    BY <1>21, <2>1, <2>2
<1>25. OwnedOnce'
  <2>1. OwnDownloads'
    BY <1>1, <1>4, <1>13 DEF OwnedOnce, OwnDownloads
  <2>2. \A v \in Deleters : Doomed(v)' \subseteq Doomed(v)
    BY <1>22
  <2>3. \A k \in Items, v \in Deleters :
          Own(k)' /\ item'[k].path \in Doomed(v)' => item'[k].path \in torn'
    BY <1>1, <1>13, <1>22, <2>2 DEF OwnedOnce
  <2>4. \A v, w \in Deleters : v # w => Doomed(v)' \cap Doomed(w)' \subseteq torn'
    BY <1>1, <1>13, <2>2 DEF OwnedOnce
  <2> QED
    BY <2>1, <2>3, <2>4 DEF OwnedOnce
<1>26. DownloadsAreSafe'
  <2> SUFFICES ASSUME NEW k \in Items, item[k].pc = "ready", item[k].hash # None,
                      item[k].path \notin {None} \cup torn'
               PROVE  item[k].path \in DOMAIN disk' /\ disk'[item[k].path] = item[k].hash
    BY <1>4 DEF DownloadsAreSafe, Exists
  <2>1. item[k].path \in DOMAIN disk /\ disk[item[k].path] = item[k].hash
    BY <1>1, <1>13 DEF DownloadsAreSafe, Exists
  <2>2. item[k].path # n
    BY <1>14 DEF Own
  <2> QED
    BY <1>12, <2>1, <2>2
<1>27. Accounted'
  <2> SUFFICES ASSUME NEW m \in DOMAIN disk'
               PROVE  Users(Truth, m) # {} \/ m \in OwnPaths \cup ToDelete' \cup torn' \cup strays
    BY <1>4 DEF Accounted, Truth, Users, Present, OwnPaths, Own
  <2>1. m \in DOMAIN disk /\ m # n
    BY <1>12
  <2>2. Users(Truth, m) # {} \/ m \in OwnPaths \cup ToDelete \cup torn \cup strays
    BY <1>1, <2>1 DEF Accounted
  <2>3. ASSUME m \in ToDelete PROVE m \in ToDelete'
    <3>1. PICK v \in Deleters : m \in BagToSet(purge[v].todo)
      BY <2>3 DEF ToDelete
    <3>2. m \in BagToSet(purge'[v].todo)
      BY <1>9, <1>10, <2>1, <3>1
    <3> QED
      BY <3>2 DEF ToDelete
  <2> QED
    BY <1>13, <2>2, <2>3
<1> QED
  BY <1>15, <1>16, <1>17, <1>18, <1>19, <1>20, <1>23, <1>24, <1>25, <1>26, <1>27
     DEF FilesInv, TablesAreTrue

-----------------------------------------------------------------------------
(* The invariant, and what follows from it.                                 *)

LEMMA InitFiles ==
  ASSUME Init
  PROVE  FilesInv
<1>1. /\ disk = NoTable /\ rows = NoTable /\ writer = None /\ work = NoTable /\ next = 0
      /\ touched = {} /\ item = [i \in Items |-> Nothing] /\ purge = [u \in Deleters |-> NoPurge]
      /\ faults = 0 /\ torn = {} /\ strays = {}
  BY DEF Init
<1>2. Nothing \in ItemState /\ Nothing.pc = "idle" /\ Nothing.path = None /\ Nothing.hash = None
  BY DEF Nothing, ItemState
<1>3. MaxFaults \in Nat
  BY FilesAssumption
<1>4. \A i \in Items : item[i] = Nothing
  BY <1>1
<1>5. \A u \in Deleters : Doomed(u) = {}
  BY <1>1, NoPurgeIsEmpty DEF Doomed
<1>6. Typed
  BY <1>1, <1>2, <1>3, NoTableIsEmpty, NoPurgeIsEmpty DEF Typed
<1>7. ItemsAreStaged /\ BatchIsReady /\ DownloadsAreSafe
  BY <1>1, <1>2, <1>4 DEF ItemsAreStaged, BatchIsReady, DownloadsAreSafe
<1>8. FilesHaveHashes /\ TablesAreTrue /\ SharedMeansEqual
  BY <1>1, NoTableIsEmpty DEF FilesHaveHashes, TablesAreTrue, True, SharedMeansEqual
<1>9. OwnAreFree /\ DoomedAreFree /\ OwnedOnce
  BY <1>2, <1>4, <1>5 DEF OwnAreFree, DoomedAreFree, OwnedOnce, OwnDownloads, Own
<1>10. Accounted
  BY <1>1, NoTableIsEmpty DEF Accounted, Present
<1> QED
  BY <1>6, <1>7, <1>8, <1>9, <1>10 DEF FilesInv

LEMMA NextFiles ==
  ASSUME FilesInv, Next
  PROVE  FilesInv'
<1>1. CASE \E i \in Items : Download(i)
  BY <1>1, OpenFilePreserves, FinishDownloadPreserves, FailDownloadPreserves,
     FailSyncPreserves, EmptyDownloadPreserves DEF Download
<1>2. CASE \E j \in Jobs : BeginBatch(j) \/ ImportAgain(j)
  BY <1>2, BeginBatchPreserves, ImportAgainPreserves
<1>3. CASE StoreItem
  BY <1>3, StoreItemPreserves
<1>4. CASE CommitBatch
  BY <1>4, CommitBatchPreserves
<1>5. CASE RollbackBatch
  BY <1>5, RollbackBatchPreserves
<1>6. CASE Stop
  BY <1>6, StopPreserves
<1>7. CASE \E u \in Deleters : EraseRows(u) \/ RemoveFile(u)
  BY <1>7, EraseRowsPreserves, RemoveFilePreserves
<1> QED
  BY <1>1, <1>2, <1>3, <1>4, <1>5, <1>6, <1>7 DEF Next

LEMMA IdleFiles ==
  ASSUME FilesInv, UNCHANGED vars
  PROVE  FilesInv'
<1>1. /\ disk' = disk /\ rows' = rows /\ writer' = writer /\ work' = work /\ next' = next
      /\ touched' = touched /\ item' = item /\ purge' = purge /\ faults' = faults /\ torn' = torn
      /\ strays' = strays
  BY DEF vars
<1>2. Typed' /\ ItemsAreStaged' /\ BatchIsReady' /\ FilesHaveHashes'
  BY <1>1 DEF FilesInv, Typed, ItemsAreStaged, BatchIsReady, FilesHaveHashes, Present
<1>3. TablesAreTrue' /\ SharedMeansEqual' /\ DownloadsAreSafe'
  BY <1>1 DEF FilesInv, TablesAreTrue, True, SharedMeansEqual, DownloadsAreSafe, Present
<1>4. \A u \in Deleters : Doomed(u)' = Doomed(u)
  BY <1>1 DEF Doomed
<1>5. OwnAreFree' /\ DoomedAreFree'
  BY <1>1, <1>4 DEF FilesInv, OwnAreFree, DoomedAreFree, Unclaimed, Own, Users, Present
<1>6. OwnedOnce'
  BY <1>1, <1>4 DEF FilesInv, OwnedOnce, OwnDownloads, Own
<1>7. Accounted'
  BY <1>1 DEF FilesInv, Accounted, Truth, Users, Present, OwnPaths, Own, ToDelete
<1> QED
  BY <1>2, <1>3, <1>5, <1>6, <1>7 DEF FilesInv

(* The inductive invariant: whatever imports, faults and deletions do, both *)
(* tables are true of the disk, a download or a file to be deleted belongs  *)
(* to one goroutine and to no row, and every file is accounted for.         *)
THEOREM FilesAreInvariant == Spec => []FilesInv
<1>1. Init => FilesInv
  BY InitFiles
<1>2. FilesInv /\ [Next]_vars => FilesInv'
  BY NextFiles, IdleFiles
<1> QED
  BY <1>1, <1>2, PTL DEF Spec

(* Everything has its type: what is on disk, both tables, each item and what*)
(* is still to be deleted.                                                  *)
THEOREM FilesAreTyped == Spec => []TypeOK
<1>1. FilesInv => TypeOK
  <2> SUFFICES ASSUME Typed PROVE TypeOK
    BY DEF FilesInv
  <2>1. DOMAIN disk \subseteq Names /\ \A n \in DOMAIN disk : disk[n] \in Contents
    BY DiskType DEF Typed
  <2>2. \A t \in {rows, work} : Present(t) \subseteq RowIds /\ \A r \in Present(t) : t[r] \in Row
    BY TableType DEF Typed, Present
  <2>3. DOMAIN purge = Deleters
    BY DEF Typed
  <2>4. ASSUME NEW u \in Deleters
        PROVE  /\ IsABag(purge[u].todo)
               /\ BagToSet(purge[u].todo) \cup purge[u].done \subseteq Names
    <3>1. purge[u].todo \in Todo /\ purge[u].done \in SUBSET Names
      BY DEF Typed, Purge
    <3>2. PICK D \in SUBSET Names : purge[u].todo \in [D -> Nat \ {0}]
      BY <3>1 DEF Todo
    <3>3. IsABag(purge[u].todo) /\ BagToSet(purge[u].todo) = D
      BY <3>2 DEF IsABag, BagToSet
    <3> QED
      BY <3>1, <3>3
  <2> QED
    BY <2>1, <2>2, <2>3, <2>4 DEF Typed, TypeOK, ItemState
<1> QED
  BY <1>1, FilesAreInvariant, PTL

(* Every row has its file, with the content it is known by; rows that share *)
(* a file agree on what it holds; and no file is forgotten, but for the     *)
(* names that the code is known to lose or leave behind.                    *)
THEOREM FilesAreNeverLost == Spec => []FilesAreKept
<1>1. FilesInv => FilesAreKept
  <2> SUFFICES ASSUME FilesInv PROVE FilesAreKept
    OBVIOUS
  <2>1. TablesAreTrue /\ SharedMeansEqual /\ BatchIsReady /\ Accounted
    BY DEF FilesInv
  <2>2. RowsHaveTheirFiles
    BY <2>1 DEF TablesAreTrue, True, RowsHaveTheirFiles, Truth, Exists, BatchIsReady
  <2>3. EveryFileIsAccountedFor
    <3> SUFFICES ASSUME NEW n \in DOMAIN disk
                 PROVE  \/ Users(rows, n) \cup Users(work, n) # {}
                        \/ \E i \in Items : item[i].path = n
                        \/ \E u \in Deleters : n \in BagToSet(purge[u].todo)
                        \/ n \in torn \cup strays
      BY DEF EveryFileIsAccountedFor
    <3>1. Users(Truth, n) # {} \/ n \in OwnPaths \cup ToDelete \cup torn \cup strays
      BY <2>1 DEF Accounted
    <3>2. CASE Users(Truth, n) # {}
      BY <3>2 DEF Truth
    <3>3. CASE n \in OwnPaths
      BY <3>3 DEF OwnPaths
    <3>4. CASE n \in ToDelete
      BY <3>4 DEF ToDelete
    <3> QED
      BY <3>1, <3>2, <3>3, <3>4
  <2> QED
    BY <2>1, <2>2, <2>3 DEF FilesAreKept
<1> QED
  BY <1>1, FilesAreInvariant, PTL

(* A file that has been downloaded is there, unharmed, when the turn of its *)
(* item comes, and no two items have the same.                              *)
THEOREM DownloadsAreNeverLost == Spec => []DownloadsAreKept
<1>1. FilesInv => DownloadsAreKept
  BY DEF FilesInv, OwnedOnce, DownloadsAreKept
<1> QED
  BY <1>1, FilesAreInvariant, PTL
==============================================================================
