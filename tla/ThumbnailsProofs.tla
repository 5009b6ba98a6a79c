-------------------------- MODULE ThumbnailsProofs --------------------------
(***************************************************************************)
(* Thumbnails, for any pictures, files, tasks, page and batch sizes,        *)
(* requests, changes of files and crashes.                                  *)
(***************************************************************************)
EXTENDS Thumbnails, FiniteSetTheorems, TLAPS

-----------------------------------------------------------------------------
(* The order of the pages.                                                  *)

RowsTyped == rows \in [Pictures -> Row]

LEMMA TimeType ==
  ASSUME ThumbnailsAssumption, RowsTyped, NEW i \in Pictures
  PROVE  /\ i \in Nat \ {0}
         /\ rows[i].time = None \/ (rows[i].time \in Nat /\ rows[i].time < MaxInt64 /\ rows[i].time # None)
         /\ MaxInt64 \in Nat
<1>1. rows[i].time \in Times \cup {None}
  BY DEF RowsTyped, Row
<1>2. Times \subseteq 0..(MaxInt64 - 1) /\ MaxInt64 \in Nat /\ Pictures \subseteq Nat \ {0} /\ None \notin Nat
  BY DEF ThumbnailsAssumption
<1>3. rows[i].time # None => rows[i].time \in 0..(MaxInt64 - 1)
  BY <1>1, <1>2
<1>4. i \in Nat \ {0}
  BY <1>2
<1> QED
  BY <1>2, <1>3, <1>4

(* ORDER BY is a total order of the rows.                                   *)
LEMMA BeforeIsOrder ==
  ASSUME ThumbnailsAssumption, RowsTyped
  PROVE  /\ \A i \in Pictures : ~Before(i, i)
         /\ \A i, j \in Pictures : i = j \/ Before(i, j) \/ Before(j, i)
         /\ \A i, j, k \in Pictures : Before(i, j) /\ Before(j, k) => Before(i, k)
<1>1. \A i \in Pictures : i \in Nat /\ (rows[i].time = None \/ (rows[i].time \in Nat /\ rows[i].time # None))
  BY TimeType
<1> QED
  BY <1>1 DEF Before, Earlier

LEMMA SubsetIsFinite ==
  ASSUME ThumbnailsAssumption, NEW S \in SUBSET Pictures
  PROVE  IsFiniteSet(S) /\ Cardinality(S) \in Nat
BY FS_Subset, FS_CardinalityType DEF ThumbnailsAssumption

(* The place of a row is its number among the rows.                         *)
LEMMA PlaceIsBelow ==
  ASSUME ThumbnailsAssumption, RowsTyped, NEW S \in SUBSET Pictures, NEW i \in S
  PROVE  Place(i, S) \in 0..(Cardinality(S) - 1)
<1> DEFINE T == {j \in S : Before(j, i)}
<1>1. T \subseteq S /\ i \notin T
  BY BeforeIsOrder
<1>2. IsFiniteSet(S) /\ Cardinality(S) \in Nat /\ Cardinality(T) \in Nat
  BY <1>1, SubsetIsFinite
<1>3. Cardinality(T) <= Cardinality(S) /\ Cardinality(T) # Cardinality(S)
  BY <1>1, <1>2, FS_Subset
<1> QED
  BY <1>2, <1>3 DEF Place

LEMMA PlaceFollowsOrder ==
  ASSUME ThumbnailsAssumption, RowsTyped, NEW S \in SUBSET Pictures, NEW i \in S, NEW j \in S
  PROVE  /\ Before(i, j) => Place(i, S) < Place(j, S)
         /\ Place(i, S) = Place(j, S) => i = j
<1>1. ASSUME NEW k \in S, NEW l \in S, Before(k, l)
      PROVE  Place(k, S) < Place(l, S)
  <2> DEFINE K == {m \in S : Before(m, k)}
             L == {m \in S : Before(m, l)}
  <2>1. K \subseteq L /\ k \in L /\ k \notin K
    BY <1>1, BeforeIsOrder
  <2>2. IsFiniteSet(L) /\ Cardinality(L) \in Nat /\ Cardinality(K) \in Nat
    BY <2>1, SubsetIsFinite
  <2>3. Cardinality(K) <= Cardinality(L) /\ Cardinality(K) # Cardinality(L)
    BY <2>1, <2>2, FS_Subset
  <2> QED
    BY <2>2, <2>3 DEF Place
<1>2. Place(i, S) \in Int /\ Place(j, S) \in Int
  BY PlaceIsBelow
<1> QED
  BY <1>1, <1>2, BeforeIsOrder

(* The rows in order are all rows.                                          *)
LEMMA InOrderIsAll ==
  ASSUME ThumbnailsAssumption, RowsTyped, NEW S \in SUBSET Pictures
  PROVE  /\ Cardinality(S) \in Nat
         /\ InOrder(S) \in [1..Cardinality(S) -> S]
         /\ \A i \in S : Place(i, S) + 1 \in 1..Cardinality(S) /\ InOrder(S)[Place(i, S) + 1] = i
         /\ \A k \in 1..Cardinality(S) : InOrder(S)[k] \in S /\ Place(InOrder(S)[k], S) = k - 1
<1> DEFINE n == Cardinality(S)
           place == [i \in S |-> Place(i, S) + 1]
<1>1. n \in Nat /\ IsFiniteSet(S)
  BY SubsetIsFinite
<1>2. \A i \in S : Place(i, S) \in 0..(n - 1)
  BY PlaceIsBelow
<1>3. place \in [S -> 1..n]
  BY <1>1, <1>2
<1>4. \A i, j \in S : Place(i, S) = Place(j, S) => i = j
  BY PlaceFollowsOrder
<1>5. place \in Injection(S, 1..n)
  BY <1>2, <1>3, <1>4 DEF Injection, IsInjective
<1>6. IsFiniteSet(1..n) /\ Cardinality(1..n) = n
  BY <1>1, FS_Interval
<1>7. place \in Surjection(S, 1..n)
  BY <1>5, <1>6, FS_Injection
<1>8. ASSUME NEW k \in 1..n
      PROVE  \E i \in S : Place(i, S) = k - 1
  <2>1. PICK i \in S : place[i] = k
    BY <1>7 DEF Surjection
  <2> QED
    BY <2>1, <1>1, <1>2
<1>9. \A k \in 1..n : InOrder(S)[k] \in S /\ Place(InOrder(S)[k], S) = k - 1
  BY <1>8 DEF InOrder
<1>10. InOrder(S) = [k \in 1..n |-> InOrder(S)[k]]
  BY DEF InOrder
<1>11. InOrder(S) \in [1..n -> S]
  BY <1>9, <1>10
<1>12. ASSUME NEW i \in S
       PROVE  Place(i, S) + 1 \in 1..n /\ InOrder(S)[Place(i, S) + 1] = i
  <2>1. Place(i, S) \in 0..(n - 1)
    BY <1>2
  <2>2. PICK k \in 1..n : k = Place(i, S) + 1
    BY <2>1, <1>1
  <2>3. InOrder(S)[k] \in S /\ Place(InOrder(S)[k], S) = k - 1
    BY <1>9
  <2>4. Place(InOrder(S)[k], S) = Place(i, S)
    BY <2>1, <2>2, <2>3, <1>1
  <2>5. InOrder(S)[k] = i
    BY <2>3, <2>4, <1>4
  <2> QED
    BY <2>2, <2>5
<1> QED
  BY <1>1, <1>9, <1>11, <1>12

(* Some row is the first of several, and some row the last.                 *)
LEMMA FirstAndLast ==
  ASSUME ThumbnailsAssumption, RowsTyped, NEW S \in SUBSET Pictures, S # {}
  PROVE  /\ \E i \in S : Place(i, S) = 0 /\ \A j \in S : ~Before(j, i)
         /\ \E i \in S : \A j \in S : j = i \/ Before(j, i)
<1> DEFINE n == Cardinality(S)
           first == InOrder(S)[1]
           last == InOrder(S)[n]
<1>1. n \in Nat /\ n # 0
  BY SubsetIsFinite, FS_EmptySet
<1>2. /\ \A k \in 1..n : InOrder(S)[k] \in S /\ Place(InOrder(S)[k], S) = k - 1
      /\ \A i \in S : Place(i, S) \in 0..(n - 1)
  BY InOrderIsAll, PlaceIsBelow
<1>3. first \in S /\ Place(first, S) = 0 /\ last \in S /\ Place(last, S) = n - 1
  BY <1>1, <1>2
<1>4. \A j \in S : ~Before(j, first) /\ ~Before(last, j)
  <2> TAKE j \in S
  <2>1. Before(j, first) => Place(j, S) < Place(first, S)
    BY <1>3, PlaceFollowsOrder
  <2>2. Before(last, j) => Place(last, S) < Place(j, S)
    BY <1>3, PlaceFollowsOrder
  <2> QED
    BY <2>1, <2>2, <1>1, <1>2, <1>3
<1> QED
  BY <1>3, <1>4, BeforeIsOrder

(* A page is the beginning of what is found.                                *)
LEMMA PageIsBeginning ==
  ASSUME ThumbnailsAssumption, RowsTyped, NEW c
  PROVE  /\ Found(c) \subseteq Pictures /\ Page(c) \subseteq Found(c)
         /\ Page(c) = {} => Found(c) = {}
         /\ \A i \in Found(c) \ Page(c), j \in Page(c) : Before(j, i)
<1>1. Found(c) \in SUBSET Pictures /\ Page(c) \subseteq Found(c)
  BY DEF Found, Page
<1>2. Found(c) # {} => Page(c) # {}
  <2> SUFFICES ASSUME Found(c) # {} PROVE Page(c) # {}
    OBVIOUS
  <2>1. PICK i \in Found(c) : Place(i, Found(c)) = 0
    BY <1>1, FirstAndLast
  <2>2. 0 < PageSize
    BY DEF ThumbnailsAssumption
  <2> QED
    BY <2>1, <2>2 DEF Page
<1>3. ASSUME NEW i \in Found(c), i \notin Page(c), NEW j \in Page(c)
      PROVE  Before(j, i)
  <2>1. ~(Place(i, Found(c)) < PageSize) /\ Place(j, Found(c)) < PageSize /\ j \in Found(c)
    BY <1>3 DEF Page
  <2>2. Place(i, Found(c)) \in Int /\ Place(j, Found(c)) \in Int /\ PageSize \in Int
    <3>1. Place(i, Found(c)) \in 0..(Cardinality(Found(c)) - 1)
      BY <1>1, PlaceIsBelow
    <3>2. Place(j, Found(c)) \in 0..(Cardinality(Found(c)) - 1)
      BY <1>1, <2>1, PlaceIsBelow
    <3> QED
      BY <3>1, <3>2 DEF ThumbnailsAssumption
  <2>3. Before(i, j) => Place(i, Found(c)) < Place(j, Found(c))
    BY <1>1, <2>1, PlaceFollowsOrder
  <2>4. i # j /\ ~Before(i, j)
    BY <2>1, <2>2, <2>3
  <2> QED
    BY <1>1, <2>1, <2>4, BeforeIsOrder
<1> QED
  BY <1>1, <1>2, <1>3

LEMMA LastRowIsLast ==
  ASSUME ThumbnailsAssumption, RowsTyped, NEW S \in SUBSET Pictures, S # {}
  PROVE  /\ LastRow(S) \in S /\ \A j \in S : j = LastRow(S) \/ Before(j, LastRow(S))
         /\ LastOf(S) \in Cursor
<1>1. LastRow(S) \in S /\ \A j \in S : j = LastRow(S) \/ Before(j, LastRow(S))
  BY FirstAndLast DEF LastRow
<1>2. LastRow(S) \in Nat /\ rows[LastRow(S)].time \in Nat \cup {None}
  BY <1>1, TimeType
<1> QED
  BY <1>1, <1>2 DEF LastOf, Cursor

(* No row that paging is sure to come to is lost between two pages.         *)
LEMMA NextPageFollows ==
  ASSUME ThumbnailsAssumption, RowsTyped, NEW c, Page(c) # {},
         NEW i \in Found(c), i \notin Page(c), Reached(i)
  PROVE  After(i, LastOf(Page(c)))
<1> DEFINE l == LastRow(Page(c))
<1>1. Found(c) \subseteq Pictures /\ Page(c) \in SUBSET Pictures /\ i \in Pictures
  BY PageIsBeginning
<1>2. l \in Page(c) /\ l \in Pictures
  BY <1>1, LastRowIsLast
<1>3. Before(l, i)
  BY <1>2, PageIsBeginning
<1>4. l \in Nat /\ i \in Nat
  BY <1>1, <1>2, TimeType
<1>5. l # i
  BY <1>2
<1>6. rows[i].time = None => l < i
  BY <1>1, <1>2, <1>4, <1>5 DEF Reached
<1>7. LastOf(Page(c)).time = rows[l].time /\ LastOf(Page(c)).id = l
  BY DEF LastOf
<1> HIDE DEF l
<1> QED
  BY <1>3, <1>4, <1>6, <1>7 DEF Before, Earlier, Same, After

(* Of the rows of a page with one file, one is a task.                      *)
LEMMA FileHasTask ==
  ASSUME ThumbnailsAssumption, RowsTyped, NEW S \in SUBSET Pictures,
         NEW i \in S, rows[i].file \notin Unfit
  PROVE  \E j \in PageTasks(S) : rows[j].file = rows[i].file
<1> DEFINE T == {j \in S : rows[j].file = rows[i].file}
<1>1. T \in SUBSET Pictures /\ T # {}
  OBVIOUS
<1>2. PICK j \in T : \A k \in T : ~Before(k, j)
  BY <1>1, FirstAndLast
<1> QED
  BY <1>2 DEF PageTasks

(* The first page begins before every row paging is sure to come to.        *)
LEMMA FirstPageIsFirst ==
  ASSUME ThumbnailsAssumption, RowsTyped, NEW i \in Pictures
  PROVE  After(i, FirstPage) /\ FirstPage \in Cursor
<1>1. /\ i \in Nat \ {0} /\ MaxInt64 \in Nat /\ None \notin Nat
      /\ rows[i].time = None \/ (rows[i].time \in Nat /\ rows[i].time < MaxInt64 /\ rows[i].time # None)
  BY TimeType DEF ThumbnailsAssumption
<1> QED
  BY <1>1 DEF After, Earlier, Same, FirstPage, Cursor

-----------------------------------------------------------------------------
(* Types.                                                                   *)

Locks == INSTANCE MapMutexProofs WITH Keys <- Files, NoKey <- None

LEMMA TasksType ==
  ASSUME ThumbnailsAssumption
  PROVE  Tasks \in Seq(Files) /\ Len(Tasks) \in Nat /\ \A k \in 1..Len(Tasks) : Tasks[k] \in Files \ Unfit
BY DEF ThumbnailsAssumption

LEMMA IdleType ==
  ASSUME ThumbnailsAssumption
  PROVE  Idle \in Proc /\ Idle.pc = "idle" /\ 1 \in Versions /\ 0 \in Versions
<1>1. MaxVersions \in Nat /\ MaxVersions >= 1
  BY DEF ThumbnailsAssumption
<1> QED
  BY <1>1 DEF Idle, Proc, Versions

(* The start of a job, or of a session that resumes it.                     *)
LEMMA BegunType ==
  ASSUME ThumbnailsAssumption, NEW listed \in BOOLEAN, NEW regenerate \in BOOLEAN,
         NEW checkpoint \in Nat, NEW sessions \in 1..MaxSessions
  PROVE  Begun(listed, regenerate, checkpoint, sessions) \in Job
<1>1. Tasks \in Seq(Files) /\ <<>> \in Seq(Files)
  BY TasksType
<1>2. FirstPage \in Cursor
  BY DEF FirstPage, Cursor, ThumbnailsAssumption
<1> QED
  BY <1>1, <1>2 DEF Begun, Job

LEMMA WithHashType ==
  ASSUME RowsTyped, NEW f, NEW h \in Versions
  PROVE  /\ WithHash(f, h) \in [Pictures -> Row]
         /\ \A i \in Pictures :
              /\ WithHash(f, h)[i].time = rows[i].time /\ WithHash(f, h)[i].file = rows[i].file
              /\ WithHash(f, h)[i].hash = IF rows[i].file = f THEN h ELSE rows[i].hash
BY DEF RowsTyped, WithHash, RowsOf, Row

(* What a goroutine's step leaves of the job: all but what it counts.       *)
KeepsJob ==
  UNCHANGED <<job.state, job.listed, job.regenerate, job.phase, job.cursor, job.queue, job.next,
              job.checkpoint, job.sessions>>

Alone(p) == \A q \in Procs \ {p} : proc'[q] = proc[q]

LEMMA EndEffect ==
  ASSUME TypeOK, ThumbnailsAssumption, NEW p \in Procs, End(p)
  PROVE  /\ proc' \in [Procs -> Proc] /\ Alone(p) /\ proc'[p].pc = "idle"
         /\ job' \in Job /\ KeepsJob
<1>1. proc[p] \in Proc /\ Idle \in Proc /\ Idle.pc = "idle"
  BY IdleType DEF TypeOK
<1>2. /\ [proc[p] EXCEPT !.pc = "idle"] \in Proc
      /\ [proc[p] EXCEPT !.pc = "idle"].pc = "idle"
  BY <1>1 DEF Proc
<1>3. proc' \in [Procs -> Proc] /\ Alone(p) /\ proc'[p].pc = "idle"
  BY <1>1, <1>2 DEF End, TypeOK, Alone
<1>4. job' \in Job /\ KeepsJob
  <2>1. CASE p \in Workers
    <3>1. job' = [job EXCEPT !.progress = @ + 1] /\ job \in Job
      BY <2>1 DEF End, TypeOK
    <3>2. job.progress + 1 \in Nat
      BY <3>1 DEF Job
    <3> QED
      BY <3>1, <3>2 DEF Job, KeepsJob
  <2>2. CASE p \notin Workers
    BY <2>2 DEF End, TypeOK, KeepsJob
  <2> QED
    BY <2>1, <2>2
<1> QED
  BY <1>3, <1>4

LEMMA GotoEffect ==
  ASSUME TypeOK, NEW p \in Procs, NEW pc \in {"check", "share", "store", "hash"}, NEW of \in Versions,
         Goto(p, pc, of)
  PROVE  /\ proc' \in [Procs -> Proc] /\ Alone(p)
         /\ proc'[p].pc = pc /\ proc'[p].of = of /\ proc'[p].file = proc[p].file
         /\ job' \in Job /\ KeepsJob
BY DEF Goto, TypeOK, Proc, Alone, KeepsJob

(* The steps of a goroutine.                                                *)
Step(p) == /\ Alone(p) /\ KeepsJob
           /\ proc' \in [Procs -> Proc] /\ job' \in Job
           /\ UNCHANGED <<content, written>>
           /\ proc'[p].pc # "idle" => proc'[p].file = proc[p].file

LEMMA LockEffect ==
  ASSUME TypeOK, NEW p \in Procs, Lock(p)
  PROVE  /\ Step(p) /\ UNCHANGED <<rows, thumbs>>
         /\ proc[p].pc = "lock" /\ proc'[p].pc = IF at'[p] = "holding" THEN "check" ELSE "lock"
         /\ proc'[p].of = proc[p].of
BY DEF Lock, TypeOK, Proc, Step, Alone, KeepsJob, files

LEMMA CheckEffect ==
  ASSUME TypeOK, ThumbnailsAssumption, NEW p \in Procs, Check(p), proc[p].file \in Files
  PROVE  /\ Step(p) /\ UNCHANGED <<rows, thumbs>> /\ proc[p].pc = "check"
         /\ LET f == proc[p].file IN
            \/ /\ thumbs[f] # None /\ UNCHANGED mutex
               /\ proc'[p].pc = "share" /\ proc'[p].of = thumbs[f].of
            \/ /\ thumbs[f] = None /\ content[f] # 0 /\ f \notin Broken /\ UNCHANGED mutex
               /\ proc'[p].pc = "store" /\ proc'[p].of = content[f]
            \/ /\ thumbs[f] = None /\ (content[f] = 0 \/ f \in Broken)
               /\ proc'[p].pc = "idle" /\ Mutex!Unlock(p)
<1> DEFINE f == proc[p].file
<1>1. proc[p].pc = "check" /\ UNCHANGED <<rows, content, written, thumbs>>
  BY DEF Check, files
<1>2. CASE thumbs[f] # None /\ Goto(p, "share", thumbs[f].of) /\ UNCHANGED mutex
  <2>1. thumbs[f].of \in Versions
    BY <1>2 DEF TypeOK, Thumb
  <2> QED
    BY <1>1, <1>2, <2>1, GotoEffect DEF Step
<1>3. CASE thumbs[f] = None /\ content[f] # 0 /\ f \notin Broken /\ Goto(p, "store", content[f]) /\ UNCHANGED mutex
  <2>1. content[f] \in Versions
    BY DEF TypeOK
  <2> QED
    BY <1>1, <1>3, <2>1, GotoEffect DEF Step
<1>4. CASE thumbs[f] = None /\ (content[f] = 0 \/ f \in Broken) /\ End(p) /\ Mutex!Unlock(p)
  BY <1>1, <1>4, EndEffect DEF Step
<1> QED
  BY <1>2, <1>3, <1>4 DEF Check

LEMMA ShareEffect ==
  ASSUME TypeOK, ThumbnailsAssumption, NEW p \in Procs, Share(p)
  PROVE  /\ Step(p) /\ UNCHANGED thumbs /\ Mutex!Unlock(p)
         /\ \E h \in SharedHashes(proc[p].file) : rows' = WithHash(proc[p].file, h)
         /\ proc[p].pc = "share" /\ proc'[p].pc \in {"idle", "hash"}
         /\ proc'[p].pc = "hash" => proc'[p].of = proc[p].of
<1>1. proc[p].of \in Versions
  BY DEF TypeOK, Proc
<1>2. CASE Goto(p, "hash", proc[p].of)
  BY <1>1, <1>2, GotoEffect DEF Step, Share
<1>3. CASE End(p)
  BY <1>3, EndEffect DEF Step, Share
<1> QED
  BY <1>2, <1>3 DEF Share

LEMMA StoreEffect ==
  ASSUME TypeOK, NEW p \in Procs, Store(p)
  PROVE  /\ Step(p) /\ UNCHANGED rows /\ Mutex!Unlock(p)
         /\ thumbs' = [thumbs EXCEPT ![proc[p].file] = [of |-> proc[p].of, early |-> FALSE]]
         /\ proc[p].pc = "store" /\ proc'[p].pc = "hash" /\ proc'[p].of = proc[p].of
<1>1. proc[p].of \in Versions
  BY DEF TypeOK, Proc
<1> QED
  BY <1>1, GotoEffect DEF Store, Step, files

LEMMA StoreHashEffect ==
  ASSUME TypeOK, ThumbnailsAssumption, NEW p \in Procs, StoreHash(p)
  PROVE  /\ Step(p) /\ UNCHANGED <<thumbs, mutex>>
         /\ rows' = WithHash(proc[p].file, proc[p].of)
         /\ proc[p].pc = "hash" /\ proc'[p].pc = "idle"
BY EndEffect DEF StoreHash, Step

LEMMA PageTypes ==
  ASSUME ThumbnailsAssumption, TypeOK, NEW c
  PROVE  /\ RowsTyped /\ Page(c) \in SUBSET Pictures
         /\ PageTasks(Page(c)) \in SUBSET Page(c) /\ Needed(PageTasks(Page(c))) \in SUBSET PageTasks(Page(c))
         /\ \A i \in Page(c) : rows[i].file \in Files
         /\ Cardinality(PageTasks(Page(c))) \in Nat /\ Skipped(PageTasks(Page(c))) \in Nat
<1>1. RowsTyped /\ \A i \in Pictures : rows[i].file \in Files \cup {None}
  BY DEF TypeOK, RowsTyped, Row
<1>2. Page(c) \in SUBSET Pictures /\ \A i \in Page(c) : rows[i].file \in Files
  BY <1>1 DEF Page, Found
<1>3. /\ PageTasks(Page(c)) \in SUBSET Page(c)
      /\ Needed(PageTasks(Page(c))) \in SUBSET PageTasks(Page(c))
  BY DEF PageTasks, Needed
<1>4. PageTasks(Page(c)) \in SUBSET Pictures
  BY <1>2, <1>3
<1>5. PageTasks(Page(c)) \ Needed(PageTasks(Page(c))) \in SUBSET Pictures
  BY <1>4
<1> QED
  BY <1>1, <1>2, <1>3, <1>4, <1>5, SubsetIsFinite DEF Skipped

CountEffect ==
  /\ UNCHANGED <<files, thumbs, proc, mutex>>
  /\ job' \in Job /\ job.phase = "count" /\ job.state = "running"
  /\ UNCHANGED <<job.state, job.listed, job.regenerate, job.queue, job.next, job.checkpoint, job.sessions>>
  /\ job'.phase = "count" \/ (job'.phase = "page" /\ job'.cursor = FirstPage)

LEMMA CountPageEffect ==
  ASSUME ThumbnailsAssumption, TypeOK, CountPage
  PROVE  CountEffect
<1> DEFINE page == Page(job.cursor)
<1>1. job \in Job /\ job.phase = "count" /\ job.state = "running"
  BY DEF CountPage, InPhase, TypeOK
<1>2. CASE page = {}
  <2>1. job' = [job EXCEPT !.phase = "page", !.cursor = FirstPage]
    BY <1>2 DEF CountPage
  <2>2. FirstPage \in Cursor
    BY DEF FirstPage, Cursor, ThumbnailsAssumption
  <2> QED
    BY <1>1, <2>1, <2>2 DEF Job, CountEffect, CountPage
<1>3. CASE page # {}
  <2>1. job' = [job EXCEPT !.cursor = LastOf(page), !.total = @ + Cardinality(PageTasks(page))]
    BY <1>3 DEF CountPage
  <2>2. LastOf(page) \in Cursor /\ Cardinality(PageTasks(page)) \in Nat
    BY <1>3, PageTypes, LastRowIsLast
  <2>3. job.total + Cardinality(PageTasks(page)) \in Nat
    BY <1>1, <2>2 DEF Job
  <2>4. UNCHANGED <<files, thumbs, proc, mutex>>
    BY DEF CountPage
  <2> HIDE DEF page
  <2>5. /\ job' \in Job /\ job'.phase = "count"
        /\ UNCHANGED <<job.state, job.listed, job.regenerate, job.queue, job.next, job.checkpoint, job.sessions>>
    BY <1>1, <2>1, <2>2, <2>3 DEF Job
  <2> QED
    BY <1>1, <2>4, <2>5 DEF CountEffect
<1> QED
  BY <1>2, <1>3

LoadEffect(page) ==
  /\ UNCHANGED <<files, thumbs, proc, mutex>>
  /\ job' \in Job /\ job.phase = "page" /\ job.state = "running"
  /\ UNCHANGED <<job.listed, job.regenerate, job.checkpoint, job.sessions>>
  /\ \/ /\ page = {} /\ job'.state = "done"
        /\ UNCHANGED <<job.phase, job.cursor, job.queue, job.next>>
     \/ /\ page # {} /\ job'.state = "running"
        /\ job'.cursor = LastOf(page) /\ job'.next = 0
        /\ job'.phase \in {"page", "batch"}
        /\ \A j \in Needed(PageTasks(page)) :
             /\ job'.phase = "batch"
             /\ \E k \in DOMAIN job'.queue : k > 0 /\ job'.queue[k] = rows[j].file

LEMMA LoadPageEffect ==
  ASSUME ThumbnailsAssumption, TypeOK, LoadPage
  PROVE  LoadEffect(Page(job.cursor))
<1> DEFINE page == Page(job.cursor)
           needed == Needed(PageTasks(page))
           order == InOrder(needed)
           n == Cardinality(needed)
           queue == [k \in DOMAIN order |-> rows[order[k]].file]
<1>1. job \in Job /\ job.phase = "page" /\ job.state = "running"
  BY DEF LoadPage, InPhase, TypeOK
<1>2. CASE page = {}
  <2>1. job' = [job EXCEPT !.state = "done"]
    BY <1>2 DEF LoadPage
  <2> QED
    BY <1>1, <1>2, <2>1 DEF Job, LoadEffect, LoadPage
<1>3. CASE page # {}
  <2>1. job' = [job EXCEPT !.cursor = LastOf(page), !.progress = @ + Skipped(PageTasks(page)),
                           !.queue = queue, !.next = 0,
                           !.phase = IF needed = {} THEN "page" ELSE "batch"]
    BY <1>3 DEF LoadPage
  <2>2. /\ LastOf(page) \in Cursor /\ Skipped(PageTasks(page)) \in Nat
        /\ needed \in SUBSET Pictures /\ \A i \in needed : rows[i].file \in Files
    BY <1>3, PageTypes, LastRowIsLast
  <2>3. /\ n \in Nat /\ order \in [1..n -> needed]
        /\ \A i \in needed : \E k \in 1..n : order[k] = i
    BY <2>2, PageTypes, InOrderIsAll
  <2> HIDE DEF order, n
  <2>4. queue \in [1..n -> Files] /\ DOMAIN queue = 1..n
    BY <2>2, <2>3
  <2>5. queue \in Seq(Files)
    BY <2>3, <2>4
  <2>6. \A j \in needed : \E k \in 1..n : queue[k] = rows[j].file
    BY <2>3
  <2>7. job.progress + Skipped(PageTasks(page)) \in Nat
    BY <1>1, <2>2 DEF Job
  <2> HIDE DEF queue, needed, page
  <2>8. /\ job' \in Job /\ job'.cursor = LastOf(page) /\ job'.queue = queue /\ job'.next = 0
        /\ job'.phase = IF needed = {} THEN "page" ELSE "batch"
        /\ job'.state = "running"
        /\ UNCHANGED <<job.listed, job.regenerate, job.checkpoint, job.sessions>>
    BY <1>1, <2>1, <2>2, <2>5, <2>7 DEF Job
  <2>9. \A k \in 1..n : k > 0
    BY <2>3
  <2>10. \A j \in needed : job'.phase = "batch" /\ \E k \in DOMAIN job'.queue : k > 0 /\ job'.queue[k] = rows[j].file
    BY <2>4, <2>6, <2>8, <2>9
  <2>11. UNCHANGED <<files, thumbs, proc, mutex>>
    BY DEF LoadPage
  <2> QED
    BY <1>1, <1>3, <2>8, <2>10, <2>11 DEF LoadEffect, page, needed
<1> QED
  BY <1>2, <1>3

SpawnEffect(w) ==
  /\ UNCHANGED <<files, thumbs, mutex>> /\ Ready
  /\ proc' \in [Procs -> Proc] /\ Alone(w)
  /\ proc[w].pc = "idle" /\ proc'[w].pc = "lock" /\ proc'[w].file = job.queue[job.next + 1]
  /\ job' \in Job /\ job.phase = "batch" /\ job.state = "running" /\ job.next < Len(job.queue)
  /\ UNCHANGED <<job.state, job.listed, job.regenerate, job.phase, job.cursor, job.queue, job.sessions>>
  /\ job'.next = job.next + 1
  /\ job'.checkpoint = IF AtBoundary /\ job.listed THEN job.next ELSE job.checkpoint

LEMMA SpawnHasEffect ==
  ASSUME ThumbnailsAssumption, TypeOK, Spawn
  PROVE  \E w \in Workers : SpawnEffect(w)
<1> DEFINE file == job.queue[job.next + 1]
<1>1. job \in Job /\ job.phase = "batch" /\ job.state = "running"
  BY DEF Spawn, InPhase, TypeOK
<1>2. job.next \in Nat /\ job.queue \in Seq(Files) /\ job.next < Len(job.queue)
  BY <1>1 DEF Spawn, Job
<1>3. file \in Files
  BY <1>2
<1>4. PICK w \in Workers : FirstIdle(w) /\ proc' = [proc EXCEPT ![w] = [Idle EXCEPT !.pc = "lock", !.file = file]]
  BY DEF Spawn
<1>5. [Idle EXCEPT !.pc = "lock", !.file = file] \in Proc
  BY <1>3, IdleType DEF Proc
<1>6. w \in Procs /\ proc \in [Procs -> Proc]
  BY DEF Procs, TypeOK
<1>7. /\ proc' \in [Procs -> Proc] /\ Alone(w) /\ proc[w].pc = "idle"
      /\ proc'[w].pc = "lock" /\ proc'[w].file = file
  BY <1>4, <1>5, <1>6 DEF Alone, FirstIdle, Idle
<1>8. /\ job' \in Job
      /\ UNCHANGED <<job.state, job.listed, job.regenerate, job.phase, job.cursor, job.queue, job.sessions>>
      /\ job'.next = job.next + 1
      /\ job'.checkpoint = IF AtBoundary /\ job.listed THEN job.next ELSE job.checkpoint
  <2> DEFINE checkpoint == IF AtBoundary /\ job.listed THEN job.next ELSE job.checkpoint
  <2>1. job' = [job EXCEPT !.next = @ + 1, !.checkpoint = checkpoint]
    BY DEF Spawn
  <2>2. checkpoint \in Nat /\ job.next + 1 \in Nat
    BY <1>1, <1>2 DEF Job
  <2> HIDE DEF checkpoint
  <2>3. /\ job' \in Job
        /\ UNCHANGED <<job.state, job.listed, job.regenerate, job.phase, job.cursor, job.queue, job.sessions>>
        /\ job'.next = job.next + 1
        /\ job'.checkpoint = checkpoint
    BY <1>1, <2>1, <2>2 DEF Job
  <2> QED
    BY <2>3 DEF checkpoint
<1>9. UNCHANGED <<files, thumbs, mutex>> /\ Ready
  BY DEF Spawn
<1> QED
  BY <1>1, <1>2, <1>7, <1>8, <1>9 DEF SpawnEffect

FinishEffect ==
  /\ UNCHANGED <<files, thumbs, proc, mutex>> /\ AllDone
  /\ job' \in Job /\ job.phase = "batch" /\ job.state = "running" /\ job.next >= Len(job.queue)
  /\ UNCHANGED <<job.listed, job.regenerate, job.cursor, job.queue, job.next, job.checkpoint, job.sessions>>
  /\ job'.state = IF job.listed THEN "done" ELSE "running"
  /\ job'.phase = IF job.listed THEN "batch" ELSE "page"

LEMMA FinishHasEffect ==
  ASSUME TypeOK, FinishBatches
  PROVE  FinishEffect
<1>1. job \in Job /\ job.phase = "batch" /\ job.state = "running"
  BY DEF FinishBatches, InPhase, TypeOK
<1>2. UNCHANGED <<files, thumbs, proc, mutex>> /\ AllDone /\ job.next >= Len(job.queue)
  BY DEF FinishBatches
<1>3. job' = IF job.listed THEN [job EXCEPT !.state = "done"] ELSE [job EXCEPT !.phase = "page"]
  BY DEF FinishBatches
<1>4. CASE job.listed
  <2>1. job' = [job EXCEPT !.state = "done"]
    BY <1>3, <1>4
  <2> QED
    BY <1>1, <1>2, <1>4, <2>1 DEF Job, FinishEffect
<1>5. CASE ~job.listed
  <2>1. job' = [job EXCEPT !.phase = "page"]
    BY <1>3, <1>5
  <2> QED
    BY <1>1, <1>2, <1>5, <2>1 DEF Job, FinishEffect
<1> QED
  BY <1>4, <1>5

LEMMA RequestEffect ==
  ASSUME ThumbnailsAssumption, TypeOK, NEW c \in Clients, NEW f \in Files, Request(c, f)
  PROVE  /\ c \in Procs /\ c \notin Workers
         /\ UNCHANGED <<files, thumbs, job, mutex>>
         /\ proc' \in [Procs -> Proc] /\ Alone(c)
         /\ proc[c].pc = "idle" /\ proc'[c].pc = "lock" /\ proc'[c].file = f
<1>1. c \in Procs /\ c \notin Workers
  BY DEF Procs, Workers, ThumbnailsAssumption
<1>2. [pc |-> "lock", file |-> f, of |-> 0, force |-> thumbs[f] # None] \in Proc
  BY IdleType DEF Proc
<1> QED
  BY <1>1, <1>2 DEF Request, TypeOK, Alone

-----------------------------------------------------------------------------
(* The inductive invariant.                                                 *)

(* What a goroutine does, and what it holds.                                *)
LocksInv ==
  \A p \in Procs :
    /\ at[p] = "holding" <=> proc[p].pc \in {"check", "share", "store"}
    /\ at[p] # "out" => key[p] = proc[p].file /\ proc[p].pc # "idle" /\ proc[p].pc # "hash"
    /\ proc[p].pc # "idle" => proc[p].file \in Files
    /\ proc[p].pc \in {"share", "store", "hash"} => proc[p].of # 0
    /\ proc[p].pc = "store" => thumbs[proc[p].file] = None

(* The first content of a file never comes back.                            *)
VersionsInv == \A f \in Files : written[f] >= 1 /\ content[f] <= written[f]

(* What is made of a file's first content is of that.                       *)
FirstVersionInv ==
  \A f \in Files : Steady(f) =>
    /\ thumbs[f] # None => thumbs[f].of = 1
    /\ \A p \in Procs : proc[p].file = f =>
         /\ proc[p].pc \in {"share", "store", "hash"} => proc[p].of = 1
         /\ proc[p].pc = "share" => thumbs[f] # None
    /\ \A i \in Pictures : rows[i].file = f => rows[i].hash \in {0, 1}

AllHave(f) == \A i \in RowsOf(f) : rows[i].hash = 1

(* There is a thumbnail, and if it is an old one its hash has been shared,  *)
(* or there was none to share.                                              *)
Settled(f) == thumbs[f] # None /\ (thumbs[f].early => AllHave(f) \/ HashesOf(f) = {})

Working(f) == \E w \in Workers : proc[w].file = f /\ proc[w].pc \in {"lock", "check", "share", "store"}
Handled(f) == Settled(f) \/ Working(f)
Queued(f) == job.phase = "batch" /\ \E k \in DOMAIN job.queue : k > job.next /\ job.queue[k] = f

JobInv ==
  /\ job.state = "done" \/ job.phase # "batch" => AllDone
  /\ job.next \in 0..Len(job.queue)
  /\ job.listed => job.phase = "batch" /\ job.queue = Tasks /\ job.checkpoint <= job.next
  /\ ~job.listed => job.checkpoint = 0
  /\ ~job.listed /\ job.state = "done" => job.phase = "page"
  /\ job.listed /\ job.state = "done" => job.next = Len(Tasks)

(* A listed job: what precedes the checkpoint is done, and what was spawned *)
(* is done or worked on.                                                    *)
ListInv ==
  job.listed =>
    /\ \A k \in 1..job.checkpoint : Steady(Tasks[k]) => Settled(Tasks[k])
    /\ \A k \in 1..job.next : Steady(Tasks[k]) => Handled(Tasks[k])

(* The other job: what the cursor has passed is done, worked on or queued.  *)
Passed(i) == job.state = "done" \/ (job.phase # "count" /\ ~After(i, job.cursor))

PagesInv ==
  ~job.listed =>
    \A i \in Pictures :
      rows[i].file # None /\ Steady(rows[i].file) /\ Reached(i) /\ Passed(i) =>
        Handled(rows[i].file) \/ Queued(rows[i].file)

(* The rows of a file have the hash of its first content, or none has one,  *)
(* unless some had it at the start.                                         *)
Uniform(f) == AllHave(f) \/ HashesOf(f) = {}
UniformInv == \A f \in Files : Steady(f) /\ (thumbs[f] = None \/ ~thumbs[f].early) => Uniform(f)

(* Where the hash of a thumbnail is, if the program did not end since.      *)
HashInv ==
  \A f \in Files : Steady(f) /\ thumbs[f] # None =>
    /\ job.sessions = 1 /\ ~thumbs[f].early =>
         AllHave(f) \/ \E p \in Procs : proc[p].pc = "hash" /\ proc[p].file = f
    /\ thumbs[f].early /\ HashesOf(f) = {} => "delete" \in Changes /\ f \in Changing

IInv ==
  /\ TypeOK /\ Locks!Inv /\ LocksInv /\ VersionsInv /\ FirstVersionInv
  /\ JobInv /\ ListInv /\ PagesInv /\ HashInv /\ UniformInv

-----------------------------------------------------------------------------
(* The locks.                                                               *)

Elsewhere(p) ==
  \A q \in Procs \ {p} :
    key'[q] = key[q] /\ (at'[q] = "holding" <=> at[q] = "holding") /\ (at'[q] = "out" <=> at[q] = "out")

LEMMA UnlockEffect ==
  ASSUME TypeOK, NEW p \in Procs, Mutex!Unlock(p)
  PROVE  Elsewhere(p) /\ at'[p] = "out" /\ at[p] = "holding"
BY DEF Mutex!Unlock, Mutex!Woken, TypeOK, Mutex!TypeOK, Elsewhere

LEMMA LockMutexEffect ==
  ASSUME TypeOK, NEW p \in Procs, NEW f, Mutex!Lock(p, f) \/ (Mutex!Resume(p) /\ key[p] = f)
  PROVE  Elsewhere(p) /\ at'[p] # "out" /\ key'[p] = f /\ at[p] # "holding"
BY DEF Mutex!Lock, Mutex!Resume, Mutex!Try, Mutex!Locked, TypeOK, Mutex!TypeOK, Elsewhere

LEMMA LocksAreKept ==
  ASSUME ThumbnailsAssumption, TypeOK, Locks!Inv, LocksInv, [Next]_vars
  PROVE  Locks!Inv'
<1>1. None \notin Files
  BY DEF ThumbnailsAssumption
<1>2. [Locks!Next]_mutex => Locks!Inv'
  BY <1>1, Locks!NextInv DEF mutex, Locks!vars
<1>3. ASSUME NEW p \in Procs, Mutex!Unlock(p)
      PROVE  Locks!Inv'
  <2>1. Locks!Unlock(p)
    BY <1>3 DEF Mutex!Unlock, Locks!Unlock, Mutex!Woken, Locks!Woken
  <2> QED
    BY <2>1, <1>2 DEF Locks!Next
<1>4. ASSUME NEW p \in Procs, Lock(p)
      PROVE  Locks!Inv'
  <2>1. proc[p].file \in Files
    BY <1>4 DEF Lock, LocksInv
  <2>2. Locks!Lock(p, proc[p].file) \/ Locks!Resume(p)
    BY <1>4 DEF Lock, Mutex!Lock, Locks!Lock, Mutex!Resume, Locks!Resume, Mutex!Try, Locks!Try, Mutex!Locked, Locks!Locked
  <2> QED
    BY <2>1, <2>2, <1>2 DEF Locks!Next
<1>5. ASSUME NEW p \in Procs, Check(p)
      PROVE  Locks!Inv'
  BY <1>2, <1>3, <1>5 DEF Check
<1>6. CASE Crash
  <2>1. Locks!Init'
    BY <1>6 DEF Crash, Locks!Init
  <2> QED
    BY <1>1, <2>1 DEF Locks!Init, Locks!Inv, Locks!TypeOK, Locks!HeldByOne, Locks!HeldIsInSet, Locks!NobodyWaitsForAFreeKey
<1>7. CASE UNCHANGED mutex
  BY <1>2, <1>7
<1> QED
  BY <1>3, <1>4, <1>5, <1>6, <1>7
  DEF Next, Run, Share, Store, StoreHash, Request, RemoveReplaced, RestoreName, Delete, Add, vars,
      CountPage, LoadPage, Spawn, FinishBatches

(* What a goroutine's step does to its lock.                                *)
LEMMA RunMutex ==
  ASSUME ThumbnailsAssumption, TypeOK, LocksInv, NEW p \in Procs, Run(p)
  PROVE  /\ Elsewhere(p) /\ Step(p) /\ proc[p].pc # "idle" /\ proc[p].file \in Files
         /\ at'[p] = "holding" <=> proc'[p].pc \in {"check", "share", "store"}
         /\ at'[p] # "out" => key'[p] = proc'[p].file /\ proc'[p].pc # "idle" /\ proc'[p].pc # "hash"
<1>1. CASE Lock(p)
  <2>1. Mutex!Lock(p, proc[p].file) \/ (Mutex!Resume(p) /\ key[p] = proc[p].file)
    BY <1>1 DEF Lock, Mutex!Resume, LocksInv
  <2> QED
    BY <1>1, <2>1, LockEffect, LockMutexEffect DEF Step, LocksInv
<1>2. CASE Check(p)
  <2>1. proc[p].file \in Files
    BY <1>2 DEF Check, LocksInv
  <2>2. CASE UNCHANGED mutex
    BY <1>2, <2>1, <2>2, CheckEffect, UnlockEffect DEF Step, LocksInv, Elsewhere, mutex
  <2>3. CASE Mutex!Unlock(p) /\ proc'[p].pc = "idle"
    BY <1>2, <2>1, <2>3, CheckEffect, UnlockEffect DEF Step, LocksInv
  <2> QED
    BY <1>2, <2>1, <2>2, <2>3, CheckEffect
<1>3. CASE Share(p)
  BY <1>3, ShareEffect, UnlockEffect DEF Step, LocksInv
<1>4. CASE Store(p)
  BY <1>4, StoreEffect, UnlockEffect DEF Step, LocksInv
<1>5. CASE StoreHash(p)
  BY <1>5, StoreHashEffect DEF Step, LocksInv, Elsewhere, mutex
<1> QED
  BY <1>1, <1>2, <1>3, <1>4, <1>5 DEF Run

(* Of the goroutines that store, only one stores what is stored: it holds   *)
(* the lock of its file.                                                    *)
LEMMA RunLocks ==
  ASSUME ThumbnailsAssumption, TypeOK, Locks!Inv, LocksInv, VersionsInv, NEW p \in Procs, Run(p)
  PROVE  LocksInv'
<1>1. /\ Elsewhere(p) /\ Step(p) /\ proc[p].pc # "idle" /\ proc[p].file \in Files
      /\ at'[p] = "holding" <=> proc'[p].pc \in {"check", "share", "store"}
      /\ at'[p] # "out" => key'[p] = proc'[p].file /\ proc'[p].pc # "idle" /\ proc'[p].pc # "hash"
  BY RunMutex
<1>2. proc'[p].pc \in {"share", "store", "hash"} => proc'[p].of # 0
  <2>1. CASE Lock(p)
    BY <2>1, LockEffect
  <2>2. CASE Check(p)
    <3>1. thumbs[proc[p].file] # None => thumbs[proc[p].file].of # 0
      BY <1>1 DEF TypeOK, Thumb
    <3> QED
      BY <1>1, <2>2, <3>1, CheckEffect
  <2>3. CASE Share(p)
    BY <2>3, ShareEffect DEF LocksInv
  <2>4. CASE Store(p)
    BY <2>4, StoreEffect DEF LocksInv
  <2>5. CASE StoreHash(p)
    BY <2>5, StoreHashEffect
  <2> QED
    BY <2>1, <2>2, <2>3, <2>4, <2>5 DEF Run
<1>3. ASSUME NEW q \in Procs, proc'[q].pc = "store"
      PROVE  thumbs'[proc'[q].file] = None
  <2>1. CASE Store(p)
    <3>1. q # p /\ proc[q].pc = "store" /\ proc'[q] = proc[q]
      BY <1>1, <1>3, <2>1, StoreEffect DEF Step, Alone
    <3>2. proc[q].file # proc[p].file
      <4>1. at[p] = "holding" /\ at[q] = "holding" /\ key[p] = proc[p].file /\ key[q] = proc[q].file
        BY <2>1, <3>1, StoreEffect DEF LocksInv
      <4> QED
        BY <3>1, <4>1 DEF Locks!Inv, Locks!HeldByOne
    <3>3. proc[q].file \in Files /\ thumbs[proc[q].file] = None
      BY <3>1 DEF LocksInv
    <3>4. thumbs' = [thumbs EXCEPT ![proc[p].file] = [of |-> proc[p].of, early |-> FALSE]]
      BY <2>1, StoreEffect
    <3>5. thumbs \in [Files -> Thumb \cup {None}]
      BY DEF TypeOK
    <3>6. thumbs'[proc[q].file] = thumbs[proc[q].file]
      BY <3>2, <3>3, <3>4, <3>5
    <3> QED
      BY <3>1, <3>3, <3>6
  <2>2. CASE Lock(p) \/ Share(p) \/ StoreHash(p)
    BY <1>1, <1>3, <2>2, LockEffect, ShareEffect, StoreHashEffect DEF Step, Alone, LocksInv
  <2>3. CASE Check(p)
    BY <1>1, <1>3, <2>3, CheckEffect DEF Step, Alone, LocksInv
  <2> QED
    BY <2>1, <2>2, <2>3 DEF Run
<1>4. ASSUME NEW q \in Procs, q # p
      PROVE  /\ proc'[q] = proc[q] /\ key'[q] = key[q]
             /\ at'[q] = "holding" <=> at[q] = "holding"
             /\ at'[q] = "out" <=> at[q] = "out"
  BY <1>1, <1>4 DEF Step, Alone, Elsewhere
<1> QED
  BY <1>1, <1>2, <1>3, <1>4 DEF LocksInv, Step

-----------------------------------------------------------------------------
(* Files that come and go: what has its first content afterwards had it     *)
(* before, and nothing of it has changed but that rows may be gone.         *)

FilesTyped ==
  /\ rows \in [Pictures -> Row]
  /\ content \in [Files -> Versions]
  /\ written \in [Files -> Versions]
  /\ thumbs \in [Files -> Thumb \cup {None}]

FilesEffect ==
  /\ UNCHANGED <<proc, job, mutex>>
  /\ FilesTyped' /\ VersionsInv'
  /\ \A f \in Files : thumbs'[f] = thumbs[f] \/ thumbs'[f] = None
  /\ \A f \in Files : content'[f] = 1 =>
       /\ content[f] = 1 /\ thumbs'[f] = thumbs[f]
       /\ \A i \in Pictures : rows'[i].file = f => rows'[i] = rows[i]
       /\ "delete" \notin Changes \/ f \notin Changing =>
            \A i \in Pictures : rows[i].file = f => rows'[i] = rows[i]

LEMMA WrittenEffect ==
  ASSUME ThumbnailsAssumption, TypeOK, VersionsInv, NEW f \in Files, Written(f)
  PROVE  /\ content' \in [Files -> Versions] /\ written' \in [Files -> Versions]
         /\ VersionsInv' /\ content'[f] # 1
         /\ \A g \in Files : g # f => content'[g] = content[g]
<1>1. written[f] \in Nat /\ written[f] >= 1 /\ written[f] < MaxVersions /\ MaxVersions \in Nat
  BY DEF TypeOK, Versions, Written, VersionsInv, ThumbnailsAssumption
<1>2. written[f] + 1 \in Versions /\ written[f] + 1 # 1 /\ written[f] + 1 >= 1
  BY <1>1 DEF Versions
<1>3. /\ written' = [written EXCEPT ![f] = written[f] + 1]
      /\ content' = [content EXCEPT ![f] = written[f] + 1]
      /\ written \in [Files -> Versions] /\ content \in [Files -> Versions]
  BY DEF Written, TypeOK
<1>4. /\ content' \in [Files -> Versions] /\ written' \in [Files -> Versions]
      /\ content'[f] = written[f] + 1 /\ written'[f] = written[f] + 1
      /\ \A g \in Files : g # f => content'[g] = content[g] /\ written'[g] = written[g]
  BY <1>2, <1>3
<1>5. ASSUME NEW g \in Files
      PROVE  written'[g] >= 1 /\ content'[g] <= written'[g]
  <2>1. CASE g = f
    BY <1>1, <1>2, <1>4, <2>1
  <2>2. CASE g # f
    BY <1>4, <2>2 DEF VersionsInv
  <2> QED
    BY <2>1, <2>2
<1> QED
  BY <1>2, <1>4, <1>5 DEF VersionsInv

LEMMA FilesHaveEffect ==
  ASSUME ThumbnailsAssumption, TypeOK, VersionsInv,
         \/ \E f \in Files : RemoveReplaced(f) \/ RestoreName(f)
         \/ \E i \in Pictures : Delete(i) \/ \E f \in Files : Add(i, f)
  PROVE  FilesEffect
<1>1. ASSUME NEW f \in Files, RemoveReplaced(f)
      PROVE  FilesEffect
  <2>1. /\ content' = [content EXCEPT ![f] = 0] /\ thumbs' = [thumbs EXCEPT ![f] = None]
        /\ UNCHANGED <<rows, written, proc, job, mutex>>
    BY <1>1 DEF RemoveReplaced
  <2>2. FilesTyped'
    BY <2>1, IdleType DEF TypeOK, FilesTyped
  <2>3. VersionsInv'
    BY <2>1 DEF TypeOK, VersionsInv, Versions
  <2>4. \A g \in Files : g # f => thumbs'[g] = thumbs[g] /\ content'[g] = content[g]
    BY <2>1 DEF TypeOK
  <2>5. thumbs'[f] = None /\ content'[f] = 0
    BY <2>1 DEF TypeOK
  <2> QED
    BY <2>1, <2>2, <2>3, <2>4, <2>5 DEF FilesEffect
<1>2. ASSUME NEW f \in Files, RestoreName(f)
      PROVE  FilesEffect
  <2>1. /\ rows' = [i \in Pictures |-> IF i \in RowsOf(f) THEN [rows[i] EXCEPT !.updated = TRUE] ELSE rows[i]]
        /\ Written(f) /\ UNCHANGED <<thumbs, proc, job, mutex>>
    BY <1>2 DEF RestoreName
  <2>2. /\ content' \in [Files -> Versions] /\ written' \in [Files -> Versions]
        /\ VersionsInv' /\ content'[f] # 1
        /\ \A g \in Files : g # f => content'[g] = content[g]
    BY <2>1, WrittenEffect
  <2>3. /\ rows' \in [Pictures -> Row]
        /\ \A i \in Pictures : rows'[i].file = rows[i].file /\ (rows[i].file # f => rows'[i] = rows[i])
    BY <2>1 DEF TypeOK, Row, RowsOf
  <2>4. FilesTyped'
    BY <2>1, <2>2, <2>3 DEF TypeOK, FilesTyped
  <2> QED
    BY <2>1, <2>2, <2>3, <2>4 DEF FilesEffect
<1>3. ASSUME NEW i \in Pictures, Delete(i)
      PROVE  FilesEffect
  <2> DEFINE f == rows[i].file
             gone == [time |-> None, file |-> None, hash |-> 0, updated |-> FALSE]
  <2>1. /\ "delete" \in Changes /\ f \in Changing
        /\ rows' = [rows EXCEPT ![i] = gone]
        /\ content' = [content EXCEPT ![f] = IF RowsOf(f) = {i} THEN 0 ELSE @]
        /\ UNCHANGED <<written, thumbs, proc, job, mutex>>
    BY <1>3 DEF Delete
  <2>2. gone \in Row /\ 0 \in Versions /\ gone.file = None /\ None \notin Files
    BY IdleType DEF Row, ThumbnailsAssumption
  <2>3. /\ rows' \in [Pictures -> Row] /\ rows'[i].file = None
        /\ \A j \in Pictures : j # i => rows'[j] = rows[j]
    BY <2>1, <2>2 DEF TypeOK
  <2>4. /\ content' \in [Files -> Versions]
        /\ \A g \in Files : content'[g] = 0 \/ content'[g] = content[g]
    BY <2>1, <2>2 DEF TypeOK
  <2>5. FilesTyped' /\ VersionsInv'
    BY <2>1, <2>3, <2>4 DEF TypeOK, FilesTyped, VersionsInv, Versions
  <2>6. ASSUME NEW g \in Files, content'[g] = 1
        PROVE  /\ content[g] = 1
               /\ \A j \in Pictures : rows'[j].file = g => rows'[j] = rows[j]
               /\ g \notin Changing => \A j \in Pictures : rows[j].file = g => rows'[j] = rows[j]
    BY <2>1, <2>2, <2>3, <2>4, <2>6
  <2> QED
    BY <2>1, <2>5, <2>6 DEF FilesEffect
<1>4. ASSUME NEW i \in Pictures, NEW f \in Files, Add(i, f)
      PROVE  FilesEffect
  <2>1. /\ rows' = [rows EXCEPT ![i].file = f] /\ rows[i].file = None
        /\ Written(f) /\ UNCHANGED <<thumbs, proc, job, mutex>>
    BY <1>4 DEF Add
  <2>2. /\ content' \in [Files -> Versions] /\ written' \in [Files -> Versions]
        /\ VersionsInv' /\ content'[f] # 1
        /\ \A g \in Files : g # f => content'[g] = content[g]
    BY <2>1, WrittenEffect
  <2>3. /\ rows' \in [Pictures -> Row] /\ rows'[i].file = f
        /\ \A j \in Pictures : j # i => rows'[j] = rows[j]
    BY <2>1 DEF TypeOK, Row
  <2>4. FilesTyped'
    BY <2>1, <2>2, <2>3 DEF TypeOK, FilesTyped
  <2>5. None \notin Files
    BY DEF ThumbnailsAssumption
  <2> QED
    BY <2>1, <2>2, <2>3, <2>4, <2>5 DEF FilesEffect
<1> QED
  BY <1>1, <1>2, <1>3, <1>4

(* A crash: nothing but the two databases and the files remain, and the     *)
(* job begins again, with its first page or at its checkpoint.              *)
CrashEffect ==
  /\ UNCHANGED <<files, thumbs>>
  /\ proc' \in [Procs -> Proc] /\ \A p \in Procs : proc'[p] = Idle
  /\ \A p \in Procs : at'[p] = "out"
  /\ job.state = "running" /\ job' \in Job /\ job'.state = "running"
  /\ job'.sessions # 1
  /\ job'.listed = job.listed /\ job'.checkpoint = job.checkpoint /\ job'.next = job.checkpoint
  /\ job'.phase = IF job.listed THEN "batch" ELSE "count"
  /\ job'.queue = IF job.listed THEN Tasks ELSE <<>>

LEMMA CrashHasEffect ==
  ASSUME ThumbnailsAssumption, TypeOK, Crash
  PROVE  CrashEffect
<1>1. /\ job \in Job /\ job.state = "running" /\ job.sessions < MaxSessions
      /\ job' = Begun(job.listed, job.regenerate, job.checkpoint, job.sessions + 1)
  BY DEF Crash, TypeOK
<1>2. /\ job.listed \in BOOLEAN /\ job.regenerate \in BOOLEAN /\ job.checkpoint \in Nat
      /\ job.sessions \in 1..MaxSessions /\ MaxSessions \in Nat
  BY <1>1 DEF Job, ThumbnailsAssumption
<1>3. job.sessions + 1 \in 1..MaxSessions /\ job.sessions + 1 # 1
  BY <1>1, <1>2
<1>4. job' \in Job
  BY <1>1, <1>2, <1>3, BegunType
<1>5. /\ job'.state = "running" /\ job'.sessions # 1
      /\ job'.listed = job.listed /\ job'.checkpoint = job.checkpoint /\ job'.next = job.checkpoint
      /\ job'.phase = IF job.listed THEN "batch" ELSE "count"
      /\ job'.queue = IF job.listed THEN Tasks ELSE <<>>
  BY <1>1, <1>3 DEF Begun
<1>6. /\ UNCHANGED <<files, thumbs>> /\ proc' = [p \in Procs |-> Idle]
      /\ \A p \in Procs : at'[p] = "out"
  BY DEF Crash
<1> QED
  BY <1>1, <1>4, <1>5, <1>6, IdleType DEF CrashEffect

-----------------------------------------------------------------------------
(* Types, versions, and what is made of first versions.                     *)

LEMMA HashesAreNone ==
  ASSUME NEW f
  PROVE  HashesOf(f) = {} <=> \A i \in Pictures : rows[i].file = f => rows[i].hash = 0
BY DEF HashesOf, RowsOf

LEMMA SharedHashIsKnown ==
  ASSUME RowsTyped, 0 \in Versions, NEW f, NEW h \in SharedHashes(f)
  PROVE  /\ h \in Versions
         /\ h = 0 <=> \A i \in Pictures : rows[i].file = f => rows[i].hash = 0
         /\ h # 0 => \E i \in Pictures : rows[i].file = f /\ rows[i].hash = h
BY DEF SharedHashes, HashesOf, RowsOf, RowsTyped, Row

(* Goroutines change no more of a row than its hash.                        *)
RowsKept ==
  /\ rows' \in [Pictures -> Row]
  /\ \A i \in Pictures : rows'[i].time = rows[i].time /\ rows'[i].file = rows[i].file

LEMMA RunRows ==
  ASSUME ThumbnailsAssumption, TypeOK, LocksInv, NEW p \in Procs, Run(p)
  PROVE  RowsKept /\ FilesTyped'
<1>1. RowsTyped /\ proc[p] \in Proc /\ 0 \in Versions /\ proc[p].of \in Versions
  BY IdleType DEF TypeOK, RowsTyped, Proc
<1>2. Step(p)
  BY RunMutex
<1>3. CASE UNCHANGED <<rows, thumbs>>
  BY <1>2, <1>3 DEF TypeOK, FilesTyped, RowsKept, Step
<1>4. CASE Share(p)
  <2>1. PICK h \in SharedHashes(proc[p].file) : rows' = WithHash(proc[p].file, h)
    BY <1>4, ShareEffect
  <2>2. h \in Versions
    BY <1>1, SharedHashIsKnown
  <2> QED
    BY <1>1, <1>2, <1>4, <2>1, <2>2, ShareEffect, WithHashType DEF TypeOK, FilesTyped, RowsKept, Step
<1>5. CASE StoreHash(p)
  BY <1>1, <1>2, <1>5, StoreHashEffect, WithHashType DEF TypeOK, FilesTyped, RowsKept, Step
<1>6. CASE Store(p)
  <2>1. proc[p].file \in Files /\ proc[p].of # 0
    BY <1>6, RunMutex, StoreEffect DEF LocksInv
  <2>2. [of |-> proc[p].of, early |-> FALSE] \in Thumb
    BY <1>1, <2>1 DEF Thumb
  <2> QED
    BY <1>2, <1>6, <2>1, <2>2, StoreEffect DEF TypeOK, FilesTyped, RowsKept, Step
<1> QED
  <2>1. Lock(p) \/ Check(p) => UNCHANGED <<rows, thumbs>>
    BY DEF Lock, Check, files
  <2> QED
    BY <1>3, <1>4, <1>5, <1>6, <2>1 DEF Run

(* What steps other than those of goroutines and files do.                  *)
JobStep ==
  \/ CountEffect
  \/ LoadEffect(Page(job.cursor))
  \/ \E w \in Workers : SpawnEffect(w)
  \/ FinishEffect

RequestStep(c, f) ==
  /\ c \in Procs /\ c \notin Workers
  /\ UNCHANGED <<files, thumbs, job, mutex>>
  /\ proc' \in [Procs -> Proc] /\ Alone(c)
  /\ proc[c].pc = "idle" /\ proc'[c].pc = "lock" /\ proc'[c].file = f

LEMMA Steps ==
  ASSUME ThumbnailsAssumption, TypeOK, VersionsInv, [Next]_vars
  PROVE  \/ JobStep
         \/ \E p \in Procs : Run(p)
         \/ \E c \in Procs, f \in Files : RequestStep(c, f)
         \/ FilesEffect \/ CrashEffect
         \/ UNCHANGED vars
<1>1. CountPage \/ LoadPage \/ Spawn \/ FinishBatches => JobStep
  BY CountPageEffect, LoadPageEffect, SpawnHasEffect, FinishHasEffect DEF JobStep
<1>2. ASSUME NEW c \in Clients, NEW f \in Files, Request(c, f)
      PROVE  c \in Procs /\ RequestStep(c, f)
  BY <1>2, RequestEffect DEF RequestStep
<1>3. (\E f \in Files : RemoveReplaced(f) \/ RestoreName(f))
      \/ (\E i \in Pictures : Delete(i) \/ \E f \in Files : Add(i, f)) => FilesEffect
  BY FilesHaveEffect
<1>4. Crash => CrashEffect
  BY CrashHasEffect
<1> QED
  BY <1>1, <1>2, <1>3, <1>4 DEF Next

LEMMA TypesAreKept ==
  ASSUME ThumbnailsAssumption, TypeOK, Locks!Inv, LocksInv, VersionsInv, [Next]_vars
  PROVE  TypeOK' /\ LocksInv' /\ VersionsInv'
<1>1. FilesTyped' /\ proc' \in [Procs -> Proc] /\ job' \in Job /\ LocksInv' /\ VersionsInv'
  <2>1. ASSUME NEW p \in Procs, Run(p)
        PROVE  FilesTyped' /\ proc' \in [Procs -> Proc] /\ job' \in Job /\ LocksInv' /\ VersionsInv'
    BY <2>1, RunRows, RunLocks, RunMutex DEF Step, VersionsInv
  <2>2. CASE FilesEffect
    BY <2>2 DEF FilesEffect, LocksInv, TypeOK, mutex
  <2>3. CASE CrashEffect
    BY <2>3, IdleType DEF CrashEffect, LocksInv, VersionsInv, TypeOK, FilesTyped, files
  <2>4. CASE CountEffect \/ LoadEffect(Page(job.cursor)) \/ FinishEffect
    BY <2>4 DEF CountEffect, LoadEffect, FinishEffect, LocksInv, VersionsInv, TypeOK, FilesTyped, files, mutex
  <2>5. ASSUME NEW w \in Workers, SpawnEffect(w)
        PROVE  FilesTyped' /\ proc' \in [Procs -> Proc] /\ job' \in Job /\ LocksInv' /\ VersionsInv'
    <3>1. w \in Procs /\ at[w] = "out"
      BY <2>5 DEF Procs, SpawnEffect, LocksInv, TypeOK, Mutex!TypeOK
    <3>2. proc'[w].file \in Files
      BY <2>5 DEF SpawnEffect, TypeOK, Job
    <3> QED
      BY <2>5, <3>1, <3>2 DEF SpawnEffect, Alone, LocksInv, VersionsInv, TypeOK, FilesTyped, files, mutex
  <2>6. ASSUME NEW c \in Procs, NEW f \in Files, RequestStep(c, f)
        PROVE  FilesTyped' /\ proc' \in [Procs -> Proc] /\ job' \in Job /\ LocksInv' /\ VersionsInv'
    <3>1. at[c] = "out"
      BY <2>6 DEF RequestStep, LocksInv
    <3> QED
      BY <2>6, <3>1 DEF RequestStep, Alone, LocksInv, VersionsInv, TypeOK, FilesTyped, files, mutex
  <2>7. CASE UNCHANGED vars
    BY <2>7 DEF vars, files, mutex, LocksInv, VersionsInv, TypeOK, FilesTyped
  <2> QED
    BY <2>1, <2>2, <2>3, <2>4, <2>5, <2>6, <2>7, Steps DEF JobStep
<1>2. Mutex!TypeOK'
  BY LocksAreKept DEF Locks!Inv, Locks!TypeOK, Mutex!TypeOK
<1> QED
  BY <1>1, <1>2 DEF TypeOK, FilesTyped, LocksInv

(* What a goroutine's step does to a file with its first content.           *)
RunFirstEffect(p, f) ==
  /\ thumbs[f] # None => thumbs'[f] = thumbs[f]
  /\ thumbs'[f] # None => thumbs'[f].of = 1
  /\ thumbs[f] = None /\ thumbs'[f] # None =>
       ~thumbs'[f].early /\ proc'[p].pc = "hash" /\ proc'[p].file = f
  /\ proc'[p].file = f =>
       /\ proc'[p].pc \in {"share", "store", "hash"} => proc'[p].of = 1
       /\ proc'[p].pc = "share" => thumbs'[f] # None

LEMMA RunOnFirst ==
  ASSUME ThumbnailsAssumption, TypeOK, LocksInv, FirstVersionInv,
         NEW p \in Procs, Run(p), NEW f \in Files, Steady(f)
  PROVE  RunFirstEffect(p, f)
<1>1. Step(p) /\ proc[p].pc # "idle" /\ proc[p].file \in Files
  BY RunMutex
<1>2. /\ thumbs[f] # None => thumbs[f].of = 1
      /\ proc[p].file = f =>
           /\ proc[p].pc \in {"share", "store", "hash"} => proc[p].of = 1
           /\ proc[p].pc = "share" => thumbs[f] # None
  BY DEF FirstVersionInv
<1>3. content[f] = 1
  BY DEF Steady
<1>4. CASE Lock(p)
  BY <1>1, <1>2, <1>4, LockEffect DEF RunFirstEffect, Step
<1>5. CASE Check(p)
  BY <1>1, <1>2, <1>3, <1>5, CheckEffect DEF RunFirstEffect, Step
<1>6. CASE Share(p)
  BY <1>1, <1>2, <1>6, ShareEffect DEF RunFirstEffect, Step
<1>7. CASE StoreHash(p)
  BY <1>1, <1>2, <1>7, StoreHashEffect DEF RunFirstEffect, Step
<1>8. CASE Store(p)
  <2>1. /\ thumbs' = [thumbs EXCEPT ![proc[p].file] = [of |-> proc[p].of, early |-> FALSE]]
        /\ proc[p].pc = "store" /\ proc'[p].pc = "hash" /\ proc'[p].of = proc[p].of
        /\ proc'[p].file = proc[p].file
        /\ thumbs \in [Files -> Thumb \cup {None}]
    BY <1>1, <1>8, StoreEffect DEF Step, TypeOK
  <2>2. CASE proc[p].file = f
    <3>1. thumbs[f] = None
      BY <2>1, <2>2 DEF LocksInv
    <3>2. thumbs'[f] = [of |-> 1, early |-> FALSE]
      BY <1>2, <2>1, <2>2
    <3> QED
      BY <1>2, <2>1, <2>2, <3>1, <3>2 DEF RunFirstEffect
  <2>3. CASE proc[p].file # f
    <3>1. thumbs'[f] = thumbs[f]
      BY <2>1, <2>3
    <3> QED
      BY <1>2, <2>1, <2>3, <3>1 DEF RunFirstEffect
  <2> QED
    BY <2>2, <2>3
<1> QED
  BY <1>4, <1>5, <1>6, <1>7, <1>8 DEF Run

(* The hashes of such a file.  None is lost, and a task that finds the      *)
(* thumbnail leaves every row with it, or no row.                           *)
RunHashEffect(p, f) ==
  /\ \A i \in Pictures : rows'[i].file = f => rows'[i].hash \in {0, 1}
  /\ AllHave(f) => AllHave(f)'
  /\ HashesOf(f) = {} => HashesOf(f)' = {} \/ AllHave(f)'
  /\ HashesOf(f) # {} => HashesOf(f)' # {}
  /\ proc[p].file = f /\ proc[p].pc = "share" => HashesOf(f)' = {} \/ AllHave(f)'
  /\ proc[p].file = f /\ proc[p].pc = "hash" => AllHave(f)'

LEMMA RunOnHashes ==
  ASSUME ThumbnailsAssumption, TypeOK, LocksInv, FirstVersionInv,
         NEW p \in Procs, Run(p), NEW f \in Files, Steady(f)
  PROVE  RunHashEffect(p, f)
<1>1. Step(p) /\ RowsTyped /\ RowsKept /\ 0 \in Versions /\ 1 \in Versions /\ proc[p].of \in Versions
  BY RunMutex, RunRows, IdleType DEF TypeOK, RowsTyped, Proc
<1>2. \A i \in Pictures : rows[i].file = f => rows[i].hash \in {0, 1}
  BY DEF FirstVersionInv
<1>3. /\ HashesOf(f) = {} <=> \A i \in Pictures : rows[i].file = f => rows[i].hash = 0
      /\ HashesOf(f)' = {} <=> \A i \in Pictures : rows'[i].file = f => rows'[i].hash = 0
      /\ AllHave(f) <=> \A i \in Pictures : rows[i].file = f => rows[i].hash = 1
      /\ AllHave(f)' <=> \A i \in Pictures : rows'[i].file = f => rows'[i].hash = 1
  BY DEF HashesOf, RowsOf, AllHave
<1>4. CASE UNCHANGED rows /\ proc[p].pc \notin {"share", "hash"}
  BY <1>2, <1>3, <1>4 DEF RunHashEffect
<1>5. ASSUME NEW h \in Versions, rows' = WithHash(proc[p].file, h), proc[p].file # f
      PROVE  RunHashEffect(p, f)
  <2>1. \A i \in Pictures : rows[i].file = f => rows'[i].hash = rows[i].hash
    BY <1>1, <1>5, WithHashType
  <2> QED
    BY <1>1, <1>2, <1>3, <1>5, <2>1 DEF RunHashEffect, RowsKept
<1>6. ASSUME NEW h \in Versions, rows' = WithHash(proc[p].file, h), proc[p].file = f
      PROVE  \A i \in Pictures : rows[i].file = f => rows'[i].hash = h
  BY <1>1, <1>6, WithHashType
<1>7. CASE Share(p)
  <2>1. proc[p].pc = "share"
    BY <1>7, ShareEffect
  <2>2. PICK h \in SharedHashes(proc[p].file) : rows' = WithHash(proc[p].file, h)
    BY <1>7, ShareEffect
  <2>3. /\ h \in Versions
        /\ h = 0 <=> \A i \in Pictures : rows[i].file = proc[p].file => rows[i].hash = 0
        /\ h # 0 => \E i \in Pictures : rows[i].file = proc[p].file /\ rows[i].hash = h
    BY <1>1, SharedHashIsKnown
  <2>4. CASE proc[p].file = f
    <3>1. \A i \in Pictures : rows[i].file = f => rows'[i].hash = h
      BY <1>6, <2>2, <2>3, <2>4
    <3>2. h \in {0, 1}
      BY <1>2, <2>3, <2>4
    <3> QED
      BY <1>1, <1>2, <1>3, <2>1, <2>3, <2>4, <3>1, <3>2 DEF RunHashEffect, RowsKept
  <2> QED
    BY <1>5, <2>2, <2>3, <2>4
<1>8. CASE StoreHash(p)
  <2>1. proc[p].pc = "hash" /\ rows' = WithHash(proc[p].file, proc[p].of)
    BY <1>8, StoreHashEffect
  <2>2. CASE proc[p].file = f
    <3>1. proc[p].of = 1
      BY <2>1, <2>2 DEF FirstVersionInv
    <3>2. \A i \in Pictures : rows[i].file = f => rows'[i].hash = 1
      BY <1>1, <1>6, <2>1, <2>2, <3>1
    <3> QED
      BY <1>1, <1>2, <1>3, <2>1, <2>2, <3>2 DEF RunHashEffect, RowsKept
  <2> QED
    BY <1>1, <1>5, <2>1, <2>2
<1> QED
  <2>1. Lock(p) \/ Check(p) \/ Store(p) => UNCHANGED rows /\ proc[p].pc \notin {"share", "hash"}
    BY DEF Lock, Check, Store, files
  <2> QED
    BY <1>4, <1>7, <1>8, <2>1 DEF Run

(* Nothing but a change of files alters what is a first content.            *)
LEMMA SteadyBefore ==
  ASSUME FilesEffect \/ UNCHANGED content, NEW f \in Files
  PROVE  Steady(f)' => Steady(f)
BY DEF FilesEffect, Steady

LEMMA FirstVersionsAreKept ==
  ASSUME ThumbnailsAssumption, TypeOK, Locks!Inv, LocksInv, VersionsInv, FirstVersionInv, [Next]_vars
  PROVE  FirstVersionInv'
<1>1. ASSUME NEW p \in Procs, Run(p)
      PROVE  FirstVersionInv'
  <2> SUFFICES ASSUME NEW f \in Files, Steady(f)'
               PROVE  /\ thumbs'[f] # None => thumbs'[f].of = 1
                      /\ \A q \in Procs : proc'[q].file = f =>
                           /\ proc'[q].pc \in {"share", "store", "hash"} => proc'[q].of = 1
                           /\ proc'[q].pc = "share" => thumbs'[f] # None
                      /\ \A i \in Pictures : rows'[i].file = f => rows'[i].hash \in {0, 1}
    BY DEF FirstVersionInv
  <2>1. Step(p)
    BY <1>1, RunMutex
  <2>2. Steady(f)
    BY <2>1, SteadyBefore DEF Step
  <2>3. RunFirstEffect(p, f) /\ RunHashEffect(p, f)
    BY <1>1, <2>2, RunOnFirst, RunOnHashes
  <2>4. \A q \in Procs : q # p => proc'[q] = proc[q]
    BY <2>1 DEF Step, Alone
  <2> QED
    BY <2>2, <2>3, <2>4 DEF RunFirstEffect, RunHashEffect, FirstVersionInv
<1>2. CASE FilesEffect
  <2>1. \A f \in Files : Steady(f)' => Steady(f)
    BY <1>2, SteadyBefore
  <2> QED
    BY <1>2, <2>1 DEF FilesEffect, FirstVersionInv, Steady
<1>3. CASE CrashEffect
  BY <1>3 DEF CrashEffect, files, Idle, FirstVersionInv, Steady
<1>4. CASE UNCHANGED <<files, thumbs, proc>>
  BY <1>4 DEF files, FirstVersionInv, Steady
<1>5. ASSUME NEW w \in Procs, UNCHANGED <<files, thumbs>>, Alone(w), proc'[w].pc = "lock"
      PROVE  FirstVersionInv'
  BY <1>5 DEF files, Alone, FirstVersionInv, Steady
<1>6. CASE JobStep
  <2>1. Workers \subseteq Procs
    BY DEF Procs
  <2> QED
    BY <1>4, <1>5, <1>6, <2>1 DEF JobStep, CountEffect, LoadEffect, SpawnEffect, FinishEffect
<1>7. ASSUME NEW c \in Procs, NEW f \in Files, RequestStep(c, f)
      PROVE  FirstVersionInv'
  BY <1>5, <1>7 DEF RequestStep
<1>8. CASE UNCHANGED vars
  BY <1>4, <1>8 DEF vars
<1> QED
  BY <1>1, <1>2, <1>3, <1>6, <1>7, <1>8, Steps

-----------------------------------------------------------------------------
(* What is settled stays so, and what is worked on gets settled.            *)

LEMMA SettledIsKept ==
  ASSUME ThumbnailsAssumption, TypeOK, LocksInv, VersionsInv, FirstVersionInv, [Next]_vars,
         NEW f \in Files, Steady(f)', Settled(f)
  PROVE  Settled(f)'
<1>1. ASSUME NEW p \in Procs, Run(p)
      PROVE  Settled(f)'
  <2>1. Steady(f)
    BY <1>1, RunMutex, SteadyBefore DEF Step
  <2>2. RunFirstEffect(p, f) /\ RunHashEffect(p, f)
    BY <1>1, <2>1, RunOnFirst, RunOnHashes
  <2> QED
    BY <2>2 DEF RunFirstEffect, RunHashEffect, Settled
<1>2. CASE FilesEffect
  BY <1>2 DEF FilesEffect, Steady, Settled, AllHave, HashesOf, RowsOf
<1>3. CASE UNCHANGED <<rows, thumbs>>
  BY <1>3 DEF Settled, AllHave, HashesOf, RowsOf
<1> QED
  BY <1>1, <1>2, <1>3, Steps
  DEF JobStep, CountEffect, LoadEffect, SpawnEffect, FinishEffect, RequestStep, CrashEffect, files, vars

(* A goroutine of the job leaves its task settled.                          *)
LEMMA RunSettles ==
  ASSUME ThumbnailsAssumption, TypeOK, LocksInv, VersionsInv, FirstVersionInv,
         NEW p \in Procs, Run(p), NEW f \in Files, Steady(f),
         proc[p].file = f, proc[p].pc \in {"lock", "check", "share", "store"}
  PROVE  Settled(f)' \/ (proc'[p].file = f /\ proc'[p].pc \in {"lock", "check", "share", "store"})
<1>1. Step(p) /\ RunFirstEffect(p, f) /\ RunHashEffect(p, f) /\ thumbs \in [Files -> Thumb \cup {None}]
  BY RunMutex, RunOnFirst, RunOnHashes DEF TypeOK
<1>2. CASE Lock(p)
  BY <1>1, <1>2, LockEffect DEF Step
<1>3. CASE Check(p)
  BY <1>1, <1>3, CheckEffect DEF Step, Steady
<1>4. CASE Share(p)
  <2>1. thumbs[f] # None
    BY <1>4, ShareEffect DEF FirstVersionInv
  <2> QED
    BY <1>1, <1>4, <2>1, ShareEffect DEF RunFirstEffect, RunHashEffect, Settled
<1>5. CASE Store(p)
  <2>1. thumbs' = [thumbs EXCEPT ![f] = [of |-> proc[p].of, early |-> FALSE]]
    BY <1>5, StoreEffect
  <2>2. thumbs'[f] = [of |-> proc[p].of, early |-> FALSE]
    BY <1>1, <2>1
  <2>3. thumbs[f] = None /\ proc[p].pc = "store"
    BY <1>5, StoreEffect DEF LocksInv
  <2>4. thumbs'[f] \in Thumb /\ None \notin Thumb
    <3>1. proc[p].of \in Versions \ {0}
      BY <2>3 DEF LocksInv, TypeOK, Proc
    <3> QED
      BY <2>2, <3>1 DEF ThumbnailsAssumption, Thumb
  <2>5. thumbs'[f] # None
    BY <2>4
  <2>6. ~thumbs'[f].early
    BY <2>2
  <2> QED
    BY <2>5, <2>6 DEF Settled
<1>6. CASE StoreHash(p)
  BY <1>6, StoreHashEffect
<1> QED
  BY <1>2, <1>3, <1>4, <1>5, <1>6 DEF Run

LEMMA HandledIsKept ==
  ASSUME ThumbnailsAssumption, TypeOK, LocksInv, VersionsInv, FirstVersionInv, [Next]_vars,
         ~CrashEffect, NEW f \in Files, Steady(f)', Handled(f)
  PROVE  Handled(f)'
<1>1. CASE Settled(f)
  BY <1>1, SettledIsKept DEF Handled
<1> SUFFICES ASSUME NEW w \in Workers, proc[w].file = f, proc[w].pc \in {"lock", "check", "share", "store"}
             PROVE  Handled(f)'
  BY <1>1 DEF Handled, Working
<1>2. w \in Procs
  BY DEF Procs
<1>3. CASE proc'[w] = proc[w]
  BY <1>3 DEF Handled, Working
<1>4. ASSUME NEW p \in Procs, Run(p)
      PROVE  Handled(f)'
  <2>1. Step(p) /\ Steady(f)
    BY <1>4, RunMutex, SteadyBefore DEF Step
  <2>2. CASE p = w
    BY <1>4, <2>1, <2>2, RunSettles DEF Handled, Working
  <2>3. CASE p # w
    BY <1>2, <1>3, <2>1, <2>3 DEF Step, Alone
  <2> QED
    BY <2>2, <2>3
<1>5. ASSUME NEW p \in Procs, Alone(p), proc[p].pc = "idle"
      PROVE  Handled(f)'
  BY <1>2, <1>3, <1>5 DEF Alone
<1>6. CASE UNCHANGED proc
  BY <1>3, <1>6
<1> QED
  <2>1. Workers \subseteq Procs
    BY DEF Procs
  <2> QED
    BY <1>4, <1>5, <1>6, <2>1, Steps
    DEF JobStep, CountEffect, LoadEffect, SpawnEffect, FinishEffect, RequestStep, FilesEffect, vars

LEMMA DoneIsSettled ==
  ASSUME AllDone, NEW f, Handled(f)
  PROVE  Settled(f)
BY DEF AllDone, Handled, Working

(* A step of a goroutine: if all of the job's are done, it is not theirs.   *)
LEMMA RunOfOthers ==
  ASSUME ThumbnailsAssumption, TypeOK, LocksInv, NEW p \in Procs, Run(p), AllDone
  PROVE  AllDone'
<1>1. Step(p) /\ proc[p].pc # "idle"
  BY RunMutex
<1>2. p \notin Workers /\ Workers \subseteq Procs
  BY <1>1 DEF AllDone, Procs
<1> QED
  BY <1>1, <1>2 DEF Step, Alone, AllDone

LEMMA JobIsKept ==
  ASSUME ThumbnailsAssumption, TypeOK, LocksInv, VersionsInv, JobInv, [Next]_vars
  PROVE  JobInv'
<1> USE DEF JobInv
<1>1. ASSUME NEW p \in Procs, Run(p)
      PROVE  JobInv'
  BY <1>1, RunMutex, RunOfOthers DEF Step, KeepsJob
<1>2. CASE FilesEffect \/ UNCHANGED vars
  BY <1>2 DEF FilesEffect, vars, AllDone
<1>3. ASSUME NEW c \in Procs, NEW f \in Files, RequestStep(c, f)
      PROVE  JobInv'
  <2>1. AllDone => AllDone'
    BY <1>3 DEF RequestStep, Alone, AllDone, Procs
  <2> QED
    BY <1>3, <2>1 DEF RequestStep
<1>4. CASE CrashEffect
  <2>1. AllDone'
    BY <1>4, IdleType DEF CrashEffect, AllDone, Procs
  <2>2. job.checkpoint \in Nat /\ Len(Tasks) \in Nat /\ Len(<<>>) = 0
    BY TasksType DEF TypeOK, Job
  <2> QED
    BY <1>4, <2>1, <2>2 DEF CrashEffect
<1>5. CASE CountEffect
  BY <1>5 DEF CountEffect, AllDone
<1>6. CASE LoadEffect(Page(job.cursor))
  <2>1. AllDone' /\ ~job.listed /\ Len(job'.queue) \in Nat
    BY <1>6 DEF LoadEffect, AllDone, Job
  <2> QED
    BY <1>6, <2>1 DEF LoadEffect
<1>7. ASSUME NEW w \in Workers, SpawnEffect(w)
      PROVE  JobInv'
  <2>1. job.next \in Nat /\ job.checkpoint \in Nat /\ Len(job.queue) \in Nat
    BY DEF TypeOK, Job
  <2> QED
    BY <1>7, <2>1 DEF SpawnEffect
<1>8. CASE FinishEffect
  <2>1. AllDone' /\ job.next = Len(job.queue)
    BY <1>8 DEF FinishEffect, AllDone
  <2> QED
    BY <1>8, <2>1 DEF FinishEffect
<1> QED
  BY <1>1, <1>2, <1>3, <1>4, <1>5, <1>6, <1>7, <1>8, Steps DEF JobStep

-----------------------------------------------------------------------------
(* Lists and pages.                                                         *)

LEMMA ListIsKept ==
  ASSUME ThumbnailsAssumption, TypeOK, LocksInv, VersionsInv, FirstVersionInv, JobInv, ListInv, [Next]_vars
  PROVE  ListInv'
<1> SUFFICES ASSUME job'.listed
             PROVE  /\ \A k \in 1..job'.checkpoint : Steady(Tasks[k])' => Settled(Tasks[k])'
                    /\ \A k \in 1..job'.next : Steady(Tasks[k])' => Handled(Tasks[k])'
  BY DEF ListInv
<1>1. job'.listed = job.listed
  BY Steps, RunMutex
  DEF JobStep, CountEffect, LoadEffect, SpawnEffect, FinishEffect, RequestStep, FilesEffect, CrashEffect,
      Step, KeepsJob, vars
<1>2. /\ job.listed /\ job.queue = Tasks /\ job.phase = "batch"
      /\ job.next \in Nat /\ job.checkpoint \in Nat /\ job.checkpoint <= job.next
      /\ job.next <= Len(Tasks) /\ Len(Tasks) \in Nat
  BY <1>1, TasksType DEF JobInv, TypeOK, Job
<1>3. \A k \in 1..job.next : Tasks[k] \in Files
  BY <1>2, TasksType
<1>4. \A k \in 1..job.checkpoint : k \in 1..job.next
  BY <1>2
<1>5. \A k \in 1..job.next : Steady(Tasks[k])' => Steady(Tasks[k])
  <2>1. FilesEffect \/ UNCHANGED content
    BY Steps, RunMutex
    DEF JobStep, CountEffect, LoadEffect, SpawnEffect, FinishEffect, RequestStep, CrashEffect,
        Step, vars, files
  <2> QED
    BY <1>3, <2>1, SteadyBefore
<1>6. \A k \in 1..job.checkpoint : Steady(Tasks[k])' => Settled(Tasks[k])'
  BY <1>2, <1>3, <1>4, <1>5, SettledIsKept DEF ListInv
<1>7. ~CrashEffect => \A k \in 1..job.next : Steady(Tasks[k])' => Handled(Tasks[k])'
  BY <1>2, <1>3, <1>5, HandledIsKept DEF ListInv
<1>8. CASE CrashEffect
  BY <1>6, <1>8 DEF CrashEffect, Handled
<1>9. ASSUME NEW w \in Workers, SpawnEffect(w)
      PROVE  /\ \A k \in 1..job'.checkpoint : Steady(Tasks[k])' => Settled(Tasks[k])'
             /\ \A k \in 1..job'.next : Steady(Tasks[k])' => Handled(Tasks[k])'
  <2>1. /\ job'.next = job.next + 1 /\ job'.checkpoint = IF AtBoundary THEN job.next ELSE job.checkpoint
        /\ proc'[w].file = Tasks[job.next + 1] /\ proc'[w].pc = "lock" /\ Ready
        /\ UNCHANGED <<files, thumbs>> /\ proc[w].pc = "idle"
    BY <1>2, <1>9 DEF SpawnEffect
  <2>2. ~CrashEffect
    <3>1. CrashEffect => job'.next = job.checkpoint
      BY DEF CrashEffect
    <3> QED
      BY <1>2, <2>1, <3>1
  <2>3. ASSUME NEW k \in 1..Len(Tasks), k = job.next + 1
        PROVE  Handled(Tasks[k])'
    BY <2>1, <2>3 DEF Handled, Working
  <2>4. AtBoundary => \A k \in 1..job.next : Steady(Tasks[k])' => Settled(Tasks[k])'
    <3> SUFFICES ASSUME AtBoundary, NEW k \in 1..job.next, Steady(Tasks[k])'
                 PROVE  Settled(Tasks[k])'
      OBVIOUS
    <3>1. Settled(Tasks[k])
      BY <1>2, <1>5, <2>1, DoneIsSettled DEF Ready, ListInv
    <3> QED
      BY <1>3, <3>1, SettledIsKept
  <2>5. \A k \in 1..job'.next : k \in 1..job.next \/ (k \in 1..Len(Tasks) /\ k = job.next + 1)
    BY <1>2, <1>9, <2>1 DEF SpawnEffect
  <2>6. \A k \in 1..job'.next : Steady(Tasks[k])' => Handled(Tasks[k])'
    BY <1>7, <2>2, <2>3, <2>5
  <2>7. \A k \in 1..job'.checkpoint : Steady(Tasks[k])' => Settled(Tasks[k])'
    <3>1. CASE AtBoundary
      BY <2>1, <2>4, <3>1
    <3>2. CASE ~AtBoundary
      BY <1>6, <2>1, <3>2
    <3> QED
      BY <3>1, <3>2
  <2> QED
    BY <2>6, <2>7
<1>10. CASE UNCHANGED <<job.next, job.checkpoint>> /\ ~CrashEffect
  <2>1. job'.next = job.next /\ job'.checkpoint = job.checkpoint
    BY <1>10
  <2> QED
    BY <1>6, <1>7, <1>10, <2>1
<1> QED
  BY <1>2, <1>8, <1>9, <1>10, Steps, RunMutex
  DEF JobStep, CountEffect, LoadEffect, FinishEffect, RequestStep, FilesEffect, Step, KeepsJob, vars

LEMMA PagesAreKept ==
  ASSUME ThumbnailsAssumption, TypeOK, LocksInv, VersionsInv, FirstVersionInv, JobInv, PagesInv, [Next]_vars
  PROVE  PagesInv'
<1> SUFFICES ASSUME ~job'.listed, NEW i \in Pictures, NEW f, f = rows'[i].file,
                    f # None, Steady(f)', Reached(i)', Passed(i)'
             PROVE  Handled(f)' \/ Queued(f)'
  BY DEF PagesInv
<1>1. job'.listed = job.listed
  BY Steps, RunMutex
  DEF JobStep, CountEffect, LoadEffect, SpawnEffect, FinishEffect, RequestStep, FilesEffect, CrashEffect,
      Step, KeepsJob, vars
<1>2. RowsTyped
  BY DEF TypeOK, RowsTyped
<1>3. FilesEffect \/ (UNCHANGED content /\ RowsKept)
  <2>1. CASE UNCHANGED <<rows, content>>
    BY <1>2, <2>1 DEF RowsKept, RowsTyped
  <2> QED
    BY <2>1, Steps, RunMutex, RunRows
    DEF JobStep, CountEffect, LoadEffect, SpawnEffect, FinishEffect, RequestStep, CrashEffect, Step, vars, files
<1>4. f \in Files
  BY <1>2, <1>3 DEF RowsKept, FilesEffect, FilesTyped, Row, RowsTyped
<1>5. Steady(f) /\ rows[i].file = f /\ rows'[i].time = rows[i].time
  BY <1>3, <1>4, SteadyBefore DEF RowsKept, FilesEffect, Steady
<1>6. Reached(i) /\ \A c : After(i, c)' <=> After(i, c)
  BY <1>5 DEF Reached, After, Earlier, Same
<1>7. ~CrashEffect
  BY <1>1, TasksType DEF CrashEffect, Passed
<1>8. Handled(f) => Handled(f)'
  BY <1>4, <1>7, HandledIsKept
<1>9. Passed(i) => Handled(f) \/ Queued(f)
  BY <1>1, <1>4, <1>5, <1>6 DEF PagesInv, ThumbnailsAssumption
<1>10. CASE UNCHANGED <<job.state, job.phase, job.cursor, job.queue, job.next>>
  <2>1. Passed(i)
    BY <1>6, <1>10 DEF Passed
  <2> QED
    BY <1>8, <1>9, <1>10, <2>1 DEF Queued
<1>11. CASE CountEffect
  <2>1. job'.phase = "page" /\ job'.cursor = FirstPage
    BY <1>11 DEF CountEffect, Passed
  <2> QED
    BY <1>2, <1>6, <1>11, <2>1, FirstPageIsFirst DEF CountEffect, Passed
<1>12. CASE LoadEffect(Page(job.cursor))
  <2> DEFINE page == Page(job.cursor)
  <2>1. job.phase = "page" /\ job.state = "running" /\ UNCHANGED rows /\ UNCHANGED thumbs
    BY <1>12 DEF LoadEffect, files
  <2>2. CASE ~After(i, job.cursor)
    BY <1>8, <1>9, <2>1, <2>2 DEF Passed, Queued
  <2>3. CASE After(i, job.cursor)
    <3>1. i \in Found(job.cursor)
      BY <1>5, <2>3 DEF Found
    <3>2. page # {}
      BY <1>2, <3>1, PageIsBeginning
    <3>3. job'.cursor = LastOf(page) /\ job'.state = "running"
      BY <1>12, <3>2 DEF LoadEffect
    <3>4. ~After(i, LastOf(page))
      BY <1>6, <3>3 DEF Passed
    <3>5. i \in page /\ page \in SUBSET Pictures
      BY <1>2, <1>6, <3>1, <3>2, <3>4, NextPageFollows, PageIsBeginning
    <3>6. PICK j \in PageTasks(page) : rows[j].file = f
      BY <1>2, <1>5, <3>5, FileHasTask DEF Steady
    <3>7. CASE j \in Needed(PageTasks(page))
      <4>1. /\ job'.phase = "batch" /\ job'.next = 0
            /\ \E k \in DOMAIN job'.queue : k > 0 /\ job'.queue[k] = f
        BY <1>12, <3>2, <3>6, <3>7 DEF LoadEffect
      <4> QED
        BY <4>1 DEF Queued
    <3>8. CASE j \notin Needed(PageTasks(page))
      <4>1. thumbs[f] # None /\ ~thumbs[f].early
        BY <3>6, <3>8 DEF Needed, Current
      <4> QED
        BY <1>8, <4>1 DEF Handled, Settled
    <3> QED
      BY <3>7, <3>8
  <2> QED
    BY <2>2, <2>3
<1>13. ASSUME NEW w \in Workers, SpawnEffect(w)
       PROVE  Handled(f)' \/ Queued(f)'
  <2>1. /\ UNCHANGED <<job.state, job.phase, job.cursor, job.queue>>
        /\ job'.next = job.next + 1 /\ job.next \in Nat
        /\ proc'[w].pc = "lock" /\ proc'[w].file = job.queue[job.next + 1]
        /\ job.queue \in Seq(Files)
    BY <1>13 DEF SpawnEffect, TypeOK, Job
  <2>2. Passed(i)
    BY <1>6, <2>1 DEF Passed
  <2>3. CASE Queued(f)
    <3>1. PICK k \in DOMAIN job.queue : k > job.next /\ job.queue[k] = f
      BY <2>3 DEF Queued
    <3>2. k \in Nat
      BY <2>1, <3>1
    <3>3. CASE k = job.next + 1
      BY <2>1, <3>1, <3>3 DEF Handled, Working
    <3>4. CASE k > job.next + 1
      BY <2>1, <2>3, <3>1, <3>4 DEF Queued
    <3> QED
      BY <2>1, <3>1, <3>2, <3>3, <3>4
  <2> QED
    BY <1>8, <1>9, <2>2, <2>3
<1>14. CASE FinishEffect
  <2>1. ~Queued(f)
    <3>1. \A k \in DOMAIN job.queue : k \in 1..Len(job.queue)
      BY DEF TypeOK, Job
    <3> QED
      BY <1>14, <3>1 DEF FinishEffect, Queued, TypeOK, Job
  <2>2. UNCHANGED job.cursor /\ job'.state = "running" /\ job.phase = "batch"
    BY <1>1, <1>14 DEF FinishEffect
  <2>3. Passed(i)
    BY <1>6, <2>2 DEF Passed
  <2> QED
    BY <1>8, <1>9, <2>1, <2>3
<1> QED
  BY <1>7, <1>10, <1>11, <1>12, <1>13, <1>14, Steps, RunMutex
  DEF JobStep, RequestStep, FilesEffect, Step, KeepsJob, vars

-----------------------------------------------------------------------------
(* Hashes.                                                                  *)

LEMMA HashesAreKept ==
  ASSUME ThumbnailsAssumption, TypeOK, LocksInv, VersionsInv, FirstVersionInv, HashInv, [Next]_vars
  PROVE  HashInv'
<1> SUFFICES ASSUME NEW f \in Files, Steady(f)', thumbs'[f] # None
             PROVE  /\ job'.sessions = 1 /\ ~thumbs'[f].early =>
                         AllHave(f)' \/ \E p \in Procs : proc'[p].pc = "hash" /\ proc'[p].file = f
                    /\ thumbs'[f].early /\ HashesOf(f)' = {} => "delete" \in Changes /\ f \in Changing
  BY DEF HashInv
<1>1. Steady(f) /\ thumbs[f] # None =>
        /\ job.sessions = 1 /\ ~thumbs[f].early =>
             AllHave(f) \/ \E p \in Procs : proc[p].pc = "hash" /\ proc[p].file = f
        /\ thumbs[f].early /\ HashesOf(f) = {} => "delete" \in Changes /\ f \in Changing
  BY DEF HashInv
<1>3. ASSUME NEW p \in Procs, Run(p)
      PROVE  /\ job'.sessions = 1 /\ ~thumbs'[f].early =>
                  AllHave(f)' \/ \E q \in Procs : proc'[q].pc = "hash" /\ proc'[q].file = f
             /\ thumbs'[f].early /\ HashesOf(f)' = {} => "delete" \in Changes /\ f \in Changing
  <2>1. Step(p) /\ Steady(f)
    BY <1>3, RunMutex, SteadyBefore DEF Step
  <2>2. RunFirstEffect(p, f) /\ RunHashEffect(p, f)
    BY <1>3, <2>1, RunOnFirst, RunOnHashes
  <2>3. CASE thumbs[f] = None
    BY <2>2, <2>3 DEF RunFirstEffect
  <2>4. CASE thumbs[f] # None
    <3>1. thumbs'[f] = thumbs[f] /\ job'.sessions = job.sessions
      BY <2>1, <2>2, <2>4 DEF RunFirstEffect, Step, KeepsJob
    <3>2. ASSUME NEW q \in Procs, proc[q].pc = "hash", proc[q].file = f
          PROVE  AllHave(f)' \/ (proc'[q].pc = "hash" /\ proc'[q].file = f)
      <4>1. CASE q = p
        BY <2>2, <3>2, <4>1 DEF RunHashEffect
      <4>2. CASE q # p
        BY <2>1, <3>2, <4>2 DEF Step, Alone
      <4> QED
        BY <4>1, <4>2
    <3>3. (AllHave(f) => AllHave(f)') /\ (HashesOf(f)' = {} => HashesOf(f) = {})
      BY <2>2 DEF RunHashEffect
    <3> QED
      BY <1>1, <2>1, <2>4, <3>1, <3>2, <3>3
  <2> QED
    BY <2>3, <2>4
<1>4. CASE FilesEffect
  <2>1. /\ Steady(f) /\ thumbs'[f] = thumbs[f] /\ UNCHANGED <<proc, job>>
        /\ AllHave(f) => AllHave(f)'
        /\ "delete" \notin Changes \/ f \notin Changing => (HashesOf(f)' = {} => HashesOf(f) = {})
    BY <1>4 DEF FilesEffect, Steady, AllHave, HashesOf, RowsOf
  <2> QED
    BY <1>1, <2>1
<1>5. CASE CrashEffect
  <2>1. UNCHANGED <<rows, content, thumbs>> /\ job'.sessions # 1
    BY <1>5 DEF CrashEffect, files
  <2>2. Steady(f) /\ (HashesOf(f)' = {} => HashesOf(f) = {})
    BY <2>1 DEF Steady, HashesOf, RowsOf
  <2> QED
    BY <1>1, <2>1, <2>2
<1>6. CASE /\ UNCHANGED <<rows, content, thumbs>> /\ job'.sessions = job.sessions
           /\ \A p \in Procs : proc[p].pc = "hash" => proc'[p] = proc[p]
  <2>1. /\ Steady(f) /\ (HashesOf(f)' = {} => HashesOf(f) = {})
        /\ AllHave(f) => AllHave(f)'
    BY <1>6 DEF Steady, HashesOf, RowsOf, AllHave
  <2> QED
    BY <1>1, <1>6, <2>1
<1>7. CASE JobStep
  <2>1. CASE CountEffect \/ LoadEffect(Page(job.cursor)) \/ FinishEffect
    BY <1>6, <2>1 DEF CountEffect, LoadEffect, FinishEffect, files
  <2>2. ASSUME NEW w \in Workers, SpawnEffect(w)
        PROVE  /\ UNCHANGED <<rows, content, thumbs>> /\ job'.sessions = job.sessions
               /\ \A p \in Procs : proc[p].pc = "hash" => proc'[p] = proc[p]
    BY <2>2 DEF SpawnEffect, files, Alone
  <2> QED
    BY <1>6, <1>7, <2>1, <2>2 DEF JobStep
<1>8. ASSUME NEW c \in Procs, NEW g \in Files, RequestStep(c, g)
      PROVE  /\ UNCHANGED <<rows, content, thumbs>> /\ job'.sessions = job.sessions
             /\ \A p \in Procs : proc[p].pc = "hash" => proc'[p] = proc[p]
  BY <1>8 DEF RequestStep, files, Alone
<1>9. CASE UNCHANGED vars
  BY <1>6, <1>9 DEF vars, files
<1> QED
  BY <1>3, <1>4, <1>5, <1>6, <1>7, <1>8, <1>9, Steps

LEMMA RowsStayUniform ==
  ASSUME ThumbnailsAssumption, TypeOK, LocksInv, VersionsInv, FirstVersionInv, UniformInv, [Next]_vars
  PROVE  UniformInv'
<1> SUFFICES ASSUME NEW f \in Files, Steady(f)', thumbs'[f] = None \/ ~thumbs'[f].early
             PROVE  Uniform(f)'
  BY DEF UniformInv
<1>1. Steady(f) /\ (thumbs[f] = None \/ ~thumbs[f].early) => Uniform(f)
  BY DEF UniformInv
<1>2. CASE UNCHANGED <<rows, content, thumbs>>
  BY <1>1, <1>2 DEF Steady, Uniform, HashesOf, RowsOf, AllHave
<1>3. ASSUME NEW p \in Procs, Run(p)
      PROVE  Uniform(f)'
  <2>1. Step(p) /\ Steady(f)
    BY <1>3, RunMutex, SteadyBefore DEF Step
  <2>2. RunFirstEffect(p, f) /\ RunHashEffect(p, f)
    BY <1>3, <2>1, RunOnFirst, RunOnHashes
  <2>3. Uniform(f)
    BY <1>1, <2>1, <2>2 DEF RunFirstEffect
  <2> QED
    BY <2>2, <2>3 DEF RunHashEffect, Uniform
<1>4. CASE FilesEffect
  <2>1. /\ Steady(f) /\ thumbs'[f] = thumbs[f]
        /\ \A i \in Pictures : rows'[i].file = f => rows'[i] = rows[i]
    BY <1>4 DEF FilesEffect, Steady
  <2> QED
    BY <1>1, <2>1 DEF Uniform, AllHave, HashesOf, RowsOf
<1>5. CASE JobStep \/ CrashEffect \/ UNCHANGED vars
  BY <1>2, <1>5 DEF JobStep, CountEffect, LoadEffect, SpawnEffect, FinishEffect, CrashEffect, files, vars
<1>6. ASSUME NEW c \in Procs, NEW g \in Files, RequestStep(c, g)
      PROVE  Uniform(f)'
  BY <1>2, <1>6 DEF RequestStep, files
<1> QED
  BY <1>3, <1>4, <1>5, <1>6, Steps

-----------------------------------------------------------------------------
(* The theorems.                                                            *)

LEMMA InvInit ==
  ASSUME ThumbnailsAssumption, Init
  PROVE  IInv
<1>1. PICK l \in Libraries : rows = l
  BY DEF Init
<1>2. rows \in [Pictures -> Row] /\ \A i \in Pictures : rows[i].hash \in {0, 1}
  BY <1>1 DEF ThumbnailsAssumption
<1>3. /\ content = [f \in Files |-> IF RowsOf(f) = {} THEN 0 ELSE 1]
      /\ written = [f \in Files |-> 1]
      /\ thumbs = [f \in Files |-> IF HashesOf(f) = {} THEN None ELSE [of |-> 1, early |-> TRUE]]
      /\ proc = [p \in Procs |-> Idle]
  BY DEF Init
<1>4. 1 \in Versions /\ 0 \in Versions /\ Idle \in Proc /\ Idle.pc = "idle" /\ [of |-> 1, early |-> TRUE] \in Thumb
  BY IdleType DEF Thumb
<1>5. /\ job \in Job /\ job.state = "running" /\ job.next = 0 /\ job.checkpoint = 0
      /\ job.phase = IF job.listed THEN "batch" ELSE "count"
      /\ job.queue = IF job.listed THEN Tasks ELSE <<>>
  <2>1. PICK listed \in BOOLEAN, regenerate \in BOOLEAN : job = Begun(listed, regenerate, 0, 1)
    BY DEF Init
  <2>2. 0 \in Nat /\ 1 \in 1..MaxSessions
    BY DEF ThumbnailsAssumption
  <2>3. job \in Job
    BY <2>1, <2>2, BegunType
  <2> QED
    BY <2>1, <2>3 DEF Begun
<1>6. Locks!Inv
  <2>1. Locks!Init /\ None \notin Files
    BY DEF Init, Mutex!Init, Locks!Init, ThumbnailsAssumption
  <2> QED
    BY <2>1, Locks!InitInv
<1>7. FilesTyped /\ VersionsInv
  BY <1>2, <1>3, <1>4 DEF FilesTyped, VersionsInv
<1>8. \A p \in Procs : proc[p].pc = "idle" /\ at[p] = "out"
  BY <1>3, <1>4 DEF Init, Mutex!Init
<1>9. TypeOK
  BY <1>3, <1>4, <1>5, <1>6, <1>7, <1>8 DEF TypeOK, FilesTyped, Locks!Inv, Locks!TypeOK, Mutex!TypeOK
<1>10. LocksInv
  BY <1>8 DEF LocksInv
<1>11. \A f \in Files : thumbs[f] # None => thumbs[f].of = 1 /\ thumbs[f].early /\ HashesOf(f) # {}
  BY <1>3
<1>12. FirstVersionInv
  BY <1>2, <1>8, <1>11 DEF FirstVersionInv
<1>13. JobInv /\ ListInv /\ PagesInv
  BY <1>5, <1>8, TasksType DEF JobInv, ListInv, PagesInv, Passed, AllDone, Procs
<1>14. HashInv
  BY <1>11 DEF HashInv
<1>15. UniformInv
  <2>1. \A f \in Files : thumbs[f] = None => HashesOf(f) = {}
    BY <1>3, <1>4 DEF ThumbnailsAssumption
  <2> QED
    BY <1>11, <2>1 DEF UniformInv, Uniform
<1> QED
  BY <1>6, <1>7, <1>9, <1>10, <1>12, <1>13, <1>14, <1>15 DEF IInv

LEMMA InvNext ==
  ASSUME ThumbnailsAssumption, IInv, [Next]_vars
  PROVE  IInv'
BY TypesAreKept, LocksAreKept, FirstVersionsAreKept, JobIsKept, ListIsKept, PagesAreKept, HashesAreKept, RowsStayUniform DEF IInv

LEMMA ThumbnailsInv ==
  ASSUME ThumbnailsAssumption
  PROVE  Spec => []IInv
<1>1. Init => IInv
  BY InvInit
<1>2. IInv /\ [Next]_vars => IInv'
  BY InvNext
<1> QED
  BY <1>1, <1>2, PTL DEF Spec

(* Every state of the rows, files, thumbnails, goroutines, the job and the  *)
(* locks has its type.                                                      *)
THEOREM ThumbnailsAreTyped ==
  ASSUME ThumbnailsAssumption
  PROVE  Spec => []TypeOK
<1>1. IInv => TypeOK
  BY DEF IInv
<1> QED
  BY <1>1, ThumbnailsInv, PTL

(* Of the goroutines that want the thumbnail of one file at most one makes  *)
(* it at a time, and the others find it: whoever stores has looked for it   *)
(* under the lock it still holds.                                           *)
THEOREM ThumbnailsAreMadeOnce ==
  ASSUME ThumbnailsAssumption
  PROVE  Spec => []GeneratedByOne
<1>1. IInv => GeneratedByOne
  BY DEF IInv, LocksInv, GeneratedByOne, Locks!Inv, Locks!HeldByOne
<1> QED
  BY <1>1, ThumbnailsInv, PTL

(* What is handled when the job is done is settled.                         *)
LEMMA DoneJobSettles ==
  ASSUME IInv, job.state = "done", NEW f, Handled(f)
  PROVE  Settled(f)
BY DoneIsSettled DEF IInv, JobInv

(* A listed job that is done has done all tasks, also those before the      *)
(* checkpoint it was resumed at.                                            *)
LEMMA ListIsSettled ==
  ASSUME ThumbnailsAssumption, IInv, job.state = "done", job.listed, NEW k \in 1..Len(Tasks), Steady(Tasks[k])
  PROVE  Settled(Tasks[k])
<1>1. k \in 1..job.next
  BY DEF IInv, JobInv
<1> QED
  BY <1>1, DoneJobSettles DEF IInv, ListInv

THEOREM ListedJobsAreComplete ==
  ASSUME ThumbnailsAssumption
  PROVE  Spec => []ListedTasksAreDone
<1>1. IInv => ListedTasksAreDone
  BY ListIsSettled DEF ListedTasksAreDone, Settled
<1> QED
  BY <1>1, ThumbnailsInv, PTL

(* The other job has done every picture that paging is sure to come to.     *)
LEMMA PageIsSettled ==
  ASSUME ThumbnailsAssumption, IInv, job.state = "done", ~job.listed, NEW i \in Pictures,
         rows[i].file # None, Steady(rows[i].file), Reached(i)
  PROVE  Settled(rows[i].file)
<1>1. Passed(i) /\ ~Queued(rows[i].file)
  BY DEF Passed, Queued, IInv, JobInv
<1> QED
  BY <1>1, DoneJobSettles DEF IInv, PagesInv

THEOREM PagedJobsAreComplete ==
  ASSUME ThumbnailsAssumption
  PROVE  Spec => []EveryPictureIsVisited
<1>1. IInv => EveryPictureIsVisited
  BY PageIsSettled DEF EveryPictureIsVisited, Settled
<1> QED
  BY <1>1, ThumbnailsInv, PTL

(* When the job is done and nobody works on a file it came to, all items    *)
(* of the file have the hash of its thumbnail; or none has one, after a     *)
(* deletion or the end of the program.                                      *)
THEOREM HashesReachEveryItem ==
  ASSUME ThumbnailsAssumption
  PROVE  Spec => []HashesAreShared
<1>1. IInv => HashesAreShared
  <2> SUFFICES ASSUME IInv, job.state = "done", NEW f \in Files,
                      Steady(f), thumbs[f] # None, Due(f),
                      \A p \in Procs : proc[p].pc # "idle" => proc[p].file # f
               PROVE  \/ AllHave(f)
                      \/ /\ HashesOf(f) = {}
                         /\ IF thumbs[f].early THEN "delete" \in Changes /\ f \in Changing
                                               ELSE job.sessions > 1
    BY DEF HashesAreShared, AllHave
  <2>1. Settled(f)
    <3>1. CASE job.listed
      BY <3>1, ListIsSettled DEF Due
    <3>2. CASE ~job.listed
      <4>1. PICK i \in Pictures : rows[i].file = f /\ Reached(i)
        BY <3>2 DEF Due, RowsOf
      <4>2. f # None
        BY DEF ThumbnailsAssumption
      <4> QED
        BY <3>2, <4>1, <4>2, PageIsSettled
    <3> QED
      BY <3>1, <3>2
  <2>2. CASE ~thumbs[f].early
    <3>1. Uniform(f)
      BY <2>2 DEF IInv, UniformInv
    <3>2. job.sessions = 1 => AllHave(f)
      BY <2>2 DEF IInv, HashInv
    <3>3. job.sessions = 1 \/ job.sessions > 1
      BY DEF IInv, TypeOK, Job, ThumbnailsAssumption
    <3> QED
      BY <2>2, <3>1, <3>2, <3>3 DEF Uniform
  <2>3. CASE thumbs[f].early
    BY <2>1, <2>3 DEF IInv, HashInv, Settled
  <2> QED
    BY <2>2, <2>3
<1> QED
  BY <1>1, ThumbnailsInv, PTL
=============================================================================
