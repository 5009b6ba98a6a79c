------------------------------ MODULE MCServices ------------------------------
(* Systems that are checked by one run, as they share no state: in a        *)
(* behaviour one of them moves, and the others stay as they are.            *)
EXTENDS MapMutex, MCReading

CONSTANTS a, b, b2, t1, t2, Torn, v1, v2, ds, u1, u2

VARIABLES
  db, stored, pending,
  disk, used, open, handles, left, sync, entry, failed, failures,
  repos, saved, writer, unsaved, serving, last, listed, stale, moves, starts,
  src, read, drained, previous, dist, window, buffer, nextTrack, phase,
  scan, i, cluster, start, had, output, dropped

entityVars == <<db, stored, pending>>
timelineVars == <<disk, used, open, handles, left, sync, entry, failed, failures,
                  repos, saved, writer, unsaved, serving, last, listed, stale, moves, starts>>
streamVars == <<src, read, drained, previous, dist, window, buffer, nextTrack, phase,
                scan, i, cluster, start, had, output, dropped>>
mutexVars == vars

-----------------------------------------------------------------------------
(* Entities                                                                 *)

Person(id, name, picture, attrs) == [id |-> id, name |-> name, picture |-> picture, attrs |-> attrs]
Attr(v, role) == [value |-> v, role |-> role]

(* Somebody with an account only; a person in a contact list that joins the *)
(* account with another identity; a relative with the same address.         *)
account == Person(0, "", FALSE, <<Attr(v1, "identity")>>)
contact == Person(0, "A", TRUE, <<Attr(v2, "identity"), Attr(v1, "identifying")>>)
relative == Person(0, "B", TRUE, <<Attr(v2, "identifying")>>)
bare == Person(0, "A", FALSE, <<>>)
chosen == Person(2, "", FALSE, <<>>)
nobody == Person(0, "", FALSE, <<>>)

PersonsValue == {account, contact, relative, bare, chosen, nobody}
AdditionsValue == {relative}
RecordsValue ==
  "post" :> [source |-> ds, kind |-> "item", ends |-> <<account>>]
  @@ "photo" :> [source |-> ds, kind |-> "item", ends |-> <<contact>>]
  @@ "call" :> [source |-> ds, kind |-> "relationship", ends |-> <<chosen, relative>>]
  @@ "note" :> [source |-> ds, kind |-> "item", ends |-> <<bare>>]
  @@ "place" :> [source |-> ds, kind |-> "item", ends |-> <<nobody>>]
RequestsValue ==
  {[keep |-> 2, merge |-> <<3>>], [keep |-> 3, merge |-> <<2>>],
   [keep |-> 2, merge |-> <<1, 2>>], [keep |-> 3, merge |-> <<2, 1>>]}

Entity == INSTANCE Entities WITH
  Values <- {v1, v2}, Users <- {u1, u2}, MaxPeople <- 3, Persons <- PersonsValue,
  Additions <- AdditionsValue, Records <- RecordsValue, Requests <- RequestsValue

ASSUME Entity!EntitiesAssumption

(* Which of them asks for a merge does not matter.                          *)
UserSymmetry == Permutations({u1, u2})

NoEntities == db = 0 /\ stored = 0 /\ pending = 0

-----------------------------------------------------------------------------
(* Open timelines: b2 is the folder in b that a timeline is made in when b  *)
(* holds something else.                                                    *)

Timelines == INSTANCE OpenTimelines WITH
  Folders <- {a, b, b2}, Ids <- {t1, t2},
  Sort <- [S \in SUBSET {a, b, b2} |-> SelectSeq(<<a, b, b2>>, LAMBDA d : d \in S)],
  Sub <- (a :> None) @@ (b :> b2) @@ (b2 :> None),
  Disks <- {(a :> t1) @@ (b :> "other") @@ (b2 :> t2),
            (a :> t1) @@ (b :> "other") @@ (b2 :> t1),
            (a :> t1) @@ (b :> "empty") @@ (b2 :> "absent")},
  MaxMoves <- 1, MaxStarts <- 2, MaxFailures <- 1, phase <- serving, i <- listed

ASSUME Timelines!OpenTimelinesAssumption

NoTimelines ==
  /\ disk = 0 /\ used = 0 /\ open = 0 /\ handles = 0 /\ left = 0 /\ sync = 0 /\ entry = 0
  /\ failed = 0 /\ failures = 0 /\ repos = 0 /\ saved = 0 /\ writer = 0 /\ unsaved = 0
  /\ serving = 0 /\ last = 0 /\ listed = 0 /\ stale = 0 /\ moves = 0 /\ starts = 0

-----------------------------------------------------------------------------
(* The stream of locations                                                  *)

Plain(n) == [pos |-> 100 * n, time |-> 10 * n, unc |-> 10, sig |-> FALSE, new |-> FALSE]

(* One that is uncertain, far away, a repetition, significant, or of a new   *)
(* track; the fifth may start a track and be uncertain or significant too.   *)
NewTrack(n) == [Plain(n) EXCEPT !.new = TRUE, !.time = 0]
Special(n) ==
  {[Plain(n) EXCEPT !.unc = 100 * 2^(n - 3)], [Plain(n) EXCEPT !.pos = 10000], [Plain(n) EXCEPT !.pos = @ - 98],
   [Plain(n) EXCEPT !.sig = TRUE], NewTrack(n)}
  \cup IF n = 5 THEN {[NewTrack(n) EXCEPT !.unc = 400], [NewTrack(n) EXCEPT !.sig = TRUE]} ELSE {}

MaxPoints == 10
At == 4..6
SourcesValue ==
  {[n \in 1..len |-> IF n \in At THEN f[n] ELSE Plain(n)] :
     len \in MaxPoints - 1..MaxPoints, f \in {g \in [At -> UNION {Special(n) \cup {Plain(n)} : n \in At}] :
                     \A n \in At : g[n] \in Special(n) \cup {Plain(n)}}}

Stream == INSTANCE LocationStream WITH
  Sources <- SourcesValue, DenoiseWindow <- 5, ClusterWindow <- 2, BufferSize <- 5

ASSUME Stream!LocationAssumption

NoStream ==
  /\ src = 0 /\ read = 0 /\ drained = 0 /\ previous = 0 /\ dist = 0 /\ window = 0
  /\ buffer = 0 /\ nextTrack = 0 /\ phase = 0 /\ scan = 0 /\ i = 0 /\ cluster = 0
  /\ start = 0 /\ had = 0 /\ output = 0 /\ dropped = 0

-----------------------------------------------------------------------------

MCInit ==
  /\ system \in Systems
  /\ Init
  /\ IF system = "entities" THEN Entity!Init ELSE NoEntities
  /\ IF system = "timelines" THEN Timelines!Init ELSE NoTimelines
  /\ IF system = "stream" THEN Stream!Init ELSE NoStream
  /\ IF system \in Reading THEN ReadingInit ELSE NoReading

MCNext ==
  /\ UNCHANGED system
  /\ \/ system = "mutex" /\ Next /\ UNCHANGED <<entityVars, timelineVars, streamVars, ReadingVars>>
     \/ system = "entities" /\ Entity!Next /\ UNCHANGED <<mutexVars, timelineVars, streamVars, ReadingVars>>
     \/ system = "timelines" /\ Timelines!Next /\ UNCHANGED <<mutexVars, entityVars, streamVars, ReadingVars>>
     \/ system = "stream" /\ Stream!Next /\ UNCHANGED <<mutexVars, entityVars, timelineVars, ReadingVars>>
     \/ ReadingNext /\ UNCHANGED <<mutexVars, entityVars, timelineVars, streamVars>>

MCSpec == MCInit /\ [][MCNext]_<<system, mutexVars, entityVars, timelineVars, streamVars, ReadingVars>>

-----------------------------------------------------------------------------

(* The variables of every system keep their types.                          *)
TypesOK ==
  /\ TypeOK
  /\ system = "entities" => Entity!TypeOK
  /\ system = "timelines" => Timelines!TypeOK
  /\ system = "stream" => Stream!TypeOK

(* What was stored for a person can be found with that person, or the one it*)
(* became part of, however often people are joined; the owner of the        *)
(* timeline is never merged into somebody else (entities.go:964-1081).      *)
PeopleAreKept ==
  system = "entities" => Entity!RecordsKeepTheirPeople /\ Entity!OwnerStays

(* An import leaves everybody whose row has a name a row of that name, so    *)
(* that it joins no two rows whose names differ; and who can be identified   *)
(* changes nothing the second time (entities.go:470-728).                   *)
PeopleAreToldApart ==
  /\ [][system = "entities" => Entity!NamesStay]_entityVars
  /\ [](system = "entities" => Entity!KnownAreRecognised)

(* Unless a save has failed, the configuration file names what is open, but  *)
(* the timeline being entered, or is just being written; no database is open *)
(* unlisted or twice, but those that a failure to resume jobs leaves; and a  *)
(* start goes through all folders the configuration named when it began,     *)
(* though each that it opens rewrites it (bindings.go:90-165, app.go:495-512).*)
OpenTimelinesAreKept == system = "timelines" => Timelines!OpenTimelinesAreKept

(* A merge whose people have not changed since they were read loses neither *)
(* a link nor the name nor the picture (entities.go:953); neither stopping  *)
(* the server nor the end of the process takes from the configuration what  *)
(* was open, unless a save has failed or was under way (state.go:31-62).    *)
NothingIsLost ==
  /\ [][system = "entities" => Entity!MergeLosesNothing]_entityVars
  /\ [][system = "timelines" => Timelines!ForgetsNothing]_timelineVars

(* Every point that was read is on its way, dropped, or returned in one     *)
(* place and in order, but for those the denoise window holds when the      *)
(* stream ends after the buffer was full (locproc.go:184); points of        *)
(* different tracks are clustered only as stated, and no noise stays        *)
(* between exact points (locproc.go:505-684).                               *)
StreamIsKept ==
  system = "stream" =>
    /\ Stream!EveryPointOnce
    /\ Stream!OnlyTheEndIsLost
    /\ Stream!OrderIsKept
    /\ Stream!TracksAreApart
    /\ Stream!NoiseIsFound
==============================================================================
