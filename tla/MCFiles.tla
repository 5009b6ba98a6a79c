------------------------------- MODULE MCFiles -------------------------------
(* Systems that are checked by one run: the data files, the thumbnails made *)
(* of them, and the job that has embeddings made of items.  They share no   *)
(* state here; in a behaviour one of them moves, and the others stay.       *)
EXTENDS MCDataFiles

CONSTANTS p1, p2, p3, c1, Systems

VARIABLES system, pictures, content, written, thumbs, proc, job, set, at, key

thumbnailVars == <<pictures, content, written, thumbs, proc, job, set, at, key>>

Picture(time, file, hash, updated) == [time |-> time, file |-> file, hash |-> hash, updated |-> updated]

(* Three files at one time; a file on two pages; items without a time;      *)
(* items that share a file of which a thumbnail exists; a broken file.      *)
New(time, file) == Picture(time, file, 0, FALSE)
LibrariesValue ==
  {<<New(1, p1), New(1, p2), New(1, p3)>>, <<New(1, p2), New(1, p1), New(1, p1)>>,
   <<New(None, p1), New(1, p2), New(None, p3)>>,
   <<Picture(2, p1, 1, FALSE), New(2, p1), Picture(1, p2, 0, TRUE)>>,
   <<New(1, p3), New(1, p3), New(1, p1)>>, <<New(1, p1), New(None, p3), Picture(2, p2, 1, TRUE)>>}
TasksValue == <<p2, p1, p3>>

Thumbnail == INSTANCE Thumbnails WITH
  rows <- pictures, Libraries <- LibrariesValue, Files <- {p1, p2, p3}, Broken <- {p3}, Unfit <- {},
  Tasks <- TasksValue, PageSize <- 2, BatchSize <- 2, Clients <- {c1},
  Changes <- {"replace", "delete", "add"}, Changing <- {p2}, MaxVersions <- 2, MaxSessions <- 2, MaxInt64 <- 3

ASSUME Thumbnail!ThumbnailsAssumption

(* Items of an import of which some are not fit for an embedding or have one*)
(* or two that are outdated; and a list of items.                           *)
Plain == [fit |-> TRUE, old |-> 0]
Outdated(old) == [fit |-> TRUE, old |-> old]
WorksValue ==
  {[listed |-> listed, items |-> items] :
     listed \in BOOLEAN, items \in {[i \in 1..5 |-> Plain], <<Plain, Plain, Outdated(1), Outdated(2), Plain>>}}
  \cup {[listed |-> FALSE, items |-> <<Plain, [fit |-> FALSE, old |-> 0], Plain, Plain>>]}

Embedding == INSTANCE Embeddings WITH
  Works <- WorksValue, PageSize <- 3, BatchSize <- 2, MaxSessions <- 2,
  work <- pictures, phase <- content, scan <- written, spawned <- thumbs, made <- proc,
  attempted <- job, saved <- set, resumed <- at

ASSUME Embedding!EmbeddingsAssumption

NoThumbnails ==
  /\ pictures = <<>> /\ content = 0 /\ written = 0 /\ thumbs = 0 /\ proc = 0
  /\ job = 0 /\ set = 0 /\ at = 0 /\ key = 0

MCInit ==
  /\ system \in Systems /\ Init
  /\ CASE system = "thumbnails" -> Thumbnail!Init
       [] system = "embeddings" -> Embedding!Init /\ key = 0
       [] OTHER -> NoThumbnails

MCNext ==
  \/ system = "files" /\ Next /\ UNCHANGED <<system, thumbnailVars>>
  \/ system = "thumbnails" /\ Thumbnail!Next /\ UNCHANGED <<system, vars>>
  \/ system = "embeddings" /\ Embedding!Next /\ UNCHANGED <<system, vars, key>>

MCSpec == MCInit /\ [][MCNext]_<<system, vars, thumbnailVars>>

-----------------------------------------------------------------------------

(* The variables of both systems keep their types.                          *)
TypesOK == TypeOK /\ (system = "thumbnails" => Thumbnail!TypeOK) /\ (system = "embeddings" => Embedding!TypeOK)

(* thumbnails.go:107-115, 138-144, 187-194: the pages leave no picture with *)
(* a timestamp without a thumbnail, a resumed job has done the tasks before *)
(* its checkpoint as well, and what was counted is what becomes of them;    *)
(* ml.go:59-230: so it is with embeddings.                                  *)
JobsOverItemsAreComplete ==
  /\ system = "thumbnails" =>
       /\ Thumbnail!EveryPictureIsVisited
       /\ Thumbnail!ListedTasksAreDone
       /\ Thumbnail!ProgressReachesTotal
  /\ system = "embeddings" => Embedding!EveryItemIsEmbedded

(* thumbnails.go:495-512: of the goroutines that want the thumbnail of one  *)
(* file at most one generates it at a time, the others find it unless they  *)
(* are to regenerate it, and its hash is given to all items of the file.    *)
ThumbnailsAreShared ==
  system = "thumbnails" => Thumbnail!GeneratedByOne /\ Thumbnail!HashesAreShared
==============================================================================
