----------------------------- MODULE TakeoutPhotos -----------------------------
(***************************************************************************)
(* The data source googlephotos: the archives that an export was split into,*)
(* in any order.  A medium and the sidecar that describes it are separate   *)
(* files, perhaps of separate archives, joined by a retrieval key; as long  *)
(* names are truncated in the export, the sidecar's key is reconstructed by *)
(* counting.  An import may be stopped and resumed.                         *)
(***************************************************************************)
EXTENDS Integers, FiniteSets, SequencesExt

CONSTANTS
  None,
  Exports,   (* [archives, until, photos]: the end of the timeframe or None *)
  MaxStops

VARIABLES
  export,
  at, n,          (* the archive, and the file in it that is next           *)
  phase,
  ahead,          (* the checkpoint that is still ahead, or None            *)
  checkpoint,     (* the last one that was saved, or None                   *)
  truncatedNames,
  rows, links,    (* what the pipeline made of the graphs                   *)
  stops

vars == <<export, at, n, phase, ahead, checkpoint, truncatedNames, rows, links, stops>>

Archive == export.archives[at]

-----------------------------------------------------------------------------
(* A name consists of a stem, which is its length and its rank among those  *)
(* of that length, of the number and "-edited" that were added to it, and   *)
(* of an extension; raw, if it has signs that an export replaces.           *)

NameOf(stem, ext) == [stem |-> stem, n |-> 0, edited |-> FALSE, ext |-> ext, raw |-> FALSE]
MaxLength == 47

Length(name) == name.stem[1] + (IF name.n > 0 THEN 3 ELSE 0) + (IF name.edited THEN 7 ELSE 0)

(* Shorter ones first, then in natural order.                               *)
Before(f, g) ==
  \/ Length(f) < Length(g)
  \/ Length(f) = Length(g) /\ (f.stem[2] < g.stem[2] \/ (f.stem[2] = g.stem[2] /\ f.n < g.n))

(* Mutant of Listed: in the order of the directory. *)
ListedAsGiven(album) == album.files

Listed(album) == SortSeq(album.files, LAMBDA f, g : Before(f.name, g.name))

(* What is read of an archive: the files in its folders, in their order.    *)
Entries(a) ==
  FlattenSeq([i \in DOMAIN a.albums |->
    LET files == Listed(a.albums[i]) IN [k \in DOMAIN files |-> [album |-> a.albums[i], file |-> files[k]]]])

Path(folder, name) == <<folder, name>>
Exists(album, name) == \E f \in ToSet(album.files) : f.name = name

(* exportIDFromArchiveFilename: what precedes the second dash.              *)
ExportID == SubSeq(Archive.name, 1, 2)
KeyOf(folder, name) == <<ExportID, folder, name>>

(* readAlbumMetadata, of which the title is preferred to the description;   *)
(* it is of no use if it is in another archive.                             *)
AlbumTitle(album) ==
  LET metas == {f \in ToSet(album.files) : f.is = "meta"} IN
  IF metas = {} THEN {} ELSE {LET m == (CHOOSE f \in metas : TRUE).content IN
                               IF m.title # None THEN m.title ELSE m.description} \ {None}

-----------------------------------------------------------------------------
(* Motion pictures                                                          *)

Capital == {"HEIC", "JPG", "JPEG", "HEIF"}
Small == {"heic", "jpg", "jpeg", "heif"}

PicturesBeside(ext) ==
  CASE ext \in {"MOV", "MP4", ""} -> Capital
    [] ext \in {"mov", "mp4"} -> Small
    [] ext = "MP" -> {"MP.jpg"}
    [] OTHER -> {}

VideosBeside(ext) ==
  CASE ext = "MP.jpg" -> <<"MP">>
    [] ext \in Capital -> <<"MOV", "MP4", "">>
    [] ext \in Small \cup {"jpe"} -> <<"mov", "mp4", "">>
    [] OTHER -> <<>>

(* Mutant of IsSidecarVideo: one without an extension is not taken for one. *)
IsVideoByExtension(album, name) ==
  name.ext # "" /\ \E ext \in PicturesBeside(name.ext) : Exists(album, [name EXCEPT !.ext = ext])

IsSidecarVideo(album, name) == \E ext \in PicturesBeside(name.ext) : Exists(album, [name EXCEPT !.ext = ext])

(* The video beside a picture that has none embedded.                       *)
MotionPhoto(album, file) ==
  LET besides == SelectSeq(VideosBeside(file.name.ext),
                           LAMBDA ext : Exists(album, [file.name EXCEPT !.ext = ext]))
  IN IF file.content.video \/ besides = <<>> THEN {} ELSE {[file.name EXCEPT !.ext = Head(besides)]}

-----------------------------------------------------------------------------
(* The sidecar                                                              *)

(* Each coordinate of one place, or of the other where it is zero.          *)
Location(m) == [c \in DOMAIN m.geo |-> IF m.geo[c] # 0 THEN m.geo[c] ELSE m.exif[c]]

Unparsable == -1

(* The first time that is given, which may be one that cannot be parsed.    *)
Timestamp(m) ==
  LET given == SelectSeq(<<m.taken, m.created, m.modified>>, LAMBDA t : t # None)
  IN IF given = <<>> THEN 0 ELSE Head(given)

(* How often this truncated name was seen, this time included.              *)
FullTruncatedName(folder, title) == <<folder, title.stem, title.ext>>
SeenCount(folder, title) ==
  LET full == FullTruncatedName(folder, title)
  IN IF full \in DOMAIN truncatedNames THEN truncatedNames[full] + 1 ELSE 1

Counted(folder, title) ==
  [full \in DOMAIN truncatedNames \cup {FullTruncatedName(folder, title)} |->
     IF full = FullTruncatedName(folder, title) THEN SeenCount(folder, title) ELSE truncatedNames[full]]

(* Mutant of MediaFilename: the first of a name is numbered, too. *)
MediaFilenameNumbered(folder, title) ==
  [NameOf(title.stem, title.ext) EXCEPT
    !.n = IF title.long THEN SeenCount(folder, title) ELSE 0, !.raw = title.special /\ ~title.long]

(* determineMediaFilenameInArchive.  A short title is used as it is, though *)
(* in the export some signs are replaced.                                   *)
MediaFilename(folder, title) ==
  [NameOf(title.stem, title.ext) EXCEPT
    !.n = IF title.long THEN SeenCount(folder, title) - 1 ELSE 0, !.raw = title.special /\ ~title.long]

-----------------------------------------------------------------------------
(* The pipeline (processing.go, shouldProcessExistingItem): what a row of   *)
(* the same import lacks is taken.                                          *)

NoRow == [data |-> None, title |-> None, time |-> 0, place |-> None]

Merged(row, it) ==
  [data |-> IF row.data = None THEN it.data ELSE row.data,
   title |-> IF row.title = None THEN it.title ELSE row.title,
   time |-> IF row.time = 0 THEN it.time ELSE row.time,
   place |-> IF row.place = None THEN it.place ELSE row.place]

Stored(rs, it) ==
  [k \in DOMAIN rs \cup {it.key} |->
     IF k # it.key THEN rs[k] ELSE Merged(IF k \in DOMAIN rs THEN rs[k] ELSE NoRow, it)]

InFrame(t) == export.until = None \/ t = 0 \/ t < export.until

-----------------------------------------------------------------------------

Init ==
  /\ export \in Exports
  /\ at = 1 /\ n = 1
  /\ phase = "reading"
  /\ ahead = None /\ checkpoint = None
  /\ truncatedNames = <<>>
  /\ rows = <<>> /\ links = {}
  /\ stops = 0

Album == Entries(Archive)[n].album
File == Entries(Archive)[n].file
FilePath == Path(Album.folder, File.name)

Reading == phase = "reading" /\ n <= Len(Entries(Archive))
AtOrPastCheckpoint == ahead \in {None, FilePath}

PassOver ==
  /\ n' = n + 1
  /\ UNCHANGED <<export, at, phase, checkpoint, rows, links, stops>>

(* What was read before the import was resumed is not looked at, so that it *)
(* is not counted, either.                                                  *)
BeforeCheckpoint ==
  /\ Reading /\ ~AtOrPastCheckpoint
  /\ PassOver
  /\ UNCHANGED <<ahead, truncatedNames>>

(* Without a title or a URL it is some other JSON file.                     *)
IsSidecar(file) == file.is = "json" /\ file.content.title # None /\ file.content.url

Skip ==
  /\ Reading /\ AtOrPastCheckpoint
  /\ \/ File.is \in {"meta", "dir"}
     \/ File.is = "media" /\ IsSidecarVideo(Album, File.name)
     \/ File.is = "json" /\ ~IsSidecar(File)
  /\ PassOver
  /\ ahead' = None
  /\ UNCHANGED truncatedNames

(* The item, the edited variant of it if there is one, and what they are    *)
(* related to; outside the timeframe, nothing.  The checkpoint that goes    *)
(* with them is saved now and then.                                         *)
Send(item, edited, also) ==
  LET key == KeyOf(Album.folder, item.name)
      of(it) == [key |-> KeyOf(Album.folder, it.name), data |-> it.data, title |-> it.title,
                 time |-> it.time, place |-> it.place]
      edit == [item.name EXCEPT !.edited = TRUE]
      hasEdit == ~item.name.edited /\ Exists(Album, edit)
  IN IF ~InFrame(item.frame) THEN UNCHANGED <<checkpoint, rows, links>>
     ELSE /\ rows' = FoldLeft(Stored, rows, IF hasEdit THEN <<of(item), of(edited)>> ELSE <<of(item)>>)
          /\ links' = links \cup {<<key, l>> : l \in also \cup {<<"album", t>> : t \in AlbumTitle(Album)}}
                            \cup (IF hasEdit THEN {<<key, <<"edit", edit>>>>} ELSE {})
          /\ checkpoint' \in {checkpoint, [at |-> at, path |-> FilePath]}

Item(name, data, title, time, place) ==
  [name |-> name, data |-> data, title |-> title, time |-> time, place |-> place, frame |-> time]

ReadSidecar ==
  /\ Reading /\ AtOrPastCheckpoint /\ IsSidecar(File)
  /\ ahead' = None
  /\ IF Timestamp(File.content) = Unparsable
     THEN phase' = "error" /\ UNCHANGED <<export, at, n, checkpoint, truncatedNames, rows, links, stops>>
     ELSE /\ LET m == File.content
                 name == MediaFilename(Album.folder, m.title)
                 it == Item(name, None, m.title, Timestamp(m), Location(m))
             IN Send(it, [it EXCEPT !.name.edited = TRUE], {<<"person", p>> : p \in m.people})
          /\ truncatedNames' = Counted(Album.folder, File.content.title)
          /\ n' = n + 1
          /\ UNCHANGED <<export, at, phase, stops>>

(* Mutant of IsBadTimestamp: a corrupt offset is not noticed. *)
IsFutureOrMidnight(media) == media.time = 0 \/ media.flaw \in {"future", "midnight"}

(* No time, one in the future, midnight of a new year, a corrupt offset.    *)
IsBadTimestamp(media) == media.time = 0 \/ media.flaw # None

(* A medium has no title, and no time rather than a bad one; that of the    *)
(* edited variant is not looked at.                                         *)
ReadMedia ==
  /\ Reading /\ AtOrPastCheckpoint
  /\ File.is = "media" /\ ~IsSidecarVideo(Album, File.name)
  /\ ahead' = None
  /\ LET it == Item(File.name, FilePath, None, IF IsBadTimestamp(File.content) THEN 0 ELSE File.content.time, None)
         edit == [File.name EXCEPT !.edited = TRUE]
         edits == {f \in ToSet(Album.files) : f.name = edit}
         edited == IF edits = {} THEN it
                   ELSE Item(edit, Path(Album.folder, edit), None, (CHOOSE f \in edits : TRUE).content.time, None)
     IN Send([it EXCEPT !.frame = File.content.time], edited,
             {<<"motion", video>> : video \in MotionPhoto(Album, File)})
  /\ n' = n + 1
  /\ UNCHANGED <<export, at, phase, truncatedNames, stops>>

(* listFromTakeoutArchive begins with an empty map for each archive.        *)
NextArchive ==
  /\ phase = "reading" /\ n > Len(Entries(Archive))
  /\ n' = 1
  /\ truncatedNames' = <<>>
  /\ ahead' = None
  /\ IF at < Len(export.archives) THEN at' = at + 1 /\ UNCHANGED phase ELSE phase' = "done" /\ UNCHANGED at
  /\ UNCHANGED <<export, checkpoint, rows, links, stops>>

(* The import is stopped and resumed, from its beginning if no checkpoint   *)
(* was saved.                                                               *)
Resume ==
  /\ phase = "reading" /\ stops < MaxStops
  /\ stops' = stops + 1
  /\ n' = 1
  /\ truncatedNames' = <<>>
  /\ at' = IF checkpoint = None THEN 1 ELSE checkpoint.at
  /\ ahead' = IF checkpoint = None THEN None ELSE checkpoint.path
  /\ UNCHANGED <<export, phase, checkpoint, rows, links>>

Next == BeforeCheckpoint \/ Skip \/ ReadSidecar \/ ReadMedia \/ NextArchive \/ Resume

Spec == Init /\ [][Next]_vars

-----------------------------------------------------------------------------

TypeOK ==
  /\ at \in DOMAIN export.archives /\ n \in 1..Len(Entries(Archive)) + 1
  /\ phase \in {"reading", "done", "error"}
  /\ stops \in 0..MaxStops

(* What an export has of a photo: export.photos says which name the file of *)
(* which title was given.                                                   *)
Pieces(p, Is(_)) ==
  UNION {{[at |-> i, album |-> e.album, file |-> e.file] :
            e \in {x \in ToSet(Entries(export.archives[i])) : x.album.folder = p.folder /\ Is(x.file)}} :
           i \in DOMAIN export.archives}
MediaOf(p) == Pieces(p, LAMBDA f : f.is = "media" /\ f.name = p.name)
EditsOf(p) == Pieces(p, LAMBDA f : f.is = "media" /\ f.name = [p.name EXCEPT !.edited = TRUE])
SidecarsOf(p) == Pieces(p, LAMBDA f : IsSidecar(f) /\ f.content.title = p.title)
RowKey(folder, name) == <<SubSeq(export.archives[1].name, 1, 2), folder, name>>

Namesakes(p) == {q \in export.photos : /\ q.folder = p.folder
                                       /\ q.title.stem = p.title.stem /\ q.title.ext = p.title.ext}

(* The name of the file can be told from the sidecar: those of titles that  *)
(* begin alike are in one archive, which was read in one go.                *)
Reliable(p) ==
  /\ p.title.special => p.title.long
  /\ Cardinality({x.at : x \in UNION {SidecarsOf(q) : q \in Namesakes(p)}}) <= 1
  /\ stops > 0 => Cardinality(Namesakes(p)) = 1

AlwaysInFrame(p) ==
  /\ \A x \in MediaOf(p) : InFrame(x.file.content.time)
  /\ \A x \in SidecarsOf(p) : InFrame(Timestamp(x.file.content))

(* However the pieces of an export are spread over its archives, a photo    *)
(* has one row: with its file, the title from its sidecar, a time that is   *)
(* not known to be bad, its album and its edited variant, if any archive    *)
(* has them with it (takeoutarchive.go:60-73, 209-262, 564-627).            *)
PiecesAreJoined ==
  phase = "done" =>
    \A p \in {q \in export.photos : Reliable(q) /\ AlwaysInFrame(q) /\ MediaOf(q) \cup SidecarsOf(q) # {}} :
      LET key == RowKey(p.folder, p.name)
          row == rows[key]
          good == {x.file.content.time : x \in {y \in MediaOf(p) : y.file.content.flaw = None}}
                  \cup {Timestamp(x.file.content) : x \in SidecarsOf(p)}
      IN /\ key \in DOMAIN rows
         /\ row.data = IF MediaOf(p) = {} THEN None ELSE Path(p.folder, p.name)
         /\ row.title = IF SidecarsOf(p) = {} THEN None ELSE p.title
         /\ row.time \in good \cup {0} /\ (row.time = 0 => good \subseteq {0})
         /\ \A x \in MediaOf(p) \cup SidecarsOf(p) :
              /\ \A t \in AlbumTitle(x.album) : <<key, <<"album", t>>>> \in links
              /\ \A y \in EditsOf(p) : y.at = x.at => <<key, <<"edit", y.file.name>>>> \in links

(* The video of a motion picture has no row: it belongs to the picture      *)
(* beside it, unless that has a video embedded.  Only one that came in      *)
(* another archive than its picture is stored for itself, and there are no  *)
(* rows but those of photos and such videos (motionpictures.go:61-171).     *)
Beside(f, g) == f # g /\ f.name = [g.name EXCEPT !.ext = f.name.ext]
MotionPicturesAreOne ==
  /\ (\A p \in export.photos : Reliable(p)) =>
       \A key \in DOMAIN rows :
         \/ \E p \in export.photos :
              key \in {RowKey(p.folder, p.name), RowKey(p.folder, [p.name EXCEPT !.edited = TRUE])}
         \/ \E i \in DOMAIN export.archives : \E x \in ToSet(Entries(export.archives[i])) :
              key = RowKey(x.album.folder, x.file.name) /\ ~\E f \in ToSet(x.album.files) : Beside(f, x.file)
  /\ phase = "done" =>
       \A p \in {q \in export.photos : AlwaysInFrame(q)} : \A x \in MediaOf(p) : \A f \in ToSet(x.album.files) :
         Beside(f, x.file) =>
           (~x.file.content.video <=> <<RowKey(p.folder, p.name), <<"motion", f.name>>>> \in links)

PhotosAreWhole == PiecesAreJoined /\ MotionPicturesAreOne
==============================================================================
