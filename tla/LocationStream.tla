---------------------------- MODULE LocationStream ----------------------------
(***************************************************************************)
(* The stream of locations that every data source with tracks reads from    *)
(* (googlelocation/locproc.go): points are read from the source, dropped    *)
(* when they repeat the one before, held in a window while noise is taken   *)
(* out, then collected in a buffer in which runs of points become clusters, *)
(* and returned one at a time.                                              *)
(*                                                                         *)
(* Points lie on a line.  Whether the statistics of a window of the buffer  *)
(* call it a cluster is left open: each iteration may go either way.        *)
(***************************************************************************)
EXTENDS Integers, FiniteSets, Sequences, SequencesExt, FiniteSetsExt

CONSTANTS
  Sources,       (* sequences of points, see Point                           *)
  DenoiseWindow, (* denoiseWindowSize                                        *)
  ClusterWindow, (* clusterWindowSize                                        *)
  BufferSize     (* clusterBufferSize                                        *)

(* meters, seconds and meters; Significant and NewTrack of the source       *)
Point == [pos: Int, time: Nat, unc: Nat, sig: BOOLEAN, new: BOOLEAN]

LocationAssumption ==
  /\ DenoiseWindow \in Nat /\ DenoiseWindow >= 4
  /\ {ClusterWindow, BufferSize} \subseteq Nat \ {0}
  /\ ClusterWindow < BufferSize
  /\ \A s \in Sources : s \in Seq(Point)

VARIABLES
  src,        (* the source: point n is the n-th it returns                  *)
  read,       (* how many it has returned                                    *)
  drained,    (* sourceDrained                                               *)
  previous,   (* the last point that was not a repetition, 0: none           *)
  dist,       (* distanceFromPrev of each point                              *)
  window,     (* denoiseWindow                                               *)
  buffer,     (* clusteringBuffer; a cluster is the sequence of its points   *)
  nextTrack,  (* startOfNextTrack, 0: none                                   *)
  phase,      (* of clusteredNext: about to return, filling the buffer,      *)
              (* looking for clusters in it, or at the end                   *)
  scan, i, cluster, start, had,  (* the variables of clusterBatch            *)
  output,     (* what was returned                                           *)
  dropped     (* what was taken for repetition or noise                      *)

scanning == <<scan, i, cluster, start, had>>
denoising == <<read, drained, previous, dist, window, dropped>>
vars == <<src, denoising, buffer, nextTrack, phase, scanning, output>>

Abs(n) == IF n < 0 THEN -n ELSE n

-----------------------------------------------------------------------------
(* Repetitions and noise.                                                   *)

(* sameAsPrevious, which sets lp.previous only in its copy of lp.           *)
SameAsPrevious(n) ==
  /\ previous # 0 /\ ~src[n].new
  /\ \/ src[n].time - src[previous].time < 5
     \/ Abs(src[n].pos - src[previous].pos) < 5

(* The distance it keeps with the point, unless it returns before.          *)
Distance(n) ==
  IF previous = 0 \/ src[n].new \/ src[n].time - src[previous].time < 5 THEN 0
  ELSE Abs(src[n].pos - src[previous].pos)

(* Between what comes before it in the window and next, point c looks less  *)
(* certain than both, or was reached faster than by jet.                    *)
Noise(b, c, next) ==
  \/ src[c].unc > 115 /\ 4 * src[c].unc > 3 * (src[b].unc + src[next].unc)
  \/ LET elapsed == src[c].time - src[b].time
     IN elapsed > 0 /\ dist[c] > 350 * elapsed

(* Mutant of Kept: the last point is looked at once. *)
KeptOnce(n) ==
  LET k == Len(window)
  IN IF k >= 3 /\ Noise(window[k - 1], window[k], n) THEN k - 1 ELSE k

(* How much of the window remains before n joins it: noise is taken from    *)
(* its end as long as there are three points to look at.                    *)
Kept(n) ==
  Max({k \in 0..Len(window) : k < 3 \/ ~Noise(window[k - 1], window[k], n)})

-----------------------------------------------------------------------------
(* clusteredNext                                                            *)

(* Mutant of Deliver: the point that starts a track is appended too. *)
DeliverBoth(n) ==
  /\ buffer' = Append(buffer, <<n>>)
  /\ IF src[n].new THEN nextTrack' = n /\ phase' = "cluster" ELSE UNCHANGED <<nextTrack, phase>>

(* What denoiseNext returns goes into the buffer, unless it starts a track. *)
Deliver(n) ==
  IF src[n].new
  THEN nextTrack' = n /\ phase' = "cluster" /\ UNCHANGED buffer
  ELSE buffer' = Append(buffer, <<n>>) /\ UNCHANGED <<nextTrack, phase>>

Filling == phase = "fill" /\ Len(buffer) < BufferSize

(* denoiseNext reads while its window is not full: a significant point is   *)
(* returned at once, a repetition passed over.                              *)
Read ==
  LET n == read + 1 IN
  /\ Filling
  /\ Len(window) < DenoiseWindow /\ read < Len(src)
  /\ read' = n
  /\ \/ /\ src[n].sig
        /\ previous' = n
        /\ Deliver(n)
        /\ UNCHANGED <<dist, window, dropped>>
     \/ /\ ~src[n].sig /\ SameAsPrevious(n)
        /\ dist' = [dist EXCEPT ![n] = Distance(n)]
        /\ dropped' = dropped \cup {n}
        /\ UNCHANGED <<previous, window, buffer, nextTrack, phase>>
     \/ /\ ~src[n].sig /\ ~SameAsPrevious(n)
        /\ previous' = n
        /\ dist' = [dist EXCEPT ![n] = Distance(n)]
        /\ window' = Append(SubSeq(window, 1, Kept(n)), n)
        /\ dropped' = dropped \cup {window[k] : k \in Kept(n) + 1..Len(window)}
        /\ UNCHANGED <<buffer, nextTrack, phase>>
  /\ UNCHANGED <<src, drained, scanning, output>>

(* It returns the oldest point of the window, once that is full or nothing  *)
(* more can be read; or no point, which ends the filling.                   *)
Take ==
  /\ Filling
  /\ Len(window) >= DenoiseWindow \/ read = Len(src)
  /\ drained' = (drained \/ Len(window) < DenoiseWindow)
  /\ IF window # <<>>
     THEN Deliver(Head(window)) /\ window' = Tail(window)
     ELSE phase' = "cluster" /\ UNCHANGED <<buffer, nextTrack, window>>
  /\ UNCHANGED <<src, read, previous, dist, dropped, scanning, output>>

Full ==
  /\ phase = "fill" /\ Len(buffer) >= BufferSize
  /\ phase' = "cluster"
  /\ UNCHANGED <<src, denoising, buffer, nextTrack, scanning, output>>

(* Mutant of MayPop: the end of a track is no reason. *)
MayPopAcrossTracks ==
  \/ Len(buffer) > ClusterWindow
  \/ drained /\ buffer # <<>>

(* Enough points remain to be clustered with the next batch, or none comes. *)
MayPop ==
  \/ Len(buffer) > ClusterWindow
  \/ (drained \/ nextTrack # 0) /\ buffer # <<>>

Return ==
  /\ phase = "next" /\ MayPop
  /\ output' = Append(output, Head(buffer))
  /\ buffer' = Tail(buffer)
  /\ UNCHANGED <<src, denoising, nextTrack, phase, scanning>>

End ==
  /\ phase = "next" /\ ~MayPop /\ drained /\ nextTrack = 0
  /\ phase' = "end"
  /\ UNCHANGED <<src, denoising, buffer, nextTrack, scanning, output>>

(* The refill begins with the point that starts the track.                  *)
Refill ==
  /\ phase = "next" /\ ~MayPop /\ ~(drained /\ nextTrack = 0)
  /\ phase' = "fill"
  /\ buffer' = IF nextTrack = 0 THEN buffer ELSE Append(buffer, <<nextTrack>>)
  /\ nextTrack' = 0
  /\ UNCHANGED <<src, denoising, scanning, output>>

-----------------------------------------------------------------------------
(* clusterBatch                                                             *)

(* endClusterFunc: the points of clusters are put before the clusters, which*)
(* stay: -n stands for a cluster that begins with n.                        *)
Expanded(p) == IF Len(p) = 1 THEN p ELSE Append(p, -p[1])

ClusterOf(points) ==
  IF Len(points) = 1 THEN points[1]
  ELSE FlattenSeq([k \in 1..Len(points) |-> Expanded(points[k])])

(* Mutant of Finalized: the cluster is put where the scan is. *)
FinalizedHere == InsertAt(buffer, Min({i, Len(buffer)}) + 1, ClusterOf(cluster))

(* finalizeCluster: the cluster is put where its first point was.           *)
Finalized == InsertAt(buffer, start + 1, ClusterOf(cluster))

Scanning == phase = "cluster" /\ i < Len(buffer)

(* The beginning of the window that ends at i; there is none to decide      *)
(* about before the window is full.                                         *)
OldestIdx == Max({i - ClusterWindow, 0})
WindowIsFull == i # 0 /\ i + 1 >= ClusterWindow

(* In a cluster: the oldest point of the window moves from the batch to it. *)
AddToCluster ==
  /\ Scanning /\ WindowIsFull
  /\ start' = IF cluster = <<>> THEN OldestIdx ELSE start
  /\ had' = (had \/ cluster # <<>>)
  /\ cluster' = Append(cluster, buffer[OldestIdx + 1])
  /\ buffer' = RemoveAt(buffer, OldestIdx + 1)
  /\ UNCHANGED <<src, denoising, nextTrack, phase, scan, i, output>>

(* Not in a cluster: one that was is finished, and i goes past it.          *)
PassOn ==
  /\ Scanning
  /\ IF cluster = <<>>
     THEN i' = i + 1 /\ UNCHANGED <<buffer, cluster>>
     ELSE i' = i + 2 /\ buffer' = Finalized /\ cluster' = <<>>
  /\ UNCHANGED <<src, denoising, nextTrack, phase, scan, start, had, output>>

(* The batch is scanned again, once, if there was a cluster of several.     *)
EndScan ==
  /\ phase = "cluster" /\ i >= Len(buffer)
  /\ buffer' = IF cluster = <<>> THEN buffer ELSE Finalized
  /\ cluster' = <<>>
  /\ i' = 0 /\ had' = FALSE /\ start' = 0
  /\ IF had /\ scan = 1
     THEN scan' = 2 /\ UNCHANGED phase
     ELSE scan' = 1 /\ phase' = "next"
  /\ UNCHANGED <<src, denoising, nextTrack, output>>

-----------------------------------------------------------------------------

Init ==
  /\ src \in Sources
  /\ read = 0 /\ drained = FALSE /\ previous = 0
  /\ dist = [n \in 1..Len(src) |-> 0]
  /\ window = <<>> /\ buffer = <<>> /\ nextTrack = 0
  /\ phase = "next"
  /\ scan = 1 /\ i = 0 /\ cluster = <<>> /\ start = 0 /\ had = FALSE
  /\ output = <<>> /\ dropped = {}

Next == Read \/ Take \/ Full \/ Return \/ End \/ Refill \/ AddToCluster \/ PassOn \/ EndScan

Spec == Init /\ [][Next]_vars

-----------------------------------------------------------------------------

Ids == 1..Len(src)
Marks == Ids \cup {-n : n \in Ids}

TypeOK ==
  /\ src \in Seq(Point)
  /\ read \in 0..Len(src) /\ drained \in BOOLEAN /\ previous \in 0..Len(src)
  /\ dist \in [Ids -> Nat]
  /\ window \in Seq(Ids) /\ Len(window) <= DenoiseWindow
  /\ \A s \in {buffer, cluster, output} : \A k \in DOMAIN s : s[k] \in Seq(Marks) /\ s[k] # <<>>
  /\ Len(buffer) <= BufferSize /\ nextTrack \in 0..Len(src)
  /\ phase \in {"next", "fill", "cluster", "end"}
  /\ scan \in 1..2 /\ i \in Nat /\ start \in Nat /\ had \in BOOLEAN
  /\ dropped \subseteq Ids

(* All points that were or can still be returned, in that order.            *)
InBuffer == IF cluster = <<>> THEN buffer
            ELSE SubSeq(buffer, 1, start) \o cluster \o SubSeq(buffer, start + 1, Len(buffer))
IsPoint(n) == n > 0
Waiting == IF phase = "end" THEN <<>> ELSE window
OnTheWay ==
  SelectSeq(FlattenSeq(output) \o FlattenSeq(InBuffer), IsPoint)
  \o (IF nextTrack = 0 THEN <<>> ELSE <<nextTrack>>) \o Waiting

(* The points nobody asks for any more when NextLocation has returned nil.  *)
Lost == IF phase = "end" THEN ToSet(window) ELSE {}

(* Every point that was read is in one place, was dropped, or is lost at    *)
(* the end, when all were read: neither the windows that slide while points *)
(* are taken out and clusters put in, nor the rewinding when noise is       *)
(* found, lose or repeat a point.                                           *)
EveryPointOnce ==
  /\ IsInjective(OnTheWay)
  /\ ToSet(OnTheWay) \cap dropped = {}
  /\ (ToSet(OnTheWay) \cup dropped) = (1..read \ Lost)
  /\ phase = "end" => read = Len(src)

(* What is lost at the end (locproc.go:184, where the denoise window is not *)
(* looked at): fewer points than that window holds, none that is            *)
(* significant or returned out of turn after them, and none at all unless   *)
(* the source is as long as the buffer: a filling that finds the source     *)
(* empty takes all points out of the window unless the buffer is full.      *)
OnlyTheEndIsLost ==
  /\ Cardinality(Lost) < DenoiseWindow
  /\ \A n \in Lost : \A m \in Ids : m > n => src[m].sig \/ m \in dropped \cup Lost
  /\ Len(src) < BufferSize => Lost = {}
  /\ (phase = "cluster" /\ scan = 1 /\ i = 0) =>
       \/ Len(buffer) = BufferSize \/ nextTrack # 0
       \/ drained /\ window = <<>>

(* locproc.go:670: "if true, this point will not be filtered out"; the      *)
(* others keep their order, which significant points do not: they overtake  *)
(* what is in the window (locproc.go:485).                                  *)
Insignificant(n) == ~src[n].sig
OrderIsKept ==
  LET others == SelectSeq(OnTheWay, Insignificant)
  IN /\ \A n \in dropped : ~src[n].sig
     /\ \A k \in 1..Len(others) - 1 : others[k] < others[k + 1]

(* Of "Points will not be clustered across different tracks"               *)
(* (locproc.go:684) the code keeps this: two points are clustered only if   *)
(* the first point of each track that begins between them was dropped as    *)
(* noise, with the mark it carried, or a significant one, it or the later   *)
(* of the two, overtook points that were still in the denoise window.       *)
TracksAreApart ==
  \A s \in {buffer, output} : \A k \in DOMAIN s :
    \A a, b \in {n \in ToSet(s[k]) : IsPoint(n)} : \A m \in a + 1..b :
      src[m].new => m \in dropped \/ src[m].sig \/ src[b].sig

(* Of two noisy points in a row, both are found: between points that are    *)
(* exact none stays that is not.                                            *)
NoiseIsFound ==
  \A k \in 3..Len(window) - 1 : ~Noise(window[k - 1], window[k], window[k + 1])
==============================================================================
