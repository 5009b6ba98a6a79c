-------------------------------- MODULE Readers --------------------------------
(***************************************************************************)
(* How data sources take up an interrupted import (smsbackuprestore.go,     *)
(* email.go, takeoutarchive.go, formatdecoders.go): each graph carries its  *)
(* place in the data as a checkpoint, the last one that was stored is kept  *)
(* with the job, and after a restart the data are read again from their     *)
(* beginning and what precedes the checkpoint is passed over.               *)
(*                                                                          *)
(* The pipeline is a queue here (ImportJob has its details), and what is    *)
(* read does not change in between.                                         *)
(***************************************************************************)
EXTENDS Naturals, Sequences, FiniteSetsExt

CONSTANTS
  Archives,     (* [kind, files], each file [mbox, units]; a unit says whether*)
                (* it becomes a graph, or is filtered out, empty or broken    *)
  QueueSize, MaxStops

Kinds == {"sms", "mail", "photos", "location", "legacy"}

(* A checkpoint without a path is one of the only file; what is not a       *)
(* mailbox is one message.                                                  *)
ReadersAssumption ==
  /\ QueueSize \in Nat \ {0} /\ MaxStops \in Nat
  /\ \A a \in Archives :
       /\ a.kind \in Kinds /\ a.files \in Seq([mbox : BOOLEAN, units : Seq(BOOLEAN)])
       /\ a.kind \in {"sms", "location", "legacy"} => Len(a.files) = 1
       /\ a.kind = "mail" => \A f \in DOMAIN a.files : a.files[f].mbox \/ Len(a.files[f].units) <= 1

VARIABLES
  archive,
  reader,       (* "reading", "stopped" or "finished"                         *)
  place,        (* the unit that is read next, <<file, unit>>                 *)
  ahead,        (* the checkpoint that is still ahead                         *)
  queue,        (* places of the graphs that are on their way                 *)
  stored, saved,
  resumed       (* the checkpoints that imports were resumed from             *)

vars == <<archive, reader, place, ahead, queue, stored, saved, resumed>>

-----------------------------------------------------------------------------

Files == archive.files
Units(f) == Files[f].units
Mbox(f) == Files[f].mbox
IsLast(p) == p[2] = Len(Units(p[1]))

(* A place in the data, as the source writes it down: the number of a line  *)
(* or location, a path, or a path and the number of a message from 0.       *)
NoCheckpoint == [file |-> 0, index |-> 0]
CheckpointOf(p) ==
  IF archive.kind = "legacy" THEN NoCheckpoint
  ELSE [file |-> IF archive.kind \in {"mail", "photos"} THEN p[1] ELSE 0, index |-> p[2] - 1]

FirstFrom(f) ==
  <<Min({g \in f..Len(Files) + 1 : g \in DOMAIN Files => Units(g) # <<>>}), 1>>
Following(p) == IF IsLast(p) THEN FirstFrom(p[1] + 1) ELSE <<p[1], p[2] + 1>>

(* In a mailbox, messages are counted from the checkpoint only if another   *)
(* one follows: the last message is processed at the end of the file.       *)
OtherFile(p) == ahead.file # 0 /\ ahead.file # p[1]
Counted(p) == Mbox(p[1]) /\ ~IsLast(p)

(* Mutant of PassedOver: one line too many.                                 *)
PassedOverNext(p) ==
  CASE archive.kind = "sms" -> ahead.index > 0 /\ p[2] - 1 <= ahead.index + 1
    [] archive.kind = "location" -> ahead.index > 0 /\ p[2] - 1 <= ahead.index
    [] OTHER -> FALSE

PassedOver(p) ==
  CASE archive.kind = "sms" -> ahead.index > 0 /\ p[2] - 1 <= ahead.index
    [] archive.kind = "location" -> ahead.index > 0 /\ p[2] - 1 < ahead.index
    [] archive.kind = "photos" -> ahead.file # 0 /\ ahead # CheckpointOf(p)
    [] archive.kind = "mail" -> OtherFile(p) \/ (Counted(p) /\ ahead.index # 0 /\ p[2] - 1 < ahead.index)
    [] OTHER -> FALSE

(* Mutant of Reached: the file of the checkpoint is not forgotten.          *)
ReachedForGood(p) == IF archive.kind = "mail" /\ ~PassedOver(p) THEN [ahead EXCEPT !.index = 0] ELSE ahead

(* What remains ahead once a place was read.                                *)
Reached(p) ==
  CASE archive.kind = "photos" -> IF PassedOver(p) THEN ahead ELSE NoCheckpoint
    [] archive.kind = "mail" /\ ~OtherFile(p) ->
         [file |-> 0, index |-> IF Counted(p) /\ ~PassedOver(p) THEN 0 ELSE ahead.index]
    [] OTHER -> ahead

Init ==
  /\ archive \in Archives /\ reader = "reading" /\ place = FirstFrom(1)
  /\ ahead = NoCheckpoint /\ queue = <<>> /\ stored = {} /\ saved = NoCheckpoint /\ resumed = <<>>

AtEnd == place[1] \notin DOMAIN Files

(* FileImport: one more unit, which is sent if it becomes a graph.          *)
Read ==
  /\ reader = "reading" /\ ~AtEnd /\ Len(queue) < QueueSize
  /\ queue' = IF ~PassedOver(place) /\ Units(place[1])[place[2]] THEN Append(queue, place) ELSE queue
  /\ ahead' = Reached(place)
  /\ place' = Following(place)
  /\ UNCHANGED <<archive, reader, stored, saved, resumed>>

(* The pipeline stores a graph; the checkpoint is written every so often.   *)
Store ==
  /\ reader = "reading" /\ queue # <<>>
  /\ stored' = stored \cup {Head(queue)}
  /\ saved' \in {saved, CheckpointOf(Head(queue))}
  /\ queue' = Tail(queue)
  /\ UNCHANGED <<archive, reader, place, ahead, resumed>>

Finish ==
  /\ reader = "reading" /\ AtEnd /\ queue = <<>>
  /\ reader' = "finished"
  /\ UNCHANGED <<archive, place, ahead, queue, stored, saved, resumed>>

Stop ==
  /\ reader = "reading" /\ Len(resumed) < MaxStops
  /\ reader' = "stopped" /\ queue' = <<>>
  /\ UNCHANGED <<archive, place, ahead, stored, saved, resumed>>

Resume ==
  /\ reader = "stopped"
  /\ reader' = "reading" /\ place' = FirstFrom(1) /\ ahead' = saved
  /\ resumed' = Append(resumed, saved)
  /\ UNCHANGED <<archive, queue, stored, saved>>

Next == Read \/ Store \/ Finish \/ Stop \/ Resume

Spec == Init /\ [][Next]_vars

-----------------------------------------------------------------------------

Places == {p \in UNION {{f} \X DOMAIN Units(f) : f \in DOMAIN Files} : Units(p[1])[p[2]]}

TypeOK ==
  /\ reader \in {"reading", "stopped", "finished"} /\ Len(queue) <= QueueSize
  /\ stored \subseteq Places /\ {queue[n] : n \in DOMAIN queue} \subseteq Places

(* What email.go loses: the checkpoint was at the last message of a mailbox,*)
(* and its number is still looked for in the mailboxes that follow.         *)
Mistaken(p) ==
  /\ archive.kind = "mail" /\ Counted(p)
  /\ \E n \in DOMAIN resumed :
       LET c == resumed[n]
       IN /\ c.file \in 1..p[1] - 1 /\ Mbox(c.file) /\ IsLast(<<c.file, c.index + 1>>)
          /\ p[2] - 1 < c.index

Precedes(p, c) == p[1] < c.file \/ (c.file \in {0, p[1]} /\ p[2] - 1 < c.index)

(* "clear checkpoint so we don't skip remaining messages" (email.go:178):   *)
(* however often it is interrupted, an import that finishes has stored all  *)
(* but the mistaken, and what precedes the checkpoint is not sent again.    *)
ResumesWhereItStopped ==
  /\ reader = "finished" => \A p \in Places : p \in stored \/ Mistaken(p)
  /\ resumed # <<>> => \A n \in DOMAIN queue : ~Precedes(queue[n], resumed[Len(resumed)])

(* The same without exception.                                              *)
NoneIsPassedOver == reader = "finished" => Places \subseteq stored
==============================================================================
