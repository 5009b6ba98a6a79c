------------------------------ MODULE DeviceScan ------------------------------
(***************************************************************************)
(* The scan of Google's location history (googlelocation.go,                *)
(* formatdecoders.go:14-64): each device's points make a path of their own, *)
(* so a goroutine reads the whole file for each device.  Whoever first      *)
(* meets a device takes it, or starts a goroutine for it.                   *)
(*                                                                          *)
(* What the location processor does to a path is LocationStream; here it    *)
(* returns every point at once.                                             *)
(***************************************************************************)
EXTENDS Naturals, Sequences, FiniteSets, Functions

CONSTANTS
  Histories,       (* sequences of device tags, one for each point            *)
  MaxGoroutines,   (* the capacity of throttle                                *)
  None

ScanAssumption ==
  /\ MaxGoroutines \in Nat /\ None \notin Nat
  /\ \A h \in Histories : h \in Seq(Nat)

VARIABLES
  history,
  pc, tag, at,     (* of each decoder: the main one is 0                      *)
  holder,          (* who holds seenDevicesMu for longer than a step          *)
  seen, running,   (* seenDevices, and how many tokens are in throttle        *)
  out,             (* the points that were sent, with their decoder           *)
  cancelled, result

vars == <<history, pc, tag, at, holder, seen, running, out, cancelled, result>>

Devices == Range(history)
Decoders == 0..Cardinality(Devices)
Active == {d \in Decoders : pc[d] \notin {"free", "done"}}

-----------------------------------------------------------------------------

Init ==
  /\ history \in Histories
  /\ pc = [d \in Decoders |-> IF d = 0 THEN "scan" ELSE "free"]
  /\ tag = [d \in Decoders |-> 0] /\ at = [d \in Decoders |-> 1]
  /\ holder = None /\ seen = {} /\ running = 0
  /\ out = <<>> /\ cancelled = FALSE /\ result = "none"

Point(d) == history[at[d]]
HasPoint(d) == pc[d] = "scan" /\ at[d] <= Len(history) /\ ~cancelled /\ holder = None

(* NextLocation with a point of a device that somebody works on.            *)
SkipPoint(d) ==
  /\ HasPoint(d) /\ Point(d) \in seen /\ Point(d) # tag[d]
  /\ at' = [at EXCEPT ![d] = @ + 1]
  /\ UNCHANGED <<history, pc, tag, holder, seen, running, out, cancelled, result>>

OwnPoint(d) ==
  /\ HasPoint(d) /\ Point(d) \in seen /\ Point(d) = tag[d]
  /\ pc' = [pc EXCEPT ![d] = "send"]
  /\ UNCHANGED <<history, tag, at, holder, seen, running, out, cancelled, result>>

(* A tag of 0 means that the decoder has no device yet.                     *)
TakeDevice(d) ==
  /\ HasPoint(d) /\ Point(d) \notin seen /\ tag[d] = 0
  /\ seen' = seen \cup {Point(d)}
  /\ tag' = [tag EXCEPT ![d] = Point(d)]
  /\ pc' = [pc EXCEPT ![d] = "send"]
  /\ UNCHANGED <<history, at, holder, running, out, cancelled, result>>

(* Mutant of FindDevice: the device is not marked as taken.                 *)
FindDeviceOnly(d) ==
  /\ HasPoint(d) /\ Point(d) \notin seen /\ tag[d] # 0
  /\ holder' = d /\ pc' = [pc EXCEPT ![d] = "spawn"]
  /\ UNCHANGED <<history, tag, at, seen, running, out, cancelled, result>>

(* The mutex is held while there is no room for another goroutine.          *)
FindDevice(d) ==
  /\ HasPoint(d) /\ Point(d) \notin seen /\ tag[d] # 0
  /\ seen' = seen \cup {Point(d)}
  /\ holder' = d /\ pc' = [pc EXCEPT ![d] = "spawn"]
  /\ UNCHANGED <<history, tag, at, running, out, cancelled, result>>

Spawn(d) ==
  /\ pc[d] = "spawn" /\ running < MaxGoroutines
  /\ \E e \in Decoders : /\ pc[e] = "free" /\ \A f \in Decoders : pc[f] = "free" => e <= f
                         /\ pc' = [pc EXCEPT ![d] = "scan", ![e] = "scan"]
                         /\ tag' = [tag EXCEPT ![e] = Point(d)]
  /\ running' = running + 1 /\ holder' = None
  /\ at' = [at EXCEPT ![d] = @ + 1]
  /\ UNCHANGED <<history, seen, out, cancelled, result>>

(* Nobody receives any more once FileImport has returned.                   *)
Send(d) ==
  /\ pc[d] = "send" /\ result = "none"
  /\ out' = Append(out, [point |-> at[d], decoder |-> d])
  /\ at' = [at EXCEPT ![d] = @ + 1] /\ pc' = [pc EXCEPT ![d] = "scan"]
  /\ UNCHANGED <<history, tag, holder, seen, running, cancelled, result>>

(* processFile returns, with an error if it sees that the context is done,  *)
(* which it may still see after the last point: FileImport returns that     *)
(* error of the main decoder at once.                                       *)
End(d) ==
  /\ pc[d] = "scan" /\ (cancelled \/ at[d] > Len(history))
  /\ pc' = [pc EXCEPT ![d] = "done"]
  /\ running' = IF d = 0 THEN running ELSE running - 1
  /\ \/ d # 0 /\ result' = result
     \/ d = 0 /\ cancelled /\ result' = "error"
     \/ d = 0 /\ at[d] > Len(history) /\ result' = result
  /\ UNCHANGED <<history, tag, at, holder, seen, out, cancelled>>

Wait ==
  /\ result = "none" /\ Active = {}
  /\ result' = "done"
  /\ UNCHANGED <<history, pc, tag, at, holder, seen, running, out, cancelled>>

Cancel ==
  /\ result = "none" /\ ~cancelled
  /\ cancelled' = TRUE
  /\ UNCHANGED <<history, pc, tag, at, holder, seen, running, out, result>>

Step(d) ==
  \/ SkipPoint(d) \/ OwnPoint(d) \/ TakeDevice(d) \/ FindDevice(d)
  \/ Spawn(d) \/ Send(d) \/ End(d)

Progress == Wait \/ \E d \in Decoders : Step(d)

Next == Progress \/ Cancel

Spec == Init /\ [][Next]_vars

-----------------------------------------------------------------------------

TypeOK ==
  /\ history \in Histories
  /\ pc \in [Decoders -> {"free", "scan", "spawn", "send", "done"}]
  /\ tag \in [Decoders -> seen \cup {0}] /\ at \in [Decoders -> 1..(Len(history) + 1)]
  /\ holder \in Decoders \cup {None} /\ seen \subseteq Devices
  /\ running = Cardinality(Active \ {0}) /\ running <= MaxGoroutines
  /\ out \in Seq([point : DOMAIN history, decoder : Decoders])
  /\ cancelled \in BOOLEAN /\ result \in {"none", "done", "error"}

SentOf(t) == {m \in DOMAIN out : history[out[m].point] = t}

(* "only get points for a specific device during its scan" (googlelocation. *)
(* go:161): no point is sent twice, each device's come from one decoder, in *)
(* order and, when the import was not cancelled, all; but those without a   *)
(* device, whose tag of 0 a decoder takes for having none.                  *)
PathsAreWhole ==
  \A t \in Devices :
    /\ \A m, n \in SentOf(t) :
         /\ out[m].decoder = out[n].decoder
         /\ m < n => out[m].point < out[n].point
    /\ result = "done" /\ ~cancelled /\ (t # 0 \/ Devices = {0}) =>
         \A p \in DOMAIN history : history[p] = t => \E m \in SentOf(t) : out[m].point = p

(* FileImport does not return before its goroutines unless it fails, and it *)
(* is only stuck, waiting for room with the mutex locked, when there are    *)
(* more devices than fit.                                                   *)
ScanEnds ==
  /\ result = "done" => Active = {}
  /\ result = "none" /\ ~ENABLED Progress =>
       holder # None /\ Cardinality(Devices) > MaxGoroutines + 1

DevicesAreRead == PathsAreWhole /\ ScanEnds
==============================================================================
