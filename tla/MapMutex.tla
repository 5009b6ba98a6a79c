------------------------------- MODULE MapMutex -------------------------------
(***************************************************************************)
(* The lock per key of mapmutex.go: a set of the keys that are locked and   *)
(* one condition variable for all of them.  Everything that happens under   *)
(* the mutex of that condition variable is one step; sync.Cond wakes the    *)
(* goroutines that wait, and each takes the mutex again before it looks.    *)
(***************************************************************************)
EXTENDS FiniteSets

CONSTANTS
  Procs,  (* goroutines                                                      *)
  Keys,   (* what they lock: the data files thumbnails are made of           *)
  NoKey

ASSUME NoKeyAssumption == NoKey \notin Keys

VARIABLES
  set,  (* mapMutex.set, the locked keys                                     *)
  at,   (* where each goroutine is: out of Lock and Unlock, in cond.Wait,    *)
        (* woken but without the mutex yet, or holding its key               *)
  key   (* the key it holds or asks for                                      *)

vars == <<set, at, key>>

TypeOK ==
  /\ set \subseteq Keys
  /\ at \in [Procs -> {"out", "waiting", "woken", "holding"}]
  /\ key \in [Procs -> Keys \cup {NoKey}]
  /\ \A p \in Procs : at[p] = "out" <=> key[p] = NoKey

Init ==
  /\ set = {}
  /\ at = [p \in Procs |-> "out"]
  /\ key = [p \in Procs |-> NoKey]

(* Mutant of Locked: whoever was woken does not look again. *)
LockedOnce(p, k) == at[p] = "out" /\ k \in set

(* "for mmu.locked(key)", asked again by everybody who is woken. *)
Locked(p, k) == k \in set

(* The mutex is free, and p looks whether k is: it takes k, or it waits. *)
Try(p, k) ==
  \/ /\ ~Locked(p, k)
     /\ set' = set \cup {k}
     /\ at' = [at EXCEPT ![p] = "holding"]
  \/ /\ Locked(p, k)
     /\ at' = [at EXCEPT ![p] = "waiting"]
     /\ UNCHANGED set

Lock(p, k) ==
  /\ at[p] = "out"
  /\ key' = [key EXCEPT ![p] = k]
  /\ Try(p, k)

Resume(p) ==
  /\ at[p] = "woken"
  /\ Try(p, key[p])
  /\ UNCHANGED key

(* Mutant of Woken: cond.Signal, which wakes one goroutine, whatever it     *)
(* waits for.                                                               *)
Signalled(p) ==
  LET waiting == {q \in Procs : at[q] = "waiting"}
      one == CHOOSE q \in waiting : TRUE
  IN IF waiting = {} THEN {} ELSE {one}

(* cond.Broadcast *)
Woken(p) == {q \in Procs : at[q] = "waiting"}

Unlock(p) ==
  /\ at[p] = "holding"
  /\ set' = set \ {key[p]}
  /\ at' = [q \in Procs |-> CASE q = p -> "out"
                              [] q \in Woken(p) -> "woken"
                              [] OTHER -> at[q]]
  /\ key' = [key EXCEPT ![p] = NoKey]

Next ==
  \E p \in Procs :
    \/ \E k \in Keys : Lock(p, k)
    \/ Resume(p)
    \/ Unlock(p)

Spec == Init /\ [][Next]_vars

-----------------------------------------------------------------------------

(* No two goroutines hold one key: of several that were woken together, all *)
(* but the first have to wait again.                                        *)
HeldByOne ==
  \A p, q \in Procs :
    at[p] = "holding" /\ at[q] = "holding" /\ key[p] = key[q] => p = q

(* Nobody waits for a key that is free: whatever key was unlocked last, the *)
(* wake-up was not spent on a goroutine that waits for another.             *)
NobodyWaitsForAFreeKey ==
  \A p \in Procs : at[p] = "waiting" => key[p] \in set
==============================================================================
