---------------------------- MODULE MapMutexProofs ----------------------------
(* The lock per key excludes, and loses no wake-up, for any number of        *)
(* goroutines and keys.                                                      *)
EXTENDS MapMutex, TLAPS

(* What a goroutine holds is in the set: with it, a goroutine that is let    *)
(* in by Locked is the only one that holds its key.                          *)
HeldIsInSet == \A p \in Procs : at[p] = "holding" => key[p] \in set

Inv == TypeOK /\ HeldByOne /\ HeldIsInSet /\ NobodyWaitsForAFreeKey

LEMMA InitInv == Init => Inv
BY NoKeyAssumption DEF Init, Inv, TypeOK, HeldByOne, HeldIsInSet, NobodyWaitsForAFreeKey

(* Lock and Resume: the key tried is the one p has afterwards.               *)
LEMMA TryInv ==
  ASSUME Inv, NEW p \in Procs, NEW k \in Keys,
         at[p] \in {"out", "woken"}, Try(p, k),
         key' = [key EXCEPT ![p] = k]
  PROVE  Inv'
<1>1. TypeOK'
  BY NoKeyAssumption DEF Inv, TypeOK, Try
<1>2. HeldByOne'
  BY DEF Inv, TypeOK, Try, Locked, HeldByOne, HeldIsInSet
<1>3. HeldIsInSet'
  BY DEF Inv, TypeOK, Try, Locked, HeldIsInSet
<1>4. NobodyWaitsForAFreeKey'
  BY DEF Inv, TypeOK, Try, Locked, NobodyWaitsForAFreeKey
<1> QED BY <1>1, <1>2, <1>3, <1>4 DEF Inv

LEMMA UnlockInv ==
  ASSUME Inv, NEW p \in Procs, Unlock(p)
  PROVE  Inv'
<1>1. TypeOK'
  BY NoKeyAssumption DEF Inv, TypeOK, Unlock, Woken
<1>2. HeldByOne'
  BY DEF Inv, TypeOK, Unlock, HeldByOne
(* The key that leaves the set was held by p alone.                          *)
<1>3. HeldIsInSet'
  BY DEF Inv, TypeOK, Unlock, HeldByOne, HeldIsInSet
(* Nobody waits any more, for whatever key.                                  *)
<1>4. NobodyWaitsForAFreeKey'
  BY DEF Inv, TypeOK, Unlock, Woken, NobodyWaitsForAFreeKey
<1> QED BY <1>1, <1>2, <1>3, <1>4 DEF Inv

LEMMA NextInv == Inv /\ [Next]_vars => Inv'
<1> SUFFICES ASSUME Inv, [Next]_vars PROVE Inv'
  OBVIOUS
<1>1. ASSUME NEW p \in Procs, NEW k \in Keys, Lock(p, k) PROVE Inv'
  BY <1>1, TryInv DEF Lock
<1>2. ASSUME NEW p \in Procs, Resume(p) PROVE Inv'
  <2> DEFINE k == key[p]
  <2>1. k \in Keys
    BY <1>2 DEF Resume, Inv, TypeOK
  <2>2. key' = [key EXCEPT ![p] = k]
    BY <1>2 DEF Resume, Inv, TypeOK
  <2> QED BY <1>2, <2>1, <2>2, TryInv DEF Resume
<1>3. ASSUME NEW p \in Procs, Unlock(p) PROVE Inv'
  BY <1>3, UnlockInv
<1>4. CASE UNCHANGED vars
  BY <1>4 DEF vars, Inv, TypeOK, HeldByOne, HeldIsInSet, NobodyWaitsForAFreeKey
<1> QED BY <1>1, <1>2, <1>3, <1>4 DEF Next

(* mapmutex.go: of two goroutines that lock a key, one has to wait: the     *)
(* thumbnail of a file is never generated twice at once (thumbnails.go:495).*)
THEOREM MutexExcludes == Spec => []HeldByOne
<1>1. Inv => HeldByOne
  BY DEF Inv
<1> QED BY <1>1, InitInv, NextInv, PTL DEF Spec

(* mapmutex.go: one condition variable serves all keys, and still nobody    *)
(* sleeps while its key is free, since Unlock wakes everybody.              *)
THEOREM MutexLosesNoWakeup == Spec => []NobodyWaitsForAFreeKey
<1>1. Inv => NobodyWaitsForAFreeKey
  BY DEF Inv
<1> QED BY <1>1, InitInv, NextInv, PTL DEF Spec
==============================================================================
