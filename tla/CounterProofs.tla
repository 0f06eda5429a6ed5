---------------------------- MODULE CounterProofs ----------------------------
(***************************************************************************)
(* Proofs about Counter: as long as no caller has died in a call, the lock  *)
(* file excludes and no identifier is returned twice, for any number of     *)
(* processes, retries and calls.                                            *)
(*                                                                          *)
(* Neither property is inductive.  LockIsHeld says that the lock file       *)
(* stands exactly while somebody is inside, so that nobody ever takes it    *)
(* for stale; the other parts follow the next identifier from the file into *)
(* the holder's memory and back.                                            *)
(***************************************************************************)
EXTENDS Counter, TLAPS

Inside == {p \in Procs : pc[p] \in Holding}

LockIsHeld == locked <=> Inside # {}
OneInside == \A p, q \in Inside : p = q
NoneReclaims == \A p \in Procs : pc[p] \notin {"reclaim", "relock"}
HolderIsAhead ==
    \A p \in Procs, i \in Ids :
        pc[p] \in {"truncate", "write", "unlock"} /\ issued[i] > 0 => i < current[p]
FileIsAhead ==
    \/ \E p \in Procs : pc[p] = "write"
    \/ \A i \in Ids : issued[i] > 0 => i < Parsed(file)
WrittenIsNext == \A p \in Procs : pc[p] = "unlock" => Parsed(file) = current[p] + 1
OnceOnly == \A i \in Ids : issued[i] <= 1

Lock == LockIsHeld /\ OneInside /\ NoneReclaims
Numbers == HolderIsAhead /\ FileIsAhead /\ WrittenIsNext /\ OnceOnly

IInv == TypeOK /\ (crashes = 0 => Lock /\ Numbers)

-----------------------------------------------------------------------------
(* Type correctness.                                                         *)

LEMMA InitIInv == Init => IInv
<1> SUFFICES ASSUME Init PROVE IInv
  OBVIOUS
<1> USE CounterConstants DEF Init, Holding, Ids
<1>1. TypeOK
  <2>1. /\ pc \in [Procs -> {"idle", "lock", "reclaim", "relock"} \cup Holding]
        /\ \A p \in Procs : pc[p] = "lock" => tries[p] < Retries
    OBVIOUS
  <2>2. tries \in [Procs -> 0..Retries] /\ current \in [Procs -> Nat \ {0}]
    OBVIOUS
  <2>3. issued \in [Ids -> Nat]
    OBVIOUS
  <2>4. file \in (Nat \ {0}) \cup {Empty} /\ locked \in BOOLEAN
    OBVIOUS
  <2>5. calls \in 0..MaxCalls /\ crashes \in 0..MaxCrashes
    OBVIOUS
  <2> QED
    BY <2>1, <2>2, <2>3, <2>4, <2>5, Zenon DEF TypeOK
<1>2. Lock
  BY DEF Lock, LockIsHeld, OneInside, NoneReclaims, Inside
<1>3. Numbers
  BY DEF Numbers, HolderIsAhead, FileIsAhead, WrittenIsNext, OnceOnly
<1> QED
  BY <1>1, <1>2, <1>3 DEF IInv

LEMMA ParsedTyped == ASSUME TypeOK PROVE Parsed(file) \in Nat \ {0}
<1>1. file \in (Nat \ {0}) \cup {Empty}
  BY DEF TypeOK
<1> QED
  BY <1>1, CounterConstants DEF Parsed

LEMMA TypeStep == TypeOK /\ [Next]_vars => TypeOK'
<1> SUFFICES ASSUME TypeOK, [Next]_vars PROVE TypeOK'
  OBVIOUS
<1> USE CounterConstants DEF TypeOK, Holding, Go
<1>1. ASSUME NEW p \in Procs, Call(p) PROVE TypeOK'
  BY <1>1 DEF Call
<1>2. ASSUME NEW p \in Procs, CreateLock(p) PROVE TypeOK'
  BY <1>2 DEF CreateLock
<1>3. ASSUME NEW p \in Procs, LockExists(p) PROVE TypeOK'
  BY <1>3 DEF LockExists
<1>4. ASSUME NEW p \in Procs, Reclaim(p) \/ Relock(p) PROVE TypeOK'
  BY <1>4 DEF Reclaim, Relock
<1>5. ASSUME NEW p \in Procs, Read(p) PROVE TypeOK'
  <2>1. current' = [current EXCEPT ![p] = Parsed(file)] /\ Parsed(file) \in Nat \ {0}
    BY <1>5, ParsedTyped DEF Read
  <2> QED
    BY <1>5, <2>1 DEF Read
<1>6. ASSUME NEW p \in Procs, Truncate(p) \/ Write(p) PROVE TypeOK'
  BY <1>6 DEF Truncate, Write
<1>7. ASSUME NEW p \in Procs, Unlock(p) PROVE TypeOK'
  <2>1. issued' \in [Ids -> Nat]
    <3>1. issued' = [i \in Ids |-> IF i = current[p] THEN issued[i] + 1 ELSE issued[i]]
      BY <1>7 DEF Unlock
    <3>2. \A i \in Ids : issued[i] \in Nat
      OBVIOUS
    <3> QED
      BY <3>1, <3>2
  <2>2. /\ pc' \in [Procs -> {"idle", "lock", "reclaim", "relock"} \cup Holding]
        /\ \A q \in Procs : pc'[q] = "lock" => tries'[q] < Retries
    BY <1>7 DEF Unlock
  <2>3. locked' \in BOOLEAN
    BY <1>7 DEF Unlock
  <2> QED
    BY <1>7, <2>1, <2>2, <2>3 DEF Unlock
<1>8. ASSUME NEW p \in Procs, Crash(p) PROVE TypeOK'
  BY <1>8 DEF Crash
<1>9. CASE UNCHANGED vars
  BY <1>9 DEF vars
<1> QED
  BY <1>1, <1>2, <1>3, <1>4, <1>5, <1>6, <1>7, <1>8, <1>9 DEF Next, Step

-----------------------------------------------------------------------------
(* The lock, and the numbers, while nobody has died.                         *)

LEMMA LockStep ==
    ASSUME TypeOK, crashes = 0, crashes' = 0, Lock, [Next]_vars
    PROVE  Lock'
<1> USE DEF Lock, LockIsHeld, OneInside, NoneReclaims, Inside, Holding, TypeOK, Go
<1>1. ASSUME NEW p \in Procs, Call(p) PROVE Lock'
  BY <1>1 DEF Call
<1>2. ASSUME NEW p \in Procs, CreateLock(p) PROVE Lock'
  BY <1>2 DEF CreateLock
<1>3. ASSUME NEW p \in Procs, LockExists(p) PROVE Lock'
  BY <1>3 DEF LockExists
<1>4. ASSUME NEW p \in Procs, Reclaim(p) \/ Relock(p) PROVE Lock'
  BY <1>4 DEF Reclaim, Relock
<1>5. ASSUME NEW p \in Procs, Read(p) \/ Truncate(p) \/ Write(p) PROVE Lock'
  BY <1>5 DEF Read, Truncate, Write
<1>6. ASSUME NEW p \in Procs, Unlock(p) PROVE Lock'
  BY <1>6 DEF Unlock
<1>7. ASSUME NEW p \in Procs, Crash(p) PROVE Lock'
  BY <1>7 DEF Crash
<1>8. CASE UNCHANGED vars
  BY <1>8 DEF vars
<1> QED
  BY <1>1, <1>2, <1>3, <1>4, <1>5, <1>6, <1>7, <1>8 DEF Next, Step

LEMMA NumbersStep ==
    ASSUME TypeOK, crashes = 0, crashes' = 0, Lock, Numbers, [Next]_vars
    PROVE  Numbers'
<1> USE CounterConstants
    DEF Numbers, HolderIsAhead, FileIsAhead, WrittenIsNext, OnceOnly, TypeOK, Holding, Ids, Go
<1>0. \A p, q \in Procs : pc[p] \in Holding /\ pc[q] \in Holding => p = q
  BY DEF Lock, OneInside, Inside
<1>1. ASSUME NEW p \in Procs, Call(p) PROVE Numbers'
  BY <1>1 DEF Call
<1>2. ASSUME NEW p \in Procs, CreateLock(p) PROVE Numbers'
  BY <1>2 DEF CreateLock
<1>3. ASSUME NEW p \in Procs, LockExists(p) PROVE Numbers'
  BY <1>3 DEF LockExists
<1>4. ASSUME NEW p \in Procs, Reclaim(p) \/ Relock(p) PROVE Numbers'
  BY <1>4 DEF Reclaim, Relock, Lock, NoneReclaims
<1>5. ASSUME NEW p \in Procs, Read(p) PROVE Numbers'
  BY <1>0, <1>5, ParsedTyped DEF Read
<1>6. ASSUME NEW p \in Procs, Truncate(p) PROVE Numbers'
  BY <1>0, <1>6 DEF Truncate
<1>7. ASSUME NEW p \in Procs, Write(p) PROVE Numbers'
  <2>1. file' = current[p] + 1 /\ Parsed(file') = current[p] + 1
    BY <1>7 DEF Write, Parsed
  <2> QED
    BY <1>0, <1>7, <2>1 DEF Write
<1>8. ASSUME NEW p \in Procs, Unlock(p) PROVE Numbers'
  <2>1. \A q \in Procs : q # p => pc'[q] \notin Holding
    BY <1>0, <1>8 DEF Unlock
  <2>2. pc'[p] = "idle" /\ file' = file /\ Parsed(file) = current[p] + 1
    BY <1>8 DEF Unlock
  <2>3. \A i \in Ids : issued'[i] = IF i = current[p] THEN issued[i] + 1 ELSE issued[i]
    BY <1>8 DEF Unlock
  <2>4. \A i \in Ids : issued[i] > 0 => i < current[p]
    BY <1>8 DEF Unlock
  <2>t. issued \in [Ids -> Nat] /\ current[p] \in Nat
    OBVIOUS
  <2>5. \A i \in Ids : issued'[i] <= 1
    <3> TAKE i \in Ids
    <3>1. issued[i] \in Nat /\ i \in Nat /\ issued[i] <= 1 /\ (issued[i] > 0 => i < current[p])
      BY <2>t, <2>4
    <3> QED
      BY <2>t, <2>3, <3>1, SMTT(30)
  <2>6. \A i \in Ids : issued'[i] > 0 => i < Parsed(file')
    <3> TAKE i \in Ids
    <3>1. i \in Nat /\ issued[i] \in Nat /\ (issued[i] > 0 => i < current[p])
      BY <2>t, <2>4
    <3>2. Parsed(file') = current[p] + 1
      BY <2>2 DEF Parsed
    <3> HIDE DEF Ids
    <3>3. CASE i = current[p]
      BY <2>t, <3>2, <3>3
    <3>4. CASE i # current[p]
      <4>1. issued'[i] = issued[i]
        BY <2>3, <3>4
      <4> QED
        BY <2>t, <3>1, <3>2, <4>1
    <3> QED
      BY <3>3, <3>4
  <2> QED
    BY <2>1, <2>2, <2>5, <2>6
<1>9. ASSUME NEW p \in Procs, Crash(p) PROVE Numbers'
  BY <1>9 DEF Crash
<1>10. CASE UNCHANGED vars
  BY <1>10 DEF vars
<1> QED
  BY <1>1, <1>2, <1>3, <1>4, <1>5, <1>6, <1>7, <1>8, <1>9, <1>10 DEF Next, Step

LEMMA CrashesStay == TypeOK /\ [Next]_vars /\ crashes' = 0 => crashes = 0
BY DEF TypeOK, Next, Step, Call, CreateLock, LockExists, Reclaim, Relock, Read, Truncate,
       Write, Unlock, Crash, vars

LEMMA Inductive == IInv /\ [Next]_vars => IInv'
BY TypeStep, LockStep, NumbersStep, CrashesStay DEF IInv

LEMMA Always == Spec => []IInv
BY InitIInv, Inductive, PTL DEF Spec

-----------------------------------------------------------------------------
(* The state stays within its types.                                         *)
THEOREM TypeCorrect == Spec => []TypeOK
<1>1. IInv => TypeOK
  BY DEF IInv
<1> QED
  BY <1>1, Always, PTL

(* counter.ts 5-6: the lock file serialises concurrent callers.              *)
THEOREM CallersAreSerialised == Spec => []Serialised
<1>1. IInv => Serialised
  BY DEF IInv, Serialised, Lock, OneInside, Inside
<1> QED
  BY <1>1, Always, PTL

(* counter.ts 2: an identifier goes to one caller only.                      *)
THEOREM IdsAreUnique == Spec => []UniqueIds
<1>1. IInv => UniqueIds
  BY DEF IInv, UniqueIds, Numbers, OnceOnly
<1> QED
  BY <1>1, Always, PTL
=============================================================================
