---------------------------- MODULE ScannerProofs ----------------------------
(***************************************************************************)
(* Proofs about Scanner for every set of beacons, confirmation count and    *)
(* interval, with an explorer that may miss boxes and with restarts.        *)
(***************************************************************************)
EXTENDS Scanner, TLAPS

(* Confirming c checks takes c - 1 intervals; one more check adds one.       *)
Needed(c) == (c - 1) * ConfirmInterval

LEMMA NeededStep ==
    ASSUME NEW c \in 1..ConfirmCount
    PROVE  /\ Needed(c) \in Nat
           /\ Needed(c + 1) = Needed(c) + ConfirmInterval
           /\ Needed(1) = 0
           /\ FullAbsence = Needed(ConfirmCount)
           /\ FullAbsence \in Nat
           /\ c < ConfirmCount => Needed(c) + ConfirmInterval <= FullAbsence
<1> USE ScannerConstants
<1>1. Needed(c) \in Nat /\ FullAbsence \in Nat
  BY DEF Needed, FullAbsence
<1>2. Needed(c + 1) = Needed(c) + ConfirmInterval
  BY DEF Needed
<1>3. Needed(1) = 0 /\ FullAbsence = Needed(ConfirmCount)
  BY DEF Needed, FullAbsence
<1>4. ASSUME c < ConfirmCount
      PROVE  Needed(c) + ConfirmInterval <= FullAbsence
  <2> DEFINE d == ConfirmCount - 1 - c
  <2>1. d \in Nat
    BY <1>4
  <2>2. d * ConfirmInterval \in Nat
    BY <2>1
  <2>3. FullAbsence = c * ConfirmInterval + d * ConfirmInterval
    BY <2>1 DEF FullAbsence
  <2>4. Needed(c) + ConfirmInterval = c * ConfirmInterval
    BY DEF Needed
  <2> QED
    BY <2>2, <2>3, <2>4
<1> QED
  BY <1>1, <1>2, <1>3, <1>4

(* Counting up to a bound stays within it and never decreases.               *)
LEMMA SaturateBounds ==
    ASSUME NEW bound \in Nat, NEW n \in 0..bound
    PROVE  /\ Saturate(n, bound) \in 0..bound
           /\ \/ Saturate(n, bound) = n + 1
              \/ Saturate(n, bound) = n /\ n = bound
BY DEF Saturate
-----------------------------------------------------------------------------
(* Type correctness, action by action.                                       *)

LEMMA ScanTyped ==
    ASSUME TypeOK, PendingIsJustified, ScanOk
    PROVE  TypeOK'
<1> USE ScannerConstants
<1> PICK seen \in Answers : Scan(seen)
  BY DEF ScanOk
<1>1. seen \subseteq Live
  BY DEF Answers
<1>2. \A b \in seen : b \in Beacons /\ chain[b] \in Sub
  BY <1>1 DEF Live, TypeOK, SubOrNone
<1>3. UNCHANGED <<chain, minted, mayMiss, restarts>>
  BY DEF ScanOk, chainVars
<1>4. \A b \in Absent(seen) : b \in Beacons /\ known[b] \in Sub
  BY DEF Absent, TypeOK, SubOrNone
<1>5. pending' \in [Beacons -> PendingRemoval \cup {NotPending}]
  <2> SUFFICES ASSUME NEW b \in Beacons
               PROVE  PendingAfter(seen)[b] \in PendingRemoval \cup {NotPending}
    BY DEF Scan, UpdateMaps, PendingAfter
  <2>1. CASE b \in seen \cup Confirmed(seen)
    BY <2>1 DEF PendingAfter
  <2>2. CASE b \notin seen \cup Confirmed(seen) /\ b \in Starting(seen)
    <3>1. PendingAfter(seen)[b] = [count |-> 1, age |-> 0, sub |-> known[b]]
      BY <2>2 DEF PendingAfter
    <3>2. known[b] \in Sub
      BY <2>2, <1>4 DEF Starting
    <3> QED
      BY <3>1, <3>2 DEF PendingRemoval
  <2>3. CASE b \notin seen \cup Confirmed(seen) \cup Starting(seen) /\ b \in Due(seen)
    <3>1. PendingAfter(seen)[b] = [pending[b] EXCEPT !.count = @ + 1, !.age = 0]
      BY <2>3 DEF PendingAfter
    <3>2. pending[b] \in PendingRemoval
      BY <2>3 DEF Due, TypeOK
    <3>3. pending[b].count + 1 < ConfirmCount
      BY <2>3, <3>2 DEF Confirmed, PendingRemoval
    <3>4. pending[b].count + 1 \in 1..ConfirmCount /\ 0 \in 0..ConfirmInterval
      BY <3>2, <3>3 DEF PendingRemoval
    <3> QED
      BY <3>1, <3>2, <3>4 DEF PendingRemoval
  <2>4. CASE b \notin seen \cup Confirmed(seen) \cup Starting(seen) \cup Due(seen)
    BY <2>4 DEF PendingAfter, TypeOK
  <2> QED
    BY <2>1, <2>2, <2>3, <2>4
<1>6. known' \in [Beacons -> SubOrNone]
  BY <1>2 DEF Scan, UpdateMaps, KnownAfter, TypeOK, SubOrNone
<1>7. diff' \subseteq [type : {"created", "extended", "removed"}, beacon : Beacons,
                       sub : Sub, old : SubOrNone]
  <2>1. CreatedEvents(seen) \subseteq [type : {"created", "extended", "removed"},
                beacon : Beacons, sub : Sub, old : SubOrNone]
    BY <1>2 DEF CreatedEvents, Event, SubOrNone
  <2>2. ExtendedEvents(seen) \subseteq [type : {"created", "extended", "removed"},
                beacon : Beacons, sub : Sub, old : SubOrNone]
    BY <1>2 DEF ExtendedEvents, Event, SubOrNone, TypeOK
  <2>3. \A b \in Confirmed(seen) : b \in Beacons /\ pending[b].sub \in Sub
    BY DEF Confirmed, Due, Absent, TypeOK, PendingRemoval
  <2>4. RemovedEvents(seen) \subseteq [type : {"created", "extended", "removed"},
                beacon : Beacons, sub : Sub, old : SubOrNone]
    BY <2>3 DEF RemovedEvents, Event, SubOrNone
  <2> QED
    BY <2>1, <2>2, <2>4 DEF Scan
<1>8. verifyAge' \in 0..VerifyInterval
  BY DEF Scan, UpdateMaps, TypeOK
<1>9. /\ absentFor' \in [Beacons -> 0..FullAbsence]
      /\ misses' \in [Beacons -> 0..ConfirmCount]
  <2>1. FullAbsence \in Nat
    BY NeededStep
  <2> QED
    BY <2>1, SaturateBounds DEF Scan, TypeOK
<1>10. told' \in [Beacons -> SubOrNone]
  <2>1. \A b \in Beacons : told'[b] \in {chain[b], NoSub, told[b]}
    BY DEF Scan
  <2> QED
    BY <2>1 DEF Scan, TypeOK, SubOrNone
<1> QED
  BY <1>3, <1>5, <1>6, <1>7, <1>8, <1>9, <1>10 DEF TypeOK

LEMMA TickTyped ==
    ASSUME TypeOK, Tick
    PROVE  TypeOK'
<1> USE ScannerConstants
<1>1. verifyAge' \in 0..VerifyInterval
  BY SaturateBounds DEF Tick, Age, TypeOK
<1>2. pending' \in [Beacons -> PendingRemoval \cup {NotPending}]
  <2> SUFFICES ASSUME NEW b \in Beacons, pending[b] # NotPending
               PROVE  [pending[b] EXCEPT !.age = Saturate(@, ConfirmInterval)]
                        \in PendingRemoval
    BY DEF Tick, Age
  <2>1. pending[b] \in PendingRemoval
    BY DEF TypeOK
  <2>2. Saturate(pending[b].age, ConfirmInterval) \in 0..ConfirmInterval
    BY <2>1, SaturateBounds DEF PendingRemoval
  <2> QED
    BY <2>1, <2>2 DEF PendingRemoval
<1>3. absentFor' \in [Beacons -> 0..FullAbsence]
  BY NeededStep, SaturateBounds DEF Tick, TypeOK
<1> QED
  BY <1>1, <1>2, <1>3 DEF Tick, Age, chainVars, TypeOK

LEMMA ChainTyped ==
    ASSUME TypeOK, ChainStep
    PROVE  TypeOK'
<1> USE ScannerConstants
<1> PICK b \in Beacons : ChainMoves(b)
  BY DEF ChainStep
<1>1. chain' \in [Beacons -> SubOrNone] /\ minted' \subseteq Beacons
  <2>1. CASE Mint(b)
    BY <2>1 DEF Mint, TypeOK, SubOrNone, Sub
  <2>2. ASSUME NEW expiry \in Nat, Recreate(b, expiry)
        PROVE  chain' \in [Beacons -> SubOrNone] /\ minted' \subseteq Beacons
    <3>1. chain[b] \in Sub
      BY <2>2 DEF Recreate, TypeOK, SubOrNone
    <3>2. [id |-> chain[b].id + 1, expiry |-> expiry] \in Sub
      BY <3>1 DEF Sub
    <3> QED
      BY <2>2, <3>2 DEF Recreate, TypeOK, SubOrNone
  <2>3. CASE Burn(b)
    BY <2>3 DEF Burn, TypeOK, SubOrNone
  <2>4. chain[b] # NoSub => chain[b].expiry \in Nat /\ chain[b].expiry + 1 \in Nat
    BY DEF TypeOK, SubOrNone, Sub
  <2> QED
    BY <2>1, <2>2, <2>3, <2>4 DEF ChainMoves
<1> QED
  BY <1>1 DEF ChainStep, scannerVars, historyVars, TypeOK

LEMMA RestartTyped ==
    ASSUME TypeOK, Restart
    PROVE  TypeOK'
<1> USE ScannerConstants
<1> PICK entries \in [Beacons -> UNION {Entries(b) : b \in Beacons}] :
            /\ \A b \in Beacons : entries[b] \in Entries(b)
            /\ Restore(entries)
            /\ told' = entries
  BY DEF Restart
<1>1. \A b \in Beacons : Entries(b) \subseteq SubOrNone
  BY DEF Entries, TypeOK, SubOrNone, Sub
<1>2. entries \in [Beacons -> SubOrNone]
  BY <1>1
<1> QED
  BY <1>2 DEF Restart, Restore, chainVars, TypeOK
-----------------------------------------------------------------------------
(* The invariant.  RemovalIsConfirmed is not inductive: it needs what a      *)
(* pending entry already proves about the absence (PendingIsJustified).      *)
IInv == TypeOK /\ PendingIsKnown /\ PendingIsJustified /\ RemovalIsConfirmed

LEMMA InitIInv == Init => IInv
<1> SUFFICES ASSUME Init PROVE IInv
  OBVIOUS
<1> USE ScannerConstants DEF Init, InitChain, InitMaps
<1>1. TypeOK
  BY NeededStep DEF TypeOK, SubOrNone
<1> QED
  BY <1>1 DEF IInv, PendingIsKnown, PendingIsJustified, RemovalIsConfirmed

LEMMA ScanStep ==
    ASSUME IInv, ScanOk
    PROVE  /\ PendingIsKnown'
           /\ PendingIsJustified'
           /\ RemovalIsConfirmed'
<1> USE ScannerConstants DEF IInv
<1> PICK seen \in Answers : Scan(seen)
  BY DEF ScanOk
<1>0. TypeOK'
  BY ScanTyped
<1>1. ASSUME NEW b \in Beacons, pending'[b] # NotPending
      PROVE  /\ b \notin seen
             /\ b \notin Confirmed(seen)
             /\ known'[b] = known[b]
             /\ absentFor'[b] = absentFor[b]
             /\ misses'[b] = Saturate(misses[b], ConfirmCount)
             /\ pending'[b] = PendingAfter(seen)[b]
  BY <1>1 DEF Scan, UpdateMaps, PendingAfter, KnownAfter
<1>2. ASSUME NEW b \in Beacons, pending'[b] # NotPending
      PROVE  /\ known'[b] = pending'[b].sub
             /\ absentFor'[b] >= Needed(pending'[b].count) + pending'[b].age
             /\ misses'[b] >= pending'[b].count
             /\ pending'[b].count < ConfirmCount
  <2> USE <1>1, <1>2
  <2>0. /\ misses[b] \in 0..ConfirmCount
        /\ absentFor[b] \in Nat
    BY NeededStep DEF TypeOK
  <2>1. CASE b \in Starting(seen)
    <3>1. pending'[b] = [count |-> 1, age |-> 0, sub |-> known[b]]
      BY <2>1 DEF PendingAfter
    <3> QED
      BY <3>1, <2>0 DEF Saturate, Needed
  <2>2. CASE b \notin Starting(seen) /\ b \in Due(seen)
    <3>1. pending'[b] = [pending[b] EXCEPT !.count = @ + 1, !.age = 0]
      BY <2>2 DEF PendingAfter
    <3>2. pending[b] \in PendingRemoval /\ pending[b] # NotPending
      BY <2>2 DEF Due, TypeOK
    <3>3. pending[b].count + 1 < ConfirmCount /\ pending[b].age >= ConfirmInterval
      BY <2>2, <3>2 DEF Confirmed, Due, PendingRemoval
    <3>4. /\ absentFor[b] >= Needed(pending[b].count) + pending[b].age
          /\ misses[b] >= pending[b].count
          /\ known[b] = pending[b].sub
      BY <3>2 DEF PendingIsJustified, PendingIsKnown, Needed
    <3>5. pending'[b].count = pending[b].count + 1 /\ pending'[b].age = 0
            /\ pending'[b].sub = pending[b].sub
      BY <3>1, <3>2 DEF PendingRemoval
    <3>6. Needed(pending[b].count + 1) = Needed(pending[b].count) + ConfirmInterval
          /\ Needed(pending[b].count) \in Nat
      BY <3>2, NeededStep DEF PendingRemoval
    <3>7. pending[b].count \in Nat /\ pending[b].age \in Nat
      BY <3>2 DEF PendingRemoval
    <3> QED
      BY <2>0, <3>3, <3>4, <3>5, <3>6, <3>7 DEF Saturate
  <2>3. CASE b \notin Starting(seen) \cup Due(seen)
    <3>1. pending'[b] = pending[b]
      BY <2>3 DEF PendingAfter
    <3>2. pending[b] \in PendingRemoval
      BY <3>1 DEF TypeOK
    <3>3. /\ absentFor[b] >= Needed(pending[b].count) + pending[b].age
          /\ misses[b] >= pending[b].count
          /\ known[b] = pending[b].sub
          /\ pending[b].count < ConfirmCount
      BY <3>1 DEF PendingIsJustified, PendingIsKnown, Needed
    <3> QED
      BY <2>0, <3>1, <3>2, <3>3 DEF PendingRemoval, Saturate
  <2> QED
    BY <2>1, <2>2, <2>3
<1>3. ASSUME NEW e \in diff', e.type = "removed"
      PROVE  absentFor'[e.beacon] >= FullAbsence /\ misses'[e.beacon] >= ConfirmCount
  <2>1. e \in RemovedEvents(seen)
    BY <1>3 DEF Scan, CreatedEvents, ExtendedEvents, Event
  <2>2. PICK b \in Confirmed(seen) : e.beacon = b
    BY <2>1 DEF RemovedEvents, Event
  <2>3. /\ b \in Beacons \ seen
        /\ pending[b] \in PendingRemoval /\ pending[b] # NotPending
        /\ pending[b].age >= ConfirmInterval
        /\ pending[b].count + 1 >= ConfirmCount
    BY DEF Confirmed, Due, Absent, TypeOK
  <2>4. /\ absentFor[b] >= Needed(pending[b].count) + pending[b].age
        /\ misses[b] >= pending[b].count
        /\ pending[b].count < ConfirmCount
    BY <2>3 DEF PendingIsJustified, Needed
  <2>5. pending[b].count \in 1..ConfirmCount /\ pending[b].age \in Nat
        /\ misses[b] \in 0..ConfirmCount /\ absentFor[b] \in Nat
    BY <2>3, NeededStep DEF PendingRemoval, TypeOK
  <2>6. pending[b].count + 1 = ConfirmCount
    BY <2>3, <2>4, <2>5
  <2>7. FullAbsence = Needed(pending[b].count) + ConfirmInterval
        /\ Needed(pending[b].count) \in Nat
    BY <2>5, <2>6, NeededStep
  <2>8. absentFor'[b] = absentFor[b] /\ misses'[b] = Saturate(misses[b], ConfirmCount)
    BY <2>3 DEF Scan
  <2> QED
    BY <2>2, <2>3, <2>4, <2>5, <2>6, <2>7, <2>8 DEF Saturate
<1> QED
  BY <1>2, <1>3 DEF PendingIsKnown, PendingIsJustified, RemovalIsConfirmed, Needed

LEMMA TickStep ==
    ASSUME IInv, Tick
    PROVE  PendingIsKnown' /\ PendingIsJustified'
<1> USE ScannerConstants DEF IInv
<1> SUFFICES ASSUME NEW b \in Beacons, pending'[b] # NotPending
             PROVE  /\ known'[b] = pending'[b].sub
                    /\ absentFor'[b] >= Needed(pending'[b].count) + pending'[b].age
                    /\ misses'[b] >= pending'[b].count
                    /\ pending'[b].count < ConfirmCount
  BY DEF PendingIsKnown, PendingIsJustified, Needed
<1>1. pending[b] \in PendingRemoval /\ pending[b] # NotPending
  BY DEF Tick, Age, TypeOK
<1>2. pending'[b] = [pending[b] EXCEPT !.age = Saturate(@, ConfirmInterval)]
  BY <1>1 DEF Tick, Age
<1>3. /\ pending'[b].count = pending[b].count
      /\ pending'[b].sub = pending[b].sub
      /\ pending'[b].age = Saturate(pending[b].age, ConfirmInterval)
  BY <1>1, <1>2 DEF PendingRemoval
<1>4. /\ absentFor[b] >= Needed(pending[b].count) + pending[b].age
      /\ misses[b] >= pending[b].count
      /\ pending[b].count < ConfirmCount
      /\ known[b] = pending[b].sub
  BY <1>1 DEF PendingIsJustified, PendingIsKnown, Needed
<1>5. /\ pending[b].count \in 1..ConfirmCount
      /\ pending[b].age \in 0..ConfirmInterval
      /\ FullAbsence \in Nat
      /\ absentFor[b] \in 0..FullAbsence
  BY <1>1, NeededStep DEF PendingRemoval, TypeOK
<1>6. absentFor'[b] = Saturate(absentFor[b], FullAbsence)
      /\ UNCHANGED <<known, misses>>
  BY DEF Tick, Age
<1>7. Needed(pending[b].count) \in Nat
      /\ Needed(pending[b].count) + ConfirmInterval <= FullAbsence
  BY <1>4, <1>5, NeededStep
<1>8. Saturate(pending[b].age, ConfirmInterval) <= pending[b].age + 1
      /\ Saturate(pending[b].age, ConfirmInterval) \in 0..ConfirmInterval
  BY <1>5 DEF Saturate
<1>9. \/ Saturate(absentFor[b], FullAbsence) = absentFor[b] + 1
      \/ Saturate(absentFor[b], FullAbsence) = FullAbsence
  BY <1>5 DEF Saturate
<1> QED
  BY <1>3, <1>4, <1>5, <1>6, <1>7, <1>8, <1>9

LEMMA NextIInv == IInv /\ [Next]_vars => IInv'
<1> SUFFICES ASSUME IInv, [Next]_vars PROVE IInv'
  OBVIOUS
<1> USE DEF IInv
<1>1. CASE ChainStep
  <2>1. UNCHANGED <<known, pending, absentFor, misses>> /\ diff' = {}
    BY <1>1 DEF ChainStep, scannerVars, historyVars
  <2> QED
    BY <1>1, <2>1, ChainTyped
      DEF PendingIsKnown, PendingIsJustified, RemovalIsConfirmed
<1>2. CASE Tick
  BY <1>2, TickTyped, TickStep DEF RemovalIsConfirmed, Tick
<1>3. CASE ScanOk
  BY <1>3, ScanTyped, ScanStep
<1>4. CASE ScanFails
  BY <1>4 DEF ScanFails, chainVars, scannerVars, historyVars, TypeOK,
              PendingIsKnown, PendingIsJustified, RemovalIsConfirmed
<1>5. CASE Restart
  <2>1. \A b \in Beacons : pending'[b] = NotPending
    BY <1>5 DEF Restart, Restore
  <2>2. diff' = {}
    BY <1>5 DEF Restart
  <2> QED
    BY <1>5, <2>1, <2>2, RestartTyped
      DEF PendingIsKnown, PendingIsJustified, RemovalIsConfirmed
<1>6. CASE UNCHANGED vars
  BY <1>6 DEF vars, chainVars, scannerVars, historyVars, TypeOK,
              PendingIsKnown, PendingIsJustified, RemovalIsConfirmed
<1> QED
  BY <1>1, <1>2, <1>3, <1>4, <1>5, <1>6 DEF Next

(* The maps, ages and reports always have their types.                       *)
THEOREM TypeCorrect == Spec => []TypeOK
<1>1. IInv => TypeOK
  BY DEF IInv
<1> QED
  BY <1>1, InitIInv, NextIInv, PTL DEF Spec

(* scanner.ts 233-289: a pending removal is never lost from the known map.   *)
THEOREM PendingStaysKnown == Spec => []PendingIsKnown
<1>1. IInv => PendingIsKnown
  BY DEF IInv
<1> QED
  BY <1>1, InitIInv, NextIInv, PTL DEF Spec

(* scanner.ts 13-21: whatever the explorer omits and however often the       *)
(* monitor restarts, no subscription is reported removed before              *)
(* CONFIRM_COUNT scans in a row missed it over CONFIRM_COUNT - 1 intervals.  *)
THEOREM NoPrematureRemoval == Spec => []RemovalIsConfirmed
<1>1. IInv => RemovalIsConfirmed
  BY DEF IInv
<1> QED
  BY <1>1, InitIInv, NextIInv, PTL DEF Spec

-----------------------------------------------------------------------------
(* The refinement: with complete answers the scanner is a SubscriptionFeed.  *)
(* What was told of a beacon names the box the scanner knows, except that a  *)
(* burned beacon may be forgotten without a word, and it never comes back.   *)
ToldIsKnown ==
    \A b \in Beacons :
        /\ known[b] # NoSub => told[b] # NoSub /\ told[b].id = known[b].id
        /\ b \in Live /\ known[b] = NoSub => told[b] = NoSub
        /\ b \in Live => b \in minted
        /\ told[b] # NoSub => b \in minted
        /\ b \in Live /\ told[b] # NoSub => told[b].id <= chain[b].id

FeedInv == ~mayMiss => ToldIsKnown

LEMMA InitFeedInv == Init => FeedInv
BY DEF Init, InitChain, InitMaps, FeedInv, ToldIsKnown, Live

(* A complete scan, beacon by beacon: no two events of one beacon, and what  *)
(* the scanner knows and has told afterwards.                                *)
LEMMA ScanTold ==
    ASSUME IInv, ToldIsKnown, ~mayMiss, NEW seen \in Answers, Scan(seen)
    PROVE  /\ \A b \in Live : /\ known'[b] = chain[b]
                              /\ told'[b] # NoSub /\ told'[b].id = chain[b].id
           /\ \A b \in Beacons \ Live :
                 /\ told'[b] \in {told[b], NoSub}
                 /\ known'[b] # NoSub => known'[b] = known[b] /\ told'[b] = told[b]
<1> USE DEF IInv
<1>1. seen = Live /\ Live \subseteq Beacons
  BY DEF Answers, Live
<1>2. ASSUME NEW b \in Live
      PROVE  known'[b] = chain[b] /\ told'[b] # NoSub /\ told'[b].id = chain[b].id
  <2>1. /\ b \in Beacons /\ known'[b] = chain[b] /\ chain[b] # NoSub
        /\ known[b] # NoSub => told[b] # NoSub /\ told[b].id = known[b].id
    BY <1>1, <1>2 DEF Scan, UpdateMaps, KnownAfter, Live, ToldIsKnown
  <2>2. CASE known[b] = NoSub
    <3>1. Event("created", b, chain[b], NoSub) \in diff'
      BY <1>1, <2>2 DEF Scan, CreatedEvents
    <3>2. \E e \in diff' : e.beacon = b /\ e.type # "removed"
      BY <3>1 DEF Event
    <3> QED
      BY <2>1, <3>2 DEF Scan
  <2>3. CASE known[b] # NoSub /\ known[b].id # chain[b].id
    <3>1. Event("extended", b, chain[b], known[b]) \in diff'
      BY <1>1, <2>3 DEF Scan, ExtendedEvents
    <3>2. \E e \in diff' : e.beacon = b /\ e.type # "removed"
      BY <3>1 DEF Event
    <3> QED
      BY <2>1, <3>2 DEF Scan
  <2>4. CASE known[b] # NoSub /\ known[b].id = chain[b].id
    <3>1. \A e \in diff' : e.beacon # b
      BY <1>1, <2>1, <2>4 DEF Scan, CreatedEvents, ExtendedEvents, RemovedEvents,
                              Confirmed, Due, Absent, Event
    <3> QED
      BY <2>1, <2>4, <3>1 DEF Scan
  <2> QED
    BY <2>1, <2>2, <2>3, <2>4
<1>3. ASSUME NEW b \in Beacons \ Live
      PROVE  /\ told'[b] \in {told[b], NoSub}
             /\ known'[b] # NoSub => known'[b] = known[b] /\ told'[b] = told[b]
  <2>1. \A e \in diff' : e.beacon = b => e.type = "removed"
    BY <1>1 DEF Scan, CreatedEvents, ExtendedEvents, RemovedEvents, Event
  <2>2. told'[b] \in {told[b], NoSub}
    BY <2>1 DEF Scan
  <2>3. ASSUME known'[b] # NoSub
        PROVE  known'[b] = known[b] /\ told'[b] = told[b]
    <3>1. known'[b] = known[b] /\ PendingAfter(seen)[b] # NotPending
      BY <1>1, <2>3 DEF Scan, UpdateMaps, KnownAfter
    <3>2. b \notin Confirmed(seen)
      BY <3>1 DEF PendingAfter
    <3>3. \A e \in RemovedEvents(seen) : e.beacon # b
      BY <3>2 DEF RemovedEvents, Event
    <3>4. \A e \in CreatedEvents(seen) \cup ExtendedEvents(seen) : e.beacon \in Live
      BY <1>1 DEF CreatedEvents, ExtendedEvents, Event
    <3>5. \A e \in diff' : e.beacon # b
      BY <1>3, <3>3, <3>4 DEF Scan
    <3> QED
      BY <3>1, <3>5 DEF Scan
  <2> QED
    BY <2>2, <2>3
<1> QED
  BY <1>2, <1>3

LEMMA MayMissFixed == [Next]_vars => mayMiss' = mayMiss
BY DEF Next, ChainStep, Tick, ScanOk, ScanFails, Restart, vars, chainVars

LEMMA FeedInvStep == IInv /\ FeedInv /\ [Next]_vars => FeedInv'
<1> SUFFICES ASSUME IInv, ToldIsKnown, ~mayMiss, [Next]_vars PROVE ToldIsKnown'
  BY MayMissFixed DEF FeedInv
<1> USE DEF IInv
<1>1. CASE ChainStep
  <2> PICK b \in Beacons : ChainMoves(b)
    BY <1>1 DEF ChainStep
  <2>1. UNCHANGED <<known, told>>
    BY <1>1 DEF ChainStep, scannerVars, historyVars
  <2>2. /\ \A a \in Beacons \ {b} : chain'[a] = chain[a]
        /\ minted \subseteq minted' /\ minted' \subseteq minted \cup {b}
    BY DEF ChainMoves, Mint, Recreate, Burn, TypeOK
  <2>3. \/ b \notin minted /\ b \in minted'
        \/ chain[b] # NoSub /\ chain'[b].id > chain[b].id
        \/ chain'[b] = NoSub
    BY ScannerConstants DEF ChainMoves, Mint, Recreate, Burn, TypeOK, SubOrNone, Sub
  <2>4. /\ chain[b] # NoSub => chain[b].id \in Nat
        /\ chain'[b] # NoSub => chain'[b].id \in Nat
        /\ told[b] # NoSub => told[b].id \in Nat
    BY <1>1, ChainTyped DEF TypeOK, SubOrNone, Sub
  <2> QED
    BY <2>1, <2>2, <2>3, <2>4 DEF ToldIsKnown, Live
<1>2. CASE Tick
  BY <1>2 DEF Tick, Age, chainVars, ToldIsKnown, Live
<1>3. CASE ScanOk
  <2> PICK seen \in Answers : Scan(seen)
    BY <1>3 DEF ScanOk
  <2>1. UNCHANGED <<chain, minted>>
    BY <1>3 DEF ScanOk, chainVars
  <2>2. \A b \in Live : chain[b].id \in Nat
    BY DEF TypeOK, SubOrNone, Sub, Live
  <2> QED
    BY <2>1, <2>2, ScanTold DEF ToldIsKnown, Live
<1>4. CASE ScanFails
  BY <1>4 DEF ScanFails, chainVars, scannerVars, historyVars, ToldIsKnown, Live
<1>5. CASE Restart
  <2> PICK entries \in [Beacons -> UNION {Entries(b) : b \in Beacons}] :
            /\ \A b \in Beacons : entries[b] \in Entries(b)
            /\ Restore(entries)
            /\ told' = entries
    BY <1>5 DEF Restart
  <2>1. UNCHANGED <<chain, minted>> /\ known' = entries
    BY <1>5 DEF Restart, Restore, chainVars
  <2>2. ASSUME NEW b \in Beacons, entries[b] # NoSub
        PROVE  told[b] # NoSub /\ entries[b].id <= told[b].id /\ entries[b].id \in Nat
    <3>1. told[b] # NoSub
      BY <2>2 DEF Entries
    <3>2. told[b].id \in Nat
      BY <3>1 DEF TypeOK, SubOrNone, Sub
    <3> QED
      BY <2>2, <3>1, <3>2 DEF Entries
  <2>3. \A b \in Beacons : /\ told[b] # NoSub => told[b].id \in Nat
                           /\ chain[b] # NoSub => chain[b].id \in Nat
    BY DEF TypeOK, SubOrNone, Sub
  <2> QED
    BY <2>1, <2>2, <2>3 DEF ToldIsKnown, Live
<1>6. CASE UNCHANGED vars
  BY <1>6 DEF vars, chainVars, scannerVars, historyVars, ToldIsKnown, Live
<1> QED
  BY <1>1, <1>2, <1>3, <1>4, <1>5, <1>6 DEF Next

(* A complete scan reports a legal set of events.                            *)
LEMMA ScanReports ==
    ASSUME IInv, ToldIsKnown, ~mayMiss, ~mayMiss', ScanOk
    PROVE  Feed!Report
<1> USE DEF IInv
<1> PICK seen \in Answers : Scan(seen)
  BY DEF ScanOk
<1>1. seen = Live /\ Live \subseteq Beacons
  BY DEF Answers, Live
<1>2. diff' = CreatedEvents(seen) \cup ExtendedEvents(seen) \cup RemovedEvents(seen)
  BY DEF Scan
<1>3. ASSUME NEW e \in CreatedEvents(seen)
      PROVE  /\ Feed!Legal(e) /\ e.beacon \in Live /\ e.type = "created"
             /\ known[e.beacon] = NoSub /\ e = Event("created", e.beacon, chain[e.beacon], NoSub)
  <2> PICK b \in seen : /\ known[b] = NoSub
                        /\ e = Event("created", b, chain[b], NoSub)
    BY <1>3 DEF CreatedEvents
  <2>1. e.beacon = b /\ e.type = "created"
    BY DEF Event
  <2>2. b \in Live /\ b \in Beacons /\ told[b] = NoSub
    BY <1>1 DEF ToldIsKnown
  <2>3. Feed!Legal(e)
    BY <2>1, <2>2 DEF Feed!Legal
  <2> QED
    BY <2>1, <2>2, <2>3
<1>4. ASSUME NEW e \in ExtendedEvents(seen)
      PROVE  /\ Feed!Legal(e) /\ e.beacon \in Live /\ e.type = "extended"
             /\ known[e.beacon] # NoSub
             /\ e = Event("extended", e.beacon, chain[e.beacon], known[e.beacon])
  <2> PICK b \in seen : /\ known[b] # NoSub /\ known[b].id # chain[b].id
                        /\ e = Event("extended", b, chain[b], known[b])
    BY <1>4 DEF ExtendedEvents
  <2>1. /\ told[b] # NoSub /\ told[b].id = known[b].id /\ told[b].id <= chain[b].id
        /\ b \in Live
    BY <1>1 DEF ToldIsKnown
  <2>2. chain[b].id \in Nat /\ told[b].id \in Nat
    BY <2>1 DEF TypeOK, SubOrNone, Sub, Live
  <2> QED
    BY <2>1, <2>2 DEF Event, Feed!Legal
<1>5. ASSUME NEW e \in RemovedEvents(seen)
      PROVE  /\ Feed!Legal(e) /\ e.beacon \in Beacons \ Live /\ e.type = "removed"
             /\ e = Event("removed", e.beacon, pending[e.beacon].sub, NoSub)
  <2> PICK b \in Confirmed(seen) : e = Event("removed", b, pending[b].sub, NoSub)
    BY <1>5 DEF RemovedEvents
  <2>1. b \in Beacons \ Live /\ known[b] # NoSub /\ pending[b] # NotPending
    BY <1>1 DEF Confirmed, Due, Absent
  <2>2. known[b] = pending[b].sub /\ told[b] # NoSub /\ told[b].id = known[b].id
    BY <2>1 DEF PendingIsKnown, ToldIsKnown
  <2> QED
    BY <2>1, <2>2 DEF Event, Feed!Legal
<1>6. \A e \in diff' : Feed!Legal(e)
  BY <1>2, <1>3, <1>4, <1>5
<1>7. \A e, f \in diff' : e.beacon = f.beacon => e = f
  BY <1>2, <1>3, <1>4, <1>5
<1>8. ASSUME NEW b \in Beacons
      PROVE  told'[b] = Feed!Outcome(diff', b)
  <2>1. CASE \A e \in diff' : e.beacon # b
    BY <2>1 DEF Scan, Feed!Outcome
  <2>2. ASSUME NEW e \in diff', e.beacon = b
        PROVE  told'[b] = Feed!Outcome(diff', b)
    <3>1. (CHOOSE f \in diff' : f.beacon = b) = e
      BY <2>2, <1>7
    <3>2. CASE e.type = "removed"
      <4>1. \A f \in diff' : f.beacon = b => f.type = "removed"
        BY <1>7, <2>2, <3>2
      <4> QED
        BY <2>2, <3>2, <4>1 DEF Scan, Feed!Outcome
    <3>3. CASE e.type # "removed"
      <4>1. \A f \in diff' : f.beacon = b => f.type # "removed"
        BY <1>7, <2>2, <3>3
      <4>2. e.sub = chain[b]
        BY <1>2, <1>3, <1>4, <1>5, <2>2, <3>3 DEF Event
      <4>3. told'[b] = chain[b]
        BY <2>2, <3>3 DEF Scan
      <4> QED
        BY <2>2, <3>1, <4>1, <4>2, <4>3 DEF Feed!Outcome
    <3> QED
      BY <3>2, <3>3
  <2> QED
    BY <2>1, <2>2
<1>9. told' = [b \in Beacons |-> Feed!Outcome(diff', b)]
  <2>1. \E f : told' = [b \in Beacons |-> f[b]]
    <3> DEFINE f == [b \in Beacons |->
                        IF \E e \in diff' : e.beacon = b /\ e.type # "removed" THEN chain[b]
                        ELSE IF \E e \in diff' : e.beacon = b THEN NoSub
                        ELSE told[b]]
    <3>1. told' = f
      BY DEF Scan
    <3> HIDE DEF f
    <3>2. f = [b \in Beacons |-> f[b]]
      BY DEF f
    <3> QED
      BY <3>1, <3>2
  <2>2. told' = [b \in Beacons |-> told'[b]]
    BY ONLY <2>1
  <2> QED
    BY ONLY <1>8, <2>2
<1> QED
  BY <1>6, <1>7, <1>9 DEF Feed!Report

(* Nothing reported, nothing changed in what was told.                       *)
LEMMA SilentReports ==
    ASSUME TypeOK, ~mayMiss, ~mayMiss', diff' = {}, told' = told
    PROVE  Feed!Report
<1>1. told' = [b \in Beacons |-> told[b]]
  BY DEF TypeOK
<1> QED
  BY <1>1 DEF Feed!Report, Feed!Outcome

LEMMA FeedStep ==
    IInv /\ FeedInv /\ [Next]_vars
        => [Feed!Next]_<<IF mayMiss THEN {} ELSE diff,
                         IF mayMiss THEN [b \in Beacons |-> NoSub] ELSE told>>
<1> SUFFICES ASSUME IInv, FeedInv, [Next]_vars, ~mayMiss, ~mayMiss'
             PROVE  Feed!Next \/ UNCHANGED <<diff, told>>
  BY MayMissFixed
<1>1. CASE ChainStep \/ Tick
  BY <1>1, SilentReports DEF ChainStep, Tick, historyVars, Feed!Next, IInv
<1>2. CASE ScanOk
  BY <1>2, ScanReports DEF FeedInv, Feed!Next
<1>3. CASE ScanFails
  BY <1>3, SilentReports DEF ScanFails, historyVars, Feed!Next, IInv
<1>4. CASE Restart
  <2> PICK entries \in [Beacons -> UNION {Entries(b) : b \in Beacons}] :
            /\ \A b \in Beacons : entries[b] \in Entries(b)
            /\ told' = entries
    BY <1>4 DEF Restart
  <2>1. ASSUME NEW b \in Beacons, told'[b] # NoSub
        PROVE  told[b] # NoSub /\ told'[b].id <= told[b].id
    <3>1. told[b] # NoSub
      BY <2>1 DEF Entries
    <3>2. told[b].id \in Nat
      BY <3>1 DEF IInv, TypeOK, SubOrNone, Sub
    <3> QED
      BY <2>1, <3>1, <3>2 DEF Entries
  <2>2. diff' = {}
    BY <1>4 DEF Restart
  <2> QED
    BY <2>1, <2>2 DEF Feed!Next, Feed!Forget
<1>5. CASE UNCHANGED vars
  BY <1>5 DEF vars, historyVars
<1> QED
  BY <1>1, <1>2, <1>3, <1>4, <1>5 DEF Next

LEMMA FeedInit == Init => Feed!Init
BY DEF Init, Feed!Init

(* The scanner implements the feed its consumers rely on: for every set of   *)
(* beacons, with restarts, no subscription is announced twice, skipped or    *)
(* removed under a box that was not the last one reported.                   *)
THEOREM ScannerImplementsFeed == Spec => FeedSpec
<1>1. Init => IInv /\ FeedInv
  BY InitIInv, InitFeedInv
<1>2. IInv /\ FeedInv /\ [Next]_vars => IInv' /\ FeedInv'
  BY NextIInv, FeedInvStep
<1> QED
  BY <1>1, <1>2, FeedInit, FeedStep, PTL DEF Spec, FeedSpec, Feed!Spec
=============================================================================
