------------------------------- MODULE Scanner -------------------------------
(***************************************************************************)
(* The subscription scanner (src/src/monitor/scanner.ts): every poll asks   *)
(* the explorer for the unspent boxes at the subscription script, diffs     *)
(* them against the boxes it knows, and reports CREATED, EXTENDED and       *)
(* REMOVED events.  A removal is reported only after a two-phase            *)
(* confirmation.                                                            *)
(*                                                                          *)
(* Abstractions.  Wall-clock times are kept as ages: `now - lastVerify` and *)
(* `now - lastCheckAt` are counted in ticks and saturate at the interval    *)
(* the code compares them with.  A box is its id (the n-th box carrying the *)
(* beacon) and its expiry; expiry 0 stands for the empty placeholder state  *)
(* that restoreFromVms installs.                                            *)
(***************************************************************************)
EXTENDS Integers, FiniteSets

CONSTANTS
    Beacons,          \* beacon token ids, one per subscription
    NoSub,            \* "not in the map" / "no unspent box"
    NotPending,       \* "not in pendingRemovals"
    ConfirmCount,     \* CONFIRM_COUNT
    VerifyInterval,   \* verifyIntervalMs, in ticks
    ConfirmInterval,  \* confirmIntervalMs, in ticks
    MayMiss,          \* explorers to consider: {TRUE} may omit live boxes
    MaxBox,           \* bound: boxes per subscription
    MaxRestarts       \* bound: restarts of the monitor

Sub == [id : Nat \ {0}, expiry : Nat]
PendingRemoval == [count : 1..ConfirmCount, age : 0..ConfirmInterval, sub : Sub]

ASSUME ScannerConstants ==
    /\ NoSub \notin Sub
    /\ NotPending \notin PendingRemoval
    /\ ConfirmCount \in Nat \ {0, 1}
    /\ VerifyInterval \in Nat \ {0}
    /\ ConfirmInterval \in Nat \ {0}
    /\ MayMiss \subseteq BOOLEAN
    /\ MaxBox \in Nat
    /\ MaxRestarts \in Nat

VARIABLES
    chain,      \* the unspent box that carries each beacon, or NoSub
    minted,     \* beacons minted so far: a burned one is never minted again
    mayMiss,    \* whether this explorer's answers may omit live boxes
    known,      \* SubscriptionScanner.known
    pending,    \* SubscriptionScanner.pendingRemovals
    verifyAge,  \* now - lastVerify
    diff,       \* the ScanDiff of the last step: the poll loop takes it at once
    restarts,
    (* history *)
    absentFor,  \* ticks since a scan last returned the beacon
    misses,     \* successful scans in a row that did not return it
    told        \* what the reports so far amount to for each beacon

chainVars   == <<chain, minted, mayMiss>>
scannerVars == <<known, pending, verifyAge>>
historyVars == <<absentFor, misses, told>>
vars == <<chainVars, scannerVars, diff, restarts, historyVars>>

-----------------------------------------------------------------------------
Live == {b \in Beacons : chain[b] # NoSub}
Burned == minted \ Live

Event(type, b, sub, old) == [type |-> type, beacon |-> b, sub |-> sub, old |-> old]
SubOrNone == Sub \cup {NoSub}

FullAbsence == (ConfirmCount - 1) * ConfirmInterval

(* Ages saturate: nothing distinguishes longer ones.                         *)
Saturate(n, bound) == IF n < bound THEN n + 1 ELSE bound

InitChain ==
    /\ chain = [b \in Beacons |-> NoSub]
    /\ minted = {}

InitMaps ==
    /\ known = [b \in Beacons |-> NoSub]
    /\ pending = [b \in Beacons |-> NotPending]
    /\ verifyAge = VerifyInterval          \* lastVerify = 0: the first scan verifies

Init ==
    /\ InitChain
    /\ InitMaps
    /\ mayMiss \in MayMiss
    /\ diff = {}
    /\ restarts = 0
    /\ absentFor = [b \in Beacons |-> 0]
    /\ misses = [b \in Beacons |-> 0]
    /\ told = [b \in Beacons |-> NoSub]

-----------------------------------------------------------------------------
(* The chain.  Every spend of a subscription box recreates it under a new   *)
(* id (extend, partial collect) or burns the beacon (cancel, full collect). *)

Mint(b) ==
    /\ b \notin minted
    /\ minted' = minted \cup {b}
    /\ chain' = [chain EXCEPT ![b] = [id |-> 1, expiry |-> 1]]

Recreate(b, expiry) ==
    /\ chain[b] # NoSub
    /\ chain[b].id < MaxBox
    /\ chain' = [chain EXCEPT ![b] = [id |-> @.id + 1, expiry |-> expiry]]
    /\ UNCHANGED minted

Burn(b) ==
    /\ chain[b] # NoSub
    /\ chain' = [chain EXCEPT ![b] = NoSub]
    /\ UNCHANGED minted

ChainMoves(b) ==
    \/ Mint(b)
    \/ chain[b] # NoSub /\ Recreate(b, chain[b].expiry)       \* partial collect
    \/ chain[b] # NoSub /\ Recreate(b, chain[b].expiry + 1)   \* extend
    \/ Burn(b)

ChainStep ==
    /\ \E b \in Beacons : ChainMoves(b)
    /\ diff' = {}
    /\ UNCHANGED <<mayMiss, scannerVars, restarts, historyVars>>

(* Date.now() advances by a tick.                                            *)
Age ==
    /\ verifyAge' = Saturate(verifyAge, VerifyInterval)
    /\ pending' = [b \in Beacons |->
            IF pending[b] = NotPending THEN NotPending
            ELSE [pending[b] EXCEPT !.age = Saturate(@, ConfirmInterval)]]
    /\ UNCHANGED known

Tick ==
    /\ Age
    /\ absentFor' = [b \in Beacons |-> Saturate(absentFor[b], FullAbsence)]
    /\ diff' = {}
    /\ UNCHANGED <<chainVars, restarts, misses, told>>

-----------------------------------------------------------------------------
(* scan(): `seen` is the set of beacons in the explorer's answer.            *)

IsVerifyTime == verifyAge >= VerifyInterval

Absent(seen) == {b \in Beacons \ seen : known[b] # NoSub}

Starting(seen) == {b \in Absent(seen) : pending[b] = NotPending /\ IsVerifyTime}

(* Seeded bug: every scan counts as a confirmation check.                    *)
Due_AnyAge(seen) == {b \in Absent(seen) : pending[b] # NotPending}

Due(seen) ==
    {b \in Absent(seen) : pending[b] # NotPending /\ pending[b].age >= ConfirmInterval}

Confirmed(seen) == {b \in Due(seen) : pending[b].count + 1 >= ConfirmCount}

CreatedEvents(seen) ==
    {Event("created", b, chain[b], NoSub) : b \in {s \in seen : known[s] = NoSub}}

ExtendedEvents(seen) ==
    {Event("extended", b, chain[b], known[b]) :
        b \in {s \in seen : known[s] # NoSub /\ known[s].id # chain[s].id}}

RemovedEvents(seen) ==
    {Event("removed", b, pending[b].sub, NoSub) : b \in Confirmed(seen)}

(* Seeded bugs: a confirmed removal is not deleted; a check does not count.  *)
PendingAfter_NoDelete(seen) ==
    [b \in Beacons |->
        IF b \in seen THEN NotPending
        ELSE IF b \in Starting(seen) THEN [count |-> 1, age |-> 0, sub |-> known[b]]
        ELSE pending[b]]

PendingAfter_NoCount(seen) ==
    [b \in Beacons |->
        IF b \in seen THEN NotPending
        ELSE IF b \in Starting(seen) THEN [count |-> 1, age |-> 0, sub |-> known[b]]
        ELSE IF b \in Due(seen) THEN [pending[b] EXCEPT !.age = 0]
        ELSE pending[b]]

PendingAfter(seen) ==
    [b \in Beacons |->
        IF b \in seen \cup Confirmed(seen) THEN NotPending
        ELSE IF b \in Starting(seen)
             THEN [count |-> 1, age |-> 0, sub |-> known[b]]
        ELSE IF b \in Due(seen)
             THEN [pending[b] EXCEPT !.count = @ + 1, !.age = 0]
        ELSE pending[b]]

(* Seeded bugs: pending beacons are not carried over; a known beacon keeps   *)
(* its old box.                                                              *)
KnownAfter_DropPending(seen) ==
    [b \in Beacons |-> IF b \in seen THEN chain[b] ELSE NoSub]

KnownAfter_KeepOld(seen) ==
    [b \in Beacons |->
        IF b \in seen /\ known[b] = NoSub THEN chain[b]
        ELSE IF b \in seen \/ PendingAfter(seen)[b] # NotPending THEN known[b]
        ELSE NoSub]

KnownAfter(seen) ==
    [b \in Beacons |->
        IF b \in seen THEN chain[b]
        ELSE IF PendingAfter(seen)[b] # NotPending THEN known[b]
        ELSE NoSub]

UpdateMaps(seen) ==
    /\ pending' = PendingAfter(seen)
    /\ known' = KnownAfter(seen)
    /\ verifyAge' = IF IsVerifyTime THEN 0 ELSE verifyAge

Scan(seen) ==
    /\ UpdateMaps(seen)
    /\ diff' = CreatedEvents(seen) \cup ExtendedEvents(seen) \cup RemovedEvents(seen)
    /\ absentFor' = [b \in Beacons |-> IF b \in seen THEN 0 ELSE absentFor[b]]
    /\ misses' = [b \in Beacons |->
            IF b \in seen THEN 0 ELSE Saturate(misses[b], ConfirmCount)]
    /\ told' = [b \in Beacons |->
            IF \E e \in diff' : e.beacon = b /\ e.type # "removed" THEN chain[b]
            ELSE IF \E e \in diff' : e.beacon = b THEN NoSub
            ELSE told[b]]

(* A successful query: boxes are fetched page by page by offset, so a live   *)
(* box can be missing from one answer (provider.ts).                         *)
Answers == IF mayMiss THEN SUBSET Live ELSE {Live}

ScanOk ==
    /\ \E seen \in Answers : Scan(seen)
    /\ UNCHANGED <<chainVars, restarts>>

(* A failed query returns an empty diff and changes nothing.                 *)
ScanFails ==
    /\ diff' = {}
    /\ UNCHANGED <<chainVars, scannerVars, restarts, historyVars>>

(* A new process: the maps are rebuilt from the entries of vms.json.         *)
Restore(entries) ==
    /\ known' = entries
    /\ pending' = [b \in Beacons |-> NotPending]
    /\ verifyAge' = VerifyInterval

(* What vms.json can hold: for any reported subscription, nothing or a box   *)
(* id it has had.                                                            *)
Entries(b) ==
    {NoSub} \cup
    (IF told[b] = NoSub THEN {}
     ELSE {[id |-> n, expiry |-> 0] : n \in 1..told[b].id})

Restart ==
    /\ restarts < MaxRestarts
    /\ restarts' = restarts + 1
    /\ \E entries \in [Beacons -> UNION {Entries(b) : b \in Beacons}] :
            /\ \A b \in Beacons : entries[b] \in Entries(b)
            /\ Restore(entries)
            /\ told' = entries
    /\ diff' = {}
    /\ UNCHANGED <<chainVars, absentFor, misses>>

Next == ChainStep \/ Tick \/ ScanOk \/ ScanFails \/ Restart

Spec == Init /\ [][Next]_vars

(* Time passes and the poll loop keeps getting answers.  Nothing obliges a   *)
(* subscriber to act or the monitor to restart.                              *)
FairSpec == Spec /\ WF_vars(Tick) /\ WF_vars(ScanOk)

-----------------------------------------------------------------------------
(* What the reports promise their consumer, as long as the explorer's answers*)
(* are complete; of one that omits boxes nothing is asked here.              *)
Feed == INSTANCE SubscriptionFeed WITH
    diff <- IF mayMiss THEN {} ELSE diff,
    told <- IF mayMiss THEN [b \in Beacons |-> NoSub] ELSE told
FeedSpec == Feed!Spec

TypeOK ==
    /\ chain \in [Beacons -> SubOrNone]
    /\ minted \subseteq Beacons
    /\ mayMiss \in BOOLEAN
    /\ known \in [Beacons -> SubOrNone]
    /\ pending \in [Beacons -> PendingRemoval \cup {NotPending}]
    /\ verifyAge \in 0..VerifyInterval
    /\ diff \subseteq [type : {"created", "extended", "removed"}, beacon : Beacons,
                       sub : Sub, old : SubOrNone]
    /\ restarts \in 0..MaxRestarts
    /\ absentFor \in [Beacons -> 0..FullAbsence]
    /\ misses \in [Beacons -> 0..ConfirmCount]
    /\ told \in [Beacons -> SubOrNone]

(* A beacon waiting for confirmation is still known, as the subscription     *)
(* that will be reported: otherwise lines 233-269 would never visit it       *)
(* again and its REMOVED event would be lost.                                *)
PendingIsKnown ==
    \A b \in Beacons : pending[b] # NotPending => known[b] = pending[b].sub

(* scanner.ts 13-21: REMOVED is reported only for a beacon absent from       *)
(* CONFIRM_COUNT scans in a row, spread over CONFIRM_COUNT - 1 intervals.    *)
RemovalIsConfirmed ==
    \A e \in diff : e.type = "removed" =>
        /\ absentFor[e.beacon] >= FullAbsence
        /\ misses[e.beacon] >= ConfirmCount

(* The pending entry understates the absence it stands for (the inductive    *)
(* part of RemovalIsConfirmed).                                              *)
PendingIsJustified ==
    \A b \in Beacons : pending[b] # NotPending =>
        /\ absentFor[b] >= (pending[b].count - 1) * ConfirmInterval + pending[b].age
        /\ misses[b] >= pending[b].count
        /\ pending[b].count < ConfirmCount

(* Every burned subscription is eventually forgotten for good, restarts      *)
(* included: the monitor never tracks a dead box forever.                    *)
BurnedForgotten ==
    \A b \in Beacons : b \in Burned ~> [](known[b] = NoSub)

(* No removal stays pending forever: it is confirmed or cancelled.           *)
PendingResolves ==
    \A b \in Beacons : pending[b] # NotPending ~> pending[b] = NotPending

(* scanner.ts 15 and 250: between verifications an absence is ignored.       *)
AbsenceIgnored ==
    [][\A b \in Beacons :
         (known[b] # NoSub /\ pending[b] = NotPending /\ known'[b] = NoSub)
            => IsVerifyTime \/ restarts' # restarts]_vars
=============================================================================
