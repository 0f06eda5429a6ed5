---------------------------- MODULE MonitorProofs ----------------------------
(***************************************************************************)
(* Proofs about Monitor, for any number of subscriptions, VMs, failing      *)
(* commands and deaths of the process.                                      *)
(*                                                                          *)
(* The invariant is built in layers, each inductive on top of the ones      *)
(* before it.  Base: what each variable holds, and that at most one event   *)
(* of a subscription is under way.  Books: the scanner's map runs behind    *)
(* the chain, and an event under way is the last thing the map was told.    *)
(* These hold whatever the explorer omits.  On them rest                    *)
(*   - Records: a recorded beacon is remembered while its box lives, and a  *)
(*     beacon reported as created is on no record (complete answers);       *)
(*   - RemovedAreBurned: only a burned box's removal is reported (complete   *)
(*     answers);                                                            *)
(*   - AllWithin: no VM is ahead of its box, nor of what the map and the    *)
(*     event under way take as its starting point (any explorer);           *)
(*   - AllProvisioned: who has which VM while no command has failed and no  *)
(*     process has died (complete answers).                                 *)
(***************************************************************************)
EXTENDS Monitor, SequenceTheorems, FiniteSetTheorems, TLAPS

(* The steps of a creation from where its VM exists.                         *)
Providing == {"record", "mint", "mark"}
BeforeRecord == {"allocate", "create", "record"}
WithVm == Providing \cup {"resume"}

StepsOf(type) ==
    CASE type = "created"  -> {"allocate", "create"} \cup Providing
      [] type = "extended" -> {"extend", "resume"}
      [] type = "removed"  -> {"destroy"}

EventSet ==
    [type : {"created", "removed"}, beacon : Beacons, sub : S!Sub, old : {NoSub}]
        \cup [type : {"extended"}, beacon : Beacons, sub : S!Sub, old : S!Sub]

Steps == {"allocate", "create", "record", "mint", "mark", "extend", "resume", "destroy"}
JobSet == {j \in [event : EventSet, step : Steps, vm : Nat] :
                j.step \in StepsOf(j.event.type)}

Pend == [count : Int, age : Int, sub : S!Sub]

VmOK(r) ==
    /\ r \in Vm
    /\ r.owner = OwnerOf[r.for]
    /\ r.beacon # NoBeacon => r.beacon = r.for /\ r.box > 0

Elems(q) == {q[i] : i \in 1..Len(q)}
Queued == Elems(queue)
(* The events whose handler has not touched a VM yet.                        *)
FirstSteps == {"allocate", "create", "extend", "destroy"}
Waiting == Queued \cup (IF job # Idle /\ job.step \in FirstSteps THEN {job.event} ELSE {})

OneEach(q) == \A i, j \in 1..Len(q) : q[i].beacon = q[j].beacon => i = j

-----------------------------------------------------------------------------
(* Base                                                                      *)

Types ==
    /\ chain \in [Beacons -> S!SubOrNone]
    /\ minted \subseteq Beacons
    /\ known \in [Beacons -> S!SubOrNone]
    /\ DOMAIN pending = Beacons
    /\ \A b \in Beacons : pending[b] = NotPending \/ pending[b] \in Pend
    /\ verifyAge \in Nat
    /\ nextVm \in Nat /\ faults \in Nat /\ crashes \in Nat

VmsTyped ==
    /\ DOMAIN vms = VmIds
    /\ \A v \in VmIds : vms[v] = NoVm \/ VmOK(vms[v])

JobTyped ==
    job # Idle =>
        /\ job \in JobSet
        /\ job.step = "create" => job.vm \in VmIds
        /\ job.step \in WithVm => job.vm \in Running
        /\ job.step \in Providing => vms[job.vm].for = job.event.beacon

OneEventEach ==
    /\ OneEach(queue)
    /\ job # Idle => \A e \in Queued : e.beacon # job.event.beacon

LiveIsMinted == \A b \in Beacons : chain[b] # NoSub => b \in minted

Base == Types /\ VmsTyped /\ queue \in Seq(EventSet) /\ JobTyped /\ OneEventEach /\ LiveIsMinted

USE DEF S!SubOrNone

LEMMA VmIdsAreNat == VmIds \subseteq Nat
BY MonitorConstants DEF VmIds

LEMMA EventFields ==
    ASSUME NEW e \in EventSet
    PROVE  /\ e.type \in {"created", "extended", "removed"}
           /\ e.beacon \in Beacons /\ e.sub \in S!Sub
           /\ e.type = "extended" => e.old \in S!Sub
BY DEF EventSet

LEMMA JobFields ==
    ASSUME NEW j \in JobSet
    PROVE  /\ j.event \in EventSet /\ j.step \in Steps /\ j.vm \in Nat
           /\ j.step \in {"allocate", "create"} \cup Providing <=> j.event.type = "created"
           /\ j.step \in {"extend", "resume"} <=> j.event.type = "extended"
           /\ j.step = "destroy" <=> j.event.type = "removed"
           /\ j = [event |-> j.event, step |-> j.step, vm |-> j.vm]
<1>1. j \in [event : EventSet, step : Steps, vm : Nat] /\ j.step \in StepsOf(j.event.type)
  BY DEF JobSet
<1>2. j.event.type \in {"created", "extended", "removed"}
  BY <1>1, EventFields
<1> QED
  BY <1>1, <1>2 DEF StepsOf, Providing

LEMMA IdleIsNoJob == Idle \notin JobSet
<1> DEFINE Event == [type : {"created", "extended", "removed"}, beacon : Beacons,
                     sub : [id : Nat \ {0}, expiry : Nat],
                     old : [id : Nat \ {0}, expiry : Nat] \cup {NoSub}]
<1>1. S!Sub = [id : Nat \ {0}, expiry : Nat]
  BY DEF S!Sub
<1>2. EventSet \subseteq Event
  BY <1>1 DEF EventSet
<1>3. Idle \notin [event : Event, step : Steps, vm : Nat]
  BY MonitorConstants DEF Steps
<1> HIDE DEF Event
<1>4. JobSet \subseteq [event : Event, step : Steps, vm : Nat]
  BY <1>2 DEF JobSet
<1> QED
  BY <1>3, <1>4

LEMMA SubIsSome == NoSub \notin S!Sub
BY MonitorConstants DEF S!Sub

LEMMA VmIsSome ==
    ASSUME NEW r, VmOK(r)
    PROVE  /\ r # NoVm /\ r.for \in Beacons /\ r.owner = OwnerOf[r.for]
           /\ r.expiry \in Int /\ r.beacon \in {NoBeacon, r.for}
BY MonitorConstants DEF VmOK, Vm

(* A running VM's record.                                                    *)
LEMMA RunningVm ==
    ASSUME VmsTyped, NEW v \in Running
    PROVE  v \in VmIds /\ v \in Nat /\ VmOK(vms[v])
BY VmIdsAreNat DEF Running, VmsTyped

(* One VM's record changes.                                                  *)
LEMMA OneVm ==
    ASSUME VmsTyped, NEW v \in VmIds, NEW r, vms' = [vms EXCEPT ![v] = r],
           r = NoVm \/ VmOK(r)
    PROVE  /\ VmsTyped' /\ vms'[v] = r /\ \A u \in VmIds : u # v => vms'[u] = vms[u]
           /\ Running' = IF r = NoVm THEN Running \ {v} ELSE Running \cup {v}
<1>1. DOMAIN vms' = VmIds /\ vms'[v] = r /\ \A u \in VmIds : u # v => vms'[u] = vms[u]
  BY DEF VmsTyped
<1>2. VmsTyped'
  BY <1>1 DEF VmsTyped
<1>3. Running' = IF r = NoVm THEN Running \ {v} ELSE Running \cup {v}
  BY <1>1 DEF Running
<1> QED
  BY <1>1, <1>2, <1>3

LEMMA StatusFacts ==
    ASSUME NEW r, VmOK(r), NEW status \in {"active", "suspended"},
           NEW s, s = [r EXCEPT !.status = status]
    PROVE  VmOK(s) /\ s.beacon = r.beacon /\ s.for = r.for /\ s.expiry = r.expiry /\ s.nft = r.nft
BY DEF VmOK, Vm

LEMMA NftFacts ==
    ASSUME NEW r, VmOK(r), NEW nft \in {"none", "minted", "recorded"},
           NEW s, s = [r EXCEPT !.nft = nft]
    PROVE  VmOK(s) /\ s.beacon = r.beacon /\ s.for = r.for /\ s.expiry = r.expiry /\ s.nft = nft
BY DEF VmOK, Vm

LEMMA ExpiryFacts ==
    ASSUME NEW r, VmOK(r), NEW n \in Int, NEW s, s = [r EXCEPT !.expiry = n]
    PROVE  VmOK(s) /\ s.beacon = r.beacon /\ s.for = r.for /\ s.expiry = n /\ s.nft = r.nft
BY DEF VmOK, Vm

LEMMA RecordFacts ==
    ASSUME NEW r, VmOK(r), NEW n \in Nat \ {0},
           NEW s, s = [r EXCEPT !.beacon = r.for, !.box = n]
    PROVE  VmOK(s) /\ s.beacon = r.for /\ s.for = r.for /\ s.expiry = r.expiry /\ s.nft = r.nft
<1>1. r \in Vm /\ r.for \in Beacons
  BY DEF VmOK, Vm
<1>2. s.beacon = r.for /\ s.box = n /\ s.for = r.for /\ s.owner = r.owner /\ s.expiry = r.expiry
      /\ s.nft = r.nft
  BY <1>1 DEF Vm
<1>3. s \in Vm
  BY <1>1 DEF Vm
<1> QED
  BY <1>2, <1>3 DEF VmOK

LEMMA InitBase == Init => Base
<1> SUFFICES ASSUME Init PROVE Base
  OBVIOUS
<1>1. Types
  BY MonitorConstants DEF Init, Types, S!InitChain, S!InitMaps
<1>2. queue = <<>> /\ Len(queue) = 0 /\ queue \in Seq(EventSet) /\ job = Idle
  BY EmptySeq DEF Init
<1>3. JobTyped /\ OneEventEach
  BY <1>2 DEF JobTyped, OneEventEach, OneEach
<1>4. VmsTyped
  BY DEF Init, VmsTyped
<1> QED
  BY <1>1, <1>2, <1>3, <1>4 DEF Init, S!InitChain, Base, LiveIsMinted

-----------------------------------------------------------------------------
(* The scan.                                                                 *)

LEMMA PendFacts ==
    ASSUME NEW r \in Pend
    PROVE  /\ [r EXCEPT !.count = @ + 1, !.age = 0] \in Pend
           /\ [r EXCEPT !.count = @ + 1, !.age = 0].sub = r.sub
<1>1. r.count + 1 \in Int
  BY DEF Pend
<1>2. \A n, m \in Int : /\ [r EXCEPT !.count = n, !.age = m] \in Pend
                        /\ [r EXCEPT !.count = n, !.age = m].sub = r.sub
  BY DEF Pend
<1>3. 0 \in Int
  OBVIOUS
<1> QED
  BY <1>1, <1>2, <1>3

(* What a scan leaves in the maps.                                           *)
LEMMA PendingFacts ==
    ASSUME Types, NEW seen, seen \subseteq S!Live, NEW b \in Beacons
    PROVE  LET p == S!PendingAfter(seen)[b]
           IN  \/ p = NotPending
               \/ /\ p \in Pend /\ b \notin seen /\ known[b] \in S!Sub
                  /\ \/ p.sub = known[b]
                     \/ pending[b] # NotPending /\ p.sub = pending[b].sub
               \/ p = pending[b] /\ b \notin seen
<1> USE MonitorConstants DEF Types
<1>1. CASE b \in seen \cup S!Confirmed(seen)
  BY <1>1 DEF S!PendingAfter
<1>2. CASE b \notin seen \cup S!Confirmed(seen) /\ b \in S!Starting(seen)
  <2>1. known[b] \in S!Sub
    BY <1>2 DEF S!Starting, S!Absent
  <2>2. S!PendingAfter(seen)[b] = [count |-> 1, age |-> 0, sub |-> known[b]]
    BY <1>2 DEF S!PendingAfter
  <2> QED
    BY <1>2, <2>1, <2>2 DEF Pend
<1>3. CASE b \notin seen \cup S!Confirmed(seen) \cup S!Starting(seen) /\ b \in S!Due(seen)
  <2>1. pending[b] \in Pend /\ pending[b] # NotPending /\ known[b] \in S!Sub
    BY <1>3 DEF S!Due, S!Absent
  <2>2. S!PendingAfter(seen)[b] = [pending[b] EXCEPT !.count = @ + 1, !.age = 0]
    BY <1>3 DEF S!PendingAfter
  <2>3. /\ [pending[b] EXCEPT !.count = @ + 1, !.age = 0] \in Pend
        /\ [pending[b] EXCEPT !.count = @ + 1, !.age = 0].sub = pending[b].sub
    BY <2>1, PendFacts
  <2> QED
    BY <1>3, <2>1, <2>2, <2>3
<1>4. CASE b \notin seen \cup S!Confirmed(seen) \cup S!Starting(seen) \cup S!Due(seen)
  BY <1>4 DEF S!PendingAfter
<1> QED
  BY <1>1, <1>2, <1>3, <1>4

LEMMA MapsTyped ==
    ASSUME Types, LiveIsMinted, NEW seen, seen \subseteq S!Live, S!UpdateMaps(seen),
           UNCHANGED <<chainVars, nextVm, faults, crashes>>
    PROVE  /\ Types'
           /\ \A b \in Beacons : \/ b \in seen /\ known'[b] = chain[b]
                                 \/ b \notin seen /\ known'[b] \in {known[b], NoSub}
<1> USE MonitorConstants DEF Types, chainVars
<1>1. /\ known' = S!KnownAfter(seen) /\ pending' = S!PendingAfter(seen)
      /\ verifyAge' = (IF S!IsVerifyTime THEN 0 ELSE verifyAge)
  BY DEF S!UpdateMaps
<1>2. \A b \in Beacons : pending'[b] = NotPending \/ pending'[b] \in Pend
  BY <1>1, PendingFacts
<1>3. DOMAIN pending' = Beacons
  BY <1>1 DEF S!PendingAfter
<1>4. \A b \in Beacons : \/ b \in seen /\ known'[b] = chain[b]
                         \/ b \notin seen /\ known'[b] \in {known[b], NoSub}
  BY <1>1 DEF S!KnownAfter
<1>5. known' \in [Beacons -> S!SubOrNone]
  BY <1>1, <1>4 DEF S!KnownAfter
<1> QED
  BY <1>1, <1>2, <1>3, <1>4, <1>5

(* The events of a scan, each about a beacon of its own.                     *)
Scanned(seen) == S!CreatedEvents(seen) \cup S!ExtendedEvents(seen) \cup S!RemovedEvents(seen)

LEMMA EventsOfScan ==
    ASSUME Types, NEW seen, seen \subseteq S!Live
    PROVE  /\ Scanned(seen) \subseteq EventSet
           /\ \A e, f \in Scanned(seen) : e.beacon = f.beacon => e = f
           /\ \A e \in S!CreatedEvents(seen) :
                  /\ e.type = "created" /\ e.beacon \in seen
                  /\ e.sub = chain[e.beacon] /\ known[e.beacon] = NoSub
           /\ \A e \in S!ExtendedEvents(seen) :
                  /\ e.type = "extended" /\ e.beacon \in seen
                  /\ e.sub = chain[e.beacon] /\ e.old = known[e.beacon]
                  /\ known[e.beacon] \in S!Sub /\ e.old.id # e.sub.id
           /\ \A e \in S!RemovedEvents(seen) :
                  /\ e.type = "removed" /\ e.beacon \in Beacons \ seen
                  /\ known[e.beacon] \in S!Sub
                  /\ pending[e.beacon] \in Pend /\ e.sub = pending[e.beacon].sub
                  /\ pending[e.beacon] # NotPending /\ e.beacon \in S!Confirmed(seen)
<1> USE MonitorConstants
<1>1. seen \subseteq Beacons /\ \A b \in seen : chain[b] \in S!Sub
  BY DEF S!Live, Types
<1>2. \A e \in S!CreatedEvents(seen) :
          /\ e = S!Event("created", e.beacon, chain[e.beacon], NoSub)
          /\ e.type = "created" /\ e.beacon \in seen
          /\ e.sub = chain[e.beacon] /\ known[e.beacon] = NoSub
  BY DEF S!CreatedEvents, S!Event
<1>3. \A e \in S!ExtendedEvents(seen) :
          /\ e = S!Event("extended", e.beacon, chain[e.beacon], known[e.beacon])
          /\ e.type = "extended" /\ e.beacon \in seen
          /\ e.sub = chain[e.beacon] /\ e.old = known[e.beacon]
          /\ known[e.beacon] \in S!Sub /\ e.old.id # e.sub.id
  BY <1>1 DEF S!ExtendedEvents, S!Event, Types
<1>4. \A b \in S!Confirmed(seen) :
          /\ b \in Beacons \ seen /\ known[b] \in S!Sub
          /\ pending[b] \in Pend /\ pending[b] # NotPending
  BY DEF S!Confirmed, S!Due, S!Absent, Types
<1>5. \A e \in S!RemovedEvents(seen) :
          /\ e = S!Event("removed", e.beacon, pending[e.beacon].sub, NoSub)
          /\ e.type = "removed" /\ e.beacon \in Beacons \ seen
          /\ known[e.beacon] \in S!Sub
          /\ pending[e.beacon] \in Pend /\ e.sub = pending[e.beacon].sub
          /\ pending[e.beacon] # NotPending /\ e.beacon \in S!Confirmed(seen)
  BY <1>4 DEF S!RemovedEvents, S!Event
<1>6. S!CreatedEvents(seen) \subseteq EventSet
  BY <1>1, <1>2 DEF S!Event, EventSet
<1>7. S!ExtendedEvents(seen) \subseteq EventSet
  BY <1>1, <1>3 DEF S!Event, EventSet
<1>8. S!RemovedEvents(seen) \subseteq EventSet
  BY <1>1, <1>5 DEF S!Event, EventSet, Pend
<1>9. \A e, f \in Scanned(seen) : e.beacon = f.beacon => e = f
  <2> SUFFICES ASSUME NEW e \in Scanned(seen), NEW f \in Scanned(seen), e.beacon = f.beacon
               PROVE  e = f
    OBVIOUS
  <2>1. \A g \in Scanned(seen) :
            \/ g.beacon \in seen /\ known[g.beacon] = NoSub
               /\ g = S!Event("created", g.beacon, chain[g.beacon], NoSub)
            \/ g.beacon \in seen /\ known[g.beacon] # NoSub
               /\ g = S!Event("extended", g.beacon, chain[g.beacon], known[g.beacon])
            \/ g.beacon \notin seen
               /\ g = S!Event("removed", g.beacon, pending[g.beacon].sub, NoSub)
    BY <1>2, <1>3, <1>5, SubIsSome DEF Scanned
  <2>2. \/ e = S!Event("created", e.beacon, chain[e.beacon], NoSub)
           /\ f = S!Event("created", e.beacon, chain[e.beacon], NoSub)
        \/ e = S!Event("extended", e.beacon, chain[e.beacon], known[e.beacon])
           /\ f = S!Event("extended", e.beacon, chain[e.beacon], known[e.beacon])
        \/ e = S!Event("removed", e.beacon, pending[e.beacon].sub, NoSub)
           /\ f = S!Event("removed", e.beacon, pending[e.beacon].sub, NoSub)
    BY <2>1, Zenon
  <2> QED
    BY <2>2
<1> QED
  BY <1>2, <1>3, <1>5, <1>6, <1>7, <1>8, <1>9 DEF Scanned

(* A sequence that SetToSeqs makes of a set of events has all of them, each  *)
(* once.                                                                     *)
LEMMA SeqOfSet ==
    ASSUME NEW E \in SUBSET EventSet, \A e, f \in E : e.beacon = f.beacon => e = f,
           NEW c \in SetToSeqs(E)
    PROVE  c \in Seq(EventSet) /\ Elems(c) = E /\ OneEach(c)
<1> DEFINE n == Cardinality(E)
           g == [e \in E |-> e.beacon]
<1>1. IsFiniteSet(E)
  <2>1. \A e \in E : e.beacon \in Beacons
    BY EventFields
  <2>2. g \in Injection(E, Beacons)
    BY <2>1 DEF Injection, IsInjective
  <2> QED
    BY <2>2, FS_Injection, MonitorConstants
<1>2. n \in Nat
  BY <1>1, FS_CardinalityType
<1>3. c \in [1..n -> E] /\ \A i, j \in 1..n : i # j => c[i] # c[j]
  BY DEF SetToSeqs
<1> HIDE DEF n
<1>4. Len(c) = n /\ c \in Seq(E) /\ DOMAIN c = 1..n
  BY <1>2, <1>3, SeqDef, LenProperties
<1>5. c \in Surjection(1..n, E)
  <2>1. c \in Injection(1..n, E)
    BY <1>3 DEF Injection, IsInjective
  <2>2. IsFiniteSet(1..n) /\ Cardinality(1..n) = n
    BY <1>2, FS_Interval
  <2>3. Cardinality(1..n) = Cardinality(E)
    BY <2>2 DEF n
  <2> QED
    BY <1>1, <2>1, <2>3, FS_Injection
<1>6. Elems(c) = E
  BY <1>3, <1>4, <1>5 DEF Elems, Surjection
<1>7. OneEach(c)
  BY <1>3, <1>4 DEF OneEach
<1>8. c \in Seq(EventSet)
  BY <1>4, SeqMonotonic
<1> QED
  BY <1>6, <1>7, <1>8

LEMMA Joined ==
    ASSUME NEW p \in Seq(EventSet), NEW q \in Seq(EventSet), OneEach(p), OneEach(q),
           \A e \in Elems(p), f \in Elems(q) : e.beacon # f.beacon
    PROVE  p \o q \in Seq(EventSet) /\ Elems(p \o q) = Elems(p) \cup Elems(q) /\ OneEach(p \o q)
<1> DEFINE s == p \o q
<1>1. /\ s \in Seq(EventSet) /\ Len(s) = Len(p) + Len(q)
      /\ \A i \in 1..Len(p) + Len(q) : s[i] = IF i <= Len(p) THEN p[i] ELSE q[i - Len(p)]
      /\ Len(p) \in Nat /\ Len(q) \in Nat
  BY ConcatProperties, LenProperties
<1> HIDE DEF s
<1>2. \A i \in 1..Len(p) : i \in 1..Len(s) /\ s[i] = p[i]
  BY <1>1
<1>3. \A j \in 1..Len(q) : j + Len(p) \in 1..Len(s) /\ s[j + Len(p)] = q[j]
  BY <1>1, SMTT(30)
<1>4. \A i \in 1..Len(s) : \/ i \in 1..Len(p) /\ s[i] = p[i]
                           \/ /\ i - Len(p) \in 1..Len(q) /\ s[i] = q[i - Len(p)]
                              /\ i \in Int
  BY <1>1, SMTT(30)
<1>5. Elems(s) = Elems(p) \cup Elems(q)
  <2>1. ASSUME NEW e \in Elems(s) PROVE e \in Elems(p) \cup Elems(q)
    <3>1. PICK i \in 1..Len(s) : e = s[i]
      BY <2>1 DEF Elems
    <3> QED
      BY <1>4, <3>1 DEF Elems
  <2>2. Elems(p) \subseteq Elems(s)
    BY <1>2 DEF Elems
  <2>3. ASSUME NEW e \in Elems(q) PROVE e \in Elems(s)
    <3>1. PICK j \in 1..Len(q) : e = q[j]
      BY <2>3 DEF Elems
    <3>2. j + Len(p) \in 1..Len(s) /\ s[j + Len(p)] = e
      BY <1>3, <3>1
    <3> QED
      BY <3>2 DEF Elems
  <2> QED
    BY <2>1, <2>2, <2>3
<1>6. ASSUME NEW i \in 1..Len(s), NEW j \in 1..Len(s), s[i].beacon = s[j].beacon PROVE i = j
  <2>1. CASE i \in 1..Len(p) /\ j \in 1..Len(p)
    BY <1>2, <1>6, <2>1 DEF OneEach
  <2>2. CASE i - Len(p) \in 1..Len(q) /\ j - Len(p) \in 1..Len(q)
    <3>1. s[i] = q[i - Len(p)] /\ s[j] = q[j - Len(p)]
      BY <1>1, <2>2
    <3>2. i - Len(p) = j - Len(p)
      BY <1>6, <2>2, <3>1 DEF OneEach
    <3> QED
      BY <1>1, <3>2
  <2>3. CASE (i \in 1..Len(p) /\ j - Len(p) \in 1..Len(q) /\ s[j] = q[j - Len(p)])
             \/ (j \in 1..Len(p) /\ i - Len(p) \in 1..Len(q) /\ s[i] = q[i - Len(p)])
    BY <1>2, <1>6, <2>3 DEF Elems
  <2> QED
    BY <1>4, <2>1, <2>2, <2>3
<1> QED
  BY <1>1, <1>5, <1>6 DEF s, OneEach

(* What a poll does to the queue and the maps.                               *)
LEMMA PollFacts ==
    ASSUME Base, Poll
    PROVE  \E seen \in SUBSET S!Live :
              /\ MayMiss = FALSE => seen = S!Live
              /\ S!UpdateMaps(seen)
              /\ queue' \in Seq(EventSet) /\ Queued' = Scanned(seen) /\ OneEach(queue')
<1> USE DEF Base
<1>1. PICK seen \in S!Answers :
        /\ S!UpdateMaps(seen)
        /\ \E c \in SetToSeqs(S!CreatedEvents(seen)),
              x \in SetToSeqs(S!ExtendedEvents(seen)),
              r \in SetToSeqs(S!RemovedEvents(seen)) : queue' = c \o x \o r
  BY DEF Poll
<1>2. seen \subseteq S!Live /\ (MayMiss = FALSE => seen = S!Live)
  BY DEF S!Answers
<1>3. PICK c \in SetToSeqs(S!CreatedEvents(seen)), x \in SetToSeqs(S!ExtendedEvents(seen)),
           r \in SetToSeqs(S!RemovedEvents(seen)) : queue' = c \o x \o r
  BY <1>1
<1> DEFINE C == S!CreatedEvents(seen)
           X == S!ExtendedEvents(seen)
           R == S!RemovedEvents(seen)
<1>4. /\ \A e \in C : e.beacon \in seen /\ known[e.beacon] = NoSub
      /\ \A e \in X : e.beacon \in seen /\ known[e.beacon] # NoSub
      /\ \A e \in R : e.beacon \notin seen
  BY <1>2, EventsOfScan, SubIsSome
<1>5. /\ C \subseteq EventSet /\ X \subseteq EventSet /\ R \subseteq EventSet
      /\ \A e, f \in C : e.beacon = f.beacon => e = f
      /\ \A e, f \in X : e.beacon = f.beacon => e = f
      /\ \A e, f \in R : e.beacon = f.beacon => e = f
  BY <1>2, EventsOfScan DEF Scanned
<1> HIDE DEF C, X, R
<1>6. /\ c \in Seq(EventSet) /\ Elems(c) = C /\ OneEach(c)
      /\ x \in Seq(EventSet) /\ Elems(x) = X /\ OneEach(x)
      /\ r \in Seq(EventSet) /\ Elems(r) = R /\ OneEach(r)
  BY <1>3, <1>5, SeqOfSet DEF C, X, R
<1>7. /\ c \o x \in Seq(EventSet) /\ Elems(c \o x) = C \cup X /\ OneEach(c \o x)
  BY <1>4, <1>6, Joined
<1>8. /\ (c \o x) \o r \in Seq(EventSet) /\ Elems((c \o x) \o r) = C \cup X \cup R
      /\ OneEach((c \o x) \o r)
  <2>1. \A e \in Elems(c \o x), f \in Elems(r) : e.beacon # f.beacon
    BY <1>4, <1>6, <1>7
  <2> QED
    BY <1>6, <1>7, <2>1, Joined
<1>9. Queued' = Scanned(seen)
  BY <1>3, <1>8 DEF Queued, Elems, Scanned, C, X, R
<1> QED
  BY <1>1, <1>2, <1>3, <1>8, <1>9

-----------------------------------------------------------------------------
(* What each handler's step does, in terms of Base.                          *)

GoesTo(step, v) ==
    job' # Idle /\ job' \in JobSet /\ job'.event = job.event /\ job'.step = step /\ job'.vm = v

(* VM v is now r, and nothing else has changed in the database.              *)
Becomes(v, r) ==
    /\ VmsTyped' /\ vms'[v] = r /\ \A u \in VmIds : u # v => vms'[u] = vms[u]
    /\ Running' = IF r = NoVm THEN Running \ {v} ELSE Running \cup {v}

Same(r, s) == s.for = r.for /\ s.beacon = r.beacon /\ s.expiry = r.expiry

Failing == faults' = faults + 1

LEMMA AtJob ==
    ASSUME Base, NEW step, At(step)
    PROVE  /\ job # Idle /\ job \in JobSet /\ job.step = step /\ job.vm \in Nat
           /\ job.event \in EventSet /\ job.event.beacon \in Beacons /\ job.event.sub \in S!Sub
           /\ step = "create" => job.vm \in VmIds
           /\ step \in WithVm => job.vm \in Running
           /\ step \in Providing =>
                  vms[job.vm].for = job.event.beacon /\ job.event.type = "created"
BY JobFields, EventFields DEF At, Base, JobTyped

LEMMA Goes ==
    ASSUME job # Idle, job \in JobSet, NEW step \in Steps, NEW v \in Nat, Goto(step, v),
           step \in StepsOf(job.event.type)
    PROVE  GoesTo(step, v)
<1>1. job' = [event |-> job.event, step |-> step, vm |-> v]
  BY DEF Goto, JobSet
<1>2. job' \in JobSet
  BY <1>1, JobFields DEF JobSet
<1>3. job' # Idle
  BY <1>1, <1>2, IdleIsNoJob
<1> QED
  BY <1>1, <1>2, <1>3 DEF GoesTo

LEMMA AllocateFacts ==
    ASSUME Base, Allocate
    PROVE  /\ job.step = "allocate" /\ vms' = vms
           /\ nextVm \in VmIds /\ nextVm' = nextVm + 1
           /\ (job' = Idle /\ Failing) \/ (GoesTo("create", nextVm) /\ UNCHANGED faults)
<1>1. job # Idle /\ job \in JobSet /\ job.step = "allocate"
  BY AtJob DEF Allocate
<1>2. "create" \in StepsOf(job.event.type)
  BY <1>1, JobFields DEF StepsOf
<1>3. nextVm \in Nat /\ nextVm \in VmIds /\ "create" \in Steps
  BY VmIdsAreNat DEF Allocate, Steps
<1>4. Goto("create", nextVm) => GoesTo("create", nextVm)
  BY <1>1, <1>2, <1>3, Goes
<1> QED
  BY <1>1, <1>3, <1>4 DEF Allocate, Return, Succeeds, Fails, Failing

LEMMA CreateFacts ==
    ASSUME Base, CreateVm
    PROVE  /\ job.step = "create" /\ job.vm \in VmIds /\ UNCHANGED nextVm
           /\ \/ job' = Idle /\ vms' = vms /\ Failing
              \/ /\ GoesTo("record", job.vm) /\ UNCHANGED faults
                 /\ \E r : /\ VmOK(r) /\ Becomes(job.vm, r)
                           /\ r.for = job.event.beacon /\ r.beacon = NoBeacon
                           /\ r.expiry = job.event.sub.expiry
<1>1. /\ job # Idle /\ job \in JobSet /\ job.step = "create" /\ job.vm \in VmIds /\ job.vm \in Nat
      /\ job.event.beacon \in Beacons /\ job.event.sub \in S!Sub
  BY AtJob DEF CreateVm
<1> DEFINE r == [owner |-> OwnerOf[job.event.beacon], beacon |-> NoBeacon, box |-> 0,
                 expiry |-> job.event.sub.expiry, status |-> "active",
                 nft |-> "none", for |-> job.event.beacon]
<1>2. CASE job' = Idle /\ vms' = vms /\ Failing
  BY <1>1, <1>2 DEF CreateVm
<1>3. CASE Goto("record", job.vm) /\ UNCHANGED faults /\ vms' = [vms EXCEPT ![job.vm] = r]
  <2>1. VmOK(r)
    <3>1. job.event.sub.expiry \in Int
      BY <1>1 DEF S!Sub
    <3>2. r \in Vm
      BY <1>1, <3>1 DEF Vm
    <3> QED
      BY <3>2 DEF VmOK
  <2>2. r.for = job.event.beacon /\ r.beacon = NoBeacon /\ r.expiry = job.event.sub.expiry
    OBVIOUS
  <2>3. GoesTo("record", job.vm)
    <3>1. "record" \in StepsOf(job.event.type) /\ "record" \in Steps
      BY <1>1, JobFields DEF StepsOf, Steps, Providing
    <3> QED
      BY <1>1, <1>3, <3>1, Goes
  <2> HIDE DEF r
  <2>4. Becomes(job.vm, r)
    BY <1>1, <1>3, <2>1, OneVm, VmIsSome DEF Base, Becomes
  <2> QED
    BY <1>1, <1>3, <2>1, <2>2, <2>3, <2>4 DEF CreateVm
<1> QED
  BY <1>2, <1>3 DEF CreateVm, Return, Succeeds, Fails, Failing

LEMMA RecordOutcome ==
    ASSUME Base, RecordBeacon
    PROVE  /\ job.step = "record" /\ job.vm \in Running /\ UNCHANGED nextVm
           /\ GoesTo("mint", job.vm)
           /\ \/ vms' = vms /\ Failing
              \/ /\ UNCHANGED faults
                 /\ \E r : /\ VmOK(r) /\ Becomes(job.vm, r)
                           /\ r.for = vms[job.vm].for /\ r.beacon = vms[job.vm].for
                           /\ r.expiry = vms[job.vm].expiry
<1>1. /\ job # Idle /\ job \in JobSet /\ job.step = "record" /\ job.vm \in Running
      /\ job.vm \in Nat /\ job.event.sub \in S!Sub
      /\ vms[job.vm].for = job.event.beacon
  BY AtJob DEF RecordBeacon, WithVm, Providing
<1>2. job.vm \in VmIds /\ VmOK(vms[job.vm])
  BY <1>1, RunningVm DEF Base
<1>3. GoesTo("mint", job.vm)
  <2>1. "mint" \in StepsOf(job.event.type) /\ "mint" \in Steps
    BY <1>1, JobFields DEF StepsOf, Steps, Providing
  <2> QED
    BY <1>1, <2>1, Goes DEF RecordBeacon
<1>4. CASE UNCHANGED faults /\ vms' = [vms EXCEPT ![job.vm].beacon = job.event.beacon,
                                                  ![job.vm].box = job.event.sub.id]
  <2> DEFINE n == job.event.sub.id
             r == [vms[job.vm] EXCEPT !.beacon = vms[job.vm].for, !.box = n]
  <2>1. n \in Nat \ {0}
    BY <1>1 DEF S!Sub
  <2>2. vms' = [vms EXCEPT ![job.vm] = r]
    BY <1>1, <1>2, <1>4 DEF Base, VmsTyped
  <2> HIDE DEF n
  <2>3. /\ VmOK(r) /\ r.beacon = vms[job.vm].for /\ r.for = vms[job.vm].for
        /\ r.expiry = vms[job.vm].expiry
    <3> DEFINE old == vms[job.vm]
    <3>1. VmOK(old) /\ r = [old EXCEPT !.beacon = old.for, !.box = n]
      BY <1>2
    <3> HIDE DEF old, r
    <3>2. VmOK(r) /\ r.beacon = old.for /\ r.for = old.for /\ r.expiry = old.expiry
      BY <2>1, <3>1, RecordFacts
    <3> QED
      BY <3>2 DEF old
  <2> HIDE DEF r
  <2>4. Becomes(job.vm, r)
    BY <1>2, <2>2, <2>3, OneVm, VmIsSome DEF Base, Becomes
  <2> QED
    BY <1>1, <1>3, <1>4, <2>3, <2>4 DEF RecordBeacon
<1> QED
  BY <1>1, <1>3, <1>4 DEF RecordBeacon, Succeeds, Fails, Failing

LEMMA MintOutcome ==
    ASSUME Base, MintNft
    PROVE  /\ job.step = "mint" /\ job.vm \in Running /\ UNCHANGED nextVm
           /\ \/ job' = Idle /\ vms' = vms /\ Failing
              \/ /\ (job' = Idle /\ Failing) \/ (GoesTo("mark", job.vm) /\ UNCHANGED faults)
                 /\ \E r : VmOK(r) /\ Becomes(job.vm, r) /\ Same(vms[job.vm], r)
<1>1. /\ job # Idle /\ job \in JobSet /\ job.step = "mint" /\ job.vm \in Running
      /\ job.vm \in Nat
  BY AtJob DEF MintNft, WithVm, Providing
<1>2. job.vm \in VmIds /\ VmOK(vms[job.vm])
  BY <1>1, RunningVm DEF Base
<1>3. Goto("mark", job.vm) => GoesTo("mark", job.vm)
  <2>1. "mark" \in StepsOf(job.event.type) /\ "mark" \in Steps
    BY <1>1, JobFields DEF StepsOf, Steps, Providing
  <2> QED
    BY <1>1, <2>1, Goes
<1> DEFINE r == [vms[job.vm] EXCEPT !.nft = "minted"]
<1>4. VmOK(r) /\ Same(vms[job.vm], r)
  BY <1>2, NftFacts DEF Same
<1>5. vms' = [vms EXCEPT ![job.vm].nft = "minted"] => vms' = [vms EXCEPT ![job.vm] = r]
  OBVIOUS
<1> HIDE DEF r
<1>6. vms' = [vms EXCEPT ![job.vm] = r] => Becomes(job.vm, r)
  BY <1>2, <1>4, OneVm, VmIsSome DEF Base, Becomes
<1>7. /\ UNCHANGED nextVm
      /\ \/ job' = Idle /\ vms' = vms /\ Failing
         \/ /\ (job' = Idle /\ Failing) \/ (Goto("mark", job.vm) /\ UNCHANGED faults)
            /\ vms' = [vms EXCEPT ![job.vm].nft = "minted"]
  <2> DEFINE new == [vms EXCEPT ![job.vm].nft = "minted"]
  <2>1. MintNft => /\ \/ Succeeds /\ vms' = new /\ Goto("mark", job.vm)
                      \/ Fails /\ Return /\ vms' \in {vms, new}
                   /\ UNCHANGED nextVm
    BY DEF MintNft
  <2> HIDE DEF new
  <2>2. /\ UNCHANGED nextVm
        /\ \/ job' = Idle /\ vms' = vms /\ Failing
           \/ /\ (job' = Idle /\ Failing) \/ (Goto("mark", job.vm) /\ UNCHANGED faults)
              /\ vms' = new
    BY <2>1 DEF Return, Succeeds, Fails, Failing
  <2> QED
    BY <2>2 DEF new
<1> QED
  BY <1>1, <1>3, <1>4, <1>5, <1>6, <1>7

LEMMA MarkOutcome ==
    ASSUME Base, MarkMinted
    PROVE  /\ job.step = "mark" /\ job.vm \in Running /\ UNCHANGED nextVm /\ job' = Idle
           /\ \/ vms' = vms /\ Failing
              \/ /\ UNCHANGED faults
                 /\ \E r : /\ VmOK(r) /\ Becomes(job.vm, r) /\ Same(vms[job.vm], r)
                           /\ r.nft = "recorded"
<1>1. job.step = "mark" /\ job.vm \in Running
  BY AtJob DEF MarkMinted, WithVm, Providing
<1>2. job.vm \in VmIds /\ VmOK(vms[job.vm])
  BY <1>1, RunningVm DEF Base
<1> DEFINE r == [vms[job.vm] EXCEPT !.nft = "recorded"]
<1>3. VmOK(r) /\ Same(vms[job.vm], r) /\ r.nft = "recorded"
  BY <1>2, NftFacts DEF Same
<1>4. vms' = [vms EXCEPT ![job.vm].nft = "recorded"] => vms' = [vms EXCEPT ![job.vm] = r]
  OBVIOUS
<1> HIDE DEF r
<1>5. vms' = [vms EXCEPT ![job.vm] = r] => Becomes(job.vm, r)
  BY <1>2, <1>3, OneVm, VmIsSome DEF Base, Becomes
<1> QED
  BY <1>1, <1>3, <1>4, <1>5 DEF MarkMinted, Return, Succeeds, Fails, Failing

LEMMA ExtendOutcome ==
    ASSUME Base, ExtendVm
    PROVE  /\ job.step = "extend" /\ UNCHANGED nextVm
           /\ \/ /\ job' = Idle /\ vms' = vms
                 /\ \/ Failing
                    \/ IsPlaceholder(job.event.old) \/ Lookup(job.event.beacon) = {}
              \/ /\ ~IsPlaceholder(job.event.old) /\ UNCHANGED faults
                 /\ \E v \in Lookup(job.event.beacon) :
                       /\ job' = Idle \/ GoesTo("resume", v)
                       /\ \E r : /\ VmOK(r) /\ Becomes(v, r)
                                 /\ r.for = vms[v].for /\ r.beacon = vms[v].beacon
                                 /\ r.nft = vms[v].nft
                                 /\ r.expiry = vms[v].expiry
                                        + AdditionalDays(job.event.old, job.event.sub)
<1>1. /\ job # Idle /\ job \in JobSet /\ job.step = "extend" /\ UNCHANGED nextVm
      /\ job.event \in EventSet /\ job.event.type = "extended"
      /\ job.event.sub \in S!Sub /\ job.event.old \in S!Sub
  BY AtJob, JobFields, EventFields DEF ExtendVm
<1>2. AdditionalDays(job.event.old, job.event.sub) \in Int
  BY <1>1 DEF AdditionalDays, S!Sub
<1>3. ASSUME NEW v \in Lookup(job.event.beacon), Goto("resume", v) \/ Return,
             vms' = [vms EXCEPT ![v].expiry =
                        @ + AdditionalDays(job.event.old, job.event.sub)]
      PROVE  /\ job' = Idle \/ GoesTo("resume", v)
             /\ \E r : /\ VmOK(r) /\ Becomes(v, r)
                       /\ r.for = vms[v].for /\ r.beacon = vms[v].beacon
                       /\ r.nft = vms[v].nft
                       /\ r.expiry = vms[v].expiry + AdditionalDays(job.event.old, job.event.sub)
  <2>1. v \in Running
    BY DEF Lookup
  <2>2. v \in VmIds /\ v \in Nat /\ VmOK(vms[v]) /\ vms[v].expiry \in Int
    BY <2>1, RunningVm, VmIsSome DEF Base
  <2>3. job' = Idle \/ GoesTo("resume", v)
    <3>1. "resume" \in StepsOf(job.event.type) /\ "resume" \in Steps
      BY <1>1 DEF StepsOf, Steps
    <3> QED
      BY <1>1, <1>3, <2>2, <3>1, Goes DEF Return
  <2> DEFINE n == vms[v].expiry + AdditionalDays(job.event.old, job.event.sub)
             r == [vms[v] EXCEPT !.expiry = n]
  <2>4. n \in Int
    BY <1>2, <2>2
  <2>5. vms' = [vms EXCEPT ![v] = r]
    BY <1>3
  <2>6. /\ VmOK(r) /\ r.expiry = n /\ r.for = vms[v].for /\ r.beacon = vms[v].beacon
        /\ r.nft = vms[v].nft
    <3> HIDE DEF n
    <3> QED
      BY <2>2, <2>4, ExpiryFacts
  <2> HIDE DEF r
  <2>7. Becomes(v, r)
    BY <2>2, <2>5, <2>6, OneVm, VmIsSome DEF Base, Becomes
  <2> QED
    BY <2>3, <2>6, <2>7
<1>4. CASE Return /\ UNCHANGED vms /\ (Failing \/ IsPlaceholder(job.event.old)
                                               \/ Lookup(job.event.beacon) = {})
  BY <1>1, <1>4 DEF Return
<1>5. CASE /\ ~IsPlaceholder(job.event.old) /\ UNCHANGED faults
           /\ \E v \in Lookup(job.event.beacon) :
                /\ vms' = [vms EXCEPT ![v].expiry =
                              @ + AdditionalDays(job.event.old, job.event.sub)]
                /\ Goto("resume", v) \/ Return
  <2>1. PICK v \in Lookup(job.event.beacon) :
                /\ vms' = [vms EXCEPT ![v].expiry =
                              @ + AdditionalDays(job.event.old, job.event.sub)]
                /\ Goto("resume", v) \/ Return
    BY <1>5
  <2> QED
    BY <1>1, <1>3, <1>5, <2>1
<1> QED
  BY <1>4, <1>5 DEF ExtendVm, Succeeds, Fails, Failing

LEMMA ResumeOutcome ==
    ASSUME Base, ResumeVm
    PROVE  /\ job.step = "resume" /\ job.vm \in Running /\ UNCHANGED nextVm /\ job' = Idle
           /\ \/ vms' = vms
              \/ \E r : /\ VmOK(r) /\ Becomes(job.vm, r) /\ Same(vms[job.vm], r)
                        /\ r.nft = vms[job.vm].nft
<1>1. job.step = "resume" /\ job.vm \in Running
  BY AtJob DEF ResumeVm, WithVm
<1>2. job.vm \in VmIds /\ VmOK(vms[job.vm])
  BY <1>1, RunningVm DEF Base
<1> DEFINE r == [vms[job.vm] EXCEPT !.status = "active"]
<1>3. VmOK(r) /\ Same(vms[job.vm], r) /\ r.nft = vms[job.vm].nft
  BY <1>2, StatusFacts DEF Same
<1>4. vms' = [vms EXCEPT ![job.vm].status = "active"] => vms' = [vms EXCEPT ![job.vm] = r]
  OBVIOUS
<1> HIDE DEF r
<1>5. vms' = [vms EXCEPT ![job.vm] = r] => Becomes(job.vm, r)
  BY <1>2, <1>3, OneVm, VmIsSome DEF Base, Becomes
<1> QED
  BY <1>1, <1>3, <1>4, <1>5 DEF ResumeVm, Return

LEMMA DestroyOutcome ==
    ASSUME Base, DestroyVm
    PROVE  /\ job.step = "destroy" /\ UNCHANGED nextVm /\ job' = Idle
           /\ \/ /\ vms' = vms
                 /\ \/ Failing
                    \/ IsPlaceholder(job.event.sub) \/ Lookup(job.event.beacon) = {}
              \/ \E v \in Lookup(job.event.beacon) : Becomes(v, NoVm)
<1>1. job.step = "destroy"
  BY AtJob DEF DestroyVm
<1>2. ASSUME NEW v \in Lookup(job.event.beacon), vms' = [vms EXCEPT ![v] = NoVm]
      PROVE  Becomes(v, NoVm)
  <2>1. v \in VmIds
    BY DEF Lookup, Running
  <2> QED
    BY <1>2, <2>1, OneVm DEF Base, Becomes
<1> QED
  BY <1>1, <1>2 DEF DestroyVm, Return, Fails, Failing

-----------------------------------------------------------------------------
(* Base is kept by every step.                                               *)

Others == <<chain, minted, known, pending, verifyAge, queue, crashes>>

LEMMA HandlerKeeps ==
    ASSUME Base, Handler
    PROVE  UNCHANGED Others /\ job # Idle /\ job \in JobSet /\ faults' \in Nat
<1>1. UNCHANGED Others /\ (Succeeds \/ Fails)
  BY DEF Handler, Allocate, CreateVm, RecordBeacon, MintNft, MarkMinted, ExtendVm, ResumeVm,
         DestroyVm, handlerUnchanged, chainVars, scannerVars, Others
<1>2. job # Idle /\ job \in JobSet
  BY DEF Handler, Allocate, CreateVm, RecordBeacon, MintNft, MarkMinted, ExtendVm, ResumeVm,
         DestroyVm, At, Base, JobTyped
<1> QED
  BY <1>1, <1>2 DEF Succeeds, Fails, Base, Types

LEMMA BaseKept ==
    ASSUME Base, UNCHANGED Others, VmsTyped', nextVm' \in Nat, faults' \in Nat,
           \/ job' = Idle
           \/ /\ job # Idle /\ job' \in JobSet /\ job'.event = job.event
              /\ job'.step = "create" => job'.vm \in VmIds
              /\ job'.step \in WithVm => job'.vm \in Running'
              /\ job'.step \in Providing => vms'[job'.vm].for = job.event.beacon
    PROVE  Base'
<1>1. Types' /\ LiveIsMinted'
  BY DEF Base, Types, LiveIsMinted, Others
<1>2. JobTyped' /\ queue' \in Seq(EventSet) /\ Queued' = Queued
  BY DEF Base, JobTyped, Others, Queued, Elems
<1>3. OneEventEach'
  BY <1>2 DEF Base, OneEventEach, OneEach, Others
<1> QED
  BY <1>1, <1>2, <1>3 DEF Base

LEMMA HandlerBase == ASSUME Base, Handler PROVE Base'
<1>1. UNCHANGED Others /\ job # Idle /\ job \in JobSet /\ faults' \in Nat /\ nextVm \in Nat
  BY HandlerKeeps DEF Base, Types
<1>2. vms' = vms => VmsTyped' /\ Running' = Running
  BY DEF Base, VmsTyped, Running
<1>3. ASSUME NEW v \in Running, NEW r, VmOK(r), Becomes(v, r)
      PROVE  VmsTyped' /\ Running' = Running
  BY <1>3, VmIsSome DEF Becomes
<1>4. CASE Allocate
  BY <1>1, <1>2, <1>4, AllocateFacts, BaseKept DEF GoesTo, WithVm, Providing
<1>5. CASE CreateVm
  <2>1. CASE job' = Idle /\ vms' = vms
    BY <1>1, <1>2, <1>5, <2>1, CreateFacts, BaseKept
  <2>2. ASSUME GoesTo("record", job.vm), NEW r, VmOK(r), Becomes(job.vm, r),
               r.for = job.event.beacon
        PROVE  Base'
    <3>1. VmsTyped' /\ job.vm \in Running' /\ vms'[job.vm] = r
      BY <2>2, VmIsSome DEF Becomes
    <3> QED
      BY <1>1, <1>5, <2>2, <3>1, CreateFacts, BaseKept DEF GoesTo
  <2> QED
    BY <1>5, <2>1, <2>2, CreateFacts
<1>6. CASE RecordBeacon
  <2>1. /\ GoesTo("mint", job.vm) /\ job.vm \in Running /\ UNCHANGED nextVm
        /\ vms[job.vm].for = job.event.beacon
    BY <1>6, RecordOutcome, AtJob DEF RecordBeacon, Providing
  <2>2. VmsTyped' /\ Running' = Running /\ vms'[job.vm].for = job.event.beacon
    <3>1. CASE vms' = vms
      BY <1>2, <2>1, <3>1
    <3>2. ASSUME NEW r, VmOK(r), Becomes(job.vm, r), r.for = vms[job.vm].for
          PROVE  VmsTyped' /\ Running' = Running /\ vms'[job.vm].for = job.event.beacon
      BY <1>3, <2>1, <3>2 DEF Becomes
    <3> QED
      BY <1>6, <3>1, <3>2, RecordOutcome
  <2> QED
    BY <1>1, <2>1, <2>2, BaseKept DEF GoesTo
<1>7. CASE MintNft
  <2>1. job.vm \in Running /\ UNCHANGED nextVm /\ vms[job.vm].for = job.event.beacon
    BY <1>7, MintOutcome, AtJob DEF MintNft, Providing
  <2>2. VmsTyped' /\ Running' = Running /\ vms'[job.vm].for = job.event.beacon
    <3>1. CASE vms' = vms
      BY <1>2, <2>1, <3>1
    <3>2. ASSUME NEW r, VmOK(r), Becomes(job.vm, r), Same(vms[job.vm], r)
          PROVE  VmsTyped' /\ Running' = Running /\ vms'[job.vm].for = job.event.beacon
      BY <1>3, <2>1, <3>2 DEF Becomes, Same
    <3> QED
      BY <1>7, <3>1, <3>2, MintOutcome
  <2>3. job' = Idle \/ GoesTo("mark", job.vm)
    BY <1>7, MintOutcome
  <2> QED
    BY <1>1, <2>1, <2>2, <2>3, BaseKept DEF GoesTo
<1>8. CASE MarkMinted
  <2>1. VmsTyped'
    BY <1>2, <1>3, <1>8, MarkOutcome
  <2> QED
    BY <1>1, <1>8, <2>1, MarkOutcome, BaseKept
<1>9. CASE ExtendVm
  <2>1. CASE job' = Idle /\ vms' = vms
    BY <1>1, <1>2, <1>9, <2>1, ExtendOutcome, BaseKept
  <2>2. ASSUME NEW v \in Lookup(job.event.beacon), job' = Idle \/ GoesTo("resume", v),
               NEW r, VmOK(r), Becomes(v, r)
        PROVE  Base'
    <3>1. v \in Running
      BY DEF Lookup
    <3>2. VmsTyped' /\ Running' = Running
      BY <1>3, <2>2, <3>1
    <3> QED
      BY <1>1, <1>9, <2>2, <3>1, <3>2, ExtendOutcome, BaseKept DEF GoesTo, Providing
  <2> QED
    BY <1>9, <2>1, <2>2, ExtendOutcome
<1>10. CASE ResumeVm
  <2>1. VmsTyped'
    BY <1>2, <1>3, <1>10, ResumeOutcome
  <2> QED
    BY <1>1, <1>10, <2>1, ResumeOutcome, BaseKept
<1>11. CASE DestroyVm
  <2>1. VmsTyped'
    BY <1>2, <1>11, DestroyOutcome DEF Becomes
  <2> QED
    BY <1>1, <1>11, <2>1, DestroyOutcome, BaseKept
<1> QED
  BY <1>4, <1>5, <1>6, <1>7, <1>8, <1>9, <1>10, <1>11 DEF Handler

(* The head of the queue becomes the job; the same events wait.              *)
LEMMA DequeueFacts ==
    ASSUME Base, Dequeue
    PROVE  /\ UNCHANGED <<chain, minted, known, pending, verifyAge, vms, nextVm, faults, crashes>>
           /\ job = Idle /\ job' # Idle /\ job' \in JobSet
           /\ job'.step \in FirstSteps \ {"create"}
           /\ queue' \in Seq(EventSet) /\ OneEach(queue')
           /\ Queued = Queued' \cup {job'.event}
           /\ \A e \in Queued' : e.beacon # job'.event.beacon
           /\ Waiting' = Waiting
<1>1. /\ queue # <<>> /\ queue' = Tail(queue) /\ job = Idle
      /\ job' = [event |-> Head(queue), step |-> FirstStep(Head(queue).type), vm |-> 0]
      /\ UNCHANGED <<chain, minted, known, pending, verifyAge, vms, nextVm, faults, crashes>>
  BY DEF Dequeue, chainVars, scannerVars
<1>2. /\ Head(queue) = queue[1] /\ Head(queue) \in EventSet /\ Tail(queue) \in Seq(EventSet)
      /\ Len(Tail(queue)) = Len(queue) - 1 /\ Len(queue) \in Nat \ {0}
      /\ \A i \in 1..Len(Tail(queue)) : Tail(queue)[i] = queue[i + 1]
  BY <1>1, HeadTailProperties, EmptySeq, LenProperties DEF Base
<1>3. \A i \in 1..Len(queue') : i + 1 \in 1..Len(queue) /\ i + 1 # 1 /\ queue'[i] = queue[i + 1]
  BY <1>1, <1>2
<1>4. \A i \in 1..Len(queue) : i = 1 \/ (i - 1 \in 1..Len(queue') /\ queue[i] = queue'[i - 1])
  <2> TAKE i \in 1..Len(queue)
  <2>1. CASE i # 1
    <3>1. i - 1 \in 1..Len(queue') /\ (i - 1) + 1 = i
      BY <1>1, <1>2, <2>1
    <3> QED
      BY <1>3, <3>1
  <2> QED
    BY <2>1
<1>5. 1 \in 1..Len(queue) /\ job'.event = queue[1]
  BY <1>1, <1>2
<1>6. /\ job' \in JobSet /\ job'.step \in FirstSteps \ {"create"}
  <2>1. Head(queue).type \in {"created", "extended", "removed"}
    BY <1>2, EventFields
  <2>2. /\ FirstStep(Head(queue).type) \in StepsOf(Head(queue).type)
        /\ FirstStep(Head(queue).type) \in FirstSteps \ {"create"}
    BY <2>1 DEF FirstStep, StepsOf, FirstSteps
  <2>3. FirstStep(Head(queue).type) \in Steps
    BY <2>2 DEF Steps, FirstSteps
  <2> QED
    BY <1>1, <1>2, <2>2, <2>3 DEF JobSet
<1>7. job' # Idle
  BY <1>6, IdleIsNoJob
<1>8. OneEach(queue')
  <2>1. ASSUME NEW i \in 1..Len(queue'), NEW j \in 1..Len(queue'),
               queue'[i].beacon = queue'[j].beacon
        PROVE  i = j
    <3>1. i + 1 = j + 1
      BY <1>3, <2>1 DEF Base, OneEventEach, OneEach
    <3> QED
      BY <1>2, <3>1, <1>1
  <2> QED
    BY <2>1 DEF OneEach
<1>9. Queued = Queued' \cup {job'.event}
  <2>1. ASSUME NEW e \in Queued PROVE e \in Queued' \cup {job'.event}
    <3>1. PICK i \in 1..Len(queue) : e = queue[i]
      BY DEF Queued, Elems
    <3> QED
      BY <1>4, <1>5, <3>1 DEF Queued, Elems
  <2>2. ASSUME NEW e \in Queued' PROVE e \in Queued
    <3>1. PICK i \in 1..Len(queue') : e = queue'[i]
      BY DEF Queued, Elems
    <3>2. i + 1 \in 1..Len(queue) /\ e = queue[i + 1]
      BY <1>3, <3>1
    <3> QED
      BY <3>2 DEF Queued, Elems
  <2>3. job'.event \in Queued
    BY <1>5 DEF Queued, Elems
  <2> QED
    BY <2>1, <2>2, <2>3
<1>10. \A e \in Queued' : e.beacon # job'.event.beacon
  <2> SUFFICES ASSUME NEW i \in 1..Len(queue') PROVE queue'[i].beacon # job'.event.beacon
    BY DEF Queued, Elems
  <2> QED
    BY <1>3, <1>5 DEF Base, OneEventEach, OneEach
<1>11. Waiting' = Waiting
  BY <1>1, <1>6, <1>7, <1>9 DEF Waiting
<1> QED
  BY <1>1, <1>2, <1>6, <1>7, <1>8, <1>9, <1>10, <1>11

LEMMA DequeueBase == ASSUME Base, Dequeue PROVE Base'
<1>1. Types' /\ VmsTyped' /\ LiveIsMinted'
  BY DequeueFacts DEF Base, Types, VmsTyped, LiveIsMinted
<1>2. JobTyped' /\ queue' \in Seq(EventSet)
  BY DequeueFacts DEF JobTyped, FirstSteps, WithVm, Providing
<1>3. OneEventEach'
  BY DequeueFacts DEF OneEventEach
<1> QED
  BY <1>1, <1>2, <1>3 DEF Base

LEMMA PollBase == ASSUME Base, Poll PROVE Base'
<1>1. PICK seen \in SUBSET S!Live :
        S!UpdateMaps(seen) /\ queue' \in Seq(EventSet) /\ OneEach(queue')
  BY PollFacts
<1>2. job = Idle /\ job' = Idle
      /\ UNCHANGED <<chain, minted, chainVars, vms, nextVm, faults, crashes>>
  BY DEF Poll, chainVars
<1>3. Types'
  BY <1>1, <1>2, MapsTyped DEF Base
<1> QED
  BY <1>1, <1>2, <1>3 DEF Base, VmsTyped, JobTyped, OneEventEach, LiveIsMinted

(* What a step of the chain does to a beacon.                                *)
LEMMA ChainFacts ==
    ASSUME Base, ChainStep
    PROVE  /\ UNCHANGED <<known, pending, verifyAge, queue, job, vms, nextVm, faults, crashes>>
           /\ chain' \in [Beacons -> S!SubOrNone] /\ minted \subseteq minted'
           /\ minted' \subseteq Beacons
           /\ \A b \in Beacons :
                 \/ chain'[b] = chain[b] /\ (b \in minted' <=> b \in minted)
                 \/ /\ b \notin minted /\ chain[b] = NoSub
                    /\ b \in minted' /\ chain'[b] \in S!Sub /\ chain'[b].expiry = 1
                 \/ /\ b \in minted /\ chain[b] \in S!Sub
                    /\ \/ chain'[b] = NoSub
                       \/ /\ chain'[b] \in S!Sub /\ chain'[b].id = chain[b].id + 1
                          /\ chain'[b].expiry >= chain[b].expiry
<1> USE DEF Base, Types, LiveIsMinted
<1>1. PICK b \in Beacons : S!ChainMoves(b)
  BY DEF ChainStep
<1>2. UNCHANGED <<known, pending, verifyAge, queue, job, vms, nextVm, faults, crashes>>
  BY DEF ChainStep, scannerVars, pollVars
<1>3. chain[b] # NoSub => chain[b] \in S!Sub /\ b \in minted
  OBVIOUS
<1>4. ASSUME NEW n \in S!SubOrNone, chain' = [chain EXCEPT ![b] = n],
             minted' \in {minted, minted \cup {b}},
             \/ b \notin minted /\ b \in minted' /\ n \in S!Sub /\ n.expiry = 1
             \/ /\ b \in minted /\ chain[b] \in S!Sub
                /\ \/ n = NoSub
                   \/ n \in S!Sub /\ n.id = chain[b].id + 1 /\ n.expiry >= chain[b].expiry
      PROVE  /\ chain' \in [Beacons -> S!SubOrNone] /\ minted \subseteq minted'
             /\ minted' \subseteq Beacons
             /\ \A a \in Beacons :
                 \/ chain'[a] = chain[a] /\ (a \in minted' <=> a \in minted)
                 \/ /\ a \notin minted /\ chain[a] = NoSub
                    /\ a \in minted' /\ chain'[a] \in S!Sub /\ chain'[a].expiry = 1
                 \/ /\ a \in minted /\ chain[a] \in S!Sub
                    /\ \/ chain'[a] = NoSub
                       \/ /\ chain'[a] \in S!Sub /\ chain'[a].id = chain[a].id + 1
                          /\ chain'[a].expiry >= chain[a].expiry
  <2>1. chain'[b] = n /\ \A a \in Beacons : a # b => chain'[a] = chain[a]
    BY <1>4
  <2> QED
    BY <1>4, <2>1
<1>5. CASE S!Mint(b)
  <2>1. [id |-> 1, expiry |-> 1] \in S!Sub
    BY DEF S!Sub
  <2> QED
    BY <1>2, <1>4, <1>5, <2>1 DEF S!Mint
<1>6. ASSUME NEW x \in Nat, chain[b] # NoSub, x >= chain[b].expiry, S!Recreate(b, x)
      PROVE  /\ [id |-> chain[b].id + 1, expiry |-> x] \in S!Sub
             /\ chain' = [chain EXCEPT ![b] = [id |-> chain[b].id + 1, expiry |-> x]]
             /\ minted' = minted
  BY <1>3, <1>6 DEF S!Recreate, S!Sub
<1>7. chain[b] # NoSub =>
        /\ chain[b].expiry \in Nat /\ chain[b].expiry + 1 \in Nat
        /\ chain[b].expiry >= chain[b].expiry /\ chain[b].expiry + 1 >= chain[b].expiry
  BY <1>3 DEF S!Sub
<1>8. CASE chain[b] # NoSub /\ (S!Recreate(b, chain[b].expiry)
                                \/ S!Recreate(b, chain[b].expiry + 1))
  <2>1. PICK x \in Nat : x >= chain[b].expiry /\ S!Recreate(b, x)
    BY <1>7, <1>8
  <2> DEFINE n == [id |-> chain[b].id + 1, expiry |-> x]
  <2>2. n \in S!Sub /\ chain' = [chain EXCEPT ![b] = n] /\ minted' = minted
    BY <1>6, <1>8, <2>1
  <2>3. n.id = chain[b].id + 1 /\ n.expiry = x
    OBVIOUS
  <2> HIDE DEF n
  <2> QED
    BY <1>2, <1>3, <1>4, <1>8, <2>1, <2>2, <2>3
<1>9. CASE S!Burn(b)
  BY <1>2, <1>3, <1>4, <1>9 DEF S!Burn
<1> QED
  BY <1>1, <1>5, <1>8, <1>9 DEF S!ChainMoves

LEMMA ChainBase == ASSUME Base, ChainStep PROVE Base'
<1>1. Types' /\ LiveIsMinted'
  BY ChainFacts DEF Base, Types, LiveIsMinted
<1> QED
  BY <1>1, ChainFacts DEF Base, VmsTyped, JobTyped, OneEventEach, Queued, OneEach, Elems, Running

LEMMA TickFacts ==
    ASSUME Base, Tick
    PROVE  /\ UNCHANGED <<chain, minted, known, queue, job, vms, nextVm, faults, crashes>>
           /\ DOMAIN pending' = Beacons /\ verifyAge' \in Nat
           /\ \A b \in Beacons :
                 \/ pending'[b] = NotPending
                 \/ /\ pending[b] \in Pend /\ pending[b] # NotPending
                    /\ pending'[b] \in Pend /\ pending'[b].sub = pending[b].sub
<1>1. UNCHANGED <<chain, minted, known, queue, job, vms, nextVm, faults, crashes>>
  BY DEF Tick, S!Age, chainVars, pollVars
<1>2. verifyAge' \in Nat
  BY MonitorConstants DEF Tick, S!Age, S!Saturate, Base, Types
<1>3. ASSUME NEW r \in Pend
      PROVE  LET s == [r EXCEPT !.age = S!Saturate(@, ConfirmInterval)]
             IN  s \in Pend /\ s.sub = r.sub
  <2>1. S!Saturate(r.age, ConfirmInterval) \in Int
    BY MonitorConstants DEF S!Saturate, Pend
  <2>2. \A n \in Int : [r EXCEPT !.age = n] \in Pend /\ [r EXCEPT !.age = n].sub = r.sub
    BY DEF Pend
  <2> QED
    BY <2>1, <2>2
<1>4. pending' = [b \in Beacons |->
          IF pending[b] = NotPending THEN NotPending
          ELSE [pending[b] EXCEPT !.age = S!Saturate(@, ConfirmInterval)]]
  BY DEF Tick, S!Age
<1> QED
  BY <1>1, <1>2, <1>3, <1>4 DEF Base, Types

LEMMA TickBase == ASSUME Base, Tick PROVE Base'
<1>1. Types' /\ LiveIsMinted'
  BY TickFacts DEF Base, Types, LiveIsMinted
<1> QED
  BY <1>1, TickFacts DEF Base, VmsTyped, JobTyped, OneEventEach, Queued, OneEach, Elems, Running

LEMMA SuspendFacts ==
    ASSUME Base, NEW v \in VmIds, SuspendVm(v)
    PROVE  /\ UNCHANGED Others /\ UNCHANGED <<job, nextVm, faults>> /\ v \in Running
           /\ \E r : /\ VmOK(r) /\ Becomes(v, r) /\ Same(vms[v], r) /\ r.nft = vms[v].nft
<1>1. /\ UNCHANGED Others /\ UNCHANGED <<job, nextVm, faults>>
      /\ vms' = [vms EXCEPT ![v].status = "suspended"] /\ VmOK(vms[v]) /\ v \in Running
  BY DEF SuspendVm, chainVars, scannerVars, pollVars, Base, VmsTyped, Running, Others
<1> DEFINE r == [vms[v] EXCEPT !.status = "suspended"]
<1>2. VmOK(r) /\ Same(vms[v], r) /\ r.nft = vms[v].nft
  BY <1>1, StatusFacts DEF Same
<1>3. vms' = [vms EXCEPT ![v] = r]
  BY <1>1
<1> HIDE DEF r
<1>4. Becomes(v, r)
  BY <1>2, <1>3, OneVm, VmIsSome DEF Base, Becomes
<1> QED
  BY <1>1, <1>2, <1>4

LEMMA SuspendBase == ASSUME Base, NEW v \in VmIds, SuspendVm(v) PROVE Base'
<1>1. PICK r : VmOK(r) /\ Becomes(v, r) /\ Same(vms[v], r)
  BY SuspendFacts
<1>2. v \in Running /\ UNCHANGED Others /\ UNCHANGED <<job, nextVm, faults>>
  BY SuspendFacts
<1>3. /\ VmsTyped' /\ Running' = Running
      /\ \A u \in Running : vms'[u].for = vms[u].for
  BY <1>1, <1>2, VmIsSome DEF Becomes, Same, Running
<1> QED
  BY <1>2, <1>3, BaseKept DEF Base, Types, JobTyped, WithVm

(* A new process knows the beacons on the records, each as a placeholder.    *)
LEMMA CrashFacts ==
    ASSUME Base, Crash
    PROVE  /\ UNCHANGED <<chain, minted, vms, nextVm, faults>> /\ crashes' = crashes + 1
           /\ queue' = <<>> /\ job' = Idle /\ Queued' = {} /\ Waiting' = {}
           /\ known' \in [Beacons -> S!SubOrNone] /\ verifyAge' = VerifyInterval
           /\ pending' = [b \in Beacons |-> NotPending]
           /\ \A b \in Beacons :
                 \/ known'[b] = NoSub /\ \A v \in Running : vms[v].beacon # b
                 \/ /\ known'[b] \in S!Sub /\ known'[b].expiry = 0
                    /\ \E v \in Running : vms[v].beacon = b
<1>1. /\ UNCHANGED <<chain, minted, vms, nextVm, faults>> /\ queue' = <<>> /\ job' = Idle
      /\ crashes' = crashes + 1
  BY DEF Crash, chainVars
<1>2. PICK entries \in [Beacons -> UNION {RestoredEntry(b) : b \in Beacons}] :
          (\A b \in Beacons : entries[b] \in RestoredEntry(b)) /\ S!Restore(entries)
  BY DEF Crash
<1>3. /\ known' = entries /\ verifyAge' = VerifyInterval
      /\ pending' = [b \in Beacons |-> NotPending]
  BY <1>2 DEF S!Restore
<1>4. ASSUME NEW v \in Running, vms[v].beacon \in Beacons
      PROVE  LET s == [id |-> vms[v].box, expiry |-> 0]
             IN  s \in S!Sub /\ s.expiry = 0
  <2>1. VmOK(vms[v]) /\ vms[v].beacon # NoBeacon
    BY <1>4, RunningVm, MonitorConstants DEF Base
  <2>2. vms[v].box \in Nat \ {0}
    BY <2>1 DEF VmOK, Vm
  <2> QED
    BY <2>2 DEF S!Sub
<1>5. \A b \in Beacons :
         \/ entries[b] = NoSub /\ \A v \in Running : vms[v].beacon # b
         \/ /\ entries[b] \in S!Sub /\ entries[b].expiry = 0
            /\ \E v \in Running : vms[v].beacon = b
  <2> TAKE b \in Beacons
  <2> DEFINE rows == {v \in Running : vms[v].beacon = b}
  <2>1. CASE rows = {}
    BY <1>2, <2>1 DEF RestoredEntry
  <2>2. CASE rows # {}
    <3>1. PICK v \in rows : entries[b] = [id |-> vms[v].box, expiry |-> 0]
      BY <1>2, <2>2 DEF RestoredEntry
    <3> QED
      BY <1>4, <3>1
  <2> QED
    BY <2>1, <2>2
<1>6. entries \in [Beacons -> S!SubOrNone]
  BY <1>5
<1>7. Queued' = {} /\ Waiting' = {}
  BY <1>1 DEF Queued, Elems, Waiting
<1> QED
  BY <1>1, <1>3, <1>5, <1>6, <1>7

LEMMA CrashBase == ASSUME Base, Crash PROVE Base'
<1>1. Types' /\ LiveIsMinted'
  BY CrashFacts, MonitorConstants DEF Base, Types, LiveIsMinted
<1>2. queue' \in Seq(EventSet) /\ Len(queue') = 0
  BY CrashFacts, EmptySeq
<1>3. JobTyped' /\ OneEventEach'
  BY <1>2, CrashFacts DEF JobTyped, OneEventEach, OneEach
<1> QED
  BY <1>1, <1>2, <1>3, CrashFacts DEF Base, VmsTyped


LEMMA BaseStep == Base /\ [Next]_vars => Base'
<1> SUFFICES ASSUME Base, [Next]_vars PROVE Base'
  OBVIOUS
<1>1. CASE UNCHANGED vars
  <2>1. UNCHANGED Others /\ UNCHANGED <<vms, job, nextVm, faults>>
    BY <1>1 DEF vars, chainVars, scannerVars, pollVars, Others
  <2>2. VmsTyped' /\ Running' = Running
    BY <2>1 DEF Base, VmsTyped, Running
  <2> QED
    BY <2>1, <2>2, BaseKept DEF Base, Types, JobTyped
<1> QED
  BY <1>1, ChainBase, TickBase, SuspendBase, PollBase, DequeueBase, HandlerBase, CrashBase
     DEF Next

-----------------------------------------------------------------------------
(* Books                                                                     *)

Current(e) ==
    /\ e.type # "removed" => known[e.beacon] = e.sub
    /\ e.type = "extended" => e.old.expiry <= e.sub.expiry

(* The map knows only minted beacons and is never ahead of the chain.        *)
KnownIsBehind ==
    \A b \in Beacons : known[b] # NoSub =>
        b \in minted /\ (chain[b] # NoSub => known[b].expiry <= chain[b].expiry)
EventsCurrent ==
    /\ \A e \in Waiting : Current(e)
    /\ job # Idle /\ job.step \in Providing => Current(job.event)
VmsMinted == \A v \in Running : vms[v].for \in minted

Books == KnownIsBehind /\ EventsCurrent /\ VmsMinted

LEMMA InitBooks == Init => Books
<1> SUFFICES ASSUME Init PROVE Books
  OBVIOUS
<1>1. Waiting = {} /\ Running = {}
  BY DEF Init, Waiting, Queued, Elems, Running
<1> QED
  BY <1>1 DEF Init, S!InitMaps, Books, KnownIsBehind, EventsCurrent, VmsMinted

(* The events under way and the VMs' subscriptions after a handler's step.   *)
LEMMA HandlerEvents ==
    ASSUME Base, Handler
    PROVE  /\ job'= Idle \/ (job' # Idle /\ job'.event = job.event)
           /\ job' # Idle /\ job'.step \in Providing =>
                  job.step \in Providing \/ (CreateVm /\ job.event \in Waiting)
           /\ Queued' = Queued /\ Waiting' \subseteq Waiting
           /\ job.event \in Waiting' => Allocate /\ job'.step = "create" /\ vms' = vms
<1>1. Queued' = Queued /\ job # Idle /\ job \in JobSet
  BY HandlerKeeps DEF Others, Queued, Elems
<1>2. job.event \notin Queued
  BY <1>1 DEF Base, OneEventEach
<1>3. CASE Allocate
  BY <1>1, <1>2, <1>3, AllocateFacts DEF GoesTo, Waiting, FirstSteps, Providing
<1>4. CASE CreateVm
  BY <1>1, <1>2, <1>4, CreateFacts DEF GoesTo, Waiting, FirstSteps, Providing
<1>5. CASE RecordBeacon
  BY <1>1, <1>2, <1>5, RecordOutcome DEF GoesTo, Waiting, FirstSteps, Providing
<1>6. CASE MintNft
  BY <1>1, <1>2, <1>6, MintOutcome DEF GoesTo, Waiting, FirstSteps, Providing
<1>7. CASE MarkMinted
  BY <1>1, <1>2, <1>7, MarkOutcome DEF Waiting
<1>8. CASE ExtendVm
  <2>1. job' = Idle \/ \E v : GoesTo("resume", v)
    BY <1>8, ExtendOutcome
  <2> QED
    BY <1>1, <1>2, <2>1 DEF GoesTo, Waiting, FirstSteps, Providing
<1>9. CASE ResumeVm
  BY <1>1, <1>2, <1>9, ResumeOutcome DEF Waiting
<1>10. CASE DestroyVm
  BY <1>1, <1>2, <1>10, DestroyOutcome DEF Waiting
<1> QED
  BY <1>3, <1>4, <1>5, <1>6, <1>7, <1>8, <1>9, <1>10 DEF Handler

LEMMA BecomesSame ==
    ASSUME NEW v \in Running, NEW r, VmOK(r), Becomes(v, r), r.for = vms[v].for
    PROVE  Running' = Running /\ \A u \in Running : vms'[u].for = vms[u].for
BY VmIsSome DEF Becomes, Running

(* No step of a handler but CreateVm makes a VM; none changes whom one is for*)
LEMMA HandlerVms ==
    ASSUME Base, Handler
    PROVE  \A v \in Running' :
              \/ v \in Running /\ vms'[v].for = vms[v].for
              \/ CreateVm /\ v = job.vm /\ vms'[v].for = job.event.beacon
<1>1. CASE vms' = vms
  BY <1>1 DEF Running
<1>2. CASE Allocate
  BY <1>1, <1>2, AllocateFacts
<1>3. CASE CreateVm
  BY <1>1, <1>3, CreateFacts DEF Becomes, Running
<1>4. CASE RecordBeacon
  BY <1>1, <1>4, RecordOutcome, BecomesSame
<1>5. CASE MintNft
  BY <1>1, <1>5, MintOutcome, BecomesSame DEF Same
<1>6. CASE MarkMinted
  BY <1>1, <1>6, MarkOutcome, BecomesSame DEF Same
<1>7. CASE ExtendVm
  <2>1. Lookup(job.event.beacon) \subseteq Running
    BY DEF Lookup
  <2> QED
    BY <1>1, <1>7, <2>1, ExtendOutcome, BecomesSame
<1>8. CASE ResumeVm
  BY <1>1, <1>8, ResumeOutcome, BecomesSame DEF Same
<1>9. CASE DestroyVm
  BY <1>1, <1>9, DestroyOutcome DEF Becomes, Running
<1> QED
  BY <1>2, <1>3, <1>4, <1>5, <1>6, <1>7, <1>8, <1>9 DEF Handler

(* A scan's events are what it has just told the map.                        *)
LEMMA PollBooks ==
    ASSUME Base, Books, Poll
    PROVE  /\ Books'
           /\ \E seen \in SUBSET S!Live :
                 /\ MayMiss = FALSE => seen = S!Live
                 /\ Waiting' = Scanned(seen) /\ S!UpdateMaps(seen)
                 /\ \A b \in Beacons : \/ b \in seen /\ known'[b] = chain[b]
                                       \/ b \notin seen /\ known'[b] \in {known[b], NoSub}
           /\ UNCHANGED <<chain, minted, job, vms, nextVm, faults, crashes>>
           /\ job = Idle /\ Waiting = {}
<1> USE DEF Base
<1>1. /\ UNCHANGED <<chain, minted, job, vms, nextVm, faults, crashes, chainVars>> /\ job = Idle
      /\ queue = <<>>
  BY DEF Poll, chainVars
<1>2. PICK seen \in SUBSET S!Live :
        /\ MayMiss = FALSE => seen = S!Live
        /\ S!UpdateMaps(seen) /\ Queued' = Scanned(seen)
  BY PollFacts
<1>3. Waiting' = Scanned(seen) /\ Waiting = {}
  BY <1>1, <1>2 DEF Waiting, Queued, Elems
<1>4. \A b \in Beacons : \/ b \in seen /\ known'[b] = chain[b]
                         \/ b \notin seen /\ known'[b] \in {known[b], NoSub}
  BY <1>1, <1>2, MapsTyped
<1>5. \A b \in seen : b \in Beacons /\ chain[b] # NoSub /\ b \in minted
  BY DEF S!Live, LiveIsMinted
<1>6. KnownIsBehind'
  <2> SUFFICES ASSUME NEW b \in Beacons, known'[b] # NoSub
               PROVE  b \in minted /\ (chain[b] # NoSub => known'[b].expiry <= chain[b].expiry)
    BY <1>1 DEF KnownIsBehind
  <2>1. CASE b \in seen
    <3>1. chain[b] \in S!Sub
      BY <1>5, <2>1 DEF Types
    <3>2. chain[b].expiry <= chain[b].expiry
      BY <3>1 DEF S!Sub
    <3> QED
      BY <1>4, <1>5, <2>1, <3>2
  <2>2. CASE b \notin seen
    BY <1>4, <2>2 DEF Books, KnownIsBehind
  <2> QED
    BY <2>1, <2>2
<1>7. \A e \in Scanned(seen) : Current(e)'
  <2> TAKE e \in Scanned(seen)
  <2>1. CASE e \in S!RemovedEvents(seen)
    BY <2>1, EventsOfScan DEF Current
  <2>2. CASE e \in S!CreatedEvents(seen)
    BY <1>4, <1>5, <2>2, EventsOfScan DEF Current
  <2>3. CASE e \in S!ExtendedEvents(seen)
    <3>1. /\ e.type = "extended" /\ e.beacon \in seen
          /\ e.sub = chain[e.beacon] /\ e.old = known[e.beacon] /\ known[e.beacon] # NoSub
      BY <2>3, EventsOfScan, SubIsSome
    <3>2. known[e.beacon].expiry <= chain[e.beacon].expiry
      BY <1>5, <3>1 DEF Books, KnownIsBehind
    <3> QED
      BY <1>4, <1>5, <3>1, <3>2 DEF Current
  <2> QED
    BY <2>1, <2>2, <2>3 DEF Scanned
<1>8. EventsCurrent'
  BY <1>1, <1>3, <1>7 DEF EventsCurrent
<1>9. VmsMinted'
  BY <1>1 DEF Books, VmsMinted, Running
<1> QED
  BY <1>1, <1>2, <1>3, <1>4, <1>6, <1>8, <1>9 DEF Books

LEMMA BooksKept ==
    ASSUME Base, Books, UNCHANGED <<chain, minted, known>>, Waiting' \subseteq Waiting,
           job' # Idle /\ job'.step \in Providing =>
               /\ job # Idle /\ job'.event = job.event
               /\ job.step \in Providing \/ job.event \in Waiting,
           \A v \in Running' : vms'[v].for \in minted
    PROVE  Books'
<1>1. KnownIsBehind' /\ VmsMinted'
  BY DEF Books, KnownIsBehind, VmsMinted
<1>2. \A e : Current(e) => Current(e)'
  BY DEF Current
<1>3. EventsCurrent'
  BY <1>2 DEF Books, EventsCurrent
<1> QED
  BY <1>1, <1>3 DEF Books

LEMMA HandlerBooks == ASSUME Base, Books, Handler PROVE Books'
<1>1. UNCHANGED <<chain, minted, known>> /\ job # Idle
  BY HandlerKeeps DEF Others
<1>2. CreateVm => job.event.beacon \in minted
  <2> SUFFICES ASSUME CreateVm PROVE job.event.beacon \in minted
    OBVIOUS
  <2>1. job.step = "create" /\ job.event.type = "created" /\ job.event \in EventSet
    BY HandlerKeeps, CreateFacts, JobFields
  <2>2. Current(job.event)
    BY <1>1, <2>1 DEF Books, EventsCurrent, Waiting, FirstSteps
  <2> QED
    BY <2>1, <2>2, EventFields, SubIsSome DEF Current, Books, KnownIsBehind
<1>3. \A v \in Running' : vms'[v].for \in minted
  BY <1>2, HandlerVms DEF Books, VmsMinted
<1> QED
  BY <1>1, <1>3, HandlerEvents, BooksKept

LEMMA ChainBooks == ASSUME Base, Books, ChainStep PROVE Books'
<1>1. Running' = Running /\ Waiting' = Waiting
  BY ChainFacts DEF Running, Waiting, Queued, Elems
<1>2. VmsMinted'
  BY <1>1, ChainFacts DEF Books, VmsMinted
<1>3. EventsCurrent'
  BY <1>1, ChainFacts DEF Books, EventsCurrent, Current
<1>4. KnownIsBehind'
  <2> SUFFICES ASSUME NEW b \in Beacons, known[b] # NoSub
               PROVE  b \in minted' /\ (chain'[b] # NoSub => known[b].expiry <= chain'[b].expiry)
    BY ChainFacts DEF KnownIsBehind
  <2>1. b \in minted /\ (chain[b] # NoSub => known[b].expiry <= chain[b].expiry)
    BY DEF Books, KnownIsBehind
  <2>2. known[b].expiry \in Nat
    BY DEF Base, Types, S!Sub
  <2>3. CASE chain'[b] = chain[b] \/ chain'[b] = NoSub
    BY <2>1, <2>3, ChainFacts
  <2>4. CASE chain[b] \in S!Sub /\ chain'[b] \in S!Sub /\ chain'[b].expiry >= chain[b].expiry
    <3>1. chain[b] # NoSub
      BY <2>4, SubIsSome
    <3> QED
      BY <2>1, <2>2, <2>4, <3>1, ChainFacts DEF S!Sub
  <2> QED
    BY <2>1, <2>3, <2>4, ChainFacts
<1> QED
  BY <1>2, <1>3, <1>4 DEF Books

LEMMA CrashBooks == ASSUME Base, Books, Crash PROVE Books'
<1>1. KnownIsBehind'
  <2> SUFFICES ASSUME NEW b \in Beacons, known'[b] # NoSub
               PROVE  b \in minted /\ (chain[b] # NoSub => known'[b].expiry <= chain[b].expiry)
    BY CrashFacts DEF KnownIsBehind
  <2>1. PICK v \in Running : vms[v].beacon = b /\ known'[b].expiry = 0
    BY CrashFacts
  <2>2. b \in minted
    BY <2>1, RunningVm, VmIsSome, MonitorConstants DEF Base, Books, VmsMinted
  <2>3. chain[b] # NoSub => 0 <= chain[b].expiry
    BY DEF Base, Types, S!Sub
  <2> QED
    BY <2>1, <2>2, <2>3
<1>2. EventsCurrent' /\ VmsMinted'
  BY CrashFacts DEF EventsCurrent, Books, VmsMinted, Running
<1> QED
  BY <1>1, <1>2 DEF Books

LEMMA BooksStep == Base /\ Books /\ [Next]_vars => Books'
<1> SUFFICES ASSUME Base, Books, [Next]_vars PROVE Books'
  OBVIOUS
<1>1. CASE UNCHANGED vars
  BY <1>1, BooksKept DEF vars, chainVars, scannerVars, pollVars, Waiting, Queued, Elems,
                         Running, Books, VmsMinted, FirstSteps, Providing
<1>2. CASE Tick
  <2>1. Waiting' = Waiting /\ Running' = Running
    BY <1>2, TickFacts DEF Waiting, Queued, Elems, Running
  <2> QED
    BY <1>2, <2>1, TickFacts, BooksKept DEF Books, VmsMinted
<1>3. ASSUME NEW v \in VmIds, SuspendVm(v) PROVE Books'
  <2>1. PICK r : VmOK(r) /\ Becomes(v, r) /\ Same(vms[v], r)
    BY <1>3, SuspendFacts
  <2>2. v \in Running /\ UNCHANGED Others /\ UNCHANGED job
    BY <1>3, SuspendFacts
  <2>3. \A u \in Running' : vms'[u].for \in minted
    BY <2>1, <2>2, BecomesSame DEF Same, Books, VmsMinted
  <2>4. Waiting' = Waiting /\ UNCHANGED <<chain, minted, known>>
    BY <2>2 DEF Waiting, Queued, Elems, Others
  <2> QED
    BY <2>2, <2>3, <2>4, BooksKept
<1>4. CASE Dequeue
  <2>1. Waiting' = Waiting /\ UNCHANGED <<chain, minted, known, vms>>
        /\ job'.step \notin Providing /\ Running' = Running
    BY <1>4, DequeueFacts DEF FirstSteps, Providing, Running
  <2> QED
    BY <2>1, BooksKept DEF Books, VmsMinted
<1> QED
  BY <1>1, <1>2, <1>3, <1>4, ChainBooks, PollBooks, HandlerBooks, CrashBooks DEF Next

-----------------------------------------------------------------------------
(* AllWithin                                                                 *)

(* The page asks for one signing wallet per subscription; the owner lookup   *)
(* tells subscriptions apart only while no two boxes share an address.       *)
OneSubscriptionEach == \A a, b \in Beacons : OwnerOf[a] = OwnerOf[b] => a = b

(* A VM of b with expiry n is not ahead of b's box, of the map's (unless it  *)
(* is a placeholder), nor of what a waiting extension is counted from.       *)
Within(b, n) ==
    /\ chain[b] # NoSub => n <= chain[b].expiry
    /\ known[b] # NoSub /\ known[b].expiry # 0 => n <= known[b].expiry
    /\ \A e \in Waiting :
          e.beacon = b /\ e.type = "extended" /\ e.old.expiry # 0 => n <= e.old.expiry

AllWithin == \A v \in Running : Within(vms[v].for, vms[v].expiry)

LEMMA LookupFor ==
    ASSUME Base, OneSubscriptionEach, NEW b \in Beacons, NEW v \in Lookup(b)
    PROVE  v \in Running /\ vms[v].for = b
<1>1. v \in Running /\ (vms[v].beacon = b \/ vms[v].owner = OwnerOf[b])
  BY DEF Lookup
<1>2. /\ vms[v].for \in Beacons /\ vms[v].owner = OwnerOf[vms[v].for]
      /\ vms[v].beacon \in {NoBeacon, vms[v].for}
  BY <1>1, RunningVm, VmIsSome DEF Base
<1> QED
  BY <1>1, <1>2, MonitorConstants DEF OneSubscriptionEach

(* An event under way is the only one for its beacon.                        *)
LEMMA OnlyEvent ==
    ASSUME Base, job # Idle, NEW e \in Waiting, e.beacon = job.event.beacon
    PROVE  e = job.event
BY DEF Base, OneEventEach, Waiting

LEMMA WithinKept ==
    ASSUME AllWithin, UNCHANGED <<chain, known>>, Waiting' \subseteq Waiting,
           \A v \in Running' :
              \/ v \in Running /\ Same(vms[v], vms'[v])
              \/ Within(vms[v].for, vms[v].expiry)'
    PROVE  AllWithin'
<1>1. \A b, n : Within(b, n) => Within(b, n)'
  BY DEF Within
<1> QED
  BY <1>1 DEF AllWithin, Same

(* The record of one VM changes, but not in what AllWithin says of it.       *)
LEMMA WithinSame ==
    ASSUME NEW v \in Running, NEW r, VmOK(r), Becomes(v, r), Same(vms[v], r)
    PROVE  \A u \in Running' : u \in Running /\ Same(vms[u], vms'[u])
BY VmIsSome DEF Becomes, Same, Running

LEMMA PollWithin == ASSUME Base, Books, AllWithin, Poll PROVE AllWithin'
<1>1. PICK seen \in SUBSET S!Live :
         /\ Waiting' = Scanned(seen)
         /\ \A b \in Beacons : \/ b \in seen /\ known'[b] = chain[b]
                               \/ b \notin seen /\ known'[b] \in {known[b], NoSub}
  BY PollBooks
<1>2. chain' = chain /\ vms' = vms /\ Running' = Running
  BY PollBooks DEF Running
<1>3. \A e \in Waiting' : e.type = "extended" => e.old = known[e.beacon] /\ known[e.beacon] # NoSub
  BY <1>1, EventsOfScan, SubIsSome DEF Scanned, Base
<1>4. \A b \in seen : chain[b] # NoSub
  BY DEF S!Live
<1>5. ASSUME NEW b \in Beacons, NEW n, Within(b, n) PROVE Within(b, n)'
  BY <1>1, <1>2, <1>3, <1>4, <1>5 DEF Within
<1>6. ASSUME NEW v \in Running PROVE Within(vms[v].for, vms[v].expiry)'
  <2>1. PICK b \in Beacons, n \in Int : b = vms[v].for /\ n = vms[v].expiry
    BY RunningVm, VmIsSome DEF Base
  <2>2. Within(b, n)'
    BY <1>5, <2>1 DEF AllWithin
  <2> QED
    BY <1>2, <2>1, <2>2 DEF Within
<1> QED
  BY <1>2, <1>6 DEF AllWithin

LEMMA ChainWithin == ASSUME Base, Books, AllWithin, ChainStep PROVE AllWithin'
<1>1. Waiting' = Waiting /\ Running' = Running /\ vms' = vms /\ known' = known
  BY ChainFacts DEF Running, Waiting, Queued, Elems
<1> SUFFICES ASSUME NEW v \in Running
             PROVE  Within(vms[v].for, vms[v].expiry)'
  BY <1>1 DEF AllWithin
<1>2. /\ Within(vms[v].for, vms[v].expiry) /\ vms[v].for \in minted /\ vms[v].for \in Beacons
      /\ vms[v].expiry \in Int
  BY RunningVm, VmIsSome DEF AllWithin, Base, Books, VmsMinted
<1>3. chain'[vms[v].for] # NoSub =>
         /\ chain[vms[v].for] # NoSub
         /\ \/ chain'[vms[v].for] = chain[vms[v].for]
            \/ /\ chain'[vms[v].for].expiry >= chain[vms[v].for].expiry
               /\ chain'[vms[v].for].expiry \in Nat /\ chain[vms[v].for].expiry \in Nat
  BY <1>2, ChainFacts, SubIsSome DEF S!Sub
<1>4. chain'[vms[v].for] # NoSub => vms[v].expiry <= chain'[vms[v].for].expiry
  BY <1>2, <1>3 DEF Within
<1> QED
  BY <1>1, <1>2, <1>4 DEF Within

LEMMA CrashWithin == ASSUME Base, Books, AllWithin, Crash PROVE AllWithin'
<1>1. /\ Waiting' = {} /\ Running' = Running /\ vms' = vms /\ chain' = chain
      /\ \A b \in Beacons : known'[b] = NoSub \/ known'[b].expiry = 0
  BY CrashFacts DEF Running
<1>2. \A v \in Running : vms[v].for \in Beacons
  BY RunningVm, VmIsSome DEF Base
<1> QED
  BY <1>1, <1>2 DEF AllWithin, Within

LEMMA HandlerWithin ==
    ASSUME OneSubscriptionEach, Base, Books, AllWithin, Handler
    PROVE  AllWithin'
<1>1. /\ UNCHANGED <<chain, known>> /\ job # Idle /\ job \in JobSet
      /\ job.event \in EventSet /\ job.event.beacon \in Beacons
  BY HandlerKeeps, JobFields, EventFields DEF Others
<1>2. Waiting' \subseteq Waiting
  BY HandlerEvents
<1>3. CASE vms' = vms
  BY <1>1, <1>2, <1>3, WithinKept DEF Same, Running
(* A VM that now has the expiry of the event under way is within bounds.     *)
<1>4. ASSUME job.event \notin Waiting', Current(job.event), job.event.type # "removed",
             NEW b, b = job.event.beacon, NEW n \in Int, n <= job.event.sub.expiry
      PROVE  Within(b, n)'
  <2>1. known[b] = job.event.sub /\ known[b] # NoSub /\ known[b].expiry \in Nat
    BY <1>1, <1>4, EventFields, SubIsSome DEF Current, S!Sub
  <2>2. chain[b] # NoSub => chain[b].expiry \in Nat /\ known[b].expiry <= chain[b].expiry
    BY <1>1, <1>4, <2>1 DEF Books, KnownIsBehind, Base, Types, S!Sub
  <2>3. \A e \in Waiting' : e.beacon # b
    BY <1>1, <1>2, <1>4, OnlyEvent
  <2>4. n <= known[b].expiry /\ (chain[b] # NoSub => n <= chain[b].expiry)
    BY <1>4, <2>1, <2>2
  <2> QED
    BY <1>1, <2>3, <2>4 DEF Within
<1>5. CASE CreateVm /\ vms' # vms
  <2>1. PICK r : /\ VmOK(r) /\ Becomes(job.vm, r) /\ r.for = job.event.beacon
                 /\ r.expiry = job.event.sub.expiry
    BY <1>5, CreateFacts
  <2>2. /\ job.step = "create" /\ job.event.type = "created" /\ Current(job.event)
        /\ job.event \notin Waiting'
    BY <1>1, <1>5, CreateFacts, JobFields, HandlerEvents DEF Books, EventsCurrent, Waiting, FirstSteps
  <2>3. r.expiry \in Int /\ r.expiry <= job.event.sub.expiry
    BY <2>1, VmIsSome
  <2>4. Within(r.for, r.expiry)'
    BY <1>4, <2>1, <2>2, <2>3
  <2>5. \A v \in Running' : \/ v \in Running /\ Same(vms[v], vms'[v])
                            \/ vms'[v] = r
    BY <2>1 DEF Becomes, Same, Running
  <2> QED
    BY <1>1, <1>2, <2>1, <2>4, <2>5, WithinKept
<1>6. CASE ExtendVm /\ vms' # vms
  <2>1. PICK v \in Lookup(job.event.beacon) :
           /\ ~IsPlaceholder(job.event.old)
           /\ \E r : /\ VmOK(r) /\ Becomes(v, r) /\ r.for = vms[v].for
                     /\ r.expiry = vms[v].expiry + AdditionalDays(job.event.old, job.event.sub)
    BY <1>6, ExtendOutcome
  <2>2. PICK r : /\ VmOK(r) /\ Becomes(v, r) /\ r.for = vms[v].for
                 /\ r.expiry = vms[v].expiry + AdditionalDays(job.event.old, job.event.sub)
    BY <2>1
  <2>3. v \in Running /\ vms[v].for = job.event.beacon
    BY <1>1, LookupFor
  <2>4. /\ job.step = "extend" /\ job.event.type = "extended" /\ job.event \in Waiting
        /\ Current(job.event) /\ job.event \notin Waiting'
    BY <1>1, <1>6, ExtendOutcome, JobFields, HandlerEvents
       DEF Books, EventsCurrent, Waiting, FirstSteps
  <2>5. /\ job.event.old.expiry \in Nat /\ job.event.sub.expiry \in Nat
        /\ job.event.old.expiry # 0 /\ job.event.old.expiry <= job.event.sub.expiry
    BY <1>1, <2>1, <2>4, EventFields DEF S!Sub, IsPlaceholder, Current
  <2>6. vms[v].expiry <= job.event.old.expiry /\ vms[v].expiry \in Int
    BY <2>3, <2>4, <2>5, RunningVm, VmIsSome DEF AllWithin, Within, Base
  <2>7. AdditionalDays(job.event.old, job.event.sub)
           = job.event.sub.expiry - job.event.old.expiry
    BY <2>5 DEF AdditionalDays
  <2>8. r.expiry \in Int /\ r.expiry <= job.event.sub.expiry
    BY <2>2, <2>5, <2>6, <2>7
  <2>9. Within(r.for, r.expiry)'
    BY <1>4, <2>2, <2>3, <2>4, <2>8
  <2>10. \A u \in Running' : \/ u \in Running /\ Same(vms[u], vms'[u])
                             \/ vms'[u] = r
    BY <2>2 DEF Becomes, Same, Running
  <2> QED
    BY <1>1, <1>2, <2>2, <2>3, <2>9, <2>10, WithinKept
<1>7. CASE MintNft /\ vms' # vms
  <2>1. PICK r : VmOK(r) /\ Becomes(job.vm, r) /\ Same(vms[job.vm], r)
    BY <1>7, MintOutcome
  <2>2. job.vm \in Running
    BY <1>7, MintOutcome
  <2> QED
    BY <1>1, <1>2, <2>1, <2>2, WithinSame, WithinKept
<1>8. CASE RecordBeacon /\ vms' # vms
  <2>1. PICK r : VmOK(r) /\ Becomes(job.vm, r) /\ r.for = vms[job.vm].for
                 /\ r.expiry = vms[job.vm].expiry
    BY <1>8, RecordOutcome
  <2>2. job.vm \in Running
    BY <1>8, RecordOutcome
  <2>3. Within(r.for, r.expiry)'
    BY <1>1, <1>2, <2>1, <2>2 DEF AllWithin, Within
  <2>4. \A v \in Running' : \/ v \in Running /\ Same(vms[v], vms'[v])
                            \/ vms'[v] = r
    BY <2>1 DEF Becomes, Same, Running
  <2> QED
    BY <1>1, <1>2, <2>3, <2>4, WithinKept
<1>9. CASE MarkMinted /\ vms' # vms
  <2>1. PICK r : VmOK(r) /\ Becomes(job.vm, r) /\ Same(vms[job.vm], r)
    BY <1>9, MarkOutcome
  <2>2. job.vm \in Running
    BY <1>9, MarkOutcome
  <2> QED
    BY <1>1, <1>2, <2>1, <2>2, WithinSame, WithinKept
<1>10. CASE ResumeVm /\ vms' # vms
  <2>1. PICK r : VmOK(r) /\ Becomes(job.vm, r) /\ Same(vms[job.vm], r)
    BY <1>10, ResumeOutcome
  <2>2. job.vm \in Running
    BY <1>10, ResumeOutcome
  <2> QED
    BY <1>1, <1>2, <2>1, <2>2, WithinSame, WithinKept
<1>11. CASE DestroyVm /\ vms' # vms
  <2>1. PICK v \in Lookup(job.event.beacon) : Becomes(v, NoVm)
    BY <1>11, DestroyOutcome
  <2>2. \A u \in Running' : u \in Running /\ Same(vms[u], vms'[u])
    BY <2>1 DEF Becomes, Same, Running
  <2> QED
    BY <1>1, <1>2, <2>2, WithinKept
<1> QED
  BY <1>3, <1>5, <1>6, <1>7, <1>8, <1>9, <1>10, <1>11, AllocateFacts DEF Handler

LEMMA WithinStep ==
    ASSUME OneSubscriptionEach
    PROVE  Base /\ Books /\ AllWithin /\ [Next]_vars => AllWithin'
<1> SUFFICES ASSUME Base, Books, AllWithin, [Next]_vars PROVE AllWithin'
  OBVIOUS
<1>1. CASE UNCHANGED vars
  BY <1>1, WithinKept DEF vars, chainVars, scannerVars, pollVars, Waiting, Queued, Elems,
                          Running, Same
<1>2. CASE Tick
  BY <1>2, TickFacts, WithinKept DEF Waiting, Queued, Elems, Running, Same
<1>3. ASSUME NEW v \in VmIds, SuspendVm(v) PROVE AllWithin'
  <2>1. PICK r : VmOK(r) /\ Becomes(v, r) /\ Same(vms[v], r)
    BY <1>3, SuspendFacts
  <2>2. v \in Running /\ UNCHANGED Others /\ UNCHANGED job
    BY <1>3, SuspendFacts
  <2>3. Waiting' = Waiting /\ UNCHANGED <<chain, known>>
    BY <2>2 DEF Waiting, Queued, Elems, Others
  <2> QED
    BY <2>1, <2>2, <2>3, WithinSame, WithinKept
<1>4. CASE Dequeue
  BY <1>4, DequeueFacts, WithinKept DEF Running, Same
<1> QED
  BY <1>1, <1>2, <1>3, <1>4, ChainWithin, PollWithin, HandlerWithin, CrashWithin DEF Next

(* An extension is never applied twice, whatever fails, dies or is omitted:  *)
(* a VM's expiry is at most what its box paid for (handlers 489-501).        *)
THEOREM NeverExtendedTwice ==
    ASSUME OneSubscriptionEach
    PROVE  Spec => []NeverOverExtended
<1>1. Init => Base /\ Books /\ AllWithin
  <2>1. Init => AllWithin
    BY DEF Init, AllWithin, Running
  <2> QED
    BY <2>1, InitBase, InitBooks
<1>2. Base /\ Books /\ AllWithin /\ [Next]_vars => (Base /\ Books /\ AllWithin)'
  BY BaseStep, BooksStep, WithinStep
<1>3. AllWithin => NeverOverExtended
  BY DEF AllWithin, Within, NeverOverExtended, S!Live
<1> QED
  BY <1>1, <1>2, <1>3, PTL DEF Spec

-----------------------------------------------------------------------------
(* RemovedAreBurned                                                          *)

RemovedAreBurned == \A e \in Waiting : e.type = "removed" => e.beacon \in S!Burned

LEMMA BurnedStays == Base /\ [Next]_vars => S!Burned \subseteq S!Burned'
<1> SUFFICES ASSUME Base, [Next]_vars PROVE S!Burned \subseteq S!Burned'
  OBVIOUS
<1>1. CASE ChainStep
  <2>1. \A b \in S!Burned : b \in Beacons /\ b \in minted /\ chain[b] = NoSub
    BY DEF S!Burned, S!Live, Base, Types
  <2>2. \A b \in S!Burned : b \in minted' /\ chain'[b] = NoSub
    BY <1>1, <2>1, ChainFacts, SubIsSome
  <2> QED
    BY <2>2 DEF S!Burned, S!Live
<1>2. CASE ~ChainStep
  <2>1. UNCHANGED <<chain, minted>>
    <3>1. CASE Handler
      BY <3>1, HandlerKeeps DEF Others
    <3>2. CASE \E v \in VmIds : SuspendVm(v)
      BY <3>2, SuspendFacts DEF Others
    <3>3. CASE UNCHANGED vars
      BY <3>3 DEF vars, chainVars
    <3> QED
      BY <1>2, <3>1, <3>2, <3>3, TickFacts, DequeueFacts, CrashFacts DEF Next, Poll, chainVars
  <2> QED
    BY <2>1 DEF S!Burned, S!Live
<1> QED
  BY <1>1, <1>2

(* Only a poll adds to the events that wait.                                 *)
LEMMA WaitingShrinks == Base /\ [Next]_vars /\ ~Poll => Waiting' \subseteq Waiting
<1> SUFFICES ASSUME Base, [Next]_vars, ~Poll PROVE Waiting' \subseteq Waiting
  OBVIOUS
<1>1. UNCHANGED <<queue, job>> => Waiting' = Waiting
  BY DEF Waiting, Queued, Elems
<1>2. CASE \E v \in VmIds : SuspendVm(v)
  BY <1>1, <1>2, SuspendFacts DEF Others
<1>3. CASE UNCHANGED vars
  BY <1>1, <1>3 DEF vars, pollVars
<1> QED
  BY <1>1, <1>2, <1>3, ChainFacts, TickFacts, DequeueFacts, HandlerEvents, CrashFacts DEF Next

LEMMA RemovedStep ==
    ASSUME MayMiss = FALSE
    PROVE  Base /\ Books /\ RemovedAreBurned /\ [Next]_vars => RemovedAreBurned'
<1> SUFFICES ASSUME Base, Books, RemovedAreBurned, [Next]_vars PROVE RemovedAreBurned'
  OBVIOUS
<1>1. CASE ~Poll
  BY <1>1, BurnedStays, WaitingShrinks DEF RemovedAreBurned
<1>2. CASE Poll
  <2>1. Waiting' = Scanned(S!Live) /\ UNCHANGED <<chain, minted>>
    BY <1>2, PollBooks
  <2>2. \A e \in Scanned(S!Live) : e.type = "removed" =>
            e.beacon \in Beacons \ S!Live /\ known[e.beacon] # NoSub
    BY EventsOfScan, SubIsSome DEF Scanned, Base
  <2>3. \A e \in Scanned(S!Live) : e.type = "removed" => e.beacon \in S!Burned
    BY <2>2 DEF Books, KnownIsBehind, S!Burned
  <2> QED
    BY <2>1, <2>3 DEF RemovedAreBurned, S!Burned, S!Live
<1> QED
  BY <1>1, <1>2

(* Only handleSubscriptionRemoved takes a VM away.                           *)
LEMMA OnlyDestroyEnds ==
    ASSUME Base, [Next]_vars, NEW v \in Running, vms'[v] = NoVm
    PROVE  DestroyVm /\ v \in Lookup(job.event.beacon)
<1>1. v \in VmIds /\ vms[v] # NoVm
  BY DEF Running
<1>2. ASSUME NEW w, NEW r, VmOK(r), Becomes(w, r) PROVE FALSE
  BY <1>1, <1>2, VmIsSome DEF Becomes
<1>3. vms' # vms
  BY <1>1
<1>4. CASE Handler
  <2>1. ~CreateVm /\ ~Allocate
    BY <1>2, <1>3, CreateFacts, AllocateFacts
  <2>2. ~RecordBeacon /\ ~MintNft /\ ~MarkMinted
    BY <1>2, <1>3, RecordOutcome, MintOutcome, MarkOutcome
  <2>3. ~ExtendVm /\ ~ResumeVm
    BY <1>2, <1>3, ExtendOutcome, ResumeOutcome
  <2>4. DestroyVm
    BY <1>4, <2>1, <2>2, <2>3 DEF Handler
  <2> QED
    BY <1>1, <1>3, <2>4, DestroyOutcome DEF Becomes
<1>5. ~\E w \in VmIds : SuspendVm(w)
  BY <1>2, SuspendFacts
<1>6. CASE UNCHANGED vars
  BY <1>3, <1>6 DEF vars
<1> QED
  BY <1>3, <1>4, <1>5, <1>6, ChainFacts, TickFacts, DequeueFacts, CrashFacts DEF Next, Poll

(* handlers 562-621: with complete answers only a burned subscription costs  *)
(* its VM, whatever fails or dies.                                           *)
THEOREM OnlyBurnedAreDestroyed ==
    ASSUME MayMiss = FALSE, OneSubscriptionEach
    PROVE  Spec => DestroyedOnlyAfterBurn
<1>1. Init => Base /\ Books /\ RemovedAreBurned
  <2>1. Init => RemovedAreBurned
    BY DEF Init, RemovedAreBurned, Waiting, Queued, Elems
  <2> QED
    BY <2>1, InitBase, InitBooks
<1>2. Base /\ Books /\ RemovedAreBurned /\ [Next]_vars => (Base /\ Books /\ RemovedAreBurned)'
  BY BaseStep, BooksStep, RemovedStep
<1>3. Base /\ RemovedAreBurned /\ [Next]_vars =>
        [\A v \in VmIds : vms[v] # NoVm /\ vms'[v] = NoVm => vms[v].for \in S!Burned]_vars
  <2> SUFFICES ASSUME Base, RemovedAreBurned, [Next]_vars,
                      NEW v \in VmIds, vms[v] # NoVm, vms'[v] = NoVm
               PROVE  vms[v].for \in S!Burned
    OBVIOUS
  <2>1. DestroyVm /\ v \in Lookup(job.event.beacon)
    BY OnlyDestroyEnds DEF Running
  <2>2. /\ job # Idle /\ job \in JobSet /\ job.step = "destroy" /\ job.event.type = "removed"
        /\ job.event.beacon \in Beacons
    BY <2>1, AtJob, JobFields DEF DestroyVm
  <2>3. job.event.beacon \in S!Burned
    BY <2>2 DEF RemovedAreBurned, Waiting, FirstSteps
  <2> QED
    BY <2>1, <2>2, <2>3, LookupFor
<1> QED
  BY <1>1, <1>2, <1>3, PTL DEF Spec, DestroyedOnlyAfterBurn

-----------------------------------------------------------------------------
(* Records                                                                   *)

(* The beacons reported as created and not written to a record yet.          *)
Unrecorded ==
    {e.beacon : e \in {w \in Waiting : w.type = "created"}}
        \cup (IF job # Idle /\ job.step = "record" THEN {job.event.beacon} ELSE {})

(* The next scan will not report b as created.                               *)
Remembered(b) == b \in minted /\ (chain[b] # NoSub => known[b] # NoSub)

RecordsRemembered ==
    \A v \in Running : vms[v].beacon # NoBeacon =>
        Remembered(vms[v].beacon) /\ vms[v].beacon \notin Unrecorded

Records == RecordsRemembered /\ UniqueBeaconRecord

(* v's record has the beacon it had, or none.                                *)
NoNewBeacon(v) ==
    vms'[v].beacon = NoBeacon \/ (v \in Running /\ vms'[v].beacon = vms[v].beacon)

LEMMA RecordsKept ==
    ASSUME Records, UNCHANGED <<chain, minted, known>>, Unrecorded' \subseteq Unrecorded,
           \A v \in Running' : NoNewBeacon(v)
    PROVE  Records'
<1>1. RecordsRemembered'
  BY DEF Records, RecordsRemembered, Remembered, NoNewBeacon
<1>2. UniqueBeaconRecord'
  BY DEF Records, UniqueBeaconRecord, NoNewBeacon
<1> QED
  BY <1>1, <1>2 DEF Records

LEMMA SameBeacon ==
    ASSUME NEW v \in Running, NEW r, VmOK(r), Becomes(v, r), r.beacon = vms[v].beacon
    PROVE  \A u \in Running' : NoNewBeacon(u)
BY VmIsSome DEF Becomes, Running, NoNewBeacon

(* Only RecordBeacon writes a beacon to a record.                            *)
LEMMA HandlerRecords ==
    ASSUME Base, Handler, ~RecordBeacon
    PROVE  \A v \in Running' : NoNewBeacon(v)
<1>1. CASE vms' = vms
  BY <1>1 DEF Running, NoNewBeacon
<1>2. CASE CreateVm
  BY <1>1, <1>2, CreateFacts DEF Becomes, Running, NoNewBeacon
<1>3. CASE MintNft
  BY <1>1, <1>3, MintOutcome, SameBeacon DEF Same
<1>4. CASE MarkMinted
  BY <1>1, <1>4, MarkOutcome, SameBeacon DEF Same
<1>5. CASE ExtendVm
  BY <1>1, <1>5, ExtendOutcome, SameBeacon DEF Lookup
<1>6. CASE ResumeVm
  BY <1>1, <1>6, ResumeOutcome, SameBeacon DEF Same
<1>7. CASE DestroyVm
  BY <1>1, <1>7, DestroyOutcome DEF Becomes, Running, NoNewBeacon
<1> QED
  BY <1>1, <1>2, <1>3, <1>4, <1>5, <1>6, <1>7, AllocateFacts DEF Handler

LEMMA HandlerUnrecorded ==
    ASSUME Base, Handler
    PROVE  /\ Unrecorded' \subseteq Unrecorded
           /\ RecordBeacon => /\ job.event.beacon \in Unrecorded
                              /\ job.event.beacon \notin Unrecorded'
<1>1. job # Idle /\ job \in JobSet /\ Waiting' \subseteq Waiting
  BY HandlerKeeps, HandlerEvents
<1>2. CASE CreateVm
  <2>1. /\ job.event \in Waiting /\ job.event.type = "created"
        /\ job' = Idle \/ (job' # Idle /\ job'.event = job.event)
    BY <1>1, <1>2, CreateFacts, JobFields, HandlerEvents DEF Waiting, FirstSteps
  <2> QED
    BY <1>1, <1>2, <2>1, CreateFacts, RecordOutcome DEF Unrecorded
<1>3. CASE ~CreateVm
  <2>1. job' = Idle \/ job'.step # "record"
    BY <1>3, AllocateFacts, RecordOutcome, MintOutcome, MarkOutcome, ExtendOutcome,
       ResumeOutcome, DestroyOutcome DEF Handler, GoesTo
  <2>2. Unrecorded' = {e.beacon : e \in {w \in Waiting' : w.type = "created"}}
    BY <2>1 DEF Unrecorded
  <2>3. CASE RecordBeacon
    <3>1. job.step = "record" /\ job' # Idle /\ job'.step = "mint" /\ Queued' = Queued
      BY <2>3, HandlerEvents, RecordOutcome DEF GoesTo
    <3>2. \A e \in Waiting' : e.beacon # job.event.beacon
      BY <1>1, <3>1 DEF Waiting, FirstSteps, Base, OneEventEach
    <3> QED
      BY <1>1, <2>2, <3>1, <3>2 DEF Unrecorded
  <2> QED
    BY <1>1, <2>2, <2>3 DEF Unrecorded
<1> QED
  BY <1>2, <1>3

LEMMA RecordRecords == ASSUME Base, Books, Records, RecordBeacon PROVE Records'
<1>1. /\ UNCHANGED <<chain, minted, known>> /\ job # Idle /\ job \in JobSet
      /\ Unrecorded' \subseteq Unrecorded
      /\ job.event.beacon \in Unrecorded /\ job.event.beacon \notin Unrecorded'
  BY HandlerKeeps, HandlerUnrecorded DEF Handler, Others
<1>2. CASE vms' = vms
  BY <1>1, <1>2, RecordsKept DEF Running, NoNewBeacon
<1>3. CASE vms' # vms
  <2>1. PICK r : /\ VmOK(r) /\ Becomes(job.vm, r)
                 /\ r.for = vms[job.vm].for /\ r.beacon = vms[job.vm].for
    BY <1>3, RecordOutcome
  <2>2. /\ job.step = "record" /\ job.vm \in Running /\ job.event \in EventSet
        /\ job.event.type = "created" /\ vms[job.vm].for = job.event.beacon
    BY <1>1, AtJob, JobFields DEF RecordBeacon, WithVm, Providing
  <2>3. \A v \in Running' : \/ v \in Running /\ vms'[v].beacon = vms[v].beacon /\ v # job.vm
                            \/ v = job.vm /\ vms'[v].beacon = job.event.beacon
    BY <2>1, <2>2 DEF Becomes, Running
  <2>4. \A v \in Running : vms[v].beacon # job.event.beacon \/ vms[v].beacon = NoBeacon
    BY <1>1 DEF Records, RecordsRemembered
  <2>5. Remembered(job.event.beacon)
    <3>1. known[job.event.beacon] = job.event.sub
      BY <1>1, <2>2 DEF Books, EventsCurrent, Current, Providing
    <3> QED
      BY <2>2, <3>1, EventFields, SubIsSome DEF Remembered, Books, KnownIsBehind
  <2>6. job.event.beacon # NoBeacon
    BY <2>2, EventFields, MonitorConstants
  <2>7. UniqueBeaconRecord'
    <3>1. ASSUME NEW v \in Running', NEW w \in Running',
                 vms'[v].beacon = vms'[w].beacon, vms'[v].beacon # NoBeacon
          PROVE  v = w
      BY <2>3, <2>4, <2>6, <3>1 DEF Records, UniqueBeaconRecord
    <3> QED
      BY <3>1 DEF UniqueBeaconRecord
  <2>8. RecordsRemembered'
    <3>1. \A b : Remembered(b) => Remembered(b)'
      BY <1>1 DEF Remembered
    <3>2. ASSUME NEW v \in Running', vms'[v].beacon # NoBeacon
          PROVE  (Remembered(vms[v].beacon) /\ vms[v].beacon \notin Unrecorded)'
      <4>1. PICK b : b = vms'[v].beacon
        OBVIOUS
      <4>2. Remembered(b) /\ b \notin Unrecorded'
        BY <1>1, <2>3, <2>5, <3>2, <4>1 DEF Records, RecordsRemembered
      <4> QED
        BY <3>1, <4>1, <4>2
    <3> QED
      BY <3>2 DEF RecordsRemembered
  <2> QED
    BY <2>7, <2>8 DEF Records
<1> QED
  BY <1>2, <1>3

LEMMA PollRecords == ASSUME MayMiss = FALSE, Base, Books, Records, Poll PROVE Records'
<1>1. /\ Waiting' = Scanned(S!Live)
      /\ \A b \in Beacons : b \in S!Live => known'[b] = chain[b]
      /\ UNCHANGED <<chain, minted, job, vms>> /\ job = Idle
  BY PollBooks
<1>2. Unrecorded' = {e.beacon : e \in {w \in Scanned(S!Live) : w.type = "created"}}
  BY <1>1 DEF Unrecorded
<1>3. \A b \in Unrecorded' : b \in S!Live /\ known[b] = NoSub
  BY <1>2, EventsOfScan DEF Scanned, Base
<1>4. \A b \in Beacons : Remembered(b) => Remembered(b)' /\ b \notin Unrecorded'
  BY <1>1, <1>3 DEF Remembered, S!Live
<1>5. Running' = Running /\ \A v \in Running : vms[v].beacon # NoBeacon => vms[v].beacon \in Beacons
  BY <1>1, RunningVm, VmIsSome DEF Running, Base
<1>6. RecordsRemembered'
  BY <1>1, <1>4, <1>5 DEF Records, RecordsRemembered, Remembered
<1> QED
  BY <1>1, <1>5, <1>6 DEF Records, UniqueBeaconRecord

LEMMA ChainRecords == ASSUME Base, Records, ChainStep PROVE Records'
<1>1. UNCHANGED <<known, queue, job, vms>> /\ Unrecorded' = Unrecorded /\ Running' = Running
  BY ChainFacts DEF Unrecorded, Waiting, Queued, Elems, Running
<1>2. \A b \in Beacons : Remembered(b) => Remembered(b)'
  BY <1>1, ChainFacts, SubIsSome DEF Remembered
<1>3. \A v \in Running : vms[v].beacon # NoBeacon => vms[v].beacon \in Beacons
  BY RunningVm, VmIsSome DEF Base
<1> QED
  BY <1>1, <1>2, <1>3 DEF Records, RecordsRemembered, UniqueBeaconRecord, Remembered

LEMMA CrashRecords == ASSUME Base, Records, Crash PROVE Records'
<1>1. Unrecorded' = {} /\ UNCHANGED <<chain, minted, vms>> /\ Running' = Running
  BY CrashFacts DEF Unrecorded, Running
<1>2. \A v \in Running : vms[v].beacon # NoBeacon => vms[v].beacon \in Beacons
  BY RunningVm, VmIsSome DEF Base
<1>3. \A v \in Running : vms[v].beacon # NoBeacon => known'[vms[v].beacon] # NoSub
  BY <1>2, CrashFacts, SubIsSome
<1> QED
  BY <1>1, <1>3 DEF Records, RecordsRemembered, UniqueBeaconRecord, Remembered

LEMMA RecordsStep ==
    ASSUME MayMiss = FALSE
    PROVE  Base /\ Books /\ Records /\ [Next]_vars => Records'
<1> SUFFICES ASSUME Base, Books, Records, [Next]_vars PROVE Records'
  OBVIOUS
<1> USE DEF Running, NoNewBeacon
<1>1. CASE UNCHANGED vars
  BY <1>1, RecordsKept DEF vars, chainVars, scannerVars, pollVars, Waiting, Queued, Elems,
                           Unrecorded
<1>2. CASE Tick
  BY <1>2, TickFacts, RecordsKept DEF Waiting, Queued, Elems, Unrecorded
<1>3. ASSUME NEW v \in VmIds, SuspendVm(v) PROVE Records'
  <2>1. PICK r : VmOK(r) /\ Becomes(v, r) /\ Same(vms[v], r)
    BY <1>3, SuspendFacts
  <2>2. v \in Running /\ UNCHANGED Others /\ UNCHANGED job
    BY <1>3, SuspendFacts
  <2>3. \A u \in Running' : NoNewBeacon(u)
    BY <2>1, <2>2, SameBeacon DEF Same
  <2> QED
    BY <2>2, <2>3, RecordsKept DEF Others, Waiting, Queued, Elems, Unrecorded
<1>4. CASE Dequeue
  <2>1. Unrecorded' \subseteq Unrecorded
    BY <1>4, DequeueFacts DEF Unrecorded, FirstSteps
  <2> QED
    BY <1>4, <2>1, DequeueFacts, RecordsKept
<1>5. CASE Handler /\ ~RecordBeacon
  BY <1>5, HandlerKeeps, HandlerRecords, HandlerUnrecorded, RecordsKept DEF Others
<1> QED
  BY <1>1, <1>2, <1>3, <1>4, <1>5, ChainRecords, PollRecords, RecordRecords, CrashRecords
     DEF Next, Handler

(* scanner.ts 97, handlers 346-349: with complete answers, a subscription is *)
(* never provisioned again once its beacon is on a VM record.                *)
THEOREM RecordsAreUnique == ASSUME MayMiss = FALSE PROVE Spec => []UniqueBeaconRecord
<1>1. Init => Base /\ Books /\ Records
  <2>1. Init => Records
    BY DEF Init, Records, RecordsRemembered, UniqueBeaconRecord, Running
  <2> QED
    BY <2>1, InitBase, InitBooks
<1>2. Base /\ Books /\ Records /\ [Next]_vars => (Base /\ Books /\ Records)'
  BY BaseStep, BooksStep, RecordsStep
<1>3. Records => UniqueBeaconRecord
  BY DEF Records
<1> QED
  BY <1>1, <1>2, <1>3, PTL DEF Spec

-----------------------------------------------------------------------------
(* AllProvisioned                                                            *)

(* Ids from the counter on are unused, and so is the one just taken.         *)
Fresh ==
    /\ \A v \in VmIds : v >= nextVm => vms[v] = NoVm
    /\ job # Idle /\ job.step = "create" => vms[job.vm] = NoVm /\ job.vm < nextVm

(* No process has died yet: the map holds no placeholder, so neither does an *)
(* event.                                                                    *)
Paid ==
    /\ \A b \in Beacons : chain[b] # NoSub => chain[b].expiry > 0
    /\ crashes = 0 =>
          /\ \A b \in Beacons : known[b] # NoSub => known[b].expiry > 0
          /\ \A b \in Beacons : pending[b] # NotPending => pending[b].sub.expiry > 0
          /\ \A e \in Waiting :
                e.sub.expiry > 0 /\ (e.type = "extended" => e.old.expiry > 0)

(* ... and the map tells boxes apart by their ids.                           *)
SameBox ==
    crashes = 0 => \A b \in Beacons : chain[b] # NoSub /\ known[b] # NoSub =>
        /\ known[b].id <= chain[b].id
        /\ known[b].id = chain[b].id => known[b] = chain[b]

VmsOf(b) == {v \in Running : vms[v].for = b}

Served(b, n) ==
    \E v \in Running :
        /\ VmsOf(b) = {v}
        /\ vms[v].beacon = b /\ vms[v].nft = "recorded" /\ vms[v].expiry = n

BeingServed(b) == job # Idle /\ job.step \in Providing /\ job.event.beacon = b

(* What the database holds for b, by how far b's events have come.           *)
Provisioned(b) ==
    /\ known[b] = NoSub /\ b \notin S!Burned => VmsOf(b) = {}
    /\ \A e \in Waiting : e.beacon = b =>
          /\ e.type = "created" => VmsOf(b) = {}
          /\ e.type = "extended" => Served(b, e.old.expiry)
          /\ e.type = "removed" => known[b] = NoSub /\ \E n \in Int : Served(b, n)
    /\ BeingServed(b) =>
          /\ VmsOf(b) = {job.vm} /\ vms[job.vm].expiry = known[b].expiry
          /\ job.step # "record" => vms[job.vm].beacon = b
    /\ known[b] # NoSub /\ ~BeingServed(b) /\ (\A e \in Waiting : e.beacon # b) =>
          Served(b, known[b].expiry)

AllProvisioned == faults = 0 /\ crashes = 0 => \A b \in Beacons : Provisioned(b)

LEMMA FreshStep == Base /\ Fresh /\ [Next]_vars => Fresh'
<1> SUFFICES ASSUME Base, Fresh, [Next]_vars PROVE Fresh'
  OBVIOUS
<1> USE DEF Fresh
<1>1. nextVm \in Nat /\ VmIds \subseteq Nat /\ Running \subseteq VmIds
  BY VmIdsAreNat DEF Base, Types, Running
<1>2. CASE vms' = vms /\ nextVm' = nextVm /\ job' \in {job, Idle}
  BY <1>2
(* A step that changes a running VM, or removes it.                          *)
<1>3. ASSUME NEW v \in Running, NEW r, Becomes(v, r), nextVm' = nextVm,
             job' = Idle \/ job'.step # "create"
      PROVE  Fresh'
  BY <1>1, <1>3 DEF Becomes, Running
<1>4. CASE Allocate
  BY <1>1, <1>4, AllocateFacts DEF GoesTo
<1>5. CASE CreateVm
  <2>1. job # Idle /\ job.step = "create" /\ job.vm \in VmIds /\ nextVm' = nextVm
    BY <1>5, CreateFacts, AtJob DEF CreateVm
  <2>2. CASE vms' = vms /\ job' = Idle
    BY <1>2, <2>1, <2>2
  <2>3. ASSUME GoesTo("record", job.vm), NEW r, Becomes(job.vm, r) PROVE Fresh'
    BY <1>1, <2>1, <2>3 DEF GoesTo, Becomes
  <2> QED
    BY <1>5, <2>2, <2>3, CreateFacts
<1>6. CASE RecordBeacon
  BY <1>3, <1>6, RecordOutcome DEF GoesTo
<1>7. CASE MintNft
  BY <1>2, <1>3, <1>7, MintOutcome DEF GoesTo
<1>8. CASE MarkMinted
  BY <1>2, <1>3, <1>8, MarkOutcome
<1>9. CASE ExtendVm
  BY <1>2, <1>3, <1>9, ExtendOutcome DEF GoesTo, Lookup
<1>10. CASE ResumeVm
  BY <1>2, <1>3, <1>10, ResumeOutcome
<1>11. CASE DestroyVm
  BY <1>2, <1>3, <1>11, DestroyOutcome DEF Lookup
<1>12. ASSUME NEW v \in VmIds, SuspendVm(v) PROVE Fresh'
  <2>1. PICK r : VmOK(r) /\ Becomes(v, r)
    BY <1>12, SuspendFacts
  <2>2. v \in Running /\ vms[v] # NoVm /\ UNCHANGED <<job, nextVm>>
    BY <1>12, SuspendFacts DEF Running
  <2> QED
    BY <1>1, <2>1, <2>2 DEF Becomes, Base, JobTyped
<1>13. CASE Dequeue
  BY <1>13, DequeueFacts DEF FirstSteps
<1>14. CASE UNCHANGED vars
  BY <1>2, <1>14 DEF vars, pollVars
<1> QED
  BY <1>2, <1>4, <1>5, <1>6, <1>7, <1>8, <1>9, <1>10, <1>11, <1>12, <1>13, <1>14,
     ChainFacts, TickFacts, CrashFacts DEF Next, Handler, Poll

LEMMA PaidStep == Base /\ Books /\ Paid /\ [Next]_vars => Paid'
<1> SUFFICES ASSUME Base, Books, Paid, [Next]_vars PROVE Paid'
  OBVIOUS
<1>1. CASE UNCHANGED <<chain, known, pending, crashes>> /\ Waiting' \subseteq Waiting
  BY <1>1 DEF Paid
<1>2. CASE Handler
  BY <1>1, <1>2, HandlerKeeps, HandlerEvents DEF Others
<1>3. CASE \E v \in VmIds : SuspendVm(v)
  BY <1>1, <1>3, SuspendFacts DEF Others, Waiting, Queued, Elems
<1>4. CASE UNCHANGED vars
  BY <1>1, <1>4 DEF vars, chainVars, scannerVars, pollVars, Waiting, Queued, Elems
<1>5. CASE Dequeue
  BY <1>1, <1>5, DequeueFacts
<1>6. CASE Tick
  <2>1. Waiting' = Waiting /\ UNCHANGED <<chain, known, crashes>>
    BY <1>6, TickFacts DEF Waiting, Queued, Elems
  <2>2. \A b \in Beacons : pending'[b] # NotPending =>
            pending[b] # NotPending /\ pending'[b].sub = pending[b].sub
    BY <1>6, TickFacts
  <2> QED
    BY <2>1, <2>2 DEF Paid
<1>7. CASE ChainStep
  <2>1. Waiting' = Waiting /\ UNCHANGED <<known, pending, crashes>>
    BY <1>7, ChainFacts DEF Waiting, Queued, Elems
  <2>2. ASSUME NEW b \in Beacons, chain'[b] # NoSub PROVE chain'[b].expiry > 0
    <3>1. CASE chain'[b] \in S!Sub /\ chain[b] \in S!Sub /\ chain'[b].expiry >= chain[b].expiry
      BY <3>1, SubIsSome DEF Paid, S!Sub
    <3> QED
      BY <1>7, <2>2, <3>1, ChainFacts DEF Paid
  <2> QED
    BY <2>1, <2>2 DEF Paid
<1>8. CASE Crash
  BY <1>8, CrashFacts DEF Paid, Base, Types
<1>9. CASE Poll /\ crashes = 0
  <2>1. PICK seen \in SUBSET S!Live :
           /\ Waiting' = Scanned(seen) /\ S!UpdateMaps(seen)
           /\ \A b \in Beacons : \/ b \in seen /\ known'[b] = chain[b]
                                 \/ b \notin seen /\ known'[b] \in {known[b], NoSub}
    BY <1>9, PollBooks
  <2>2. /\ \A b \in Beacons : chain[b] # NoSub => chain[b].expiry > 0
        /\ \A b \in Beacons : known[b] # NoSub => known[b].expiry > 0
        /\ \A b \in Beacons : pending[b] # NotPending => pending[b].sub.expiry > 0
    BY <1>9 DEF Paid
  <2>3. UNCHANGED <<chain, crashes>>
    BY <1>9, PollBooks
  <2>4. ASSUME NEW b \in Beacons, pending'[b] # NotPending PROVE pending'[b].sub.expiry > 0
    <3>1. pending'[b] = S!PendingAfter(seen)[b]
      BY <2>1 DEF S!UpdateMaps
    <3>2. \/ known[b] \in S!Sub /\ pending'[b].sub = known[b]
          \/ pending[b] # NotPending /\ pending'[b].sub = pending[b].sub
      BY <2>4, <3>1, PendingFacts DEF Base
    <3> QED
      BY <2>2, <3>2, SubIsSome
  <2>5. ASSUME NEW e \in Waiting'
        PROVE  e.sub.expiry > 0 /\ (e.type = "extended" => e.old.expiry > 0)
    <3>1. seen \subseteq Beacons /\ \A b \in seen : chain[b] # NoSub
      BY DEF S!Live
    <3> QED
      BY <2>1, <2>2, <3>1, EventsOfScan, SubIsSome DEF Scanned, Base
  <2> QED
    BY <2>1, <2>2, <2>3, <2>4, <2>5, SubIsSome DEF Paid, S!Live
<1>10. CASE Poll /\ crashes # 0
  BY <1>10 DEF Paid, Poll, chainVars
<1> QED
  BY <1>2, <1>3, <1>4, <1>5, <1>6, <1>7, <1>8, <1>9, <1>10 DEF Next

LEMMA SameBoxStep == Base /\ Books /\ SameBox /\ [Next]_vars => SameBox'
<1> SUFFICES ASSUME Base, Books, SameBox, [Next]_vars PROVE SameBox'
  OBVIOUS
<1>1. CASE UNCHANGED <<chain, known, crashes>>
  BY <1>1 DEF SameBox
<1>2. CASE \E v \in VmIds : SuspendVm(v)
  BY <1>1, <1>2, SuspendFacts DEF Others
<1>3. CASE ChainStep
  <2>1. \A b \in Beacons : known[b] # NoSub => b \in minted
    BY DEF Books, KnownIsBehind
  <2>2. ASSUME crashes = 0, NEW b \in Beacons, chain'[b] # NoSub, known[b] # NoSub
        PROVE  known[b].id <= chain'[b].id /\ (known[b].id = chain'[b].id => known[b] = chain'[b])
    <3>1. CASE chain'[b] = chain[b]
      BY <2>2, <3>1 DEF SameBox
    <3>2. CASE chain[b] \in S!Sub /\ chain'[b].id = chain[b].id + 1
      <4>1. known[b].id <= chain[b].id /\ known[b].id \in Nat /\ chain[b].id \in Nat
        BY <2>2, <3>2, SubIsSome DEF SameBox, Base, Types, S!Sub
      <4> QED
        BY <3>2, <4>1
    <3> QED
      BY <1>3, <2>1, <2>2, <3>1, <3>2, ChainFacts
  <2> QED
    BY <1>3, <2>2, ChainFacts DEF SameBox
<1>4. CASE Poll
  <2>1. PICK seen \in SUBSET S!Live :
           \A b \in Beacons : \/ b \in seen /\ known'[b] = chain[b]
                              \/ b \notin seen /\ known'[b] \in {known[b], NoSub}
    BY <1>4, PollBooks
  <2>2. \A b \in Beacons : chain[b] # NoSub => chain[b].id \in Nat
    BY DEF Base, Types, S!Sub
  <2> QED
    BY <1>4, <2>1, <2>2, PollBooks DEF SameBox
<1>5. CASE Crash
  BY <1>5, CrashFacts DEF SameBox, Base, Types
<1>6. CASE UNCHANGED vars
  BY <1>1, <1>6 DEF vars, chainVars, scannerVars
<1> QED
  BY <1>1, <1>2, <1>3, <1>4, <1>5, <1>6, TickFacts, DequeueFacts, HandlerKeeps DEF Next, Others

(* What is left alone when a step is about another beacon.                   *)
SameVmsOf(b) ==
    /\ VmsOf(b)' = VmsOf(b)
    /\ \A v \in VmsOf(b) : Same(vms[v], vms'[v]) /\ vms'[v].nft = vms[v].nft

LEMMA ServedKept == ASSUME NEW b, NEW n, SameVmsOf(b), Served(b, n) PROVE Served(b, n)'
<1>1. PICK v \in Running :
        /\ VmsOf(b) = {v}
        /\ vms[v].beacon = b /\ vms[v].nft = "recorded" /\ vms[v].expiry = n
  BY DEF Served
<1>2. VmsOf(b)' = {v} /\ v \in VmsOf(b)'
  BY <1>1 DEF SameVmsOf
<1>3. v \in Running'
  BY <1>2 DEF VmsOf
<1>4. vms'[v].beacon = b /\ vms'[v].nft = "recorded" /\ vms'[v].expiry = n
  BY <1>1 DEF SameVmsOf, Same
<1> QED
  BY <1>2, <1>3, <1>4 DEF Served

LEMMA ProvisionedKept ==
    ASSUME NEW b \in Beacons, Provisioned(b), SameVmsOf(b), known'[b] = known[b],
           b \notin S!Burned' => b \notin S!Burned,
           \A e : e.beacon = b => (e \in Waiting' <=> e \in Waiting),
           BeingServed(b)' <=> BeingServed(b), BeingServed(b) => job' = job
    PROVE  Provisioned(b)'
<1>1. \A n : Served(b, n) => Served(b, n)'
  BY ServedKept
<1>2. \A e \in Waiting' : e.beacon = b => e \in Waiting
  OBVIOUS
<1>3. known'[b] = NoSub /\ b \notin S!Burned' => VmsOf(b)' = {}
  BY DEF Provisioned, SameVmsOf
<1>4. ASSUME NEW e \in Waiting', e.beacon = b
      PROVE  /\ e.type = "created" => VmsOf(b)' = {}
             /\ e.type = "extended" => Served(b, e.old.expiry)'
             /\ e.type = "removed" => known'[b] = NoSub /\ \E n \in Int : Served(b, n)'
  BY <1>1, <1>2, <1>4 DEF Provisioned, SameVmsOf
<1>5. ASSUME BeingServed(b)'
      PROVE  /\ VmsOf(b)' = {job'.vm} /\ vms'[job'.vm].expiry = known'[b].expiry
             /\ job'.step # "record" => vms'[job'.vm].beacon = b
  <2>1. /\ job' = job /\ VmsOf(b) = {job.vm} /\ vms[job.vm].expiry = known[b].expiry
        /\ job.step # "record" => vms[job.vm].beacon = b
    BY <1>5 DEF Provisioned
  <2> QED
    BY <2>1 DEF SameVmsOf, Same
<1>6. ASSUME known'[b] # NoSub, ~BeingServed(b)', \A e \in Waiting' : e.beacon # b
      PROVE  Served(b, known[b].expiry)'
  BY <1>1, <1>6 DEF Provisioned
<1>7. Served(b, known[b].expiry)' => \A n : n = known'[b].expiry => Served(b, n)'
  BY DEF Served
<1> QED
  BY <1>3, <1>4, <1>5, <1>6, <1>7 DEF Provisioned

(* VM v of beacon b, or an unused v, becomes r, of b or none.                *)
LEMMA OneChanges ==
    ASSUME Base, NEW v \in VmIds, NEW r, Becomes(v, r), NEW b \in Beacons,
           vms[v] = NoVm \/ vms[v].for = b, r = NoVm \/ (VmOK(r) /\ r.for = b)
    PROVE  /\ \A a : a # b => SameVmsOf(a)
           /\ VmsOf(b)' = IF r = NoVm THEN VmsOf(b) \ {v} ELSE VmsOf(b) \cup {v}
           /\ \A u \in Running : u # v => vms'[u] = vms[u]
<1>1. \A u \in Running : u \in VmIds /\ vms[u] # NoVm
  BY DEF Running
<1>2. \A a : a # b => VmsOf(a)' = VmsOf(a)
  BY <1>1, VmIsSome DEF Becomes, VmsOf
<1>3. \A a : a # b => \A u \in VmsOf(a) : u # v /\ vms'[u] = vms[u]
  BY <1>1 DEF Becomes, VmsOf
<1>4. VmsOf(b)' = IF r = NoVm THEN VmsOf(b) \ {v} ELSE VmsOf(b) \cup {v}
  BY <1>1, VmIsSome DEF Becomes, VmsOf
<1> QED
  BY <1>1, <1>2, <1>3, <1>4 DEF SameVmsOf, Same, Becomes

(* A served subscription's VM is the only one a lookup finds.                *)
LEMMA LookupServed ==
    ASSUME Base, NEW b \in Beacons, NEW n, Served(b, n)
    PROVE  \E v \in Running :
              /\ Lookup(b) = {v} /\ VmsOf(b) = {v}
              /\ vms[v].for = b /\ vms[v].beacon = b
              /\ vms[v].nft = "recorded" /\ vms[v].expiry = n
<1>1. PICK v \in Running :
        /\ VmsOf(b) = {v}
        /\ vms[v].beacon = b /\ vms[v].nft = "recorded" /\ vms[v].expiry = n
  BY DEF Served
<1>2. \A w \in Running : vms[w].beacon = b => w \in VmsOf(b)
  BY RunningVm, VmIsSome, MonitorConstants DEF VmsOf, Base
<1>3. Lookup(b) = {v}
  BY <1>1, <1>2 DEF Lookup
<1>4. vms[v].for = b
  BY <1>1 DEF VmsOf
<1> QED
  BY <1>1, <1>3, <1>4

(* The beacons a handler's step is not about.                                *)
LEMMA OthersKept ==
    ASSUME Base, Handler, NEW a \in Beacons, a # job.event.beacon, SameVmsOf(a), Provisioned(a)
    PROVE  Provisioned(a)'
<1>1. /\ UNCHANGED <<chain, minted, known, queue>> /\ job # Idle
      /\ job' = Idle \/ (job' # Idle /\ job'.event = job.event)
      /\ Queued' = Queued
  BY HandlerKeeps, HandlerEvents DEF Others
<1>2. \A e : e.beacon = a => (e \in Waiting' <=> e \in Waiting)
  BY <1>1 DEF Waiting
<1>3. ~BeingServed(a) /\ ~BeingServed(a)'
  BY <1>1 DEF BeingServed
<1>4. S!Burned' = S!Burned
  BY <1>1 DEF S!Burned, S!Live
<1> QED
  BY <1>1, <1>2, <1>3, <1>4, ProvisionedKept

(* The event under way has been dealt with: b has what its map entry says.   *)
LEMMA NowServed ==
    ASSUME Base, Handler, NEW b, b = job.event.beacon, job.event \notin Waiting',
           ~BeingServed(b)', known[b] # NoSub, NEW v \in Running',
           VmsOf(b)' = {v}, vms'[v].beacon = b, vms'[v].nft = "recorded",
           vms'[v].expiry = known[b].expiry
    PROVE  Provisioned(b)'
<1>1. known' = known /\ job # Idle
  BY HandlerKeeps DEF Others
<1>2. \A e \in Waiting' : e.beacon # b
  BY <1>1, HandlerEvents, OnlyEvent
<1>3. Served(b, known[b].expiry)'
  BY <1>1 DEF Served
<1> QED
  BY <1>1, <1>2, <1>3 DEF Provisioned, Served

(* A creation is under way from its VM on.                                   *)
LEMMA NowBeingServed ==
    ASSUME Base, Handler, NEW b, b = job.event.beacon, known[b] # NoSub,
           job' # Idle, job'.event = job.event, job'.step \in Providing,
           VmsOf(b)' = {job'.vm}, vms'[job'.vm].expiry = known[b].expiry,
           job'.step # "record" => vms'[job'.vm].beacon = b
    PROVE  Provisioned(b)'
<1>1. known' = known /\ job # Idle /\ Queued' = Queued
  BY HandlerKeeps, HandlerEvents DEF Others
<1>2. Waiting' = Queued
  BY <1>1 DEF Waiting, FirstSteps, Providing
<1>3. \A e \in Waiting' : e.beacon # b
  BY <1>1, <1>2 DEF Base, OneEventEach
<1>4. BeingServed(b)'
  BY DEF BeingServed
<1> QED
  BY <1>1, <1>3, <1>4 DEF Provisioned

LEMMA HandlerProvisioned ==
    ASSUME Base, Books, Fresh, Paid, faults = 0, crashes = 0, UNCHANGED faults,
           \A a \in Beacons : Provisioned(a), Handler
    PROVE  (\A a \in Beacons : Provisioned(a))'
<1>1. /\ UNCHANGED <<chain, minted, known>> /\ job # Idle /\ job \in JobSet
      /\ job.event \in EventSet /\ ~Failing
  BY HandlerKeeps, JobFields DEF Others, Failing
<1> DEFINE e == job.event
<1>2. PICK b \in Beacons : b = e.beacon
  BY <1>1, EventFields
<1>3. SUFFICES (\A a \in Beacons : a # b => SameVmsOf(a)) /\ Provisioned(b)'
  BY <1>1, <1>2, OthersKept
<1>4. \A a : vms' = vms => SameVmsOf(a)
  BY DEF SameVmsOf, VmsOf, Running, Same
<1>5. e.type # "removed" => known[b] = e.sub \/ ~(e \in Waiting \/ BeingServed(b))
  BY <1>1, <1>2 DEF Books, EventsCurrent, Current, BeingServed
<1>6. NoSub \notin S!Sub /\ e.sub \in S!Sub
  BY <1>1, SubIsSome, EventFields
<1>7. CASE Allocate
  <2>1. GoesTo("create", nextVm) /\ vms' = vms /\ job.step = "allocate"
    BY <1>1, <1>7, AllocateFacts
  <2>2. Waiting' = Waiting /\ ~BeingServed(b) /\ ~BeingServed(b)'
    BY <1>1, <2>1, HandlerEvents DEF GoesTo, Waiting, FirstSteps, BeingServed, Providing
  <2>3. Provisioned(b)'
    BY <1>1, <1>4, <2>1, <2>2, ProvisionedKept DEF S!Burned, S!Live
  <2> QED
    BY <1>4, <2>1, <2>3
<1>8. CASE CreateVm
  <2>1. PICK r : /\ VmOK(r) /\ Becomes(job.vm, r) /\ r.for = b
                 /\ r.expiry = e.sub.expiry /\ GoesTo("record", job.vm)
    BY <1>1, <1>2, <1>8, CreateFacts
  <2>2. /\ job.step = "create" /\ e.type = "created" /\ e \in Waiting
        /\ job.vm \in VmIds /\ vms[job.vm] = NoVm
    BY <1>1, <1>8, CreateFacts, JobFields DEF Waiting, FirstSteps, Fresh
  <2>3. VmsOf(b) = {} /\ known[b] = e.sub
    BY <1>2, <1>5, <2>2 DEF Provisioned
  <2>4. /\ \A a : a # b => SameVmsOf(a)
        /\ VmsOf(b)' = {job.vm}
    BY <2>1, <2>2, <2>3, VmIsSome, OneChanges
  <2>5. job'.vm = job.vm /\ vms'[job.vm].expiry = known[b].expiry
        /\ job' # Idle /\ job'.event = e /\ job'.step = "record"
    BY <2>1, <2>3 DEF GoesTo, Becomes
  <2>6. Provisioned(b)'
    BY <1>2, <1>6, <1>8, <2>3, <2>4, <2>5, NowBeingServed DEF Providing
  <2> QED
    BY <2>4, <2>6
(* The other steps of a creation.                                            *)
<1>9. ASSUME job.step \in Providing
      PROVE  /\ BeingServed(b) /\ VmsOf(b) = {job.vm} /\ vms[job.vm].for = b
             /\ vms[job.vm].expiry = known[b].expiry
             /\ job.step # "record" => vms[job.vm].beacon = b
             /\ known[b] # NoSub /\ e \notin Waiting' /\ job.vm \in VmIds
  <2>1. BeingServed(b)
    BY <1>1, <1>2, <1>9 DEF BeingServed
  <2>2. VmsOf(b) = {job.vm} /\ vms[job.vm].expiry = known[b].expiry
        /\ (job.step # "record" => vms[job.vm].beacon = b)
    BY <2>1 DEF Provisioned
  <2>3. known[b] = e.sub
    BY <1>1, <1>5, <1>9, <2>1, JobFields
  <2>4. e \notin Waiting'
    BY <1>9, HandlerEvents, AllocateFacts DEF Providing
  <2>5. vms[job.vm].for = b /\ job.vm \in VmIds
    BY <2>2 DEF VmsOf, Running
  <2> QED
    BY <1>6, <2>1, <2>2, <2>3, <2>4, <2>5
<1>10. CASE RecordBeacon
  <2>1. PICK r : /\ VmOK(r) /\ Becomes(job.vm, r)
                 /\ r.for = vms[job.vm].for /\ r.beacon = vms[job.vm].for
                 /\ r.expiry = vms[job.vm].expiry
    BY <1>1, <1>10, RecordOutcome
  <2>2. job.step = "record" /\ GoesTo("mint", job.vm)
    BY <1>10, RecordOutcome
  <2>3. /\ \A a : a # b => SameVmsOf(a)
        /\ VmsOf(b)' = {job.vm}
    BY <1>9, <2>1, <2>2, VmIsSome, OneChanges DEF Providing
  <2>4. /\ job'.vm = job.vm /\ job' # Idle /\ job'.event = e /\ job'.step = "mint"
        /\ vms'[job.vm].expiry = known[b].expiry /\ vms'[job.vm].beacon = b
    BY <1>9, <2>1, <2>2 DEF GoesTo, Becomes, Providing
  <2>5. Provisioned(b)'
    BY <1>2, <1>9, <1>10, <2>2, <2>3, <2>4, NowBeingServed DEF Providing, Handler
  <2> QED
    BY <2>3, <2>5
<1>11. CASE MintNft
  <2>1. PICK r : VmOK(r) /\ Becomes(job.vm, r) /\ Same(vms[job.vm], r)
    BY <1>1, <1>11, MintOutcome
  <2>2. job.step = "mint" /\ GoesTo("mark", job.vm)
    BY <1>1, <1>11, MintOutcome
  <2>3. /\ \A a : a # b => SameVmsOf(a)
        /\ VmsOf(b)' = {job.vm}
    BY <1>9, <2>1, <2>2, VmIsSome, OneChanges DEF Providing, Same
  <2>4. /\ job'.vm = job.vm /\ job' # Idle /\ job'.event = e /\ job'.step = "mark"
        /\ vms'[job.vm].expiry = known[b].expiry /\ vms'[job.vm].beacon = b
    BY <1>9, <2>1, <2>2 DEF GoesTo, Becomes, Providing, Same
  <2>5. Provisioned(b)'
    BY <1>2, <1>9, <1>11, <2>2, <2>3, <2>4, NowBeingServed DEF Providing, Handler
  <2> QED
    BY <2>3, <2>5
<1>12. CASE MarkMinted
  <2>1. PICK r : /\ VmOK(r) /\ Becomes(job.vm, r) /\ Same(vms[job.vm], r)
                 /\ r.nft = "recorded"
    BY <1>1, <1>12, MarkOutcome
  <2>2. job.step = "mark" /\ job' = Idle
    BY <1>1, <1>12, MarkOutcome
  <2>3. /\ \A a : a # b => SameVmsOf(a)
        /\ VmsOf(b)' = {job.vm}
    BY <1>9, <2>1, <2>2, VmIsSome, OneChanges DEF Providing, Same
  <2>4. /\ job.vm \in Running' /\ vms'[job.vm].expiry = known[b].expiry
        /\ vms'[job.vm].beacon = b /\ vms'[job.vm].nft = "recorded"
    BY <1>9, <2>1, <2>2, VmIsSome DEF Becomes, Providing, Same
  <2>5. ~BeingServed(b)'
    BY <2>2 DEF BeingServed
  <2>6. Provisioned(b)'
    BY <1>2, <1>9, <1>12, <2>2, <2>3, <2>4, <2>5, NowServed DEF Providing, Handler
  <2> QED
    BY <2>3, <2>6
<1>13. CASE ExtendVm
  <2>1. /\ job.step = "extend" /\ e.type = "extended" /\ e \in Waiting /\ e \notin Waiting'
        /\ e.old \in S!Sub
    BY <1>1, <1>13, ExtendOutcome, JobFields, EventFields, HandlerEvents, AllocateFacts
       DEF Waiting, FirstSteps
  <2>2. Served(b, e.old.expiry) /\ known[b] = e.sub
    BY <1>2, <1>5, <2>1 DEF Provisioned
  <2>3. PICK v \in Running :
              /\ Lookup(b) = {v} /\ VmsOf(b) = {v} /\ vms[v].for = b /\ vms[v].beacon = b
              /\ vms[v].nft = "recorded" /\ vms[v].expiry = e.old.expiry
    BY <2>2, LookupServed
  <2>4. e.old.expiry > 0 /\ e.old.expiry \in Nat /\ ~IsPlaceholder(e.old)
    BY <2>1 DEF Paid, IsPlaceholder, S!Sub
  <2>5. AdditionalDays(e.old, e.sub) = e.sub.expiry - e.old.expiry
        /\ e.sub.expiry \in Nat /\ e.old.expiry \in Nat
    BY <1>6, <2>1 DEF Books, EventsCurrent, Current, AdditionalDays, S!Sub
  <2>6. PICK r : /\ VmOK(r) /\ Becomes(v, r) /\ r.for = vms[v].for
                 /\ r.beacon = vms[v].beacon /\ r.nft = vms[v].nft
                 /\ r.expiry = vms[v].expiry + AdditionalDays(e.old, e.sub)
    BY <1>1, <1>2, <1>13, <2>3, <2>4, ExtendOutcome
  <2>7. r.expiry = known[b].expiry
    BY <2>2, <2>3, <2>5, <2>6
  <2>8. /\ \A a : a # b => SameVmsOf(a)
        /\ VmsOf(b)' = {v}
    BY <2>3, <2>6, RunningVm, VmIsSome, OneChanges DEF Base
  <2>9. /\ v \in Running' /\ vms'[v].expiry = known[b].expiry
        /\ vms'[v].beacon = b /\ vms'[v].nft = "recorded"
    BY <2>3, <2>6, <2>7, VmIsSome DEF Becomes
  <2>10. ~BeingServed(b)'
    BY <1>1, <1>13, ExtendOutcome DEF BeingServed, GoesTo, Providing
  <2>11. Provisioned(b)'
    BY <1>2, <1>6, <1>13, <2>1, <2>2, <2>8, <2>9, <2>10, NowServed DEF Handler
  <2> QED
    BY <2>8, <2>11
<1>14. CASE ResumeVm
  <2>1. job.step = "resume" /\ job' = Idle /\ job.vm \in Running
    BY <1>14, ResumeOutcome
  <2>2. Waiting' = Waiting /\ ~BeingServed(b) /\ ~BeingServed(b)'
    BY <1>1, <2>1, HandlerEvents DEF Waiting, FirstSteps, BeingServed, Providing
  <2>3. \A a \in Beacons : SameVmsOf(a)
    <3>1. CASE vms' # vms
      <4>1. PICK r : /\ VmOK(r) /\ Becomes(job.vm, r) /\ Same(vms[job.vm], r)
                     /\ r.nft = vms[job.vm].nft
        BY <1>14, <3>1, ResumeOutcome
      <4>2. PICK c \in Beacons : c = vms[job.vm].for
        BY <2>1, RunningVm, VmIsSome DEF Base
      <4>3. /\ \A a : a # c => SameVmsOf(a)
            /\ VmsOf(c)' = VmsOf(c) \cup {job.vm} /\ job.vm \in VmsOf(c)
            /\ \A u \in Running : u # job.vm => vms'[u] = vms[u]
        BY <2>1, <4>1, <4>2, RunningVm, VmIsSome, OneChanges DEF Same, VmsOf, Base
      <4>4. vms'[job.vm] = r
        BY <4>1 DEF Becomes
      <4>5. SameVmsOf(c)
        BY <4>1, <4>3, <4>4 DEF SameVmsOf, Same, VmsOf
      <4> QED
        BY <4>3, <4>5
    <3> QED
      BY <1>4, <3>1
  <2>4. Provisioned(b)'
    BY <1>1, <2>2, <2>3, ProvisionedKept DEF S!Burned, S!Live
  <2> QED
    BY <2>3, <2>4
<1>15. CASE DestroyVm
  <2>1. /\ job.step = "destroy" /\ e.type = "removed" /\ e \in Waiting /\ job' = Idle
        /\ e \notin Waiting'
    BY <1>1, <1>15, DestroyOutcome, JobFields, HandlerEvents, AllocateFacts
       DEF Waiting, FirstSteps
  <2>2. PICK n \in Int : Served(b, n)
    BY <1>2, <2>1 DEF Provisioned
  <2>3. PICK v \in Running : Lookup(b) = {v} /\ VmsOf(b) = {v} /\ vms[v].for = b
    BY <2>2, LookupServed
  <2>4. ~IsPlaceholder(e.sub)
    BY <2>1 DEF Paid, IsPlaceholder
  <2>5. Becomes(v, NoVm)
    BY <1>1, <1>2, <1>15, <2>3, <2>4, DestroyOutcome
  <2>6. /\ \A a : a # b => SameVmsOf(a)
        /\ VmsOf(b)' = {}
    BY <2>3, <2>5, RunningVm, OneChanges DEF Base
  <2>7. known'[b] = NoSub /\ ~BeingServed(b)'
    BY <1>1, <1>2, <2>1 DEF Provisioned, BeingServed
  <2>8. \A f \in Waiting' : f.beacon # b
    BY <1>1, <1>2, <2>1, HandlerEvents, OnlyEvent
  <2>9. Provisioned(b)'
    BY <2>6, <2>7, <2>8 DEF Provisioned
  <2> QED
    BY <2>6, <2>9
<1> QED
  BY <1>7, <1>8, <1>10, <1>11, <1>12, <1>13, <1>14, <1>15 DEF Handler

LEMMA PollProvisioned ==
    ASSUME MayMiss = FALSE, Base, Books, SameBox, crashes = 0,
           \A b \in Beacons : Provisioned(b), Poll
    PROVE  (\A b \in Beacons : Provisioned(b))'
<1>1. /\ Waiting' = Scanned(S!Live) /\ S!UpdateMaps(S!Live) /\ Waiting = {}
      /\ \A b \in Beacons : \/ b \in S!Live /\ known'[b] = chain[b]
                            \/ b \notin S!Live /\ known'[b] \in {known[b], NoSub}
      /\ UNCHANGED <<chain, minted, job, vms>> /\ job = Idle
  BY PollBooks
<1>2. ASSUME NEW b \in Beacons
      PROVE  /\ ~BeingServed(b) /\ ~BeingServed(b)' /\ SameVmsOf(b)
             /\ S!Burned' = S!Burned /\ VmsOf(b)' = VmsOf(b)
             /\ \A n : Served(b, n) => Served(b, n)'
             /\ known[b] # NoSub => Served(b, known[b].expiry) /\ known[b].expiry \in Int
             /\ known[b] = NoSub /\ b \notin S!Burned => VmsOf(b) = {}
  <2>1. SameVmsOf(b)
    BY <1>1 DEF SameVmsOf, VmsOf, Running, Same
  <2>2. ~BeingServed(b) /\ ~BeingServed(b)'
    BY <1>1 DEF BeingServed
  <2>3. Provisioned(b) /\ \A f \in Waiting : f.beacon # b
    BY <1>1
  <2>4. known[b] # NoSub => known[b].expiry \in Int
    BY DEF Base, Types, S!Sub
  <2> QED
    BY <1>1, <2>1, <2>2, <2>3, <2>4, ServedKept DEF Provisioned, S!Burned, S!Live, SameVmsOf
<1> SUFFICES ASSUME NEW b \in Beacons PROVE Provisioned(b)'
  OBVIOUS
<1>3. known'[b] = NoSub /\ b \notin S!Burned' => VmsOf(b)' = {}
  <2> SUFFICES ASSUME known'[b] = NoSub, b \notin S!Burned PROVE VmsOf(b) = {}
    BY <1>2
  <2>1. chain[b] = NoSub /\ b \notin minted
    BY <1>1 DEF S!Burned, S!Live
  <2>2. known[b] = NoSub
    BY <2>1 DEF Books, KnownIsBehind
  <2> QED
    BY <1>2, <2>2
<1>4. ASSUME NEW e \in Scanned(S!Live), e.beacon = b
      PROVE  /\ e.type = "created" => VmsOf(b)' = {}
             /\ e.type = "extended" => Served(b, e.old.expiry)'
             /\ e.type = "removed" => known'[b] = NoSub /\ \E n \in Int : Served(b, n)'
  <2>1. CASE e \in S!CreatedEvents(S!Live)
    <3>1. e.type = "created" /\ known[b] = NoSub /\ b \notin S!Burned
      BY <1>4, <2>1, EventsOfScan DEF Base, S!Burned
    <3> QED
      BY <1>2, <3>1
  <2>2. CASE e \in S!ExtendedEvents(S!Live)
    <3>1. e.type = "extended" /\ known[b] # NoSub /\ e.old = known[b]
      BY <1>4, <2>2, EventsOfScan, SubIsSome DEF Base
    <3> QED
      BY <1>2, <3>1
  <2>3. CASE e \in S!RemovedEvents(S!Live)
    <3>1. /\ e.type = "removed" /\ known[b] # NoSub
          /\ b \in S!Confirmed(S!Live) /\ b \notin S!Live
      BY <1>4, <2>3, EventsOfScan, SubIsSome DEF Base
    <3>2. known'[b] = NoSub
      BY <1>1, <3>1 DEF S!UpdateMaps, S!KnownAfter, S!PendingAfter
    <3> QED
      BY <1>2, <3>1, <3>2
  <2> QED
    BY <1>4, <2>1, <2>2, <2>3 DEF Scanned
<1>5. ASSUME known'[b] # NoSub, \A e \in Scanned(S!Live) : e.beacon # b
      PROVE  known'[b] = known[b] /\ known[b] # NoSub
  <2>1. CASE b \notin S!Live
    BY <1>1, <1>5, <2>1
  <2>2. CASE b \in S!Live
    <3>1. known[b] # NoSub
      <4>1. known[b] = NoSub => S!Event("created", b, chain[b], NoSub) \in Scanned(S!Live)
        BY <2>2 DEF Scanned, S!CreatedEvents
      <4> QED
        BY <1>5, <4>1 DEF S!Event
    <3>2. known[b].id = chain[b].id
      <4>1. known[b].id # chain[b].id =>
                S!Event("extended", b, chain[b], known[b]) \in Scanned(S!Live)
        BY <2>2, <3>1 DEF Scanned, S!ExtendedEvents
      <4> QED
        BY <1>5, <4>1 DEF S!Event
    <3>3. chain[b] # NoSub /\ known'[b] = chain[b]
      BY <1>1, <2>2 DEF S!Live
    <3> QED
      BY <3>1, <3>2, <3>3 DEF SameBox
  <2> QED
    BY <2>1, <2>2
<1>6. ASSUME known'[b] # NoSub, \A e \in Waiting' : e.beacon # b
      PROVE  Served(b, known[b].expiry)'
  <2>1. PICK n \in Int : n = known[b].expiry /\ Served(b, n) /\ known'[b] = known[b]
    BY <1>1, <1>2, <1>5, <1>6
  <2>2. Served(b, n)'
    BY <1>2, <2>1
  <2> QED
    BY <2>1, <2>2 DEF Served
<1> QED
  BY <1>1, <1>2, <1>3, <1>4, <1>6 DEF Provisioned

LEMMA ProvisionedStep ==
    ASSUME MayMiss = FALSE
    PROVE  Base /\ Books /\ Fresh /\ Paid /\ SameBox /\ AllProvisioned /\ [Next]_vars
               => AllProvisioned'
<1> SUFFICES ASSUME Base, Books, Fresh, Paid, SameBox, AllProvisioned, [Next]_vars,
                    faults' = 0, crashes' = 0
             PROVE  (\A b \in Beacons : Provisioned(b))'
  BY DEF AllProvisioned
<1>1. faults \in Nat /\ crashes \in Nat
  BY DEF Base, Types
<1>2. S!Burned \subseteq S!Burned'
  BY BurnedStays
(* A step that touches neither the events under way nor the map.             *)
<1>3. ASSUME UNCHANGED <<queue, job, known, faults, crashes>>,
             \A b \in Beacons : SameVmsOf(b)
      PROVE  (\A b \in Beacons : Provisioned(b))'
  <2>1. Waiting' = Waiting /\ \A b \in Beacons : BeingServed(b)' <=> BeingServed(b)
    BY <1>3 DEF Waiting, Queued, Elems, BeingServed
  <2>2. \A b \in Beacons : Provisioned(b)
    BY <1>3 DEF AllProvisioned
  <2> QED
    BY <1>2, <1>3, <2>1, <2>2, ProvisionedKept
<1>4. \A b : vms' = vms => SameVmsOf(b)
  BY DEF SameVmsOf, VmsOf, Running, Same
<1>5. CASE ChainStep \/ Tick
  BY <1>3, <1>4, <1>5, ChainFacts, TickFacts
<1>6. ASSUME NEW v \in VmIds, SuspendVm(v) PROVE (\A b \in Beacons : Provisioned(b))'
  <2>1. v \in Running /\ UNCHANGED Others /\ UNCHANGED <<job, faults>>
    BY <1>6, SuspendFacts
  <2>2. PICK r : /\ VmOK(r) /\ Becomes(v, r) /\ Same(vms[v], r) /\ r.nft = vms[v].nft
    BY <1>6, SuspendFacts
  <2>3. /\ Running' = Running
        /\ \A u \in Running : Same(vms[u], vms'[u]) /\ vms'[u].nft = vms[u].nft
    BY <2>1, <2>2, VmIsSome DEF Becomes, Same, Running
  <2>4. \A b \in Beacons : SameVmsOf(b)
    BY <2>3 DEF SameVmsOf, VmsOf, Same
  <2> QED
    BY <1>3, <2>1, <2>4 DEF Others
<1>7. CASE UNCHANGED vars
  BY <1>3, <1>4, <1>7 DEF vars, chainVars, scannerVars, pollVars
<1>8. CASE Dequeue
  <2>1. /\ UNCHANGED <<known, vms, faults, crashes>> /\ Waiting' = Waiting
        /\ job = Idle /\ job'.step \notin Providing
    BY <1>8, DequeueFacts DEF FirstSteps, Providing
  <2>2. \A b \in Beacons : ~BeingServed(b) /\ ~BeingServed(b)'
    BY <2>1 DEF BeingServed
  <2>3. \A b \in Beacons : Provisioned(b)
    BY <2>1 DEF AllProvisioned
  <2> QED
    BY <1>2, <1>4, <2>1, <2>2, <2>3, ProvisionedKept
<1>9. CASE Poll
  BY <1>9, PollProvisioned DEF AllProvisioned, Poll
<1>10. CASE Handler
  <2>1. UNCHANGED <<faults, crashes>>
    BY <1>1, <1>10, HandlerKeeps
       DEF Handler, Allocate, CreateVm, RecordBeacon, MintNft, MarkMinted, ExtendVm, ResumeVm,
           DestroyVm, Succeeds, Fails, Others
  <2> QED
    BY <1>10, <2>1, HandlerProvisioned DEF AllProvisioned
<1>11. ~Crash
  BY <1>1, CrashFacts
<1> QED
  BY <1>5, <1>6, <1>7, <1>8, <1>9, <1>10, <1>11 DEF Next

(* scanner.ts, handlers: with complete answers, while nothing has failed and *)
(* no process has died, a monitor that has caught up with the chain has      *)
(* given every live subscription exactly one VM, with its credential and     *)
(* every purchase counted once.                                              *)
THEOREM LiveAreServedExactly == ASSUME MayMiss = FALSE PROVE Spec => []ServedExactly
<1> DEFINE Inv == Base /\ Books /\ Fresh /\ Paid /\ SameBox /\ AllProvisioned
<1>1. Init => Inv
  <2> SUFFICES ASSUME Init PROVE Inv
    OBVIOUS
  <2>1. Running = {} /\ Waiting = {} /\ job = Idle /\ minted = {}
    BY DEF Init, Running, Waiting, Queued, Elems, S!InitChain
  <2>2. Fresh /\ Paid /\ SameBox
    BY <2>1 DEF Init, Fresh, Paid, SameBox, S!InitChain, S!InitMaps
  <2>3. AllProvisioned
    BY <2>1 DEF Init, S!InitMaps, AllProvisioned, Provisioned, VmsOf, BeingServed
  <2> QED
    BY <2>2, <2>3, InitBase, InitBooks
<1>2. Inv /\ [Next]_vars => Inv'
  BY BaseStep, BooksStep, FreshStep, PaidStep, SameBoxStep, ProvisionedStep
<1>3. Inv => ServedExactly
  <2> SUFFICES ASSUME Inv, Quiescent, faults = 0, crashes = 0, NEW b \in S!Live
               PROVE  \E v \in Running :
                        /\ vms[v].beacon = b
                        /\ vms[v].nft = "recorded"
                        /\ vms[v].expiry = chain[b].expiry
                        /\ \A w \in Running : vms[w].for = b => w = v
    BY DEF ServedExactly
  <2>1. b \in Beacons /\ chain[b] # NoSub /\ known[b] = chain[b]
    BY DEF S!Live, Quiescent
  <2>2. Len(queue) = 0 /\ Waiting = {} /\ ~BeingServed(b)
    BY DEF Quiescent, Waiting, Queued, Elems, BeingServed
  <2>3. Served(b, chain[b].expiry)
    BY <2>1, <2>2 DEF AllProvisioned, Provisioned
  <2> QED
    BY <2>3 DEF Served, VmsOf
<1> QED
  BY <1>1, <1>2, <1>3, PTL DEF Spec
=============================================================================
