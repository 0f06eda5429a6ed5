------------------------------- MODULE Monitor -------------------------------
(***************************************************************************)
(* The monitor process (src/src/monitor/index.ts) with the scanner, the     *)
(* event queue and the subscription handlers (src/src/handlers/index.ts)    *)
(* that create, extend and destroy VMs.                                     *)
(*                                                                          *)
(* The poll loop is sequential: scan, then drain the queue, one handler at  *)
(* a time.  Between any two steps of a handler the chain moves, VMs are     *)
(* suspended from outside, and the process may die; the queue and the       *)
(* scanner's maps die with it, the VM database and the counter survive.     *)
(* A handler's step is one external command (blockhost-vm-create, the       *)
(* vm_db scripts, blockhost-mint-nft, ...), which may fail.                 *)
(*                                                                          *)
(* Abstraction.  An expiry counts purchases: 1 is the term bought at        *)
(* sign-up, each extension of the box adds 1, and a VM's expiry is how many *)
(* of them it has been given.  What that is in days, and how much the       *)
(* rounding of blocks to days costs, is Expiry's question.                  *)
(***************************************************************************)
EXTENDS Integers, Sequences, SequencesExt

CONSTANTS
    Beacons, NoSub, NotPending, ConfirmCount, VerifyInterval, ConfirmInterval,
    MayMiss, MaxBox,
    OwnerOf,        \* OwnerOf[b]: the subscriber's address in the box of b
    NoVm, NoBeacon, Idle,
    MaxVms,         \* bound: VM ids the counter file hands out
    MaxFaults,      \* bound: external commands that fail
    MaxCrashes      \* bound: deaths of the monitor process

(* A VM and its row of the VM database: its owner, the beacon and the box    *)
(* written to it (beacon_token_id, box_id), its expiry and status, whether   *)
(* its NFT is minted and recorded, and for history the beacon it is for.     *)
Vm == [owner : {OwnerOf[b] : b \in Beacons}, beacon : Beacons \cup {NoBeacon}, box : Nat,
       expiry : Int, status : {"active", "suspended"}, nft : {"none", "minted", "recorded"},
       for : Beacons]

ASSUME MonitorConstants ==
    /\ IsFiniteSet(Beacons)
    /\ NoSub \notin [id : Nat \ {0}, expiry : Nat]
    /\ Idle \notin [event : [type : {"created", "extended", "removed"}, beacon : Beacons,
                             sub : [id : Nat \ {0}, expiry : Nat],
                             old : [id : Nat \ {0}, expiry : Nat] \cup {NoSub}],
                    step : {"allocate", "create", "record", "mint", "mark", "extend",
                            "resume", "destroy"},
                    vm : Nat]
    /\ {VerifyInterval, ConfirmInterval} \subseteq Nat \ {0} /\ ConfirmCount \in Nat \ {0, 1}
    /\ DOMAIN OwnerOf = Beacons
    /\ MayMiss \in BOOLEAN
    /\ NoBeacon \notin Beacons /\ NoVm \notin Vm
    /\ {MaxBox, MaxVms, MaxFaults, MaxCrashes} \subseteq Nat

VARIABLES
    chain, minted, known, pending, verifyAge,   \* as in Scanner
    queue,     \* eventQueue
    job,       \* the running handler: its event, next step and VM, or Idle
    vms,       \* VM id -> its Vm, or NoVm
    nextVm,    \* the counter file next-vm-id
    faults,    \* failed commands so far
    crashes    \* deaths so far

chainVars   == <<chain, minted>>
scannerVars == <<known, pending, verifyAge>>
pollVars    == <<queue, job>>
vars == <<chainVars, scannerVars, pollVars, vms, nextVm, faults, crashes>>

S == INSTANCE Scanner WITH
        MayMiss <- {MayMiss}, mayMiss <- MayMiss, MaxRestarts <- MaxCrashes, restarts <- crashes,
        diff <- {}, absentFor <- <<>>, misses <- <<>>, told <- <<>>

VmIds == 1..MaxVms
Running == {v \in VmIds : vms[v] # NoVm}

Init ==
    /\ S!InitChain
    /\ S!InitMaps
    /\ queue = <<>>
    /\ job = Idle
    /\ vms = [v \in VmIds |-> NoVm]
    /\ nextVm = 1
    /\ faults = 0
    /\ crashes = 0

-----------------------------------------------------------------------------
(* The environment: the chain, time, and the VM garbage collector.           *)

ChainStep ==
    /\ \E b \in Beacons : S!ChainMoves(b)
    /\ UNCHANGED <<scannerVars, pollVars, vms, nextVm, faults, crashes>>

Tick ==
    /\ S!Age
    /\ UNCHANGED <<chainVars, pollVars, vms, nextVm, faults, crashes>>

SuspendVm(v) ==
    /\ vms[v] # NoVm
    /\ vms[v].status = "active"
    /\ vms' = [vms EXCEPT ![v].status = "suspended"]
    /\ UNCHANGED <<chainVars, scannerVars, pollVars, nextVm, faults, crashes>>

-----------------------------------------------------------------------------
(* poll(): scan, push created, extended and removed events, drain.           *)

Poll ==
    /\ job = Idle
    /\ queue = <<>>
    /\ \E seen \in S!Answers :
        /\ S!UpdateMaps(seen)
        /\ \E c \in SetToSeqs(S!CreatedEvents(seen)),
              x \in SetToSeqs(S!ExtendedEvents(seen)),
              r \in SetToSeqs(S!RemovedEvents(seen)) :
                queue' = c \o x \o r
    /\ UNCHANGED <<chainVars, job, vms, nextVm, faults, crashes>>

FirstStep(type) == CASE type = "created"  -> "allocate"
                     [] type = "extended" -> "extend"
                     [] type = "removed"  -> "destroy"

Dequeue ==
    /\ job = Idle
    /\ queue # <<>>
    /\ job' = [event |-> Head(queue), step |-> FirstStep(Head(queue).type), vm |-> 0]
    /\ queue' = Tail(queue)
    /\ UNCHANGED <<chainVars, scannerVars, vms, nextVm, faults, crashes>>

At(step) == job # Idle /\ job.step = step
Goto(step, v) == job' = [job EXCEPT !.step = step, !.vm = v]
Return == job' = Idle

Succeeds == UNCHANGED faults
Fails == faults < MaxFaults /\ faults' = faults + 1

handlerUnchanged == <<chainVars, scannerVars, queue, crashes>>

-----------------------------------------------------------------------------
(* handleSubscriptionCreated.  A failed step abandons the event.             *)

Allocate ==
    /\ At("allocate")
    /\ nextVm \in VmIds
    /\ nextVm' = nextVm + 1
    /\ \/ Succeeds /\ Goto("create", nextVm)
       \/ Fails /\ Return                            \* getHeight() throws
    /\ UNCHANGED <<handlerUnchanged, vms>>

CreateVm ==
    /\ At("create")
    /\ LET e == job.event
       IN  \/ /\ Succeeds
              /\ vms' = [vms EXCEPT ![job.vm] =
                    [owner |-> OwnerOf[e.beacon], beacon |-> NoBeacon, box |-> 0,
                     expiry |-> e.sub.expiry, status |-> "active",
                     nft |-> "none", for |-> e.beacon]]
              /\ Goto("record", job.vm)
           \/ Fails /\ Return /\ UNCHANGED vms
    /\ UNCHANGED <<handlerUnchanged, nextVm>>

(* Seeded bugs: the handler stops here; the fields are swapped.              *)
RecordBeacon_Return ==
    /\ At("record")
    /\ Return
    /\ Succeeds
    /\ vms' = [vms EXCEPT ![job.vm].beacon = job.event.beacon,
                          ![job.vm].box = job.event.sub.id]
    /\ UNCHANGED <<handlerUnchanged, nextVm>>

(* updateVmFields only warns when the script fails.                          *)
RecordBeacon ==
    /\ At("record")
    /\ Goto("mint", job.vm)
    /\ \/ /\ Succeeds
          /\ vms' = [vms EXCEPT ![job.vm].beacon = job.event.beacon,
                                ![job.vm].box = job.event.sub.id]
       \/ Fails /\ UNCHANGED vms
    /\ UNCHANGED <<handlerUnchanged, nextVm>>

(* No summary, no public address and a failed mint all return with no NFT.   *)
(* An unparseable mint output returns after the mint.                        *)
MintNft ==
    /\ At("mint")
    /\ \/ /\ Succeeds
          /\ vms' = [vms EXCEPT ![job.vm].nft = "minted"]
          /\ Goto("mark", job.vm)
       \/ Fails /\ Return /\ vms' \in {vms, [vms EXCEPT ![job.vm].nft = "minted"]}
    /\ UNCHANGED <<handlerUnchanged, nextVm>>

(* push-vm-config, update-gecos (see Reconciler) and markNftMinted.          *)
MarkMinted ==
    /\ At("mark")
    /\ Return
    /\ \/ Succeeds /\ vms' = [vms EXCEPT ![job.vm].nft = "recorded"]
       \/ Fails /\ UNCHANGED vms
    /\ UNCHANGED <<handlerUnchanged, nextVm>>

-----------------------------------------------------------------------------
(* get_vm_by_beacon(b) or get_vm_by_owner(subscriber)                        *)
Lookup(b) ==
    LET byBeacon == {v \in Running : vms[v].beacon = b}
        byOwner  == {v \in Running : vms[v].owner = OwnerOf[b]}
    IN  IF byBeacon # {} THEN byBeacon ELSE byOwner

(* Seeded bug: a placeholder's missing expiry counts as zero.                *)
IsPlaceholder_Never(sub) == FALSE

IsPlaceholder(sub) == sub.expiry = 0

(* Seeded bug: the two boxes are taken in the wrong order.                   *)
AdditionalDays_Swapped(old, new) ==
    IF old.expiry <= new.expiry THEN 0 ELSE old.expiry - new.expiry

AdditionalDays(old, new) == IF new.expiry <= old.expiry THEN 0 ELSE new.expiry - old.expiry

(* handleSubscriptionExtended.  Against a placeholder the days are NaN and   *)
(* the script rejects them.                                                  *)
ExtendVm ==
    /\ At("extend")
    /\ LET e == job.event
           fail == Return /\ UNCHANGED vms
       IN  \/ Succeeds /\ (IsPlaceholder(e.old) \/ Lookup(e.beacon) = {}) /\ fail
           \/ Fails /\ fail
           \/ /\ Succeeds
              /\ ~IsPlaceholder(e.old)
              /\ \E v \in Lookup(e.beacon) :
                    /\ vms' = [vms EXCEPT ![v].expiry = @ + AdditionalDays(e.old, e.sub)]
                    /\ IF vms[v].status = "suspended" THEN Goto("resume", v) ELSE Return
    /\ UNCHANGED <<handlerUnchanged, nextVm>>

ResumeVm ==
    /\ At("resume")
    /\ Return
    /\ \/ Succeeds /\ vms' = [vms EXCEPT ![job.vm].status = "active"]
       \/ Fails /\ UNCHANGED vms
    /\ UNCHANGED <<handlerUnchanged, nextVm>>

(* Seeded bug: any VM is taken for the subscription's.                       *)
DestroyVm_AnyVm ==
    /\ At("destroy")
    /\ Return
    /\ Succeeds
    /\ \E v \in Running : vms' = [vms EXCEPT ![v] = NoVm]
    /\ UNCHANGED <<handlerUnchanged, nextVm>>

(* handleSubscriptionRemoved.  A placeholder has no subscriber: the lookup   *)
(* script dies on the missing variable before it looks at the beacon.        *)
DestroyVm ==
    /\ At("destroy")
    /\ Return
    /\ LET e == job.event
       IN  \/ Succeeds /\ (IsPlaceholder(e.sub) \/ Lookup(e.beacon) = {}) /\ UNCHANGED vms
           \/ Fails /\ UNCHANGED vms
           \/ /\ Succeeds
              /\ ~IsPlaceholder(e.sub)
              /\ \E v \in Lookup(e.beacon) : vms' = [vms EXCEPT ![v] = NoVm]
    /\ UNCHANGED <<handlerUnchanged, nextVm>>

Handler ==
    \/ Allocate \/ CreateVm \/ RecordBeacon \/ MintNft \/ MarkMinted
    \/ ExtendVm \/ ResumeVm
    \/ DestroyVm

-----------------------------------------------------------------------------
(* Seeded bug: the database is not read on startup.                          *)
RestoredEntry_Forgotten(b) == {NoSub}

(* The process dies, or a signal stops it (exit after 2 s, queue dropped),   *)
(* and systemd starts it again: restoreFromFile reads the VM database.       *)
RestoredEntry(b) ==
    LET rows == {v \in Running : vms[v].beacon = b}
    IN  IF rows = {} THEN {NoSub}
        ELSE {[id |-> vms[v].box, expiry |-> 0] : v \in rows}

Crash ==
    /\ crashes < MaxCrashes
    /\ crashes' = crashes + 1
    /\ queue' = <<>>
    /\ job' = Idle
    /\ \E entries \in [Beacons -> UNION {RestoredEntry(b) : b \in Beacons}] :
            /\ \A b \in Beacons : entries[b] \in RestoredEntry(b)
            /\ S!Restore(entries)
    /\ UNCHANGED <<chainVars, vms, nextVm, faults>>

Next ==
    \/ ChainStep \/ Tick \/ \E v \in VmIds : SuspendVm(v)
    \/ Poll \/ Dequeue \/ Handler
    \/ Crash

Spec == Init /\ [][Next]_vars

(* The poll loop runs, handlers' commands return, time passes.               *)
FairSpec == Spec /\ WF_vars(Tick) /\ WF_vars(Poll) /\ WF_vars(Dequeue) /\ WF_vars(Handler)

-----------------------------------------------------------------------------
(* scanner.ts 97, handlers 346-349: a subscription is never provisioned      *)
(* again once its beacon is on a VM record, whatever crashes or fails.       *)
UniqueBeaconRecord ==
    \A v, w \in Running : vms[v].beacon = vms[w].beacon /\ vms[v].beacon # NoBeacon => v = w

(* handlers 562-621: only a burned subscription costs its VM.                *)
DestroyedOnlyAfterBurn ==
    [][\A v \in VmIds : vms[v] # NoVm /\ vms'[v] = NoVm => vms[v].for \in S!Burned]_vars

(* handlers 489-501: an extension is never applied twice, across restarts    *)
(* that report it again: a VM's expiry is at most what its box paid for.     *)
NeverOverExtended ==
    \A v \in Running :
        vms[v].for \in S!Live => vms[v].expiry <= chain[vms[v].for].expiry

Quiescent ==
    /\ job = Idle
    /\ queue = <<>>
    /\ \A b \in S!Live : known[b] = chain[b]

(* Without failures and crashes, when the monitor has caught up with the     *)
(* chain every live subscription has exactly one VM, with its credential     *)
(* and with each purchase of its box counted exactly once.                   *)
ServedExactly ==
    (Quiescent /\ faults = 0 /\ crashes = 0) =>
        \A b \in S!Live :
            \E v \in Running :
                /\ vms[v].beacon = b
                /\ vms[v].nft = "recorded"
                /\ vms[v].expiry = chain[b].expiry
                /\ \A w \in Running : vms[w].for = b => w = v

(* Every subscription is eventually served or gives up its beacon.           *)
EventuallyServed ==
    \A b \in Beacons :
        b \in minted ~> \/ b \in S!Burned
                        \/ \E v \in Running : vms[v].beacon = b /\ vms[v].nft = "recorded"
=============================================================================
