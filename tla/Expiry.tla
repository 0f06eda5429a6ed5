-------------------------------- MODULE Expiry --------------------------------
(***************************************************************************)
(* From a box's expiry height to the days its VM runs                       *)
(* (src/src/handlers/index.ts 49-69): Monitor counts a subscription's term  *)
(* in purchases, this module counts it in blocks and days.                  *)
(*                                                                          *)
(* The created handler turns the blocks left at the height it reads into    *)
(* whole days from now, the extended handler turns the blocks between two   *)
(* boxes it saw into whole days more.  One subscription; the VM's clock     *)
(* runs at Day blocks a day, as the code's constant says.                   *)
(***************************************************************************)
EXTENDS Integers

CONSTANTS
    Day,         \* BLOCKS_PER_DAY
    Interval,    \* the plan's intervalBlocks: what the signup page calls a day
    NoBox, NoVm, Idle,
    MaxDays,     \* bound: intervals in one purchase
    MaxHeight,   \* bound: the chain height
    MaxBuys      \* bound: purchases

ASSUME ExpiryConstants ==
    /\ Day \in Nat \ {0} /\ Interval \in Nat \ {0}
    /\ MaxDays \in Nat /\ MaxHeight \in Nat /\ MaxBuys \in Nat
    /\ NoBox \notin Nat /\ NoVm \notin Nat
    /\ Idle \notin [old : Nat \cup {NoBox}, new : Nat]

VARIABLES
    height,
    box,      \* expiryHeight of the subscription's box, or NoBox
    known,    \* the box the scanner knows
    job,      \* the event being handled: its old and new expiry, or Idle
    vm,       \* the height at which the VM expires, or NoVm
    (* history *)
    buys,     \* purchases so far
    late      \* the VM was created when its box had expired

vars == <<height, box, known, job, vm, buys, late>>

Init ==
    /\ height = 0
    /\ box = NoBox
    /\ known = NoBox
    /\ job = Idle
    /\ vm = NoVm
    /\ buys = 0
    /\ late = FALSE

Tick ==
    /\ height < MaxHeight
    /\ height' = height + 1
    /\ UNCHANGED <<box, known, job, vm, buys, late>>

(* A purchase mined: the first makes the box from the height its buyer had   *)
(* read, the others extend it.                                               *)
Buy(blocks, read) ==
    /\ buys < MaxBuys
    /\ buys' = buys + 1
    /\ box' = (IF box = NoBox THEN read ELSE box) + blocks
    /\ UNCHANGED <<height, known, job, vm, late>>

(* A poll: several purchases may lie between two of them.                    *)
Scan ==
    /\ job = Idle
    /\ known' = box
    /\ job' = IF box = known THEN Idle ELSE [old |-> known, new |-> box]
    /\ UNCHANGED <<height, box, vm, buys, late>>

-----------------------------------------------------------------------------
AtLeastOne(days) == IF days < 1 THEN 1 ELSE days

ExpiryDays(expiry, now) ==
    IF expiry <= now THEN 1 ELSE AtLeastOne((expiry - now) \div Day)

(* Seeded bug: the new expiry is taken for the difference.                   *)
AdditionalDays_Whole(old, new) == AtLeastOne(new \div Day)

AdditionalDays(old, new) ==
    IF new <= old THEN 0 ELSE AtLeastOne((new - old) \div Day)

Create ==
    /\ job # Idle
    /\ job.old = NoBox
    /\ LET days == ExpiryDays(job.new, height)
       IN  vm' = height + days * Day
    /\ late' = (job.new <= height)
    /\ job' = Idle
    /\ UNCHANGED <<height, box, known, buys>>

ExtendVm ==
    /\ job # Idle
    /\ job.old # NoBox
    /\ LET days == AdditionalDays(job.old, job.new)
       IN  vm' = vm + days * Day
    /\ job' = Idle
    /\ UNCHANGED <<height, box, known, buys, late>>

Next ==
    \/ Tick
    \/ \E days \in 1..MaxDays, read \in 0..height : Buy(days * Interval, read)
    \/ Scan \/ Create \/ ExtendVm

Spec == Init /\ [][Next]_vars

-----------------------------------------------------------------------------
CaughtUp == vm # NoVm /\ job = Idle /\ known = box

(* handlers 52-69, for plans sold in whole days: however long a purchase     *)
(* waits for its handler and however purchases fall between polls, rounding  *)
(* does not add up: the VM expires less than a day before or after its box   *)
(* (unless its box had expired before the VM was made).                      *)
WithinADay == CaughtUp /\ ~late => vm - box < Day /\ box - vm < Day
=============================================================================
