----------------------------- MODULE Subscription -----------------------------
(***************************************************************************)
(* Subscription boxes under the guard script (src/src/ergo/contracts.ts),   *)
(* the server that collects what they have earned                           *)
(* (src/src/bw/commands/withdraw.ts), and the subscribers' wallets, which   *)
(* sign up, extend and cancel.                                              *)
(*                                                                          *)
(* A transaction is built from the boxes and the height of one moment and   *)
(* judged by the guard at the height of a later block, if the box it spends *)
(* is still there.  It is at most one per box here (named bound).           *)
(*                                                                          *)
(* Abstractions.  ERG payment; every plan has the same rate and interval;   *)
(* the fields the guard calls immutable are preserved together with the     *)
(* beacon.  Fees and change are left out.                                   *)
(***************************************************************************)
EXTENDS Integers, FiniteSets

CONSTANTS
    Subs,         \* subscriptions, by their beacon
    NoBox, NoTx,
    Rate,         \* ratePerInterval
    Interval,     \* intervalBlocks
    MinBox,       \* SAFE_MIN_BOX_VALUE
    Days,         \* the numbers of intervals a subscriber may sign up for
    Extensions,   \* [amount, blocks, shift] a wallet may extend by: money, expiry,
                  \* and a change of lastCollectedHeight
    MaxHeight,    \* bound: the chain height
    MaxExtends    \* bound: extensions of one subscription

Box == [id : Nat, remaining : Nat, last : Int, expiry : Nat, value : Nat]

ASSUME SubscriptionConstants ==
    /\ NoBox \notin Box
    /\ Rate \in Nat \ {0} /\ Interval \in Nat \ {0} /\ MinBox \in Nat
    /\ Days \subseteq Nat \ {0}
    /\ Extensions \subseteq [amount : Int, blocks : Int, shift : Int]
    /\ MaxHeight \in Nat /\ MaxExtends \in Nat

VARIABLES
    height,
    box,      \* the unspent box of each subscription, or NoBox
    tx,       \* the transaction submitted for it, or NoTx
    (* history *)
    start,    \* height of the sign-up, or -1
    extends,  \* extensions so far
    paid, collected, refunded

vars == <<height, box, tx, start, extends, paid, collected, refunded>>

Init ==
    /\ height = 0
    /\ box = [s \in Subs |-> NoBox]
    /\ tx = [s \in Subs |-> NoTx]
    /\ start = [s \in Subs |-> -1]
    /\ extends = [s \in Subs |-> 0]
    /\ paid = [s \in Subs |-> 0]
    /\ collected = paid
    /\ refunded = paid

Least(m, n) == IF m < n THEN m ELSE n
Most(m, n) == IF m > n THEN m ELSE n

-----------------------------------------------------------------------------
(* The guard script: is t a valid spend of b in a block at height h?         *)

GuardIntervals(b, h) == (Least(h, b.expiry) - b.last) \div Interval

Earned(b, h) == Least(GuardIntervals(b, h) * Rate, b.remaining)

Continues(b, t) == t.script = "guard" /\ t.beacon

CollectPath(b, h, t) ==
    /\ t.signer = "server"
    /\ Earned(b, h) > 0
    /\ IF Earned(b, h) >= b.remaining
       THEN ~t.beacon
       ELSE /\ Continues(b, t)
            /\ t.out.remaining = b.remaining - Earned(b, h)
            /\ t.out.last = b.last + GuardIntervals(b, h) * Interval
            /\ t.out.expiry = b.expiry

CancelPath(t) == t.signer = "subscriber" /\ ~t.beacon

(* Seeded bug: lastCollectedHeight is not compared.                          *)
ExtendPath_AnyLast(b, t) ==
    /\ t.signer = "subscriber"
    /\ Continues(b, t)
    /\ t.out.remaining >= b.remaining
    /\ t.out.expiry >= b.expiry

ExtendPath(b, t) ==
    /\ t.signer = "subscriber"
    /\ Continues(b, t)
    /\ t.out.remaining >= b.remaining
    /\ t.out.expiry >= b.expiry
    /\ t.out.last = b.last

MigratePath(b, t) ==
    t.signer = "server" /\ t.script # "guard" /\ t.out.value >= b.value

Guard(b, h, t) ==
    CollectPath(b, h, t) \/ CancelPath(t) \/ ExtendPath(b, t) \/ MigratePath(b, t)

-----------------------------------------------------------------------------
(* withdraw.ts                                                               *)

ClaimIntervals(b, h) == (Least(h, b.expiry) - b.last) \div Interval

(* Seeded bugs: a single interval is not enough; the amount is not capped.   *)
Claimable_MoreThanOne(b, h) ==
    b # NoBox /\ b.remaining > 0 /\ Least(h, b.expiry) - b.last > Interval

ClaimAmount_Uncapped(b, h) == ClaimIntervals(b, h) * Rate

Claimable(b, h) ==
    b # NoBox /\ b.remaining > 0 /\ Least(h, b.expiry) - b.last >= Interval

ClaimAmount(b, h) == Least(ClaimIntervals(b, h) * Rate, b.remaining)

(* Seeded bug: the fee comes out of the subscription.                        *)
ContinuingValue_LessFee(b, amount) == b.value - amount - 1

ContinuingValue(b, amount) == Most(b.value - amount, MinBox)

(* Seeded bug: collection restarts at the current height.                    *)
NextLast_Height(b, h) == h

NextLast(b, h) == b.last + ClaimIntervals(b, h) * Interval

(* A transaction: `script` and `beacon` describe OUTPUTS(0), `out` its       *)
(* registers and value; `take` is what the signer's side receives, `add`     *)
(* what it puts in.                                                          *)
CollectTx(b, h) ==
    LET amount == ClaimAmount(b, h)
        base == [kind |-> "collect", spends |-> b.id, signer |-> "server",
                 script |-> "other", beacon |-> FALSE,
                 out |-> [b EXCEPT !.value = MinBox], take |-> amount, add |-> 0]
    IN  IF ClaimIntervals(b, h) * Rate >= b.remaining
        THEN base
        ELSE [base EXCEPT
                !.script = "guard", !.beacon = TRUE,
                !.out = [b EXCEPT !.id = @ + 1,
                                  !.remaining = @ - amount,
                                  !.last = NextLast(b, h),
                                  !.value = ContinuingValue(b, amount)]]

(* executeWithdraw takes the first claimable box of the explorer's list, in  *)
(* whatever order it comes.                                                  *)
Collect(s) ==
    /\ tx[s] = NoTx
    /\ Claimable(box[s], height)
    /\ tx' = [tx EXCEPT ![s] = CollectTx(box[s], height)]
    /\ UNCHANGED <<height, box, start, extends, paid, collected, refunded>>

-----------------------------------------------------------------------------
(* The wallets (the signup page and software outside the repository).        *)

SignUp(s, days) ==
    /\ start[s] = -1
    /\ days * Rate >= MinBox
    /\ box' = [box EXCEPT ![s] =
            [id |-> 1, remaining |-> days * Rate, last |-> height,
             expiry |-> height + days * Interval, value |-> days * Rate]]
    /\ paid' = [paid EXCEPT ![s] = days * Rate]
    /\ start' = [start EXCEPT ![s] = height]
    /\ UNCHANGED <<height, tx, extends, collected, refunded>>

ExtendTx(b, x) ==
    [kind |-> "extend", spends |-> b.id, signer |-> "subscriber",
     script |-> "guard", beacon |-> TRUE,
     out |-> [b EXCEPT !.id = @ + 1, !.remaining = @ + x.amount, !.last = @ + x.shift,
                       !.expiry = @ + x.blocks, !.value = @ + x.amount],
     take |-> 0, add |-> x.amount]

CancelTx(b) ==
    [kind |-> "cancel", spends |-> b.id, signer |-> "subscriber", script |-> "other",
     beacon |-> FALSE, out |-> b, take |-> b.remaining, add |-> 0]

Extend(s, x) ==
    /\ box[s] # NoBox /\ tx[s] = NoTx
    /\ extends[s] < MaxExtends
    /\ tx' = [tx EXCEPT ![s] = ExtendTx(box[s], x)]
    /\ extends' = [extends EXCEPT ![s] = @ + 1]
    /\ UNCHANGED <<height, box, start, paid, collected, refunded>>

Cancel(s) ==
    /\ box[s] # NoBox /\ tx[s] = NoTx
    /\ tx' = [tx EXCEPT ![s] = CancelTx(box[s])]
    /\ UNCHANGED <<height, box, start, extends, paid, collected, refunded>>

-----------------------------------------------------------------------------
(* The chain.                                                                *)

Mine ==
    /\ height < MaxHeight
    /\ height' = height + 1
    /\ UNCHANGED <<box, tx, start, extends, paid, collected, refunded>>

Valid(s) ==
    /\ box[s] # NoBox
    /\ tx[s].spends = box[s].id
    /\ Guard(box[s], height, tx[s])

Include(s) ==
    /\ tx[s] # NoTx /\ Valid(s)
    /\ box' = [box EXCEPT ![s] = IF tx[s].beacon THEN tx[s].out ELSE NoBox]
    /\ tx' = [tx EXCEPT ![s] = NoTx]
    /\ paid' = [paid EXCEPT ![s] = @ + tx[s].add]
    /\ IF tx[s].kind = "collect"
       THEN collected' = [collected EXCEPT ![s] = @ + tx[s].take] /\ UNCHANGED refunded
       ELSE refunded' = [refunded EXCEPT ![s] = @ + tx[s].take] /\ UNCHANGED collected
    /\ UNCHANGED <<height, start, extends>>

Reject(s) ==
    /\ tx[s] # NoTx /\ ~Valid(s)
    /\ tx' = [tx EXCEPT ![s] = NoTx]
    /\ UNCHANGED <<height, box, start, extends, paid, collected, refunded>>

Wallet(s) ==
    \/ \E days \in Days : SignUp(s, days)
    \/ \E x \in Extensions : Extend(s, x)
    \/ Cancel(s)

Next == Mine \/ \E s \in Subs : Wallet(s) \/ Collect(s) \/ Include(s) \/ Reject(s)

Spec == Init /\ [][Next]_vars

(* Blocks are mined, submitted transactions are judged, and the fund cycle   *)
(* keeps coming round.  Subscribers need do nothing.                         *)
FairSpec ==
    /\ Spec
    /\ WF_vars(Mine)
    /\ \A s \in Subs : WF_vars(Collect(s)) /\ WF_vars(Include(s) \/ Reject(s))

-----------------------------------------------------------------------------
(* withdraw.ts 52-104 against contracts.ts 292-313: whatever the history of  *)
(* a box, the collection the server would build now is one the guard accepts.*)
ClaimAccepted ==
    \A s \in Subs : Claimable(box[s], height) =>
        Guard(box[s], height, CollectTx(box[s], height))

(* contracts.ts 295-298: over any sequence of collections and extensions the *)
(* provider never gets more than the elapsed intervals are worth.            *)
EarnedOnly ==
    \A s \in Subs : collected[s] > 0 =>
        collected[s] <= Rate * ((height - start[s]) \div Interval)

(* Nothing a subscriber paid is lost or paid out twice.                      *)
Conserved ==
    \A s \in Subs : start[s] # -1 =>
        paid[s] = collected[s] + refunded[s]
                    + (IF box[s] = NoBox THEN 0 ELSE box[s].remaining)

(* withdraw.ts 225-231: a box holds what its register promises.              *)
Solvent == \A s \in Subs : box[s] # NoBox => box[s].value >= box[s].remaining

(* docs/fund-manager.md: a subscription that has run out is fully consumed,  *)
(* its box spent and its beacon burned, as long as its time covers its money *)
(* (what an extension adds without time is never earned and stays).          *)
RunOut(s) ==
    /\ box[s] # NoBox
    /\ height >= box[s].expiry
    /\ box[s].remaining <= Rate * ((box[s].expiry - box[s].last) \div Interval)

ExpiredIsConsumed == \A s \in Subs : RunOut(s) ~> ~RunOut(s)
=============================================================================
