-------------------------- MODULE SubscriptionProofs --------------------------
(***************************************************************************)
(* Proofs about the money: what a subscription's box holds and pays         *)
(* (Subscription), and how the fund manager divides what was collected      *)
(* (FundManager).                                                           *)
(*                                                                          *)
(* Subscription: for any rate, interval, sign-up and sequence               *)
(* of extensions, valid or not, the collection the server would build is    *)
(* accepted, the provider gets no more than the time that has passed is     *)
(* worth, no money is lost, and a box holds what its register promises.     *)
(*                                                                          *)
(* A transaction in flight was built by one of the three builders from the  *)
(* box that is still there (Submitted), at a height that has been reached.  *)
(* What has been collected is not a matter of the box alone: Paced says     *)
(* that lastCollectedHeight has moved by whole intervals, and that no more  *)
(* than their worth was collected.                                          *)
(*                                                                          *)
(* FundManager: for any recipients and proportions, no wallet spends more   *)
(* than it holds and the shares come from the pot.  Round is the invariant  *)
(* of the loop over the recipients: what was decided on covers what was     *)
(* sent, and is within the part of the pot that belongs to the recipients   *)
(* dealt with.                                                              *)
(***************************************************************************)
EXTENDS Subscription, FundManager, WellFoundedInduction, TLAPS

Types ==
    /\ height \in Nat
    /\ DOMAIN box = Subs /\ \A s \in Subs : box[s] \in Box \cup {NoBox}
    /\ DOMAIN tx = Subs
    /\ start \in [Subs -> Int]
    /\ paid \in [Subs -> Int] /\ collected \in [Subs -> Int] /\ refunded \in [Subs -> Int]

BuiltAt(s, h) == Claimable(box[s], h) /\ tx[s] = CollectTx(box[s], h)
Submitted ==
    \A s \in Subs : tx[s] # NoTx =>
        /\ box[s] # NoBox
        /\ \/ \E h \in 0..height : BuiltAt(s, h)
           \/ \E x \in Extensions : tx[s] = ExtendTx(box[s], x)
           \/ tx[s] = CancelTx(box[s])

NotStarted ==
    \A s \in Subs : start[s] = -1 =>
        /\ box[s] = NoBox /\ tx[s] = NoTx
        /\ collected[s] = 0 /\ refunded[s] = 0

PacedBy(s, k) == /\ box[s].last = start[s] + k * Interval
                 /\ collected[s] <= k * Rate
Paced == \A s \in Subs : box[s] # NoBox => \E k \in Nat : PacedBy(s, k)

IInv == Types /\ Submitted /\ NotStarted /\ Paced /\ EarnedOnly /\ Conserved /\ Solvent

-----------------------------------------------------------------------------
(* Arithmetic.                                                               *)

LEMMA DivFloor ==
    ASSUME NEW a \in Int, NEW d \in Nat \ {0}
    PROVE  a \div d \in Int /\ (a \div d) * d <= a /\ a < (a \div d) * d + d
OBVIOUS

LEMMA Scale ==
    ASSUME NEW m \in Int, NEW n \in Int, NEW d \in Nat, m <= n
    PROVE  m * d <= n * d
OBVIOUS

LEMMA Spread ==
    ASSUME NEW m \in Int, NEW n \in Int, NEW d \in Int
    PROVE  (m + n) * d = m * d + n * d
OBVIOUS

LEMMA DivLeast ==
    ASSUME NEW a \in Int, NEW d \in Nat \ {0}, NEW k \in Int, k * d <= a
    PROVE  k <= a \div d
<1> DEFINE q == a \div d
<1>1. q \in Int /\ q * d <= a /\ a < q * d + d
  BY DivFloor
<1> HIDE DEF q
<1>2. SUFFICES ASSUME q + 1 <= k PROVE FALSE
  BY <1>1 DEF q
<1>3. (q + 1) * d <= k * d
  BY <1>1, <1>2, Scale
<1>4. (q + 1) * d = q * d + 1 * d
  BY <1>1, Spread
<1> QED
  BY <1>1, <1>3, <1>4

-----------------------------------------------------------------------------
(* What the builder computes for a claimable box at height h.                *)

Intervals(b, h) == ClaimIntervals(b, h)

LEMMA ClaimFacts ==
    ASSUME NEW b \in Box, NEW h \in Nat, Claimable(b, h)
    PROVE  /\ Intervals(b, h) \in Nat \ {0}
           /\ b.last + Intervals(b, h) * Interval <= h
           /\ ClaimAmount(b, h) \in Nat \ {0}
           /\ ClaimAmount(b, h) <= b.remaining
           /\ ClaimAmount(b, h) <= Intervals(b, h) * Rate
           /\ Intervals(b, h) * Rate \in Nat \ {0}
<1> USE SubscriptionConstants
<1> DEFINE a == Least(h, b.expiry) - b.last
           n == Intervals(b, h)
<1>1. b.remaining \in Nat /\ b.last \in Int /\ b.expiry \in Nat
  BY DEF Box
<1>2. a \in Int /\ a >= Interval /\ b.last + a <= h /\ b.remaining > 0
  BY <1>1 DEF Claimable, Least
<1>3. n = a \div Interval
  BY DEF Intervals, ClaimIntervals
<1>4. ClaimAmount(b, h) = Least(n * Rate, b.remaining)
  BY DEF ClaimAmount, Intervals
<1> HIDE DEF a, n
<1>5. n \in Int /\ n * Interval <= a
  BY <1>2, <1>3, DivFloor
<1>6. n >= 1
  <2>1. 1 * Interval <= a
    BY <1>2
  <2> QED
    BY <1>2, <1>3, <2>1, DivLeast
<1>7. 1 * Rate <= n * Rate /\ n * Rate \in Int /\ n * Interval \in Int
  BY <1>5, <1>6, Scale
<1>8. Least(n * Rate, b.remaining) \in Nat \ {0}
      /\ Least(n * Rate, b.remaining) <= b.remaining
      /\ Least(n * Rate, b.remaining) <= n * Rate
  BY <1>1, <1>2, <1>7 DEF Least
<1>9. b.last + n * Interval <= h
  BY <1>1, <1>2, <1>5, <1>7
<1>10. n \in Nat \ {0} /\ n * Rate \in Nat \ {0}
  BY <1>5, <1>6, <1>7
<1> QED
  BY <1>4, <1>8, <1>9, <1>10 DEF n

(* It is either the last collection or one that leaves the rest in the box.  *)
LEMMA CollectForm ==
    ASSUME NEW b \in Box, NEW h \in Nat, Claimable(b, h)
    PROVE  LET t == CollectTx(b, h)
           IN  /\ t.kind = "collect" /\ t.signer = "server" /\ t.add = 0
               /\ t.take = ClaimAmount(b, h) /\ t.spends = b.id
               /\ \/ /\ Intervals(b, h) * Rate >= b.remaining
                     /\ ~t.beacon /\ ClaimAmount(b, h) = b.remaining
                  \/ /\ Intervals(b, h) * Rate < b.remaining
                     /\ ClaimAmount(b, h) = Intervals(b, h) * Rate
                     /\ t.beacon /\ t.script = "guard"
                     /\ t.out \in Box
                     /\ t.out.remaining = b.remaining - ClaimAmount(b, h)
                     /\ t.out.last = b.last + Intervals(b, h) * Interval
                     /\ t.out.expiry = b.expiry
                     /\ t.out.value >= b.value - ClaimAmount(b, h)
<1> USE SubscriptionConstants DEF Intervals
<1>1. /\ ClaimAmount(b, h) \in Nat /\ ClaimAmount(b, h) <= b.remaining
      /\ Intervals(b, h) \in Nat /\ Intervals(b, h) * Rate \in Nat
  BY ClaimFacts
<1>2. b.remaining \in Nat /\ b.last \in Int /\ b.expiry \in Nat /\ b.value \in Nat /\ b.id \in Nat
  BY DEF Box
<1>3. CASE ClaimIntervals(b, h) * Rate >= b.remaining
  <2>1. ClaimAmount(b, h) = b.remaining
    BY <1>1, <1>2, <1>3 DEF ClaimAmount, Least
  <2> QED
    BY <1>3, <2>1 DEF CollectTx
<1>4. CASE ~(ClaimIntervals(b, h) * Rate >= b.remaining)
  <2> DEFINE amount == ClaimAmount(b, h)
             out == [b EXCEPT !.id = @ + 1, !.remaining = @ - amount,
                              !.last = NextLast(b, h),
                              !.value = ContinuingValue(b, amount)]
             base == [kind |-> "collect", spends |-> b.id, signer |-> "server",
                      script |-> "other", beacon |-> FALSE,
                      out |-> [b EXCEPT !.value = MinBox], take |-> amount, add |-> 0]
  <2>1. amount = ClaimIntervals(b, h) * Rate
    BY <1>1, <1>2, <1>4 DEF ClaimAmount, Least
  <2>2. CollectTx(b, h) = [base EXCEPT !.script = "guard", !.beacon = TRUE, !.out = out]
    BY <1>4 DEF CollectTx
  <2> HIDE DEF amount
  <2>3. amount \in Nat /\ amount <= b.remaining
    BY <1>1 DEF amount
  <2>4. NextLast(b, h) \in Int /\ NextLast(b, h) = b.last + Intervals(b, h) * Interval
    BY <1>1, <1>2 DEF NextLast
  <2>5. ContinuingValue(b, amount) \in Nat /\ ContinuingValue(b, amount) >= b.value - amount
    BY <1>2, <2>3 DEF ContinuingValue, Most
  <2>6. out \in Box
    <3>1. b.id + 1 \in Nat /\ b.remaining - amount \in Nat
      BY <1>2, <2>3
    <3> QED
      BY <1>2, <2>4, <2>5, <3>1 DEF Box
  <2>7. /\ out.remaining = b.remaining - amount /\ out.last = NextLast(b, h)
        /\ out.expiry = b.expiry /\ out.value = ContinuingValue(b, amount)
    BY DEF Box
  <2> HIDE DEF out
  <2>8. LET t == CollectTx(b, h)
        IN  /\ t.kind = "collect" /\ t.signer = "server" /\ t.add = 0
            /\ t.take = amount /\ t.spends = b.id /\ t.beacon /\ t.script = "guard"
            /\ t.out = out
    BY <2>2
  <2>9. ClaimIntervals(b, h) * Rate < b.remaining
    BY <1>1, <1>2, <1>4
  <2> QED
    BY <2>1, <2>4, <2>5, <2>6, <2>7, <2>8, <2>9 DEF amount
<1> QED
  BY <1>3, <1>4

(* The claim of the present is one the guard accepts in the present.         *)
LEMMA GuardAgrees ==
    ASSUME NEW b \in Box, NEW h \in Nat, Claimable(b, h)
    PROVE  Guard(b, h, CollectTx(b, h))
<1> DEFINE t == CollectTx(b, h)
<1>1. Earned(b, h) = ClaimAmount(b, h) /\ GuardIntervals(b, h) = Intervals(b, h)
  BY DEF Earned, ClaimAmount, GuardIntervals, ClaimIntervals, Intervals
<1>2. ClaimAmount(b, h) \in Nat \ {0} /\ b.remaining \in Nat
  BY ClaimFacts DEF Box
<1>3. t.signer = "server"
  BY CollectForm
<1>4. CASE ~t.beacon /\ ClaimAmount(b, h) = b.remaining
  BY <1>1, <1>2, <1>3, <1>4 DEF Guard, CollectPath
<1>5. CASE /\ ClaimAmount(b, h) < b.remaining
           /\ t.beacon /\ t.script = "guard"
           /\ t.out.remaining = b.remaining - ClaimAmount(b, h)
           /\ t.out.last = b.last + Intervals(b, h) * Interval
           /\ t.out.expiry = b.expiry
  <2>1. ~(Earned(b, h) >= b.remaining)
    BY <1>1, <1>2, <1>5
  <2> QED
    BY <1>1, <1>2, <1>3, <1>5, <2>1 DEF Guard, CollectPath, Continues
<1> QED
  BY <1>4, <1>5, CollectForm

-----------------------------------------------------------------------------
LEMMA InitIInv == Init => IInv
BY DEF Init, IInv, Types, Submitted, NotStarted, Paced, EarnedOnly, Conserved, Solvent

-----------------------------------------------------------------------------
(* What inclusion does to the box, transaction by transaction.               *)

LEMMA IncludedExtension ==
    ASSUME NEW s \in Subs, box[s] \in Box, box[s].value >= box[s].remaining,
           NEW x \in Extensions,
           Guard(box[s], height, ExtendTx(box[s], x))
    PROVE  LET b == box[s]
               t == ExtendTx(b, x)
           IN  /\ t.beacon /\ t.kind = "extend" /\ t.take = 0 /\ t.add = x.amount
               /\ t.out \in Box /\ x.amount \in Int
               /\ t.out.remaining = b.remaining + x.amount
               /\ t.out.value = b.value + x.amount
               /\ t.out.last = b.last
<1> DEFINE b == box[s]
           t == ExtendTx(b, x)
           out == [b EXCEPT !.id = @ + 1, !.remaining = @ + x.amount, !.last = @ + x.shift,
                            !.expiry = @ + x.blocks, !.value = @ + x.amount]
<1>1. b.remaining \in Nat /\ b.last \in Int /\ b.expiry \in Nat /\ b.value \in Nat /\ b.id \in Nat
  BY DEF Box
<1>2. x.amount \in Int /\ x.blocks \in Int /\ x.shift \in Int
  BY SubscriptionConstants
<1>3. /\ t.kind = "extend" /\ t.signer = "subscriber" /\ t.script = "guard" /\ t.beacon
      /\ t.out = out /\ t.take = 0 /\ t.add = x.amount
  BY DEF ExtendTx
<1>4. /\ out.remaining = b.remaining + x.amount /\ out.last = b.last + x.shift
      /\ out.expiry = b.expiry + x.blocks /\ out.value = b.value + x.amount
  BY DEF Box
<1>5. ExtendPath(b, t)
  <2> HIDE DEF out, t, b
  <2> QED
    BY <1>3 DEF Guard, CollectPath, CancelPath, MigratePath, b, t
<1>6. /\ out.remaining >= b.remaining /\ out.expiry >= b.expiry /\ out.last = b.last
  <2> HIDE DEF out, t, b
  <2> QED
    BY <1>3, <1>5 DEF ExtendPath
<1>7. /\ b.remaining + x.amount \in Nat /\ b.last + x.shift \in Int
      /\ b.expiry + x.blocks \in Nat /\ b.value + x.amount \in Nat /\ b.id + 1 \in Nat
  <2> HIDE DEF out, t
  <2> QED
    BY <1>1, <1>2, <1>4, <1>6 DEF b
<1>8. out \in Box
  BY <1>1, <1>7 DEF Box
<1> HIDE DEF out
<1> QED
  BY <1>2, <1>3, <1>4, <1>6, <1>8

(* One subscription's share of the invariant, on values: the box, the        *)
(* transaction's effect, and what was paid, collected and refunded.          *)
LEMMA IncludeStep ==
    ASSUME IInv, NEW s \in Subs, Include(s)
    PROVE  IInv'
<1> USE SubscriptionConstants
<1> DEFINE b == box[s]
           t == tx[s]
<1>1. b \in Box /\ t # NoTx /\ Guard(b, height, t)
  BY DEF IInv, Types, Include, Valid
<1>2. /\ b.remaining \in Nat /\ b.last \in Int /\ b.expiry \in Nat /\ b.value \in Nat
      /\ height \in Nat /\ start[s] \in Int /\ start[s] # -1
      /\ paid[s] \in Int /\ collected[s] \in Int /\ refunded[s] \in Int
  BY <1>1 DEF Box, IInv, Types, NotStarted
<1>3. /\ b.value >= b.remaining
      /\ paid[s] = collected[s] + refunded[s] + b.remaining
      /\ \E k \in Nat : PacedBy(s, k)
      /\ (collected[s] > 0 => collected[s] <= Rate * ((height - start[s]) \div Interval))
  BY <1>1, <1>2 DEF IInv, Solvent, Conserved, Paced, EarnedOnly
<1>4. /\ box'[s] = (IF t.beacon THEN t.out ELSE NoBox)
      /\ tx'[s] = NoTx /\ height' = height /\ start' = start
      /\ paid'[s] = paid[s] + t.add
      /\ collected'[s] = (IF t.kind = "collect" THEN collected[s] + t.take ELSE collected[s])
      /\ refunded'[s] = (IF t.kind = "collect" THEN refunded[s] ELSE refunded[s] + t.take)
  BY DEF Include, IInv, Types
<1>5. \A r \in Subs : r # s =>
          /\ box'[r] = box[r] /\ tx'[r] = tx[r] /\ paid'[r] = paid[r]
          /\ collected'[r] = collected[r] /\ refunded'[r] = refunded[r]
  BY DEF Include, IInv, Types
<1>6. ASSUME NEW box1 \in Box \cup {NoBox}, NEW paid1 \in Int,
             NEW collected1 \in Int, NEW refunded1 \in Int,
             box'[s] = box1, paid'[s] = paid1, collected'[s] = collected1,
             refunded'[s] = refunded1,
             box1 # NoBox => box1.value >= box1.remaining,
             paid1 = collected1 + refunded1 + (IF box1 = NoBox THEN 0 ELSE box1.remaining),
             collected1 > 0 => collected1 <= Rate * ((height - start[s]) \div Interval),
             box1 # NoBox => \E k \in Nat : /\ box1.last = start[s] + k * Interval
                                            /\ collected1 <= k * Rate
      PROVE  IInv'
  <2>1. Types'
    <3>1. /\ DOMAIN box' = Subs /\ DOMAIN tx' = Subs
          /\ height' = height /\ start' = start
      BY DEF Include, IInv, Types
    <3>2. \A r \in Subs : box'[r] \in Box \cup {NoBox}
      BY <1>5, <1>6 DEF IInv, Types
    <3>3. /\ DOMAIN paid' = Subs /\ DOMAIN collected' = Subs /\ DOMAIN refunded' = Subs
          /\ paid' = [r \in Subs |-> paid'[r]] /\ collected' = [r \in Subs |-> collected'[r]]
          /\ refunded' = [r \in Subs |-> refunded'[r]]
      BY DEF Include, IInv, Types
    <3>4. \A r \in Subs : paid'[r] \in Int /\ collected'[r] \in Int /\ refunded'[r] \in Int
      BY <1>5, <1>6 DEF IInv, Types
    <3>5. /\ paid' \in [Subs -> Int] /\ collected' \in [Subs -> Int]
          /\ refunded' \in [Subs -> Int]
      BY <3>3, <3>4
    <3> QED
      BY <3>1, <3>2, <3>5 DEF IInv, Types
  <2>2. Submitted'
    BY <1>4, <1>5 DEF IInv, Submitted, BuiltAt
  <2>3. NotStarted'
    BY <1>2, <1>4, <1>5 DEF IInv, NotStarted
  <2>4. Paced'
    BY <1>4, <1>5, <1>6 DEF IInv, Paced, PacedBy
  <2>5. EarnedOnly'
    BY <1>4, <1>5, <1>6 DEF IInv, EarnedOnly
  <2>6. Conserved'
    BY <1>4, <1>5, <1>6 DEF IInv, Conserved
  <2>7. Solvent'
    BY <1>4, <1>5, <1>6 DEF IInv, Solvent
  <2> QED
    BY <2>1, <2>2, <2>3, <2>4, <2>5, <2>6, <2>7 DEF IInv
<1>7. ASSUME NEW h \in 0..height, BuiltAt(s, h) PROVE IInv'
  <2> DEFINE n == Intervals(b, h)
             amount == ClaimAmount(b, h)
  <2>1. /\ h \in Nat /\ h <= height /\ Claimable(b, h) /\ t = CollectTx(b, h)
    BY <1>2, <1>7 DEF BuiltAt
  <2>2. /\ n \in Nat \ {0} /\ b.last + n * Interval <= h /\ amount \in Nat \ {0}
        /\ amount <= b.remaining /\ amount <= n * Rate
    BY <1>1, <2>1, ClaimFacts
  <2>3. /\ t.kind = "collect" /\ t.add = 0 /\ t.take = amount
        /\ \/ ~t.beacon /\ amount = b.remaining
           \/ /\ t.beacon /\ t.out \in Box
              /\ t.out.remaining = b.remaining - amount
              /\ t.out.last = b.last + n * Interval
              /\ t.out.value >= b.value - amount
    BY <1>1, <2>1, CollectForm
  <2> HIDE DEF n, amount, t, b
  <2>4. PICK k \in Nat : b.last = start[s] + k * Interval /\ collected[s] <= k * Rate
    BY <1>3 DEF PacedBy, b
  <2>5. /\ (k + n) * Interval = k * Interval + n * Interval
        /\ (k + n) * Rate = k * Rate + n * Rate
        /\ k + n \in Nat
    BY <2>2, Spread
  <2>6. /\ k * Interval \in Int /\ n * Interval \in Int /\ k * Rate \in Int /\ n * Rate \in Int
    BY <2>2
  <2>7. b.last + n * Interval = start[s] + (k + n) * Interval
    BY <1>2, <2>4, <2>5, <2>6
  <2>8. collected[s] + amount <= (k + n) * Rate
    BY <1>2, <2>2, <2>4, <2>5, <2>6
  <2>9. (k + n) * Interval <= height - start[s]
    BY <1>2, <2>1, <2>2, <2>5, <2>6, <2>7
  <2>10. collected[s] + amount <= Rate * ((height - start[s]) \div Interval)
    <3> DEFINE a == height - start[s]
               q == a \div Interval
    <3>a. a \in Int /\ Interval \in Nat \ {0} /\ (k + n) * Interval <= a
      BY <1>2, <2>9
    <3> HIDE DEF a
    <3>1. q \in Int /\ k + n <= q
      BY <2>5, <3>a, DivLeast, DivFloor
    <3> HIDE DEF q
    <3>2. (k + n) * Rate <= q * Rate /\ q * Rate = Rate * q
      BY <2>5, <3>1, Scale
    <3>3. (k + n) * Rate \in Int /\ q * Rate \in Int
      BY <2>5, <3>1
    <3> QED
      BY <1>2, <2>2, <2>8, <3>2, <3>3 DEF q, a
  <2>11. /\ collected'[s] = collected[s] + amount /\ refunded'[s] = refunded[s]
         /\ paid'[s] = paid[s]
    BY <1>2, <1>4, <2>3 DEF t
  <2>12. CASE ~t.beacon /\ amount = b.remaining
    <3>1. box'[s] = NoBox
      BY <1>4, <2>12 DEF t
    <3>2. collected[s] + amount \in Int
      BY <1>2, <2>2
    <3>3. paid[s] = (collected[s] + amount) + refunded[s] + 0
      BY <1>2, <1>3, <2>2, <2>12 DEF b
    <3> QED
      BY <1>2, <1>6, <2>10, <2>11, <3>1, <3>2, <3>3
  <2>13. CASE /\ t.beacon /\ t.out \in Box
              /\ t.out.remaining = b.remaining - amount
              /\ t.out.last = b.last + n * Interval
              /\ t.out.value >= b.value - amount
    <3>1. box'[s] = t.out
      BY <1>4, <2>13 DEF t
    <3>2. t.out.value \in Nat
      BY <2>13 DEF Box
    <3>3. t.out.last = start[s] + (k + n) * Interval
      BY <2>7, <2>13
    <3>4. t.out.value >= t.out.remaining
      BY <1>2, <1>3, <2>2, <2>13, <3>2 DEF b
    <3>5. t.out # NoBox
      BY <2>13
    <3>6. collected[s] + amount \in Int
      BY <1>2, <2>2
    <3>7. paid[s] = (collected[s] + amount) + refunded[s] + t.out.remaining
      BY <1>2, <1>3, <2>2, <2>13 DEF b
    <3> QED
      BY <1>2, <1>6, <2>5, <2>8, <2>10, <2>11, <2>13, <3>1, <3>3, <3>4, <3>5, <3>6, <3>7
  <2> QED
    BY <2>3, <2>12, <2>13
<1>8. ASSUME NEW x \in Extensions, t = ExtendTx(b, x) PROVE IInv'
  <2>1. /\ t.beacon /\ t.kind = "extend" /\ t.take = 0 /\ t.add = x.amount
        /\ t.out \in Box /\ x.amount \in Int
        /\ t.out.remaining = b.remaining + x.amount
        /\ t.out.value = b.value + x.amount
        /\ t.out.last = b.last
    BY <1>1, <1>3, <1>8, IncludedExtension
  <2> HIDE DEF t, b
  <2>2. /\ box'[s] = t.out /\ paid'[s] = paid[s] + x.amount
        /\ collected'[s] = collected[s] /\ refunded'[s] = refunded[s]
    BY <1>2, <1>4, <2>1 DEF t
  <2>3. t.out.value >= t.out.remaining /\ t.out # NoBox
    BY <1>2, <1>3, <2>1 DEF b
  <2>4. paid[s] + x.amount = collected[s] + refunded[s] + t.out.remaining
    BY <1>2, <1>3, <2>1 DEF b
  <2>5. \E k \in Nat : t.out.last = start[s] + k * Interval /\ collected[s] <= k * Rate
    BY <1>3, <2>1 DEF PacedBy, b
  <2>6. paid[s] + x.amount \in Int
    BY <1>2, <2>1
  <2>7. (IF t.out = NoBox THEN 0 ELSE t.out.remaining) = t.out.remaining
    BY <2>3
  <2>8. t.out \in Box \cup {NoBox} /\ collected[s] \in Int /\ refunded[s] \in Int
    BY <1>2, <2>1
  <2> HIDE DEF PacedBy
  <2> QED
    BY <1>3, <1>6, <2>2, <2>3, <2>4, <2>5, <2>6, <2>7, <2>8
<1>9. ASSUME t = CancelTx(b) PROVE IInv'
  <2>1. ~t.beacon /\ t.kind = "cancel" /\ t.take = b.remaining /\ t.add = 0
    BY <1>9 DEF CancelTx
  <2> HIDE DEF t, b
  <2>2. /\ box'[s] = NoBox /\ paid'[s] = paid[s]
        /\ collected'[s] = collected[s] /\ refunded'[s] = refunded[s] + b.remaining
    BY <1>2, <1>4, <2>1 DEF t
  <2>3. refunded[s] + b.remaining \in Int /\ paid[s] \in Int /\ collected[s] \in Int
    BY <1>2 DEF b
  <2>4. paid[s] = collected[s] + (refunded[s] + b.remaining) + 0
    BY <1>2, <1>3 DEF b
  <2>5. (IF NoBox = NoBox THEN 0 ELSE NoBox.remaining) = 0
    OBVIOUS
  <2>6. collected[s] > 0 => collected[s] <= Rate * ((height - start[s]) \div Interval)
    BY <1>3
  <2> QED
    BY <1>6, <2>2, <2>3, <2>4, <2>5, <2>6
<1> QED
  BY <1>1, <1>7, <1>8, <1>9 DEF IInv, Submitted

-----------------------------------------------------------------------------
(* The other actions.                                                        *)

LEMMA SignUpStep ==
    ASSUME IInv, NEW s \in Subs, NEW days \in Days, SignUp(s, days)
    PROVE  IInv'
<1> USE SubscriptionConstants
<1> DEFINE money == days * Rate
           new == [id |-> 1, remaining |-> money, last |-> height,
                   expiry |-> height + days * Interval, value |-> money]
<1>1. days \in Nat /\ money \in Nat /\ days * Interval \in Nat /\ height \in Nat
  BY DEF IInv, Types
<1>2. new \in Box
  BY <1>1 DEF Box
<1>3. /\ box[s] = NoBox /\ tx[s] = NoTx /\ collected[s] = 0 /\ refunded[s] = 0
  BY DEF IInv, NotStarted, SignUp
<1>4. /\ box' = [box EXCEPT ![s] = new] /\ paid' = [paid EXCEPT ![s] = money]
      /\ start' = [start EXCEPT ![s] = height]
      /\ UNCHANGED <<height, tx, extends, collected, refunded>>
  BY DEF SignUp
<1>5. new.remaining = money /\ new.value = money /\ new.last = height
  OBVIOUS
<1> HIDE DEF new, money
<1>6. Types'
  BY <1>1, <1>2, <1>4 DEF IInv, Types
<1>7. Submitted'
  BY <1>3, <1>4 DEF IInv, Submitted, BuiltAt, Types
<1>8. NotStarted'
  BY <1>1, <1>4 DEF IInv, NotStarted, Types
<1>9. Paced'
  <2>1. PacedBy(s, 0)'
    BY <1>1, <1>3, <1>4, <1>5 DEF PacedBy, IInv, Types
  <2>2. \A r \in Subs : r # s => box'[r] = box[r] /\ start'[r] = start[r]
    BY <1>4 DEF IInv, Types
  <2> QED
    BY <1>4, <2>1, <2>2 DEF IInv, Paced, PacedBy
<1>10. EarnedOnly'
  BY <1>3, <1>4 DEF IInv, EarnedOnly, Types
<1>11. Conserved'
  BY <1>1, <1>2, <1>3, <1>4, <1>5 DEF IInv, Conserved, Types
<1>12. Solvent'
  BY <1>1, <1>4, <1>5 DEF IInv, Solvent, Types
<1> QED
  BY <1>6, <1>7, <1>8, <1>9, <1>10, <1>11, <1>12 DEF IInv

(* Building or dropping a transaction touches nothing else.                  *)
Building(s) ==
    Collect(s) \/ (\E x \in Extensions : Extend(s, x)) \/ Cancel(s) \/ Reject(s)

LEMMA BuildStep ==
    ASSUME IInv, NEW s \in Subs, Building(s)
    PROVE  IInv'
<1>1. UNCHANGED <<height, box, start, paid, collected, refunded>>
  BY DEF Building, Collect, Extend, Cancel, Reject
<1>2. PICK t : /\ tx' = [tx EXCEPT ![s] = t]
               /\ t # NoTx =>
                    /\ box[s] # NoBox
                    /\ \/ Claimable(box[s], height) /\ t = CollectTx(box[s], height)
                       \/ \E x \in Extensions : t = ExtendTx(box[s], x)
                       \/ t = CancelTx(box[s])
  <2>1. CASE Collect(s)
    BY <2>1 DEF Collect, Claimable
  <2>2. CASE \E x \in Extensions : Extend(s, x)
    BY <2>2 DEF Extend
  <2>3. CASE Cancel(s)
    BY <2>3 DEF Cancel
  <2>4. CASE Reject(s)
    BY <2>4 DEF Reject
  <2> QED
    BY <2>1, <2>2, <2>3, <2>4 DEF Building
<1>3. height \in 0..height
  BY DEF IInv, Types
<1>4. Submitted'
  BY <1>1, <1>2, <1>3 DEF IInv, Submitted, BuiltAt, Types
<1>5. Types'
  BY <1>1, <1>2 DEF IInv, Types
<1>6. NotStarted'
  BY <1>1, <1>2 DEF IInv, NotStarted, Types
<1>7. Paced' /\ EarnedOnly' /\ Conserved' /\ Solvent'
  BY <1>1 DEF IInv, Paced, PacedBy, EarnedOnly, Conserved, Solvent
<1> QED
  BY <1>4, <1>5, <1>6, <1>7 DEF IInv

LEMMA MineStep == ASSUME IInv, Mine PROVE IInv'
<1> USE SubscriptionConstants
<1>1. /\ height \in Nat /\ height' = height + 1
      /\ UNCHANGED <<box, tx, start, paid, collected, refunded>>
  BY DEF Mine, IInv, Types
<1>2. \A h \in 0..height : h \in 0..height'
  BY <1>1
<1>3. Submitted'
  BY <1>1, <1>2 DEF IInv, Submitted, BuiltAt
<1>4. EarnedOnly'
  <2> SUFFICES ASSUME NEW s \in Subs, collected'[s] > 0
               PROVE  collected'[s] <= Rate * ((height' - start'[s]) \div Interval)
    BY DEF EarnedOnly
  <2> DEFINE a == height - start[s]
             c == height' - start[s]
             p == a \div Interval
             q == c \div Interval
  <2>1. start[s] \in Int /\ collected[s] \in Int /\ collected[s] <= Rate * p
    BY <1>1 DEF IInv, Types, EarnedOnly
  <2>a. a \in Int /\ c \in Int /\ a <= c /\ Interval \in Nat \ {0}
    BY <1>1, <2>1
  <2> HIDE DEF a, c
  <2>2. p \in Int /\ p * Interval <= a /\ q \in Int
    BY <2>a, DivFloor
  <2>3. p <= q
    <3> HIDE DEF p
    <3>1. p * Interval \in Int
      BY <2>a, <2>2
    <3>2. p * Interval <= c
      BY <2>a, <2>2, <3>1
    <3> QED
      BY <2>a, <2>2, <3>2, DivLeast
  <2> HIDE DEF p, q
  <2>4. p * Rate <= q * Rate /\ p * Rate = Rate * p /\ q * Rate = Rate * q
    BY <2>2, <2>3, Scale
  <2>5. p * Rate \in Int /\ q * Rate \in Int
    BY <2>2
  <2> QED
    BY <1>1, <2>1, <2>4, <2>5 DEF q, c
<1>5. Types' /\ NotStarted' /\ Paced' /\ Conserved' /\ Solvent'
  BY <1>1 DEF IInv, Types, NotStarted, Paced, PacedBy, Conserved, Solvent
<1> QED
  BY <1>3, <1>4, <1>5 DEF IInv

LEMMA Inductive == ASSUME IInv, [Next]_vars PROVE IInv'
<1>1. CASE Mine
  BY <1>1, MineStep
<1>2. ASSUME NEW s \in Subs, Include(s) PROVE IInv'
  BY <1>2, IncludeStep
<1>3. ASSUME NEW s \in Subs, NEW days \in Days, SignUp(s, days) PROVE IInv'
  BY <1>3, SignUpStep
<1>4. ASSUME NEW s \in Subs, Building(s) PROVE IInv'
  BY <1>4, BuildStep
<1>5. CASE UNCHANGED vars
  BY <1>5 DEF vars, IInv, Types, Submitted, BuiltAt, NotStarted, Paced, PacedBy, EarnedOnly,
              Conserved, Solvent
<1> QED
  BY <1>1, <1>2, <1>3, <1>4, <1>5 DEF Next, Wallet, Building

LEMMA Always == Spec => []IInv
BY InitIInv, Inductive, PTL DEF Spec

-----------------------------------------------------------------------------
(* withdraw.ts 52-104 against contracts.ts 292-313: the collection that the  *)
(* server would build now is one that the guard accepts now.                 *)
THEOREM ClaimsAreAccepted == Spec => []ClaimAccepted
<1>1. IInv => ClaimAccepted
  BY GuardAgrees DEF IInv, Types, ClaimAccepted, Claimable
<1> QED
  BY <1>1, Always, PTL

(* contracts.ts 295-298: the provider never has more than the elapsed        *)
(* intervals are worth.                                                      *)
THEOREM ProviderEarnsWhatItGets == Spec => []EarnedOnly
<1>1. IInv => EarnedOnly
  BY DEF IInv
<1> QED
  BY <1>1, Always, PTL

(* contracts.ts 277-334: what a subscriber paid is in the box, collected or  *)
(* refunded, once.                                                           *)
THEOREM NothingIsLost == Spec => []Conserved
<1>1. IInv => Conserved
  BY DEF IInv
<1> QED
  BY <1>1, Always, PTL

(* withdraw.ts 225-231: a box holds what its register promises.              *)
THEOREM BoxesAreSolvent == Spec => []Solvent
<1>1. IInv => Solvent
  BY DEF IInv
<1> QED
  BY <1>1, Always, PTL

-----------------------------------------------------------------------------
(* FundManager: the loop over the recipients, and its invariant.             *)

(* Shares are not negative: the file is not checked for it.                  *)
SharesAreNatural == \A i \in DOMAIN Recipients : Recipients[i].bps \in Nat

(* The number of recipients dealt with, and what the transfer decided on is  *)
(* about to add to what they got.                                            *)
Handled == IF order = None THEN next - 1 ELSE next
Waiting == IF order = None THEN 0 ELSE order.amount

InTheLoop ==
    /\ TotalBps > 0
    /\ order # None => next \in DOMAIN Recipients
    /\ shared + Waiting <= distributed /\ distributed <= pot
    /\ Handled < Len(Recipients) => distributed * TotalBps <= pot * BpsUpTo[Handled]

Sending == {"gas", "topUp", "buffer", "admin", "shares"}

Round ==
    /\ order # None => stage \in Sending
    /\ stage # "shares" => next = 0
    /\ stage \notin {"shares", "admin", "finally"} => shared = 0
    /\ stage = "shares" /\ next = 0 => order = None /\ shared = 0
    /\ stage = "shares" /\ next > 0 => InTheLoop

-----------------------------------------------------------------------------
(* The sums of the shares.                                                   *)

LEMMA LeastOf ==
    ASSUME NEW T, T \subseteq Nat, T # {}
    PROVE  \E n \in T : \A k \in T : n <= k
<1> DEFINE R == OpToRel(<, Nat)
<1>1. IsWellFoundedOn(R, Nat)
  BY NatLessThanWellFounded
<1>2. \A x, y \in Nat : <<x, y>> \in R <=> x < y
  BY DEF OpToRel
<1> HIDE DEF R
<1>3. PICK n \in T : \A k \in T : <<k, n>> \notin R
  BY <1>1, WFMin
<1>4. ASSUME NEW k \in T
      PROVE  n <= k
  <2>1. n \in Nat /\ k \in Nat /\ <<k, n>> \notin R
    BY <1>3
  <2>2. ~(k < n)
    BY <1>2, <2>1, Zenon
  <2> QED
    BY <2>1, <2>2
<1> QED
  BY <1>4

Sums(f, m) ==
    f = [n \in 0..m |-> IF n = 0 THEN 0 ELSE f[n - 1] + Recipients[n].bps]

LEMMA SumsExist ==
    ASSUME NEW m \in Nat
    PROVE  \E f : Sums(f, m)
<1> DEFINE T == {i \in Nat : \A f : ~Sums(f, i)}
<1>1. ASSUME T # {}
      PROVE  FALSE
  <2>1. PICK i \in T : \A j \in T : i <= j
    BY <1>1, LeastOf
  <2>2. CASE i = 0
    <3>1. 0..0 = {0}
      OBVIOUS
    <3>2. Sums([n \in 0..0 |-> 0], 0)
      BY <3>1 DEF Sums
    <3> QED
      BY <2>1, <2>2, <3>2
  <2>3. CASE i # 0
    <3>1. i - 1 \in Nat /\ i - 1 \notin T
      BY <2>1, <2>3
    <3>2. PICK g : Sums(g, i - 1)
      BY <3>1
    <3> DEFINE f == [n \in 0..i |-> IF n < i THEN g[n] ELSE g[i - 1] + Recipients[i].bps]
    <3>3. \A n \in 0..i - 1 : g[n] = IF n = 0 THEN 0 ELSE g[n - 1] + Recipients[n].bps
      BY <3>2, Zenon DEF Sums
    <3>4. \A n \in 0..i : f[n] = IF n = 0 THEN 0 ELSE f[n - 1] + Recipients[n].bps
      BY <2>1, <2>3, <3>3
    <3>5. Sums(f, i)
      BY <3>4 DEF Sums
    <3> QED
      BY <2>1, <3>5
  <2> QED
    BY <2>2, <2>3
<1> QED
  BY <1>1

LEMMA BpsAdd ==
    /\ BpsUpTo[0] = 0
    /\ \A n \in 1..Len(Recipients) : BpsUpTo[n] = BpsUpTo[n - 1] + Recipients[n].bps
<1>1. Len(Recipients) \in Nat
  BY FundConstants
<1>2. PICK f : f = [n \in 0..Len(Recipients) |-> IF n = 0 THEN 0 ELSE f[n - 1] + Recipients[n].bps]
  BY <1>1, SumsExist DEF Sums
<1>3. BpsUpTo = [n \in 0..Len(Recipients) |->
                   IF n = 0 THEN 0 ELSE BpsUpTo[n - 1] + Recipients[n].bps]
  BY <1>2, Zenon DEF BpsUpTo
<1> QED
  BY <1>1, <1>3

LEMMA BpsGrow ==
    ASSUME SharesAreNatural
    PROVE  /\ \A n \in 0..Len(Recipients) : BpsUpTo[n] \in Nat /\ BpsUpTo[n] <= TotalBps
           /\ TotalBps \in Nat
<1> DEFINE L == Len(Recipients)
<1>1. L \in Nat /\ \A n \in 1..L : Recipients[n].bps \in Nat
  BY FundConstants DEF SharesAreNatural
<1>2. \A n \in 1..L : BpsUpTo[n] = BpsUpTo[n - 1] + Recipients[n].bps
  BY BpsAdd
<1> HIDE DEF L
<1>3. \A n \in 0..L : BpsUpTo[n] \in Nat
  <2> DEFINE T == {n \in 0..L : BpsUpTo[n] \notin Nat}
  <2>1. ASSUME T # {}
        PROVE  FALSE
    <3>1. PICK n \in T : \A k \in T : n <= k
      <4>1. T \subseteq Nat
        BY <1>1
      <4> QED
        BY <2>1, <4>1, LeastOf
    <3>2. n # 0
      BY <3>1, BpsAdd
    <3>3. n \in 1..L /\ n - 1 \in 0..L /\ n - 1 \notin T
      BY <1>1, <3>1, <3>2
    <3>4. BpsUpTo[n - 1] \in Nat /\ Recipients[n].bps \in Nat
      BY <1>1, <3>3
    <3> QED
      BY <1>2, <3>1, <3>3, <3>4
  <2> QED
    BY <2>1
<1>4. \A n \in 0..L : BpsUpTo[n] <= BpsUpTo[L]
  <2> DEFINE T == {d \in 0..L : ~(BpsUpTo[L - d] <= BpsUpTo[L])}
  <2>1. ASSUME T # {}
        PROVE  FALSE
    <3>1. PICK d \in T : \A k \in T : d <= k
      <4>1. T \subseteq Nat
        BY <1>1
      <4> QED
        BY <2>1, <4>1, LeastOf
    <3>2. d # 0
      BY <1>1, <1>3, <3>1
    <3> DEFINE n == L - (d - 1)
    <3>3. n \in 1..L /\ n - 1 = L - d /\ n - 1 \in 0..L /\ d - 1 \in 0..L /\ d - 1 \notin T
      BY <1>1, <3>1, <3>2
    <3>4. BpsUpTo[n] <= BpsUpTo[L]
      BY <3>3
    <3> HIDE DEF n
    <3>5. BpsUpTo[n] = BpsUpTo[n - 1] + Recipients[n].bps /\ n \in 0..L /\ L \in 0..L
      BY <1>1, <1>2, <3>3
    <3>6. BpsUpTo[n - 1] <= BpsUpTo[n]
      BY <1>1, <1>3, <3>3, <3>5
    <3>7. BpsUpTo[n - 1] <= BpsUpTo[L]
      BY <1>3, <3>3, <3>4, <3>5, <3>6
    <3> QED
      BY <3>1, <3>3, <3>7
  <2>2. ASSUME NEW n \in 0..L
        PROVE  BpsUpTo[n] <= BpsUpTo[L]
    <3>1. L - n \in 0..L /\ L - (L - n) = n
      BY <1>1
    <3>2. L - n \notin T
      BY <2>1
    <3> QED
      BY <3>1, <3>2
  <2> QED
    BY <2>2
<1>5. L \in 0..L
  BY <1>1
<1> QED
  BY <1>3, <1>4, <1>5 DEF TotalBps, L

-----------------------------------------------------------------------------
(* Arithmetic of one share.                                                  *)

LEMMA PartOf ==
    ASSUME NEW a \in Nat, NEW t \in Nat \ {0}
    PROVE  a \div t \in Nat /\ (a \div t) * t <= a
OBVIOUS

LEMMA Product ==
    ASSUME NEW m \in Nat, NEW n \in Nat
    PROVE  m * n \in Nat
OBVIOUS

LEMMA ScaledUp ==
    ASSUME NEW m \in Nat, NEW n \in Nat, NEW d \in Nat, m <= n
    PROVE  d * m <= d * n
OBVIOUS

LEMMA ScaledDown ==
    ASSUME NEW m \in Nat, NEW n \in Nat, NEW d \in Nat \ {0}, m * d <= n * d
    PROVE  m <= n
OBVIOUS

LEMMA Distributes ==
    ASSUME NEW m \in Nat, NEW n \in Nat, NEW d \in Nat
    PROVE  (m + n) * d = m * d + n * d /\ d * (m + n) = d * m + d * n
OBVIOUS

(* A share of p in the proportion b to t, on top of d.                       *)
LEMMA OneMore ==
    ASSUME NEW p \in Nat, NEW b \in Nat, NEW t \in Nat \ {0}, NEW d \in Nat, NEW sum \in Nat,
           d * t <= p * sum, sum + b <= t
    PROVE  /\ (p * b) \div t \in Nat
           /\ (d + (p * b) \div t) * t <= p * (sum + b)
           /\ d + (p * b) \div t <= p
<1> DEFINE q == (p * b) \div t
<1>1. q \in Nat /\ q * t <= p * b
  BY Product, PartOf
<1> HIDE DEF q
<1>2. (d + q) * t = d * t + q * t /\ p * (sum + b) = p * sum + p * b
  BY <1>1, Distributes
<1>3. /\ d * t \in Nat /\ q * t \in Nat /\ p * sum \in Nat /\ p * b \in Nat
      /\ p * (sum + b) \in Nat
  BY <1>1, Product
<1>4. (d + q) * t <= p * (sum + b)
  BY <1>1, <1>2, <1>3
<1>5. p * (sum + b) <= p * t
  BY ScaledUp
<1>6. (d + q) * t <= p * t
  BY <1>1, <1>3, <1>4, <1>5, <1>2, Product
<1>7. d + q <= p
  BY <1>1, <1>6, ScaledDown
<1> QED
  BY <1>1, <1>4, <1>7 DEF q

-----------------------------------------------------------------------------
(* The loop over the recipients.                                             *)

LEMMA InitRound == FundInit => TypeOK /\ Round
<1> SUFFICES ASSUME FundInit PROVE TypeOK /\ Round
  OBVIOUS
<1> USE FundConstants
<1>1. TypeOK
  <2>1. /\ age \in [Tasks -> [ms : Nat, block : Nat \cup {None}]]
        /\ \A t \in Tasks : {age[t].ms, age[t].block} \subseteq (0..Period(t)) \cup {None}
    BY SMTT(30) DEF FundInit, Tasks, Period
  <2>2. /\ {bal, spending, arriving} \subseteq [Wallets -> Nat]
        /\ \A w \in Wallets : spending[w] <= bal[w]
    BY DEF FundInit
  <2>3. /\ spent \subseteq claimable /\ claimable \subseteq Boxes
        /\ {bufferLow, provisioning, fundCycleInProgress} \subseteq BOOLEAN
        /\ hotWallet \in {"none", "key", "book"} /\ stage \in Stages
    BY DEF FundInit, Stages
  <2>4. /\ order \in Transfers \cup {None} /\ next \in 0..Len(Recipients) + 1
        /\ {pot, distributed, shared} \subseteq Nat
        /\ {accruals, creates, faults, crashes} \subseteq Nat
    BY DEF FundInit
  <2> QED
    BY <2>1, <2>2, <2>3, <2>4, Zenon DEF TypeOK
<1>2. Round
  BY DEF FundInit, Round
<1> QED
  BY <1>1, <1>2

(* Nothing that only concerns the chain, the schedule or the bounds touches  *)
(* the loop.                                                                 *)
LEMMA Elsewhere ==
    ASSUME Round, UNCHANGED <<stage, order, next, pot, distributed, shared>>
    PROVE  Round'
BY DEF Round, InTheLoop, Handled, Waiting

(* Between the steps of a cycle no transfer is waiting.                      *)
LEMMA BetweenSteps ==
    ASSUME Round, order = None, stage # "shares", stage' # "shares",
           stage' \notin {"admin", "finally"} => shared' = 0,
           UNCHANGED <<order, next>>
    PROVE  Round'
BY DEF Round

LEMMA OpenPotRound ==
    ASSUME SharesAreNatural, TypeOK, Round, OpenPot
    PROVE  Round' /\ next' \in 0..Len(Recipients) + 1 /\ pot' \in Nat /\ distributed' \in Nat
<1>1. TotalBps \in Nat /\ bal["hot"] \in Nat /\ Bps \in Nat \ {0} /\ Len(Recipients) \in Nat
  BY BpsGrow, FundConstants DEF TypeOK, Wallets
<1>2. TotalShare \in Nat
  BY <1>1, Product, PartOf DEF TotalShare
<1>3. CASE TotalShare = 0
  <2>1. stage' = "admin" /\ UNCHANGED <<next, pot, distributed, order, shared>> /\ next = 0
    BY <1>3 DEF OpenPot, After
  <2> QED
    BY <2>1 DEF TypeOK, Round, OpenPot
<1>4. CASE TotalShare # 0
  <2>1. /\ next' = 1 /\ pot' = TotalShare /\ distributed' = 0
        /\ UNCHANGED <<stage, order, shared>> /\ stage = "shares" /\ next = 0
    BY <1>4 DEF OpenPot
  <2>2. TotalBps # 0
    <3>1. ASSUME TotalBps = 0
          PROVE  FALSE
      <4>1. bal["hot"] * TotalBps = 0
        BY <1>1, <3>1
      <4> QED
        BY <1>1, <1>4, <4>1 DEF TotalShare
    <3> QED
      BY <3>1
  <2>3. order = None /\ shared = 0
    BY <2>1 DEF Round
  <2>4. Handled' = 0 /\ Waiting' = 0
    BY <2>1, <2>3 DEF Handled, Waiting
  <2>5. distributed' * TotalBps <= pot' * BpsUpTo[0]
    BY <1>1, <1>2, <2>1, BpsAdd
  <2>6. InTheLoop'
    BY <1>1, <1>2, <2>1, <2>2, <2>3, <2>4, <2>5 DEF InTheLoop
  <2> QED
    BY <1>1, <1>2, <2>1, <2>3, <2>6 DEF Round
<1> QED
  BY <1>3, <1>4

LEMMA DecideShareRound ==
    ASSUME SharesAreNatural, TypeOK, Round, DecideShare
    PROVE  /\ Round' /\ next' \in 0..Len(Recipients) + 1 /\ distributed' \in Nat
           /\ order' \in Transfers \cup {None}
<1> DEFINE n == next
           L == Len(Recipients)
           share == Share(next)
           role == Recipients[next].role
<1>1. /\ stage = "shares" /\ order = None /\ n \in 1..L /\ L \in Nat
      /\ UNCHANGED <<stage, pot, shared>>
  BY FundConstants DEF DecideShare
<1>2. /\ TotalBps \in Nat \ {0} /\ pot \in Nat /\ distributed \in Nat /\ shared \in Nat
      /\ shared <= distributed /\ distributed <= pot
      /\ n - 1 < L => distributed * TotalBps <= pot * BpsUpTo[n - 1]
  BY <1>1, BpsGrow DEF TypeOK, Round, InTheLoop, Handled, Waiting
<1>3. /\ Recipients[n].bps \in Nat /\ BpsUpTo[n] = BpsUpTo[n - 1] + Recipients[n].bps
      /\ BpsUpTo[n - 1] \in Nat /\ BpsUpTo[n] \in Nat /\ BpsUpTo[n] <= TotalBps
  <2>1. n \in 0..L /\ n - 1 \in 0..L /\ n \in DOMAIN Recipients
    BY <1>1, FundConstants
  <2> QED
    BY <1>1, <2>1, BpsAdd, BpsGrow DEF SharesAreNatural
<1>4. /\ share \in Nat /\ distributed + share <= pot
      /\ n < L => (distributed + share) * TotalBps <= pot * BpsUpTo[n]
  <2>1. CASE n = L
    BY <1>1, <1>2, <2>1 DEF Share
  <2>2. CASE n # L
    <3>1. share = (pot * Recipients[n].bps) \div TotalBps
      BY <2>2 DEF Share
    <3>2. distributed * TotalBps <= pot * BpsUpTo[n - 1]
      BY <1>1, <1>2
    <3> HIDE DEF share
    <3> QED
      BY <1>2, <1>3, <3>1, <3>2, OneMore
  <2> QED
    BY <2>1, <2>2
<1>5. n < L => distributed * TotalBps <= pot * BpsUpTo[n]
  <2>1. BpsUpTo[n - 1] <= BpsUpTo[n]
    BY <1>3
  <2>2. pot * BpsUpTo[n - 1] <= pot * BpsUpTo[n]
    BY <1>2, <1>3, <2>1, ScaledUp
  <2>3. distributed * TotalBps <= pot * BpsUpTo[n - 1]
    BY <1>1, <1>2
  <2>4. /\ distributed * TotalBps \in Nat /\ pot * BpsUpTo[n - 1] \in Nat
        /\ pot * BpsUpTo[n] \in Nat
    BY <1>2, <1>3, Product
  <2> QED
    BY <2>2, <2>3, <2>4
<1> HIDE DEF share, role
<1>6. CASE role \notin Known
  <2>1. next' = n + 1 /\ UNCHANGED <<order, distributed>>
    BY <1>6 DEF DecideShare, role
  <2>2. Handled' = n /\ Waiting' = 0
    BY <1>1, <2>1 DEF Handled, Waiting
  <2>3. InTheLoop'
    BY <1>1, <1>2, <1>5, <2>1, <2>2 DEF InTheLoop
  <2> QED
    BY <1>1, <1>2, <2>1, <2>3 DEF Round
<1>7. CASE role \in Known /\ share = 0
  <2>1. next' = n + 1 /\ order' = order /\ distributed' = distributed + share
    BY <1>7 DEF DecideShare, role, share
  <2>2. Handled' = n /\ Waiting' = 0
    BY <1>1, <2>1 DEF Handled, Waiting
  <2>3. InTheLoop'
    BY <1>1, <1>2, <1>4, <1>7, <2>1, <2>2 DEF InTheLoop
  <2> QED
    BY <1>1, <1>2, <1>4, <2>1, <2>3 DEF Round
<1>8. CASE role \in Known /\ share # 0
  <2>1. /\ next' = n /\ order' = Transfer("hot", role, share)
        /\ distributed' = distributed + share
    BY <1>8 DEF DecideShare, role, share
  <2>2. order' \in Transfers /\ order'.amount = share
    BY <1>4, <1>8, <2>1 DEF Transfer, Transfers, Wallets, Payees
  <2>3. order' # None
    BY <2>2, FundConstants
  <2>4. Handled' = n /\ Waiting' = share
    BY <2>1, <2>2, <2>3 DEF Handled, Waiting
  <2>5. n \in DOMAIN Recipients
    BY <1>1, FundConstants
  <2>6. InTheLoop'
    BY <1>1, <1>2, <1>4, <2>1, <2>4, <2>5 DEF InTheLoop
  <2> QED
    BY <1>1, <1>2, <1>4, <2>1, <2>2, <2>6 DEF Round, Sending
<1> QED
  BY <1>6, <1>7, <1>8

LEMMA ExecuteRound ==
    ASSUME TypeOK, Round, Execute
    PROVE  /\ Round' /\ next' \in 0..Len(Recipients) + 1 /\ stage' \in Stages
           /\ shared' \in Nat
<1>1. /\ order # None /\ order \in Transfers /\ order.amount \in Nat /\ stage \in Sending
      /\ order' = None /\ UNCHANGED <<pot, distributed>>
      /\ shared' \in {shared, IF stage = "shares" THEN shared + order.amount ELSE shared}
  <2>1. order \in Transfers
    BY DEF Execute, TypeOK
  <2>2. order.amount \in Nat
    BY <2>1 DEF Transfers
  <2>3. shared' \in {shared, IF stage = "shares" THEN shared + order.amount ELSE shared}
    BY DEF Execute, Sent
  <2> QED
    BY <2>1, <2>2, <2>3 DEF Execute, Round
<1>2. shared' \in Nat /\ shared \in Nat /\ distributed \in Nat
  BY <1>1 DEF TypeOK
<1>3. CASE stage = "shares"
  <2>1. next' = next + 1 /\ stage' = "shares" /\ next # 0
    BY <1>1, <1>3 DEF Execute, Round
  <2>2. next \in 1..Len(Recipients) /\ Len(Recipients) \in Nat /\ InTheLoop
    <3>1. next \in 0..Len(Recipients) + 1 /\ Len(Recipients) \in Nat
      BY FundConstants DEF TypeOK
    <3>2. InTheLoop
      BY <1>3, <2>1, <3>1 DEF Round
    <3>3. next \in DOMAIN Recipients
      BY <1>1, <3>2 DEF InTheLoop
    <3> QED
      BY <3>1, <3>2, <3>3, FundConstants
  <2>3. /\ Handled = next /\ Handled' = next /\ Waiting = order.amount /\ Waiting' = 0
    BY <1>1, <2>1, <2>2 DEF Handled, Waiting
  <2>4. shared' <= distributed'
    BY <1>1, <1>2, <1>3, <2>2, <2>3 DEF InTheLoop
  <2>5. /\ TotalBps > 0 /\ distributed <= pot
        /\ next < Len(Recipients) => distributed * TotalBps <= pot * BpsUpTo[next]
    BY <2>2, <2>3 DEF InTheLoop
  <2>6. shared' + Waiting' <= distributed'
    BY <1>2, <2>3, <2>4
  <2>7. InTheLoop'
    BY <1>1, <2>3, <2>5, <2>6, Zenon DEF InTheLoop
  <2> QED
    BY <1>1, <1>2, <2>1, <2>2, <2>7 DEF Round, Stages
<1>4. CASE stage # "shares"
  <2>1. /\ stage' = After[stage] /\ next' = next /\ shared' = shared
        /\ stage \in {"gas", "topUp", "buffer", "admin"}
    BY <1>1, <1>4 DEF Execute, Sending, Sent
  <2>2. /\ stage = "gas" => stage' = "buffer"
        /\ stage = "buffer" => stage' = "shares"
        /\ stage = "admin" => stage' = "finally"
        /\ stage = "topUp" => stage' = "gasFinally"
    BY <2>1 DEF After
  <2> QED
    BY <1>1, <1>2, <1>4, <2>1, <2>2 DEF Round, TypeOK, Stages
<1> QED
  BY <1>3, <1>4

-----------------------------------------------------------------------------
(* Types.                                                                    *)

Ages ==
    /\ age \in [Tasks -> [ms : Nat, block : Nat \cup {None}]]
    /\ \A t \in Tasks : {age[t].ms, age[t].block} \subseteq (0..Period(t)) \cup {None}
Money ==
    /\ {bal, spending, arriving} \subseteq [Wallets -> Nat]
    /\ \A w \in Wallets : spending[w] <= bal[w]
    /\ spent \subseteq claimable /\ claimable \subseteq Boxes
Control ==
    /\ {bufferLow, provisioning, fundCycleInProgress} \subseteq BOOLEAN
    /\ hotWallet \in {"none", "key", "book"}
    /\ stage \in Stages
    /\ order \in Transfers \cup {None}
    /\ next \in 0..Len(Recipients) + 1 /\ {pot, distributed, shared} \subseteq Nat
    /\ {accruals, creates, faults, crashes} \subseteq Nat

LEMMA TypesAre == TypeOK <=> Ages /\ Money /\ Control
BY Zenon DEF TypeOK, Ages, Money, Control

LEMMA StampTypes ==
    ASSUME Ages, NEW t \in Tasks, Stamp(t), faults \in Nat
    PROVE  Ages' /\ faults' \in Nat
<1>1. faults' \in Nat
  BY DEF Stamp
<1>2. PICK b \in {0, age[t].block} : age' = [age EXCEPT ![t] = [ms |-> 0, block |-> b]]
  <2>1. age[t] \in [ms : Nat, block : Nat \cup {None}]
    BY DEF Ages
  <2>2. CASE age' = [age EXCEPT ![t].ms = 0]
    <3>1. [age[t] EXCEPT !.ms = 0] = [ms |-> 0, block |-> age[t].block]
      BY <2>1
    <3> QED
      BY <2>2, <3>1
  <2>3. CASE age' = [age EXCEPT ![t] = [ms |-> 0, block |-> 0]]
    BY <2>3
  <2> QED
    BY <2>2, <2>3 DEF Stamp
<1>3. /\ b \in Nat \cup {None} /\ b \in (0..Period(t)) \cup {None}
      /\ 0 \in (0..Period(t)) \cup {None}
  <2>1. Period(t) \in Nat
    BY FundConstants DEF Period
  <2> QED
    BY <2>1 DEF Ages
<1>4. age' \in [Tasks -> [ms : Nat, block : Nat \cup {None}]]
  BY <1>2, <1>3 DEF Ages
<1>5. \A u \in Tasks : age'[u] = IF u = t THEN [ms |-> 0, block |-> b] ELSE age[u]
  BY <1>2 DEF Ages
<1>6. \A u \in Tasks : {age'[u].ms, age'[u].block} \subseteq (0..Period(u)) \cup {None}
  BY <1>3, <1>5 DEF Ages
<1> QED
  BY <1>1, <1>4, <1>6 DEF Ages

LEMMA SendTypes ==
    ASSUME Money, NEW from \in Wallets, NEW to, NEW amount \in Nat,
           Disjoint(from, amount), Broadcast(from, to, amount), UNCHANGED bal
    PROVE  /\ {bal', spending', arriving'} \subseteq [Wallets -> Nat]
           /\ \A w \in Wallets : spending'[w] <= bal'[w]
<1>1. Fee \in Nat
  BY FundConstants
<1>2. arriving' \in [Wallets -> Nat]
  BY DEF Broadcast, Money
<1>3. /\ spending' = [spending EXCEPT ![from] = @ + amount + Fee]
      /\ spending \in [Wallets -> Nat] /\ bal \in [Wallets -> Nat]
  BY DEF Broadcast, Money
<1>4. spending[from] + amount + Fee \in Nat /\ spending[from] + amount + Fee <= bal[from]
  BY <1>1, <1>3 DEF Disjoint
<1>5. spending' \in [Wallets -> Nat]
  BY <1>3, <1>4
<1>6. \A w \in Wallets : spending'[w] <= bal[w]
  BY <1>3, <1>4 DEF Money
<1> QED
  BY <1>2, <1>3, <1>5, <1>6

LEMMA WithdrawTypes ==
    ASSUME Money, Withdraw, faults \in Nat
    PROVE  Money' /\ faults' \in Nat
<1>1. {Fee, Payment} \subseteq Nat /\ {"server", "hot"} = Wallets /\ UNCHANGED <<bal, claimable>>
  BY FundConstants DEF Withdraw, Wallets
<1>2. CASE UNCHANGED <<spending, arriving, spent>>
  BY <1>1, <1>2 DEF Money, Withdraw, SendFails
<1>3. ASSUME NEW s \in claimable \ spent, Disjoint("server", 0),
             spent' = spent \cup {s},
             spending' = [spending EXCEPT !["server"] = @ + Fee],
             arriving' = [arriving EXCEPT !["hot"] = @ + Payment], UNCHANGED faults
      PROVE  Money' /\ faults' \in Nat
  <2>1. spending["server"] \in Nat /\ spending["server"] + Fee <= bal["server"]
    BY <1>1, <1>3 DEF Money, Disjoint
  <2>2. arriving' \in [Wallets -> Nat] /\ spending' \in [Wallets -> Nat]
    BY <1>1, <1>3 DEF Money
  <2>3. \A w \in Wallets : spending'[w] <= bal[w]
    BY <1>1, <1>3, <2>1 DEF Money
  <2> QED
    BY <1>1, <1>3, <2>2, <2>3 DEF Money
<1> QED
  BY <1>2, <1>3 DEF Withdraw, SendFails

LEMMA TickTypes ==
    ASSUME Ages, Money, Tick
    PROVE  Ages' /\ Money'
<1>1. Ages'
  <2>1. \A t \in Tasks : Period(t) \in Nat
    BY FundConstants DEF Period
  <2>2. ASSUME NEW t \in Tasks, NEW n \in (Nat \cup {None}) \cap ((0..Period(t)) \cup {None})
        PROVE  AddCapped(t, n) \in Nat \cup {None} /\ AddCapped(t, n) \in (0..Period(t)) \cup {None}
    <3>1. CASE n = None
      BY <3>1 DEF AddCapped
    <3>2. CASE n \in Nat
      <4>1. AddCapped(t, n) = IF n < Period(t) THEN n + 1 ELSE n
        BY <3>2, FundConstants DEF AddCapped
      <4>2. n <= Period(t)
        BY <2>1, <2>2, <3>2, FundConstants
      <4> QED
        BY <2>1, <3>2, <4>1, <4>2
    <3> QED
      BY <2>2, <3>1, <3>2
  <2>3. ASSUME NEW t \in Tasks, age[t].ms # None
        PROVE  AddCapped(t, age[t].ms) \in Nat
    BY <2>1, <2>3 DEF AddCapped, Ages
  <2>4. \A t \in Tasks : age[t].ms \in Nat /\ age[t].ms # None
    BY FundConstants DEF Ages
  <2>5. age' = [t \in Tasks |-> [ms    |-> AddCapped(t, age[t].ms),
                                 block |-> AddCapped(t, age[t].block)]]
    BY DEF Tick
  <2>6. ASSUME NEW t \in Tasks
        PROVE  /\ AddCapped(t, age[t].ms) \in Nat /\ AddCapped(t, age[t].block) \in Nat \cup {None}
               /\ {AddCapped(t, age[t].ms), AddCapped(t, age[t].block)}
                     \subseteq (0..Period(t)) \cup {None}
    BY <2>2, <2>3, <2>4 DEF Ages
  <2> QED
    BY <2>5, <2>6 DEF Ages
<1>2. Money'
  <2>1. \A w \in Wallets : bal[w] - spending[w] + arriving[w] \in Nat
    BY DEF Money
  <2> QED
    BY <2>1 DEF Tick, Money, chain, loop
<1> QED
  BY <1>1, <1>2

(* What a step of the cycle may decide on.                                   *)
LEMMA TransfersTyped ==
    ASSUME Money
    PROVE  TopUp \in Transfers \cup {None} /\ FillBuffer \in Transfers \cup {None}
           /\ Remainder \in Transfers \cup {None}
<1>1. /\ bal["hot"] \in Nat /\ Target \in Nat /\ BoxMin \in Nat
      /\ {"server", "hot"} = Wallets /\ "admin" \in Payees
  BY FundConstants DEF Money, Wallets, Payees
<1> QED
  BY <1>1 DEF TopUp, FillBuffer, Remainder, Transfer, Transfers

-----------------------------------------------------------------------------
(* The steps.                                                                *)

LEMMA StepTypes ==
    ASSUME SharesAreNatural, TypeOK, Round, [FundNext]_fundVars
    PROVE  TypeOK' /\ Round'
<1>1. Ages /\ Money /\ Control
  BY TypesAre
<1>2. SUFFICES Ages' /\ Money' /\ Control' /\ Round'
  BY Zenon DEF TypeOK, Ages, Money, Control
<1>3. {accruals, creates, faults, crashes} \subseteq Nat /\ Len(Recipients) \in Nat
  BY <1>1, FundConstants DEF Control
<1>4. CASE StartCycle
  <2>1. /\ stage = "poll" /\ stage' \in {"gasDue", "finally", "withdraw"}
        /\ UNCHANGED <<age, chain, provisioning, order, next, pot, distributed, shared,
                       accruals, creates, crashes>>
    BY <1>4 DEF StartCycle, Deferred, Begun
  <2>2. /\ faults' \in {faults, faults + 1} /\ hotWallet' \in {hotWallet, "key", "book"}
        /\ fundCycleInProgress' \in {fundCycleInProgress, TRUE}
    <3>1. CASE fundCycleInProgress
      BY <1>4, <3>1 DEF StartCycle
    <3>2. CASE Deferred
      BY <3>2 DEF Deferred
    <3>3. CASE Begun
      BY <3>3 DEF Begun
    <3> QED
      BY <1>4, <3>1, <3>2, <3>3 DEF StartCycle
  <2>3. order = None /\ shared = 0
    BY <2>1 DEF Round, Sending
  <2>4. Round'
    BY <2>1, <2>3, BetweenSteps
  <2>5. Ages' /\ Money'
    BY <1>1, <2>1 DEF Ages, Money, chain
  <2>6. Control'
    <3>1. {bufferLow, provisioning, fundCycleInProgress}' \subseteq BOOLEAN
      BY <1>1, <1>3, <2>1, <2>2 DEF Control, chain
    <3>2. hotWallet' \in {"none", "key", "book"} /\ stage' \in Stages
      BY <1>1, <1>3, <2>1, <2>2 DEF Control, Stages
    <3>3. /\ order' \in Transfers \cup {None} /\ next' \in 0..Len(Recipients) + 1
          /\ {pot, distributed, shared}' \subseteq Nat
      BY <1>1, <1>3, <2>1, <2>2 DEF Control
    <3>4. {accruals, creates, faults, crashes}' \subseteq Nat
      BY <1>1, <1>3, <2>1, <2>2
    <3> QED
      BY <3>1, <3>2, <3>3, <3>4, Zenon DEF Control
  <2> QED
    BY <2>4, <2>5, <2>6
<1>5. CASE CycleCheckFails
  <2>1. /\ stage = "poll" /\ stage' = "gasDue" /\ faults' = faults + 1
        /\ UNCHANGED <<age, chain, provisioning, hotWallet, order, next, pot, distributed,
                       shared, fundCycleInProgress, accruals, creates, crashes>>
    BY <1>5 DEF CycleCheckFails
  <2>2. order = None /\ shared = 0
    BY <2>1 DEF Round, Sending
  <2>3. Round'
    BY <2>1, <2>2, BetweenSteps
  <2>4. Ages' /\ Money'
    BY <1>1, <2>1 DEF Ages, Money, chain
  <2>5. bufferLow' = bufferLow /\ {accruals, creates, faults, crashes}' \subseteq Nat
    BY <1>3, <2>1 DEF chain
  <2>6. Control'
    BY <1>1, <2>1, <2>5 DEF Control, Stages
  <2> QED
    BY <2>3, <2>4, <2>6
<1>6. CASE Withdraw
  <2>1. Money' /\ faults' \in Nat
    BY <1>1, <1>3, <1>6, WithdrawTypes
  <2>2. /\ stage = "withdraw" /\ stage' = "gas" /\ shared = 0 /\ order = None
        /\ UNCHANGED <<age, bufferLow, provisioning, hotWallet, order, next, pot, distributed,
                       shared, fundCycleInProgress, accruals, creates, crashes>>
    BY <1>6 DEF Withdraw, After, Round, Sending
  <2>3. Round'
    BY <2>2, BetweenSteps
  <2>4. Ages' /\ Control'
    BY <1>1, <2>1, <2>2 DEF Ages, Control, Stages
  <2> QED
    BY <2>1, <2>3, <2>4
<1>7. CASE DecideStep
  <2>1. /\ stage \in {"gas", "topUp", "buffer", "admin"} /\ order = None
        /\ order' \in Transfers \cup {None}
        /\ stage' = IF order' = None THEN After[stage] ELSE stage
        /\ UNCHANGED <<age, chain, provisioning, hotWallet, next, pot, distributed, shared,
                       fundCycleInProgress, counters>>
    BY <1>1, <1>7, TransfersTyped DEF DecideStep, Decide
  <2>2. /\ stage = "gas" => After[stage] = "buffer"
        /\ stage = "buffer" => After[stage] = "shares"
        /\ stage = "admin" => After[stage] = "finally"
        /\ stage = "topUp" => After[stage] = "gasFinally"
    BY DEF After
  <2>3. Round'
    BY <2>1, <2>2 DEF Round, Sending
  <2>4. Ages' /\ Money' /\ Control'
    BY <1>1, <2>1, <2>2 DEF Ages, Money, Control, Stages, chain, counters
  <2> QED
    BY <2>3, <2>4
<1>8. CASE OpenPot
  <2>1. /\ Round' /\ next' \in 0..Len(Recipients) + 1 /\ pot' \in Nat /\ distributed' \in Nat
    BY <1>8, OpenPotRound
  <2>2. /\ stage' \in {stage, "admin"}
        /\ UNCHANGED <<age, chain, provisioning, hotWallet, order, shared,
                       fundCycleInProgress, counters>>
    BY <1>8 DEF OpenPot, After
  <2> QED
    BY <1>1, <2>1, <2>2 DEF Ages, Money, Control, Stages, chain, counters
<1>9. CASE DecideShare
  <2>1. /\ Round' /\ next' \in 0..Len(Recipients) + 1 /\ distributed' \in Nat
        /\ order' \in Transfers \cup {None}
    BY <1>9, DecideShareRound
  <2>2. UNCHANGED <<age, chain, provisioning, hotWallet, stage, pot, shared,
                    fundCycleInProgress, counters>>
    BY <1>9 DEF DecideShare
  <2> QED
    BY <1>1, <2>1, <2>2 DEF Ages, Money, Control, chain, counters
<1>10. CASE ClosePot
  <2>1. /\ stage' = "admin" /\ next' = 0 /\ pot' = 0 /\ distributed' = 0 /\ order = None
        /\ UNCHANGED <<age, chain, provisioning, hotWallet, order, shared,
                       fundCycleInProgress, counters>>
    BY <1>10 DEF ClosePot, After
  <2>2. Round'
    BY <2>1 DEF Round
  <2>3. Ages' /\ Money' /\ Control'
    BY <1>1, <1>3, <2>1 DEF Ages, Money, Control, Stages, chain, counters
  <2> QED
    BY <2>2, <2>3
<1>11. CASE Execute
  <2>1. /\ Round' /\ next' \in 0..Len(Recipients) + 1 /\ stage' \in Stages /\ shared' \in Nat
    BY <1>11, ExecuteRound
  <2>2. /\ order \in Transfers /\ order' = None
        /\ UNCHANGED <<age, bal, claimable, spent, provisioning, hotWallet, pot, distributed,
                       fundCycleInProgress, accruals, creates, crashes>>
    BY <1>1, <1>11 DEF Execute, Control
  <2>3. order.from \in Wallets /\ order.amount \in Nat
    BY <2>2 DEF Transfers
  <2>4. CASE Sent
    <3>1. /\ {bal', spending', arriving'} \subseteq [Wallets -> Nat]
          /\ \A w \in Wallets : spending'[w] <= bal'[w]
      BY <1>1, <2>2, <2>3, <2>4, SendTypes DEF Sent
    <3>2. Money'
      BY <1>1, <2>2, <3>1 DEF Money
    <3>3. bufferLow' \in BOOLEAN /\ faults' = faults
      BY <1>1, <2>4 DEF Sent, Control
    <3> QED
      BY <1>1, <2>1, <2>2, <3>2, <3>3 DEF Ages, Control
  <2>5. CASE SendFails(order.from, order.amount) /\ UNCHANGED <<bufferLow, shared>>
    <3>1. faults' \in Nat /\ UNCHANGED <<spending, arriving, bufferLow>>
      BY <1>3, <2>5 DEF SendFails
    <3>2. Money' /\ Ages'
      BY <1>1, <2>2, <3>1 DEF Money, Ages
    <3> QED
      BY <1>1, <2>1, <2>2, <3>1, <3>2 DEF Control
  <2> QED
    BY <1>11, <2>4, <2>5 DEF Execute
<1>12. CASE Finish
  <2>1. /\ Ages' /\ faults' \in Nat
    BY <1>1, <1>3, <1>12, StampTypes DEF Finish, Tasks
  <2>2. /\ stage = "finally" /\ stage' = "gasDue" /\ fundCycleInProgress' = FALSE /\ shared' = 0
        /\ UNCHANGED <<chain, provisioning, hotWallet, order, next, pot, distributed,
                       accruals, creates, crashes>>
    BY <1>12 DEF Finish
  <2>3. Round'
    BY <2>2, BetweenSteps DEF Round, Sending
  <2>4. Money'
    BY <1>1, <2>2 DEF Money, chain
  <2>5. Control'
    <3>1. {bufferLow, provisioning, fundCycleInProgress}' \subseteq BOOLEAN
      BY <1>1, <1>3, <2>1, <2>2 DEF Control, chain
    <3>2. hotWallet' \in {"none", "key", "book"} /\ stage' \in Stages
      BY <1>1, <1>3, <2>1, <2>2 DEF Control, Stages
    <3>3. /\ order' \in Transfers \cup {None} /\ next' \in 0..Len(Recipients) + 1
          /\ {pot, distributed, shared}' \subseteq Nat
      BY <1>1, <1>3, <2>1, <2>2 DEF Control
    <3>4. {accruals, creates, faults, crashes}' \subseteq Nat
      BY <1>1, <1>3, <2>1, <2>2
    <3> QED
      BY <3>1, <3>2, <3>3, <3>4, Zenon DEF Control
  <2> QED
    BY <2>1, <2>3, <2>4, <2>5
<1>13. CASE StartGasCheck \/ SkipGasCheck
  <2>1. /\ stage \in {"gasDue", "poll"} /\ stage' \in {"topUp", "gasFinally", "poll"}
        /\ UNCHANGED <<age, chain, provisioning, hotWallet, order, next, pot, distributed,
                       shared, fundCycleInProgress, counters>>
    BY <1>13 DEF StartGasCheck, SkipGasCheck
  <2>2. Round'
    BY <2>1, BetweenSteps DEF Round, Sending
  <2> QED
    BY <1>1, <2>1, <2>2 DEF Ages, Money, Control, Stages, chain, counters
<1>14. CASE FinishGasCheck
  <2>1. /\ Ages' /\ faults' \in Nat
    BY <1>1, <1>3, <1>14, StampTypes DEF FinishGasCheck, Tasks
  <2>2. /\ stage = "gasFinally" /\ stage' = "poll"
        /\ UNCHANGED <<chain, provisioning, hotWallet, order, next, pot, distributed, shared,
                       fundCycleInProgress, accruals, creates, crashes>>
    BY <1>14 DEF FinishGasCheck
  <2>3. Round'
    BY <2>2, BetweenSteps DEF Round, Sending
  <2> QED
    BY <1>1, <2>1, <2>2, <2>3 DEF Money, Control, Stages, chain
<1>15. CASE Tick
  <2>1. UNCHANGED <<bufferLow, provisioning, hotWallet, loop, counters>>
    BY <1>15 DEF Tick
  <2>2. Ages' /\ Money'
    BY <1>1, <1>15, TickTypes
  <2>3. Round'
    BY <2>1, Elsewhere DEF loop
  <2>4. Control'
    BY <1>1, <2>1 DEF Control, loop, counters
  <2> QED
    BY <2>2, <2>3, <2>4
<1>16. CASE Accrue
  <2>1. /\ spent' = spent /\ claimable \subseteq claimable' /\ (claimable \subseteq Boxes => claimable' \subseteq Boxes)
        /\ accruals' = accruals + 1
        /\ UNCHANGED <<age, bal, spending, arriving, bufferLow, provisioning, hotWallet,
                       loop, creates, faults, crashes>>
    BY <1>16 DEF Accrue
  <2>2. Round'
    BY <2>1, Elsewhere DEF loop
  <2>3. Ages' /\ Money'
    BY <1>1, <2>1 DEF Ages, Money
  <2>4. Control'
    <3>1. {bufferLow, provisioning, fundCycleInProgress}' \subseteq BOOLEAN
      BY <1>1, <1>3, <2>1 DEF Control, loop
    <3>2. {accruals, creates, faults, crashes}' \subseteq Nat
      BY <1>1, <1>3, <2>1
    <3>3. /\ hotWallet' = hotWallet
          /\ UNCHANGED <<stage, order, next, pot, distributed, shared>>
      BY <1>1, <1>3, <2>1 DEF loop
    <3> QED
      BY <1>1, <3>1, <3>2, <3>3 DEF Control
  <2> QED
    BY <2>2, <2>3, <2>4
<1>17. CASE Provision
  <2>1. /\ creates' \in {creates, creates + 1} /\ provisioning' = ~provisioning
        /\ UNCHANGED <<age, chain, hotWallet, loop, accruals, faults, crashes>>
    BY <1>17 DEF Provision
  <2>2. Round'
    BY <2>1, Elsewhere DEF loop
  <2>3. Ages' /\ Money'
    BY <1>1, <2>1 DEF Ages, Money, chain
  <2>4. Control'
    <3>1. {bufferLow, provisioning, fundCycleInProgress}' \subseteq BOOLEAN
      BY <1>1, <1>3, <2>1 DEF Control, loop, chain
    <3>2. {accruals, creates, faults, crashes}' \subseteq Nat
      BY <1>1, <1>3, <2>1
    <3>3. /\ hotWallet' = hotWallet
          /\ UNCHANGED <<stage, order, next, pot, distributed, shared>>
      BY <1>1, <1>3, <2>1 DEF loop
    <3> QED
      BY <1>1, <3>1, <3>2, <3>3 DEF Control
  <2> QED
    BY <2>2, <2>3, <2>4
<1>18. CASE Crash
  <2>1. /\ stage' = "poll" /\ order' = None /\ next' = 0 /\ pot' = 0 /\ distributed' = 0
        /\ shared' = 0 /\ fundCycleInProgress' = FALSE /\ crashes' = crashes + 1
        /\ UNCHANGED <<age, chain, provisioning, hotWallet, accruals, creates, faults>>
    BY <1>18 DEF Crash
  <2>2. Round'
    BY <2>1 DEF Round
  <2>3. Ages' /\ Money'
    BY <1>1, <2>1 DEF Ages, Money, chain
  <2>4. Control'
    <3>1. {bufferLow, provisioning, fundCycleInProgress}' \subseteq BOOLEAN
      BY <1>1, <1>3, <2>1 DEF Control, chain
    <3>2. hotWallet' \in {"none", "key", "book"} /\ stage' \in Stages
      BY <1>1, <1>3, <2>1 DEF Control, Stages
    <3>3. /\ order' \in Transfers \cup {None} /\ next' \in 0..Len(Recipients) + 1
          /\ {pot, distributed, shared}' \subseteq Nat
      BY <1>1, <1>3, <2>1 DEF Control
    <3>4. {accruals, creates, faults, crashes}' \subseteq Nat
      BY <1>1, <1>3, <2>1
    <3> QED
      BY <3>1, <3>2, <3>3, <3>4, Zenon DEF Control
  <2> QED
    BY <2>2, <2>3, <2>4
<1>19. CASE UNCHANGED fundVars
  BY <1>1, <1>19, Elsewhere DEF fundVars, Ages, Money, Control
<1> QED
  BY <1>4, <1>5, <1>6, <1>7, <1>8, <1>9, <1>10, <1>11, <1>12, <1>13, <1>14, <1>15, <1>16,
     <1>17, <1>18, <1>19, Zenon DEF FundNext, Loop

LEMMA FundInvariant ==
    ASSUME SharesAreNatural
    PROVE  FundSpec => [](TypeOK /\ Round)
<1>1. TypeOK /\ Round /\ [FundNext]_fundVars => (TypeOK /\ Round)'
  BY StepTypes
<1> QED
  BY <1>1, InitRound, PTL DEF FundSpec

(* For any recipients whose shares are not negative, of which any may be     *)
(* missing from the addressbook, and any balances, fees and intervals: what  *)
(* is computed stays a sum of money, and no wallet has more in flight than   *)
(* it holds.                                                                 *)
THEOREM NoWalletOverspends ==
    ASSUME SharesAreNatural
    PROVE  FundSpec => []TypeOK
BY FundInvariant, PTL

(* distributeRevenueShares: for any such recipients, whatever sends fail and *)
(* however blocks, crashes and restarts fall between them, the shares that   *)
(* were sent are within the pot that was computed.                           *)
THEOREM SharesComeFromThePot ==
    ASSUME SharesAreNatural
    PROVE  FundSpec => []SharesWithinPot
<1>1. TypeOK /\ Round => SharesWithinPot
  <2> SUFFICES ASSUME TypeOK, Round, stage = "shares", next > 0
               PROVE  shared <= pot
    BY DEF SharesWithinPot
  <2>1. /\ InTheLoop /\ order \in Transfers \cup {None}
        /\ shared \in Nat /\ distributed \in Nat /\ pot \in Nat
    BY DEF Round, TypeOK
  <2>2. Waiting \in Nat
    BY <2>1 DEF Waiting, Transfers
  <2> QED
    BY <2>1, <2>2 DEF InTheLoop
<1> QED
  BY <1>1, FundInvariant, PTL
=============================================================================
