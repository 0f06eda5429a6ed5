----------------------------- MODULE FundManager -----------------------------
(***************************************************************************)
(* The fund manager (src/src/fund-manager): the periodic cycle that         *)
(* collects subscription payments into the hot wallet and distributes them, *)
(* and the gas check that shares its top-up of the hot wallet.              *)
(*                                                                          *)
(* Balances and boxes are read from the explorer, which shows confirmed     *)
(* boxes only, while the cycle's transactions wait for the next block.  Of  *)
(* a wallet the model keeps the confirmed balance and the in-flight sums;   *)
(* a send finds enough boxes when the balance covers it, and is refused as  *)
(* a double spend unless boxes outside the transactions in flight cover it. *)
(*                                                                          *)
(* Abstractions.  A Tick is a block and the wall-clock time of one; ages    *)
(* are counted up to the interval.  The stablecoin step is a flag (the      *)
(* server is below its buffer and the hot wallet can fill it).  The         *)
(* addressbook holds server and admin.  Testing mode, which only shortens   *)
(* the cycle to its first step, is left out.                                *)
(***************************************************************************)
EXTENDS Integers, Sequences

CONSTANTS
    Boxes, Payment,             \* subscription boxes; what a collection yields
    Recipients,                \* revenue-share.json: a sequence of [role, bps]
    Bps,                       \* 100% in basis points
    Known,                     \* the recipients the addressbook resolves
    Target, Reserve,           \* hot_wallet_gas_nanoerg, MIN_SERVER_RESERVE
    Fee, BoxMin,               \* miner fee, SAFE_MIN_BOX_VALUE
    FundInterval, GasInterval,
    BlockBased,                \* the intervals are configured in blocks
    ServerFunds, HotFunds,     \* the balances to start from
    None,
    MaxAccruals, MaxCreates, MaxFaults, MaxCrashes   \* bounds

Wallets == {"server", "hot"}
Payees == Known \cup {"admin"}
Transfers == [from : Wallets, to : Wallets \cup Payees, amount : Nat]

ASSUME FundConstants ==
    /\ {Payment, Target, Reserve, ServerFunds, HotFunds} \subseteq Nat
    /\ {Fee, BoxMin, Bps, FundInterval, GasInterval} \subseteq Nat \ {0}
    /\ {MaxAccruals, MaxCreates, MaxFaults, MaxCrashes} \subseteq Nat
    /\ BlockBased \in BOOLEAN
    /\ Known \subseteq {Recipients[i].role : i \in DOMAIN Recipients}
    /\ Len(Recipients) \in Nat /\ DOMAIN Recipients = 1..Len(Recipients)
    /\ None \notin Nat /\ None \notin Transfers

VARIABLES
    age,           \* time since the state file's stamps, per task and clock
    bal, spending, arriving,    \* per wallet: confirmed, in flight out and in
    claimable, spent,           \* boxes listed as claimable; collections in flight
    bufferLow, provisioning,
    hotWallet,     \* "none", "key" (file only) or "book" (in the addressbook)
    stage, order,  \* where the loop is, and the transfer it is about to send
    next, pot, distributed,     \* distributeRevenueShares: loop index and locals
    shared,        \* history: broadcast as shares in this cycle
    fundCycleInProgress,
    accruals, creates, faults, crashes

fundVars == <<age, bal, spending, arriving, claimable, spent, bufferLow, provisioning,
          hotWallet, stage, order, next, pot, distributed, shared,
          fundCycleInProgress, accruals, creates, faults, crashes>>
chain == <<bal, spending, arriving, claimable, spent, bufferLow>>
loop == <<stage, order, next, pot, distributed, shared, fundCycleInProgress>>
counters == <<accruals, creates, faults, crashes>>

BpsUpTo[n \in 0..Len(Recipients)] ==
    IF n = 0 THEN 0 ELSE BpsUpTo[n - 1] + Recipients[n].bps
TotalBps == BpsUpTo[Len(Recipients)]
Tasks == {"fund", "gas"}
Period(task) == IF task = "fund" THEN FundInterval ELSE GasInterval
Stages == {"poll", "withdraw", "gas", "buffer", "shares", "admin", "finally",
           "gasDue", "topUp", "gasFinally"}
After == [withdraw |-> "gas", gas |-> "buffer", buffer |-> "shares",
          shares |-> "admin", admin |-> "finally", topUp |-> "gasFinally"]

FundInit ==
    /\ age = [t \in Tasks |-> [ms |-> Period(t), block |-> None]]
    /\ bal = [w \in Wallets |-> IF w = "server" THEN ServerFunds ELSE HotFunds]
    /\ spending = [w \in Wallets |-> 0]
    /\ arriving = [w \in Wallets |-> 0]
    /\ claimable = Boxes
    /\ spent = {}
    /\ bufferLow \in BOOLEAN
    /\ provisioning = FALSE
    /\ hotWallet = IF HotFunds > 0 THEN "book" ELSE "none"
    /\ stage = "poll"
    /\ order = None
    /\ next = 0 /\ pot = 0 /\ distributed = 0
    /\ shared = 0
    /\ fundCycleInProgress = FALSE
    /\ accruals = 0 /\ creates = 0 /\ faults = 0 /\ crashes = 0

-----------------------------------------------------------------------------
(* Sending (bw/commands/send.ts, ergo/provider.ts).                          *)

Covered(from, amount) == amount + Fee <= bal[from]
Disjoint(from, amount) == spending[from] + amount + Fee <= bal[from]

Broadcast(from, to, amount) ==
    /\ spending' = [spending EXCEPT ![from] = @ + amount + Fee]
    /\ arriving' = IF to \in Wallets THEN [arriving EXCEPT ![to] = @ + amount]
                                     ELSE arriving

(* A send fails when the balance does not cover it, when it spends a box a   *)
(* transaction in flight spends too, or when the network does.               *)
SendFails(from, amount) ==
    /\ UNCHANGED <<spending, arriving>>
    /\ IF Covered(from, amount) /\ spending[from] = 0
       THEN faults < MaxFaults /\ faults' = faults + 1
       ELSE UNCHANGED faults

-----------------------------------------------------------------------------
(* The schedule.                                                             *)

AddCapped(t, n) == IF n = None THEN None ELSE IF n < Period(t) THEN n + 1 ELSE n

(* Seeded bug: no fallback to the wall clock before the first block stamp.   *)
Due_NoFallback(t) == age[t].block # None /\ age[t].block >= Period(t)

(* shouldRunFundCycle, shouldRunGasCheck: blocks when configured and stamped.*)
Due(t) == IF BlockBased /\ age[t].block # None
          THEN age[t].block >= Period(t)
          ELSE age[t].ms >= Period(t)

(* The finally clauses: the block stamp is skipped when getHeight fails.     *)
Stamp(t) ==
    \/ /\ age' = [age EXCEPT ![t] = [ms |-> 0, block |-> 0]]
       /\ UNCHANGED faults
    \/ /\ faults < MaxFaults
       /\ faults' = faults + 1
       /\ age' = [age EXCEPT ![t].ms = 0]

(* runFundManager up to its first step.                                      *)
Deferred ==
    /\ provisioning
    /\ stage' = "finally"
    /\ fundCycleInProgress' = TRUE
    /\ UNCHANGED <<hotWallet, faults>>

Begun ==
    /\ ~provisioning
    /\ fundCycleInProgress' = TRUE
    /\ \/ /\ stage' = "withdraw"
          /\ hotWallet' \in IF hotWallet = "none" THEN {"key", "book"}
                            ELSE {hotWallet, "book"}     \* saving may fail
          /\ faults' = faults
       \/ /\ hotWallet = "none"          \* the root agent does not answer
          /\ faults < MaxFaults
          /\ faults' = faults + 1
          /\ stage' = "finally"
          /\ UNCHANGED hotWallet

StartCycle ==
    /\ stage = "poll"
    /\ Due("fund")
    /\ IF fundCycleInProgress
       THEN stage' = "gasDue" /\ UNCHANGED <<fundCycleInProgress, hotWallet, faults>>
       ELSE Deferred \/ Begun
    /\ UNCHANGED <<age, chain, provisioning, order, next, pot, distributed, shared,
                   accruals, creates, crashes>>

(* getHeight fails in shouldRunFundCycle: not due in this round.             *)
CycleCheckFails ==
    /\ stage = "poll"
    /\ Due("fund") /\ BlockBased /\ age["fund"].block # None
    /\ faults < MaxFaults
    /\ faults' = faults + 1
    /\ stage' = "gasDue"
    /\ UNCHANGED <<age, chain, provisioning, hotWallet, order, next, pot, distributed,
                   shared, fundCycleInProgress, accruals, creates, crashes>>

(* Seeded bug: the in-progress flag stays set.                               *)
Finish_KeepFlag ==
    /\ stage = "finally"
    /\ Stamp("fund")
    /\ shared' = 0
    /\ stage' = "gasDue"
    /\ UNCHANGED <<chain, provisioning, hotWallet, order, next, pot, distributed,
                   fundCycleInProgress, accruals, creates, crashes>>

Finish ==
    /\ stage = "finally"
    /\ Stamp("fund")
    /\ fundCycleInProgress' = FALSE
    /\ shared' = 0
    /\ stage' = "gasDue"
    /\ UNCHANGED <<chain, provisioning, hotWallet, order, next, pot, distributed,
                   accruals, creates, crashes>>

(* runGasCheck: the hot wallet is topped up only if the addressbook has it.  *)
StartGasCheck ==
    /\ stage = "gasDue" \/ (stage = "poll" /\ ~Due("fund"))
    /\ Due("gas")
    /\ stage' = IF hotWallet = "book" THEN "topUp" ELSE "gasFinally"
    /\ UNCHANGED <<age, chain, provisioning, hotWallet, order, next, pot, distributed,
                   shared, fundCycleInProgress, counters>>

SkipGasCheck ==
    /\ stage = "gasDue"
    /\ ~Due("gas")
    /\ stage' = "poll"
    /\ UNCHANGED <<age, chain, provisioning, hotWallet, order, next, pot, distributed,
                   shared, fundCycleInProgress, counters>>

FinishGasCheck ==
    /\ stage = "gasFinally"
    /\ Stamp("gas")
    /\ stage' = "poll"
    /\ UNCHANGED <<chain, provisioning, hotWallet, order, next, pot, distributed, shared,
                   fundCycleInProgress, accruals, creates, crashes>>

-----------------------------------------------------------------------------
(* The steps of a cycle.  Each one reads the balances, decides on a transfer *)
(* and sends it; a failure is caught and the cycle goes on.                  *)

Decide(transfer) ==
    /\ order' = transfer
    /\ stage' = IF transfer = None THEN After[stage] ELSE stage

Transfer(from, to, amount) == [from |-> from, to |-> to, amount |-> amount]

(* executeWithdraw: claimable[0] only; the explorer's order is arbitrary and *)
(* its list still holds a box whose collection is in flight.                 *)
Withdraw ==
    /\ stage = "withdraw"
    /\ stage' = After[stage]
    /\ \/ /\ claimable = {} /\ UNCHANGED <<spending, arriving, spent, faults>>
       \/ \E s \in claimable \ spent :
             /\ Covered("server", 0) /\ Disjoint("server", 0)
             /\ spent' = spent \cup {s}
             /\ spending' = [spending EXCEPT !["server"] = @ + Fee]
             /\ arriving' = [arriving EXCEPT !["hot"] = @ + Payment]
             /\ UNCHANGED faults
       \/ /\ claimable # {}
          /\ IF spent = {} THEN SendFails("server", 0) ELSE UNCHANGED <<spending, arriving, faults>>
          /\ UNCHANGED spent
    /\ UNCHANGED <<age, bal, claimable, bufferLow, provisioning, hotWallet, order, next,
                   pot, distributed, shared, fundCycleInProgress, accruals, creates,
                   crashes>>

(* Seeded bug: the check that the hot wallet is below its target is lost.    *)
TopUp_Always ==
    LET needed == Target - bal["hot"]
    IN  IF bal["server"] < needed + Reserve
        THEN None ELSE Transfer("server", "hot", needed)

(* topUpHotWalletGas, from the cycle and from the gas check.                 *)
TopUp ==
    LET needed == Target - bal["hot"]
    IN  IF needed <= 0 \/ bal["server"] < needed + Reserve
        THEN None ELSE Transfer("server", "hot", needed)

(* topUpServerStablecoinBuffer: the tokens travel in a minimal box.          *)
FillBuffer == IF bufferLow THEN Transfer("hot", "server", BoxMin) ELSE None

(* sendRemainderToAdmin.                                                     *)
Remainder == IF bal["hot"] = 0 THEN None ELSE Transfer("hot", "admin", bal["hot"])

DecideStep ==
    /\ order = None
    /\ \/ stage \in {"gas", "topUp"} /\ Decide(TopUp)
       \/ stage = "buffer" /\ Decide(FillBuffer)
       \/ stage = "admin" /\ Decide(Remainder)
    /\ UNCHANGED <<age, chain, provisioning, hotWallet, next, pot, distributed, shared,
                   fundCycleInProgress, counters>>

(* distributeRevenueShares: the pot, then one recipient after the other.     *)
TotalShare == (bal["hot"] * TotalBps) \div Bps

OpenPot ==
    /\ stage = "shares" /\ next = 0
    /\ IF TotalShare = 0 THEN stage' = After[stage] /\ UNCHANGED <<next, pot, distributed>>
       ELSE next' = 1 /\ pot' = TotalShare /\ distributed' = 0 /\ UNCHANGED stage
    /\ UNCHANGED <<age, chain, provisioning, hotWallet, order, shared,
                   fundCycleInProgress, counters>>

(* Seeded bug: the last recipient gets the whole pot.                        *)
Share_LastTakesAll(i) ==
    IF i = Len(Recipients) THEN pot
    ELSE (pot * Recipients[i].bps) \div TotalBps

(* The last recipient gets what is left of the pot.                          *)
Share(i) ==
    IF i = Len(Recipients) THEN pot - distributed
    ELSE (pot * Recipients[i].bps) \div TotalBps

DecideShare ==
    /\ stage = "shares" /\ order = None /\ next \in DOMAIN Recipients
    /\ LET role  == Recipients[next].role
           share == Share(next)
       IN  IF role \notin Known
           THEN next' = next + 1 /\ UNCHANGED <<order, distributed>>
           ELSE /\ distributed' = distributed + share
                /\ IF share = 0 THEN next' = next + 1 /\ UNCHANGED order
                   ELSE order' = Transfer("hot", role, share) /\ UNCHANGED next
    /\ UNCHANGED <<age, chain, provisioning, hotWallet, stage, pot, shared,
                   fundCycleInProgress, counters>>

ClosePot ==
    /\ stage = "shares" /\ order = None /\ next > Len(Recipients)
    /\ stage' = After[stage]
    /\ next' = 0 /\ pot' = 0 /\ distributed' = 0
    /\ UNCHANGED <<age, chain, provisioning, hotWallet, order, shared,
                   fundCycleInProgress, counters>>

Sent ==
    /\ Covered(order.from, order.amount) /\ Disjoint(order.from, order.amount)
    /\ Broadcast(order.from, order.to, order.amount)
    /\ bufferLow' = (bufferLow /\ stage # "buffer")
    /\ shared' = IF stage = "shares" THEN shared + order.amount ELSE shared
    /\ UNCHANGED faults

Execute ==
    /\ order # None
    /\ Sent \/ (SendFails(order.from, order.amount) /\ UNCHANGED <<bufferLow, shared>>)
    /\ order' = None
    /\ IF stage = "shares" THEN next' = next + 1 /\ UNCHANGED stage
                           ELSE stage' = After[stage] /\ UNCHANGED next
    /\ UNCHANGED <<age, bal, claimable, spent, provisioning, hotWallet, pot, distributed,
                   fundCycleInProgress, accruals, creates, crashes>>

-----------------------------------------------------------------------------
(* The environment.                                                          *)

Tick ==
    /\ age' = [t \in Tasks |-> [ms    |-> AddCapped(t, age[t].ms),
                                block |-> AddCapped(t, age[t].block)]]
    /\ bal' = [w \in Wallets |-> bal[w] - spending[w] + arriving[w]]
    /\ spending' = [w \in Wallets |-> 0]
    /\ arriving' = [w \in Wallets |-> 0]
    /\ claimable' = claimable \ spent
    /\ spent' = {}
    /\ UNCHANGED <<bufferLow, provisioning, hotWallet, loop, counters>>

(* Another interval of a subscription passes.                                *)
Accrue ==
    /\ accruals < MaxAccruals
    /\ accruals' = accruals + 1
    /\ \E s \in Boxes \ claimable : claimable' = claimable \cup {s}
    /\ UNCHANGED <<age, bal, spending, arriving, spent, bufferLow, provisioning,
                   hotWallet, loop, creates, faults, crashes>>

(* A provisioner create command runs, or ends (pgrep sees it).               *)
Provision ==
    /\ ~provisioning => creates < MaxCreates
    /\ creates' = IF provisioning THEN creates ELSE creates + 1
    /\ provisioning' = ~provisioning
    /\ UNCHANGED <<age, chain, hotWallet, loop, accruals, faults, crashes>>

Crash ==
    /\ crashes < MaxCrashes
    /\ crashes' = crashes + 1
    /\ stage' = "poll" /\ order' = None
    /\ next' = 0 /\ pot' = 0 /\ distributed' = 0
    /\ shared' = 0
    /\ fundCycleInProgress' = FALSE
    /\ UNCHANGED <<age, chain, provisioning, hotWallet,
                   accruals, creates, faults>>

Loop == \/ StartCycle \/ CycleCheckFails \/ Withdraw \/ DecideStep \/ OpenPot
        \/ DecideShare \/ ClosePot \/ Execute \/ Finish
        \/ StartGasCheck \/ SkipGasCheck \/ FinishGasCheck

FundNext == Loop \/ Tick \/ Accrue \/ Provision \/ Crash

FundSpec == FundInit /\ [][FundNext]_fundVars
(* The poll loop keeps running, blocks keep coming, create commands end.     *)
FairFundSpec == FundSpec /\ WF_fundVars(Loop) /\ WF_fundVars(Tick) /\ WF_fundVars(provisioning /\ Provision)

-----------------------------------------------------------------------------
(* Properties.                                                               *)

(* Types; in particular a wallet never has more in flight than it holds.     *)
TypeOK ==
    /\ age \in [Tasks -> [ms : Nat, block : Nat \cup {None}]]
    /\ \A t \in Tasks : {age[t].ms, age[t].block} \subseteq (0..Period(t)) \cup {None}
    /\ {bal, spending, arriving} \subseteq [Wallets -> Nat]
    /\ \A w \in Wallets : spending[w] <= bal[w]
    /\ spent \subseteq claimable /\ claimable \subseteq Boxes
    /\ {bufferLow, provisioning, fundCycleInProgress} \subseteq BOOLEAN
    /\ hotWallet \in {"none", "key", "book"}
    /\ stage \in Stages
    /\ order \in Transfers \cup {None}
    /\ next \in 0..Len(Recipients) + 1 /\ {pot, distributed, shared} \subseteq Nat
    /\ {accruals, creates, faults, crashes} \subseteq Nat

(* distributeRevenueShares never hands out more than the pot it computed,    *)
(* whatever sends fail, recipients are missing or blocks arrive on the way.  *)
SharesWithinPot ==
    stage = "shares" /\ next > 0 => shared <= pot

(* Fund cycles keep running, whatever failed or was deferred before.         *)
CyclesRecur == []<>(stage = "withdraw")

(* Every claimable box is collected in the end, by this cycle or a later     *)
(* one, unless the server wallet can no longer pay the miner.                *)
ClaimableCollected ==
    \A s \in Boxes : s \in claimable ~> (s \notin claimable \/ bal["server"] < Fee)
=============================================================================
