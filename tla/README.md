# blockhost-engine-ergo in TLA+

The engine sells virtual machines for Ergo boxes: a *monitor* process polls an
explorer for subscription boxes, provisions, extends and destroys VMs, executes
admin commands that arrive as transactions, collects and distributes revenue,
and keeps the VMs' owner records in line with the NFTs that stand for them.
This directory models that process, the guard script it lives by, the wallet
commands that share its money and the sign-up page in front of it, checks the
models with TLC on small instances, and proves most of their safety properties
for every instance with TLAPS. Paths such as `scanner.ts` are relative to
`src/src/`, the engine's TypeScript sources.

    tlasany M.tla                              parse a module
    tlc -workers 2 -config X.cfg M             run a check
    tlapm M.tla                                check the proofs of a module

## 1. The system

| Component | State | Operations | Talks to |
|---|---|---|---|
| Subscription scanner, `monitor/scanner.ts` | `known`, `pendingRemovals`, `lastVerify` | `scan`, `restoreFromVms`, `restoreFromFile` | explorer (pages of boxes); its `ScanDiff` goes to the monitor |
| Monitor, `monitor/index.ts` | `eventQueue`, pipeline, the last-run times | `poll`, `drainQueue`, `runPipeline`, shutdown, start | awaits every other component in turn |
| Handlers, `handlers/index.ts` | none of their own: VM database, counter | created, extended, removed | provisioner commands and database scripts as subprocesses, NFT minting |
| Counter, `util/counter.ts` | counter file, lock file | `allocateCounter` | concurrent processes (`bw plan`, the monitor) |
| Admin commands, `admin/index.ts`, `admin/nonces.ts` | nonce store and its file | `processAdminCommands`, prune, validate, mark, dispatch | explorer; the knock handler |
| Knock, `admin/handlers/knock.ts` | `activeKnocks`, timers, the heartbeat file | `executeKnock`, transition, close, poller, log watcher | root agent (firewall), SSH log |
| Guard script, `ergo/contracts.ts` | the boxes | collect, cancel, extend, migrate | the chain |
| Withdrawal, `bw/commands/withdraw.ts` | none | `analyzeClaimable`, `executeWithdraw` | explorer, guard script |
| Fund manager, `fund-manager/` | state file, address book, in-progress flag | fund cycle, gas check | wallets through explorer and relay, root agent |
| Reconciler, `reconcile/index.ts` | VM database rows | one pass | explorer, VM guest, network hook |
| Chain access, `ergo/provider.ts` | none | box queries, `signTx`, `submitTx` | explorer, relay, node |
| Minting and wallet commands, `nft/mint.ts`, `scripts/mint_nft.ts`, `bw/commands/` | none | mint, send, split, plan create, cleanup, set | chain access, Fleet's transaction builder, counter |
| Sign-up page, `scripts/signup-engine.js` | its variables and form | connect, load plans, buy, send an admin command | the browser's wallets, the chain; through it, scanner and admin commands |
| Root agent client, `root-agent/client.ts` | a socket | one call | the root agent (outside the repository) |
| Data, cryptography, address book, configuration, wizard, packaging | see §8 | | |

**How they interact.** One process, one event loop. `poll` awaits its parts one
after the other: scan, drain the event queue, admin commands, gas check and fund
cycle, reconciliation. What runs *beside* it: the chain and its wallets, the
explorer's view of it, other processes (`bw` commands, each mint, the VM
garbage collector), the page in somebody's browser, the timers and log watcher
of a knock, the process's own death and restart.
Shared state is in files: VM database, counter, nonces, fund manager state,
heartbeat file.

**What is hard.** (a) The explorer is paged and lags, so its answers lie about
live boxes and unspent money; (b) every `await` and subprocess is a point where
the chain moves or the process dies; (c) memory is rebuilt from files that know
less than memory did; (d) a handler is five or six commands that fail one by
one; (e) due times are counted in blocks and in milliseconds at once; (f) two
timers and a log file drive one knock session; (g) guard script and builder
round the same quotient at different heights; (h) several processes spend from
one wallet through an endpoint ladder whose silence may be a success; (i) the
page's handlers interleave at every `await` over shared variables. `PROJECT.json` lists the hazards
one by one, each at its line.

**What makes each part correct.** The scanner reports each subscription's story
once and in order and takes an absence for a removal only after confirming it.
The handlers keep one VM per subscription, never destroy a VM whose box lives,
and never give more time than was bought. The counter gives an identifier once
and never blocks. An admin command runs at most once and, unless rejected, at
least once. A knock's ports are closed in the end. A collection is accepted, is
worth no more than what has elapsed, and the box is consumed in the end. The
fund cycle spends what it has and comes round again. The VM obeys the holder of
its NFT. What is reported of a transaction is true, and no two VMs share a
credential. A subscriber pays what the page displayed, in his own name, for the
plan the operator published.

## 2. The modules

`Scanner` and `SubscriptionFeed` (abstract) — `Monitor` composes the scanner
(`S == INSTANCE Scanner`) with queue, handlers and VM database — `Expiry`, which
`SignupPage` extends with the visit that leads to a purchase — `Submission`,
which `Wallet` extends with the commands that submit — `AdminCommands` —
`Counter` — `Knock` — `Subscription` — `FundManager` — `Reconciler`. Each
`*Proofs` module holds the theorems about its component, each `MC*` module the
constants of its component's instances. `SignupPageProofs` also holds those of
`Expiry`, `WalletProofs` those of `Submission`, `AdminProofs` those of `Knock`,
which the admin commands dispatch, and `SubscriptionProofs`, which is about the
money, those of `FundManager`.

*Scanner.* `known`, `pending`, `verifyAge` are the class's fields. `ScanOk` is
one whole `scan()`: the answer `seen` is a subset of the live beacons
(`Answers`; all of them, or any subset when this behaviour's explorer may miss
boxes, `mayMiss`, which never changes), `CreatedEvents`, `ExtendedEvents` and
`RemovedEvents` are the diff, `UpdateMaps` everything it assigns. `ScanFails` is
the early return, `Restart` a new process with whatever `vms.json` can hold.
Dates are ages that saturate at the interval they are compared with. `absentFor`,
`misses` and `told` are history: how long and how often in a row a beacon was
missing, and what the reports so far say of it.

*SubscriptionFeed* is what a consumer of the events relies on: `created` only
for an unknown beacon, `extended` only from the box last reported to a newer one,
`removed` only for the box last reported, one event per beacon and scan. The
scanner implements it when the explorer's answers are complete (`FeedSpec`).

*Monitor.* `Poll` is a scan that fills the queue, `Dequeue` takes an event, and
each further action is one external command of a handler, which succeeds or, as
long as `faults` allows, fails the way the code treats that failure (return, or
warn and go on). `Crash` loses queue, job and maps, and restores `known` from
the rows that carry a beacon. An expiry counts purchases; what a purchase is in
days is left to *Expiry*, which has the two rounding functions of
`handlers/index.ts` 49-69 over block heights, for one subscription.

*SignupPage* is a visit to the page. `link`, `ctx` and `address` are
`connectWallet` at its two awaits, `loading`, `plans`, `form` and `screen` the
plan list and the displayed cost, `deal` the purchase await by await. Plan boxes
are written by `bw plan create` (`PlanBox`, `VlqEncode`, `ZigzagEncode`) and
decoded from their register bytes (`VlqDecode`, `ZigzagDecode`), whatever else
the server's address holds. `MineBox` hands the purchase to *Expiry*, whose
actions follow it to the VM's term. The other kind of visit sends admin
commands: the nonce is kept until a success is reported, and `Execute` is what
*AdminCommands* shows of the engine.

*Submission* is `submitTx`: endpoints one after the other, an answer of 200 or
400 ends it, anything else, silence included, moves on; the relay does not
validate. A silent endpoint may have taken the transaction (`doubt` records it).

*Wallet.* A task is a command: `Prepare` reads the boxes of its wallet from an
explorer that shows blocks late (`indexed`) and builds what Fleet would build
from them, `Sign` and the actions of *Submission* follow. `Payments` translates
what each command pays, digits, ratios and fee included. A mint's token id is
its first input, which in the model is the first box of the explorer's list.

*AdminCommands.* One poll is `Poll` (prune, fetch, note the height) or
`PollFails`, then for each transaction `Reject` or `Mark` and `Dispatch`.
Commands stay in the window of recent transactions, so every poll sees them
again. Commands in `Timed` live by the timestamp in their nonce, commands with a
`block_height` by the chain height when the configuration has a limit and
`getHeight` answered.

*Counter* is `allocateCounter` system call by system call. The one assumption
about time is in `LockExists`: five seconds of retries outlast a live holder.

*Knock.* A *task* is an asynchronous function in flight: the root-agent calls it
still has to make. Every call is a step: it is answered, it fails, or its answer
is cut off and it never settles (`CutOff`). Timers, heartbeat and log watcher
start tasks at any moment. A command has a source filter or none. `Stop` is the
signal, after which `closeAllKnocks` takes the sessions one by one beside
whatever is in flight; `Die` is the exit two seconds later, or a death, and
leaves the rules; `Respawn` is a process that knows none of them. `overlapped`
is history: some function has started while another was in flight.

*Subscription* has both halves of a collection: `Guard` and its paths translate
the ErgoScript, `Claimable` to `CollectTx` translate the builder. A transaction
is built at one height and judged, `Include` or `Reject`, at a later one.
Wallets of subscribers are not bound to this code, so `Extend` offers valid and
invalid changes alike.

*FundManager.* `stage` is the program counter of cycle and gas check; a step
first *decides* on a transfer from the balances it reads (`DecideStep`,
`DecideShare`) and then sends it (`Execute`). `Tick` is a block: transactions in
flight arrive. A send fails when the confirmed balance does not cover it, when
it would spend a box a transaction in flight spends, or when the network does.
`shared` is history: what was broadcast as revenue shares in this cycle.

*Reconciler.* The tail of the created handler (mint, push, record, GECOS, mark)
and the pass (snapshot, push, look the holder up, update owner, GECOS, mark),
with NFT transfers and a crash between any two steps. Handler and pass never
overlap, because `poll` awaits both.

Operators named `X_What`, marked "seeded bug", are variants of `X` that no
specification uses: replacing `X` by one of them must break the property it was
written for, which shows that the property can fail.

## 3. The runs

| Run | Module, cfg | States | What it shows |
|---|---|---|---|
| `scanner` | MCScanner, `MCScanner.cfg` | 21 k | a faithful or a flaky explorer, two restarts: removals are confirmed (`RemovalIsConfirmed`), pending beacons stay known, burned beacons are forgotten for good, confirmations end; the faithful one gives the feed (`FeedSpec`) |
| `scanner_absence` | `MCScanner_absence.cfg` | – | *violation*: an absence between verifications is not ignored (§7, first item) |
| `monitor` | MCMonitor, `MCMonitor.cfg` | 1.6 M | two subscribers, one failing command, one crash: `UniqueBeaconRecord`, `NeverOverExtended`, `DestroyedOnlyAfterBurn`; `ServedExactly` for behaviours without crash and fault |
| `monitor_served` | `MCMonitor_served.cfg` | 93 k | each subscription is eventually served or burned |
| `purchase` | MCSignupPage, `MCSignupPage.cfg` | 1.6 M | two wallets, four plans, four answers of the node: plans as published, charged as shown, the payer named, a command once however often it is sent again; and the VM ends within a day of its box (`WithinADay`) |
| `admin` | MCAdminCommands, `MCAdminCommands.cfg` | 1.4 M | a timed and a height command, posted up to three times in all, one failed write, one crash: at most once, pruned only when stale, and every command in the window runs or goes out of date |
| `counter` | MCCounter, `MCCounter.cfg` | 127 k | three processes, four calls, two deaths: exclusion and unique identifiers while nobody died, termination always |
| `knock` | MCKnock, `MCKnock.cfg` | 193 k | one session, two ports, two addresses, one call that fails or never settles or one death, an orderly stop, any interleaving: rules match the session, wide rules are closed, sessions end |
| `subscription` | MCSubscription, `MCSubscription.cfg` | 38 k | one box, two or three days, two extensions of any kind, cancellation: the collection is accepted, earned, conserved, solvent, and the box consumed |
| `fund` | MCFundManager, `MCFundManager.cfg` | 703 k | a collection, three recipients one of whom does not resolve, a failing call, a crash, a VM creation: shares stay within the pot, cycles recur, boxes are collected |
| `reconciler` | MCReconciler, `MCReconciler.cfg` | 170 k | two VMs, three transfers, two failing calls, a failing write, a crash: the flag is honest, the last holder is written, the network configuration confirmed |
| `wallet` | MCWallet, `MCWallet.cfg` | 479 k | two mints and any of eight operator commands over three boxes, a lagging explorer, silent endpoints: reports are true, tokens distinct, amounts exact, every command ends |

**Bounds, and why they are enough.** Each bounded quantity is a constant named
`Max...` and appears in a guard. The scanner treats beacons independently, so
one shows every confirmation. Three boxes per beacon give created, collected,
extended and burned in every order; `ConfirmCount` is the code's 3. Two restarts
let a restored placeholder be reported, restored again and removed.
`VerifyInterval` and `ConfirmInterval` are a few ticks with the verification
coming less often, as in the code. In `monitor` two subscriptions with different
owners are what a wrong lookup needs, and identifiers run out at `MaxVms`. In
`purchase` heights are counted from the one the purchase reads, a visit buys or
sends commands, the buying visit ends when its box is mined, a visit that sends
commands starts with its wallet connected, and one purchase is followed at a
time; prices and ids take one, two and three bytes, and a day of three blocks
has every remainder. `MaxPosts` is three, so that a command fails, is tried
again and is followed by another. In `admin` the clock passes twice the maximum
age, after which a nonce is pruned. In `counter` two waiters and a dead holder
need three processes. In `knock` `MaxFailures` bounds failed calls, cut-off calls
and deaths together, and calls fail only before the signal. In `subscription` an
interval is two blocks, so every remainder occurs, and `MaxHeight` lies past the
last expiry. In `fund` the amounts are a few units, small enough that every
balance test succeeds in some states and fails in others. In `wallet` two mints
run one after the other, as the monitor runs them, and beside them one operator
command, each kind over each wallet. Beacons that differ only by name are
permuted in `monitor` (`BeaconsAlike`); that run has no liveness property.

**Conditions inside properties.** Some properties are stated for the behaviours
for which the code keeps them: `Serialised` and `UniqueIds` while no process has
died in a call, `AtMostOnce` while every nonce write succeeded and for commands
judged by the clock, `RulesMatchSessions` while no functions overlapped, no call
failed and no session was lost, `WideRulesClosed` while no call failed and for
sessions that were closed, `SyncedIsHonest` while no database write failed,
`WithinADay` unless the box had expired before its VM was made,
`TruthfulReports` and `OneVmPerToken` without a silent endpoint as far as their
text says so, `NamesPayer` unless two connections were under way at a time. The
runs of `Monitor` use complete explorer answers (`MayMiss = FALSE`): with
incomplete ones a beacon dropped by `scanner.ts:277` is reported created again,
the created handler has no record check and makes a second VM, and
`UniqueBeaconRecord` fails without any fault or crash. `scanner` and
`scanner_absence` cover incomplete answers. §7 says what happens otherwise. The
same runs include the other behaviours, so the remaining properties hold across
them.

**Deadlock** is checked except in `counter`, `subscription`, `purchase` and
`wallet`, whose instances stop when calls, heights, purchases or commands are
used up.

## 4. Fairness

Nothing obliges a subscriber, an admin, or an NFT holder to act, and nothing
has to crash or fail. What is assumed:

* *Scanner, Monitor*: time passes, `poll` is called again (a `setTimeout` chain
  that survives errors) and the explorer answers at some point; commands return
  (`runCommand` has a timeout).
* *AdminCommands*: as above, for `Poll`, and the loop over the fetched
  transactions goes on.
* *Counter*: a process that runs makes its next system call.
* *Knock*: a root-agent call that was not cut off is answered or fails (client
  timeout), a timer that stays set fires. `SF` for the timeout and the heartbeat
  because another function in flight may keep disabling their start for a
  moment. A session whose own close was cut off is not asked to end.
* *Subscription*: blocks are mined, a submitted transaction is included or
  dropped, the fund cycle comes round.
* *Wallet*: a call that is not answered ends all the same: signing by the limit
  of the HTTP client, each offer by the 60 seconds of `submitTx`'s abort. No
  endpoint has to answer, no block has to come.
* *FundManager, Reconciler*: the poll loop goes on, blocks come, a VM creation
  ends; each VM is eventually handled (`SF` on `Mint`, since passes are taken
  in between). That the poll loop goes on includes that no root-agent call it
  awaits is cut off (§7).

*SignupPage* has no liveness: nothing obliges a visitor.

## 5. Proofs

`tlapm` checks every theorem for all values of the constants, from the
assumptions named in the modules (`...Constants`) and the hypotheses the
theorems state:

* `ToleranceWithinAge` (the clock tolerance does not exceed the maximum age) for
  the results about admin commands;
* `MayMiss = FALSE`, complete answers of the explorer, for `RecordsAreUnique`,
  `OnlyBurnedAreDestroyed` and `LiveAreServedExactly`; `NeverExtendedTwice` holds
  whatever the explorer omits;
* `Whole(Interval)` and `PlansInWholeDays`, plans sold in whole days, for
  `TermIsHonoured` and `PageTermIsHonoured` (§7 says what shorter plans get);
* `OnlyOperatorsPlans` for `OffersAreThePublished`: a box at the server's address
  with the three registers of a plan is one `bw plan create` wrote, with or
  without R7, and its numbers fit a register (the `purchase` run evaluates it for
  its instance). It is a fact about the address: the page looks at the registers
  only;
* `OneSession` for `FirewallFollowsTheSession`: sessions share their ports, so
  the first of two to close closes the other's. `NoPortStaysWide` is for any
  number of sessions;
* `SharesAreNatural`, no negative share in `revenue-share.json`, for the fund
  manager's results.

Hardly any property is inductive as it stands; the last column says what the
invariant has to add.

| Module | Theorem (property) | What the invariant adds |
|---|---|---|
| `ScannerProofs` | `TypeCorrect`, `PendingStaysKnown` (`PendingIsKnown`), `NoPrematureRemoval` (`RemovalIsConfirmed`), `ScannerImplementsFeed` (`FeedSpec`) | `PendingIsJustified`: a pending entry with count *c* and age *a* stands for *(c-1)·ConfirmInterval + a* ticks and *c* scans of absence. For the feed, `ToldIsKnown`: what the consumer was told is what the scanner knows, box by box |
| `MonitorProofs` | `NeverExtendedTwice` (`NeverOverExtended`), `OnlyBurnedAreDestroyed` (`DestroyedOnlyAfterBurn`), `RecordsAreUnique` (`UniqueBeaconRecord`), `LiveAreServedExactly` (`ServedExactly`) | layers on a common ground. `Base`: at most one event of a subscription is under way. `Books`: the scanner's map runs behind the chain, and an event under way is the last thing it was told. `AllWithin`: no VM is ahead of what map and event take as its start. `RemovedAreBurned`. `Records`: a recorded beacon is remembered while its box lives, a reported one is on no record. `AllProvisioned`: without faults, who has which VM at every point between two commands |
| `SignupPageProofs` | `TermIsHonoured`, `PageTermIsHonoured` (`WithinADay`), `CostIsTheOneShown` (`ChargedAsShown`), `PayerIsNamed` (`NamesPayer`), `CommandsRunOnce` (`RunsOnce`), `OffersAreThePublished` (`OffersAsPublished`) | boxes grow by whole days, so the rounding error is that of the creation (`Growth`, `Close`); behind the page, the plan of a purchase is one that was on offer (`Terms`). The displayed cost is that of the plan and days selected, or none is (`Priced`). One connection leaves its wallet both as context and address (`Links`). A nonce is spent on one intent, which is not sent again (`Nonces`). From the last byte of a register to the first, `VlqDecode` has what `VlqEncode` had left (`VlqRoundTrip`) |
| `SubscriptionProofs` | `ClaimsAreAccepted`, `ProviderEarnsWhatItGets` (`EarnedOnly`), `NothingIsLost` (`Conserved`), `BoxesAreSolvent` | a transaction in flight was built by one of the three builders from the box still there, at a height reached (`Submitted`); `lastCollectedHeight` has moved by whole intervals and no more than their worth was collected (`Paced`). `GuardAgrees` is the agreement of builder and guard in integer arithmetic |
| | `SharesComeFromThePot` (`SharesWithinPot`), `NoWalletOverspends` (`FundManager`'s `TypeOK`) | `Round`, the invariant of the loop over the recipients: what was decided on covers what was sent, and is at most the part of the pot that belongs to the recipients dealt with, so that the last one's rest is not negative. `BpsGrow` about the sums of basis points is an induction over the list |
| `WalletProofs` | `ReportsAreTruthful`, `TokensAreDistinct` (`OneVmPerToken`) | only silence leads past the first endpoint, which validates (`Answered`); the ledger spends a box once, and a token id is an input (`SpentOnce`, `TokenIsInput`) |
| | `PaymentsAreExact` (`PaysExactly`) | every transaction under way spends boxes of the chain, which are finitely many and keep their contents, and balances from the moment it is built (`Accounts`). Behind it a theory of sums over finite sets (`TotalSplits`: the order of the terms does not matter) and of decimal digits (`ParsedAsWritten`: digits cut off or zeros added lose less than a unit) |
| `CounterProofs` | `TypeCorrect`, `CallersAreSerialised` (`Serialised`), `IdsAreUnique` (`UniqueIds`) | the lock file stands exactly while somebody is inside, so nobody reclaims it; the next identifier is followed from the file into the holder's memory and back |
| `ReconcilerProofs` | `FlagIsHonest` (`SyncedIsHonest`) | the pass's snapshot is still the row when it comes to it (`SnapshotIsFresh`), because no handler runs beside it (`OneAtATime`), and the flag is down between the writes (`WritesWhatRowSays`) |
| `AdminProofs` | `TypeCorrect`, `ExecutedAtMostOnce` (`AtMostOnce`), `PrunedIsStale` (`ForgottenIsStale`) | an executed command is remembered or stale for good, a nonce was recorded no earlier than its stamp less the tolerance, and the file agrees with the store as long as no write failed |
| | `NoPortStaysWide` (`WideRulesClosed`), `FirewallFollowsTheSession` (`RulesMatchSessions`) | a rule open to everyone is owed by a session: its record still says so, or a function in flight has the call that closes it (`WideAreOwed`). With one session and one function in flight, carrying out the calls the function still has to make leads to the rules the session stands for (`Busy`, `Settled`) |

Types are parts of these invariants, which is why only `FundManager`, whose
`TypeOK` bounds the money in flight by what the wallets hold, has a type
invariant in a run.

Recursion over data is proved about where a theorem needs it by the least
counterexample (`WFMin` of the library, for the order of the naturals): sums
are folds of the community modules or recursive functions on indices, whose
existence and uniqueness are lemmas of their own (`SumsExist`, `UpsExist`), and
no module that is proved about declares a `RECURSIVE` operator. `Accounts` was
checked as an invariant of the `wallet` run before it was proved.

**Only model-checked**: `BurnedForgotten`, `GecosFollowsHolder` and all other
liveness, which under fairness is beyond this prover, as is `ENABLED`. Every
invariant of the runs is proved.

## 6. Plan

What is left, in order of worth:

1. `Knock` with two sessions in the run, which share the heartbeat file and may
   share rules.
2. Abstract specifications beside the event feed: "one VM per live
   subscription" for `Monitor`, a numbered ticket dispenser for `Counter`, "a
   command is executed once" for `AdminCommands`, each under a refinement
   mapping, and the proof that each is implemented.
3. The framing of `root-agent/client.ts`, and the address book, which every
   writer reads whole and writes whole.

## 7. Where code and documents part

Met while modelling. The first is kept as the run `scanner_absence`, because it
is the cause of others. Where a sentence of a document, a comment or the code
stands against what the program does, it is quoted.

* `scanner.ts:277` rebuilds `known` from present and pending beacons, so a
  beacon missing from one answer between verifications is dropped at once; a
  burned one is then never reported removed, a live one is reported created
  again. `scanner.ts:250`: "Between verifications: ignore the absence".
* `scanner.ts:277`, seen from the handlers: a box burned while its VM is being
  created is dropped by the next scan, no removal follows and the VM stays.
  `handlers/index.ts:566`: "In both cases we destroy the VM."
* `scanner.ts:103` restores placeholders without subscriber and expiry. A
  removal of one does not find its VM; an extension made while the monitor was
  down adds no days (`handlers/index.ts:465-467`: "calculate additional days
  from the delta between old and new expiry").
* `monitor/index.ts:321`: `pipeline.json` is cleared at start and never read, so
  an event in hand at a crash is lost (`monitor/index.ts:11-12`: "for crash
  recovery").
* `handlers/index.ts:586` falls back to any VM of the same wallet when no row
  carries the beacon, and may destroy a live subscription's VM. The `monitor`
  run gives each subscription its own owner.
* `handlers/index.ts:49-58` divides by 720 blocks a day, with at least one day
  per event: plans shorter than a day accumulate days, and a purchase of two
  days seen one block late gives one. `scripts/signup-engine.js:1086`:
  "One interval == "one day" in plan accounting."
* `admin/nonces.ts:179` prunes by clock what may be judged by height: with few
  blocks a command runs again. `admin/index.ts:266-267`: "Nonce tracking
  prevents any command from being executed twice."
* `util/counter.ts:36`: two waiters reclaim the same dead lock and both enter;
  `util/counter.ts:58`: a death between truncation and write restarts the
  numbering. `util/counter.ts:2`: "Atomic file-backed counter allocator."
* `admin/handlers/knock.ts:115-123`: the timer is cancelled and `loginSource`
  set only after the awaited calls. A timeout in between forgets the session
  while the transition still opens the login's rule (`:331`: "prevent
  indefinitely open ports"), and both login detectors may run the transition
  (`:98`: "Idempotent").
* `admin/handlers/knock.ts:150`: a second knock deletes the shared heartbeat
  file of the first session, which then closes.
* `bw/commands/withdraw.ts:156-158` reads the height before it builds: once an
  interval boundary is mined in between, the guard refuses. The next cycle
  succeeds (`ExpiredIsConsumed`).
* `ergo/contracts.ts:315`: the cancel path does not split the money.
  `src/README.md:33`: "guard script enforces earned/refund split".
* `fund-manager/index.ts:245` stamps a deferred cycle as run (`:175`:
  "deferring fund cycle").
* `bw/commands/withdraw.ts:177` collects `claimable[0]` only
  (`docs/fund-manager.md:7`: "Each box is processed in a separate transaction").
* `fund-manager/distribution.ts:207` sends the whole balance, which leaves no
  fee: no remainder ever goes out (`fund-manager/index.ts:166`).
* `fund-manager/distribution.ts:163`: a recipient that does not resolve passes
  its share to the last one (`:113`: "to avoid dust").
* `fund-manager/distribution.ts:54`: two top-ups within a block take the server
  below the reserve (`docs/fund-manager.md:8`).
* `handlers/index.ts:448` leaves `gecos_synced` alone when GECOS fails, and a
  missing flag reads as true (`:451`: "reconciler will retry"); `reconcile/index.ts:88`
  skips rows without token id (`docs/reconciler.md:37`); `reconcile/index.ts:113`
  goes on when the owner update failed, so an NFT that returns leaves the other
  wallet in the VM.
* `admin/handlers/knock.ts:406`: `closeAllKnocks` knows the sessions of its own
  process only; the rules of one lost with its process stay open for good.
* `root-agent/client.ts:63` has no handler for the end of the stream, and
  closing a socket clears its timeout: a call cut off in the middle of its answer
  never settles. A session whose transition was cut off still ends; a close, or
  the command itself and with it the poll loop, stays where it is.
* `ergo/provider.ts:284`: after a silent endpoint a report can be wrong either
  way: a transaction refused as known by the next endpoint is on its way, and the
  relay's 200 (`nft/mint.ts`, reported as minted) may be for a double spend.
* `bw/commands/plan.ts`, `bw/commands/send.ts`: plan boxes and the NFTs' boxes
  lie among the coins of their wallets, and any command that reads `getUnspentBoxes`
  may spend them; a plan is then no longer offered and the registers of a
  credential are gone.
* `bw/commands/set.ts`: no command creates the reference box that `set encrypt`
  looks for (`docs/guard-script.md:104`: "A separate reference box at the server
  address stores the NFT token ID"). `bw/commands/plan.ts` writes the plan's id
  to R6, and the page reads it there (`docs/guard-script.md:114`: "Active flag").
  `bw/commands/cleanup.ts:63`: a wallet with tokens cannot be swept, since no
  value is left for the box of change that would carry them.
* `signup-engine.js:723`: two connections under way at a time leave one
  wallet's context with the other's address, and a failed address query leaves
  the Subscribe button armed with none (`:1008`), so that the box names nobody.
* `signup-engine.js:1010`: `updateCost` arms the Subscribe button again during
  and after a purchase. `:1091`: the deployer's fee output is not in the
  displayed cost.
* `signup-engine.js:1617`: after a submission that failed but arrived, a
  different command carries the same nonce and is refused in silence; a reloaded
  page has a new nonce, with which the same command runs twice.

## 8. Not modelled

* Encoders, decoders, cryptography (`ergo/registers.ts`, `ergo/address.ts`,
  `crypto.ts`, `bhcrypt.ts`): pure functions on bytes. The page's own decoder of
  plan boxes is modelled, since it decides what is on offer.
* The address book and identity command lines `ab` and `is`, configuration,
  wizard and packaging: one-shot programs run by hand, or values read once. Two
  writers of the address book at a time would lose an entry; §6.
* `bw balance` and `bw who` only read, `bw config` writes one value, `bw swap` is
  not implemented in the code.
* The page's list of servers and the decryption of their details, and the
  generation of the page from its template. The details decrypted for one card
  are shown in whichever card is selected when they arrive.
* The user-signature branch of the created handler, the network hook's cleanup,
  testing mode of the fund manager: they do not change the modelled state's
  order of events.
* The bytes of the root agent's socket: a call is answered, fails or is cut off.
* `min_withdrawal_nanoerg` is configured but nothing in the code reads it.
* External parties are modelled by how the code uses them and marked so in the
  map: explorer, chain, wallets, Fleet, root agent, provisioner commands.
