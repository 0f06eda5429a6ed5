--------------------------- MODULE SignupPageProofs ---------------------------
(***************************************************************************)
(* Theorems about Expiry, on its own and behind the sign-up page, and about *)
(* SignupPage, for any answers of the node, any wallets and any order of    *)
(* the page's handlers.                                                     *)
(*                                                                          *)
(* Expiry.  A creation rounds by less than a day; after it every extension  *)
(* is a whole number of days, so the distance between a VM's expiry and the *)
(* box the engine knows never changes again.  The page.  The cost on        *)
(* display is that of the plan and the days selected, or no plan is; an     *)
(* address on the page is that of the wallet in charge; a nonce is spent on *)
(* one intent, which is not sent again; and from a register's last byte to  *)
(* its first, the decoder has what the encoder had left.                    *)
(***************************************************************************)
EXTENDS SignupPage, WellFoundedInduction, TLAPS

(* The blocks of a whole number of days, the number as a witness.            *)
Whole(blocks) == \E days \in Nat : blocks = days * Day

Height(x) == x \in Nat \cup {NoBox}

(* The box the VM's expiry was last computed from.                           *)
Served == IF job = Idle THEN known ELSE job.old

Types ==
    /\ height \in Nat
    /\ Height(box) /\ Height(known)
    /\ vm \in Nat \cup {NoVm}
    /\ late \in BOOLEAN
    /\ job # Idle => /\ job \in [old : Nat \cup {NoBox}, new : Nat]
                     /\ job.new = known /\ known # NoBox

Growth ==
    /\ known # NoBox => box # NoBox /\ Whole(box - known)
    /\ job # Idle /\ job.old # NoBox => Whole(job.new - job.old)

Close ==
    /\ Served = NoBox <=> vm = NoVm
    /\ vm # NoVm /\ ~late => vm - Served < Day /\ Served - vm < Day

IInv == Types /\ Growth /\ Close

-----------------------------------------------------------------------------
(* Arithmetic of days.                                                       *)

LEMMA DayPositive == Day \in Nat /\ Day > 0
BY ExpiryConstants

LEMMA Quotient ==
    ASSUME NEW a \in Nat
    PROVE  /\ a \div Day \in Nat
           /\ (a \div Day) * Day <= a
           /\ a < (a \div Day) * Day + Day
<1>1. /\ a \div Day \in Nat
      /\ a = Day * (a \div Day) + (a % Day)
      /\ a % Day \in 0..Day - 1
  BY DayPositive
<1> QED
  BY <1>1, DayPositive

LEMMA WholeQuotient ==
    ASSUME NEW days \in Nat
    PROVE  (days * Day) \div Day = days
BY DayPositive

LEMMA WholeSum ==
    ASSUME NEW a, NEW b, Whole(a), Whole(b)
    PROVE  Whole(a + b)
<1>1. PICK m \in Nat : a = m * Day
  BY DEF Whole
<1>2. PICK n \in Nat : b = n * Day
  BY DEF Whole
<1>3. a + b = (m + n) * Day /\ m + n \in Nat
  BY <1>1, <1>2, DayPositive
<1> QED
  BY <1>3 DEF Whole

LEMMA WholeProduct ==
    ASSUME NEW days \in Nat, NEW blocks, Whole(blocks)
    PROVE  Whole(days * blocks) /\ days * blocks \in Nat
<1>1. PICK n \in Nat : blocks = n * Day
  BY DEF Whole
<1>2. days * blocks = (days * n) * Day /\ days * n \in Nat
  BY <1>1, DayPositive
<1> QED
  BY <1>2, DayPositive DEF Whole

-----------------------------------------------------------------------------
(* The steps.                                                                *)

LEMMA InitIInv == Init => IInv
<1> SUFFICES ASSUME Init
             PROVE  IInv
  OBVIOUS
<1>1. /\ height = 0 /\ box = NoBox /\ known = NoBox /\ job = Idle /\ vm = NoVm
      /\ late \in BOOLEAN
  BY DEF Init
<1>2. Served = NoBox
  BY <1>1 DEF Served
<1> QED
  BY <1>1, <1>2, ExpiryConstants DEF IInv, Types, Growth, Close, Height

LEMMA BuyKeeps ==
    ASSUME IInv, NEW blocks \in Nat, Whole(blocks), NEW read \in Nat, Buy(blocks, read)
    PROVE  IInv'
<1> DEFINE base == IF box = NoBox THEN read ELSE box
<1> USE ExpiryConstants DEF IInv
<1>1. base \in Nat /\ box' = base + blocks /\ box' \in Nat /\ box' # NoBox
  BY DEF Buy, Types, Height
<1>2. UNCHANGED <<height, known, job, vm, late>>
  BY DEF Buy
<1>3. Types' /\ Close'
  <2>1. Served' = Served
    BY <1>2 DEF Served
  <2>2. Types'
    BY <1>1, <1>2 DEF Types, Height
  <2> QED
    BY <1>2, <2>1, <2>2 DEF Close
<1>4. ASSUME known # NoBox
      PROVE  Whole(box' - known)
  <2>1. base = box /\ Whole(box - known) /\ known \in Nat /\ box \in Nat
    BY <1>4 DEF Growth, Types, Height
  <2>2. Whole((box - known) + blocks)
    BY <2>1, WholeSum
  <2>3. box' - known = (box - known) + blocks
    BY <2>1, <1>1
  <2> QED
    BY <2>2, <2>3
<1>5. Growth'
  BY <1>1, <1>2, <1>4 DEF Growth, Whole
<1> QED
  BY <1>3, <1>5

LEMMA ScanKeeps ==
    ASSUME IInv, Scan
    PROVE  IInv'
<1> USE ExpiryConstants DEF IInv
<1>1. job = Idle /\ Served = known
  BY DEF Scan, Served
<1>2. UNCHANGED <<height, box, vm, late>> /\ known' = box
  BY DEF Scan
<1>3. CASE box = known
  <2>1. job' = Idle /\ known' = known
    BY <1>2, <1>3 DEF Scan
  <2> QED
    BY <1>1, <1>2, <2>1 DEF Types, Growth, Close, Served, Whole
<1>4. CASE box # known
  <2>1. job' = [old |-> known, new |-> box]
    BY <1>4 DEF Scan
  <2>2. box # NoBox /\ box \in Nat /\ Height(known)
    BY <1>4 DEF Growth, Types, Height
  <2>3. job' \in [old : Nat \cup {NoBox}, new : Nat] /\ job' # Idle
    BY <2>1, <2>2 DEF Height
  <2>4. Types'
    BY <1>2, <2>1, <2>2, <2>3 DEF Types, Height
  <2>5. Whole(box - box)
    BY <2>2, DayPositive DEF Whole
  <2>6. Growth'
    BY <1>2, <2>1, <2>2, <2>5 DEF Growth, Whole
  <2>7. Served' = known
    BY <2>1, <2>3 DEF Served
  <2> QED
    BY <1>1, <1>2, <2>4, <2>6, <2>7 DEF Close
<1> QED
  BY <1>3, <1>4

LEMMA CreateKeeps ==
    ASSUME IInv, Create
    PROVE  IInv'
<1> USE ExpiryConstants, DayPositive DEF IInv
<1> DEFINE days == ExpiryDays(job.new, height)
<1>1. /\ job # Idle /\ job.old = NoBox /\ job.new = known /\ known \in Nat /\ known # NoBox
      /\ height \in Nat
  BY DEF Create, Types
<1>2. /\ vm' = height + days * Day /\ late' = (known <= height) /\ job' = Idle
      /\ UNCHANGED <<height, box, known>>
  BY <1>1 DEF Create
<1>3. days \in Nat /\ (known > height => /\ height + days * Day - known < Day
                                         /\ known - (height + days * Day) < Day)
  <2>1. CASE known <= height
    BY <1>1, <2>1 DEF ExpiryDays
  <2>2. CASE known > height
    <3> DEFINE q == (known - height) \div Day
    <3>1. known - height \in Nat
      BY <1>1, <2>2
    <3>2. q \in Nat /\ q * Day <= known - height /\ known - height < q * Day + Day
      BY <3>1, Quotient
    <3>3. days = AtLeastOne(q)
      BY <1>1, <2>2 DEF ExpiryDays
    <3> HIDE DEF q, days
    <3>4. CASE q < 1
      <4>1. q = 0 /\ days = 1 /\ q * Day = 0 /\ days * Day = Day
        BY <3>2, <3>3, <3>4 DEF AtLeastOne
      <4> QED
        BY <1>1, <2>2, <3>2, <4>1
    <3>5. CASE q >= 1
      <4>1. days = q
        BY <3>2, <3>3, <3>5 DEF AtLeastOne
      <4>2. q * Day \in Nat
        BY <3>2
      <4> QED
        BY <1>1, <3>2, <4>1, <4>2
    <3> QED
      BY <3>2, <3>4, <3>5
  <2> QED
    BY <1>1, <2>1, <2>2
<1> HIDE DEF days
<1>4. vm' \in Nat /\ late' \in BOOLEAN
  BY <1>1, <1>2, <1>3
<1>5. Types' /\ Growth'
  BY <1>2, <1>4 DEF Types, Growth, Whole, Height
<1>6. Served' = known
  BY <1>2 DEF Served
<1>7. Close'
  <2>1. ASSUME ~late'
        PROVE  known > height
    <3>1. ~(known <= height)
      BY <1>2, <2>1, Zenon
    <3> QED
      BY <1>1, <3>1
  <2>2. Served' # NoBox /\ vm' # NoVm
    BY <1>1, <1>4, <1>6
  <2>3. ASSUME ~late'
        PROVE  vm' - Served' < Day /\ Served' - vm' < Day
    <3>1. vm' = height + days * Day
      BY <1>2
    <3>2. known > height
      BY <2>1, <2>3
    <3>3. vm' - known < Day /\ known - vm' < Day
      BY <1>1, <1>3, <3>1, <3>2
    <3> QED
      BY <1>6, <3>3
  <2> QED
    BY <2>2, <2>3 DEF Close
<1> QED
  BY <1>5, <1>7

LEMMA ExtendKeeps ==
    ASSUME IInv, ExtendVm
    PROVE  IInv'
<1> USE ExpiryConstants, DayPositive DEF IInv
<1> DEFINE days == AdditionalDays(job.old, job.new)
<1>1. /\ job # Idle /\ job.old # NoBox /\ job.old \in Nat
      /\ job.new = known /\ known \in Nat
      /\ Served = job.old /\ vm \in Nat
  BY DEF ExtendVm, Types, Close, Served
<1>2. /\ vm' = vm + days * Day /\ job' = Idle
      /\ UNCHANGED <<height, box, known, late>>
  BY DEF ExtendVm
<1>3. days \in Nat /\ days * Day = known - job.old
  <2>1. PICK n \in Nat : known - job.old = n * Day
    BY <1>1 DEF Growth, Whole
  <2>2. n * Day \in Nat /\ known = job.old + n * Day
    BY <1>1, <2>1
  <2>3. CASE n = 0
    BY <1>1, <2>1, <2>2, <2>3 DEF AdditionalDays
  <2>4. CASE n > 0
    <3>1. n * Day > 0
      BY <2>4
    <3>2. known > job.old
      BY <1>1, <2>2, <3>1
    <3>3. (known - job.old) \div Day = n
      BY <2>1, WholeQuotient
    <3>4. days = n
      BY <1>1, <2>4, <3>2, <3>3 DEF AdditionalDays, AtLeastOne
    <3> QED
      BY <2>1, <3>4
  <2> QED
    BY <2>3, <2>4
<1> HIDE DEF days
<1>4. vm' \in Nat /\ vm' - known = vm - job.old
  BY <1>1, <1>2, <1>3
<1>5. Types' /\ Growth'
  BY <1>2, <1>4 DEF Types, Growth, Whole, Height
<1>6. Served' = known
  BY <1>2 DEF Served
<1>7. Close'
  BY <1>1, <1>2, <1>4, <1>6 DEF Close
<1> QED
  BY <1>5, <1>7

LEMMA NextIInv ==
    ASSUME Whole(Interval)
    PROVE  IInv /\ [Next]_vars => IInv'
<1> SUFFICES ASSUME IInv, [Next]_vars
             PROVE  IInv'
  OBVIOUS
<1>1. CASE Tick
  BY <1>1 DEF Tick, IInv, Types, Growth, Close, Served, Whole, Height
<1>2. CASE \E days \in 1..MaxDays, read \in 0..height : Buy(days * Interval, read)
  <2>1. PICK days \in 1..MaxDays, read \in 0..height : Buy(days * Interval, read)
    BY <1>2
  <2>2. days \in Nat /\ read \in Nat
    BY ExpiryConstants DEF IInv, Types
  <2> QED
    BY <2>1, <2>2, WholeProduct, BuyKeeps
<1>3. CASE Scan
  BY <1>3, ScanKeeps
<1>4. CASE Create
  BY <1>4, CreateKeeps
<1>5. CASE ExtendVm
  BY <1>5, ExtendKeeps
<1>6. CASE UNCHANGED vars
  BY <1>6 DEF vars, IInv, Types, Growth, Close, Served, Whole, Height
<1> QED
  BY <1>1, <1>2, <1>3, <1>4, <1>5, <1>6 DEF Next

LEMMA CloseIsWithinADay == IInv => WithinADay
<1> SUFFICES ASSUME IInv, CaughtUp, ~late
             PROVE  vm - box < Day /\ box - vm < Day
  BY DEF WithinADay
<1>1. Served = box
  BY DEF CaughtUp, Served
<1> QED
  BY <1>1 DEF IInv, Close, CaughtUp

(* handlers 49-69: for plans sold in whole days, a VM that has caught up     *)
(* with its box expires less than a day before or after it, for every length *)
(* of a day and whatever the number and the times of its purchases.          *)
THEOREM TermIsHonoured ==
    ASSUME Whole(Interval)
    PROVE  Spec => []WithinADay
BY CloseIsWithinADay, InitIInv, NextIInv, PTL DEF Spec

-----------------------------------------------------------------------------
(* The page: the cost on display.                                            *)

(* UpdateCost's cost, which the wallet has no part in.                       *)
Cost(ps, f) == UpdateCost(ps, f, NoWallet).cost

(* No plan has the empty selection's id.                                     *)
Named(ps) == \A i \in DOMAIN ps : ps[i].id # 0

Fields ==
    /\ DOMAIN screen = {"cost", "armed"}
    /\ DOMAIN form = {"plan", "days"}
    /\ DOMAIN deal = {"stage", "plan", "days", "shown", "at", "payer", "owner"}

Displayed == form.plan # 0 => screen.cost = Cost(plans, form)

Priced == Fields /\ Named(plans) /\ Displayed /\ ChargedAsShown

LEMMA CostOfUpdate ==
    ASSUME NEW ps, NEW f, NEW c
    PROVE  /\ UpdateCost(ps, f, c).cost = Cost(ps, f)
           /\ DOMAIN UpdateCost(ps, f, c) = {"cost", "armed"}
BY DEF UpdateCost, Cost

LEMMA ParsedAreNamed ==
    ASSUME NEW boxes
    PROVE  Named(Parsed(boxes)) /\ DOMAIN Parsed(boxes) \subseteq DOMAIN boxes
BY DEF Named, Parsed, Restrict

LEMMA NothingParsed == FirstId(Parsed(<<>>)) = 0 /\ Empty(Parsed(<<>>))
<1>1. DOMAIN <<>> = {}
  OBVIOUS
<1>2. DOMAIN Parsed(<<>>) \subseteq DOMAIN <<>>
  BY ParsedAreNamed
<1>3. DOMAIN Parsed(<<>>) = {}
  BY <1>1, <1>2
<1> QED
  BY <1>3 DEF FirstId, Empty

LEMMA InitPriced == PageInit => Priced
<1> SUFFICES ASSUME PageInit
             PROVE  Priced
  OBVIOUS
<1>1. /\ plans = <<>> /\ form = [plan |-> 0, days |-> DefaultDays]
      /\ screen = [cost |-> 0, armed |-> FALSE] /\ deal = NoDeal
  BY DEF PageInit
<1> QED
  BY <1>1 DEF Priced, Fields, Named, Displayed, ChargedAsShown, NoDeal

LEMMA LoadKeepsPriced ==
    ASSUME Priced, NEW boxes \in Listings, LoadPlans(boxes)
    PROVE  Priced'
<1> DEFINE parsed == Parsed(boxes)
<1>1. /\ plans' = IF boxes = <<>> THEN plans ELSE parsed
      /\ form' = [form EXCEPT !.plan = FirstId(parsed)]
      /\ screen' = IF Empty(parsed) THEN screen ELSE UpdateCost(parsed, form', ctx)
      /\ UNCHANGED deal
  BY DEF LoadPlans
<1>2. Named(plans') /\ Named(plans)'
  BY <1>1, ParsedAreNamed DEF Priced, Named
<1>3. Fields'
  BY <1>1, CostOfUpdate DEF Priced, Fields
<1>4. form'.plan = FirstId(parsed)
  BY <1>1 DEF Priced, Fields
<1>5. CASE Empty(parsed)
  BY <1>1, <1>2, <1>3, <1>4, <1>5 DEF Priced, Displayed, FirstId, ChargedAsShown, Total
<1>6. CASE ~Empty(parsed)
  <2>1. boxes # <<>> /\ plans' = parsed
    BY <1>1, <1>6, NothingParsed
  <2>2. screen'.cost = Cost(plans', form')
    BY <1>1, <1>6, <2>1, CostOfUpdate
  <2> QED
    BY <1>1, <1>2, <1>3, <2>2 DEF Priced, Displayed, Cost, ChargedAsShown, Total
<1> QED
  BY <1>5, <1>6

LEMMA ClickPrices ==
    ASSUME Priced, Click
    PROVE  Priced'
<1>1. /\ Find(plans, form.plan) # None /\ form.days > 0
      /\ deal' = [NoDeal EXCEPT !.stage = "clicked", !.plan = Find(plans, form.plan),
                                !.days = form.days, !.shown = screen.cost]
      /\ screen' = [screen EXCEPT !.armed = FALSE]
      /\ UNCHANGED <<plans, form>>
  BY DEF Click, Deal
<1>2. form.plan # 0
  BY <1>1 DEF Priced, Named, Find, Places
<1>3. screen.cost = Find(plans, form.plan).price * form.days
  BY <1>1, <1>2 DEF Priced, Displayed, Cost, UpdateCost
<1>4. /\ deal'.plan = Find(plans, form.plan) /\ deal'.days = form.days
      /\ deal'.shown = screen.cost
      /\ DOMAIN deal' = {"stage", "plan", "days", "shown", "at", "payer", "owner"}
  BY <1>1 DEF NoDeal
<1>5. ChargedAsShown'
  BY <1>3, <1>4 DEF ChargedAsShown, Total
<1>6. screen'.cost = screen.cost /\ DOMAIN screen' = {"cost", "armed"}
  BY <1>1 DEF Priced, Fields
<1> QED
  BY <1>1, <1>4, <1>5, <1>6 DEF Priced, Fields, Named, Displayed, Cost

(* Past the click a purchase changes neither its plan nor its days.          *)
LEMMA PurchaseKeepsPriced ==
    ASSUME Priced,
           \/ ReadHeight \/ ReadCoins \/ BuildBox \/ SignBox \/ SubmitBox
           \/ Abandon \/ MineBox
    PROVE  Priced'
<1> USE DEF Priced, Fields
<1>1. \/ deal' = NoDeal
      \/ /\ deal.stage # "none" /\ DOMAIN deal' = DOMAIN deal
         /\ UNCHANGED <<deal.plan, deal.days, deal.shown>>
  <2>1. CASE ReadHeight
    BY <2>1 DEF ReadHeight, At, Deal
  <2>2. CASE ReadCoins
    BY <2>2 DEF ReadCoins, At, Deal
  <2>3. CASE BuildBox
    BY <2>3 DEF BuildBox, At, Deal
  <2>4. CASE SignBox
    BY <2>4 DEF SignBox, At, Deal
  <2>5. CASE SubmitBox
    BY <2>5 DEF SubmitBox, At, Deal
  <2>6. CASE Abandon
    BY <2>6 DEF Abandon, Deal
  <2>7. CASE MineBox
    BY <2>7 DEF MineBox
  <2> QED
    BY <2>1, <2>2, <2>3, <2>4, <2>5, <2>6, <2>7
<1>2. \/ /\ plans' = <<>> /\ form' = [plan |-> 0, days |-> DefaultDays]
         /\ screen' = [cost |-> 0, armed |-> FALSE]
      \/ /\ UNCHANGED <<plans, form>>
         /\ screen' = screen \/ screen' = [screen EXCEPT !.armed = TRUE]
  BY DEF ReadHeight, ReadCoins, BuildBox, SignBox, SubmitBox, Abandon, MineBox, Deal
<1>3. ChargedAsShown' /\ DOMAIN deal' = DOMAIN deal
  BY <1>1 DEF ChargedAsShown, Total, NoDeal
<1>4. Named(plans)' /\ Displayed' /\ DOMAIN screen' = DOMAIN screen /\ DOMAIN form' = DOMAIN form
  BY <1>2 DEF Named, Displayed, Cost
<1> QED
  BY <1>3, <1>4

LEMMA NextPriced == Priced /\ [PageNext]_allVars => Priced'
<1> SUFFICES ASSUME Priced, [PageNext]_allVars
             PROVE  Priced'
  OBVIOUS
<1> USE DEF Priced
<1>1. ASSUME UNCHANGED <<planVars, deal>>
      PROVE  Priced'
  BY <1>1 DEF planVars, Fields, Named, Displayed, Cost, ChargedAsShown, Total
<1>2. CASE ConnectStep
  BY <1>1, <1>2 DEF ConnectStep
<1>3. CASE \E w \in Wallets : Connected(w)
  <2>1. screen' = UpdateCost(plans, form, ctx) /\ UNCHANGED <<plans, form, deal>>
    BY <1>3 DEF Connected
  <2> QED
    BY <2>1, CostOfUpdate DEF Fields, Named, Displayed, Cost, ChargedAsShown, Total
<1>4. CASE \E boxes \in Listings : LoadPlans(boxes)
  BY <1>4, LoadKeepsPriced
<1>5. CASE Choose
  <2>1. /\ screen' = UpdateCost(plans, form', ctx) /\ UNCHANGED <<plans, deal>>
        /\ DOMAIN form' = {"plan", "days"}
    BY <1>5 DEF Choose
  <2>2. screen'.cost = Cost(plans, form') /\ DOMAIN screen' = {"cost", "armed"}
    BY <2>1, CostOfUpdate
  <2> QED
    BY <2>1, <2>2 DEF Fields, Named, Displayed, Cost, ChargedAsShown, Total
<1>6. CASE Purchase
  BY <1>6, ClickPrices, PurchaseKeepsPriced DEF Purchase
<1>7. CASE Commanding
  BY <1>1, <1>7 DEF Commanding, Stamp, GiveUp, Post, Execute, Send, Unchanged
<1>8. CASE EngineStep
  BY <1>1, <1>8 DEF EngineStep, pageVars
<1>9. CASE UNCHANGED allVars
  BY <1>1, <1>9 DEF allVars, pageVars
<1> QED
  BY <1>2, <1>3, <1>4, <1>5, <1>6, <1>7, <1>8, <1>9 DEF PageNext

(* updateCost, the loadPlans refill and the click handler: a purchase costs  *)
(* what the page displayed when the user clicked, for any answers of the     *)
(* node and any order in which they arrive, the user chooses and wallets     *)
(* connect.                                                                  *)
THEOREM CostIsTheOneShown == PageSpec => []ChargedAsShown
<1>1. Priced => ChargedAsShown
  BY DEF Priced
<1> QED
  BY <1>1, InitPriced, NextPriced, PTL DEF PageSpec

-----------------------------------------------------------------------------
(* The page: the wallet in charge.                                           *)

UnderWay(w) == link[w] \in {"asked", "listing"}
Linked(w) == w \in Wallets /\ link[w] = "done"

OneUnderWay == \A v, w \in Wallets : UnderWay(v) /\ UnderWay(w) => v = w

(* A wallet that lists its addresses or is connected is the page's context,  *)
(* and a connection ends the others.                                         *)
InCharge ==
    \A w \in Wallets :
        /\ link[w] = "listing" => ctx = w
        /\ link[w] = "done" => ctx = w /\ \A v \in Wallets : ~UnderWay(v)

AddressInCharge == address # NoWallet => Linked(address)

OwnerInCharge ==
    deal.owner # NoWallet =>
        /\ deal.stage = "signing" => Linked(deal.owner)
        /\ deal.stage \in {"submitting", "sent", "doubtful", "mined"}
              => deal.owner = deal.payer

Links ==
    /\ link \in [Wallets -> {"off", "asked", "listing", "done"}]
    /\ DOMAIN deal = {"stage", "plan", "days", "shown", "at", "payer", "owner"}
    /\ ~crossed => OneUnderWay /\ InCharge /\ AddressInCharge /\ OwnerInCharge

LEMMA InitLinks == PageInit => Links
<1> SUFFICES ASSUME PageInit
             PROVE  Links
  OBVIOUS
<1>1. deal = NoDeal /\ address = ctx
  BY DEF PageInit
<1>2. link \in [Wallets -> {"off", "asked", "listing", "done"}]
  BY DEF PageInit
<1>3. OneUnderWay /\ InCharge /\ AddressInCharge
  <2>1. CASE ctx = NoWallet /\ link = [w \in Wallets |-> "off"]
    BY <1>1, <2>1 DEF OneUnderWay, InCharge, AddressInCharge, UnderWay
  <2>2. CASE ctx \in Wallets /\ link = [w \in Wallets |-> IF w = ctx THEN "done" ELSE "off"]
    BY <1>1, <2>2 DEF OneUnderWay, InCharge, AddressInCharge, UnderWay, Linked
  <2> QED
    BY <2>1, <2>2 DEF PageInit
<1> QED
  BY <1>1, <1>2, <1>3 DEF Links, OwnerInCharge, NoDeal

LEMMA ConnectKeepsLinks ==
    ASSUME Links, NEW w \in Wallets, Connect(w), UNCHANGED deal
    PROVE  Links'
<1>1. /\ link[w] = "off" /\ \A v \in Wallets : link[v] # "done"
      /\ link' = [link EXCEPT ![w] = "asked"]
      /\ crossed' = (crossed \/ \E v \in Wallets : link[v] \in {"asked", "listing"})
      /\ UNCHANGED <<ctx, address, deal>>
  BY DEF Connect
<1>2. link' \in [Wallets -> {"off", "asked", "listing", "done"}]
  BY <1>1 DEF Links
<1>3. ASSUME ~crossed'
      PROVE  (OneUnderWay /\ InCharge /\ AddressInCharge /\ OwnerInCharge)'
  <2>1. /\ OneUnderWay /\ InCharge /\ AddressInCharge /\ OwnerInCharge
        /\ \A v \in Wallets : ~UnderWay(v)
    BY <1>1, <1>3 DEF Links, UnderWay
  <2>2. \A v \in Wallets : link'[v] = IF v = w THEN "asked" ELSE link[v]
    BY <1>1 DEF Links
  <2>3. OneUnderWay' /\ InCharge'
    BY <1>1, <2>1, <2>2 DEF OneUnderWay, InCharge, UnderWay
  <2>4. AddressInCharge' /\ OwnerInCharge'
    BY <1>1, <2>1, <2>2 DEF AddressInCharge, OwnerInCharge, Linked
  <2> QED
    BY <2>3, <2>4
<1> QED
  BY <1>1, <1>2, <1>3 DEF Links

LEMMA GrantedKeepsLinks ==
    ASSUME Links, NEW w \in Wallets, Granted(w), UNCHANGED deal
    PROVE  Links'
<1>1. /\ link[w] = "asked" /\ link' = [link EXCEPT ![w] = "listing"] /\ ctx' = w
      /\ UNCHANGED <<address, crossed, deal>>
  BY DEF Granted
<1>2. link' \in [Wallets -> {"off", "asked", "listing", "done"}]
  BY <1>1 DEF Links
<1>3. ASSUME ~crossed
      PROVE  (OneUnderWay /\ InCharge /\ AddressInCharge /\ OwnerInCharge)'
  <2>1. OneUnderWay /\ InCharge /\ AddressInCharge /\ OwnerInCharge
    BY <1>3 DEF Links
  <2>2. \A v \in Wallets : link'[v] = IF v = w THEN "listing" ELSE link[v]
    BY <1>1 DEF Links
  <2>3. \A v \in Wallets : link[v] # "done" /\ (v # w => link[v] # "listing")
    BY <1>1, <2>1 DEF InCharge, OneUnderWay, UnderWay
  <2>4. OneUnderWay' /\ InCharge'
    BY <1>1, <2>1, <2>2, <2>3 DEF OneUnderWay, InCharge, UnderWay
  <2>5. AddressInCharge' /\ OwnerInCharge'
    BY <1>1, <2>1, <2>3 DEF AddressInCharge, OwnerInCharge, Linked
  <2> QED
    BY <2>4, <2>5
<1> QED
  BY <1>1, <1>2, <1>3 DEF Links

LEMMA RefusedKeepsLinks ==
    ASSUME Links, NEW w \in Wallets, Refused(w), UNCHANGED deal
    PROVE  Links'
<1>1. /\ link[w] \in {"asked", "listing"} /\ link' = [link EXCEPT ![w] = "off"]
      /\ UNCHANGED <<ctx, address, crossed, deal>>
  BY DEF Refused
<1>2. link' \in [Wallets -> {"off", "asked", "listing", "done"}]
  BY <1>1 DEF Links
<1>3. \A v \in Wallets : link'[v] = IF v = w THEN "off" ELSE link[v]
  BY <1>1 DEF Links
<1>4. ASSUME OneUnderWay, InCharge
      PROVE  OneUnderWay' /\ InCharge'
  BY <1>1, <1>3, <1>4 DEF OneUnderWay, InCharge, UnderWay
<1>5. ASSUME AddressInCharge, OwnerInCharge
      PROVE  AddressInCharge' /\ OwnerInCharge'
  BY <1>1, <1>3, <1>5 DEF AddressInCharge, OwnerInCharge, Linked
<1> QED
  BY <1>1, <1>2, <1>4, <1>5 DEF Links

LEMMA ConnectedKeepsLinks ==
    ASSUME Links, NEW w \in Wallets, Connected(w)
    PROVE  Links'
<1>1. /\ link[w] = "listing" /\ link' = [link EXCEPT ![w] = "done"]
      /\ address' \in {w, ctx}
      /\ UNCHANGED <<ctx, crossed, deal>>
  BY DEF Connected
<1>2. link' \in [Wallets -> {"off", "asked", "listing", "done"}]
  BY <1>1 DEF Links
<1>3. ASSUME ~crossed
      PROVE  (OneUnderWay /\ InCharge /\ AddressInCharge /\ OwnerInCharge)'
  <2>1. OneUnderWay /\ InCharge /\ OwnerInCharge
    BY <1>3 DEF Links
  <2>2. \A v \in Wallets : link'[v] = IF v = w THEN "done" ELSE link[v]
    BY <1>1 DEF Links
  <2>3. /\ ctx = w /\ address' = w
        /\ \A v \in Wallets : link[v] # "done" /\ (v # w => ~UnderWay(v))
    BY <1>1, <2>1 DEF InCharge, OneUnderWay, UnderWay
  <2>4. OneUnderWay' /\ InCharge'
    BY <1>1, <2>1, <2>2, <2>3 DEF OneUnderWay, InCharge, UnderWay
  <2>5. AddressInCharge' /\ OwnerInCharge'
    BY <1>1, <2>1, <2>2, <2>3 DEF AddressInCharge, OwnerInCharge, Linked
  <2> QED
    BY <2>4, <2>5
<1> QED
  BY <1>1, <1>2, <1>3 DEF Links

LEMMA PurchaseKeepsLinks ==
    ASSUME Links, Purchase
    PROVE  Links'
<1> USE DEF Links
<1>1. CASE ~MineBox
  <2>1. UNCHANGED <<link, ctx, address, crossed>>
    BY <1>1 DEF Purchase, Click, ReadHeight, ReadCoins, BuildBox, SignBox, SubmitBox,
                Abandon, Deal, walletVars
  <2>2. OneUnderWay' = OneUnderWay /\ InCharge' = InCharge /\ AddressInCharge' = AddressInCharge
    BY <2>1 DEF OneUnderWay, InCharge, AddressInCharge, UnderWay, Linked
  <2> SUFFICES /\ DOMAIN deal' = {"stage", "plan", "days", "shown", "at", "payer", "owner"}
               /\ ~crossed => OwnerInCharge'
    BY <2>1, <2>2
  <2>3. CASE Click \/ Abandon
    <3>1. CASE deal' = NoDeal
      BY <3>1 DEF NoDeal, OwnerInCharge
    <3>2. CASE deal' = [NoDeal EXCEPT !.stage = "clicked", !.plan = Find(plans, form.plan),
                                      !.days = form.days, !.shown = screen.cost]
      <4>1. deal'.owner = NoWallet
        BY <3>2 DEF NoDeal
      <4>2. DOMAIN deal' = {"stage", "plan", "days", "shown", "at", "payer", "owner"}
        BY <3>2 DEF NoDeal
      <4> QED
        BY <4>1, <4>2 DEF OwnerInCharge
    <3> QED
      BY <2>3, <3>1, <3>2 DEF Click, Abandon, Deal
  <2>4. CASE ReadHeight
    BY <2>4 DEF ReadHeight, At, Deal, OwnerInCharge
  <2>5. CASE ReadCoins
    BY <2>5 DEF ReadCoins, At, Deal, OwnerInCharge
  <2>6. CASE BuildBox
    BY <2>1, <2>6 DEF BuildBox, At, Deal, OwnerInCharge, AddressInCharge, Linked
  <2>7. CASE SignBox
    <3>1. /\ deal.stage = "signing" /\ ctx = deal.payer
          /\ deal' = [deal EXCEPT !.stage = "submitting"]
      BY <2>7 DEF SignBox, At, Deal
    <3>2. ~crossed /\ deal.owner # NoWallet => deal.owner = ctx
      BY <3>1 DEF OwnerInCharge, InCharge, Linked
    <3> QED
      BY <3>1, <3>2 DEF OwnerInCharge
  <2>8. CASE SubmitBox
    BY <2>8 DEF SubmitBox, At, Deal, OwnerInCharge
  <2> QED
    BY <1>1, <2>3, <2>4, <2>5, <2>6, <2>7, <2>8 DEF Purchase
<1>2. CASE MineBox
  <2>1. /\ deal.stage \in {"sent", "doubtful"} /\ deal' = [deal EXCEPT !.stage = "mined"]
        /\ link' = [w \in Wallets |-> "off"] /\ address' = NoWallet /\ crossed' = crossed
    BY <1>2 DEF MineBox
  <2>2. OneUnderWay' /\ InCharge' /\ AddressInCharge'
    BY <2>1 DEF OneUnderWay, InCharge, AddressInCharge, UnderWay
  <2>3. OwnerInCharge => OwnerInCharge'
    BY <2>1 DEF OwnerInCharge
  <2> QED
    BY <2>1, <2>2, <2>3
<1> QED
  BY <1>1, <1>2

LEMMA NextLinks == Links /\ [PageNext]_allVars => Links'
<1> SUFFICES ASSUME Links, [PageNext]_allVars
             PROVE  Links'
  OBVIOUS
<1>1. ASSUME UNCHANGED <<walletVars, deal>>
      PROVE  Links'
  BY <1>1 DEF Links, walletVars, OneUnderWay, InCharge, AddressInCharge, OwnerInCharge,
              UnderWay, Linked
<1>2. CASE ConnectStep
  BY <1>2, ConnectKeepsLinks, GrantedKeepsLinks, RefusedKeepsLinks DEF ConnectStep
<1>3. CASE \E w \in Wallets : Connected(w)
  BY <1>3, ConnectedKeepsLinks
<1>4. CASE \E boxes \in Listings : LoadPlans(boxes)
  BY <1>1, <1>4 DEF LoadPlans
<1>5. CASE Choose
  BY <1>1, <1>5 DEF Choose
<1>6. CASE Purchase
  BY <1>6, PurchaseKeepsLinks
<1>7. CASE Commanding
  BY <1>1, <1>7 DEF Commanding, Stamp, GiveUp, Post, Execute, Send, Unchanged
<1>8. CASE EngineStep
  BY <1>1, <1>8 DEF EngineStep, pageVars
<1>9. CASE UNCHANGED allVars
  BY <1>1, <1>9 DEF allVars, pageVars
<1> QED
  BY <1>2, <1>3, <1>4, <1>5, <1>6, <1>7, <1>8, <1>9 DEF PageNext

(* connectWallet, the click handler and sign_tx: a subscription names the    *)
(* wallet that paid for it, for any wallets, if the page had an address and  *)
(* two connections never were under way at a time.                           *)
THEOREM PayerIsNamed == PageSpec => []NamesPayer
<1>1. Links => NamesPayer
  BY DEF Links, NamesPayer, OwnerInCharge
<1> QED
  BY <1>1, InitLinks, NextLinks, PTL DEF PageSpec

-----------------------------------------------------------------------------
(* The page: what a nonce was spent on.                                      *)

NonceTypes ==
    /\ nonce \in Nat
    /\ DOMAIN command = {"stage", "intent", "nonce", "stamp"}
    /\ command.stage \in {"idle", "reading", "signing"}
    /\ command.stage = "signing" => command.nonce = nonce
    /\ \A p \in posted \cup log : p.nonce \in Nat /\ p.nonce <= nonce /\ p.nonce >= 1
    /\ \A q \in settled : q.nonce \in Nat /\ q.nonce < nonce

(* Every nonce left behind was spent.                                        *)
Spent == \A n \in Nat : 1 <= n /\ n < nonce => \E q \in settled : q.nonce = n

(* What was reported as sent is not being sent again, and no transaction     *)
(* for it has a later nonce.                                                 *)
NotSentAgain ==
    \A q \in settled :
        /\ command.stage # "idle" => command.intent # q.intent
        /\ \A p \in posted \cup log : p.intent = q.intent => p.nonce <= q.nonce

Apart == \A r, s \in log : r # s /\ r.nonce = s.nonce => s.at - r.at > Retain \/ r.at - s.at > Retain

Nonces == NonceTypes /\ nonce >= 1 /\ Spent /\ NotSentAgain /\ Apart

LEMMA InitNonces == PageInit => Nonces
<1> SUFFICES ASSUME PageInit
             PROVE  Nonces
  OBVIOUS
<1>1. command = NoIntent /\ nonce = 1 /\ posted = {} /\ settled = {} /\ log = {}
  BY DEF PageInit
<1> QED
  BY <1>1 DEF Nonces, NonceTypes, Spent, NotSentAgain, Apart, NoIntent

LEMMA PostKeepsNonces ==
    ASSUME Nonces, Post
    PROVE  Nonces'
<1> DEFINE p == [command EXCEPT !.stage = "posted"]
           q == [intent |-> command.intent, nonce |-> command.nonce]
<1> USE DEF Nonces
<1>1. /\ command.stage = "signing" /\ command' = NoIntent
      /\ posted' = posted \cup {p} /\ log' = log
      /\ \/ nonce' = nonce + 1 /\ settled' = settled \cup {q}
         \/ UNCHANGED <<nonce, settled>>
  BY DEF Post, OnItsWay
<1>2. /\ p.nonce = nonce /\ p.intent = command.intent
      /\ q.nonce = nonce /\ q.intent = command.intent
  BY <1>1 DEF NonceTypes
<1>3. command'.stage = "idle" /\ DOMAIN command' = {"stage", "intent", "nonce", "stamp"}
  BY <1>1 DEF NoIntent
<1>4. \A x \in (posted \cup log)' : x \in posted \cup log \/ x = p
  BY <1>1
<1>5. \A x \in settled' : x \in settled \/ (x = q /\ nonce' = nonce + 1)
  BY <1>1
<1> HIDE DEF p, q
<1>6. NonceTypes' /\ nonce' >= 1
  BY <1>1, <1>2, <1>3, <1>4, <1>5 DEF NonceTypes
<1>7. Spent'
  BY <1>1, <1>2 DEF Spent, NonceTypes
<1>8. \A x \in settled : command.intent # x.intent
  BY <1>1 DEF NotSentAgain
<1>9. NotSentAgain'
  <2> SUFFICES ASSUME NEW x \in settled', NEW y \in (posted \cup log)', y.intent = x.intent
               PROVE  y.nonce <= x.nonce
    BY <1>3 DEF NotSentAgain
  <2>1. CASE x \in settled
    BY <1>2, <1>4, <1>8, <2>1 DEF NotSentAgain
  <2>2. CASE x = q
    BY <1>2, <1>4, <2>2 DEF NonceTypes
  <2> QED
    BY <1>5, <2>1, <2>2
<1> QED
  BY <1>1, <1>6, <1>7, <1>9 DEF Apart

LEMMA ExecuteKeepsNonces ==
    ASSUME Nonces, Execute
    PROVE  Nonces'
<1> USE DEF Nonces
<1>1. PICK p \in posted :
          /\ \A r \in log : r.nonce = p.nonce => height - r.at > Retain
          /\ log' = log \cup {[intent |-> p.intent, nonce |-> p.nonce, at |-> height]}
  BY DEF Execute
<1> DEFINE e == [intent |-> p.intent, nonce |-> p.nonce, at |-> height]
<1>2. UNCHANGED <<command, nonce, posted, settled>>
  BY DEF Execute
<1>3. e.intent = p.intent /\ e.nonce = p.nonce /\ e.at = height
  OBVIOUS
<1>4. \A x \in log' : x \in log \/ x = e
  BY <1>1
<1> HIDE DEF e
<1>5. NonceTypes' /\ Spent'
  BY <1>2, <1>3, <1>4 DEF NonceTypes, Spent
<1>6. NotSentAgain'
  BY <1>2, <1>3, <1>4 DEF NotSentAgain
<1>7. Apart'
  BY <1>1, <1>3, <1>4 DEF Apart
<1> QED
  BY <1>2, <1>5, <1>6, <1>7

LEMMA NextNonces == Nonces /\ [PageNext]_allVars => Nonces'
<1> SUFFICES ASSUME Nonces, [PageNext]_allVars
             PROVE  Nonces'
  OBVIOUS
<1> USE DEF Nonces
<1>1. ASSUME UNCHANGED commandVars
      PROVE  Nonces'
  BY <1>1 DEF commandVars, NonceTypes, Spent, NotSentAgain, Apart
<1>2. ASSUME UNCHANGED <<nonce, posted, settled, log>>,
             DOMAIN command' = {"stage", "intent", "nonce", "stamp"},
             command'.stage \in {"idle", "reading", "signing"},
             command'.stage = "signing" => command'.nonce = nonce,
             \A q \in settled : command'.stage # "idle" => command'.intent # q.intent
      PROVE  Nonces'
  <2>1. NonceTypes' /\ Spent' /\ Apart'
    BY <1>2 DEF NonceTypes, Spent, Apart
  <2>2. NotSentAgain'
    BY <1>2 DEF NotSentAgain
  <2> QED
    BY <1>2, <2>1, <2>2
<1>3. CASE Commanding
  <2>1. CASE Stamp
    <3>1. /\ command.stage = "reading" /\ UNCHANGED <<nonce, posted, settled, log>>
          /\ command' = [command EXCEPT !.stage = "signing", !.nonce = nonce, !.stamp = height]
      BY <2>1 DEF Stamp
    <3>2. /\ DOMAIN command' = {"stage", "intent", "nonce", "stamp"}
          /\ command'.stage = "signing" /\ command'.nonce = nonce
      BY <3>1 DEF NonceTypes
    <3>3. command'.intent = command.intent
      BY <3>1 DEF NonceTypes
    <3>4. \A q \in settled : command'.intent # q.intent
      BY <3>1, <3>3 DEF NotSentAgain
    <3> QED
      BY <1>2, <3>1, <3>2, <3>4
  <2>2. CASE GiveUp
    <3>1. command' = NoIntent /\ UNCHANGED <<nonce, posted, settled, log>>
      BY <2>2 DEF GiveUp
    <3>2. DOMAIN command' = {"stage", "intent", "nonce", "stamp"} /\ command'.stage = "idle"
      BY <3>1 DEF NoIntent
    <3> QED
      BY <1>2, <3>1, <3>2
  <2>3. CASE Post
    BY <2>3, PostKeepsNonces
  <2>4. CASE Execute
    BY <2>4, ExecuteKeepsNonces
  <2>5. ASSUME NEW i \in Intents, Send(i)
        PROVE  Nonces'
    <3>1. /\ \A q \in settled : q.intent # i
          /\ command' = [NoIntent EXCEPT !.stage = "reading", !.intent = i]
          /\ UNCHANGED <<nonce, posted, settled, log>>
      BY <2>5 DEF Send
    <3>2. /\ DOMAIN command' = {"stage", "intent", "nonce", "stamp"}
          /\ command'.stage = "reading" /\ command'.intent = i
      BY <3>1 DEF NoIntent
    <3> QED
      BY <1>2, <3>1, <3>2
  <2> QED
    BY <1>3, <2>1, <2>2, <2>3, <2>4, <2>5 DEF Commanding
<1>4. CASE ConnectStep \/ Choose
  BY <1>1, <1>4 DEF ConnectStep, Choose
<1>5. CASE \E w \in Wallets : Connected(w)
  BY <1>1, <1>5 DEF Connected
<1>6. CASE \E boxes \in Listings : LoadPlans(boxes)
  BY <1>1, <1>6 DEF LoadPlans
<1>7. CASE Purchase
  BY <1>1, <1>7 DEF Purchase, Click, ReadHeight, ReadCoins, BuildBox, SignBox, SubmitBox,
                    Abandon, MineBox, Deal
<1>8. CASE EngineStep
  BY <1>1, <1>8 DEF EngineStep, pageVars
<1>9. CASE UNCHANGED allVars
  BY <1>1, <1>9 DEF allVars, pageVars
<1> QED
  BY <1>3, <1>4, <1>5, <1>6, <1>7, <1>8, <1>9 DEF PageNext

(* sendAdminCommand and the engine's nonce store: a command that was sent,   *)
(* failed and was tried again any number of times runs twice only when the   *)
(* store has forgotten its nonce or the nonce was spent on another command.  *)
THEOREM CommandsRunOnce == PageSpec => []RunsOnce
<1>1. Nonces => RunsOnce
  <2> SUFFICES ASSUME Nonces, NEW r \in log, NEW s \in log,
                      r.intent = s.intent, r # s, r.nonce <= s.nonce
               PROVE  \/ s.at - r.at > Retain \/ r.at - s.at > Retain
                      \/ \E q \in settled : q.nonce = r.nonce /\ q.intent # r.intent
    BY DEF RunsOnce
  <2>1. CASE r.nonce = s.nonce
    BY <2>1 DEF Nonces, Apart
  <2>2. CASE r.nonce # s.nonce
    <3>1. r.nonce \in Nat /\ 1 <= r.nonce /\ r.nonce < s.nonce /\ r.nonce < nonce /\ s.nonce \in Nat
      BY <2>2 DEF Nonces, NonceTypes
    <3>2. PICK q \in settled : q.nonce = r.nonce
      BY <3>1 DEF Nonces, Spent
    <3>3. q.intent # s.intent
      BY <3>1, <3>2 DEF Nonces, NotSentAgain
    <3> QED
      BY <3>2, <3>3
  <2> QED
    BY <2>1, <2>2
<1> QED
  BY <1>1, InitNonces, NextNonces, PTL DEF PageSpec

-----------------------------------------------------------------------------
(* The offers: what is read from a register is what was written into it.     *)

LEMMA FirstPlace ==
    ASSUME NEW I, I \subseteq Nat, I # {}
    PROVE  Min(I) \in I /\ \A y \in I : Min(I) <= y
<1> DEFINE R == OpToRel(<, Nat)
<1>1. IsWellFoundedOn(R, Nat)
  BY NatLessThanWellFounded
<1>2. \A x, y \in Nat : <<x, y>> \in R <=> x < y
  BY DEF OpToRel
<1> HIDE DEF R
<1>3. PICK x \in I : \A y \in I : <<y, x>> \notin R
  BY <1>1, WFMin
<1>4. ASSUME NEW y \in I
      PROVE  x <= y
  <2>1. x \in Nat /\ y \in Nat /\ <<y, x>> \notin R
    BY <1>3
  <2>2. ~(y < x)
    BY <1>2, <2>1, Zenon
  <2> QED
    BY <2>1, <2>2
<1> QED
  BY <1>4 DEF Min

(* Induction, by the least number left out.                                  *)
LEMMA Upwards ==
    ASSUME NEW T, T \subseteq Nat, 0 \in T, \A n \in Nat : n \in T => n + 1 \in T, NEW m \in Nat
    PROVE  m \in T
<1> DEFINE out == Nat \ T
<1> SUFFICES ASSUME out # {}
             PROVE  FALSE
  OBVIOUS
<1>1. Min(out) \in out /\ \A y \in out : Min(out) <= y
  BY FirstPlace
<1>2. Min(out) # 0 /\ Min(out) - 1 \in Nat
  BY <1>1
<1>3. Min(out) - 1 \in T
  BY <1>1, <1>2
<1> QED
  BY <1>1, <1>2, <1>3

Remainders(n, f) == f = [i \in 1..VlqBytes |-> IF i = 1 THEN n ELSE f[i - 1] \div 128]

LEMMA LeftIsChosen == \A n : Left(n) = CHOOSE f : Remainders(n, f)
BY DEF Left, Remainders

LEMMA LeftExists ==
    ASSUME NEW n
    PROVE  \E f : Remainders(n, f)
<1> DEFINE Upto(k, f) == f = [i \in 1..k |-> IF i = 1 THEN n ELSE f[i - 1] \div 128]
           T == {k \in Nat : \E f : Upto(k, f)}
<1>1. 0 \in T
  <2>1. Upto(0, [i \in 1..0 |-> n])
    OBVIOUS
  <2> QED
    BY <2>1
<1>2. ASSUME NEW k \in Nat, k \in T
      PROVE  k + 1 \in T
  <2>1. PICK g : Upto(k, g)
    BY <1>2
  <2> DEFINE f == [i \in 1..k + 1 |-> IF i = k + 1 THEN IF k = 0 THEN n ELSE g[k] \div 128
                                      ELSE g[i]]
  <2>2. ASSUME NEW i \in 1..k + 1
        PROVE  f[i] = IF i = 1 THEN n ELSE f[i - 1] \div 128
    <3>1. \A j \in 1..k : g[j] = IF j = 1 THEN n ELSE g[j - 1] \div 128
      BY <2>1
    <3>2. CASE i = k + 1
      BY <3>2
    <3>3. CASE i # k + 1
      <4>1. i \in 1..k
        BY <3>3
      <4> QED
        BY <3>1, <4>1
    <3> QED
      BY <3>2, <3>3
  <2>3. f = [i \in 1..k + 1 |-> f[i]]
    OBVIOUS
  <2> HIDE DEF f
  <2>4. Upto(k + 1, f)
    BY <2>2, <2>3
  <2> QED
    BY <2>4
<1> HIDE DEF T
<1>3. VlqBytes \in T
  BY <1>1, <1>2, Upwards DEF VlqBytes, T
<1> QED
  BY <1>3 DEF T, Remainders

LEMMA LeftUnfolds ==
    ASSUME NEW n \in Nat
    PROVE  /\ Left(n)[1] = n
           /\ \A i \in 1..VlqBytes : /\ Left(n)[i] \in Nat
                                     /\ i > 1 => Left(n)[i] = Left(n)[i - 1] \div 128
<1>1. Remainders(n, Left(n))
  BY LeftIsChosen, LeftExists
<1> DEFINE l == Left(n)
<1>2. \A i \in 1..VlqBytes : l[i] = IF i = 1 THEN n ELSE l[i - 1] \div 128
  BY <1>1 DEF Remainders
<1> HIDE DEF l
<1> DEFINE T == {k \in Nat : k + 1 <= VlqBytes => l[k + 1] \in Nat}
<1>3. 0 \in T
  BY <1>2 DEF VlqBytes
<1>4. ASSUME NEW k \in Nat, k \in T
      PROVE  k + 1 \in T
  <2>1. CASE k + 2 <= VlqBytes
    <3>1. k + 2 \in 1..VlqBytes /\ l[k + 1] \in Nat
      BY <1>4, <2>1 DEF VlqBytes
    <3>2. l[k + 2] = l[k + 1] \div 128
      BY <1>2, <3>1
    <3> QED
      BY <3>1, <3>2
  <2> QED
    BY <2>1
<1>5. \A i \in 1..VlqBytes : i - 1 \in T /\ i - 1 \in Nat /\ (i - 1) + 1 = i
  <2>1. \A k \in Nat : k \in T => k + 1 \in T
    BY <1>4
  <2>2. T \subseteq Nat
    OBVIOUS
  <2> HIDE DEF T
  <2>3. \A k \in Nat : k \in T
    BY <1>3, <2>1, <2>2, Upwards
  <2> QED
    BY <2>3 DEF VlqBytes
<1>6. \A i \in 1..VlqBytes : l[i] \in Nat
  BY <1>5 DEF T
<1> QED
  BY <1>2, <1>6 DEF VlqBytes, l

Falls(bytes, f) ==
    f = [i \in 1..Len(bytes) + 1 |->
            IF i > Len(bytes) THEN 0
            ELSE (bytes[i] % 128) + (IF bytes[i] < 128 THEN 0 ELSE 128 * f[i + 1])]

LEMMA DecodeIsChosen == \A bytes : VlqDecode(bytes) = (CHOOSE f : Falls(bytes, f))[1]
BY DEF VlqDecode, Falls

(* The page reads what was written: at every byte, what was left.            *)
LEMMA VlqRoundTrip ==
    ASSUME NEW n \in Nat, Left(n)[VlqBytes] < 128
    PROVE  VlqDecode(VlqEncode(n)) = n
<1> DEFINE short == {i \in 1..VlqBytes : Left(n)[i] < 128}
           last == Min(short)
           l == Left(n)
           b == VlqEncode(n)
<1>1. last \in short /\ \A i \in short : last <= i
  <2>1. VlqBytes \in short
    BY DEF VlqBytes
  <2>2. short \subseteq Nat
    BY DEF VlqBytes
  <2> HIDE DEF short
  <2> QED
    BY <2>1, <2>2, FirstPlace
<1>2. last \in 1..VlqBytes /\ last \in Nat /\ l[last] < 128
  BY <1>1 DEF VlqBytes
<1>3. \A i \in 1..last : l[i] \in Nat /\ (i < last => l[i] >= 128 /\ l[i + 1] = l[i] \div 128)
  <2> SUFFICES ASSUME NEW i \in 1..last
               PROVE  l[i] \in Nat /\ (i < last => l[i] >= 128 /\ l[i + 1] = l[i] \div 128)
    OBVIOUS
  <2>1. i \in 1..VlqBytes /\ l[i] \in Nat
    <3> HIDE DEF last
    <3>1. i \in 1..VlqBytes
      BY <1>2 DEF VlqBytes
    <3> QED
      BY <3>1, LeftUnfolds
  <2>2. ASSUME i < last
        PROVE  l[i] >= 128 /\ l[i + 1] = l[i] \div 128
    <3>1. ~(l[i] < 128)
      BY <1>1, <1>2, <2>1, <2>2
    <3>2. i + 1 \in 1..VlqBytes /\ i + 1 > 1 /\ (i + 1) - 1 = i
      BY <1>2, <2>1, <2>2 DEF VlqBytes
    <3> QED
      BY <2>1, <3>1, <3>2, LeftUnfolds
  <2> QED
    BY <2>1, <2>2
<1>4. b = [i \in 1..last |-> (l[i] % 128) + (IF i < last THEN 128 ELSE 0)]
  BY DEF VlqEncode
<1>5. l[1] = n
  BY LeftUnfolds
<1> HIDE DEF short, last, l, b
<1>6. Len(b) = last /\ \A i \in 1..last : b[i] = (l[i] % 128) + (IF i < last THEN 128 ELSE 0)
  BY <1>2, <1>4
<1>7. \A i \in 1..last : /\ b[i] \in Nat /\ b[i] % 128 = l[i] % 128
                         /\ i < last <=> ~(b[i] < 128)
                         /\ l[i] = (l[i] % 128) + (IF i < last THEN 128 * l[i + 1] ELSE 0)
  <2> SUFFICES ASSUME NEW i \in 1..last
               PROVE  /\ b[i] \in Nat /\ b[i] % 128 = l[i] % 128
                      /\ i < last <=> ~(b[i] < 128)
                      /\ l[i] = (l[i] % 128) + (IF i < last THEN 128 * l[i + 1] ELSE 0)
    OBVIOUS
  <2>1. l[i] \in Nat /\ b[i] = (l[i] % 128) + (IF i < last THEN 128 ELSE 0)
    BY <1>3, <1>6
  <2>2. CASE i < last
    BY <1>3, <2>1, <2>2
  <2>3. CASE ~(i < last)
    <3>1. i = last
      BY <1>2, <2>3
    <3> QED
      BY <1>2, <2>1, <2>3, <3>1
  <2> QED
    BY <2>2, <2>3
<1>8. Falls(b, [i \in 1..last + 1 |-> IF i > last THEN 0 ELSE l[i]])
  <2> DEFINE f == [i \in 1..last + 1 |-> IF i > last THEN 0 ELSE l[i]]
  <2>1. ASSUME NEW i \in 1..last + 1
        PROVE  f[i] = IF i > last THEN 0
                      ELSE (b[i] % 128) + (IF b[i] < 128 THEN 0 ELSE 128 * f[i + 1])
    <3>1. CASE i = last + 1
      BY <1>2, <3>1
    <3>2. CASE i # last + 1
      <4>1. i \in 1..last /\ ~(i > last) /\ i + 1 \in 1..last + 1
        BY <1>2, <3>2
      <4>2. f[i] = l[i] /\ f[i + 1] = IF i < last THEN l[i + 1] ELSE 0
        BY <1>2, <4>1
      <4> HIDE DEF f
      <4> QED
        BY <1>7, <4>1, <4>2
    <3> QED
      BY <3>1, <3>2
  <2>2. f = [i \in 1..last + 1 |-> f[i]]
    OBVIOUS
  <2> HIDE DEF f
  <2> DEFINE F(h) == [i \in 1..Len(b) + 1 |->
                        IF i > Len(b) THEN 0
                        ELSE (b[i] % 128) + (IF b[i] < 128 THEN 0 ELSE 128 * h[i + 1])]
  <2>3. F(f) = [i \in 1..last + 1 |-> f[i]]
    BY <1>6, <2>1
  <2>4. Falls(b, f)
    BY <2>2, <2>3 DEF Falls
  <2> QED
    BY <2>4 DEF f
<1>9. PICK g : Falls(b, g) /\ VlqDecode(b) = g[1]
  BY <1>8, DecodeIsChosen
<1>10. \A i \in 1..last : g[i] = (b[i] % 128) + (IF b[i] < 128 THEN 0 ELSE 128 * g[i + 1])
  <2> SUFFICES ASSUME NEW i \in 1..last
               PROVE  g[i] = (b[i] % 128) + (IF b[i] < 128 THEN 0 ELSE 128 * g[i + 1])
    OBVIOUS
  <2>1. i \in 1..Len(b) + 1 /\ ~(i > Len(b))
    BY <1>2, <1>6
  <2> QED
    BY <1>9, <2>1 DEF Falls
<1> DEFINE T == {k \in Nat : k < last => g[last - k] = l[last - k]}
<1>11. 0 \in T
  <2>1. last \in 1..last /\ last - 0 = last
    BY <1>2
  <2>2. g[last] = b[last] % 128 /\ l[last] = l[last] % 128
    BY <1>2, <1>3, <1>7, <1>10, <2>1
  <2> QED
    BY <1>7, <2>1, <2>2
<1>12. ASSUME NEW k \in Nat, k \in T
       PROVE  k + 1 \in T
  <2> SUFFICES ASSUME k + 1 < last
               PROVE  g[last - (k + 1)] = l[last - (k + 1)]
    OBVIOUS
  <2> DEFINE i == last - (k + 1)
  <2>1. i \in 1..last /\ i < last /\ i + 1 = last - k /\ k < last
    BY <1>2
  <2>2. g[i + 1] = l[i + 1]
    BY <1>12, <2>1
  <2> HIDE DEF i
  <2>3. g[i] = l[i]
    BY <1>7, <1>10, <2>1, <2>2
  <2> QED
    BY <2>3 DEF i
<1>13. g[1] = l[1]
  <2>1. \A k \in Nat : k \in T => k + 1 \in T
    BY <1>12
  <2>2. T \subseteq Nat
    OBVIOUS
  <2> HIDE DEF T
  <2>3. last - 1 \in Nat /\ last - 1 < last /\ last - (last - 1) = 1
    BY <1>2
  <2>4. last - 1 \in T
    BY <1>11, <2>1, <2>2, <2>3, Upwards
  <2> QED
    BY <2>3, <2>4 DEF T
<1> QED
  BY <1>5, <1>9, <1>13 DEF b, l

LEMMA ZigzagRoundTrip ==
    ASSUME NEW v \in Int
    PROVE  ZigzagEncode(v) \in Nat /\ ZigzagDecode(ZigzagEncode(v)) = v
BY DEF ZigzagEncode, ZigzagDecode

LEMMA RegisterRoundTrip ==
    ASSUME NEW type, NEW other, NEW v \in Int, Fits(v)
    PROVE  /\ Decode(Register(type, v), type) = v
           /\ Decode(Register(type, v), other) = IF type = other THEN v ELSE 0
<1>1. VlqDecode(VlqEncode(ZigzagEncode(v))) = ZigzagEncode(v)
  BY ZigzagRoundTrip, VlqRoundTrip DEF Fits
<1> QED
  BY <1>1, ZigzagRoundTrip DEF Decode, Register

(* A page's plans are never more than what is in its boxes.                  *)
LEMMA ParsedArePublished ==
    ASSUME OnlyOperatorsPlans, NEW boxes \in Listings, NEW i \in DOMAIN Parsed(boxes)
    PROVE  Parsed(boxes)[i] \in {p \in Published : p.price > 0}
<1> DEFINE regs == boxes[i]
           read == ParsePlan(regs)
<1>1. /\ i \in DOMAIN boxes /\ IsPlanBox(regs) /\ Parsed(boxes)[i] = read
      /\ read.id > 0 /\ read.price > 0
  BY DEF Parsed, Restrict
<1>2. read.price = Decode(regs.R5, "Long") /\ read.id = Decode(regs.R6, "Int")
  BY DEF ParsePlan
<1> HIDE DEF regs, read
<1>3. regs.R5.type = "Long" /\ regs.R6.type = "Int"
  BY <1>1, <1>2 DEF Decode
<1>4. PICK p \in Published :
          \/ regs = PlanBox(regs.R4.bytes, p)
          \/ /\ p.interval = LegacyBlocks
             /\ regs = Restrict(PlanBox(regs.R4.bytes, p), {"R4", "R5", "R6"})
  BY <1>1, <1>3 DEF OnlyOperatorsPlans, regs
<1>5. /\ p \in [id : Int, price : Int, interval : Nat \ {0}]
      /\ Fits(p.id) /\ Fits(p.price) /\ Fits(p.interval)
  BY DEF OnlyOperatorsPlans
<1>6. /\ regs.R5 = Register("Long", p.price) /\ regs.R6 = Register("Int", p.id)
      /\ "R7" \in DOMAIN regs => regs.R7 = Register("Int", p.interval)
      /\ "R7" \notin DOMAIN regs => p.interval = LegacyBlocks
  <2> DEFINE name == regs.R4.bytes
             written == PlanBox(name, p)
  <2>1. /\ written.R5 = Register("Long", p.price) /\ written.R6 = Register("Int", p.id)
        /\ written.R7 = Register("Int", p.interval)
        /\ DOMAIN written = {"R4", "R5", "R6", "R7"}
    BY DEF PlanBox
  <2> HIDE DEF written
  <2>2. CASE regs = written
    BY <2>1, <2>2
  <2>3. CASE p.interval = LegacyBlocks /\ regs = Restrict(written, {"R4", "R5", "R6"})
    <3>1. DOMAIN regs = {"R4", "R5", "R6"} /\ regs.R5 = written.R5 /\ regs.R6 = written.R6
      BY <2>3 DEF Restrict
    <3> QED
      BY <2>1, <2>3, <3>1
  <2> QED
    BY <1>4, <2>2, <2>3 DEF written
<1>7. read.id = p.id /\ read.price = p.price
  BY <1>2, <1>5, <1>6, RegisterRoundTrip
<1>8. read = [id |-> read.id, price |-> read.price, interval |-> p.interval]
  <2>1. (IF "R7" \in DOMAIN regs THEN Decode(regs.R7, "Int") ELSE LegacyBlocks) = p.interval
    BY <1>5, <1>6, RegisterRoundTrip
  <2>2. ~(p.interval <= 0)
    BY <1>5
  <2> QED
    BY <1>2, <2>1, <2>2 DEF ParsePlan, read
<1>9. read = p
  BY <1>5, <1>7, <1>8
<1> QED
  BY <1>1, <1>7, <1>9

LEMMA OffersStep ==
    ASSUME OnlyOperatorsPlans
    PROVE  OffersAsPublished /\ [PageNext]_allVars => OffersAsPublished'
<1> SUFFICES ASSUME OffersAsPublished, [PageNext]_allVars
             PROVE  OffersAsPublished'
  OBVIOUS
<1>1. ASSUME UNCHANGED plans
      PROVE  OffersAsPublished'
  BY <1>1 DEF OffersAsPublished
<1>2. ASSUME NEW boxes \in Listings, LoadPlans(boxes)
      PROVE  OffersAsPublished'
  <2>1. plans' = IF boxes = <<>> THEN plans ELSE Parsed(boxes)
    BY <1>2 DEF LoadPlans
  <2> QED
    BY <2>1, ParsedArePublished DEF OffersAsPublished
<1>3. CASE MineBox
  BY <1>3 DEF MineBox, OffersAsPublished
<1>4. CASE \/ ConnectStep \/ \E w \in Wallets : Connected(w)
           \/ Choose \/ Commanding \/ EngineStep \/ UNCHANGED allVars
  BY <1>1, <1>4 DEF ConnectStep, Connected, Choose, Commanding, Stamp, GiveUp, Post, Execute, Send,
                    Unchanged, planVars, EngineStep, pageVars, allVars
<1>5. CASE Purchase /\ ~MineBox
  BY <1>1, <1>5 DEF Purchase, Click, ReadHeight, ReadCoins, BuildBox, SignBox, SubmitBox, Abandon,
                    Deal
<1> QED
  BY <1>2, <1>3, <1>4, <1>5 DEF PageNext, Purchase

(* bw plan create 117-127 and parsePlanBox: a plan on offer is, to the last  *)
(* unit of its price and block of its interval, one the operator created,    *)
(* for numbers of any size a register takes, and no box of another kind at   *)
(* the server's address turns up as a plan.                                  *)
THEOREM OffersAreThePublished ==
    ASSUME OnlyOperatorsPlans
    PROVE  PageSpec => []OffersAsPublished
<1>1. PageInit => OffersAsPublished
  BY DEF PageInit, OffersAsPublished
<1> QED
  BY <1>1, OffersStep, PTL DEF PageSpec

-----------------------------------------------------------------------------
(* A purchase on the page, up to the VM's term.                              *)

(* plans.find returns one of the plans, the one whose box came first.        *)
LEMMA Found ==
    ASSUME NEW ps, DOMAIN ps \subseteq Nat, NEW id, Find(ps, id) # None
    PROVE  \E i \in DOMAIN ps : Find(ps, id) = ps[i]
<1>1. Places(ps, id) # {} /\ Places(ps, id) \subseteq DOMAIN ps
  BY DEF Find, Places
<1>2. Min(Places(ps, id)) \in Places(ps, id)
  BY <1>1, FirstPlace
<1> QED
  BY <1>1, <1>2 DEF Find

(* The plans of the operator are sold in whole days.                         *)
PlansInWholeDays ==
    \A boxes \in Listings : \A i \in DOMAIN Parsed(boxes) : Whole(Parsed(boxes)[i].interval)

Offered ==
    /\ DOMAIN plans \subseteq Nat
    /\ \A i \in DOMAIN plans : Whole(plans[i].interval)
    /\ form.days \in Nat

Sold ==
    /\ deal.stage # "none" => Whole(deal.plan.interval) /\ deal.days \in Nat
    /\ deal.at \in Nat

(* Fields says that these are records with their fields.                     *)
Terms == Fields /\ IInv /\ Offered /\ Sold

LEMMA InitTerms == PageInit => Terms
<1> SUFFICES ASSUME PageInit
             PROVE  Terms
  OBVIOUS
<1>1. Fields /\ Init
  BY InitPriced DEF Priced, PageInit
<1>2. plans = <<>> /\ form = [plan |-> 0, days |-> DefaultDays] /\ deal = NoDeal
  BY DEF PageInit
<1>3. Offered
  BY <1>2, PageConstants DEF Offered
<1>4. Sold
  BY <1>2 DEF Sold, NoDeal
<1> QED
  BY <1>1, <1>3, <1>4, InitIInv DEF Terms

LEMMA IdleEngine ==
    ASSUME IInv, UNCHANGED expiryVars
    PROVE  IInv'
BY DEF expiryVars, vars, IInv, Types, Growth, Close, Served, Whole, Height

LEMMA PurchaseKeepsTerms ==
    ASSUME Terms, Fields', Purchase
    PROVE  Terms'
<1> USE DEF Terms
<1>1. CASE Click
  <2>1. /\ Find(plans, form.plan) # None
        /\ deal' = [NoDeal EXCEPT !.stage = "clicked", !.plan = Find(plans, form.plan),
                                  !.days = form.days, !.shown = screen.cost]
        /\ UNCHANGED <<plans, form, expiryVars>>
    BY <1>1 DEF Click, Deal
  <2>2. Whole(Find(plans, form.plan).interval)
    BY <2>1, Found DEF Offered
  <2>3. deal'.plan = Find(plans, form.plan) /\ deal'.days = form.days /\ deal'.at = 0
    BY <2>1 DEF NoDeal
  <2> QED
    BY <2>1, <2>2, <2>3, IdleEngine DEF Offered, Sold
<1>2. CASE ReadHeight
  <2>1. /\ deal.stage = "clicked" /\ deal' = [deal EXCEPT !.stage = "height", !.at = height]
        /\ UNCHANGED <<plans, form, expiryVars>>
    BY <1>2 DEF ReadHeight, At, Deal
  <2>2. height \in Nat
    BY DEF IInv, Types
  <2>3. deal'.plan = deal.plan /\ deal'.days = deal.days /\ deal'.at = height
    BY <2>1 DEF Fields
  <2> QED
    BY <2>1, <2>2, <2>3, IdleEngine DEF Offered, Sold
<1>3. CASE ReadCoins \/ BuildBox \/ SignBox \/ SubmitBox
  <2>1. /\ deal.stage # "none" /\ UNCHANGED <<plans, form, expiryVars>>
    BY <1>3 DEF ReadCoins, BuildBox, SignBox, SubmitBox, At, Deal
  <2>2. UNCHANGED <<deal.plan, deal.days, deal.at>>
    <3>1. CASE ReadCoins
      BY <3>1 DEF ReadCoins, Deal, Fields
    <3>2. CASE BuildBox
      BY <3>2 DEF BuildBox, Deal, Fields
    <3>3. CASE SignBox
      BY <3>3 DEF SignBox, Deal, Fields
    <3>4. CASE SubmitBox
      BY <3>4 DEF SubmitBox, Deal, Fields
    <3> QED
      BY <1>3, <3>1, <3>2, <3>3, <3>4
  <2> QED
    BY <2>1, <2>2, IdleEngine DEF Offered, Sold
<1>4. CASE Abandon
  <2>1. deal' = NoDeal /\ UNCHANGED <<plans, form, expiryVars>>
    BY <1>4 DEF Abandon, Deal
  <2>2. deal'.stage = "none" /\ deal'.at = 0
    BY <2>1 DEF NoDeal
  <2> QED
    BY <2>1, <2>2, IdleEngine DEF Offered, Sold
<1>5. CASE MineBox
  <2>1. /\ deal.stage # "none" /\ deal' = [deal EXCEPT !.stage = "mined"]
        /\ Buy(deal.days * deal.plan.interval, deal.at)
        /\ plans' = <<>> /\ form' = [plan |-> 0, days |-> DefaultDays]
    BY <1>5 DEF MineBox
  <2>2. deal'.plan = deal.plan /\ deal'.days = deal.days /\ deal'.at = deal.at
    BY <2>1 DEF Fields
  <2>3. Sold'
    BY <2>1, <2>2 DEF Sold
  <2>4. Offered'
    BY <2>1, PageConstants DEF Offered
  <2>5. Whole(deal.days * deal.plan.interval) /\ deal.days * deal.plan.interval \in Nat
    BY <2>1, WholeProduct DEF Sold
  <2>6. IInv'
    BY <2>1, <2>5, BuyKeeps DEF Sold
  <2> QED
    BY <2>3, <2>4, <2>6
<1> QED
  BY <1>1, <1>2, <1>3, <1>4, <1>5 DEF Purchase

LEMMA EngineKeepsTerms ==
    ASSUME Whole(Interval), Terms, EngineStep
    PROVE  IInv'
<1> USE DEF Terms
<1>1. CASE Elapse
  BY <1>1 DEF Elapse, Tick, IInv, Types, Growth, Close, Served, Whole, Height
<1>2. CASE Scan
  BY <1>2, ScanKeeps
<1>3. CASE Create
  BY <1>3, CreateKeeps
<1>4. CASE ExtendVm
  BY <1>4, ExtendKeeps
<1>5. CASE Extend
  <2>1. PICK days \in 1..MaxDays : Buy(days * Interval, height)
    BY <1>5 DEF Extend
  <2>2. days \in Nat /\ height \in Nat
    BY ExpiryConstants DEF IInv, Types
  <2> QED
    BY <2>1, <2>2, WholeProduct, BuyKeeps
<1> QED
  BY <1>1, <1>2, <1>3, <1>4, <1>5 DEF EngineStep

LEMMA NextTerms ==
    ASSUME Whole(Interval), PlansInWholeDays
    PROVE  Terms /\ Fields' /\ [PageNext]_allVars => Terms'
<1> SUFFICES ASSUME Terms, Fields', [PageNext]_allVars
             PROVE  Terms'
  OBVIOUS
<1> USE DEF Terms
<1>1. ASSUME UNCHANGED <<expiryVars, plans, deal>>, form'.days \in Nat
      PROVE  Terms'
  BY <1>1, IdleEngine DEF Offered, Sold
<1>2. CASE ConnectStep
  BY <1>1, <1>2 DEF ConnectStep, planVars, Offered
<1>3. CASE \E w \in Wallets : Connected(w)
  BY <1>1, <1>3 DEF Connected, Offered
<1>4. ASSUME NEW boxes \in Listings, LoadPlans(boxes)
      PROVE  Terms'
  <2>1. /\ plans' = IF boxes = <<>> THEN plans ELSE Parsed(boxes)
        /\ form' = [form EXCEPT !.plan = FirstId(Parsed(boxes))]
        /\ UNCHANGED <<expiryVars, deal>>
    BY <1>4 DEF LoadPlans
  <2>2. form'.days = form.days
    BY <2>1 DEF Fields
  <2>3. DOMAIN Parsed(boxes) \subseteq Nat
    BY ParsedAreNamed, PageConstants
  <2>4. Offered'
    BY <2>1, <2>2, <2>3 DEF Offered, PlansInWholeDays
  <2> QED
    BY <2>1, <2>4, IdleEngine DEF Sold
<1>5. CASE Choose
  <2>1. PICK p \in {plans[i].id : i \in DOMAIN plans}, d \in 1..MaxDays :
            form' = [plan |-> p, days |-> d]
    BY <1>5 DEF Choose
  <2>2. form'.days \in Nat
    BY <2>1, ExpiryConstants
  <2> QED
    BY <1>1, <1>5, <2>2 DEF Choose
<1>6. CASE Purchase
  BY <1>6, PurchaseKeepsTerms
<1>7. CASE Commanding
  BY <1>1, <1>7 DEF Commanding, Stamp, GiveUp, Post, Execute, Send, Unchanged, planVars, Offered
<1>8. CASE EngineStep
  <2>1. UNCHANGED <<plans, form, deal>>
    BY <1>8 DEF EngineStep, pageVars, planVars
  <2> QED
    BY <1>8, <2>1, EngineKeepsTerms DEF Offered, Sold
<1>9. CASE UNCHANGED allVars
  BY <1>1, <1>9 DEF allVars, pageVars, planVars, Offered
<1> QED
  BY <1>2, <1>3, <1>4, <1>5, <1>6, <1>7, <1>8, <1>9 DEF PageNext

(* From the click to the VM: for plans sold in whole days, a VM bought on    *)
(* the page and extended afterwards expires less than a day before or after  *)
(* its box, whenever the height was read, the box mined and the event        *)
(* handled.                                                                  *)
THEOREM PageTermIsHonoured ==
    ASSUME Whole(Interval), PlansInWholeDays
    PROVE  PageSpec => []WithinADay
<1>1. Priced /\ [PageNext]_allVars => Fields'
  BY NextPriced DEF Priced
<1>2. Terms => WithinADay
  BY CloseIsWithinADay DEF Terms
<1> QED
  BY <1>1, <1>2, InitPriced, NextPriced, InitTerms, NextTerms, PTL DEF PageSpec
=============================================================================
