------------------------------ MODULE SignupPage ------------------------------
(***************************************************************************)
(* The sign-up page (scripts/signup-engine.js) and what comes of a visit to *)
(* it: connecting a wallet, the plans and their displayed cost, a purchase  *)
(* up to the VM's term (module Expiry), and admin commands up to their      *)
(* execution (module AdminCommands, here by what it promises).  The page is *)
(* one thread, but every await lets the other handlers run.                 *)
(*                                                                          *)
(* Abstractions.  A wallet is its address, its key and its coins.  A visit  *)
(* either buys or sends commands.  Password and encryption are data; the    *)
(* list of servers and the decryption of their details are left out.        *)
(***************************************************************************)
EXTENDS Expiry, FiniteSets, Sequences, SequencesExt

CONSTANTS
    Wallets, NoWallet,
    Listings,      \* what the node may answer: sequences of boxes' registers
    Published,     \* the plans the operator created
    DefaultDays,   \* the form's value at load
    MinBox,        \* SAFE_MIN_BOX_VALUE
    LegacyBlocks,  \* the interval of a plan box without R7
    Intents,       \* what the operator wants done, each once
    MaxPosts,      \* bound: command transactions
    MaxAgeBlocks,  \* max_command_age_blocks
    Retain         \* how long the nonce store remembers, in blocks

ASSUME PageConstants ==
    /\ {DefaultDays, MinBox, MaxPosts, MaxAgeBlocks, Retain} \subseteq Nat
    /\ LegacyBlocks \in Nat \ {0}
    /\ \A boxes \in Listings : DOMAIN boxes \subseteq Nat
    /\ NoWallet \notin Wallets

VARIABLES
    visit,      \* what this visit is for
    link,       \* connectWallet per wallet: off, asked, listing, done
    ctx,        \* ergoCtx
    address,    \* connectedErgoTree
    loading,    \* loadPlans calls waiting for an answer
    plans,
    form,       \* plan-select and days-input
    screen,     \* total-cost, and whether Subscribe is enabled
    deal,       \* the purchase and how far it is
    command,    \* the admin command being sent
    nonce,      \* _adminNonce
    posted,     \* command transactions on their way or on the chain
    crossed,    \* history: two connects were under way at a time
    settled,    \* history: the intents reported as sent, with their nonces
    log         \* history: the commands executed

walletVars == <<link, ctx, address, crossed>>
planVars == <<loading, plans, form, screen>>
commandVars == <<command, nonce, posted, settled, log>>
pageVars == <<visit, walletVars, planVars, deal, commandVars>>
expiryVars == vars
allVars == <<expiryVars, pageVars>>

None == [id |-> 0, price |-> 0, interval |-> 0]
NoDeal == [stage |-> "none", plan |-> None, days |-> 0, shown |-> 0,
           at |-> 0, payer |-> NoWallet, owner |-> NoWallet]
NoIntent == [stage |-> "idle", intent |-> 0, nonce |-> 0, stamp |-> 0]

-----------------------------------------------------------------------------
(* Registers: as bw plan create writes them, and as the page reads them.     *)
(* Fleet's serializer encodes; the page has a copy of it for its own box.    *)

VlqBytes == 10   \* of a 64-bit number, seven bits a byte

(* vlqEncode: what is left of n before each byte.                            *)
Left(n) ==
    LET left[i \in 1..VlqBytes] == IF i = 1 THEN n ELSE left[i - 1] \div 128
    IN  left

(* Seven bits a byte, least significant first; every byte but the last one   *)
(* has the continuation bit.                                                 *)
VlqEncode(n) ==
    LET last == Min({i \in 1..VlqBytes : Left(n)[i] < 128})
    IN  [i \in 1..last |-> (Left(n)[i] % 128) + (IF i < last THEN 128 ELSE 0)]

ZigzagEncode(v) == IF v >= 0 THEN 2 * v ELSE -2 * v - 1
Fits(v) == Left(ZigzagEncode(v))[VlqBytes] < 128

(* encodeInt, encodeLong: a number no longer than the type allows.           *)
Register(type, v) == [type |-> type, bytes |-> VlqEncode(ZigzagEncode(v))]

(* planCreateCommand's registers                                             *)
PlanBox(name, p) ==
    [R4 |-> [type |-> "Coll", bytes |-> name], R5 |-> Register("Long", p.price),
     R6 |-> Register("Int", p.id), R7 |-> Register("Int", p.interval)]

(* Seeded bug: the continuation bit stays in the value.                      *)
VlqDecode_KeepBit(bytes) ==
    LET from[i \in 1..Len(bytes) + 1] ==
            IF i > Len(bytes) THEN 0
            ELSE bytes[i] + (IF bytes[i] < 128 THEN 0 ELSE 128 * from[i + 1])
    IN  from[1]

(* vlqDecode: up to the first byte without the continuation bit.             *)
VlqDecode(bytes) ==
    LET from[i \in 1..Len(bytes) + 1] ==
            IF i > Len(bytes) THEN 0
            ELSE (bytes[i] % 128) + (IF bytes[i] < 128 THEN 0 ELSE 128 * from[i + 1])
    IN  from[1]

ZigzagDecode(n) == IF n % 2 = 0 THEN n \div 2 ELSE -((n + 1) \div 2)

(* sigmaDecodeInt, sigmaDecodeLong: a register of another type reads as 0.   *)
Decode(register, type) ==
    IF register.type # type THEN 0 ELSE ZigzagDecode(VlqDecode(register.bytes))

(* The name in R4 must be there, and a byte collection.                      *)
IsPlanBox(regs) == {"R4", "R5", "R6"} \subseteq DOMAIN regs /\ regs.R4.type = "Coll"

(* parsePlanBox                                                              *)
ParsePlan(regs) ==
    LET interval == IF "R7" \in DOMAIN regs THEN Decode(regs.R7, "Int") ELSE LegacyBlocks
    IN  [id       |-> Decode(regs.R6, "Int"),
         price    |-> Decode(regs.R5, "Long"),
         interval |-> IF interval <= 0 THEN LegacyBlocks ELSE interval]

(* The plans of an answer, each at the place of its box.                     *)
Parsed(boxes) ==
    LET ps == [i \in {j \in DOMAIN boxes : IsPlanBox(boxes[j])} |-> ParsePlan(boxes[i])]
    IN  Restrict(ps, {i \in DOMAIN ps : ps[i].id > 0 /\ ps[i].price > 0})

Empty(ps) == DOMAIN ps = {}
Places(ps, id) == {i \in DOMAIN ps : ps[i].id = id}
FirstId(ps) == IF Empty(ps) THEN 0 ELSE ps[Min(DOMAIN ps)].id

(* plans.find by planId                                                      *)
Find(ps, id) == IF Places(ps, id) = {} THEN None ELSE ps[Min(Places(ps, id))]

-----------------------------------------------------------------------------
(* updateCost                                                                *)
UpdateCost(ps, f, c) ==
    LET plan == Find(ps, f.plan)
        good == plan # None /\ f.days > 0
    IN  [cost |-> IF good THEN plan.price * f.days ELSE 0, armed |-> good /\ c # NoWallet]

(* A visit that sends commands is taken up where its wallet is connected.    *)
PageInit ==
    /\ Init
    /\ \/ /\ visit = "buy" /\ loading = 1
          /\ ctx = NoWallet /\ link = [w \in Wallets |-> "off"]
       \/ /\ visit = "command" /\ loading = 0
          /\ ctx \in Wallets
          /\ link = [w \in Wallets |-> IF w = ctx THEN "done" ELSE "off"]
    /\ address = ctx /\ crossed = FALSE
    /\ plans = <<>>
    /\ form = [plan |-> 0, days |-> DefaultDays]
    /\ screen = [cost |-> 0, armed |-> FALSE]
    /\ deal = NoDeal
    /\ command = NoIntent /\ nonce = 1 /\ posted = {} /\ settled = {} /\ log = {}

(* detectWallets' buttons, which a completed connection hides.               *)
Connect(w) ==
    /\ visit = "buy"
    /\ link[w] = "off" /\ \A v \in Wallets : link[v] # "done"
    /\ link' = [link EXCEPT ![w] = "asked"]
    /\ crossed' = (crossed \/ \E v \in Wallets : link[v] \in {"asked", "listing"})
    /\ UNCHANGED <<ctx, address>>

(* connect() granted: ergoCtx = window.ergo                                  *)
Granted(w) ==
    /\ link[w] = "asked"
    /\ link' = [link EXCEPT ![w] = "listing"]
    /\ ctx' = w
    /\ UNCHANGED <<address, crossed>>

Refused(w) ==
    /\ link[w] \in {"asked", "listing"}
    /\ link' = [link EXCEPT ![w] = "off"]
    /\ UNCHANGED <<ctx, address, crossed>>

ConnectStep ==
    /\ \E w \in Wallets : Connect(w) \/ Granted(w) \/ Refused(w)
    /\ UNCHANGED <<expiryVars, visit, planVars, deal, commandVars>>

(* The addresses arrive.  A wallet without used addresses is asked for an    *)
(* unused one, through the ergoCtx of that moment.                           *)
Connected(w) ==
    /\ link[w] = "listing"
    /\ link' = [link EXCEPT ![w] = "done"]
    /\ address' \in {w, ctx}
    /\ screen' = UpdateCost(plans, form, ctx)
    /\ loading' = IF Empty(plans) THEN loading + 1 ELSE loading
    /\ UNCHANGED <<expiryVars, visit, ctx, crossed, plans, form, deal, commandVars>>

-----------------------------------------------------------------------------
(* Seeded bug: the plans are replaced under the cost on display.             *)
LoadPlans_NoUpdate(boxes) ==
    /\ loading > 0
    /\ loading' = loading - 1
    /\ plans' = IF boxes = <<>> THEN plans ELSE Parsed(boxes)
    /\ form' = [form EXCEPT !.plan = FirstId(Parsed(boxes))]
    /\ UNCHANGED <<expiryVars, visit, walletVars, screen, deal, commandVars>>

(* loadPlans, once its answer is there; <<>> also stands for both queries    *)
(* failing, and leaves `plans` as they are.  The select is refilled.         *)
LoadPlans(boxes) ==
    LET parsed == Parsed(boxes)
    IN  /\ loading > 0
        /\ loading' = loading - 1
        /\ plans' = IF boxes = <<>> THEN plans ELSE parsed
        /\ form' = [form EXCEPT !.plan = FirstId(parsed)]
        /\ screen' = IF Empty(parsed) THEN screen ELSE UpdateCost(parsed, form', ctx)
        /\ UNCHANGED <<expiryVars, visit, walletVars, deal, commandVars>>

(* plan-select and days-input, which is enabled by a connection.             *)
Choose ==
    /\ \E p \in {plans[i].id : i \in DOMAIN plans}, d \in 1..MaxDays :
          /\ form.plan # 0
          /\ d = form.days \/ \E w \in Wallets : link[w] = "done"
          /\ form' = [plan |-> p, days |-> d]
    /\ screen' = UpdateCost(plans, form', ctx)
    /\ UNCHANGED <<expiryVars, visit, walletVars, loading, plans, deal, commandVars>>

-----------------------------------------------------------------------------
(* The purchase: plan and days are read at the click, the rest after awaits. *)

Deal(d) ==
    /\ deal' = d
    /\ UNCHANGED <<visit, walletVars, loading, plans, form, commandVars>>
At(stage) == visit = "buy" /\ deal.stage = stage

Click ==
    /\ At("none") /\ screen.armed
    /\ Find(plans, form.plan) # None /\ form.days > 0 /\ ctx # NoWallet
    /\ Deal([NoDeal EXCEPT !.stage = "clicked", !.plan = Find(plans, form.plan),
                           !.days = form.days, !.shown = screen.cost])
    /\ screen' = [screen EXCEPT !.armed = FALSE]
    /\ UNCHANGED expiryVars

(* get_current_height                                                        *)
ReadHeight ==
    /\ At("clicked")
    /\ Deal([deal EXCEPT !.stage = "height", !.at = height])
    /\ UNCHANGED <<screen, expiryVars>>

(* get_utxos, and with it get_change_address                                 *)
ReadCoins ==
    /\ At("height")
    /\ Deal([deal EXCEPT !.stage = "coins", !.payer = ctx])
    /\ UNCHANGED <<screen, expiryVars>>

Total == deal.plan.price * deal.days

(* The box and its registers; a total below the least box value throws.      *)
BuildBox ==
    /\ At("coins") /\ Total >= MinBox
    /\ Deal([deal EXCEPT !.stage = "signing", !.owner = address])
    /\ UNCHANGED <<screen, expiryVars>>

(* Seeded bug: the purchase keeps the ergoCtx its coins came from.           *)
SignBox_KeepContext ==
    /\ At("signing")
    /\ Deal([deal EXCEPT !.stage = "submitting"])
    /\ UNCHANGED <<screen, expiryVars>>

(* sign_tx asks the wallet of that moment, which signs for its own coins.    *)
SignBox ==
    /\ At("signing") /\ ctx = deal.payer
    /\ Deal([deal EXCEPT !.stage = "submitting"])
    /\ UNCHANGED <<screen, expiryVars>>

(* submit_tx; after a failure the transaction may be on its way all the same *)
SubmitBox ==
    /\ At("submitting")
    /\ \/ /\ Deal([deal EXCEPT !.stage = "sent"])
          /\ UNCHANGED screen
       \/ /\ Deal([deal EXCEPT !.stage = "doubtful"])
          /\ screen' = [screen EXCEPT !.armed = TRUE]
    /\ UNCHANGED expiryVars

(* Any call before that fails, or the user declines.                         *)
Abandon ==
    /\ visit = "buy" /\ deal.stage \in {"clicked", "height", "coins", "signing"}
    /\ Deal(NoDeal)
    /\ screen' = [screen EXCEPT !.armed = TRUE]
    /\ UNCHANGED expiryVars

(* The subscription's first purchase; later ones extend the box without the  *)
(* page.  Bound: the visit ends here.                                        *)
MineBox ==
    /\ visit = "buy" /\ deal.stage \in {"sent", "doubtful"}
    /\ deal' = [deal EXCEPT !.stage = "mined"]
    /\ Buy(deal.days * deal.plan.interval, deal.at)
    /\ visit' = "over"
    /\ link' = [w \in Wallets |-> "off"] /\ ctx' = NoWallet /\ address' = NoWallet
    /\ loading' = 0 /\ plans' = <<>>
    /\ form' = [plan |-> 0, days |-> DefaultDays]
    /\ screen' = [cost |-> 0, armed |-> FALSE]
    /\ UNCHANGED <<crossed, commandVars>>

Purchase ==
    \/ Click \/ ReadHeight \/ ReadCoins \/ BuildBox \/ SignBox \/ SubmitBox
    \/ Abandon \/ MineBox

-----------------------------------------------------------------------------
(* Admin commands: nonce and height are read before the wallet is asked.     *)

Unchanged == UNCHANGED <<expiryVars, visit, walletVars, planVars, deal>>

Send(i) ==
    /\ visit = "command" /\ command.stage = "idle"
    /\ ctx # NoWallet
    /\ \A s \in settled : s.intent # i
    /\ command' = [NoIntent EXCEPT !.stage = "reading", !.intent = i]
    /\ UNCHANGED <<nonce, posted, settled, log>> /\ Unchanged

Stamp ==
    /\ command.stage = "reading"
    /\ command' = [command EXCEPT !.stage = "signing", !.nonce = nonce, !.stamp = height]
    /\ UNCHANGED <<nonce, posted, settled, log>> /\ Unchanged

GiveUp ==
    /\ command.stage # "idle"
    /\ command' = NoIntent
    /\ UNCHANGED <<nonce, posted, settled, log>> /\ Unchanged

OnItsWay == posted \cup {[command EXCEPT !.stage = "posted"]}

(* Seeded bug: every attempt gets a nonce of its own.                        *)
Post_NewNonce ==
    /\ command.stage = "signing" /\ Cardinality(posted) < MaxPosts
    /\ command' = NoIntent /\ nonce' = nonce + 1
    /\ \/ /\ posted' = OnItsWay
          /\ settled' = settled \cup {[intent |-> command.intent, nonce |-> command.nonce]}
       \/ posted' = OnItsWay /\ UNCHANGED settled
    /\ UNCHANGED log /\ Unchanged

(* sign_tx and submit_tx.  The nonce is replaced when the command was        *)
(* reported as sent; a failure may hide that it is on its way.               *)
Post ==
    /\ command.stage = "signing" /\ Cardinality(posted) < MaxPosts
    /\ command' = NoIntent
    /\ posted' = OnItsWay
    /\ \/ /\ nonce' = nonce + 1
          /\ settled' = settled \cup {[intent |-> command.intent, nonce |-> command.nonce]}
       \/ UNCHANGED <<nonce, settled>>
    /\ UNCHANGED log /\ Unchanged

(* The engine, by what AdminCommands shows of it: a fresh command runs       *)
(* unless its nonce is remembered.                                           *)
Execute ==
    /\ \E p \in posted :
          /\ height - p.stamp <= MaxAgeBlocks
          /\ \A r \in log : r.nonce = p.nonce => height - r.at > Retain
          /\ log' = log \cup {[intent |-> p.intent, nonce |-> p.nonce, at |-> height]}
    /\ UNCHANGED <<command, nonce, posted, settled>> /\ Unchanged

Commanding == Stamp \/ GiveUp \/ Post \/ Execute \/ \E i \in Intents : Send(i)

-----------------------------------------------------------------------------
(* Bound: heights are counted from the one the purchase reads.               *)
Elapse == Tick /\ (visit = "buy" => deal.stage \notin {"none", "clicked"})

Extend == box # NoBox /\ \E days \in 1..MaxDays : Buy(days * Interval, height)

EngineStep ==
    /\ Elapse \/ Scan \/ Create \/ ExtendVm \/ Extend
    /\ UNCHANGED pageVars

PageNext ==
    \/ ConnectStep \/ \E w \in Wallets : Connected(w)
    \/ \E boxes \in Listings : LoadPlans(boxes)
    \/ Choose \/ Purchase \/ Commanding
    \/ EngineStep

PageSpec == PageInit /\ [][PageNext]_allVars

-----------------------------------------------------------------------------
(* Properties.                                                               *)

(* The plans on offer are plans the operator created and set a price for,    *)
(* price and interval unchanged, whatever other boxes the address holds.     *)
OffersAsPublished ==
    \A i \in DOMAIN plans : plans[i] \in {p \in Published : p.price > 0}

(* ... where a box with a plan's three registers is one that bw plan create  *)
(* wrote, or its version before R7.                                          *)
OnlyOperatorsPlans ==
    /\ \A p \in Published :
          /\ p \in [id : Int, price : Int, interval : Nat \ {0}]
          /\ Fits(p.id) /\ Fits(p.price) /\ Fits(p.interval)
    /\ \A boxes \in Listings : \A i \in DOMAIN boxes :
          LET regs == boxes[i]
          IN  IsPlanBox(regs) /\ regs.R5.type = "Long" /\ regs.R6.type = "Int" =>
              \E p \in Published :
                  LET written == PlanBox(regs.R4.bytes, p)
                  IN  \/ regs = written
                      \/ p.interval = LegacyBlocks /\ regs = Restrict(written, {"R4", "R5", "R6"})

(* What a purchase puts into its box is the cost the page displayed when the *)
(* user clicked, whatever was reloaded, chosen or connected in between.      *)
ChargedAsShown == deal.stage # "none" => Total = deal.shown

(* A subscription belongs to the wallet that paid for it, once the page has  *)
(* an address and unless two connections were under way at a time.           *)
NamesPayer ==
    ~crossed /\ deal.stage \in {"submitting", "sent", "doubtful", "mined"}
             /\ deal.owner # NoWallet
        => deal.owner = deal.payer

(* However often the submission of a command fails and is tried again, it    *)
(* runs once, unless another command was sent in between.                    *)
RunsOnce ==
    \A r, s \in log :
        /\ r.intent = s.intent /\ r # s /\ r.nonce <= s.nonce
        => \/ s.at - r.at > Retain \/ r.at - s.at > Retain
           \/ \E q \in settled : q.nonce = r.nonce /\ q.intent # r.intent
=============================================================================
