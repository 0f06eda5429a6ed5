-------------------------------- MODULE Wallet --------------------------------
(***************************************************************************)
(* The transactions the engine pays from its wallets: the credential mint   *)
(* (scripts/mint_nft.ts, nft/mint.ts), bw send, split, plan create and      *)
(* --cleanup, and the lookup of bw set encrypt.  Each command is a process  *)
(* of its own: it reads the unspent boxes of its wallet from the explorer,  *)
(* which lags behind the chain and knows nothing of the mempool, lets Fleet *)
(* choose inputs, has the relay sign, and submits (Submission).             *)
(*                                                                          *)
(* Abstractions.  One payment token.  Explorer lists come in any order: the *)
(* inputs are any set Fleet's accumulating selector can stop at.  The name  *)
(* and plan numbers come from the counter (module Counter).  The addresses  *)
(* commands pay to outside the engine's wallets are names.                  *)
(***************************************************************************)
EXTENDS Submission, FiniteSetsExt, SequencesExt

CONSTANTS
    Asks,           \* per task: the commands it may be, with wallet and arguments
    After,          \* per task: the one its process runs before it, or itself
    Genesis,        \* the boxes to begin with, by box id
    Decimals,       \* of ERG
    Fee, BoxMin,    \* miner fee, SAFE_MIN_BOX_VALUE
    Dust,           \* the least value the network takes for a box
    Percent,        \* what split ratios add up to
    NoBox

(* The commands check their arguments before they start: one recipient to a  *)
(* send, as many ratios as recipients to a split, amounts in digits.         *)
ASSUME WalletConstants ==
    /\ {Fee, BoxMin, Dust, Percent} \subseteq Nat \ {0} /\ Dust <= BoxMin
    /\ Decimals \in Nat
    /\ After \in [Tasks -> Tasks]
    /\ IsFiniteSet(Tasks) /\ IsFiniteSet(DOMAIN Genesis)
    /\ \A id \in DOMAIN Genesis : {Genesis[id].erg, Genesis[id].tok} \subseteq Nat
    /\ \A t \in Tasks : \A j \in Asks[t] :
          /\ j.cmd \in {"mint", "plan", "send", "split", "sweep", "set"} /\ j.token \in BOOLEAN
          /\ j.amount.whole \in Nat /\ j.amount.digits \in Seq(0..9)
          /\ Len(j.to) \in Nat \ {0} /\ DOMAIN j.to = 1..Len(j.to)
          /\ j.cmd = "send" => Len(j.to) = 1
          /\ j.cmd = "split" => /\ Len(j.ratios) = Len(j.to)
                                /\ \A i \in DOMAIN j.to : j.ratios[i] \in Nat

VARIABLES
    job,        \* the command each task runs
    indexed     \* the confirmed transactions the explorer shows

vars == <<submission, job, indexed>>

-----------------------------------------------------------------------------
(* Boxes and what the explorer lists.                                        *)

BoxOf(id) == IF id \in DOMAIN Genesis THEN Genesis[id] ELSE tx[id[1]].outs[id[2]]
Boxes(txs) == DOMAIN Genesis \cup
    UNION {{<<t, i>> : i \in DOMAIN tx[t].outs} : t \in txs}
SpentBy(txs) == UNION {tx[t].inputs : t \in txs}

(* getUnspentBoxes(address)                                                  *)
UnspentBoxes(wallet) ==
    {id \in Boxes(indexed) \ SpentBy(indexed) : BoxOf(id).to = wallet}

Erg(ids) == MapThenSumSet(LAMBDA id : BoxOf(id).erg, ids)
Tok(ids) == MapThenSumSet(LAMBDA id : BoxOf(id).tok, ids)

-----------------------------------------------------------------------------
(* Amounts.  The user writes a whole part and decimal digits.                *)

Shifted(whole, digits) ==
    LET up[n \in 0..Len(digits)] == IF n = 0 THEN whole ELSE 10 * up[n - 1] + digits[n]
    IN  up[Len(digits)]

(* parseAmountToBaseUnits: digits beyond the unit are cut off.               *)
ParseAmount(a, decimals) ==
    Shifted(a.whole, [i \in 1..decimals |-> IF i \in DOMAIN a.digits
                                            THEN a.digits[i] ELSE 0])

-----------------------------------------------------------------------------
(* What each command pays: a sequence of outputs, <<>> when it gives up.     *)

Output(to, erg, tok, what) == [to |-> to, erg |-> erg, tok |-> tok, what |-> what]
Pay(to, amount, token) == IF token THEN Output(to, BoxMin, amount, "coin")
                                   ELSE Output(to, amount, 0, "coin")

(* buildMintNftTx: the credential and its registers travel in a minimal box. *)
Minted(j) == <<Output(j.to[1], BoxMin, 0, "nft")>>

(* planCreateCommand: the plan box goes to the wallet that pays for it.      *)
Planned(j) == <<Output(j.from, BoxMin, 0, "plan")>>

(* executeSend: an amount of tokens is written in base units, and anything   *)
(* else throws.                                                              *)
Sent(j) ==
    LET amount == ParseAmount(j.amount, IF j.token THEN 0 ELSE Decimals)
    IN  IF j.token /\ j.amount.digits # <<>> THEN <<>>
        ELSE <<Pay(j.to[1], amount, j.token)>>

(* Seeded bug: the last recipient gets a rounded share as well.              *)
ShareOf_AllRounded(j, total, i) == (total * j.ratios[i]) \div Percent

(* splitCommand: the last recipient gets what the others left.               *)
ShareOf(j, total, i) ==
    LET rounded(k) == (total * j.ratios[k]) \div Percent
    IN  IF i < Len(j.ratios) THEN rounded(i)
        ELSE total - MapThenSumSet(rounded, 1..Len(j.ratios) - 1)

Split(j) ==
    LET total == ParseAmount(j.amount, IF j.token THEN 0 ELSE Decimals)
    IN  [i \in DOMAIN j.to |-> Pay(j.to[i], ShareOf(j, total, i), j.token)]

(* cleanupCommand: all boxes of the wallet, less the fee; skipped when the   *)
(* wallet is the target or holds no more than the fee.                       *)
Swept(j) ==
    LET total == Erg(UnspentBoxes(j.from))
    IN  IF j.from = j.to[1] \/ total <= Fee THEN <<>>
        ELSE <<Output(j.to[1], total - Fee, 0, "coin")>>

(* setEncryptCommand looks for a server box whose R4 is the token id; no     *)
(* command creates one, so it ends with "Reference box not found".           *)
Payments(j) ==
    CASE j.cmd = "mint"  -> Minted(j)
      [] j.cmd = "plan"  -> Planned(j)
      [] j.cmd = "send"  -> Sent(j)
      [] j.cmd = "split" -> Split(j)
      [] j.cmd = "sweep" -> Swept(j)
      [] j.cmd = "set"   -> <<>>

ChangeTo(j) == IF j.cmd = "sweep" THEN j.to[1] ELSE j.from

-----------------------------------------------------------------------------
(* Fleet's TransactionBuilder.  The selector takes boxes in list order until *)
(* outputs and fee are covered, and one box value more when tokens are left  *)
(* over; it throws when the list does not suffice.                           *)

SumErg(outs) == MapThenSumSet(LAMBDA i : outs[i].erg, DOMAIN outs)
SumTok(outs) == MapThenSumSet(LAMBDA i : outs[i].tok, DOMAIN outs)

Enough(ids, outs) ==
    /\ Tok(ids) >= SumTok(outs)
    /\ Erg(ids) >= SumErg(outs) + Fee + (IF Tok(ids) > SumTok(outs) THEN Dust ELSE 0)

(* <<inputs, the first of them>>: a credential's token id is the first box.  *)
Selections(listed, outs) ==
    {s \in (SUBSET listed) \X listed :
        /\ s[2] \in s[1] /\ Enough(s[1], outs)
        /\ \E last \in s[1] : /\ ~Enough(s[1] \ {last}, outs)
                              /\ last = s[2] => s[1] = {last}}

Change(ids, outs, j) ==
    LET erg == Erg(ids) - SumErg(outs) - Fee
        tok == Tok(ids) - SumTok(outs)
    IN  IF erg = 0 THEN <<>> ELSE <<Output(ChangeTo(j), erg, tok, "coin")>>

Built(j, s, outs) ==
    LET all == outs \o Change(s[1], outs, j)
    IN  [inputs |-> s[1], outs |-> all,
         token  |-> IF j.cmd = "mint" THEN s[2] ELSE NoBox,
         sound  |-> \A i \in DOMAIN all : all[i].erg >= Dust]

-----------------------------------------------------------------------------
(* The commands.                                                             *)

WalletInit ==
    /\ Init
    /\ job \in {f \in [Tasks -> UNION Range(Asks)] : \A t \in Tasks : f[t] \in Asks[t]}
    /\ indexed = {}

Startable(t) ==
    stage[t] = "idle" /\ (After[t] = t \/ stage[After[t]] \in Reported)

(* A box of nothing is refused by OutputBuilder, a share of no tokens too.   *)
Payable(j) ==
    LET outs == Payments(j)
    IN  outs # <<>> /\ \A i \in DOMAIN outs : outs[i].erg > 0 /\ (j.token => outs[i].tok > 0)

(* Height and boxes are read, and the transaction is built from them.        *)
Prepare(t) ==
    /\ Startable(t) /\ Payable(job[t])
    /\ \E s \in Selections(UnspentBoxes(job[t].from), Payments(job[t])) :
          tx' = [tx EXCEPT ![t] = Built(job[t], s, Payments(job[t]))]
    /\ stage' = [stage EXCEPT ![t] = "signing"]
    /\ UNCHANGED <<at, doubt, chain, job, indexed>>

(* The explorer fails, the command gives up, or the boxes do not suffice.    *)
GiveUp(t) ==
    /\ Startable(t)
    /\ stage' = [stage EXCEPT ![t] = "failed"]
    /\ UNCHANGED <<tx, at, doubt, chain, job, indexed>>

(* signTx: a failure ends the command.                                       *)
Sign(t) ==
    /\ stage[t] = "signing"
    /\ \/ /\ stage' = [stage EXCEPT ![t] = "submitting"]
          /\ UNCHANGED tx
       \/ /\ stage' = [stage EXCEPT ![t] = "failed"]
          /\ tx' = [tx EXCEPT ![t] = NoTx]
    /\ UNCHANGED <<at, doubt, chain, job, indexed>>

Index ==
    /\ indexed # confirmed
    /\ indexed' = confirmed
    /\ UNCHANGED <<submission, job>>

Command(t) == Prepare(t) \/ GiveUp(t) \/ Sign(t) \/ (Submit(t) /\ UNCHANGED <<job, indexed>>)

Next == Index \/ \E t \in Tasks : Command(t) \/ (Mine(t) /\ UNCHANGED <<job, indexed>>)

Spec == WalletInit /\ [][Next]_vars

(* A call that is not answered ends all the same: signing with the HTTP      *)
(* client's limit, an offer with the abort of submitTx.                      *)
FairSpec == Spec /\ \A t \in Tasks :
    WF_vars(Sign(t)) /\ WF_vars((NoAnswer(t) \/ Unreachable(t)) /\ UNCHANGED <<job, indexed>>)

-----------------------------------------------------------------------------
(* Properties.                                                               *)

(* Two credentials reported as minted have different token ids: no two VMs   *)
(* are recorded with the same one, unless an endpoint left one in doubt.     *)
OneVmPerToken ==
    \A t, u \in Tasks :
        /\ t # u /\ job[t].cmd = "mint" /\ job[u].cmd = "mint"
        /\ stage[t] \in {"sent", "relayed"} /\ stage[u] \in {"sent", "relayed"}
        /\ ~doubt[t] /\ ~doubt[u]
        => tx[t].token # tx[u].token

(* A transaction on the chain pays each recipient in turn, together what the *)
(* user wrote, cut to the unit and not a unit less; what is left goes back,  *)
(* and its wallet pays no more than that and the fee.                        *)
Scale(n) == Shifted(1, [i \in 1..n |-> 0])
Written(a, decimals, units) ==
    LET asked == Shifted(a.whole, a.digits) * Scale(decimals)
    IN  /\ units * Scale(Len(a.digits)) <= asked
        /\ asked < (units + 1) * Scale(Len(a.digits))

AsWritten(j, outs) ==
    LET paid == [i \in DOMAIN j.to |-> outs[i]]
    IN  /\ DOMAIN j.to \subseteq DOMAIN outs
        /\ \A i \in DOMAIN outs : outs[i].to = IF i \in DOMAIN j.to THEN j.to[i] ELSE j.from
        /\ Written(j.amount, IF j.token THEN 0 ELSE Decimals,
                   IF j.token THEN SumTok(paid) ELSE SumErg(paid))
        /\ j.token => \A i \in DOMAIN paid : paid[i].erg = BoxMin

PaysExactly ==
    \A t \in Ledger :
        /\ Erg(tx[t].inputs) = SumErg(tx[t].outs) + Fee
        /\ Tok(tx[t].inputs) = SumTok(tx[t].outs)
        /\ job[t].cmd \in {"send", "split"} => AsWritten(job[t], tx[t].outs)

(* Every command ends with a report, whatever endpoints do.                  *)
CommandsEnd ==
    \A t \in Tasks : stage[t] = "signing" ~> stage[t] \in Reported
=============================================================================
