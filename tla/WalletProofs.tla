----------------------------- MODULE WalletProofs -----------------------------
(***************************************************************************)
(* Theorems about Wallet: what a command reports of its transaction is true *)
(* as far as the endpoints answered, two credentials reported as minted     *)
(* never share a token id, and what a transaction pays is what its user     *)
(* wrote, for any finite set of tasks, commands and boxes.                  *)
(***************************************************************************)
EXTENDS Wallet, FiniteSetTheorems, WellFoundedInduction, TLAPS

(* What the argument needs of the types.                                     *)
Types ==
    /\ stage \in [Tasks -> Stages]
    /\ DOMAIN tx = Tasks
    /\ at \in [Tasks -> Nat]
    /\ doubt \in [Tasks -> BOOLEAN]
    /\ pool \in SUBSET Tasks
    /\ confirmed \in SUBSET Tasks

(* Silence alone leads past the first endpoint, which validates; and before  *)
(* its report a transaction is in the ledger only if someone kept silent.    *)
Answered ==
    \A t \in Tasks :
        /\ ~doubt[t] => at[t] = 1 /\ stage[t] # "relayed"
        /\ stage[t] = "sent" => t \in Ledger
        /\ t \in Ledger => \/ stage[t] \in {"sent", "relayed"}
                           \/ stage[t] \in {"submitting", "failed"} /\ doubt[t]

(* No box is spent by two transactions of the ledger, and a credential's     *)
(* token id is a box its transaction spends.                                 *)
SpentOnce == \A t, u \in Ledger : t # u => tx[t].inputs \cap tx[u].inputs = {}
TokenIsInput ==
    \A t \in Tasks :
        stage[t] \in {"signing", "submitting", "sent", "relayed"} /\ job[t].cmd = "mint"
            => tx[t].token \in tx[t].inputs

-----------------------------------------------------------------------------
LEMMA FirstValidates == Validates(Endpoints[1])
BY DEF Validates, Endpoints

LEMMA InitHolds == WalletInit => Types /\ Answered /\ SpentOnce /\ TokenIsInput
BY DEF WalletInit, Init, Types, Answered, SpentOnce, TokenIsInput, Ledger, Stages

-----------------------------------------------------------------------------
(* Types.                                                                    *)

LEMMA TypesStep == Types /\ [Next]_vars => Types'
<1> SUFFICES ASSUME Types, [Next]_vars PROVE Types'
  OBVIOUS
<1> USE DEF Types, Stages
<1>1. CASE Index
  BY <1>1 DEF Index, submission
<1>2. ASSUME NEW t \in Tasks, Prepare(t) PROVE Types'
  BY <1>2 DEF Prepare, chain
<1>3. ASSUME NEW t \in Tasks, GiveUp(t) PROVE Types'
  BY <1>3 DEF GiveUp, chain
<1>4. ASSUME NEW t \in Tasks, Sign(t) PROVE Types'
  BY <1>4 DEF Sign, chain
<1>5. ASSUME NEW t \in Tasks, Accepted(t) PROVE Types'
  BY <1>5 DEF Accepted, Report
<1>6. ASSUME NEW t \in Tasks, Rejected(t) PROVE Types'
  BY <1>6 DEF Rejected, Report, chain
<1>7. ASSUME NEW t \in Tasks, Relayed(t) PROVE Types'
  BY <1>7 DEF Relayed, Report
<1>8. ASSUME NEW t \in Tasks, NoAnswer(t) PROVE Types'
  BY <1>8 DEF NoAnswer
<1>9. ASSUME NEW t \in Tasks, Unreachable(t) PROVE Types'
  BY <1>9 DEF Unreachable, Report, chain
<1>10. ASSUME NEW t \in Tasks, Mine(t) PROVE Types'
  BY <1>10 DEF Mine
<1>11. CASE UNCHANGED vars
  BY <1>11 DEF vars, submission
<1> QED
  BY <1>1, <1>2, <1>3, <1>4, <1>5, <1>6, <1>7, <1>8, <1>9, <1>10, <1>11
  DEF Next, Command, Submit

-----------------------------------------------------------------------------
(* The reports.                                                              *)

LEMMA AnsweredStep == Types /\ Answered /\ [Next]_vars => Answered'
<1> SUFFICES ASSUME Types, Answered, [Next]_vars PROVE Answered'
  OBVIOUS
<1> USE DEF Types, Answered, Ledger
<1>1. CASE Index
  BY <1>1 DEF Index, submission
<1>2. ASSUME NEW t \in Tasks, Prepare(t) PROVE Answered'
  BY <1>2 DEF Prepare, Startable, chain
<1>3. ASSUME NEW t \in Tasks, GiveUp(t) PROVE Answered'
  BY <1>3 DEF GiveUp, Startable, chain
<1>4. ASSUME NEW t \in Tasks, Sign(t) PROVE Answered'
  BY <1>4 DEF Sign, chain
<1>5. ASSUME NEW t \in Tasks, Accepted(t) PROVE Answered'
  BY <1>5 DEF Accepted, Report, Offered
<1>6. ASSUME NEW t \in Tasks, Rejected(t) PROVE Answered'
  BY <1>6 DEF Rejected, Report, Offered, chain
<1>7. ASSUME NEW t \in Tasks, Relayed(t) PROVE Answered'
  <2>1. doubt[t]
    BY <1>7, FirstValidates DEF Relayed, Validates, Asked
  <2> QED
    BY <1>7, <2>1 DEF Relayed, Report, Offered
<1>8. ASSUME NEW t \in Tasks, NoAnswer(t) PROVE Answered'
  BY <1>8 DEF NoAnswer, Offered
<1>9. ASSUME NEW t \in Tasks, Unreachable(t) PROVE Answered'
  BY <1>9 DEF Unreachable, Report, chain
<1>10. ASSUME NEW t \in Tasks, Mine(t) PROVE Answered'
  BY <1>10 DEF Mine
<1>11. CASE UNCHANGED vars
  BY <1>11 DEF vars, submission
<1> QED
  BY <1>1, <1>2, <1>3, <1>4, <1>5, <1>6, <1>7, <1>8, <1>9, <1>10, <1>11
  DEF Next, Command, Submit

-----------------------------------------------------------------------------
(* The ledger.                                                               *)

(* A transaction does not change once it has been offered.                   *)
LEMMA TxFixed ==
    ASSUME Types, Answered, [Next]_vars
    PROVE  \A t \in Tasks : stage[t] \in {"submitting", "sent", "relayed"} \/ t \in Ledger
                                => tx'[t] = tx[t]
<1>1. CASE Index \/ UNCHANGED vars
  BY <1>1 DEF Index, submission, vars
<1>2. ASSUME NEW u \in Tasks, Prepare(u) \/ GiveUp(u) \/ Sign(u)
      PROVE  \A t \in Tasks : stage[t] \in {"submitting", "sent", "relayed"} \/ t \in Ledger
                                  => tx'[t] = tx[t]
  BY <1>2 DEF Prepare, GiveUp, Sign, Startable, Types, Answered
<1>3. ASSUME NEW u \in Tasks, Submit(u) \/ Mine(u) PROVE tx' = tx
  BY <1>3 DEF Submit, Accepted, Rejected, Relayed, NoAnswer, Unreachable, Mine
<1> QED
  BY <1>1, <1>2, <1>3 DEF Next, Command

(* The ledger grows by acceptable transactions only.                         *)
LEMMA LedgerGrowth ==
    ASSUME Types, [Next]_vars
    PROVE  \/ Ledger' = Ledger
           \/ \E t \in Tasks : /\ Ledger' = Ledger \cup {t}
                               /\ Offered(t) /\ Acceptable(t) /\ tx' = tx
<1>1. CASE Index \/ UNCHANGED vars
  BY <1>1 DEF Index, submission, vars, Ledger
<1>2. ASSUME NEW t \in Tasks, Prepare(t) \/ GiveUp(t) \/ Sign(t) PROVE Ledger' = Ledger
  BY <1>2 DEF Prepare, GiveUp, Sign, chain, Ledger
<1>3. ASSUME NEW t \in Tasks, Accepted(t) \/ Relayed(t) \/ NoAnswer(t)
      PROVE  \/ Ledger' = Ledger
             \/ Ledger' = Ledger \cup {t} /\ Offered(t) /\ Acceptable(t) /\ tx' = tx
  BY <1>3 DEF Accepted, Relayed, NoAnswer, Ledger
<1>4. ASSUME NEW t \in Tasks, Rejected(t) \/ Unreachable(t) PROVE Ledger' = Ledger
  BY <1>4 DEF Rejected, Unreachable, chain, Ledger
<1>5. ASSUME NEW t \in Tasks, Mine(t) PROVE Ledger' = Ledger
  BY <1>5 DEF Mine, Ledger, Types
<1> QED
  BY <1>1, <1>2, <1>3, <1>4, <1>5 DEF Next, Command, Submit

LEMMA SpentOnceStep == Types /\ Answered /\ SpentOnce /\ [Next]_vars => SpentOnce'
<1> SUFFICES ASSUME Types, Answered, SpentOnce, [Next]_vars PROVE SpentOnce'
  OBVIOUS
<1>1. CASE Ledger' = Ledger
  <2>1. \A t \in Ledger : tx'[t] = tx[t]
    BY TxFixed DEF Ledger, Types
  <2> QED
    BY <1>1, <2>1 DEF SpentOnce
<1>2. ASSUME NEW t \in Tasks, Ledger' = Ledger \cup {t}, Acceptable(t), tx' = tx
      PROVE  SpentOnce'
  <2>1. \A u \in Ledger : u # t => tx[u].inputs \cap tx[t].inputs = {}
    BY <1>2 DEF Acceptable, Conflicts
  <2> QED
    BY <1>2, <2>1 DEF SpentOnce
<1> QED
  BY <1>1, <1>2, LedgerGrowth

(* Fleet puts the first box of the list among the inputs it selects.         *)
LEMMA TokenStep == Types /\ TokenIsInput /\ [Next]_vars => TokenIsInput'
<1> SUFFICES ASSUME Types, TokenIsInput, [Next]_vars PROVE TokenIsInput'
  OBVIOUS
<1> USE DEF Types, TokenIsInput
<1>1. CASE Index \/ UNCHANGED vars
  BY <1>1 DEF Index, submission, vars
<1>2. ASSUME NEW t \in Tasks, Prepare(t) PROVE TokenIsInput'
  <2>1. PICK s \in Selections(UnspentBoxes(job[t].from), Payments(job[t])) :
              tx' = [tx EXCEPT ![t] = Built(job[t], s, Payments(job[t]))]
    BY <1>2 DEF Prepare
  <2>2. s[2] \in s[1]
    BY <2>1 DEF Selections
  <2>3. job[t].cmd = "mint" => tx'[t].token \in tx'[t].inputs
    BY <2>1, <2>2 DEF Built
  <2> QED
    BY <1>2, <2>1, <2>3 DEF Prepare
<1>3. ASSUME NEW t \in Tasks, GiveUp(t) PROVE TokenIsInput'
  BY <1>3 DEF GiveUp
<1>4. ASSUME NEW t \in Tasks, Sign(t) PROVE TokenIsInput'
  BY <1>4 DEF Sign
<1>5. ASSUME NEW t \in Tasks, Submit(t), UNCHANGED job PROVE TokenIsInput'
  BY <1>5 DEF Submit, Accepted, Rejected, Relayed, NoAnswer, Unreachable, Report, Offered
<1>6. ASSUME NEW t \in Tasks, Mine(t), UNCHANGED job PROVE TokenIsInput'
  BY <1>6 DEF Mine
<1> QED
  BY <1>1, <1>2, <1>3, <1>4, <1>5, <1>6 DEF Next, Command

-----------------------------------------------------------------------------
(* Sums over finite sets.                                                    *)

Total(v, S) == MapThenSumSet(LAMBDA x : v[x], S)
Pick(s) == CHOOSE x \in s : TRUE
Sums(v, S, f) ==
    f = [s \in SUBSET S |-> IF s = {} THEN 0 ELSE v[Pick(s)] + f[s \ {Pick(s)}]]

LEMMA LeastOf ==
    ASSUME NEW T, T \subseteq Nat, T # {}
    PROVE  \E n \in T : \A k \in T : n <= k
<1> DEFINE R == OpToRel(<, Nat)
<1>1. IsWellFoundedOn(R, Nat)
  BY NatLessThanWellFounded
<1>2. \A x, y \in Nat : <<x, y>> \in R <=> x < y
  BY DEF OpToRel
<1> HIDE DEF R
<1>3. PICK n \in T : \A k \in T : <<k, n>> \notin R
  BY <1>1, WFMin
<1>4. ASSUME NEW k \in T
      PROVE  n <= k
  <2>1. n \in Nat /\ k \in Nat /\ <<k, n>> \notin R
    BY <1>3
  <2>2. ~(k < n)
    BY <1>2, <2>1, Zenon
  <2> QED
    BY <2>1, <2>2
<1> QED
  BY <1>4

LEMMA TotalIsChosen == \A v, S : Total(v, S) = (CHOOSE f : Sums(v, S, f))[S]
BY DEF Total, MapThenSumSet, MapThenFoldSet, Sums, Pick

LEMMA PickIsIn == \A s : s # {} => Pick(s) \in s
BY DEF Pick

(* What is left of a finite set without one of its elements.                 *)
LEMMA OneLess ==
    ASSUME NEW S, IsFiniteSet(S), NEW x \in S
    PROVE  /\ IsFiniteSet(S \ {x}) /\ Cardinality(S) \in Nat /\ Cardinality(S) > 0
           /\ Cardinality(S \ {x}) \in Nat /\ Cardinality(S \ {x}) = Cardinality(S) - 1
<1>1. /\ IsFiniteSet(S \ {x}) /\ Cardinality(S) \in Nat
      /\ Cardinality(S \ {x}) = Cardinality(S) - 1
  BY FS_RemoveElement, FS_CardinalityType
<1>2. Cardinality(S \ {x}) \in Nat
  BY <1>1, FS_CardinalityType
<1> QED
  BY <1>1, <1>2

LEMMA OnlyTheEmpty ==
    ASSUME NEW S, IsFiniteSet(S), Cardinality(S) <= 0
    PROVE  S = {}
<1>1. ASSUME S # {}
      PROVE  FALSE
  <2>1. Pick(S) \in S
    BY <1>1, PickIsIn
  <2>2. Cardinality(S) > 0 /\ Cardinality(S) \in Nat
    BY <2>1, OneLess
  <2> QED
    BY <2>2
<1> QED
  BY <1>1

(* f is a sum as far as sets of n elements.                                  *)
SumsTo(v, S, n, f) ==
    /\ f = [s \in SUBSET S |-> f[s]]
    /\ \A s \in SUBSET S : Cardinality(s) <= n =>
           f[s] = IF s = {} THEN 0 ELSE v[Pick(s)] + f[s \ {Pick(s)}]

LEMMA LongerSums ==
    ASSUME NEW v, NEW S, IsFiniteSet(S), NEW n \in Nat, NEW g, SumsTo(v, S, n, g)
    PROVE  \E f : SumsTo(v, S, n + 1, f)
<1> DEFINE f == [s \in SUBSET S |-> IF Cardinality(s) <= n THEN g[s]
                                    ELSE v[Pick(s)] + g[s \ {Pick(s)}]]
<1>1. ASSUME NEW s \in SUBSET S, Cardinality(s) <= n + 1
      PROVE  f[s] = IF s = {} THEN 0 ELSE v[Pick(s)] + f[s \ {Pick(s)}]
  <2>1. IsFiniteSet(s)
    BY FS_Subset
  <2>2. CASE s = {}
    <3>1. Cardinality(s) <= n
      BY <2>2, FS_EmptySet
    <3> QED
      BY <2>2, <3>1 DEF SumsTo
  <2>3. CASE s # {}
    <3> DEFINE r == s \ {Pick(s)}
    <3>1. Cardinality(s) \in Nat /\ Cardinality(r) = Cardinality(s) - 1 /\ r \in SUBSET S
      BY <2>1, <2>3, PickIsIn, OneLess
    <3>2. Cardinality(r) <= n
      BY <1>1, <3>1
    <3>3. f[r] = g[r]
      BY <3>1, <3>2
    <3>4. CASE Cardinality(s) <= n
      BY <2>3, <3>3, <3>4 DEF SumsTo
    <3>5. CASE ~(Cardinality(s) <= n)
      BY <2>3, <3>3, <3>5
    <3> QED
      BY <3>4, <3>5
  <2> QED
    BY <2>2, <2>3
<1>2. f = [s \in SUBSET S |-> f[s]]
  OBVIOUS
<1> HIDE DEF f
<1> QED
  BY <1>1, <1>2 DEF SumsTo

LEMMA SumsExist ==
    ASSUME NEW v, NEW S, IsFiniteSet(S)
    PROVE  \E f : Sums(v, S, f)
<1> DEFINE T == {n \in Nat : \A f : ~SumsTo(v, S, n, f)}
<1>1. ASSUME T # {}
      PROVE  FALSE
  <2>1. PICK n \in T : \A k \in T : n <= k
    BY <1>1, LeastOf
  <2>2. CASE n = 0
    <3> DEFINE f == [s \in SUBSET S |-> 0]
    <3>1. \A s \in SUBSET S : Cardinality(s) <= 0 => s = {}
      BY FS_Subset, OnlyTheEmpty
    <3>2. SumsTo(v, S, 0, f)
      BY <3>1 DEF SumsTo
    <3> QED
      BY <2>1, <2>2, <3>2
  <2>3. CASE n # 0
    <3>1. n - 1 \in Nat /\ n - 1 \notin T /\ (n - 1) + 1 = n
      BY <2>1, <2>3
    <3>2. PICK g : SumsTo(v, S, n - 1, g)
      BY <3>1
    <3>3. \E f : SumsTo(v, S, (n - 1) + 1, f)
      BY <3>1, <3>2, LongerSums
    <3> QED
      BY <2>1, <3>1, <3>3
  <2> QED
    BY <2>2, <2>3
<1>2. Cardinality(S) \in Nat
  BY FS_CardinalityType
<1>3. PICK f : SumsTo(v, S, Cardinality(S), f)
  BY <1>1, <1>2
<1>4. \A s \in SUBSET S : Cardinality(s) <= Cardinality(S)
  BY FS_Subset
<1>5. \A s \in SUBSET S : f[s] = IF s = {} THEN 0 ELSE v[Pick(s)] + f[s \ {Pick(s)}]
  BY <1>3, <1>4 DEF SumsTo
<1>6. f = [s \in SUBSET S |-> IF s = {} THEN 0 ELSE v[Pick(s)] + f[s \ {Pick(s)}]]
  BY <1>3, <1>5 DEF SumsTo
<1> QED
  BY <1>6 DEF Sums

(* A sum over a set contains those over its subsets.                         *)
LEMMA SumsAgree ==
    ASSUME NEW v, NEW S, IsFiniteSet(S), NEW f, Sums(v, S, f),
           NEW R \in SUBSET S, NEW g, Sums(v, R, g)
    PROVE  \A s \in SUBSET R : f[s] = g[s]
<1> DEFINE Differ == {s \in SUBSET R : f[s] # g[s]}
           T == {n \in Nat : \E s \in Differ : Cardinality(s) = n}
<1>1. ASSUME NEW s \in Differ
      PROVE  /\ IsFiniteSet(s) /\ Cardinality(s) \in T
             /\ s # {} /\ s \ {Pick(s)} \in Differ
  <2>1. IsFiniteSet(s) /\ s \in SUBSET S
    BY FS_Subset
  <2>2. Cardinality(s) \in T
    BY <2>1, FS_CardinalityType
  <2>3. /\ f[s] = IF s = {} THEN 0 ELSE v[Pick(s)] + f[s \ {Pick(s)}]
        /\ g[s] = IF s = {} THEN 0 ELSE v[Pick(s)] + g[s \ {Pick(s)}]
    BY <2>1 DEF Sums
  <2> QED
    BY <2>1, <2>2, <2>3
<1>2. ASSUME T # {}
      PROVE  FALSE
  <2>1. PICK n \in T : \A k \in T : n <= k
    BY <1>2, LeastOf
  <2>2. PICK s \in Differ : Cardinality(s) = n
    BY <2>1
  <2> HIDE DEF T, Differ
  <2>3. IsFiniteSet(s) /\ Pick(s) \in s
    BY <1>1, PickIsIn
  <2>4. Cardinality(s \ {Pick(s)}) = n - 1 /\ n \in Nat
    BY <2>2, <2>3, OneLess
  <2>5. n - 1 \in T
    BY <1>1, <2>4
  <2> QED
    BY <2>1, <2>4, <2>5
<1> QED
  BY <1>1, <1>2

LEMMA TotalUnfolds ==
    ASSUME NEW v, NEW S, IsFiniteSet(S)
    PROVE  Total(v, S) = IF S = {} THEN 0 ELSE v[Pick(S)] + Total(v, S \ {Pick(S)})
<1>1. PICK f : f = (CHOOSE g : Sums(v, S, g)) /\ Sums(v, S, f)
  BY SumsExist
<1>2. Total(v, S) = f[S]
  BY <1>1, TotalIsChosen
<1>3. f[S] = IF S = {} THEN 0 ELSE v[Pick(S)] + f[S \ {Pick(S)}]
  BY <1>1 DEF Sums
<1> DEFINE R == S \ {Pick(S)}
<1>4. IsFiniteSet(R) /\ R \in SUBSET S
  BY FS_Subset
<1>5. PICK g : g = (CHOOSE h : Sums(v, R, h)) /\ Sums(v, R, g)
  BY <1>4, SumsExist
<1>6. Total(v, R) = g[R]
  BY <1>5, TotalIsChosen
<1>7. f[R] = g[R]
  BY <1>1, <1>4, <1>5, SumsAgree
<1> QED
  BY <1>2, <1>3, <1>6, <1>7

LEMMA TotalOfNone == \A v : Total(v, {}) = 0
BY TotalUnfolds, FS_EmptySet

(* Induction over the numbers, for a set of them.                            *)
LEMMA Upwards ==
    ASSUME NEW T, 0 \in T, \A n \in Nat : n \in T => n + 1 \in T
    PROVE  \A n \in Nat : n \in T
<1> DEFINE Rest == {n \in Nat : n \notin T}
<1>1. ASSUME Rest # {}
      PROVE  FALSE
  <2>1. PICK n \in Rest : \A k \in Rest : n <= k
    BY <1>1, LeastOf
  <2>2. n \in Nat /\ n # 0
    BY <2>1
  <2>3. n - 1 \in Nat /\ n - 1 \notin Rest /\ (n - 1) + 1 = n
    BY <2>1, <2>2
  <2> QED
    BY <2>1, <2>3
<1> QED
  BY <1>1

(* A sum does not depend on the order its terms are taken in.                *)
LEMMA TotalSplits ==
    ASSUME NEW v, NEW S, IsFiniteSet(S), \A x \in S : v[x] \in Int
    PROVE  /\ Total(v, S) \in Int
           /\ \A x \in S : Total(v, S) = v[x] + Total(v, S \ {x})
<1> DEFINE Good(s) == /\ Total(v, s) \in Int
                      /\ \A x \in s : Total(v, s) = v[x] + Total(v, s \ {x})
           T == {n \in Nat : \A s \in SUBSET S : Cardinality(s) <= n => Good(s)}
<1>1. Good({})
  BY TotalOfNone
<1>2. ASSUME NEW n \in T, NEW s \in SUBSET S, Cardinality(s) <= n + 1, s # {}
      PROVE  Good(s)
  <2> DEFINE p == Pick(s)
  <2>1. IsFiniteSet(s) /\ p \in s /\ n \in Nat
    BY <1>2, FS_Subset, PickIsIn
  <2>2. ASSUME NEW r \in SUBSET s, r # s
        PROVE  Good(r)
    <3>1. PICK x \in s : r \in SUBSET (s \ {x})
      BY <2>2
    <3>2. /\ IsFiniteSet(s \ {x}) /\ Cardinality(s \ {x}) = Cardinality(s) - 1
          /\ Cardinality(s) \in Nat
      BY <2>1, OneLess
    <3>3. Cardinality(r) <= Cardinality(s \ {x}) /\ Cardinality(r) \in Nat
      BY <3>1, <3>2, FS_Subset, FS_CardinalityType
    <3>4. Cardinality(r) <= n /\ r \in SUBSET S
      BY <1>2, <2>1, <3>2, <3>3
    <3> QED
      BY <3>4
  <2> HIDE DEF T
  <2>3. Total(v, s) = v[p] + Total(v, s \ {p})
    BY <1>2, <2>1, TotalUnfolds
  <2>4. Total(v, s \ {p}) \in Int
    BY <2>1, <2>2
  <2>5. ASSUME NEW x \in s, x # p
        PROVE  Total(v, s) = v[x] + Total(v, s \ {x})
    <3> DEFINE r == (s \ {p}) \ {x}
    <3>1. Total(v, s \ {p}) = v[x] + Total(v, r)
      BY <2>1, <2>2, <2>5
    <3>2. Total(v, s \ {x}) = v[p] + Total(v, r)
      <4>1. r = (s \ {x}) \ {p}
        OBVIOUS
      <4> QED
        BY <2>1, <2>2, <2>5, <4>1
    <3>3. Total(v, r) \in Int
      BY <2>1, <2>2
    <3> QED
      BY <2>1, <2>3, <3>1, <3>2, <3>3
  <2>6. Total(v, s) \in Int
    BY <2>1, <2>3, <2>4
  <2> QED
    BY <2>3, <2>5, <2>6
<1>3. \A n \in Nat : n \in T
  <2>1. 0 \in T
    <3>1. \A s \in SUBSET S : Cardinality(s) <= 0 => s = {}
      BY FS_Subset, OnlyTheEmpty
    <3> HIDE DEF Good
    <3> QED
      BY <1>1, <3>1
  <2>2. ASSUME NEW n \in Nat, n \in T
        PROVE  n + 1 \in T
    <3>1. ASSUME NEW s \in SUBSET S, Cardinality(s) <= n + 1
          PROVE  Good(s)
      BY <1>1, <1>2, <2>2, <3>1
    <3> HIDE DEF Good
    <3> QED
      BY <3>1
  <2> HIDE DEF T
  <2> QED
    BY <2>1, <2>2, Upwards
<1> QED
  BY <1>3, FS_CardinalityType

LEMMA LastTerm ==
    ASSUME NEW n \in Nat \ {0}, NEW v, \A i \in 1..n : v[i] \in Int
    PROVE  Total(v, 1..n) = v[n] + Total(v, 1..n - 1)
<1> DEFINE S == 1..n
<1>1. n \in S /\ S \ {n} = 1..n - 1
  OBVIOUS
<1>2. IsFiniteSet(S) /\ \A i \in S : v[i] \in Int
  BY FS_Interval
<1> HIDE DEF S
<1>3. Total(v, S) = v[n] + Total(v, S \ {n})
  BY <1>1, <1>2, TotalSplits
<1> QED
  BY <1>1, <1>3 DEF S

LEMMA SameTotals ==
    ASSUME NEW v, NEW w, NEW S, \A x \in S : v[x] = w[x]
    PROVE  Total(v, S) = Total(w, S)
<1>1. ASSUME NEW f
      PROVE  Sums(v, S, f) <=> Sums(w, S, f)
  <2>1. \A s \in SUBSET S : s # {} => v[Pick(s)] = w[Pick(s)]
    BY PickIsIn
  <2>2.   [s \in SUBSET S |-> IF s = {} THEN 0 ELSE v[Pick(s)] + f[s \ {Pick(s)}]]
        = [s \in SUBSET S |-> IF s = {} THEN 0 ELSE w[Pick(s)] + f[s \ {Pick(s)}]]
    BY <2>1
  <2> QED
    BY <2>2 DEF Sums
<1>2. (CHOOSE f : Sums(v, S, f)) = (CHOOSE f : Sums(w, S, f))
  BY <1>1
<1> QED
  BY <1>2, TotalIsChosen

-----------------------------------------------------------------------------
(* Decimal numbers: what their digits say, and what is lost by cutting them. *)

Ups(w, s, N, f) == f = [n \in 0..N |-> IF n = 0 THEN w ELSE 10 * f[n - 1] + s[n]]

LEMMA ShiftedIsChosen == \A w, s : Shifted(w, s) = (CHOOSE f : Ups(w, s, Len(s), f))[Len(s)]
BY DEF Shifted, Ups

LEMMA UpsExist ==
    ASSUME NEW w, NEW s, NEW N \in Nat
    PROVE  \E f : Ups(w, s, N, f)
<1> DEFINE T == {n \in Nat : \E f : Ups(w, s, n, f)}
<1>1. 0 \in T
  <2>1. Ups(w, s, 0, [n \in 0..0 |-> w])
    BY DEF Ups
  <2> QED
    BY <2>1
<1>2. ASSUME NEW n \in Nat, n \in T
      PROVE  n + 1 \in T
  <2>1. PICK g : Ups(w, s, n, g)
    BY <1>2
  <2> DEFINE f == [k \in 0..n + 1 |-> IF k = n + 1 THEN 10 * g[n] + s[n + 1] ELSE g[k]]
  <2>2. ASSUME NEW k \in 0..n + 1
        PROVE  f[k] = IF k = 0 THEN w ELSE 10 * f[k - 1] + s[k]
    <3>1. \A i \in 0..n : g[i] = IF i = 0 THEN w ELSE 10 * g[i - 1] + s[i]
      BY <2>1 DEF Ups
    <3>2. CASE k = n + 1
      BY <3>2
    <3>3. CASE k # n + 1
      <4>1. k \in 0..n
        BY <3>3
      <4> QED
        BY <3>1, <4>1
    <3> QED
      BY <3>2, <3>3
  <2>3. f = [k \in 0..n + 1 |-> f[k]]
    OBVIOUS
  <2> HIDE DEF f
  <2>4. Ups(w, s, n + 1, f)
    BY <2>2, <2>3 DEF Ups
  <2> QED
    BY <2>4
<1> HIDE DEF T
<1>3. N \in T
  BY <1>1, <1>2, Upwards
<1> QED
  BY <1>3 DEF T

SameUpTo(s, r, m) == \A i \in 1..m : s[i] = r[i]

LEMMA UpsAgree ==
    ASSUME NEW w, NEW s, NEW N \in Nat, NEW f, Ups(w, s, N, f),
           NEW r, NEW M \in Nat, NEW g, Ups(w, r, M, g),
           NEW m \in Nat, m <= N, m <= M, SameUpTo(s, r, m)
    PROVE  f[m] = g[m]
<1> DEFINE T == {n \in Nat : n <= m => f[n] = g[n]}
<1>1. \A n \in 0..N : f[n] = IF n = 0 THEN w ELSE 10 * f[n - 1] + s[n]
  BY DEF Ups
<1>2. \A n \in 0..M : g[n] = IF n = 0 THEN w ELSE 10 * g[n - 1] + r[n]
  BY DEF Ups
<1>3. 0 \in T
  BY <1>1, <1>2
<1>4. ASSUME NEW n \in Nat, n \in T, n + 1 <= m
      PROVE  f[n + 1] = g[n + 1]
  <2>1. n + 1 \in 0..N /\ n + 1 \in 0..M /\ n + 1 \in 1..m /\ (n + 1) - 1 = n
    BY <1>4
  <2>2. f[n + 1] = 10 * f[n] + s[n + 1] /\ g[n + 1] = 10 * g[n] + r[n + 1]
    BY <1>1, <1>2, <2>1
  <2>3. f[n] = g[n] /\ s[n + 1] = r[n + 1]
    BY <1>4, <2>1 DEF SameUpTo
  <2> QED
    BY <2>2, <2>3
<1>5. \A n \in Nat : n \in T => n + 1 \in T
  BY <1>4
<1> HIDE DEF T
<1>6. m \in T
  BY <1>3, <1>5, Upwards
<1> QED
  BY <1>6 DEF T

(* The first n of a sequence.                                                *)
First(s, n) == [i \in 1..n |-> s[i]]

LEMMA FirstIsSeq ==
    ASSUME NEW s, NEW n \in Nat
    PROVE  Len(First(s, n)) = n
BY DEF First

LEMMA ShiftedUnfolds ==
    ASSUME NEW w, NEW s, NEW n \in Nat
    PROVE  /\ Shifted(w, First(s, 0)) = w
           /\ Shifted(w, First(s, n + 1)) = 10 * Shifted(w, First(s, n)) + s[n + 1]
<1>1. ASSUME NEW k \in Nat
      PROVE  \E f : Ups(w, First(s, k), k, f) /\ Shifted(w, First(s, k)) = f[k]
  BY UpsExist, FirstIsSeq, ShiftedIsChosen
<1>2. PICK f : Ups(w, First(s, n + 1), n + 1, f) /\ Shifted(w, First(s, n + 1)) = f[n + 1]
  BY <1>1
<1>3. PICK g : Ups(w, First(s, n), n, g) /\ Shifted(w, First(s, n)) = g[n]
  BY <1>1
<1>4. PICK h : Ups(w, First(s, 0), 0, h) /\ Shifted(w, First(s, 0)) = h[0]
  BY <1>1
<1>5. h[0] = w
  BY <1>4 DEF Ups
<1>6. f[n + 1] = 10 * f[n] + First(s, n + 1)[n + 1]
  BY <1>2 DEF Ups
<1>7. First(s, n + 1)[n + 1] = s[n + 1]
  BY DEF First
<1>8. f[n] = g[n]
  <2> DEFINE r == First(s, n + 1)
             u == First(s, n)
             N == n + 1
  <2>1. \A i \in 1..n : First(s, n + 1)[i] = First(s, n)[i]
    BY DEF First
  <2>2. N \in Nat /\ n <= N /\ n <= n /\ Ups(w, r, N, f) /\ Ups(w, u, n, g)
    BY <1>2, <1>3
  <2>3. SameUpTo(r, u, n)
    BY <2>1 DEF SameUpTo
  <2> HIDE DEF N, r, u
  <2> QED
    BY <2>2, <2>3, UpsAgree
<1> QED
  BY <1>2, <1>3, <1>4, <1>5, <1>6, <1>7, <1>8

LEMMA ShiftedNat ==
    ASSUME NEW w \in Nat, NEW s, NEW n \in Nat, \A i \in 1..n : s[i] \in Nat
    PROVE  Shifted(w, First(s, n)) \in Nat
<1> DEFINE T == {k \in Nat : k <= n => Shifted(w, First(s, k)) \in Nat}
<1>1. 0 \in T
  BY ShiftedUnfolds
<1>2. ASSUME NEW k \in Nat, k \in T
      PROVE  k + 1 \in T
  <2>1. CASE k + 1 <= n
    <3>1. Shifted(w, First(s, k)) \in Nat /\ s[k + 1] \in Nat
      BY <1>2, <2>1
    <3>2. Shifted(w, First(s, k + 1)) = 10 * Shifted(w, First(s, k)) + s[k + 1]
      BY ShiftedUnfolds
    <3> QED
      BY <3>1, <3>2
  <2> QED
    BY <2>1
<1> HIDE DEF T
<1>3. n \in T
  BY <1>1, <1>2, Upwards
<1> QED
  BY <1>3 DEF T

LEMMA ScaleUnfolds ==
    ASSUME NEW n \in Nat
    PROVE  /\ Scale(0) = 1 /\ Scale(n + 1) = 10 * Scale(n)
           /\ Scale(n) \in Nat /\ Scale(n) > 0
<1> DEFINE z == [i \in Nat |-> 0]
<1>1. \A k \in Nat : Scale(k) = Shifted(1, First(z, k))
  <2>1. \A k \in Nat : First(z, k) = [i \in 1..k |-> 0]
    BY DEF First
  <2> QED
    BY <2>1 DEF Scale
<1>2. \A k \in Nat : z[k] = 0
  OBVIOUS
<1> HIDE DEF z
<1>3. \A k \in Nat : Scale(k) \in Nat
  <2>1. ASSUME NEW k \in Nat
        PROVE  Shifted(1, First(z, k)) \in Nat
    <3>1. \A i \in 1..k : z[i] \in Nat
      BY <1>2
    <3> QED
      BY <3>1, ShiftedNat
  <2> QED
    BY <1>1, <2>1
<1>4. Scale(0) = 1
  BY <1>1, ShiftedUnfolds
<1>5. \A k \in Nat : Scale(k + 1) = 10 * Scale(k)
  <2>1. ASSUME NEW k \in Nat
        PROVE  Scale(k + 1) = 10 * Scale(k)
    <3>1. Shifted(1, First(z, k + 1)) = 10 * Shifted(1, First(z, k)) + z[k + 1]
      BY ShiftedUnfolds
    <3>2. z[k + 1] = 0
      BY <1>2
    <3>3. Scale(k) \in Nat
      BY <1>3
    <3> QED
      BY <1>1, <3>1, <3>2, <3>3
  <2> QED
    BY <2>1
<1>6. Scale(n) > 0
  <2> DEFINE T == {k \in Nat : Scale(k) > 0}
  <2>1. 0 \in T
    BY <1>4
  <2>2. \A k \in Nat : k \in T => k + 1 \in T
    BY <1>3, <1>5
  <2> HIDE DEF T
  <2>3. n \in T
    BY <2>1, <2>2, Upwards
  <2> QED
    BY <2>3 DEF T
<1> QED
  BY <1>3, <1>4, <1>5, <1>6

LEMMA OneMore == \A a, b \in Nat : a * b \in Nat /\ (a + 1) * b = a * b + b
OBVIOUS

LEMMA OneDigitMore ==
    ASSUME NEW a \in Nat, NEW b \in Nat, NEW x \in Nat, NEW y \in Nat, NEW g \in 0..9,
           a * y <= b * x, (b + 1) * x <= (a + 1) * y
    PROVE  /\ a * (10 * y) <= (10 * b + g) * x
           /\ (10 * b + g + 1) * x <= (a + 1) * (10 * y)
<1> DEFINE ay == a * y
           bx == b * x
           gx == g * x
<1>1. ay \in Nat /\ bx \in Nat /\ gx \in Nat
  OBVIOUS
<1>2. a * (10 * y) = 10 * ay /\ (10 * b + g) * x = 10 * bx + gx
  OBVIOUS
<1>3. (b + 1) * x = bx + x /\ (a + 1) * y = ay + y
  OBVIOUS
<1>4. (10 * b + g + 1) * x = 10 * bx + gx + x /\ (a + 1) * (10 * y) = 10 * ay + 10 * y
  OBVIOUS
<1>5. gx <= 9 * x
  OBVIOUS
<1>6. ay <= bx /\ bx + x <= ay + y
  BY <1>3
<1> HIDE DEF ay, bx, gx
<1> QED
  BY <1>1, <1>2, <1>4, <1>5, <1>6

(* What m digits say of a number, and what more of them add.                 *)
LEMMA MoreDigits ==
    ASSUME NEW w \in Nat, NEW s, \A i \in Nat : s[i] \in 0..9, NEW m \in Nat, NEW n \in Nat
    PROVE  LET p == Shifted(w, First(s, m))
               q == Shifted(w, First(s, m + n))
           IN  /\ p \in Nat /\ q \in Nat
               /\ p * Scale(m + n) <= q * Scale(m)
               /\ (q + 1) * Scale(m) <= (p + 1) * Scale(m + n)
<1> DEFINE P(k) == Shifted(w, First(s, k))
           Good(k) == /\ P(m) * Scale(m + k) <= P(m + k) * Scale(m)
                      /\ (P(m + k) + 1) * Scale(m) <= (P(m) + 1) * Scale(m + k)
           T == {k \in Nat : Good(k)}
<1>1. ASSUME NEW k \in Nat
      PROVE  P(k) \in Nat
  <2>1. \A i \in 1..k : s[i] \in Nat
    OBVIOUS
  <2> QED
    BY <2>1, ShiftedNat
<1>2. \A k \in Nat : Scale(k) \in Nat /\ Scale(k + 1) = 10 * Scale(k)
  BY ScaleUnfolds
<1>3. \A k \in Nat : P(k + 1) = 10 * P(k) + s[k + 1]
  BY ShiftedUnfolds
<1> HIDE DEF P
<1>4. Good(0)
  <2>1. P(m) \in Nat /\ Scale(m) \in Nat /\ m + 0 = m
    BY <1>1, <1>2
  <2> QED
    BY <2>1
<1>5. ASSUME NEW k \in Nat, Good(k)
      PROVE  Good(k + 1)
  <2> DEFINE j == m + k
  <2>1. j \in Nat /\ m + (k + 1) = j + 1 /\ j + 1 \in Nat
    OBVIOUS
  <2>2. P(m) * Scale(j) <= P(j) * Scale(m) /\ (P(j) + 1) * Scale(m) <= (P(m) + 1) * Scale(j)
    BY <1>5
  <2> HIDE DEF j
  <2>3. P(m) \in Nat /\ P(j) \in Nat /\ Scale(m) \in Nat /\ Scale(j) \in Nat /\ s[j + 1] \in 0..9
    BY <1>1, <1>2, <2>1
  <2>4. /\ P(m) * (10 * Scale(j)) <= (10 * P(j) + s[j + 1]) * Scale(m)
        /\ (10 * P(j) + s[j + 1] + 1) * Scale(m) <= (P(m) + 1) * (10 * Scale(j))
    BY <2>2, <2>3, OneDigitMore
  <2> QED
    BY <1>2, <1>3, <2>1, <2>4
<1> HIDE DEF Good
<1>6. n \in T
  <2>1. 0 \in T
    BY <1>4
  <2>2. \A k \in Nat : k \in T => k + 1 \in T
    BY <1>5
  <2> HIDE DEF T
  <2> QED
    BY <2>1, <2>2, Upwards
<1>7. Good(n)
  BY <1>6
<1> QED
  BY <1>1, <1>7 DEF Good, P

(* Zeros do not change it.                                                   *)
ZerosBeyond(s, m) == \A i \in Nat : s[i] \in Nat /\ (i > m => s[i] = 0)

LEMMA OnlyZeros ==
    ASSUME NEW w \in Nat, NEW s, NEW m \in Nat, NEW n \in Nat, ZerosBeyond(s, m)
    PROVE  LET p == Shifted(w, First(s, m))
               q == Shifted(w, First(s, m + n))
           IN  /\ p \in Nat /\ q \in Nat
               /\ q * Scale(m) <= p * Scale(m + n) /\ p * Scale(m + n) <= q * Scale(m)
<1> DEFINE P(k) == Shifted(w, First(s, k))
           Good(k) == P(m + k) * Scale(m) = P(m) * Scale(m + k)
           T == {k \in Nat : Good(k)}
<1>1. ASSUME NEW k \in Nat
      PROVE  P(k) \in Nat
  <2>1. \A i \in 1..k : s[i] \in Nat
    BY DEF ZerosBeyond
  <2> QED
    BY <2>1, ShiftedNat
<1>2. \A k \in Nat : Scale(k) \in Nat /\ Scale(k + 1) = 10 * Scale(k)
  BY ScaleUnfolds
<1>3. \A k \in Nat : P(k + 1) = 10 * P(k) + s[k + 1]
  BY ShiftedUnfolds
<1> HIDE DEF P
<1>4. Good(0)
  <2>1. m + 0 = m
    OBVIOUS
  <2> QED
    BY <2>1
<1>5. ASSUME NEW k \in Nat, Good(k)
      PROVE  Good(k + 1)
  <2> DEFINE j == m + k
  <2>1. j \in Nat /\ m + (k + 1) = j + 1 /\ j + 1 \in Nat /\ s[j + 1] = 0
    BY DEF ZerosBeyond
  <2>2. P(j) * Scale(m) = P(m) * Scale(j)
    BY <1>5
  <2> HIDE DEF j
  <2>3. P(m) \in Nat /\ P(j) \in Nat /\ Scale(m) \in Nat /\ Scale(j) \in Nat
    BY <1>1, <1>2, <2>1
  <2>4. P(j + 1) = 10 * P(j) /\ Scale(j + 1) = 10 * Scale(j)
    BY <1>2, <1>3, <2>1, <2>3
  <2>5. (10 * P(j)) * Scale(m) = 10 * (P(j) * Scale(m))
    BY <2>3
  <2>6. P(m) * (10 * Scale(j)) = 10 * (P(m) * Scale(j))
    BY <2>3
  <2> QED
    BY <2>1, <2>2, <2>4, <2>5, <2>6
<1> HIDE DEF Good
<1>6. n \in T
  <2>1. 0 \in T
    BY <1>4
  <2>2. \A k \in Nat : k \in T => k + 1 \in T
    BY <1>5
  <2> HIDE DEF T
  <2> QED
    BY <2>1, <2>2, Upwards
<1>7. Good(n) /\ P(m) \in Nat /\ P(m + n) \in Nat /\ Scale(m) \in Nat /\ Scale(m + n) \in Nat
  BY <1>1, <1>2, <1>6, m + n \in Nat
<1>8. P(m + n) * Scale(m) \in Nat /\ P(m) * Scale(m + n) \in Nat
  BY <1>7
<1>9. /\ P(m + n) * Scale(m) <= P(m) * Scale(m + n)
      /\ P(m) * Scale(m + n) <= P(m + n) * Scale(m)
  BY <1>7, <1>8 DEF Good
<1> QED
  BY <1>7, <1>9 DEF P

LEMMA ParsedAsWritten ==
    ASSUME NEW a, a.whole \in Nat, a.digits \in Seq(0..9), NEW d \in Nat
    PROVE  ParseAmount(a, d) \in Nat /\ Written(a, d, ParseAmount(a, d))
<1> DEFINE s == [i \in Nat |-> IF i \in DOMAIN a.digits THEN a.digits[i] ELSE 0]
           P(k) == Shifted(a.whole, First(s, k))
<1>0. PICK l \in Nat : l = Len(a.digits)
  OBVIOUS
<1>1. DOMAIN a.digits = 1..l /\ a.digits = [i \in 1..l |-> a.digits[i]]
  BY <1>0
<1>2. \A i \in Nat : s[i] \in 0..9 /\ s[i] \in Nat /\ (i > l => s[i] = 0)
  BY <1>1
<1>3. First(s, l) = a.digits
  <2>1. \A i \in 1..l : s[i] = a.digits[i]
    BY <1>1
  <2>2. First(s, l) = [i \in 1..l |-> a.digits[i]]
    BY <2>1 DEF First
  <2> HIDE DEF s
  <2> QED
    BY <1>1, <2>2
<1>4. First(s, d) = [i \in 1..d |-> IF i \in DOMAIN a.digits THEN a.digits[i] ELSE 0]
  BY DEF First
<1>5. ParseAmount(a, d) = P(d) /\ Shifted(a.whole, a.digits) = P(l)
  BY <1>3, <1>4 DEF ParseAmount
<1> HIDE DEF s
<1>6. P(d) \in Nat /\ P(l) \in Nat
  <2>1. ASSUME NEW k \in Nat
        PROVE  P(k) \in Nat
    <3>1. \A i \in 1..k : s[i] \in Nat
      BY <1>2
    <3> QED
      BY <3>1, ShiftedNat
  <2> QED
    BY <1>1, <2>1
<1>7. Scale(d) \in Nat /\ Scale(l) \in Nat /\ Scale(d) > 0 /\ Scale(l) > 0
  BY <1>1, ScaleUnfolds
<1>8. P(d) * Scale(l) <= P(l) * Scale(d) /\ P(l) * Scale(d) < (P(d) + 1) * Scale(l)
  <2>1. CASE d <= l
    <3>1. l - d \in Nat /\ d + (l - d) = l
      BY <1>1, <2>1
    <3>2. P(d) * Scale(l) <= P(l) * Scale(d) /\ (P(l) + 1) * Scale(d) <= (P(d) + 1) * Scale(l)
      BY <1>2, <3>1, MoreDigits
    <3>3. (P(l) + 1) * Scale(d) = P(l) * Scale(d) + Scale(d) /\ P(l) * Scale(d) \in Nat
      BY <1>6, <1>7, OneMore
    <3>4. (P(d) + 1) * Scale(l) = P(d) * Scale(l) + Scale(l) /\ P(d) * Scale(l) \in Nat
      BY <1>6, <1>7, OneMore
    <3> HIDE DEF P
    <3> QED
      BY <1>7, <3>2, <3>3, <3>4
  <2>2. CASE ~(d <= l)
    <3>1. PICK n \in Nat : l + n = d
      <4>1. d - l \in Nat /\ l + (d - l) = d
        BY <1>1, <2>2
      <4> QED
        BY <4>1
    <3>2. ZerosBeyond(s, l)
      BY <1>2 DEF ZerosBeyond
    <3>3. P(d) * Scale(l) <= P(l) * Scale(d) /\ P(l) * Scale(d) <= P(d) * Scale(l)
      BY <3>1, <3>2, OnlyZeros
    <3>4. (P(d) + 1) * Scale(l) = P(d) * Scale(l) + Scale(l) /\ P(d) * Scale(l) \in Nat
      BY <1>6, <1>7, OneMore
    <3> HIDE DEF P
    <3> QED
      BY <1>6, <1>7, <3>3, <3>4
  <2> QED
    BY <2>1, <2>2
<1> HIDE DEF P
<1> QED
  BY <1>0, <1>5, <1>6, <1>8 DEF Written

-----------------------------------------------------------------------------
(* What boxes and outputs add up to.                                         *)

LEMMA ErgIsTotal == \A ids : Erg(ids) = Total([id \in ids |-> BoxOf(id).erg], ids)
<1> SUFFICES ASSUME NEW ids PROVE Erg(ids) = Total([id \in ids |-> BoxOf(id).erg], ids)
  OBVIOUS
<1> DEFINE v == [id \in ids |-> BoxOf(id).erg]
           Ergs(f) == f = [s \in SUBSET ids |-> IF s = {} THEN 0
                               ELSE BoxOf(Pick(s)).erg + f[s \ {Pick(s)}]]
<1>1. Erg(ids) = (CHOOSE f : Ergs(f))[ids]
  BY DEF Erg, MapThenSumSet, MapThenFoldSet, Pick
<1>2. ASSUME NEW f PROVE Ergs(f) <=> Sums(v, ids, f)
  <2>1. \A s \in SUBSET ids : s # {} => v[Pick(s)] = BoxOf(Pick(s)).erg
    BY PickIsIn
  <2> QED
    BY <2>1 DEF Sums
<1> HIDE DEF v, Ergs
<1>3. (CHOOSE f : Ergs(f)) = (CHOOSE f : Sums(v, ids, f))
  BY <1>2
<1> QED
  BY <1>1, <1>3, TotalIsChosen DEF v

LEMMA TokIsTotal == \A ids : Tok(ids) = Total([id \in ids |-> BoxOf(id).tok], ids)
<1> SUFFICES ASSUME NEW ids PROVE Tok(ids) = Total([id \in ids |-> BoxOf(id).tok], ids)
  OBVIOUS
<1> DEFINE v == [id \in ids |-> BoxOf(id).tok]
           Toks(f) == f = [s \in SUBSET ids |-> IF s = {} THEN 0
                               ELSE BoxOf(Pick(s)).tok + f[s \ {Pick(s)}]]
<1>1. Tok(ids) = (CHOOSE f : Toks(f))[ids]
  BY DEF Tok, MapThenSumSet, MapThenFoldSet, Pick
<1>2. ASSUME NEW f PROVE Toks(f) <=> Sums(v, ids, f)
  <2>1. \A s \in SUBSET ids : s # {} => v[Pick(s)] = BoxOf(Pick(s)).tok
    BY PickIsIn
  <2> QED
    BY <2>1 DEF Sums
<1> HIDE DEF v, Toks
<1>3. (CHOOSE f : Toks(f)) = (CHOOSE f : Sums(v, ids, f))
  BY <1>2
<1> QED
  BY <1>1, <1>3, TotalIsChosen DEF v

LEMMA TotalPrimed ==
    /\ \A ids : Erg(ids)' = Total([id \in ids |-> BoxOf(id)'.erg], ids)
    /\ \A ids : Tok(ids)' = Total([id \in ids |-> BoxOf(id)'.tok], ids)
<1>1. (\A ids : Erg(ids) = Total([id \in ids |-> BoxOf(id).erg], ids))'
  BY ErgIsTotal, PTL
<1>2. (\A ids : Tok(ids) = Total([id \in ids |-> BoxOf(id).tok], ids))'
  BY TokIsTotal, PTL
<1> QED
  BY <1>1, <1>2

LEMMA SumsAreTotals ==
    \A outs : /\ SumErg(outs) = Total([i \in DOMAIN outs |-> outs[i].erg], DOMAIN outs)
              /\ SumTok(outs) = Total([i \in DOMAIN outs |-> outs[i].tok], DOMAIN outs)
<1> SUFFICES ASSUME NEW outs
             PROVE  /\ SumErg(outs) = Total([i \in DOMAIN outs |-> outs[i].erg], DOMAIN outs)
                    /\ SumTok(outs) = Total([i \in DOMAIN outs |-> outs[i].tok], DOMAIN outs)
  OBVIOUS
<1> DEFINE v == [i \in DOMAIN outs |-> outs[i].erg]
           w == [i \in DOMAIN outs |-> outs[i].tok]
           Ergs(f) == f = [s \in SUBSET DOMAIN outs |-> IF s = {} THEN 0
                               ELSE outs[Pick(s)].erg + f[s \ {Pick(s)}]]
           Toks(f) == f = [s \in SUBSET DOMAIN outs |-> IF s = {} THEN 0
                               ELSE outs[Pick(s)].tok + f[s \ {Pick(s)}]]
<1>1. SumErg(outs) = (CHOOSE f : Ergs(f))[DOMAIN outs]
  BY DEF SumErg, MapThenSumSet, MapThenFoldSet, Pick
<1>2. SumTok(outs) = (CHOOSE f : Toks(f))[DOMAIN outs]
  BY DEF SumTok, MapThenSumSet, MapThenFoldSet, Pick
<1>3. \A s \in SUBSET DOMAIN outs : s # {} => /\ v[Pick(s)] = outs[Pick(s)].erg
                                              /\ w[Pick(s)] = outs[Pick(s)].tok
  BY PickIsIn
<1>4. ASSUME NEW f PROVE Ergs(f) <=> Sums(v, DOMAIN outs, f)
  BY <1>3 DEF Sums
<1>5. ASSUME NEW f PROVE Toks(f) <=> Sums(w, DOMAIN outs, f)
  BY <1>3 DEF Sums
<1> HIDE DEF v, w, Ergs, Toks
<1>6. (CHOOSE f : Ergs(f)) = (CHOOSE f : Sums(v, DOMAIN outs, f))
  BY <1>4
<1>7. (CHOOSE f : Toks(f)) = (CHOOSE f : Sums(w, DOMAIN outs, f))
  BY <1>5
<1> QED
  BY <1>1, <1>2, <1>6, <1>7, TotalIsChosen DEF v, w

(* Outputs whose amounts are numbers.                                        *)
Numbered(outs) ==
    \E S : outs \in Seq(S) /\ \A o \in S : o.erg \in Int /\ o.tok \in Int

LEMMA SumsAreNumbers ==
    ASSUME NEW outs, Numbered(outs)
    PROVE  SumErg(outs) \in Int /\ SumTok(outs) \in Int
<1>0. PICK S : outs \in Seq(S) /\ \A x \in S : x.erg \in Int /\ x.tok \in Int
  BY DEF Numbered
<1>1. IsFiniteSet(DOMAIN outs)
  <2>1. DOMAIN outs = 1..Len(outs) /\ Len(outs) \in Int
    BY <1>0
  <2> QED
    BY <2>1, FS_Interval
<1> DEFINE v == [i \in DOMAIN outs |-> outs[i].erg]
           w == [i \in DOMAIN outs |-> outs[i].tok]
<1>2. \A i \in DOMAIN outs : v[i] \in Int /\ w[i] \in Int
  BY <1>0
<1> HIDE DEF v, w
<1>3. Total(v, DOMAIN outs) \in Int /\ Total(w, DOMAIN outs) \in Int
  BY <1>1, <1>2, TotalSplits
<1> QED
  BY <1>3, SumsAreTotals DEF v, w

(* The sums are taken output by output.                                      *)
LEMMA OneMoreOutput ==
    ASSUME NEW outs, Numbered(outs), NEW o, o.erg \in Int, o.tok \in Int
    PROVE  /\ Numbered(outs \o <<o>>)
           /\ SumErg(outs \o <<o>>) = SumErg(outs) + o.erg
           /\ SumTok(outs \o <<o>>) = SumTok(outs) + o.tok
<1> DEFINE all == outs \o <<o>>
           v == [i \in DOMAIN all |-> all[i].erg]
           w == [i \in DOMAIN all |-> all[i].tok]
<1>1. PICK S : outs \in Seq(S) /\ \A x \in S : x.erg \in Int /\ x.tok \in Int
  BY DEF Numbered
<1>2. PICK n \in Nat : n = Len(outs)
  BY <1>1
<1>3. all \in Seq(S \cup {o}) /\ DOMAIN all = 1..n + 1 /\ DOMAIN outs = 1..n
  BY <1>1, <1>2
<1>4. (\A i \in 1..n : all[i] = outs[i]) /\ all[n + 1] = o
  BY <1>1, <1>2
<1> HIDE DEF all
<1>5. Numbered(all)
  BY <1>1, <1>3 DEF Numbered
<1>6. \A i \in 1..n + 1 : v[i] \in Int /\ w[i] \in Int
  BY <1>1, <1>3
<1>9. v[n + 1] = o.erg /\ w[n + 1] = o.tok
  BY <1>3, <1>4
<1> DEFINE ve == [k \in DOMAIN outs |-> outs[k].erg]
           wt == [k \in DOMAIN outs |-> outs[k].tok]
<1>10. (\A i \in 1..n : v[i] = ve[i]) /\ (\A i \in 1..n : w[i] = wt[i])
  BY <1>3, <1>4
<1>11. SumErg(all) = Total(v, 1..n + 1) /\ SumTok(all) = Total(w, 1..n + 1)
  BY <1>3, SumsAreTotals
<1> HIDE DEF v, w
<1>12. /\ Total(v, 1..n + 1) = v[n + 1] + Total(v, 1..n)
       /\ Total(w, 1..n + 1) = w[n + 1] + Total(w, 1..n)
  <2>1. \A i \in 1..n + 1 : v[i] \in Int
    BY <1>6
  <2>2. \A i \in 1..n + 1 : w[i] \in Int
    BY <1>6
  <2>3. n + 1 \in Nat \ {0} /\ (n + 1) - 1 = n
    OBVIOUS
  <2>4. Total(v, 1..n + 1) = v[n + 1] + Total(v, 1..(n + 1) - 1)
    BY <2>1, <2>3, LastTerm
  <2>5. Total(w, 1..n + 1) = w[n + 1] + Total(w, 1..(n + 1) - 1)
    BY <2>2, <2>3, LastTerm
  <2> QED
    BY <2>3, <2>4, <2>5
<1>13. SumErg(outs) = Total(ve, 1..n) /\ SumTok(outs) = Total(wt, 1..n)
  BY <1>3, SumsAreTotals
<1> HIDE DEF ve, wt
<1>14. Total(v, 1..n) = Total(ve, 1..n) /\ Total(w, 1..n) = Total(wt, 1..n)
  BY <1>10, SameTotals
<1>15. SumErg(outs) \in Int /\ SumTok(outs) \in Int
  BY SumsAreNumbers
<1> QED
  BY <1>5, <1>9, <1>11, <1>12, <1>13, <1>14, <1>15 DEF all

LEMMA FunctionIsSeq == ASSUME NEW S, NEW n \in Nat, NEW f \in [1..n -> S] PROVE f \in Seq(S)
OBVIOUS

-----------------------------------------------------------------------------
(* What a command pays.                                                      *)

TotalOf(j) == ParseAmount(j.amount, IF j.token THEN 0 ELSE Decimals)
Rounded(j, total) == [i \in 1..Len(j.ratios) - 1 |-> (total * j.ratios[i]) \div Percent]

LEMMA ShareIs ==
    \A j, total, i : ShareOf(j, total, i) =
        IF i < Len(j.ratios) THEN (total * j.ratios[i]) \div Percent
        ELSE total - Total(Rounded(j, total), 1..Len(j.ratios) - 1)
<1> SUFFICES ASSUME NEW j, NEW total, NEW i
             PROVE  ShareOf(j, total, i) =
                        IF i < Len(j.ratios) THEN (total * j.ratios[i]) \div Percent
                        ELSE total - Total(Rounded(j, total), 1..Len(j.ratios) - 1)
  OBVIOUS
<1> DEFINE D == 1..Len(j.ratios) - 1
           v == Rounded(j, total)
           Parts(f) == f = [s \in SUBSET D |-> IF s = {} THEN 0
                                ELSE (total * j.ratios[Pick(s)]) \div Percent + f[s \ {Pick(s)}]]
<1>1. ShareOf(j, total, i) = IF i < Len(j.ratios) THEN (total * j.ratios[i]) \div Percent
                             ELSE total - (CHOOSE f : Parts(f))[D]
  BY DEF ShareOf, MapThenSumSet, MapThenFoldSet, Pick
<1>2. ASSUME NEW f PROVE Parts(f) <=> Sums(v, D, f)
  <2>1. \A s \in SUBSET D : s # {} =>
            v[Pick(s)] = (total * j.ratios[Pick(s)]) \div Percent
    BY PickIsIn DEF Rounded
  <2> HIDE DEF v, D
  <2> QED
    BY <2>1 DEF Sums
<1> HIDE DEF v, D, Parts
<1>3. (CHOOSE f : Parts(f)) = (CHOOSE f : Sums(v, D, f))
  BY <1>2
<1> QED
  BY <1>1, <1>3, TotalIsChosen DEF v, D

(* The shares are numbers, and they add up to what is split.                 *)
SharedOut(j, total, n) ==
    /\ \A i \in 1..n : ShareOf(j, total, i) \in Int
    /\ Total([i \in 1..n |-> ShareOf(j, total, i)], 1..n) = total

LEMMA SharesAddUp ==
    ASSUME NEW j, NEW n \in Nat \ {0}, Len(j.ratios) = n,
           \A i \in 1..n : j.ratios[i] \in Nat, NEW total \in Nat
    PROVE  SharedOut(j, total, n)
<1> DEFINE r == Rounded(j, total)
           v == [i \in 1..n |-> ShareOf(j, total, i)]
<1>1. \A i \in 1..n - 1 : r[i] \in Int /\ r[i] = (total * j.ratios[i]) \div Percent
  <2>1. \A i \in 1..n - 1 : r[i] = (total * j.ratios[i]) \div Percent
    BY DEF Rounded
  <2>2. \A i \in 1..n - 1 : total * j.ratios[i] \in Int
    OBVIOUS
  <2>3. Percent \in Nat \ {0}
    BY WalletConstants
  <2> HIDE DEF r
  <2> QED
    BY <2>1, <2>2, <2>3
<1>2. (\A i \in 1..n - 1 : v[i] = r[i]) /\ v[n] = total - Total(r, 1..n - 1)
  BY <1>1, ShareIs
<1> HIDE DEF r
<1>3. IsFiniteSet(1..n - 1) /\ IsFiniteSet(1..n)
  BY FS_Interval
<1>4. Total(r, 1..n - 1) \in Int
  BY <1>1, <1>3, TotalSplits
<1>5. \A i \in 1..n : v[i] \in Int
  <2>1. \A i \in 1..n : i \in 1..n - 1 \/ i = n
    OBVIOUS
  <2> HIDE DEF v
  <2> QED
    BY <1>1, <1>2, <1>4, <2>1
<1>6. \A i \in 1..n : v[i] = ShareOf(j, total, i)
  OBVIOUS
<1> HIDE DEF v
<1>7. Total(v, 1..n - 1) = Total(r, 1..n - 1)
  BY <1>2, SameTotals
<1>8. Total(v, 1..n) = v[n] + Total(v, 1..n - 1)
  BY <1>5, LastTerm
<1>9. Total(v, 1..n) = total
  BY <1>2, <1>4, <1>7, <1>8
<1> QED
  BY <1>5, <1>6, <1>9 DEF v, SharedOut

LEMMA OneOutput ==
    ASSUME NEW o, o.erg \in Int, o.tok \in Int
    PROVE  /\ Numbered(<<o>>) /\ SumErg(<<o>>) = o.erg /\ SumTok(<<o>>) = o.tok
<1> DEFINE none == <<>>
<1>1. none \in Seq({}) /\ DOMAIN none = {} /\ none \o <<o>> = <<o>>
  OBVIOUS
<1> HIDE DEF none
<1>2. Numbered(none)
  BY <1>1 DEF Numbered
<1>3. SumErg(none) = 0 /\ SumTok(none) = 0
  BY <1>1, SumsAreTotals, TotalOfNone
<1>4. /\ Numbered(none \o <<o>>)
      /\ SumErg(none \o <<o>>) = SumErg(none) + o.erg
      /\ SumTok(none \o <<o>>) = SumTok(none) + o.tok
  BY <1>2, OneMoreOutput
<1> QED
  BY <1>1, <1>3, <1>4

(* What send and split pay is what their user wrote.                         *)
LEMMA TotalAsWritten ==
    ASSUME NEW t \in Tasks, NEW j \in Asks[t]
    PROVE  /\ TotalOf(j) \in Nat
           /\ Written(j.amount, IF j.token THEN 0 ELSE Decimals, TotalOf(j))
<1>1. /\ j.amount.whole \in Nat /\ j.amount.digits \in Seq(0..9)
      /\ (IF j.token THEN 0 ELSE Decimals) \in Nat
  BY WalletConstants
<1> QED
  BY <1>1, ParsedAsWritten DEF TotalOf

LEMMA SendPays ==
    ASSUME NEW t \in Tasks, NEW j \in Asks[t], j.cmd = "send", Payable(j)
    PROVE  LET outs == Payments(j)
           IN  /\ Numbered(outs) /\ DOMAIN outs = DOMAIN j.to
               /\ \A i \in DOMAIN outs : outs[i].to = j.to[i]
               /\ (IF j.token THEN SumTok(outs) ELSE SumErg(outs)) = TotalOf(j)
               /\ j.token => \A i \in DOMAIN outs : outs[i].erg = BoxMin
<1> DEFINE o == Pay(j.to[1], TotalOf(j), j.token)
           outs == Payments(j)
<1>1. outs = <<o>>
  BY DEF Payments, Sent, Payable, TotalOf
<1>2. /\ o.to = j.to[1] /\ o.erg = (IF j.token THEN BoxMin ELSE TotalOf(j))
      /\ o.tok = (IF j.token THEN TotalOf(j) ELSE 0)
  BY WalletConstants DEF Pay, Output
<1>3. BoxMin \in Nat /\ TotalOf(j) \in Nat
  BY WalletConstants, TotalAsWritten
<1> HIDE DEF o
<1>4. o.erg \in Int /\ o.tok \in Int
  BY <1>2, <1>3
<1>7. Numbered(<<o>>) /\ SumErg(<<o>>) = o.erg /\ SumTok(<<o>>) = o.tok
  BY <1>4, OneOutput
<1>8. DOMAIN j.to = 1..1
  BY WalletConstants
<1> QED
  BY <1>1, <1>2, <1>7, <1>8

LEMMA SplitPays ==
    ASSUME NEW t \in Tasks, NEW j \in Asks[t], j.cmd = "split", Payable(j)
    PROVE  LET outs == Payments(j)
           IN  /\ Numbered(outs) /\ DOMAIN outs = DOMAIN j.to
               /\ \A i \in DOMAIN outs : outs[i].to = j.to[i]
               /\ (IF j.token THEN SumTok(outs) ELSE SumErg(outs)) = TotalOf(j)
               /\ j.token => \A i \in DOMAIN outs : outs[i].erg = BoxMin
<1> DEFINE outs == Payments(j)
<1>1. PICK n \in Nat \ {0} : n = Len(j.to) /\ n = Len(j.ratios) /\ DOMAIN j.to = 1..n
  BY WalletConstants
<1>2. \A i \in 1..n : j.ratios[i] \in Nat
  BY <1>1, WalletConstants
<1>3. PICK total \in Nat : total = TotalOf(j)
  BY TotalAsWritten
<1>4. outs = [i \in 1..n |-> Pay(j.to[i], ShareOf(j, total, i), j.token)]
  BY <1>1, <1>3 DEF Payments, Split, TotalOf
<1> HIDE DEF outs
<1>5. /\ \A i \in 1..n : ShareOf(j, total, i) \in Int
      /\ Total([i \in 1..n |-> ShareOf(j, total, i)], 1..n) = total
  <2>1. SharedOut(j, total, n)
    BY <1>1, <1>2, SharesAddUp
  <2> QED
    BY <2>1 DEF SharedOut
<1>6. \A i \in 1..n : /\ outs[i].to = j.to[i]
                      /\ outs[i].erg = IF j.token THEN BoxMin ELSE ShareOf(j, total, i)
                      /\ outs[i].tok = IF j.token THEN ShareOf(j, total, i) ELSE 0
  BY <1>4 DEF Pay, Output
<1>7. Numbered(outs) /\ DOMAIN outs = 1..n
  <2> DEFINE S == {outs[i] : i \in 1..n}
  <2>1. outs \in [1..n -> S] /\ DOMAIN outs = 1..n
    BY <1>4
  <2>2. \A o \in S : o.erg \in Int /\ o.tok \in Int
    <3>1. BoxMin \in Int
      BY WalletConstants
    <3> QED
      BY <1>5, <1>6, <3>1
  <2> HIDE DEF S
  <2>3. outs \in Seq(S)
    BY <1>1, <2>1, FunctionIsSeq
  <2> QED
    BY <2>1, <2>2, <2>3 DEF Numbered
<1>8. (IF j.token THEN SumTok(outs) ELSE SumErg(outs)) = total
  <2> DEFINE v == [i \in 1..n |-> ShareOf(j, total, i)]
             ve == [i \in 1..n |-> outs[i].erg]
             wt == [i \in 1..n |-> outs[i].tok]
  <2>1. SumErg(outs) = Total(ve, 1..n) /\ SumTok(outs) = Total(wt, 1..n)
    BY <1>7, SumsAreTotals
  <2>2. Total(v, 1..n) = total
    BY <1>5
  <2>3. CASE j.token
    <3>1. \A i \in 1..n : wt[i] = v[i]
      BY <1>6, <2>3
    <3> HIDE DEF v, ve, wt
    <3> QED
      BY <2>1, <2>2, <2>3, <3>1, SameTotals
  <2>4. CASE ~j.token
    <3>1. \A i \in 1..n : ve[i] = v[i]
      BY <1>6, <2>4
    <3> HIDE DEF v, ve, wt
    <3> QED
      BY <2>1, <2>2, <2>4, <3>1, SameTotals
  <2> QED
    BY <2>3, <2>4
<1> QED
  BY <1>1, <1>3, <1>6, <1>7, <1>8 DEF outs

LEMMA PaymentsAreNumbers ==
    ASSUME NEW t \in Tasks, NEW j \in Asks[t], Payable(j), Erg(UnspentBoxes(j.from)) \in Int
    PROVE  Numbered(Payments(j))
<1>1. CASE j.cmd = "mint"
  <2> DEFINE o == Output(j.to[1], BoxMin, 0, "nft")
  <2>1. o.erg \in Int /\ o.tok \in Int
    BY WalletConstants DEF Output
  <2>2. Payments(j) = <<o>>
    BY <1>1 DEF Payments, Minted
  <2> HIDE DEF o
  <2> QED
    BY <2>1, <2>2, OneOutput
<1>2. CASE j.cmd = "plan"
  <2> DEFINE o == Output(j.from, BoxMin, 0, "plan")
  <2>1. o.erg \in Int /\ o.tok \in Int
    BY WalletConstants DEF Output
  <2>2. Payments(j) = <<o>>
    BY <1>2 DEF Payments, Planned
  <2> HIDE DEF o
  <2> QED
    BY <2>1, <2>2, OneOutput
<1>3. CASE j.cmd = "sweep"
  <2> DEFINE o == Output(j.to[1], Erg(UnspentBoxes(j.from)) - Fee, 0, "coin")
  <2>1. o.erg \in Int /\ o.tok \in Int
    BY WalletConstants DEF Output
  <2>2. Payments(j) = <<o>>
    BY <1>3 DEF Payments, Swept, Payable
  <2> HIDE DEF o
  <2> QED
    BY <2>1, <2>2, OneOutput
<1>4. CASE j.cmd = "set"
  BY <1>4 DEF Payments, Payable
<1> QED
  BY <1>1, <1>2, <1>3, <1>4, SendPays, SplitPays, WalletConstants

-----------------------------------------------------------------------------
(* What Fleet builds.                                                        *)

(* all is outs and the change that balances them against the inputs.         *)
Completes(all, outs, ids, j) ==
    /\ Numbered(all)
    /\ Erg(ids) = SumErg(all) + Fee /\ Tok(ids) = SumTok(all)
    /\ DOMAIN outs \subseteq DOMAIN all
    /\ \A i \in DOMAIN outs : all[i] = outs[i]
    /\ \A i \in DOMAIN all \ DOMAIN outs : all[i].to = ChangeTo(j)

(* Tokens are never left over without ERG for a box that holds them.         *)
LEMMA ChangeBalances ==
    ASSUME NEW j, NEW outs, Numbered(outs), NEW ids, Enough(ids, outs),
           Erg(ids) \in Int, Tok(ids) \in Int
    PROVE  Completes(outs \o Change(ids, outs, j), outs, ids, j)
<1> DEFINE erg == Erg(ids) - SumErg(outs) - Fee
           tok == Tok(ids) - SumTok(outs)
           o == Output(ChangeTo(j), erg, tok, "coin")
<1>1. SumErg(outs) \in Int /\ SumTok(outs) \in Int /\ Fee \in Int /\ Dust \in Int /\ Dust > 0
  BY SumsAreNumbers, WalletConstants
<1>2. PICK S : outs \in Seq(S) /\ \A x \in S : x.erg \in Int /\ x.tok \in Int
  BY DEF Numbered
<1>3. CASE erg = 0
  <2>1. Change(ids, outs, j) = <<>>
    BY <1>3 DEF Change
  <2>2. tok = 0
    BY <1>1, <1>3 DEF Enough
  <2>3. outs \o <<>> = outs
    BY <1>2
  <2> QED
    BY <1>1, <1>3, <2>1, <2>2, <2>3 DEF Completes
<1>4. CASE erg # 0
  <2>1. Change(ids, outs, j) = <<o>>
    BY <1>4 DEF Change
  <2>2. o.erg = erg /\ o.tok = tok /\ o.to = ChangeTo(j) /\ erg \in Int /\ tok \in Int
    BY <1>1 DEF Output
  <2> HIDE DEF o
  <2>3. /\ Numbered(outs \o <<o>>)
        /\ SumErg(outs \o <<o>>) = SumErg(outs) + o.erg
        /\ SumTok(outs \o <<o>>) = SumTok(outs) + o.tok
    BY <2>2, OneMoreOutput
  <2>4. PICK n \in Nat : n = Len(outs) /\ DOMAIN outs = 1..n
    BY <1>2
  <2>5. /\ DOMAIN (outs \o <<o>>) = 1..n + 1
        /\ \A i \in 1..n : (outs \o <<o>>)[i] = outs[i]
        /\ (outs \o <<o>>)[n + 1] = o
    BY <1>2, <2>4
  <2>6. Erg(ids) = SumErg(outs \o <<o>>) + Fee /\ Tok(ids) = SumTok(outs \o <<o>>)
    BY <1>1, <2>2, <2>3
  <2> QED
    BY <2>1, <2>2, <2>3, <2>4, <2>5, <2>6 DEF Completes
<1> QED
  BY <1>3, <1>4

-----------------------------------------------------------------------------
(* The accounts of the transactions that may get to the chain.               *)

Drawn(t) == stage[t] \in {"signing", "submitting", "sent", "relayed"} \/ t \in Ledger

Balanced(t) ==
    /\ Erg(tx[t].inputs) = SumErg(tx[t].outs) + Fee
    /\ Tok(tx[t].inputs) = SumTok(tx[t].outs)

(* It spends boxes of the chain, which are finite in number.                 *)
Sourced(t) == IsFiniteSet(tx[t].inputs) /\ tx[t].inputs \subseteq Boxes(confirmed)

Accounts ==
    /\ \A t \in Tasks : job[t] \in Asks[t]
    /\ indexed \subseteq confirmed
    /\ \A t \in Tasks : Drawn(t) =>
          /\ Numbered(tx[t].outs) /\ Sourced(t) /\ Balanced(t)
          /\ job[t].cmd \in {"send", "split"} => AsWritten(job[t], tx[t].outs)

LEMMA InitAccounts == WalletInit => Accounts
BY DEF WalletInit, Init, Accounts, Drawn, Ledger

(* Boxes of the chain hold numbers, and there are finitely many.             *)
LEMMA BoxesHoldNumbers ==
    ASSUME Types, Accounts
    PROVE  \A id \in Boxes(confirmed) : BoxOf(id).erg \in Int /\ BoxOf(id).tok \in Int
<1> SUFFICES ASSUME NEW id \in Boxes(confirmed)
             PROVE  BoxOf(id).erg \in Int /\ BoxOf(id).tok \in Int
  OBVIOUS
<1>1. CASE id \in DOMAIN Genesis
  BY <1>1, WalletConstants DEF BoxOf
<1>2. CASE id \notin DOMAIN Genesis
  <2>1. PICK t \in confirmed : \E i \in DOMAIN tx[t].outs : id = <<t, i>>
    BY <1>2 DEF Boxes
  <2>2. t \in Tasks /\ Drawn(t)
    BY <2>1 DEF Types, Drawn, Ledger
  <2>3. PICK S : tx[t].outs \in Seq(S) /\ \A o \in S : o.erg \in Int /\ o.tok \in Int
    BY <2>2 DEF Accounts, Numbered
  <2>4. PICK i \in DOMAIN tx[t].outs : id = <<t, i>>
    BY <2>1
  <2>5. BoxOf(id) = tx[t].outs[i] /\ tx[t].outs[i] \in S
    BY <1>2, <2>3, <2>4 DEF BoxOf
  <2> QED
    BY <2>3, <2>5
<1> QED
  BY <1>1, <1>2

LEMMA FiniteImage ==
    ASSUME NEW S, IsFiniteSet(S), NEW f, DOMAIN f = S, f = [x \in S |-> f[x]]
    PROVE  IsFiniteSet({f[x] : x \in S})
<1>1. f \in Surjection(S, {f[x] : x \in S})
  BY DEF Surjection
<1> QED
  BY <1>1, FS_Surjection

LEMMA BoxesAreFinite ==
    ASSUME Types, Accounts
    PROVE  IsFiniteSet(Boxes(confirmed))
<1> DEFINE f == [t \in confirmed |-> {<<t, i>> : i \in DOMAIN tx[t].outs}]
           U == {f[t] : t \in confirmed}
<1>1. IsFiniteSet(confirmed)
  BY FS_Subset, WalletConstants DEF Types
<1>2. IsFiniteSet(U)
  BY <1>1, FiniteImage
<1>3. ASSUME NEW t \in confirmed
      PROVE  IsFiniteSet(f[t])
  <2>1. Numbered(tx[t].outs)
    BY DEF Types, Accounts, Drawn, Ledger
  <2>2. PICK n \in Nat : DOMAIN tx[t].outs = 1..n
    BY <2>1 DEF Numbered
  <2>3. IsFiniteSet({t}) /\ IsFiniteSet(1..n)
    <3>1. IsFiniteSet({t})
      BY FS_Singleton
    <3>2. IsFiniteSet(1..n)
      BY FS_Interval
    <3> QED
      BY <3>1, <3>2
  <2>4. IsFiniteSet({t} \X (1..n))
    BY <2>3, FS_Product
  <2>5. f[t] \in SUBSET ({t} \X (1..n))
    BY <2>2
  <2> QED
    BY <2>4, <2>5, FS_Subset
<1>4. \A T \in U : IsFiniteSet(T)
  BY <1>3
<1>5. UNION U = UNION {{<<t, i>> : i \in DOMAIN tx[t].outs} : t \in confirmed}
  OBVIOUS
<1> HIDE DEF U
<1>6. IsFiniteSet(UNION U)
  BY <1>2, <1>4, FS_UNION
<1> QED
  BY <1>5, <1>6, FS_Union, WalletConstants DEF Boxes

LEMMA HoldingsAreNumbers ==
    ASSUME Types, Accounts, NEW ids \in SUBSET Boxes(confirmed)
    PROVE  IsFiniteSet(ids) /\ Erg(ids) \in Int /\ Tok(ids) \in Int
<1>1. IsFiniteSet(ids)
  BY BoxesAreFinite, FS_Subset
<1> DEFINE v == [id \in ids |-> BoxOf(id).erg]
           w == [id \in ids |-> BoxOf(id).tok]
<1>2. (\A id \in ids : v[id] \in Int) /\ (\A id \in ids : w[id] \in Int)
  BY BoxesHoldNumbers
<1> HIDE DEF v, w
<1>3. Total(v, ids) \in Int /\ Total(w, ids) \in Int
  BY <1>1, <1>2, TotalSplits
<1> QED
  BY <1>1, <1>3, ErgIsTotal, TokIsTotal DEF v, w

(* The explorer lists boxes of the chain only.                               *)
LEMMA ListedAreOnChain ==
    ASSUME Types, Accounts, NEW w
    PROVE  UnspentBoxes(w) \subseteq Boxes(confirmed)
BY DEF UnspentBoxes, Boxes, Accounts

LEMMA DrawnSteps ==
    ASSUME Types, Answered, [Next]_vars, NEW t \in Tasks, Drawn(t)'
    PROVE  Prepare(t) \/ (Drawn(t) /\ tx'[t] = tx[t])
<1>1. CASE Index \/ UNCHANGED vars
  BY <1>1 DEF Index, submission, vars, Drawn, Ledger
<1>2. ASSUME NEW u \in Tasks, Prepare(u)
      PROVE  u = t \/ (Drawn(t) /\ tx'[t] = tx[t])
  BY <1>2 DEF Prepare, Drawn, Ledger, chain, Types
<1>3. ASSUME NEW u \in Tasks, GiveUp(u)
      PROVE  Drawn(t) /\ tx'[t] = tx[t]
  BY <1>3 DEF GiveUp, Drawn, Ledger, chain, Types, Stages
<1>4. ASSUME NEW u \in Tasks, Sign(u)
      PROVE  Drawn(t) /\ tx'[t] = tx[t]
  BY <1>4 DEF Sign, Drawn, Ledger, chain, Types, Answered
<1>5. ASSUME NEW u \in Tasks, Submit(u)
      PROVE  Drawn(t) /\ tx'[t] = tx[t]
  BY <1>5 DEF Submit, Accepted, Rejected, Relayed, NoAnswer, Unreachable, Report, Offered,
              Drawn, Ledger, chain, Types
<1>6. ASSUME NEW u \in Tasks, Mine(u)
      PROVE  Drawn(t) /\ tx'[t] = tx[t]
  BY <1>6 DEF Mine, Drawn, Ledger
<1> QED
  BY <1>1, <1>2, <1>3, <1>4, <1>5, <1>6 DEF Next, Command

(* What the chain holds stays where it is.                                   *)
LEMMA ChainGrows ==
    ASSUME Types, [Next]_vars
    PROVE  /\ confirmed \subseteq confirmed' /\ job' = job
           /\ indexed' = indexed \/ indexed' = confirmed
<1>1. CASE Index \/ UNCHANGED vars
  BY <1>1 DEF Index, submission, vars
<1>2. ASSUME NEW u \in Tasks, Prepare(u) \/ GiveUp(u) \/ Sign(u) \/ (Submit(u) /\ UNCHANGED <<job, indexed>>)
      PROVE  confirmed' = confirmed /\ UNCHANGED <<job, indexed>>
  BY <1>2 DEF Prepare, GiveUp, Sign, chain, Submit, Accepted, Rejected, Relayed, NoAnswer, Unreachable
<1>3. ASSUME NEW u \in Tasks, Mine(u), UNCHANGED <<job, indexed>>
      PROVE  confirmed \subseteq confirmed' /\ UNCHANGED <<job, indexed>>
  BY <1>3 DEF Mine
<1> QED
  BY <1>1, <1>2, <1>3 DEF Next, Command

LEMMA BoxesStay ==
    ASSUME Types, Answered, [Next]_vars
    PROVE  /\ Boxes(confirmed) \subseteq Boxes(confirmed)'
           /\ \A id \in Boxes(confirmed) : BoxOf(id)' = BoxOf(id)
<1>1. confirmed \subseteq confirmed'
  BY ChainGrows
<1>2. \A t \in confirmed : tx'[t] = tx[t]
  BY TxFixed DEF Types, Ledger
<1>3. Boxes(confirmed) \subseteq Boxes(confirmed)'
  BY <1>1, <1>2 DEF Boxes
<1>4. ASSUME NEW id \in Boxes(confirmed)
      PROVE  BoxOf(id)' = BoxOf(id)
  <2>1. CASE id \in DOMAIN Genesis
    BY <2>1 DEF BoxOf
  <2>2. CASE id \notin DOMAIN Genesis
    <3>1. PICK t \in confirmed : \E i \in DOMAIN tx[t].outs : id = <<t, i>>
      BY <2>2 DEF Boxes
    <3> QED
      BY <1>2, <2>2, <3>1 DEF BoxOf
  <2> QED
    BY <2>1, <2>2
<1> QED
  BY <1>3, <1>4

(* A total over boxes of the chain stays the same.                           *)
LEMMA TotalsStay ==
    ASSUME Types, Answered, [Next]_vars, NEW ids \in SUBSET Boxes(confirmed)
    PROVE  Erg(ids)' = Erg(ids) /\ Tok(ids)' = Tok(ids)
<1> DEFINE v == [id \in ids |-> BoxOf(id).erg]
           w == [id \in ids |-> BoxOf(id).tok]
           vv == [id \in ids |-> BoxOf(id)'.erg]
           ww == [id \in ids |-> BoxOf(id)'.tok]
<1>1. (\A id \in ids : v[id] = vv[id]) /\ (\A id \in ids : w[id] = ww[id])
  BY BoxesStay
<1>2. Erg(ids) = Total(v, ids) /\ Tok(ids) = Total(w, ids)
  BY ErgIsTotal, TokIsTotal
<1>3. Erg(ids)' = Total(vv, ids) /\ Tok(ids)' = Total(ww, ids)
  BY TotalPrimed
<1> HIDE DEF v, w, vv, ww
<1>4. Total(v, ids) = Total(vv, ids) /\ Total(w, ids) = Total(ww, ids)
  BY <1>1, SameTotals
<1> QED
  BY <1>2, <1>3, <1>4

(* A command's transaction is accounted for when it is built.                *)
LEMMA PreparedIsAccounted ==
    ASSUME Types, Answered, Accounts, [Next]_vars, NEW t \in Tasks, Prepare(t)
    PROVE  /\ (Numbered(tx[t].outs) /\ Sourced(t) /\ Balanced(t))'
           /\ job[t].cmd \in {"send", "split"} => AsWritten(job[t], tx'[t].outs)
<1> DEFINE j == job[t]
           outs == Payments(j)
<1>1. PICK s \in Selections(UnspentBoxes(j.from), outs) :
          tx' = [tx EXCEPT ![t] = Built(j, s, outs)]
  BY DEF Prepare
<1> DEFINE all == outs \o Change(s[1], outs, j)
<1>2. s[1] \in SUBSET Boxes(confirmed) /\ Enough(s[1], outs)
  BY ListedAreOnChain DEF Selections
<1>3. tx'[t].inputs = s[1] /\ tx'[t].outs = all
  BY <1>1 DEF Built, Types
<1>4. IsFiniteSet(s[1]) /\ Erg(s[1]) \in Int /\ Tok(s[1]) \in Int
  BY <1>2, HoldingsAreNumbers
<1>5. Payable(j) /\ j \in Asks[t]
  BY DEF Prepare, Accounts
<1>6. Numbered(outs)
  <2>1. Erg(UnspentBoxes(j.from)) \in Int
    BY ListedAreOnChain, HoldingsAreNumbers
  <2> QED
    BY <1>5, <2>1, PaymentsAreNumbers
<1> HIDE DEF outs
<1>7. Completes(all, outs, s[1], j)
  BY <1>2, <1>4, <1>6, ChangeBalances
<1> HIDE DEF all
<1>8. Sourced(t)'
  BY <1>2, <1>3, <1>4, BoxesStay DEF Sourced
<1>9. Balanced(t)'
  <2>1. Erg(s[1])' = Erg(s[1]) /\ Tok(s[1])' = Tok(s[1])
    BY <1>2, TotalsStay
  <2> QED
    BY <1>3, <1>7, <2>1 DEF Balanced, Completes
<1>10. ASSUME j.cmd \in {"send", "split"}
       PROVE  AsWritten(j, all)
  <2>1. /\ DOMAIN outs = DOMAIN j.to
        /\ \A i \in DOMAIN outs : outs[i].to = j.to[i]
        /\ (IF j.token THEN SumTok(outs) ELSE SumErg(outs)) = TotalOf(j)
        /\ j.token => \A i \in DOMAIN outs : outs[i].erg = BoxMin
    BY <1>5, <1>10, SendPays, SplitPays DEF outs
  <2>2. [i \in DOMAIN j.to |-> all[i]] = outs
    <3>1. PICK n \in Nat : DOMAIN outs = 1..n /\ outs = [i \in 1..n |-> outs[i]]
      BY <1>6 DEF Numbered
    <3> QED
      BY <1>7, <2>1, <3>1 DEF Completes
  <2>3. Written(j.amount, IF j.token THEN 0 ELSE Decimals, TotalOf(j))
    BY <1>5, TotalAsWritten
  <2>4. ChangeTo(j) = j.from
    BY <1>10 DEF ChangeTo
  <2> QED
    BY <1>7, <2>1, <2>2, <2>3, <2>4 DEF AsWritten, Completes
<1> QED
  BY <1>3, <1>7, <1>8, <1>9, <1>10 DEF Completes

LEMMA AccountsStep == Types /\ Answered /\ Accounts /\ [Next]_vars => Accounts'
<1> SUFFICES ASSUME Types, Answered, Accounts, [Next]_vars PROVE Accounts'
  OBVIOUS
<1>1. job' = job /\ (indexed \subseteq confirmed)'
  BY ChainGrows DEF Accounts
<1>2. ASSUME NEW t \in Tasks, Drawn(t)'
      PROVE  /\ (Numbered(tx[t].outs) /\ Sourced(t) /\ Balanced(t))'
             /\ job[t].cmd \in {"send", "split"} => AsWritten(job[t], tx'[t].outs)
  <2>1. CASE Prepare(t)
    BY <2>1, PreparedIsAccounted
  <2>2. CASE Drawn(t) /\ tx'[t] = tx[t]
    <3>1. /\ Numbered(tx[t].outs) /\ Sourced(t) /\ Balanced(t)
          /\ job[t].cmd \in {"send", "split"} => AsWritten(job[t], tx[t].outs)
      BY <2>2 DEF Accounts
    <3>2. tx[t].inputs \in SUBSET Boxes(confirmed)
      BY <3>1 DEF Sourced
    <3>3. Sourced(t)'
      BY <2>2, <3>1, BoxesStay DEF Sourced
    <3>4. Balanced(t)'
      <4>1. /\ Erg(tx[t].inputs) = SumErg(tx[t].outs) + Fee
            /\ Tok(tx[t].inputs) = SumTok(tx[t].outs)
        BY <3>1 DEF Balanced
      <4>2. PICK ids : ids = tx[t].inputs
        OBVIOUS
      <4>3. Erg(ids)' = Erg(ids) /\ Tok(ids)' = Tok(ids)
        BY <3>2, <4>2, TotalsStay
      <4> QED
        BY <2>2, <4>1, <4>2, <4>3 DEF Balanced
    <3> QED
      BY <2>2, <3>1, <3>3, <3>4
  <2> QED
    BY <1>2, <2>1, <2>2, DrawnSteps
<1>3. (\A t \in Tasks : job[t] \in Asks[t])'
  BY <1>1 DEF Accounts
<1> QED
  BY <1>1, <1>2, <1>3 DEF Accounts

-----------------------------------------------------------------------------
IInv == Types /\ Answered /\ SpentOnce /\ TokenIsInput /\ Accounts

LEMMA IInvStep == IInv /\ [Next]_vars => IInv'
BY TypesStep, AnsweredStep, SpentOnceStep, TokenStep, AccountsStep DEF IInv

LEMMA IInvAlways == Spec => []IInv
<1>1. WalletInit => IInv
  BY InitHolds, InitAccounts DEF IInv
<1> QED
  BY <1>1, IInvStep, PTL DEF Spec

(* submitTx: what is reported as sent is in the ledger, and what every       *)
(* endpoint asked has answered for is reported as it is.                     *)
THEOREM ReportsAreTruthful == Spec => []TruthfulReports
<1>1. IInv => TruthfulReports
  BY DEF IInv, Answered, TruthfulReports, Types
<1> QED
  BY <1>1, IInvAlways, PTL

(* mintNft: two credentials reported as minted, neither in doubt, have       *)
(* different token ids, whatever else is paid from the same boxes.           *)
THEOREM TokensAreDistinct == Spec => []OneVmPerToken
<1>1. IInv => OneVmPerToken
  <2> SUFFICES ASSUME IInv, NEW t \in Tasks, NEW u \in Tasks, t # u,
                      job[t].cmd = "mint", job[u].cmd = "mint",
                      stage[t] \in {"sent", "relayed"}, stage[u] \in {"sent", "relayed"},
                      ~doubt[t], ~doubt[u]
               PROVE  tx[t].token # tx[u].token
    BY DEF OneVmPerToken
  <2>1. t \in Ledger /\ u \in Ledger
    BY DEF IInv, Answered
  <2>2. tx[t].token \in tx[t].inputs /\ tx[u].token \in tx[u].inputs
    BY DEF IInv, TokenIsInput
  <2> QED
    BY <2>1, <2>2 DEF IInv, SpentOnce
<1> QED
  BY <1>1, IInvAlways, PTL

(* splitCommand, executeSend, parseAmountToBaseUnits: a transaction on the   *)
(* chain pays its recipients the amount its user wrote, cut to the unit and  *)
(* not a unit less, and costs its wallet that and the fee, for any boxes,    *)
(* amounts, ratios and number of recipients.                                 *)
THEOREM PaymentsAreExact == Spec => []PaysExactly
<1>1. IInv => PaysExactly
  <2> SUFFICES ASSUME IInv, NEW t \in Ledger
               PROVE  /\ Balanced(t)
                      /\ job[t].cmd \in {"send", "split"} => AsWritten(job[t], tx[t].outs)
    BY DEF PaysExactly, Balanced
  <2>1. t \in Tasks /\ Drawn(t)
    BY DEF IInv, Types, Ledger, Drawn
  <2> QED
    BY <2>1 DEF IInv, Accounts
<1> QED
  BY <1>1, IInvAlways, PTL
=============================================================================
