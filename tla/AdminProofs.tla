----------------------------- MODULE AdminProofs -----------------------------
(***************************************************************************)
(* Proofs about AdminCommands and about the command it runs that lives on,  *)
(* Knock.                                                                   *)
(*                                                                          *)
(* At-most-once execution is not inductive: after a nonce is pruned nothing *)
(* in the store tells a run command from a new one.  IInv adds what does:   *)
(* a command that has run is remembered or too old for good, a recorded     *)
(* nonce was recorded when its timestamp was no further ahead than the      *)
(* tolerance, and the nonce file agrees with the store.  All of it is about *)
(* the timed commands, and as long as no nonce write has failed.            *)
(*                                                                          *)
(* A knock's rules are not inductive either, as its functions wait between  *)
(* any two calls.  Wide says of every rule open to everyone which session   *)
(* still owes its close, however the functions overlap; Matched says where  *)
(* the calls still to come will leave the firewall, for one function alone. *)
(***************************************************************************)
EXTENDS AdminCommands, Knock, SequenceTheorems, TLAPS

(* What the argument needs: the clock tolerance is within the maximum age.   *)
ToleranceWithinAge == FutureTolerance <= MaxAge

Stale(c) == now - stamp[c] > MaxAge
Started(c) == executions[c] > 0 \/ taking = c

RunOnce == \A c \in Timed : executions[c] <= 1
Remembered == \A c \in Timed : Started(c) => seen[c] # NotSeen \/ Stale(c)
TakenIsNew == taking \in Timed => executions[taking] = 0
RecordedInTime ==
    \A c \in Timed : seen[c] # NotSeen => stamp[c] <= seen[c] + FutureTolerance
FileAgrees == saved = seen
OnlyPosted ==
    /\ \A c \in Commands : Started(c) \/ seen[c] # NotSeen \/ saved[c] # NotSeen
            => c \in Posted
    /\ Range(todo) \subseteq Posted

Core == RunOnce /\ Remembered /\ TakenIsNew /\ RecordedInTime /\ FileAgrees

IInv == TypeOK /\ OnlyPosted /\ (faults = 0 => Core)

-----------------------------------------------------------------------------
(* Type correctness, for every value of the constants.                       *)

LEMMA TailRange ==
    ASSUME NEW S, NEW s \in Seq(S), s # <<>>
    PROVE  Head(s) \in Range(s) /\ Range(Tail(s)) \subseteq Range(s)
<1>1. Len(s) \in Nat \ {0} /\ DOMAIN s = 1..Len(s) /\ Head(s) = s[1]
  BY LenProperties, EmptySeq
<1>2. /\ Tail(s) \in Seq(S) /\ Len(Tail(s)) = Len(s) - 1
      /\ \A i \in 1..Len(Tail(s)) : Tail(s)[i] = s[i + 1]
  BY HeadTailProperties
<1>3. DOMAIN Tail(s) = 1..Len(Tail(s))
  BY <1>2, LenProperties
<1>4. \A i \in 1..Len(Tail(s)) : Tail(s)[i] \in Range(s)
  BY <1>1, <1>2 DEF Range
<1> QED
  BY <1>1, <1>3, <1>4 DEF Range

LEMMA RecentTyped ==
    ASSUME TypeOK
    PROVE  Recent \in Seq(Commands) /\ Range(Recent) \subseteq Posted
<1> USE AdminConstants
<1> DEFINE n == Len(posts)
           m == IF n < Window THEN n ELSE Window
<1>1. posts \in Seq(Commands) /\ n \in Nat /\ DOMAIN posts = 1..n
  BY LenProperties DEF TypeOK
<1>2. m \in Nat /\ m <= n
  BY <1>1
<1>3. \A i \in 1..m : n + 1 - i \in 1..n
  BY <1>1, <1>2
<1>4. \A j \in 1..n : posts[j] \in Commands
  BY <1>1, ElementOfSeq
<1>5. Recent = [i \in 1..m |-> posts[n + 1 - i]]
  BY DEF Recent
<1> HIDE DEF m, n
<1>6. Recent \in [1..m -> Commands]
  BY <1>3, <1>4, <1>5
<1>7. Recent \in Seq(Commands)
  BY <1>2, <1>6, SeqDef
<1>8. \A i \in 1..m : Recent[i] \in Posted
  BY <1>1, <1>3, <1>5 DEF Posted, Range
<1> QED
  BY <1>6, <1>7, <1>8 DEF Range

LEMMA InitTyped == Init => TypeOK
BY AdminConstants DEF Init, TypeOK, Times

LEMMA PostTyped ==
    ASSUME TypeOK, NEW c \in Commands, Post(c)
    PROVE  TypeOK'
<1> USE AdminConstants DEF TypeOK, Times
<1>1. posts' \in Seq(Commands)
  BY AppendProperties DEF Post
<1>2. stamp' \in [Commands -> Nat]
  BY SMTT(30) DEF Post
<1>3. atHeight' \in [Commands -> 0..MaxHeight]
  BY DEF Post
<1> QED
  BY <1>1, <1>2, <1>3 DEF Post, storeVars, pollVars

LEMMA SaveTyped ==
    ASSUME TypeOK, seen' \in [Commands -> Times \cup {NotSeen}], Save
    PROVE  saved' \in [Commands -> Times \cup {NotSeen}] /\ faults' \in 0..MaxFaults
<1>1. CASE saved' = seen' /\ UNCHANGED faults
  BY <1>1 DEF TypeOK
<1>2. CASE faults < MaxFaults /\ faults' = faults + 1 /\ UNCHANGED saved
  BY <1>2, AdminConstants DEF TypeOK
<1> QED
  BY <1>1, <1>2 DEF Save

LEMMA PruneTyped ==
    ASSUME TypeOK, Prune
    PROVE  /\ seen' \in [Commands -> Times \cup {NotSeen}]
           /\ saved' \in [Commands -> Times \cup {NotSeen}]
           /\ faults' \in 0..MaxFaults
BY AdminConstants DEF TypeOK, Prune, Save

LEMMA TypeStep == TypeOK /\ [Next]_vars => TypeOK'
<1> SUFFICES ASSUME TypeOK, [Next]_vars PROVE TypeOK'
  OBVIOUS
<1> USE AdminConstants
<1>1. CASE Tick
  BY <1>1 DEF Tick, TypeOK, Times, storeVars, pollVars
<1>2. CASE Mine
  BY <1>2 DEF Mine, TypeOK, storeVars, pollVars
<1>3. ASSUME NEW c \in Commands, Post(c) PROVE TypeOK'
  BY <1>3, PostTyped
<1>4. CASE Poll
  <2>1. /\ seen' \in [Commands -> Times \cup {NotSeen}]
        /\ saved' \in [Commands -> Times \cup {NotSeen}]
        /\ faults' \in 0..MaxFaults
    BY <1>4, PruneTyped DEF Poll
  <2>2. todo' \in Seq(Commands)
    BY <1>4, RecentTyped DEF Poll
  <2>3. pollHeight' \in 0..MaxHeight \cup {NoHeight}
    BY <1>4 DEF Poll, TypeOK
  <2> QED
    BY <1>4, <2>1, <2>2, <2>3 DEF Poll, TypeOK, envVars
<1>5. CASE PollFails
  BY <1>5, PruneTyped DEF PollFails, TypeOK, envVars, pollVars
<1>6. CASE Reject
  BY <1>6, HeadTailProperties DEF Reject, TypeOK, envVars, storeVars
<1>7. CASE Mark
  <2>1. Head(todo) \in Commands /\ Tail(todo) \in Seq(Commands)
    BY <1>7, HeadTailProperties DEF Mark, TypeOK
  <2>2. seen' \in [Commands -> Times \cup {NotSeen}]
    BY <1>7, <2>1 DEF Mark, TypeOK, RecordedAt
  <2>3. saved' \in [Commands -> Times \cup {NotSeen}] /\ faults' \in 0..MaxFaults
    BY <1>7, <2>2, SaveTyped DEF Mark
  <2>4. /\ taking' = Head(todo) /\ todo' = Tail(todo)
        /\ UNCHANGED <<envVars, pollHeight, executions, crashes>>
    BY <1>7 DEF Mark
  <2> QED
    BY <2>1, <2>2, <2>3, <2>4 DEF TypeOK, envVars
<1>8. CASE Dispatch
  BY <1>8 DEF Dispatch, TypeOK, envVars, storeVars
<1>9. CASE Restart
  BY <1>9, EmptySeq DEF Restart, Loaded, TypeOK, envVars
<1>10. CASE UNCHANGED vars
  BY <1>10 DEF vars, envVars, storeVars, pollVars, TypeOK
<1> QED
  BY <1>1, <1>2, <1>3, <1>4, <1>5, <1>6, <1>7, <1>8, <1>9, <1>10
     DEF Next, Environment, Process

(* Every variable keeps its type: in particular a nonce is only ever         *)
(* recorded with a time the clock has shown (nonces.ts 163-167).             *)
THEOREM TypeCorrect == Spec => []TypeOK
BY InitTyped, TypeStep, PTL DEF Spec

-----------------------------------------------------------------------------
(* At-most-once execution of the timed commands.                             *)

LEMMA TimedCommands == Timed \subseteq Commands /\ NoCommand \notin Timed
BY AdminConstants DEF Timed

(* A failed nonce write is never undone.                                     *)
LEMMA FaultsGrow == ASSUME TypeOK, [Next]_vars, faults' = 0 PROVE faults = 0
BY AdminConstants
   DEF TypeOK, Next, Environment, Process, Tick, Mine, Post, Poll, PollFails, Prune, Save,
       Reject, Mark, Dispatch, Restart, vars

LEMMA InitIInv == ASSUME Init PROVE IInv
<1>1. Range(<<>>) = {}
  BY DEF Range
<1> QED
  BY <1>1, InitTyped, TimedCommands, AdminConstants
     DEF Init, IInv, Core, RunOnce, Remembered, TakenIsNew, RecordedInTime, OnlyPosted,
         FileAgrees, Started, Posted

(* What pruning forgets is too old.                                          *)
LEMMA PruneForgetsStale ==
    ASSUME ToleranceWithinAge, TypeOK, RecordedInTime, Prune, NEW c \in Timed,
           seen[c] # NotSeen, seen'[c] = NotSeen
    PROVE  Stale(c)
<1>1. c \in Pruned
  BY TimedCommands DEF Prune, TypeOK
<1>2. seen[c] \in Nat /\ stamp[c] \in Nat /\ now \in Nat
  BY TimedCommands, AdminConstants DEF TypeOK, Times
<1>3. stamp[c] <= seen[c] + FutureTolerance
  BY DEF RecordedInTime
<1> QED
  BY <1>1, <1>2, <1>3, AdminConstants DEF Pruned, Stale, ToleranceWithinAge

LEMMA PruneKeepsCore ==
    ASSUME ToleranceWithinAge, TypeOK, Core, Prune, faults' = faults,
           UNCHANGED <<now, stamp, taking, executions>>
    PROVE  Core'
<1>1. \A c \in Timed : seen'[c] \in {seen[c], NotSeen}
  BY TimedCommands DEF Prune
<1>2. FileAgrees'
  <2>1. CASE Pruned # {}
    BY <2>1, AdminConstants DEF Prune, Save, TypeOK, FileAgrees
  <2>2. CASE Pruned = {}
    <3>1. seen' = [c \in Commands |-> seen[c]] /\ saved' = saved
      BY <2>2 DEF Prune
    <3> QED
      BY <3>1 DEF Core, FileAgrees, TypeOK
  <2> QED
    BY <2>1, <2>2
<1>3. Remembered'
  BY <1>1, PruneForgetsStale DEF Core, Remembered, Started, Stale
<1> QED
  BY <1>1, <1>2, <1>3 DEF Core, RunOnce, TakenIsNew, RecordedInTime

LEMMA PruneKeepsPosted ==
    ASSUME TypeOK, OnlyPosted, Prune, UNCHANGED <<posts, taking, executions>>
    PROVE  \A c \in Commands : Started(c)' \/ seen'[c] # NotSeen \/ saved'[c] # NotSeen
                => c \in Posted'
<1>1. \A c \in Commands : seen'[c] \in {seen[c], NotSeen}
  BY DEF Prune
<1>2. saved' = saved \/ saved' = seen'
  BY DEF Prune, Save
<1> QED
  BY <1>1, <1>2 DEF OnlyPosted, Started, Posted

LEMMA PostKeeps == ASSUME IInv, NEW c \in Commands, Post(c) PROVE IInv'
<1>1. TypeOK'
  BY PostTyped DEF IInv
<1>2. Posted' = Posted \cup {c}
  <2>1. posts \in Seq(Commands) /\ posts' = Append(posts, c)
    BY DEF Post, IInv, TypeOK
  <2>2. /\ Len(posts) \in Nat /\ DOMAIN posts = 1..Len(posts)
        /\ DOMAIN posts' = 1..Len(posts) + 1
    BY <2>1, LenProperties, AppendProperties
  <2>3. /\ \A i \in 1..Len(posts) : posts'[i] = posts[i]
        /\ posts'[Len(posts) + 1] = c
    BY <2>1, AppendProperties
  <2> QED
    BY <2>2, <2>3 DEF Posted, Range
<1>3. \A d \in Commands : Started(d) \/ seen[d] # NotSeen => stamp'[d] = stamp[d]
  BY DEF Post, IInv, OnlyPosted, TypeOK
<1>4. UNCHANGED <<now, seen, saved, todo, taking, executions, faults>>
  BY DEF Post, storeVars, pollVars
<1>5. OnlyPosted'
  BY <1>2, <1>4 DEF IInv, OnlyPosted, Started
<1>6. ASSUME Core PROVE Core'
  BY <1>3, <1>4, <1>6, TimedCommands
     DEF Core, RunOnce, Remembered, TakenIsNew, RecordedInTime, FileAgrees, Started, Stale
<1> QED
  BY <1>1, <1>4, <1>5, <1>6 DEF IInv

(* The heart of the argument: a timed command that validates has not run,    *)
(* since a command that has run is in the store or stale.                    *)
LEMMA ValidIsNew ==
    ASSUME TypeOK, Core, NEW c \in Timed, Valid(c)
    PROVE  /\ executions[c] = 0
           /\ stamp[c] <= now + FutureTolerance
<1>1. FreshStamp(c) /\ seen[c] = NotSeen
  BY DEF Valid, Fresh, ByHeight, Timed
<1>2. ~Stale(c)
  BY <1>1, TimedCommands, AdminConstants DEF FreshStamp, Stale, TypeOK, Times
<1>3. ~(executions[c] > 0)
  BY <1>1, <1>2 DEF Core, Remembered, Started
<1> QED
  BY <1>1, <1>3, TimedCommands DEF FreshStamp, TypeOK

LEMMA MarkKeeps == ASSUME IInv, Mark PROVE IInv'
<1> DEFINE c == Head(todo)
<1>0. TypeOK
  BY DEF IInv
<1>1. TypeOK'
  BY TypeStep DEF Next, Process, IInv
<1>2. c \in Commands /\ c \in Posted /\ Range(Tail(todo)) \subseteq Posted
  <2>1. todo \in Seq(Commands) /\ todo # <<>> /\ Range(todo) \subseteq Posted
    BY DEF Mark, IInv, TypeOK, OnlyPosted
  <2>2. c \in Commands
    BY <2>1, HeadTailProperties
  <2> QED
    BY <2>1, <2>2, TailRange
<1>3. ASSUME Core, c \in Timed
      PROVE  executions[c] = 0 /\ stamp[c] <= now + FutureTolerance
  BY <1>0, <1>3, ValidIsNew DEF Mark
<1>4. /\ seen' = [seen EXCEPT ![c] = now] /\ taking' = c /\ todo' = Tail(todo)
      /\ saved' = seen' \/ saved' = saved
      /\ UNCHANGED <<now, posts, stamp, executions>>
  BY DEF Mark, RecordedAt, envVars, Save
<1>5. faults' = 0 => faults = 0 /\ saved' = seen'
  BY <1>0, AdminConstants DEF Mark, Save, TypeOK
<1>6. now # NotSeen /\ seen \in [Commands -> Times \cup {NotSeen}]
  <2>1. now \in 0..MaxTime /\ seen \in [Commands -> Times \cup {NotSeen}]
    BY <1>0 DEF TypeOK, Times
  <2> HIDE DEF c
  <2> QED
    BY <2>1, AdminConstants
<1> HIDE DEF c
<1>7. \A d \in Commands : d # c => seen'[d] = seen[d] /\ (Started(d)' => Started(d))
  BY <1>4, <1>6 DEF Started
<1>8. seen'[c] = now
  BY <1>2, <1>4, <1>6
<1>9. OnlyPosted'
  BY <1>2, <1>4, <1>7 DEF OnlyPosted, IInv, Posted
<1>10. ASSUME Core, saved' = seen' PROVE Core'
  <2>1. RunOnce' /\ TakenIsNew'
    BY <1>3, <1>4, <1>10 DEF Core, RunOnce, TakenIsNew
  <2>2. Remembered'
    BY <1>4, <1>6, <1>7, <1>8, <1>10, TimedCommands DEF Core, Remembered, Stale
  <2>3. RecordedInTime'
    BY <1>3, <1>4, <1>7, <1>8, <1>10, TimedCommands DEF Core, RecordedInTime
  <2> QED
    BY <1>10, <2>1, <2>2, <2>3 DEF Core, FileAgrees
<1> QED
  BY <1>1, <1>5, <1>9, <1>10 DEF IInv

LEMMA DispatchKeeps == ASSUME IInv, Dispatch PROVE IInv'
<1>1. TypeOK' /\ TypeOK
  BY TypeStep DEF Next, Process, IInv
<1>2. /\ taking \in Commands /\ executions[taking] \in Nat
      /\ executions' = [executions EXCEPT ![taking] = executions[taking] + 1]
      /\ taking' = NoCommand
  BY <1>1 DEF Dispatch, TypeOK
<1>3. UNCHANGED <<now, posts, stamp, seen, saved, todo, faults>>
  BY DEF Dispatch, envVars, storeVars
<1>4. \A c \in Commands : Started(c)' => Started(c)
  BY <1>1, <1>2, AdminConstants DEF Started, TypeOK
<1>5. OnlyPosted'
  BY <1>3, <1>4 DEF IInv, OnlyPosted, Posted
<1>6. ASSUME Core PROVE Core'
  <2>1. RunOnce'
    <3> SUFFICES ASSUME NEW c \in Timed PROVE executions'[c] <= 1
      BY DEF RunOnce
    <3>1. CASE c = taking
      BY <1>1, <1>2, <1>6, <3>1 DEF Core, TakenIsNew, TypeOK
    <3>2. CASE c # taking
      BY <1>1, <1>2, <1>6, <3>2, TimedCommands DEF Core, RunOnce, TypeOK
    <3> QED
      BY <3>1, <3>2
  <2> QED
    BY <1>2, <1>3, <1>4, <1>6, <2>1, TimedCommands
       DEF Core, Remembered, TakenIsNew, RecordedInTime, FileAgrees, Stale
<1> QED
  BY <1>1, <1>3, <1>5, <1>6 DEF IInv

LEMMA StepIInv == ASSUME ToleranceWithinAge PROVE IInv /\ [Next]_vars => IInv'
<1> SUFFICES ASSUME IInv, [Next]_vars PROVE IInv'
  OBVIOUS
<1>0. TypeOK /\ TypeOK' /\ OnlyPosted
  BY TypeStep DEF IInv
<1> USE AdminConstants
<1>1. CASE Tick
  <2>1. now' = now + 1 /\ now \in Nat
    BY <1>0, <1>1 DEF Tick, TypeOK, Times
  <2>2. \A c \in Timed : stamp[c] \in Nat /\ (Stale(c) => Stale(c)')
    BY <1>0, <1>1, <2>1, TimedCommands DEF Tick, Stale, TypeOK
  <2> QED
    BY <1>0, <1>1, <2>2
       DEF Tick, storeVars, pollVars, IInv, Core, RunOnce, Remembered, TakenIsNew,
           RecordedInTime, OnlyPosted, FileAgrees, Started, Posted
<1>2. CASE Mine
  BY <1>0, <1>2
     DEF Mine, storeVars, pollVars, IInv, Core, RunOnce, Remembered, TakenIsNew,
         RecordedInTime, OnlyPosted, FileAgrees, Started, Stale, Posted
<1>3. ASSUME NEW c \in Commands, Post(c) PROVE IInv'
  BY <1>3, PostKeeps
<1>4. CASE Poll \/ PollFails
  <2>1. Prune /\ UNCHANGED <<now, posts, stamp, taking, executions>>
    BY <1>4 DEF Poll, PollFails, envVars, pollVars
  <2>2. Range(todo') \subseteq Posted'
    BY <1>0, <1>4, RecentTyped DEF Poll, PollFails, envVars, pollVars, OnlyPosted, Posted
  <2>3. OnlyPosted'
    BY <1>0, <2>1, <2>2, PruneKeepsPosted DEF OnlyPosted
  <2>4. faults' = 0 => Core'
    BY <1>0, <2>1, PruneKeepsCore, FaultsGrow DEF IInv
  <2> QED
    BY <1>0, <2>3, <2>4 DEF IInv
<1>6. CASE Reject
  <2>1. todo \in Seq(Commands) /\ todo # <<>> /\ Range(todo) \subseteq Posted
    BY <1>6 DEF Reject, IInv, TypeOK, OnlyPosted
  <2>2. Range(Tail(todo)) \subseteq Posted
    BY <2>1, TailRange
  <2> QED
    BY <1>0, <1>6, <2>2
       DEF Reject, envVars, storeVars, IInv, Core, RunOnce, Remembered, TakenIsNew,
           RecordedInTime, OnlyPosted, FileAgrees, Started, Stale, Posted
<1>7. CASE Mark
  BY <1>7, MarkKeeps
<1>8. CASE Dispatch
  BY <1>8, DispatchKeeps
<1>9. CASE Restart
  <2>1. seen' = saved /\ saved' = saved /\ taking' = NoCommand /\ faults' = faults
        /\ UNCHANGED <<now, posts, stamp, executions>>
    BY <1>9 DEF Restart, Loaded, envVars
  <2>2. Range(todo') = {}
    BY <1>9 DEF Restart, Range
  <2>3. \A c \in Commands : Started(c)' => Started(c)
    BY <1>9, <2>1 DEF Restart, Started
  <2>4. OnlyPosted'
    BY <1>0, <2>1, <2>2, <2>3 DEF OnlyPosted, Posted
  <2>5. ASSUME Core PROVE Core'
    BY <2>1, <2>3, <2>5, TimedCommands
       DEF Core, RunOnce, Remembered, TakenIsNew, RecordedInTime, FileAgrees, Stale
  <2> QED
    BY <1>0, <2>1, <2>4, <2>5 DEF IInv
<1>10. CASE UNCHANGED vars
  BY <1>0, <1>10
     DEF vars, envVars, storeVars, pollVars, IInv, Core, RunOnce, Remembered, TakenIsNew,
         RecordedInTime, OnlyPosted, FileAgrees, Started, Stale, Posted
<1> QED
  BY <1>1, <1>2, <1>3, <1>4, <1>6, <1>7, <1>8, <1>9, <1>10
     DEF Next, Environment, Process

(* index.ts 266-267: while nonces can be written, no timestamped command is  *)
(* ever executed twice, for any window, ages, repeats and restarts, as long  *)
(* as the clock tolerance does not exceed the maximum age.                   *)
THEOREM ExecutedAtMostOnce == ASSUME ToleranceWithinAge PROVE Spec => []AtMostOnce
<1>1. Init => IInv
  BY InitIInv
<1>2. IInv /\ [Next]_vars => IInv'
  BY StepIInv
<1>3. IInv => AtMostOnce
  BY DEF IInv, Core, RunOnce, AtMostOnce
<1> QED
  BY <1>1, <1>2, <1>3, PTL DEF Spec

(* nonces.ts 170-172: while nonces can be written, the nonce of a timed      *)
(* command leaves the store only once the command is too old; a restart      *)
(* loses none, because the file agrees.                                      *)
THEOREM PrunedIsStale == ASSUME ToleranceWithinAge PROVE Spec => ForgottenIsStale
<1> DEFINE Forgets == \A c \in Timed :
                faults' = 0 /\ seen[c] # NotSeen /\ seen'[c] = NotSeen
                    => now - stamp[c] > MaxAge
<1>1. Init => IInv
  BY InitIInv
<1>2. IInv /\ [Next]_vars => IInv'
  BY StepIInv
<1>3. IInv /\ [Next]_vars => [Forgets]_vars
  <2> SUFFICES ASSUME IInv, Next, NEW c \in Timed, faults' = 0,
                      seen[c] # NotSeen, seen'[c] = NotSeen
               PROVE  now - stamp[c] > MaxAge
    OBVIOUS
  <2>0. TypeOK /\ Core /\ c \in Commands
    BY FaultsGrow, TimedCommands DEF IInv
  <2>1. CASE Poll \/ PollFails
    BY <2>0, <2>1, PruneForgetsStale DEF Poll, PollFails, Stale, Core
  <2>2. CASE Mark
    BY <2>0, <2>2, AdminConstants, SMTT(30) DEF Mark, RecordedAt, TypeOK, Times
  <2>3. CASE Restart
    BY <2>0, <2>3 DEF Restart, Loaded, Core, FileAgrees
  <2>4. CASE Environment \/ Reject \/ Dispatch
    BY <2>4 DEF Environment, Tick, Mine, Post, Reject, Dispatch, storeVars
  <2> QED
    BY <2>1, <2>2, <2>3, <2>4 DEF Next, Process
<1> QED
  BY <1>1, <1>2, <1>3, PTL DEF Spec, ForgottenIsStale
-----------------------------------------------------------------------------
(* Knock.                                                                    *)

Sources == Ips \cup {Anywhere}
States == {"new", "opening", "active", "done", "lost"}
ActiveKnock == [state : States, source : Sources, login : Ips \cup {NoIp},
                timer : BOOLEAN, poller : BOOLEAN, tail : BOOLEAN]

(* The functions of a command: what each may still call, and when it may be  *)
(* in flight.                                                                *)
TaskShape(k, t) ==
    tasks[k][t] # NoTask =>
        /\ tasks[k][t] \in Task
        /\ \A c \in Range(tasks[k][t].calls) :
              /\ c.op = "open" /\ t = "execute" => c.rule[2] = knock[k].source
              /\ c.op = "open" /\ t # "execute" => c.rule[2] \in Ips
              /\ t \in {"close", "shutdown"} => c.op = "close"
        /\ t = "execute" => knock[k].state = "opening"
        /\ t # "execute" => knock[k].state \in {"active", "done"}
        /\ t \in Transitions => tasks[k][t].ip \in Ips

Shape ==
    /\ knock \in [Txs -> ActiveKnock]
    /\ DOMAIN tasks = Txs /\ \A k \in Txs : DOMAIN tasks[k] = TaskNames
    /\ activeFile \in Ips \cup {NoIp}
    /\ rules \subseteq Rules
    /\ \A k \in Txs : knock[k].state \in {"new", "opening"} => knock[k].login = NoIp
    /\ \A k \in Txs, t \in TaskNames : TaskShape(k, t)

(* The command that has still to close a rule: it is about to open it, or    *)
(* was lost with its process, or is in phase 1 and each of its functions in  *)
(* flight has the close ahead.                                               *)
CloseOf(r) == [op |-> "close", rule |-> r]

Owes(k, r) ==
    /\ knock[k].source = Anywhere
    /\ \/ knock[k].state \in {"opening", "lost"}
       \/ /\ knock[k].state = "active" /\ knock[k].login = NoIp
          /\ \A t \in TaskNames :
                tasks[k][t] # NoTask => CloseOf(r) \in Range(tasks[k][t].calls)

WideAreOwed == \A r \in rules : r[2] = Anywhere => \E k \in Txs : Owes(k, r)

Wide == failures \in Nat /\ (failures = 0 => Shape /\ WideAreOwed)

-----------------------------------------------------------------------------
(* Calls.                                                                    *)

LEMMA CallsHead ==
    ASSUME NEW S, NEW s \in Seq(S), s # <<>>
    PROVE  /\ Head(s) \in Range(s) /\ Head(s) \in S
           /\ Tail(s) \in Seq(S) /\ Range(Tail(s)) \subseteq Range(s)
           /\ \A x \in Range(s) : x = Head(s) \/ x \in Range(Tail(s))
<1>1. /\ Len(s) \in Nat /\ Len(s) >= 1 /\ DOMAIN s = 1..Len(s) /\ Head(s) = s[1]
  BY EmptySeq
<1>2. /\ Tail(s) \in Seq(S) /\ DOMAIN Tail(s) = 1..Len(s) - 1
      /\ \A i \in 1..Len(s) - 1 : Tail(s)[i] = s[i + 1]
  BY <1>1
<1>3. Head(s) \in Range(s) /\ Range(Tail(s)) \subseteq Range(s)
  BY TailRange
<1>4. Head(s) \in S
  BY <1>1
<1>5. ASSUME NEW x \in Range(s), x # Head(s)
      PROVE  x \in Range(Tail(s))
  <2>1. PICK i \in 1..Len(s) : x = s[i]
    BY <1>1 DEF Range
  <2>2. i # 1
    BY <1>1, <1>5, <2>1
  <2>3. i - 1 \in 1..Len(s) - 1 /\ Tail(s)[i - 1] = x
    BY <1>1, <1>2, <2>1, <2>2
  <2> QED
    BY <1>2, <2>3 DEF Range
<1> QED
  BY <1>2, <1>3, <1>4, <1>5

LEMMA CallsAreCalls ==
    ASSUME NEW op \in {"open", "close"}, NEW source \in Sources
    PROVE  /\ Calls(op, source) \in Seq(Call) /\ Calls(op, source) # <<>>
           /\ DOMAIN Calls(op, source) = DOMAIN Ports
           /\ \A i \in DOMAIN Ports : Calls(op, source)[i] = [op |-> op, rule |-> <<Ports[i], source>>]
           /\ Range(Calls(op, source)) = {[op |-> op, rule |-> <<p, source>>] : p \in Range(Ports)}
<1>1. DOMAIN Ports = 1..Len(Ports) /\ Len(Ports) \in Nat /\ Len(Ports) # 0
  BY KnockConstants, EmptySeq
<1>2. \A i \in DOMAIN Ports : Ports[i] \in Range(Ports)
  BY DEF Range
<1>3. \A i \in DOMAIN Ports : [op |-> op, rule |-> <<Ports[i], source>>] \in Call
  BY <1>2 DEF Call, Rules, Sources
<1>4. Calls(op, source) = [i \in 1..Len(Ports) |-> [op |-> op, rule |-> <<Ports[i], source>>]]
  BY <1>1 DEF Calls
<1>5. Calls(op, source) \in Seq(Call) /\ DOMAIN Calls(op, source) = DOMAIN Ports
  BY <1>1, <1>3, <1>4
<1>6. Calls(op, source) # <<>>
  BY <1>1, <1>4, <1>5
<1>7. Range(Calls(op, source)) = {[op |-> op, rule |-> <<p, source>>] : p \in Range(Ports)}
  BY <1>1, <1>4 DEF Range
<1> QED
  BY <1>1, <1>4, <1>5, <1>6, <1>7

LEMMA TransitionsAreCalls ==
    ASSUME Shape, NEW k \in Txs, NEW ip \in Ips
    PROVE  /\ TransitionCalls(k, ip) \in Seq(Call)
           /\ Range(TransitionCalls(k, ip)) =
                 Range(Calls("close", knock[k].source)) \cup Range(Calls("open", ip))
<1> DEFINE a == Calls("close", knock[k].source)
           b == Calls("open", ip)
<1>1. a \in Seq(Call) /\ b \in Seq(Call)
  BY CallsAreCalls DEF Shape, ActiveKnock, Sources
<1>2. TransitionCalls(k, ip) = a \o b
  BY DEF TransitionCalls
<1> HIDE DEF a, b
<1>3. /\ a \o b \in Seq(Call) /\ Len(a \o b) = Len(a) + Len(b)
      /\ \A i \in 1..Len(a) + Len(b) :
            (a \o b)[i] = IF i <= Len(a) THEN a[i] ELSE b[i - Len(a)]
  BY <1>1
<1>4. DOMAIN a = 1..Len(a) /\ DOMAIN b = 1..Len(b) /\ DOMAIN (a \o b) = 1..Len(a) + Len(b)
      /\ Len(a) \in Nat /\ Len(b) \in Nat
  BY <1>1, <1>3
<1>5. Range(a \o b) \subseteq Range(a) \cup Range(b)
  BY <1>3, <1>4 DEF Range
<1>6. Range(a) \subseteq Range(a \o b)
  BY <1>3, <1>4 DEF Range
<1>7. ASSUME NEW x \in Range(b)
      PROVE  x \in Range(a \o b)
  <2>1. PICK i \in 1..Len(b) : x = b[i]
    BY <1>4 DEF Range
  <2>2. /\ i + Len(a) \in 1..Len(a) + Len(b) /\ ~(i + Len(a) <= Len(a))
        /\ (i + Len(a)) - Len(a) = i
    BY <1>4, <2>1
  <2>3. (a \o b)[i + Len(a)] = x
    BY <1>3, <2>1, <2>2
  <2> QED
    BY <1>4, <2>2, <2>3 DEF Range
<1> QED
  BY <1>2, <1>3, <1>5, <1>6, <1>7 DEF a, b

-----------------------------------------------------------------------------
(* The steps, as long as no call has failed.                                 *)

LEMMA InitWide == KnockInit => Shape /\ WideAreOwed
<1> SUFFICES ASSUME KnockInit
             PROVE  Shape /\ WideAreOwed
  OBVIOUS
<1>1. /\ knock = [k \in Txs |-> [state |-> "new", source |-> Anywhere, login |-> NoIp,
                                 timer |-> FALSE, poller |-> FALSE, tail |-> FALSE]]
      /\ tasks = [k \in Txs |-> [t \in TaskNames |-> NoTask]]
      /\ activeFile = NoIp /\ rules = {}
  BY DEF KnockInit
<1>2. knock \in [Txs -> ActiveKnock]
  BY <1>1 DEF ActiveKnock, States, Sources
<1> QED
  BY <1>1, <1>2 DEF Shape, TaskShape, WideAreOwed


(* An object after some of its fields were written.                          *)
LEMMA Muted ==
    ASSUME NEW o \in ActiveKnock, NEW n,
           n = [o EXCEPT !.timer = FALSE, !.poller = FALSE, !.tail = FALSE]
    PROVE  n \in ActiveKnock /\ n.state = o.state /\ n.source = o.source /\ n.login = o.login
BY DEF ActiveKnock

LEMMA LoggedIn ==
    ASSUME NEW o \in ActiveKnock, NEW n, NEW ip \in Ips \cup {NoIp},
           n = [o EXCEPT !.timer = FALSE, !.login = ip, !.tail = FALSE]
    PROVE  n \in ActiveKnock /\ n.state = o.state /\ n.source = o.source /\ n.login = ip
BY DEF ActiveKnock

LEMMA Activated ==
    ASSUME NEW o \in ActiveKnock, NEW n, NEW tail \in BOOLEAN,
           n = [o EXCEPT !.state = "active", !.timer = TRUE, !.poller = TRUE, !.tail = tail]
    PROVE  n \in ActiveKnock /\ n.state = "active" /\ n.source = o.source /\ n.login = o.login
BY DEF ActiveKnock, States

(* The session as it concerns the firewall.                                  *)
Kept(j) == /\ knock'[j].state = knock[j].state /\ knock'[j].source = knock[j].source
           /\ knock'[j].login = knock[j].login

LEMMA WideRule ==
    ASSUME NEW r \in Rules, r[2] = Anywhere
    PROVE  CloseOf(r) \in Range(Calls("close", Anywhere))
<1>1. r[1] \in Range(Ports) /\ r = <<r[1], Anywhere>>
  BY DEF Rules
<1>2. Range(Calls("close", Anywhere)) = {[op |-> "close", rule |-> <<p, Anywhere>>] : p \in Range(Ports)}
  BY CallsAreCalls DEF Sources
<1> QED
  BY <1>1, <1>2 DEF CloseOf

(* A close or a transition starts: nothing is closed or opened yet, and what *)
(* is owed is ahead of the new function.                                     *)
LEMMA StartKeepsWide ==
    ASSUME Shape, WideAreOwed, NEW k \in Txs, NEW t \in TaskNames \ {"execute"}, NEW T \in Task,
           tasks'[k][t] = T,
           \A j \in Txs, u \in TaskNames : j # k \/ u # t => tasks'[j][u] = tasks[j][u],
           \A j \in Txs : Kept(j), knock[k].state = "active", UNCHANGED rules,
           \A c \in Range(T.calls) : /\ c.op = "open" => c.rule[2] \in Ips
                                     /\ t \in {"close", "shutdown"} => c.op = "close",
           t \in Transitions => T.ip \in Ips,
           knock[k].login = NoIp => Range(Calls("close", knock[k].source)) \subseteq Range(T.calls)
    PROVE  (\A j \in Txs, u \in TaskNames : TaskShape(j, u))' /\ WideAreOwed'
<1>1. /\ tasks'[k][t] = T
      /\ \A j \in Txs, u \in TaskNames : j # k \/ u # t => tasks'[j][u] = tasks[j][u]
  OBVIOUS
<1>2. ASSUME NEW j \in Txs, NEW u \in TaskNames
      PROVE  TaskShape(j, u)'
  <2>1. CASE j = k /\ u = t
    BY <1>1, <2>1 DEF TaskShape, Kept
  <2>2. CASE j # k \/ u # t
    BY <1>1, <2>2 DEF TaskShape, Kept, Shape
  <2> QED
    BY <2>1, <2>2
<1>3. ASSUME NEW r \in rules, r[2] = Anywhere, NEW j \in Txs, Owes(j, r)
      PROVE  Owes(j, r)'
  <2>1. /\ knock'[j].source = Anywhere
        /\ knock[j].state \in {"opening", "lost"} => knock'[j].state \in {"opening", "lost"}
    BY <1>3 DEF Kept, Owes
  <2>2. ASSUME knock[j].state = "active", knock[j].login = NoIp,
               NEW u \in TaskNames, tasks'[j][u] # NoTask
        PROVE  CloseOf(r) \in Range(tasks'[j][u].calls)
    <3>1. CASE j = k /\ u = t
      <4>1. CloseOf(r) \in Range(Calls("close", Anywhere))
        BY <1>3, WideRule DEF Shape
      <4>2. knock[k].source = Anywhere
        BY <1>3, <3>1 DEF Owes
      <4> QED
        BY <1>1, <2>2, <3>1, <4>1, <4>2
    <3>2. CASE j # k \/ u # t
      BY <1>1, <1>3, <2>2, <3>2 DEF Owes
    <3> QED
      BY <3>1, <3>2
  <2> QED
    BY <1>3, <2>1, <2>2 DEF Owes, Kept
<1> QED
  BY <1>2, <1>3 DEF WideAreOwed

LEMMA ExecuteKeepsWide ==
    ASSUME Shape, WideAreOwed, NEW k \in Txs, NEW source \in Filters, Execute(k, source)
    PROVE  Shape' /\ WideAreOwed'
<1> DEFINE T == [ip |-> NoIp, calls |-> Calls("open", source)]
<1>1. /\ knock[k].state = "new" /\ tasks' = [tasks EXCEPT ![k]["execute"] = T]
      /\ knock' = [knock EXCEPT ![k].state = "opening", ![k].source = source]
      /\ UNCHANGED <<activeFile, rules>>
  BY DEF Execute, Start
<1>2. source \in Sources /\ "execute" \in TaskNames
  BY KnockConstants DEF Sources, TaskNames
<1>3. /\ T \in Task
      /\ \A c \in Range(T.calls) : c.op = "open" /\ c.rule[2] = source
  BY <1>2, CallsAreCalls DEF Task
<1> HIDE DEF T
<1>4. /\ DOMAIN tasks' = Txs /\ \A j \in Txs : DOMAIN tasks'[j] = TaskNames
      /\ tasks'[k]["execute"] = T
      /\ \A j \in Txs, u \in TaskNames : j # k \/ u # "execute" => tasks'[j][u] = tasks[j][u]
  BY <1>1, <1>2 DEF Shape
<1>5. /\ knock' \in [Txs -> ActiveKnock]
      /\ knock'[k].state = "opening" /\ knock'[k].source = source
      /\ knock'[k].login = knock[k].login
      /\ \A j \in Txs : j # k => knock'[j] = knock[j]
  <2>1. /\ DOMAIN knock' = Txs /\ \A j \in Txs : j # k => knock'[j] = knock[j]
        /\ knock'[k] = [knock[k] EXCEPT !.state = "opening", !.source = source]
        /\ knock' = [j \in Txs |-> knock'[j]]
    BY <1>1 DEF Shape
  <2>2. /\ knock'[k] \in ActiveKnock /\ knock'[k].state = "opening"
        /\ knock'[k].source = source /\ knock'[k].login = knock[k].login
    <3>1. knock[k] \in ActiveKnock
      BY DEF Shape
    <3> QED
      BY <1>2, <2>1, <3>1 DEF ActiveKnock, States
  <2>3. \A j \in Txs : knock'[j] \in ActiveKnock
    BY <2>1, <2>2 DEF Shape
  <2> QED
    BY <2>1, <2>2, <2>3
<1>6. \A u \in TaskNames : u # "execute" => tasks[k][u] = NoTask
  BY <1>1 DEF Shape, TaskShape
<1>7. ASSUME NEW j \in Txs, NEW u \in TaskNames
      PROVE  TaskShape(j, u)'
  <2>1. CASE j = k /\ u = "execute"
    BY <1>3, <1>4, <1>5, <2>1 DEF TaskShape, Transitions
  <2>2. CASE j = k /\ u # "execute"
    BY <1>4, <1>6, <2>2 DEF TaskShape
  <2>3. CASE j # k
    BY <1>4, <1>5, <2>3 DEF TaskShape, Shape
  <2> QED
    BY <2>1, <2>2, <2>3
<1>8. Shape'
  BY <1>1, <1>4, <1>5, <1>7 DEF Shape
<1>9. ASSUME NEW r \in rules, r[2] = Anywhere
      PROVE  \E j \in Txs : Owes(j, r)'
  <2>1. PICK j \in Txs : Owes(j, r)
    BY <1>9 DEF WideAreOwed
  <2>2. j # k
    BY <1>1, <2>1 DEF Owes
  <2> QED
    BY <1>4, <1>5, <2>1, <2>2 DEF Owes
<1> QED
  BY <1>1, <1>8, <1>9 DEF WideAreOwed

(* The answer to a call: a rule that stays open stays owed, since the close  *)
(* ahead of it was not the one answered; a rule opened to everyone is owed   *)
(* by the command that is opening.                                           *)
LEMMA AnswerKeepsWide ==
    ASSUME Shape, WideAreOwed, NEW k \in Txs, NEW t \in TaskNames,
           tasks[k][t] # NoTask, tasks[k][t].calls # <<>>, Answered(k, t),
           UNCHANGED activeFile
    PROVE  Shape' /\ WideAreOwed'
<1> DEFINE T == tasks[k][t]
           c == Head(T.calls)
           rest == Tail(T.calls)
<1>1. /\ T \in Task /\ TaskShape(k, t) /\ T.calls \in Seq(Call) /\ T.calls # <<>>
  BY DEF Shape, TaskShape, Task
<1>2. /\ c \in Range(T.calls) /\ c \in Call /\ rest \in Seq(Call)
      /\ Range(rest) \subseteq Range(T.calls)
      /\ \A x \in Range(T.calls) : x = c \/ x \in Range(rest)
  BY <1>1, CallsHead
<1>3. /\ rules' = IF c.op = "open" THEN rules \cup {c.rule} ELSE rules \ {c.rule}
      /\ tasks' = [tasks EXCEPT ![k][t].calls = rest]
      /\ knock' = knock
  BY DEF Answered
<1>4. /\ DOMAIN tasks' = Txs /\ \A j \in Txs : DOMAIN tasks'[j] = TaskNames
      /\ \A j \in Txs, u \in TaskNames : j # k \/ u # t => tasks'[j][u] = tasks[j][u]
      /\ tasks'[k][t] = [T EXCEPT !.calls = rest]
  BY <1>3 DEF Shape
<1>5. tasks'[k][t] \in Task /\ tasks'[k][t].ip = T.ip /\ tasks'[k][t].calls = rest
  BY <1>1, <1>2, <1>4 DEF Task
<1> HIDE DEF T, c, rest
<1>6. ASSUME NEW j \in Txs, NEW u \in TaskNames
      PROVE  TaskShape(j, u)'
  <2>1. CASE j = k /\ u = t
    BY <1>1, <1>2, <1>3, <1>5, <2>1 DEF TaskShape, T
  <2>2. CASE j # k \/ u # t
    BY <1>3, <1>4, <2>2 DEF TaskShape, Shape
  <2> QED
    BY <2>1, <2>2
<1>7. rules' \subseteq Rules
  BY <1>2, <1>3 DEF Shape, Call
<1>8. Shape'
  BY <1>3, <1>4, <1>6, <1>7 DEF Shape
<1>9. ASSUME NEW r \in rules', r[2] = Anywhere
      PROVE  \E j \in Txs : Owes(j, r)'
  <2>1. CASE r \in rules /\ c # CloseOf(r)
    <3>1. PICK j \in Txs : Owes(j, r)
      BY <1>9, <2>1 DEF WideAreOwed
    <3>2. ASSUME NEW u \in TaskNames, tasks'[j][u] # NoTask, knock[j].state = "active",
                 knock[j].login = NoIp
          PROVE  CloseOf(r) \in Range(tasks'[j][u].calls)
      <4>1. CASE j = k /\ u = t
        <5>1. CloseOf(r) \in Range(T.calls)
          BY <3>1, <3>2, <4>1 DEF Owes, T
        <5> QED
          BY <1>2, <1>5, <2>1, <4>1, <5>1
      <4>2. CASE j # k \/ u # t
        BY <1>4, <3>1, <3>2, <4>2 DEF Owes
      <4> QED
        BY <4>1, <4>2
    <3> QED
      BY <1>3, <3>1, <3>2 DEF Owes
  <2>2. CASE c.op = "open" /\ r = c.rule
    <3>1. t = "execute"
      BY <1>1, <1>2, <1>9, <2>2, KnockConstants DEF TaskShape, T
    <3>2. knock[k].source = Anywhere /\ knock[k].state = "opening"
      BY <1>1, <1>2, <1>9, <2>2, <3>1 DEF TaskShape, T
    <3> QED
      BY <1>3, <3>2 DEF Owes
  <2>3. r \in rules \/ (c.op = "open" /\ r = c.rule)
    BY <1>3
  <2>4. c = CloseOf(r) => r \notin rules'
    BY <1>3 DEF CloseOf
  <2> QED
    BY <1>9, <2>1, <2>2, <2>3, <2>4
<1> QED
  BY <1>8, <1>9 DEF WideAreOwed

(* A function ends: what it had to close it has closed.                      *)
LEMMA EndKeepsWide ==
    ASSUME Shape, WideAreOwed, NEW k \in Txs, NEW t \in TaskNames, Ready(k, t),
           tasks' = [tasks EXCEPT ![k][t] = NoTask], UNCHANGED rules,
           \A j \in Txs : j # k => knock'[j] = knock[j],
           knock'[k].source = knock[k].source,
           t = "execute" => knock'[k].state = "active" /\ knock'[k].login = knock[k].login,
           t # "execute" => knock'[k].state \in {knock[k].state, "done"}
    PROVE  (\A j \in Txs, u \in TaskNames : TaskShape(j, u))' /\ WideAreOwed'
<1>1. /\ tasks'[k][t] = NoTask
      /\ \A j \in Txs, u \in TaskNames : j # k \/ u # t => tasks'[j][u] = tasks[j][u]
  BY DEF Shape
<1>2. tasks[k][t] # NoTask /\ tasks[k][t].calls = <<>> /\ TaskShape(k, t)
  BY DEF Ready, Shape
<1>3. ASSUME NEW j \in Txs, NEW u \in TaskNames
      PROVE  TaskShape(j, u)'
  <2>1. TaskShape(j, u) /\ TaskShape(k, t)
    BY DEF Shape
  <2> QED
    BY <1>1, <1>2, <2>1 DEF TaskShape
<1>4. ASSUME NEW r \in rules, NEW j \in Txs, Owes(j, r)
      PROVE  Owes(j, r)'
  <2>1. CASE j # k
    BY <1>1, <1>4, <2>1 DEF Owes
  <2>2. CASE j = k /\ t = "execute"
    <3>1. knock[k].state = "opening" /\ knock[k].login = NoIp
      BY <1>2, <2>2 DEF TaskShape, Shape
    <3>2. \A u \in TaskNames : tasks'[k][u] = NoTask
      BY <1>1, <2>2, <3>1 DEF TaskShape, Shape
    <3> QED
      BY <1>4, <2>2, <3>1, <3>2 DEF Owes
  <2>3. CASE j = k /\ t # "execute"
    <3>1. CloseOf(r) \notin Range(tasks[k][t].calls)
      BY <1>2 DEF Range
    <3>2. knock[k].state \in {"active", "done"}
      BY <1>2, <2>3 DEF TaskShape
    <3> QED
      BY <1>2, <1>4, <2>3, <3>1, <3>2 DEF Owes
  <2> QED
    BY <2>1, <2>2, <2>3
<1> QED
  BY <1>3, <1>4 DEF WideAreOwed

LEMMA CloseKeepsWide ==
    ASSUME Shape, WideAreOwed, NEW k \in Txs, NEW t \in {"close", "shutdown"}, CloseBy(k, t),
           UNCHANGED <<activeFile, rules>>
    PROVE  Shape' /\ WideAreOwed'
<1> DEFINE T == [ip |-> NoIp, calls |-> Calls("close", CloseSource(k))]
<1>1. /\ knock[k].state = "active" /\ tasks' = [tasks EXCEPT ![k][t] = T]
      /\ knock' = [knock EXCEPT ![k].timer = FALSE, ![k].poller = FALSE, ![k].tail = FALSE]
  BY DEF CloseBy, Start
<1>2. t \in TaskNames \ {"execute"} /\ t \notin Transitions
  BY DEF TaskNames, Transitions
<1>3. CloseSource(k) \in Sources
  BY DEF CloseSource, Shape, ActiveKnock, Sources
<1>4. T \in Task /\ \A c \in Range(T.calls) : c.op = "close"
  BY <1>3, CallsAreCalls DEF Task
<1>5. knock[k].login = NoIp => Range(Calls("close", knock[k].source)) \subseteq Range(T.calls)
  BY DEF CloseSource
<1>6. DOMAIN tasks' = Txs /\ \A j \in Txs : DOMAIN tasks'[j] = TaskNames
  BY <1>1, <1>2 DEF Shape
<1> HIDE DEF T
<1>7. /\ knock' \in [Txs -> ActiveKnock]
      /\ \A j \in Txs : Kept(j)
  <2>1. /\ DOMAIN knock' = Txs /\ \A j \in Txs : j # k => knock'[j] = knock[j]
        /\ knock'[k] = [knock[k] EXCEPT !.timer = FALSE, !.poller = FALSE, !.tail = FALSE]
        /\ knock' = [j \in Txs |-> knock'[j]]
    BY <1>1 DEF Shape
  <2>2. knock'[k] \in ActiveKnock /\ Kept(k)
    <3>1. knock[k] \in ActiveKnock
      BY DEF Shape
    <3>2. /\ knock'[k] \in ActiveKnock
          /\ knock'[k].state = knock[k].state /\ knock'[k].source = knock[k].source
          /\ knock'[k].login = knock[k].login
      BY <2>1, <3>1, Muted, Zenon
    <3> QED
      BY <3>2 DEF Kept
  <2>3. \A j \in Txs : knock'[j] \in ActiveKnock /\ Kept(j)
    BY <2>1, <2>2 DEF Shape, Kept
  <2> QED
    BY <2>1, <2>3
<1>8. (\A j \in Txs, u \in TaskNames : TaskShape(j, u))' /\ WideAreOwed'
  <2>1. /\ \A c \in Range(T.calls) : /\ c.op = "open" => c.rule[2] \in Ips
                                     /\ t \in {"close", "shutdown"} => c.op = "close"
        /\ t \in Transitions => T.ip \in Ips
    BY <1>2, <1>4
  <2>2. T \in Task /\ (\A j \in Txs : Kept(j)) /\ UNCHANGED rules
    BY <1>4, <1>7
  <2>3. /\ knock[k].state = "active" /\ tasks'[k][t] = T
        /\ \A j \in Txs, u \in TaskNames : j # k \/ u # t => tasks'[j][u] = tasks[j][u]
    BY <1>1, <1>2 DEF Shape
  <2> QED
    BY <1>2, <1>5, <2>1, <2>2, <2>3, StartKeepsWide
<1> QED
  BY <1>6, <1>7, <1>8 DEF Shape, Kept

LEMMA TransitionKeepsWide ==
    ASSUME Shape, WideAreOwed, NEW k \in Txs, NEW t \in Transitions, NEW ip \in Ips,
           Transition(k, t, ip), activeFile' \in Ips \cup {NoIp}, UNCHANGED <<knock, rules>>
    PROVE  Shape' /\ WideAreOwed'
<1> DEFINE T == [ip |-> ip, calls |-> TransitionCalls(k, ip)]
<1>1. CASE UNCHANGED tasks
  BY <1>1 DEF Shape, TaskShape, WideAreOwed, Owes
<1>2. CASE knock[k].state = "active" /\ Start(k, t, ip, TransitionCalls(k, ip))
  <2>1. tasks' = [tasks EXCEPT ![k][t] = T]
    BY <1>2 DEF Start
  <2>2. t \in TaskNames \ {"execute"} /\ t \notin {"close", "shutdown"}
    BY DEF TaskNames, Transitions
  <2>3. ip \in Sources /\ knock[k].source \in Sources
    BY DEF Shape, ActiveKnock, Sources
  <2>4. /\ T \in Task
        /\ Range(T.calls) = Range(Calls("close", knock[k].source)) \cup Range(Calls("open", ip))
    BY TransitionsAreCalls DEF Task
  <2>5. \A c \in Range(T.calls) : c.op = "open" => c.rule[2] \in Ips
    BY <2>3, <2>4, CallsAreCalls
  <2>6. /\ DOMAIN tasks' = Txs /\ \A j \in Txs : DOMAIN tasks'[j] = TaskNames
        /\ tasks'[k][t] = T
        /\ \A j \in Txs, u \in TaskNames : j # k \/ u # t => tasks'[j][u] = tasks[j][u]
    BY <2>1, <2>2 DEF Shape
  <2>7. \A j \in Txs : Kept(j)
    BY DEF Kept
  <2>8. T.ip \in Ips
    OBVIOUS
  <2> HIDE DEF T
  <2>9. (\A j \in Txs, u \in TaskNames : TaskShape(j, u))' /\ WideAreOwed'
    BY <1>2, <2>2, <2>4, <2>5, <2>6, <2>7, <2>8, StartKeepsWide
  <2> QED
    BY <2>6, <2>9 DEF Shape
<1> QED
  BY <1>1, <1>2 DEF Transition

LEMMA EndsKeepWide ==
    ASSUME Shape, WideAreOwed, NEW k \in Txs, NEW t \in TaskNames,
           Executed(k) \/ Transitioned(k, t) \/ Closed(k, t)
    PROVE  Shape' /\ WideAreOwed'
<1>1. CASE Executed(k)
  <2>1. /\ Ready(k, "execute") /\ tasks' = [tasks EXCEPT ![k]["execute"] = NoTask]
        /\ "execute" \in TaskNames /\ UNCHANGED rules
    BY <1>1 DEF Executed, TaskNames
  <2>2. knock[k].state = "opening"
    BY <2>1 DEF Ready, Shape, TaskShape
  <2>3. knock' = [knock EXCEPT ![k] = Tracked(k)] /\ activeFile' = NoIp
    BY <1>1, <2>2 DEF Executed
  <2>4. /\ Tracked(k) \in ActiveKnock
        /\ Tracked(k).state = "active" /\ Tracked(k).source = knock[k].source
        /\ Tracked(k).login = knock[k].login
    <3>1. knock[k] \in ActiveKnock /\ (SshPort \in Range(Ports)) \in BOOLEAN
      BY DEF Shape
    <3> QED
      BY <3>1, Activated, Zenon DEF Tracked
  <2>5. /\ knock' \in [Txs -> ActiveKnock]
        /\ knock'[k] = Tracked(k) /\ \A j \in Txs : j # k => knock'[j] = knock[j]
    BY <2>3, <2>4 DEF Shape
  <2>6. DOMAIN tasks' = Txs /\ \A j \in Txs : DOMAIN tasks'[j] = TaskNames
    BY <2>1 DEF Shape
  <2>7. (\A j \in Txs, u \in TaskNames : TaskShape(j, u))' /\ WideAreOwed'
    BY <2>1, <2>4, <2>5, EndKeepsWide
  <2> QED
    BY <2>1, <2>3, <2>4, <2>5, <2>6, <2>7 DEF Shape
<1>2. CASE Transitioned(k, t)
  <2>1. /\ t \in Transitions /\ t # "execute" /\ Ready(k, t) /\ UNCHANGED <<rules, activeFile>>
        /\ knock' = [knock EXCEPT ![k].timer = FALSE, ![k].login = tasks[k][t].ip,
                                  ![k].tail = FALSE]
        /\ tasks' = [tasks EXCEPT ![k][t] = NoTask]
    BY <1>2 DEF Transitioned, Transitions
  <2>2. tasks[k][t].ip \in Ips /\ knock[k].state \in {"active", "done"}
    BY <2>1 DEF Ready, Shape, TaskShape
  <2>3. /\ knock' \in [Txs -> ActiveKnock]
        /\ knock'[k].state = knock[k].state /\ knock'[k].source = knock[k].source
        /\ \A j \in Txs : j # k => knock'[j] = knock[j]
    <3>1. /\ DOMAIN knock' = Txs /\ \A j \in Txs : j # k => knock'[j] = knock[j]
          /\ knock'[k] = [knock[k] EXCEPT !.timer = FALSE, !.login = tasks[k][t].ip,
                                          !.tail = FALSE]
          /\ knock' = [j \in Txs |-> knock'[j]]
      BY <2>1 DEF Shape
    <3>2. /\ knock'[k] \in ActiveKnock
          /\ knock'[k].state = knock[k].state /\ knock'[k].source = knock[k].source
      <4>1. knock[k] \in ActiveKnock /\ tasks[k][t].ip \in Ips \cup {NoIp}
        BY <2>2 DEF Shape
      <4> QED
        BY <3>1, <4>1, LoggedIn, Zenon
    <3> QED
      BY <3>1, <3>2 DEF Shape
  <2>4. DOMAIN tasks' = Txs /\ \A j \in Txs : DOMAIN tasks'[j] = TaskNames
    BY <2>1 DEF Shape
  <2>5. (\A j \in Txs, u \in TaskNames : TaskShape(j, u))' /\ WideAreOwed'
    BY <2>1, <2>3, EndKeepsWide
  <2> QED
    BY <2>1, <2>2, <2>3, <2>4, <2>5 DEF Shape
<1>3. CASE Closed(k, t)
  <2>1. /\ t # "execute" /\ Ready(k, t) /\ UNCHANGED rules /\ activeFile' = NoIp
        /\ knock' = [knock EXCEPT ![k].state = "done"]
        /\ tasks' = [tasks EXCEPT ![k][t] = NoTask]
    BY <1>3 DEF Closed
  <2>2. /\ knock' \in [Txs -> ActiveKnock]
        /\ knock'[k].state = "done" /\ knock'[k].source = knock[k].source
        /\ \A j \in Txs : j # k => knock'[j] = knock[j]
    BY <2>1 DEF Shape, ActiveKnock, States
  <2>3. DOMAIN tasks' = Txs /\ \A j \in Txs : DOMAIN tasks'[j] = TaskNames
    BY <2>1 DEF Shape
  <2>4. (\A j \in Txs, u \in TaskNames : TaskShape(j, u))' /\ WideAreOwed'
    BY <2>1, <2>2, EndKeepsWide
  <2> QED
    BY <2>1, <2>2, <2>3, <2>4 DEF Shape
<1> QED
  BY <1>1, <1>2, <1>3

LEMMA DieKeepsWide ==
    ASSUME Shape, WideAreOwed, Die
    PROVE  Shape' /\ WideAreOwed'
<1>1. /\ tasks' = [k \in Txs |-> [t \in TaskNames |-> NoTask]]
      /\ knock' = [k \in Txs |-> [knock[k] EXCEPT
            !.state = IF @ \in {"opening", "active"} THEN "lost" ELSE @,
            !.timer = FALSE, !.poller = FALSE, !.tail = FALSE]]
      /\ UNCHANGED <<activeFile, rules>>
  BY DEF Die
<1>2. ASSUME NEW k \in Txs
      PROVE  /\ knock'[k] \in ActiveKnock
             /\ knock'[k].state = IF knock[k].state \in {"opening", "active"} THEN "lost"
                                  ELSE knock[k].state
             /\ knock'[k].source = knock[k].source /\ knock'[k].login = knock[k].login
  <2>1. knock[k] \in ActiveKnock
    BY DEF Shape
  <2>2. knock'[k] = [knock[k] EXCEPT
            !.state = IF @ \in {"opening", "active"} THEN "lost" ELSE @,
            !.timer = FALSE, !.poller = FALSE, !.tail = FALSE]
    BY <1>1
  <2> QED
    BY <2>1, <2>2 DEF ActiveKnock, States
<1>3. knock' \in [Txs -> ActiveKnock]
  BY <1>1, <1>2
<1>4. Shape'
  <2>1. \A k \in Txs, t \in TaskNames : tasks'[k][t] = NoTask
    BY <1>1
  <2>2. \A k \in Txs, t \in TaskNames : TaskShape(k, t)'
    BY <2>1 DEF TaskShape
  <2>3. DOMAIN tasks' = Txs /\ \A k \in Txs : DOMAIN tasks'[k] = TaskNames
    BY <1>1
  <2>4. \A k \in Txs : knock'[k].state \in {"new", "opening"} => knock'[k].login = NoIp
    BY <1>2 DEF Shape
  <2>5. activeFile' \in Ips \cup {NoIp} /\ rules' \subseteq Rules
    BY <1>1 DEF Shape
  <2> QED
    BY <1>3, <2>2, <2>3, <2>4, <2>5, Zenon DEF Shape
<1>5. \A r \in rules, k \in Txs : Owes(k, r) => Owes(k, r)'
  BY <1>2, SMTT(30) DEF Owes
<1> QED
  BY <1>1, <1>4, <1>5 DEF WideAreOwed

(* Calls fail, they do not unfail.                                           *)
LEMMA NextFaults ==
    ASSUME [KnockNext]_knockVars
    PROVE  failures' = failures \/ failures' = failures + 1
<1>1. CASE LoginLife \/ ProcessLife \/ UNCHANGED knockVars
  BY <1>1 DEF knockVars, history, LoginLife, GoAway, TouchActive, ProcessLife, Stop, AllClosed,
              Die, Respawn, CloseNext
<1>2. ASSUME NEW k \in Txs, Session(k)
      PROVE  failures' = failures \/ failures' = failures + 1
  <2>1. ASSUME NEW t \in TaskNames, Step(k, t)
        PROVE  failures' = failures \/ failures' = failures + 1
    BY <2>1 DEF Step, Answered, Failed, CutOff
  <2>2. ASSUME NEW t \in TaskNames, Transitioned(k, t) \/ Closed(k, t)
        PROVE  failures' = failures
    BY <2>2 DEF Transitioned, Closed, history
  <2>3. CASE Executed(k)
    BY <2>3 DEF Executed, history
  <2> QED
    BY <1>2, <2>1, <2>2, <2>3, SMTT(30)
       DEF Session, Timeout, HeartbeatBeforeLogin, HeartbeatAfterLogin
<1>3. ASSUME NEW k \in Txs, NEW source \in Filters, Execute(k, source)
      PROVE  failures' = failures
  BY <1>3 DEF Execute
<1>4. ASSUME NEW k \in Txs, NEW ip \in Ips, AuthLog(k, ip)
      PROVE  failures' = failures
  BY <1>4 DEF AuthLog
<1> QED
  BY <1>1, <1>2, <1>3, <1>4, Zenon DEF KnockNext

LEMMA NextWide == Wide /\ [KnockNext]_knockVars => Wide'
<1> SUFFICES ASSUME Wide, [KnockNext]_knockVars
             PROVE  Wide'
  OBVIOUS
<1>1. failures' \in Nat /\ (failures' = 0 => failures = 0)
  BY NextFaults DEF Wide
<1> SUFFICES ASSUME failures = 0, failures' = 0
             PROVE  Shape' /\ WideAreOwed'
  BY <1>1 DEF Wide
<1>2. Shape /\ WideAreOwed
  BY DEF Wide
<1>3. ASSUME UNCHANGED <<knock, tasks, rules>>, activeFile' \in Ips \cup {NoIp}
      PROVE  Shape' /\ WideAreOwed'
  BY <1>2, <1>3 DEF Shape, TaskShape, WideAreOwed, Owes
<1>4. CASE LoginLife
  BY <1>2, <1>3, <1>4 DEF LoginLife, GoAway, TouchActive, Shape
<1>5. CASE ProcessLife
  <2>1. CASE Stop \/ AllClosed \/ Respawn
    BY <1>2, <1>3, <2>1 DEF Stop, AllClosed, Respawn, Shape
  <2>2. CASE \E k \in Txs : CloseNext(k)
    BY <1>2, <2>2, CloseKeepsWide DEF CloseNext
  <2> QED
    BY <1>2, <1>5, <2>1, <2>2, DieKeepsWide DEF ProcessLife
<1>6. ASSUME NEW k \in Txs, Session(k)
      PROVE  Shape' /\ WideAreOwed'
  <2>1. CASE Executed(k) \/ \E t \in TaskNames : Transitioned(k, t) \/ Closed(k, t)
    BY <1>2, <2>1, EndsKeepWide DEF TaskNames
  <2>2. ASSUME NEW t \in TaskNames, Step(k, t)
        PROVE  Shape' /\ WideAreOwed'
    <3>1. Answered(k, t)
      BY <2>2 DEF Step, Failed, CutOff
    <3> QED
      BY <1>2, <2>2, <3>1, AnswerKeepsWide DEF Step
  <2>3. CASE Timeout(k) \/ HeartbeatAfterLogin(k)
    BY <1>2, <2>3, CloseKeepsWide DEF Timeout, HeartbeatAfterLogin, Close
  <2>4. CASE HeartbeatBeforeLogin(k)
    <3>1. /\ Transition(k, "heartbeat", activeFile) /\ activeFile \in Ips
          /\ UNCHANGED <<knock, activeFile, rules>> /\ "heartbeat" \in Transitions
      BY <1>2, <2>4 DEF HeartbeatBeforeLogin, Shape, Transitions
    <3> QED
      BY <1>2, <3>1, TransitionKeepsWide
  <2> QED
    BY <1>6, <2>1, <2>2, <2>3, <2>4 DEF Session
<1>7. ASSUME NEW k \in Txs, NEW source \in Filters, Execute(k, source)
      PROVE  Shape' /\ WideAreOwed'
  BY <1>2, <1>7, ExecuteKeepsWide
<1>8. ASSUME NEW k \in Txs, NEW ip \in Ips, AuthLog(k, ip)
      PROVE  Shape' /\ WideAreOwed'
  <2>1. /\ Transition(k, "authlog", ip) /\ activeFile' = ip /\ UNCHANGED <<knock, rules>>
        /\ "authlog" \in Transitions
    BY <1>8 DEF AuthLog, Transitions
  <2> QED
    BY <1>2, <2>1, TransitionKeepsWide
<1>9. CASE UNCHANGED knockVars
  BY <1>2, <1>3, <1>9 DEF knockVars, Shape
<1> QED
  BY <1>4, <1>5, <1>6, <1>7, <1>8, <1>9 DEF KnockNext

(* knock.ts 109-112, 281-285 and 406-411: for any number of sessions that    *)
(* share ports and heartbeat file, and any order of their timers, logins,    *)
(* closes and of the end of the process, sessions that have all been closed  *)
(* have left no port open to everyone.                                       *)
THEOREM NoPortStaysWide == KnockSpec => []WideRulesClosed
<1>1. Wide => WideRulesClosed
  BY DEF Wide, WideAreOwed, Owes, WideRulesClosed
<1>2. KnockInit => Wide
  BY InitWide DEF Wide, KnockInit
<1> QED
  BY <1>1, <1>2, NextWide, PTL DEF KnockSpec

-----------------------------------------------------------------------------
(* What the firewall will be when a function's calls have been answered: a   *)
(* rule is open if its last call opens it, or if it is open now and no call  *)
(* closes it.                                                                *)

OpenOf(r) == [op |-> "open", rule |-> r]
Unclosed(calls, r) == \A i \in DOMAIN calls : calls[i] # CloseOf(r)
Reopened(calls, r) ==
    \E i \in DOMAIN calls :
        calls[i] = OpenOf(r) /\ \A j \in DOMAIN calls : j > i => calls[j] # CloseOf(r)

After(rs, calls) ==
    {r \in Rules : Reopened(calls, r) \/ (r \in rs /\ Unclosed(calls, r))}

LEMMA AfterNothing ==
    ASSUME NEW rs \in SUBSET Rules
    PROVE  After(rs, <<>>) = rs
<1>1. \A r \in Rules : Unclosed(<<>>, r) /\ ~Reopened(<<>>, r)
  BY DEF Unclosed, Reopened
<1> QED
  BY <1>1 DEF After

LEMMA AfterAnswer ==
    ASSUME NEW rs \in SUBSET Rules, NEW calls \in Seq(Call), calls # <<>>, NEW then,
           then = IF Head(calls).op = "open" THEN rs \cup {Head(calls).rule}
                                           ELSE rs \ {Head(calls).rule}
    PROVE  After(then, Tail(calls)) = After(rs, calls)
<1> DEFINE c == Head(calls)
           rest == Tail(calls)
<1>1. /\ Len(calls) \in Nat /\ Len(calls) >= 1 /\ DOMAIN calls = 1..Len(calls)
      /\ c = calls[1] /\ c \in Call /\ DOMAIN rest = 1..Len(calls) - 1
      /\ \A i \in 1..Len(calls) - 1 : rest[i] = calls[i + 1]
  BY EmptySeq
<1> HIDE DEF c, rest
<1>2. ASSUME NEW r \in Rules
      PROVE  /\ Unclosed(calls, r) <=> c # CloseOf(r) /\ Unclosed(rest, r)
             /\ Reopened(calls, r) <=> Reopened(rest, r) \/ (c = OpenOf(r) /\ Unclosed(rest, r))
             /\ r \in then <=> c = OpenOf(r) \/ (r \in rs /\ c # CloseOf(r))
  <2>1. ASSUME Unclosed(calls, r)
        PROVE  c # CloseOf(r) /\ Unclosed(rest, r)
    BY <1>1, <2>1 DEF Unclosed
  <2>2. \A i \in 1..Len(calls) : i = 1 \/ (i - 1 \in 1..Len(calls) - 1 /\ calls[i] = rest[i - 1])
    BY <1>1
  <2>3. ASSUME c # CloseOf(r), Unclosed(rest, r)
        PROVE  Unclosed(calls, r)
    BY <1>1, <2>2, <2>3 DEF Unclosed
  <2>4. ASSUME Reopened(calls, r), c # OpenOf(r) \/ ~Unclosed(rest, r)
        PROVE  Reopened(rest, r)
    <3>1. PICK i \in 1..Len(calls) : /\ calls[i] = OpenOf(r)
                                     /\ \A j \in 1..Len(calls) : j > i => calls[j] # CloseOf(r)
      BY <1>1, <2>4 DEF Reopened
    <3>2. i # 1
      <4>1. ASSUME i = 1
            PROVE  FALSE
        <5>1. Unclosed(rest, r)
          BY <1>1, <3>1, <4>1 DEF Unclosed
        <5> QED
          BY <1>1, <2>4, <3>1, <4>1, <5>1
      <4> QED
        BY <4>1
    <3>3. i - 1 \in 1..Len(calls) - 1 /\ rest[i - 1] = OpenOf(r)
      BY <2>2, <3>1, <3>2
    <3>4. \A j \in 1..Len(calls) - 1 : j > i - 1 => rest[j] # CloseOf(r)
      BY <1>1, <3>1
    <3> QED
      BY <1>1, <3>3, <3>4 DEF Reopened
  <2>5. ASSUME Reopened(rest, r)
        PROVE  Reopened(calls, r)
    <3>1. PICK i \in 1..Len(calls) - 1 : /\ rest[i] = OpenOf(r)
                                         /\ \A j \in 1..Len(calls) - 1 : j > i => rest[j] # CloseOf(r)
      BY <1>1, <2>5 DEF Reopened
    <3>2. i + 1 \in 1..Len(calls) /\ calls[i + 1] = OpenOf(r)
      BY <1>1, <3>1
    <3>3. \A j \in 1..Len(calls) : j > i + 1 => calls[j] # CloseOf(r)
      BY <1>1, <2>2, <3>1
    <3> QED
      BY <1>1, <3>2, <3>3 DEF Reopened
  <2>6. ASSUME c = OpenOf(r), Unclosed(rest, r)
        PROVE  Reopened(calls, r)
    <3>1. \A j \in 1..Len(calls) : j > 1 => calls[j] # CloseOf(r)
      BY <1>1, <2>2, <2>6 DEF Unclosed
    <3>2. 1 \in DOMAIN calls /\ calls[1] = OpenOf(r)
      BY <1>1, <2>6
    <3>3. \A j \in DOMAIN calls : j > 1 => calls[j] # CloseOf(r)
      BY <1>1, <3>1
    <3> QED
      BY <3>2, <3>3, Zenon DEF Reopened
  <2>7. r \in then <=> c = OpenOf(r) \/ (r \in rs /\ c # CloseOf(r))
    <3>1. then = IF c.op = "open" THEN rs \cup {c.rule} ELSE rs \ {c.rule}
      BY DEF c
    <3>2. c = [op |-> c.op, rule |-> c.rule] /\ c.op \in {"open", "close"}
      BY <1>1 DEF Call
    <3> QED
      BY <3>1, <3>2 DEF OpenOf, CloseOf
  <2> QED
    BY <2>1, <2>3, <2>4, <2>5, <2>6, <2>7
<1> QED
  BY <1>2 DEF After, rest

(* The rules of all ports for one source.                                    *)
Row(source) == Range(Ports) \X {source}

LEMMA RowIsCalled ==
    ASSUME NEW source \in Sources, NEW r \in Row(source)
    PROVE  /\ r \in Rules
           /\ \E i \in DOMAIN Ports : /\ Calls("open", source)[i] = OpenOf(r)
                                      /\ Calls("close", source)[i] = CloseOf(r)
<1>1. PICK i \in DOMAIN Ports : r = <<Ports[i], source>>
  BY DEF Row, Range
<1>2. /\ Calls("open", source)[i] = OpenOf(r) /\ Calls("close", source)[i] = CloseOf(r)
  BY <1>1 DEF Calls, OpenOf, CloseOf
<1> QED
  BY <1>1, <1>2 DEF Row, Rules, Sources

LEMMA AfterOpening ==
    ASSUME NEW source \in Sources
    PROVE  After({}, Calls("open", source)) = Row(source)
<1> DEFINE a == Calls("open", source)
<1>1. /\ DOMAIN a = DOMAIN Ports
      /\ \A i \in DOMAIN Ports : a[i] = [op |-> "open", rule |-> <<Ports[i], source>>]
  BY CallsAreCalls
<1>2. \A r \in Row(source) : r \in Rules /\ \E i \in DOMAIN Ports : a[i] = OpenOf(r)
  BY RowIsCalled
<1> HIDE DEF a
<1>3. ASSUME NEW r \in Rules, Reopened(a, r)
      PROVE  r \in Row(source)
  <2>1. PICK i \in DOMAIN Ports : a[i] = OpenOf(r)
    BY <1>1, <1>3 DEF Reopened
  <2>2. r = <<Ports[i], source>>
    BY <1>1, <2>1 DEF OpenOf
  <2> QED
    BY <2>2 DEF Row, Range
<1>4. ASSUME NEW r \in Row(source)
      PROVE  r \in Rules /\ Reopened(a, r)
  <2>1. PICK i \in DOMAIN Ports : a[i] = OpenOf(r)
    BY <1>2
  <2>2. \A j \in DOMAIN a : a[j] # CloseOf(r)
    BY <1>1 DEF CloseOf
  <2> QED
    BY <1>1, <1>2, <2>1, <2>2 DEF Reopened
<1> QED
  BY <1>3, <1>4 DEF After, a

LEMMA AfterClosing ==
    ASSUME NEW source \in Sources
    PROVE  After(Row(source), Calls("close", source)) = {}
<1> DEFINE a == Calls("close", source)
<1>1. /\ DOMAIN a = DOMAIN Ports
      /\ \A i \in DOMAIN Ports : a[i] = [op |-> "close", rule |-> <<Ports[i], source>>]
  BY CallsAreCalls
<1>2. \A r \in Row(source) : \E i \in DOMAIN Ports : a[i] = CloseOf(r)
  BY RowIsCalled
<1> HIDE DEF a
<1>3. \A r \in Rules : ~Reopened(a, r)
  BY <1>1 DEF Reopened, OpenOf
<1>4. \A r \in Row(source) : ~Unclosed(a, r)
  BY <1>1, <1>2 DEF Unclosed
<1> QED
  BY <1>3, <1>4 DEF After, a

LEMMA AfterNarrowing ==
    ASSUME NEW source \in Sources, NEW ip \in Sources
    PROVE  After(Row(source), Calls("close", source) \o Calls("open", ip)) = Row(ip)
<1> DEFINE a == Calls("close", source)
           b == Calls("open", ip)
           s == a \o b
           n == Len(Ports)
<1>1. /\ DOMAIN Ports = 1..n /\ n \in Nat
      /\ a \in Seq(Call) /\ b \in Seq(Call) /\ DOMAIN a = 1..n /\ DOMAIN b = 1..n
      /\ \A i \in 1..n : /\ a[i] = [op |-> "close", rule |-> <<Ports[i], source>>]
                         /\ b[i] = [op |-> "open", rule |-> <<Ports[i], ip>>]
  BY CallsAreCalls, KnockConstants
<1>2. Len(a) = n /\ Len(b) = n
  BY <1>1
<1> HIDE DEF a, b, n
<1>3. /\ a \o b \in Seq(Call) /\ Len(a \o b) = n + n
      /\ \A i \in 1..n + n : (a \o b)[i] = IF i <= n THEN a[i] ELSE b[i - n]
  <2>1. Len(a) \in Nat /\ Len(b) \in Nat /\ Len(a) = n /\ Len(b) = n
    BY <1>1, <1>2
  <2>2. a \o b \in Seq(Call) /\ Len(a \o b) = Len(a) + Len(b)
    BY <1>1
  <2>3. \A i \in 1..Len(a) + Len(b) : (a \o b)[i] = IF i <= Len(a) THEN a[i] ELSE b[i - Len(a)]
    BY <1>1
  <2> QED
    BY <2>1, <2>2, <2>3
<1>4. DOMAIN s = 1..n + n
  BY <1>3
<1>5. \A i \in 1..n + n : s[i] = IF i <= n THEN a[i] ELSE b[i - n]
  BY <1>3
<1> HIDE DEF s
<1>6. ASSUME NEW r \in Rules, Reopened(s, r)
      PROVE  r \in Row(ip)
  <2>1. PICK i \in 1..n + n : s[i] = OpenOf(r)
    BY <1>4, <1>5, <1>6 DEF Reopened
  <2>2. ~(i <= n)
    BY <1>1, <1>4, <1>5, <2>1 DEF OpenOf
  <2>3. i - n \in 1..n /\ b[i - n] = OpenOf(r)
    BY <1>1, <1>4, <1>5, <2>1, <2>2
  <2>4. r = <<Ports[i - n], ip>>
    BY <1>1, <2>3 DEF OpenOf
  <2> QED
    BY <1>1, <2>3, <2>4 DEF Row, Range
<1>7. ASSUME NEW r \in Row(source)
      PROVE  ~Unclosed(s, r)
  <2>1. PICK i \in 1..n : a[i] = CloseOf(r)
    BY <1>1, RowIsCalled DEF a
  <2>2. i \in 1..n + n /\ s[i] = CloseOf(r)
    BY <1>1, <1>4, <1>5, <2>1
  <2> QED
    BY <1>4, <1>5, <2>2 DEF Unclosed
<1>8. ASSUME NEW r \in Row(ip)
      PROVE  r \in Rules /\ Reopened(s, r)
  <2>1. PICK i \in 1..n : b[i] = OpenOf(r)
    BY <1>1, RowIsCalled DEF b
  <2>2. i + n \in 1..n + n /\ s[i + n] = OpenOf(r)
    BY <1>1, <1>4, <1>5, <2>1
  <2>3. ASSUME NEW j \in 1..n + n, j > i + n
        PROVE  s[j] # CloseOf(r)
    <3>1. j - n \in 1..n /\ s[j] = b[j - n]
      BY <1>1, <1>4, <1>5, <2>1, <2>3
    <3> QED
      BY <1>1, <3>1 DEF CloseOf
  <2> QED
    BY <1>4, <1>5, <2>2, <2>3, RowIsCalled DEF Reopened
<1> QED
  BY <1>6, <1>7, <1>8 DEF After, s, a, b

-----------------------------------------------------------------------------
(* One session: between its functions the firewall is as the session says,   *)
(* and while one is in flight its calls are leading there.                   *)

Target(k, t) ==
    IF t = "execute" THEN Row(knock[k].source)
    ELSE IF t \in Transitions THEN Row(tasks[k][t].ip)
    ELSE {}

Settled(k) == (\A t \in TaskNames : tasks[k][t] = NoTask) /\ rules = Opened(k)

Busy(k, t) ==
    /\ tasks[k][t] # NoTask /\ \A u \in TaskNames : u # t => tasks[k][u] = NoTask
    /\ After(rules, tasks[k][t].calls) = Target(k, t)
    /\ t # "execute" => knock[k].state = "active"

Led(k) == Settled(k) \/ \E t \in TaskNames : Busy(k, t)

Matched(k) == failures = 0 /\ ~overlapped /\ knock[k].state # "lost" => Led(k)

LEMMA OpenedIsRow ==
    ASSUME NEW k, knock[k].state = "active"
    PROVE  Opened(k) = Row(CloseSource(k))
BY DEF Opened, Row, CloseSource

(* Alone, a function that starts finds the firewall as the session says.     *)
LEMMA FirstIsSettled ==
    ASSUME NEW k \in Txs, Fires, ~overlapped', failures = 0, knock[k].state # "lost", Matched(k)
    PROVE  Settled(k)
<1>1. ~overlapped /\ Idle
  BY DEF Fires
<1> QED
  BY <1>1 DEF Matched, Led, Busy, Idle

LEMMA StartLeads ==
    ASSUME NEW k \in Txs, NEW t \in TaskNames, NEW T \in Task, Settled(k),
           tasks'[k][t] = T, \A u \in TaskNames : u # t => tasks'[k][u] = tasks[k][u],
           After(rules, T.calls) = Target(k, t)', UNCHANGED rules,
           t # "execute" => knock'[k].state = "active"
    PROVE  Led(k)'
<1>1. T # NoTask
  BY KnockConstants
<1>2. Busy(k, t)'
  BY <1>1 DEF Settled, Busy
<1> QED
  BY <1>2 DEF Led

LEMMA ExecuteLeads ==
    ASSUME Shape, NEW k \in Txs, NEW source \in Filters, Execute(k, source), Settled(k)
    PROVE  Led(k)'
<1> DEFINE T == [ip |-> NoIp, calls |-> Calls("open", source)]
<1>1. /\ knock[k].state = "new" /\ tasks' = [tasks EXCEPT ![k]["execute"] = T]
      /\ knock' = [knock EXCEPT ![k].state = "opening", ![k].source = source]
      /\ UNCHANGED rules
  BY DEF Execute, Start
<1>2. source \in Sources /\ "execute" \in TaskNames
  BY KnockConstants DEF Sources, TaskNames
<1>3. T \in Task
  BY <1>2, CallsAreCalls DEF Task
<1>4. rules = {}
  BY <1>1 DEF Settled, Opened
<1>5. knock'[k].source = source
  BY <1>1 DEF Shape, ActiveKnock
<1>6. After(rules, T.calls) = Row(source)
  BY <1>2, <1>4, AfterOpening
<1> HIDE DEF T
<1>7. /\ tasks'[k]["execute"] = T
      /\ \A u \in TaskNames : u # "execute" => tasks'[k][u] = tasks[k][u]
  BY <1>1, <1>2 DEF Shape
<1>8. Target(k, "execute")' = Row(source)
  BY <1>5 DEF Target
<1> QED
  BY <1>1, <1>2, <1>3, <1>6, <1>7, <1>8, StartLeads

LEMMA CloseLeads ==
    ASSUME Shape, NEW k \in Txs, NEW t \in {"close", "shutdown"}, CloseBy(k, t), Settled(k),
           UNCHANGED rules
    PROVE  Led(k)'
<1> DEFINE T == [ip |-> NoIp, calls |-> Calls("close", CloseSource(k))]
<1>1. /\ knock[k].state = "active" /\ tasks' = [tasks EXCEPT ![k][t] = T]
      /\ knock' = [knock EXCEPT ![k].timer = FALSE, ![k].poller = FALSE, ![k].tail = FALSE]
  BY DEF CloseBy, Start
<1>2. t \in TaskNames \ {"execute"} /\ t \notin Transitions
  BY DEF TaskNames, Transitions
<1>3. CloseSource(k) \in Sources
  BY DEF CloseSource, Shape, ActiveKnock, Sources
<1>4. T \in Task
  BY <1>3, CallsAreCalls DEF Task
<1>5. knock'[k].state = "active"
  BY <1>1 DEF Shape, ActiveKnock
<1>6. After(rules, T.calls) = {}
  BY <1>1, <1>3, OpenedIsRow, AfterClosing DEF Settled
<1> HIDE DEF T
<1>7. /\ tasks'[k][t] = T
      /\ \A u \in TaskNames : u # t => tasks'[k][u] = tasks[k][u]
  BY <1>1, <1>2 DEF Shape
<1>8. Target(k, t)' = {}
  BY <1>2 DEF Target
<1> QED
  BY <1>2, <1>4, <1>5, <1>6, <1>7, <1>8, StartLeads

LEMMA TransitionLeads ==
    ASSUME Shape, NEW k \in Txs, NEW t \in Transitions, NEW ip \in Ips,
           Transition(k, t, ip), Settled(k), UNCHANGED <<knock, rules>>
    PROVE  Led(k)'
<1> DEFINE T == [ip |-> ip, calls |-> TransitionCalls(k, ip)]
<1>1. CASE UNCHANGED tasks
  BY <1>1 DEF Led, Settled, Opened
<1>2. CASE /\ knock[k].state = "active" /\ knock[k].login = NoIp
           /\ Start(k, t, ip, TransitionCalls(k, ip))
  <2>1. tasks' = [tasks EXCEPT ![k][t] = T]
    BY <1>2 DEF Start
  <2>2. t \in TaskNames \ {"execute"}
    BY DEF TaskNames, Transitions
  <2>3. ip \in Sources /\ knock[k].source \in Sources
    BY DEF Shape, ActiveKnock, Sources
  <2>4. T \in Task /\ T.ip = ip
    BY TransitionsAreCalls DEF Task
  <2>5. rules = Row(knock[k].source)
    BY <1>2, OpenedIsRow DEF Settled, CloseSource
  <2>6. After(rules, T.calls) = Row(ip)
    BY <2>3, <2>5, AfterNarrowing DEF TransitionCalls
  <2> HIDE DEF T
  <2>7. /\ tasks'[k][t] = T
        /\ \A u \in TaskNames : u # t => tasks'[k][u] = tasks[k][u]
    BY <2>1, <2>2 DEF Shape
  <2>8. Target(k, t)' = Row(ip)
    BY <2>2, <2>4, <2>7 DEF Target
  <2> QED
    BY <1>2, <2>2, <2>4, <2>6, <2>7, <2>8, StartLeads
<1> QED
  BY <1>1, <1>2 DEF Transition

(* A function that only calls on has the same target, and one that ends has  *)
(* reached it.                                                               *)
LEMMA AnswerLeads ==
    ASSUME Shape, NEW k \in Txs, NEW t \in TaskNames, Led(k),
           tasks[k][t] # NoTask, tasks[k][t].calls # <<>>, Answered(k, t)
    PROVE  Led(k)'
<1> DEFINE T == tasks[k][t]
           rest == Tail(T.calls)
<1>1. Busy(k, t)
  BY DEF Led, Settled, Busy
<1>2. T \in Task /\ T.calls \in Seq(Call) /\ T.calls # <<>> /\ rules \subseteq Rules
  BY DEF Shape, TaskShape, Task
<1>3. /\ rules' = IF Head(T.calls).op = "open" THEN rules \cup {Head(T.calls).rule}
                  ELSE rules \ {Head(T.calls).rule}
      /\ tasks' = [tasks EXCEPT ![k][t].calls = rest]
      /\ knock' = knock
  BY DEF Answered
<1>4. After(rules', rest) = After(rules, T.calls)
  BY <1>2, <1>3, AfterAnswer
<1>5. /\ tasks'[k][t] = [T EXCEPT !.calls = rest]
      /\ \A u \in TaskNames : u # t => tasks'[k][u] = tasks[k][u]
  BY <1>3 DEF Shape
<1>6. rest \in Seq(Call)
  BY <1>2
<1>7. tasks'[k][t] \in Task /\ tasks'[k][t].ip = T.ip /\ tasks'[k][t].calls = rest
  BY <1>2, <1>5, <1>6 DEF Task
<1> HIDE DEF T, rest
<1>8. tasks'[k][t] # NoTask
  BY <1>7, KnockConstants
<1>9. Target(k, t)' = Target(k, t)
  BY <1>3, <1>7 DEF Target, T
<1>10. Busy(k, t)'
  BY <1>1, <1>3, <1>4, <1>5, <1>7, <1>8, <1>9 DEF Busy, T
<1> QED
  BY <1>10 DEF Led

LEMMA EndLeads ==
    ASSUME Shape, NEW k \in Txs, NEW t \in TaskNames, Led(k), Ready(k, t),
           tasks' = [tasks EXCEPT ![k][t] = NoTask], UNCHANGED rules,
           Opened(k)' = Target(k, t)
    PROVE  Led(k)'
<1>1. Busy(k, t)
  BY DEF Ready, Led, Settled, Busy
<1>2. \A u \in TaskNames : tasks'[k][u] = NoTask
  BY <1>1 DEF Shape, Busy
<1>3. rules = Target(k, t)
  BY <1>1, AfterNothing DEF Shape, Ready, Busy
<1> QED
  BY <1>2, <1>3 DEF Led, Settled

LEMMA EndsLead ==
    ASSUME Shape, NEW k \in Txs, NEW t \in TaskNames, Led(k),
           Executed(k) \/ Transitioned(k, t) \/ Closed(k, t)
    PROVE  Led(k)'
<1>1. CASE Executed(k)
  <2>1. /\ Ready(k, "execute") /\ tasks' = [tasks EXCEPT ![k]["execute"] = NoTask]
        /\ "execute" \in TaskNames /\ UNCHANGED rules
    BY <1>1 DEF Executed, TaskNames
  <2>2. knock[k].state = "opening" /\ knock[k].login = NoIp
    BY <2>1 DEF Ready, Shape, TaskShape
  <2>3. knock' = [knock EXCEPT ![k] = Tracked(k)]
    BY <1>1, <2>2 DEF Executed
  <2>4. /\ knock'[k].state = "active" /\ knock'[k].source = knock[k].source
        /\ knock'[k].login = NoIp
    BY <2>2, <2>3 DEF Tracked, Shape, ActiveKnock
  <2>5. Opened(k)' = Target(k, "execute")
    BY <2>4 DEF Opened, Target, Row
  <2> QED
    BY <2>1, <2>5, EndLeads
<1>2. CASE Transitioned(k, t)
  <2>1. /\ t \in Transitions /\ t # "execute" /\ Ready(k, t) /\ UNCHANGED rules
        /\ knock' = [knock EXCEPT ![k].timer = FALSE, ![k].login = tasks[k][t].ip,
                                  ![k].tail = FALSE]
        /\ tasks' = [tasks EXCEPT ![k][t] = NoTask]
    BY <1>2 DEF Transitioned, Transitions
  <2>2. Busy(k, t)
    BY <2>1 DEF Ready, Led, Settled, Busy
  <2>3. tasks[k][t].ip \in Ips /\ knock[k].state = "active"
    BY <2>1, <2>2 DEF Ready, Shape, TaskShape, Busy
  <2>4. knock'[k].state = "active" /\ knock'[k].login = tasks[k][t].ip
    BY <2>1, <2>3 DEF Shape, ActiveKnock
  <2>5. Opened(k)' = Target(k, t)
    BY <2>1, <2>3, <2>4, KnockConstants DEF Opened, Target, Row
  <2> QED
    BY <2>1, <2>5, EndLeads
<1>3. CASE Closed(k, t)
  <2>1. /\ t \in {"close", "shutdown"} /\ Ready(k, t) /\ UNCHANGED rules
        /\ knock' = [knock EXCEPT ![k].state = "done"]
        /\ tasks' = [tasks EXCEPT ![k][t] = NoTask]
    BY <1>3 DEF Closed
  <2>2. knock'[k].state = "done"
    BY <2>1 DEF Shape, ActiveKnock
  <2>3. Opened(k)' = Target(k, t)
    BY <2>1, <2>2 DEF Opened, Target, Transitions
  <2> QED
    BY <2>1, <2>3, EndLeads
<1> QED
  BY <1>1, <1>2, <1>3

(* A process that dies loses every session it was working on.                *)
LEMMA DieLeads ==
    ASSUME Shape, NEW k \in Txs, Led(k), Die, knock'[k].state # "lost"
    PROVE  Led(k)'
<1>1. /\ tasks' = [j \in Txs |-> [t \in TaskNames |-> NoTask]]
      /\ knock' = [j \in Txs |-> [knock[j] EXCEPT
            !.state = IF @ \in {"opening", "active"} THEN "lost" ELSE @,
            !.timer = FALSE, !.poller = FALSE, !.tail = FALSE]]
      /\ UNCHANGED rules
  BY DEF Die
<1>2. knock[k].state \notin {"opening", "active"} /\ knock'[k].state = knock[k].state
  BY <1>1 DEF Shape, ActiveKnock
<1>3. Settled(k)
  <2>1. \A t \in TaskNames : ~Busy(k, t)
    BY <1>2 DEF Busy, Shape, TaskShape
  <2> QED
    BY <2>1 DEF Led
<1>4. rules = {} /\ Opened(k)' = {}
  BY <1>2, <1>3 DEF Settled, Opened
<1> QED
  BY <1>1, <1>4 DEF Led, Settled

OneSession == \E k : Txs = {k}

LEMMA NextMatched ==
    ASSUME NEW k, Txs = {k}, Wide, Matched(k), [KnockNext]_knockVars
    PROVE  Matched(k)'
<1> SUFFICES ASSUME failures' = 0, ~overlapped', knock'[k].state # "lost"
             PROVE  Led(k)'
  BY DEF Matched
<1>1. failures = 0 /\ k \in Txs
  BY NextFaults DEF Wide
<1>2. Shape
  BY <1>1 DEF Wide
<1>3. ASSUME Fires, knock[k].state # "lost"
      PROVE  Settled(k)
  BY <1>1, <1>3, FirstIsSettled
<1>4. ASSUME UNCHANGED <<knock, tasks, rules, overlapped>>
      PROVE  Led(k)'
  <2>1. Led(k)
    BY <1>1, <1>4 DEF Matched
  <2> QED
    BY <1>4, <2>1 DEF Led, Settled, Busy, Opened, Target
<1>5. CASE LoginLife \/ UNCHANGED knockVars
  BY <1>4, <1>5 DEF LoginLife, GoAway, TouchActive, knockVars, history
<1>6. CASE ProcessLife
  <2>1. CASE Stop \/ AllClosed \/ Respawn
    BY <1>4, <2>1 DEF Stop, AllClosed, Respawn, history
  <2>2. CASE \E j \in Txs : CloseNext(j)
    <3>1. CloseNext(k)
      BY <2>2
    <3>2. Fires /\ CloseBy(k, "shutdown") /\ UNCHANGED rules /\ knock[k].state # "lost"
      BY <3>1 DEF CloseNext, CloseBy
    <3> QED
      BY <1>1, <1>2, <1>3, <3>2, CloseLeads
  <2>3. CASE Die
    <3>1. knock[k].state # "lost" /\ overlapped' = overlapped
      <4>1. /\ overlapped' = overlapped
            /\ knock' = [j \in Txs |-> [knock[j] EXCEPT
                  !.state = IF @ \in {"opening", "active"} THEN "lost" ELSE @,
                  !.timer = FALSE, !.poller = FALSE, !.tail = FALSE]]
        BY <2>3 DEF Die
      <4>2. knock'[k].state = IF knock[k].state \in {"opening", "active"} THEN "lost"
                              ELSE knock[k].state
        BY <1>1, <1>2, <4>1 DEF Shape, ActiveKnock
      <4> QED
        BY <4>1, <4>2
    <3>2. Led(k)
      BY <1>1, <3>1 DEF Matched
    <3> QED
      BY <1>1, <1>2, <2>3, <3>2, DieLeads
  <2> QED
    BY <1>6, <2>1, <2>2, <2>3 DEF ProcessLife
<1>7. CASE Session(k)
  <2>1. ASSUME NEW t \in TaskNames, Executed(k) \/ Transitioned(k, t) \/ Closed(k, t)
        PROVE  Led(k)'
    <3>1. overlapped' = overlapped
      BY <2>1 DEF Executed, Transitioned, Closed, history
    <3>2. knock[k].state # "lost"
      BY <1>1, <1>2, <2>1 DEF Executed, Transitioned, Closed, Ready, TaskNames, Shape, TaskShape
    <3>3. Led(k)
      BY <1>1, <3>1, <3>2 DEF Matched
    <3> QED
      BY <1>1, <1>2, <2>1, <3>3, EndsLead
  <2>2. ASSUME NEW t \in TaskNames, Step(k, t)
        PROVE  Led(k)'
    <3>1. /\ Answered(k, t) /\ overlapped' = overlapped
          /\ tasks[k][t] # NoTask /\ tasks[k][t].calls # <<>>
      BY <1>1, <2>2 DEF Step, Failed, CutOff
    <3>2. knock' = knock
      BY <3>1 DEF Answered
    <3>3. Led(k)
      BY <1>1, <3>1, <3>2 DEF Matched
    <3> QED
      BY <1>1, <1>2, <3>1, <3>3, AnswerLeads
  <2>3. CASE Timeout(k) \/ HeartbeatAfterLogin(k)
    <3>1. Fires /\ CloseBy(k, "close") /\ UNCHANGED rules /\ knock[k].state # "lost"
      BY <2>3 DEF Timeout, HeartbeatAfterLogin, Close, CloseBy
    <3> QED
      BY <1>1, <1>2, <1>3, <3>1, CloseLeads
  <2>4. CASE HeartbeatBeforeLogin(k)
    <3>1. /\ Transition(k, "heartbeat", activeFile) /\ activeFile \in Ips /\ Fires
          /\ UNCHANGED <<knock, rules>> /\ "heartbeat" \in Transitions
      BY <1>2, <2>4 DEF HeartbeatBeforeLogin, Shape, Transitions
    <3> QED
      BY <1>1, <1>2, <1>3, <3>1, TransitionLeads
  <2>5. "execute" \in TaskNames
    BY DEF TaskNames
  <2> QED
    BY <1>7, <2>1, <2>2, <2>3, <2>4, <2>5 DEF Session
<1>8. ASSUME NEW source \in Filters, Execute(k, source)
      PROVE  Led(k)'
  BY <1>1, <1>2, <1>3, <1>8, ExecuteLeads DEF Execute
<1>9. ASSUME NEW ip \in Ips, AuthLog(k, ip)
       PROVE  Led(k)'
  <2>1. /\ Transition(k, "authlog", ip) /\ Fires /\ UNCHANGED <<knock, rules>>
        /\ "authlog" \in Transitions
    BY <1>9 DEF AuthLog, Transitions
  <2> QED
    BY <1>1, <1>2, <1>3, <2>1, TransitionLeads
<1> QED
  BY <1>5, <1>6, <1>7, <1>8, <1>9 DEF KnockNext

(* knock.ts 2-8: with one session at a time, as long as no two of its        *)
(* functions have overlapped and no call has failed, the firewall between    *)
(* calls is open exactly as the session says.  (Sessions share their ports,  *)
(* so that of two the first to close closes the other's.)                    *)
THEOREM FirewallFollowsTheSession ==
    ASSUME OneSession
    PROVE  KnockSpec => []RulesMatchSessions
<1> PICK k : Txs = {k}
  BY DEF OneSession
<1>1. Wide /\ Matched(k) => RulesMatchSessions
  <2> SUFFICES ASSUME Matched(k), ~overlapped, failures = 0, Idle, knock[k].state # "lost"
               PROVE  rules = UNION {Opened(j) : j \in Txs}
    BY DEF RulesMatchSessions
  <2>1. Settled(k)
    BY DEF Matched, Led, Busy, Idle
  <2> QED
    BY <2>1 DEF Settled
<1>2. KnockInit => Wide /\ Matched(k)
  BY InitWide DEF Wide, KnockInit, Matched, Led, Settled, Opened
<1>3. Wide /\ Matched(k) /\ [KnockNext]_knockVars => (Wide /\ Matched(k))'
  BY NextWide, NextMatched
<1> QED
  BY <1>1, <1>2, <1>3, PTL DEF KnockSpec
=============================================================================
