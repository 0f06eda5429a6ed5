---------------------------- MODULE AdminCommands ----------------------------
(***************************************************************************)
(* Admin commands (src/src/admin/index.ts, src/src/admin/nonces.ts): every  *)
(* poll prunes the nonce store, fetches the last transactions at the admin  *)
(* address and runs each command in them whose nonce is not in the store    *)
(* and which is fresh.  A transaction stays in the explorer's answer until  *)
(* newer ones push it out, so every poll meets the same commands again.     *)
(*                                                                          *)
(* Abstractions.  A command is a name and has a nonce of its own; the HMAC  *)
(* and the register decoding are left out (only verified commands are       *)
(* modelled).  Time is in ticks, the chain height in blocks.                *)
(***************************************************************************)
EXTENDS Integers, Sequences, SequencesExt

CONSTANTS
    Commands,
    Stamped,          \* commands whose nonce is a Unix timestamp
    Heighted,         \* commands that carry a block_height
    NoCommand, NoHeight, NotSeen,
    MaxAge,           \* max_command_age
    MaxAgeBlocks,     \* max_command_age_blocks, or NoHeight: not configured
    FutureTolerance,  \* FUTURE_TOLERANCE_MS
    FutureBlocks,     \* FUTURE_TOLERANCE_BLOCKS
    Window,           \* transactions the explorer returns (10 in the code)
    MaxTime,          \* bound: the clock
    MaxHeight,        \* bound: the chain height
    MaxPosts,         \* bound: transactions at the admin address
    MaxFaults,        \* bound: failed nonce writes
    MaxCrashes        \* bound: deaths of the process

ASSUME AdminConstants ==
    /\ Stamped \subseteq Commands /\ Heighted \subseteq Commands
    /\ NoCommand \notin Commands
    /\ NoHeight \notin Nat /\ NotSeen \notin Nat
    /\ MaxAge \in Nat \ {0}
    /\ MaxAgeBlocks \in Nat \cup {NoHeight}
    /\ FutureTolerance \in Nat /\ FutureBlocks \in Nat
    /\ Window \in Nat
    /\ MaxTime \in Nat /\ MaxHeight \in Nat /\ MaxPosts \in Nat
    /\ MaxFaults \in Nat /\ MaxCrashes \in Nat

VARIABLES
    now, height,   \* the clock and the chain
    posts,         \* commands at the admin address, oldest first
    stamp,         \* the timestamp in a posted command's nonce
    atHeight,      \* its block_height
    seen,          \* store.seenNonces: when a nonce was recorded, or NotSeen
    saved,         \* the nonce file
    todo,          \* what is left of recentTxs in this poll
    pollHeight,    \* currentBlockHeight
    taking,        \* the command marked and about to be dispatched
    executions,    \* history: how often each command was dispatched
    faults, crashes

envVars   == <<now, height, posts, stamp, atHeight>>
storeVars == <<seen, saved>>
pollVars  == <<todo, pollHeight, taking>>
vars == <<envVars, storeVars, pollVars, executions, faults, crashes>>

Times == 0..MaxTime
Posted == Range(posts)

Init ==
    /\ now = 0 /\ height = 0
    /\ posts = <<>>
    /\ stamp = [c \in Commands |-> 0]
    /\ atHeight = [c \in Commands |-> 0]
    /\ seen = [c \in Commands |-> NotSeen]
    /\ saved = seen
    /\ todo = <<>> /\ pollHeight = NoHeight /\ taking = NoCommand
    /\ executions = [c \in Commands |-> 0]
    /\ faults = 0 /\ crashes = 0

-----------------------------------------------------------------------------
(* The environment.                                                          *)

Tick ==
    /\ now < MaxTime
    /\ now' = now + 1
    /\ UNCHANGED <<height, posts, stamp, atHeight, storeVars, pollVars,
                   executions, faults, crashes>>

Mine ==
    /\ height < MaxHeight
    /\ height' = height + 1
    /\ UNCHANGED <<now, posts, stamp, atHeight, storeVars, pollVars,
                   executions, faults, crashes>>

(* The sender's clock may be ahead; a command may be posted more than once.  *)
Post(c) ==
    /\ Len(posts) < MaxPosts
    /\ posts' = Append(posts, c)
    /\ IF c \in Posted
       THEN UNCHANGED <<stamp, atHeight>>
       ELSE /\ IF c \in Stamped
               THEN \E t \in now..now + FutureTolerance + 1 :
                        stamp' = [stamp EXCEPT ![c] = t]
               ELSE UNCHANGED stamp
            /\ atHeight' = [atHeight EXCEPT ![c] = height]
    /\ UNCHANGED <<now, height, storeVars, pollVars, executions, faults, crashes>>

-----------------------------------------------------------------------------
(* nonces.ts                                                                 *)

(* saveNonces: the whole store is written, or the failure is only logged.    *)
Save ==
    \/ saved' = seen' /\ UNCHANGED faults
    \/ faults < MaxFaults /\ faults' = faults + 1 /\ UNCHANGED saved

(* Seeded bug: a command lives as long as its nonce.                         *)
FreshStamp_TwiceTheAge(c) ==
    /\ stamp[c] <= now + FutureTolerance
    /\ now - stamp[c] <= 2 * MaxAge

FreshStamp(c) ==
    /\ stamp[c] <= now + FutureTolerance
    /\ now - stamp[c] <= MaxAge

FreshHeight(c) ==
    /\ pollHeight - atHeight[c] >= -FutureBlocks
    /\ pollHeight - atHeight[c] <= MaxAgeBlocks

(* Seeded bug: the store forgets after one maximum age.                      *)
Pruned_OneAge == {c \in Commands : seen[c] # NotSeen /\ seen[c] < now - MaxAge}

Pruned == {c \in Commands : seen[c] # NotSeen /\ seen[c] < now - 2 * MaxAge}

RecordedAt(c) == now

Prune ==
    /\ seen' = [c \in Commands |-> IF c \in Pruned THEN NotSeen ELSE seen[c]]
    /\ IF Pruned # {} THEN Save ELSE UNCHANGED <<saved, faults>>

-----------------------------------------------------------------------------
(* index.ts                                                                  *)

ByHeight(c) == c \in Heighted /\ MaxAgeBlocks # NoHeight /\ pollHeight # NoHeight

Fresh(c) ==
    IF ByHeight(c) THEN FreshHeight(c) ELSE c \in Stamped => FreshStamp(c)

(* validateCommand: uniqueness, then the freshness ladder.                   *)
Valid(c) == seen[c] = NotSeen /\ Fresh(c)

(* The newest transactions, newest first.                                    *)
Recent ==
    LET n == Len(posts)
    IN  [i \in 1..(IF n < Window THEN n ELSE Window) |-> posts[n + 1 - i]]

(* processAdminCommands up to the loop.  Either query may fail.              *)
Poll ==
    /\ todo = <<>> /\ taking = NoCommand
    /\ Prune
    /\ pollHeight' \in (IF MaxAgeBlocks = NoHeight THEN {NoHeight} ELSE {height, NoHeight})
    /\ todo' = Recent
    /\ UNCHANGED <<envVars, taking, executions, crashes>>

PollFails ==
    /\ todo = <<>> /\ taking = NoCommand
    /\ Prune
    /\ UNCHANGED <<envVars, pollVars, executions, crashes>>

(* Seeded bug: one rejected command ends the poll.                           *)
Reject_Stop ==
    /\ taking = NoCommand /\ todo # <<>>
    /\ ~Valid(Head(todo))
    /\ todo' = <<>>
    /\ UNCHANGED <<envVars, storeVars, pollHeight, taking, executions, faults, crashes>>

Reject ==
    /\ taking = NoCommand /\ todo # <<>>
    /\ ~Valid(Head(todo))
    /\ todo' = Tail(todo)
    /\ UNCHANGED <<envVars, storeVars, pollHeight, taking, executions, faults, crashes>>

(* markNonceUsed comes before the dispatch.                                  *)
Mark ==
    /\ taking = NoCommand /\ todo # <<>>
    /\ Valid(Head(todo))
    /\ seen' = [seen EXCEPT ![Head(todo)] = RecordedAt(Head(todo))]
    /\ Save
    /\ taking' = Head(todo)
    /\ todo' = Tail(todo)
    /\ UNCHANGED <<envVars, pollHeight, executions, crashes>>

Dispatch ==
    /\ taking # NoCommand
    /\ executions' = [executions EXCEPT ![taking] = @ + 1]
    /\ taking' = NoCommand
    /\ UNCHANGED <<envVars, storeVars, todo, pollHeight, faults, crashes>>

Loaded == saved

Restart ==
    /\ crashes < MaxCrashes
    /\ crashes' = crashes + 1
    /\ seen' = Loaded
    /\ todo' = <<>> /\ pollHeight' = NoHeight /\ taking' = NoCommand
    /\ UNCHANGED <<envVars, saved, executions, faults>>

Environment == Tick \/ Mine \/ \E c \in Commands : Post(c)
Process == Poll \/ PollFails \/ Reject \/ Mark \/ Dispatch

Next == Environment \/ Process \/ Restart

Spec == Init /\ [][Next]_vars

(* The poll loop keeps running, the explorer answers now and then.           *)
FairSpec ==
    Spec /\ WF_vars(Poll) /\ WF_vars(Reject) /\ WF_vars(Mark) /\ WF_vars(Dispatch)

-----------------------------------------------------------------------------
TypeOK ==
    /\ now \in Times
    /\ height \in 0..MaxHeight
    /\ posts \in Seq(Commands)
    /\ stamp \in [Commands -> Nat]
    /\ atHeight \in [Commands -> 0..MaxHeight]
    /\ seen \in [Commands -> Times \cup {NotSeen}]
    /\ saved \in [Commands -> Times \cup {NotSeen}]
    /\ todo \in Seq(Commands)
    /\ pollHeight \in 0..MaxHeight \cup {NoHeight}
    /\ taking \in Commands \cup {NoCommand}
    /\ executions \in [Commands -> Nat]
    /\ faults \in 0..MaxFaults
    /\ crashes \in 0..MaxCrashes

(* Commands that only a timestamp keeps fresh.                               *)
Timed == Stamped \ Heighted

(* index.ts 266-267: nonce tracking prevents a command from being executed   *)
(* twice, whatever is posted again and whenever the process restarts, if     *)
(* nonces could be written and the command does not live by block height     *)
(* (the nonces are pruned by the clock: see the README).                     *)
AtMostOnce == faults = 0 => \A c \in Timed : executions[c] <= 1

(* nonces.ts 170-172: a nonce is forgotten only when its command would be    *)
(* rejected as too old, now and forever.                                     *)
ForgottenIsStale ==
    [][\A c \in Timed :
         faults' = 0 /\ seen[c] # NotSeen /\ seen'[c] = NotSeen
            => now - stamp[c] > MaxAge]_vars

Untimely(c) ==
    \/ /\ c \in Stamped
       /\ now - stamp[c] > MaxAge \/ stamp[c] > now + FutureTolerance
    \/ /\ c \in Heighted /\ MaxAgeBlocks # NoHeight
       /\ height - atHeight[c] > MaxAgeBlocks

(* index.ts 300-306, 341-357: one rejected command never hides another, so a *)
(* command is run, goes out of date, or is pushed out of the window, unless  *)
(* the process dies between marking and running it.                          *)
PostedCommandRuns ==
    \A c \in Commands :
        c \in Posted ~> \/ executions[c] > 0
                        \/ c \notin Range(Recent) \/ Untimely(c)
                        \/ crashes > 0
=============================================================================
