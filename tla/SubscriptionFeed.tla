--------------------------- MODULE SubscriptionFeed ---------------------------
(***************************************************************************)
(* What the scanner promises the monitor: the events it reports tell, for   *)
(* each beacon, one coherent story.  A beacon is created once, every        *)
(* extension starts from the box reported last, and what is removed is the  *)
(* box reported last; nothing is reported twice or skipped.                 *)
(***************************************************************************)
EXTENDS Integers

CONSTANTS Beacons, NoSub

VARIABLES
    diff,   \* the events reported by the last step
    told    \* the subscription the events amount to, or NoSub

Legal(e) ==
    LET last == told[e.beacon]
    IN  CASE e.type = "created"  -> last = NoSub
          [] e.type = "extended" -> /\ last # NoSub
                                    /\ e.old.id = last.id
                                    /\ e.sub.id > last.id
          [] e.type = "removed"  -> /\ last # NoSub
                                    /\ e.sub.id = last.id

Outcome(events, b) ==
    IF \E e \in events : e.beacon = b /\ e.type = "removed" THEN NoSub
    ELSE IF \E e \in events : e.beacon = b
         THEN (CHOOSE e \in events : e.beacon = b).sub
    ELSE told[b]

Init ==
    /\ diff = {}
    /\ told = [b \in Beacons |-> NoSub]

Report ==
    /\ \A e \in diff' : Legal(e)
    /\ \A e, f \in diff' : e.beacon = f.beacon => e = f
    /\ told' = [b \in Beacons |-> Outcome(diff', b)]

(* A restart may forget a subscription or fall back to an older box.         *)
Forget ==
    /\ diff' = {}
    /\ \A b \in Beacons :
         told'[b] # NoSub => told[b] # NoSub /\ told'[b].id <= told[b].id

Next == Report \/ Forget

Spec == Init /\ [][Next]_<<diff, told>>
=============================================================================
