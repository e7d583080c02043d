---------------------------- MODULE WarningTally ----------------------------
(***************************************************************************)
(* What the event recorder promises to those who look at the events of a   *)
(* deployment.  It tallies the warnings it observes, reason by reason.     *)
(* There is at most one event about a reason; whenever the recorder shows  *)
(* it, or shows it anew, the event carries the tally of that moment, and   *)
(* an event that is there changes in place.  Warnings that the recorder    *)
(* does not get to observe are not promised anything, and an event may be  *)
(* missing: it is never shown, or gone after its time.                     *)
(***************************************************************************)
EXTENDS Naturals

CONSTANTS
    Reasons,
    Names       \* names of events

VARIABLES
    observed,   \* per reason, the warnings observed
    shown       \* per reason, the events there are about it

vars == <<observed, shown>>

Init ==
    /\ observed = [r \in Reasons |-> 0]
    /\ shown = [r \in Reasons |-> {}]

Observe(r) ==
    /\ observed' = [observed EXCEPT ![r] = @ + 1]
    /\ UNCHANGED shown

Show(r, n) ==
    /\ observed[r] > 0
    /\ \A e \in shown[r] : e.name = n
    /\ shown' = [shown EXCEPT ![r] = {[name |-> n, count |-> observed[r]]}]
    /\ UNCHANGED observed

Vanish(r) ==
    /\ shown' = [shown EXCEPT ![r] = {}]
    /\ UNCHANGED observed

Next ==
    \E r \in Reasons : \/ Observe(r)
                       \/ \E n \in Names : Show(r, n)
                       \/ Vanish(r)

Spec == Init /\ [][Next]_vars
=============================================================================
