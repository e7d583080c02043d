--------------------------- MODULE BootstrapTask ----------------------------
(***************************************************************************)
(* What a task of the bootstrap job promises to the service it provides    *)
(* for.  The service holds something: what its deployment wishes, what an  *)
(* earlier one wished, or nothing of use.  Runs of the job come one after  *)
(* the other, each for a deployment, and any of them may give up.  Only a  *)
(* run changes what the service holds, and only into what its deployment   *)
(* wishes, in one step: there is no moment at which a service has lost     *)
(* what it held and not yet got what it is given instead.  A run reports   *)
(* success only when the service holds what was wished.                    *)
(*                                                                         *)
(* A run that gives up may leave the task stuck, though never while the    *)
(* service holds something: then no run fulfils anything any more.         *)
(***************************************************************************)

CONSTANTS
    Wishes,     \* what a deployment may wish for its service
    Nothing     \* the service holds nothing that it could use

VARIABLES
    held,       \* what the service holds
    wish,       \* what the deployment of the run wishes
    running,    \* is there a run?
    stuck,      \* is the task beyond what a run can do?
    outcome     \* of the last run: "none", "ok" or "failed"

vars == <<held, wish, running, stuck, outcome>>

Init ==
    /\ held \in Wishes \cup {Nothing}
    /\ wish \in Wishes
    /\ running = FALSE
    /\ stuck = FALSE
    /\ outcome = "none"

Begin ==
    /\ ~running
    /\ running' = TRUE
    /\ wish' \in Wishes
    /\ UNCHANGED <<held, stuck, outcome>>

Fulfil ==
    /\ running
    /\ ~stuck
    /\ held' = wish
    /\ UNCHANGED <<wish, running, stuck, outcome>>

\* The last step of a run may be the one that fulfils the wish.
Succeed ==
    /\ running
    /\ ~stuck
    /\ held' = wish
    /\ running' = FALSE
    /\ outcome' = "ok"
    /\ UNCHANGED <<wish, stuck>>

\* Also when the wish has just been fulfilled and the run does not know.
GiveUp ==
    /\ running
    /\ held' \in IF stuck THEN {held} ELSE {held, wish}
    /\ stuck' \in IF held' = Nothing THEN {stuck, TRUE} ELSE {stuck}
    /\ running' = FALSE
    /\ outcome' = "failed"
    /\ UNCHANGED wish

Next == Begin \/ Fulfil \/ Succeed \/ GiveUp

Spec == Init /\ [][Next]_vars
=============================================================================
