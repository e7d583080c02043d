----------------------------- MODULE DeployHook -----------------------------
(***************************************************************************)
(* What the pre-deploy hook promises to the deployment that runs it: it    *)
(* applies every declared custom resource, accepts a resource only after   *)
(* an operator has brought the applied version to its stable phase, and    *)
(* ends in success only when every resource has been accepted.  It may     *)
(* give up at any moment, and it may be told to stop.                      *)
(*                                                                         *)
(* The operators are part of the environment: they go on converging        *)
(* resources whether or not the hook still runs.                           *)
(***************************************************************************)

CONSTANT Items          \* the declared resources

VARIABLES applied,      \* resources whose new version is stored
          converged,    \* resources the operator brought to the stable phase
          accepted,     \* resources the hook has finished waiting for
          result        \* how the hook ended, or "running"

vars == <<applied, converged, accepted, result>>

Results == {"running", "success", "failure", "interrupted"}

Init ==
    /\ applied = {}
    /\ converged = {}
    /\ accepted = {}
    /\ result = "running"

Apply(i) ==
    /\ result = "running"
    /\ applied' = applied \cup {i}
    /\ UNCHANGED <<converged, accepted, result>>

Converge(i) ==
    /\ i \in applied
    /\ converged' = converged \cup {i}
    /\ UNCHANGED <<applied, accepted, result>>

Accept(i) ==
    /\ result = "running"
    /\ i \in converged
    /\ accepted' = accepted \cup {i}
    /\ UNCHANGED <<applied, converged, result>>

Succeed ==
    /\ result = "running"
    /\ accepted = Items
    /\ result' = "success"
    /\ UNCHANGED <<applied, converged, accepted>>

GiveUp ==
    /\ result = "running"
    /\ result' \in {"failure", "interrupted"}
    /\ UNCHANGED <<applied, converged, accepted>>

Next ==
    \/ \E i \in Items : Apply(i) \/ Converge(i) \/ Accept(i)
    \/ Succeed
    \/ GiveUp

Spec == Init /\ [][Next]_vars
=============================================================================
