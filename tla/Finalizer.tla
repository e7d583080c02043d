----------------------------- MODULE Finalizer -----------------------------
(***************************************************************************)
(* The post-deploy hook of cr-synchronizer.  A run lists the resources of  *)
(* the deployment session, once per kind and label, and polls each of them *)
(* until it is Updated; then it removes the v0 deployment and its          *)
(* autoscaler if a v1 deployment has taken over.  Every deployment brings  *)
(* a run; one that is killed is not repeated.                              *)
(*                                                                         *)
(* The owner reference is written as in the pre-deploy hook (setOwnerRef   *)
(* of DeclarationSync); here it succeeds or ends the process.  A call that *)
(* fails for good ends the process (log.Fatal) unless said otherwise.      *)
(***************************************************************************)
EXTENDS Naturals, Sequences

CONSTANTS
    CRs,        \* resources of the session
    Selected,   \* per List call, in their order, the resources it selects
    NoCR

ASSUME ConstantsAssumption ==
    /\ NoCR \notin CRs
    /\ Selected \in Seq(SUBSET CRs)
    /\ Selected # <<>>

VARIABLES
    phase,      \* per resource, its phase, "Gone" without the resource
    v0, v1,     \* is there a v0, a v1 deployment?
    hpa,        \* is there an autoscaler of the v0 deployment?
    managed,    \* is v0 labelled as managed by the facade operator?
    available,  \* is v1 available?
    pc,         \* where the generator is
    list,       \* the List call it is at
    items,      \* listed resources it has not polled yet
    cur,        \* the resource it polls
    ctx,        \* "live", "signalled" or "stopped" (main's deferred stop)
    outcome,    \* "none", "running", or the end of the last run
    listed,     \* ghost: resources the run has found
    updated,    \* ghost: resources that were Updated since it began
    served,     \* ghost: v1 was available since it began
    adopted     \* ghost: managed, when it began

clusterVars == <<phase, v0, v1, hpa, managed, available>>
ghostVars == <<listed, updated, served, adopted>>
vars == <<clusterVars, pc, list, items, cur, ctx, outcome, ghostVars>>

Phases == {"Unset", "Updating", "InvalidConfiguration", "Updated", "Gone"}

UpdatedNow == {c \in CRs : phase[c] = "Updated"}

Init ==
    /\ phase \in [CRs -> Phases]
    /\ v0 \in BOOLEAN
    /\ v1 \in BOOLEAN
    /\ hpa \in BOOLEAN
    /\ hpa => v0
    /\ managed \in BOOLEAN
    /\ managed => v0
    /\ available = FALSE
    /\ pc = "idle"
    /\ list = 1
    /\ items = {}
    /\ cur = NoCR
    /\ ctx = "live"
    /\ outcome = "none"
    /\ listed = {}
    /\ updated = {}
    /\ served = FALSE
    /\ adopted = FALSE

\* The process ends; what it knows is lost.
Exit(result) ==
    /\ outcome' = result
    /\ pc' = "idle"
    /\ list' = 1
    /\ items' = {}
    /\ cur' = NoCR
    /\ ctx' = "live"

Start ==
    /\ pc = "idle"
    /\ pc' = "list"
    /\ outcome' = "running"
    /\ listed' = {}
    /\ updated' = UpdatedNow
    /\ served' = available
    /\ adopted' = managed
    /\ UNCHANGED <<clusterVars, list, items, cur, ctx>>

\* Calls succeed only while the context is not cancelled.
Calls(label) == pc = label /\ ctx = "live"

Goto(label) == pc' = label /\ UNCHANGED <<list, items, cur, ctx, outcome>>

-----------------------------------------------------------------------------
(* processResourcesForLabel *)

ListFinds ==
    /\ Calls("list")
    /\ items' = {c \in Selected[list] : phase[c] # "Gone"}
    /\ listed' = listed \cup items'
    /\ pc' = "loop"
    /\ UNCHANGED <<clusterVars, list, cur, ctx, outcome, updated, served,
                   adopted>>

\* An error is only logged: the resources of this list are not waited for.
ListFails ==
    /\ pc = "list"
    /\ Goto("loop")
    /\ UNCHANGED <<clusterVars, ghostVars>>

NextItem ==
    /\ pc = "loop"
    /\ items # {}
    /\ cur' \in items
    /\ items' = items \ {cur'}
    /\ pc' = "poll"
    /\ UNCHANGED <<clusterVars, list, ctx, outcome, ghostVars>>

NextList_OneMore ==
    /\ pc = "loop"
    /\ items = {}
    /\ IF list <= Len(Selected)
       THEN list' = list + 1 /\ pc' = "list"
       ELSE list' = list /\ pc' = "migrate"
    /\ UNCHANGED <<clusterVars, items, cur, ctx, outcome, ghostVars>>
NextList ==
    /\ pc = "loop"
    /\ items = {}
    /\ IF list < Len(Selected)
       THEN list' = list + 1 /\ pc' = "list"
       ELSE list' = list /\ pc' = "migrate"
    /\ UNCHANGED <<clusterVars, items, cur, ctx, outcome, ghostVars>>

-----------------------------------------------------------------------------
(* GenericWaiter *)

\* Any phase but these two is looked at again five seconds later.
PollEnds_UpdatingIsStable ==
    /\ Calls("poll")
    /\ \/ phase[cur] \in {"Updating", "Updated"} /\ Goto("own")
       \/ phase[cur] = "InvalidConfiguration" /\ Goto("report")
    /\ UNCHANGED <<clusterVars, ghostVars>>
PollEnds ==
    /\ Calls("poll")
    /\ \/ phase[cur] = "Updated" /\ Goto("own")
       \/ phase[cur] = "InvalidConfiguration" /\ Goto("report")
    /\ UNCHANGED <<clusterVars, ghostVars>>

\* The result of a Get that fails is nil, and used: the name is logged.
PollPanics ==
    /\ pc = "poll"
    /\ Exit("panic")
    /\ UNCHANGED <<clusterVars, ghostVars>>

PollTimesOut_UnlessUpdating ==
    /\ pc = "poll"
    /\ phase[cur] # "Updating"
    /\ Goto("report")
    /\ UNCHANGED <<clusterVars, ghostVars>>
PollTimesOut ==
    /\ pc = "poll"
    /\ Goto("report")
    /\ UNCHANGED <<clusterVars, ghostVars>>

\* sendEvent and its two seconds, before log.Fatal.
Report ==
    /\ Calls("report")
    /\ Goto("sleep")
    /\ UNCHANGED <<clusterVars, ghostVars>>

WaiterFails ==
    /\ pc = "sleep"
    /\ Exit("failed")
    /\ UNCHANGED <<clusterVars, ghostVars>>

SetOwnerRef ==
    /\ Calls("own")
    /\ Goto("loop")
    /\ UNCHANGED <<clusterVars, ghostVars>>

-----------------------------------------------------------------------------
(* v1DeploymentAndHpaMigration *)

\* A pair of deployments is looked for, and v0's label.
ListDeployments ==
    /\ Calls("migrate")
    /\ Goto(IF v0 /\ v1 /\ ~managed THEN "ready" ELSE "done")
    /\ UNCHANGED <<clusterVars, ghostVars>>

CheckDeploymentStatus ==
    /\ Calls("ready")
    /\ available
    /\ Goto("deleteV0")
    /\ UNCHANGED <<clusterVars, ghostVars>>

\* v1 is not available within five minutes.
ReadyTimesOut_TakenForReady ==
    /\ pc = "ready"
    /\ Goto("deleteV0")
    /\ UNCHANGED <<clusterVars, ghostVars>>
ReadyTimesOut ==
    /\ pc = "ready"
    /\ Exit("failed")
    /\ UNCHANGED <<clusterVars, ghostVars>>

\* The label and v1 are not looked at again.
DeleteV0 ==
    /\ Calls("deleteV0")
    /\ v0
    /\ v0' = FALSE
    /\ managed' = FALSE
    /\ Goto("getHpa")
    /\ UNCHANGED <<phase, v1, hpa, available, ghostVars>>

GetHpa ==
    /\ Calls("getHpa")
    /\ Goto(IF hpa THEN "deleteHpa" ELSE "done")
    /\ UNCHANGED <<clusterVars, ghostVars>>

DeleteHpa ==
    /\ Calls("deleteHpa")
    /\ hpa' = FALSE
    /\ Goto("checkHpa")
    /\ UNCHANGED <<phase, v0, v1, managed, available, ghostVars>>

\* The autoscaler may still be there.
CheckHpa ==
    /\ Calls("checkHpa")
    /\ Goto("done")
    /\ UNCHANGED <<clusterVars, ghostVars>>

\* A call fails for good; what it asked for may have been done.
ApiFatal ==
    /\ pc \in {"report", "own", "migrate", "ready", "deleteV0", "getHpa",
               "deleteHpa", "checkHpa"}
    /\ Exit("failed")
    /\ v0' \in IF Calls("deleteV0") THEN {v0, FALSE} ELSE {v0}
    /\ managed' = (managed /\ v0')
    /\ hpa' \in IF Calls("deleteHpa") THEN {hpa, FALSE} ELSE {hpa}
    /\ UNCHANGED <<phase, v1, available, ghostVars>>

-----------------------------------------------------------------------------
(* main, the cluster *)

RunReturns ==
    /\ Calls("done")
    /\ ctx' = "stopped"
    /\ UNCHANGED <<clusterVars, pc, list, items, cur, outcome, ghostVars>>

Signal ==
    /\ pc # "idle"
    /\ ctx = "live"
    /\ ctx' = "signalled"
    /\ UNCHANGED <<clusterVars, pc, list, items, cur, outcome, ghostVars>>

MainReturns ==
    /\ ctx # "live"
    /\ Exit(IF ctx = "stopped" THEN "ok" ELSE "interrupted")
    /\ UNCHANGED <<clusterVars, ghostVars>>

\* The pod is killed.
Killed ==
    /\ pc # "idle"
    /\ Exit("failed")
    /\ UNCHANGED <<clusterVars, ghostVars>>

OperatorReports(c) ==
    /\ \E p \in Phases \ {phase[c]} : phase' = [phase EXCEPT ![c] = p]
    /\ updated' = updated \cup {d \in CRs : phase'[d] = "Updated"}
    /\ UNCHANGED <<v0, v1, hpa, managed, available, pc, list, items, cur, ctx,
                   outcome, listed, served, adopted>>

\* A deployment installs v1, v1's pods come and go, the operator adopts v0.
DeploymentChanges ==
    /\ \/ ~v1 /\ v1' = TRUE /\ UNCHANGED <<managed, available>>
       \/ v1 /\ available' = ~available /\ UNCHANGED <<v1, managed>>
       \/ v0 /\ ~managed /\ managed' = TRUE /\ UNCHANGED <<v1, available>>
    /\ served' = (served \/ available')
    /\ UNCHANGED <<phase, v0, hpa, pc, list, items, cur, ctx, outcome, listed,
                   updated, adopted>>

-----------------------------------------------------------------------------
\* The generator's steps with answered calls, and its timers.
Generator ==
    \/ ListFinds \/ NextItem \/ NextList
    \/ PollEnds \/ Report \/ WaiterFails \/ SetOwnerRef
    \/ ListDeployments \/ CheckDeploymentStatus \/ DeleteV0
    \/ GetHpa \/ DeleteHpa \/ CheckHpa

Timers == PollTimesOut \/ ReadyTimesOut

Failures == ListFails \/ PollPanics \/ ApiFatal \/ Signal \/ Killed

Next ==
    \/ Start \/ Generator \/ Timers \/ RunReturns \/ MainReturns
    \/ Failures
    \/ \E c \in CRs : OperatorReports(c)
    \/ DeploymentChanges

\* Calls are answered, timers fire and main is scheduled.  Failures need not
\* happen: a cancelled context alone ends main.
Fairness ==
    /\ WF_vars(Generator)
    /\ WF_vars(Timers)
    /\ WF_vars(RunReturns)
    /\ WF_vars(MainReturns)

Spec == Init /\ [][Next]_vars
FairSpec == Spec /\ Fairness

-----------------------------------------------------------------------------
(* Properties *)

TypeOK ==
    /\ phase \in [CRs -> Phases]
    /\ {v0, v1, hpa, managed, available, served, adopted} \subseteq BOOLEAN
    /\ pc \in {"idle", "list", "loop", "poll", "report", "sleep", "own",
               "migrate", "ready", "deleteV0", "getHpa", "deleteHpa",
               "checkHpa", "done"}
    /\ list \in 1..Len(Selected)
    /\ items \subseteq CRs
    /\ cur \in CRs \cup {NoCR}
    /\ pc \in {"poll", "report", "own"} => cur \in CRs
    /\ ctx \in {"live", "signalled", "stopped"}
    /\ outcome \in {"none", "running", "ok", "interrupted", "failed", "panic"}
    /\ listed \subseteq CRs
    /\ updated \subseteq CRs

\* When a run ends with success, every resource that its lists have found was
\* Updated at some time since the run began: no way through the lists leaves
\* one out, and no phase of an earlier deployment counts.
SuccessMeansListedUpdated == outcome = "ok" => listed \subseteq updated

\* The v0 deployment is taken away only in a run since whose start v1 has
\* served, and not if the facade operator managed it when the run began.
OldKeptUntilNewServes == [][v0 /\ ~v0' => served /\ ~adopted]_vars

\* A run ends, whatever the operators and the deployments do.
RunsEnd == outcome = "running" ~> outcome # "running"

\* A Get that fails is logged as a warning, "Resource cant be fetched"
\* (deploymentGenerator.go:402), and the waiter goes on polling.
FailedGetIsAWarning == outcome # "panic"

\* "old must be deleted" (genericGetter.go:84): when a run ends with success
\* there is no autoscaler left of a v0 deployment that v1 has replaced.
SuccessMeansMigrated == outcome = "ok" => ~(v1 /\ ~v0 /\ hpa)
=============================================================================
