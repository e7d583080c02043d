------------------------------ MODULE Upgrade -------------------------------
(***************************************************************************)
(* Who owns the declared resources while a service moves from its          *)
(* deployment v0 (named after the service) to v1 (with the suffix "-v1").  *)
(*                                                                         *)
(* A deployment of the service is the pre-deploy hook, the installation by *)
(* Helm and the post-deploy hook.  Each hook names a deployment when it    *)
(* starts (setEventReceiver) and makes it the owner of the resources that  *)
(* have none (setOwnerRef); the second one removes v0 once v1 is ready.    *)
(* Kubernetes collects what the removed deployment owned.                  *)
(*                                                                         *)
(* The hooks' steps are in DeclarationSync and Finalizer; here applying a  *)
(* resource, owning it and the migration are one step each.  A hook that   *)
(* fails, or is told to stop, ends the deployment.  No deployment goes     *)
(* back from v1 to v0, so that a name stands for one deployment object.    *)
(***************************************************************************)
EXTENDS Naturals

CONSTANTS
    CRs,        \* the declared resources
    MaxFaults,  \* bound on the deployments that fail
    LookUpsFail \* may a hook go on after a Get or a List that failed?

ASSUME ConstantsAssumption ==
    /\ MaxFaults \in Nat
    /\ LookUpsFail \in BOOLEAN

VARIABLES
    present,    \* the service's deployments in the cluster
    owner,      \* per resource its owner, "none", or "absent" without it
    target,     \* the version that is deployed
    stage,      \* how far its deployment is
    name,       \* deploymentName, which the hook at work has chosen
    toApply,    \* resources the pre-deploy hook has not applied yet
    toOwn,      \* resources the hook at work has not finished with
    outcome,    \* "none", "running", or the end of the last deployment
    faults,     \* deployments that have failed
    hadV0       \* ghost: was v0 there when the deployment began?

hookVars == <<name, toApply, toOwn>>
vars == <<present, owner, target, stage, hookVars, outcome, faults, hadV0>>

Versions == {"v0", "v1"}

Init ==
    /\ present \in SUBSET Versions
    /\ owner \in [CRs -> {"absent", "none"} \cup present]
    /\ target = IF "v1" \in present THEN "v1" ELSE "v0"
    /\ stage = "idle"
    /\ name = target
    /\ toApply = {}
    /\ toOwn = {}
    /\ outcome = "none"
    /\ faults = 0
    /\ hadV0 = FALSE

-----------------------------------------------------------------------------
(* Helm and Kubernetes *)

Begin ==
    /\ stage = "idle"
    /\ target' \in {target, "v1"}
    /\ stage' = "preReceiver"
    /\ outcome' = "running"
    /\ hadV0' = ("v0" \in present)
    /\ UNCHANGED <<present, owner, hookVars, faults>>

\* v0 stays, as the migration expects: nobody but the hook removes it.
Install ==
    /\ stage = "pre"
    /\ toOwn = {}
    /\ present' = present \cup {target}
    /\ stage' = "postReceiver"
    /\ UNCHANGED <<owner, target, hookVars, outcome, faults, hadV0>>

Condemned(c) == owner[c] \in Versions \ present

Collect(c) ==
    /\ Condemned(c)
    /\ owner' = [owner EXCEPT ![c] = "absent"]
    /\ UNCHANGED <<present, target, stage, hookVars, outcome, faults, hadV0>>

-----------------------------------------------------------------------------
(* The hooks *)

\* v1 if it is there, else v0, else the Job: then the name is the target's.
FirstFound_NameLeftEmpty(found) ==
    IF target \in found THEN target
    ELSE IF "v0" \in found THEN "v0" ELSE ""
FirstFound(found) ==
    IF target \in found THEN target
    ELSE IF "v0" \in found THEN "v0" ELSE target

\* A deployment that cannot be read is taken for one that is not there.
Readable == IF LookUpsFail THEN SUBSET present ELSE {present}

SetEventReceiver ==
    /\ \E found \in Readable : name' = FirstFound(found)
    /\ \/ /\ stage = "preReceiver"
          /\ stage' = "pre"
          /\ toApply' = CRs
       \/ /\ stage = "postReceiver"
          /\ stage' = "post"
          /\ toApply' = toApply
    /\ toOwn' = CRs
    /\ UNCHANGED <<present, owner, target, outcome, faults, hadV0>>

\* The declared object has no owner, and is put in place of the stored one.
Apply_KeepsOwner(c) ==
    /\ stage = "pre"
    /\ c \in toApply
    /\ owner' = [owner EXCEPT ![c] = IF @ = "absent" THEN "none" ELSE @]
    /\ toApply' = toApply \ {c}
    /\ UNCHANGED <<present, target, stage, name, toOwn, outcome, faults, hadV0>>
Apply(c) ==
    /\ stage = "pre"
    /\ c \in toApply
    /\ owner' = [owner EXCEPT ![c] = "none"]
    /\ toApply' = toApply \ {c}
    /\ UNCHANGED <<present, target, stage, name, toOwn, outcome, faults, hadV0>>

\* An owner is left alone, and a deployment that cannot be read is no owner.
SetOwnerRef(c) ==
    /\ stage \in {"pre", "post"}
    /\ c \in toOwn \ toApply
    /\ owner[c] # "absent"
    /\ \/ /\ owner[c] = "none"
          /\ name \in present
          /\ owner' = [owner EXCEPT ![c] = name]
       \/ /\ LookUpsFail \/ owner[c] # "none" \/ name \notin present
          /\ UNCHANGED owner
    /\ toOwn' = toOwn \ {c}
    /\ UNCHANGED <<present, target, stage, name, toApply, outcome, faults,
                   hadV0>>

\* A List that fails is only logged: its resources are passed over.
ListFails(c) ==
    /\ LookUpsFail
    /\ stage = "post"
    /\ c \in toOwn
    /\ toOwn' = toOwn \ {c}
    /\ UNCHANGED <<present, owner, target, stage, name, toApply, outcome,
                   faults, hadV0>>

Migrating_V0Alone == "v0" \in present
Migrating == Versions \subseteq present

\* v0 is deleted, unless the facade operator manages it.
Migrate ==
    /\ stage = "post"
    /\ toOwn = {}
    /\ present' \in {present} \cup (IF Migrating THEN {present \ {"v0"}} ELSE {})
    /\ stage' = "idle"
    /\ outcome' = "ok"
    /\ UNCHANGED <<owner, target, hookVars, faults, hadV0>>

\* A call fails, or the hook is stopped.  The deletion may have been carried out.
Fail ==
    /\ stage # "idle"
    /\ faults < MaxFaults
    /\ faults' = faults + 1
    /\ stage' = "idle"
    /\ outcome' = "failed"
    /\ present' \in {present} \cup
           (IF stage = "post" /\ toOwn = {} /\ Migrating
            THEN {present \ {"v0"}} ELSE {})
    /\ toApply' = {}
    /\ toOwn' = {}
    /\ UNCHANGED <<owner, target, name, hadV0>>

-----------------------------------------------------------------------------
Deploy ==
    \/ Begin \/ SetEventReceiver \/ Install \/ Migrate
    \/ \E c \in CRs : Apply(c) \/ SetOwnerRef(c)

Next ==
    \/ Deploy
    \/ Fail
    \/ \E c \in CRs : ListFails(c) \/ Collect(c)

\* The service is deployed again and again, and the hooks' calls return.
Spec == Init /\ [][Next]_vars
FairSpec == Spec /\ WF_vars(Deploy)

-----------------------------------------------------------------------------
(* Properties *)

TypeOK ==
    /\ present \subseteq Versions
    /\ owner \in [CRs -> {"absent", "none"} \cup Versions]
    /\ target \in Versions
    /\ "v1" \in present => target = "v1"
    /\ stage \in {"idle", "preReceiver", "pre", "postReceiver", "post"}
    /\ name \in Versions
    /\ toOwn \subseteq CRs
    /\ toApply \subseteq toOwn
    /\ stage # "pre" => toApply = {}
    /\ outcome \in {"none", "running", "ok", "failed"}
    /\ faults \in 0..MaxFaults
    /\ hadV0 \in BOOLEAN

\* A deployment that found no v0 and ends with success leaves every declared
\* resource in place and none to be collected, whatever a migration before it
\* has condemned, collected or left, and whichever of its look-ups failed.
RepairedByTheNext ==
    outcome = "ok" /\ ~hadV0 =>
        \A c \in CRs : owner[c] # "absent" /\ ~Condemned(c)

\* From some deployment on no declared resource is ever collected again: what
\* the removal of v0 takes with it comes back, and is not lost a second time.
EventuallyKept == <>[](\A c \in CRs : owner[c] # "absent")

\* "migration finished successfully" (genericGetter.go:176): after a deployment
\* that ended with success every declared resource is there, and owned by a
\* deployment that is there or by none.
SuccessMeansKept ==
    outcome = "ok" => \A c \in CRs : owner[c] # "absent" /\ ~Condemned(c)
=============================================================================
