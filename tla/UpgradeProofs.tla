--------------------------- MODULE UpgradeProofs ----------------------------
(***************************************************************************)
(* Theorems about Upgrade for every set of declared resources and every    *)
(* number of failed deployments.                                           *)
(***************************************************************************)
EXTENDS Upgrade, TLAPS

USE DEF hookVars, vars

\* Whatever names a hook finds, it settles for one of a version.
LEMMA NameType == ASSUME TypeOK, NEW found \in SUBSET present
                  PROVE  FirstFound(found) \in Versions
BY DEF FirstFound, TypeOK, Versions

\* The types hold in whatever an earlier deployment has left.
LEMMA TypeInit == Init => TypeOK
<1> SUFFICES ASSUME Init PROVE TypeOK
  OBVIOUS
<1>1. faults \in 0..MaxFaults
  BY ConstantsAssumption DEF Init, ConstantsAssumption
<1>2. owner \in [CRs -> {"absent", "none"} \cup Versions]
  BY DEF Init
<1> QED
  BY <1>1, <1>2 DEF Init, TypeOK, Versions

\* Every step of the hooks, of Helm and of Kubernetes keeps the types.
LEMMA TypeStep == TypeOK /\ [Next]_vars => TypeOK'
<1> SUFFICES ASSUME TypeOK, [Next]_vars PROVE TypeOK'
  OBVIOUS
<1>1. CASE Begin
  BY <1>1 DEF Begin, TypeOK, Versions
<1>2. CASE SetEventReceiver
  <2>1. PICK found \in SUBSET present : name' = FirstFound(found)
    BY <1>2 DEF SetEventReceiver, Readable
  <2>2. name' \in Versions
    BY <2>1, NameType
  <2> QED
    BY <1>2, <2>2 DEF SetEventReceiver, TypeOK
<1>3. CASE Install
  BY <1>3 DEF Install, TypeOK, Versions
<1>4. CASE Migrate
  BY <1>4 DEF Migrate, TypeOK, Versions
<1>5. ASSUME NEW c \in CRs, Apply(c) PROVE TypeOK'
  BY <1>5 DEF Apply, TypeOK
<1>6. ASSUME NEW c \in CRs, SetOwnerRef(c) PROVE TypeOK'
  <2>1. owner' \in [CRs -> {"absent", "none"} \cup Versions]
    BY <1>6 DEF SetOwnerRef, TypeOK
  <2> QED
    BY <1>6, <2>1 DEF SetOwnerRef, TypeOK
<1>7. ASSUME NEW c \in CRs, ListFails(c) PROVE TypeOK'
  BY <1>7 DEF ListFails, TypeOK
<1>8. ASSUME NEW c \in CRs, Collect(c) PROVE TypeOK'
  BY <1>8 DEF Collect, TypeOK
<1>9. CASE Fail
  <2>1. faults' \in 0..MaxFaults
    BY <1>9, ConstantsAssumption DEF Fail, TypeOK, ConstantsAssumption
  <2>2. present' \subseteq present
    BY <1>9 DEF Fail
  <2> QED
    BY <1>9, <2>1, <2>2 DEF Fail, TypeOK
<1>10. CASE UNCHANGED vars
  BY <1>10 DEF TypeOK
<1> QED
  BY <1>1, <1>2, <1>3, <1>4, <1>5, <1>6, <1>7, <1>8, <1>9, <1>10
     DEF Next, Deploy

\* No deployment keeps anything but what it has to do, whichever step it fails
\* at: the name is of a version and nothing is owned before it is applied.
THEOREM TypeCorrect == Spec => []TypeOK
BY TypeInit, TypeStep, PTL DEF Spec

-----------------------------------------------------------------------------
\* There and not to be collected.
Kept(c) == owner[c] \in {"none"} \cup present

\* A deployment that began without v0 has no pair of deployments to migrate.
NoPair == stage # "idle" /\ ~hadV0 => ~(Versions \subseteq present)

\* If v1 is the target, v0 has not come back, nor does it after a success.
NoReturn ==
    (stage # "idle" \/ outcome = "ok") /\ ~hadV0 /\ target = "v1" =>
        "v0" \notin present

\* What such a deployment has applied is kept, from then on.
AppliedKept ==
    stage \in {"pre", "postReceiver", "post"} /\ ~hadV0 =>
        \A c \in CRs \ toApply : Kept(c)

\* And beyond its end.
SuccessKept ==
    outcome = "ok" => /\ stage = "idle"
                      /\ ~hadV0 => \A c \in CRs : Kept(c)

IInv == TypeOK /\ NoPair /\ NoReturn /\ AppliedKept /\ SuccessKept

\* No deployment has begun.
LEMMA InitIInv == Init => IInv
BY TypeInit DEF Init, IInv, NoPair, NoReturn, AppliedKept, SuccessKept

\* Every step keeps the invariant, one case per action.
LEMMA StepIInv == IInv /\ [Next]_vars => IInv'
<1> SUFFICES ASSUME IInv, [Next]_vars
             PROVE  NoPair' /\ NoReturn' /\ AppliedKept' /\ SuccessKept'
  BY TypeStep DEF IInv
<1> USE DEF IInv, NoPair, NoReturn, AppliedKept, SuccessKept, Kept
<1>1. CASE Begin
  BY <1>1 DEF Begin, Versions
<1>2. CASE SetEventReceiver
  BY <1>2 DEF SetEventReceiver
<1>3. CASE Install
  BY <1>3 DEF Install, TypeOK, Versions
<1>4. CASE Migrate
  BY <1>4 DEF Migrate, Migrating, TypeOK
<1>5. ASSUME NEW c \in CRs, Apply(c)
      PROVE  NoPair' /\ NoReturn' /\ AppliedKept' /\ SuccessKept'
  BY <1>5 DEF Apply, TypeOK
<1>6. ASSUME NEW c \in CRs, SetOwnerRef(c)
      PROVE  NoPair' /\ NoReturn' /\ AppliedKept' /\ SuccessKept'
  BY <1>6 DEF SetOwnerRef, TypeOK
<1>7. ASSUME NEW c \in CRs, ListFails(c)
      PROVE  NoPair' /\ NoReturn' /\ AppliedKept' /\ SuccessKept'
  BY <1>7 DEF ListFails
<1>8. ASSUME NEW c \in CRs, Collect(c)
      PROVE  NoPair' /\ NoReturn' /\ AppliedKept' /\ SuccessKept'
  BY <1>8 DEF Collect, Condemned, TypeOK, Versions
<1>9. CASE Fail
  BY <1>9 DEF Fail
<1>10. CASE UNCHANGED vars
  BY <1>10
<1> QED
  BY <1>1, <1>2, <1>3, <1>4, <1>5, <1>6, <1>7, <1>8, <1>9, <1>10
     DEF Next, Deploy

\* Whatever a migration has condemned, collected or left, and whichever look-up
\* fails, a successful deployment without v0 leaves every resource in place.
THEOREM Repaired == Spec => []RepairedByTheNext
<1>1. IInv => RepairedByTheNext
  BY DEF IInv, SuccessKept, Kept, RepairedByTheNext, Condemned, TypeOK, Versions
<1> QED
  BY <1>1, InitIInv, StepIInv, PTL DEF Spec

-----------------------------------------------------------------------------
(* What stays *)

\* The service has moved to v1, v0 is gone and no resource went with it.
Settled ==
    /\ target = "v1"
    /\ "v0" \notin present
    /\ \A c \in CRs : Kept(c)

\* No step leads back: what owns a resource is v1 or nothing.
LEMMA StepSettled == TypeOK /\ Settled /\ [Next]_vars => Settled'
<1> SUFFICES ASSUME TypeOK, Settled, [Next]_vars PROVE Settled'
  OBVIOUS
<1> USE DEF Settled, Kept
<1>1. CASE Begin \/ Install
  BY <1>1 DEF Begin, Install, TypeOK, Versions
<1>2. CASE SetEventReceiver
  BY <1>2 DEF SetEventReceiver
<1>3. CASE Migrate \/ Fail
  BY <1>3 DEF Migrate, Fail, Migrating, Versions
<1>4. ASSUME NEW c \in CRs, Apply(c) PROVE Settled'
  BY <1>4 DEF Apply, TypeOK
<1>5. ASSUME NEW c \in CRs, SetOwnerRef(c) PROVE Settled'
  BY <1>5 DEF SetOwnerRef, TypeOK
<1>6. ASSUME NEW c \in CRs, ListFails(c) PROVE Settled'
  BY <1>6 DEF ListFails
<1>7. ASSUME NEW c \in CRs, Collect(c) PROVE Settled'
  BY <1>7 DEF Collect, Condemned, Versions
<1>8. CASE UNCHANGED vars
  BY <1>8
<1> QED
  BY <1>1, <1>2, <1>3, <1>4, <1>5, <1>6, <1>7, <1>8 DEF Next, Deploy

\* The resources that a success of v1 has found without v0 are never lost
\* again, whatever later deployments do, fail at or cannot read: of
\* EventuallyKept it is left that some deployment gets so far.
THEOREM KeptForGood ==
    Spec => [](outcome = "ok" /\ ~hadV0 /\ target = "v1" =>
                   [](\A c \in CRs : owner[c] # "absent"))
<1>1. IInv /\ outcome = "ok" /\ ~hadV0 /\ target = "v1" => Settled
  BY DEF IInv, NoReturn, SuccessKept, Settled
<1>2. TypeOK /\ Settled => \A c \in CRs : owner[c] # "absent"
  BY DEF TypeOK, Settled, Kept, Versions
<1>3. IInv => TypeOK
  BY DEF IInv
<1> QED
  BY <1>1, <1>2, <1>3, StepSettled, InitIInv, StepIInv, PTL DEF Spec
=============================================================================
