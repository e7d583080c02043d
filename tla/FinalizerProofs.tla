-------------------------- MODULE FinalizerProofs --------------------------
(***************************************************************************)
(* Theorems about Finalizer for every set of resources and every sequence  *)
(* of lists.                                                               *)
(***************************************************************************)
EXTENDS Finalizer, FiniteSets, FiniteSetTheorems, TLAPS

USE DEF clusterVars, ghostVars, vars

\* There is a first list, and each selects resources of the session.
LEMMA Lists ==
    /\ Len(Selected) \in Nat
    /\ 1 \in 1..Len(Selected)
    /\ \A i \in 1..Len(Selected) : Selected[i] \subseteq CRs
BY ConstantsAssumption DEF ConstantsAssumption

\* The hook starts well typed, whatever the cluster holds.
LEMMA TypeInit == Init => TypeOK
BY Lists DEF Init, TypeOK

\* A process that ends leaves nothing of itself behind.
LEMMA ExitType ==
    ASSUME TypeOK, NEW result \in {"ok", "interrupted", "failed", "panic"},
           Exit(result), {v0, hpa, managed}' \subseteq BOOLEAN,
           UNCHANGED <<phase, v1, available, ghostVars>>
    PROVE  TypeOK'
BY Lists DEF TypeOK, Exit

\* Every step of the hook, and of the cluster, keeps the types.
LEMMA TypeStep == TypeOK /\ [Next]_vars => TypeOK'
<1> SUFFICES ASSUME TypeOK, [Next]_vars PROVE TypeOK'
  OBVIOUS
<1> USE Lists
<1>1. CASE Start
  BY <1>1 DEF Start, TypeOK, UpdatedNow
<1>2. CASE ListFinds
  BY <1>2 DEF ListFinds, Calls, TypeOK
<1>3. CASE NextItem \/ ListFails
  BY <1>3 DEF NextItem, ListFails, Goto, TypeOK
<1>4. CASE NextList
  BY <1>4 DEF NextList, TypeOK
<1>5. CASE PollEnds \/ Report \/ SetOwnerRef \/ Timers
  <2>1. CASE PollTimesOut \/ PollEnds \/ Report \/ SetOwnerRef
    BY <2>1 DEF PollTimesOut, PollEnds, Report, SetOwnerRef, Calls, Goto, TypeOK
  <2>2. CASE ReadyTimesOut
    BY <2>2, ExitType DEF ReadyTimesOut, TypeOK
  <2> QED
    BY <1>5, <2>1, <2>2 DEF Timers
<1>6. CASE ListDeployments \/ CheckDeploymentStatus \/ GetHpa \/ CheckHpa
  BY <1>6 DEF ListDeployments, CheckDeploymentStatus, GetHpa, CheckHpa, Calls,
     Goto, TypeOK
<1>7. CASE DeleteV0 \/ DeleteHpa
  BY <1>7 DEF DeleteV0, DeleteHpa, Calls, Goto, TypeOK
<1>8. CASE WaiterFails \/ PollPanics \/ Killed \/ MainReturns
  BY <1>8, ExitType DEF WaiterFails, PollPanics, Killed, MainReturns, TypeOK
<1>9. CASE ApiFatal
  <2>1. {v0, hpa, managed}' \subseteq BOOLEAN
    BY <1>9 DEF ApiFatal, TypeOK
  <2> QED
    BY <1>9, <2>1, ExitType DEF ApiFatal
<1>10. CASE Signal \/ RunReturns
  BY <1>10 DEF Signal, RunReturns, Calls, TypeOK
<1>11. ASSUME NEW c \in CRs, OperatorReports(c) PROVE TypeOK'
  BY <1>11 DEF OperatorReports, TypeOK
<1>12. CASE DeploymentChanges
  BY <1>12, ZenonT(40) DEF DeploymentChanges, TypeOK
<1>13. CASE UNCHANGED vars
  BY <1>13 DEF TypeOK
<1> QED
  BY <1>1, <1>2, <1>3, <1>4, <1>5, <1>6, <1>7, <1>8, <1>9, <1>10, <1>11,
     <1>12, <1>13 DEF Next, Generator, Failures

\* A run stays within its lists and polls only resources they have found.
THEOREM TypeCorrect == Spec => []TypeOK
BY TypeInit, TypeStep, PTL DEF Spec

-----------------------------------------------------------------------------
\* What a run has passed of the resources it has found.
ListedPassed ==
    /\ pc \in {"list", "migrate", "ready", "deleteV0", "getHpa", "deleteHpa",
               "checkHpa", "done"} => listed \subseteq updated
    /\ pc = "loop" => listed \subseteq updated \cup items
    /\ pc = "poll" => listed \subseteq updated \cup items \cup {cur}
    /\ pc = "own" => listed \subseteq updated \cup items
    /\ ctx = "stopped" => pc = "done"
    /\ outcome = "ok" => pc = "idle" /\ listed \subseteq updated

\* The ghosts keep up with the cluster, from the start of a run on.
GhostsSound ==
    /\ pc # "idle" => UpdatedNow \subseteq updated
    /\ pc # "idle" => outcome = "running"
    /\ pc # "idle" /\ available => served
    /\ adopted /\ v0 => managed

\* What is known before v0 is deleted.
ReadyToDelete ==
    /\ pc \in {"ready", "deleteV0"} /\ v0 => ~adopted
    /\ pc = "deleteV0" => served

IInv == TypeOK /\ ListedPassed /\ GhostsSound /\ ReadyToDelete

\* No run has begun.
LEMMA InitIInv == Init => IInv
BY TypeInit DEF Init, IInv, ListedPassed, GhostsSound, ReadyToDelete

\* Every step keeps the invariant, one case per action.
LEMMA StepIInv == IInv /\ [Next]_vars => IInv'
<1> SUFFICES ASSUME IInv, [Next]_vars
             PROVE  ListedPassed' /\ GhostsSound' /\ ReadyToDelete'
  BY TypeStep DEF IInv
<1> USE DEF IInv, ListedPassed, GhostsSound, ReadyToDelete
<1>1. CASE Start
  BY <1>1 DEF Start, UpdatedNow, TypeOK
<1>2. CASE ListFinds
  BY <1>2 DEF ListFinds, Calls, UpdatedNow
<1>3. CASE NextItem
  BY <1>3 DEF NextItem, UpdatedNow
<1>4. CASE NextList
  BY <1>4 DEF NextList, UpdatedNow
<1>5. CASE PollEnds
  <2>1. phase[cur] = "Updated" => cur \in updated
    BY <1>5 DEF PollEnds, Calls, UpdatedNow, TypeOK
  <2> QED
    BY <1>5, <2>1 DEF PollEnds, Calls, Goto, UpdatedNow
<1>6. CASE Report \/ SetOwnerRef \/ PollTimesOut \/ ListFails
  BY <1>6 DEF Report, SetOwnerRef, PollTimesOut, ListFails, Calls, Goto,
     UpdatedNow
<1>7. CASE ListDeployments
  BY <1>7 DEF ListDeployments, Calls, Goto, UpdatedNow, TypeOK
<1>8. CASE CheckDeploymentStatus
  BY <1>8 DEF CheckDeploymentStatus, Calls, Goto, UpdatedNow
<1>9. CASE GetHpa \/ CheckHpa \/ DeleteHpa
  BY <1>9 DEF GetHpa, CheckHpa, DeleteHpa, Calls, Goto, UpdatedNow
<1>10. CASE DeleteV0
  BY <1>10 DEF DeleteV0, Calls, Goto, UpdatedNow
<1>11. CASE WaiterFails \/ PollPanics \/ Killed \/ ReadyTimesOut
  BY <1>11 DEF WaiterFails, PollPanics, Killed, ReadyTimesOut, Exit, UpdatedNow
<1>12. CASE ApiFatal
  BY <1>12 DEF ApiFatal, Exit, UpdatedNow, TypeOK
<1>13. CASE MainReturns
  BY <1>13 DEF MainReturns, Exit, UpdatedNow
<1>14. CASE Signal \/ RunReturns
  BY <1>14 DEF Signal, RunReturns, Calls, UpdatedNow
<1>15. ASSUME NEW c \in CRs, OperatorReports(c)
       PROVE  ListedPassed' /\ GhostsSound' /\ ReadyToDelete'
  BY <1>15 DEF OperatorReports, UpdatedNow
<1>16. CASE DeploymentChanges
  BY <1>16 DEF DeploymentChanges, UpdatedNow, TypeOK
<1>17. CASE UNCHANGED vars
  BY <1>17 DEF UpdatedNow
<1> QED
  BY <1>1, <1>2, <1>3, <1>4, <1>5, <1>6, <1>7, <1>8, <1>9, <1>10, <1>11,
     <1>12, <1>13, <1>14, <1>15, <1>16, <1>17
     DEF Next, Generator, Timers, Failures

\* The invariant holds throughout.
LEMMA Invariant == Spec => []IInv
BY InitIInv, StepIInv, PTL DEF Spec

\* Whatever operators, signals and failing calls do, a run that ends with
\* success has passed every resource its lists have found.
THEOREM ListedUpdated == Spec => []SuccessMeansListedUpdated
<1>1. IInv => SuccessMeansListedUpdated
  BY DEF IInv, ListedPassed, SuccessMeansListedUpdated
<1> QED
  BY <1>1, Invariant, PTL

\* No run takes v0 away before v1 has served, or from the facade operator.
THEOREM OldKept == Spec => OldKeptUntilNewServes
<1>1. IInv /\ [Next]_vars => [v0 /\ ~v0' => served /\ ~adopted]_vars
  <2> SUFFICES ASSUME IInv, Next, v0, ~v0' PROVE served /\ ~adopted
    OBVIOUS
  <2>1. pc = "deleteV0"
    <3>1. CASE DeleteV0
      BY <3>1 DEF DeleteV0, Calls
    <3>2. CASE ApiFatal
      BY <3>2 DEF ApiFatal, Calls
    <3> QED
      BY <3>1, <3>2 DEF Next, Generator, Timers, Failures, Start, ListFinds,
         NextItem, NextList, PollEnds, Report, WaiterFails, SetOwnerRef,
         ListDeployments, CheckDeploymentStatus, GetHpa, DeleteHpa, CheckHpa,
         PollTimesOut, ReadyTimesOut, RunReturns, MainReturns, ListFails,
         PollPanics, Signal, Killed, OperatorReports, DeploymentChanges
  <2> QED
    BY <2>1 DEF IInv, ReadyToDelete
<1> QED
  BY <1>1, Invariant, PTL DEF Spec, OldKeptUntilNewServes

-----------------------------------------------------------------------------
(* How long a run takes *)

\* Steps that a run may still take at the list it is at and behind the last.
StepsLeft ==
    LET rank ==
          CASE pc = "list" -> 3 * Cardinality(CRs) + 12
            [] pc = "loop" -> 3 * Cardinality(items) + 9
            [] pc = "poll" -> 3 * Cardinality(items) + 11
            [] pc = "own" -> 3 * Cardinality(items) + 10
            [] pc = "migrate" -> 8
            [] pc = "ready" -> 7
            [] pc = "deleteV0" -> 6
            [] pc = "getHpa" -> 5
            [] pc = "deleteHpa" -> 4
            [] pc = "checkHpa" -> 3
            [] pc \in {"done", "report"} -> 2
            [] OTHER -> 1
    IN IF ctx = "live" THEN rank + 1 ELSE rank

\* What StepsLeft is computed from.
runState == <<pc, list, items, ctx>>

\* A run has not more to poll than the session has resources.
LEMMA Subsets ==
    ASSUME IsFiniteSet(CRs), NEW S \in SUBSET CRs
    PROVE  /\ IsFiniteSet(S)
           /\ Cardinality(CRs) \in Nat
           /\ Cardinality(S) \in 0..Cardinality(CRs)
<1>1. IsFiniteSet(S) /\ Cardinality(S) <= Cardinality(CRs)
  BY FS_Subset
<1>2. Cardinality(CRs) \in Nat /\ Cardinality(S) \in Nat
  BY <1>1, FS_CardinalityType
<1> QED
  BY <1>1, <1>2

\* A step of the generator, a timer, a failure and the end of main bring the
\* end of the list, of the lists or of the run nearer.
LEMMA StepCloser ==
    ASSUME IsFiniteSet(CRs), TypeOK, TypeOK', pc # "idle",
           \/ Generator \/ Timers \/ RunReturns \/ MainReturns \/ Failures
    PROVE  \/ pc' = "idle"
           \/ list' \in (list + 1)..Len(Selected)
           \/ list' = list /\ StepsLeft' \in 0..(StepsLeft - 1)
<1> DEFINE n == Cardinality(items)
           m == Cardinality(CRs)
<1>0. /\ n \in Nat /\ n' \in Nat /\ m \in Nat /\ n <= m /\ n' <= m
      /\ IsFiniteSet(items)
  BY Subsets DEF TypeOK
<1>a. StepsLeft \in Nat /\ StepsLeft' \in Nat
  <2> HIDE DEF n, m
  <2>1. StepsLeft \in Nat
    BY <1>0 DEF StepsLeft, n, m
  <2>2. StepsLeft' \in Nat
    BY <1>0 DEF StepsLeft, n, m
  <2> QED
    BY <2>1, <2>2
<1> SUFFICES ASSUME pc' # "idle"
             PROVE  \/ list' \in (list + 1)..Len(Selected)
                    \/ list' = list /\ StepsLeft' < StepsLeft
  BY <1>a
<1>1. CASE ListFinds \/ ListFails
  <2>1. pc = "list" /\ pc' = "loop" /\ ctx' = ctx /\ list' = list
    BY <1>1 DEF ListFinds, ListFails, Calls, Goto
  <2> HIDE DEF n, m
  <2> QED
    BY <1>0, <2>1 DEF StepsLeft, n, m
<1>2. CASE NextItem
  <2>1. /\ pc = "loop" /\ pc' = "poll" /\ ctx' = ctx /\ list' = list
        /\ cur' \in items /\ items' = items \ {cur'}
    BY <1>2 DEF NextItem
  <2>2. n' = n - 1
    BY <1>0, <2>1, FS_RemoveElement
  <2> HIDE DEF n
  <2> QED
    BY <1>0, <2>1, <2>2 DEF StepsLeft, n
<1>3. CASE NextList
  BY <1>0, <1>3 DEF NextList, StepsLeft, TypeOK
<1>4. CASE PollEnds \/ SetOwnerRef \/ PollTimesOut \/ Report
  <2>1. /\ ctx' = ctx /\ list' = list /\ items' = items
        /\ \/ pc = "poll" /\ pc' \in {"own", "report"}
           \/ pc = "own" /\ pc' = "loop"
           \/ pc = "report" /\ pc' = "sleep"
    <3>1. CASE PollEnds
      BY <3>1 DEF PollEnds, Calls, Goto
    <3>2. CASE SetOwnerRef
      BY <3>2 DEF SetOwnerRef, Calls, Goto
    <3>3. CASE PollTimesOut \/ Report
      BY <3>3 DEF PollTimesOut, Report, Calls, Goto
    <3> QED
      BY <1>4, <3>1, <3>2, <3>3
  <2>2. n' = n
    BY <2>1
  <2> HIDE DEF n
  <2> QED
    BY <1>0, <2>1, <2>2 DEF StepsLeft, n
<1>5. CASE ListDeployments \/ CheckDeploymentStatus \/ DeleteV0 \/ GetHpa
           \/ DeleteHpa \/ CheckHpa
  <2>1. /\ ctx' = ctx /\ list' = list
        /\ \/ pc = "migrate" /\ pc' \in {"ready", "done"}
           \/ pc = "ready" /\ pc' = "deleteV0"
           \/ pc = "deleteV0" /\ pc' = "getHpa"
           \/ pc = "getHpa" /\ pc' \in {"deleteHpa", "done"}
           \/ pc = "deleteHpa" /\ pc' = "checkHpa"
           \/ pc = "checkHpa" /\ pc' = "done"
    BY <1>5 DEF ListDeployments, CheckDeploymentStatus, DeleteV0, GetHpa,
       DeleteHpa, CheckHpa, Calls, Goto
  <2> QED
    BY <2>1 DEF StepsLeft
<1>6. CASE RunReturns \/ Signal
  <2>1. /\ ctx = "live" /\ ctx' # "live"
        /\ pc' = pc /\ list' = list /\ items' = items
    BY <1>6 DEF RunReturns, Signal, Calls
  <2>2. n' = n
    BY <2>1
  <2> HIDE DEF n
  <2> QED
    BY <1>0, <2>1, <2>2 DEF StepsLeft, n, TypeOK
<1>7. CASE WaiterFails \/ ReadyTimesOut \/ MainReturns
  BY <1>7 DEF WaiterFails, ReadyTimesOut, MainReturns, Exit
<1>8. CASE PollPanics \/ ApiFatal \/ Killed
  BY <1>8 DEF PollPanics, ApiFatal, Killed, Exit
<1> QED
  BY <1>1, <1>2, <1>3, <1>4, <1>5, <1>6, <1>7, <1>8 DEF Generator, Timers, Failures

\* What a run can do is bounded by its lists and the resources of the session,
\* whatever operators and deployments do meanwhile: none of their steps puts it
\* back.  With the fairness of FairSpec a run therefore ends (RunsEnd).
THEOREM RunsBounded ==
    IsFiniteSet(CRs) =>
        (Spec => [][pc # "idle" =>
                       \/ UNCHANGED runState
                       \/ pc' = "idle"
                       \/ list' \in (list + 1)..Len(Selected)
                       \/ /\ list' = list
                          /\ StepsLeft' \in 0..(StepsLeft - 1)]_vars)
<1> SUFFICES ASSUME IsFiniteSet(CRs)
             PROVE  Spec => [][pc # "idle" =>
                                  \/ UNCHANGED runState
                                  \/ pc' = "idle"
                                  \/ list' \in (list + 1)..Len(Selected)
                                  \/ /\ list' = list
                                     /\ StepsLeft' \in 0..(StepsLeft - 1)]_vars
  OBVIOUS
<1>1. TypeOK /\ TypeOK' /\ [Next]_vars =>
          [pc # "idle" =>
              \/ UNCHANGED runState
              \/ pc' = "idle"
              \/ list' \in (list + 1)..Len(Selected)
              \/ list' = list /\ StepsLeft' \in 0..(StepsLeft - 1)]_vars
  <2> SUFFICES ASSUME TypeOK, TypeOK', Next, pc # "idle"
               PROVE  \/ UNCHANGED runState
                      \/ pc' = "idle"
                      \/ list' \in (list + 1)..Len(Selected)
                      \/ list' = list /\ StepsLeft' \in 0..(StepsLeft - 1)
    OBVIOUS
  <2>1. ASSUME NEW c \in CRs, OperatorReports(c) PROVE UNCHANGED runState
    BY <2>1 DEF OperatorReports, runState
  <2>2. CASE DeploymentChanges
    BY <2>2 DEF DeploymentChanges, runState
  <2>3. ~Start
    BY DEF Start
  <2> QED
    BY <2>1, <2>2, <2>3, StepCloser DEF Next
<1> QED
  BY <1>1, TypeCorrect, PTL DEF Spec
=============================================================================
