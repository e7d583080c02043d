-------------------------- MODULE BootstrapProofs --------------------------
(***************************************************************************)
(* Theorems about Bootstrap for all configurations, all resources of       *)
(* static-core-gateway and any number of attempts and faults.              *)
(***************************************************************************)
EXTENDS Bootstrap, TLAPS

USE DEF systems, config, vars

\* A plan has at least one entry, and static-core-gateway a resource.
LEMMA Sequences ==
    /\ None \notin DbType
    /\ \A p \in Plans : /\ p.rules \in Seq(Entry)
                        /\ p.ms \in PhysDb \cup {None}
                        /\ Len(p.rules) \in Nat \ {0}
                        /\ \A i \in 1..Len(p.rules) : p.rules[i] \in Entry
    /\ Len(Gateway) \in Nat \ {0}
    /\ DOMAIN Gateway = 1..Len(Gateway)
    /\ \A i \in 1..Len(Gateway) : Gateway[i] \in Range(Gateway)
    /\ \A c \in Range(Gateway) : \E i \in 1..Len(Gateway) : c = Gateway[i]
    /\ \A i, j \in 1..Len(Gateway) : Gateway[i] = Gateway[j] => i = j
    /\ MaxAttempts \in Nat \ {0}
    /\ MaxFaults \in Nat
<1>1. Plans \subseteq Plan /\ \A p \in Plans : p.rules # <<>>
  BY ConstantsAssumption DEF ConstantsAssumption
<1>2. \A p \in Plans : /\ p.rules \in Seq(Entry)
                       /\ p.ms \in PhysDb \cup {None}
                       /\ Len(p.rules) \in Nat \ {0}
                       /\ \A i \in 1..Len(p.rules) : p.rules[i] \in Entry
  <2> SUFFICES ASSUME NEW p \in Plans
               PROVE  /\ p.rules \in Seq(Entry)
                      /\ p.ms \in PhysDb \cup {None}
                      /\ Len(p.rules) \in Nat \ {0}
                      /\ \A i \in 1..Len(p.rules) : p.rules[i] \in Entry
    OBVIOUS
  <2>1. p.rules \in Seq(Entry) /\ p.rules # <<>> /\ p.ms \in PhysDb \cup {None}
    BY <1>1 DEF Plan
  <2> QED
    BY <2>1
<1>3. Gateway \in Seq(Range(Gateway)) /\ Gateway # <<>> /\ IsInjective(Gateway)
  BY ConstantsAssumption DEF ConstantsAssumption
<1>4. DOMAIN Gateway = 1..Len(Gateway) /\ Len(Gateway) \in Nat \ {0}
  BY <1>3
<1>5. /\ \A i \in 1..Len(Gateway) : Gateway[i] \in Range(Gateway)
      /\ \A c \in Range(Gateway) : \E i \in 1..Len(Gateway) : c = Gateway[i]
  BY <1>4 DEF Range
<1>6. \A i, j \in 1..Len(Gateway) : Gateway[i] = Gateway[j] => i = j
  BY <1>3, <1>4 DEF IsInjective
<1> QED
  BY <1>2, <1>4, <1>5, <1>6, ConstantsAssumption DEF ConstantsAssumption

\* Each phase has tasks.
LEMMA TaskLists ==
    ASSUME phase \in {"pre", "post"}
    PROVE  /\ Len(Tasks) \in Nat \ {0}
           /\ \A c \in Range(Tasks) : \E i \in 1..Len(Tasks) : c = Tasks[i]
<1>1. CASE phase = "pre"
  <2>1. Tasks = PreTasks /\ Len(PreTasks) = 5 /\ DOMAIN PreTasks = 1..5
    BY <1>1 DEF Tasks, PreTasks
  <2> QED
    BY <2>1 DEF Range
<1>2. CASE phase = "post"
  <2>1. Tasks = PostTasks /\ Len(PostTasks) = 1 /\ DOMAIN PostTasks = 1..1
    BY <1>2 DEF Tasks, PostTasks
  <2> QED
    BY <2>1 DEF Range
<1> QED
  BY <1>1, <1>2

\* What earlier deployments have left is of the right type.
LEMMA TypeInit == Init => TypeOK
<1> SUFFICES ASSUME Init PROVE TypeOK
  OBVIOUS
<1>1. tokenGone \in BOOLEAN /\ (tokenGone => "configserver" \notin done)
  BY DEF Init
<1>2. secret \in {"none", "stale", "working"} /\ db \in {"absent", "ready"}
  BY DEF Init
<1>3. plan \in Plans /\ lacking = None /\ MaxAttempts \in Nat
  BY ConstantsAssumption DEF Init, ConstantsAssumption
<1>4. done \subseteq {"configserver", "maas"} /\ gateway \subseteq Range(Gateway)
  BY DEF Init
<1> QED
  BY <1>1, <1>2, <1>3, <1>4, Sequences DEF Init, TypeOK

\* A fault is counted, within the bound.
LEMMA FaultType == TypeOK /\ Fault => faults' \in 0..MaxFaults
BY Sequences DEF TypeOK, Fault

\* A run that ends leaves well-typed systems well typed.
LEMMA RunEndsType ==
    ASSUME TypeOK, NEW result \in {"ok", "failed"}, RunEnds(result),
           Fault \/ UNCHANGED faults, UNCHANGED config,
           rule' \in [DbType -> PhysDb \cup {None}],
           msRule' \in PhysDb \cup {None},
           db' \in {"absent", "creating", "ready"},
           secret' \in {"none", "stale", "working"},
           done' \subseteq {"configserver", "maas"},
           tokenGone' \in BOOLEAN,
           tokenGone' => "configserver" \notin done',
           gateway' \subseteq Range(Gateway)
    PROVE  TypeOK'
BY FaultType, Sequences DEF TypeOK, RunEnds, Tasks

\* Every step of a run, every fault and every step of DBaaS keeps the types.
LEMMA TypeStep == TypeOK /\ [Next]_vars => TypeOK'
<1> SUFFICES ASSUME TypeOK, [Next]_vars PROVE TypeOK'
  OBVIOUS
<1> USE Sequences
<1>0. /\ plan \in Plans
      /\ Len(plan.rules) \in Nat \ {0}
      /\ pos \in Nat \ {0}
      /\ Len(Tasks) \in Nat \ {0}
  BY TaskLists DEF TypeOK
<1>1. CASE Start
  <2>1. 1 <= Len(Tasks')
    BY <1>1, TaskLists DEF Start, Tasks, PreTasks, PostTasks
  <2>2. pc' = "configure" /\ pos' = pos
    BY <1>1 DEF Start
  <2> QED
    BY <1>1, <2>1, <2>2 DEF Start, TypeOK
<1>2. CASE Configure
  <2>1. CASE pos < Len(Tasks)
    <3>1. Goto("configure", pos + 1) /\ pos + 1 <= Len(Tasks)
      BY <1>0, <1>2, <2>1 DEF Configure
    <3> QED
      BY <1>0, <1>2, <3>1 DEF Goto, Tasks, Configure, TypeOK
  <2>2. CASE ~(pos < Len(Tasks))
    <3>1. Goto(FirstStep, 1) /\ FirstStep \in {"delete", "msRule", "rules"}
      BY <1>2, <2>2 DEF Configure, FirstStep
    <3> QED
      BY <1>0, <1>2, <3>1 DEF Goto, Tasks, Configure, TypeOK
  <2> QED
    BY <2>1, <2>2
<1>3. CASE ConfigureFails \/ RuleMalformed
  <2>1. RunEnds("failed") /\ UNCHANGED <<systems, config>>
    BY <1>3 DEF ConfigureFails, RuleMalformed
  <2>2. Fault \/ UNCHANGED faults
    BY <1>3 DEF ConfigureFails, RuleMalformed
  <2> QED
    BY <2>1, <2>2, RunEndsType DEF systems, TypeOK
<1>4. CASE ApplyRule
  <2>1. rule' \in [DbType -> PhysDb \cup {None}]
    <3>1. plan.rules[pos] \in Entry
      BY <1>0, <1>4 DEF ApplyRule, TypeOK
    <3> QED
      BY <1>4, <3>1 DEF ApplyRule, TypeOK, Entry
  <2>2. CASE NextRule
    <3>1. CASE pos < Len(plan.rules)
      <4>1. Goto("rules", pos + 1) /\ pos + 1 <= Len(plan.rules)
        BY <1>0, <1>4, <2>2, <3>1 DEF ApplyRule, NextRule
      <4> QED
        BY <1>0, <1>4, <2>1, <4>1 DEF Goto, Tasks, ApplyRule, TypeOK
    <3>2. CASE ~(pos < Len(plan.rules))
      <4>1. Goto("msRule", 1)
        BY <2>2, <3>2 DEF NextRule
      <4> QED
        BY <1>4, <2>1, <4>1 DEF Goto, Tasks, ApplyRule, TypeOK
    <3> QED
      BY <3>1, <3>2
  <2>3. CASE Fault /\ RunEnds("failed")
    BY <1>4, <2>1, <2>3, RunEndsType DEF ApplyRule, TypeOK
  <2> QED
    BY <1>4, <2>2, <2>3 DEF ApplyRule, OrFails
<1>5. CASE ApplyMsRule
  <2>1. msRule' \in PhysDb \cup {None}
    BY <1>0, <1>5 DEF ApplyMsRule, TypeOK
  <2>2. CASE Goto("database", 1)
    BY <1>5, <2>1, <2>2 DEF Goto, Tasks, ApplyMsRule, TypeOK
  <2>3. CASE Fault /\ RunEnds("failed")
    BY <1>5, <2>1, <2>3, RunEndsType DEF ApplyMsRule, TypeOK
  <2> QED
    BY <1>5, <2>2, <2>3 DEF ApplyMsRule, OrFails
<1>6. CASE DatabaseAccepted
  BY <1>6 DEF DatabaseAccepted, TypeOK, Tasks
<1>7. CASE DatabaseProvided
  BY <1>7, FaultType DEF DatabaseProvided, TypeOK, Tasks
<1>8. CASE AttemptsExhausted
  BY <1>8 DEF Goto, Tasks, AttemptsExhausted, TypeOK
<1>9. CASE CheckProperties
  <2>1. CASE Goto("dbSecret", 1)
    BY <1>9, <2>1 DEF Goto, Tasks, CheckProperties, TypeOK
  <2>2. CASE RunEnds("failed") /\ UNCHANGED faults
    BY <1>9, <2>2, RunEndsType DEF CheckProperties, TypeOK
  <2> QED
    BY <1>9, <2>1, <2>2 DEF CheckProperties
<1>10. CASE SaveDbSecret
  <2>1. CASE Goto("configserver", 1)
    BY <1>10, <2>1 DEF Goto, Tasks, SaveDbSecret, TypeOK
  <2>2. CASE Fault /\ RunEnds("failed")
    BY <1>10, <2>2, RunEndsType DEF SaveDbSecret, TypeOK
  <2> QED
    BY <1>10, <2>1, <2>2 DEF SaveDbSecret, OrFails
<1>11. CASE ConfigServer
  <2>1. CASE Goto("maas", 1)
    BY <1>11, <2>1 DEF Goto, Tasks, ConfigServer, TypeOK
  <2>2. CASE Fault /\ RunEnds("failed")
    BY <1>11, <2>2, RunEndsType DEF ConfigServer, TypeOK
  <2> QED
    BY <1>11, <2>1, <2>2 DEF ConfigServer, OrFails
<1>12. CASE MaaS
  BY <1>12, RunEndsType DEF MaaS, OrFails, TypeOK
<1>17. CASE TokenDeleted
  BY <1>17, RunEndsType DEF TokenDeleted, TypeOK
<1>18. CASE TokenRefused
  BY <1>18, RunEndsType DEF TokenRefused, TypeOK
<1>13. CASE DeleteResource
  <2>1. gateway' \subseteq Range(Gateway)
    BY <1>13 DEF DeleteResource, TypeOK
  <2>2. CASE pos < Len(Gateway) /\ Goto("delete", pos + 1)
    BY <1>0, <1>13, <2>1, <2>2 DEF Goto, Tasks, DeleteResource, TypeOK
  <2>3. CASE (RunEnds("ok") /\ UNCHANGED faults) \/ (Fault /\ RunEnds("failed"))
    BY <1>13, <2>1, <2>3, RunEndsType DEF DeleteResource, TypeOK
  <2> QED
    <3>1. pc = "delete" /\ (NextDeletion \/ (Fault /\ RunEnds("failed")))
      BY <1>13 DEF DeleteResource, OrFails
    <3> QED
      BY <2>2, <2>3, <3>1 DEF NextDeletion
<1>14. CASE RunFails
  BY <1>14, RunEndsType DEF RunFails, TypeOK
<1>15. CASE DatabaseReady
  BY <1>15 DEF DatabaseReady, TypeOK, Tasks
<1>16. CASE UNCHANGED vars
  BY <1>16 DEF TypeOK, Tasks
<1> QED
  BY <1>1, <1>2, <1>3, <1>4, <1>5, <1>6, <1>7, <1>8, <1>9, <1>10, <1>11,
     <1>12, <1>13, <1>14, <1>15, <1>16, <1>17, <1>18 DEF Next, Run

\* A run stays within its tasks, its plan and the list of resources, and asks
\* for the database at most MaxAttempts times.
THEOREM TypeCorrect == Spec => []TypeOK
BY TypeInit, TypeStep, PTL DEF Spec

-----------------------------------------------------------------------------
(* What a run has done by the time it is at a step *)

\* The first n rules of the run's plan hold; of several for a type, the last.
Applied(n) ==
    \A i \in 1..n :
        /\ plan.rules[i].type # None
        /\ \/ rule[plan.rules[i].type] = plan.rules[i].phys
           \/ \E j \in (i + 1)..n : plan.rules[j].type = plan.rules[i].type

RulesInForce == Skipped(plan) \/ Applied(Len(plan.rules))

\* A task is executed only in its phase, and with every Configure behind it.
Course ==
    /\ pc # "idle" => outcome = "running"
    /\ pc = "configure" => \A i \in 1..(pos - 1) : Tasks[i] # lacking
    /\ pc \notin {"idle", "configure"} => lacking = None
    /\ pc = "delete" => phase = "post"
    /\ pc \notin {"idle", "configure", "delete"} => phase = "pre"

RulesDone ==
    /\ pc = "rules" => ~Skipped(plan) /\ Applied(pos - 1)
    /\ pc \in {"msRule", "database", "check", "dbSecret", "configserver", "maas"}
          => RulesInForce
    /\ pc \in {"database", "check", "dbSecret", "configserver", "maas"}
          => (plan.ms # None => msRule = plan.ms)

DatabaseDone ==
    /\ props = "full" => db = "ready"
    /\ secret = "working" => db = "ready"
    /\ pc = "dbSecret" => props = "full"
    /\ pc \in {"configserver", "maas"} => secret = "working"
    /\ pc = "maas" => (plan.consul => "configserver" \in done)

GatewayDone ==
    pc = "delete" => \A i \in 1..(pos - 1) : Gateway[i] \notin gateway

Success ==
    outcome = "ok" =>
        /\ pc = "idle"
        /\ phase = "pre" => /\ RulesInForce
                            /\ plan.ms # None => msRule = plan.ms
                            /\ secret = "working"
                            /\ plan.consul => "configserver" \in done
                            /\ "maas" \in done
        /\ phase = "post" => gateway = {}

Inv == TypeOK /\ Course /\ RulesDone /\ DatabaseDone /\ GatewayDone /\ Success

\* An earlier deployment's leftovers are no run's doing.
LEMMA InvInit == Init => Inv
BY TypeInit DEF Init, Inv, Course, RulesDone, DatabaseDone, GatewayDone, Success

\* Every way a run ends leaves what the steps have to say about idle runs.
LEMMA RunEndsInv ==
    ASSUME NEW result \in {"ok", "failed"}, RunEnds(result)
    PROVE  /\ Course' /\ RulesDone' /\ GatewayDone'
           /\ (secret' = "working" => db' = "ready") => DatabaseDone'
           /\ result = "failed" => Success'
BY DEF RunEnds, Course, RulesDone, GatewayDone, DatabaseDone, Success

\* Tasks are executed only after the last Configure.
LEMMA CourseStep == Inv /\ [Next]_vars => Course'
<1> SUFFICES ASSUME Inv, [Next]_vars PROVE Course'
  OBVIOUS
<1> USE DEF Inv
<1>0. pos \in Nat \ {0} /\ phase \in {"pre", "post"}
  BY DEF TypeOK
<1>1. CASE Start
  BY <1>0, <1>1 DEF Start, Course, TypeOK
<1>2. CASE Configure
  <2>1. CASE pos < Len(Tasks)
    BY <1>0, <1>2, <2>1 DEF Configure, Goto, Course, Tasks
  <2>2. CASE ~(pos < Len(Tasks))
    <3>1. pos = Len(Tasks) /\ \A i \in 1..Len(Tasks) : Tasks[i] # lacking
      BY <1>0, <1>2, <2>2, TaskLists DEF Configure, Course, TypeOK
    <3>2. lacking = None
      BY <1>0, <3>1, TaskLists DEF TypeOK
    <3> QED
      BY <1>0, <1>2, <2>2, <3>2 DEF Configure, Goto, FirstStep, Course
  <2> QED
    BY <2>1, <2>2
<1>3. CASE \/ ConfigureFails \/ RuleMalformed \/ RunFails
           \/ TokenDeleted \/ TokenRefused
  BY <1>3, RunEndsInv DEF ConfigureFails, RuleMalformed, RunFails,
                              TokenDeleted, TokenRefused
<1>4. CASE ApplyRule \/ ApplyMsRule \/ SaveDbSecret \/ ConfigServer
  <2>1. CASE RunEnds("failed")
    BY <2>1, RunEndsInv
  <2>2. CASE ~RunEnds("failed")
    BY <1>4, <2>2 DEF ApplyRule, ApplyMsRule, SaveDbSecret, ConfigServer,
                      OrFails, NextRule, Goto, Course
  <2> QED
    BY <2>1, <2>2
<1>5. CASE DatabaseAccepted \/ DatabaseProvided \/ AttemptsExhausted
  BY <1>5 DEF DatabaseAccepted, DatabaseProvided, AttemptsExhausted, Goto, Course
<1>6. CASE CheckProperties
  <2>1. CASE RunEnds("failed")
    BY <2>1, RunEndsInv
  <2>2. CASE ~RunEnds("failed")
    BY <1>6, <2>2 DEF CheckProperties, Goto, Course
  <2> QED
    BY <2>1, <2>2
<1>7. CASE MaaS
  BY <1>7, RunEndsInv DEF MaaS, OrFails
<1>8. CASE DeleteResource
  <2>1. CASE RunEnds("failed") \/ RunEnds("ok")
    BY <2>1, RunEndsInv
  <2>2. CASE ~RunEnds("failed") /\ ~RunEnds("ok")
    BY <1>8, <2>2 DEF DeleteResource, OrFails, NextDeletion, Goto, Course
  <2> QED
    BY <2>1, <2>2
<1>9. CASE DatabaseReady \/ UNCHANGED vars
  BY <1>9 DEF DatabaseReady, Course, Tasks
<1> QED
  BY <1>1, <1>2, <1>3, <1>4, <1>5, <1>6, <1>7, <1>8, <1>9 DEF Next, Run

\* The rules sent stay in force until the database is requested and beyond.
LEMMA RulesStep == Inv /\ [Next]_vars => RulesDone'
<1> SUFFICES ASSUME Inv, [Next]_vars PROVE RulesDone'
  OBVIOUS
<1> USE DEF Inv
<1>0. /\ pos \in Nat \ {0} /\ plan \in Plans
      /\ Len(plan.rules) \in Nat \ {0}
  BY Sequences DEF TypeOK
<1>1. CASE Start
  BY <1>1 DEF Start, RulesDone
<1>2. CASE Configure
  <2>1. CASE pos < Len(Tasks)
    BY <1>2, <2>1 DEF Configure, Goto, RulesDone
  <2>2. CASE ~(pos < Len(Tasks))
    BY <1>2, <2>2 DEF Configure, Goto, FirstStep, RulesDone, RulesInForce,
                      Applied, Skipped
  <2> QED
    BY <2>1, <2>2
<1>3. CASE \/ ConfigureFails \/ RuleMalformed \/ RunFails
           \/ TokenDeleted \/ TokenRefused
  BY <1>3, RunEndsInv DEF ConfigureFails, RuleMalformed, RunFails,
                              TokenDeleted, TokenRefused
<1>4. CASE ApplyRule
  <2>1. CASE RunEnds("failed")
    BY <2>1, RunEndsInv
  <2>2. CASE ~RunEnds("failed")
    <3> DEFINE R(i) == plan.rules[i]
    <3>1. /\ NextRule /\ pc = "rules" /\ R(pos).type # None
          /\ rule' = [rule EXCEPT ![R(pos).type] = R(pos).phys]
          /\ plan' = plan
      BY <1>4, <2>2 DEF ApplyRule, OrFails
    <3>2. pos <= Len(plan.rules) /\ R(pos).type \in DbType
      BY <1>0, <3>1, Sequences DEF TypeOK, Entry
    <3>3. ~Skipped(plan) /\ Applied(pos - 1)
      BY <3>1 DEF RulesDone
    <3>4. \A i \in 1..pos :
             /\ R(i).type # None
             /\ \/ rule'[R(i).type] = R(i).phys
                \/ \E j \in (i + 1)..pos : R(j).type = R(i).type
      <4> SUFFICES ASSUME NEW i \in 1..pos
                   PROVE  /\ R(i).type # None
                          /\ \/ rule'[R(i).type] = R(i).phys
                             \/ \E j \in (i + 1)..pos : R(j).type = R(i).type
        OBVIOUS
      <4>1. CASE i = pos
        BY <3>1, <3>2, <4>1 DEF TypeOK
      <4>2. CASE i # pos
        <5>1. i \in 1..(pos - 1) /\ pos \in (i + 1)..pos
          BY <1>0, <4>2
        <5>2. R(i) \in Entry
          BY <1>0, <3>2, <5>1, Sequences
        <5>3. R(i).type # None /\ R(i).type \in DbType
          BY <3>3, <5>1, <5>2 DEF Applied, Entry
        <5>4. CASE R(i).type = R(pos).type
          BY <5>1, <5>3, <5>4
        <5>5. CASE R(i).type # R(pos).type
          <6>1. rule'[R(i).type] = rule[R(i).type]
            BY <3>1, <5>3, <5>5 DEF TypeOK
          <6>2. CASE rule[R(i).type] = R(i).phys
            BY <5>3, <6>1, <6>2
          <6>3. CASE \E j \in (i + 1)..(pos - 1) : R(j).type = R(i).type
            BY <1>0, <5>3, <6>3
          <6> QED
            BY <3>3, <5>1, <6>2, <6>3 DEF Applied
        <5> QED
          BY <5>4, <5>5
      <4> QED
        BY <4>1, <4>2
    <3>5. CASE pos < Len(plan.rules)
      <4>1. pc' = "rules" /\ pos' = pos + 1
        BY <3>1, <3>5 DEF NextRule, Goto
      <4>2. pos' - 1 = pos
        BY <1>0, <4>1
      <4> QED
        BY <3>1, <3>3, <3>4, <4>1, <4>2 DEF RulesDone, Applied, Skipped
    <3>6. CASE ~(pos < Len(plan.rules))
      <4>1. pc' = "msRule" /\ pos = Len(plan.rules)
        BY <1>0, <3>1, <3>2, <3>6 DEF NextRule, Goto
      <4> QED
        BY <3>1, <3>4, <4>1 DEF RulesDone, RulesInForce, Applied
    <3> QED
      BY <3>5, <3>6
  <2> QED
    BY <2>1, <2>2
<1>5. CASE ApplyMsRule
  <2>1. CASE RunEnds("failed")
    BY <2>1, RunEndsInv
  <2>2. CASE ~RunEnds("failed")
    BY <1>5, <2>2 DEF ApplyMsRule, OrFails, Goto, RulesDone, RulesInForce,
                      Applied, Skipped
  <2> QED
    BY <2>1, <2>2
<1>6. CASE \/ DatabaseAccepted \/ DatabaseProvided \/ AttemptsExhausted
           \/ DatabaseReady \/ UNCHANGED vars
  BY <1>6 DEF DatabaseAccepted, DatabaseProvided, AttemptsExhausted,
              DatabaseReady, Goto, RulesDone, RulesInForce, Applied, Skipped
<1>7. CASE CheckProperties \/ SaveDbSecret \/ ConfigServer
  <2>1. CASE RunEnds("failed")
    BY <2>1, RunEndsInv
  <2>2. CASE ~RunEnds("failed")
    BY <1>7, <2>2 DEF CheckProperties, SaveDbSecret, ConfigServer, OrFails,
                      Goto, RulesDone, RulesInForce, Applied, Skipped
  <2> QED
    BY <2>1, <2>2
<1>8. CASE MaaS
  BY <1>8, RunEndsInv DEF MaaS, OrFails
<1>9. CASE DeleteResource
  <2>1. CASE RunEnds("failed") \/ RunEnds("ok")
    BY <2>1, RunEndsInv
  <2>2. CASE ~RunEnds("failed") /\ ~RunEnds("ok")
    BY <1>9, <2>2 DEF DeleteResource, OrFails, NextDeletion, Goto, RulesDone
  <2> QED
    BY <2>1, <2>2
<1> QED
  BY <1>1, <1>2, <1>3, <1>4, <1>5, <1>6, <1>7, <1>8, <1>9 DEF Next, Run

\* The secret is saved with the properties of a database that is there, and
\* that database does not go away.
LEMMA DatabaseStep == Inv /\ [Next]_vars => DatabaseDone'
<1> SUFFICES ASSUME Inv, [Next]_vars PROVE DatabaseDone'
  OBVIOUS
<1> USE DEF Inv
<1>1. CASE \/ Start \/ ConfigureFails \/ RuleMalformed \/ RunFails
           \/ TokenDeleted \/ TokenRefused
  BY <1>1 DEF Start, ConfigureFails, RuleMalformed, RunFails,
              TokenDeleted, TokenRefused, RunEnds, DatabaseDone
<1>2. CASE Configure
  BY <1>2 DEF Configure, Goto, FirstStep, DatabaseDone
<1>3. CASE ApplyRule \/ ApplyMsRule
  BY <1>3 DEF ApplyRule, ApplyMsRule, OrFails, NextRule, Goto, RunEnds,
              DatabaseDone
<1>4. CASE \/ DatabaseAccepted \/ DatabaseProvided \/ AttemptsExhausted
           \/ DatabaseReady \/ UNCHANGED vars
  BY <1>4 DEF DatabaseAccepted, DatabaseProvided, AttemptsExhausted,
              DatabaseReady, Goto, DatabaseDone
<1>5. CASE CheckProperties \/ SaveDbSecret \/ ConfigServer
  BY <1>5 DEF CheckProperties, SaveDbSecret, ConfigServer, OrFails, Goto,
              RunEnds, DatabaseDone
<1>6. CASE MaaS \/ DeleteResource
  BY <1>6 DEF MaaS, DeleteResource, OrFails, NextDeletion, Goto, RunEnds,
              DatabaseDone
<1> QED
  BY <1>1, <1>2, <1>3, <1>4, <1>5, <1>6 DEF Next, Run

\* What precedes the resource a run is at is gone.
LEMMA GatewayStep == Inv /\ [Next]_vars => GatewayDone'
<1> SUFFICES ASSUME Inv, [Next]_vars PROVE GatewayDone'
  OBVIOUS
<1> USE DEF Inv
<1>0. pos \in Nat \ {0}
  BY DEF TypeOK
<1>1. CASE \/ Start \/ ConfigureFails \/ RuleMalformed \/ RunFails
           \/ TokenDeleted \/ TokenRefused
  BY <1>1 DEF Start, ConfigureFails, RuleMalformed, RunFails,
              TokenDeleted, TokenRefused, RunEnds, GatewayDone
<1>2. CASE Configure
  BY <1>2 DEF Configure, Goto, FirstStep, GatewayDone
<1>3. CASE ApplyRule \/ ApplyMsRule
  BY <1>3 DEF ApplyRule, ApplyMsRule, OrFails, NextRule, Goto, RunEnds,
              GatewayDone
<1>4. CASE \/ DatabaseAccepted \/ DatabaseProvided \/ AttemptsExhausted
           \/ DatabaseReady \/ UNCHANGED vars
  BY <1>4 DEF DatabaseAccepted, DatabaseProvided, AttemptsExhausted,
              DatabaseReady, Goto, GatewayDone
<1>5. CASE CheckProperties \/ SaveDbSecret \/ ConfigServer \/ MaaS
  BY <1>5 DEF CheckProperties, SaveDbSecret, ConfigServer, MaaS, OrFails, Goto,
              RunEnds, GatewayDone
<1>6. CASE DeleteResource
  <2>1. CASE RunEnds("failed") \/ RunEnds("ok")
    BY <2>1, RunEndsInv
  <2>2. CASE ~RunEnds("failed") /\ ~RunEnds("ok")
    BY <1>0, <1>6, <2>2 DEF DeleteResource, OrFails, NextDeletion, Goto,
                            GatewayDone
  <2> QED
    BY <2>1, <2>2
<1> QED
  BY <1>1, <1>2, <1>3, <1>4, <1>5, <1>6 DEF Next, Run

\* Only the last step of a phase reports success, and idle runs spoil nothing.
LEMMA SuccessStep == Inv /\ [Next]_vars => Success'
<1> SUFFICES ASSUME Inv, [Next]_vars PROVE Success'
  OBVIOUS
<1> USE DEF Inv
<1>0. pc # "idle" => outcome = "running"
  BY DEF Course
<1>1. CASE Start
  BY <1>1 DEF Start, Success
<1>2. CASE \/ ConfigureFails \/ RuleMalformed \/ RunFails
           \/ TokenDeleted \/ TokenRefused
  BY <1>2, RunEndsInv DEF ConfigureFails, RuleMalformed, RunFails,
                              TokenDeleted, TokenRefused
<1>3. CASE Configure
  BY <1>0, <1>3 DEF Configure, Goto, Success
<1>4. CASE ApplyRule \/ ApplyMsRule
  BY <1>0, <1>4 DEF ApplyRule, ApplyMsRule, OrFails, NextRule, Goto, RunEnds,
                    Success
<1>5. CASE DatabaseAccepted \/ DatabaseProvided \/ AttemptsExhausted
  BY <1>0, <1>5 DEF DatabaseAccepted, DatabaseProvided, AttemptsExhausted,
                    Goto, Success
<1>6. CASE CheckProperties \/ SaveDbSecret \/ ConfigServer
  BY <1>0, <1>6 DEF CheckProperties, SaveDbSecret, ConfigServer, OrFails, Goto,
                    RunEnds, Success
<1>7. CASE MaaS
  <2>1. CASE RunEnds("failed")
    BY <2>1, RunEndsInv
  <2>2. CASE ~RunEnds("failed")
    BY <1>7, <2>2 DEF MaaS, OrFails, RunEnds, Success, Course, RulesDone,
                      DatabaseDone, RulesInForce, Applied, Skipped
  <2> QED
    BY <2>1, <2>2
<1>8. CASE DeleteResource
  <2>1. CASE RunEnds("failed")
    BY <2>1, RunEndsInv
  <2>2. CASE RunEnds("ok")
    <3>1. /\ pc = "delete" /\ gateway' = gateway \ {Gateway[pos]}
          /\ UNCHANGED config /\ phase = "post"
      BY <1>8 DEF DeleteResource, Course
    <3>2. pos = Len(Gateway)
      <4>1. pos \in Nat \ {0} /\ pos <= Len(Gateway) /\ Len(Gateway) \in Nat
        BY <3>1, Sequences DEF TypeOK
      <4>2. ~(pos < Len(Gateway))
        BY <1>8, <2>2, <3>1 DEF DeleteResource, OrFails, NextDeletion, Goto,
                                RunEnds
      <4> QED
        BY <4>1, <4>2
    <3>3. \A i \in 1..Len(Gateway) : Gateway[i] \notin gateway'
      BY <3>1, <3>2, Sequences DEF GatewayDone
    <3>4. gateway \subseteq Range(Gateway)
      BY DEF TypeOK
    <3>5. gateway' = {}
      BY <3>1, <3>3, <3>4, Sequences
    <3> QED
      BY <2>2, <3>1, <3>5 DEF RunEnds, Success
  <2>3. CASE ~RunEnds("failed") /\ ~RunEnds("ok")
    BY <1>0, <1>8, <2>3 DEF DeleteResource, OrFails, NextDeletion, Goto, Success
  <2> QED
    BY <2>1, <2>2, <2>3
<1>9. CASE DatabaseReady \/ UNCHANGED vars
  BY <1>9 DEF DatabaseReady, Success, RulesInForce, Applied, Skipped
<1> QED
  BY <1>1, <1>2, <1>3, <1>4, <1>5, <1>6, <1>7, <1>8, <1>9 DEF Next, Run

\* The invariant of all runs.
LEMMA Invariant == Spec => []Inv
<1>1. Inv /\ [Next]_vars => Inv'
  BY TypeStep, CourseStep, RulesStep, DatabaseStep, GatewayStep, SuccessStep
     DEF Inv
<1> QED
  BY InvInit, <1>1, PTL DEF Spec

\* What was sent is what InForce asks for.
LEMMA SentInForce ==
    ASSUME RulesInForce, plan.ms # None => msRule = plan.ms
    PROVE  InForce(plan)
BY DEF RulesInForce, Applied, InForce

\* A run that reports success has done all of its tasks, whatever the runs
\* before it have left, and for every plan and list of resources.
THEOREM Done == Spec => []SuccessMeansDone
<1>1. Inv => SuccessMeansDone
  <2> SUFFICES ASSUME Inv, outcome = "ok"
               PROVE  IF phase = "pre" THEN Bootstrapped(plan) ELSE gateway = {}
    BY DEF SuccessMeansDone
  <2>1. CASE phase = "pre"
    BY <2>1, SentInForce DEF Inv, Success, DatabaseDone, Bootstrapped
  <2>2. CASE phase # "pre"
    BY <2>2 DEF Inv, Success, TypeOK
  <2> QED
    BY <2>1, <2>2
<1> QED
  BY Invariant, <1>1, PTL

\* No task acts on a configuration that another task of the phase rejects.
THEOREM Configured == Spec => ConfiguredFirst
<1> DEFINE Untouched == /\ UNCHANGED <<rule, msRule, secret, done, gateway>>
                        /\ db = "absent" => db' = "absent"
<1>1. Inv /\ [Next]_vars => [lacking # None => Untouched]_vars
  <2> SUFFICES ASSUME Inv, Next, lacking # None PROVE Untouched
    OBVIOUS
  <2>1. pc \in {"idle", "configure"}
    BY DEF Inv, Course
  <2>2. CASE Start \/ Configure \/ ConfigureFails \/ RunFails \/ DatabaseReady
    BY <2>2 DEF Start, Configure, ConfigureFails, RunFails, DatabaseReady
  <2>3. \/ Start \/ Configure \/ ConfigureFails \/ RunFails \/ DatabaseReady
    BY <2>1 DEF Next, Run, ApplyRule, RuleMalformed, ApplyMsRule,
                DatabaseAccepted, DatabaseProvided, AttemptsExhausted,
                CheckProperties, SaveDbSecret, ConfigServer, TokenDeleted,
                TokenRefused, MaaS, DeleteResource
  <2> QED
    BY <2>2, <2>3
<1> QED
  BY Invariant, <1>1, PTL DEF Spec, ConfiguredFirst

\* The database is requested with all the rules of the run in force.
THEOREM Placed == Spec => PlacedByRules
<1>1. Inv /\ [Next]_vars
        => [db = "absent" /\ db' # "absent" => InForce(plan)]_vars
  <2> SUFFICES ASSUME Inv, Next, db = "absent", db' # "absent"
               PROVE  InForce(plan)
    OBVIOUS
  <2>1. pc = "database"
    BY DEF Next, Run, RunFails, Start, Configure, ConfigureFails, ApplyRule,
           RuleMalformed, ApplyMsRule, DatabaseAccepted, DatabaseProvided,
           AttemptsExhausted, CheckProperties, SaveDbSecret, ConfigServer,
           TokenDeleted, TokenRefused, MaaS, DeleteResource, DatabaseReady
  <2> QED
    BY <2>1, SentInForce DEF Inv, RulesDone
<1> QED
  BY Invariant, <1>1, PTL DEF Spec, PlacedByRules

\* The resources of static-core-gateway go in the order of the list.
THEOREM Ordered == Spec => DeletedInOrder
<1> DEFINE Kept == \A i, j \in DOMAIN Gateway :
                      i < j /\ Gateway[i] \in gateway /\ Gateway[j] \in gateway
                          => Gateway[j] \in gateway'
<1>1. Inv /\ [Next]_vars => [Kept]_vars
  <2> SUFFICES ASSUME Inv, Next PROVE Kept
    OBVIOUS
  <2>1. CASE DeleteResource
    <3> SUFFICES ASSUME NEW i \in 1..Len(Gateway), NEW j \in 1..Len(Gateway),
                        i < j, Gateway[i] \in gateway, Gateway[j] \in gateway
                 PROVE  Gateway[j] \in gateway'
      BY Sequences
    <3>1. /\ pc = "delete" /\ gateway' = gateway \ {Gateway[pos]}
          /\ pos \in 1..Len(Gateway)
      BY <2>1, Sequences DEF DeleteResource, Inv, TypeOK
    <3>2. j # pos
      BY <3>1, Sequences DEF Inv, GatewayDone
    <3> QED
      BY <3>1, <3>2, Sequences
  <2>2. CASE ~DeleteResource
    <3>1. gateway' = gateway
      BY <2>2 DEF Next, Run, RunFails, Start, Configure, ConfigureFails,
             ApplyRule, RuleMalformed, ApplyMsRule, DatabaseAccepted,
             DatabaseProvided, AttemptsExhausted, CheckProperties,
             SaveDbSecret, ConfigServer, TokenDeleted, TokenRefused, MaaS,
             DatabaseReady
    <3> QED
      BY <3>1
  <2> QED
    BY <2>1, <2>2
<1> QED
  BY Invariant, <1>1, PTL DEF Spec, DeletedInOrder

-----------------------------------------------------------------------------
(* How long a run takes *)

\* Steps that may follow the last Configure.
Execution == 6 + (MaxAttempts + (Len(plan.rules) + Len(Gateway)))

\* Steps that a run may still take.
StepsLeft ==
    CASE pc = "configure" -> Execution + 1 + (Len(Tasks) - pos)
      [] pc = "rules" -> 6 + MaxAttempts + (Len(plan.rules) - pos)
      [] pc = "msRule" -> 5 + MaxAttempts
      [] pc = "database" -> 4 + (MaxAttempts - attempts)
      [] pc = "check" -> 3
      [] pc = "dbSecret" -> 2
      [] pc = "configserver" -> 1
      [] pc = "delete" -> Len(Gateway) - pos
      [] OTHER -> 0

\* The numbers that bound a run.
LEMMA Counts ==
    ASSUME TypeOK
    PROVE  /\ Len(plan.rules) \in Nat \ {0} /\ Len(Tasks) \in Nat
           /\ Len(Gateway) \in Nat \ {0} /\ MaxAttempts \in Nat
           /\ pos \in Nat \ {0} /\ attempts \in 0..MaxAttempts
           /\ Execution \in Nat
           /\ Execution >= 6 + MaxAttempts + Len(plan.rules)
           /\ Execution >= Len(Gateway)
<1>1. /\ Len(plan.rules) \in Nat \ {0} /\ Len(Tasks) \in Nat
      /\ Len(Gateway) \in Nat \ {0} /\ MaxAttempts \in Nat
      /\ pos \in Nat \ {0} /\ attempts \in 0..MaxAttempts
  BY Sequences, TaskLists DEF TypeOK
<1>2. ASSUME NEW m \in Nat, NEW r \in Nat, NEW g \in Nat
      PROVE  /\ 6 + (m + (r + g)) \in Nat
             /\ 6 + (m + (r + g)) >= 6 + m + r
             /\ 6 + (m + (r + g)) >= g
  OBVIOUS
<1> QED
  BY <1>1, <1>2 DEF Execution

\* A run's position and its requests are within its tasks, plan and list.
LEMMA StepsLeftType == TypeOK => StepsLeft \in Nat
<1> SUFFICES ASSUME TypeOK PROVE StepsLeft \in Nat
  OBVIOUS
<1>1. CASE pc = "configure"
  <2>1. pos <= Len(Tasks) /\ StepsLeft = Execution + 1 + (Len(Tasks) - pos)
    BY <1>1 DEF StepsLeft, TypeOK
  <2> QED
    BY <2>1, Counts
<1>2. CASE pc = "rules"
  <2>1. /\ pos <= Len(plan.rules)
        /\ StepsLeft = 6 + MaxAttempts + (Len(plan.rules) - pos)
    BY <1>2 DEF StepsLeft, TypeOK
  <2> QED
    BY <2>1, Counts
<1>3. CASE pc = "delete"
  <2>1. pos <= Len(Gateway) /\ StepsLeft = Len(Gateway) - pos
    BY <1>3 DEF StepsLeft, TypeOK
  <2> QED
    BY <2>1, Counts
<1>4. CASE pc \notin {"configure", "rules", "delete"}
  BY <1>4, Counts DEF StepsLeft
<1> QED
  BY <1>1, <1>2, <1>3, <1>4

\* Each step of a run brings its end nearer.
LEMMA StepCloser ==
    ASSUME Inv, Run \/ RunFails \/ TokenDeleted,
           pc # "idle", pc' # "idle"
    PROVE  StepsLeft' \in Int /\ StepsLeft' < StepsLeft
<1>0. /\ Len(plan.rules) \in Nat \ {0} /\ Len(Tasks) \in Nat
      /\ Len(Gateway) \in Nat \ {0} /\ MaxAttempts \in Nat
      /\ pos \in Nat \ {0} /\ attempts \in 0..MaxAttempts
      /\ Execution \in Nat
      /\ Execution >= 6 + MaxAttempts + Len(plan.rules)
      /\ Execution >= Len(Gateway)
  BY Counts DEF Inv
<1>1. /\ UNCHANGED config
      /\ pc' = "database" \/ pc = "database" \/ attempts' = attempts
    BY DEF Run, RunFails, Start, Configure, ConfigureFails, ApplyRule,
       RuleMalformed, ApplyMsRule, DatabaseAccepted, DatabaseProvided,
       AttemptsExhausted, CheckProperties, SaveDbSecret, ConfigServer,
       TokenDeleted, TokenRefused, MaaS, DeleteResource, OrFails, NextRule, NextDeletion, RunEnds, Goto
<1>2. Len(plan'.rules) = Len(plan.rules) /\ Len(Tasks') = Len(Tasks)
  BY <1>1 DEF Tasks
<1>3. CASE Configure
  <2>1. \/ pc' = "configure" /\ pos' = pos + 1
        \/ pos <= Len(Tasks) /\ pc' = "delete" /\ pos' = 1
        \/ pos <= Len(Tasks) /\ pc' \in {"rules", "msRule"} /\ pos' = 1
    BY <1>0, <1>3 DEF Configure, Goto, FirstStep, Inv, TypeOK
  <2>2. pc = "configure" /\ pos <= Len(Tasks)
    BY <1>3 DEF Configure, Inv, TypeOK
  <2>3. StepsLeft = Execution + 1 + (Len(Tasks) - pos)
    BY <2>2 DEF StepsLeft
  <2>4. CASE pc' = "configure"
    <3>1. StepsLeft' = Execution' + 1 + (Len(Tasks') - (pos + 1))
      BY <2>1, <2>4 DEF StepsLeft
    <3>2. Execution' = Execution
      BY <1>2 DEF Execution
    <3> QED
      BY <1>0, <1>2, <2>3, <3>1, <3>2
  <2>5. CASE pc' # "configure"
    <3>1. \/ StepsLeft' = Len(Gateway) - 1
          \/ StepsLeft' = 5 + MaxAttempts
          \/ StepsLeft' = 6 + MaxAttempts + (Len(plan.rules) - 1)
      BY <1>2, <2>1, <2>5 DEF StepsLeft
    <3> DEFINE r == Len(plan.rules)
               g == Len(Gateway)
    <3>2. /\ r \in Nat \ {0} /\ g \in Nat \ {0}
          /\ Execution >= 6 + MaxAttempts + r /\ Execution >= g
          /\ \/ StepsLeft' = g - 1
             \/ StepsLeft' = 5 + MaxAttempts
             \/ StepsLeft' = 6 + MaxAttempts + (r - 1)
      BY <1>0, <3>1
    <3>4. StepsLeft' \in Int /\ StepsLeft' <= Execution
      <4> HIDE DEF r, g
      <4>1. MaxAttempts \in Nat /\ Execution \in Nat
        BY <1>0
      <4> QED
        BY <3>2, <4>1
    <3>3. Execution < StepsLeft /\ StepsLeft \in Int
      BY <1>0, <2>2, <2>3
    <3> QED
      BY <1>0, <3>3, <3>4
  <2> QED
    BY <2>4, <2>5
<1>4. CASE ApplyRule
  <2>1. /\ pc = "rules" /\ pos <= Len(plan.rules)
        /\ \/ pc' = "rules" /\ pos' = pos + 1
           \/ pc' = "msRule"
    BY <1>4 DEF ApplyRule, OrFails, NextRule, Goto, RunEnds, Inv, TypeOK
  <2>2. StepsLeft = 6 + MaxAttempts + (Len(plan.rules) - pos)
    BY <2>1 DEF StepsLeft
  <2>3. \/ StepsLeft' = 6 + MaxAttempts + (Len(plan.rules) - (pos + 1))
        \/ StepsLeft' = 5 + MaxAttempts
    BY <1>2, <2>1 DEF StepsLeft
  <2>4. ASSUME NEW m \in Nat, NEW r \in Nat, NEW i \in Nat, i <= r
        PROVE  /\ 6 + m + (r - (i + 1)) \in Int
               /\ 6 + m + (r - (i + 1)) < 6 + m + (r - i)
               /\ 5 + m \in Int /\ 5 + m < 6 + m + (r - i)
    BY <2>4
  <2> QED
    BY <1>0, <2>1, <2>2, <2>3, <2>4
<1>5. CASE ApplyMsRule
  <2>1. pc = "msRule" /\ pc' = "database" /\ attempts' = attempts
    BY <1>5 DEF ApplyMsRule, OrFails, Goto, RunEnds
  <2> QED
    BY <1>0, <2>1 DEF StepsLeft
<1>6. CASE DatabaseAccepted
  <2>1. /\ pc = "database" /\ pc' = "database" /\ attempts' = attempts + 1
    BY <1>6 DEF DatabaseAccepted
  <2> QED
    BY <1>0, <2>1 DEF StepsLeft
<1>7. CASE DatabaseProvided \/ AttemptsExhausted
  <2>1. pc = "database" /\ pc' = "check"
    BY <1>7 DEF DatabaseProvided, AttemptsExhausted, Goto
  <2> QED
    BY <1>0, <2>1 DEF StepsLeft
<1>8. CASE CheckProperties \/ SaveDbSecret \/ ConfigServer
  <2>1. \/ pc = "check" /\ pc' = "dbSecret"
        \/ pc = "dbSecret" /\ pc' = "configserver"
        \/ pc = "configserver" /\ pc' = "maas"
    BY <1>8 DEF CheckProperties, SaveDbSecret, ConfigServer, OrFails, Goto,
       RunEnds
  <2> QED
    BY <2>1 DEF StepsLeft
<1>9. CASE DeleteResource
  <2>1. pc = "delete" /\ pc' = "delete" /\ pos' = pos + 1
    BY <1>9 DEF DeleteResource, OrFails, NextDeletion, Goto, RunEnds
  <2> QED
    BY <1>0, <2>1 DEF StepsLeft
<1>10. ~(\/ ConfigureFails \/ RuleMalformed \/ TokenDeleted \/ TokenRefused
         \/ MaaS \/ RunFails \/ Start)
  BY DEF ConfigureFails, RuleMalformed, TokenDeleted, TokenRefused, MaaS,
     RunFails, Start, OrFails, RunEnds
<1> QED
  BY <1>3, <1>4, <1>5, <1>6, <1>7, <1>8, <1>9, <1>10 DEF Run

\* A run ends after a number of steps that its plan, the list of resources and
\* MaxAttempts bound: the wait for a database that is not finished does not
\* hold it for good, and what DBaaS does meanwhile does not put it back.
THEOREM RunsBounded ==
    Spec => [][pc # "idle" => \/ UNCHANGED <<config, pc, pos, attempts>>
                              \/ pc' = "idle"
                              \/ StepsLeft' \in 0..(StepsLeft - 1)]_vars
<1> DEFINE Bounded == StepsLeft \in Nat
<1>1. Inv => Bounded
  BY StepsLeftType DEF Inv
<1>2. Inv /\ Bounded /\ Bounded' /\ [Next]_vars =>
          [pc # "idle" => \/ UNCHANGED <<config, pc, pos, attempts>>
                          \/ pc' = "idle"
                          \/ StepsLeft' \in 0..(StepsLeft - 1)]_vars
  <2> SUFFICES ASSUME Inv, Bounded, Bounded', Next, pc # "idle",
                      pc' # "idle", ~DatabaseReady
               PROVE  StepsLeft' \in 0..(StepsLeft - 1)
    BY DEF DatabaseReady
  <2>1. StepsLeft' < StepsLeft
    BY StepCloser DEF Next
  <2> QED
    BY <2>1
<1> HIDE DEF Bounded
<1> QED
  BY <1>1, <1>2, Invariant, PTL DEF Spec
=============================================================================
