----------------------------- MODULE Bootstrap -----------------------------
(***************************************************************************)
(* The job core-bootstrap as a whole: the task manager configures all      *)
(* tasks of a phase, then executes them one after the other and stops at   *)
(* the first that fails.  DBaaS's balancing rules and the database of      *)
(* control-plane are modelled step by step, as is the removal of           *)
(* static-core-gateway after the deployment.  The tasks "configserver" and *)
(* "maas" are single steps here: ConsulToken and MaasClient have theirs.   *)
(* A run that is stopped during the clean-up of tokens may leave the first *)
(* of them beyond what later runs can do (TokenDeleted).                   *)
(*                                                                         *)
(* A run is one pod.  It may fail at any call or be stopped, and the next  *)
(* one, with the same or another configuration, starts from what the other *)
(* systems then hold.  Repeating a request of these tasks changes nothing  *)
(* (all are PUTs of a whole rule, or deletions), so that the repetitions   *)
(* of the HTTP client are not told apart from the request.                 *)
(***************************************************************************)
EXTENDS Naturals, Sequences, Functions

CONSTANTS
    DbType,         \* types of databases a rule may be for
    PhysDb,         \* physical databases it may name
    None,
    Plans,          \* configurations a run may be given
    Gateway,        \* resources of static-core-gateway, in the order of deletion
    MaxAttempts,    \* requests for the database in one run: 10 in the code
    MaxFaults       \* bound on failed calls and stops

\* An entry of the rules has no type if it does not have exactly one "=>".
\* The empty string is an entry with neither.
Entry == [type : DbType \cup {None}, phys : PhysDb \cup {None}]
EmptyEntry == [type |-> None, phys |-> None]

Plan == [rules : Seq(Entry), ms : PhysDb \cup {None}, consul : BOOLEAN]

ASSUME ConstantsAssumption ==
    /\ None \notin DbType
    /\ None \notin PhysDb
    /\ Plans \subseteq Plan
    /\ \A p \in Plans : p.rules # <<>>
    /\ Gateway \in Seq(Range(Gateway)) \ {<<>>}
    /\ IsInjective(Gateway)
    /\ MaxAttempts \in Nat \ {0}
    /\ MaxFaults \in Nat

PreTasks == <<"consul", "dbaas", "controlplane", "configserver", "maas">>
PostTasks == <<"staticcoregateway">>

VARIABLES
    rule,       \* DBaaS: per type, the physical database of its rule
    msRule,     \* DBaaS: the rule on microservices
    db,         \* DBaaS: control-plane's database
    secret,     \* its secret: "none", "stale" (no use) or "working"
    done,       \* of configserver and maas, those whose work is in place
    tokenGone,  \* config-server's secret names a token Consul has deleted
    gateway,    \* resources of static-core-gateway that are there
    phase,      \* of the run: "pre" or "post"
    plan,       \* its configuration
    lacking,    \* the first task whose Configure rejects it, or None
    pc,         \* where it is, "idle" between two runs
    pos,        \* the task, rule or resource it is at
    attempts,   \* requests for the database it has made
    props,      \* connection properties it has got: "none" or "full"
    outcome,    \* "none", "running", or the end of the last run
    faults

systems == <<rule, msRule, db, secret, done, tokenGone, gateway>>
config == <<phase, plan, lacking>>
vars == <<systems, config, pc, pos, attempts, props, outcome, faults>>

-----------------------------------------------------------------------------
\* An earlier deployment may have left rules, a database, secrets and any
\* part of static-core-gateway; the secret may be of a database that is gone.
Init ==
    /\ rule \in [DbType -> PhysDb \cup {None}]
    /\ msRule \in PhysDb \cup {None}
    /\ db \in {"absent", "ready"}
    /\ secret \in IF db = "ready" THEN {"none", "stale", "working"}
                                  ELSE {"none", "stale"}
    /\ done \in SUBSET {"configserver", "maas"}
    /\ tokenGone \in IF "configserver" \in done THEN {FALSE} ELSE BOOLEAN
    /\ gateway \in SUBSET Range(Gateway)
    /\ phase = "pre"
    /\ plan \in Plans
    /\ lacking = None
    /\ pc = "idle"
    /\ pos = 1
    /\ attempts = 0
    /\ props = "none"
    /\ outcome = "none"
    /\ faults = 0

Fault == faults < MaxFaults /\ faults' = faults + 1

RunEnds(result) ==
    /\ pc' = "idle"
    /\ pos' = 1
    /\ attempts' = 0
    /\ props' = "none"
    /\ outcome' = result

RunFails ==
    /\ pc # "idle"
    /\ Fault
    /\ RunEnds("failed")
    /\ UNCHANGED <<systems, config>>

\* The call is carried out; the run goes on, or it does not get to know.
Goto(label, n) ==
    /\ pc' = label
    /\ pos' = n
    /\ UNCHANGED <<attempts, props, outcome, faults>>
OrFails(proceed) == proceed \/ (Fault /\ RunEnds("failed"))

-----------------------------------------------------------------------------
(* executeTasks *)

Tasks == IF phase = "pre" THEN PreTasks ELSE PostTasks

Start ==
    /\ pc = "idle"
    /\ pc' = "configure"
    /\ phase' \in {"pre", "post"}
    /\ plan' \in Plans
    /\ lacking' \in Range(Tasks)' \cup {None}
    /\ outcome' = "running"
    /\ UNCHANGED <<systems, pos, attempts, props, faults>>

\* An empty first entry is taken for no rules at all.
Skipped(p) == p.rules[1] = EmptyEntry

\* The first step of the tasks; that of "consul" does nothing.
FirstStep == IF phase = "post" THEN "delete"
             ELSE IF Skipped(plan) THEN "msRule" ELSE "rules"

Configure_TheFirst ==
    /\ pc = "configure"
    /\ Tasks[pos] # lacking
    /\ Goto(FirstStep, 1)
    /\ UNCHANGED <<systems, config>>
Configure ==
    /\ pc = "configure"
    /\ Tasks[pos] # lacking
    /\ IF pos < Len(Tasks) THEN Goto(pc, pos + 1) ELSE Goto(FirstStep, 1)
    /\ UNCHANGED <<systems, config>>

ConfigureFails ==
    /\ pc = "configure"
    /\ Tasks[pos] = lacking
    /\ RunEnds("failed")
    /\ UNCHANGED <<systems, config, faults>>

-----------------------------------------------------------------------------
(* dbaas: Execute *)

NextRule == IF pos < Len(plan.rules) THEN Goto(pc, pos + 1) ELSE Goto("msRule", 1)

ApplyRule_ErrorIgnored ==
    /\ pc = "rules"
    /\ LET e == plan.rules[pos] IN
       /\ e.type # None
       /\ rule' \in {rule, [rule EXCEPT ![e.type] = e.phys]}
    /\ NextRule
    /\ UNCHANGED <<msRule, db, secret, done, tokenGone, gateway, config>>
ApplyRule ==
    /\ pc = "rules"
    /\ LET e == plan.rules[pos] IN
       /\ e.type # None
       /\ rule' = [rule EXCEPT ![e.type] = e.phys]
    /\ OrFails(NextRule)
    /\ UNCHANGED <<msRule, db, secret, done, tokenGone, gateway, config>>

\* The message says "skipping"; the task ends.
RuleMalformed ==
    /\ pc = "rules"
    /\ plan.rules[pos].type = None
    /\ RunEnds("failed")
    /\ UNCHANGED <<systems, config, faults>>

ApplyMsRule ==
    /\ pc = "msRule"
    /\ msRule' = IF plan.ms = None THEN msRule ELSE plan.ms
    /\ OrFails(Goto("database", 1))
    /\ UNCHANGED <<rule, db, secret, done, tokenGone, gateway, config>>

-----------------------------------------------------------------------------
(* controlplane: CreateDatabase *)

\* Status 202: the database is being created.
DatabaseAccepted_OneMore ==
    /\ pc = "database"
    /\ attempts <= MaxAttempts
    /\ db # "ready"
    /\ db' = "creating"
    /\ attempts' = attempts + 1
    /\ UNCHANGED <<rule, msRule, secret, done, tokenGone, gateway, config,
                   pc, pos, props, outcome, faults>>
DatabaseAccepted ==
    /\ pc = "database"
    /\ attempts < MaxAttempts
    /\ db # "ready"
    /\ db' = "creating"
    /\ attempts' = attempts + 1
    /\ UNCHANGED <<rule, msRule, secret, done, tokenGone, gateway, config,
                   pc, pos, props, outcome, faults>>

\* Status 200 or 201, normally with the properties of the connection.
DatabaseProvided ==
    /\ pc = "database"
    /\ attempts < MaxAttempts
    /\ db # "creating"
    /\ db' = "ready"
    /\ \/ props' = "full" /\ UNCHANGED faults
       \/ props' = "none" /\ Fault
    /\ pc' = "check"
    /\ UNCHANGED <<rule, msRule, secret, done, tokenGone, gateway, config,
                   pos, attempts, outcome>>

AttemptsExhausted ==
    /\ pc = "database"
    /\ attempts = MaxAttempts
    /\ Goto("check", 1)
    /\ UNCHANGED <<systems, config>>

CheckProperties_Dropped ==
    /\ pc = "check"
    /\ Goto("dbSecret", 1)
    /\ UNCHANGED <<systems, config>>
CheckProperties ==
    /\ pc = "check"
    /\ IF props = "full" THEN Goto("dbSecret", 1)
                         ELSE RunEnds("failed") /\ UNCHANGED faults
    /\ UNCHANGED <<systems, config>>

\* CreateOrUpdateSecret: a secret that exists is replaced.
SaveDbSecret_OnlyCreated ==
    /\ pc = "dbSecret"
    /\ IF secret = "none"
       THEN secret' = "working" /\ Goto("configserver", 1)
       ELSE secret' = secret /\ RunEnds("failed") /\ UNCHANGED faults
    /\ UNCHANGED <<rule, msRule, db, done, tokenGone, gateway, config>>
SaveDbSecret ==
    /\ pc = "dbSecret"
    /\ secret' = IF props = "full" THEN "working" ELSE "stale"
    /\ OrFails(Goto("configserver", 1))
    /\ UNCHANGED <<rule, msRule, db, done, tokenGone, gateway, config>>

-----------------------------------------------------------------------------
(* configserver, maas, staticcoregateway *)

\* CheckAndCreateConsulPoliciesAndToken, unless Consul is disabled.
ConfigServer ==
    /\ pc = "configserver"
    /\ plan.consul => ~tokenGone
    /\ done' = IF plan.consul THEN done \cup {"configserver"} ELSE done
    /\ OrFails(Goto("maas", 1))
    /\ UNCHANGED <<rule, msRule, db, secret, tokenGone, gateway, config>>

\* The run ends between the deletion of the token in the secret and the new
\* secret.
TokenDeleted ==
    /\ pc = "configserver"
    /\ plan.consul
    /\ "configserver" \notin done
    /\ ~tokenGone
    /\ tokenGone' = TRUE
    /\ Fault
    /\ RunEnds("failed")
    /\ UNCHANGED <<rule, msRule, db, secret, done, gateway, config>>

\* GetTokenInfo is refused the deleted token, in each of the runs that follow.
TokenRefused ==
    /\ pc = "configserver"
    /\ plan.consul
    /\ tokenGone
    /\ RunEnds("failed")
    /\ UNCHANGED <<systems, config, faults>>

MaaS ==
    /\ pc = "maas"
    /\ done' = done \cup {"maas"}
    /\ OrFails(RunEnds("ok") /\ UNCHANGED faults)
    /\ UNCHANGED <<rule, msRule, db, secret, tokenGone, gateway, config>>

NextDeletion == IF pos < Len(Gateway) THEN Goto(pc, pos + 1)
                                      ELSE RunEnds("ok") /\ UNCHANGED faults

\* A resource that is not found is skipped.
DeleteResource_MustExist ==
    /\ pc = "delete"
    /\ gateway' = gateway \ {Gateway[pos]}
    /\ IF Gateway[pos] \in gateway THEN NextDeletion
       ELSE RunEnds("failed") /\ UNCHANGED faults
    /\ UNCHANGED <<rule, msRule, db, secret, done, tokenGone, config>>
DeleteResource_ErrorIgnored ==
    /\ pc = "delete"
    /\ gateway' \in {gateway, gateway \ {Gateway[pos]}}
    /\ NextDeletion
    /\ UNCHANGED <<rule, msRule, db, secret, done, tokenGone, config>>
DeleteResource ==
    /\ pc = "delete"
    /\ gateway' = gateway \ {Gateway[pos]}
    /\ OrFails(NextDeletion)
    /\ UNCHANGED <<rule, msRule, db, secret, done, tokenGone, config>>

\* DBaaS finishes the database it has accepted.
DatabaseReady ==
    /\ db = "creating"
    /\ db' = "ready"
    /\ UNCHANGED <<rule, msRule, secret, done, tokenGone, gateway, config,
                   pc, pos, attempts, props, outcome, faults>>

-----------------------------------------------------------------------------
Run ==
    \/ Start \/ Configure \/ ConfigureFails
    \/ ApplyRule \/ RuleMalformed \/ ApplyMsRule
    \/ DatabaseAccepted \/ DatabaseProvided \/ AttemptsExhausted
    \/ CheckProperties \/ SaveDbSecret
    \/ ConfigServer \/ TokenRefused \/ MaaS \/ DeleteResource

Next == Run \/ RunFails \/ TokenDeleted \/ DatabaseReady

Spec == Init /\ [][Next]_vars

\* Calls return, the job is run again, and DBaaS finishes what it accepts.
FairSpec == Spec /\ WF_vars(Run) /\ WF_vars(DatabaseReady)

-----------------------------------------------------------------------------
(* Properties *)

TypeOK ==
    /\ rule \in [DbType -> PhysDb \cup {None}]
    /\ msRule \in PhysDb \cup {None}
    /\ db \in {"absent", "creating", "ready"}
    /\ secret \in {"none", "stale", "working"}
    /\ done \subseteq {"configserver", "maas"}
    /\ tokenGone \in BOOLEAN
    /\ tokenGone => "configserver" \notin done
    /\ gateway \subseteq Range(Gateway)
    /\ phase \in {"pre", "post"}
    /\ plan \in Plans
    /\ lacking \in Range(Tasks) \cup {None}
    /\ pc \in {"idle", "configure", "rules", "msRule", "database", "check",
               "dbSecret", "configserver", "maas", "delete"}
    /\ pos \in Nat \ {0}
    /\ pc = "idle" => pos = 1
    /\ pc = "configure" => pos <= Len(Tasks)
    /\ pc = "rules" => pos <= Len(plan.rules)
    /\ pc = "delete" => pos <= Len(Gateway)
    /\ attempts \in 0..MaxAttempts
    /\ props \in {"none", "full"}
    /\ outcome \in {"none", "running", "ok", "failed"}
    /\ faults \in 0..MaxFaults

\* DBaaS holds the rules of plan p; of several for a type, the last.
InForce(p) ==
    /\ ~Skipped(p) =>
          \A i \in 1..Len(p.rules) :
              \/ rule[p.rules[i].type] = p.rules[i].phys
              \/ \E j \in (i + 1)..Len(p.rules) :
                    p.rules[j].type = p.rules[i].type
    /\ p.ms # None => msRule = p.ms

Bootstrapped(p) ==
    /\ InForce(p)
    /\ db = "ready"
    /\ secret = "working"
    /\ p.consul => "configserver" \in done
    /\ "maas" \in done

\* A run that reports success has done all of its tasks: the rules are in
\* force, control-plane's secret is of a database that is there, and of
\* static-core-gateway nothing is left, wherever earlier runs have stopped.
SuccessMeansDone ==
    outcome = "ok" => IF phase = "pre" THEN Bootstrapped(plan) ELSE gateway = {}

\* No task acts before all tasks of the phase have accepted the
\* configuration: one that is incomplete for the last leaves nothing changed.
ConfiguredFirst ==
    [][lacking # None =>
          /\ UNCHANGED <<rule, msRule, secret, done, gateway>>
          /\ db = "absent" => db' = "absent"]_vars

\* Control-plane's database is requested only with the run's balancing rules
\* in force, by which DBaaS places it: a rule that comes later is too late.
PlacedByRules == [][db = "absent" /\ db' # "absent" => InForce(plan)]_vars

\* Nothing of static-core-gateway is deleted while something that precedes it
\* in the list is there: the autoscaler never outlives its deployment.
DeletedInOrder ==
    [][\A i, j \in DOMAIN Gateway :
          i < j /\ Gateway[i] \in gateway /\ Gateway[j] \in gateway =>
              Gateway[j] \in gateway']_vars

\* Once the faults are over and the configuration is a good one, the tasks
\* get done, from whatever the failed runs have left: they can be repeated, and
\* the wait for the database is taken up by the next run.  The exception is
\* config-server's token: with Consul enabled no run gets past its task once
\* one was stopped after it had deleted the token in the secret.
EventuallyBootstrapped ==
    \A p \in Plans :
        /\ Skipped(p) \/ \A i \in DOMAIN p.rules : p.rules[i].type # None
        /\ <>[](plan = p /\ lacking = None)
        /\ []<>(phase = "pre")
        /\ p.consul => []~tokenGone
        => []<>Bootstrapped(p)

\* Likewise for the removal of static-core-gateway.
EventuallyRemoved ==
    <>[](lacking = None) /\ []<>(phase = "post") =>
        <>[](gateway = {})
=============================================================================
