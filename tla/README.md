# Verification of qubership-core-bootstrap

TLA+ models of the two programs this repository builds, TLC runs that check
them on small instances, and TLAPS proofs of their main safety properties for
every value of the constants.

* **cr-synchronizer** is run by Helm around a deployment. Before the deployment
  it applies the declared custom resources (MaaS, DBaaS) and waits until an
  operator reports them `Updated`; after the deployment it waits for all
  resources of the session and removes what an older version of the deployment
  left (the v0 deployment and its autoscaler).
* **core-bootstrap** is a job that prepares the namespace of the cloud core: it
  registers accounts, databases, policies and tokens with Consul, MaaS and
  DBaaS and keeps the results in Kubernetes secrets.

Both are Jobs with `restartPolicy: Never`. The synchronizer's is never repeated
(`backoffLimit: 0`, `activeDeadlineSeconds: 3600`, read from
`coretpl/templates/_synchronizer.yaml`); the bootstrap job is repeated once, and
again by every deployment.

## 1. Inventory

| Component | State it keeps | Operations | Hard behaviour |
|---|---|---|---|
| Pre-deploy hook (`cr-synchronizer/getters/deploymentGenerator.go`, `initGetters.go`, `maasesGetter.go`, `dbaasesGetter.go`, `main.go`) | the map of watchers, one per kind; in each the map of handlers; a handler channel per resource; per generator its position | `declarationCreator`, `declarationWaiter`, `getOrCreateResourceTypeWatcher`, `run`, `register`, `unregister`, `handlePhaseChange`, `setOwnerRef`, `sendEvent` | two generators, two pump goroutines, operators and other clients interleave; timers race events; a watch may end; an Update may conflict; a signal ends `main` while the generators work |
| Post-deploy finalizer (`genericGetter.go`, `GenericWaiter`) | the list in hand; otherwise only the cluster's | lists per kind and label, polling, `v1DeploymentAndHpaMigration` | partial failure between two deletions, checks that are minutes old when used, failed calls that are only logged |
| Event recorder (`labeled_event_recorder.go`) | the queues of the broadcaster and its watcher, the correlator's caches | record, correlate, write with retries | writes that are repeated after they were carried out; events that expire; a retry every ten seconds against a process that lives two more seconds |
| Event receiver and ownership (`utils.go`, `setOwnerRef`, `v1DeploymentAndHpaMigration`) | the owner references in the cluster | name a deployment, make it the owner, remove the old one | three steps of two hooks, with an installation between them, that do not know of each other |
| Reading of the files (`utils.go`, `initGetters.go`) | none after start-up | split and decode YAML | none; labels from a nil map (modelled where it bites, in `declarationCreator`) |
| Consul policies and token (`core-bootstrap/scripts/consul`, `configserver`) | policies and tokens in Consul, the secret | look at the token, put policies, clean up duplicates, create or change the token, save | any request may fail, be repeated by the HTTP client after it was carried out, or be the last one before a kill; the next run starts from there |
| MaaS account (`scripts/maas`) | the account in MaaS, the secret | send configuration, delete and register the account, save; or save the stub | as for Consul; deployments with MaaS enabled and not enabled alternate |
| DBaaS database and rules (`scripts/dbaas`, `scripts/controlplane`) | the database, the secret | poll while the answer is 202, save, send rules one by one | limits of the polling; rules applied in part |
| Task manager, `main`, shutdown hook (`taskmanager`, `main.go`) | the list of tasks | run the tasks in order, stop at the first failure | repeatability of everything before the failing task; SIGTERM ends with code 143 |
| Removal of static-core-gateway (`scripts/staticcoregateway`) | the cluster's | seventeen deletions in order | stop between two deletions |
| HTTP client and Kubernetes helpers (`utils`) | none | `newRestyClient` (three repetitions), `CreateOrUpdateSecret` | a repeated request may be carried out twice |
| Typed clients, API types, Helm charts, local environment | none | generated code, rendered text | none |

How they interact: generators and pumps share the watcher and handler maps and
the channels (buffer of one); the hook, the operators and other clients share
the resources in the API server, guarded by the resource version; the hook and
its Job share the exit code. The generators hand warnings to the one recorder of
the process. The two hooks of a deployment share the owner references. The tasks
of core-bootstrap share nothing in
memory: one leaves secrets and remote registrations, which the next one, or the
next run, reads.

What makes each component correct:

* pre-deploy hook: it ends with success only after an operator has reconciled
  the *new* version of every declared resource; it always ends; it takes back
  nothing that an operator has written; no event is lost, duplicated or
  reordered between the watch and the waiter;
* finalizer: success means everything it found was `Updated` in this run; v0 is
  not deleted before v1 has served; it ends;
* event recorder: equal warnings are one event that counts each of them once;
  none is dropped or stays with the recorder;
* ownership: a successful deployment leaves every declared resource in place,
  and none owned by a deployment that is gone;
* Consul and MaaS: a success leaves working credentials; a run never spoils
  working ones, wherever it stops; a later run mends what an earlier one left
  (with the exception of `TokenLost`, section 4);
* the bootstrap job: no task acts before all have accepted the configuration;
  the database is placed by the rules of this deployment; success means that all
  tasks are done; runs that stop anywhere are made good by later ones, with one
  exception: with Consul enabled no run gets past `configserver` once an earlier
  one was stopped between the deletion of the token in the secret and the saving
  of a new one (`TokenLost`, section 4).

`PROJECT.json` lists every hazard with its line and the properties about it.

## 2. Modules

| Module | Stands for | Proofs |
|---|---|---|
| `DeployHook` | what the pre-deploy hook promises to a deployment (abstract) | |
| `BootstrapTask` | what a task of the bootstrap job promises to its service (abstract) | |
| `WarningTally` | what the event recorder promises to those who read the events (abstract) | |
| `DeclarationSync`, `MCDeclarationSync` | the pre-deploy hook | `DeclarationSyncProofs`, `HookProofs` |
| `Finalizer`, `MCFinalizer` | the post-deploy hook | `FinalizerProofs` |
| `EventRecorder`, `MCEventRecorder` | the event recorder of both hooks | `EventRecorderProofs` |
| `Upgrade`, `MCUpgrade` | the hooks of successive deployments: who owns the declared resources | `UpgradeProofs` |
| `ConsulToken` | the task `configserver` | `ConsulTokenProofs` |
| `MaasClient` | the task `maas` | `MaasClientProofs` |
| `Bootstrap`, `MCBootstrap` | the job core-bootstrap: task manager, `main`, `dbaas`, `controlplane`, `staticcoregateway` | `BootstrapProofs` |

Operators named `X_Something` next to an action `X` are wrong versions of it, a
plausible slip each. They are in no specification; put in place of `X` they
break the property they are listed with in `PROJECT.json`.

### The abstract specifications

* `DeployHook`, implemented by `DeclarationSync` (`ImplementsDeployHook`): the
  resources are applied, then each passes after its own reconciliation, and
  success comes last.
* `BootstrapTask`, implemented by `ConsulToken` and `MaasClient`
  (`ImplementsTask`): a service holds what its deployment wishes, what an earlier
  one wished, or nothing of use. Only a run changes it, only into what is wished,
  and in one step. In `ConsulToken` the service holds a token when the secret
  names one that has every required policy (`Held`), and every deployment wishes
  that. In `MaasClient` it holds an account when the secret's password is the one
  MaaS knows, or the stub; `enabled` is the `Wish`. Everything else that these
  tasks do (tokens made, accounts deleted and registered anew, requests repeated)
  is a stutter: a service never sees it. A run that gives up while the service
  holds nothing may leave the task `stuck`: no later run then fulfils anything.
  In `ConsulToken` this is `Stuck`, a secret that names a deleted token in a run
  that has not deleted it itself; `MaasClient` never gets stuck (`stuck` is
  `FALSE`). The specification is about safety only: that the wish is fulfilled in
  the end is for `EventuallyMended` and `EventuallyRegistered` to say.
* `WarningTally`, implemented by `EventRecorder` (`ImplementsTally`): a tally of
  the observed warnings (`Tallied`) and, per reason, at most one event that shows
  the tally of the moment it is written (`Shown`). The queues, the requests and
  their repetition are stutters.

### DeclarationSync

One generator (a goroutine) per kind is a program counter `pc[k]` and an index
`idx[k]` into the declared resources. It goes through them twice, as
`Generate` does: once in `declarationCreator` (`CreatorFinds`,
`CreatorFindsNone`, `CreatorCreates`, `CreatorUpdates`, `CreatorPanics`), once
in `declarationWaiter` (`OpenWatch` or `ReuseWatch`, `Register`, `Receive`,
`WaiterTimesOut`, `SendEvent`, `WaiterFails`), with `setOwnerRef` (`OwnGet`,
`DeplFound`, `DeplMissing`, `RetryGet`, `RetryUpdate`, `RetryConflict`,
`RetriesExhausted`) and the deferred `Unregister`. Each call to the API server
and each access to the shared maps is a step of its own.

`resourceTypeWatcher.run` is `PumpDrops`, `PumpTakes`, `PumpDelivers` and
`PumpExits`. An event passes `stream[k]` (the watch), `hand[k]` (the pump
between look-up and send) and `chan[c]` (the handler's channel of one); the
pump blocks while the channel is full, also when the waiter has gone.

`main` is `RunReturns`, `Signal` and `MainReturns`. `ApiFatal` is `log.Fatal`
after any call whose error is fatal. The environment is `OperatorReports`,
`OtherOwner` and `CloseWatch`.

Abstractions:

* The phases `WaitingForDependency`, `BackingOff` and `Updating` are one value:
  `handlePhaseChange` treats them alike.
* A stored object is a version, whether its spec is the declared one, a phase,
  whether an operator has reported `Updated` since the spec was stored, and an
  owner.
* Only the resources that are declared are on a watch; the code's look-up by
  name drops all others in `PumpDrops`.
* Once the context is cancelled every call of the hook fails and what others
  write concerns it no more, so that they stop then.

**Assumption on the API server.** With `StatusSubresource = FALSE`, a PUT of the
declared object (which has no status) removes the stored status; this is what
the API server does for a resource without the status subresource. The CRDs are
not in this repository. With `TRUE` the phase of the previous deployment
survives the PUT, and as `handlePhaseChange` does not compare
`observedGeneration` with the generation, the hook may take it for the new
version's: `OkMeansReconciled` and `ImplementsDeployHook` then fail. The
dependence on this constant is therefore stated in the theorem.

### Finalizer

A run lists (`ListFinds`, or `ListFails`, which is only logged), takes the items
in any order (`NextItem`), polls each (`PollEnds`, `PollTimesOut`,
`PollPanics`), and after the last list (`NextList`) migrates:
`ListDeployments`, `CheckDeploymentStatus` or `ReadyTimesOut`, `DeleteV0`,
`GetHpa`, `DeleteHpa`, `CheckHpa`. `ApiFatal` covers a call that is carried out
although the answer is an error. `Killed` is the Job's deadline or an eviction.
`Start` is the Job of the next deployment. The constant `Selected` gives each
List call (one per kind and label, in the code's order) the resources it
selects; a resource may be in several. `setOwnerRef` is one step here, for
`DeclarationSync` has its steps. Resources may appear, change phase or vanish,
v1 may be installed, come and go, and the facade operator may adopt v0, at any
point of a run.

### EventRecorder

A generator warns at most once (`GenerateEvent`: `sendEvent` is followed by
`log.Fatal`, and the fixed two seconds leave the others time to warn as well).
The warning passes two queues of the same length, the broadcaster's
(`incoming`) and its watcher's (`queue`, filled by `Distribute`); a full queue
drops it (`Offered`). The watcher's goroutine takes one warning at a time:
`EventCorrelate` is `EventCorrelate` with `eventObserve` and the spam filter,
then `recordEvent` is one of `PatchAnswered`, `PatchNotFound`, `CreateAnswered`,
`Rejected` or `WriteFails`, and `recordToSink` repeats it with `Retry` until
`MaxTries`. `WriteFails` is a request that was not carried out, or was and its
answer was lost. `Expires` is the time to live of events in the API server,
`ProcessEnds` anything that ends the process.

Abstractions:

* Each reason has one message in the callers, so that equal reason means equal
  key, and `EventAggregate`, which combines ten different messages, passes every
  event on. The caches never reach their 4096 entries.
* An event is its name, after the generator that made it, and its count. Names
  hold the time in nanoseconds and are taken to differ.
* `Shutdown` of the broadcaster is never called, and its context is never
  cancelled. The second watcher only prints.
* Time is left out: the two seconds may be too short for any write. A first
  retry comes after up to ten seconds, so that in practice a warning whose first
  write fails is lost with the process; no property says otherwise.

Two facts no property is about. Of equal warnings the event keeps the
annotations of the first (a patch carries only what changes), so that
`relatedCR` names one of the resources. The map `labels` is built when the
package is initialised, before `serviceName` is set, so that
`app.kubernetes.io/name` is empty in every event (`utils.go:35`).

### Upgrade

One service over any number of deployments, each with a target version: `Begin`,
`SetEventReceiver`, `Apply` and `SetOwnerRef` for each resource (pre-deploy
hook), `Install` (Helm), again `SetEventReceiver`, then `SetOwnerRef` or
`ListFails` for each resource and `Migrate` (post-deploy hook). `Collect` is
Kubernetes' garbage collector. Applying, owning and migrating are single steps
here; `DeclarationSync` and `Finalizer` have theirs. A `Get` of a deployment that
fails is taken for one that found nothing, as the code takes it (`Readable`), and
a `List` that fails passes its resources over. The hook goes on after both, so
that they are no failures of a deployment and `MaxFaults` does not bound them;
the constant `LookUpsFail` says whether they happen. `Fail` is any failure, or a
hook that is told to stop (`main` then exits with 0, so that Helm may go on; the
model ends the deployment as failed); a deployment that was being removed may
then be gone or not.

**Assumptions.** v0 is still there after the installation, as the migration
assumes (a tool that removes it by itself leaves the hook nothing to migrate).
No deployment goes back from v1 to v0. Deployments of one service do not
overlap. The declared objects carry no owner of their own.

### ConsulToken and MaasClient

Both have the same form. A run is one pod; `Start` begins another one whenever
none is at work, so that a behaviour is any number of runs. `RunFails` ends a
run at any step (a call that fails for good, a kill); `RunEnds` forgets what
only the process knew. Each writing request has two versions: answered, and
carried out with its answer lost, after which the HTTP client repeats it up to
`Retries` times. `Init` is anything an earlier version may have left: tokens
with some of the policies and duplicates; an account with its secret, an account
whose secret is gone, or the stub.

In `ConsulToken` the steps follow `CheckAndCreateConsulPoliciesAndToken`: read
the secret, load and put each policy, look at the token, and if it lacks a
policy clean up duplicates, create or change a token and save it. The accessor
and the secret id of a token are one name. In `MaasClient` they follow
`sendMaaSConfig` and `maasAgentCreateClient`; `enabled` is drawn anew by each
run.

**Assumption.** Two runs do not overlap (one Job at a time), and nobody else
changes these tokens and accounts.

### Bootstrap

A run is one pod, as above, in one of the two phases (`-post`) and with any of
the configurations in `Plans`; successive deployments may have different ones.
`executeTasks` is `Configure` (or `ConfigureFails`: a missing variable panics,
other faults of the configuration are returned) for each task of the phase, and
then the steps of the tasks in the order of `DefaultTasks`: `ApplyRule` or
`RuleMalformed` for each rule, `ApplyMsRule`, `DatabaseAccepted`,
`DatabaseProvided`, `AttemptsExhausted`, `CheckProperties`, `SaveDbSecret`,
`ConfigServer`, `MaaS`; after the deployment `DeleteResource` for each resource
of static-core-gateway. `OrFails` is a call that is carried out although its
answer never arrives; `RunFails` is a call that fails without an effect, or the
end of the pod (`RegisterShutdownHook` exits with 143 or 130).

Abstractions:

* `configserver` and `maas` are one step each; `ConsulToken` and `MaasClient`
  have their steps. Both implement `BootstrapTask`, which justifies the one step
  as far as safety goes: what the service holds changes at once or not at all, a
  task that reports success has given it what was wished, and a task gets stuck
  only by a run that gives up. For liveness the one step rests on
  `EventuallyRegistered`, and on `EventuallyMended` with its condition. Where that
  condition fails the task is not repeatable, and this is in the model:
  `TokenDeleted` is a run that is stopped after the clean-up has deleted the token
  in the secret (`consul_utils.go:376-390`), from which `tokenGone` holds;
  `TokenRefused` is the look at that token, which ends every later run with Consul
  enabled (`:256-262`), so that `maas`, the last task, is not executed either.
  `Init` has it both ways.
* A task's configuration is accepted or not; `lacking` is the first task that
  rejects it.
* The requests of these tasks are PUTs of a whole rule or database, and
  deletions. The repetitions of the HTTP client change nothing and are not told
  apart from the request.
* DBaaS answers 202 while it creates the database and does not send the
  connection properties with that answer. That an answer 200 or 201 lacks them
  is a fault.

Two facts of the code that the model shows and no property forbids. An empty
first entry of `DBAAS_LODB_PER_NAMESPACE_AUTOBALANCE_RULES` makes the task skip
all rules, also those that follow (`dbaas_scripts.go:58`). A type that occurs
twice in the rules is changed twice by each run, so that DBaaS holds the first
of the two for a moment, in every deployment; this is why
`EventuallyBootstrapped` speaks of infinitely often and not of for ever.

The templates in this repository start the job before a deployment only; the
phase after it is modelled from the code.

## 3. Runs

| Run | Bounds | What it shows |
|---|---|---|
| `SharedWatch` | one kind, two resources, versions of other writers up to 3, at most one unread event when they write, one attempt of `setOwnerRef` | two waiters share a watch one after the other: registration, order, delivery, success, owner reference, refinement of `DeployHook`; the hook ends, with a blocked pump or a dead watch too |
| `LostWakeup` | as `SharedWatch`, two unread events | finding, see below |
| `TokenRuns` | four tokens, up to three of them legacy, two policies, three repetitions, three faults | safety over any number of runs, mending, refinement of `BootstrapTask` |
| `TokenLost` | two legacy tokens and two faults | finding |
| `AgentAccount` | three passwords, three repetitions, four faults | credentials over any number of runs, refinement of `BootstrapTask` |
| `PostDeploy` | two resources, two overlapping lists | success, migration and termination over any number of runs |
| `PollPanics`, `HpaLeft` | the same | findings |
| `BootstrapRuns` | one type of database, two physical ones, three configurations, two resources of static-core-gateway, two requests for the database, two faults | order and success of the tasks over any number of runs in both phases, and their repeatability, with Consul as long as config-server's token is not lost |
| `Warnings` | four generators, two reasons, queues of two, two tries, a burst of two | equal warnings share an event that counts them, none is dropped or stays, refinement of `WarningTally` |
| `Upgrades` | two resources, two failed deployments, any number of failing look-ups and lists | ownership over any number of deployments |
| `OwnerGone` | two resources, no failure, no failing look-up or list | finding |

Why the bounds are enough. Two resources of a kind are what it takes for one
waiter to leave while another arrives on the same watch: a dropped event, a
channel that nobody empties and a reused watch all occur. Three versions above
that of an earlier deployment let operators report twice around a write of the
hook, so that an event can be in the channel, another in the pump's hand and a
third in the stream. One attempt makes both exits of the retry loop occur; the
code's ten do the same ten times. Two policies and four tokens give duplicates
with and without the other policy, a token to be kept that is not the one in
the secret, and new names for a creation that is repeated. Three faults allow a
run that stops in the middle, a lost answer and a logged failure of a deletion
in one history. In `PostDeploy` nothing is counted: the number of runs, reports
and failures is unbounded, the state is finite. The three configurations of
`BootstrapRuns` are a type with two rules, a malformed rule after a good one
and an empty first entry, with Consul enabled and not; as runs draw any of
them, a run may also stop in the middle of one and the next have another. Two
resources give a deletion before and one after each stop. In `Warnings` four
generators fill both queues of two and overflow them, give a third equal
warning after a write was refused or given up, and pass the burst; one retry is
what tells the retries from the giving up. In `Upgrades` the number of
deployments is unbounded; two that fail allow a removal of v0 that is carried
out without success and another failure before the repair.

Deadlock is checked in every run; where a program ends for good the
specification has an explicit step for it (`Finished`).

### Properties worth a remark

* `OkMeansReconciled`, `ImplementsDeployHook`: the exit code 0 of a hook that
  was not told to stop means that an operator has reconciled the declared
  version of every resource, and the hook passed them one by one, each after
  its own reconciliation.
* `OnlyWaitersRegistered`, `EventsInOrder`, `DeliveryAfterRegistration`: what the
  watcher owes to a waiter. The last one is exact: events before the
  registration may be lost, none after it while the watch is up.
* `OwnerKeepsStatus`: the write of the owner reference carries the version of the
  object it was computed from, so that it never takes a report back.
* `Terminates`, `RunsEnd`: every wait is bounded by its own timer. This covers
  the pump that blocks in its send to a channel whose waiter has left (all later
  waiters of the kind then hear nothing), and a cached watcher whose watch has
  ended (it is never opened again).
* `OneEventPerReason`, `CountsEveryWarning`: what the correlator's cache, the
  patch and the stored event owe to each other when writes are refused, lost,
  repeated or given up and events expire: one event per reason, and its count is
  the number of warnings observed so far whenever it is written.
* `NothingDropped`, `WritingEnds`: a warning is with the recorder until it is
  dealt with, and it is dealt with, unless the process ends first.
* `SuccessMeansListedUpdated`: about the lists that succeeded. A list that fails
  is only logged, and success then promises nothing of its resources.
* `ImplementsTask`: the wish is fulfilled in one step. A task that has to delete
  an account before it can register it, or to change the policies of a token one
  call at a time, still shows its service no state in between.
* `ImplementsTally`: events that are patched, created anew after they expired,
  or written again because an answer was lost, are one event that changes in
  place, and its count is that of the moment.
* `RepairedByTheNext`, `EventuallyKept`: `OwnerGone` shows that a migration takes
  the declared resources with it; these say that the next deployment brings them
  back under an owner that stays, and that it happens once.
* `SuccessMeansUsable`, `StaysUsable`, `OneTokenRemains`, `OthersSpared`,
  `CredentialsWork`, `StaysRegistered`: no run, wherever it stops, spoils
  what works or belongs to others.
* `EventuallyMended`, `EventuallyRegistered`: once the faults are over a later
  run makes good what the others left. The first has a condition, for without it
  the code does not keep it (`TokenLost`).
* `PlacedByRules`, `ConfiguredFirst`, `DeletedInOrder`: what the order of two
  loops and of two list literals is for. Each relates steps of tasks that do not
  know of each other.
* `SuccessMeansDone`, `EventuallyBootstrapped`, `EventuallyRemoved`: success is
  reported only for what DBaaS and the cluster hold, and any history of stopped
  runs ends in it once the faults are over, if the configuration is a good one.
  `EventuallyBootstrapped` has a further condition for the configurations with
  Consul, that config-server's token is never lost (`[]~tokenGone`); without it
  the code does not keep the property, for the reason of `TokenLost`.
* `OldKeptUntilNewServes`: v0 goes only in a run during which v1 was available
  and not if the facade operator managed v0 when the run began. The label and
  the readiness are *not* looked at again before the deletion; v1 may have gone
  since, or v0 may have been adopted since, and the property says only what the
  code keeps.

### Fairness

* `DeclarationSync`: weak fairness of each generator's calls, of each pump, of
  each timer and of `main`. Calls return (the client has timeouts), goroutines
  are scheduled, timers fire. Nothing is assumed of operators, other clients,
  signals or the watch's connection.
* `Finalizer`: the same for its generator, its two timers and `main`; failures
  need not happen.
* `EventRecorder`: weak fairness of the two goroutines, of a request (which comes
  to some end) and of the retry timer. The process need not live on.
* `Upgrade`: weak fairness of the hooks and Helm, `Begin` included: the service
  is deployed again. Garbage collection need not happen; failures are bounded.
* `ConsulToken`, `MaasClient`, `Bootstrap`: weak fairness of the runs' ordinary
  steps, `Start` included: the job is run again by its Job and by the following
  deployments. In `Bootstrap` DBaaS also finishes the database it has accepted.
  The faults are bounded by `MaxFaults`, which is how "once the faults are over"
  is expressed.

## 4. Findings

Each is a run that must end in a violation of one property.

1. `LostWakeup` (`deploymentGenerator.go:107`): the pump runs before the waiter
   is registered and drops the events of resources nobody waits for yet. The
   waiter never reads the resource itself. A resource that is already `Updated`
   is then waited for until the timeout, and the deployment fails.
2. `OwnerGone` (`deploymentGenerator.go:265`): in the deployment that brings v1
   the pre-deploy hook makes v0 the owner of the declared resources, the
   post-deploy hook leaves that owner alone and deletes v0. The deployment
   succeeds, and Kubernetes collects the resources until the next one applies
   them again. Nothing fails in this run: no call and no look-up.
3. `TokenLost` (`consul_utils.go:258`): the clean-up of duplicates may delete
   the token that the secret names. If the run stops before the new one is
   saved, every later run fails at its look at that token, and the task after
   it, `maas`, is not executed any more.
4. `PollPanics` (`deploymentGenerator.go:402`): a failed Get is logged through
   the nil object it returned.
5. `HpaLeft` (`genericGetter.go:105`): a run that stops between the deletion of
   v0 and that of its autoscaler leaves the autoscaler for good.

Two further behaviours are in the models, have no run of their own, and are
worth knowing. `setOwnerRef` looks for owners in one version of the resource
(`deploymentGenerator.go:258`) and replaces them in another (`:300`): an owner
that another client has set in between (`OtherOwner`) is replaced, and the
version check does not notice. A request for a new Consul token that the HTTP
client repeats (`consul_utils.go:168`) creates two; the run succeeds with one of
them, and no later run comes to the clean-up.

## 5. Proofs

The theorems hold for all values of the constants under the modules'
`ConstantsAssumption`, which TLC evaluates on the instances. No fairness is
used.

| Theorem | Statement |
|---|---|
| `DeclarationSyncProofs!TypeCorrect` | `Spec => []TypeOK` |
| `DeclarationSyncProofs!Safety` | `Spec => []OkMeansReconciled`, assuming `~StatusSubresource` |
| `HookProofs!Registered`, `OwnerSpares`, `InOrder`, `Delivered` | `OnlyWaitersRegistered`; `OwnerKeepsStatus`; `EventsInOrder`; `DeliveryAfterRegistration` |
| `HookProofs!Implements` | `Spec => ImplementsDeployHook`, assuming `~StatusSubresource` |
| `HookProofs!SuccessMeansApplied` | at success the declared spec of every resource is the stored one, with or without `StatusSubresource` |
| `HookProofs!ForwardOnly` | a generator only goes forward, through four stages with a bounded number of places each |
| `FinalizerProofs!TypeCorrect`, `ListedUpdated`, `OldKept` | types; `SuccessMeansListedUpdated`; `OldKeptUntilNewServes` |
| `FinalizerProofs!RunsBounded` | a run makes a bounded number of steps, if the resources are finitely many |
| `ConsulTokenProofs!TypeCorrect`, `Success`, `Stays`, `OneRemains`, `Spares` | types; `SuccessMeansUsable`; `StaysUsable`; `OneTokenRemains`; `OthersSpared` |
| `ConsulTokenProofs!Implements` | `Spec => ImplementsTask` |
| `ConsulTokenProofs!RunsBounded` | a run makes a bounded number of calls, if tokens and required policies are finitely many |
| `MaasClientProofs!TypeCorrect`, `Credentials`, `Stays` | types; `CredentialsWork`; `StaysRegistered` |
| `MaasClientProofs!Implements`, `RunsBounded` | `Spec => ImplementsTask`; a run makes at most five calls |
| `BootstrapProofs!TypeCorrect`, `Done`, `Configured`, `Placed`, `Ordered` | types; `SuccessMeansDone`; `ConfiguredFirst`; `PlacedByRules`; `DeletedInOrder` |
| `BootstrapProofs!RunsBounded` | a run makes a bounded number of steps |
| `EventRecorderProofs!TypeCorrect`, `OneEvent`, `Counts`, `NoneDropped` | types; `OneEventPerReason`; `CountsEveryWarning`; `NothingDropped` |
| `EventRecorderProofs!Implements`, `WritesBounded` | `Spec => ImplementsTally`; a write is done or given up after a bounded number of steps |
| `UpgradeProofs!TypeCorrect`, `Repaired` | types; `RepairedByTheNext` |
| `UpgradeProofs!KeptForGood` | what a success of v1 has found without v0 is never lost again |

None of the safety properties is inductive. The invariants they rest on:

* **DeclarationSync.** The argument is about phases. The hook's own write takes
  `Updated` back, so an applied resource that is `Updated` has been reconciled
  (`UpdatedMeansReconciled`). A kind's watch is opened after the last such write
  (`CreationProgress`, `WatchedLate`), hence every `Updated` in the stream, the
  pump's hand or a channel tells of a reconciled resource (`EventsSound`). A
  waiter goes on only after such an event (`PassedReconciled`), and the owner's
  write does not undo it because it writes the stored object or is refused
  (`CopyFresh`). The context is stopped only when all generators are done
  (`StoppedMeansDone`). Lemmas group the steps that are alike: a local step of a
  generator (`LocalStep`), a write that takes nothing back (`LaterWrite`), the
  creator's write (`CreatorWrite`), a step of the pump (`PumpStep`).
* **HookProofs.** Registration: a channel is in the handler map exactly while its
  generator is between `Register` and `Unregister`. Order: events of a resource
  are ordered within the stream (`StreamOrder`), and those ahead of it, in the
  pump's hand and the channel, are older (`HandOrder`, `ChanOrder`); none is of a
  version still to come (`NoEarlyEvents`). Delivery: the newest event since the
  registration is at one of these places (`NewestComing`). Refinement: with the
  invariant of `Safety`, a step of the hook is a stutter, the application of a
  resource, the passing of one, or the end (`HookStutters`, `HookApplies`,
  `HookConverges`, `HookAccepts`, `HookEnds`). Applied at success:
  the creator goes on only after a write that stores the declared spec, which
  every later position of the generator keeps (`Applying`, `Steady`), and no other
  write replaces it (`AppliedStays`): operators write the status, other clients the
  owner, and the hook's own write of the owner carries a copy that is refused
  unless it is the stored object (`CopyFresh`).
* **EventRecorder.** A warning is at one place at a time (`OnePlace`); the cache
  holds for each reason the number of warnings observed and the name of one of
  them (`CacheExact`); the event at work has this name and count (`CurCached`),
  an event in the API server has this name (`StoredCached`). With these a write
  maps to `Show` of the tally's name and number, an expiry to `Vanish`, and every
  other step but `EventCorrelate` to a stutter.
* **Upgrade.** In a deployment that began without v0 there is never a pair to
  migrate (`NoPair`, `NoReturn`), so that what its pre-deploy hook has applied is
  there and owned by nothing that goes (`AppliedKept`, `SuccessKept`). Such a
  success leaves a state (`Settled`: no v0, no owner that goes, v1 the target for
  good) that no later step leaves, hence `KeptForGood`.
* **ConsulToken.** A run comes to the clean-up only if the token in the secret
  is no good (`NeedsToken`), makes one token good and stores that one last; the
  policies it has dealt with are current and stay so (`PoliciesDone`); the token
  kept is none of those to be deleted (`KeepsOne`), and both are of the
  clean-up's policy as long as they are in hand (`OwnTokens`). The refinement
  needs the same facts: a usable token is never made useless (`Stays`), and
  success is reported only where there is one. No run comes to the clean-up with
  a token that Consul has deleted (`ListWithLive`), so that within a run nothing
  gets stuck and what is stuck stays so (`StuckStep`).
* **MaasClient.** A run is between the look at the secret and the end only while
  the secret holds no password (`RunsOnlyWithout`), and what it saves is what
  MaaS has registered. Hence the account is deleted only while the agent holds
  nothing or the stub, and the refinement's only visible step is the secret's.
* **Finalizer.** What the run has listed and neither polled nor still to poll has
  been `Updated` (`ListedPassed`); the ghosts record what was seen
  (`GhostsSound`); the deletion is reached only past the label and v1's
  readiness (`ReadyToDelete`).
* **Bootstrap.** The invariant says what a run has done by the time it is at a
  step: `Course` (every Configure lies behind the first Execute, and the steps
  belong to the phase), `RulesDone` (the rules up to the one it is at hold, of
  several for a type the last), `DatabaseDone` (a database with properties is
  there, and a working secret is of one that is there), `GatewayDone` (what
  precedes the resource it is at is gone). Each is kept by steps of every task,
  and together they give the success of the last step.

**Measures.** `RunsBounded`, `WritesBounded` and `ForwardOnly` are the provable
half of the liveness properties: each gives a natural number (`CallsLeft`,
`StepsLeft`; a lexicographic `Stage`, `idx`, `Rank` for the generators) that
every step of the process lowers and no step of its environment raises. What
remains of `Terminates`, `RunsEnd`, `WritingEnds` and their kin is that a step
that stays possible is taken at last, which is the fairness above. The measures of
`ConsulToken` and `Finalizer` count elements of sets, and so assume those sets to
be finite, which the model does not need otherwise. For `Upgrade` there is none:
the number of its deployments is not bounded. These theorems and
`SuccessMeansApplied`, `KeptForGood` are stated in the proof modules only; no run
checks them.

Only model-checked: the liveness properties, as temporal proofs under fairness
and `ENABLED` are out of the prover's reach. Every invariant, every action
property and every refinement that a passing run checks is proved.

## 6. Not modelled

* **Reading of the files**: the declared resources are a constant. Two facts of
  the code a reader should know: documents are split at any `---`
  (`utils.go:83`), and resources of kinds without a generator are silently left
  out (`initGetters.go:146`).
* **Typed clients and API types** are generated; the hooks use the dynamic
  client. **Charts** are text; their Job settings are assumptions above. The
  **local environment** is no part of the system.

## 7. Plan

Done: the three abstract specifications, the modules that implement them,
`Finalizer`, `Bootstrap`, `Upgrade`, and theorems about each. Next, in this
order:

1. `EventRecorder` composed with `DeclarationSync`: which of the hook's failures
   a user can read in the cluster.
2. To be stated: "Invalid rule format: %s, skipping" (`dbaas_scripts.go:175`)
   against the error that is returned there, which ends the job.
3. An abstract specification of the whole job that `Bootstrap` implements (the
   outcome of a phase from those of its tasks).
