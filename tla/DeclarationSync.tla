-------------------------- MODULE DeclarationSync --------------------------
(***************************************************************************)
(* The pre-deploy hook of cr-synchronizer.  One generator per kind of      *)
(* custom resource (a goroutine) applies the declared resources one after  *)
(* the other and then waits for each of them in turn.  The waiters of a    *)
(* kind share one watch on the API server, read by a pump goroutine that   *)
(* hands each event to the channel registered for the resource's name.     *)
(*                                                                         *)
(* A resource version is counted per object; an absent object has version  *)
(* 0.  "Updating" stands for the three progress phases the code treats     *)
(* alike (WaitingForDependency, BackingOff, Updating), "Unset" for a phase *)
(* that is missing or empty.  A call that fails for good ends the process  *)
(* (log.Fatal).                                                            *)
(***************************************************************************)
EXTENDS Naturals, Sequences, FiniteSets, Functions

CONSTANTS
    Kinds,              \* kinds a generator exists for: MaaS and DBaaS
    CRs,                \* declared resources
    KindOf,             \* the kind of each of them
    Declared,           \* per kind, its resources in the order of the files
    MayLackLabels,      \* resources the files may declare without labels
    NoCR,               \* stands for a watch event that carries no resource
    MaxRv,              \* bound on the versions other writers produce
    MaxQueued,          \* other writers wait while so many events are unread
    Closing,            \* kinds whose watch may end early
    MaxRetry,           \* attempts of setOwnerRef: 10 in the code
    StatusSubresource   \* does a PUT leave the stored status alone?

ASSUME ConstantsAssumption ==
    /\ NoCR \notin CRs
    /\ KindOf \in [CRs -> Kinds]
    /\ Declared \in [Kinds -> Seq(CRs)]
    /\ \A c \in CRs : c \in Range(Declared[KindOf[c]])
    /\ \A k \in Kinds : IsInjective(Declared[k])
    /\ \A k \in Kinds : \A i \in 1..Len(Declared[k]) :
          KindOf[Declared[k][i]] = k
    /\ MayLackLabels \subseteq CRs
    /\ MaxRv \in Nat
    /\ MaxQueued \in Nat
    /\ Closing \subseteq Kinds
    /\ MaxRetry \in Nat \ {0}
    /\ StatusSubresource \in BOOLEAN

VARIABLES
    obj,        \* the objects stored by the API server
    conn,       \* per kind, the watch: "none", "open" or "closed"
    stream,     \* per kind, events sent but not yet read by the pump
    pump,       \* per kind, resourceTypeWatcher.run
    hand,       \* per kind, the event the pump is delivering
    handlers,   \* the names registered with the watchers
    chan,       \* per resource, its handler channel
    pc,         \* per kind, where the generator is
    idx,        \* per kind, the position in Declared[k]
    copy,       \* per kind, the object read for the next Update
    tries,      \* per kind, failed attempts to write the owner reference
    reported,   \* resources a warning event was recorded for
    ctx,        \* "live", "signalled" or "stopped" (main's deferred stop)
    exit,       \* "running", "zero", "failure" or "panic"
    base        \* ghost: per registered resource, the version stored when it was
                \* registered, or a newer one received since

watchVars == <<conn, pump, hand>>
waitVars  == <<handlers, chan, base>>
mainVars  == <<ctx, exit>>
vars == <<obj, stream, watchVars, waitVars, pc, idx, copy, tries, reported,
          mainVars>>

-----------------------------------------------------------------------------
Phases == {"Unset", "Updating", "InvalidConfiguration", "Updated"}
Owners == {"none", "deployment", "other"}

\* applied: the stored spec is the declared one.  reconciled: an operator has
\* reported "Updated" since.
Object == [rv : Nat, applied : BOOLEAN, phase : Phases,
           reconciled : BOOLEAN, owner : Owners]

Absent == [rv |-> 0, applied |-> FALSE, phase |-> "Unset", reconciled |-> FALSE,
           owner |-> "none"]

\* What an earlier deployment has left behind, if there was one.
Prior == {Absent, [rv |-> 1, applied |-> FALSE, phase |-> "Updated",
                   reconciled |-> FALSE, owner |-> "deployment"]}

Note == [cr : CRs \cup {NoCR}, rv : Nat, phase : Phases]
ErrorNote == [cr |-> NoCR, rv |-> 0, phase |-> "Unset"]
NoteOf(c, o) == [cr |-> c, rv |-> o.rv, phase |-> o.phase]

Cur(k) == Declared[k][idx[k]]
All(k) == Range(Declared[k])

Creating == {"get", "create", "update"}
Owning   == {"ownGet", "deplGet", "retryGet", "retryUpdate"}
Listening == {"select", "report", "sleep"} \cup Owning \cup {"unregister"}
Waiting  == {"watch", "register"} \cup Listening
PcStates == {"prepare", "done"} \cup Creating \cup Waiting

\* A resource that setOwnerRef has been left for.
Passed(c) ==
    LET k == KindOf[c] IN
    \/ pc[k] = "done"
    \/ pc[k] \in Waiting /\ \E i \in 1..Len(Declared[k]) :
                               i < idx[k] /\ Declared[k][i] = c
    \/ pc[k] = "unregister" /\ Cur(k) = c

\* A write to the API server: the object changes and, if the kind is watched,
\* an event with the new object is sent.
Write(c, o) ==
    /\ obj' = [obj EXCEPT ![c] = o]
    /\ stream' = IF conn[KindOf[c]] = "open"
                 THEN [stream EXCEPT ![KindOf[c]] = Append(@, NoteOf(c, o))]
                 ELSE stream

Goto(k, label) == pc' = [pc EXCEPT ![k] = label]

Running == exit = "running"

\* The generator's calls succeed only while the context is not cancelled.
Calls(k, label) == Running /\ ctx = "live" /\ pc[k] = label
Local(k, label) == Running /\ pc[k] = label

-----------------------------------------------------------------------------
Init ==
    /\ obj \in [CRs -> Prior]
    /\ conn = [k \in Kinds |-> "none"]
    /\ stream = [k \in Kinds |-> <<>>]
    /\ pump = [k \in Kinds |-> "none"]
    /\ hand = [k \in Kinds |-> ErrorNote]
    /\ handlers = {}
    /\ chan = [c \in CRs |-> <<>>]
    /\ pc = [k \in Kinds |-> "prepare"]
    /\ idx = [k \in Kinds |-> 1]
    /\ copy = [k \in Kinds |-> Absent]
    /\ tries = [k \in Kinds |-> 0]
    /\ reported = {}
    /\ ctx = "live"
    /\ exit = "running"
    /\ base = [c \in CRs |-> 0]

\* prepare has found the event receiver and read the files; the generators
\* are started.  With nothing declared of a kind its generator is done at once.
StartGenerators ==
    /\ Running
    /\ ctx = "live"
    /\ \A k \in Kinds : pc[k] = "prepare"
    /\ pc' = [k \in Kinds |-> IF Declared[k] = <<>> THEN "done" ELSE "get"]
    /\ UNCHANGED <<obj, stream, watchVars, waitVars, idx, copy, tries,
                   reported, mainVars>>

-----------------------------------------------------------------------------
(* declarationCreator *)

NextToCreate(k) ==
    IF idx[k] < Len(Declared[k])
    THEN /\ idx' = [idx EXCEPT ![k] = @ + 1]
         /\ Goto(k, "get")
    ELSE /\ idx' = [idx EXCEPT ![k] = 1]
         /\ Goto(k, "watch")

\* Setting a label on a nil map panics.
CreatorPanics(k) ==
    /\ Local(k, "get")
    /\ Cur(k) \in MayLackLabels
    /\ exit' = "panic"
    /\ UNCHANGED <<obj, stream, watchVars, waitVars, pc, idx, copy, tries,
                   reported, ctx>>

CreatorFinds(k) ==
    /\ Calls(k, "get")
    /\ obj[Cur(k)].rv > 0
    /\ copy' = [copy EXCEPT ![k] = obj[Cur(k)]]
    /\ Goto(k, "update")
    /\ UNCHANGED <<obj, stream, watchVars, waitVars, idx, tries, reported,
                   mainVars>>

\* Every error of Get is taken for "not found".
CreatorFindsNone(k) ==
    /\ Local(k, "get")
    /\ Goto(k, "create")
    /\ UNCHANGED <<obj, stream, watchVars, waitVars, idx, copy, tries,
                   reported, mainVars>>

\* What is stored after a POST of the declared object.
Created == [rv |-> 1, applied |-> TRUE, phase |-> "Unset", reconciled |-> FALSE,
            owner |-> "none"]

CreatorCreates(k) ==
    /\ Calls(k, "create")
    /\ obj[Cur(k)].rv = 0
    /\ Write(Cur(k), Created)
    /\ NextToCreate(k)
    /\ UNCHANGED <<watchVars, waitVars, copy, tries, reported, mainVars>>

\* What is stored after a PUT of the declared object over o.
Replaced(o) ==
    [rv |-> o.rv + 1, applied |-> TRUE,
     phase |-> IF StatusSubresource THEN o.phase ELSE "Unset",
     reconciled |-> FALSE, owner |-> "none"]

CreatorUpdates(k) ==
    /\ Calls(k, "update")
    /\ copy[k].rv = obj[Cur(k)].rv
    /\ Write(Cur(k), Replaced(obj[Cur(k)]))
    /\ copy' = [copy EXCEPT ![k] = Absent]
    /\ NextToCreate(k)
    /\ UNCHANGED <<watchVars, waitVars, tries, reported, mainVars>>

-----------------------------------------------------------------------------
(* declarationWaiter: the shared watcher *)

\* The watch starts without a version: the API server first sends the objects
\* it holds, in any order.
OpenWatch(k) ==
    /\ Calls(k, "watch")
    /\ conn[k] = "none"
    /\ \E order \in Bijection(1..Len(Declared[k]), All(k)) :
          stream' = [stream EXCEPT ![k] =
             [i \in 1..Len(Declared[k]) |-> NoteOf(order[i], obj[order[i]])]]
    /\ conn' = [conn EXCEPT ![k] = "open"]
    /\ pump' = [pump EXCEPT ![k] = "select"]
    /\ Goto(k, "register")
    /\ UNCHANGED <<obj, hand, waitVars, idx, copy, tries, reported, mainVars>>

\* A watcher found in the map is used, whether or not it still runs.
ReuseWatch(k) ==
    /\ Local(k, "watch")
    /\ conn[k] # "none"
    /\ Goto(k, "register")
    /\ UNCHANGED <<obj, stream, watchVars, waitVars, idx, copy, tries,
                   reported, mainVars>>

Register(k) ==
    /\ Local(k, "register")
    /\ handlers' = handlers \cup {Cur(k)}
    /\ chan' = [chan EXCEPT ![Cur(k)] = <<>>]
    /\ base' = [base EXCEPT ![Cur(k)] = obj[Cur(k)].rv]
    /\ Goto(k, "select")
    /\ UNCHANGED <<obj, stream, watchVars, idx, copy, tries, reported,
                   mainVars>>

\* handlePhaseChange
Verdict_UpdatingIsStable(phase) ==
    CASE phase \in {"Updating", "Updated"} -> "ownGet"
      [] phase = "InvalidConfiguration" -> "report"
      [] OTHER -> "select"
Verdict(phase) ==
    CASE phase = "Updated" -> "ownGet"
      [] phase = "InvalidConfiguration" -> "report"
      [] OTHER -> "select"

Receive(k) ==
    /\ Local(k, "select")
    /\ chan[Cur(k)] # <<>>
    /\ LET note == Head(chan[Cur(k)]) IN
       /\ chan' = [chan EXCEPT ![Cur(k)] = Tail(@)]
       /\ base' = [base EXCEPT ![Cur(k)] = IF note.rv > @ THEN note.rv ELSE @]
       /\ Goto(k, Verdict(note.phase))
    /\ UNCHANGED <<obj, stream, watchVars, handlers, idx, copy, tries,
                   reported, mainVars>>

\* The timer runs from the registration on; select takes it in preference to
\* an event or not, as it likes.
WaiterTimesOut_AfterAnEvent(k) ==
    /\ Local(k, "select")
    /\ chan[Cur(k)] # <<>>
    /\ Goto(k, "report")
    /\ UNCHANGED <<obj, stream, watchVars, waitVars, idx, copy, tries,
                   reported, mainVars>>
WaiterTimesOut(k) ==
    /\ Local(k, "select")
    /\ Goto(k, "report")
    /\ UNCHANGED <<obj, stream, watchVars, waitVars, idx, copy, tries,
                   reported, mainVars>>

\* sendEvent records a warning and sleeps, so that it may reach the API
\* server; then log.Fatal ends the process.
SendEvent(k) ==
    /\ Calls(k, "report")
    /\ reported' = reported \cup {Cur(k)}
    /\ Goto(k, "sleep")
    /\ UNCHANGED <<obj, stream, watchVars, waitVars, idx, copy, tries,
                   mainVars>>

WaiterFails(k) ==
    /\ Local(k, "sleep")
    /\ exit' = "failure"
    /\ UNCHANGED <<obj, stream, watchVars, waitVars, pc, idx, copy, tries,
                   reported, ctx>>

-----------------------------------------------------------------------------
(* setOwnerRef *)

\* The object is not found to have an owner, or the reference is left alone.
OwnGet(k) ==
    /\ Calls(k, "ownGet")
    /\ Goto(k, IF obj[Cur(k)].owner = "none" THEN "deplGet" ELSE "unregister")
    /\ UNCHANGED <<obj, stream, watchVars, waitVars, idx, copy, tries,
                   reported, mainVars>>

DeplFound(k) ==
    /\ Calls(k, "deplGet")
    /\ tries' = [tries EXCEPT ![k] = 0]
    /\ Goto(k, "retryGet")
    /\ UNCHANGED <<obj, stream, watchVars, waitVars, idx, copy, reported,
                   mainVars>>

\* Every error of Get only skips the owner reference.
DeplMissing(k) ==
    /\ Local(k, "deplGet")
    /\ Goto(k, "unregister")
    /\ UNCHANGED <<obj, stream, watchVars, waitVars, idx, copy, tries,
                   reported, mainVars>>

RetryGet(k) ==
    /\ Calls(k, "retryGet")
    /\ tries[k] < MaxRetry
    /\ copy' = [copy EXCEPT ![k] = obj[Cur(k)]]
    /\ Goto(k, "retryUpdate")
    /\ UNCHANGED <<obj, stream, watchVars, waitVars, idx, tries, reported,
                   mainVars>>

\* What is stored after a PUT of the object o read before, with the owner set.
Owned(o) == [rv |-> o.rv + 1, applied |-> o.applied, phase |-> o.phase,
             reconciled |-> o.reconciled, owner |-> "deployment"]

\* The owners found a moment ago are replaced without another look at them.
RetryUpdate_NoVersionCheck(k) ==
    /\ Calls(k, "retryUpdate")
    /\ Write(Cur(k), [Owned(copy[k]) EXCEPT !.rv = obj[Cur(k)].rv + 1])
    /\ copy' = [copy EXCEPT ![k] = Absent]
    /\ Goto(k, "unregister")
    /\ UNCHANGED <<watchVars, waitVars, idx, tries, reported, mainVars>>
RetryUpdate(k) ==
    /\ Calls(k, "retryUpdate")
    /\ copy[k].rv = obj[Cur(k)].rv
    /\ Write(Cur(k), Owned(copy[k]))
    /\ copy' = [copy EXCEPT ![k] = Absent]
    /\ Goto(k, "unregister")
    /\ UNCHANGED <<watchVars, waitVars, idx, tries, reported, mainVars>>

RetryConflict(k) ==
    /\ Calls(k, "retryUpdate")
    /\ copy[k].rv # obj[Cur(k)].rv
    /\ tries' = [tries EXCEPT ![k] = @ + 1]
    /\ copy' = [copy EXCEPT ![k] = Absent]
    /\ Goto(k, "retryGet")
    /\ UNCHANGED <<obj, stream, watchVars, waitVars, idx, reported, mainVars>>

RetriesExhausted(k) ==
    /\ Local(k, "retryGet")
    /\ tries[k] = MaxRetry
    /\ exit' = "failure"
    /\ UNCHANGED <<obj, stream, watchVars, waitVars, pc, idx, copy, tries,
                   reported, ctx>>

\* The deferred unregister of declarationWaiter, and Generate's loop.
Unregister_Forgotten(k) ==
    /\ Local(k, "unregister")
    /\ IF idx[k] < Len(Declared[k])
       THEN idx' = [idx EXCEPT ![k] = @ + 1] /\ Goto(k, "watch")
       ELSE idx' = idx /\ Goto(k, "done")
    /\ UNCHANGED <<obj, stream, watchVars, waitVars, copy, tries,
                   reported, mainVars>>
Unregister(k) ==
    /\ Local(k, "unregister")
    /\ handlers' = handlers \ {Cur(k)}
    /\ base' = [base EXCEPT ![Cur(k)] = 0]
    /\ tries' = [tries EXCEPT ![k] = 0]
    /\ IF idx[k] < Len(Declared[k])
       THEN idx' = [idx EXCEPT ![k] = @ + 1] /\ Goto(k, "watch")
       ELSE idx' = idx /\ Goto(k, "done")
    /\ UNCHANGED <<obj, stream, watchVars, chan, copy, reported, mainVars>>

\* A call that returns an error the code treats as fatal: in prepare, Create,
\* Update, Watch, setOwnerRef's Get and Update, sendEvent's Get of the pod.
ApiFatal(k) ==
    /\ Running
    /\ \/ pc[k] \in {"prepare", "create", "update", "ownGet", "retryGet",
                     "retryUpdate", "report"}
       \/ pc[k] = "watch" /\ conn[k] = "none"
    /\ exit' = "failure"
    /\ UNCHANGED <<obj, stream, watchVars, waitVars, pc, idx, copy, tries,
                   reported, ctx>>

-----------------------------------------------------------------------------
(* resourceTypeWatcher.run *)

\* The event is taken and the handler looked up; nobody else reads the stream,
\* so that taking it earlier than the look-up makes no difference.
PumpDrops(k) ==
    /\ Running
    /\ pump[k] = "select"
    /\ stream[k] # <<>>
    /\ Head(stream[k]).cr \notin handlers
    /\ stream' = [stream EXCEPT ![k] = Tail(@)]
    /\ UNCHANGED <<obj, watchVars, waitVars, pc, idx, copy, tries, reported,
                   mainVars>>

PumpTakes(k) ==
    /\ Running
    /\ pump[k] = "select"
    /\ stream[k] # <<>>
    /\ Head(stream[k]).cr \in handlers
    /\ stream' = [stream EXCEPT ![k] = Tail(@)]
    /\ hand' = [hand EXCEPT ![k] = Head(stream[k])]
    /\ pump' = [pump EXCEPT ![k] = "deliver"]
    /\ UNCHANGED <<obj, conn, waitVars, pc, idx, copy, tries, reported,
                   mainVars>>

\* The channel holds one event; the pump blocks while it is full, also when
\* the waiter has left for good.
PumpDelivers_DropsWhenFull(k) ==
    /\ Running
    /\ pump[k] = "deliver"
    /\ chan' = [chan EXCEPT ![hand[k].cr] =
                   IF @ = <<>> THEN <<hand[k]>> ELSE @]
    /\ pump' = [pump EXCEPT ![k] = "select"]
    /\ hand' = [hand EXCEPT ![k] = ErrorNote]
    /\ UNCHANGED <<obj, stream, conn, handlers, base, pc, idx, copy, tries,
                   reported, mainVars>>
PumpDelivers_NewestFirst(k) ==
    /\ Running
    /\ pump[k] = "deliver"
    /\ Len(chan[hand[k].cr]) < 2
    /\ chan' = [chan EXCEPT ![hand[k].cr] = <<hand[k]>> \o @]
    /\ pump' = [pump EXCEPT ![k] = "select"]
    /\ hand' = [hand EXCEPT ![k] = ErrorNote]
    /\ UNCHANGED <<obj, stream, conn, handlers, base, pc, idx, copy, tries,
                   reported, mainVars>>
PumpDelivers(k) ==
    /\ Running
    /\ pump[k] = "deliver"
    /\ chan[hand[k].cr] = <<>>
    /\ chan' = [chan EXCEPT ![hand[k].cr] = <<hand[k]>>]
    /\ pump' = [pump EXCEPT ![k] = "select"]
    /\ hand' = [hand EXCEPT ![k] = ErrorNote]
    /\ UNCHANGED <<obj, stream, conn, handlers, base, pc, idx, copy, tries,
                   reported, mainVars>>

PumpExits(k) ==
    /\ Running
    /\ pump[k] = "select"
    /\ stream[k] = <<>>
    /\ conn[k] = "closed"
    /\ pump' = [pump EXCEPT ![k] = "exited"]
    /\ UNCHANGED <<obj, stream, conn, hand, waitVars, pc, idx, copy, tries,
                   reported, mainVars>>

-----------------------------------------------------------------------------
(* main *)

\* WaitGroup.Wait returns, StartGenerator returns, stop cancels the context.
RunReturns_WithTheFirst ==
    /\ Running
    /\ ctx = "live"
    /\ \E k \in Kinds : pc[k] = "done"
    /\ ctx' = "stopped"
    /\ UNCHANGED <<obj, stream, watchVars, waitVars, pc, idx, copy, tries,
                   reported, exit>>
RunReturns ==
    /\ Running
    /\ ctx = "live"
    /\ \A k \in Kinds : pc[k] = "done"
    /\ ctx' = "stopped"
    /\ UNCHANGED <<obj, stream, watchVars, waitVars, pc, idx, copy, tries,
                   reported, exit>>

\* SIGTERM, SIGINT or SIGQUIT.
Signal ==
    /\ Running
    /\ ctx = "live"
    /\ ctx' = "signalled"
    /\ UNCHANGED <<obj, stream, watchVars, waitVars, pc, idx, copy, tries,
                   reported, exit>>

\* main returns when the context is done, whatever the generators are doing.
MainReturns ==
    /\ Running
    /\ ctx # "live"
    /\ exit' = "zero"
    /\ UNCHANGED <<obj, stream, watchVars, waitVars, pc, idx, copy, tries,
                   reported, ctx>>

-----------------------------------------------------------------------------
(* The API server, the operators and other clients *)

\* Once the context is cancelled no call of the hook succeeds, so that what
\* the others do no longer concerns it.
Observed == Running /\ ctx = "live"

\* The watch ends (its TimeoutSeconds, a lost connection); events on the way
\* may be lost, and the last one may be an error.
CloseWatch(k) ==
    /\ Observed
    /\ k \in Closing
    /\ conn[k] = "open"
    /\ conn' = [conn EXCEPT ![k] = "closed"]
    /\ \E n \in 0..Len(stream[k]), last \in {<<>>, <<ErrorNote>>} :
          stream' = [stream EXCEPT ![k] = SubSeq(@, 1, n) \o last]
    /\ UNCHANGED <<obj, pump, hand, waitVars, pc, idx, copy, tries, reported,
                   mainVars>>

MayWrite(c) == /\ Observed
               /\ obj[c].rv \in 1..(MaxRv - 1)
               /\ Len(stream[KindOf[c]]) < MaxQueued

\* An operator reports on the spec that is stored.
Reported(o, p) ==
    [rv |-> o.rv + 1, applied |-> o.applied, phase |-> p,
     reconciled |-> o.reconciled \/ (o.applied /\ p = "Updated"),
     owner |-> o.owner]

OperatorReports(c) ==
    /\ MayWrite(c)
    /\ \E p \in Phases \ {"Unset", obj[c].phase} : Write(c, Reported(obj[c], p))
    /\ UNCHANGED <<watchVars, waitVars, pc, idx, copy, tries, reported,
                   mainVars>>

\* Another client makes the resource its own.
Taken(o) == [rv |-> o.rv + 1, applied |-> o.applied, phase |-> o.phase,
             reconciled |-> o.reconciled, owner |-> "other"]

OtherOwner(c) ==
    /\ MayWrite(c)
    /\ obj[c].owner = "none"
    /\ Write(c, Taken(obj[c]))
    /\ UNCHANGED <<watchVars, waitVars, pc, idx, copy, tries, reported,
                   mainVars>>

Finished == ~Running /\ UNCHANGED vars

-----------------------------------------------------------------------------
Generator(k) ==
    \/ CreatorPanics(k) \/ CreatorFinds(k) \/ CreatorFindsNone(k)
    \/ CreatorCreates(k) \/ CreatorUpdates(k)
    \/ OpenWatch(k) \/ ReuseWatch(k) \/ Register(k) \/ Receive(k)
    \/ SendEvent(k) \/ WaiterFails(k)
    \/ OwnGet(k) \/ DeplFound(k) \/ DeplMissing(k)
    \/ RetryGet(k) \/ RetryUpdate(k) \/ RetryConflict(k)
    \/ RetriesExhausted(k) \/ Unregister(k) \/ ApiFatal(k)

Pump(k) == PumpDrops(k) \/ PumpTakes(k) \/ PumpDelivers(k) \/ PumpExits(k)

Next ==
    \/ StartGenerators
    \/ \E k \in Kinds : Generator(k) \/ WaiterTimesOut(k) \/ Pump(k)
                        \/ CloseWatch(k)
    \/ \E c \in CRs : OperatorReports(c) \/ OtherOwner(c)
    \/ RunReturns \/ Signal \/ MainReturns
    \/ Finished

\* Calls return, goroutines are scheduled, and the timer fires; nothing is
\* assumed of the operators, the other clients or the connection.
Fairness ==
    /\ WF_vars(StartGenerators)
    /\ \A k \in Kinds : WF_vars(Generator(k)) /\ WF_vars(Pump(k))
                        /\ WF_vars(WaiterTimesOut(k))
    /\ WF_vars(RunReturns) /\ WF_vars(MainReturns)

Spec == Init /\ [][Next]_vars
FairSpec == Spec /\ Fairness

-----------------------------------------------------------------------------
(* Properties *)

TypeOK ==
    /\ obj \in [CRs -> Object]
    /\ conn \in [Kinds -> {"none", "open", "closed"}]
    /\ stream \in [Kinds -> Seq(Note)]
    /\ pump \in [Kinds -> {"none", "select", "deliver", "exited"}]
    /\ hand \in [Kinds -> Note]
    /\ \A k \in Kinds : pump[k] = "deliver" => hand[k].cr \in CRs
    /\ handlers \subseteq CRs
    /\ chan \in [CRs -> Seq(Note)]
    /\ \A c \in CRs : Len(chan[c]) <= 1
    /\ pc \in [Kinds -> PcStates]
    /\ idx \in [Kinds -> Nat]
    /\ \A k \in Kinds :
          /\ pc[k] = "prepare" => idx[k] = 1
          /\ pc[k] \notin {"prepare", "done"} =>
                 idx[k] \in 1..Len(Declared[k])
    /\ copy \in [Kinds -> Object]
    /\ tries \in [Kinds -> 0..MaxRetry]
    /\ \A k \in Kinds : pc[k] = "retryUpdate" => tries[k] < MaxRetry
    /\ reported \subseteq CRs
    /\ ctx \in {"live", "signalled", "stopped"}
    /\ exit \in {"running", "zero", "failure", "panic"}
    /\ base \in [CRs -> Nat]

\* When the hook ends with success because its generators have finished, an
\* operator has reported "Updated" for the declared spec of every resource.
\* It needs a phase that the hook's own PUT takes back (~StatusSubresource):
\* handlePhaseChange does not look at observedGeneration.
OkMeansReconciled ==
    exit = "zero" /\ ctx = "stopped" => \A c \in CRs : obj[c].reconciled

\* Exactly the resources being waited for are registered with the watchers:
\* every way out of declarationWaiter runs the deferred unregister, so that a
\* later event is not put into a channel nobody reads.
OnlyWaitersRegistered ==
    handlers = {Cur(k) : k \in {l \in Kinds : pc[l] \in Listening}}

\* Events on their way to a resource's waiter, oldest first, with those for the
\* other resources of the kind that are still on the watch or in the pump.
Way(c) ==
    LET k == KindOf[c] IN
    chan[c] \o (IF pump[k] = "deliver" THEN <<hand[k]>> ELSE <<>>) \o stream[k]

InFlight(c) == {n \in Range(Way(c)) : n.cr = c}

\* A waiter acts on the phases of its resource in the order in which they
\* were stored: between the watch, the pump and the channel no event
\* overtakes another and none is delivered twice.
EventsInOrder ==
    \A c \in CRs : \A i, j \in DOMAIN Way(c) :
        Way(c)[i].cr = c /\ Way(c)[j].cr = c =>
            /\ Way(c)[i].rv <= obj[c].rv
            /\ i < j => Way(c)[i].rv < Way(c)[j].rv

\* While a waiter is registered and the watch is up, the newest version of
\* its resource is on its way unless it was stored before the registration:
\* neither the channel's capacity of one nor the other waiters of the kind
\* make the pump lose it.
DeliveryAfterRegistration ==
    \A c \in handlers :
        conn[KindOf[c]] = "open" /\ obj[c].rv > base[c] =>
            \E n \in InFlight(c) : n.rv = obj[c].rv

\* Writing the owner reference takes nothing back that an operator has
\* written since the object was read: the Update carries the version read.
OwnerKeepsStatus ==
    [][\A c \in CRs :
          obj[c].owner # "deployment" /\ obj'[c].owner = "deployment" =>
              /\ obj'[c].phase = obj[c].phase
              /\ obj'[c].reconciled = obj[c].reconciled
              /\ obj'[c].applied = obj[c].applied]_vars

\* The hook ends whatever the operators do: a waiter that hears nothing (its
\* event dropped, the pump blocked or gone, the watch closed) is ended by its
\* own timer, and a cancelled context ends main.
Terminates == <>(exit # "running")

\* What the hook promises to the deployment.
Outcome ==
    CASE exit = "running" -> "running"
      [] exit = "zero" /\ ctx = "stopped" -> "success"
      [] exit = "zero" /\ ctx # "stopped" -> "interrupted"
      [] OTHER -> "failure"

Hook == INSTANCE DeployHook WITH
    Items     <- CRs,
    applied   <- {c \in CRs : obj[c].applied},
    converged <- {c \in CRs : obj[c].reconciled},
    accepted  <- {c \in CRs : Passed(c)},
    result    <- Outcome

\* Every step of the hook is a step of the promise: it passes from one
\* resource to the next only after an operator has brought the applied spec
\* to "Updated", and ends with success only after the last one.
ImplementsDeployHook == Hook!Spec

\* deploymentGenerator_test.go:111 expects a waiter to complete for the
\* Updated phase.  While the watch is up, a waiter that still listens although
\* its resource is Updated should have that event coming.
NoLostWakeup ==
    \A k \in Kinds :
        Running /\ pc[k] = "select" /\ conn[k] = "open"
                /\ obj[Cur(k)].phase = "Updated" =>
            \E n \in InFlight(Cur(k)) : n.phase = "Updated"
=============================================================================
