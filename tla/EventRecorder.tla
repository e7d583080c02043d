--------------------------- MODULE EventRecorder ----------------------------
(***************************************************************************)
(* The event recorder of cr-synchronizer.  A generator that gives up       *)
(* leaves a warning about the deployment and ends the process two seconds  *)
(* later.  The warning passes the queue of the broadcaster and that of its *)
(* watcher; the watcher's goroutine counts it together with equal ones     *)
(* before and writes the event to the API server, again and again if the   *)
(* server cannot be reached.                                               *)
(*                                                                         *)
(* A warning and the event made for it (its name holds the time) are named *)
(* after the generator.  Each reason comes with one message, so that       *)
(* EventAggregate never has ten different ones to combine and passes every *)
(* event on.  The second watcher only prints.  A request whose answer is   *)
(* lost has been carried out by then or never is.                          *)
(***************************************************************************)
EXTENDS Naturals, Sequences, FiniteSets

CONSTANTS
    Senders,        \* generators, each of which may warn once
    Reasons,        \* the reason of a warning, which fixes its message
    None,
    QueueLength,    \* maxQueuedEvents, of either queue
    MaxTries,       \* maxTriesPerEvent
    Burst           \* events that the spam filter always lets pass

ASSUME ConstantsAssumption ==
    /\ IsFiniteSet(Senders)
    /\ None \notin Senders \cup Reasons
    /\ QueueLength \in Nat \ {0}
    /\ MaxTries \in Nat \ {0}
    /\ Burst \in Nat

VARIABLES
    reason,     \* per generator, the reason it has warned of
    incoming,   \* the broadcaster's queue
    queue,      \* the watcher's queue
    cache,      \* per reason, the name and count last observed
    spent,      \* tokens taken from the spam filter
    sink,       \* what the watcher's goroutine does
    cur,        \* the event it writes and the warning that it is written for
    tries,      \* failed attempts to write it
    stored,     \* per event, its count in the API server, 0 without the event
    alive,      \* does the process run?
    taken       \* ghost: warnings the watcher's goroutine has observed

recorderVars == <<cache, spent, sink, cur, tries, taken>>
vars == <<reason, incoming, queue, recorderVars, stored, alive>>

Init ==
    /\ reason = [s \in Senders |-> None]
    /\ incoming = <<>>
    /\ queue = <<>>
    /\ cache = [r \in Reasons |-> [name |-> None, count |-> 0]]
    /\ spent = 0
    /\ sink = "idle"
    /\ cur = [name |-> None, count |-> 0, of |-> None]
    /\ tries = 0
    /\ stored = [s \in Senders |-> 0]
    /\ alive = TRUE
    /\ taken = {}

-----------------------------------------------------------------------------
(* generateEvent, the broadcaster *)

\* A full queue drops the event; the generator never waits.
Offered_LastSlotUnused(q, s) ==
    IF Len(q) + 1 < QueueLength THEN Append(q, s) ELSE q
Offered(q, s) == IF Len(q) < QueueLength THEN Append(q, s) ELSE q

GenerateEvent(s) ==
    /\ alive
    /\ reason[s] = None
    /\ \E r \in Reasons : reason' = [reason EXCEPT ![s] = r]
    /\ incoming' = Offered(incoming, s)
    /\ UNCHANGED <<queue, recorderVars, stored, alive>>

Distribute ==
    /\ alive
    /\ incoming # <<>>
    /\ queue' = Offered(queue, Head(incoming))
    /\ incoming' = Tail(incoming)
    /\ UNCHANGED <<reason, recorderVars, stored, alive>>

-----------------------------------------------------------------------------
(* recordToSink *)

\* eventObserve: an equal event before it lends its name.
Observed_NewName(s) ==
    [name |-> s, count |-> cache[reason[s]].count + 1]
Observed(s) ==
    [name  |-> IF cache[reason[s]].count > 0 THEN cache[reason[s]].name ELSE s,
     count |-> cache[reason[s]].count + 1]

\* An event that counts others is patched first.
FirstRequest(count) == IF count > 1 THEN "patch" ELSE "create"

\* EventCorrelate.  Beyond the burst a warning may find a new token or none.
EventCorrelate ==
    /\ alive
    /\ sink = "idle"
    /\ queue # <<>>
    /\ LET s == Head(queue)
           e == Observed(s)
       IN  /\ cache' = [cache EXCEPT ![reason[s]] = e]
           /\ cur' = [name |-> e.name, count |-> e.count, of |-> s]
           /\ taken' = taken \cup {s}
           /\ \/ /\ spent < Burst
                 /\ spent' = spent + 1
                 /\ sink' = FirstRequest(e.count)
              \/ /\ spent = Burst
                 /\ sink' \in {FirstRequest(e.count), "idle"}
                 /\ spent' = spent
    /\ queue' = Tail(queue)
    /\ tries' = 0
    /\ UNCHANGED <<reason, incoming, stored, alive>>

-----------------------------------------------------------------------------
(* recordEvent *)

\* The answer settles the event.
Settled ==
    /\ sink' = "idle"
    /\ UNCHANGED <<reason, incoming, queue, spent, cur, tries, alive, taken>>

\* UpdateState: what the server returns is what it was sent.
Written(name, count) ==
    /\ stored' = [stored EXCEPT ![name] = count]
    /\ cache' = [cache EXCEPT ![reason[cur.of]] =
                    [name |-> name, count |-> count]]
    /\ Settled

\* A patch sets the count and the time, whatever they were.
PatchAnswered_AddsOne ==
    /\ alive
    /\ sink = "patch"
    /\ stored[cur.name] > 0
    /\ Written(cur.name, stored[cur.name] + 1)
PatchAnswered ==
    /\ alive
    /\ sink = "patch"
    /\ stored[cur.name] > 0
    /\ Written(cur.name, cur.count)

\* An event that was never written or has expired is created.
PatchNotFound ==
    /\ alive
    /\ sink = "patch"
    /\ stored[cur.name] = 0
    /\ sink' = "create"
    /\ UNCHANGED <<reason, incoming, queue, cache, spent, cur, tries, stored,
                   alive, taken>>

CreateAnswered ==
    /\ alive
    /\ sink = "create"
    /\ stored[cur.name] = 0
    /\ Written(cur.name, cur.count)

\* A StatusError: the event is there already, or it is refused for good.
Rejected ==
    /\ alive
    /\ \/ sink = "create"
       \/ sink = "patch" /\ stored[cur.name] > 0
    /\ Settled
    /\ UNCHANGED <<cache, stored>>

\* The server is not reached or its answer is lost.
TryAgain_Forever ==
    /\ sink' = "sleep"
    /\ UNCHANGED tries
TryAgain_OnceTooOften ==
    /\ tries' = tries + 1
    /\ sink' = IF tries < MaxTries THEN "sleep" ELSE "idle"
TryAgain ==
    /\ tries' = tries + 1
    /\ sink' = IF tries' < MaxTries THEN "sleep" ELSE "idle"

WriteFails ==
    /\ alive
    /\ sink \in {"patch", "create"}
    /\ TryAgain
    /\ \/ UNCHANGED stored
       \/ /\ (sink = "patch") = (stored[cur.name] > 0)
          /\ stored' = [stored EXCEPT ![cur.name] = cur.count]
    /\ UNCHANGED <<reason, incoming, queue, cache, spent, cur, alive, taken>>

Retry_ObservesAgain ==
    /\ alive
    /\ sink = "sleep"
    /\ cache' = [cache EXCEPT ![reason[cur.of]] = Observed(cur.of)]
    /\ cur' = [cur EXCEPT !.count = @ + 1]
    /\ sink' = FirstRequest(cur'.count)
    /\ UNCHANGED <<reason, incoming, queue, spent, tries, stored, alive, taken>>
Retry ==
    /\ alive
    /\ sink = "sleep"
    /\ sink' = FirstRequest(cur.count)
    /\ UNCHANGED <<reason, incoming, queue, cache, spent, cur, tries, stored,
                   alive, taken>>

-----------------------------------------------------------------------------
(* The process and the API server *)

\* log.Fatal after the two seconds, a signal, a kill: what is not written by
\* then never is.
ProcessEnds ==
    /\ alive
    /\ alive' = FALSE
    /\ UNCHANGED <<reason, incoming, queue, recorderVars, stored>>

\* The server removes events after their time.
Expires(n) ==
    /\ stored[n] > 0
    /\ stored' = [stored EXCEPT ![n] = 0]
    /\ UNCHANGED <<reason, incoming, queue, recorderVars, alive>>

Finished == ~alive /\ UNCHANGED vars

-----------------------------------------------------------------------------
Request == PatchAnswered \/ PatchNotFound \/ CreateAnswered \/ Rejected
           \/ WriteFails

Next ==
    \/ \E s \in Senders : GenerateEvent(s)
    \/ Distribute \/ EventCorrelate \/ Request \/ Retry
    \/ ProcessEnds \/ Finished
    \/ \E n \in Senders : Expires(n)

\* The goroutines are scheduled, a request comes to an end, the timer fires.
Fairness ==
    /\ WF_vars(Distribute)
    /\ WF_vars(EventCorrelate)
    /\ WF_vars(Request)
    /\ WF_vars(Retry)

Spec == Init /\ [][Next]_vars
FairSpec == Spec /\ Fairness

-----------------------------------------------------------------------------
(* Properties *)

TypeOK ==
    /\ reason \in [Senders -> Reasons \cup {None}]
    /\ incoming \in Seq(Senders)
    /\ queue \in Seq(Senders)
    /\ cache \in [Reasons -> [name : Senders \cup {None}, count : Nat]]
    /\ spent \in 0..Burst
    /\ sink \in {"idle", "patch", "create", "sleep"}
    /\ cur \in [name : Senders \cup {None}, count : Nat,
               of : Senders \cup {None}]
    /\ tries \in 0..MaxTries
    /\ sink # "idle" => /\ cur.name \in Senders
                        /\ cur.of \in Senders
                        /\ tries < MaxTries
    /\ stored \in [Senders -> Nat]
    /\ alive \in BOOLEAN
    /\ taken \subseteq Senders

\* Equal warnings share one event, although each of them brings a name of its
\* own, its write may be repeated after it was carried out, and the event they
\* share may never have been written, be refused or expire in between.
OneEventPerReason ==
    \A m, n \in Senders :
        stored[m] > 0 /\ stored[n] > 0 /\ reason[m] = reason[n] => m = n

\* The warnings of a reason that the recorder has observed.
TakenOf(r) == {s \in taken : reason[s] = r}

\* Whenever an event changes it counts every warning of its reason observed so
\* far, also those whose own write was filtered, refused or given up, and none
\* twice: a repeated write does not count again, an old one takes nothing back.
CountsEveryWarning ==
    [][\A n \in Senders :
          stored'[n] \notin {stored[n], 0} =>
              stored'[n] = Cardinality(TakenOf(reason[n]))]_vars

EventsOf(r) == {n \in Senders : stored[n] > 0 /\ reason[n] = r}

\* What the recorder promises to those who look at the events.
Tallied == [r \in Reasons |-> Cardinality(TakenOf(r))]

Shown == [r \in Reasons |->
             {[name |-> n, count |-> stored[n]] : n \in EventsOf(r)}]

Tally == INSTANCE WarningTally WITH
             Names <- Senders, observed <- Tallied, shown <- Shown

\* It keeps that promise, with events that are patched or created, answers that
\* are lost, attempts repeated or given up and events that expire: there is one
\* event about a reason, and it says what the recorder knows when it is written.
ImplementsTally == Tally!Spec

InQueue(q, s) == \E i \in DOMAIN q : q[i] = s

Warned == {s \in Senders : reason[s] # None}

\* As long as there are not more warnings than one queue holds none is
\* dropped, however slow the writes are: both queues keep each of them until
\* the recorder observes it.
NothingDropped ==
    Cardinality(Warned) <= QueueLength =>
        \A s \in Warned : InQueue(incoming, s) \/ InQueue(queue, s) \/ s \in taken

Pending(s) == \/ InQueue(incoming, s) \/ InQueue(queue, s)
              \/ sink # "idle" /\ cur.of = s

\* A warning does not stay with the recorder: it is written, refused, given up
\* or dropped, unless the process ends first.  No write is repeated for ever,
\* and none holds up for ever those that wait behind it.
WritingEnds == \A s \in Senders : Pending(s) ~> ~(alive /\ Pending(s))
=============================================================================
