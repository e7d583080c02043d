---------------------------- MODULE HookProofs -----------------------------
(***************************************************************************)
(* More theorems about DeclarationSync: what the watch, the pump and the   *)
(* channels keep, what the owner's write keeps, and that the hook          *)
(* implements DeployHook.  Only that one depends on what a PUT does to the *)
(* status; what remains of it without, that success means applied, is the  *)
(* last theorem.                                                           *)
(***************************************************************************)
EXTENDS DeclarationSyncProofs

USE DEF watchVars, waitVars, mainVars, vars

\* Every write stores the next version.
LEMMA NextVersion ==
    /\ \A c \in CRs : obj[c].rv = 0 => Created.rv = obj[c].rv + 1
    /\ \A o \in Object : /\ Replaced(o).rv = o.rv + 1
                         /\ Owned(o).rv = o.rv + 1
                         /\ Taken(o).rv = o.rv + 1
                         /\ \A p \in Phases : Reported(o, p).rv = o.rv + 1
BY DEF Created, Replaced, Owned, Taken, Reported

-----------------------------------------------------------------------------
\* A listening generator's resource is its own: no other one registers it or
\* takes it from the watcher.
LEMMA ListenersApart ==
    ASSUME TypeOK, NEW k \in Kinds, pc[k] \notin {"prepare", "done"},
           NEW l \in Kinds, pc[l] \notin {"prepare", "done"}, Cur(k) = Cur(l)
    PROVE  k = l
BY CurIsDeclared

\* A step after which the same generators listen at the same positions.
LEMMA SameListeners ==
    ASSUME OnlyWaitersRegistered, UNCHANGED handlers,
           \A k \in Kinds : /\ pc'[k] \in Listening <=> pc[k] \in Listening
                            /\ pc[k] \in Listening => idx'[k] = idx[k]
    PROVE  OnlyWaitersRegistered'
BY DEF OnlyWaitersRegistered, Cur

\* Only Register and Unregister change who listens.
LEMMA ListenersStep ==
    TypeOK /\ OnlyWaitersRegistered /\ [Next]_vars => OnlyWaitersRegistered'
<1> SUFFICES ASSUME TypeOK, OnlyWaitersRegistered, [Next]_vars
             PROVE  OnlyWaitersRegistered'
  OBVIOUS
<1> USE DEF Listening, Owning
<1>1. CASE StartGenerators
  BY <1>1, SameListeners DEF StartGenerators
<1>2. ASSUME NEW k \in Kinds, Generator(k) PROVE OnlyWaitersRegistered'
  <2>1. CASE Register(k)
    <3>1. /\ pc[k] = "register" /\ handlers' = handlers \cup {Cur(k)}
          /\ pc' = [pc EXCEPT ![k] = "select"] /\ UNCHANGED idx
      BY <2>1 DEF Register, Local, Goto
    <3>2. {l \in Kinds : pc'[l] \in Listening}
             = {l \in Kinds : pc[l] \in Listening} \cup {k}
      BY <3>1 DEF TypeOK
    <3> HIDE DEF Listening
    <3> QED
      BY <3>1, <3>2 DEF OnlyWaitersRegistered, Cur
  <2>2. CASE Unregister(k)
    <3>1. /\ pc[k] = "unregister" /\ handlers' = handlers \ {Cur(k)}
          /\ pc'[k] \in {"watch", "done"}
          /\ \A l \in Kinds \ {k} : pc'[l] = pc[l] /\ idx'[l] = idx[l]
      BY <2>2 DEF Unregister, Local, Goto, TypeOK
    <3>2. {l \in Kinds : pc'[l] \in Listening}
             = {l \in Kinds : pc[l] \in Listening} \ {k}
      BY <3>1
    <3>3. \A l \in Kinds \ {k} : pc[l] \in Listening => Cur(l) # Cur(k)
      BY <3>1, ListenersApart
    <3>4. k \in {l \in Kinds : pc[l] \in Listening}
      BY <3>1
    <3> HIDE DEF Listening
    <3> QED
      BY <3>1, <3>2, <3>3, <3>4 DEF OnlyWaitersRegistered, Cur
  <2>3. CASE CreatorCreates(k) \/ CreatorUpdates(k)
    <3>1. /\ pc[k] \in Creating /\ pc'[k] \in {"get", "watch"}
          /\ \A l \in Kinds \ {k} : pc'[l] = pc[l] /\ idx'[l] = idx[l]
          /\ handlers' = handlers
      BY <2>3 DEF CreatorCreates, CreatorUpdates, Calls, NextToCreate, Goto,
         TypeOK, Creating
    <3> QED
      BY <3>1, SameListeners DEF Creating
  <2>4. CASE Receive(k)
    <3>1. /\ pc[k] = "select" /\ pc'[k] \in {"ownGet", "report", "select"}
          /\ \A l \in Kinds \ {k} : pc'[l] = pc[l]
          /\ UNCHANGED <<idx, handlers>>
      BY <2>4 DEF Receive, Local, Goto, Verdict, TypeOK
    <3> QED
      BY <3>1, SameListeners
  <2>5. CASE \/ CreatorPanics(k) \/ CreatorFinds(k) \/ CreatorFindsNone(k)
             \/ OpenWatch(k) \/ ReuseWatch(k) \/ WaiterFails(k) \/ ApiFatal(k)
             \/ RetriesExhausted(k)
    <3>1. /\ \A l \in Kinds : pc'[l] \in Listening <=> pc[l] \in Listening
          /\ UNCHANGED <<idx, handlers>>
      BY <2>5 DEF CreatorPanics, CreatorFinds, CreatorFindsNone, OpenWatch,
         ReuseWatch, WaiterFails, ApiFatal, RetriesExhausted, Calls, Local,
         Goto, TypeOK
    <3> QED
      BY <3>1, SameListeners
  <2>6. CASE \/ SendEvent(k) \/ OwnGet(k) \/ DeplFound(k) \/ DeplMissing(k)
             \/ RetryGet(k) \/ RetryUpdate(k) \/ RetryConflict(k)
    <3>1. /\ \A l \in Kinds : pc'[l] \in Listening <=> pc[l] \in Listening
          /\ UNCHANGED <<idx, handlers>>
      BY <2>6 DEF SendEvent, OwnGet, DeplFound, DeplMissing, RetryGet,
         RetryUpdate, RetryConflict, Calls, Local, Goto, TypeOK
    <3> QED
      BY <3>1, SameListeners
  <2> QED
    BY <1>2, <2>1, <2>2, <2>3, <2>4, <2>5, <2>6 DEF Generator
<1>3. ASSUME NEW k \in Kinds, WaiterTimesOut(k) \/ Pump(k) \/ CloseWatch(k)
      PROVE  OnlyWaitersRegistered'
  <2>1. /\ \A l \in Kinds : pc'[l] \in Listening <=> pc[l] \in Listening
        /\ UNCHANGED <<idx, handlers>>
    BY <1>3 DEF WaiterTimesOut, Local, Goto, TypeOK, Pump, PumpDrops, PumpTakes,
       PumpDelivers, PumpExits, CloseWatch
  <2> QED
    BY <2>1, SameListeners
<1>4. ASSUME \/ \E c \in CRs : OperatorReports(c) \/ OtherOwner(c)
             \/ RunReturns \/ Signal \/ MainReturns \/ Finished
             \/ UNCHANGED vars
      PROVE  OnlyWaitersRegistered'
  <2>1. UNCHANGED <<pc, idx, handlers>>
    BY <1>4 DEF OperatorReports, OtherOwner, RunReturns, Signal, MainReturns,
       Finished
  <2> QED
    BY <2>1, SameListeners
<1> QED
  BY <1>1, <1>2, <1>3, <1>4 DEF Next

\* Nobody listens before the generators are started.
LEMMA ListenersInit == Init => OnlyWaitersRegistered
BY DEF Init, OnlyWaitersRegistered, Listening, Owning

\* Every way out of declarationWaiter unregisters its resource and no other's,
\* for any number of kinds side by side.
THEOREM Registered == Spec => []OnlyWaitersRegistered
BY TypeInit, TypeStep, ListenersInit, ListenersStep, PTL DEF Spec

-----------------------------------------------------------------------------
\* A step that stores nothing: a copy about to be written is the one that was,
\* or the object just read.
LEMMA FreshWithoutWrite ==
    ASSUME TypeOK, CopyFresh, UNCHANGED obj,
           \A l \in Kinds : pc'[l] = "retryUpdate" =>
              /\ idx'[l] = idx[l]
              /\ \/ pc[l] = "retryUpdate" /\ copy'[l] = copy[l]
                 \/ pc[l] = "retryGet" /\ copy'[l] = obj[Cur(l)]
    PROVE  CopyFresh'
<1> SUFFICES ASSUME NEW l \in Kinds, pc'[l] = "retryUpdate"
             PROVE  LET o == obj[Declared[l][idx[l]]] IN
                    /\ copy'[l].rv <= o.rv
                    /\ copy'[l].rv = o.rv => copy'[l] = o
  BY DEF CopyFresh, Cur
<1>1. CASE pc[l] = "retryUpdate" /\ copy'[l] = copy[l]
  BY <1>1 DEF CopyFresh, Cur
<1>2. CASE pc[l] = "retryGet" /\ copy'[l] = obj[Cur(l)]
  <2>1. Cur(l) \in CRs
    BY <1>2, CurIsDeclared
  <2>2. obj[Cur(l)].rv \in Nat
    BY <2>1 DEF TypeOK, Object
  <2> QED
    BY <1>2, <2>2 DEF Cur
<1> QED
  BY <1>1, <1>2

\* A step that stores the next version of an object.
LEMMA FreshAfterWrite ==
    ASSUME TypeOK, CopyFresh, NEW c \in CRs, NEW o \in Object,
           Write(c, o), o.rv = obj[c].rv + 1,
           \A l \in Kinds : pc'[l] = "retryUpdate" =>
              pc[l] = "retryUpdate" /\ idx'[l] = idx[l] /\ copy'[l] = copy[l]
    PROVE  CopyFresh'
<1> SUFFICES ASSUME NEW l \in Kinds, pc'[l] = "retryUpdate"
             PROVE  LET p == obj'[Cur(l)] IN
                    copy[l].rv <= p.rv /\ (copy[l].rv = p.rv => copy[l] = p)
  BY DEF CopyFresh, Cur
<1>1. /\ Cur(l) \in CRs /\ copy[l].rv \in Nat /\ obj[Cur(l)].rv \in Nat
      /\ copy[l].rv <= obj[Cur(l)].rv
      /\ copy[l].rv = obj[Cur(l)].rv => copy[l] = obj[Cur(l)]
  BY CurIsDeclared DEF TypeOK, Object, CopyFresh
<1>2. obj' = [obj EXCEPT ![c] = o]
  BY DEF Write
<1>3. CASE Cur(l) = c
  <2>1. obj'[Cur(l)].rv = obj[Cur(l)].rv + 1
    BY <1>2, <1>3 DEF TypeOK
  <2> HIDE DEF Cur
  <2>2. copy[l].rv < obj'[Cur(l)].rv
    BY <1>1, <2>1
  <2> QED
    BY <1>1, <2>1, <2>2
<1>4. CASE Cur(l) # c
  BY <1>1, <1>2, <1>4 DEF TypeOK
<1> QED
  BY <1>3, <1>4

\* Steps that store nothing keep what a generator has read.
LEMMA KeptCopies ==
    ASSUME TypeOK, NEW k \in Kinds,
           \/ CreatorPanics(k) \/ CreatorFinds(k) \/ CreatorFindsNone(k)
           \/ OpenWatch(k) \/ ReuseWatch(k) \/ Register(k) \/ Receive(k)
           \/ SendEvent(k) \/ WaiterFails(k) \/ OwnGet(k) \/ DeplFound(k)
           \/ DeplMissing(k) \/ RetryGet(k) \/ RetryConflict(k)
           \/ RetriesExhausted(k) \/ Unregister(k) \/ ApiFatal(k)
    PROVE  /\ UNCHANGED obj
           /\ \A l \in Kinds : pc'[l] = "retryUpdate" =>
              /\ idx'[l] = idx[l]
              /\ \/ pc[l] = "retryUpdate" /\ copy'[l] = copy[l]
                 \/ pc[l] = "retryGet" /\ copy'[l] = obj[Cur(l)]
<1>1. CASE \/ CreatorPanics(k) \/ CreatorFinds(k) \/ CreatorFindsNone(k)
           \/ OpenWatch(k) \/ ReuseWatch(k) \/ Register(k)
  BY <1>1 DEF CreatorPanics, CreatorFinds, CreatorFindsNone, OpenWatch,
     ReuseWatch, Register, Calls, Local, Goto, TypeOK
<1>2. CASE \/ SendEvent(k) \/ WaiterFails(k) \/ OwnGet(k) \/ DeplFound(k)
           \/ DeplMissing(k) \/ RetriesExhausted(k) \/ ApiFatal(k)
  BY <1>2 DEF SendEvent, WaiterFails, OwnGet, DeplFound, DeplMissing,
     RetriesExhausted, ApiFatal, Calls, Local, Goto, TypeOK
<1>3. CASE RetryGet(k) \/ RetryConflict(k)
  BY <1>3 DEF RetryGet, RetryConflict, Calls, Goto, TypeOK
<1>4. CASE Receive(k)
  <2>1. \A phase : Verdict(phase) # "retryUpdate"
    BY DEF Verdict
  <2> QED
    BY <1>4, <2>1 DEF Receive, Local, Goto, TypeOK
<1>5. CASE Unregister(k)
  <2>1. /\ pc'[k] \in {"watch", "done"} /\ UNCHANGED <<obj, copy>>
        /\ \A l \in Kinds \ {k} : pc'[l] = pc[l] /\ idx'[l] = idx[l]
    BY <1>5 DEF Unregister, Goto, TypeOK
  <2> QED
    BY <2>1
<1> QED
  BY <1>1, <1>2, <1>3, <1>4, <1>5

\* So do the steps of the pumps, of main and of the connection.
LEMMA KeptElsewhere ==
    ASSUME \/ \E k \in Kinds : WaiterTimesOut(k) \/ Pump(k) \/ CloseWatch(k)
           \/ RunReturns \/ Signal \/ MainReturns \/ Finished \/ UNCHANGED vars,
           TypeOK
    PROVE  /\ UNCHANGED <<obj, idx, copy>>
           /\ \A l \in Kinds : pc'[l] = pc[l] \/ pc'[l] = "report"
BY DEF WaiterTimesOut, Pump, PumpDrops, PumpTakes, PumpDelivers, PumpExits,
   CloseWatch, RunReturns, Signal, MainReturns, Finished, Goto, TypeOK

\* A copy about to be written is the stored object or is known to be stale.
LEMMA FreshStep == TypeOK /\ CopyFresh /\ [Next]_vars => CopyFresh'
<1> SUFFICES ASSUME TypeOK, CopyFresh, [Next]_vars PROVE CopyFresh'
  OBVIOUS
<1>1. CASE StartGenerators
  BY <1>1, FreshWithoutWrite DEF StartGenerators
<1>2. ASSUME NEW k \in Kinds, Generator(k) PROVE CopyFresh'
  <2>1. CASE CreatorCreates(k) \/ CreatorUpdates(k)
    <3>1. /\ Cur(k) \in CRs /\ pc[k] \in Creating
          /\ obj[Cur(k)] \in Object
      BY <2>1, CurIsDeclared DEF CreatorCreates, CreatorUpdates, Calls,
         Creating, TypeOK
    <3>2. PICK o \in Object : Write(Cur(k), o) /\ o.rv = obj[Cur(k)].rv + 1
      BY <2>1, <3>1, ObjectWrites, NextVersion
      DEF CreatorCreates, CreatorUpdates
    <3>3. /\ pc'[k] \in {"get", "watch"}
          /\ \A l \in Kinds \ {k} : /\ pc'[l] = pc[l] /\ idx'[l] = idx[l]
                                    /\ copy'[l] = copy[l]
      BY <2>1 DEF CreatorCreates, CreatorUpdates, NextToCreate, Goto, TypeOK
    <3> QED
      BY <3>1, <3>2, <3>3, FreshAfterWrite
  <2>2. CASE RetryUpdate(k)
    <3>1. /\ Cur(k) \in CRs /\ copy[k] \in Object
          /\ copy[k].rv = obj[Cur(k)].rv
      BY <2>2, CurIsDeclared DEF RetryUpdate, Calls, TypeOK
    <3>2. PICK o \in Object : Write(Cur(k), o) /\ o.rv = obj[Cur(k)].rv + 1
      <4>1. /\ Owned(copy[k]) \in Object
            /\ Owned(copy[k]).rv = obj[Cur(k)].rv + 1
        BY <3>1, ObjectWrites, NextVersion
      <4> QED
        BY <2>2, <4>1 DEF RetryUpdate
    <3>3. /\ pc'[k] = "unregister" /\ idx' = idx
          /\ \A l \in Kinds \ {k} : pc'[l] = pc[l] /\ copy'[l] = copy[l]
      BY <2>2 DEF RetryUpdate, Goto, TypeOK
    <3> QED
      BY <3>1, <3>2, <3>3, FreshAfterWrite
  <2> QED
    BY <1>2, <2>1, <2>2, KeptCopies, FreshWithoutWrite DEF Generator
<1>3. ASSUME NEW c \in CRs, OperatorReports(c) \/ OtherOwner(c)
      PROVE  CopyFresh'
  <2>1. obj[c] \in Object
    BY DEF TypeOK
  <2>2. PICK o \in Object : Write(c, o) /\ o.rv = obj[c].rv + 1
    BY <1>3, <2>1, ObjectWrites, NextVersion DEF OperatorReports, OtherOwner
  <2> QED
    BY <1>3, <2>2, FreshAfterWrite DEF OperatorReports, OtherOwner
<1>4. CASE \/ \E k \in Kinds : WaiterTimesOut(k) \/ Pump(k) \/ CloseWatch(k)
           \/ RunReturns \/ Signal \/ MainReturns \/ Finished \/ UNCHANGED vars
  BY <1>4, KeptElsewhere, FreshWithoutWrite
<1> QED
  BY <1>1, <1>2, <1>3, <1>4 DEF Next

\* Only setOwnerRef's Update makes the deployment the owner, and it writes the
\* object that is stored.
LEMMA OwnerStep ==
    ASSUME TypeOK, CopyFresh, [Next]_vars, NEW c \in CRs,
           obj[c].owner # "deployment", obj'[c].owner = "deployment"
    PROVE  /\ obj'[c].phase = obj[c].phase
           /\ obj'[c].reconciled = obj[c].reconciled
           /\ obj'[c].applied = obj[c].applied
<1>1. ASSUME NEW k \in Kinds, RetryUpdate(k)
      PROVE  /\ obj'[c].phase = obj[c].phase
             /\ obj'[c].reconciled = obj[c].reconciled
             /\ obj'[c].applied = obj[c].applied
  <2>1. /\ obj' = [obj EXCEPT ![Cur(k)] = Owned(copy[k])]
        /\ copy[k] = obj[Cur(k)] /\ Cur(k) \in CRs
    BY <1>1, CurIsDeclared DEF RetryUpdate, Calls, Write, CopyFresh
  <2>2. c = Cur(k)
    BY <2>1 DEF TypeOK
  <2> QED
    BY <2>1, <2>2 DEF Owned, TypeOK
<1>2. ASSUME NEW k \in Kinds, CreatorCreates(k) \/ CreatorUpdates(k)
      PROVE  FALSE
  <2>1. PICK o : obj' = [obj EXCEPT ![Cur(k)] = o] /\ o.owner = "none"
    BY <1>2 DEF CreatorCreates, CreatorUpdates, Created, Replaced, Write
  <2> QED
    BY <2>1 DEF TypeOK
<1>3. ASSUME NEW d \in CRs, OperatorReports(d) \/ OtherOwner(d)
      PROVE  FALSE
  <2>1. CASE OperatorReports(d)
    <3>1. PICK p \in Phases :
             obj' = [obj EXCEPT ![d] = Reported(obj[d], p)]
      BY <2>1 DEF OperatorReports, Write
    <3> QED
      BY <3>1 DEF Reported, TypeOK
  <2>2. CASE OtherOwner(d)
    <3>1. obj' = [obj EXCEPT ![d] = Taken(obj[d])]
      BY <2>2 DEF OtherOwner, Write
    <3> QED
      BY <3>1 DEF Taken, TypeOK
  <2> QED
    BY <1>3, <2>1, <2>2
<1>4. CASE UNCHANGED obj
  BY <1>4
<1> QED
  BY <1>1, <1>2, <1>3, <1>4, KeptCopies, KeptElsewhere, SMTT(40)
  DEF Next, Generator, StartGenerators

\* No copy has been read when the hook starts.
LEMMA FreshInit == Init => CopyFresh
BY DEF Init, CopyFresh

\* Whoever writes in between, the owner reference is written over the version
\* that is stored: what an operator has reported is kept.
THEOREM OwnerSpares == Spec => OwnerKeepsStatus
<1>1. TypeOK /\ CopyFresh /\ [Next]_vars =>
         [\A c \in CRs :
             obj[c].owner # "deployment" /\ obj'[c].owner = "deployment" =>
                 /\ obj'[c].phase = obj[c].phase
                 /\ obj'[c].reconciled = obj[c].reconciled
                 /\ obj'[c].applied = obj[c].applied]_vars
  BY OwnerStep
<1> QED
  BY <1>1, TypeInit, TypeStep, FreshInit, FreshStep, PTL
  DEF Spec, OwnerKeepsStatus

-----------------------------------------------------------------------------
(***************************************************************************)
(* The way of the events.  A kind's events are in the order of their       *)
(* versions on the watch; the one the pump holds is older than all of      *)
(* them, and the one in a resource's channel older than both.              *)
(***************************************************************************)

\* No events before the watch.
NoEarlyEvents ==
    /\ \A k \in Kinds : conn[k] = "none" => stream[k] = <<>> /\ pump[k] = "none"
    /\ \A c \in CRs : conn[KindOf[c]] = "none" => chan[c] = <<>>

StreamOrder ==
    \A k \in Kinds : \A i \in 1..Len(stream[k]) : stream[k][i].cr \in CRs =>
        /\ KindOf[stream[k][i].cr] = k
        /\ stream[k][i].rv <= obj[stream[k][i].cr].rv
        /\ \A j \in 1..Len(stream[k]) :
              i < j /\ stream[k][j].cr = stream[k][i].cr =>
                  stream[k][i].rv < stream[k][j].rv

\* The event n is older than those still on the watch of its kind.
Leads(n, k) ==
    /\ n.cr \in CRs /\ KindOf[n.cr] = k
    /\ n.rv <= obj[n.cr].rv
    /\ \A i \in 1..Len(stream[k]) :
          stream[k][i].cr = n.cr => n.rv < stream[k][i].rv

HandOrder == \A k \in Kinds : pump[k] = "deliver" => Leads(hand[k], k)

ChanOrder ==
    \A c \in CRs : chan[c] # <<>> =>
        /\ Head(chan[c]).cr = c
        /\ Leads(Head(chan[c]), KindOf[c])
        /\ pump[KindOf[c]] = "deliver" /\ hand[KindOf[c]].cr = c =>
               Head(chan[c]).rv < hand[KindOf[c]].rv

OrderInv == NoEarlyEvents /\ StreamOrder /\ HandOrder /\ ChanOrder

\* A write appends the newest version to the watch, if there is one.
LEMMA OrderAfterWrite ==
    ASSUME TypeOK, OrderInv, NEW c \in CRs, NEW o \in Object, Write(c, o),
           o.rv = obj[c].rv + 1, UNCHANGED <<conn, pump, hand, chan>>
    PROVE  OrderInv'
<1> DEFINE n == NoteOf(c, o)
<1>1. /\ obj' = [obj EXCEPT ![c] = o] /\ obj \in [CRs -> Object]
      /\ stream \in [Kinds -> Seq(Note)] /\ KindOf[c] \in Kinds
      /\ obj[c].rv \in Nat
  BY DeclaredAre DEF Write, TypeOK, Object
<1>2. \A d \in CRs : /\ obj[d].rv \in Nat /\ obj'[d].rv \in Nat
                     /\ obj[d].rv <= obj'[d].rv
  BY <1>1 DEF Object
<1>3. n \in Note /\ n.cr = c /\ n.rv = obj[c].rv + 1 /\ n.rv = obj'[c].rv
  BY <1>1 DEF NoteOf, Note, Object
<1> HIDE DEF n
<1>4. \A k \in Kinds :
         \/ stream'[k] = stream[k]
         \/ /\ k = KindOf[c] /\ conn[k] = "open"
            /\ stream'[k] = Append(stream[k], n)
  BY <1>1 DEF Write, n
<1>5. \A s \in Seq(Note) : /\ Len(Append(s, n)) = Len(s) + 1
                           /\ \A i \in 1..Len(s) : Append(s, n)[i] = s[i]
                           /\ Append(s, n)[Len(s) + 1] = n
  BY <1>3
<1>6. \A k \in Kinds : \A i \in 1..Len(stream'[k]) :
         \/ i \in 1..Len(stream[k]) /\ stream'[k][i] = stream[k][i]
         \/ /\ k = KindOf[c] /\ i = Len(stream[k]) + 1
            /\ stream'[k][i] = n
  <2> TAKE k \in Kinds
  <2>1. stream[k] \in Seq(Note) /\ Len(stream[k]) \in Nat
    BY <1>1
  <2>2. CASE stream'[k] = stream[k]
    BY <2>2
  <2>3. CASE k = KindOf[c] /\ stream'[k] = Append(stream[k], n)
    <3>1. /\ Len(stream'[k]) = Len(stream[k]) + 1
          /\ \A i \in 1..Len(stream[k]) : stream'[k][i] = stream[k][i]
          /\ stream'[k][Len(stream[k]) + 1] = n
      BY <1>5, <2>1, <2>3
    <3>2. \A i \in 1..(Len(stream[k]) + 1) :
             i \in 1..Len(stream[k]) \/ i = Len(stream[k]) + 1
      BY <2>1
    <3> QED
      BY <2>3, <3>1, <3>2
  <2> QED
    BY <1>4, <2>2, <2>3
<1>7. NoEarlyEvents'
  BY <1>4 DEF OrderInv, NoEarlyEvents
<1>8. ASSUME NEW m \in Note, NEW k \in Kinds, Leads(m, k) PROVE Leads(m, k)'
  <2>1. m.rv <= obj'[m.cr].rv
    BY <1>2, <1>8 DEF Leads, Note
  <2>2. ASSUME NEW i \in 1..Len(stream'[k]), stream'[k][i].cr = m.cr
        PROVE  m.rv < stream'[k][i].rv
    <3>1. CASE i \in 1..Len(stream[k]) /\ stream'[k][i] = stream[k][i]
      BY <1>8, <2>2, <3>1 DEF Leads
    <3>2. CASE stream'[k][i] = n
      BY <1>1, <1>3, <1>8, <2>2, <3>2 DEF Leads, Note
    <3> QED
      BY <1>6, <3>1, <3>2
  <2> QED
    BY <1>8, <2>1, <2>2 DEF Leads
<1>9. HandOrder'
  BY <1>8 DEF OrderInv, HandOrder, TypeOK
<1>10. ChanOrder'
  <2>1. \A d \in CRs : chan[d] # <<>> => Head(chan[d]) \in Note
    BY DEF TypeOK
  <2> QED
    BY <1>8, <2>1, DeclaredAre DEF OrderInv, ChanOrder
<1>11. StreamOrder'
  <2> SUFFICES ASSUME NEW k \in Kinds, NEW i \in 1..Len(stream'[k]),
                      stream'[k][i].cr \in CRs
               PROVE  /\ KindOf[stream'[k][i].cr] = k
                      /\ stream'[k][i].rv <= obj'[stream'[k][i].cr].rv
                      /\ \A j \in 1..Len(stream'[k]) :
                            i < j /\ stream'[k][j].cr = stream'[k][i].cr =>
                                stream'[k][i].rv < stream'[k][j].rv
    BY DEF StreamOrder
  <2>1. CASE i \in 1..Len(stream[k]) /\ stream'[k][i] = stream[k][i]
    <3>1. stream[k][i] \in Note
      BY <1>1, <2>1
    <3>2. /\ KindOf[stream[k][i].cr] = k
          /\ stream[k][i].rv <= obj[stream[k][i].cr].rv
          /\ \A j \in 1..Len(stream[k]) :
                i < j /\ stream[k][j].cr = stream[k][i].cr =>
                    stream[k][i].rv < stream[k][j].rv
      BY <2>1 DEF OrderInv, StreamOrder
    <3>3. stream[k][i].rv <= obj'[stream[k][i].cr].rv
      BY <1>2, <2>1, <3>1, <3>2 DEF Note
    <3>4. ASSUME NEW j \in 1..Len(stream'[k]), i < j,
                 stream'[k][j].cr = stream'[k][i].cr
          PROVE  stream'[k][i].rv < stream'[k][j].rv
      <4>1. CASE j \in 1..Len(stream[k]) /\ stream'[k][j] = stream[k][j]
        BY <2>1, <3>2, <3>4, <4>1
      <4>2. CASE stream'[k][j] = n
        BY <1>1, <1>3, <2>1, <3>1, <3>2, <3>4, <4>2 DEF Note
      <4> QED
        BY <1>6, <4>1, <4>2
    <3> QED
      BY <2>1, <3>2, <3>3, <3>4
  <2>2. CASE k = KindOf[c] /\ i = Len(stream[k]) + 1 /\ stream'[k][i] = n
    <3>1. \A j \in 1..Len(stream'[k]) : ~(i < j)
      BY <1>4, <1>5, <1>1, <2>2
    <3> QED
      BY <1>1, <1>2, <1>3, <2>2, <3>1
  <2> QED
    BY <1>6, <2>1, <2>2
<1> QED
  BY <1>7, <1>9, <1>10, <1>11 DEF OrderInv

\* A step that at most empties channels.
LEMMA OrderWithLess ==
    ASSUME TypeOK, OrderInv, UNCHANGED <<obj, conn, stream, pump, hand>>,
           \A c \in CRs : chan'[c] = chan[c] \/ chan'[c] = <<>>
    PROVE  OrderInv'
BY DEF OrderInv, NoEarlyEvents, StreamOrder, HandOrder, ChanOrder, Leads

\* Taking the first event of a watch, and reading what it holds.
LEMMA FirstEvent ==
    ASSUME TypeOK, NEW k \in Kinds, stream[k] # <<>>
    PROVE  /\ stream[k] \in Seq(Note) /\ 1 \in 1..Len(stream[k])
           /\ Head(stream[k]) = stream[k][1] /\ Head(stream[k]) \in Note
           /\ Len(Tail(stream[k])) = Len(stream[k]) - 1
           /\ \A i \in 1..Len(Tail(stream[k])) :
                 i + 1 \in 1..Len(stream[k]) /\ Tail(stream[k])[i] = stream[k][i + 1]
BY DEF TypeOK

\* The pump takes the oldest event of the watch.
LEMMA OrderAfterTake ==
    ASSUME TypeOK, OrderInv, NEW k \in Kinds, PumpDrops(k) \/ PumpTakes(k)
    PROVE  OrderInv'
<1>1. /\ stream[k] # <<>> /\ pump[k] = "select"
      /\ stream' = [stream EXCEPT ![k] = Tail(@)]
      /\ UNCHANGED <<obj, conn, chan>>
      /\ \/ UNCHANGED <<pump, hand>>
         \/ /\ hand' = [hand EXCEPT ![k] = Head(stream[k])]
            /\ pump' = [pump EXCEPT ![k] = "deliver"]
            /\ Head(stream[k]).cr \in handlers
  BY DEF PumpDrops, PumpTakes
<1>2. \A l \in Kinds : \A i \in 1..Len(stream'[l]) :
         \/ l # k /\ stream'[l] = stream[l]
         \/ /\ l = k /\ i + 1 \in 1..Len(stream[k])
            /\ stream'[k][i] = stream[k][i + 1]
  BY <1>1, FirstEvent DEF TypeOK
<1>3. StreamOrder'
  <2> SUFFICES ASSUME NEW l \in Kinds, NEW i \in 1..Len(stream'[l]),
                      stream'[l][i].cr \in CRs
               PROVE  /\ KindOf[stream'[l][i].cr] = l
                      /\ stream'[l][i].rv <= obj[stream'[l][i].cr].rv
                      /\ \A j \in 1..Len(stream'[l]) :
                            i < j /\ stream'[l][j].cr = stream'[l][i].cr =>
                                stream'[l][i].rv < stream'[l][j].rv
    BY <1>1 DEF StreamOrder
  <2>1. CASE l # k
    BY <1>2, <2>1 DEF OrderInv, StreamOrder
  <2>2. CASE l = k
    <3>1. \A j \in 1..Len(stream'[k]) : j + 1 \in 1..Len(stream[k])
                                        /\ stream'[k][j] = stream[k][j + 1]
      BY <1>2
    <3>2. PICK h \in 1..Len(stream[k]) : h = i + 1
      BY <2>2, <3>1
    <3>3. /\ stream'[l][i] = stream[k][h] /\ stream[k][h].cr \in CRs
      BY <2>2, <3>1, <3>2
    <3>4. /\ KindOf[stream[k][h].cr] = k
          /\ stream[k][h].rv <= obj[stream[k][h].cr].rv
          /\ \A j \in 1..Len(stream[k]) :
                h < j /\ stream[k][j].cr = stream[k][h].cr =>
                    stream[k][h].rv < stream[k][j].rv
      BY <3>3 DEF OrderInv, StreamOrder
    <3>5. \A j \in 1..Len(stream'[k]) : i < j => h < j + 1
      BY <2>2, <3>2
    <3> QED
      BY <2>2, <3>1, <3>3, <3>4, <3>5
  <2> QED
    BY <2>1, <2>2
<1>4. \A n, l : l \in Kinds /\ Leads(n, l) => Leads(n, l)'
  BY <1>1, <1>2 DEF Leads
<1>5. PICK first \in Note : first = Head(stream[k])
  BY <1>1, FirstEvent
<1>6. first.cr \in CRs => Leads(first, k)'
  <2> SUFFICES ASSUME first.cr \in CRs PROVE Leads(first, k)'
    OBVIOUS
  <2>1. first = stream[k][1] /\ 1 \in 1..Len(stream[k])
    BY <1>1, <1>5, FirstEvent
  <2>2. /\ KindOf[first.cr] = k
        /\ first.rv <= obj[first.cr].rv
        /\ \A j \in 1..Len(stream[k]) :
              1 < j /\ stream[k][j].cr = first.cr => first.rv < stream[k][j].rv
    BY <2>1 DEF OrderInv, StreamOrder
  <2>3. \A i \in 1..Len(stream'[k]) :
           /\ 1 < i + 1 /\ i + 1 \in 1..Len(stream[k])
           /\ stream'[k][i] = stream[k][i + 1]
    BY <1>2
  <2> QED
    BY <1>1, <2>2, <2>3, SMTT(40) DEF Leads
<1>7. NoEarlyEvents'
  BY <1>1 DEF OrderInv, NoEarlyEvents, TypeOK
<1>8. HandOrder'
  <2> SUFFICES ASSUME NEW l \in Kinds, NEW n, n = hand'[l],
                      pump'[l] = "deliver"
               PROVE  Leads(n, l)'
    BY DEF HandOrder
  <2>1. CASE UNCHANGED <<pump, hand>>
    BY <1>4, <2>1 DEF OrderInv, HandOrder
  <2>2. CASE l = k /\ ~UNCHANGED <<pump, hand>>
    BY <1>1, <1>5, <1>6, <2>2 DEF TypeOK
  <2>3. CASE l # k /\ ~UNCHANGED <<pump, hand>>
    BY <1>1, <1>4, <2>3 DEF OrderInv, HandOrder, TypeOK
  <2> QED
    BY <2>1, <2>2, <2>3
<1>9. ChanOrder'
  <2> SUFFICES ASSUME NEW c \in CRs, chan[c] # <<>>,
                      NEW n, n = Head(chan[c])
               PROVE  /\ n.cr = c
                      /\ Leads(n, KindOf[c])'
                      /\ pump'[KindOf[c]] = "deliver" /\ hand'[KindOf[c]].cr = c
                            => n.rv < hand'[KindOf[c]].rv
    BY <1>1 DEF ChanOrder
  <2>1. /\ n.cr = c /\ Leads(n, KindOf[c]) /\ KindOf[c] \in Kinds
        /\ pump[KindOf[c]] = "deliver" /\ hand[KindOf[c]].cr = c
              => n.rv < hand[KindOf[c]].rv
    BY DeclaredAre DEF OrderInv, ChanOrder
  <2>2. CASE KindOf[c] = k /\ ~UNCHANGED <<pump, hand>>
    <3>1. hand'[k] = stream[k][1] /\ 1 \in 1..Len(stream[k])
      BY <1>1, <2>2, FirstEvent DEF TypeOK
    <3>2. stream[k][1].cr = c => n.rv < stream[k][1].rv
      BY <2>1, <2>2, <3>1 DEF Leads
    <3> QED
      BY <1>4, <2>1, <2>2, <3>1, <3>2
  <2>3. CASE ~(KindOf[c] = k /\ ~UNCHANGED <<pump, hand>>)
    <3>1. pump'[KindOf[c]] = pump[KindOf[c]] /\ hand'[KindOf[c]] = hand[KindOf[c]]
      BY <1>1, <2>1, <2>3 DEF TypeOK
    <3> QED
      BY <1>4, <2>1, <3>1
  <2> QED
    BY <2>2, <2>3
<1> QED
  BY <1>3, <1>7, <1>8, <1>9 DEF OrderInv

\* The pump puts what it holds into its resource's channel, which is empty.
LEMMA OrderAfterDelivery ==
    ASSUME TypeOK, OrderInv, NEW k \in Kinds, PumpDelivers(k)
    PROVE  OrderInv'
<1>1. PICK n \in Note : n = hand[k]
  BY DEF TypeOK
<1>2. /\ n.cr \in CRs /\ KindOf[n.cr] = k /\ Leads(n, k) /\ chan[n.cr] = <<>>
      /\ pump[k] = "deliver"
      /\ chan' = [chan EXCEPT ![n.cr] = <<n>>]
      /\ pump' = [pump EXCEPT ![k] = "select"]
      /\ hand' = [hand EXCEPT ![k] = ErrorNote]
      /\ UNCHANGED <<obj, stream, conn>>
  BY <1>1 DEF PumpDelivers, OrderInv, HandOrder, Leads
<1>3. /\ pump'[k] = "select"
      /\ \A l \in Kinds \ {k} : pump'[l] = pump[l] /\ hand'[l] = hand[l]
  BY <1>2 DEF TypeOK
<1>4. \A m, l : Leads(m, l) => Leads(m, l)'
  BY <1>2 DEF Leads
<1>5. NoEarlyEvents' /\ StreamOrder'
  BY <1>2, <1>3 DEF OrderInv, NoEarlyEvents, StreamOrder, TypeOK
<1>6. HandOrder'
  BY <1>3, <1>4 DEF OrderInv, HandOrder
<1>7. ChanOrder'
  <2> SUFFICES ASSUME NEW c \in CRs, chan'[c] # <<>>,
                      NEW m, m = Head(chan'[c])
               PROVE  /\ m.cr = c
                      /\ Leads(m, KindOf[c])'
                      /\ pump'[KindOf[c]] = "deliver" /\ hand'[KindOf[c]].cr = c
                            => m.rv < hand'[KindOf[c]].rv
    BY DEF ChanOrder
  <2>1. CASE c = n.cr
    <3>1. m = n
      BY <1>2, <2>1 DEF TypeOK
    <3> QED
      BY <1>2, <1>3, <1>4, <2>1, <3>1
  <2>2. CASE c # n.cr
    <3>1. chan[c] # <<>> /\ m = Head(chan[c]) /\ KindOf[c] \in Kinds
      BY <1>2, <2>2, DeclaredAre DEF TypeOK
    <3> QED
      BY <1>3, <1>4, <3>1 DEF OrderInv, ChanOrder
  <2> QED
    BY <2>1, <2>2
<1> QED
  BY <1>5, <1>6, <1>7 DEF OrderInv

\* A watch that ends leaves a beginning of what was on it, and perhaps an
\* event that carries no resource.
LEMMA OrderAfterClose ==
    ASSUME TypeOK, OrderInv, NEW k \in Kinds, CloseWatch(k)
    PROVE  OrderInv'
<1>1. PICK n \in 0..Len(stream[k]), last \in {<<>>, <<ErrorNote>>} :
         stream' = [stream EXCEPT ![k] = SubSeq(@, 1, n) \o last]
  BY DEF CloseWatch
<1>2. /\ stream[k] \in Seq(Note) /\ conn[k] = "open"
      /\ conn' = [conn EXCEPT ![k] = "closed"]
      /\ UNCHANGED <<obj, pump, hand, chan>>
  BY DEF CloseWatch, TypeOK
<1>3. ErrorNote.cr \notin CRs /\ ErrorNote \in Note
  BY ConstantsAssumption, ErrorNoteIsNote DEF ErrorNote, ConstantsAssumption
<1>4. \A i \in 1..Len(stream'[k]) :
         \/ i \in 1..Len(stream[k]) /\ stream'[k][i] = stream[k][i]
         \/ stream'[k][i] = ErrorNote
  <2> DEFINE front == SubSeq(stream[k], 1, n)
  <2>1. /\ front \in Seq(Note) /\ Len(front) = n
        /\ \A i \in 1..n : front[i] = stream[k][i] /\ i \in 1..Len(stream[k])
    BY <1>2
  <2>2. stream'[k] = front \o last
    BY <1>1 DEF TypeOK
  <2> HIDE DEF front
  <2>3. CASE last = <<>>
    BY <2>1, <2>2, <2>3
  <2>4. CASE last = <<ErrorNote>>
    <3>1. /\ Len(front \o last) = n + 1
          /\ \A i \in 1..n : (front \o last)[i] = front[i]
          /\ (front \o last)[n + 1] = ErrorNote
      BY <1>3, <2>1, <2>4
    <3> QED
      BY <2>1, <2>2, <3>1
  <2> QED
    BY <2>3, <2>4
<1>5. \A l \in Kinds \ {k} : stream'[l] = stream[l] /\ conn'[l] = conn[l]
  BY <1>1, <1>2 DEF TypeOK
<1>6. \A m, l : l \in Kinds /\ Leads(m, l) => Leads(m, l)'
  BY <1>2, <1>3, <1>4, <1>5 DEF Leads
<1>7. NoEarlyEvents'
  BY <1>2, <1>5, DeclaredAre DEF OrderInv, NoEarlyEvents, TypeOK
<1>8. StreamOrder'
  <2> SUFFICES ASSUME NEW l \in Kinds, NEW i \in 1..Len(stream'[l]),
                      stream'[l][i].cr \in CRs
               PROVE  /\ KindOf[stream'[l][i].cr] = l
                      /\ stream'[l][i].rv <= obj[stream'[l][i].cr].rv
                      /\ \A j \in 1..Len(stream'[l]) :
                            i < j /\ stream'[l][j].cr = stream'[l][i].cr =>
                                stream'[l][i].rv < stream'[l][j].rv
    BY <1>2 DEF StreamOrder
  <2>1. \A j \in 1..Len(stream'[l]) : stream'[l][j].cr \in CRs =>
           j \in 1..Len(stream[l]) /\ stream'[l][j] = stream[l][j]
    BY <1>3, <1>4, <1>5
  <2> QED
    BY <2>1 DEF OrderInv, StreamOrder
<1>9. HandOrder'
  <2> SUFFICES ASSUME NEW l \in Kinds, NEW m, m = hand[l], pump[l] = "deliver"
               PROVE  Leads(m, l)'
    BY <1>2 DEF HandOrder
  <2> QED
    BY <1>6 DEF OrderInv, HandOrder
<1>10. ChanOrder'
  <2> SUFFICES ASSUME NEW c \in CRs, chan[c] # <<>>,
                      NEW m, m = Head(chan[c])
               PROVE  /\ m.cr = c
                      /\ Leads(m, KindOf[c])'
                      /\ pump[KindOf[c]] = "deliver" /\ hand[KindOf[c]].cr = c
                            => m.rv < hand[KindOf[c]].rv
    BY <1>2 DEF ChanOrder
  <2> QED
    BY <1>6, DeclaredAre DEF OrderInv, ChanOrder
<1> QED
  BY <1>7, <1>8, <1>9, <1>10 DEF OrderInv

\* A new watch lists every object of its kind once, before anything of the
\* kind has reached the pump or a channel.
LEMMA OrderAfterOpen ==
    ASSUME TypeOK, OrderInv, NEW k \in Kinds, OpenWatch(k)
    PROVE  OrderInv'
<1>1. /\ conn[k] = "none" /\ conn' = [conn EXCEPT ![k] = "open"]
      /\ pump' = [pump EXCEPT ![k] = "select"]
      /\ UNCHANGED <<obj, hand, chan>>
  BY DEF OpenWatch
<1>2. PICK order \in Bijection(1..Len(Declared[k]), All(k)) :
         stream' = [stream EXCEPT ![k] =
            [i \in 1..Len(Declared[k]) |-> NoteOf(order[i], obj[order[i]])]]
  BY DEF OpenWatch
<1>3. /\ \A i \in 1..Len(Declared[k]) : /\ order[i] \in CRs
                                        /\ KindOf[order[i]] = k
      /\ \A i, j \in 1..Len(Declared[k]) : order[i] = order[j] => i = j
  <2>1. Declared[k] \in Seq(CRs)
    BY ConstantTypes
  <2>2. order \in [1..Len(Declared[k]) -> All(k)] /\ IsInjective(order)
    BY DEF Bijection, Injection
  <2>3. \A c \in All(k) : \E j \in 1..Len(Declared[k]) : c = Declared[k][j]
    BY <2>1 DEF All, Range
  <2>4. \A c \in All(k) : c \in CRs /\ KindOf[c] = k
    BY <2>3, DeclaredAre
  <2>5. \A i \in 1..Len(Declared[k]) : order[i] \in All(k)
    BY <2>2
  <2>6. \A i, j \in 1..Len(Declared[k]) : order[i] = order[j] => i = j
    BY <2>2 DEF IsInjective
  <2> QED
    BY <2>4, <2>5, <2>6
<1>4. /\ Len(stream'[k]) = Len(Declared[k])
      /\ \A i \in 1..Len(stream'[k]) :
            stream'[k][i] = NoteOf(order[i], obj[order[i]])
      /\ \A l \in Kinds \ {k} : /\ stream'[l] = stream[l]
                                /\ conn'[l] = conn[l] /\ pump'[l] = pump[l]
  BY <1>1, <1>2, ConstantTypes DEF TypeOK
<1>5. NoEarlyEvents'
  BY <1>1, <1>4, DeclaredAre DEF OrderInv, NoEarlyEvents, TypeOK
<1>6. StreamOrder'
  <2> SUFFICES ASSUME NEW l \in Kinds, NEW i \in 1..Len(stream'[l]),
                      stream'[l][i].cr \in CRs
               PROVE  /\ KindOf[stream'[l][i].cr] = l
                      /\ stream'[l][i].rv <= obj[stream'[l][i].cr].rv
                      /\ \A j \in 1..Len(stream'[l]) :
                            i < j /\ stream'[l][j].cr = stream'[l][i].cr =>
                                stream'[l][i].rv < stream'[l][j].rv
    BY <1>1 DEF StreamOrder
  <2>1. CASE l # k
    BY <1>4, <2>1 DEF OrderInv, StreamOrder
  <2>2. CASE l = k
    <3>1. obj[order[i]].rv \in Nat
      BY <1>3, <1>4, <2>2 DEF TypeOK, Object
    <3>2. \A j \in 1..Len(stream'[k]) :
             stream'[k][j].cr = order[j] /\ stream'[k][j].rv = obj[order[j]].rv
      <4> TAKE j \in 1..Len(stream'[k])
      <4>1. stream'[k][j] = NoteOf(order[j], obj[order[j]])
        BY <1>4
      <4> QED
        BY <4>1 DEF NoteOf
    <3>3. \A j \in 1..Len(stream'[k]) : stream'[k][j].cr = stream'[k][i].cr => ~(i < j)
      <4>1. i \in 1..Len(Declared[k]) /\ Len(Declared[k]) \in Nat
        BY <1>4, <2>2, ConstantTypes
      <4>2. \A j \in 1..Len(stream'[k]) :
               stream'[k][j].cr = stream'[k][i].cr => i = j
        BY <1>3, <1>4, <2>2, <3>2
      <4> QED
        BY <4>1, <4>2
    <3> QED
      BY <1>3, <1>4, <2>2, <3>1, <3>2, <3>3
  <2> QED
    BY <2>1, <2>2
<1>7. \A m, l : l \in Kinds \ {k} /\ Leads(m, l) => Leads(m, l)'
  BY <1>1, <1>4 DEF Leads
<1>8. HandOrder'
  <2> SUFFICES ASSUME NEW l \in Kinds, NEW m, m = hand[l], pump'[l] = "deliver"
               PROVE  Leads(m, l)'
    BY <1>1 DEF HandOrder
  <2>1. l # k /\ pump[l] = "deliver"
    BY <1>1, <1>4 DEF TypeOK
  <2> QED
    BY <1>7, <2>1 DEF OrderInv, HandOrder
<1>9. ChanOrder'
  <2> SUFFICES ASSUME NEW c \in CRs, chan[c] # <<>>,
                      NEW m, m = Head(chan[c])
               PROVE  /\ m.cr = c
                      /\ Leads(m, KindOf[c])'
                      /\ pump'[KindOf[c]] = "deliver" /\ hand[KindOf[c]].cr = c
                            => m.rv < hand[KindOf[c]].rv
    BY <1>1 DEF ChanOrder
  <2>1. KindOf[c] \in Kinds \ {k}
    BY <1>1, DeclaredAre DEF OrderInv, NoEarlyEvents
  <2> QED
    BY <1>4, <1>7, <2>1 DEF OrderInv, ChanOrder
<1> QED
  BY <1>5, <1>6, <1>8, <1>9 DEF OrderInv

\* Every step keeps the order of the events.
LEMMA OrderStep == TypeOK /\ OrderInv /\ [Next]_vars => OrderInv'
<1> SUFFICES ASSUME TypeOK, OrderInv, [Next]_vars PROVE OrderInv'
  OBVIOUS
<1>1. CASE StartGenerators
  BY <1>1, OrderWithLess DEF StartGenerators
<1>2. ASSUME NEW k \in Kinds, Generator(k) PROVE OrderInv'
  <2>1. CASE \/ CreatorPanics(k) \/ CreatorFinds(k) \/ CreatorFindsNone(k)
             \/ ReuseWatch(k) \/ SendEvent(k) \/ WaiterFails(k) \/ OwnGet(k)
             \/ DeplFound(k) \/ DeplMissing(k) \/ RetryGet(k)
             \/ RetryConflict(k) \/ RetriesExhausted(k) \/ Unregister(k)
             \/ ApiFatal(k)
    <3>1. UNCHANGED <<obj, conn, stream, pump, hand, chan>>
      BY <2>1 DEF CreatorPanics, CreatorFinds, CreatorFindsNone, ReuseWatch,
         SendEvent, WaiterFails, OwnGet, DeplFound, DeplMissing, RetryGet,
         RetryConflict, RetriesExhausted, Unregister, ApiFatal
    <3> QED
      BY <3>1, OrderWithLess
  <2>2. CASE Register(k) \/ Receive(k)
    <3>1. \A q \in Seq(Note) : Len(q) <= 1 /\ q # <<>> => Tail(q) = <<>>
      OBVIOUS
    <3>2. \A c \in CRs : chan'[c] = chan[c] \/ chan'[c] = <<>>
      <4>1. CASE Register(k)
        BY <4>1 DEF Register, TypeOK
      <4>2. CASE Receive(k)
        BY <3>1, <4>2 DEF Receive, TypeOK
      <4> QED
        BY <2>2, <4>1, <4>2
    <3> QED
      BY <2>2, <3>2, OrderWithLess DEF Register, Receive
  <2>3. CASE OpenWatch(k)
    BY <2>3, OrderAfterOpen
  <2>4. CASE CreatorCreates(k) \/ CreatorUpdates(k)
    <3>1. Cur(k) \in CRs /\ obj[Cur(k)] \in Object
      BY <2>4, CurIsDeclared DEF CreatorCreates, CreatorUpdates, Calls, TypeOK
    <3>2. PICK o \in Object : Write(Cur(k), o) /\ o.rv = obj[Cur(k)].rv + 1
      BY <2>4, <3>1, ObjectWrites, NextVersion
      DEF CreatorCreates, CreatorUpdates
    <3> QED
      BY <2>4, <3>1, <3>2, OrderAfterWrite DEF CreatorCreates, CreatorUpdates
  <2>5. CASE RetryUpdate(k)
    <3>1. /\ Cur(k) \in CRs /\ copy[k] \in Object
          /\ copy[k].rv = obj[Cur(k)].rv
      BY <2>5, CurIsDeclared DEF RetryUpdate, Calls, TypeOK
    <3>2. /\ Owned(copy[k]) \in Object
          /\ Owned(copy[k]).rv = obj[Cur(k)].rv + 1
      BY <3>1, ObjectWrites, NextVersion
    <3> QED
      BY <2>5, <3>1, <3>2, OrderAfterWrite DEF RetryUpdate
  <2> QED
    BY <1>2, <2>1, <2>2, <2>3, <2>4, <2>5 DEF Generator
<1>3. ASSUME NEW k \in Kinds, WaiterTimesOut(k) PROVE OrderInv'
  BY <1>3, OrderWithLess DEF WaiterTimesOut
<1>4. ASSUME NEW k \in Kinds, PumpExits(k) PROVE OrderInv'
  <2>1. /\ pump'[k] = "exited" /\ pump[k] = "select"
        /\ \A l \in Kinds \ {k} : pump'[l] = pump[l]
        /\ UNCHANGED <<obj, conn, stream, hand, chan>>
    BY <1>4 DEF PumpExits, TypeOK
  <2>2. \A l \in Kinds : pump'[l] = "deliver" => pump[l] = "deliver"
    BY <2>1
  <2>3. NoEarlyEvents'
    BY <2>1 DEF OrderInv, NoEarlyEvents
  <2> QED
    BY <2>1, <2>2, <2>3, DeclaredAre
    DEF OrderInv, StreamOrder, HandOrder, ChanOrder, Leads
<1>5. ASSUME NEW k \in Kinds, CloseWatch(k) PROVE OrderInv'
  BY <1>5, OrderAfterClose
<1>6. ASSUME NEW c \in CRs, OperatorReports(c) \/ OtherOwner(c)
      PROVE  OrderInv'
  <2>1. obj[c] \in Object
    BY DEF TypeOK
  <2>2. PICK o \in Object : Write(c, o) /\ o.rv = obj[c].rv + 1
    BY <1>6, <2>1, ObjectWrites, NextVersion DEF OperatorReports, OtherOwner
  <2> QED
    BY <1>6, <2>2, OrderAfterWrite DEF OperatorReports, OtherOwner
<1>7. CASE RunReturns \/ Signal \/ MainReturns \/ Finished \/ UNCHANGED vars
  BY <1>7, OrderWithLess DEF RunReturns, Signal, MainReturns, Finished
<1> QED
  BY <1>1, <1>2, <1>3, <1>4, <1>5, <1>6, <1>7, OrderAfterTake,
     OrderAfterDelivery DEF Next, Pump

\* There are no events when the hook starts.
LEMMA OrderInit == Init => OrderInv
<1> SUFFICES ASSUME Init PROVE OrderInv
  OBVIOUS
<1>1. \A k \in Kinds : stream[k] = <<>> /\ pump[k] = "none" /\ Len(stream[k]) = 0
  BY EmptySeq DEF Init
<1>2. \A c \in CRs : chan[c] = <<>>
  BY DEF Init
<1> QED
  BY <1>1, <1>2 DEF OrderInv, NoEarlyEvents, StreamOrder, HandOrder, ChanOrder

\* Where an element of two joined sequences of events is.
LEMMA TwoParts ==
    ASSUME NEW u \in Seq(Note), NEW v \in Seq(Note), NEW i \in 1..Len(u \o v)
    PROVE  \/ i \in 1..Len(u) /\ (u \o v)[i] = u[i]
           \/ \E p \in 1..Len(v) : i = Len(u) + p /\ (u \o v)[i] = v[p]
<1>1. Len(u \o v) = Len(u) + Len(v) /\ Len(u) \in Nat /\ Len(v) \in Nat
  OBVIOUS
<1>2. CASE i \in 1..Len(u)
  BY <1>2
<1>3. CASE i \notin 1..Len(u)
  <2>1. i - Len(u) \in 1..Len(v) /\ i = Len(u) + (i - Len(u))
    BY <1>1, <1>3
  <2>2. (u \o v)[i] = v[i - Len(u)]
    BY <1>1, <1>3
  <2> QED
    BY <2>1, <2>2
<1> QED
  BY <1>2, <1>3

\* What the pump adds to the way.
Held(k) == IF pump[k] = "deliver" THEN <<hand[k]>> ELSE <<>>

\* The parts of a resource's way.
LEMMA PartsOfWay ==
    ASSUME TypeOK, NEW c \in CRs
    PROVE  LET k == KindOf[c] IN
           /\ k \in Kinds
           /\ stream[k] \in Seq(Note) /\ Len(stream[k]) \in Nat
           /\ chan[c] \in Seq(Note) /\ Len(chan[c]) \in {0, 1}
           /\ Len(chan[c]) = 1 => chan[c] # <<>> /\ chan[c][1] = Head(chan[c])
           /\ Held(k) \in Seq(Note) /\ Len(Held(k)) \in {0, 1}
           /\ Len(Held(k)) = 1 <=> pump[k] = "deliver"
           /\ Len(Held(k)) = 1 => Held(k)[1] = hand[k]
           /\ Way(c) = (chan[c] \o Held(k)) \o stream[k]
<1> DEFINE k == KindOf[c]
<1>1. k \in Kinds
  BY DeclaredAre
<1> HIDE DEF k
<1>2. /\ stream[k] \in Seq(Note) /\ Len(stream[k]) \in Nat /\ hand[k] \in Note
  BY <1>1 DEF TypeOK
<1>3. /\ chan[c] \in Seq(Note) /\ Len(chan[c]) <= 1 /\ Len(chan[c]) \in Nat
  BY DEF TypeOK
<1>4. Len(chan[c]) \in {0, 1}
  <2>1. \A n \in Nat : n <= 1 => n \in {0, 1}
    OBVIOUS
  <2> QED
    BY <1>3, <2>1
<1>5. Len(chan[c]) = 1 => chan[c] # <<>> /\ chan[c][1] = Head(chan[c])
  BY <1>3
<1>6. CASE pump[k] = "deliver"
  <2>1. Held(k) = <<hand[k]>>
    BY <1>6 DEF Held
  <2>2. Held(k) \in Seq(Note) /\ Len(Held(k)) = 1 /\ Held(k)[1] = hand[k]
    BY <1>2, <2>1
  <2> QED
    BY <1>1, <1>2, <1>3, <1>4, <1>5, <1>6, <2>2 DEF Way, Held, k
<1>7. CASE pump[k] # "deliver"
  <2>1. Held(k) = <<>>
    BY <1>7 DEF Held
  <2>2. Held(k) \in Seq(Note) /\ Len(Held(k)) = 0
    BY <2>1
  <2> QED
    BY <1>1, <1>2, <1>3, <1>4, <1>5, <1>7, <2>2 DEF Way, Held, k
<1> QED
  BY <1>6, <1>7

\* An element of the way is in the channel, in the pump's hand or still on
\* the watch.
LEMMA PlaceOnWay ==
    ASSUME TypeOK, NEW c \in CRs, NEW i \in DOMAIN Way(c)
    PROVE  LET k == KindOf[c] IN
           \/ /\ Len(chan[c]) = 1 /\ chan[c] # <<>>
              /\ i = 1 /\ Way(c)[i] = Head(chan[c])
           \/ /\ pump[k] = "deliver"
              /\ i = Len(chan[c]) + 1 /\ Way(c)[i] = hand[k]
           \/ \E p \in 1..Len(stream[k]) :
                 i = Len(chan[c]) + Len(Held(k)) + p /\ Way(c)[i] = stream[k][p]
<1> DEFINE k == KindOf[c]
           front == chan[c] \o Held(k)
<1>1. /\ stream[k] \in Seq(Note) /\ Held(k) \in Seq(Note)
      /\ chan[c] \in Seq(Note)
      /\ Len(chan[c]) = 0 \/ Len(chan[c]) = 1
      /\ Len(Held(k)) = 0 \/ Len(Held(k)) = 1
      /\ Len(chan[c]) = 1 => chan[c] # <<>> /\ chan[c][1] = Head(chan[c])
      /\ Len(Held(k)) = 1 => pump[k] = "deliver" /\ Held(k)[1] = hand[k]
      /\ Way(c) = front \o stream[k]
  <2>1. \A s \in Seq(Note) : s # <<>> => s[1] = Head(s)
    OBVIOUS
  <2> QED
    BY <2>1, PartsOfWay
<1> HIDE DEF k
<1>2. front \in Seq(Note) /\ Len(front) = Len(chan[c]) + Len(Held(k))
  BY <1>1
<1>3. ASSUME NEW p \in 1..Len(front)
      PROVE  \/ /\ Len(chan[c]) = 1 /\ chan[c] # <<>>
                /\ p = 1 /\ front[p] = Head(chan[c])
             \/ /\ pump[k] = "deliver"
                /\ p = Len(chan[c]) + 1 /\ front[p] = hand[k]
  <2>0. \A n \in 1..1 : n = 1
    OBVIOUS
  <2>1. CASE p \in 1..Len(chan[c]) /\ front[p] = chan[c][p]
    <3>1. Len(chan[c]) = 1
      BY <1>1, <2>1
    <3>2. p = 1
      BY <2>0, <2>1, <3>1
    <3> QED
      BY <1>1, <2>1, <3>1, <3>2
  <2>2. ASSUME NEW q \in 1..Len(Held(k)), p = Len(chan[c]) + q,
               front[p] = Held(k)[q]
        PROVE  pump[k] = "deliver" /\ p = Len(chan[c]) + 1 /\ front[p] = hand[k]
    <3>1. Len(Held(k)) = 1
      BY <1>1
    <3>2. q = 1
      BY <2>0, <3>1
    <3> QED
      BY <1>1, <2>2, <3>1, <3>2
  <2> QED
    BY <1>1, <2>1, <2>2, TwoParts
<1> HIDE DEF front
<1>4. i \in 1..Len(front \o stream[k])
  BY <1>1, <1>2
<1>5. CASE i \in 1..Len(front) /\ Way(c)[i] = front[i]
  BY <1>3, <1>5 DEF k
<1>6. ASSUME NEW p \in 1..Len(stream[k]), i = Len(front) + p,
             Way(c)[i] = stream[k][p]
      PROVE  i = Len(chan[c]) + Len(Held(k)) + p
  BY <1>2, <1>6
<1>7. \/ i \in 1..Len(front) /\ Way(c)[i] = front[i]
      \/ \E p \in 1..Len(stream[k]) :
            i = Len(front) + p /\ Way(c)[i] = stream[k][p]
  <2>1. \/ i \in 1..Len(front) /\ (front \o stream[k])[i] = front[i]
        \/ \E p \in 1..Len(stream[k]) :
              i = Len(front) + p /\ (front \o stream[k])[i] = stream[k][p]
    BY <1>1, <1>2, <1>4, TwoParts
  <2>2. Way(c) = front \o stream[k]
    BY <1>1
  <2> QED
    BY <2>1, <2>2
<1> QED
  BY <1>5, <1>6, <1>7 DEF k

\* The parts of the way are in order, and one after the other.
LEMMA WayInOrder == TypeOK /\ OrderInv => EventsInOrder
<1> SUFFICES ASSUME TypeOK, OrderInv, NEW c \in CRs,
                    NEW i \in DOMAIN Way(c), NEW j \in DOMAIN Way(c),
                    Way(c)[i].cr = c, Way(c)[j].cr = c
             PROVE  /\ Way(c)[i].rv <= obj[c].rv
                    /\ i < j => Way(c)[i].rv < Way(c)[j].rv
  BY DEF EventsInOrder
<1> DEFINE k == KindOf[c]
           m == Len(chan[c])
           h == Len(Held(k))
           InChan(n, x) == m = 1 /\ n = 1 /\ x = Head(chan[c]) /\ chan[c] # <<>>
           InHand(n, x) == pump[k] = "deliver" /\ n = m + 1 /\ x = hand[k]
           OnWatch(n, x) == \E p \in 1..Len(stream[k]) :
                               n = m + h + p /\ x = stream[k][p]
<1>1. /\ k \in Kinds /\ m \in {0, 1} /\ h \in {0, 1} /\ Len(stream[k]) \in Nat
      /\ pump[k] = "deliver" => h = 1
  BY PartsOfWay
<1>2. PICK x, y : x = Way(c)[i] /\ y = Way(c)[j]
  OBVIOUS
<1>3. /\ InChan(i, x) \/ InHand(i, x) \/ OnWatch(i, x)
      /\ InChan(j, y) \/ InHand(j, y) \/ OnWatch(j, y)
  BY <1>2, PlaceOnWay
<1>4. \A n, z : InChan(n, z) => Leads(z, k)
  BY DEF OrderInv, ChanOrder
<1>5. \A n, z : InHand(n, z) => Leads(z, k)
  BY <1>1 DEF OrderInv, HandOrder
<1>6. x.cr = c /\ y.cr = c
  BY <1>2
<1> HIDE DEF k, h, m
<1>7. k = KindOf[c]
  BY DEF k
<1>8. x.rv <= obj[c].rv
  <2>1. CASE InChan(i, x) \/ InHand(i, x)
    BY <1>4, <1>5, <1>6, <2>1 DEF Leads
  <2>2. CASE OnWatch(i, x)
    BY <1>1, <1>6, <2>2 DEF OrderInv, StreamOrder
  <2> QED
    BY <1>3, <2>1, <2>2
<1>9. ASSUME i < j PROVE x.rv < y.rv
  <2>1. CASE InChan(i, x) /\ InHand(j, y)
    BY <1>1, <1>6, <1>7, <2>1 DEF OrderInv, ChanOrder
  <2>2. CASE (InChan(i, x) \/ InHand(i, x)) /\ OnWatch(j, y)
    BY <1>4, <1>5, <1>6, <2>2 DEF Leads
  <2>3. CASE OnWatch(i, x) /\ OnWatch(j, y)
    <3>1. PICK a \in 1..Len(stream[k]), b \in 1..Len(stream[k]) :
             /\ i = m + h + a /\ x = stream[k][a]
             /\ j = m + h + b /\ y = stream[k][b]
      BY <2>3
    <3>2. a < b
      BY <1>1, <1>9, <3>1
    <3> QED
      BY <1>1, <1>6, <3>1, <3>2 DEF OrderInv, StreamOrder
  <2>4. ~InChan(j, y) /\ ~(InHand(i, x) /\ InHand(j, y))
    <3>1. i \in Nat /\ i >= 1
      BY <1>1, <1>3
    <3> QED
      BY <1>1, <1>9, <3>1
  <2>5. ~(OnWatch(i, x) /\ InHand(j, y))
    BY <1>1, <1>9
  <2> QED
    BY <1>3, <2>1, <2>2, <2>3, <2>4, <2>5
<1> QED
  BY <1>2, <1>8, <1>9

\* For any number of resources of a kind, other writers and ends of the watch,
\* a waiter is told of its resource's versions in the order they were stored.
THEOREM InOrder == Spec => []EventsInOrder
BY TypeInit, TypeStep, OrderInit, OrderStep, WayInOrder, PTL DEF Spec

-----------------------------------------------------------------------------
\* The newest version of a resource is in its channel, in the pump's hand or
\* on the watch.
Coming(c) ==
    LET k == KindOf[c] IN
    \/ chan[c] # <<>> /\ Head(chan[c]).rv = obj[c].rv
    \/ pump[k] = "deliver" /\ hand[k].cr = c /\ hand[k].rv = obj[c].rv
    \/ \E i \in 1..Len(stream[k]) :
          stream[k][i].cr = c /\ stream[k][i].rv = obj[c].rv

NewestComing ==
    \A c \in handlers : conn[KindOf[c]] = "open" /\ obj[c].rv > base[c] => Coming(c)

\* A step that moves no event and registers nobody.
LEMMA ComingUndisturbed ==
    ASSUME TypeOK, NewestComing, handlers' \subseteq handlers,
           UNCHANGED <<obj, conn, stream, pump, hand, chan>>,
           \A c \in handlers' : base'[c] = base[c]
    PROVE  NewestComing'
BY DEF NewestComing, Coming

\* A write puts the newest version on the watch.
LEMMA ComingAfterWrite ==
    ASSUME TypeOK, NewestComing, NEW c \in CRs, NEW o \in Object, Write(c, o),
           UNCHANGED <<conn, pump, hand, chan, handlers, base>>
    PROVE  NewestComing'
<1> SUFFICES ASSUME NEW d \in handlers, conn[KindOf[d]] = "open",
                    obj'[d].rv > base[d]
             PROVE  Coming(d)'
  BY DEF NewestComing
<1> DEFINE n == NoteOf(c, o)
           k == KindOf[d]
<1>1. /\ obj' = [obj EXCEPT ![c] = o] /\ obj \in [CRs -> Object]
      /\ stream \in [Kinds -> Seq(Note)] /\ d \in CRs
      /\ k \in Kinds /\ KindOf[c] \in Kinds
  BY DeclaredAre DEF Write, TypeOK
<1>2. n \in Note /\ n.cr = c /\ n.rv = obj'[c].rv
  BY <1>1 DEF NoteOf, Note, Object
<1> HIDE DEF n, k
<1>3. \A s \in Seq(Note) : /\ Len(Append(s, n)) = Len(s) + 1
                           /\ \A i \in 1..Len(s) : Append(s, n)[i] = s[i]
                           /\ Append(s, n)[Len(s) + 1] = n
                           /\ Len(s) \in Nat
  BY <1>2
<1>4. k = KindOf[c] => stream'[k] = Append(stream[k], n)
  BY <1>1 DEF Write, n, k
<1>5. k # KindOf[c] => stream'[k] = stream[k]
  BY <1>1 DEF Write
<1>6. \A i \in 1..Len(stream[k]) :
         i \in 1..Len(stream'[k]) /\ stream'[k][i] = stream[k][i]
  <2>1. CASE k = KindOf[c]
    <3>1. stream[k] \in Seq(Note)
      BY <1>1
    <3>2. /\ Len(stream'[k]) = Len(stream[k]) + 1 /\ Len(stream[k]) \in Nat
          /\ \A i \in 1..Len(stream[k]) : stream'[k][i] = stream[k][i]
      BY <1>3, <1>4, <2>1, <3>1
    <3> QED
      BY <3>2
  <2>2. CASE k # KindOf[c]
    BY <1>5, <2>2
  <2> QED
    BY <2>1, <2>2
<1>7. CASE d = c
  <2>1. k = KindOf[c]
    BY <1>7 DEF k
  <2>2. /\ Len(stream[k]) + 1 \in 1..Len(stream'[k])
        /\ stream'[k][Len(stream[k]) + 1] = n
    BY <1>1, <1>3, <1>4, <2>1
  <2> QED
    BY <1>2, <1>7, <2>2 DEF Coming, k
<1>8. CASE d # c
  <2>1. obj'[d] = obj[d]
    BY <1>1, <1>8
  <2>2. Coming(d)
    BY <2>1 DEF NewestComing
  <2> QED
    BY <1>6, <2>1, <2>2 DEF Coming, k
<1> QED
  BY <1>7, <1>8

\* The pump only moves the events of registered resources.
LEMMA ComingAfterPump ==
    ASSUME TypeOK, OrderInv, NewestComing, NEW k \in Kinds, Pump(k)
    PROVE  NewestComing'
<1> SUFFICES ASSUME NEW d \in handlers, conn[KindOf[d]] = "open",
                    obj[d].rv > base[d]
             PROVE  Coming(d)'
  BY DEF NewestComing, Pump, PumpDrops, PumpTakes, PumpDelivers, PumpExits
<1>1. d \in CRs /\ KindOf[d] \in Kinds /\ Coming(d)
  BY DeclaredAre DEF NewestComing, TypeOK
<1>2. CASE PumpDrops(k) \/ PumpTakes(k)
  <2>1. /\ stream[k] # <<>> /\ pump[k] = "select"
        /\ stream' = [stream EXCEPT ![k] = Tail(@)]
        /\ UNCHANGED <<obj, chan>>
        /\ \A l \in Kinds \ {k} : pump'[l] = pump[l] /\ hand'[l] = hand[l]
        /\ \/ Head(stream[k]).cr \notin handlers
           \/ pump'[k] = "deliver" /\ hand'[k] = Head(stream[k])
    BY <1>2 DEF PumpDrops, PumpTakes, TypeOK
  <2>2. \A l \in Kinds \ {k} : stream'[l] = stream[l]
    BY <2>1 DEF TypeOK
  <2>3. CASE KindOf[d] # k
    BY <1>1, <2>1, <2>2, <2>3 DEF Coming
  <2>4. CASE KindOf[d] = k
    <3>1. CASE chan[d] # <<>> /\ Head(chan[d]).rv = obj[d].rv
      BY <2>1, <3>1 DEF Coming
    <3>2. ASSUME NEW i \in 1..Len(stream[k]), stream[k][i].cr = d,
                 stream[k][i].rv = obj[d].rv
          PROVE  Coming(d)'
      <4>1. /\ Head(stream[k]) = stream[k][1] /\ Len(stream[k]) \in Nat
            /\ Len(Tail(stream[k])) = Len(stream[k]) - 1
            /\ \A j \in 1..Len(Tail(stream[k])) :
                  Tail(stream[k])[j] = stream[k][j + 1]
        BY <2>1, FirstEvent DEF TypeOK
      <4>2. CASE i = 1
        BY <2>1, <2>4, <3>2, <4>1, <4>2 DEF Coming
      <4>3. CASE i # 1
        <5>1. PICK j \in 1..Len(Tail(stream[k])) : i = j + 1
          BY <4>1, <4>3
        <5>2. stream'[k] = Tail(stream[k]) /\ Tail(stream[k])[j] = stream[k][i]
          BY <2>1, <4>1, <5>1 DEF TypeOK
        <5>3. /\ j \in 1..Len(stream'[k])
              /\ stream'[k][j].cr = d /\ stream'[k][j].rv = obj'[d].rv
          BY <2>1, <3>2, <5>1, <5>2
        <5> QED
          BY <2>4, <5>3 DEF Coming
      <4> QED
        BY <4>2, <4>3
    <3> QED
      BY <1>1, <2>1, <2>4, <3>1, <3>2 DEF Coming
  <2> QED
    BY <2>3, <2>4
<1>3. CASE PumpDelivers(k)
  <2>1. /\ pump[k] = "deliver" /\ hand[k].cr \in CRs /\ hand[k] \in Note
        /\ chan[hand[k].cr] = <<>> /\ KindOf[hand[k].cr] = k
        /\ chan' = [chan EXCEPT ![hand[k].cr] = <<hand[k]>>]
        /\ UNCHANGED <<obj, stream>>
        /\ \A l \in Kinds \ {k} : pump'[l] = pump[l] /\ hand'[l] = hand[l]
    BY <1>3 DEF PumpDelivers, TypeOK, OrderInv, HandOrder, Leads
  <2>2. \A n : <<n>> # <<>> /\ Head(<<n>>) = n
    OBVIOUS
  <2>3. CASE hand[k].cr = d
    <3>1. chan'[d] = <<hand[k]>> /\ chan[d] = <<>> /\ KindOf[d] = k
      BY <1>1, <2>1, <2>3 DEF TypeOK
    <3> QED
      BY <1>1, <2>1, <2>2, <3>1 DEF Coming
  <2>4. CASE hand[k].cr # d
    <3>1. chan'[d] = chan[d]
      BY <1>1, <2>1, <2>4 DEF TypeOK
    <3> QED
      BY <1>1, <2>1, <2>4, <3>1 DEF Coming
  <2> QED
    BY <2>3, <2>4
<1>4. CASE PumpExits(k)
  BY <1>1, <1>4 DEF PumpExits, Coming, TypeOK
<1> QED
  BY <1>2, <1>3, <1>4 DEF Pump

\* Every step keeps the newest version coming.
LEMMA ComingStep ==
    /\ TypeOK /\ OnlyWaitersRegistered /\ OrderInv /\ NewestComing
    /\ [Next]_vars
    => NewestComing'
<1> SUFFICES ASSUME TypeOK, OnlyWaitersRegistered, OrderInv, NewestComing,
                    [Next]_vars
             PROVE  NewestComing'
  OBVIOUS
<1>1. CASE StartGenerators
  BY <1>1, ComingUndisturbed DEF StartGenerators
<1>2. ASSUME NEW k \in Kinds, Generator(k) PROVE NewestComing'
  <2>1. CASE \/ CreatorPanics(k) \/ CreatorFinds(k) \/ CreatorFindsNone(k)
             \/ ReuseWatch(k) \/ SendEvent(k) \/ WaiterFails(k) \/ OwnGet(k)
             \/ DeplFound(k) \/ DeplMissing(k) \/ RetryGet(k)
             \/ RetryConflict(k) \/ RetriesExhausted(k) \/ ApiFatal(k)
    <3>1. UNCHANGED <<obj, conn, stream, pump, hand, chan, handlers, base>>
      BY <2>1 DEF CreatorPanics, CreatorFinds, CreatorFindsNone, ReuseWatch,
         SendEvent, WaiterFails, OwnGet, DeplFound, DeplMissing, RetryGet,
         RetryConflict, RetriesExhausted, ApiFatal
    <3> QED
      BY <3>1, ComingUndisturbed
  <2>2. CASE Unregister(k)
    <3>1. \A c \in handlers' : base'[c] = base[c] /\ c \in handlers
      BY <2>2 DEF Unregister, TypeOK
    <3> QED
      BY <2>2, <3>1, ComingUndisturbed DEF Unregister
  <2>3. CASE Register(k)
    <3>1. /\ Cur(k) \in CRs
          /\ handlers' = handlers \cup {Cur(k)}
          /\ chan' = [chan EXCEPT ![Cur(k)] = <<>>]
          /\ base' = [base EXCEPT ![Cur(k)] = obj[Cur(k)].rv]
          /\ UNCHANGED <<obj, conn, stream, pump, hand>>
      BY <2>3, CurIsDeclared DEF Register, Local
    <3>2. base'[Cur(k)] = obj[Cur(k)].rv /\ obj[Cur(k)].rv \in Nat
      BY <3>1 DEF TypeOK, Object
    <3>3. \A c \in handlers' \ {Cur(k)} :
             c \in handlers /\ base'[c] = base[c] /\ chan'[c] = chan[c]
      BY <3>1 DEF TypeOK
    <3>4. ~(obj'[Cur(k)].rv > base'[Cur(k)])
      BY <3>1, <3>2
    <3> QED
      BY <3>1, <3>3, <3>4 DEF NewestComing, Coming
  <2>4. CASE Receive(k)
    <3> DEFINE note == Head(chan[Cur(k)])
    <3>1. /\ Cur(k) \in CRs /\ chan[Cur(k)] # <<>> /\ note \in Note
          /\ chan' = [chan EXCEPT ![Cur(k)] = Tail(@)]
          /\ base' = [base EXCEPT ![Cur(k)] =
                         IF note.rv > @ THEN note.rv ELSE @]
          /\ UNCHANGED <<obj, conn, stream, pump, hand, handlers>>
      <4>1. Cur(k) \in CRs /\ chan[Cur(k)] # <<>>
        BY <2>4, CurIsDeclared DEF Receive, Local
      <4>2. note \in Note
        BY <4>1 DEF TypeOK
      <4> QED
        BY <2>4, <4>1, <4>2 DEF Receive
    <3> HIDE DEF note
    <3>2. /\ base'[Cur(k)] >= note.rv /\ base'[Cur(k)] >= base[Cur(k)]
          /\ base[Cur(k)] \in Nat /\ base'[Cur(k)] \in Nat
          /\ note.rv \in Nat /\ obj[Cur(k)].rv \in Nat
      BY <3>1 DEF TypeOK, Note, Object
    <3>3. \A c \in CRs \ {Cur(k)} : base'[c] = base[c] /\ chan'[c] = chan[c]
      BY <3>1 DEF TypeOK
    <3>4. ASSUME NEW c \in handlers, conn[KindOf[c]] = "open",
                 obj[c].rv > base'[c]
          PROVE  Coming(c)'
      <4>1. CASE c = Cur(k)
        <5>1. note.rv # obj[c].rv /\ obj[c].rv > base[c]
          BY <3>2, <3>4, <4>1
        <5>2. Coming(c) /\ ~(Head(chan[c]).rv = obj[c].rv)
          BY <3>4, <4>1, <5>1 DEF NewestComing, note
        <5> QED
          BY <3>1, <5>2 DEF Coming
      <4>2. CASE c # Cur(k)
        <5>1. base'[c] = base[c] /\ chan'[c] = chan[c]
          BY <3>3, <4>2 DEF TypeOK
        <5>2. Coming(c)
          BY <3>4, <5>1 DEF NewestComing
        <5> QED
          BY <3>1, <5>1, <5>2 DEF Coming
      <4> QED
        BY <4>1, <4>2
    <3> QED
      BY <3>1, <3>4 DEF NewestComing
  <2>5. CASE OpenWatch(k)
    <3>1. /\ conn' = [conn EXCEPT ![k] = "open"] /\ pc[k] = "watch"
          /\ UNCHANGED <<obj, hand, handlers, chan, base>>
      BY <2>5 DEF OpenWatch, Calls
    <3>2. \A c \in handlers : KindOf[c] # k
      <4> SUFFICES ASSUME NEW l \in Kinds, pc[l] \in Listening,
                          KindOf[Cur(l)] = k
                   PROVE  FALSE
        BY DEF OnlyWaitersRegistered
      <4>1. l = k
        BY CurIsDeclared DEF Listening, Owning
      <4> QED
        BY <3>1, <4>1 DEF Listening, Owning
    <3>3. \A l \in Kinds \ {k} : /\ conn'[l] = conn[l] /\ stream'[l] = stream[l]
                                 /\ pump'[l] = pump[l]
      BY <2>5 DEF OpenWatch, TypeOK
    <3>4. \A c \in handlers : KindOf[c] \in Kinds \ {k}
      BY <3>2, DeclaredAre DEF TypeOK
    <3> QED
      BY <3>1, <3>3, <3>4 DEF NewestComing, Coming
  <2>6. CASE CreatorCreates(k) \/ CreatorUpdates(k) \/ RetryUpdate(k)
    <3>1. /\ Cur(k) \in CRs /\ obj[Cur(k)] \in Object /\ copy[k] \in Object
      BY <2>6, CurIsDeclared DEF CreatorCreates, CreatorUpdates, RetryUpdate,
         Calls, TypeOK
    <3>2. PICK o \in Object : Write(Cur(k), o)
      BY <2>6, <3>1, ObjectWrites
      DEF CreatorCreates, CreatorUpdates, RetryUpdate
    <3> QED
      BY <2>6, <3>1, <3>2, ComingAfterWrite
      DEF CreatorCreates, CreatorUpdates, RetryUpdate
  <2> QED
    BY <1>2, <2>1, <2>2, <2>3, <2>4, <2>5, <2>6 DEF Generator
<1>3. ASSUME NEW k \in Kinds, WaiterTimesOut(k) PROVE NewestComing'
  BY <1>3, ComingUndisturbed DEF WaiterTimesOut
<1>4. ASSUME NEW k \in Kinds, Pump(k) PROVE NewestComing'
  BY <1>4, ComingAfterPump
<1>5. ASSUME NEW k \in Kinds, CloseWatch(k) PROVE NewestComing'
  <2>1. /\ conn'[k] = "closed" /\ UNCHANGED <<obj, pump, hand, waitVars>>
        /\ \A l \in Kinds \ {k} : conn'[l] = conn[l] /\ stream'[l] = stream[l]
    BY <1>5 DEF CloseWatch, TypeOK
  <2>2. \A c \in handlers : KindOf[c] \in Kinds
    BY DeclaredAre DEF TypeOK
  <2> QED
    BY <2>1, <2>2 DEF NewestComing, Coming
<1>6. ASSUME NEW c \in CRs, OperatorReports(c) \/ OtherOwner(c)
      PROVE  NewestComing'
  <2>1. obj[c] \in Object
    BY DEF TypeOK
  <2>2. PICK o \in Object : Write(c, o)
    BY <1>6, <2>1, ObjectWrites DEF OperatorReports, OtherOwner
  <2> QED
    BY <1>6, <2>2, ComingAfterWrite DEF OperatorReports, OtherOwner
<1>7. CASE RunReturns \/ Signal \/ MainReturns \/ Finished \/ UNCHANGED vars
  BY <1>7, ComingUndisturbed DEF RunReturns, Signal, MainReturns, Finished
<1> QED
  BY <1>1, <1>2, <1>3, <1>4, <1>5, <1>6, <1>7 DEF Next

\* What is coming is among the events in flight.
LEMMA ComingIsInFlight ==
    ASSUME TypeOK, OrderInv, NEW c \in CRs, Coming(c)
    PROVE  \E n \in InFlight(c) : n.rv = obj[c].rv
<1> SUFFICES \E i \in DOMAIN Way(c) : Way(c)[i].cr = c /\ Way(c)[i].rv = obj[c].rv
  BY DEF InFlight, Range
<1> DEFINE k == KindOf[c]
           front == chan[c] \o Held(k)
<1>1. /\ stream[k] \in Seq(Note) /\ Held(k) \in Seq(Note)
      /\ chan[c] \in Seq(Note)
      /\ chan[c] # <<>> => chan[c][1] = Head(chan[c])
      /\ Len(Held(k)) = 1 <=> pump[k] = "deliver"
      /\ Len(Held(k)) = 1 => Held(k)[1] = hand[k]
      /\ Way(c) = front \o stream[k]
  <2>1. \A s \in Seq(Note) : s # <<>> => s[1] = Head(s)
    OBVIOUS
  <2> QED
    BY <2>1, PartsOfWay
<1> HIDE DEF k
<1>2. \A u, v \in Seq(Note) :
         /\ u \o v \in Seq(Note) /\ DOMAIN (u \o v) = 1..Len(u \o v)
         /\ Len(u) \in Nat /\ Len(v) \in Nat /\ Len(u \o v) = Len(u) + Len(v)
         /\ u # <<>> => 1 \in 1..Len(u)
         /\ \A i \in 1..Len(u) : (u \o v)[i] = u[i] /\ i \in 1..Len(u \o v)
         /\ \A i \in 1..Len(v) : /\ (u \o v)[Len(u) + i] = v[i]
                                 /\ Len(u) + i \in 1..Len(u \o v)
  OBVIOUS
<1>3. front \in Seq(Note)
  BY <1>1, <1>2
<1>4. CASE chan[c] # <<>> /\ Head(chan[c]).rv = obj[c].rv
  <2>1. Head(chan[c]).cr = c
    BY <1>4 DEF OrderInv, ChanOrder
  <2>2. 1 \in 1..Len(front) /\ front[1] = Head(chan[c])
    BY <1>1, <1>2, <1>4
  <2> HIDE DEF front
  <2>3. 1 \in DOMAIN Way(c) /\ Way(c)[1] = Head(chan[c])
    BY <1>1, <1>2, <1>3, <2>2
  <2> QED
    BY <1>4, <2>1, <2>3
<1>5. CASE pump[k] = "deliver" /\ hand[k].cr = c /\ hand[k].rv = obj[c].rv
  <2>1. PICK i \in 1..Len(front) : front[i] = hand[k]
    <3>1. 1 \in 1..Len(Held(k)) /\ Held(k)[1] = hand[k]
      <4>1. Len(Held(k)) = 1 /\ 1 \in 1..1
        BY <1>1, <1>5
      <4> QED
        BY <1>1, <4>1
    <3>2. /\ Len(chan[c]) + 1 \in 1..Len(front)
          /\ front[Len(chan[c]) + 1] = hand[k]
      BY <1>1, <1>2, <3>1
    <3> QED
      BY <3>2
  <2> HIDE DEF front
  <2>2. i \in DOMAIN Way(c) /\ Way(c)[i] = hand[k]
    BY <1>1, <1>2, <1>3, <2>1
  <2> QED
    BY <1>5, <2>2
<1>6. ASSUME NEW p \in 1..Len(stream[k]), stream[k][p].cr = c,
             stream[k][p].rv = obj[c].rv
      PROVE  \E i \in DOMAIN Way(c) :
                Way(c)[i].cr = c /\ Way(c)[i].rv = obj[c].rv
  <2> HIDE DEF front
  <2>1. PICK i : i = Len(front) + p
    OBVIOUS
  <2>2. i \in DOMAIN Way(c) /\ Way(c)[i] = stream[k][p]
    BY <1>1, <1>2, <1>3, <2>1, SMTT(30)
  <2> QED
    BY <1>6, <2>2
<1> QED
  BY <1>4, <1>5, <1>6 DEF Coming, k

\* No waiter misses the newest version of its resource for the capacity of a
\* channel or for the other waiters: it is stored before the registration, or
\* it is on its way.
THEOREM Delivered == Spec => []DeliveryAfterRegistration
<1>1. Init => NewestComing
  BY DEF Init, NewestComing
<1>2. TypeOK /\ OrderInv /\ NewestComing => DeliveryAfterRegistration
  <2> SUFFICES ASSUME TypeOK, OrderInv, NewestComing, NEW c \in handlers,
                      conn[KindOf[c]] = "open", obj[c].rv > base[c]
               PROVE  \E n \in InFlight(c) : n.rv = obj[c].rv
    BY DEF DeliveryAfterRegistration
  <2> QED
    BY ComingIsInFlight DEF NewestComing, TypeOK
<1> QED
  BY <1>1, <1>2, TypeInit, TypeStep, ListenersInit, ListenersStep, OrderInit,
     OrderStep, ComingStep, PTL DEF Spec

-----------------------------------------------------------------------------
(***************************************************************************)
(* The refinement.  Each lemma turns what a step does to the resources     *)
(* one by one into a step of DeployHook; the invariant IInv says why the   *)
(* step is one it allows.                                                  *)
(***************************************************************************)

\* What a step leaves as it is.
SameApplied == \A c \in CRs : obj'[c].applied = obj[c].applied
SameConverged == \A c \in CRs : obj'[c].reconciled = obj[c].reconciled
SamePassed == \A c \in CRs : Passed(c)' = Passed(c)
StillRuns == exit = "running" /\ exit' = "running"

\* The outcome depends on the process alone.
LEMMA RunningOutcome ==
    /\ exit = "running" => Outcome = "running"
    /\ exit' = "running" => Outcome' = "running"
BY DEF Outcome

\* A step the deployment does not see.
LEMMA HookStutters ==
    ASSUME SameApplied, SameConverged, SamePassed, Outcome' = Outcome
    PROVE  UNCHANGED Hook!vars
<1>1. {c \in CRs : obj[c].applied}' = {c \in CRs : obj[c].applied}
  BY DEF SameApplied
<1>2. {c \in CRs : obj[c].reconciled}' = {c \in CRs : obj[c].reconciled}
  BY DEF SameConverged
<1>3. {c \in CRs : Passed(c)}' = {c \in CRs : Passed(c)}
  BY DEF SamePassed
<1> QED
  BY <1>1, <1>2, <1>3 DEF Hook!vars

\* The spec of one more resource is stored.
LEMMA HookApplies ==
    ASSUME NEW d \in CRs, StillRuns, SameConverged, SamePassed,
           \A c \in CRs : obj'[c].applied <=> obj[c].applied \/ c = d
    PROVE  Hook!Next
<1>1. {c \in CRs : obj[c].applied}' = {c \in CRs : obj[c].applied} \cup {d}
  OBVIOUS
<1>2. {c \in CRs : obj[c].reconciled}' = {c \in CRs : obj[c].reconciled}
  BY DEF SameConverged
<1>3. {c \in CRs : Passed(c)}' = {c \in CRs : Passed(c)}
  BY DEF SamePassed
<1>4. Hook!Apply(d)
  BY <1>1, <1>2, <1>3, RunningOutcome DEF Hook!Apply, StillRuns
<1> QED
  BY <1>4 DEF Hook!Next

\* An operator has brought a resource to its stable phase.
LEMMA HookConverges ==
    ASSUME NEW d \in CRs, StillRuns, SameApplied, SamePassed, obj[d].applied,
           \A c \in CRs : obj'[c].reconciled <=> obj[c].reconciled \/ c = d
    PROVE  Hook!Next
<1>1. {c \in CRs : obj[c].applied}' = {c \in CRs : obj[c].applied}
  BY DEF SameApplied
<1>2. {c \in CRs : obj[c].reconciled}' = {c \in CRs : obj[c].reconciled} \cup {d}
  OBVIOUS
<1>3. {c \in CRs : Passed(c)}' = {c \in CRs : Passed(c)}
  BY DEF SamePassed
<1>4. d \in {c \in CRs : obj[c].applied} /\ Outcome' = Outcome
  BY RunningOutcome DEF StillRuns
<1>5. Hook!Converge(d)
  BY <1>1, <1>2, <1>3, <1>4 DEF Hook!Converge
<1> QED
  BY <1>5 DEF Hook!Next

\* The hook leaves a resource behind.
LEMMA HookAccepts ==
    ASSUME NEW d \in CRs, StillRuns, SameApplied, SameConverged,
           obj[d].reconciled,
           \A c \in CRs : Passed(c)' <=> Passed(c) \/ c = d
    PROVE  Hook!Next
<1>1. {c \in CRs : obj[c].applied}' = {c \in CRs : obj[c].applied}
  BY DEF SameApplied
<1>2. {c \in CRs : obj[c].reconciled}' = {c \in CRs : obj[c].reconciled}
  BY DEF SameConverged
<1>3. {c \in CRs : Passed(c)}' = {c \in CRs : Passed(c)} \cup {d}
  OBVIOUS
<1>4. d \in {c \in CRs : obj[c].reconciled}
  OBVIOUS
<1>5. Hook!Accept(d)
  BY <1>1, <1>2, <1>3, <1>4, RunningOutcome DEF Hook!Accept, StillRuns
<1> QED
  BY <1>5 DEF Hook!Next

\* The process ends; with success only when all resources are left behind.
LEMMA HookEnds ==
    ASSUME SameApplied, SameConverged, SamePassed, exit = "running",
           Outcome' \in {"success", "failure", "interrupted"},
           Outcome' = "success" => \A c \in CRs : Passed(c)
    PROVE  Hook!Next
<1>1. {c \in CRs : obj[c].applied}' = {c \in CRs : obj[c].applied}
  BY DEF SameApplied
<1>2. {c \in CRs : obj[c].reconciled}' = {c \in CRs : obj[c].reconciled}
  BY DEF SameConverged
<1>3. {c \in CRs : Passed(c)}' = {c \in CRs : Passed(c)}
  BY DEF SamePassed
<1>4. CASE Outcome' = "success"
  <2>1. {c \in CRs : Passed(c)} = CRs
    BY <1>4
  <2>2. Hook!Succeed
    BY <1>1, <1>2, <1>3, <1>4, <2>1, RunningOutcome DEF Hook!Succeed
  <2> QED
    BY <2>2 DEF Hook!Next
<1>5. CASE Outcome' # "success"
  <2>1. Hook!GiveUp
    BY <1>1, <1>2, <1>3, <1>5, RunningOutcome DEF Hook!GiveUp
  <2> QED
    BY <2>1 DEF Hook!Next
<1> QED
  BY <1>4, <1>5

\* A generator that moves within its creating, or within its waiting, leaves
\* nothing behind unless it goes to unregister.
LEMMA PassedKept ==
    ASSUME TypeOK, NEW k \in Kinds, NEW label, Goto(k, label), UNCHANGED idx,
           \/ pc[k] \in Creating /\ label \in Creating
           \/ /\ pc[k] \in Waiting \ {"unregister"}
              /\ label \in Waiting \ {"unregister"}
    PROVE  SamePassed
<1> SUFFICES ASSUME NEW c \in CRs PROVE Passed(c)' = Passed(c)
  BY DEF SamePassed
<1>1. KindOf[c] \in Kinds
  BY DeclaredAre
<1>2. CASE KindOf[c] # k
  <2>1. pc'[KindOf[c]] = pc[KindOf[c]]
    BY <1>1, <1>2 DEF Goto, TypeOK
  <2> QED
    BY <2>1 DEF Passed, Cur
<1>3. CASE KindOf[c] = k
  <2>1. /\ pc'[k] = label /\ label \notin {"done", "unregister"}
        /\ pc[k] \notin {"done", "unregister"}
        /\ label \in Waiting <=> pc[k] \in Waiting
    BY DEF Goto, TypeOK, Creating, Waiting, Listening, Owning
  <2> QED
    BY <1>3, <2>1 DEF Passed
<1> QED
  BY <1>2, <1>3

\* A generator that goes to unregister leaves its resource behind.
LEMMA PassedGrows ==
    ASSUME TypeOK, NEW k \in Kinds, Goto(k, "unregister"), UNCHANGED idx,
           pc[k] \in Waiting \ {"unregister"}
    PROVE  \A c \in CRs : Passed(c)' <=> Passed(c) \/ c = Cur(k)
<1> SUFFICES ASSUME NEW c \in CRs
             PROVE  Passed(c)' <=> Passed(c) \/ c = Cur(k)
  OBVIOUS
<1>1. KindOf[c] \in Kinds /\ KindOf[Cur(k)] = k
  BY DeclaredAre, CurIsDeclared DEF Waiting, Listening, Owning
<1>2. CASE KindOf[c] # k
  <2>1. pc'[KindOf[c]] = pc[KindOf[c]] /\ c # Cur(k)
    BY <1>1, <1>2 DEF Goto, TypeOK
  <2> QED
    BY <2>1 DEF Passed, Cur
<1>3. CASE KindOf[c] = k
  <2>1. /\ pc'[k] = "unregister" /\ "unregister" \in Waiting
        /\ pc[k] \in Waiting /\ pc[k] \notin {"done", "unregister"}
    BY DEF Goto, TypeOK, Waiting, Listening, Owning
  <2> QED
    BY <1>3, <2>1 DEF Passed, Cur
<1> QED
  BY <1>2, <1>3

\* The creator leaves nothing behind.
LEMMA PassedWhileCreating ==
    ASSUME TypeOK, NEW k \in Kinds, pc[k] \in Creating, NextToCreate(k)
    PROVE  SamePassed
<1> SUFFICES ASSUME NEW c \in CRs PROVE Passed(c)' = Passed(c)
  BY DEF SamePassed
<1>1. KindOf[c] \in Kinds
  BY DeclaredAre
<1>2. /\ pc'[k] = "get" \/ (pc'[k] = "watch" /\ idx'[k] = 1)
      /\ \A l \in Kinds \ {k} : pc'[l] = pc[l] /\ idx'[l] = idx[l]
  BY DEF NextToCreate, Goto, TypeOK
<1>3. CASE KindOf[c] # k
  BY <1>1, <1>2, <1>3 DEF Passed, Cur
<1>4. CASE KindOf[c] = k
  <2>1. ~Passed(c)
    BY <1>4 DEF Passed, Creating, Waiting, Listening, Owning
  <2>2. \A i \in 1..Len(Declared[k]) : ~(i < 1)
    BY ConstantTypes
  <2>3. ~Passed(c)'
    BY <1>2, <1>4, <2>2 DEF Passed, Waiting, Listening, Owning
  <2> QED
    BY <2>1, <2>3 DEF Passed
<1> QED
  BY <1>3, <1>4

\* Moving on to the next resource leaves nothing more behind.
LEMMA PassedByUnregister ==
    ASSUME TypeOK, NEW k \in Kinds, Unregister(k)
    PROVE  SamePassed
<1> SUFFICES ASSUME NEW c \in CRs PROVE Passed(c)' = Passed(c)
  BY DEF SamePassed
<1>1. KindOf[c] \in Kinds
  BY DeclaredAre
<1>2. /\ pc[k] = "unregister" /\ idx[k] \in 1..Len(Declared[k])
      /\ Len(Declared[k]) \in Nat
      /\ \/ pc'[k] = "watch" /\ idx'[k] = idx[k] + 1
         \/ pc'[k] = "done" /\ idx[k] = Len(Declared[k])
      /\ \A l \in Kinds \ {k} : pc'[l] = pc[l] /\ idx'[l] = idx[l]
  BY ConstantTypes, SMTT(30) DEF Unregister, Local, Goto, TypeOK
<1>3. CASE KindOf[c] # k
  BY <1>1, <1>2, <1>3 DEF Passed, Cur
<1>4. CASE KindOf[c] = k
  <2>1. PICK i \in 1..Len(Declared[k]) : Declared[k][i] = c
    BY <1>4, DeclaredAre
  <2>2. \A j \in 1..Len(Declared[k]) : Declared[k][j] = c => j = i
    BY <2>1, DeclaredAre
  <2>3. Passed(c) <=> i <= idx[k]
    BY <1>2, <1>4, <2>1, <2>2 DEF Passed, Cur, Waiting, Listening
  <2>4. Passed(c)' <=> i <= idx[k]
    BY <1>2, <1>4, <2>1, <2>2 DEF Passed, Cur, Waiting, Listening, Owning
  <2> QED
    BY <2>3, <2>4 DEF Passed
<1> QED
  BY <1>3, <1>4

\* With everything the promise speaks of as it was, and the process running.
LEMMA RunningStutter ==
    ASSUME UNCHANGED obj, SamePassed, UNCHANGED <<exit, ctx>> \/ StillRuns
    PROVE  UNCHANGED Hook!vars
<1>1. SameApplied /\ SameConverged
  BY DEF SameApplied, SameConverged
<1>2. Outcome' = Outcome
  BY DEF Outcome, StillRuns
<1> QED
  BY <1>1, <1>2, HookStutters

\* With the positions of the generators as they were.
LEMMA SamePlaces == UNCHANGED <<pc, idx>> => SamePassed
BY DEF SamePassed, Passed, Cur

\* The process ends by a panic or an error.
LEMMA FailureEnds ==
    ASSUME exit = "running", exit' \in {"failure", "panic"},
           UNCHANGED <<obj, pc, idx>>
    PROVE  Hook!Next
<1>1. SameApplied /\ SameConverged /\ SamePassed
  BY SamePlaces DEF SameApplied, SameConverged
<1>2. Outcome' = "failure"
  BY DEF Outcome
<1> QED
  BY <1>1, <1>2, HookEnds

\* Every step of a generator is a step of the promise.
LEMMA GeneratorRefines ==
    ASSUME ~StatusSubresource, IInv, NEW k \in Kinds, Generator(k)
    PROVE  [Hook!Next]_Hook!vars
<1>0. TypeOK
  BY DEF IInv
<1>1. CASE \/ CreatorPanics(k) \/ WaiterFails(k) \/ RetriesExhausted(k)
           \/ ApiFatal(k)
  <2>1. /\ exit = "running" /\ exit' \in {"failure", "panic"}
        /\ UNCHANGED <<obj, pc, idx>>
    BY <1>1 DEF CreatorPanics, WaiterFails, RetriesExhausted, ApiFatal, Local,
       Running
  <2> QED
    BY <2>1, FailureEnds
<1>2. CASE \/ CreatorFinds(k) \/ CreatorFindsNone(k) \/ OpenWatch(k)
           \/ ReuseWatch(k) \/ Register(k) \/ SendEvent(k) \/ DeplFound(k)
           \/ RetryGet(k) \/ RetryConflict(k)
  <2>1. PICK label : /\ Goto(k, label)
                     /\ \/ pc[k] \in Creating /\ label \in Creating
                        \/ /\ pc[k] \in Waiting \ {"unregister"}
                           /\ label \in Waiting \ {"unregister"}
    BY <1>2 DEF CreatorFinds, CreatorFindsNone, OpenWatch, ReuseWatch,
       Register, SendEvent, DeplFound, RetryGet, RetryConflict, Calls, Local,
       Creating, Waiting, Listening, Owning
  <2>2. UNCHANGED <<obj, idx, exit, ctx>>
    BY <1>2 DEF CreatorFinds, CreatorFindsNone, OpenWatch, ReuseWatch,
       Register, SendEvent, DeplFound, RetryGet, RetryConflict
  <2> QED
    BY <1>0, <2>1, <2>2, PassedKept, RunningStutter
<1>3. CASE Receive(k)
  <2>1. \A p : Verdict(p) \in {"ownGet", "report", "select"}
    BY DEF Verdict
  <2>2. PICK label : /\ Goto(k, label) /\ pc[k] = "select"
                     /\ label \in {"ownGet", "report", "select"}
    BY <1>3, <2>1 DEF Receive, Local
  <2>3. pc[k] \in Waiting \ {"unregister"} /\ label \in Waiting \ {"unregister"}
    BY <2>2 DEF Waiting, Listening, Owning
  <2> QED
    BY <1>0, <1>3, <2>2, <2>3, PassedKept, RunningStutter DEF Receive
<1>4. CASE CreatorCreates(k) \/ CreatorUpdates(k)
  <2>1. /\ pc[k] \in Creating /\ Cur(k) \in CRs /\ StillRuns
        /\ NextToCreate(k)
    BY <1>0, <1>4, CurIsDeclared DEF CreatorCreates, CreatorUpdates, Calls,
       Creating, Running, StillRuns
  <2>2. PICK o : Write(Cur(k), o) /\ o.applied /\ ~o.reconciled
    BY <1>4 DEF CreatorCreates, CreatorUpdates, Created, Replaced
  <2>3. obj' = [obj EXCEPT ![Cur(k)] = o] /\ obj \in [CRs -> Object]
    BY <1>0, <2>2 DEF Write, TypeOK
  <2>4. obj[Cur(k)].reconciled = FALSE /\ o.reconciled = FALSE
    <3>1. idx[k] \in 1..Len(Declared[k]) /\ idx[k] >= idx[k]
      BY <1>0, <2>1, CurIsDeclared, ConstantTypes DEF Creating
    <3>2. ~obj[Cur(k)].reconciled /\ obj[Cur(k)].reconciled \in BOOLEAN
      BY <2>1, <2>3, <3>1 DEF IInv, CreationProgress, Cur, Object
    <3>3. o.reconciled = FALSE
      BY <1>4, <2>1, <2>2, <2>3 DEF CreatorCreates, CreatorUpdates, Created,
         Replaced, Write
    <3> QED
      BY <3>2, <3>3
  <2>5. SameConverged
    BY <2>3, <2>4 DEF SameConverged
  <2>6. \A c \in CRs : obj'[c].applied <=> obj[c].applied \/ c = Cur(k)
    BY <2>1, <2>2, <2>3
  <2> QED
    BY <1>0, <2>1, <2>5, <2>6, PassedWhileCreating, HookApplies
<1>5. CASE OwnGet(k)
  <2>1. /\ pc[k] = "ownGet" /\ Cur(k) \in CRs /\ StillRuns
        /\ UNCHANGED <<obj, idx>>
        /\ obj[Cur(k)].reconciled
    BY <1>0, <1>5, CurIsDeclared DEF OwnGet, Calls, Running, StillRuns, IInv,
       PassedReconciled, Owning
  <2>2. pc[k] \in Waiting \ {"unregister"} /\ "deplGet" \in Waiting
    BY <2>1 DEF Waiting, Listening, Owning
  <2>3. CASE Goto(k, "deplGet")
    BY <1>0, <2>1, <2>2, <2>3, PassedKept, RunningStutter
  <2>4. CASE Goto(k, "unregister")
    BY <1>0, <2>1, <2>2, <2>4, PassedGrows, HookAccepts
    DEF SameApplied, SameConverged
  <2> QED
    BY <1>5, <2>3, <2>4 DEF OwnGet
<1>6. CASE DeplMissing(k)
  <2>1. /\ pc[k] = "deplGet" /\ Cur(k) \in CRs /\ StillRuns
        /\ Goto(k, "unregister")
        /\ UNCHANGED <<obj, idx>>
        /\ obj[Cur(k)].reconciled
    BY <1>0, <1>6, CurIsDeclared DEF DeplMissing, Local, Running, StillRuns,
       IInv, PassedReconciled, Owning
  <2>2. pc[k] \in Waiting \ {"unregister"}
    BY <2>1 DEF Waiting, Listening, Owning
  <2> QED
    BY <1>0, <2>1, <2>2, PassedGrows, HookAccepts DEF SameApplied, SameConverged
<1>7. CASE RetryUpdate(k)
  <2>1. /\ pc[k] = "retryUpdate" /\ Cur(k) \in CRs /\ StillRuns
        /\ Goto(k, "unregister")
        /\ UNCHANGED idx
        /\ obj[Cur(k)].reconciled
        /\ obj' = [obj EXCEPT ![Cur(k)] = Owned(copy[k])]
        /\ copy[k] = obj[Cur(k)]
    BY <1>0, <1>7, CurIsDeclared DEF RetryUpdate, Calls, Running, StillRuns,
       IInv, PassedReconciled, CopyFresh, Owning, Write
  <2>2. pc[k] \in Waiting \ {"unregister"}
    BY <2>1 DEF Waiting, Listening, Owning
  <2>3. SameApplied /\ SameConverged
    BY <1>0, <2>1 DEF SameApplied, SameConverged, Owned, TypeOK
  <2> QED
    BY <1>0, <2>1, <2>2, <2>3, PassedGrows, HookAccepts
<1>8. CASE Unregister(k)
  BY <1>0, <1>8, PassedByUnregister, RunningStutter DEF Unregister
<1> QED
  BY <1>1, <1>2, <1>3, <1>4, <1>5, <1>6, <1>7, <1>8 DEF Generator

\* Every step is a step of the promise, or one the deployment does not see.
LEMMA StepRefines ==
    ~StatusSubresource /\ IInv /\ [Next]_vars => [Hook!Next]_Hook!vars
<1> SUFFICES ASSUME ~StatusSubresource, IInv, [Next]_vars
             PROVE  [Hook!Next]_Hook!vars
  OBVIOUS
<1>0. TypeOK
  BY DEF IInv
<1>1. CASE StartGenerators
  <2>1. SamePassed
    <3> SUFFICES ASSUME NEW c \in CRs PROVE Passed(c)' = Passed(c)
      BY DEF SamePassed
    <3>1. /\ pc[KindOf[c]] = "prepare"
          /\ pc'[KindOf[c]] = IF Declared[KindOf[c]] = <<>> THEN "done" ELSE "get"
      BY <1>1, DeclaredAre DEF StartGenerators
    <3>2. Declared[KindOf[c]] # <<>>
      <4>1. Len(Declared[KindOf[c]]) # 0
        BY DeclaredAre
      <4> QED
        BY <4>1, EmptySeq
    <3> QED
      BY <3>1, <3>2 DEF Passed, Waiting, Listening, Owning
  <2> QED
    BY <1>1, <2>1, RunningStutter DEF StartGenerators
<1>2. ASSUME NEW k \in Kinds, WaiterTimesOut(k) PROVE [Hook!Next]_Hook!vars
  <2>1. pc[k] \in Waiting \ {"unregister"} /\ "report" \in Waiting
    BY <1>2 DEF WaiterTimesOut, Local, Waiting, Listening, Owning
  <2> QED
    BY <1>0, <1>2, <2>1, PassedKept, RunningStutter DEF WaiterTimesOut
<1>3. ASSUME NEW k \in Kinds, Pump(k) \/ CloseWatch(k)
      PROVE  [Hook!Next]_Hook!vars
  BY <1>3, SamePlaces, RunningStutter
  DEF Pump, PumpDrops, PumpTakes, PumpDelivers, PumpExits, CloseWatch
<1>4. ASSUME NEW c \in CRs, OtherOwner(c) PROVE [Hook!Next]_Hook!vars
  <2>1. obj' = [obj EXCEPT ![c] = Taken(obj[c])] /\ StillRuns
    BY <1>4 DEF OtherOwner, MayWrite, Observed, Running, StillRuns, Write
  <2>2. SameApplied /\ SameConverged
    BY <1>0, <2>1 DEF SameApplied, SameConverged, Taken, TypeOK
  <2>3. SamePassed /\ Outcome' = Outcome
    BY <1>4, <2>1, SamePlaces, RunningOutcome DEF OtherOwner, StillRuns
  <2> QED
    BY <2>2, <2>3, HookStutters
<1>5. ASSUME NEW c \in CRs, OperatorReports(c) PROVE [Hook!Next]_Hook!vars
  <2>1. PICK p \in Phases : Write(c, Reported(obj[c], p))
    BY <1>5 DEF OperatorReports
  <2>2. /\ obj' = [obj EXCEPT ![c] = Reported(obj[c], p)]
        /\ obj \in [CRs -> Object] /\ StillRuns
    BY <1>0, <1>5, <2>1 DEF OperatorReports, MayWrite, Observed, Running,
       StillRuns, Write, TypeOK
  <2>3. SamePassed /\ Outcome' = Outcome
    BY <1>5, <2>2, SamePlaces, RunningOutcome DEF OperatorReports, StillRuns
  <2>4. SameApplied
    BY <2>2 DEF SameApplied, Reported
  <2>5. /\ \A d \in CRs \ {c} : obj'[d] = obj[d]
        /\ obj'[c].reconciled = (obj[c].reconciled
                                   \/ (obj[c].applied /\ p = "Updated"))
    BY <2>2 DEF Reported
  <2>6. CASE obj[c].applied /\ p = "Updated"
    <3>1. \A d \in CRs : obj'[d].reconciled <=> obj[d].reconciled \/ d = c
      BY <2>5, <2>6
    <3> QED
      BY <2>2, <2>3, <2>4, <2>6, <3>1, HookConverges
  <2>7. CASE ~(obj[c].applied /\ p = "Updated")
    <3>1. obj[c].reconciled \in BOOLEAN
      BY <2>2 DEF Object
    <3>2. SameConverged
      BY <2>5, <2>7, <3>1 DEF SameConverged
    <3> QED
      BY <2>3, <2>4, <3>2, HookStutters
  <2> QED
    BY <2>6, <2>7
<1>6. CASE RunReturns \/ Signal
  <2>1. StillRuns /\ UNCHANGED <<obj, pc, idx>>
    BY <1>6 DEF RunReturns, Signal, Running, StillRuns
  <2> QED
    BY <2>1, SamePlaces, RunningStutter
<1>7. CASE MainReturns
  <2>1. /\ exit = "running" /\ exit' = "zero" /\ UNCHANGED <<obj, pc, idx, ctx>>
    BY <1>7 DEF MainReturns, Running
  <2>2. SameApplied /\ SameConverged /\ SamePassed
    BY <2>1, SamePlaces DEF SameApplied, SameConverged
  <2>3. /\ Outcome' \in {"success", "interrupted"}
        /\ Outcome' = "success" => ctx = "stopped"
    BY <2>1 DEF Outcome
  <2>4. ctx = "stopped" => \A c \in CRs : Passed(c)
    BY DeclaredAre DEF IInv, StoppedMeansDone, Passed
  <2> QED
    BY <2>1, <2>2, <2>3, <2>4, HookEnds
<1>8. CASE Finished \/ UNCHANGED vars
  BY <1>8, SamePlaces, RunningStutter DEF Finished
<1> QED
  BY <1>2, <1>3, <1>4, <1>5, <1>6, <1>7, <1>8, <1>1, GeneratorRefines DEF Next

\* Nothing is applied, converged or accepted when the hook starts.
LEMMA InitRefines == Init => Hook!Init
<1> SUFFICES ASSUME Init PROVE Hook!Init
  OBVIOUS
<1>1. \A c \in CRs : obj[c].applied = FALSE /\ obj[c].reconciled = FALSE
  BY DEF Init, Prior, Absent
<1>2. \A c \in CRs : ~Passed(c)
  BY DeclaredAre DEF Init, Passed, Waiting, Listening, Owning
<1>3. Outcome = "running"
  BY DEF Init, Outcome
<1> QED
  BY <1>1, <1>2, <1>3 DEF Hook!Init

\* The hook keeps what DeployHook promises, for any number of kinds and
\* resources, whatever the watch, the operators and the other clients do.
THEOREM Implements ==
    ASSUME ~StatusSubresource PROVE Spec => ImplementsDeployHook
<1>1. [Next]_vars /\ IInv => [Hook!Next]_Hook!vars
  BY StepRefines
<1>2. IInv /\ [Next]_vars => IInv'
  BY StepIInv
<1> QED
  BY <1>1, <1>2, InitIInv, InitRefines, PTL
  DEF Spec, ImplementsDeployHook, Hook!Spec

-----------------------------------------------------------------------------
(* What success means also where a PUT leaves the status in place *)

\* The resources the creator has passed are applied, all once it is through.
Applying ==
    \A k \in Kinds : \A i \in 1..Len(Declared[k]) :
        \/ pc[k] \in Creating /\ i < idx[k]
        \/ pc[k] \in Waiting \cup {"done"}
        => obj[Declared[k][i]].applied

\* No write takes the declared spec away: setOwnerRef's writes back what is
\* stored, and the others leave it.
LEMMA AppliedStays ==
    ASSUME TypeOK, CopyFresh, [Next]_vars, NEW c \in CRs, obj[c].applied
    PROVE  obj'[c].applied
<1>1. ASSUME NEW k \in Kinds, RetryUpdate(k) PROVE obj'[c].applied
  <2>1. /\ obj' = [obj EXCEPT ![Cur(k)] = Owned(copy[k])]
        /\ copy[k] = obj[Cur(k)] /\ Cur(k) \in CRs
    BY <1>1, CurIsDeclared DEF RetryUpdate, Calls, Write, CopyFresh
  <2> QED
    BY <2>1 DEF Owned, TypeOK
<1>2. ASSUME NEW k \in Kinds, CreatorCreates(k) \/ CreatorUpdates(k)
      PROVE  obj'[c].applied
  <2>1. PICK o : obj' = [obj EXCEPT ![Cur(k)] = o] /\ o.applied
    BY <1>2 DEF CreatorCreates, CreatorUpdates, Created, Replaced, Write
  <2> QED
    BY <2>1 DEF TypeOK
<1>3. ASSUME NEW d \in CRs, OperatorReports(d) \/ OtherOwner(d)
      PROVE  obj'[c].applied
  <2>1. PICK o : obj' = [obj EXCEPT ![d] = o] /\ o.applied = obj[d].applied
    <3>1. CASE OperatorReports(d)
      <4>1. PICK p : obj' = [obj EXCEPT ![d] = Reported(obj[d], p)]
        BY <3>1 DEF OperatorReports, Write
      <4>2. Reported(obj[d], p).applied = obj[d].applied
        BY DEF Reported
      <4> QED
        BY <4>1, <4>2
    <3>2. CASE OtherOwner(d)
      <4>1. obj' = [obj EXCEPT ![d] = Taken(obj[d])]
        BY <3>2 DEF OtherOwner, Write
      <4>2. Taken(obj[d]).applied = obj[d].applied
        BY DEF Taken
      <4> QED
        BY <4>1, <4>2
    <3> QED
      BY <1>3, <3>1, <3>2
  <2> QED
    BY <2>1 DEF TypeOK
<1>4. CASE UNCHANGED obj
  BY <1>4
<1> QED
  BY <1>1, <1>2, <1>3, <1>4, KeptCopies, KeptElsewhere, SMTT(40)
  DEF Next, Generator, StartGenerators

\* A generator that stays where it is, within its creating, or within its
\* waiting.
Steady(l) ==
    \/ pc'[l] = pc[l] /\ idx'[l] = idx[l]
    \/ pc[l] \in Creating /\ pc'[l] \in Creating /\ idx'[l] = idx[l]
    \/ pc[l] \in Waiting /\ pc'[l] \in Waiting \cup {"done"}

\* All of a generator's steps but the creator's writes are of this kind.
LEMMA SteadySteps ==
    ASSUME TypeOK, NEW k \in Kinds,
           \/ Generator(k) /\ ~CreatorCreates(k) /\ ~CreatorUpdates(k)
           \/ WaiterTimesOut(k)
    PROVE  \A l \in Kinds : Steady(l)
<1> USE DEF Creating, Waiting, Listening, Owning
<1>1. CASE \/ CreatorPanics(k) \/ CreatorFinds(k) \/ CreatorFindsNone(k)
           \/ OpenWatch(k) \/ ReuseWatch(k) \/ Register(k)
  BY <1>1 DEF CreatorPanics, CreatorFinds, CreatorFindsNone, OpenWatch,
     ReuseWatch, Register, Calls, Local, Goto, Steady, TypeOK
<1>2. CASE \/ SendEvent(k) \/ WaiterFails(k) \/ OwnGet(k) \/ DeplFound(k)
           \/ DeplMissing(k) \/ RetriesExhausted(k) \/ ApiFatal(k)
  BY <1>2 DEF SendEvent, WaiterFails, OwnGet, DeplFound, DeplMissing,
     RetriesExhausted, ApiFatal, Calls, Local, Goto, Steady, TypeOK
<1>3. CASE \/ RetryGet(k) \/ RetryConflict(k) \/ RetryUpdate(k)
           \/ WaiterTimesOut(k)
  BY <1>3 DEF RetryGet, RetryConflict, RetryUpdate, WaiterTimesOut, Calls,
     Local, Goto, Steady, TypeOK
<1>4. CASE Receive(k)
  <2>1. \A phase : Verdict(phase) \in {"ownGet", "report", "select"}
    BY DEF Verdict
  <2> QED
    BY <1>4, <2>1 DEF Receive, Local, Goto, Steady, TypeOK
<1>5. CASE Unregister(k)
  <2>1. /\ pc[k] = "unregister" /\ pc'[k] \in {"watch", "done"}
        /\ \A l \in Kinds \ {k} : pc'[l] = pc[l] /\ idx'[l] = idx[l]
    BY <1>5 DEF Unregister, Local, Goto, TypeOK
  <2> QED
    BY <2>1 DEF Steady
<1> QED
  BY <1>1, <1>2, <1>3, <1>4, <1>5 DEF Generator

\* The creator goes on to the next resource only with this one applied.
LEMMA ApplyingWrite ==
    ASSUME TypeOK, TypeOK', Applying, NEW k \in Kinds,
           CreatorCreates(k) \/ CreatorUpdates(k),
           \A c \in CRs : obj[c].applied => obj'[c].applied
    PROVE  Applying'
<1>1. /\ pc[k] \in Creating /\ idx[k] \in 1..Len(Declared[k])
      /\ Cur(k) \in CRs /\ Len(Declared[k]) \in Nat
  BY CurIsDeclared, ConstantTypes
  DEF CreatorCreates, CreatorUpdates, Calls, Creating, TypeOK
<1>2. obj'[Cur(k)].applied
  BY <1>1 DEF CreatorCreates, CreatorUpdates, Write, Created, Replaced, TypeOK
<1>3. /\ \/ /\ idx[k] < Len(Declared[k]) /\ idx'[k] = idx[k] + 1
            /\ pc'[k] = "get"
         \/ idx[k] = Len(Declared[k]) /\ pc'[k] = "watch"
      /\ \A l \in Kinds \ {k} : pc'[l] = pc[l] /\ idx'[l] = idx[l]
  BY <1>1 DEF CreatorCreates, CreatorUpdates, NextToCreate, Goto, TypeOK
<1>4. SUFFICES ASSUME NEW l \in Kinds, NEW i \in 1..Len(Declared[l]),
                      \/ pc'[l] \in Creating /\ i < idx'[l]
                      \/ pc'[l] \in Waiting \cup {"done"}
               PROVE  obj'[Declared[l][i]].applied
  BY DEF Applying
<1>5. Declared[l][i] \in CRs
  BY DeclaredAre
<1>6. CASE l # k
  BY <1>3, <1>4, <1>5, <1>6 DEF Applying
<1>7. CASE l = k
  <2>1. i <= idx[k]
    BY <1>1, <1>3, <1>4, <1>7 DEF Creating, Waiting, Listening, Owning
  <2>2. CASE i = idx[k]
    BY <1>2, <1>7, <2>2 DEF Cur
  <2>3. CASE i < idx[k]
    BY <1>1, <1>5, <1>7, <2>3 DEF Applying
  <2> QED
    BY <1>1, <1>7, <2>1, <2>2, <2>3
<1> QED
  BY <1>6, <1>7

\* Every step keeps it.
LEMMA ApplyingStep ==
    TypeOK /\ TypeOK' /\ CopyFresh /\ Applying /\ [Next]_vars => Applying'
<1> SUFFICES ASSUME TypeOK, TypeOK', CopyFresh, Applying, [Next]_vars
             PROVE  Applying'
  OBVIOUS
<1>1. \A c \in CRs : obj[c].applied => obj'[c].applied
  BY AppliedStays
<1>2. ASSUME \A l \in Kinds : Steady(l) PROVE Applying'
  <2> SUFFICES ASSUME NEW l \in Kinds, NEW i \in 1..Len(Declared[l]),
                      \/ pc'[l] \in Creating /\ i < idx'[l]
                      \/ pc'[l] \in Waiting \cup {"done"}
               PROVE  obj'[Declared[l][i]].applied
    BY DEF Applying
  <2>1. Declared[l][i] \in CRs
    BY DeclaredAre
  <2>2. \/ pc[l] \in Creating /\ i < idx[l]
        \/ pc[l] \in Waiting \cup {"done"}
    BY <1>2 DEF Steady, Creating, Waiting, Listening, Owning
  <2> QED
    BY <1>1, <2>1, <2>2 DEF Applying
<1>3. CASE StartGenerators
  <2> SUFFICES ASSUME NEW l \in Kinds, NEW i \in 1..Len(Declared[l]),
                      \/ pc'[l] \in Creating /\ i < idx'[l]
                      \/ pc'[l] \in Waiting \cup {"done"}
               PROVE  FALSE
    BY DEF Applying
  <2>1. pc[l] = "prepare" /\ idx'[l] = 1 /\ Declared[l] # <<>>
    BY <1>3, ConstantTypes DEF StartGenerators, TypeOK
  <2>2. pc'[l] = "get"
    BY <1>3, <2>1 DEF StartGenerators
  <2> QED
    BY <2>1, <2>2, ConstantTypes DEF Waiting, Listening, Owning
<1>4. ASSUME NEW k \in Kinds, CreatorCreates(k) \/ CreatorUpdates(k)
      PROVE  Applying'
  BY <1>1, <1>4, ApplyingWrite
<1>5. ASSUME NEW k \in Kinds,
             \/ Generator(k) /\ ~CreatorCreates(k) /\ ~CreatorUpdates(k)
             \/ WaiterTimesOut(k)
      PROVE  Applying'
  BY <1>2, <1>5, SteadySteps
<1>6. CASE UNCHANGED <<pc, idx>>
  BY <1>2, <1>6 DEF Steady
<1>7. CASE \/ \E k \in Kinds : Pump(k) \/ CloseWatch(k)
           \/ \E c \in CRs : OperatorReports(c) \/ OtherOwner(c)
           \/ RunReturns \/ Signal \/ MainReturns \/ Finished
  BY <1>6, <1>7
  DEF Pump, PumpDrops, PumpTakes, PumpDelivers, PumpExits, CloseWatch,
      OperatorReports, OtherOwner, RunReturns, Signal, MainReturns, Finished
<1> QED
  BY <1>3, <1>4, <1>5, <1>6, <1>7 DEF Next, vars

\* The context is stopped only when all generators are done, and they stay so.
LEMMA StoppedStep ==
    TypeOK /\ StoppedMeansDone /\ [Next]_vars => StoppedMeansDone'
<1> SUFFICES ASSUME TypeOK, StoppedMeansDone, [Next]_vars, ctx' = "stopped"
             PROVE  \A k \in Kinds : pc'[k] = "done"
  BY DEF StoppedMeansDone
<1>1. CASE RunReturns
  BY <1>1 DEF RunReturns
<1>2. CASE ~RunReturns
  <2>1. ctx = "stopped"
    <3>1. ASSUME NEW k \in Kinds, Generator(k) \/ WaiterTimesOut(k)
          PROVE  ctx' = ctx
      BY <3>1 DEF Generator, CreatorPanics, CreatorFinds, CreatorFindsNone,
         CreatorCreates, CreatorUpdates, OpenWatch, ReuseWatch, Register,
         Receive, SendEvent, WaiterFails, OwnGet, DeplFound, DeplMissing,
         RetryGet, RetryUpdate, RetryConflict, RetriesExhausted, Unregister,
         ApiFatal, WaiterTimesOut
    <3>2. CASE \/ \E k \in Kinds : Pump(k) \/ CloseWatch(k)
               \/ \E c \in CRs : OperatorReports(c) \/ OtherOwner(c)
               \/ MainReturns \/ Finished \/ StartGenerators
      BY <3>2 DEF Pump, PumpDrops, PumpTakes, PumpDelivers, PumpExits,
         CloseWatch, OperatorReports, OtherOwner, MainReturns, Finished,
         StartGenerators
    <3>3. CASE Signal
      BY <3>3 DEF Signal
    <3> QED
      BY <1>2, <3>1, <3>2, <3>3 DEF Next
  <2>2. \A k \in Kinds : pc[k] = "done"
    BY <2>1 DEF StoppedMeansDone
  <2>3. ASSUME NEW k \in Kinds PROVE ~Generator(k) /\ ~WaiterTimesOut(k)
    BY <2>1, <2>2 DEF Generator, CreatorPanics, CreatorFinds,
       CreatorFindsNone, CreatorCreates, CreatorUpdates, OpenWatch, ReuseWatch,
       Register, Receive, SendEvent, WaiterFails, OwnGet, DeplFound,
       DeplMissing, RetryGet, RetryUpdate, RetryConflict, RetriesExhausted,
       Unregister, ApiFatal, WaiterTimesOut, Calls, Local
  <2>4. ~StartGenerators
    BY <2>1 DEF StartGenerators
  <2>5. UNCHANGED pc
    BY <1>2, <2>3, <2>4 DEF Next, Pump, PumpDrops, PumpTakes, PumpDelivers,
       PumpExits, CloseWatch, OperatorReports, OtherOwner, Signal,
       MainReturns, Finished
  <2> QED
    BY <2>2, <2>5
<1> QED
  BY <1>1, <1>2

\* Whether or not a PUT replaces the status, and whatever the operators and the
\* other clients write, success means that the declared spec of every resource
\* is the stored one: no conflict and no later write of the hook itself, the
\* owner's included, has put an earlier one back.
THEOREM SuccessMeansApplied ==
    Spec => [](exit = "zero" /\ ctx = "stopped" =>
                   \A c \in CRs : obj[c].applied)
<1>1. Init => Applying /\ StoppedMeansDone
  BY DEF Init, Applying, StoppedMeansDone, Creating, Waiting, Listening, Owning
<1>2. TypeOK /\ Applying /\ StoppedMeansDone =>
         (exit = "zero" /\ ctx = "stopped" => \A c \in CRs : obj[c].applied)
  <2> SUFFICES ASSUME Applying, StoppedMeansDone, ctx = "stopped", NEW c \in CRs
               PROVE  obj[c].applied
    OBVIOUS
  <2>1. KindOf[c] \in Kinds /\ pc[KindOf[c]] = "done"
    BY DeclaredAre DEF StoppedMeansDone
  <2> QED
    BY <2>1, DeclaredAre DEF Applying
<1> QED
  BY <1>1, <1>2, TypeInit, TypeStep, FreshInit, FreshStep, ApplyingStep,
     StoppedStep, PTL DEF Spec

-----------------------------------------------------------------------------
(* How long a generator takes *)

Stage(k) == CASE pc[k] = "prepare" -> 0
              [] pc[k] \in Creating -> 1
              [] pc[k] \in Waiting -> 2
              [] OTHER -> 3

\* Where a generator is with the resource it is at.
Rank(k) == CASE pc[k] \in {"get", "watch"} -> 1
             [] pc[k] \in {"create", "update", "register"} -> 2
             [] pc[k] = "select" -> 3
             [] pc[k] = "ownGet" -> 4
             [] pc[k] = "deplGet" -> 5
             [] pc[k] = "retryGet" -> 6 + 2 * tries[k]
             [] pc[k] = "retryUpdate" -> 7 + 2 * tries[k]
             [] pc[k] = "unregister" -> 8 + 2 * MaxRetry
             [] pc[k] = "report" -> 9 + 2 * MaxRetry
             [] pc[k] = "sleep" -> 10 + 2 * MaxRetry
             [] OTHER -> 0

LastRank == 10 + 2 * MaxRetry

\* A generator goes on: to a later stage, to a later resource, or further with
\* the resource it is at.
Forward(k) ==
    \/ Stage(k)' > Stage(k)
    \/ Stage(k)' = Stage(k) /\ idx'[k] > idx[k]
    \/ Stage(k)' = Stage(k) /\ idx'[k] = idx[k] /\ Rank(k)' > Rank(k)

\* The numbers above are bounded.
LEMMA RankType ==
    ASSUME TypeOK, NEW k \in Kinds
    PROVE  Stage(k) \in 0..3 /\ Rank(k) \in 0..LastRank
<1>1. MaxRetry \in Nat /\ tries[k] \in 0..MaxRetry
  BY ConstantTypes DEF TypeOK
<1>2. Stage(k) \in 0..3
  BY DEF Stage
<1>3. \/ Rank(k) \in 0..5
      \/ Rank(k) = 6 + 2 * tries[k]
      \/ Rank(k) = 7 + 2 * tries[k]
      \/ Rank(k) = 8 + 2 * MaxRetry
      \/ Rank(k) = 9 + 2 * MaxRetry
      \/ Rank(k) = 10 + 2 * MaxRetry
  BY DEF Rank
<1>4. ASSUME NEW m \in Nat, NEW t \in 0..m
      PROVE  /\ 6 + 2 * t \in 0..(10 + 2 * m)
             /\ 7 + 2 * t \in 0..(10 + 2 * m)
             /\ 8 + 2 * m \in 0..(10 + 2 * m)
             /\ 9 + 2 * m \in 0..(10 + 2 * m)
             /\ 10 + 2 * m \in 0..(10 + 2 * m)
             /\ \A n \in 0..5 : n \in 0..(10 + 2 * m)
  OBVIOUS
<1>5. Rank(k) \in 0..LastRank
  BY <1>1, <1>3, <1>4 DEF LastRank
<1> QED
  BY <1>2, <1>5

\* What a generator does to itself brings it on, or leaves it where it is.
LEMMA OwnStepForward ==
    ASSUME TypeOK, NEW k \in Kinds, Generator(k) \/ WaiterTimesOut(k)
    PROVE  UNCHANGED <<pc[k], idx[k], tries[k]>> \/ Forward(k)
<1> USE DEF Creating, Waiting, Listening, Owning
<1>0. /\ MaxRetry \in Nat /\ tries[k] \in 0..MaxRetry
      /\ idx[k] \in Nat /\ Len(Declared[k]) \in Nat
      /\ k \in DOMAIN pc /\ k \in DOMAIN idx /\ k \in DOMAIN tries
  BY ConstantTypes DEF TypeOK
<1>1. CASE \/ CreatorPanics(k) \/ WaiterFails(k) \/ RetriesExhausted(k)
           \/ ApiFatal(k)
  BY <1>1 DEF CreatorPanics, WaiterFails, RetriesExhausted, ApiFatal
<1>2. CASE CreatorFinds(k) \/ CreatorFindsNone(k)
  <2>1. pc[k] = "get" /\ pc'[k] \in {"create", "update"} /\ idx' = idx
    BY <1>0, <1>2 DEF CreatorFinds, CreatorFindsNone, Calls, Local, Goto
  <2> QED
    BY <2>1 DEF Forward, Stage, Rank
<1>3. CASE CreatorCreates(k) \/ CreatorUpdates(k)
  <2>1. /\ pc[k] \in {"create", "update"}
        /\ \/ pc'[k] = "get" /\ idx'[k] = idx[k] + 1
           \/ pc'[k] = "watch"
    BY <1>0, <1>3 DEF CreatorCreates, CreatorUpdates, Calls, NextToCreate, Goto
  <2> QED
    BY <1>0, <2>1 DEF Forward, Stage
<1>4. CASE OpenWatch(k) \/ ReuseWatch(k) \/ Register(k)
  <2>1. /\ \/ pc[k] = "watch" /\ pc'[k] = "register"
           \/ pc[k] = "register" /\ pc'[k] = "select"
        /\ idx' = idx
    BY <1>0, <1>4 DEF OpenWatch, ReuseWatch, Register, Calls, Local, Goto
  <2> QED
    BY <2>1 DEF Forward, Stage, Rank
<1>5. CASE Receive(k) \/ WaiterTimesOut(k)
  <2>1. /\ pc[k] = "select" /\ pc'[k] \in {"select", "ownGet", "report"}
        /\ idx' = idx /\ tries' = tries
    BY <1>0, <1>5 DEF Receive, WaiterTimesOut, Local, Goto, Verdict
  <2> QED
    BY <1>0, <2>1 DEF Forward, Stage, Rank
<1>6. CASE SendEvent(k) \/ OwnGet(k) \/ DeplFound(k) \/ DeplMissing(k)
  <2>1. /\ \/ pc[k] = "report" /\ pc'[k] = "sleep"
           \/ pc[k] = "ownGet" /\ pc'[k] \in {"deplGet", "unregister"}
           \/ pc[k] = "deplGet" /\ pc'[k] = "unregister"
           \/ pc[k] = "deplGet" /\ pc'[k] = "retryGet" /\ tries'[k] = 0
        /\ idx' = idx
    BY <1>0, <1>6 DEF SendEvent, OwnGet, DeplFound, DeplMissing, Calls, Local,
       Goto
  <2> QED
    BY <1>0, <2>1 DEF Forward, Stage, Rank
<1>7. CASE RetryGet(k) \/ RetryUpdate(k) \/ RetryConflict(k)
  <2>1. /\ \/ /\ pc[k] = "retryGet" /\ pc'[k] = "retryUpdate"
              /\ tries'[k] = tries[k]
           \/ pc[k] = "retryUpdate" /\ pc'[k] = "unregister"
           \/ /\ pc[k] = "retryUpdate" /\ pc'[k] = "retryGet"
              /\ tries'[k] = tries[k] + 1
        /\ idx' = idx
    BY <1>0, <1>7 DEF RetryGet, RetryUpdate, RetryConflict, Calls, Goto
  <2>2. pc[k] = "retryUpdate" => tries[k] < MaxRetry
    BY DEF TypeOK
  <2> QED
    BY <1>0, <2>1, <2>2 DEF Forward, Stage, Rank
<1>8. CASE Unregister(k)
  <2>1. /\ pc[k] = "unregister"
        /\ \/ pc'[k] = "watch" /\ idx'[k] = idx[k] + 1
           \/ pc'[k] = "done"
    BY <1>0, <1>8 DEF Unregister, Local, Goto
  <2> QED
    BY <1>0, <2>1 DEF Forward, Stage
<1> QED
  BY <1>1, <1>2, <1>3, <1>4, <1>5, <1>6, <1>7, <1>8 DEF Generator

\* The steps of the others leave it where it is.
LEMMA OthersLeaveIt ==
    ASSUME TypeOK, Next, ~StartGenerators, NEW k \in Kinds,
           ~(Generator(k) \/ WaiterTimesOut(k))
    PROVE  UNCHANGED <<pc[k], idx[k], tries[k]>>
<1>1. ASSUME NEW l \in Kinds, l # k, Generator(l) \/ WaiterTimesOut(l)
      PROVE  UNCHANGED <<pc[k], idx[k], tries[k]>>
  <2>1. CASE \/ CreatorPanics(l) \/ CreatorFinds(l) \/ CreatorFindsNone(l)
             \/ CreatorCreates(l) \/ CreatorUpdates(l) \/ OpenWatch(l)
             \/ ReuseWatch(l) \/ Register(l) \/ Receive(l)
             \/ WaiterTimesOut(l)
    BY <1>1, <2>1 DEF CreatorPanics, CreatorFinds, CreatorFindsNone,
       CreatorCreates, CreatorUpdates, NextToCreate, OpenWatch, ReuseWatch,
       Register, Receive, WaiterTimesOut, Goto, TypeOK
  <2>2. CASE \/ SendEvent(l) \/ WaiterFails(l) \/ OwnGet(l) \/ DeplFound(l)
             \/ DeplMissing(l) \/ RetryGet(l) \/ RetryUpdate(l)
             \/ RetryConflict(l) \/ RetriesExhausted(l) \/ Unregister(l)
             \/ ApiFatal(l)
    BY <1>1, <2>2 DEF SendEvent, WaiterFails, OwnGet, DeplFound, DeplMissing,
       RetryGet, RetryUpdate, RetryConflict, RetriesExhausted, Unregister,
       ApiFatal, Goto, TypeOK
  <2> QED
    BY <1>1, <2>1, <2>2 DEF Generator
<1>2. CASE UNCHANGED <<pc, idx, tries>>
  BY <1>2
<1> QED
  BY <1>1, <1>2
  DEF Next, Pump, PumpDrops, PumpTakes, PumpDelivers, PumpExits, CloseWatch,
      OperatorReports, OtherOwner, RunReturns, Signal, MainReturns, Finished

\* A generator never goes back, whatever the operators, the other clients and
\* the other generators do: there are four stages, the resources of the kind
\* and LastRank places at each, so that it changes its place a bounded number
\* of times.  It can stay for long only in the select of declarationWaiter,
\* which the timer ends (Terminates), and conflicts of the owner's write are
\* counted.
THEOREM ForwardOnly ==
    Spec => [][\A k \in Kinds :
                  \/ UNCHANGED <<pc[k], idx[k], tries[k]>>
                  \/ Forward(k) /\ Rank(k)' <= LastRank /\ Stage(k)' <= 3]_vars
<1> DEFINE Bounded == \A k \in Kinds : Stage(k) <= 3 /\ Rank(k) <= LastRank
<1>1. TypeOK => Bounded
  <2> SUFFICES ASSUME TypeOK, NEW k \in Kinds
               PROVE  Stage(k) <= 3 /\ Rank(k) <= LastRank
    OBVIOUS
  <2>1. Stage(k) \in 0..3 /\ Rank(k) \in 0..LastRank
    BY RankType
  <2> QED
    BY <2>1, ConstantTypes DEF LastRank
<1>2. TypeOK /\ Bounded' /\ [Next]_vars =>
         [\A k \in Kinds :
             \/ UNCHANGED <<pc[k], idx[k], tries[k]>>
             \/ Forward(k) /\ Rank(k)' <= LastRank /\ Stage(k)' <= 3]_vars
  <2> SUFFICES ASSUME TypeOK, Next, NEW k \in Kinds
               PROVE  UNCHANGED <<pc[k], idx[k], tries[k]>> \/ Forward(k)
    BY DEF LastRank
  <2>1. CASE StartGenerators
    <3>1. pc[k] = "prepare" /\ pc'[k] \in {"get", "done"}
      BY <2>1 DEF StartGenerators
    <3> QED
      BY <3>1 DEF Forward, Stage, Creating, Waiting, Listening, Owning
  <2>2. CASE Generator(k) \/ WaiterTimesOut(k)
    BY <2>2, OwnStepForward
  <2> QED
    BY <2>1, <2>2, OthersLeaveIt
<1> HIDE DEF Bounded
<1> QED
  BY <1>1, <1>2, TypeInit, TypeStep, PTL DEF Spec
=============================================================================
