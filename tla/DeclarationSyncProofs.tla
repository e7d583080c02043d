----------------------- MODULE DeclarationSyncProofs -----------------------
(***************************************************************************)
(* Theorems about DeclarationSync for every set of kinds and resources,    *)
(* every order of declaration and every value of the bounds.               *)
(***************************************************************************)
EXTENDS DeclarationSync, SequenceTheorems, TLAPS

\* What the assumption says of the lists and of the bounds.
LEMMA ConstantTypes ==
    /\ MaxRetry \in Nat
    /\ \A k \in Kinds : Declared[k] \in Seq(CRs) /\ Len(Declared[k]) \in Nat
BY ConstantsAssumption DEF ConstantsAssumption

\* The resource a generator is at is one of its kind.
LEMMA CurIsDeclared ==
    ASSUME TypeOK, NEW k \in Kinds, pc[k] \notin {"prepare", "done"}
    PROVE  /\ Cur(k) \in CRs
           /\ KindOf[Cur(k)] = k
           /\ idx[k] \in 1..Len(Declared[k])
<1>1. idx[k] \in 1..Len(Declared[k])
  BY DEF TypeOK
<1>2. Declared[k] \in Seq(CRs)
  BY ConstantsAssumption DEF ConstantsAssumption
<1>3. KindOf[Declared[k][idx[k]]] = k
  BY <1>1, ConstantsAssumption DEF ConstantsAssumption
<1>4. Declared[k][idx[k]] \in CRs
  BY <1>1, <1>2
<1> QED
  BY <1>1, <1>3, <1>4 DEF Cur

\* A write keeps the types of what it changes.
LEMMA WriteType ==
    ASSUME TypeOK, NEW c \in CRs, NEW o \in Object, Write(c, o)
    PROVE  /\ obj' \in [CRs -> Object]
           /\ stream' \in [Kinds -> Seq(Note)]
<1>1. NoteOf(c, o) \in Note
  BY DEF NoteOf, Note, Object
<1>2. \A s \in Seq(Note) : Append(s, NoteOf(c, o)) \in Seq(Note)
  BY <1>1
<1> QED
  BY <1>2 DEF Write, TypeOK

\* Every write stores an object.
LEMMA ObjectWrites ==
    /\ Created \in Object
    /\ \A o \in Object :
          /\ Replaced(o) \in Object
          /\ Owned(o) \in Object
          /\ Taken(o) \in Object
          /\ \A p \in Phases : Reported(o, p) \in Object
<1>1. Created \in Object
  BY DEF Created, Object, Phases, Owners
<1>2. ASSUME NEW o \in Object PROVE Replaced(o) \in Object
  <2>1. CASE StatusSubresource
    BY <2>1 DEF Replaced, Object, Owners
  <2>2. CASE ~StatusSubresource
    <3>1. "Unset" \in Phases /\ "none" \in Owners /\ o.rv + 1 \in Nat
      BY DEF Phases, Owners, Object
    <3>2. [rv |-> o.rv + 1, applied |-> TRUE, phase |-> "Unset",
           reconciled |-> FALSE, owner |-> "none"] \in Object
      BY <3>1 DEF Object
    <3> QED
      BY <2>2, <3>2 DEF Replaced
  <2> QED
    BY <2>1, <2>2
<1>3. ASSUME NEW o \in Object PROVE Owned(o) \in Object /\ Taken(o) \in Object
  BY DEF Owned, Taken, Object, Owners
<1>4. ASSUME NEW o \in Object, NEW p \in Phases PROVE Reported(o, p) \in Object
  BY DEF Reported, Object
<1> QED
  BY <1>1, <1>2, <1>3, <1>4

\* An object that is not stored is typed like the others.
LEMMA AbsentIsObject == Absent \in Object
BY DEF Absent, Object, Phases, Owners

\* An event without a resource is typed like the others.
LEMMA ErrorNoteIsNote == ErrorNote \in Note
BY DEF ErrorNote, Note, Phases

\* Everything a label can be changed to is a label.
LEMMA GotoType ==
    ASSUME TypeOK, NEW k \in Kinds, NEW label \in PcStates, Goto(k, label)
    PROVE  pc' \in [Kinds -> PcStates]
BY DEF TypeOK, Goto

\* The creator's loop stays within the declared resources.
LEMMA NextToCreateType ==
    ASSUME TypeOK, NEW k \in Kinds, pc[k] \in Creating, NextToCreate(k)
    PROVE  /\ pc' \in [Kinds -> PcStates]
           /\ idx' \in [Kinds -> Nat]
           /\ \A l \in Kinds :
                 /\ pc'[l] = "prepare" => idx'[l] = 1
                 /\ pc'[l] \notin {"prepare", "done"} =>
                        idx'[l] \in 1..Len(Declared[l])
                 /\ pc'[l] = "retryUpdate" => pc[l] = "retryUpdate"
<1>1. idx[k] \in 1..Len(Declared[k]) /\ Len(Declared[k]) \in Nat
  BY ConstantTypes DEF TypeOK, Creating
<1> DEFINE more == idx[k] < Len(Declared[k])
<1>2. /\ pc' = [pc EXCEPT ![k] = IF more THEN "get" ELSE "watch"]
      /\ idx' = [idx EXCEPT ![k] = IF more THEN @ + 1 ELSE 1]
  BY DEF NextToCreate, Goto
<1>3. (IF more THEN idx[k] + 1 ELSE 1) \in 1..Len(Declared[k])
  BY <1>1
<1> QED
  BY <1>2, <1>3 DEF TypeOK, PcStates, Creating, Waiting

\* The hook starts well typed, whatever an earlier deployment has left.
LEMMA TypeInit == Init => TypeOK
<1> SUFFICES ASSUME Init PROVE TypeOK
  OBVIOUS
<1>1. Prior \subseteq Object
  BY DEF Prior, Absent, Object, Phases, Owners
<1>2. <<>> \in Seq(Note)
  OBVIOUS
<1> QED
  BY <1>1, <1>2, AbsentIsObject, ErrorNoteIsNote, ConstantTypes
  DEF Init, TypeOK, PcStates

USE DEF watchVars, waitVars, mainVars, vars

\* Every step of a generator, a pump, main or the others keeps the types.
LEMMA TypeStep == TypeOK /\ [Next]_vars => TypeOK'
<1> SUFFICES ASSUME TypeOK, [Next]_vars PROVE TypeOK'
  OBVIOUS
<1> USE DEF PcStates, Creating, Waiting, Listening, Owning
<1>1. CASE StartGenerators
  <2>1. \A k \in Kinds : Declared[k] # <<>> => 1 \in 1..Len(Declared[k])
    <3> TAKE k \in Kinds
    <3>1. Declared[k] \in Seq(CRs)
      BY ConstantsAssumption DEF ConstantsAssumption
    <3> QED
      BY <3>1, EmptySeq
  <2>2. \A k \in Kinds : idx[k] = 1
    BY <1>1 DEF StartGenerators, TypeOK
  <2> QED
    BY <1>1, <2>1, <2>2 DEF StartGenerators, TypeOK
<1>2. ASSUME NEW k \in Kinds, Generator(k) PROVE TypeOK'
  <2> USE CurIsDeclared, ConstantTypes
  <2>1. CASE CreatorPanics(k)
    BY <2>1 DEF CreatorPanics, Local, TypeOK
  <2>2. CASE CreatorFinds(k)
    BY <2>2 DEF CreatorFinds, Calls, Goto, TypeOK
  <2>3. CASE CreatorFindsNone(k)
    BY <2>3 DEF CreatorFindsNone, Local, Goto, TypeOK
  <2>4. CASE CreatorCreates(k)
    <3>2. Cur(k) \in CRs /\ pc[k] = "create"
      BY <2>4 DEF CreatorCreates, Calls
    <3>3. obj' \in [CRs -> Object] /\ stream' \in [Kinds -> Seq(Note)]
      BY <2>4, <3>2, ObjectWrites, WriteType DEF CreatorCreates
    <3> QED
      BY <2>4, <3>2, <3>3, NextToCreateType DEF CreatorCreates, TypeOK
  <2>5. CASE CreatorUpdates(k)
    <3>1. Cur(k) \in CRs /\ pc[k] = "update"
      BY <2>5 DEF CreatorUpdates, Calls
    <3>2. obj[Cur(k)] \in Object
      BY <3>1 DEF TypeOK
    <3>3. obj' \in [CRs -> Object] /\ stream' \in [Kinds -> Seq(Note)]
      BY <2>5, <3>1, <3>2, ObjectWrites, WriteType DEF CreatorUpdates
    <3> QED
      BY <2>5, <3>1, <3>3, AbsentIsObject, NextToCreateType
      DEF CreatorUpdates, TypeOK
  <2>6. CASE OpenWatch(k)
    <3>1. PICK order \in Bijection(1..Len(Declared[k]), All(k)) :
             stream' = [stream EXCEPT ![k] =
                [i \in 1..Len(Declared[k]) |->
                    NoteOf(order[i], obj[order[i]])]]
      BY <2>6 DEF OpenWatch
    <3>2. All(k) \subseteq CRs
      BY DEF All, Range
    <3>3. order \in [1..Len(Declared[k]) -> CRs]
      BY <3>2 DEF Bijection, Injection
    <3>4. \A c \in CRs : NoteOf(c, obj[c]) \in Note
      BY DEF NoteOf, Note, Object, TypeOK
    <3>5. [i \in 1..Len(Declared[k]) |-> NoteOf(order[i], obj[order[i]])]
             \in Seq(Note)
      BY <3>3, <3>4
    <3> QED
      BY <2>6, <3>1, <3>5 DEF OpenWatch, Calls, Goto, TypeOK
  <2>7. CASE ReuseWatch(k)
    BY <2>7 DEF ReuseWatch, Local, Goto, TypeOK
  <2>8. CASE Register(k)
    <3>1. Cur(k) \in CRs /\ obj[Cur(k)].rv \in Nat
      BY <2>8 DEF Register, Local, TypeOK, Object
    <3>2. <<>> \in Seq(Note) /\ Len(<<>>) = 0
      OBVIOUS
    <3>3. chan' \in [CRs -> Seq(Note)] /\ \A c \in CRs : Len(chan'[c]) <= 1
      BY <2>8, <3>1, <3>2 DEF Register, TypeOK
    <3> QED
      BY <2>8, <3>1, <3>3 DEF Register, Local, Goto, TypeOK
  <2>9. CASE Receive(k)
    <3>1. Cur(k) \in CRs /\ chan[Cur(k)] # <<>>
      BY <2>9 DEF Receive, Local
    <3>2. Head(chan[Cur(k)]) \in Note
      BY <3>1 DEF TypeOK
    <3>3. Tail(chan[Cur(k)]) \in Seq(Note) /\ Len(Tail(chan[Cur(k)])) <= 1
      BY <3>1 DEF TypeOK
    <3>4. \A phase : Verdict(phase) \in {"ownGet", "report", "select"}
      BY DEF Verdict
    <3>5. pc' \in [Kinds -> PcStates]
      BY <2>9, <3>4 DEF Receive, Goto, TypeOK
    <3>6. /\ pc'[k] \in {"ownGet", "report", "select"}
          /\ \A l \in Kinds \ {k} : pc'[l] = pc[l]
      BY <2>9, <3>4 DEF Receive, Goto, TypeOK
    <3>7. base' \in [CRs -> Nat]
      BY <2>9, <3>1, <3>2 DEF Receive, TypeOK, Note
    <3>8. chan' \in [CRs -> Seq(Note)] /\ \A c \in CRs : Len(chan'[c]) <= 1
      BY <2>9, <3>1, <3>3 DEF Receive, TypeOK
    <3> QED
      BY <2>9, <3>5, <3>6, <3>7, <3>8 DEF Receive, Local, TypeOK
  <2>10. CASE SendEvent(k)
    BY <2>10 DEF SendEvent, Calls, Goto, TypeOK
  <2>11. CASE WaiterFails(k)
    BY <2>11 DEF WaiterFails, Local, TypeOK
  <2>12. CASE OwnGet(k)
    BY <2>12 DEF OwnGet, Calls, Goto, TypeOK
  <2>13. CASE DeplFound(k)
    <3>1. 0 \in 0..MaxRetry
      BY ConstantTypes
    <3> QED
      BY <2>13, <3>1 DEF DeplFound, Calls, Goto, TypeOK
  <2>14. CASE DeplMissing(k)
    BY <2>14 DEF DeplMissing, Local, Goto, TypeOK
  <2>15. CASE RetryGet(k)
    BY <2>15 DEF RetryGet, Calls, Goto, TypeOK
  <2>16. CASE RetryUpdate(k)
    <3>1. Cur(k) \in CRs
      BY <2>16 DEF RetryUpdate, Calls
    <3>2. Owned(copy[k]) \in Object
      BY ObjectWrites DEF TypeOK
    <3>3. obj' \in [CRs -> Object] /\ stream' \in [Kinds -> Seq(Note)]
      BY <2>16, <3>1, <3>2, WriteType DEF RetryUpdate
    <3> QED
      BY <2>16, <3>3, AbsentIsObject DEF RetryUpdate, Calls, Goto, TypeOK
  <2>17. CASE RetryConflict(k)
    <3>1. tries[k] + 1 \in 0..MaxRetry
      BY <2>17, ConstantTypes DEF RetryConflict, Calls, TypeOK
    <3> QED
      BY <2>17, <3>1, AbsentIsObject DEF RetryConflict, Calls, Goto, TypeOK
  <2>18. CASE RetriesExhausted(k)
    BY <2>18 DEF RetriesExhausted, Local, TypeOK
  <2>19. CASE Unregister(k)
    <3>1. /\ Cur(k) \in CRs /\ 0 \in 0..MaxRetry
          /\ idx[k] < Len(Declared[k]) => idx[k] + 1 \in 1..Len(Declared[k])
      BY <2>19, ConstantTypes DEF Unregister, Local
    <3> DEFINE more == idx[k] < Len(Declared[k])
    <3>2. /\ pc' = [pc EXCEPT ![k] = IF more THEN "watch" ELSE "done"]
          /\ idx' = [idx EXCEPT ![k] = IF more THEN @ + 1 ELSE @]
      BY <2>19 DEF Unregister, Goto, TypeOK
    <3>3. /\ base' \in [CRs -> Nat] /\ tries' \in [Kinds -> 0..MaxRetry]
          /\ \A l \in Kinds \ {k} : tries'[l] = tries[l]
      BY <2>19, <3>1 DEF Unregister, TypeOK
    <3>4. /\ pc' \in [Kinds -> PcStates] /\ pc'[k] \in {"watch", "done"}
          /\ \A l \in Kinds \ {k} : pc'[l] = pc[l] /\ idx'[l] = idx[l]
      BY <3>2 DEF TypeOK
    <3>5. /\ idx' \in [Kinds -> Nat]
          /\ pc'[k] = "watch" => idx'[k] \in 1..Len(Declared[k])
      <4>1. idx[k] \in Nat
        BY DEF TypeOK
      <4>2. CASE more
        <5>1. idx' = [idx EXCEPT ![k] = idx[k] + 1]
          BY <3>2, <4>2
        <5>2. idx[k] + 1 \in 1..Len(Declared[k]) /\ idx[k] + 1 \in Nat
          BY <3>1, <4>1, <4>2
        <5> HIDE DEF more
        <5> QED
          BY <5>1, <5>2 DEF TypeOK
      <4>3. CASE ~more
        BY <3>1, <3>2, <4>1, <4>3 DEF TypeOK
      <4> QED
        BY <4>2, <4>3
    <3> HIDE DEF more
    <3> QED
      BY <2>19, <3>3, <3>4, <3>5, ZenonT(40) DEF Unregister, TypeOK
  <2>20. CASE ApiFatal(k)
    BY <2>20 DEF ApiFatal, TypeOK
  <2> QED
    BY <1>2, <2>1, <2>2, <2>3, <2>4, <2>5, <2>6, <2>7, <2>8, <2>9, <2>10,
       <2>11, <2>12, <2>13, <2>14, <2>15, <2>16, <2>17, <2>18, <2>19, <2>20
    DEF Generator
<1>3. ASSUME NEW k \in Kinds, WaiterTimesOut(k) PROVE TypeOK'
  BY <1>3 DEF WaiterTimesOut, Local, Goto, TypeOK
<1>4. ASSUME NEW k \in Kinds, Pump(k) PROVE TypeOK'
  <2>1. CASE PumpDrops(k)
    <3>1. Tail(stream[k]) \in Seq(Note)
      BY <2>1 DEF PumpDrops, TypeOK
    <3> QED
      BY <2>1, <3>1 DEF PumpDrops, TypeOK
  <2>2. CASE PumpTakes(k)
    <3>1. Tail(stream[k]) \in Seq(Note) /\ Head(stream[k]) \in Note
      BY <2>2 DEF PumpTakes, TypeOK
    <3> QED
      BY <2>2, <3>1 DEF PumpTakes, TypeOK
  <2>3. CASE PumpDelivers(k)
    <3>1. hand[k] \in Note /\ hand[k].cr \in CRs
      BY <2>3 DEF PumpDelivers, TypeOK
    <3>2. <<hand[k]>> \in Seq(Note) /\ Len(<<hand[k]>>) = 1
      BY <3>1
    <3>3. chan' \in [CRs -> Seq(Note)] /\ \A c \in CRs : Len(chan'[c]) <= 1
      BY <2>3, <3>1, <3>2 DEF PumpDelivers, TypeOK
    <3> QED
      BY <2>3, <3>3, ErrorNoteIsNote DEF PumpDelivers, TypeOK
  <2>4. CASE PumpExits(k)
    BY <2>4 DEF PumpExits, TypeOK
  <2> QED
    BY <1>4, <2>1, <2>2, <2>3, <2>4 DEF Pump
<1>5. ASSUME NEW k \in Kinds, CloseWatch(k) PROVE TypeOK'
  <2>1. PICK n \in 0..Len(stream[k]), last \in {<<>>, <<ErrorNote>>} :
           stream' = [stream EXCEPT ![k] = SubSeq(@, 1, n) \o last]
    BY <1>5 DEF CloseWatch
  <2>2. stream[k] \in Seq(Note)
    BY DEF TypeOK
  <2>3. SubSeq(stream[k], 1, n) \in Seq(Note)
    BY <2>2
  <2>4. <<>> \in Seq(Note) /\ <<ErrorNote>> \in Seq(Note)
    BY ErrorNoteIsNote
  <2>5. SubSeq(stream[k], 1, n) \o last \in Seq(Note)
    <3>1. CASE last = <<>>
      BY <2>3, <2>4, <3>1
    <3>2. CASE last = <<ErrorNote>>
      BY <2>3, <2>4, <3>2
    <3> QED
      BY <3>1, <3>2
  <2> QED
    BY <1>5, <2>1, <2>5 DEF CloseWatch, TypeOK
<1>6. ASSUME NEW c \in CRs, OperatorReports(c) \/ OtherOwner(c) PROVE TypeOK'
  <2>1. obj[c] \in Object
    BY DEF TypeOK
  <2>2. obj' \in [CRs -> Object] /\ stream' \in [Kinds -> Seq(Note)]
    BY <1>6, <2>1, ObjectWrites, WriteType DEF OperatorReports, OtherOwner
  <2> QED
    BY <1>6, <2>2 DEF OperatorReports, OtherOwner, TypeOK
<1>7. CASE RunReturns \/ Signal \/ MainReturns
  BY <1>7 DEF RunReturns, Signal, MainReturns, TypeOK
<1>8. CASE Finished \/ UNCHANGED vars
  BY <1>8 DEF Finished, TypeOK
<1> QED
  BY <1>1, <1>2, <1>3, <1>4, <1>5, <1>6, <1>7, <1>8 DEF Next

\* Every variable keeps its type: in particular a handler channel never holds
\* more than one event, the pump delivers only to a declared resource, and a
\* generator never runs past the resources of its kind.
THEOREM TypeCorrect == Spec => []TypeOK
<1>1. Init => TypeOK
  BY TypeInit
<1>2. TypeOK /\ [Next]_vars => TypeOK'
  BY TypeStep
<1> QED
  BY <1>1, <1>2, PTL DEF Spec

-----------------------------------------------------------------------------
(***************************************************************************)
(* Safety.  The argument is about phases: the creator's write takes        *)
(* "Updated" back, so that a resource which is applied and "Updated" has   *)
(* been reconciled since; the watch is opened after the last such write,   *)
(* so that every event on its way tells the same; a waiter leaves its      *)
(* resource only after such an event.  It needs an API server whose PUT    *)
(* replaces the status.                                                    *)
(***************************************************************************)

\* The resources before the creator's position are applied, those from it on
\* are not; all are once the waiting has begun.
CreationProgress ==
    \A k \in Kinds : \A i \in 1..Len(Declared[k]) :
        LET o == obj[Declared[k][i]] IN
        /\ pc[k] \in Creating /\ i < idx[k] => o.applied
        /\ pc[k] \in Waiting \cup {"done"} => o.applied
        /\ pc[k] = "prepare" => ~o.applied /\ ~o.reconciled
        /\ pc[k] \in Creating /\ i >= idx[k] => ~o.applied /\ ~o.reconciled

UpdatedMeansReconciled ==
    \A c \in CRs : obj[c].applied /\ obj[c].phase = "Updated" =>
                      obj[c].reconciled

\* What a kind's event tells of its resource is (still) true.
Sound(n, k) ==
    n.cr \in CRs => /\ KindOf[n.cr] = k
                    /\ n.phase = "Updated" => obj[n.cr].reconciled

\* No events before the watch, no watch before the waiting.
WatchedLate ==
    \A k \in Kinds :
        /\ pc[k] \in {"prepare"} \cup Creating => conn[k] = "none"
        /\ conn[k] = "none" => stream[k] = <<>> /\ pump[k] = "none"
        /\ \A c \in CRs : KindOf[c] = k /\ conn[k] = "none" => chan[c] = <<>>

EventsSound ==
    /\ \A k \in Kinds : \A i \in 1..Len(stream[k]) : Sound(stream[k][i], k)
    /\ \A k \in Kinds : pump[k] = "deliver" => Sound(hand[k], k)
    /\ \A c \in CRs : chan[c] # <<>> => /\ Head(chan[c]).cr = c
                                         /\ Sound(Head(chan[c]), KindOf[c])

PassedReconciled ==
    \A k \in Kinds :
        /\ \A i \in 1..Len(Declared[k]) :
              pc[k] = "done" \/ (pc[k] \in Waiting /\ i < idx[k]) =>
                  obj[Declared[k][i]].reconciled
        /\ pc[k] \in Owning \cup {"unregister"} => obj[Cur(k)].reconciled

\* The object about to be written back is the stored one, or the version
\* tells that it is not.
CopyFresh ==
    \A k \in Kinds :
        pc[k] = "retryUpdate" =>
            /\ copy[k].rv <= obj[Cur(k)].rv
            /\ copy[k].rv = obj[Cur(k)].rv => copy[k] = obj[Cur(k)]

StoppedMeansDone == ctx = "stopped" => \A k \in Kinds : pc[k] = "done"

IInv == /\ TypeOK
        /\ CreationProgress
        /\ UpdatedMeansReconciled
        /\ WatchedLate
        /\ EventsSound
        /\ PassedReconciled
        /\ CopyFresh
        /\ StoppedMeansDone

\* The resources of a declared list, and the list of a resource.
LEMMA DeclaredAre ==
    /\ \A k \in Kinds : \A i \in 1..Len(Declared[k]) :
          Declared[k][i] \in CRs /\ KindOf[Declared[k][i]] = k
    /\ \A k \in Kinds : \A i, j \in 1..Len(Declared[k]) :
          Declared[k][i] = Declared[k][j] => i = j
    /\ \A c \in CRs : /\ KindOf[c] \in Kinds
                      /\ \E i \in 1..Len(Declared[KindOf[c]]) :
                            Declared[KindOf[c]][i] = c
<1>1. ASSUME NEW k \in Kinds
      PROVE  DOMAIN Declared[k] = 1..Len(Declared[k]) /\ Declared[k] \in Seq(CRs)
  BY ConstantTypes
<1>2. ASSUME NEW k \in Kinds, NEW i \in 1..Len(Declared[k])
      PROVE  Declared[k][i] \in CRs /\ KindOf[Declared[k][i]] = k
  BY <1>1, ConstantsAssumption DEF ConstantsAssumption
<1>3. ASSUME NEW k \in Kinds, NEW i \in 1..Len(Declared[k]),
             NEW j \in 1..Len(Declared[k]), Declared[k][i] = Declared[k][j]
      PROVE  i = j
  BY <1>1, <1>3, ConstantsAssumption DEF ConstantsAssumption, IsInjective
<1>4. ASSUME NEW c \in CRs
      PROVE  /\ KindOf[c] \in Kinds
             /\ \E i \in 1..Len(Declared[KindOf[c]]) :
                   Declared[KindOf[c]][i] = c
  BY <1>1, ConstantsAssumption DEF ConstantsAssumption, Range
<1> QED
  BY <1>2, <1>3, <1>4

\* A generator that moves on within its creating or within its waiting, with
\* at most its own channel emptied and its own copy replaced.
LEMMA LocalStep ==
    ASSUME IInv, TypeOK', NEW k \in Kinds, NEW label, Goto(k, label),
           UNCHANGED <<obj, stream, conn, pump, hand, idx, ctx>>,
           \/ pc[k] \in Creating /\ label \in Creating
           \/ pc[k] \in Waiting /\ label \in Waiting,
           label \in Owning \cup {"unregister"} => obj[Cur(k)].reconciled,
           label = "retryUpdate" => copy'[k] = obj[Cur(k)],
           \A l \in Kinds \ {k} : copy'[l] = copy[l],
           \A c \in CRs : chan'[c] = chan[c] \/ chan'[c] = <<>>
    PROVE  IInv'
<1> USE DEF Creating, Waiting, Listening, Owning
<1>1. pc' = [pc EXCEPT ![k] = label] /\ k \in DOMAIN pc
  BY DEF Goto, IInv, TypeOK
<1>2. CreationProgress'
  BY <1>1 DEF IInv, CreationProgress
<1>3. UpdatedMeansReconciled'
  BY DEF IInv, UpdatedMeansReconciled
<1>4. WatchedLate'
  BY <1>1 DEF IInv, WatchedLate
<1>5. EventsSound'
  BY DEF IInv, EventsSound, Sound
<1>6. PassedReconciled'
  BY <1>1 DEF IInv, PassedReconciled, Cur
<1>7. CopyFresh'
  <2>1. Cur(k) \in CRs
    BY CurIsDeclared DEF IInv
  <2>2. obj[Cur(k)].rv <= obj[Cur(k)].rv
    BY <2>1 DEF IInv, TypeOK, Object
  <2> QED
    BY <1>1, <2>2 DEF IInv, CopyFresh, Cur
<1>8. StoppedMeansDone'
  BY <1>1 DEF IInv, StoppedMeansDone
<1> QED
  BY <1>2, <1>3, <1>4, <1>5, <1>6, <1>7, <1>8 DEF IInv

\* A step that changes nothing the invariant speaks of.
LEMMA SilentStep ==
    ASSUME IInv, TypeOK',
           UNCHANGED <<obj, stream, conn, pump, hand, chan, pc, idx, copy, ctx>>
    PROVE  IInv'
BY DEF IInv, CreationProgress, UpdatedMeansReconciled, WatchedLate,
       EventsSound, Sound, PassedReconciled, CopyFresh, StoppedMeansDone, Cur

\* A write by anybody but the creator: the declared spec stays, and with it
\* what has been said about it.
LEMMA LaterWrite ==
    ASSUME IInv, NEW c \in CRs, NEW o \in Object, Write(c, o),
           o.rv = obj[c].rv + 1,
           o.applied = obj[c].applied,
           obj[c].reconciled => o.reconciled,
           o.reconciled => obj[c].reconciled \/ obj[c].applied,
           o.applied /\ o.phase = "Updated" => o.reconciled,
           UNCHANGED <<conn, pump, hand, chan>>
    PROVE  /\ \A d \in CRs : /\ obj'[d].applied = obj[d].applied
                             /\ obj[d].reconciled => obj'[d].reconciled
                             /\ obj'[d].reconciled =>
                                    obj[d].reconciled \/ obj[d].applied
           /\ UpdatedMeansReconciled'
           /\ EventsSound'
           /\ \A k \in Kinds : conn[k] = "none" => stream'[k] = stream[k]
<1>1. obj' = [obj EXCEPT ![c] = o] /\ obj \in [CRs -> Object]
  BY DEF Write, IInv, TypeOK
<1>2. \A d \in CRs : /\ obj'[d].applied = obj[d].applied
                     /\ obj[d].reconciled => obj'[d].reconciled
                     /\ obj'[d].reconciled => obj[d].reconciled \/ obj[d].applied
  BY <1>1
<1>3. UpdatedMeansReconciled'
  BY <1>1 DEF IInv, UpdatedMeansReconciled
<1>4. \A n, k : Sound(n, k) => Sound(n, k)'
  BY <1>2 DEF Sound
<1>5. conn[KindOf[c]] = "open" => obj[c].applied
  <2> SUFFICES ASSUME conn[KindOf[c]] = "open" PROVE obj[c].applied
    OBVIOUS
  <2>1. KindOf[c] \in Kinds
    BY DeclaredAre
  <2>2. PICK i \in 1..Len(Declared[KindOf[c]]) : Declared[KindOf[c]][i] = c
    BY DeclaredAre
  <2>3. pc[KindOf[c]] \in Waiting \cup {"done"}
    BY <2>1 DEF IInv, WatchedLate, TypeOK, PcStates
  <2> QED
    BY <2>1, <2>2, <2>3 DEF IInv, CreationProgress
<1>6. conn[KindOf[c]] = "open" => Sound(NoteOf(c, o), KindOf[c])'
  BY <1>1, <1>5 DEF Sound, NoteOf
<1>7. ASSUME NEW k \in Kinds, NEW i \in 1..Len(stream'[k])
      PROVE  Sound(stream[k][i], k)' 
  <2>1. stream[k] \in Seq(Note)
    BY DEF IInv, TypeOK
  <2>2. CASE stream'[k] = stream[k]
    BY <1>4, <1>7, <2>2 DEF IInv, EventsSound
  <2>3. CASE stream'[k] # stream[k]
    <3>1. k = KindOf[c] /\ conn[k] = "open" /\ stream'[k] = Append(stream[k], NoteOf(c, o))
      BY <2>3 DEF Write, IInv, TypeOK
    <3>2. CASE i <= Len(stream[k])
      BY <1>4, <2>1, <3>1, <3>2 DEF IInv, EventsSound
    <3>3. CASE i = Len(stream[k]) + 1
      BY <1>6, <2>1, <3>1, <3>3
    <3> QED
      BY <1>7, <2>1, <3>1, <3>2, <3>3
  <2> QED
    BY <2>2, <2>3
<1>8. EventsSound'
  BY <1>4, <1>7 DEF IInv, EventsSound
<1>9. \A k \in Kinds : conn[k] = "none" => stream'[k] = stream[k]
  BY DEF Write, IInv, TypeOK
<1> QED
  BY <1>2, <1>3, <1>8, <1>9

\* What the creator's write does to the invariant: o is the declared spec.
LEMMA CreatorWrite ==
    ASSUME IInv, TypeOK', NEW k \in Kinds, pc[k] \in Creating,
           NEW o \in Object, o.applied, ~o.reconciled, o.phase # "Updated",
           Write(Cur(k), o), NextToCreate(k),
           UNCHANGED <<conn, pump, hand, chan, ctx>>,
           \A l \in Kinds \ {k} : copy'[l] = copy[l]
    PROVE  IInv'
<1> USE DEF Creating, Waiting, Listening, Owning
<1>1. /\ Cur(k) \in CRs /\ KindOf[Cur(k)] = k
      /\ idx[k] \in 1..Len(Declared[k]) /\ Len(Declared[k]) \in Nat
  BY CurIsDeclared, ConstantTypes DEF IInv
<1>2. obj' = [obj EXCEPT ![Cur(k)] = o] /\ obj \in [CRs -> Object]
  BY DEF Write, IInv, TypeOK
<1>3. conn[k] = "none"
  BY DEF IInv, WatchedLate
<1>4. stream' = stream
  BY <1>1, <1>3 DEF Write
<1> DEFINE more == idx[k] < Len(Declared[k])
<1>5. /\ pc' = [pc EXCEPT ![k] = IF more THEN "get" ELSE "watch"]
      /\ idx' = [idx EXCEPT ![k] = IF more THEN @ + 1 ELSE 1]
  BY DEF NextToCreate, Goto
<1>6. /\ pc'[k] \in {"get", "watch"}
      /\ pc'[k] = "get" => idx'[k] = idx[k] + 1
      /\ pc'[k] = "watch" => idx'[k] = 1 /\ idx[k] = Len(Declared[k])
      /\ \A l \in Kinds \ {k} : pc'[l] = pc[l] /\ idx'[l] = idx[l]
  BY <1>1, <1>5 DEF IInv, TypeOK
<1> HIDE DEF more
<1>7. \A c \in CRs : KindOf[c] # k => obj'[c] = obj[c]
  BY <1>1, <1>2
<1>8. CreationProgress'
  <2> SUFFICES ASSUME NEW l \in Kinds, NEW i \in 1..Len(Declared[l])
               PROVE  LET p == obj'[Declared[l][i]] IN
                      /\ pc'[l] \in Creating /\ i < idx'[l] => p.applied
                      /\ pc'[l] \in Waiting \cup {"done"} => p.applied
                      /\ pc'[l] = "prepare" => ~p.applied /\ ~p.reconciled
                      /\ pc'[l] \in Creating /\ i >= idx'[l] =>
                             ~p.applied /\ ~p.reconciled
    BY DEF CreationProgress
  <2>1. CASE l # k
    BY <1>6, <1>7, <2>1, DeclaredAre DEF IInv, CreationProgress
  <2>2. CASE l = k /\ i = idx[k]
    BY <1>1, <1>2, <1>6, <2>2 DEF Cur
  <2>3. CASE l = k /\ i # idx[k]
    <3>1. obj'[Declared[l][i]] = obj[Declared[l][i]]
      BY <1>1, <1>2, <2>3, DeclaredAre DEF Cur
    <3> QED
      BY <1>1, <1>6, <2>3, <3>1 DEF IInv, CreationProgress
  <2> QED
    BY <2>1, <2>2, <2>3
<1>9. UpdatedMeansReconciled'
  BY <1>1, <1>2 DEF IInv, UpdatedMeansReconciled
<1>10. WatchedLate'
  BY <1>3, <1>4, <1>6 DEF IInv, WatchedLate
<1>11. \A n, l : l # k /\ Sound(n, l) => Sound(n, l)'
  BY <1>7 DEF Sound
<1>12. EventsSound'
  <2>1. stream[k] = <<>> /\ pump[k] = "none"
    BY <1>3 DEF IInv, WatchedLate
  <2>2. \A l \in Kinds : \A i \in 1..Len(stream[l]) : Sound(stream[l][i], l)'
    BY <1>4, <1>11, <2>1 DEF IInv, EventsSound
  <2>3. \A l \in Kinds : pump[l] = "deliver" => Sound(hand[l], l)'
    BY <1>11, <2>1 DEF IInv, EventsSound
  <2>4. \A c \in CRs : chan[c] # <<>> => Sound(Head(chan[c]), KindOf[c])'
    BY <1>3, <1>11 DEF IInv, EventsSound, WatchedLate
  <2> QED
    BY <1>4, <2>2, <2>3, <2>4 DEF IInv, EventsSound
<1>13. PassedReconciled'
  <2> SUFFICES ASSUME NEW l \in Kinds
               PROVE  /\ \A i \in 1..Len(Declared[l]) :
                            \/ pc'[l] = "done"
                            \/ pc'[l] \in Waiting /\ i < idx'[l]
                            => obj'[Declared[l][i]].reconciled
                      /\ pc'[l] \in Owning \cup {"unregister"} =>
                            obj'[Declared[l][idx'[l]]].reconciled
    BY DEF PassedReconciled, Cur
  <2>1. CASE l # k
    <3>1. pc'[l] = pc[l] /\ idx'[l] = idx[l]
      BY <1>6, <2>1
    <3>2. \A i \in 1..Len(Declared[l]) : obj'[Declared[l][i]] = obj[Declared[l][i]]
      BY <1>7, <2>1, DeclaredAre
    <3>3. pc[l] \in Owning \cup {"unregister"} => idx[l] \in 1..Len(Declared[l])
      BY CurIsDeclared DEF IInv
    <3> QED
      BY <3>1, <3>2, <3>3 DEF IInv, PassedReconciled, Cur
  <2>2. CASE l = k
    BY <1>6, <2>2
  <2> QED
    BY <2>1, <2>2
<1>14. CopyFresh'
  <2> SUFFICES ASSUME NEW l \in Kinds, pc'[l] = "retryUpdate"
               PROVE  LET p == obj'[Declared[l][idx'[l]]] IN
                      copy'[l].rv <= p.rv /\ (copy'[l].rv = p.rv => copy'[l] = p)
    BY DEF CopyFresh, Cur
  <2>1. l # k /\ pc[l] = "retryUpdate"
    BY <1>6
  <2>2. Cur(l) \in CRs /\ KindOf[Cur(l)] = l
    BY <2>1, CurIsDeclared DEF IInv
  <2> QED
    BY <1>6, <1>7, <2>1, <2>2 DEF IInv, CopyFresh, Cur
<1>15. StoppedMeansDone'
  BY DEF IInv, StoppedMeansDone
<1> QED
  BY <1>8, <1>9, <1>10, <1>12, <1>13, <1>14, <1>15 DEF IInv

\* The invariant is about the pump's events only where the pump acts: nothing
\* but what it holds, or what is on its way to it, changes.
LEMMA PumpStep ==
    ASSUME IInv, TypeOK', NEW k \in Kinds, conn[k] # "none", conn'[k] # "none",
           \A l \in Kinds \ {k} : conn'[l] = conn[l] /\ stream'[l] = stream[l]
                                 /\ pump'[l] = pump[l] /\ hand'[l] = hand[l],
           \A c \in CRs : KindOf[c] # k => chan'[c] = chan[c],
           UNCHANGED <<obj, pc, idx, copy, ctx>>,
           EventsSound'
    PROVE  IInv'
<1>1. WatchedLate'
  BY DEF IInv, WatchedLate
<1> QED
  BY <1>1 DEF IInv, CreationProgress, UpdatedMeansReconciled,
     PassedReconciled, CopyFresh, StoppedMeansDone, Cur

\* The strengthening holds before the generators are started.
LEMMA InitIInv == Init => IInv
<1> SUFFICES ASSUME Init PROVE IInv
  OBVIOUS
<1>1. TypeOK
  BY TypeInit
<1>2. \A c \in CRs : ~obj[c].applied /\ ~obj[c].reconciled
  BY DEF Init, Prior, Absent
<1>3. CreationProgress
  BY <1>2, DeclaredAre
  DEF Init, CreationProgress, Creating, Waiting, Listening, Owning
<1>4. UpdatedMeansReconciled
  BY <1>2 DEF UpdatedMeansReconciled
<1>5. WatchedLate /\ EventsSound
  BY EmptySeq DEF Init, WatchedLate, EventsSound
<1>6. PassedReconciled /\ CopyFresh /\ StoppedMeansDone
  BY DEF Init, PassedReconciled, CopyFresh, StoppedMeansDone, Waiting,
         Listening, Owning
<1> QED
  BY <1>1, <1>3, <1>4, <1>5, <1>6 DEF IInv

\* Every step keeps the strengthening, one case per action.
LEMMA StepIInv == ~StatusSubresource /\ IInv /\ [Next]_vars => IInv'
<1> SUFFICES ASSUME ~StatusSubresource, IInv, [Next]_vars PROVE IInv'
  OBVIOUS
<1>0. TypeOK /\ TypeOK'
  BY TypeStep DEF IInv
<1> USE <1>0
<1>1. CASE StartGenerators
  <2>1. \A k \in Kinds : /\ pc[k] = "prepare" /\ idx[k] = 1
                         /\ conn[k] = "none"
                         /\ Declared[k] = <<>> => Len(Declared[k]) = 0
    BY <1>1, EmptySeq DEF StartGenerators, TypeOK, IInv, WatchedLate
  <2>2. \A k \in Kinds : pc'[k] = IF Declared[k] = <<>> THEN "done" ELSE "get"
    BY <1>1 DEF StartGenerators
  <2>3. CreationProgress'
    <3>1. ASSUME NEW k \in Kinds, NEW i \in 1..Len(Declared[k])
          PROVE  /\ pc'[k] = "get" /\ idx'[k] = 1 /\ i >= 1 /\ ~(i < 1)
                 /\ obj'[Declared[k][i]] = obj[Declared[k][i]]
                 /\ ~obj[Declared[k][i]].applied
                 /\ ~obj[Declared[k][i]].reconciled
      <4>1. Len(Declared[k]) \in Nat /\ i \in Nat /\ i >= 1 /\ Len(Declared[k]) # 0
        BY ConstantTypes
      <4>2. pc[k] = "prepare" /\ idx[k] = 1
        BY <2>1
      <4>4. Declared[k] # <<>>
        <5> SUFFICES ASSUME Declared[k] = <<>> PROVE FALSE
          OBVIOUS
        <5>1. Len(Declared[k]) = 0
          BY <2>1
        <5> QED
          BY <4>1, <5>1
      <4>3. ~obj[Declared[k][i]].applied /\ ~obj[Declared[k][i]].reconciled
        BY <4>2 DEF IInv, CreationProgress
      <4> QED
        BY <1>1, <2>2, <4>1, <4>2, <4>3, <4>4 DEF StartGenerators
    <3> QED
      BY <3>1 DEF CreationProgress, Creating, Waiting, Listening, Owning
  <2>4. WatchedLate'
    BY <1>1, <2>1 DEF StartGenerators, IInv, WatchedLate
  <2>5. PassedReconciled' /\ CopyFresh'
    BY <1>1, <2>1, <2>2 DEF StartGenerators, PassedReconciled, CopyFresh,
       Waiting, Listening, Owning
  <2> QED
    BY <1>1, <2>3, <2>4, <2>5 DEF StartGenerators, IInv, EventsSound, Sound,
       UpdatedMeansReconciled, StoppedMeansDone
<1>2. ASSUME NEW k \in Kinds, Generator(k) PROVE IInv'
  <2> USE DEF Creating, Waiting, Listening, Owning
  <2>1. CASE CreatorPanics(k) \/ WaiterFails(k) \/ RetriesExhausted(k) \/ ApiFatal(k)
    BY <2>1, SilentStep
    DEF CreatorPanics, WaiterFails, RetriesExhausted, ApiFatal
  <2>2. CASE CreatorFinds(k)
    BY <2>2, LocalStep DEF CreatorFinds, Calls, TypeOK
  <2>3. CASE CreatorFindsNone(k)
    BY <2>3, LocalStep DEF CreatorFindsNone, Local
  <2>4. CASE CreatorCreates(k)
    <3>1. Created \in Object /\ Created.applied /\ ~Created.reconciled
          /\ Created.phase # "Updated"
      BY ObjectWrites DEF Created
    <3> QED
      BY <2>4, <3>1, CreatorWrite DEF CreatorCreates, Calls, TypeOK
  <2>5. CASE CreatorUpdates(k)
    <3>1. Cur(k) \in CRs
      BY <2>5, CurIsDeclared DEF CreatorUpdates, Calls
    <3> DEFINE o == Replaced(obj[Cur(k)])
    <3>2. o \in Object /\ o.applied /\ ~o.reconciled /\ o.phase # "Updated"
      BY <3>1, ObjectWrites DEF Replaced, TypeOK
    <3> HIDE DEF o
    <3> QED
      BY <2>5, <3>2, CreatorWrite DEF CreatorUpdates, Calls, TypeOK, o
  <2>7. CASE ReuseWatch(k)
    BY <2>7, LocalStep DEF ReuseWatch, Local
  <2>8. CASE Register(k)
    <3>1. \A c \in CRs : chan'[c] = chan[c] \/ chan'[c] = <<>>
      BY <2>8 DEF Register, TypeOK
    <3> QED
      BY <2>8, <3>1, LocalStep DEF Register, Local
  <2>10. CASE SendEvent(k)
    BY <2>10, LocalStep DEF SendEvent, Calls
  <2>12. CASE OwnGet(k)
    <3>1. pc[k] = "ownGet" /\ obj[Cur(k)].reconciled
      BY <2>12 DEF OwnGet, Calls, IInv, PassedReconciled
    <3> QED
      BY <2>12, <3>1, LocalStep DEF OwnGet
  <2>13. CASE DeplFound(k)
    <3>1. pc[k] = "deplGet" /\ obj[Cur(k)].reconciled
      BY <2>13 DEF DeplFound, Calls, IInv, PassedReconciled
    <3> QED
      BY <2>13, <3>1, LocalStep DEF DeplFound
  <2>14. CASE DeplMissing(k)
    <3>1. pc[k] = "deplGet" /\ obj[Cur(k)].reconciled
      BY <2>14 DEF DeplMissing, Local, IInv, PassedReconciled
    <3> QED
      BY <2>14, <3>1, LocalStep DEF DeplMissing
  <2>15. CASE RetryGet(k)
    <3>1. pc[k] = "retryGet" /\ obj[Cur(k)].reconciled
      BY <2>15 DEF RetryGet, Calls, IInv, PassedReconciled
    <3>2. copy'[k] = obj[Cur(k)] /\ \A l \in Kinds \ {k} : copy'[l] = copy[l]
      BY <2>15 DEF RetryGet, TypeOK
    <3> QED
      BY <2>15, <3>1, <3>2, LocalStep DEF RetryGet
  <2>17. CASE RetryConflict(k)
    <3>1. pc[k] = "retryUpdate" /\ obj[Cur(k)].reconciled
      BY <2>17 DEF RetryConflict, Calls, IInv, PassedReconciled
    <3>2. \A l \in Kinds \ {k} : copy'[l] = copy[l]
      BY <2>17 DEF RetryConflict, TypeOK
    <3> QED
      BY <2>17, <3>1, <3>2, LocalStep DEF RetryConflict
  <2>6. CASE OpenWatch(k)
    <3>1. /\ pc[k] = "watch" /\ pc' = [pc EXCEPT ![k] = "register"]
          /\ conn' = [conn EXCEPT ![k] = "open"]
          /\ pump' = [pump EXCEPT ![k] = "select"]
          /\ UNCHANGED <<obj, hand, chan, idx, copy, ctx>>
      BY <2>6 DEF OpenWatch, Calls, Goto
    <3>2. PICK order \in Bijection(1..Len(Declared[k]), All(k)) :
             stream' = [stream EXCEPT ![k] =
                [i \in 1..Len(Declared[k]) |->
                    NoteOf(order[i], obj[order[i]])]]
      BY <2>6 DEF OpenWatch
    <3>3. \A i \in 1..Len(Declared[k]) :
             /\ order[i] \in CRs /\ KindOf[order[i]] = k
             /\ \E j \in 1..Len(Declared[k]) : order[i] = Declared[k][j]
      <4>1. Declared[k] \in Seq(CRs)
        BY ConstantTypes
      <4>2. order \in [1..Len(Declared[k]) -> All(k)]
        BY DEF Bijection, Injection
      <4>3. \A c \in All(k) : \E j \in 1..Len(Declared[k]) : c = Declared[k][j]
        BY <4>1 DEF All, Range
      <4> QED
        BY <4>2, <4>3, DeclaredAre
    <3>4. \A i \in 1..Len(Declared[k]) : obj[order[i]].applied
      BY <3>1, <3>3 DEF IInv, CreationProgress
    <3>5. \A i \in 1..Len(Declared[k]) :
             Sound(NoteOf(order[i], obj[order[i]]), k)
      BY <3>3, <3>4 DEF Sound, NoteOf, IInv, UpdatedMeansReconciled
    <3>6. /\ stream'[k] = [i \in 1..Len(Declared[k]) |->
                               NoteOf(order[i], obj[order[i]])]
          /\ \A l \in Kinds \ {k} : stream'[l] = stream[l]
      BY <3>2 DEF TypeOK
    <3>7. Len(stream'[k]) = Len(Declared[k])
      BY <3>6, ConstantTypes
    <3>8. \A n, l : Sound(n, l) => Sound(n, l)'
      BY <3>1 DEF Sound
    <3>9. \A l \in Kinds : \A i \in 1..Len(stream'[l]) : Sound(stream'[l][i], l)
      <4> TAKE l \in Kinds
      <4>1. CASE l = k
        BY <3>5, <3>6, <3>7, <4>1
      <4>2. CASE l # k
        BY <3>6, <4>2 DEF IInv, EventsSound
      <4> QED
        BY <4>1, <4>2
    <3>10. EventsSound'
      <4>1. \A l \in Kinds : \A i \in 1..Len(stream'[l]) : Sound(stream[l][i], l)'
        BY <3>1, <3>9 DEF Sound
      <4>2. \A l \in Kinds : pump'[l] = "deliver" => pump[l] = "deliver"
        BY <3>1 DEF TypeOK
      <4> QED
        BY <3>1, <3>8, <4>1, <4>2 DEF IInv, EventsSound
    <3>11. WatchedLate'
      BY <3>1, <3>6 DEF IInv, WatchedLate, TypeOK
    <3>12. CreationProgress' /\ StoppedMeansDone'
      BY <3>1 DEF IInv, CreationProgress, StoppedMeansDone, TypeOK
    <3>13. PassedReconciled' /\ CopyFresh'
      BY <3>1 DEF IInv, PassedReconciled, CopyFresh, Cur, TypeOK
    <3> QED
      BY <3>1, <3>10, <3>11, <3>12, <3>13 DEF IInv, UpdatedMeansReconciled
  <2>9. CASE Receive(k)
    <3> DEFINE note == Head(chan[Cur(k)])
    <3>1. /\ pc[k] = "select" /\ chan[Cur(k)] # <<>> /\ Cur(k) \in CRs
          /\ chan' = [chan EXCEPT ![Cur(k)] = Tail(@)]
          /\ Goto(k, Verdict(note.phase))
          /\ UNCHANGED <<obj, stream, conn, pump, hand, idx, copy, ctx>>
      BY <2>9, CurIsDeclared DEF Receive, Local
    <3>2. \A s \in Seq(Note) : Len(s) <= 1 /\ s # <<>> => Tail(s) = <<>>
      OBVIOUS
    <3>3. \A c \in CRs : chan'[c] = chan[c] \/ chan'[c] = <<>>
      BY <3>1, <3>2 DEF TypeOK
    <3>4. note.cr = Cur(k) /\ Sound(note, KindOf[Cur(k)])
      BY <3>1 DEF IInv, EventsSound
    <3>5. note.phase = "Updated" => obj[Cur(k)].reconciled
      BY <3>1, <3>4 DEF Sound
    <3>6. /\ Verdict(note.phase) \in {"ownGet", "report", "select"}
          /\ Verdict(note.phase) = "ownGet" => note.phase = "Updated"
      BY DEF Verdict
    <3> HIDE DEF note
    <3> QED
      BY <3>1, <3>3, <3>5, <3>6, LocalStep
  <2>16. CASE RetryUpdate(k)
    <3> DEFINE o == Owned(copy[k])
    <3>1. /\ pc[k] = "retryUpdate" /\ Cur(k) \in CRs /\ KindOf[Cur(k)] = k
          /\ pc' = [pc EXCEPT ![k] = "unregister"]
          /\ Write(Cur(k), o)
          /\ copy[k] = obj[Cur(k)]
          /\ \A l \in Kinds \ {k} : copy'[l] = copy[l]
          /\ UNCHANGED <<conn, pump, hand, chan, idx, ctx>>
      BY <2>16, CurIsDeclared
      DEF RetryUpdate, Calls, Goto, IInv, CopyFresh, TypeOK
    <3>2. /\ o \in Object
          /\ o.rv = obj[Cur(k)].rv + 1
          /\ o.applied = obj[Cur(k)].applied
          /\ o.reconciled = obj[Cur(k)].reconciled
          /\ o.phase = obj[Cur(k)].phase
      BY <3>1, ObjectWrites DEF Owned, TypeOK
    <3>3. o.applied /\ o.phase = "Updated" => o.reconciled
      BY <3>1, <3>2 DEF IInv, UpdatedMeansReconciled
    <3>4. obj' = [obj EXCEPT ![Cur(k)] = o]
      BY <3>1 DEF Write
    <3> HIDE DEF o
    <3>5. /\ \A d \in CRs : /\ obj'[d].applied = obj[d].applied
                            /\ obj[d].reconciled => obj'[d].reconciled
                            /\ obj'[d].reconciled =>
                                   obj[d].reconciled \/ obj[d].applied
          /\ UpdatedMeansReconciled' /\ EventsSound'
          /\ \A l \in Kinds : conn[l] = "none" => stream'[l] = stream[l]
      BY <3>1, <3>2, <3>3, LaterWrite
    <3>11. pc'[k] = "unregister" /\ \A l \in Kinds \ {k} : pc'[l] = pc[l]
      BY <3>1 DEF TypeOK
    <3>6. CreationProgress'
      <4> SUFFICES ASSUME NEW l \in Kinds, NEW i \in 1..Len(Declared[l])
                   PROVE  LET d == Declared[l][i] IN
                     /\ pc'[l] \in Creating /\ i < idx[l] => obj'[d].applied
                     /\ pc'[l] \in Waiting \cup {"done"} => obj'[d].applied
                     /\ pc'[l] = "prepare" =>
                           ~obj'[d].applied /\ ~obj'[d].reconciled
                     /\ pc'[l] \in Creating /\ i >= idx[l] =>
                           ~obj'[d].applied /\ ~obj'[d].reconciled
        BY <3>1 DEF CreationProgress
      <4>1. Declared[l][i] \in CRs
        BY DeclaredAre
      <4>2. CASE l = k
        <5>1. obj[Declared[l][i]].applied
          BY <3>1, <4>2 DEF IInv, CreationProgress
        <5> QED
          BY <3>5, <3>11, <4>1, <4>2, <5>1
      <4>3. CASE l # k
        BY <3>5, <3>11, <4>1, <4>3 DEF IInv, CreationProgress
      <4> QED
        BY <4>2, <4>3
    <3>7. WatchedLate'
      BY <3>1, <3>5 DEF IInv, WatchedLate, TypeOK
    <3>8. PassedReconciled'
      <4> SUFFICES ASSUME NEW l \in Kinds
                   PROVE  /\ \A i \in 1..Len(Declared[l]) :
                                \/ pc'[l] = "done"
                                \/ pc'[l] \in Waiting /\ i < idx[l]
                                => obj'[Declared[l][i]].reconciled
                          /\ pc'[l] \in Owning \cup {"unregister"} =>
                                obj'[Declared[l][idx[l]]].reconciled
        BY <3>1 DEF PassedReconciled, Cur
      <4>1. pc'[l] = pc[l] \/ (pc'[l] = "unregister" /\ pc[l] = "retryUpdate")
        BY <3>1, <3>11
      <4>2. ASSUME NEW i \in 1..Len(Declared[l]),
                   pc'[l] = "done" \/ (pc'[l] \in Waiting /\ i < idx[l])
            PROVE  obj'[Declared[l][i]].reconciled
        <5>1. obj[Declared[l][i]].reconciled
          BY <4>1, <4>2 DEF IInv, PassedReconciled
        <5> QED
          BY <3>5, <5>1, DeclaredAre
      <4>3. ASSUME pc'[l] \in Owning \cup {"unregister"}
            PROVE  obj'[Declared[l][idx[l]]].reconciled
        <5>1. obj[Cur(l)].reconciled /\ Cur(l) \in CRs
          BY <4>1, <4>3, CurIsDeclared DEF IInv, PassedReconciled
        <5> QED
          BY <3>5, <5>1 DEF Cur
      <4> QED
        BY <4>2, <4>3
    <3>9. CopyFresh'
      <4>1. \A l \in Kinds : pc'[l] = "retryUpdate" =>
               /\ l # k /\ pc[l] = "retryUpdate"
               /\ Cur(l) \in CRs /\ KindOf[Cur(l)] = l
        BY <3>1, CurIsDeclared DEF TypeOK
      <4>2. \A c \in CRs : KindOf[c] # k => obj'[c] = obj[c]
        BY <3>1, <3>4 DEF TypeOK
      <4> QED
        BY <3>1, <4>1, <4>2 DEF IInv, CopyFresh, Cur
    <3>10. StoppedMeansDone'
      BY <3>1 DEF IInv, StoppedMeansDone
    <3> QED
      BY <3>5, <3>6, <3>7, <3>8, <3>9, <3>10 DEF IInv
  <2>19. CASE Unregister(k)
    <3> DEFINE more == idx[k] < Len(Declared[k])
    <3>1. /\ pc[k] = "unregister" /\ obj[Cur(k)].reconciled
          /\ idx[k] \in 1..Len(Declared[k]) /\ Len(Declared[k]) \in Nat
          /\ UNCHANGED <<obj, stream, conn, pump, hand, chan, copy, ctx>>
      BY <2>19, CurIsDeclared, ConstantTypes
      DEF Unregister, Local, IInv, PassedReconciled
    <3>2. /\ pc' = [pc EXCEPT ![k] = IF more THEN "watch" ELSE "done"]
          /\ idx' = [idx EXCEPT ![k] = IF more THEN @ + 1 ELSE @]
      BY <2>19 DEF Unregister, Goto, TypeOK
    <3>3. /\ pc'[k] \in {"watch", "done"}
          /\ pc'[k] = "watch" => idx'[k] = idx[k] + 1
          /\ pc'[k] = "done" => idx[k] = Len(Declared[k])
          /\ \A l \in Kinds \ {k} : pc'[l] = pc[l] /\ idx'[l] = idx[l]
      BY <3>1, <3>2 DEF TypeOK
    <3> HIDE DEF more
    <3>4. \A i \in 1..Len(Declared[k]) : i <= idx[k] =>
             obj[Declared[k][i]].reconciled
      BY <3>1 DEF IInv, PassedReconciled, Cur
    <3>5. PassedReconciled'
      <4> SUFFICES ASSUME NEW l \in Kinds
                   PROVE  /\ \A i \in 1..Len(Declared[l]) :
                                \/ pc'[l] = "done"
                                \/ pc'[l] \in Waiting /\ i < idx'[l]
                                => obj'[Declared[l][i]].reconciled
                          /\ pc'[l] \in Owning \cup {"unregister"} =>
                                obj'[Declared[l][idx'[l]]].reconciled
        BY DEF PassedReconciled, Cur
      <4>1. CASE l # k
        BY <3>1, <3>3, <4>1 DEF IInv, PassedReconciled, Cur
      <4>2. CASE l = k
        BY <3>1, <3>3, <3>4, <4>2
      <4> QED
        BY <4>1, <4>2
    <3>6. CreationProgress'
      BY <3>1, <3>3 DEF IInv, CreationProgress
    <3>7. WatchedLate' /\ EventsSound' /\ UpdatedMeansReconciled'
      BY <3>1, <3>3 DEF IInv, WatchedLate, EventsSound, Sound,
         UpdatedMeansReconciled
    <3>8. CopyFresh' /\ StoppedMeansDone'
      BY <3>1, <3>3 DEF IInv, CopyFresh, StoppedMeansDone, Cur
    <3> QED
      BY <3>5, <3>6, <3>7, <3>8 DEF IInv
  <2> QED
    BY <1>2, <2>1, <2>2, <2>3, <2>4, <2>5, <2>6, <2>7, <2>8, <2>9, <2>10,
       <2>12, <2>13, <2>14, <2>15, <2>16, <2>17, <2>19
    DEF Generator
<1>3. ASSUME NEW k \in Kinds, WaiterTimesOut(k) PROVE IInv'
  BY <1>3, LocalStep DEF WaiterTimesOut, Local, Waiting, Listening, Owning
<1>4. ASSUME NEW k \in Kinds, Pump(k) PROVE IInv'
  <2>1. \A n, l : Sound(n, l) <=> Sound(n, l)'
    BY <1>4 DEF Pump, PumpDrops, PumpTakes, PumpDelivers, PumpExits, Sound
  <2>2. conn[k] # "none" /\ conn' = conn
    BY <1>4 DEF Pump, PumpDrops, PumpTakes, PumpDelivers, PumpExits, IInv,
       WatchedLate
  <2>3. CASE PumpDrops(k) \/ PumpTakes(k)
    <3>1. /\ stream[k] \in Seq(Note) /\ stream[k] # <<>>
          /\ stream' = [stream EXCEPT ![k] = Tail(@)]
          /\ chan' = chan
      BY <2>3 DEF PumpDrops, PumpTakes, TypeOK
    <3>2. \A i \in 1..Len(Tail(stream[k])) :
             i + 1 \in 1..Len(stream[k]) /\ Tail(stream[k])[i] = stream[k][i + 1]
      BY <3>1
    <3>3. \A l \in Kinds : \A i \in 1..Len(stream'[l]) : Sound(stream'[l][i], l)
      <4> TAKE l \in Kinds
      <4>1. CASE l = k
        BY <3>1, <3>2, <4>1 DEF IInv, EventsSound, TypeOK
      <4>2. CASE l # k
        BY <3>1, <4>2 DEF IInv, EventsSound, TypeOK
      <4> QED
        BY <4>1, <4>2
    <3>4. \A l \in Kinds : pump'[l] = "deliver" => Sound(hand'[l], l)
      <4>1. Head(stream[k]) = stream[k][1] /\ 1 \in 1..Len(stream[k])
        BY <3>1
      <4>2. Sound(Head(stream[k]), k)
        BY <4>1 DEF IInv, EventsSound
      <4> QED
        BY <2>3, <4>2 DEF PumpDrops, PumpTakes, IInv, EventsSound, TypeOK
    <3>5. EventsSound'
      BY <2>1, <3>1, <3>3, <3>4 DEF IInv, EventsSound
    <3> QED
      BY <2>2, <2>3, <3>1, <3>5, PumpStep DEF PumpDrops, PumpTakes, TypeOK
  <2>4. CASE PumpDelivers(k)
    <3>1. /\ hand[k].cr \in CRs /\ Sound(hand[k], k)
          /\ KindOf[hand[k].cr] = k
          /\ chan' = [chan EXCEPT ![hand[k].cr] = <<hand[k]>>]
          /\ pump' = [pump EXCEPT ![k] = "select"]
          /\ hand' = [hand EXCEPT ![k] = ErrorNote]
          /\ UNCHANGED <<obj, stream, conn, pc, idx, copy, ctx>>
      BY <2>4 DEF PumpDelivers, TypeOK, IInv, EventsSound, Sound
    <3>2. \A c \in CRs : chan'[c] # <<>> =>
             Head(chan'[c]).cr = c /\ Sound(Head(chan'[c]), KindOf[c])
      BY <3>1 DEF IInv, EventsSound, TypeOK
    <3>3. \A l \in Kinds : pump'[l] = "deliver" =>
             pump[l] = "deliver" /\ hand'[l] = hand[l]
      BY <3>1 DEF TypeOK
    <3>4. EventsSound'
      BY <2>1, <3>1, <3>2, <3>3 DEF IInv, EventsSound
    <3> QED
      BY <2>2, <3>1, <3>4, PumpStep DEF TypeOK
  <2>5. CASE PumpExits(k)
    <3>1. \A l \in Kinds : pump'[l] = "deliver" => pump[l] = "deliver"
      BY <2>5 DEF PumpExits, TypeOK
    <3>2. EventsSound'
      BY <2>1, <2>5, <3>1 DEF PumpExits, IInv, EventsSound
    <3> QED
      BY <2>2, <2>5, <3>2, PumpStep DEF PumpExits, TypeOK
  <2> QED
    BY <1>4, <2>3, <2>4, <2>5 DEF Pump
<1>5. ASSUME NEW k \in Kinds, CloseWatch(k) PROVE IInv'
  <2>1. PICK n \in 0..Len(stream[k]), last \in {<<>>, <<ErrorNote>>} :
           stream' = [stream EXCEPT ![k] = SubSeq(@, 1, n) \o last]
    BY <1>5 DEF CloseWatch
  <2>2. /\ stream[k] \in Seq(Note) /\ conn[k] = "open"
        /\ conn' = [conn EXCEPT ![k] = "closed"]
        /\ UNCHANGED <<obj, pump, hand, chan, pc, idx, copy, ctx>>
    BY <1>5 DEF CloseWatch, TypeOK
  <2>3. \A m, l : Sound(m, l) <=> Sound(m, l)'
    BY <2>2 DEF Sound
  <2>4. Sound(ErrorNote, k)
    BY ConstantsAssumption DEF Sound, ErrorNote, ConstantsAssumption
  <2>5. \A i \in 1..Len(SubSeq(stream[k], 1, n) \o last) :
           Sound((SubSeq(stream[k], 1, n) \o last)[i], k)
    <3> DEFINE front == SubSeq(stream[k], 1, n)
    <3>1. /\ front \in Seq(Note) /\ Len(front) = n
          /\ \A i \in 1..n : front[i] = stream[k][i] /\ i \in 1..Len(stream[k])
      BY <2>2
    <3>2. \A i \in 1..n : Sound(front[i], k)
      BY <3>1 DEF IInv, EventsSound
    <3> HIDE DEF front
    <3>3. CASE last = <<>>
      BY <3>1, <3>2, <3>3
    <3>4. CASE last = <<ErrorNote>>
      <4>1. <<ErrorNote>> \in Seq(Note)
        BY ErrorNoteIsNote
      <4>2. /\ Len(front \o last) = n + 1
            /\ \A i \in 1..n : (front \o last)[i] = front[i]
            /\ (front \o last)[n + 1] = ErrorNote
        BY <3>1, <3>4, <4>1
      <4>3. ASSUME NEW i \in 1..Len(front \o last)
            PROVE  Sound((front \o last)[i], k)
        <5>1. i \in 1..n \/ i = n + 1
          BY <4>2
        <5> QED
          BY <2>4, <3>2, <4>2, <5>1
      <4> QED
        BY <4>3 DEF front
    <3> QED
      BY <3>3, <3>4 DEF front
  <2>6. \A l \in Kinds : \A i \in 1..Len(stream'[l]) : Sound(stream'[l][i], l)
    <3> TAKE l \in Kinds
    <3>1. CASE l = k
      BY <2>1, <2>5, <3>1 DEF TypeOK
    <3>2. CASE l # k
      BY <2>1, <3>2 DEF IInv, EventsSound, TypeOK
    <3> QED
      BY <3>1, <3>2
  <2>7. EventsSound'
    BY <2>2, <2>3, <2>6 DEF IInv, EventsSound
  <2> QED
    BY <2>1, <2>2, <2>7, PumpStep DEF TypeOK
<1>6. ASSUME NEW c \in CRs, NEW o \in Object, Write(c, o),
             o = Taken(obj[c]) \/ \E p \in Phases : o = Reported(obj[c], p),
             UNCHANGED <<watchVars, waitVars, pc, idx, copy, tries, reported,
                         mainVars>>
      PROVE  IInv'
  <2>1. /\ obj[c] \in Object /\ o.rv = obj[c].rv + 1
        /\ o.applied = obj[c].applied
        /\ obj[c].reconciled => o.reconciled
        /\ o.reconciled => obj[c].reconciled \/ obj[c].applied
        /\ o.applied /\ o.phase = "Updated" => o.reconciled
    <3>1. /\ obj[c] \in Object
          /\ obj[c].applied /\ obj[c].phase = "Updated" => obj[c].reconciled
      BY DEF TypeOK, IInv, UpdatedMeansReconciled
    <3>2. CASE o = Taken(obj[c])
      BY <3>1, <3>2 DEF Taken, Object
    <3>3. ASSUME NEW p \in Phases, o = Reported(obj[c], p)
          PROVE  /\ o.rv = obj[c].rv + 1
                 /\ o.applied = obj[c].applied
                 /\ o.phase = p
                 /\ o.reconciled <=> obj[c].reconciled
                                      \/ (obj[c].applied /\ p = "Updated")
      BY <3>1, <3>3 DEF Reported, Object
    <3> QED
      BY <1>6, <3>1, <3>2, <3>3
  <2>2. /\ \A d \in CRs : /\ obj'[d].applied = obj[d].applied
                          /\ obj[d].reconciled => obj'[d].reconciled
                          /\ obj'[d].reconciled =>
                                 obj[d].reconciled \/ obj[d].applied
        /\ UpdatedMeansReconciled' /\ EventsSound'
        /\ \A l \in Kinds : conn[l] = "none" => stream'[l] = stream[l]
    BY <1>6, <2>1, LaterWrite
  <2>3. CreationProgress'
    BY <1>6, <2>2, DeclaredAre DEF IInv, CreationProgress
  <2>4. WatchedLate' /\ StoppedMeansDone'
    BY <1>6, <2>2 DEF IInv, WatchedLate, StoppedMeansDone
  <2>5. PassedReconciled'
    <3>1. \A l \in Kinds : pc[l] \in Owning \cup {"unregister"} => Cur(l) \in CRs
      BY CurIsDeclared DEF Owning
    <3> QED
      BY <1>6, <2>2, <3>1, DeclaredAre DEF IInv, PassedReconciled, Cur
  <2>6. CopyFresh'
    <3> SUFFICES ASSUME NEW l \in Kinds, pc[l] = "retryUpdate"
                 PROVE  /\ copy[l].rv <= obj'[Cur(l)].rv
                        /\ copy[l].rv = obj'[Cur(l)].rv => copy[l] = obj'[Cur(l)]
      BY <1>6 DEF CopyFresh, Cur
    <3>1. /\ Cur(l) \in CRs /\ copy[l].rv \in Nat /\ obj[Cur(l)].rv \in Nat
          /\ copy[l].rv <= obj[Cur(l)].rv
          /\ copy[l].rv = obj[Cur(l)].rv => copy[l] = obj[Cur(l)]
      BY CurIsDeclared DEF TypeOK, Object, IInv, CopyFresh
    <3>2. obj' = [obj EXCEPT ![c] = o]
      BY <1>6 DEF Write
    <3>3. CASE Cur(l) = c
      <4>1. obj'[Cur(l)].rv = obj[Cur(l)].rv + 1
        BY <2>1, <3>2, <3>3 DEF TypeOK
      <4>2. copy[l].rv < obj'[Cur(l)].rv
        BY <3>1, <4>1
      <4> QED
        BY <3>1, <4>1, <4>2
    <3>4. CASE Cur(l) # c
      BY <3>1, <3>2, <3>4 DEF TypeOK
    <3> QED
      BY <3>3, <3>4
  <2> QED
    BY <2>2, <2>3, <2>4, <2>5, <2>6 DEF IInv
<1>7. ASSUME NEW c \in CRs, OperatorReports(c) \/ OtherOwner(c) PROVE IInv'
  <2>1. obj[c] \in Object
    BY DEF TypeOK
  <2>2. CASE OperatorReports(c)
    <3>1. PICK p \in Phases : Write(c, Reported(obj[c], p))
      BY <2>2 DEF OperatorReports
    <3> QED
      BY <1>6, <2>1, <2>2, <3>1, ObjectWrites DEF OperatorReports
  <2>3. CASE OtherOwner(c)
    BY <1>6, <2>1, <2>3, ObjectWrites DEF OtherOwner
  <2> QED
    BY <1>7, <2>2, <2>3
<1>8. CASE RunReturns \/ Signal
  BY <1>8, SMTT(30) DEF RunReturns, Signal, IInv, CreationProgress,
     UpdatedMeansReconciled, WatchedLate, EventsSound, Sound,
     PassedReconciled, CopyFresh, StoppedMeansDone, Cur
<1>9. CASE MainReturns \/ Finished \/ UNCHANGED vars
  BY <1>9, SilentStep DEF MainReturns, Finished
<1> QED
  BY <1>1, <1>2, <1>3, <1>4, <1>5, <1>7, <1>8, <1>9 DEF Next

\* When the hook ends with success because its generators have finished,
\* every declared resource has been reconciled: for any number of kinds and
\* resources, and whatever the watch and the operators do.
THEOREM Safety == ASSUME ~StatusSubresource PROVE Spec => []OkMeansReconciled
<1>1. Init => IInv
  BY InitIInv
<1>2. IInv /\ [Next]_vars => IInv'
  BY StepIInv
<1>3. IInv => OkMeansReconciled
  <2> SUFFICES ASSUME IInv, ctx = "stopped", NEW c \in CRs
               PROVE  obj[c].reconciled
    BY DEF OkMeansReconciled
  <2>1. KindOf[c] \in Kinds /\ pc[KindOf[c]] = "done"
    BY DeclaredAre DEF IInv, StoppedMeansDone
  <2> QED
    BY <2>1, DeclaredAre DEF IInv, PassedReconciled
<1> QED
  BY <1>1, <1>2, <1>3, PTL DEF Spec
=============================================================================
