----------------------- MODULE EventRecorderProofs -------------------------
(***************************************************************************)
(* Theorems about EventRecorder for any number of generators and reasons,  *)
(* any length of the queues and any limits.                                *)
(***************************************************************************)
EXTENDS EventRecorder, FiniteSetTheorems, TLAPS

Distinct(q) == \A i, j \in DOMAIN q : q[i] = q[j] => i = j

\* A queue without repetitions is no longer than the set it draws from is large.
LEMMA QueueShort ==
    ASSUME NEW W, IsFiniteSet(W), NEW q \in Seq(Senders), Distinct(q),
           \A s : InQueue(q, s) => s \in W
    PROVE  Len(q) <= Cardinality(W)
<1>1. Len(q) \in Nat /\ DOMAIN q = 1..Len(q)
  OBVIOUS
<1>2. q \in [1..Len(q) -> W]
  BY <1>1 DEF InQueue
<1>3. q \in Injection(1..Len(q), W)
  BY <1>1, <1>2 DEF Distinct, Injection, IsInjective
<1>4. Cardinality(1..Len(q)) <= Cardinality(W)
  BY <1>3, FS_Injection
<1>5. Cardinality(1..Len(q)) = Len(q)
  BY <1>1, FS_Interval
<1> QED
  BY <1>4, <1>5

\* What is offered to a queue changes nothing else in it.
LEMMA OfferedKeeps ==
    ASSUME NEW q \in Seq(Senders), NEW s \in Senders
    PROVE  /\ Offered(q, s) \in Seq(Senders)
           /\ \A x : InQueue(q, x) => InQueue(Offered(q, s), x)
           /\ \A x : InQueue(Offered(q, s), x) => InQueue(q, x) \/ x = s
           /\ Len(q) < QueueLength => InQueue(Offered(q, s), s)
           /\ Distinct(q) /\ ~InQueue(q, s) => Distinct(Offered(q, s))
<1>1. CASE ~(Len(q) < QueueLength)
  BY <1>1 DEF Offered
<1>2. CASE Len(q) < QueueLength
  <2>1. Offered(q, s) = Append(q, s)
    BY <1>2 DEF Offered
  <2>2. /\ Append(q, s) \in Seq(Senders)
        /\ DOMAIN Append(q, s) = 1..(Len(q) + 1)
        /\ DOMAIN q = 1..Len(q)
        /\ Len(q) \in Nat
        /\ \A i \in 1..Len(q) : Append(q, s)[i] = q[i]
        /\ Append(q, s)[Len(q) + 1] = s
    OBVIOUS
  <2>3. \A i \in 1..(Len(q) + 1) : i \in 1..Len(q) \/ i = Len(q) + 1
    BY <2>2
  <2>4. \A x : InQueue(q, x) => InQueue(Append(q, s), x)
    BY <2>2 DEF InQueue
  <2>5. \A x : InQueue(Append(q, s), x) => InQueue(q, x) \/ x = s
    BY <2>2, <2>3 DEF InQueue
  <2>6. InQueue(Append(q, s), s)
    BY <2>2 DEF InQueue
  <2>7. Distinct(q) /\ ~InQueue(q, s) => Distinct(Append(q, s))
    BY <2>2, <2>3 DEF InQueue, Distinct
  <2> QED
    BY <2>1, <2>2, <2>4, <2>5, <2>6, <2>7
<1> QED
  BY <1>1, <1>2

\* Taking the head of a queue takes nothing else.
LEMMA TailKeeps ==
    ASSUME NEW q \in Seq(Senders), q # <<>>
    PROVE  /\ Head(q) \in Senders
           /\ InQueue(q, Head(q))
           /\ Tail(q) \in Seq(Senders)
           /\ \A x : InQueue(Tail(q), x) => InQueue(q, x)
           /\ \A x : InQueue(q, x) => InQueue(Tail(q), x) \/ x = Head(q)
           /\ Distinct(q) => Distinct(Tail(q)) /\ ~InQueue(Tail(q), Head(q))
<1>1. /\ Len(q) \in Nat \ {0}
      /\ DOMAIN q = 1..Len(q)
      /\ Head(q) = q[1]
      /\ Tail(q) \in Seq(Senders)
      /\ DOMAIN Tail(q) = 1..(Len(q) - 1)
      /\ \A i \in 1..(Len(q) - 1) : Tail(q)[i] = q[i + 1]
  OBVIOUS
<1>2. \A i \in 1..(Len(q) - 1) : i + 1 \in 1..Len(q) /\ i + 1 # 1
  BY <1>1
<1>3. \A i \in 1..Len(q) : i = 1 \/ (i - 1 \in 1..(Len(q) - 1) /\ (i - 1) + 1 = i)
  BY <1>1
<1>4. 1 \in 1..Len(q) /\ q[1] \in Senders
  BY <1>1
<1>5. \A x : InQueue(Tail(q), x) => InQueue(q, x)
  BY <1>1, <1>2 DEF InQueue
<1>6. ASSUME NEW x, InQueue(q, x), x # Head(q)
      PROVE  InQueue(Tail(q), x)
  <2>1. PICK i \in 1..Len(q) : q[i] = x
    BY <1>1, <1>6 DEF InQueue
  <2>2. i - 1 \in 1..(Len(q) - 1) /\ (i - 1) + 1 = i
    BY <1>1, <1>3, <1>6, <2>1
  <2>3. Tail(q)[i - 1] = x
    BY <1>1, <2>1, <2>2
  <2> QED
    BY <1>1, <2>2, <2>3 DEF InQueue
<1>7. ASSUME Distinct(q)
      PROVE  Distinct(Tail(q)) /\ ~InQueue(Tail(q), Head(q))
  <2>1. Distinct(Tail(q))
    <3> SUFFICES ASSUME NEW i \in 1..(Len(q) - 1), NEW j \in 1..(Len(q) - 1),
                        Tail(q)[i] = Tail(q)[j]
                 PROVE  i = j
      BY <1>1 DEF Distinct
    <3>1. q[i + 1] = q[j + 1] /\ i + 1 \in 1..Len(q) /\ j + 1 \in 1..Len(q)
      BY <1>1, <1>2
    <3>2. i + 1 = j + 1
      BY <3>1, <1>1, <1>7 DEF Distinct
    <3> QED
      BY <3>2
  <2>2. ~InQueue(Tail(q), Head(q))
    <3> SUFFICES ASSUME NEW i \in 1..(Len(q) - 1), q[i + 1] = q[1]
                 PROVE  FALSE
      BY <1>1 DEF InQueue
    <3> QED
      BY <1>1, <1>2, <1>4, <1>7 DEF Distinct
  <2> QED
    BY <2>1, <2>2
<1> QED
  BY <1>1, <1>4, <1>5, <1>6, <1>7 DEF InQueue

-----------------------------------------------------------------------------
(* The invariant *)

\* A warning is in one place, and only if its generator has warned.
OnePlace ==
    /\ Distinct(incoming)
    /\ Distinct(queue)
    /\ \A s : InQueue(incoming, s) =>
                 s \in Warned /\ ~InQueue(queue, s) /\ s \notin taken
    /\ \A s : InQueue(queue, s) => s \in Warned /\ s \notin taken
    /\ taken \subseteq Warned

\* The cache counts what was observed and keeps the name of one such warning.
CacheExact ==
    \A r \in Reasons :
        /\ cache[r].count = Cardinality(TakenOf(r))
        /\ cache[r].count > 0 => cache[r].name \in TakenOf(r)

\* The event that is written is the one in the cache.
CurCached ==
    sink # "idle" =>
        /\ cur.of \in taken
        /\ cur.count > 0
        /\ cur.name = cache[reason[cur.of]].name
        /\ cur.count = cache[reason[cur.of]].count

\* An event in the API server has the name that the cache has for its reason.
StoredCached ==
    \A n \in Senders : stored[n] > 0 => /\ n \in taken
                                        /\ n = cache[reason[n]].name

IInv == TypeOK /\ OnePlace /\ CacheExact /\ CurCached /\ StoredCached

LEMMA WarnedReason ==
    ASSUME TypeOK, NEW s \in Warned
    PROVE  s \in Senders /\ reason[s] \in Reasons
BY DEF TypeOK, Warned

LEMMA InitInv == Init => IInv
<1> SUFFICES ASSUME Init PROVE IInv
  OBVIOUS
<1>1. TypeOK
  BY ConstantsAssumption DEF Init, TypeOK, ConstantsAssumption
<1>2. OnePlace
  BY DEF Init, OnePlace, InQueue, Distinct
<1>3. CacheExact
  <2>1. \A r \in Reasons : TakenOf(r) = {}
    BY DEF Init, TakenOf
  <2>2. \A r \in Reasons : cache[r].count = 0
    BY DEF Init
  <2> QED
    BY <2>1, <2>2, FS_EmptySet DEF CacheExact
<1>4. CurCached /\ StoredCached
  BY DEF Init, CurCached, StoredCached
<1> QED
  BY <1>1, <1>2, <1>3, <1>4 DEF IInv

-----------------------------------------------------------------------------
(* Each step preserves the invariant *)

\* A step that leaves the recorder's own state alone, and that of the events.
LEMMA OtherStep ==
    ASSUME IInv, TypeOK', OnePlace', UNCHANGED <<recorderVars, stored>>,
           \A s \in Warned : reason'[s] = reason[s]
    PROVE  IInv'
<1>1. /\ taken' = taken /\ cache' = cache /\ cur' = cur /\ sink' = sink
      /\ stored' = stored
  BY DEF recorderVars
<1>2. taken \subseteq Warned
  BY DEF IInv, OnePlace
<1>3. \A r \in Reasons : TakenOf(r)' = TakenOf(r)
  BY <1>1, <1>2 DEF TakenOf
<1>4. CacheExact'
  BY <1>1, <1>3 DEF IInv, CacheExact
<1>5. CurCached'
  BY <1>1, <1>2 DEF IInv, CurCached
<1>6. StoredCached'
  BY <1>1, <1>2 DEF IInv, StoredCached
<1> QED
  BY <1>4, <1>5, <1>6 DEF IInv

LEMMA GenerateEventStep ==
    ASSUME IInv, NEW s \in Senders, GenerateEvent(s)
    PROVE  IInv'
<1>1. /\ reason[s] = None
      /\ incoming' = Offered(incoming, s)
      /\ UNCHANGED <<queue, recorderVars, stored, alive>>
  BY DEF GenerateEvent
<1>2. PICK r \in Reasons : reason' = [reason EXCEPT ![s] = r]
  BY DEF GenerateEvent
<1>3. incoming \in Seq(Senders) /\ reason \in [Senders -> Reasons \cup {None}]
  BY DEF IInv, TypeOK
<1>4. TypeOK'
  <2>1. incoming' \in Seq(Senders)
    BY <1>1, <1>3, OfferedKeeps
  <2>2. reason' \in [Senders -> Reasons \cup {None}]
    BY <1>2, <1>3
  <2> QED
    BY <1>1, <2>1, <2>2 DEF IInv, TypeOK, recorderVars
<1>5. s \notin Warned /\ Warned' = Warned \cup {s}
  BY <1>1, <1>2, <1>3, ConstantsAssumption DEF Warned, ConstantsAssumption
<1>6. ~InQueue(incoming, s) /\ ~InQueue(queue, s) /\ s \notin taken
  BY <1>5 DEF IInv, OnePlace
<1>7. OnePlace'
  <2>1. /\ \A x : InQueue(incoming', x) => InQueue(incoming, x) \/ x = s
        /\ Distinct(incoming')
    BY <1>1, <1>3, <1>6, OfferedKeeps DEF IInv, OnePlace
  <2>2. queue' = queue /\ taken' = taken
    BY <1>1 DEF recorderVars
  <2> QED
    BY <1>5, <1>6, <2>1, <2>2 DEF IInv, OnePlace
<1>8. \A w \in Warned : reason'[w] = reason[w]
  BY <1>2, <1>3, <1>5 DEF Warned
<1> QED
  BY <1>1, <1>4, <1>7, <1>8, OtherStep

LEMMA DistributeStep ==
    ASSUME IInv, Distribute
    PROVE  IInv'
<1> DEFINE h == Head(incoming)
<1>1. /\ incoming # <<>>
      /\ queue' = Offered(queue, h)
      /\ incoming' = Tail(incoming)
      /\ UNCHANGED <<reason, recorderVars, stored, alive>>
  BY DEF Distribute
<1>2. incoming \in Seq(Senders) /\ queue \in Seq(Senders)
  BY DEF IInv, TypeOK
<1>3. /\ h \in Senders
      /\ InQueue(incoming, h)
      /\ incoming' \in Seq(Senders)
      /\ \A x : InQueue(incoming', x) => InQueue(incoming, x)
      /\ Distinct(incoming') /\ ~InQueue(incoming', h)
  BY <1>1, <1>2, TailKeeps DEF IInv, OnePlace
<1>4. ~InQueue(queue, h) /\ h \in Warned /\ h \notin taken
  BY <1>3 DEF IInv, OnePlace
<1>5. /\ queue' \in Seq(Senders)
      /\ \A x : InQueue(queue', x) => InQueue(queue, x) \/ x = h
      /\ Distinct(queue')
  BY <1>1, <1>2, <1>3, <1>4, OfferedKeeps DEF IInv, OnePlace
<1>6. TypeOK'
  BY <1>1, <1>3, <1>5 DEF IInv, TypeOK, recorderVars
<1>7. Warned' = Warned /\ taken' = taken
  BY <1>1 DEF Warned, recorderVars
<1>8. OnePlace'
  BY <1>3, <1>4, <1>5, <1>7 DEF IInv, OnePlace
<1> QED
  BY <1>1, <1>6, <1>8, OtherStep

\* The warning observed is new to the recorder, so that the cache counts it
\* once.
LEMMA EventCorrelateStep ==
    ASSUME IInv, EventCorrelate
    PROVE  IInv'
<1> DEFINE s == Head(queue)
           e == Observed(s)
<1>1. /\ queue # <<>> /\ sink = "idle"
      /\ cache' = [cache EXCEPT ![reason[s]] = e]
      /\ cur' = [name |-> e.name, count |-> e.count, of |-> s]
      /\ taken' = taken \cup {s}
      /\ queue' = Tail(queue)
      /\ tries' = 0
      /\ UNCHANGED <<reason, incoming, stored, alive>>
  BY DEF EventCorrelate
<1>2. spent' \in 0..Burst /\ sink' \in {"idle", "patch", "create"}
  BY ConstantsAssumption
     DEF EventCorrelate, FirstRequest, IInv, TypeOK, ConstantsAssumption
<1>3. /\ queue \in Seq(Senders) /\ taken \subseteq Senders
      /\ cache \in [Reasons -> [name : Senders \cup {None}, count : Nat]]
  BY DEF IInv, TypeOK
<1>4. /\ s \in Senders
      /\ InQueue(queue, s)
      /\ queue' \in Seq(Senders)
      /\ \A x : InQueue(queue', x) => InQueue(queue, x)
      /\ Distinct(queue') /\ ~InQueue(queue', s)
  BY <1>1, <1>3, TailKeeps DEF IInv, OnePlace
<1>5. s \in Warned /\ s \notin taken /\ ~InQueue(incoming, s)
  BY <1>4 DEF IInv, OnePlace
<1>6. reason[s] \in Reasons /\ Warned' = Warned
  BY <1>1, <1>5, WarnedReason DEF IInv, Warned
<1>7. PICK r \in Reasons : r = reason[s]
  BY <1>6
<1>8. /\ e.name = IF cache[r].count > 0 THEN cache[r].name ELSE s
      /\ e.count = cache[r].count + 1
      /\ e = [name |-> e.name, count |-> e.count]
  BY <1>7 DEF Observed
<1>9. /\ TakenOf(r)' = TakenOf(r) \cup {s}
      /\ s \notin TakenOf(r)
      /\ \A q \in Reasons \ {r} : TakenOf(q)' = TakenOf(q)
  <2>1. TakenOf(r)' = TakenOf(r) \cup {s}
    BY <1>1, <1>7 DEF TakenOf
  <2>2. \A q \in Reasons \ {r} : TakenOf(q)' = TakenOf(q)
    BY <1>1, <1>7 DEF TakenOf
  <2> QED
    BY <1>5, <2>1, <2>2 DEF TakenOf
<1>10. IsFiniteSet(TakenOf(r))
  BY <1>3, FS_Subset, ConstantsAssumption DEF TakenOf, ConstantsAssumption
<1>11. /\ cache[r].count = Cardinality(TakenOf(r))
       /\ cache[r].count > 0 => cache[r].name \in TakenOf(r)
       /\ cache[r].count \in Nat
       /\ TakenOf(r) \subseteq Senders
  BY <1>3 DEF IInv, CacheExact, TakenOf
<1>12. /\ e.name \in Senders
       /\ e.name \in TakenOf(r)'
       /\ e.count \in Nat \ {0}
       /\ e.count = Cardinality(TakenOf(r)')
  <2>1. e.count = Cardinality(TakenOf(r)')
    BY <1>8, <1>9, <1>10, <1>11, FS_AddElement, ZenonT(40)
  <2>2. e.name \in TakenOf(r)' /\ e.name \in Senders
    BY <1>8, <1>4, <1>9, <1>11
  <2> QED
    BY <1>8, <1>11, <2>1, <2>2
<1>13. e \in [name : Senders, count : Nat]
  BY <1>8, <1>12
<1>14. TypeOK'
  <2>1. cache' \in [Reasons -> [name : Senders \cup {None}, count : Nat]]
    BY <1>1, <1>3, <1>7, <1>13
  <2>2. cur' \in [name : Senders, count : Nat, of : Senders]
    BY <1>1, <1>4, <1>12
  <2> QED
    BY <1>1, <1>2, <1>3, <1>4, <2>1, <2>2, ConstantsAssumption, SMTT(40)
       DEF IInv, TypeOK, ConstantsAssumption
<1>15. OnePlace'
  BY <1>1, <1>4, <1>5, <1>6 DEF IInv, OnePlace
<1>16. cache'[r] = e /\ \A q \in Reasons \ {r} : cache'[q] = cache[q]
  BY <1>1, <1>3, <1>7
<1>17. CacheExact'
  <2>1. cache'[r].count = Cardinality(TakenOf(r)') /\ cache'[r].name \in TakenOf(r)'
    BY <1>12, <1>16
  <2>2. \A q \in Reasons \ {r} :
           /\ cache'[q].count = Cardinality(TakenOf(q)')
           /\ cache'[q].count > 0 => cache'[q].name \in TakenOf(q)'
    BY <1>9, <1>16 DEF IInv, CacheExact
  <2> QED
    BY <2>1, <2>2 DEF CacheExact
<1>18. CurCached'
  BY <1>1, <1>7, <1>12, <1>16 DEF CurCached
<1>19. StoredCached'
  <2> SUFFICES ASSUME NEW n \in Senders, stored[n] > 0
               PROVE  n \in taken' /\ n = cache'[reason[n]].name
    BY <1>1 DEF StoredCached
  <2>1. n \in taken /\ n = cache[reason[n]].name
    BY DEF IInv, StoredCached
  <2>2. reason[n] \in Reasons
    BY <2>1, WarnedReason DEF IInv, OnePlace
  <2>3. CASE reason[n] # r
    BY <1>1, <1>16, <2>1, <2>2, <2>3
  <2>4. CASE reason[n] = r
    <3>1. n \in TakenOf(r)
      BY <2>1, <2>4 DEF TakenOf
    <3>2. cache[r].count > 0
      BY <1>10, <1>11, <3>1, FS_EmptySet
    <3> QED
      BY <1>1, <1>8, <1>16, <2>1, <2>4, <3>2
  <2> QED
    BY <2>3, <2>4
<1> QED
  BY <1>14, <1>15, <1>17, <1>18, <1>19 DEF IInv

\* What is known of the event while it is written.
LEMMA CurFacts ==
    ASSUME IInv, sink # "idle"
    PROVE  /\ cur.name \in taken /\ cur.of \in taken
           /\ cur.name \in Senders /\ cur.of \in Senders
           /\ reason[cur.name] = reason[cur.of]
           /\ reason[cur.of] \in Reasons
           /\ cur.count \in Nat \ {0}
           /\ cur.name = cache[reason[cur.of]].name
           /\ cur.count = cache[reason[cur.of]].count
           /\ cur.count = Cardinality(TakenOf(reason[cur.of]))
<1>1. /\ cur.of \in taken /\ cur.count > 0
      /\ cur.name = cache[reason[cur.of]].name
      /\ cur.count = cache[reason[cur.of]].count
  BY DEF IInv, CurCached
<1>2. reason[cur.of] \in Reasons
  BY <1>1, WarnedReason DEF IInv, OnePlace
<1>3. cur.name \in TakenOf(reason[cur.of])
  BY <1>1, <1>2 DEF IInv, CacheExact
<1>4. cur.count = Cardinality(TakenOf(reason[cur.of]))
  BY <1>1, <1>2 DEF IInv, CacheExact
<1> QED
  BY <1>1, <1>2, <1>3, <1>4 DEF IInv, TypeOK, TakenOf

\* A request of any outcome leaves the events it does not write as they are
\* and gives that one the count of the cache.
LEMMA SinkStep ==
    ASSUME IInv, TypeOK',
           UNCHANGED <<reason, incoming, queue, cache, cur, taken>>,
           \/ sink' = "idle"
           \/ sink # "idle",
           \/ \E n \in Senders : stored' = [stored EXCEPT ![n] = 0]
           \/ UNCHANGED stored
           \/ sink # "idle" /\ stored' = [stored EXCEPT ![cur.name] = cur.count]
    PROVE  IInv'
<1>1. Warned' = Warned /\ \A r \in Reasons : TakenOf(r)' = TakenOf(r)
  BY DEF Warned, TakenOf
<1>2. OnePlace' /\ CacheExact' /\ CurCached'
  BY <1>1 DEF IInv, OnePlace, CacheExact, CurCached
<1>3. StoredCached'
  <2> SUFFICES ASSUME NEW m \in Senders, stored'[m] > 0
               PROVE  m \in taken /\ m = cache[reason[m]].name
    BY DEF StoredCached
  <2>1. CASE stored[m] > 0
    BY <2>1 DEF IInv, StoredCached
  <2>2. CASE sink # "idle" /\ m = cur.name
    BY <2>2, CurFacts
  <2>3. stored \in [Senders -> Nat]
    BY DEF IInv, TypeOK
  <2> QED
    BY <2>1, <2>2, <2>3
<1> QED
  BY <1>2, <1>3 DEF IInv

\* A request of the recorder or the end of its delay.
LEMMA RequestStep ==
    ASSUME IInv, Request \/ Retry
    PROVE  IInv'
<1> SUFFICES /\ TypeOK'
             /\ UNCHANGED <<reason, incoming, queue, cache, cur, taken>>
             /\ sink # "idle"
             /\ \/ UNCHANGED stored
                \/ stored' = [stored EXCEPT ![cur.name] = cur.count]
  BY SinkStep
<1>1. sink # "idle"
  BY DEF Request, Retry, PatchAnswered, PatchNotFound, CreateAnswered,
         Rejected, WriteFails
<1>2. /\ cur.name \in Senders /\ cur.count \in Nat
      /\ cur.name = cache[reason[cur.of]].name
      /\ cur.count = cache[reason[cur.of]].count
      /\ reason[cur.of] \in Reasons
  BY <1>1, CurFacts
<1>3. /\ stored \in [Senders -> Nat]
      /\ cache \in [Reasons -> [name : Senders \cup {None}, count : Nat]]
  BY DEF IInv, TypeOK
<1>4. [stored EXCEPT ![cur.name] = cur.count] \in [Senders -> Nat]
  BY <1>2, <1>3
<1>5. ASSUME Settled, tries' = tries
      PROVE  /\ UNCHANGED <<reason, incoming, queue, cur, taken>>
             /\ cache' = cache /\ stored' \in [Senders -> Nat] => TypeOK'
  BY <1>5 DEF Settled, IInv, TypeOK
<1>6. CASE PatchAnswered \/ CreateAnswered
  <2>1. Written(cur.name, cur.count)
    BY <1>6 DEF PatchAnswered, CreateAnswered
  <2>2. /\ stored' = [stored EXCEPT ![cur.name] = cur.count]
        /\ cache' = [cache EXCEPT ![reason[cur.of]] =
                        [name |-> cur.name, count |-> cur.count]]
        /\ Settled /\ tries' = tries
    BY <2>1 DEF Written, Settled
  <2>3. cache[reason[cur.of]] = [name |-> cur.name, count |-> cur.count]
    BY <1>2, <1>3
  <2>4. cache' = cache
    BY <1>2, <1>3, <2>2, <2>3
  <2> QED
    BY <1>1, <1>4, <1>5, <2>2, <2>4
<1>7. CASE Rejected
  BY <1>1, <1>3, <1>5, <1>7 DEF Rejected, Settled
<1>8. CASE PatchNotFound
  BY <1>1, <1>8 DEF PatchNotFound, IInv, TypeOK
<1>9. CASE WriteFails
  <2>1. /\ UNCHANGED <<reason, incoming, queue, cache, spent, cur, alive, taken>>
        /\ \/ UNCHANGED stored
           \/ stored' = [stored EXCEPT ![cur.name] = cur.count]
    BY <1>9 DEF WriteFails
  <2>2. /\ tries' \in 0..MaxTries /\ sink' \in {"sleep", "idle"}
        /\ sink' = "sleep" => tries' < MaxTries
    <3>1. tries \in Nat /\ tries < MaxTries /\ MaxTries \in Nat
      BY <1>1, ConstantsAssumption DEF IInv, TypeOK, ConstantsAssumption
    <3>2. tries' = tries + 1 /\ sink' = IF tries' < MaxTries THEN "sleep" ELSE "idle"
      BY <1>9 DEF WriteFails, TryAgain
    <3> QED
      BY <3>1, <3>2
  <2> QED
    BY <1>1, <1>3, <1>4, <2>1, <2>2 DEF IInv, TypeOK
<1>10. CASE Retry
  BY <1>1, <1>10 DEF Retry, FirstRequest, IInv, TypeOK
<1> QED
  BY <1>6, <1>7, <1>8, <1>9, <1>10 DEF Request

LEMMA StepInv == IInv /\ [Next]_vars => IInv'
<1> SUFFICES ASSUME IInv, [Next]_vars PROVE IInv'
  OBVIOUS
<1>1. ASSUME NEW n \in Senders, Expires(n)
      PROVE  IInv'
  <2>1. TypeOK'
    BY <1>1 DEF Expires, recorderVars, IInv, TypeOK
  <2> QED
    BY <1>1, <2>1, SinkStep DEF Expires, recorderVars
<1>2. CASE ProcessEnds
  <2>1. TypeOK' /\ OnePlace'
    BY <1>2 DEF ProcessEnds, recorderVars, IInv, TypeOK, OnePlace, Warned
  <2> QED
    BY <1>2, <2>1, OtherStep DEF ProcessEnds
<1>3. CASE UNCHANGED vars
  <2>1. TypeOK' /\ OnePlace'
    BY <1>3 DEF vars, recorderVars, IInv, TypeOK, OnePlace, Warned
  <2> QED
    BY <1>3, <2>1, OtherStep DEF vars
<1> QED
  BY <1>1, <1>2, <1>3, GenerateEventStep, DistributeStep, EventCorrelateStep,
     RequestStep DEF Next, Finished

LEMMA Invariance == Spec => []IInv
BY InitInv, StepInv, PTL DEF Spec

-----------------------------------------------------------------------------
(* The theorems *)

\* What the recorder keeps is of its type; a write has attempts left.
THEOREM TypeCorrect == Spec => []TypeOK
<1>1. IInv => TypeOK
  BY DEF IInv
<1> QED
  BY Invariance, <1>1, PTL

\* Equal warnings never make two events, whatever happens to their writes: the
\* name of an event in the server is the one in the cache.
THEOREM OneEvent == Spec => []OneEventPerReason
<1>1. IInv => OneEventPerReason
  BY DEF IInv, StoredCached, OneEventPerReason
<1> QED
  BY Invariance, <1>1, PTL

\* An event that changes counts each warning observed exactly once: a warning
\* is counted in the cache before it is written, and every write carries the
\* count of the cache.
THEOREM Counts == Spec => CountsEveryWarning
<1> DEFINE Counted == \A n \in Senders :
               stored'[n] \notin {stored[n], 0} =>
                   stored'[n] = Cardinality(TakenOf(reason[n]))
<1>1. IInv /\ [Next]_vars => [Counted]_vars
  <2> SUFFICES ASSUME IInv, Next PROVE Counted
    OBVIOUS
  <2>1. stored \in [Senders -> Nat]
    BY DEF IInv, TypeOK
  <2>2. CASE UNCHANGED stored
    BY <2>2
  <2>3. CASE sink # "idle" /\ stored' = [stored EXCEPT ![cur.name] = cur.count]
    BY <2>1, <2>3, CurFacts
  <2>4. CASE \E n \in Senders : stored' = [stored EXCEPT ![n] = 0]
    BY <2>1, <2>4
  <2> QED
    BY <2>2, <2>3, <2>4
       DEF Next, GenerateEvent, Distribute, EventCorrelate, Request, Retry,
           PatchAnswered, PatchNotFound, CreateAnswered, Rejected, WriteFails,
           Written, Settled, ProcessEnds, Expires, Finished, vars
<1>2. Spec => [][Counted]_vars
  BY Invariance, <1>1, PTL DEF Spec
<1> QED
  BY <1>2 DEF CountsEveryWarning

\* No warning is dropped while there are not more of them than a queue holds:
\* those that are in a queue are different warnings.
THEOREM NoneDropped == Spec => []NothingDropped
<1>1. Init => NothingDropped
  BY DEF Init, NothingDropped, Warned
<1>2. IInv /\ NothingDropped /\ [Next]_vars => NothingDropped'
  <2> SUFFICES ASSUME IInv, NothingDropped, [Next]_vars,
                      Cardinality(Warned') <= QueueLength,
                      NEW x \in Warned'
               PROVE  InQueue(incoming', x) \/ InQueue(queue', x) \/ x \in taken'
    BY DEF NothingDropped
  <2>1. /\ incoming \in Seq(Senders) /\ queue \in Seq(Senders)
        /\ IsFiniteSet(Warned) /\ Cardinality(Warned) \in Nat
        /\ QueueLength \in Nat
    BY FS_Subset, FS_CardinalityType, ConstantsAssumption
       DEF IInv, TypeOK, Warned, ConstantsAssumption
  <2>2. ASSUME NEW s \in Senders, GenerateEvent(s)
        PROVE  InQueue(incoming', x) \/ InQueue(queue', x) \/ x \in taken'
    <3>1. s \notin Warned /\ Warned' = Warned \cup {s}
      BY <2>2, ConstantsAssumption
         DEF GenerateEvent, Warned, IInv, TypeOK, ConstantsAssumption
    <3>2. Cardinality(Warned') = Cardinality(Warned) + 1
      BY <2>1, <3>1, FS_AddElement
    <3>3. Len(incoming) <= Cardinality(Warned)
      BY <2>1, QueueShort DEF IInv, OnePlace
    <3>4. Len(incoming) < QueueLength /\ Cardinality(Warned) <= QueueLength
      BY <2>1, <3>2, <3>3
    <3>5. /\ incoming' = Offered(incoming, s)
          /\ queue' = queue /\ taken' = taken
      BY <2>2 DEF GenerateEvent, recorderVars
    <3>6. InQueue(incoming', s)
      BY <2>1, <3>4, <3>5, OfferedKeeps
    <3>7. \A y : InQueue(incoming, y) => InQueue(incoming', y)
      BY <2>1, <3>5, OfferedKeeps
    <3> QED
      BY <3>1, <3>4, <3>5, <3>6, <3>7 DEF NothingDropped
  <2>3. CASE Distribute
    <3> DEFINE h == Head(incoming)
    <3>1. /\ incoming # <<>> /\ incoming' = Tail(incoming)
          /\ queue' = Offered(queue, h)
          /\ taken' = taken /\ Warned' = Warned
      BY <2>3 DEF Distribute, recorderVars, Warned
    <3>2. /\ h \in Senders /\ InQueue(incoming, h)
          /\ \A y : InQueue(incoming, y) => InQueue(incoming', y) \/ y = h
      BY <2>1, <3>1, TailKeeps
    <3>3. h \in Warned /\ ~InQueue(queue, h)
      BY <3>2 DEF IInv, OnePlace
    <3>4. /\ IsFiniteSet(Warned \ {h})
          /\ Cardinality(Warned \ {h}) = Cardinality(Warned) - 1
      BY <2>1, <3>3, FS_RemoveElement
    <3>5. Len(queue) <= Cardinality(Warned \ {h})
      BY <2>1, <3>3, <3>4, QueueShort DEF IInv, OnePlace
    <3>6. Len(queue) < QueueLength
      BY <2>1, <3>1, <3>4, <3>5
    <3>7. InQueue(queue', h) /\ \A y : InQueue(queue, y) => InQueue(queue', y)
      BY <2>1, <3>1, <3>2, <3>6, OfferedKeeps
    <3> QED
      BY <3>1, <3>2, <3>7 DEF NothingDropped
  <2>4. CASE EventCorrelate
    <3>1. /\ queue # <<>> /\ queue' = Tail(queue) /\ incoming' = incoming
          /\ taken' = taken \cup {Head(queue)} /\ Warned' = Warned
      BY <2>4 DEF EventCorrelate, Warned
    <3>2. \A y : InQueue(queue, y) => InQueue(queue', y) \/ y = Head(queue)
      BY <2>1, <3>1, TailKeeps
    <3> QED
      BY <3>1, <3>2 DEF NothingDropped
  <2>5. CASE UNCHANGED <<reason, incoming, queue, taken>>
    BY <2>5 DEF NothingDropped, Warned
  <2> QED
    BY <2>2, <2>3, <2>4, <2>5
       DEF Next, Request, Retry, PatchAnswered, PatchNotFound, CreateAnswered,
           Rejected, WriteFails, Written, Settled, ProcessEnds, Expires,
           Finished, recorderVars, vars
<1> QED
  BY Invariance, <1>1, <1>2, PTL DEF Spec

-----------------------------------------------------------------------------
(* What the recorder promises *)

\* Of each reason there is at most the event that the cache has the name of.
LEMMA EventsOfOne ==
    ASSUME IInv, NEW r \in Reasons, NEW n \in EventsOf(r)
    PROVE  n = cache[r].name /\ n \in TakenOf(r) /\ n \in Warned
BY DEF EventsOf, TakenOf, IInv, StoredCached, OnePlace

\* A step that leaves the observed warnings and the events alone.
LEMMA SameTally ==
    ASSUME IInv, UNCHANGED <<stored, taken>>,
           \A s \in Warned : reason'[s] = reason[s],
           \A s \in Senders \ Warned : stored[s] = 0
    PROVE  UNCHANGED Tally!vars
<1>1. \A r \in Reasons : TakenOf(r)' = TakenOf(r)
  BY DEF TakenOf, IInv, OnePlace
<1>2. \A r \in Reasons : EventsOf(r)' = EventsOf(r)
  <2>1. \A s \in Senders : stored[s] > 0 => reason'[s] = reason[s]
    OBVIOUS
  <2> QED
    BY <2>1 DEF EventsOf
<1>3. Tallied' = Tallied
  BY <1>1 DEF Tallied
<1>4. Shown' = Shown
  BY <1>2 DEF Shown
<1> QED
  BY <1>3, <1>4 DEF Tally!vars

\* Only what has been observed is in the server.
LEMMA UnwarnedUnstored ==
    ASSUME IInv, NEW s \in Senders \ Warned PROVE stored[s] = 0
BY DEF IInv, TypeOK, StoredCached, OnePlace

\* Observing a warning counts it once, for its reason.
LEMMA CorrelateRefines ==
    ASSUME IInv, EventCorrelate
    PROVE  \E r \in Reasons : Tally!Observe(r)
<1> DEFINE s == Head(queue)
<1>1. /\ queue # <<>> /\ queue \in Seq(Senders)
      /\ taken' = taken \cup {s} /\ UNCHANGED <<reason, stored>>
  BY DEF EventCorrelate, IInv, TypeOK
<1>2. InQueue(queue, s) /\ s \in Senders
  BY <1>1, TailKeeps
<1>3. s \notin taken /\ reason[s] \in Reasons
  BY <1>2, WarnedReason DEF IInv, OnePlace
<1>4. PICK r \in Reasons : r = reason[s]
  BY <1>3
<1>5. /\ TakenOf(r)' = TakenOf(r) \cup {s} /\ s \notin TakenOf(r)
      /\ \A q \in Reasons \ {r} : TakenOf(q)' = TakenOf(q)
  BY <1>1, <1>3, <1>4 DEF TakenOf
<1>6. IsFiniteSet(TakenOf(r))
  BY FS_Subset, ConstantsAssumption DEF TakenOf, IInv, TypeOK, ConstantsAssumption
<1>7. Cardinality(TakenOf(r)') = Cardinality(TakenOf(r)) + 1
  BY <1>5, <1>6, FS_AddElement
<1>8. Tallied' = [Tallied EXCEPT ![r] = @ + 1]
  BY <1>5, <1>7 DEF Tallied
<1>9. Shown' = Shown
  BY <1>1 DEF Shown, EventsOf
<1> QED
  BY <1>8, <1>9 DEF Tally!Observe

\* A write shows the tally, in the event that is there if there is one.
LEMMA WriteRefines ==
    ASSUME IInv, UNCHANGED <<reason, taken>>, sink # "idle",
           stored' = [stored EXCEPT ![cur.name] = cur.count]
    PROVE  \E r \in Reasons, n \in Senders : Tally!Show(r, n)
<1>1. PICK r \in Reasons : r = reason[cur.of]
  BY CurFacts
<1>2. PICK n \in Senders : n = cur.name
  BY CurFacts
<1>3. /\ reason[n] = r /\ cur.count \in Nat \ {0} /\ n = cache[r].name
      /\ cur.count = Cardinality(TakenOf(r))
  BY <1>1, <1>2, CurFacts
<1>4. stored \in [Senders -> Nat]
  BY DEF IInv, TypeOK
<1>5. stored'[n] = cur.count /\ \A m \in Senders \ {n} : stored'[m] = stored[m]
  BY <1>2, <1>4
<1>6. EventsOf(r) \subseteq {n}
  BY <1>3, EventsOfOne
<1>7. EventsOf(r)' = {n}
  BY <1>3, <1>5, <1>6 DEF EventsOf
<1>8. \A q \in Reasons \ {r} : EventsOf(q)' = EventsOf(q) /\ n \notin EventsOf(q)
  BY <1>3, <1>5 DEF EventsOf
<1>9. Shown'[r] = {[name |-> n, count |-> cur.count]}
  BY <1>5, <1>7 DEF Shown
<1>10. \A q \in Reasons \ {r} : Shown'[q] = Shown[q]
  BY <1>5, <1>8 DEF Shown, EventsOf
<1>11. Tallied' = Tallied /\ Tallied[r] = cur.count
  BY <1>3 DEF Tallied, TakenOf
<1>12. Shown' = [Shown EXCEPT ![r] = {[name |-> n, count |-> Tallied[r]]}]
  BY <1>9, <1>10, <1>11 DEF Shown
<1>13. \A e \in Shown[r] : e.name = n
  BY <1>6 DEF Shown
<1>14. Tally!Show(r, n)
  BY <1>3, <1>11, <1>12, <1>13 DEF Tally!Show
<1> QED
  BY <1>14

\* The one event about a reason is gone after its time.
LEMMA ExpiryRefines ==
    ASSUME IInv, NEW n \in Senders, Expires(n)
    PROVE  \E r \in Reasons : Tally!Vanish(r)
<1>1. /\ stored[n] > 0 /\ stored' = [stored EXCEPT ![n] = 0]
      /\ UNCHANGED <<reason, taken>>
  BY DEF Expires, recorderVars
<1>2. reason[n] \in Reasons
  BY <1>1, WarnedReason DEF IInv, StoredCached, OnePlace
<1>3. PICK r \in Reasons : r = reason[n]
  BY <1>2
<1>4. stored \in [Senders -> Nat]
  BY DEF IInv, TypeOK
<1>5. EventsOf(r) = {n}
  <2>1. n \in EventsOf(r)
    BY <1>1, <1>3 DEF EventsOf
  <2> QED
    BY <2>1, EventsOfOne
<1>6. EventsOf(r)' = {}
  BY <1>1, <1>4, <1>5 DEF EventsOf
<1>7. \A q \in Reasons \ {r} :
          /\ EventsOf(q)' = EventsOf(q)
          /\ \A m \in EventsOf(q) : stored'[m] = stored[m]
  BY <1>1, <1>3, <1>4 DEF EventsOf
<1>8. Shown' = [Shown EXCEPT ![r] = {}]
  <2>1. Shown'[r] = {}
    BY <1>6 DEF Shown
  <2>2. \A q \in Reasons \ {r} : Shown'[q] = Shown[q]
    BY <1>7 DEF Shown
  <2> QED
    BY <2>1, <2>2 DEF Shown
<1>9. Tallied' = Tallied
  BY <1>1 DEF Tallied, TakenOf
<1>10. Tally!Vanish(r)
  BY <1>8, <1>9 DEF Tally!Vanish
<1> QED
  BY <1>10

\* Each step of the recorder and of the server is one that is promised.
LEMMA StepRefines ==
    IInv /\ [Next]_vars => [Tally!Next]_Tally!vars
<1> SUFFICES ASSUME IInv, [Next]_vars PROVE [Tally!Next]_Tally!vars
  OBVIOUS
<1>1. CASE EventCorrelate
  BY <1>1, CorrelateRefines DEF Tally!Next
<1>2. ASSUME NEW n \in Senders, Expires(n) PROVE Tally!Next
  BY <1>2, ExpiryRefines DEF Tally!Next
<1>3. CASE sink # "idle" /\ stored' = [stored EXCEPT ![cur.name] = cur.count]
           /\ UNCHANGED <<reason, taken>>
  BY <1>3, WriteRefines DEF Tally!Next
<1>4. CASE UNCHANGED <<stored, taken>> /\ \A s \in Warned : reason'[s] = reason[s]
  BY <1>4, SameTally, UnwarnedUnstored
<1>5. ASSUME NEW s \in Senders, GenerateEvent(s)
      PROVE  UNCHANGED <<stored, taken>> /\ \A w \in Warned : reason'[w] = reason[w]
  BY <1>5 DEF GenerateEvent, Warned, recorderVars, IInv, TypeOK
<1>6. CASE Request
  <2>1. sink # "idle" /\ UNCHANGED <<reason, taken>>
    BY <1>6 DEF Request, PatchAnswered, PatchNotFound, CreateAnswered,
       Rejected, WriteFails, Written, Settled
  <2>2. \/ UNCHANGED stored
        \/ stored' = [stored EXCEPT ![cur.name] = cur.count]
    BY <1>6 DEF Request, PatchAnswered, PatchNotFound, CreateAnswered,
       Rejected, WriteFails, Written, Settled
  <2> QED
    BY <1>3, <1>4, <2>1, <2>2
<1>7. CASE Distribute \/ Retry \/ ProcessEnds \/ Finished \/ UNCHANGED vars
  BY <1>4, <1>7
     DEF Distribute, Retry, ProcessEnds, Finished, recorderVars, vars
<1> QED
  BY <1>1, <1>2, <1>4, <1>5, <1>6, <1>7 DEF Next

\* Whoever looks at the events sees at most one about a reason, and in it the
\* warnings observed when it was written: for any number of generators and
\* reasons and whatever fails.
THEOREM Implements == Spec => ImplementsTally
<1>1. Init => Tally!Init
  <2> SUFFICES ASSUME Init PROVE Tally!Init
    OBVIOUS
  <2>1. \A r \in Reasons : TakenOf(r) = {} /\ EventsOf(r) = {}
    BY DEF Init, TakenOf, EventsOf
  <2>2. Tallied = [r \in Reasons |-> 0]
    BY <2>1, FS_EmptySet DEF Tallied
  <2>3. Shown = [r \in Reasons |-> {}]
    BY <2>1 DEF Shown
  <2> QED
    BY <2>2, <2>3 DEF Tally!Init
<1> QED
  BY <1>1, InitInv, StepInv, StepRefines, PTL
  DEF Spec, ImplementsTally, Tally!Spec

-----------------------------------------------------------------------------
(* How long a write takes *)

\* Steps that the recorder may still make before it is done with the event: a
\* patch, a creation and a delay for each attempt that is left.
StepsLeft ==
    CASE sink = "patch" -> 3 * (MaxTries - tries) + 2
      [] sink = "create" -> 3 * (MaxTries - tries) + 1
      [] sink = "sleep" -> 3 * (MaxTries - tries) + 3
      [] OTHER -> 0

\* No warning holds up those behind it for ever: each request, answered or not,
\* and each delay brings the recorder nearer to the next one, and nothing that
\* the generators, the broadcaster or the server do meanwhile, an event that
\* expires before it is patched included, puts it back.
THEOREM WritesBounded ==
    Spec => /\ [](StepsLeft \in 0..(3 * MaxTries + 3))
            /\ [][sink # "idle" =>
                     StepsLeft' < StepsLeft \/ UNCHANGED <<sink, tries, cur>>]_vars
<1>1. TypeOK => StepsLeft \in 0..(3 * MaxTries + 3)
  <2> SUFFICES ASSUME TypeOK PROVE StepsLeft \in 0..(3 * MaxTries + 3)
    OBVIOUS
  <2>1. MaxTries \in Nat /\ tries \in 0..MaxTries
    BY ConstantsAssumption DEF ConstantsAssumption, TypeOK
  <2> QED
    BY <2>1 DEF StepsLeft
<1>2. TypeOK /\ [Next]_vars =>
          [sink # "idle" =>
              StepsLeft' < StepsLeft \/ UNCHANGED <<sink, tries, cur>>]_vars
  <2> SUFFICES ASSUME TypeOK, Next, sink # "idle"
               PROVE  StepsLeft' < StepsLeft \/ UNCHANGED <<sink, tries, cur>>
    OBVIOUS
  <2>1. /\ MaxTries \in Nat /\ tries \in Nat /\ tries < MaxTries
        /\ sink \in {"patch", "create", "sleep"}
    BY ConstantsAssumption DEF ConstantsAssumption, TypeOK
  <2>2. StepsLeft \in Nat \ {0}
    BY <2>1 DEF StepsLeft
  <2>3. CASE PatchAnswered \/ CreateAnswered \/ Rejected
    <3>1. sink' = "idle"
      BY <2>3 DEF PatchAnswered, CreateAnswered, Rejected, Written, Settled
    <3> QED
      BY <2>2, <3>1 DEF StepsLeft
  <2>4. CASE PatchNotFound
    BY <2>1, <2>4 DEF PatchNotFound, StepsLeft
  <2>5. CASE WriteFails
    <3>1. /\ sink \in {"patch", "create"} /\ tries' = tries + 1
          /\ sink' \in {"sleep", "idle"}
      BY <2>5 DEF WriteFails, TryAgain
    <3> QED
      BY <2>1, <3>1 DEF StepsLeft
  <2>6. CASE Retry
    BY <2>1, <2>6 DEF Retry, FirstRequest, StepsLeft
  <2>7. CASE \/ Distribute \/ ProcessEnds \/ Finished
             \/ \E s \in Senders : GenerateEvent(s) \/ Expires(s)
    BY <2>7 DEF Distribute, ProcessEnds, Finished, GenerateEvent, Expires,
       recorderVars, vars
  <2>8. ~EventCorrelate
    BY DEF EventCorrelate
  <2> QED
    BY <2>3, <2>4, <2>5, <2>6, <2>7, <2>8 DEF Next, Request
<1> QED
  BY <1>1, <1>2, TypeCorrect, PTL DEF Spec
=============================================================================
