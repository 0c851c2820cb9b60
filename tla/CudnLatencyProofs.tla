-------------------------- MODULE CudnLatencyProofs -------------------------
(***************************************************************************)
(* For any CUDNs, any clock and any number of changes, re-creation         *)
(* included: cudnLatency keeps the promise of LatencyLedger.               *)
(***************************************************************************)
EXTENDS CudnLatency, SequenceTheorems, TLAPS

Notice == [kind : {"add", "update"}, name : Names, object : Object]

\* Records of the two types are told from the sentinels by their fields.
LEMMA Sentinels ==
  /\ \A o \in Object : o # NoObject /\ o.created \in Times /\ o.alloc \in Times \cup {None, Unstamped}
  /\ \A m \in Metric : m # NoMetric /\ m.ts \in Times /\ m.lat \in Times \cup {None}
BY BoundsAssumption DEF Object, Metric, NoObject, NoMetric, Times, None

LEMMA Told ==
  ASSUME TypeOK
  PROVE  /\ pending \in Seq(Notice) /\ Len(pending) \in Nat
         /\ \A i \in 1..Len(pending) : /\ pending[i] \in Notice /\ pending[i].name \in Names
                                      /\ pending[i].object \in Object
<1>1. pending \in Seq(Notice)
  BY DEF TypeOK, Notice
<1>2. \A i \in 1..Len(pending) : pending[i] \in Notice
  BY <1>1, ElementOfSeq
<1> QED
  BY <1>1, <1>2, LenProperties DEF Notice

\* What is left of the notifications when a handler takes one.
LEMMA Taken ==
  ASSUME TypeOK, pending # <<>>, pending' = Tail(pending)
  PROVE  /\ Len(pending) \in Nat /\ Len(pending) >= 1
         /\ Notified = pending[1] /\ Notified \in Notice
         /\ pending' \in Seq(Notice)
         /\ Len(pending') = Len(pending) - 1
         /\ \A i \in 1..Len(pending') : i + 1 \in 1..Len(pending) /\ pending'[i] = pending[i + 1]
<1>1. pending \in Seq(Notice)
  BY DEF TypeOK, Notice
<1>2. /\ Len(pending) \in Nat /\ Len(pending) >= 1
      /\ Head(pending) = pending[1] /\ Head(pending) \in Notice
      /\ Tail(pending) \in Seq(Notice) /\ Len(Tail(pending)) = Len(pending) - 1
      /\ \A i \in 1..Len(Tail(pending)) : Tail(pending)[i] = pending[i + 1]
  BY <1>1, HeadTailProperties
<1> QED
  BY <1>2 DEF Notified

\* Taking one leaves what is told of the others in order.
LEMMA TakenInOrder ==
  ASSUME IInv, pending # <<>>, pending' = Tail(pending), UNCHANGED apiVars
  PROVE  ObjectsSound' /\ ToldInOrder'
<1>1. TypeOK
  BY DEF IInv
<1>2. /\ Len(pending) \in Nat /\ Len(pending') = Len(pending) - 1
      /\ \A i \in 1..Len(pending') : i + 1 \in 1..Len(pending) /\ pending'[i] = pending[i + 1]
  BY <1>1, Taken
<1>3. ObjectsSound'
  BY <1>2 DEF IInv, ObjectsSound, Sound, apiVars
<1>4. \A i \in 1..Len(pending') : NotAfter(pending[i].object.created, pending[i].name)'
  BY <1>2 DEF IInv, ToldInOrder, NotAfter, apiVars
<1>5. ASSUME NEW i \in 1..Len(pending'), NEW j \in 1..Len(pending'),
             i < j, pending'[i].name = pending'[j].name
      PROVE  pending'[i].object.created <= pending'[j].object.created
  <2>1. /\ i + 1 \in 1..Len(pending) /\ pending'[i] = pending[i + 1]
        /\ j + 1 \in 1..Len(pending) /\ pending'[j] = pending[j + 1] /\ i + 1 < j + 1
    BY <1>2, <1>5
  <2> QED
    BY <1>5, <2>1 DEF IInv, ToldInOrder
<1> QED
  BY <1>3, <1>4, <1>5 DEF ToldInOrder

\* The latency of an object that is allocated, from a start that is not after its
\* creation, is a time.
LEMMA LatencyInTimes ==
  ASSUME TypeOK, NEW o \in Object, Sound(o), o.alloc # None, NEW ts \in Times, ts <= o.created
  PROVE  Latency(o, ts) \in Times
<1>1. o # NoObject /\ o.created \in Times /\ o.alloc \in Times \cup {None, Unstamped}
  BY Sentinels
<1>2. now \in Times /\ o.created <= now
  BY <1>1 DEF TypeOK, Sound
<1>3. CASE o.alloc = Unstamped
  BY <1>1, <1>2, <1>3, BoundsAssumption DEF Latency, Transition, Times
<1>4. CASE o.alloc \in Times
  BY <1>1, <1>2, <1>4, BoundsAssumption DEF Latency, Transition, Times, Sound, Unstamped
<1> QED
  BY <1>1, <1>3, <1>4

LEMMA InitInv == Init => IInv
<1> SUFFICES ASSUME Init PROVE IInv
  OBVIOUS
<1>1. Len(pending) = 0
  BY DEF Init
<1>2. TypeOK
  BY BoundsAssumption DEF Init, TypeOK, Object, Metric, Times, NoObject, NoMetric, None, Idle
<1>3. ObjectsSound
  BY <1>1, BoundsAssumption DEF Init, ObjectsSound, Sound, NoObject, None, Times
<1> QED
  BY <1>1, <1>2, <1>3 DEF Init, IInv, StoreCompletes, ToldInOrder, StartsFirst

LEMMA StepTick == IInv /\ Tick => IInv'
<1> SUFFICES ASSUME IInv, Tick PROVE IInv'
  OBVIOUS
<1> USE DEF Tick, handlerVars, mainVars
<1>1. now \in Times /\ now' = now + 1 /\ now' \in Times
  BY BoundsAssumption DEF IInv, TypeOK, Times
<1>2. TypeOK'
  BY <1>1 DEF IInv, TypeOK
<1>3. StoreCompletes'
  BY DEF IInv, StoreCompletes
<1>4. ASSUME NEW o \in Object \cup {NoObject}, Sound(o) PROVE Sound(o)'
  BY <1>1, <1>4, Sentinels, BoundsAssumption DEF Sound, Times
<1>5. \A i \in 1..Len(pending) : pending[i].object \in Object
  BY Told DEF IInv
<1>6. ObjectsSound'
  BY <1>4, <1>5 DEF IInv, ObjectsSound, TypeOK
<1>7. ToldInOrder'
  BY DEF IInv, ToldInOrder, NotAfter
<1>8. ASSUME NEW n \in Names, metrics[n] # NoMetric PROVE metrics[n].ts <= now'
  BY <1>1, <1>8, Sentinels, BoundsAssumption DEF IInv, TypeOK, StartsFirst, Times
<1>9. StartsFirst'
  BY <1>8 DEF IInv, StartsFirst, NotAfter
<1> QED
  BY <1>2, <1>3, <1>6, <1>7, <1>9 DEF IInv

\* A change of the API leaves the invariant alone when the new object is sound and
\* is made now, or is the one that was there.
LEMMA StepChange ==
  ASSUME IInv, NEW n \in Names, NEW object \in Object \cup {NoObject}, Change(n, object),
         deleted' \in SUBSET Names, Sound(object),
         object # NoObject => \/ object.created = now
                              \/ api[n] # NoObject /\ object.created = api[n].created
  PROVE  IInv'
<1> USE DEF Change, handlerVars, mainVars
<1>1. TypeOK /\ now \in Times /\ now' = now
  BY DEF IInv, TypeOK
<1>2. /\ api'[n] = object
      /\ \A m \in Names : m # n => api'[m] = api[m]
  BY <1>1 DEF TypeOK
<1>3. TypeOK'
  <2>1. changes' \in 0..MaxChanges
    BY <1>1, BoundsAssumption DEF TypeOK
  <2>2. api' \in [Names -> Object \cup {NoObject}]
    BY <1>1 DEF TypeOK
  <2> QED
    BY <1>1, <2>1, <2>2 DEF TypeOK
<1>4. StoreCompletes'
  BY DEF IInv, StoreCompletes
<1>5. ObjectsSound'
  BY <1>1, <1>2 DEF IInv, ObjectsSound, Sound
<1>6. ASSUME NEW t \in Times, NEW m \in Names, t <= now, NotAfter(t, m)
      PROVE  NotAfter(t, m)'
  BY <1>2, <1>6 DEF NotAfter
<1>7. \A i \in 1..Len(pending) :
        /\ pending[i].name \in Names
        /\ pending[i].object.created \in Times /\ pending[i].object.created <= now
  BY <1>1, Told, Sentinels DEF IInv, ObjectsSound, Sound
<1>8. ToldInOrder'
  BY <1>6, <1>7 DEF IInv, ToldInOrder
<1>9. \A m \in Names : metrics[m] # NoMetric => metrics[m].ts \in Times /\ metrics[m].ts <= now
  BY <1>1, Sentinels DEF TypeOK, IInv, StartsFirst
<1>10. StartsFirst'
  BY <1>1, <1>6, <1>9 DEF IInv, StartsFirst
<1> QED
  BY <1>3, <1>4, <1>5, <1>8, <1>10 DEF IInv

LEMMA StepApi ==
  ASSUME IInv, NEW n \in Names, Create(n) \/ Allocate(n) \/ Unallocate(n) \/ Delete(n)
  PROVE  IInv'
<1>1. TypeOK /\ now \in Times /\ Sound(api[n]) /\ api[n] \in Object \cup {NoObject} /\ deleted \in SUBSET Names
  BY DEF IInv, TypeOK, ObjectsSound
<1>2. CASE Create(n)
  <2> DEFINE o == [created |-> now, alloc |-> None]
  <2>1. o \in Object \cup {NoObject} /\ Sound(o) /\ o.created = now
    BY <1>1, BoundsAssumption DEF Object, Sound, Times, None
  <2> HIDE DEF o
  <2>2. Change(n, o) /\ deleted' = deleted
    BY <1>2 DEF Create, o
  <2> QED
    BY <1>1, <2>1, <2>2, StepChange
<1>3. CASE Allocate(n)
  <2>1. PICK t \in {now, Unstamped} : Change(n, [api[n] EXCEPT !.alloc = t])
    BY <1>3 DEF Allocate
  <2> DEFINE o == [api[n] EXCEPT !.alloc = t]
  <2>2. api[n] # NoObject /\ api[n] \in Object /\ deleted' = deleted
    BY <1>1, <1>3 DEF Allocate
  <2>3. o \in Object /\ o.created = api[n].created /\ Sound(o)
    BY <1>1, <2>1, <2>2, BoundsAssumption DEF Object, Sound, Times, Unstamped
  <2> HIDE DEF o
  <2>4. Change(n, o)
    BY <2>1 DEF o
  <2> QED
    BY <1>1, <2>2, <2>3, <2>4, StepChange
<1>4. CASE Unallocate(n)
  <2> DEFINE o == [api[n] EXCEPT !.alloc = None]
  <2>1. api[n] # NoObject /\ api[n] \in Object /\ deleted' = deleted
    BY <1>1, <1>4 DEF Unallocate
  <2>2. o \in Object /\ o.created = api[n].created /\ Sound(o)
    BY <1>1, <2>1, BoundsAssumption DEF Object, Sound, Times, None
  <2> HIDE DEF o
  <2>3. Change(n, o)
    BY <1>4 DEF Unallocate, o
  <2> QED
    BY <1>1, <2>1, <2>2, <2>3, StepChange
<1>5. CASE Delete(n)
  <2>1. Change(n, NoObject) /\ deleted' \in SUBSET Names
    BY <1>1, <1>5 DEF Delete
  <2>2. Sound(NoObject)
    BY DEF Sound
  <2> QED
    BY <2>1, <2>2, StepChange
<1> QED
  BY <1>2, <1>3, <1>4, <1>5

LEMMA StepObserve == ASSUME IInv, NEW n \in Names, Observe(n) PROVE IInv'
<1> USE DEF Observe, apiVars, handlerVars, mainVars
<1>1. TypeOK /\ pending \in Seq(Notice) /\ Len(pending) \in Nat
  BY Told DEF IInv
<1>2. view' \in [Names -> Object \cup {NoObject}]
  BY <1>1 DEF TypeOK
<1>3. CASE api[n] = NoObject
  BY <1>1, <1>2, <1>3 DEF IInv, TypeOK, StoreCompletes, ObjectsSound, Sound, ToldInOrder, NotAfter, StartsFirst
<1>4. CASE api[n] # NoObject
  <2> DEFINE e == Notification(n)
  <2>1. e \in Notice /\ e.name = n /\ e.object = api[n] /\ api[n] \in Object
    BY <1>1, <1>4 DEF Notification, Notice, TypeOK
  <2> HIDE DEF e
  <2>2. /\ pending' \in Seq(Notice) /\ Len(pending') = Len(pending) + 1
        /\ pending'[Len(pending) + 1] = e
        /\ \A i \in 1..Len(pending) : pending'[i] = pending[i]
    <3>1. pending' = Append(pending, e)
      BY <1>4 DEF e
    <3> QED
      BY <1>1, <2>1, <3>1, AppendProperties
  <2>3. \A i \in 1..Len(pending') : i \in 1..Len(pending) \/ (i = Len(pending) + 1 /\ pending'[i] = e)
    BY <1>1, <2>2
  <2>4. TypeOK'
    BY <1>1, <1>2, <2>2 DEF TypeOK, Notice
  <2>5. StoreCompletes'
    BY DEF IInv, StoreCompletes
  <2>6. Sound(api[n])
    BY DEF IInv, ObjectsSound
  <2>7. ObjectsSound'
    BY <2>1, <2>2, <2>3, <2>6 DEF IInv, ObjectsSound, Sound
  <2>8. ToldInOrder'
    <3>1. api[n].created \in Times
      BY <2>1, Sentinels
    <3>2. ASSUME NEW i \in 1..Len(pending')
          PROVE  NotAfter(pending[i].object.created, pending[i].name)'
      <4>1. CASE i \in 1..Len(pending)
        BY <2>2, <4>1 DEF IInv, ToldInOrder, NotAfter
      <4>2. CASE i = Len(pending) + 1 /\ pending'[i] = e
        BY <2>1, <3>1, <4>2, BoundsAssumption DEF NotAfter, Times
      <4> QED
        BY <2>3, <4>1, <4>2
    <3>3. ASSUME NEW i \in 1..Len(pending'), NEW j \in 1..Len(pending'),
                 i < j, pending'[i].name = pending'[j].name
          PROVE  pending'[i].object.created <= pending'[j].object.created
      <4>1. i \in 1..Len(pending) /\ pending'[i] = pending[i]
        BY <1>1, <2>2, <3>3
      <4>2. CASE j \in 1..Len(pending)
        BY <2>2, <3>3, <4>1, <4>2 DEF IInv, ToldInOrder
      <4>3. CASE j = Len(pending) + 1
        <5>1. pending[i].name = n /\ pending'[j].object = api[n]
          BY <2>1, <2>2, <3>3, <4>1, <4>3
        <5> QED
          BY <1>4, <4>1, <5>1 DEF IInv, ToldInOrder, NotAfter
      <4> QED
        BY <2>3, <4>2, <4>3
    <3> QED
      BY <3>2, <3>3 DEF ToldInOrder, NotAfter
  <2>9. StartsFirst'
    BY <1>4, <2>1, <2>2, <2>3 DEF IInv, StartsFirst, NotAfter
  <2> QED
    BY <2>4, <2>5, <2>7, <2>8, <2>9 DEF IInv
<1> QED
  BY <1>3, <1>4

LEMMA StepHandleAdd == IInv /\ HandleAdd => IInv'
<1> SUFFICES ASSUME IInv, HandleAdd PROVE IInv'
  OBVIOUS
<1> USE DEF HandleAdd, Take, apiVars, mainVars
<1> DEFINE n == Notified.name
           o == Notified.object
<1>1. TypeOK
  BY DEF IInv
<1>2. /\ Len(pending) \in Nat /\ Len(pending) >= 1
      /\ Notified = pending[1] /\ Notified \in Notice
      /\ pending' \in Seq(Notice) /\ Len(pending') = Len(pending) - 1
      /\ \A i \in 1..Len(pending') : i + 1 \in 1..Len(pending) /\ pending'[i] = pending[i + 1]
  BY <1>1, Taken
<1>3. /\ n \in Names /\ o \in Object /\ Sound(o) /\ o.created \in Times
      /\ NotAfter(o.created, n) /\ o.created <= now
  BY <1>2, Sentinels DEF IInv, Notice, ObjectsSound, Sound, ToldInOrder
<1>4. \A i \in 1..Len(pending') : pending'[i].name = n => o.created <= pending'[i].object.created
  <2> SUFFICES ASSUME NEW i \in 1..Len(pending'), pending'[i].name = n
               PROVE  o.created <= pending'[i].object.created
    OBVIOUS
  <2>1. 1 \in 1..Len(pending) /\ i + 1 \in 1..Len(pending) /\ 1 < i + 1
    BY <1>2
  <2> QED
    BY <1>2, <2>1 DEF IInv, ToldInOrder
<1>5. Latency(o, o.created) \in Times \cup {None}
  <2>1. CASE o.alloc = None
    BY <2>1 DEF Latency
  <2>2. CASE o.alloc # None
    BY <1>1, <1>3, <2>2, LatencyInTimes, BoundsAssumption DEF Times
  <2> QED
    BY <2>1, <2>2
<1> DEFINE m == [ts |-> o.created, lat |-> Latency(o, o.created)]
<1>6. m \in Metric /\ m.ts = o.created
  BY <1>3, <1>5 DEF Metric
<1>7. metrics' = IF metrics[n] # NoMetric THEN metrics ELSE [metrics EXCEPT ![n] = m]
  OBVIOUS
<1> HIDE DEF n, o, m
<1>8. TypeOK'
  BY <1>1, <1>2, <1>3, <1>6, <1>7 DEF TypeOK, Notice
<1>9. StoreCompletes'
  BY DEF IInv, StoreCompletes
<1>10. ObjectsSound' /\ ToldInOrder'
  BY TakenInOrder
<1>11. StartsFirst'
  <2> SUFFICES ASSUME NEW k \in Names, metrics'[k] # NoMetric
               PROVE  /\ metrics'[k].ts <= now /\ NotAfter(metrics'[k].ts, k)
                      /\ \A i \in 1..Len(pending') :
                           pending'[i].name = k => metrics'[k].ts <= pending'[i].object.created
    BY DEF StartsFirst, NotAfter
  <2>1. CASE metrics'[k] = metrics[k]
    BY <1>2, <2>1 DEF IInv, StartsFirst
  <2>2. CASE k = n /\ metrics'[k] = m
    BY <1>3, <1>4, <1>6, <2>2
  <2> QED
    BY <1>1, <1>7, <2>1, <2>2 DEF TypeOK
<1> QED
  BY <1>8, <1>9, <1>10, <1>11 DEF IInv

\* What Load and handleUpdate's guard make of the entry they go on with.
LEMMA Loaded ==
  ASSUME IInv, Load, updating' # updating
  PROVE  LET n == Notified.name
             l == Latency(Notified.object, metrics[n].ts) IN
           /\ updating' = Notified /\ Notified \in [kind : {"update"}, name : Names, object : Object]
           /\ n \in Names /\ metrics[n] \in Metric /\ metrics[n].lat = None
           /\ l \in Times /\ local' = [metrics[n] EXCEPT !.lat = l]
<1> DEFINE n == Notified.name
           o == Notified.object
<1>1. TypeOK /\ Notified \in Notice /\ Notified = pending[1] /\ 1 \in 1..Len(pending) /\ Notified.kind = "update"
  BY Taken DEF IInv, Load, Take
<1>2. /\ o.alloc # None /\ metrics[n] # NoMetric /\ metrics[n].lat < 0
      /\ updating' = Notified /\ local' = [metrics[n] EXCEPT !.lat = Latency(o, metrics[n].ts)]
  BY DEF Load
<1>3. n \in Names /\ o \in Object /\ metrics[n] \in Metric
  BY <1>1, <1>2 DEF Notice, TypeOK
<1>4. metrics[n].ts \in Times /\ metrics[n].lat = None
  BY <1>2, <1>3, BoundsAssumption DEF Metric, Times, None
<1>5. metrics[n].ts <= o.created /\ Sound(o)
  BY <1>1, <1>2, <1>3 DEF IInv, StartsFirst, ObjectsSound
<1>6. Latency(o, metrics[n].ts) \in Times
  BY <1>1, <1>2, <1>3, <1>4, <1>5, LatencyInTimes
<1> QED
  BY <1>1, <1>2, <1>3, <1>4, <1>6 DEF Notice

LEMMA StepLoad == IInv /\ Load => IInv'
<1> SUFFICES ASSUME IInv, Load PROVE IInv'
  OBVIOUS
<1> USE DEF Load, Take, apiVars, mainVars
<1>1. TypeOK /\ updating = Idle /\ pending' = Tail(pending) /\ pending # <<>>
  BY DEF IInv
<1>2. /\ Len(pending) \in Nat /\ Len(pending') = Len(pending) - 1 /\ pending' \in Seq(Notice)
      /\ \A i \in 1..Len(pending') : i + 1 \in 1..Len(pending) /\ pending'[i] = pending[i + 1]
  BY <1>1, Taken
<1>3. ObjectsSound' /\ ToldInOrder'
  BY <1>1, TakenInOrder
<1>4. StartsFirst'
  BY <1>2 DEF IInv, StartsFirst, NotAfter
<1>5. CASE updating' = updating
  <2>1. updating' = Idle /\ local' = local
    <3>1. Notified \in Notice /\ Notified.kind = "update"
      BY <1>1, Taken
    <3>2. Notified # Idle
      BY <3>1 DEF Notice, Idle
    <3> QED
      BY <1>1, <1>5, <3>2
  <2> QED
    BY <1>1, <1>2, <1>3, <1>4, <2>1 DEF IInv, TypeOK, StoreCompletes, Notice
<1>6. CASE updating' # updating
  <2>1. updating' \in [kind : {"update"}, name : Names, object : Object] /\ local' \in Metric
    BY <1>6, Loaded, Sentinels DEF Metric
  <2>2. StoreCompletes'
    <3>1. LET n == Notified.name IN
            /\ updating' = Notified /\ n \in Names /\ metrics' = metrics
            /\ metrics[n] \in Metric /\ metrics[n].lat = None /\ metrics[n] # NoMetric
            /\ local'.lat \in Times /\ local' = [metrics[n] EXCEPT !.lat = local'.lat]
      BY <1>6, Loaded, Sentinels DEF Metric
    <3> QED
      BY <3>1 DEF StoreCompletes
  <2> QED
    BY <1>1, <1>2, <1>3, <1>4, <2>1, <2>2 DEF IInv, TypeOK, Notice
<1> QED
  BY <1>5, <1>6

LEMMA StepStore == IInv /\ Store => IInv'
<1> SUFFICES ASSUME IInv, Store PROVE IInv'
  OBVIOUS
<1> USE DEF Store, apiVars, mainVars
<1> DEFINE n == updating.name
<1>1. TypeOK /\ n \in Names
  BY DEF IInv, TypeOK
<1>2. /\ metrics[n] # NoMetric /\ metrics[n] \in Metric /\ metrics[n].lat = None
      /\ local = [metrics[n] EXCEPT !.lat = local.lat] /\ local.lat \in Times
  BY <1>1 DEF IInv, StoreCompletes, TypeOK
<1>3. local \in Metric /\ local.ts = metrics[n].ts
  BY <1>2 DEF Metric
<1>4. TypeOK'
  BY <1>1, <1>3 DEF TypeOK
<1>5. StoreCompletes'
  BY DEF StoreCompletes
<1>6. ObjectsSound' /\ ToldInOrder'
  BY DEF IInv, ObjectsSound, Sound, ToldInOrder, NotAfter
<1>7. \A k \in Names : metrics'[k] # NoMetric => metrics[k] # NoMetric /\ metrics'[k].ts = metrics[k].ts
  BY <1>1, <1>2, <1>3 DEF TypeOK
<1>8. StartsFirst'
  BY <1>7 DEF IInv, StartsFirst, NotAfter
<1> QED
  BY <1>4, <1>5, <1>6, <1>8 DEF IInv

LEMMA StepMain == IInv /\ Main => IInv'
<1> SUFFICES ASSUME IInv, Main PROVE IInv'
  OBVIOUS
<1> USE DEF Main, apiVars, handlerVars
<1>1. TypeOK
  BY DEF IInv
<1>2. ASSUME NEW n \in Names, Normalize(n) PROVE norm' \in [Names -> Times \cup {None}]
  <2>1. metrics[n].lat \in Times \cup {None}
    BY <1>1, <1>2, Sentinels DEF TypeOK, Normalize
  <2> QED
    BY <1>1, <1>2, <2>1 DEF TypeOK, Normalize
<1>3. TypeOK'
  BY <1>1, <1>2 DEF TypeOK, Stop, Normalize, StopOver
<1>4. UNCHANGED <<apiVars, view, pending, handlerVars>>
  BY DEF Stop, Normalize, StopOver
<1> QED
  BY <1>3, <1>4 DEF IInv, StoreCompletes, ObjectsSound, Sound, ToldInOrder, NotAfter, StartsFirst

\* IInv is inductive: cudnLatency never holds, or is about to store, anything but the
\* first start of a name and the first latency since that start.
THEOREM Invariance == Spec => []IInv
<1>1. IInv /\ [Next]_vars => IInv'
  <2> SUFFICES ASSUME IInv, [Next]_vars PROVE IInv'
    OBVIOUS
  <2>1. CASE Over \/ UNCHANGED vars
    BY <2>1 DEF Over, vars, apiVars, handlerVars, mainVars, IInv, TypeOK, StoreCompletes, ObjectsSound,
                Sound, ToldInOrder, NotAfter, StartsFirst
  <2> QED
    BY <2>1, StepTick, StepApi, StepObserve, StepHandleAdd, StepLoad, StepStore, StepMain
    DEF Next, Api, Handler
<1> QED
  BY <1>1, InitInv, PTL DEF Spec

\* cudnLatency implements LatencyLedger: however names are reused, conditions change
\* and handlers run on during Stop, a name gets one start and one latency, and the
\* one that is indexed is the one recorded.
THEOREM ImplementsLedger == Spec => LedgerHolds
<1>1. Init => Ledger!Init
  BY DEF Init, Ledger!Init, Ledger!Blank, Ledger!None, NoMetric, None
<1>2. IInv /\ [Next]_vars => [Ledger!Next]_(Ledger!vars)
  <2> SUFFICES ASSUME IInv, [Next]_vars PROVE [Ledger!Next]_(Ledger!vars)
    OBVIOUS
  <2> USE DEF Ledger!vars, Ledger!Next, Ledger!Blank, Ledger!None, None
  <2>1. TypeOK /\ Times \subseteq Nat
    BY BoundsAssumption DEF IInv, Times
  <2>2. CASE HandleAdd
    <3> DEFINE n == Notified.name
               o == Notified.object
               m == [ts |-> o.created, lat |-> Latency(o, o.created)]
    <3>1. Notified \in Notice /\ n \in Names
      BY <2>1, <2>2, Taken DEF HandleAdd, Take, Notice
    <3>2. TypeOK'
      BY <2>2, StepHandleAdd DEF IInv
    <3>3. metrics' = IF metrics[n] # NoMetric THEN metrics ELSE [metrics EXCEPT ![n] = m]
      BY <2>2 DEF HandleAdd
    <3>4. norm' = norm
      BY <2>2 DEF HandleAdd, mainVars
    <3>5. CASE metrics[n] = NoMetric
      <4>1. metrics'[n] = m /\ m = [ts |-> m.ts, lat |-> m.lat] /\ m # NoMetric
        BY <2>1, <3>1, <3>3, <3>5, Sentinels DEF TypeOK, Notice, NoMetric
      <4>2. m \in Metric
        BY <3>1, <3>2, <4>1 DEF TypeOK
      <4>3. m.ts \in Nat /\ m.lat \in Nat \cup {None}
        BY <2>1, <4>2, Sentinels
      <4> HIDE DEF m
      <4>4. Ledger!Open(n)
        BY <3>3, <3>4, <3>5, <4>1, <4>3 DEF Ledger!Open, NoMetric
      <4> QED
        BY <3>1, <4>4
    <3>6. CASE metrics[n] # NoMetric
      BY <3>3, <3>4, <3>6
    <3> QED
      BY <3>5, <3>6
  <2>3. CASE Store
    <3> DEFINE n == updating.name
    <3>1. n \in Names /\ metrics' = [metrics EXCEPT ![n] = local] /\ norm' = norm /\ metrics[n] # NoMetric
          /\ metrics[n].lat = None /\ local = [metrics[n] EXCEPT !.lat = local.lat] /\ local.lat \in Times
      BY <2>1, <2>3 DEF Store, TypeOK, IInv, StoreCompletes, mainVars
    <3>2. metrics[n] \in Metric /\ metrics'[n] = local
      BY <2>1, <3>1 DEF TypeOK
    <3>3. Ledger!Measure(n)
      BY <2>1, <3>1, <3>2 DEF Ledger!Measure, NoMetric, TypeOK
    <3> QED
      BY <3>1, <3>3
  <2>4. ASSUME NEW n \in Names, Normalize(n)
        PROVE  [Ledger!Next]_(Ledger!vars)
    <3>1. metrics' = metrics /\ metrics[n].lat \in Times \cup {None}
          /\ norm' = IF metrics[n].lat < 0 THEN norm ELSE [norm EXCEPT ![n] = metrics[n].lat]
      BY <2>1, <2>4, Sentinels DEF Normalize, TypeOK, handlerVars
    <3>2. CASE metrics[n].lat < 0
      BY <3>1, <3>2
    <3>3. CASE ~(metrics[n].lat < 0)
      <4>1. metrics[n].lat # None
        BY <3>3
      <4>2. Ledger!Publish(n)
        BY <3>1, <3>3, <4>1 DEF Ledger!Publish
      <4> QED
        BY <4>2
    <3> QED
      BY <3>2, <3>3
  <2>5. CASE Api \/ (\E n \in Names : Observe(n)) \/ Load \/ Stop \/ StopOver \/ Over \/ UNCHANGED vars
    BY <2>5 DEF Api, Tick, Create, Allocate, Unallocate, Delete, Change, Observe, Load, Stop, StopOver,
                Over, vars, apiVars, handlerVars, mainVars
  <2> QED
    BY <2>2, <2>3, <2>4, <2>5 DEF Next, Handler, Main
<1> QED
  BY <1>1, <1>2, Invariance, PTL DEF Spec, LedgerHolds, Ledger!Spec

-----------------------------------------------------------------------------
(* No CUDN is missed *)

LEMMA InitFollowed == Init => AllFollowed
<1> SUFFICES ASSUME Init, NEW n \in Names \ deleted PROVE Followed(n)
  BY DEF AllFollowed
<1>1. ToldOf(n) = {}
  BY DEF Init, ToldOf
<1> QED
  BY <1>1 DEF Init, Followed, NoObject

\* A step that neither tells nor handles anything, and takes no object away.
LEMMA StillFollowed ==
  ASSUME NEW n \in Names, Followed(n), UNCHANGED <<view, pending, updating, metrics>>,
         api[n] # NoObject => api'[n] # NoObject
  PROVE  Followed(n)'
<1>1. ToldOf(n)' = ToldOf(n)
  BY DEF ToldOf
<1> QED
  BY <1>1 DEF Followed

LEMMA ApiFollowed == ASSUME IInv, AllFollowed, Api, NEW n \in Names \ deleted' PROVE Followed(n)'
<1> USE DEF Api, Change, apiVars, handlerVars, mainVars
<1>1. UNCHANGED <<view, pending, updating, metrics>>
  BY DEF Tick, Create, Allocate, Unallocate, Delete
<1>2. n \in Names \ deleted
  BY DEF Tick, Create, Allocate, Unallocate, Delete
<1>3. api[n] # NoObject => api'[n] # NoObject
  <2>1. api \in [Names -> Object \cup {NoObject}] /\ now \in Times
    BY DEF IInv, TypeOK
  <2>2. CASE Tick
    BY <2>2 DEF Tick
  <2>3. CASE \E k \in Names : Create(k)
    <3> PICK k \in Names : Create(k)
      BY <2>3
    <3> QED
      BY <2>1 DEF Create
  <2>4. CASE \E k \in Names : Allocate(k) \/ Unallocate(k)
    <3> PICK k \in Names : Allocate(k) \/ Unallocate(k)
      BY <2>4
    <3>1. api[k] # NoObject /\ \E t \in {now, Unstamped, None} : api' = [api EXCEPT ![k] = [api[k] EXCEPT !.alloc = t]]
      BY DEF Allocate, Unallocate
    <3>2. ASSUME NEW t \in {now, Unstamped, None} PROVE [api[k] EXCEPT !.alloc = t] # NoObject
      BY <2>1, <3>1, Sentinels, BoundsAssumption DEF Object, NoObject, Times, None
    <3> QED
      BY <2>1, <3>1, <3>2
  <2>5. CASE \E k \in Names : Delete(k)
    <3> PICK k \in Names : Delete(k)
      BY <2>5
    <3> QED
      BY <2>1 DEF Delete
  <2> QED
    BY <2>2, <2>3, <2>4, <2>5
<1> QED
  BY <1>1, <1>2, <1>3, StillFollowed DEF AllFollowed

LEMMA ObserveFollowed ==
  ASSUME IInv, AllFollowed, NEW k \in Names, Observe(k), NEW n \in Names \ deleted'
  PROVE  Followed(n)'
<1> USE DEF Observe, apiVars, handlerVars, mainVars
<1>1. pending \in Seq(Notice) /\ Len(pending) \in Nat /\ Followed(n)
  BY Told DEF IInv, AllFollowed
<1>2. view' = [view EXCEPT ![k] = api[k]] /\ view \in [Names -> Object \cup {NoObject}]
  BY DEF IInv, TypeOK
<1>3. CASE api[k] = NoObject
  <2>1. pending' = pending /\ k # n
    BY <1>1, <1>3 DEF Followed
  <2>2. ToldOf(n)' = ToldOf(n) /\ view'[n] = view[n]
    BY <1>2, <2>1 DEF ToldOf
  <2> QED
    BY <1>1, <2>1, <2>2 DEF Followed
<1>4. CASE api[k] # NoObject
  <2> DEFINE e == Notification(k)
             last == Len(pending) + 1
  <2>1. e \in Notice /\ e.name = k /\ e.object = api[k] /\ (e.kind = "add" <=> view[k] = NoObject)
    BY <1>4 DEF IInv, TypeOK, Notification, Notice
  <2> HIDE DEF e
  <2>2. /\ Len(pending') = last /\ pending'[last] = e
        /\ \A i \in 1..Len(pending) : pending'[i] = pending[i]
    <3>1. pending' = Append(pending, e)
      BY <1>4 DEF e
    <3> QED
      BY <1>1, <2>1, <3>1, AppendProperties
  <2>3. CASE k # n
    <3>1. ToldOf(n)' = ToldOf(n) /\ view'[n] = view[n]
      BY <1>1, <1>2, <2>1, <2>2, <2>3 DEF ToldOf
    <3>2. \A i \in ToldOf(n) : pending'[i] = pending[i]
      BY <2>2 DEF ToldOf
    <3> QED
      BY <1>1, <3>1, <3>2 DEF Followed
  <2>4. CASE k = n
    <3>1. ToldOf(n)' = ToldOf(n) \cup {last} /\ last \notin ToldOf(n)
      BY <1>1, <2>1, <2>2, <2>4 DEF ToldOf
    <3>2. \A i \in ToldOf(n) : pending'[i] = pending[i] /\ i \in Nat /\ i < last
      BY <1>1, <2>2 DEF ToldOf
    <3>3. view'[n] = api[n] /\ view'[n] # NoObject
      BY <1>2, <1>4, <2>4
    <3>4. \A i \in ToldOf(n) : pending'[i].kind = "add" <=> metrics[n] = NoMetric /\ \A j \in ToldOf(n)' : j >= i
      <4> SUFFICES ASSUME NEW i \in ToldOf(n)
                   PROVE  pending'[i].kind = "add" <=> metrics[n] = NoMetric /\ \A j \in ToldOf(n)' : j >= i
        OBVIOUS
      <4>1. (\A j \in ToldOf(n)' : j >= i) <=> \A j \in ToldOf(n) : j >= i
        BY <1>1, <3>1, <3>2
      <4>2. pending'[i] = pending[i]
        BY <3>2
      <4> QED
        BY <1>1, <4>1, <4>2 DEF Followed
    <3>5. pending'[last].kind = "add" <=> metrics[n] = NoMetric /\ \A j \in ToldOf(n)' : j >= last
      <4>1. CASE view[n] = NoObject
        <5>1. metrics[n] = NoMetric /\ ToldOf(n)' = {last}
          BY <1>1, <3>1, <4>1 DEF Followed
        <5> QED
          BY <1>1, <2>1, <2>2, <2>4, <4>1, <5>1
      <4>2. CASE view[n] # NoObject
        <5>1. metrics[n] = NoMetric => ToldOf(n) # {}
          BY <1>1, <4>2 DEF Followed
        <5>2. pending'[last].kind # "add"
          BY <2>1, <2>2, <2>4, <4>2
        <5> QED
          BY <1>1, <3>1, <3>2, <5>1, <5>2
      <4> QED
        BY <4>1, <4>2
    <3>6. view'[n].alloc # None => \E i \in ToldOf(n)' : pending'[i].object.alloc # None
      BY <2>1, <2>2, <2>4, <3>1, <3>3
    <3> QED
      BY <1>4, <2>4, <3>1, <3>3, <3>4, <3>5, <3>6 DEF Followed
  <2> QED
    BY <2>3, <2>4
<1> QED
  BY <1>3, <1>4

\* What is told of a name when a handler takes the first notification.
LEMMA TakenOf ==
  ASSUME TypeOK, pending # <<>>, pending' = Tail(pending), NEW n \in Names
  PROVE  /\ Notified.name = n <=> 1 \in ToldOf(n)
         /\ \A i \in ToldOf(n) : i \in Nat /\ i >= 1
         /\ \A i \in ToldOf(n)' : i \in Nat /\ i + 1 \in ToldOf(n) /\ pending'[i] = pending[i + 1]
         /\ \A i \in ToldOf(n) : i # 1 => i - 1 \in ToldOf(n)'
<1>1. /\ Len(pending) \in Nat /\ Len(pending) >= 1 /\ Notified = pending[1]
      /\ Len(pending') = Len(pending) - 1
      /\ \A i \in 1..Len(pending') : i + 1 \in 1..Len(pending) /\ pending'[i] = pending[i + 1]
  BY Taken
<1>2. \A i \in ToldOf(n) : i # 1 => i - 1 \in 1..Len(pending') /\ (i - 1) + 1 = i
  BY <1>1 DEF ToldOf
<1> QED
  BY <1>1, <1>2 DEF ToldOf

LEMMA HandleAddFollowed ==
  ASSUME IInv, IInv', AllFollowed, HandleAdd, NEW n \in Names \ deleted'
  PROVE  Followed(n)'
<1> USE DEF HandleAdd, Take, apiVars, mainVars
<1> DEFINE o == Notified.object
<1>1. Followed(n) /\ TypeOK /\ UNCHANGED <<api, view, updating>>
  BY DEF IInv, AllFollowed
<1>2. /\ Notified.name = n <=> 1 \in ToldOf(n)
      /\ \A i \in ToldOf(n) : i \in Nat /\ i >= 1
      /\ \A i \in ToldOf(n)' : i \in Nat /\ i + 1 \in ToldOf(n) /\ pending'[i] = pending[i + 1]
      /\ \A i \in ToldOf(n) : i # 1 => i - 1 \in ToldOf(n)'
  BY <1>1, TakenOf
<1>3. Notified = pending[1] /\ Notified \in Notice /\ Notified.kind = "add" /\ Notified.name \in Names
  BY <1>1, Taken DEF Notice
<1>4. metrics \in [Names -> Metric \cup {NoMetric}] /\ metrics' \in [Names -> Metric \cup {NoMetric}]
  BY DEF IInv, TypeOK
<1>5. CASE Notified.name # n
  <2>1. metrics'[n] = metrics[n]
    BY <1>3, <1>4, <1>5
  <2>2. 1 \notin ToldOf(n)
    BY <1>2, <1>5
  <2>3. ToldOf(n) = {} <=> ToldOf(n)' = {}
    BY <1>2, <2>2
  <2>4. \A i \in ToldOf(n)' : (\A j \in ToldOf(n)' : j >= i) <=> (\A j \in ToldOf(n) : j >= i + 1)
    <3>1. ASSUME NEW i \in ToldOf(n)', \A j \in ToldOf(n)' : j >= i, NEW j \in ToldOf(n)
          PROVE  j >= i + 1
      <4>1. j - 1 \in ToldOf(n)' /\ j \in Nat /\ i \in Nat
        BY <1>2, <2>2
      <4> QED
        BY <3>1, <4>1
    <3>2. ASSUME NEW i \in ToldOf(n)', \A j \in ToldOf(n) : j >= i + 1, NEW j \in ToldOf(n)'
          PROVE  j >= i
      <4>1. j + 1 \in ToldOf(n) /\ j \in Nat /\ i \in Nat
        BY <1>2
      <4> QED
        BY <3>2, <4>1
    <3> QED
      BY <3>1, <3>2
  <2>5. \A i \in ToldOf(n)' : pending'[i].kind = "add" <=> metrics'[n] = NoMetric /\ \A j \in ToldOf(n)' : j >= i
    BY <1>1, <1>2, <2>1, <2>4 DEF Followed
  <2>6. (\E i \in ToldOf(n) : pending[i].object.alloc # None)
          => \E i \in ToldOf(n)' : pending'[i].object.alloc # None
    <3> SUFFICES ASSUME NEW i \in ToldOf(n), pending[i].object.alloc # None
                 PROVE  \E j \in ToldOf(n)' : pending'[j].object.alloc # None
      OBVIOUS
    <3>1. i - 1 \in ToldOf(n)' /\ (i - 1) + 1 = i
      BY <1>2, <2>2
    <3> QED
      BY <1>2, <3>1
  <2> QED
    BY <1>1, <2>1, <2>3, <2>5, <2>6 DEF Followed
<1>6. CASE Notified.name = n
  <2>1. metrics[n] = NoMetric /\ view[n] # NoObject
    BY <1>1, <1>2, <1>3, <1>6 DEF Followed
  <2>2. metrics'[n] = [ts |-> o.created, lat |-> Latency(o, o.created)]
    BY <1>3, <1>4, <1>6, <2>1
  <2>3. metrics'[n] # NoMetric /\ metrics'[n] \in Metric
    <3>1. o \in Object /\ o.created \in Times
      BY <1>3, Sentinels DEF Notice
    <3>2. metrics'[n].ts # NoMetric.ts
      BY <2>2, <3>1, BoundsAssumption DEF Times, NoMetric, None
    <3> QED
      BY <1>4, <3>2
  <2>4. \A i \in ToldOf(n)' : pending'[i].kind # "add"
    <3> SUFFICES ASSUME NEW i \in ToldOf(n)' PROVE pending'[i].kind # "add"
      OBVIOUS
    <3>1. i + 1 \in ToldOf(n) /\ pending'[i] = pending[i + 1] /\ 1 \in ToldOf(n) /\ i \in Nat
      BY <1>2, <1>6
    <3>2. i >= 1
      <4>1. Len(pending') \in Nat /\ i \in 1..Len(pending')
        BY <1>1, Taken DEF ToldOf
      <4> QED
        BY <4>1
    <3>3. ~(1 >= i + 1)
      BY <3>1, <3>2
    <3> QED
      BY <1>1, <3>1, <3>3 DEF Followed
  <2>5. o.alloc # None => metrics'[n].lat >= 0
    <3> SUFFICES ASSUME o.alloc # None PROVE metrics'[n].lat >= 0
      OBVIOUS
    <3>1. 1 \in 1..Len(pending) /\ o \in Object /\ o.created \in Times
      BY <1>2, <1>3, <1>6, Sentinels DEF ToldOf, Notice
    <3>2. Sound(o)
      BY <1>3, <3>1 DEF IInv, ObjectsSound
    <3>3. o.created <= o.created
      BY <3>1, BoundsAssumption DEF Times
    <3>4. Latency(o, o.created) \in Times
      BY <1>1, <3>1, <3>2, <3>3, LatencyInTimes
    <3> QED
      BY <2>2, <3>4, BoundsAssumption DEF Times
  <2>6. o.alloc = None /\ (\E i \in ToldOf(n) : pending[i].object.alloc # None)
          => \E i \in ToldOf(n)' : pending'[i].object.alloc # None
    <3> SUFFICES ASSUME o.alloc = None, NEW i \in ToldOf(n), pending[i].object.alloc # None
                 PROVE  \E j \in ToldOf(n)' : pending'[j].object.alloc # None
      OBVIOUS
    <3>1. i - 1 \in ToldOf(n)' /\ (i - 1) + 1 = i
      BY <1>2, <1>3
    <3> QED
      BY <1>2, <3>1
  <2>7. ~(metrics[n].lat >= 0) /\ updating = Idle
    BY <2>1 DEF NoMetric, None
  <2> QED
    BY <1>1, <2>1, <2>3, <2>4, <2>5, <2>6, <2>7 DEF Followed
<1> QED
  BY <1>5, <1>6

LEMMA LoadFollowed ==
  ASSUME IInv, AllFollowed, Load, NEW n \in Names \ deleted'
  PROVE  Followed(n)'
<1> USE DEF Load, Take, apiVars, mainVars
<1> DEFINE o == Notified.object
<1>1. Followed(n) /\ TypeOK /\ UNCHANGED <<api, view, metrics>> /\ updating = Idle
  BY DEF IInv, AllFollowed
<1>2. /\ Notified.name = n <=> 1 \in ToldOf(n)
      /\ \A i \in ToldOf(n) : i \in Nat /\ i >= 1
      /\ \A i \in ToldOf(n)' : i \in Nat /\ i + 1 \in ToldOf(n) /\ pending'[i] = pending[i + 1]
      /\ \A i \in ToldOf(n) : i # 1 => i - 1 \in ToldOf(n)'
  BY <1>1, TakenOf
<1>3. Notified = pending[1] /\ Notified \in Notice /\ Notified.kind = "update" /\ Notified.name \in Names
  BY <1>1, Taken DEF Notice
<1>4. 1 \in ToldOf(n) => metrics[n] # NoMetric
  BY <1>1, <1>2, <1>3 DEF Followed
<1>5. metrics[n] = NoMetric => (ToldOf(n) = {} <=> ToldOf(n)' = {})
  BY <1>2, <1>4
<1>6. ASSUME NEW i \in ToldOf(n)'
      PROVE  pending'[i].kind = "add" <=> metrics[n] = NoMetric /\ \A j \in ToldOf(n)' : j >= i
  <2>1. CASE metrics[n] # NoMetric
    BY <1>1, <1>2, <2>1 DEF Followed
  <2>2. CASE metrics[n] = NoMetric
    <3>1. 1 \notin ToldOf(n)
      BY <1>4, <2>2
    <3>2. (\A j \in ToldOf(n)' : j >= i) => \A j \in ToldOf(n) : j >= i + 1
      <4> SUFFICES ASSUME \A j \in ToldOf(n)' : j >= i, NEW j \in ToldOf(n) PROVE j >= i + 1
        OBVIOUS
      <4>1. j - 1 \in ToldOf(n)' /\ j \in Nat /\ i \in Nat
        BY <1>2, <3>1
      <4> QED
        BY <4>1
    <3>3. (\A j \in ToldOf(n) : j >= i + 1) => \A j \in ToldOf(n)' : j >= i
      <4> SUFFICES ASSUME \A j \in ToldOf(n) : j >= i + 1, NEW j \in ToldOf(n)' PROVE j >= i
        OBVIOUS
      <4>1. j + 1 \in ToldOf(n) /\ j \in Nat /\ i \in Nat
        BY <1>2
      <4> QED
        BY <4>1
    <3> QED
      BY <1>1, <1>2, <2>2, <3>2, <3>3 DEF Followed
  <2> QED
    BY <2>1, <2>2
<1>7. view[n].alloc # None =>
        \/ metrics[n].lat >= 0
        \/ updating' # Idle /\ updating'.name = n
        \/ \E i \in ToldOf(n)' : pending'[i].object.alloc # None
  <2> SUFFICES ASSUME NEW i \in ToldOf(n), pending[i].object.alloc # None
               PROVE  \/ metrics[n].lat >= 0
                      \/ updating' # Idle /\ updating'.name = n
                      \/ \E j \in ToldOf(n)' : pending'[j].object.alloc # None
    BY <1>1 DEF Followed
  <2>1. CASE i # 1
    <3>1. i - 1 \in ToldOf(n)' /\ (i - 1) + 1 = i
      BY <1>2, <2>1
    <3> QED
      BY <1>2, <3>1
  <2>2. CASE i = 1
    <3>1. Notified.name = n /\ metrics[n] # NoMetric /\ o.alloc # None
      BY <1>2, <1>3, <1>4, <2>2
    <3>2. metrics[n] \in Metric
      BY <1>1, <3>1 DEF TypeOK
    <3>3. metrics[n].lat < 0 \/ metrics[n].lat >= 0
      BY <3>2, BoundsAssumption DEF Metric, Times, None
    <3>4. Notified # Idle
      BY <1>3 DEF Idle
    <3> QED
      BY <3>1, <3>3, <3>4
  <2> QED
    BY <2>1, <2>2
<1> QED
  BY <1>1, <1>5, <1>6, <1>7 DEF Followed

LEMMA StoreFollowed ==
  ASSUME IInv, AllFollowed, Store, NEW n \in Names \ deleted'
  PROVE  Followed(n)'
<1> USE DEF Store, apiVars, mainVars
<1>1. Followed(n) /\ UNCHANGED <<api, view, pending>> /\ updating # Idle /\ updating' = Idle
  BY DEF AllFollowed
<1>2. ToldOf(n)' = ToldOf(n)
  BY <1>1 DEF ToldOf
<1>3. metrics \in [Names -> Metric \cup {NoMetric}]
  BY DEF IInv, TypeOK
<1>4. CASE updating.name # n
  <2>1. metrics'[n] = metrics[n]
    BY <1>3, <1>4
  <2> QED
    BY <1>1, <1>2, <1>4, <2>1 DEF Followed
<1>5. CASE updating.name = n
  <2>1. metrics'[n] = local /\ metrics[n] # NoMetric /\ local.lat \in Times
    BY <1>1, <1>3, <1>5 DEF IInv, StoreCompletes
  <2>2. local # NoMetric /\ local.lat >= 0
    BY <2>1, BoundsAssumption DEF Times, NoMetric, None
  <2> QED
    BY <1>1, <1>2, <2>1, <2>2 DEF Followed
<1> QED
  BY <1>4, <1>5

\* An allocation the informer saw is recorded or on its way to be: no CUDN of a name that
\* was not used before is missed, however many states the informer skips.
THEOREM NoneMissedHolds == Spec => []NoneMissed
<1>1. IInv /\ IInv' /\ AllFollowed /\ [Next]_vars => AllFollowed'
  <2> SUFFICES ASSUME IInv, IInv', AllFollowed, [Next]_vars, NEW n \in Names \ deleted'
               PROVE  Followed(n)'
    BY DEF AllFollowed, Followed, ToldOf
  <2>1. CASE Main \/ Over \/ UNCHANGED vars
    <3>1. UNCHANGED <<api, deleted, view, pending, updating, metrics>>
      BY <2>1 DEF Main, Stop, Normalize, StopOver, Over, vars, apiVars, handlerVars, mainVars
    <3> QED
      BY <3>1, StillFollowed DEF AllFollowed
  <2> QED
    BY <2>1, ApiFollowed, ObserveFollowed, HandleAddFollowed, LoadFollowed, StoreFollowed
    DEF Next, Handler
<1>2. IInv /\ AllFollowed => NoneMissed
  <2> SUFFICES ASSUME IInv, AllFollowed, Settled, NEW n \in Names \ deleted, api[n].alloc # None
               PROVE  metrics[n].lat >= 0
    BY DEF NoneMissed
  <2>1. ToldOf(n) = {} /\ view = api /\ updating = Idle
    BY DEF Settled, ToldOf
  <2> QED
    BY <2>1 DEF AllFollowed, Followed
<1> QED
  BY <1>1, <1>2, InitFollowed, Invariance, PTL DEF Spec
=============================================================================
