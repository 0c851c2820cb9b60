--------------------------- MODULE RaExportProofs ---------------------------
(***************************************************************************)
(* For any number of subnets, CUDNs, pods, workers and route changes: the  *)
(* route timestamp of a CUDN is written once, although every worker stores *)
(* back a whole copy of the record, and it is the one that is indexed;     *)
(* pings are lost only where two workers held the record at one time.      *)
(***************************************************************************)
EXTENDS RaLatency, FiniteSetTheorems, SequenceTheorems, TLAPS

\* Sets of workers are finite; one more or one less moves their number by one.
LEMMA WorkerSets ==
  ASSUME NEW S \in SUBSET Workers
  PROVE  /\ IsFiniteSet(S)
         /\ Cardinality(S) \in 0..Cardinality(Workers)
         /\ \A w \in Workers : w \notin S => Cardinality(S \cup {w}) = Cardinality(S) + 1
         /\ \A w \in S : Cardinality(S \ {w}) = Cardinality(S) - 1
<1>1. IsFiniteSet(S) /\ Cardinality(S) <= Cardinality(Workers)
  BY WorkersAssumption, FS_Subset
<1>2. Cardinality(S) \in Nat /\ Cardinality(Workers) \in Nat
  BY <1>1, WorkersAssumption, FS_CardinalityType
<1> QED
  BY <1>1, <1>2, FS_AddElement, FS_RemoveElement

LEMMA InitInv == Init => IInv
<1> SUFFICES ASSUME Init PROVE IInv
  OBVIOUS
<1>1. /\ NoRecord \in Record
      /\ Starting = {} /\ Cardinality({}) = 0
      /\ 0 \in 0..Cardinality(Workers)
  BY WorkerSets, FS_EmptySet DEF Init, NoRecord, Record, Starting
<1>2. TypeOK
  <2>1. /\ fib \subseteq Dsts /\ lastId \in Nat
        /\ routeClosed \in BOOLEAN /\ exportDone \in BOOLEAN
        /\ mainPc \in MainStates /\ spawned \subseteq Workers
        /\ metrics \subseteq Cudns /\ unread \subseteq Cudns
    BY DEF Init, MainStates
  <2>5. adds \in [Dsts -> 0..MaxAdds]
    <3>1. 0 \in 0..MaxAdds
      BY BoundsAssumption
    <3> QED
      BY <3>1 DEF Init
  <2>2. routeCh \in Seq(Event)
    BY DEF Init
  <2>3. /\ wpc \in [Workers -> WorkerStates]
        /\ update \in [Workers -> Event \cup {NoEvent}]
        /\ pod \in [Workers -> Nat \ {0}]
    BY DEF Init, WorkerStates
  <2>4. /\ snap \in [Workers -> Record]
        /\ conn \in [Cudns -> Record] /\ verified \in Nat
        /\ norm \in [Cudns -> Record]
        /\ wg \in 0..Cardinality(Workers)
    BY <1>1 DEF Init
  <2> QED
    BY <2>1, <2>2, <2>3, <2>4, <2>5 DEF TypeOK
<1> QED
  BY <1>1, <1>2 DEF Init, IInv, Handled, Handling, Holds, Copies, Records, Owed, NormalizedRoute

-----------------------------------------------------------------------------
(* Steps that leave the workers and the records alone *)

\* What the invariant says beyond the types depends on these variables only.
LEMMA Frame ==
  ASSUME IInv, TypeOK', UNCHANGED <<workerVars, conn, wg, spawned, norm>>
  PROVE  IInv'
<1>1. /\ Starting' = Starting
      /\ \A w \in Workers : Handling(w)' = Handling(w) /\ Holds(w)' = Holds(w) /\ Key(w)' = Key(w)
  BY DEF workerVars, Starting, Handling, Holds, Key
<1> QED
  BY <1>1 DEF workerVars, IInv, Handled, Copies, Records, Owed, NormalizedRoute

LEMMA KernelStep == IInv /\ (Kernel \/ SubscriptionEnds) => IInv'
<1> SUFFICES ASSUME IInv, Kernel \/ SubscriptionEnds PROVE IInv'
  OBVIOUS
<1>1. CASE SubscriptionEnds
  <2>1. TypeOK'
    BY <1>1 DEF SubscriptionEnds, kernelVars, workerVars, recordVars, mainVars, reportVars, IInv, TypeOK
  <2> QED
    BY <1>1, <2>1, Frame DEF SubscriptionEnds, recordVars, mainVars, reportVars
<1>2. ASSUME NEW d \in Dsts, NEW b \in BOOLEAN, Notify(d, b),
             fib' \subseteq Dsts, adds' \in [Dsts -> 0..MaxAdds]
      PROVE  IInv'
  <2>1. routeCh' \in Seq(Event) /\ lastId' \in Nat
    <3> DEFINE e == [id |-> lastId + 1, new |-> b, dst |-> d]
    <3>1. e \in Event /\ routeCh \in Seq(Event)
      BY DEF IInv, TypeOK, Event
    <3>2. Append(routeCh, e) \in Seq(Event)
      BY <3>1, AppendProperties
    <3> QED
      BY <1>2, <3>2 DEF Notify, IInv, TypeOK
  <2>2. TypeOK'
    BY <1>2, <2>1 DEF Notify, workerVars, recordVars, mainVars, reportVars, IInv, TypeOK
  <2> QED
    BY <1>2, <2>2, Frame DEF Notify, recordVars, mainVars, reportVars
<1>3. ASSUME NEW d \in Dsts, RouteAdd(d)
      PROVE  IInv'
  <2>1. fib' \subseteq Dsts /\ adds' \in [Dsts -> 0..MaxAdds]
    BY <1>3, BoundsAssumption DEF RouteAdd, IInv, TypeOK
  <2> QED
    BY <1>2, <1>3, <2>1 DEF RouteAdd
<1>4. ASSUME NEW d \in Dsts, RouteDel(d)
      PROVE  IInv'
  <2>1. fib' \subseteq Dsts /\ adds' \in [Dsts -> 0..MaxAdds]
    BY <1>4 DEF RouteDel, IInv, TypeOK
  <2> QED
    BY <1>2, <1>4, <2>1 DEF RouteDel
<1> QED
  BY <1>1, <1>3, <1>4 DEF Kernel

\* The steps of Start, Stop, the informer and normalizeMetrics, except for the
\* start of a worker and the reading of a record.
LEMMA MainStep ==
  ASSUME IInv,
         \/ Subscribe \/ StartInformer \/ CallStop \/ CountReached \/ WaitOver \/ Timeout
         \/ CloseExportDone \/ Import \/ WgWait \/ NormalizeOver
         \/ \E c \in Cudns : HandleAdd(c)
  PROVE  IInv'
<1>1. mainPc' \in MainStates
  BY DEF IInv, TypeOK, MainStates, MainGoto, Subscribe, StartInformer, CallStop, CountReached,
         WaitOver, Timeout, CloseExportDone, Import, WgWait, NormalizeOver, HandleAdd
<1>2. /\ metrics' \subseteq Cudns /\ unread' \subseteq Cudns
      /\ routeClosed' \in BOOLEAN /\ exportDone' \in BOOLEAN
  BY DEF IInv, TypeOK, chanVars, reportVars, Subscribe, StartInformer, CallStop, CountReached,
         WaitOver, Timeout, CloseExportDone, Import, WgWait, NormalizeOver, HandleAdd
<1>3. UNCHANGED <<kernelVars, routeCh, workerVars, recordVars, wg, spawned, norm>>
  BY DEF chanVars, reportVars, Subscribe, StartInformer, CallStop, CountReached,
         WaitOver, Timeout, CloseExportDone, Import, WgWait, NormalizeOver, HandleAdd
<1>4. TypeOK'
  BY <1>1, <1>2, <1>3 DEF IInv, TypeOK, kernelVars, workerVars, recordVars
<1> QED
  BY <1>3, <1>4, Frame DEF recordVars

\* normalizeMetrics copies the record as it is now: later stores keep its timestamp.
LEMMA NormalizeStep ==
  ASSUME IInv, NEW c \in Cudns, Normalize(c)
  PROVE  IInv'
<1> USE DEF Normalize, kernelVars, chanVars, workerVars, recordVars
<1>1. TypeOK'
  BY DEF IInv, TypeOK
<1>2. Starting' = Starting /\ \A w \in Workers : Handling(w)' = Handling(w) /\ Holds(w)' = Holds(w) /\ Key(w)' = Key(w)
  BY DEF Starting, Handling, Holds, Key
<1>3. NormalizedRoute'
  BY DEF IInv, TypeOK, NormalizedRoute
<1> QED
  BY <1>1, <1>2, <1>3 DEF IInv, Handled, Copies, Records, Owed

LEMMA SpawnStep ==
  ASSUME IInv, NEW w \in Workers, Spawn(w)
  PROVE  IInv'
<1> USE DEF Spawn, WorkerGoto, kernelVars, chanVars, recordVars, reportVars
<1>1. /\ wpc' \in [Workers -> WorkerStates]
      /\ \A v \in Workers : wpc'[v] = IF v = w THEN "start" ELSE wpc[v]
  BY DEF IInv, TypeOK, WorkerStates
<1>2. w \notin Starting /\ Starting' = Starting \cup {w}
  BY <1>1 DEF IInv, Owed, Starting
<1>3. Owed' /\ wg' \in 0..Cardinality(Workers)
  <2>1. Cardinality(Starting') = Cardinality(Starting) + 1 /\ Cardinality(Starting') \in 0..Cardinality(Workers)
    BY <1>2, WorkerSets DEF Starting
  <2> QED
    BY <1>1, <2>1 DEF IInv, Owed
<1>4. TypeOK'
  BY <1>1, <1>3 DEF IInv, TypeOK
<1>5. \A v \in Workers : (Handling(v)' => Handling(v)) /\ (Holds(v)' => Holds(v)) /\ Key(v)' = Key(v)
  BY <1>1 DEF Handling, Holds, Key
<1> QED
  BY <1>3, <1>4, <1>5 DEF IInv, Handled, Copies, Records, NormalizedRoute

-----------------------------------------------------------------------------
(* The steps of a worker *)

LEMMA WorkerDoneStep ==
  ASSUME IInv, NEW w \in Workers, WorkerDone(w)
  PROVE  IInv'
<1> USE DEF WorkerDone, WorkerGoto, kernelVars, chanVars, recordVars, mainVars, reportVars
<1>1. /\ wpc' \in [Workers -> WorkerStates]
      /\ \A v \in Workers : wpc'[v] = IF v = w THEN "select" ELSE wpc[v]
  BY DEF IInv, TypeOK, WorkerStates
<1>2. w \in Starting /\ Starting' = Starting \ {w}
  BY <1>1 DEF Starting
<1>3. Owed' /\ wg' \in 0..Cardinality(Workers)
  <2>1. Cardinality(Starting') = Cardinality(Starting) - 1 /\ Cardinality(Starting') \in 0..Cardinality(Workers)
    BY <1>2, WorkerSets DEF Starting
  <2> QED
    BY <1>1, <2>1 DEF IInv, Owed
<1>4. TypeOK'
  BY <1>1, <1>3 DEF IInv, TypeOK
<1>5. \A v \in Workers : (Handling(v)' => Handling(v)) /\ (Holds(v)' => Holds(v)) /\ Key(v)' = Key(v)
  BY <1>1 DEF Handling, Holds, Key
<1> QED
  BY <1>3, <1>4, <1>5 DEF IInv, Handled, Copies, Records, NormalizedRoute

LEMMA ReceiveStep ==
  ASSUME IInv, NEW w \in Workers, Receive(w) \/ ReceiveClosed(w)
  PROVE  IInv'
<1> USE DEF Receive, ReceiveClosed, WorkerGoto, kernelVars, chanVars, recordVars, mainVars, reportVars
<1>1. routeCh' \in Seq(Event) /\ (routeCh # <<>> => Head(routeCh) \in Event)
  <2>1. routeCh \in Seq(Event)
    BY DEF IInv, TypeOK
  <2>2. routeCh # <<>> => Head(routeCh) \in Event /\ Tail(routeCh) \in Seq(Event)
    BY ONLY <2>1, HeadTailProperties
  <2>3. routeCh' = routeCh \/ (routeCh # <<>> /\ routeCh' = Tail(routeCh))
    BY DEF chanVars
  <2> QED
    BY ONLY <2>1, <2>2, <2>3
<1>2. /\ wpc' \in [Workers -> WorkerStates]
      /\ wpc[w] = "select"
      /\ wpc'[w] \in {"select", "load", "exited"}
      /\ \A v \in Workers \ {w} : wpc'[v] = wpc[v] /\ update'[v] = update[v]
      /\ wpc'[w] = "load" => update'[w] \in Event /\ update'[w].dst \in Subnets
      /\ update' \in [Workers -> Event \cup {NoEvent}]
  BY <1>1 DEF IInv, TypeOK, WorkerStates, Concerns
<1>3. TypeOK'
  BY <1>1, <1>2 DEF IInv, TypeOK
<1>4. Owed'
  <2>1. Starting' = Starting
    BY <1>2 DEF Starting
  <2> QED
    BY <1>2, <2>1 DEF IInv, Owed
<1>5. Handled'
  BY <1>2 DEF IInv, Handled, Handling
<1>6. Copies'
  BY <1>2 DEF IInv, Copies, Holds, Key
<1> QED
  BY <1>3, <1>4, <1>5, <1>6 DEF IInv, Records, NormalizedRoute

\* A worker that moves on within the handling of one route.
LEMMA LoadStep ==
  ASSUME IInv, NEW w \in Workers, LoadOrStore(w)
  PROVE  IInv'
<1> USE DEF LoadOrStore, WorkerGoto, kernelVars, chanVars, mainVars, reportVars
<1> DEFINE k == Key(w)
<1>1. /\ update[w] \in Event /\ k \in Cudns
      /\ Fresh(w) \in Record /\ Fresh(w).route # 0 /\ conn[k] \in Record
  BY CudnOfAssumption DEF IInv, TypeOK, Handled, Handling, Key, Fresh, Record, Event
<1>2. /\ wpc' \in [Workers -> WorkerStates]
      /\ \A v \in Workers : wpc'[v] = IF v = w THEN "ping" ELSE wpc[v]
  BY DEF IInv, TypeOK, WorkerStates
<1>3. /\ conn' \in [Cudns -> Record] /\ snap' \in [Workers -> Record]
      /\ conn'[k].route # 0
      /\ \A c \in Cudns : conn[c].route # 0 => conn'[c] = conn[c]
      /\ \A c \in Cudns : c # k => conn'[c] = conn[c]
      /\ \A v \in Workers : snap'[v] = IF v = w THEN conn'[k] ELSE snap[v]
  <2> HIDE DEF k
  <2>1. conn' = IF conn[k] = NoRecord THEN [conn EXCEPT ![k] = Fresh(w)] ELSE conn
    BY DEF k
  <2>2. snap' = [snap EXCEPT ![w] = conn'[k]]
    BY DEF k
  <2>3. NoRecord.route = 0
    BY DEF NoRecord
  <2>4. conn \in [Cudns -> Record] /\ snap \in [Workers -> Record] /\ (conn[k] # NoRecord => conn[k].route # 0)
    BY <1>1 DEF IInv, TypeOK, Records
  <2>5. /\ conn' \in [Cudns -> Record] /\ conn'[k].route # 0
        /\ \A c \in Cudns : conn[c].route # 0 => conn'[c] = conn[c]
        /\ \A c \in Cudns : c # k => conn'[c] = conn[c]
    BY <1>1, <2>1, <2>3, <2>4
  <2> QED
    BY <1>1, <2>2, <2>4, <2>5
<1>4. TypeOK'
  BY <1>2, <1>3 DEF IInv, TypeOK, recordVars
<1>5. Owed' /\ Handled'
  <2>1. Starting' = Starting
    BY <1>2 DEF Starting
  <2> QED
    BY <1>2, <2>1 DEF IInv, Owed, Handled, Handling
<1>6. Copies'
  <2> SUFFICES ASSUME NEW v \in Workers, Holds(v)'
               PROVE  conn'[Key(v)].route # 0 /\ snap'[v].route = conn'[Key(v)].route
    BY DEF Copies, Key
  <2>1. CASE v = w
    BY <1>3, <2>1
  <2>2. CASE v # w
    <3>1. Holds(v) /\ Key(v) \in Cudns
      BY <1>2, <2>2, CudnOfAssumption DEF IInv, Handled, Handling, Holds, Key
    <3> QED
      BY <1>3, <2>2, <3>1 DEF IInv, Copies
  <2> QED
    BY <2>1, <2>2
<1>7. Records' /\ NormalizedRoute'
  BY <1>3 DEF IInv, TypeOK, Records, NormalizedRoute, NoRecord
<1> QED
  BY <1>4, <1>5, <1>6, <1>7 DEF IInv

LEMMA PingStep ==
  ASSUME IInv, NEW w \in Workers, PingPod(w) \/ CountRoute(w)
  PROVE  IInv'
<1>1. /\ update[w] \in Event /\ snap[w] \in Record /\ pod[w] \in Nat \ {0}
      /\ wpc[w] = "ping"
  BY DEF IInv, TypeOK, Handled, Handling, PingPod, CountRoute
<1>2. /\ snap' \in [Workers -> Record]
      /\ \A v \in Workers : snap'[v].route = snap[v].route
  <2>1. ASSUME PingPod(w), NEW p \in (Nat \ {0}) \X (Nat \ {0}),
               snap' = [snap EXCEPT ![w].pings = Append(@, p)]
        PROVE  snap' \in [Workers -> Record] /\ \A v \in Workers : snap'[v].route = snap[v].route
    <3>1. Append(snap[w].pings, p) \in Seq((Nat \ {0}) \X (Nat \ {0}))
      BY <1>1, AppendProperties DEF Record
    <3>2. [snap[w] EXCEPT !.pings = Append(@, p)] \in Record
          /\ [snap[w] EXCEPT !.pings = Append(@, p)].route = snap[w].route
      BY <1>1, <3>1 DEF Record
    <3>3. snap' = [snap EXCEPT ![w] = [snap[w] EXCEPT !.pings = Append(@, p)]]
      BY <2>1
    <3> QED
      BY <3>2, <3>3 DEF IInv, TypeOK
  <2>2. <<update[w].id, pod[w]>> \in (Nat \ {0}) \X (Nat \ {0})
    BY <1>1 DEF Event
  <2>3. CASE PingPod(w)
    BY <2>1, <2>2, <2>3 DEF PingPod, IInv, TypeOK
  <2>4. CASE CountRoute(w)
    BY <2>4 DEF CountRoute, IInv, TypeOK
  <2> QED
    BY <2>3, <2>4
<1>3. /\ wpc' \in [Workers -> WorkerStates]
      /\ wpc'[w] \in {"ping", "store"}
      /\ \A v \in Workers \ {w} : wpc'[v] = wpc[v]
  BY <1>1 DEF IInv, TypeOK, WorkerStates, PingPod, CountRoute, WorkerGoto
<1>4. /\ UNCHANGED <<kernelVars, chanVars, update, conn, wg, mainVars>>
      /\ pod' \in [Workers -> Nat \ {0}] /\ verified' \in Nat
  BY DEF IInv, TypeOK, PingPod, CountRoute, recordVars
<1>5. TypeOK'
  BY <1>2, <1>3, <1>4 DEF IInv, TypeOK, kernelVars, chanVars, mainVars, reportVars
<1>6. Owed' /\ Handled'
  <2>1. Starting' = Starting
    BY <1>1, <1>3 DEF Starting
  <2> QED
    BY <1>1, <1>3, <1>4, <2>1 DEF IInv, Owed, Handled, Handling, mainVars
<1>7. Copies'
  BY <1>1, <1>2, <1>3, <1>4 DEF IInv, Copies, Holds, Key
<1> QED
  BY <1>4, <1>5, <1>6, <1>7 DEF IInv, Records, NormalizedRoute, mainVars, reportVars

LEMMA StoreStep ==
  ASSUME IInv, NEW w \in Workers, StoreRecord(w)
  PROVE  IInv' /\ \A c \in Cudns : conn'[c].route = conn[c].route
<1> USE DEF StoreRecord, Forget, WorkerGoto, kernelVars, chanVars, mainVars, reportVars
<1>1. /\ Key(w) \in Cudns /\ snap[w] \in Record
      /\ snap[w].route = conn[Key(w)].route /\ snap[w].route # 0
  BY CudnOfAssumption DEF IInv, TypeOK, Handled, Handling, Holds, Copies, Key
<1>2. /\ wpc' \in [Workers -> WorkerStates]
      /\ \A v \in Workers : wpc'[v] = IF v = w THEN "select" ELSE wpc[v]
  BY DEF IInv, TypeOK, WorkerStates
<1>3. /\ conn' \in [Cudns -> Record]
      /\ \A c \in Cudns : conn'[c].route = conn[c].route
      /\ \A c \in Cudns : c # Key(w) => conn'[c] = conn[c]
      /\ conn'[Key(w)] = snap[w]
  BY <1>1 DEF IInv, TypeOK
<1>4. /\ update' \in [Workers -> Event \cup {NoEvent}]
      /\ snap' \in [Workers -> Record]
      /\ pod' \in [Workers -> Nat \ {0}]
      /\ \A v \in Workers \ {w} : update'[v] = update[v] /\ snap'[v] = snap[v]
  <2>1. NoRecord \in Record
    BY DEF NoRecord, Record
  <2> QED
    BY <2>1 DEF IInv, TypeOK
<1>5. TypeOK'
  BY <1>2, <1>3, <1>4 DEF IInv, TypeOK
<1>6. Owed' /\ Handled'
  <2>1. Starting' = Starting
    BY <1>2 DEF Starting
  <2> QED
    BY <1>2, <1>4, <2>1 DEF IInv, Owed, Handled, Handling
<1>7. Copies'
  <2> SUFFICES ASSUME NEW v \in Workers, Holds(v)'
               PROVE  conn'[Key(v)'].route # 0 /\ snap'[v].route = conn'[Key(v)'].route
    BY DEF Copies
  <2>1. v # w /\ Holds(v) /\ Key(v)' = Key(v) /\ Key(v) \in Cudns
    BY <1>2, <1>4, CudnOfAssumption DEF IInv, Handled, Handling, Holds, Key
  <2> QED
    BY <1>3, <1>4, <2>1 DEF IInv, Copies
<1>8. Records' /\ NormalizedRoute'
  <2>1. \A c \in Cudns : conn'[c] # NoRecord => conn'[c].route # 0
    BY <1>1, <1>3 DEF IInv, Records
  <2>2. \A c \in Cudns : conn[c] # NoRecord => conn'[c] # NoRecord
    BY <1>3 DEF IInv, Records, NoRecord
  <2> QED
    BY <1>3, <2>1, <2>2 DEF IInv, Records, NormalizedRoute
<1> QED
  BY <1>3, <1>5, <1>6, <1>7, <1>8 DEF IInv

-----------------------------------------------------------------------------
LEMMA StutterStep == IInv /\ UNCHANGED vars => IInv'
<1> SUFFICES ASSUME IInv, UNCHANGED vars PROVE IInv'
  OBVIOUS
<1>1. TypeOK'
  BY DEF vars, kernelVars, chanVars, workerVars, recordVars, mainVars, reportVars, IInv, TypeOK
<1> QED
  BY <1>1, Frame DEF vars, recordVars, mainVars, reportVars

LEMMA StepInv == IInv /\ [Next]_vars => IInv'
<1> SUFFICES ASSUME IInv, [Next]_vars PROVE IInv'
  OBVIOUS
<1>1. CASE Kernel \/ SubscriptionEnds
  BY <1>1, KernelStep
<1>2. CASE \E w \in Workers : Worker(w)
  BY <1>2, WorkerDoneStep, ReceiveStep, LoadStep, PingStep, StoreStep DEF Worker
<1>3. CASE \E c \in Cudns : HandleAdd(c)
  BY <1>3, MainStep
<1>4. CASE Main
  BY <1>4, MainStep, SpawnStep, NormalizeStep DEF Main, Own
<1>5. CASE UNCHANGED vars
  BY <1>5, StutterStep
<1> QED
  BY <1>1, <1>2, <1>3, <1>4, <1>5 DEF Next, Others, Over

\* The behaviours of Spec, and more: the proofs of safety need no fairness.
Unfair == Init /\ [][Next]_vars

LEMMA Always == Unfair => []IInv
BY InitInv, StepInv, PTL DEF Unfair

\* The inductive invariant holds in every reachable state.
THEOREM Invariance == Spec => []IInv
BY Always, PTL DEF Spec, Unfair

\* The netlink latency that is indexed is that of the first detection, although
\* export workers may store records while normalizeMetrics reads them.
THEOREM NormalizedRouteHolds == Spec => []NormalizedRoute
<1>1. IInv => NormalizedRoute
  BY DEF IInv
<1> QED
  BY <1>1, Invariance, PTL

\* A step changes the record of a CUDN only when a worker loads or stores.
LEMMA ConnUnchanged ==
  ASSUME [Next]_vars,
         ~ \E w \in Workers : LoadOrStore(w) \/ StoreRecord(w)
  PROVE  conn' = conn
<1> USE DEF recordVars
<1>1. CASE Kernel \/ SubscriptionEnds
  BY <1>1 DEF Kernel, RouteAdd, RouteDel, Notify, SubscriptionEnds
<1>2. CASE \E w \in Workers : Worker(w)
  BY <1>2 DEF Worker, WorkerDone, Receive, ReceiveClosed, PingPod, CountRoute
<1>3. CASE (\E c \in Cudns : HandleAdd(c)) \/ Main
  BY <1>3 DEF HandleAdd, Main, Own, Subscribe, Spawn, StartInformer, CallStop, CountReached, WaitOver,
              Timeout, CloseExportDone, Import, WgWait, Normalize, NormalizeOver
<1>4. CASE UNCHANGED vars
  BY <1>4 DEF vars
<1> QED
  BY <1>1, <1>2, <1>3, <1>4 DEF Next, Others, Over

\* What RouteTimestampStable says of a step.
Stable == \A c \in Cudns : conn[c] # NoRecord =>
            conn'[c] # NoRecord /\ conn'[c].route = conn[c].route

LEMMA StableStep == IInv /\ [Next]_vars => [Stable]_vars
<1> SUFFICES ASSUME IInv, [Next]_vars PROVE Stable
  OBVIOUS
<1>1. CASE \E w \in Workers : LoadOrStore(w)
  <2>1. PICK w \in Workers : LoadOrStore(w)
    BY <1>1
  <2>2. conn' = IF conn[Key(w)] = NoRecord THEN [conn EXCEPT ![Key(w)] = Fresh(w)] ELSE conn
    BY <2>1 DEF LoadOrStore
  <2> QED
    BY <2>2 DEF IInv, TypeOK, Stable
<1>2. CASE \E w \in Workers : StoreRecord(w)
  <2>1. \A c \in Cudns : conn'[c].route = conn[c].route
    BY <1>2, StoreStep
  <2>2. \A c \in Cudns : conn[c] # NoRecord => conn[c].route # 0
    BY DEF IInv, Records
  <2> QED
    BY <2>1, <2>2 DEF NoRecord, Stable
<1>3. CASE ~ \E w \in Workers : LoadOrStore(w) \/ StoreRecord(w)
  BY <1>3, ConnUnchanged DEF Stable
<1> QED
  BY <1>1, <1>2, <1>3

LEMMA AlwaysStable == Unfair => RouteTimestampStable
BY StableStep, Always, PTL DEF Unfair, RouteTimestampStable, Stable

\* The route timestamp of a CUDN is written once: no interleaving of the workers'
\* load, ping and store steps changes it or loses the record.
THEOREM RouteTimestampIsStable == Spec => RouteTimestampStable
BY AlwaysStable, PTL DEF Spec, Unfair

-----------------------------------------------------------------------------
(* The count means verified, when a subnet is announced once *)

LEMMA InitCounts == Init => CountTells
<1> SUFFICES ASSUME Init PROVE CountTells
  OBVIOUS
<1>1. Verified = {} /\ \A s \in Subnets : Queued(s) = {} /\ Held(s) = {}
  BY DEF Init, Verified, Queued, Held
<1>2. Cardinality({}) = 0
  BY FS_EmptySet
<1> QED
  BY <1>1, <1>2 DEF Init, CountTells, InOnePlace

\* A step that moves no announcement and counts none.
LEMMA CountFrame ==
  ASSUME CountTells, UNCHANGED <<adds, routeCh, counted, verified>>,
         \A s \in Subnets : Held(s)' = Held(s),
         mainPc' = "grace" => mainPc = "grace" \/ verified >= Cardinality(Subnets)
  PROVE  CountTells'
<1>1. Verified' = Verified /\ \A s \in Subnets : Queued(s)' = Queued(s)
  BY DEF Verified, Queued
<1> QED
  BY <1>1 DEF CountTells, InOnePlace

LEMMA MainCounts ==
  ASSUME IInv, CountTells,
         SubscriptionEnds \/ (\E c \in Cudns : HandleAdd(c)) \/ Main \/ UNCHANGED vars
  PROVE  CountTells'
<1> USE DEF kernelVars, chanVars, workerVars, recordVars, reportVars, mainVars, history, MainGoto
<1>1. CASE \E w \in Workers : Spawn(w)
  <2> PICK w \in Workers : Spawn(w)
    BY <1>1
  <2>1. wpc \in [Workers -> WorkerStates] /\ wpc[w] = "none" /\ wpc' = [wpc EXCEPT ![w] = "start"]
    BY DEF Spawn, WorkerGoto, IInv, TypeOK, Owed
  <2>2. \A s \in Subnets : Held(s)' = Held(s)
    BY <2>1 DEF Spawn, Held
  <2> QED
    BY <2>2, CountFrame DEF Spawn
<1>2. CASE ~ \E w \in Workers : Spawn(w)
  <2>1. UNCHANGED <<adds, routeCh, counted, verified, wpc, update>>
        /\ (mainPc' = "grace" => mainPc = "grace" \/ verified >= Cardinality(Subnets))
    BY <1>2 DEF SubscriptionEnds, HandleAdd, Main, Own, Subscribe, StartInformer, CallStop, CountReached, WaitOver,
                Timeout, CloseExportDone, Import, WgWait, Normalize, NormalizeOver, vars
  <2>2. \A s \in Subnets : Held(s)' = Held(s)
    BY <2>1 DEF Held
  <2> QED
    BY <2>1, <2>2, CountFrame
<1> QED
  BY <1>1, <1>2

LEMMA KernelCounts ==
  ASSUME MaxAdds = 1, IInv, CountTells, NEW d \in Dsts, RouteAdd(d) \/ RouteDel(d)
  PROVE  CountTells'
<1> USE DEF RouteAdd, RouteDel, Notify, workerVars, recordVars, mainVars, history
<1> DEFINE e == [id |-> lastId + 1, new |-> d \notin fib, dst |-> d]
           last == Len(routeCh) + 1
<1>1. routeCh \in Seq(Event) /\ Len(routeCh) \in Nat /\ e \in Event
  BY LenProperties DEF IInv, TypeOK, Event
<1>2. routeCh' = Append(routeCh, e)
  OBVIOUS
<1>3. /\ Len(routeCh') = last /\ routeCh'[last] = e
      /\ \A i \in 1..Len(routeCh) : routeCh'[i] = routeCh[i]
  BY <1>1, <1>2, AppendProperties
<1>4. /\ UNCHANGED <<counted, verified, mainPc, wpc, update>>
      /\ adds \in [Dsts -> 0..MaxAdds]
      /\ adds' = IF d \notin fib THEN [adds EXCEPT ![d] = @ + 1] ELSE adds
      /\ d \notin fib => adds[d] < MaxAdds
  BY DEF IInv, TypeOK
<1>5. Verified' = Verified /\ \A s \in Subnets : Held(s)' = Held(s)
  BY <1>4 DEF Verified, Held
<1>6. ASSUME NEW s \in Subnets PROVE InOnePlace(s)'
  <2>0. InOnePlace(s) /\ s \in Dsts
    BY DEF CountTells, Dsts
  <2>1. CASE d \notin fib /\ d = s
    <3>1. adds[s] = 0 /\ adds'[s] # 0
      BY <1>4, <2>0, <2>1
    <3>2. Queued(s) = {} /\ Held(s) = {} /\ s \notin Verified
      BY <2>0, <3>1 DEF InOnePlace
    <3>3. Queued(s)' \subseteq {last}
      BY <1>1, <1>3, <3>2 DEF Queued
    <3> QED
      BY <1>5, <3>1, <3>2, <3>3 DEF InOnePlace
  <2>2. CASE d \in fib \/ d # s
    <3>1. Queued(s)' = Queued(s)
      BY <1>1, <1>3, <2>2 DEF Queued
    <3>2. adds'[s] = adds[s]
      BY <1>4, <2>0, <2>2
    <3> QED
      BY <1>5, <2>0, <3>1, <3>2 DEF InOnePlace
  <2> QED
    BY <2>1, <2>2
<1> QED
  BY <1>4, <1>5, <1>6 DEF CountTells

LEMMA ReceiveCounts ==
  ASSUME IInv, CountTells, NEW w \in Workers, Receive(w)
  PROVE  CountTells'
<1> USE DEF Receive, kernelVars, recordVars, mainVars, history
<1> DEFINE e == Head(routeCh)
<1>1. /\ routeCh \in Seq(Event) /\ routeCh # <<>> /\ routeCh' = Tail(routeCh)
      /\ wpc \in [Workers -> WorkerStates] /\ wpc[w] = "select"
      /\ update \in [Workers -> Event \cup {NoEvent}]
  BY DEF IInv, TypeOK
<1>2. /\ Len(routeCh) \in Nat /\ Len(routeCh) >= 1 /\ e = routeCh[1] /\ Len(routeCh') = Len(routeCh) - 1
      /\ \A i \in 1..Len(routeCh') : routeCh'[i] = routeCh[i + 1]
  BY <1>1, HeadTailProperties
<1>3. Verified' = Verified /\ UNCHANGED <<adds, verified, mainPc>>
  BY DEF Verified
<1>4. ASSUME NEW s \in Subnets PROVE InOnePlace(s)'
  <2>0. InOnePlace(s)
    BY DEF CountTells
  <2>1. \A i \in Queued(s)' : i \in Nat /\ i + 1 # 1 /\ i + 1 \in Queued(s)
    BY <1>2 DEF Queued
  <2>2. \A i, j \in Queued(s)' : i = j
    <3> SUFFICES ASSUME NEW i \in Queued(s)', NEW j \in Queued(s)' PROVE i = j
      OBVIOUS
    <3>1. i + 1 = j + 1 /\ i \in Nat /\ j \in Nat
      BY <2>0, <2>1 DEF InOnePlace
    <3> QED
      BY <3>1
  <2>3. CASE e.new /\ e.dst = s
    <3>1. 1 \in Queued(s)
      BY <1>2, <2>3 DEF Queued
    <3>2. Queued(s)' = {} /\ Held(s) = {} /\ s \notin Verified /\ adds[s] # 0
      BY <2>0, <2>1, <3>1 DEF InOnePlace
    <3>3. \A v \in Workers \ {w} : wpc'[v] = wpc[v] /\ update'[v] = update[v]
      BY <1>1 DEF WorkerGoto
    <3>4. Held(s)' \subseteq {w}
      BY <3>2, <3>3 DEF Held
    <3> QED
      BY <1>3, <3>2, <3>4 DEF InOnePlace
  <2>4. CASE ~(e.new /\ e.dst = s)
    <3>1. Held(s)' = Held(s)
      BY <1>1, <2>4 DEF Held, WorkerGoto, Concerns
    <3> QED
      BY <1>3, <2>0, <2>1, <2>2, <3>1 DEF InOnePlace
  <2> QED
    BY <2>3, <2>4
<1> QED
  BY <1>3, <1>4 DEF CountTells

LEMMA CountRouteCounts ==
  ASSUME IInv, CountTells, NEW w \in Workers, CountRoute(w)
  PROVE  CountTells'
<1> USE DEF CountRoute, kernelVars, chanVars, mainVars, history
<1> DEFINE d == update[w].dst
<1>1. /\ wpc \in [Workers -> WorkerStates] /\ wpc[w] = "ping" /\ wpc' = [wpc EXCEPT ![w] = "store"]
      /\ UNCHANGED <<adds, routeCh, update, mainPc>> /\ d \in Subnets
  BY DEF IInv, TypeOK, Handled, Handling, WorkerGoto
<1>2. Verified' = Verified \cup {d}
  BY DEF Verified
<1>3. w \in Held(d) /\ d \notin Verified
  BY <1>1 DEF Held, CountTells, InOnePlace
<1>4. \A s \in Subnets : Held(s)' = Held(s) \ {w} /\ Queued(s)' = Queued(s)
  BY <1>1 DEF Held, Queued
<1>5. IsFiniteSet(Verified) /\ Cardinality(Verified) \in Nat
  BY SubnetsAssumption, FS_Subset, FS_CardinalityType DEF CountTells
<1>6. verified' = Cardinality(Verified') /\ verified' >= verified
  <2>1. Cardinality(Verified \cup {d}) = Cardinality(Verified) + 1
    BY <1>3, <1>5, FS_AddElement
  <2>2. verified = Cardinality(Verified) /\ verified' = verified + 1
    BY DEF CountTells
  <2> QED
    BY <1>2, <1>5, <2>1, <2>2
<1>7. ASSUME NEW s \in Subnets PROVE InOnePlace(s)'
  <2>0. InOnePlace(s) /\ InOnePlace(d)
    BY <1>1 DEF CountTells
  <2>1. CASE s = d
    <3>1. Held(s)' = {} /\ Queued(s)' = {} /\ adds'[s] # 0
      BY <1>1, <1>3, <1>4, <2>0, <2>1 DEF InOnePlace
    <3> QED
      BY <3>1 DEF InOnePlace
  <2>2. CASE s # d
    <3>1. Held(s)' \subseteq Held(s) /\ Queued(s)' = Queued(s) /\ adds'[s] = adds[s]
          /\ (s \in Verified' <=> s \in Verified)
      BY <1>1, <1>2, <1>4, <2>2
    <3> QED
      BY <2>0, <3>1 DEF InOnePlace
  <2> QED
    BY <2>1, <2>2
<1>8. mainPc' = "grace" => verified' >= Cardinality(Subnets)
  <2>1. verified \in Nat /\ verified' \in Nat /\ Cardinality(Subnets) \in Nat
    BY SubnetsAssumption, FS_CardinalityType DEF IInv, TypeOK
  <2> QED
    BY <1>1, <1>6, <2>1 DEF CountTells
<1> QED
  BY <1>1, <1>2, <1>6, <1>7, <1>8 DEF CountTells

\* The other steps of a worker leave what it has taken and not counted.
LEMMA WorkerCounts ==
  ASSUME IInv, CountTells, NEW w \in Workers,
         WorkerDone(w) \/ ReceiveClosed(w) \/ LoadOrStore(w) \/ PingPod(w) \/ StoreRecord(w)
  PROVE  CountTells'
<1> USE DEF WorkerDone, ReceiveClosed, LoadOrStore, PingPod, StoreRecord, WorkerGoto, Forget,
            kernelVars, chanVars, recordVars, mainVars, history
<1>1. wpc \in [Workers -> WorkerStates] /\ update \in [Workers -> Event \cup {NoEvent}]
  BY DEF IInv, TypeOK
<1>2. /\ \A v \in Workers \ {w} : wpc'[v] = wpc[v] /\ update'[v] = update[v]
      /\ wpc[w] \in {"load", "ping"} <=> wpc'[w] \in {"load", "ping"}
      /\ wpc[w] \in {"load", "ping"} => update'[w] = update[w]
  BY <1>1
<1>3. \A s \in Subnets : Held(s)' = Held(s)
  BY <1>2 DEF Held
<1>4. UNCHANGED <<adds, routeCh, counted, verified, mainPc>>
  OBVIOUS
<1> QED
  BY <1>3, <1>4, CountFrame

LEMMA StepCounts == ASSUME MaxAdds = 1, IInv, CountTells, [Next]_vars PROVE CountTells'
<1>1. CASE Kernel
  BY <1>1, KernelCounts DEF Kernel
<1>2. CASE \E w \in Workers : Worker(w)
  BY <1>2, ReceiveCounts, CountRouteCounts, WorkerCounts DEF Worker
<1>3. CASE SubscriptionEnds \/ (\E c \in Cudns : HandleAdd(c)) \/ Main \/ UNCHANGED vars
  BY <1>3, MainCounts
<1> QED
  BY <1>1, <1>2, <1>3 DEF Next, Others, Over

LEMMA AlwaysVerified == ASSUME MaxAdds = 1 PROVE Unfair => []AllVerified
<1>1. IInv /\ CountTells /\ [Next]_vars => CountTells'
  BY StepCounts
<1>2. IInv /\ CountTells => AllVerified
  <2> SUFFICES ASSUME CountTells, mainPc = "grace" PROVE \A s \in Subnets : \E e \in counted : e.dst = s
    BY DEF AllVerified
  <2>1. /\ Verified \in SUBSET Subnets /\ Cardinality(Verified) >= Cardinality(Subnets)
        /\ Cardinality(Verified) <= Cardinality(Subnets)
        /\ Cardinality(Verified) \in Nat /\ Cardinality(Subnets) \in Nat
    BY SubnetsAssumption, FS_Subset, FS_CardinalityType DEF CountTells
  <2>2. Verified = Subnets
    BY <2>1, SubnetsAssumption, FS_Subset
  <2> QED
    BY <2>2 DEF Verified
<1> QED
  BY <1>1, <1>2, InitCounts, Always, PTL DEF Unfair

\* Where a subnet is announced once, a wait that ends on the count ends with the route of
\* every subnet verified.
THEOREM AllVerifiedHolds == ASSUME MaxAdds = 1 PROVE Spec => []AllVerified
BY AlwaysVerified, PTL DEF Spec, Unfair

-----------------------------------------------------------------------------
(* A ping is lost in a race only *)

\* What a step of the kernel, the main goroutine or the informer leaves alone.
LEMMA OthersLeave ==
  ASSUME IInv, Kernel \/ SubscriptionEnds \/ (\E c \in Cudns : HandleAdd(c)) \/ Main \/ UNCHANGED vars
  PROVE  /\ UNCHANGED <<update, snap, conn, answered, raced>>
         /\ \A v \in Workers : Holds(v)' <=> Holds(v)
<1> USE DEF kernelVars, chanVars, workerVars, recordVars, reportVars, mainVars, history, MainGoto
<1>1. CASE \E w \in Workers : Spawn(w)
  <2> PICK w \in Workers : Spawn(w)
    BY <1>1
  <2>1. wpc \in [Workers -> WorkerStates] /\ wpc[w] = "none" /\ wpc' = [wpc EXCEPT ![w] = "start"]
    BY DEF Spawn, WorkerGoto, IInv, TypeOK, Owed
  <2> QED
    BY <2>1 DEF Spawn, Holds
<1>2. CASE ~ \E w \in Workers : Spawn(w)
  <2>1. UNCHANGED <<wpc, update, snap, conn, answered, raced>>
    BY <1>2 DEF Kernel, RouteAdd, RouteDel, Notify, SubscriptionEnds, HandleAdd, Main, Own, Subscribe, StartInformer,
                CallStop, CountReached, WaitOver, Timeout, CloseExportDone, Import, WgWait, Normalize,
                NormalizeOver, vars
  <2> QED
    BY <2>1 DEF Holds
<1> QED
  BY <1>1, <1>2

\* A step that changes no record, no copy and no answer, and who holds what neither.
LEMMA PlacedFrame ==
  ASSUME PingsPlaced, UNCHANGED <<conn, answered, raced>>,
         \A v \in Workers : /\ Holds(v)' <=> Holds(v)
                            /\ Holds(v) => update'[v] = update[v] /\ snap'[v] = snap[v]
  PROVE  PingsPlaced'
<1>1. \A v \in Workers : Holds(v) => Key(v)' = Key(v)
  BY DEF Key
<1> SUFFICES ASSUME NEW a \in answered PROVE a.cudn \in Cudns /\ Placed(a)'
  BY DEF PingsPlaced
<1>2. a.cudn \in Cudns /\ Placed(a)
  BY DEF PingsPlaced
<1> QED
  BY <1>1, <1>2 DEF Placed, Settled, Listed

\* A worker that begins copies what is in the record, which it does not change if there is one.
LEMMA LoadPlaced ==
  ASSUME IInv, PingsPlaced, NEW w \in Workers, LoadOrStore(w)
  PROVE  PingsPlaced'
<1> USE DEF LoadOrStore, WorkerGoto, mainVars, history
<1> DEFINE at == Key(w)
<1>1. /\ wpc[w] = "load" /\ ~Holds(w) /\ at \in Cudns
      /\ UNCHANGED <<update, answered, raced>>
      /\ \A v \in Workers : Key(v)' = Key(v) /\ (Holds(v)' <=> Holds(v) \/ v = w)
  BY CudnOfAssumption DEF IInv, TypeOK, Handled, Handling, Key, Holds
<1>2. /\ conn[at] # NoRecord => conn' = conn
      /\ \A c \in Cudns : c # at => conn'[c] = conn[c]
      /\ snap'[w] = conn'[at] /\ \A v \in Workers : v # w => snap'[v] = snap[v]
  BY <1>1 DEF IInv, TypeOK
<1> SUFFICES ASSUME NEW a \in answered PROVE a.cudn \in Cudns /\ Placed(a)'
  BY <1>1 DEF PingsPlaced
<1>3. a.cudn \in Cudns /\ Placed(a)
  BY DEF PingsPlaced
<1> HIDE DEF at, LoadOrStore
<1>4. CASE a.ping[1] \in raced
  BY <1>1, <1>3, <1>4 DEF Placed
<1>5. ASSUME NEW v \in Workers, Holds(v), Key(v) = a.cudn, update[v].id = a.ping[1], Listed(a.ping, snap[v])
      PROVE  Placed(a)'
  <2>1. v # w /\ Holds(v)' /\ Key(v)' = a.cudn /\ update'[v].id = a.ping[1] /\ snap'[v] = snap[v]
    BY <1>1, <1>2, <1>5
  <2> QED
    BY <1>5, <2>1 DEF Placed, Settled, Listed
<1>6. CASE Settled(a)
  <2>1. conn[a.cudn] # NoRecord
    BY <1>6 DEF Settled, Listed, NoRecord
  <2>2. conn'[a.cudn] = conn[a.cudn]
    BY <1>2, <1>3, <2>1
  <2>3. ASSUME NEW v \in Workers, Holds(v)', Key(v)' = a.cudn PROVE Listed(a.ping, snap'[v])
    <3>1. CASE v = w
      BY <1>1, <1>2, <1>6, <2>2, <2>3, <3>1 DEF Settled, at
    <3>2. CASE v # w
      BY <1>1, <1>2, <1>6, <2>3, <3>2 DEF Settled
    <3> QED
      BY <3>1, <3>2
  <2>4. Settled(a)'
    BY <1>6, <2>2, <2>3 DEF Settled, Listed
  <2> QED
    BY <1>3, <2>4 DEF Placed
<1> QED
  BY <1>3, <1>4, <1>5, <1>6 DEF Placed

\* An answer is put into the copy; the others stay where they are.
LEMMA PingPlaced ==
  ASSUME IInv, PingsPlaced, NEW w \in Workers, PingPod(w)
  PROVE  PingsPlaced'
<1> USE DEF recordVars
<1> DEFINE p == <<update[w].id, pod[w]>>
<1>1. /\ wpc[w] = "ping" /\ Key(w) \in Cudns /\ snap[w] \in Record /\ p \in (Nat \ {0}) \X (Nat \ {0})
      /\ UNCHANGED <<conn, wpc, update, raced>>
  BY CudnOfAssumption DEF PingPod, IInv, TypeOK, Handled, Handling, Key, Event
<1>2. \A v \in Workers : Key(v)' = Key(v) /\ (Holds(v)' <=> Holds(v))
  BY <1>1 DEF Key, Holds
<1>3. CASE UNCHANGED <<snap, answered>>
  BY <1>1, <1>2, <1>3, PlacedFrame
<1>4. CASE snap' = [snap EXCEPT ![w].pings = Append(@, p)] /\ answered' = answered \cup {[cudn |-> Key(w), ping |-> p]}
  <2>1. /\ snap'[w].pings = Append(snap[w].pings, p)
        /\ \A v \in Workers : v # w => snap'[v] = snap[v]
    BY <1>1, <1>4 DEF IInv, TypeOK, Record
  <2>2. /\ Listed(p, snap'[w])
        /\ \A q : Listed(q, snap[w]) => Listed(q, snap'[w])
    <3> DEFINE pings == snap[w].pings
    <3>1. pings \in Seq((Nat \ {0}) \X (Nat \ {0})) /\ Len(pings) \in Nat
      BY <1>1, LenProperties DEF Record
    <3>2. /\ Append(pings, p) \in Seq((Nat \ {0}) \X (Nat \ {0}))
          /\ Len(Append(pings, p)) = Len(pings) + 1
          /\ \A i \in 1..Len(pings) : Append(pings, p)[i] = pings[i]
          /\ Append(pings, p)[Len(pings) + 1] = p
      BY <1>1, <3>1, AppendProperties
    <3>3. DOMAIN pings = 1..Len(pings) /\ DOMAIN Append(pings, p) = 1..(Len(pings) + 1)
      BY <3>1, <3>2, LenProperties
    <3> HIDE DEF pings, p
    <3>4. (Len(pings) + 1) \in DOMAIN Append(pings, p)
          /\ \A i \in DOMAIN pings : i \in DOMAIN Append(pings, p) /\ Append(pings, p)[i] = pings[i]
      BY ONLY <3>1, <3>2, <3>3
    <3> QED
      BY <2>1, <3>2, <3>4 DEF Listed, pings
  <2> SUFFICES ASSUME NEW a \in answered' PROVE a.cudn \in Cudns /\ Placed(a)'
    BY DEF PingsPlaced
  <2>3. CASE a = [cudn |-> Key(w), ping |-> p]
    <3>1. Holds(w)' /\ a.cudn = Key(w) /\ a.ping = p /\ p[1] = update[w].id
      BY <1>1, <1>2, <2>3 DEF Holds
    <3> HIDE DEF p
    <3> QED
      BY <1>1, <1>2, <2>2, <3>1 DEF Placed, Settled, Listed
  <2>4. CASE a \in answered
    <3>1. a.cudn \in Cudns /\ Placed(a)
      BY <2>4 DEF PingsPlaced
    <3>2. \A v \in Workers : Listed(a.ping, snap[v]) => Listed(a.ping, snap'[v])
      BY <2>1, <2>2
    <3> HIDE DEF p
    <3> QED
      BY <1>1, <1>2, <3>1, <3>2 DEF Placed, Settled, Listed
  <2> QED
    BY <1>4, <2>3, <2>4
<1> QED
  BY <1>3, <1>4 DEF PingPod

\* A Store replaces the record by a copy that lists what the record does, or loses what the
\* other workers of a race have stored since.
LEMMA StorePlaced ==
  ASSUME IInv, PingsPlaced, NEW w \in Workers, StoreRecord(w)
  PROVE  PingsPlaced'
<1> USE DEF StoreRecord, WorkerGoto, Forget, mainVars, history
<1> DEFINE at == Key(w)
<1>1. /\ wpc[w] = "store" /\ Holds(w) /\ at \in Cudns /\ ~Holds(w)'
      /\ answered' = answered
      /\ \A v \in Workers : v # w => /\ Key(v)' = Key(v) /\ (Holds(v)' <=> Holds(v))
                                     /\ update'[v] = update[v] /\ snap'[v] = snap[v]
  BY CudnOfAssumption DEF IInv, TypeOK, Handled, Handling, Key, Holds
<1>2. conn'[at] = snap[w] /\ \A c \in Cudns : c # at => conn'[c] = conn[c]
  BY <1>1 DEF IInv, TypeOK
<1>3. raced \subseteq raced' /\ (Contested(w) => update[w].id \in raced')
  OBVIOUS
<1> SUFFICES ASSUME NEW a \in answered PROVE a.cudn \in Cudns /\ Placed(a)'
  BY <1>1 DEF PingsPlaced
<1>4. a.cudn \in Cudns /\ Placed(a)
  BY DEF PingsPlaced
<1> HIDE DEF at, StoreRecord
<1>5. CASE a.ping[1] \in raced
  BY <1>3, <1>4, <1>5 DEF Placed
<1>6. ASSUME NEW v \in Workers, Holds(v), Key(v) = a.cudn, update[v].id = a.ping[1], Listed(a.ping, snap[v])
      PROVE  Placed(a)'
  <2>1. CASE v # w
    BY <1>1, <1>6, <2>1 DEF Placed, Settled, Listed
  <2>2. CASE v = w /\ Contested(w)
    BY <1>3, <1>6, <2>2 DEF Placed
  <2>3. CASE v = w /\ ~Contested(w)
    <3>1. \A u \in Workers : Holds(u)' => u # w /\ Key(u)' # a.cudn
      BY <1>1, <1>6, <2>3 DEF Contested
    <3>2. Listed(a.ping, conn'[a.cudn])
      BY <1>2, <1>6, <2>3 DEF at
    <3> QED
      BY <3>1, <3>2 DEF Placed, Settled, Listed
  <2> QED
    BY <2>1, <2>2, <2>3
<1>7. CASE Settled(a)
  <2>1. Listed(a.ping, conn'[a.cudn])
    BY <1>1, <1>2, <1>4, <1>7 DEF Settled, at
  <2>2. \A v \in Workers : Holds(v)' /\ Key(v)' = a.cudn => Listed(a.ping, snap'[v])
    BY <1>1, <1>7 DEF Settled
  <2>3. Settled(a)'
    BY <2>1, <2>2 DEF Settled, Listed
  <2> QED
    BY <1>4, <2>3 DEF Placed
<1> QED
  BY <1>4, <1>5, <1>6, <1>7 DEF Placed

LEMMA StepPlaced == ASSUME IInv, PingsPlaced, [Next]_vars PROVE PingsPlaced'
<1>1. CASE Kernel \/ SubscriptionEnds \/ (\E c \in Cudns : HandleAdd(c)) \/ Main \/ UNCHANGED vars
  <2>1. /\ UNCHANGED <<update, snap, conn, answered, raced>>
        /\ \A v \in Workers : Holds(v)' <=> Holds(v)
    BY <1>1, OthersLeave
  <2> QED
    BY <2>1, PlacedFrame
<1>2. CASE \E w \in Workers : WorkerDone(w) \/ Receive(w) \/ ReceiveClosed(w) \/ CountRoute(w)
  <2> PICK w \in Workers : WorkerDone(w) \/ Receive(w) \/ ReceiveClosed(w) \/ CountRoute(w)
    BY <1>2
  <2>1. wpc \in [Workers -> WorkerStates] /\ update \in [Workers -> Event \cup {NoEvent}]
    BY DEF IInv, TypeOK
  <2>2. /\ UNCHANGED <<conn, answered, raced, snap>>
        /\ \A v \in Workers : (Holds(v)' <=> Holds(v)) /\ (Holds(v) => update'[v] = update[v])
    BY <2>1 DEF WorkerDone, Receive, ReceiveClosed, CountRoute, WorkerGoto, Holds, recordVars, history
  <2> QED
    BY <2>2, PlacedFrame
<1>3. CASE \E w \in Workers : LoadOrStore(w) \/ PingPod(w) \/ StoreRecord(w)
  BY <1>3, LoadPlaced, PingPlaced, StorePlaced
<1> QED
  BY <1>1, <1>2, <1>3 DEF Next, Others, Worker, Over

LEMMA AlwaysKept == Unfair => []UnracedKept
<1>1. Init => PingsPlaced
  BY DEF Init, PingsPlaced
<1>2. IInv /\ PingsPlaced /\ [Next]_vars => PingsPlaced'
  BY StepPlaced
<1>3. PingsPlaced => UnracedKept
  BY DEF PingsPlaced, Placed, Settled, UnracedKept
<1> QED
  BY <1>1, <1>2, <1>3, Always, PTL DEF Unfair

\* For any announcements and any sharing of CUDNs, the Store of a worker keeps its pings in
\* the record for good, unless another worker held a copy of it at that moment.
THEOREM UnracedKeptHolds == Spec => []UnracedKept
BY AlwaysKept, PTL DEF Spec, Unfair

-----------------------------------------------------------------------------
(* The measurement as a whole *)

\* What the import half does is no step of the export half, or the one step it is there.
LEMMA WholeStep == [RaNext]_whole => [Next]_vars
<1> SUFFICES ASSUME [RaNext]_whole PROVE [Next]_vars
  OBVIOUS
<1>1. CASE RaMain
  <2>1. CASE Own
    BY <2>1 DEF Next, Main
  <2>2. CASE RunScenario \/ WaitAndDelete
    BY <2>2 DEF RunScenario, WaitAndDelete
  <2>3. CASE ScenarioOver \/ BeginNormalize
    BY <2>3 DEF ScenarioOver, BeginNormalize, Next, Main
  <2> QED
    BY <1>1, <2>1, <2>2, <2>3 DEF RaMain
<1>2. CASE Others \/ Over
  BY <1>2 DEF Next
<1>3. CASE (\E w \in ImportWorkers : ImportWorker(w)) \/ UNCHANGED whole
  BY <1>3 DEF ImportWorker, whole
<1> QED
  BY <1>1, <1>2, <1>3 DEF RaNext

\* The measurement as a whole is an export half as RaExport describes it, whose one step
\* Import stands for the import half; fairness aside.
THEOREM WholeIsExport == RaSpec => Init /\ [][Next]_vars
<1>1. RaInit => Init
  BY DEF RaInit
<1> QED
  BY <1>1, WholeStep, PTL DEF RaSpec

\* So it keeps the promises of the export half ...
THEOREM WholeRecords == RaSpec => [](IInv /\ NormalizedRoute) /\ RouteTimestampStable
<1>1. IInv => NormalizedRoute
  BY DEF IInv
<1> QED
  BY <1>1, WholeIsExport, Always, AlwaysStable, PTL DEF Unfair

\* ... and those it keeps where subnets are announced once ...
THEOREM WholeAllVerified == ASSUME MaxAdds = 1 PROVE RaSpec => []AllVerified
BY WholeIsExport, AlwaysVerified, PTL DEF Unfair

\* In the whole too a ping is lost in a race of export workers only, whatever is announced.
THEOREM WholeUnracedKept == RaSpec => []UnracedKept
BY WholeIsExport, AlwaysKept, PTL DEF Unfair

\* With the variables of the import half the whole does what RaImport describes.
THEOREM WholeRunsScenario == RaSpec => Scenario!Init /\ [][Scenario!Next]_(Scenario!vars)
<1>1. RaInit => Scenario!Init
  BY DEF RaInit
<1>2. ASSUME [RaNext]_whole PROVE [Scenario!Next]_(Scenario!vars)
  <2>1. UNCHANGED importVars => UNCHANGED Scenario!vars
    BY DEF importVars, Scenario!vars, Scenario!hostVars, Scenario!mainVars, Scenario!workerVars,
           Scenario!resultVars, Scenario!history
  <2>2. CASE RaMain
    BY <2>1, <2>2 DEF RaMain, RunScenario, ScenarioOver, WaitAndDelete, BeginNormalize, Scenario!Next
  <2>3. CASE \E w \in ImportWorkers : ImportWorker(w)
    BY <2>3 DEF ImportWorker, Scenario!Next
  <2>4. CASE UNCHANGED whole \/ UNCHANGED importVars
    BY <2>1, <2>4 DEF whole
  <2> QED
    BY <1>2, <2>2, <2>3, <2>4 DEF RaNext
<1> QED
  BY <1>1, <1>2, PTL DEF RaSpec

-----------------------------------------------------------------------------
(* The theorems about the import half, carried over to the whole.  An instance has its own
   copy of every definition: the two of each are the same by expanding both. *)

ScenarioProofs == INSTANCE RaImportProofs WITH
  Workers <- ImportWorkers, havePods <- Subnets # {}, mainPc <- importPc, wpc <- importWpc,
  verified <- importVerified, wg <- importWg

USE DEF Scenario!NRoutes, ScenarioProofs!NRoutes, Scenario!Routes, ScenarioProofs!Routes,
        Scenario!Ifaces, ScenarioProofs!Ifaces, Scenario!IfaceOf, ScenarioProofs!IfaceOf,
        Scenario!hostVars, ScenarioProofs!hostVars, Scenario!mainVars,
        ScenarioProofs!mainVars, Scenario!workerVars, ScenarioProofs!workerVars,
        Scenario!resultVars, ScenarioProofs!resultVars, Scenario!history,
        ScenarioProofs!history, Scenario!MainGoto, ScenarioProofs!MainGoto,
        Scenario!WorkerStep, ScenarioProofs!WorkerStep

LEMMA SameScenarioInit == Scenario!Init => ScenarioProofs!Init
BY DEF Scenario!Init, ScenarioProofs!Init

LEMMA SameWorker ==
  \A w \in ImportWorkers : Scenario!Worker(w) => ScenarioProofs!Worker(w)
<1> TAKE w \in ImportWorkers
<1>1. Scenario!TakeRoute(w) => ScenarioProofs!TakeRoute(w)
  BY DEF Scenario!TakeRoute, ScenarioProofs!TakeRoute
<1>2. Scenario!LeaveLoop(w) => ScenarioProofs!LeaveLoop(w)
  BY DEF Scenario!LeaveLoop, ScenarioProofs!LeaveLoop
<1>3. Scenario!AddAddress(w) => ScenarioProofs!AddAddress(w)
  BY DEF Scenario!AddAddress, ScenarioProofs!AddAddress
<1>4. Scenario!Record(w) => ScenarioProofs!Record(w)
  BY DEF Scenario!Record, ScenarioProofs!Record
<1>5. Scenario!Count(w) => ScenarioProofs!Count(w)
  BY DEF Scenario!Count, ScenarioProofs!Count
<1>6. Scenario!WorkerDone(w) => ScenarioProofs!WorkerDone(w)
  BY DEF Scenario!WorkerDone, ScenarioProofs!WorkerDone
<1> QED
  BY <1>1, <1>2, <1>3, <1>4, <1>5, <1>6 DEF Scenario!Worker, ScenarioProofs!Worker

LEMMA SameScenarioStep == [Scenario!Next]_(Scenario!vars) => [ScenarioProofs!Next]_(ScenarioProofs!vars)
<1>1. Scenario!Main => ScenarioProofs!Main
  <2>1. Scenario!BeginScenario => ScenarioProofs!BeginScenario
    BY DEF Scenario!BeginScenario, ScenarioProofs!BeginScenario
  <2>2. Scenario!CreateIface => ScenarioProofs!CreateIface
    BY DEF Scenario!CreateIface, ScenarioProofs!CreateIface
  <2>3. Scenario!CreateFails => ScenarioProofs!CreateFails
    BY DEF Scenario!CreateFails, ScenarioProofs!CreateFails
  <2>4. Scenario!FillChannel => ScenarioProofs!FillChannel
    BY DEF Scenario!FillChannel, ScenarioProofs!FillChannel
  <2>5. Scenario!AllSpawned => ScenarioProofs!AllSpawned
    BY DEF Scenario!AllSpawned, ScenarioProofs!AllSpawned
  <2>6. Scenario!CountReached => ScenarioProofs!CountReached
    BY DEF Scenario!CountReached, ScenarioProofs!CountReached
  <2>7. Scenario!WaitOver => ScenarioProofs!WaitOver
    BY DEF Scenario!WaitOver, ScenarioProofs!WaitOver
  <2>8. Scenario!CloseImportDone => ScenarioProofs!CloseImportDone
    BY DEF Scenario!CloseImportDone, ScenarioProofs!CloseImportDone
  <2>9. Scenario!WgWait => ScenarioProofs!WgWait
    BY DEF Scenario!WgWait, ScenarioProofs!WgWait
  <2>10. Scenario!DeleteIface => ScenarioProofs!DeleteIface
    BY DEF Scenario!DeleteIface, ScenarioProofs!DeleteIface
  <2>11. Scenario!StopMeasurement => ScenarioProofs!StopMeasurement
    BY DEF Scenario!StopMeasurement, ScenarioProofs!StopMeasurement
  <2>12. \A w \in ImportWorkers : Scenario!Spawn(w) => ScenarioProofs!Spawn(w)
    BY DEF Scenario!Spawn, ScenarioProofs!Spawn
  <2> QED
    BY <2>1, <2>2, <2>3, <2>4, <2>5, <2>6, <2>7, <2>8, <2>9, <2>10, <2>11, <2>12
       DEF Scenario!Main, ScenarioProofs!Main
<1>2. \A w \in ImportWorkers : Scenario!Worker(w) => ScenarioProofs!Worker(w)
  BY SameWorker
<1>3. UNCHANGED Scenario!vars => UNCHANGED ScenarioProofs!vars
  BY DEF Scenario!vars, ScenarioProofs!vars
<1>4. Scenario!Over => ScenarioProofs!Over
  BY <1>3 DEF Scenario!Over, ScenarioProofs!Over
<1> QED
  BY <1>1, <1>2, <1>3, <1>4 DEF Scenario!Next, ScenarioProofs!Next

LEMMA FewWorkers == ScenarioProofs!IsFiniteSet(ImportWorkers)
BY ImportWorkersAssumption DEF IsFiniteSet, ScenarioProofs!IsFiniteSet

LEMMA ScenarioInvariance == RaSpec => []ScenarioProofs!IInv
<1>1. Scenario!Init => ScenarioProofs!IInv
  BY SameScenarioInit, ScenarioProofs!InitInv, SizesAssumption, FewWorkers
<1>2. ScenarioProofs!IInv /\ [Scenario!Next]_(Scenario!vars) => ScenarioProofs!IInv'
  BY SameScenarioStep, ScenarioProofs!StepInv, SizesAssumption, FewWorkers
<1> QED
  BY <1>1, <1>2, WholeRunsScenario, PTL
LEMMA SamePromises ==
  /\ ScenarioProofs!IfaceInUse => Scenario!IfaceInUse
  /\ ScenarioProofs!AllRecorded => Scenario!AllRecorded
  /\ ScenarioProofs!CleanStop => Scenario!CleanStop
BY DEF Scenario!IfaceInUse, ScenarioProofs!IfaceInUse, Scenario!Working, ScenarioProofs!Working,
       Scenario!AllRecorded, ScenarioProofs!AllRecorded, Scenario!CleanStop, ScenarioProofs!CleanStop

\* The promises of the import half are kept by the whole, where the clean-up of its
\* interfaces waits for the workers of both halves.
THEOREM WholeScenario ==
  RaSpec => [](Scenario!IfaceInUse /\ Scenario!AllRecorded /\ Scenario!CleanStop)
<1>1. ScenarioProofs!IInv => Scenario!IfaceInUse
  BY SamePromises, ScenarioProofs!InUse, SizesAssumption, FewWorkers
<1>2. ScenarioProofs!IInv => Scenario!AllRecorded
  BY SamePromises, ScenarioProofs!Complete, SizesAssumption, FewWorkers
<1>3. ScenarioProofs!IInv => Scenario!CleanStop
  BY SamePromises, ScenarioProofs!Clean, SizesAssumption, FewWorkers
<1> QED
  BY <1>1, <1>2, <1>3, ScenarioInvariance, PTL

-----------------------------------------------------------------------------
(* What the halves owe each other *)

\* A step of Stop in the import half leads past its start.
LEMMA ScenarioBegun == Scenario!Main => importPc' # "start"
BY DEF Scenario!Main, Scenario!BeginScenario, Scenario!CreateIface, Scenario!CreateFails, Scenario!FillChannel,
       Scenario!Spawn, Scenario!AllSpawned, Scenario!CountReached, Scenario!WaitOver,
       Scenario!CloseImportDone, Scenario!WgWait, Scenario!DeleteIface, Scenario!StopMeasurement

LEMMA TurnsStep == Turns /\ [RaNext]_whole => Turns'
<1> SUFFICES ASSUME Turns, [RaNext]_whole PROVE Turns'
  OBVIOUS
<1>1. CASE UNCHANGED <<importPc, created, mainPc, exportDone>>
  BY <1>1 DEF Turns
<1>2. CASE Own /\ UNCHANGED importVars
  <2>1. UNCHANGED <<importPc, created>>
    BY <1>2 DEF importVars
  <2>2. \/ mainPc' = mainPc /\ exportDone' = exportDone
        \/ mainPc' \in {"spawn", "failed", "job", "wait", "grace", "close"} /\ exportDone' = exportDone
           /\ mainPc \in {"subscribe", "spawn", "job", "wait", "grace"}
        \/ mainPc = "close" /\ mainPc' = "import" /\ exportDone' = TRUE
        \/ mainPc = "normalize" /\ mainPc' = "done" /\ exportDone' = exportDone
    BY <1>2 DEF Own, MainGoto, Subscribe, Spawn, StartInformer, CallStop, CountReached, WaitOver,
                Timeout, CloseExportDone, Normalize, NormalizeOver, chanVars
  <2> QED
    BY ONLY Turns, <2>1, <2>2 DEF Turns
<1>3. CASE RunScenario \/ WaitAndDelete
  <2>1. importPc' # "start" /\ mainPc \in {"import", "wgWait"} /\ UNCHANGED <<mainPc, exportDone>>
    BY <1>3, ScenarioBegun DEF RunScenario, WaitAndDelete, vars, mainVars, chanVars
  <2> QED
    BY <2>1 DEF Turns
<1>4. CASE ScenarioOver \/ BeginNormalize
  <2>1. UNCHANGED <<importPc, created, exportDone>>
    BY <1>4 DEF ScenarioOver, BeginNormalize, Import, WgWait, chanVars, importVars
  <2>2. /\ importPc # "start"
        /\ mainPc' \in {"wgWait", "failed"} \/ (mainPc' = "normalize" /\ importPc = "stopped")
    BY <1>4 DEF ScenarioOver, BeginNormalize, Import, WgWait, MainGoto
  <2> QED
    BY <2>1, <2>2 DEF Turns
<1>5. CASE Others /\ UNCHANGED importVars
  <2>1. UNCHANGED <<mainPc, exportDone>>
    BY <1>5 DEF Others, Kernel, RouteAdd, RouteDel, Notify, SubscriptionEnds, HandleAdd, Worker, WorkerDone,
                Receive, ReceiveClosed, LoadOrStore, PingPod, CountRoute, StoreRecord, mainVars, chanVars
  <2> QED
    BY <1>1, <1>5, <2>1 DEF importVars
<1>6. CASE \E w \in ImportWorkers : ImportWorker(w)
  <2>1. UNCHANGED <<importPc, created>>
    BY <1>6 DEF ImportWorker, Scenario!Worker, Scenario!TakeRoute, Scenario!LeaveLoop, Scenario!AddAddress,
                Scenario!Record, Scenario!Count, Scenario!WorkerDone
  <2> QED
    BY <1>1, <1>6, <2>1 DEF ImportWorker, vars, mainVars, chanVars
<1>7. CASE UNCHANGED whole \/ (Over /\ UNCHANGED importVars)
  BY <1>1, <1>7 DEF whole, Over, vars, mainVars, chanVars, importVars
<1> QED
  BY <1>2, <1>3, <1>4, <1>5, <1>6, <1>7 DEF RaNext, RaMain

\* No interface is made and no import worker started before the export workers are told to
\* stop, and the import half is over when its results are normalised.
THEOREM HalvesTakeTurns == RaSpec => []Turns
<1>1. RaInit => Turns
  BY DEF RaInit, Init, Scenario!Init, Turns
<1> QED
  BY <1>1, TurnsStep, PTL DEF RaSpec

\* Once Stop normalises, no import worker adds or counts a result, whatever the export workers
\* are still doing.
THEOREM IndexedImportIsFinal == RaSpec => IndexedImportFinal
<1>1. ASSUME ScenarioProofs!IInv, Turns, [RaNext]_whole, mainPc \in {"normalize", "done"}
      PROVE  UNCHANGED ImportResults
  <2>1. importPc = "stopped"
    BY <1>1 DEF Turns
  <2>2. ~ \E w \in ImportWorkers : ImportWorker(w)
    <3>1. ~ \E w \in ImportWorkers : ScenarioProofs!Worker(w)
      BY <1>1, <2>1, ScenarioProofs!NoneWorks, SizesAssumption, FewWorkers
    <3> QED
      BY <3>1, SameWorker DEF ImportWorker
  <2>3. ~(RunScenario \/ WaitAndDelete)
    BY <1>1 DEF RunScenario, WaitAndDelete
  <2>4. UNCHANGED importVars
    BY <1>1, <2>2, <2>3 DEF RaNext, RaMain, ScenarioOver, BeginNormalize, whole
  <2> QED
    BY <2>4 DEF importVars, ImportResults
<1> QED
  BY <1>1, ScenarioInvariance, HalvesTakeTurns, PTL DEF RaSpec, IndexedImportFinal
=============================================================================
