--------------------------- MODULE RaImportProofs ---------------------------
(***************************************************************************)
(* For any number of interfaces, addresses and workers: the clean-up never *)
(* deletes an interface a worker uses, a wait that ends on the count has   *)
(* every route recorded, and no result is added once they are indexed.     *)
(***************************************************************************)
EXTENDS RaImport, FiniteSetTheorems, TLAPS

LEMMA Sizes == NRoutes \in Nat /\ \A k \in Routes : IfaceOf(k) \in Ifaces
<1>1. \A a \in Nat, b \in Nat : a * b \in Nat
  OBVIOUS
<1>2. \A a \in Nat, b \in Nat \ {0} : a % b \in 0..(b - 1)
  OBVIOUS
<1>3. NRoutes \in Nat
  BY <1>1, SizesAssumption DEF NRoutes
<1>4. ASSUME NEW k \in Routes PROVE IfaceOf(k) \in Ifaces
  BY <1>2, <1>3, SizesAssumption DEF Routes, IfaceOf, Ifaces
<1> QED
  BY <1>3, <1>4

\* Sets of workers and of routes are finite; one element more or less moves their
\* number by one.
LEMMA FiniteStep ==
  ASSUME NEW U, IsFiniteSet(U), NEW S \in SUBSET U
  PROVE  /\ IsFiniteSet(S)
         /\ Cardinality(S) \in 0..Cardinality(U)
         /\ Cardinality(S) = 0 <=> S = {}
         /\ Cardinality(S) = Cardinality(U) => S = U
         /\ \A x \in U : x \notin S => Cardinality(S \cup {x}) = Cardinality(S) + 1
         /\ \A x \in S : Cardinality(S \ {x}) = Cardinality(S) - 1
<1>1. IsFiniteSet(S) /\ Cardinality(S) <= Cardinality(U) /\ (Cardinality(S) = Cardinality(U) => S = U)
  BY FS_Subset
<1>2. Cardinality(S) \in Nat /\ Cardinality(U) \in Nat
  BY <1>1, FS_CardinalityType
<1> QED
  BY <1>1, <1>2, FS_AddElement, FS_RemoveElement, FS_EmptySet

\* The same of workers.
LEMMA WorkerSets ==
  ASSUME NEW S \in SUBSET Workers
  PROVE  /\ Cardinality(S) \in Nat /\ Cardinality(S) \in 0..Cardinality(Workers)
         /\ Cardinality(S) = 0 <=> S = {}
         /\ \A w \in Workers \ S : Cardinality(S \cup {w}) = Cardinality(S) + 1
         /\ \A w \in S : Cardinality(S \ {w}) = Cardinality(S) - 1
  BY FiniteStep, WorkersAssumption

LEMMA RoutesFinite == IsFiniteSet(Routes) /\ Cardinality(Routes) = NRoutes
BY Sizes, FS_Interval DEF Routes

LEMMA InitInv == Init => IInv
<1> SUFFICES ASSUME Init PROVE IInv
  OBVIOUS
<1>1. Active = {} /\ Recorders = {} /\ Holders = {}
  BY DEF Init, Active, Recorders, Holders
<1>2. Cardinality({}) = 0 /\ Cardinality(Workers) \in Nat
  BY FS_EmptySet, FS_CardinalityType, WorkersAssumption
<1>3. TypeOK
  <2>1. 1 \in 1..(NRoutes + 1) /\ 0 \in 0..NIfaces /\ 0 \in 0..Cardinality(Workers) /\ StaleCount \in Nat
    BY <1>2, Sizes, SizesAssumption
  <2>2. wpc \in [Workers -> WorkerStates] /\ item \in [Workers -> Routes \cup {0}]
    BY DEF Init, WorkerStates
  <2> QED
    BY <2>1, <2>2 DEF Init, TypeOK, MainStates
<1> QED
  BY <1>1, <1>2, <1>3 DEF Init, IInv, Phases, Taken, Counts

-----------------------------------------------------------------------------
(* The steps of Stop *)

\* Steps of Stop that leave the workers and their results alone keep what the
\* invariant says of them.
LEMMA MainFrame ==
  ASSUME IInv, UNCHANGED <<chan, workerVars, resultVars, wg>>
  PROVE  /\ Taken'
         /\ Active' = Active
         /\ wg' = Cardinality(Active')
         /\ verified' + Cardinality(Recorders') = Cardinality(recorded')
         /\ wpc' = wpc
<1>1. Active' = Active /\ Holders' = Holders /\ Recorders' = Recorders
  BY DEF workerVars, Active, Holders, Recorders
<1> QED
  BY <1>1 DEF workerVars, resultVars, IInv, Taken, Counts

LEMMA IfaceStep ==
  ASSUME IInv, CreateIface \/ CreateFails \/ DeleteIface
  PROVE  IInv'
<1> USE DEF MainGoto, mainVars, hostVars
<1>1. UNCHANGED <<chan, workerVars, resultVars, wg>>
  BY DEF CreateIface, CreateFails, DeleteIface
<1>2. TypeOK'
  <2>1. next \in 0..NIfaces /\ (mainPc \in {"create", "delete"} /\ next < NIfaces => next \in Ifaces)
    BY SizesAssumption DEF IInv, TypeOK, Ifaces
  <2>2. CASE CreateIface
    BY <2>1, <2>2, SizesAssumption DEF CreateIface, IInv, TypeOK, workerVars, resultVars
  <2>3. CASE CreateFails
    BY <2>1, <2>3 DEF CreateFails, IInv, TypeOK, MainStates, workerVars, resultVars
  <2>4. CASE DeleteIface
    BY <2>1, <2>4, SizesAssumption DEF DeleteIface, IInv, TypeOK, workerVars, resultVars
  <2> QED
    BY <2>2, <2>3, <2>4
<1>3. Phases'
  <2>1. CASE CreateIface
    BY <1>1, <2>1, MainFrame, SizesAssumption DEF CreateIface, IInv, TypeOK, Phases, Ifaces
  <2>2. CASE CreateFails
    BY <1>1, <2>2, MainFrame DEF CreateFails, IInv, Phases
  <2>3. CASE DeleteIface
    <3>1. mainPc = "delete" /\ mainPc' = "delete" /\ next' = next + 1 /\ next \in Int
      BY <2>3 DEF DeleteIface, IInv, TypeOK
    <3>2. \A i \in created' \cap ifaces' : i \in undeleted' \/ i >= next'
      BY <2>3, <3>1 DEF DeleteIface, IInv, TypeOK, Phases, Ifaces
    <3> QED
      BY <1>1, <2>3, <3>1, <3>2, MainFrame DEF DeleteIface, IInv, Phases
  <2> QED
    BY <2>1, <2>2, <2>3
<1>4. Counts'
  BY <1>1, MainFrame DEF Counts, CreateIface, CreateFails, DeleteIface
<1> QED
  BY <1>1, <1>2, <1>3, <1>4, MainFrame DEF IInv

LEMMA ControlStep ==
  ASSUME IInv,
         \/ BeginScenario \/ FillChannel \/ AllSpawned \/ CountReached
         \/ WaitOver \/ CloseImportDone \/ WgWait \/ StopMeasurement
  PROVE  IInv'
<1> USE DEF MainGoto, hostVars, history
<1>1. UNCHANGED <<hostVars, chan, workerVars, resultVars, wg, history>>
  BY DEF BeginScenario, FillChannel, AllSpawned, CountReached, WaitOver, CloseImportDone, WgWait, StopMeasurement
<1>2. TypeOK'
  <2>1. next' \in 0..NIfaces /\ desired' \in Nat /\ importDone' \in BOOLEAN
    <3>1. 0 \in 0..NIfaces /\ NRoutes \in Nat
      BY Sizes, SizesAssumption
    <3>2. next' \in {0, next} /\ desired' \in {desired, NRoutes} /\ importDone' \in {importDone, TRUE}
      BY DEF BeginScenario, FillChannel, AllSpawned, CountReached, WaitOver, CloseImportDone, WgWait,
             StopMeasurement
    <3> QED
      BY <3>1, <3>2 DEF IInv, TypeOK
  <2>2. mainPc' \in MainStates
    BY DEF MainStates, BeginScenario, FillChannel, AllSpawned, CountReached, WaitOver, CloseImportDone,
           WgWait, StopMeasurement
  <2> QED
    BY <1>1, <2>1, <2>2 DEF IInv, TypeOK, workerVars, resultVars
<1>3. Phases'
  <2> USE <1>1, MainFrame DEF IInv, Phases
  <2>1. CASE BeginScenario
    BY <2>1, SizesAssumption DEF BeginScenario, Active, TypeOK, Ifaces
  <2>2. CASE FillChannel
    BY <2>2, SizesAssumption DEF FillChannel, TypeOK, Ifaces, Active
  <2>3. CASE AllSpawned \/ CountReached \/ WaitOver \/ CloseImportDone
    BY <2>3 DEF AllSpawned, CountReached, WaitOver, CloseImportDone
  <2>4. CASE WgWait
    <3>1. Active = {}
      BY <2>4, WorkerSets DEF WgWait, Counts, Active
    <3>2. \A i \in created \cap ifaces : i >= 0
      BY SizesAssumption DEF TypeOK, Ifaces
    <3> QED
      BY <2>4, <3>1, <3>2 DEF WgWait
  <2>5. CASE StopMeasurement
    BY <2>5 DEF StopMeasurement
  <2> QED
    BY <2>1, <2>2, <2>3, <2>4, <2>5
<1>4. Counts'
  BY <1>1, MainFrame DEF Counts, BeginScenario, FillChannel, AllSpawned, CountReached, WaitOver,
     CloseImportDone, WgWait, StopMeasurement, resultVars
<1> QED
  BY <1>1, <1>2, <1>3, <1>4, MainFrame DEF IInv

LEMMA SpawnStep ==
  ASSUME IInv, NEW w \in Workers, Spawn(w)
  PROVE  IInv'
<1> USE DEF Spawn, hostVars, mainVars, resultVars, history
<1>1. /\ wpc' \in [Workers -> WorkerStates]
      /\ wpc[w] = "none"
      /\ \A v \in Workers : wpc'[v] = IF v = w THEN "select" ELSE wpc[v]
  BY DEF IInv, TypeOK, WorkerStates
<1>2. w \notin Active /\ Active' = Active \cup {w} /\ Holders' = Holders /\ Recorders' = Recorders
  BY <1>1 DEF Active, Holders, Recorders
<1>3. wg' = Cardinality(Active') /\ wg' \in 0..Cardinality(Workers)
  <2>1. Cardinality(Active') = Cardinality(Active) + 1 /\ Cardinality(Active') \in 0..Cardinality(Workers)
    BY <1>2, WorkerSets DEF Active
  <2> QED
    BY <2>1 DEF IInv, Counts
<1>4. TypeOK'
  BY <1>1, <1>3 DEF IInv, TypeOK
<1>5. Phases'
  BY <1>1, <1>2 DEF IInv, Phases
<1>6. Taken' /\ Counts'
  BY <1>1, <1>2, <1>3 DEF IInv, Taken, Counts, Holders
<1> QED
  BY <1>4, <1>5, <1>6 DEF IInv

-----------------------------------------------------------------------------
(* The steps of a worker *)

\* A worker that steps is active, so Stop has created the interfaces and has not
\* come past its wg.Wait.
LEMMA ActivePhase ==
  ASSUME IInv, NEW w \in Active
  PROVE  /\ mainPc \in {"spawn", "wait", "grace", "close", "wgWait"}
         /\ havePods /\ Ifaces \subseteq ifaces
BY DEF IInv, Phases, Active

\* Steps of an active worker that stays active.
LEMMA StayActive ==
  ASSUME IInv, NEW w \in Active, NEW to \in WorkerStates \ {"none", "exited"},
         wpc' = [wpc EXCEPT ![w] = to],
         UNCHANGED <<havePods, ifaces, mainVars, wg, history>>
  PROVE  Phases' /\ Active' = Active
<1>1. /\ w \in Workers /\ wpc[w] \notin {"none", "exited"}
      /\ \A v \in Workers : wpc'[v] = IF v = w THEN to ELSE wpc[v]
  BY DEF IInv, TypeOK, Active
<1>2. Active' = Active
  BY <1>1 DEF Active
<1> QED
  BY <1>1, <1>2, ActivePhase DEF IInv, Phases, mainVars, history

LEMMA TakeStep ==
  ASSUME IInv, NEW w \in Workers, TakeRoute(w)
  PROVE  IInv'
<1> USE DEF TakeRoute, WorkerStep, hostVars, resultVars
<1>1. /\ wpc' \in [Workers -> WorkerStates]
      /\ wpc[w] = "select"
      /\ \A v \in Workers : wpc'[v] = IF v = w THEN "add" ELSE wpc[v]
      /\ chan \in Routes /\ chan \in Nat /\ chan' = chan + 1 /\ chan' \in 1..(NRoutes + 1)
      /\ item' \in [Workers -> Routes \cup {0}]
      /\ \A v \in Workers : item'[v] = IF v = w THEN chan ELSE item[v]
  BY Sizes DEF IInv, TypeOK, WorkerStates, Routes
<1>2. Phases' /\ Active' = Active
  BY <1>1, StayActive DEF Active, WorkerStates
<1>3. TypeOK'
  BY <1>1 DEF IInv, TypeOK, mainVars, history
<1>4. Holders' = Holders \cup {w} /\ w \notin Holders /\ Recorders' = Recorders
  BY <1>1 DEF Holders, Recorders
<1>5. Taken'
  <2>1. \A v \in Holders : item[v] \in 1..(chan - 1) /\ item'[v] = item[v] /\ wpc'[v] = wpc[v] /\ v \in Workers
    BY <1>1, <1>4 DEF IInv, Taken, Holders
  <2>2. item'[w] = chan /\ wpc'[w] = "add" /\ chan \notin recorded
    BY <1>1 DEF IInv, Taken
  <2>3. \A v \in Holders' : item'[v] \in 1..(chan' - 1)
    <3>1. \A v \in Holders : item'[v] \in 1..(chan - 1)
      BY <2>1
    <3>2. \A n \in 1..(chan - 1) : n \in 1..(chan' - 1)
      BY <1>1
    <3>3. chan \in 1..(chan' - 1)
      BY <1>1 DEF Routes
    <3> QED
      BY <1>4, <2>2, <3>1, <3>2, <3>3
  <2>4. \A u, v \in Holders' : item'[u] = item'[v] => u = v
    BY <1>1, <1>4, <2>1, <2>2 DEF IInv, Taken
  <2>5. recorded' \subseteq 1..(chan' - 1)
    BY <1>1 DEF IInv, Taken
  <2>6. \A v \in Holders' : item'[v] \in recorded' <=> wpc'[v] = "count"
    BY <1>4, <2>1, <2>2 DEF IInv, Taken
  <2> QED
    BY <2>3, <2>4, <2>5, <2>6 DEF Taken
<1>6. Counts'
  BY <1>2, <1>4 DEF IInv, Counts, mainVars
<1> QED
  BY <1>2, <1>3, <1>5, <1>6 DEF IInv

LEMMA LeaveStep ==
  ASSUME IInv, NEW w \in Workers, LeaveLoop(w)
  PROVE  IInv'
<1> USE DEF LeaveLoop, WorkerStep, hostVars, resultVars
<1>1. /\ wpc' \in [Workers -> WorkerStates]
      /\ wpc[w] = "select"
      /\ \A v \in Workers : wpc'[v] = IF v = w THEN "return" ELSE wpc[v]
  BY DEF IInv, TypeOK, WorkerStates
<1>2. Phases' /\ Active' = Active
  BY <1>1, StayActive DEF Active, WorkerStates
<1>3. TypeOK'
  BY <1>1 DEF IInv, TypeOK, mainVars, history
<1>4. Holders' = Holders /\ Recorders' = Recorders
  BY <1>1 DEF Holders, Recorders
<1> QED
  BY <1>1, <1>2, <1>3, <1>4 DEF IInv, Taken, Counts, mainVars, Holders

LEMMA AddStep ==
  ASSUME IInv, NEW w \in Workers, AddAddress(w)
  PROVE  IInv'
<1> USE DEF AddAddress, WorkerStep, hostVars, resultVars
<1>1. /\ wpc' \in [Workers -> WorkerStates]
      /\ wpc[w] = "add" /\ w \in Holders
      /\ \A v \in Workers : wpc'[v] = IF v = w THEN "ping" ELSE wpc[v]
  BY DEF IInv, TypeOK, WorkerStates, Holders
<1>2. Phases' /\ Active' = Active
  BY <1>1, StayActive DEF Active, WorkerStates
<1>3. addrs' \subseteq Routes
  <2>1. item[w] \in Routes
    BY <1>1 DEF IInv, TypeOK, Taken
  <2> QED
    BY <2>1 DEF IInv, TypeOK
<1>4. TypeOK'
  BY <1>1, <1>3 DEF IInv, TypeOK, mainVars, history
<1>5. Holders' = Holders /\ Recorders' = Recorders
  BY <1>1 DEF Holders, Recorders
<1> QED
  BY <1>1, <1>2, <1>4, <1>5 DEF IInv, Taken, Counts, mainVars, Holders

LEMMA RecordStep ==
  ASSUME IInv, NEW w \in Workers, Record(w)
  PROVE  IInv'
<1> USE DEF Record, WorkerStep, hostVars
<1>1. /\ wpc' \in [Workers -> WorkerStates]
      /\ wpc[w] = "ping" /\ w \in Holders /\ w \notin Recorders
      /\ \A v \in Workers : wpc'[v] = IF v = w THEN "count" ELSE wpc[v]
  BY DEF IInv, TypeOK, WorkerStates, Holders, Recorders
<1>2. Phases' /\ Active' = Active
  BY <1>1, StayActive DEF Active, WorkerStates
<1>3. /\ item[w] \in Routes /\ item[w] \in 1..(chan - 1) /\ item[w] \notin recorded
      /\ recorded' = recorded \cup {item[w]}
  BY <1>1, Sizes DEF IInv, TypeOK, Taken, Routes
<1>4. TypeOK'
  BY <1>1, <1>3 DEF IInv, TypeOK, mainVars, history
<1>5. Holders' = Holders /\ Recorders' = Recorders \cup {w}
  BY <1>1 DEF Holders, Recorders
<1>6. Taken'
  BY <1>1, <1>3, <1>5 DEF IInv, Taken, Holders
<1>7. Counts'
  <2>1. Cardinality(Recorders') = Cardinality(Recorders) + 1 /\ Cardinality(Recorders) \in Nat
    <3>1. Recorders \in SUBSET Workers
      BY DEF Recorders
    <3>2. Cardinality(Recorders) \in Nat
      BY <3>1, WorkerSets
    <3>3. Cardinality(Recorders \cup {w}) = Cardinality(Recorders) + 1
      BY <1>1, <3>1, WorkerSets
    <3> QED
      BY <1>5, <3>2, <3>3
  <2>2. Cardinality(recorded') = Cardinality(recorded) + 1 /\ Cardinality(recorded) \in Nat
    BY <1>3, FiniteStep, RoutesFinite DEF IInv, TypeOK
  <2> QED
    BY <1>2, <2>1, <2>2 DEF IInv, TypeOK, Counts, mainVars
<1> QED
  BY <1>2, <1>4, <1>6, <1>7 DEF IInv

LEMMA CountStep ==
  ASSUME IInv, NEW w \in Workers, Count(w)
  PROVE  IInv'
<1> USE DEF Count, WorkerStep, hostVars
<1>1. /\ wpc' \in [Workers -> WorkerStates]
      /\ wpc[w] = "count" /\ w \in Holders /\ w \in Recorders
      /\ \A v \in Workers : wpc'[v] = IF v = w THEN "select" ELSE wpc[v]
      /\ item' \in [Workers -> Routes \cup {0}]
      /\ \A v \in Workers : item'[v] = IF v = w THEN 0 ELSE item[v]
  BY DEF IInv, TypeOK, WorkerStates, Holders, Recorders
<1>2. Phases' /\ Active' = Active
  BY <1>1, StayActive DEF Active, WorkerStates
<1>3. TypeOK'
  BY <1>1 DEF IInv, TypeOK, mainVars, history
<1>4. Holders' = Holders \ {w} /\ Recorders' = Recorders \ {w}
  BY <1>1 DEF Holders, Recorders
<1>5. Taken'
  BY <1>1, <1>4 DEF IInv, Taken, Holders
<1>6. Counts'
  <2>1. Cardinality(Recorders') = Cardinality(Recorders) - 1 /\ Cardinality(Recorders) \in Nat
    BY <1>1, <1>4, WorkerSets DEF Recorders
  <2>2. Cardinality(recorded) \in Nat
    BY FiniteStep, RoutesFinite DEF IInv, TypeOK
  <2> QED
    BY <1>2, <2>1, <2>2 DEF IInv, TypeOK, Counts, mainVars
<1> QED
  BY <1>2, <1>3, <1>5, <1>6 DEF IInv

LEMMA DoneStep ==
  ASSUME IInv, NEW w \in Workers, WorkerDone(w)
  PROVE  IInv'
<1> USE DEF WorkerDone, WorkerStep, hostVars, resultVars, mainVars, history
<1>1. /\ wpc' \in [Workers -> WorkerStates]
      /\ wpc[w] = "return" /\ w \in Active
      /\ \A v \in Workers : wpc'[v] = IF v = w THEN "exited" ELSE wpc[v]
  BY DEF IInv, TypeOK, WorkerStates, Active
<1>2. Active' = Active \ {w} /\ Holders' = Holders /\ Recorders' = Recorders
  BY <1>1 DEF Active, Holders, Recorders
<1>3. wg' = Cardinality(Active') /\ wg' \in 0..Cardinality(Workers)
  <2>1. Cardinality(Active') = Cardinality(Active) - 1 /\ Cardinality(Active') \in 0..Cardinality(Workers)
    <3>1. Active \in SUBSET Workers /\ Active \ {w} \in SUBSET Workers
      BY DEF Active
    <3> QED
      BY ONLY <1>1, <1>2, <3>1, WorkerSets
  <2>2. wg' = wg - 1 /\ wg = Cardinality(Active)
    BY DEF IInv, Counts
  <2> QED
    BY ONLY <2>1, <2>2
<1>4. TypeOK'
  BY <1>1, <1>3 DEF IInv, TypeOK
<1>5. Phases'
  BY <1>1, <1>2, ActivePhase DEF IInv, Phases
<1> QED
  BY <1>1, <1>2, <1>3, <1>4, <1>5 DEF IInv, Taken, Counts, Holders

LEMMA StutterStep == IInv /\ UNCHANGED vars => IInv'
<1> SUFFICES ASSUME IInv, UNCHANGED vars PROVE IInv'
  OBVIOUS
<1> USE DEF vars, hostVars, mainVars, workerVars, resultVars, history
<1>1. TypeOK'
  BY DEF IInv, TypeOK
<1>2. Active' = Active /\ Holders' = Holders /\ Recorders' = Recorders
  BY DEF Active, Holders, Recorders
<1>3. Phases'
  BY <1>2 DEF IInv, Phases
<1> QED
  BY <1>1, <1>2, <1>3 DEF IInv, Taken, Counts

LEMMA StepInv == IInv /\ [Next]_vars => IInv'
<1> SUFFICES ASSUME IInv, [Next]_vars PROVE IInv'
  OBVIOUS
<1>1. CASE Main
  BY <1>1, IfaceStep, ControlStep, SpawnStep DEF Main
<1>2. CASE \E w \in Workers : Worker(w)
  BY <1>2, TakeStep, LeaveStep, AddStep, RecordStep, CountStep, DoneStep DEF Worker
<1>3. CASE UNCHANGED vars
  BY <1>3, StutterStep
<1> QED
  BY <1>1, <1>2, <1>3 DEF Next, Over

\* The inductive invariant holds in every reachable state.
THEOREM Invariance == Spec => []IInv
BY InitInv, StepInv, PTL DEF Spec

LEMMA InUse == IInv => IfaceInUse
<1> SUFFICES ASSUME IInv, NEW w \in Workers, Working(w) PROVE IfaceOf(item[w]) \in ifaces
  BY DEF IfaceInUse
<1>1. w \in Active /\ w \in Holders
  BY DEF Working, Active, Holders
<1>2. item[w] \in Routes
  BY <1>1 DEF IInv, TypeOK, Taken
<1> QED
  BY <1>1, <1>2, ActivePhase, Sizes

\* No interface is deleted while a worker adds its address or pings from it.
THEOREM IfaceInUseHolds == Spec => []IfaceInUse
BY InUse, Invariance, PTL

LEMMA Complete == IInv => AllRecorded
<1> SUFFICES ASSUME IInv, mainPc = "grace", havePods PROVE recorded = Routes
  BY DEF AllRecorded
<1>1. verified >= NRoutes
  BY DEF IInv, Phases, Counts
<1>2. Cardinality(Recorders) \in Nat
  BY WorkerSets DEF Recorders
<1>3. /\ Cardinality(recorded) \in 0..NRoutes
      /\ Cardinality(recorded) = NRoutes => recorded = Routes
  BY FiniteStep, RoutesFinite DEF IInv, TypeOK
<1> QED
  BY <1>1, <1>2, <1>3, Sizes DEF IInv, TypeOK, Counts

\* A wait that ended on the count found every route in Metrics.
THEOREM AllRecordedHolds == Spec => []AllRecorded
BY Complete, Invariance, PTL

LEMMA Clean == IInv => CleanStop
<1> SUFFICES ASSUME IInv, mainPc = "stopped", NEW i \in created \cap ifaces PROVE i \in undeleted
  BY DEF CleanStop
<1>1. i < NIfaces /\ next = NIfaces /\ i \in Int /\ NIfaces \in Int
  BY SizesAssumption DEF IInv, TypeOK, Phases, Ifaces
<1> QED
  BY <1>1 DEF IInv, Phases

\* A Stop that got through leaves no interface of its own behind, except those the
\* kernel refused to delete.
THEOREM CleanStopHolds == Spec => []CleanStop
BY Clean, Invariance, PTL

\* No worker steps before Stop starts the workers or after its wg.Wait.
LEMMA NoneWorks ==
  ASSUME IInv, mainPc \notin {"spawn", "wait", "grace", "close", "wgWait"}
  PROVE  ~ \E w \in Workers : Worker(w)
<1>1. Active = {}
  BY DEF IInv, Phases
<1> QED
  BY <1>1 DEF Active, Worker, TakeRoute, LeaveLoop, AddAddress, Record, Count, WorkerDone, WorkerStep

\* From the deletion of the interfaces on, no result is added or counted.
THEOREM ResultsAreFinal == Spec => ResultsFinal
<1>1. IInv /\ [Next]_vars => [(mainPc \in {"delete", "stopped"}) => UNCHANGED resultVars]_vars
  <2> SUFFICES ASSUME IInv, [Next]_vars, mainPc \in {"delete", "stopped"} PROVE UNCHANGED resultVars
    OBVIOUS
  <2>1. ~ \E w \in Workers : Worker(w)
    BY NoneWorks
  <2>2. CASE Main
    BY <2>2 DEF Main, BeginScenario, CreateIface, CreateFails, FillChannel, Spawn, AllSpawned, CountReached,
                WaitOver, CloseImportDone, WgWait, DeleteIface, StopMeasurement
  <2>3. CASE UNCHANGED vars
    BY <2>3 DEF vars
  <2> QED
    BY <2>1, <2>2, <2>3 DEF Next, Over
<1> QED
  BY <1>1, Invariance, PTL DEF Spec, ResultsFinal
=============================================================================
