--------------------------- MODULE PingAllProofs ----------------------------
(***************************************************************************)
(* For any number of pods, threads and attempts: pingAllCudns never runs   *)
(* more than importPingThreads goroutines, and what it returns is complete *)
(* and final.                                                              *)
(***************************************************************************)
EXTENDS PingAll, FiniteSetTheorems, SequenceTheorems, TLAPS

\* The positions are finite, and so is every set of them; adding or removing one
\* element moves the cardinality by one.
LEMMA PosFinite ==
  /\ IsFiniteSet(Pos)
  /\ Cardinality(Pos) = NPods
  /\ \A S \in SUBSET Pos : /\ IsFiniteSet(S)
                           /\ Cardinality(S) \in 0..NPods
                           /\ Cardinality(S) = 0 <=> S = {}
<1>1. IsFiniteSet(Pos) /\ Cardinality(Pos) = NPods
  BY FS_Interval, NPodsAssumption DEF Pos
<1>2. ASSUME NEW S \in SUBSET Pos
      PROVE  /\ IsFiniteSet(S)
             /\ Cardinality(S) \in 0..NPods
             /\ Cardinality(S) = 0 <=> S = {}
  <2>1. IsFiniteSet(S) /\ Cardinality(S) <= NPods
    BY <1>1, FS_Subset
  <2>2. Cardinality(S) \in Nat
    BY <2>1, FS_CardinalityType
  <2> QED BY <2>1, <2>2, FS_EmptySet, NPodsAssumption
<1> QED BY <1>1, <1>2

LEMMA OneMore ==
  ASSUME NEW S \in SUBSET Pos, NEW i \in Pos, i \notin S
  PROVE  Cardinality(S \cup {i}) = Cardinality(S) + 1
BY PosFinite, FS_AddElement

LEMMA OneLess ==
  ASSUME NEW S \in SUBSET Pos, NEW i \in S
  PROVE  Cardinality(S \ {i}) = Cardinality(S) - 1
BY PosFinite, FS_RemoveElement

LEMMA InitInv == Init => IInv
<1> SUFFICES ASSUME Init PROVE IInv
  OBVIOUS
<1>1. TypeOK
  BY NPodsAssumption, ThreadsAssumption, AttemptsAssumption DEF Init, TypeOK, Pos, GoStates, Entry, NoOne
<1>2. Working = {} /\ Owing = {} /\ Posted = {} /\ Listed = {}
  BY DEF Init, Working, Owing, Posted, Listed, Pos
<1>3. Cardinality({}) = 0
  BY FS_EmptySet
<1> QED
  BY <1>1, <1>2, <1>3, NPodsAssumption DEF Init, IInv, Loop, Mutex, List, Counters, Returned, Pos, NoOne

LEMMA StepAdd == IInv /\ Add => IInv'
<1> SUFFICES ASSUME IInv, Add PROVE IInv'
  OBVIOUS
<1> USE DEF Add, goVars
<1>1. next \in Pos /\ next \notin Owing
  BY NPodsAssumption DEF IInv, TypeOK, Loop, Owing, Pos
<1>2. Owing' = Owing \cup {next} /\ Working' = Working /\ Posted' = Posted /\ Listed' = Listed
  BY NPodsAssumption DEF IInv, TypeOK, Owing, Working, Posted, Listed, Pos
<1>3. Cardinality(Owing') = Cardinality(Owing) + 1
  BY <1>1, <1>2, OneMore DEF Owing
<1>4. Cardinality(Owing') \in 0..NPods
  BY PosFinite DEF Owing
<1>5. TypeOK'
  BY <1>3, <1>4 DEF IInv, TypeOK, Counters
<1> QED
  BY <1>2, <1>3, <1>5 DEF IInv, Loop, Mutex, List, Counters, Returned

LEMMA StepAcquire == IInv /\ Acquire => IInv'
<1> SUFFICES ASSUME IInv, Acquire PROVE IInv'
  OBVIOUS
<1> USE DEF Acquire
<1>1. next \in Pos /\ next \notin Working /\ goPc[next] = "none"
  BY NPodsAssumption DEF IInv, TypeOK, Loop, Working, Pos
<1>2. goPc' \in [Pos -> GoStates] /\ \A i \in Pos : goPc'[i] = IF i = next THEN "ping" ELSE goPc[i]
  BY <1>1 DEF IInv, TypeOK, GoStates
<1>3. /\ Working' = Working \cup {next}
      /\ Owing' = Owing
      /\ Posted' = Posted
      /\ Listed' = Listed
  <2>1. Working' = Working \cup {next} /\ Posted' = Posted /\ Listed' = Listed
    BY <1>1, <1>2 DEF Working, Posted, Listed
  <2>2. Owing' = Owing
    BY <1>1, <1>2, NPodsAssumption DEF IInv, TypeOK, Loop, Owing, Pos
  <2> QED
    BY <2>1, <2>2
<1>4. Cardinality(Working') = Cardinality(Working) + 1
  BY <1>1, <1>3, OneMore DEF Working
<1>5. TypeOK'
  BY <1>1, <1>2, NPodsAssumption, ThreadsAssumption DEF IInv, TypeOK, Pos
<1>6. Loop'
  BY <1>1, <1>2, NPodsAssumption DEF IInv, TypeOK, Loop, Pos
<1>7. Mutex' /\ Returned'
  BY <1>1, <1>2 DEF IInv, Mutex, Returned
<1> QED
  BY <1>3, <1>4, <1>5, <1>6, <1>7 DEF IInv, List, Counters

LEMMA StepLoopEnd == IInv /\ LoopEnd => IInv'
<1> SUFFICES ASSUME IInv, LoopEnd PROVE IInv'
  OBVIOUS
<1> USE DEF LoopEnd, goVars
<1>1. Owing' = Owing /\ Working' = Working /\ Posted' = Posted /\ Listed' = Listed
  BY DEF Owing, Working, Posted, Listed
<1>2. next = NPods + 1
  BY NPodsAssumption DEF IInv, TypeOK
<1> QED
  BY <1>1, <1>2 DEF IInv, TypeOK, Loop, Mutex, List, Counters, Returned

\* wg.Wait() returns: nobody owes a Done, so every goroutine has exited.
LEMMA StepReturn == IInv /\ Return => IInv'
<1> SUFFICES ASSUME IInv, Return PROVE IInv'
  OBVIOUS
<1> USE DEF Return, goVars
<1>1. Owing = {}
  BY PosFinite DEF IInv, Counters, Owing
<1>2. \A i \in Pos : goPc[i] = "exited"
  BY <1>1, NPodsAssumption DEF IInv, Loop, Owing, Pos
<1>3. Owing' = Owing /\ Working' = Working /\ Posted' = Posted /\ Listed' = Listed
  BY <1>1, <1>2, NPodsAssumption DEF IInv, Loop, Owing, Working, Posted, Listed, Pos
<1> QED
  BY <1>2, <1>3 DEF IInv, TypeOK, Loop, Mutex, List, Counters, Returned

\* The steps of a goroutine that only move its program counter, from one state
\* to another between which Working, Owing and Posted do not change.
LEMMA StepPing ==
  ASSUME NEW i \in Pos, IInv, PingOk(i) \/ PingFail(i) \/ GiveUp(i)
  PROVE  IInv'
<1>1. goPc[i] = "ping" /\ goPc' \in [Pos -> GoStates]
  BY DEF IInv, TypeOK, GoStates, PingOk, PingFail, GiveUp, Goto
<1>2. \A j \in Pos : goPc'[j] = goPc[j] \/ (goPc[j] = "ping" /\ goPc'[j] = "lock")
  BY DEF IInv, TypeOK, PingOk, PingFail, GiveUp, Goto
<1>3. UNCHANGED <<mainPc, next, view, sem, wg, mutex, importLatency>>
  BY DEF PingOk, PingFail, GiveUp
<1>4. tried' \in [Pos -> 0..Attempts] /\ pingSuccess' \in [Pos -> BOOLEAN]
  <2>1. tried[i] \in 0..Attempts
    BY DEF IInv, TypeOK
  <2>2. CASE PingFail(i)
    BY <2>1, <2>2, AttemptsAssumption DEF IInv, TypeOK, PingFail
  <2>3. CASE PingOk(i) \/ GiveUp(i)
    BY <2>3 DEF IInv, TypeOK, PingOk, GiveUp
  <2> QED
    BY <2>2, <2>3
<1>5. Owing' = Owing /\ Working' = Working /\ Posted' = Posted /\ Listed' = Listed
  BY <1>2, <1>3 DEF Owing, Working, Posted, Listed
<1>6. TypeOK'
  BY <1>1, <1>3, <1>4 DEF IInv, TypeOK
<1>7. Loop' /\ Mutex' /\ Returned'
  BY <1>1, <1>2, <1>3 DEF IInv, Loop, Mutex, Returned
<1> QED
  BY <1>3, <1>5, <1>6, <1>7 DEF IInv, List, Counters

LEMMA StepLock ==
  ASSUME NEW i \in Pos, IInv, Lock(i)
  PROVE  IInv'
<1> USE DEF Lock, Goto
<1>1. /\ goPc' \in [Pos -> GoStates]
      /\ \A j \in Pos : goPc'[j] = IF j = i THEN "append" ELSE goPc[j]
      /\ view' \in [Pos -> Seq(Entry)]
      /\ \A j \in Pos : view'[j] = IF j = i THEN importLatency ELSE view[j]
  BY DEF IInv, TypeOK, GoStates
<1>2. Owing' = Owing /\ Working' = Working /\ Posted' = Posted /\ Listed' = Listed
  BY <1>1 DEF Owing, Working, Posted, Listed
<1>3. TypeOK'
  BY <1>1 DEF IInv, TypeOK
<1>4. Loop' /\ Returned'
  BY <1>1 DEF IInv, Loop, Returned
<1>5. Mutex'
  BY <1>1 DEF IInv, TypeOK, Mutex, NoOne, Pos
<1> QED
  BY <1>2, <1>3, <1>4, <1>5 DEF IInv, List, Counters

LEMMA StepAppend ==
  ASSUME NEW i \in Pos, IInv, AppendLatency(i)
  PROVE  IInv'
<1> USE DEF AppendLatency, Goto
<1> DEFINE e == [pod |-> i, ok |-> pingSuccess[i]]
<1>1. /\ goPc' \in [Pos -> GoStates]
      /\ \A j \in Pos : goPc'[j] = IF j = i THEN "unlock" ELSE goPc[j]
  BY DEF IInv, TypeOK, GoStates
<1>2. /\ e \in Entry
      /\ importLatency \in Seq(Entry)
      /\ importLatency' = Append(importLatency, e)
  BY DEF IInv, TypeOK, Mutex, Entry
<1>3. /\ Len(importLatency') = Len(importLatency) + 1
      /\ importLatency' \in Seq(Entry)
      /\ \A k \in DOMAIN importLatency : importLatency'[k] = importLatency[k]
      /\ importLatency'[Len(importLatency) + 1] = e
      /\ DOMAIN importLatency' = DOMAIN importLatency \cup {Len(importLatency) + 1}
  <2> HIDE DEF e
  <2>1. Len(importLatency) \in Nat /\ DOMAIN importLatency = 1..Len(importLatency)
    BY <1>2, LenProperties
  <2>2. /\ importLatency' \in Seq(Entry)
        /\ Len(importLatency') = Len(importLatency) + 1
        /\ \A k \in 1..Len(importLatency) : importLatency'[k] = importLatency[k]
        /\ importLatency'[Len(importLatency) + 1] = e
    <3> DEFINE L == Append(importLatency, e)
    <3>1. /\ L \in Seq(Entry)
          /\ Len(L) = Len(importLatency) + 1
          /\ \A k \in 1..Len(importLatency) : L[k] = importLatency[k]
          /\ L[Len(importLatency) + 1] = e
      BY <1>2, AppendProperties
    <3>2. importLatency' = L
      BY <1>2
    <3> QED
      BY <3>1, <3>2
  <2>3. DOMAIN importLatency' = 1..Len(importLatency')
    BY <2>2, LenProperties
  <2> QED
    BY <2>1, <2>2, <2>3
<1>4. Listed' = Listed \cup {i}
  BY <1>3 DEF Listed
<1>5. Owing' = Owing /\ Working' = Working /\ Posted' = Posted \cup {i} /\ i \notin Posted
  BY <1>1 DEF Owing, Working, Posted
<1>6. Cardinality(Posted') = Cardinality(Posted) + 1
  BY <1>5, OneMore DEF Posted
<1>7. TypeOK'
  BY <1>1, <1>3 DEF IInv, TypeOK
<1>8. Loop' /\ Returned'
  BY <1>1 DEF IInv, Loop, Returned
<1>9. Mutex'
  BY <1>1 DEF IInv, TypeOK, Mutex
<1>10. List'
  BY <1>3, <1>4, <1>5, <1>6 DEF IInv, List
<1> QED
  BY <1>5, <1>7, <1>8, <1>9, <1>10 DEF IInv, Counters

LEMMA StepUnlock ==
  ASSUME NEW i \in Pos, IInv, Unlock(i)
  PROVE  IInv'
<1> USE DEF Unlock, Goto
<1>1. /\ goPc' \in [Pos -> GoStates]
      /\ \A j \in Pos : goPc'[j] = IF j = i THEN "release" ELSE goPc[j]
  BY DEF IInv, TypeOK, GoStates
<1>2. Owing' = Owing /\ Working' = Working /\ Posted' = Posted /\ Listed' = Listed
  BY <1>1 DEF Owing, Working, Posted, Listed
<1>3. TypeOK'
  BY <1>1 DEF IInv, TypeOK
<1>4. Loop' /\ Returned'
  BY <1>1 DEF IInv, Loop, Returned
<1>5. Mutex'
  BY <1>1 DEF IInv, TypeOK, Mutex, NoOne, Pos
<1> QED
  BY <1>2, <1>3, <1>4, <1>5 DEF IInv, List, Counters

LEMMA StepRelease ==
  ASSUME NEW i \in Pos, IInv, Release(i)
  PROVE  IInv'
<1> USE DEF Release, Goto
<1>1. /\ goPc' \in [Pos -> GoStates]
      /\ \A j \in Pos : goPc'[j] = IF j = i THEN "done" ELSE goPc[j]
  BY DEF IInv, TypeOK, GoStates
<1>2. /\ Owing' = Owing /\ Posted' = Posted /\ Listed' = Listed
      /\ Working' = Working \ {i} /\ i \in Working
  BY <1>1 DEF Owing, Working, Posted, Listed
<1>3. Cardinality(Working') = Cardinality(Working) - 1
  BY <1>2, OneLess DEF Working
<1>4. Cardinality(Working') \in Nat
  BY PosFinite DEF Working
<1>5. TypeOK'
  BY <1>1, <1>3, <1>4, ThreadsAssumption DEF IInv, TypeOK, Counters
<1>6. Loop' /\ Returned' /\ Mutex'
  BY <1>1 DEF IInv, Loop, Returned, Mutex
<1> QED
  BY <1>2, <1>3, <1>5, <1>6 DEF IInv, List, Counters

LEMMA StepDone ==
  ASSUME NEW i \in Pos, IInv, Done(i)
  PROVE  IInv'
<1> USE DEF Done, Goto
<1>1. /\ goPc' \in [Pos -> GoStates]
      /\ \A j \in Pos : goPc'[j] = IF j = i THEN "exited" ELSE goPc[j]
  BY DEF IInv, TypeOK, GoStates
<1>2. /\ Working' = Working /\ Posted' = Posted /\ Listed' = Listed
      /\ Owing' = Owing \ {i} /\ i \in Owing
  <2>1. Working' = Working /\ Posted' = Posted
    BY <1>1 DEF Working, Posted
  <2>2. Listed' = Listed
    BY DEF Listed
  <2>3. goPc[i] = "done" /\ next \in Nat /\ Pos \subseteq Nat
    BY NPodsAssumption DEF IInv, TypeOK, Pos
  <2>4. i < next
    BY <2>3 DEF IInv, Loop
  <2>5. Owing' = Owing \ {i} /\ i \in Owing
    BY <1>1, <2>3, <2>4 DEF Owing
  <2> QED
    BY <2>1, <2>2, <2>5
<1>3. Cardinality(Owing') = Cardinality(Owing) - 1
  BY <1>2, OneLess DEF Owing
<1>4. Cardinality(Owing') \in 0..NPods
  BY PosFinite DEF Owing
<1>5. TypeOK'
  BY <1>1, <1>3, <1>4 DEF IInv, TypeOK, Counters
<1>6. Loop' /\ Returned' /\ Mutex'
  BY <1>1 DEF IInv, Loop, Returned, Mutex
<1> QED
  BY <1>2, <1>3, <1>5, <1>6 DEF IInv, List, Counters

LEMMA StepInv == IInv /\ [Next]_vars => IInv'
<1> SUFFICES ASSUME IInv, [Next]_vars PROVE IInv'
  OBVIOUS
<1>1. CASE Main
  BY <1>1, StepAdd, StepAcquire, StepLoopEnd, StepReturn DEF Main
<1>2. CASE \E i \in Pos : Goroutine(i)
  BY <1>2, StepPing, StepLock, StepAppend, StepUnlock, StepRelease, StepDone DEF Goroutine
<1>3. CASE UNCHANGED vars
  <2> USE <1>3 DEF vars, goVars
  <2>1. Owing' = Owing /\ Working' = Working /\ Posted' = Posted /\ Listed' = Listed
    BY DEF Owing, Working, Posted, Listed
  <2>2. TypeOK' /\ Loop' /\ Mutex' /\ Returned'
    BY DEF IInv, TypeOK, Loop, Mutex, Returned
  <2> QED
    BY <2>1, <2>2 DEF IInv, List, Counters
<1> QED
  BY <1>1, <1>2, <1>3 DEF Next, Finished

\* The inductive invariant holds in every reachable state, whatever the number of
\* pods, threads and attempts.
THEOREM Invariance == Spec => []IInv
BY InitInv, StepInv, PTL DEF Spec

\* Every variable keeps its type; in particular the WaitGroup counter never goes
\* negative (a panic in Go) and the semaphore never holds more than Threads slots.
THEOREM TypeCorrect == Spec => []TypeOK
<1>1. IInv => TypeOK
  BY DEF IInv
<1> QED
  BY <1>1, Invariance, PTL

\* No more than importPingThreads goroutines are ever at work.
THEOREM ThreadLimitHolds == Spec => []ThreadLimit
<1>1. IInv => ThreadLimit
  BY ThreadsAssumption DEF IInv, Counters, TypeOK, ThreadLimit
<1> QED
  BY <1>1, Invariance, PTL

\* When pingAllCudns returns, each pod has exactly one entry and every goroutine
\* it started is gone.
THEOREM ReportCompleteHolds == Spec => []ReportComplete
<1>1. IInv => ReportComplete
  <2> SUFFICES ASSUME IInv, mainPc = "returned" PROVE ReportComplete
    BY DEF ReportComplete
  <2>1. \A i \in Pos : goPc[i] = "exited"
    BY DEF IInv, Returned
  <2>2. Posted = Pos /\ Working = {}
    BY <2>1 DEF Posted, Working
  <2> QED
    BY <2>1, <2>2, PosFinite, FS_EmptySet DEF IInv, List, Counters, ReportComplete
<1> QED
  BY <1>1, Invariance, PTL

\* Safety half of the refinement: the call starts as the contract does and each
\* of its steps is one of the contract's, or leaves the contract's state alone.
THEOREM ContractSafety == Spec => Contract!Init /\ [][Contract!Next]_(Contract!vars)
<1>1. Init => Contract!Init
  BY DEF Init, Contract!Init
<1>2. IInv /\ [Next]_vars => [Contract!Next]_(Contract!vars)
  <2> SUFFICES ASSUME IInv, [Next]_vars PROVE [Contract!Next]_(Contract!vars)
    OBVIOUS
  <2> USE DEF Contract!vars
  <2>1. Listed = Contract!Reported
    BY DEF Listed, Contract!Reported
  <2>2. CASE Add \/ Acquire \/ LoopEnd
    BY <2>2 DEF Add, Acquire, LoopEnd
  <2>3. CASE Return
    <3>1. \A i \in Pos : goPc[i] = "exited"
      <4>1. Owing = {}
        BY <2>3, PosFinite DEF Return, IInv, Counters, Owing
      <4> QED
        BY <2>3, <4>1, NPodsAssumption DEF Return, IInv, Loop, Owing, Pos
    <3>2. Listed = Pos
      BY <3>1 DEF IInv, List, Posted
    <3> QED
      BY <2>1, <2>3, <3>2 DEF Return, Contract!Next, Contract!Return
  <2>4. ASSUME NEW i \in Pos, AppendLatency(i)
        PROVE  Contract!Next
    <3>1. i \notin Listed /\ mainPc # "returned"
      BY <2>4 DEF AppendLatency, IInv, List, Posted, Returned
    <3>2. /\ importLatency' = Append(importLatency, [pod |-> i, ok |-> pingSuccess[i]])
          /\ pingSuccess[i] \in BOOLEAN
          /\ mainPc' = mainPc
      BY <2>4 DEF AppendLatency, IInv, TypeOK, Mutex
    <3>3. Contract!Report(i, pingSuccess[i])
      BY <2>1, <3>1, <3>2 DEF Contract!Report
    <3> QED
      BY <3>2, <3>3 DEF Contract!Next
  <2>5. ASSUME NEW i \in Pos,
               PingOk(i) \/ PingFail(i) \/ GiveUp(i) \/ Lock(i) \/ Unlock(i) \/ Release(i) \/ Done(i)
        PROVE  UNCHANGED Contract!vars
    BY <2>5 DEF PingOk, PingFail, GiveUp, Lock, Unlock, Release, Done
  <2>6. CASE UNCHANGED vars
    BY <2>6 DEF vars
  <2> QED
    BY <2>2, <2>3, <2>4, <2>5, <2>6 DEF Next, Main, Goroutine, Finished
<1> QED
  BY <1>1, <1>2, Invariance, PTL DEF Spec
=============================================================================
