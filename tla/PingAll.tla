------------------------------ MODULE PingAll -------------------------------
(***************************************************************************)
(* pingAllCudns: one goroutine per pod, at most importPingThreads of them  *)
(* at work, a mutex around the shared latency list and a WaitGroup that    *)
(* the caller waits on before it returns the list.                         *)
(*                                                                         *)
(* The slice destCudnPods is the positions 1..NPods.  A latency is only    *)
(* told apart from the -1 of a pod that never answered (ok = FALSE).  An   *)
(* append is two steps, reading the slice header and writing it back, so   *)
(* that the mutex matters.                                                 *)
(***************************************************************************)
EXTENDS Integers, Sequences, FiniteSets

CONSTANTS NPods,      \* len(destCudnPods)
          Threads,    \* importPingThreads
          Attempts    \* pingAttempts

ASSUME NPodsAssumption == NPods \in Nat
ASSUME ThreadsAssumption == Threads \in Nat \ {0}
ASSUME AttemptsAssumption == Attempts \in Nat \ {0}

Pos == 1..NPods
NoOne == 0            \* the mutex is free

VARIABLES
  mainPc,         \* "add" | "acquire" | "wait" | "returned"
  next,           \* position the loop over destCudnPods is at
  goPc,           \* where the goroutine of each position stands
  tried,          \* pings it has attempted
  pingSuccess,    \* its local flag
  view,           \* the slice header it read under the mutex
  sem,            \* slots taken in the semaphore channel
  wg,             \* WaitGroup counter
  mutex,          \* holder of the mutex
  importLatency   \* the shared list

goVars == <<goPc, tried, pingSuccess, view>>
vars == <<mainPc, next, goPc, tried, pingSuccess, view, sem, wg, mutex, importLatency>>

GoStates == {"none", "ping", "lock", "append", "unlock", "release", "done", "exited"}
Entry == [pod : Pos, ok : BOOLEAN]

Init ==
  /\ mainPc = "add"
  /\ next = 1
  /\ goPc = [i \in Pos |-> "none"]
  /\ tried = [i \in Pos |-> 0]
  /\ pingSuccess = [i \in Pos |-> FALSE]
  /\ view = [i \in Pos |-> <<>>]
  /\ sem = 0
  /\ wg = 0
  /\ mutex = NoOne
  /\ importLatency = <<>>

-----------------------------------------------------------------------------
(* The calling goroutine *)

\* Mutant: the wg.Add(1) of the loop is forgotten.
AddForgotten ==
  /\ mainPc = "add" /\ next <= NPods
  /\ mainPc' = "acquire"
  /\ UNCHANGED <<wg, next, goVars, sem, mutex, importLatency>>

Add ==
  /\ mainPc = "add" /\ next <= NPods
  /\ wg' = wg + 1
  /\ mainPc' = "acquire"
  /\ UNCHANGED <<next, goVars, sem, mutex, importLatency>>

\* Mutant: goroutines are started without taking a slot first.
AcquireUnbounded ==
  /\ mainPc = "acquire"
  /\ sem' = sem
  /\ goPc' = [goPc EXCEPT ![next] = "ping"]
  /\ next' = next + 1
  /\ mainPc' = "add"
  /\ UNCHANGED <<tried, pingSuccess, view, wg, mutex, importLatency>>

\* Blocks while the semaphore channel is full, then starts the goroutine.
Acquire ==
  /\ mainPc = "acquire"
  /\ sem < Threads
  /\ sem' = sem + 1
  /\ goPc' = [goPc EXCEPT ![next] = "ping"]
  /\ next' = next + 1
  /\ mainPc' = "add"
  /\ UNCHANGED <<tried, pingSuccess, view, wg, mutex, importLatency>>

LoopEnd ==
  /\ mainPc = "add" /\ next > NPods
  /\ mainPc' = "wait"
  /\ UNCHANGED <<next, goVars, sem, wg, mutex, importLatency>>

\* Mutant: the wg.Wait() before the return is forgotten.
ReturnUnwaited ==
  /\ mainPc = "wait"
  /\ mainPc' = "returned"
  /\ UNCHANGED <<next, goVars, sem, wg, mutex, importLatency>>

Return ==
  /\ mainPc = "wait" /\ wg = 0
  /\ mainPc' = "returned"
  /\ UNCHANGED <<next, goVars, sem, wg, mutex, importLatency>>

-----------------------------------------------------------------------------
(* The goroutine of position i *)

Goto(i, pc) == goPc' = [goPc EXCEPT ![i] = pc]

\* pingAddress answered: leave the attempt loop with a latency.
PingOk(i) ==
  /\ goPc[i] = "ping" /\ tried[i] < Attempts
  /\ pingSuccess' = [pingSuccess EXCEPT ![i] = TRUE]
  /\ Goto(i, "lock")
  /\ UNCHANGED <<mainPc, next, tried, view, sem, wg, mutex, importLatency>>

\* pingAddress failed: sleep and try again.
PingFail(i) ==
  /\ goPc[i] = "ping" /\ tried[i] < Attempts
  /\ tried' = [tried EXCEPT ![i] = @ + 1]
  /\ UNCHANGED <<mainPc, next, goPc, pingSuccess, view, sem, wg, mutex, importLatency>>

\* All attempts are used up: -1 is to be listed.
GiveUp(i) ==
  /\ goPc[i] = "ping" /\ tried[i] = Attempts
  /\ Goto(i, "lock")
  /\ UNCHANGED <<mainPc, next, tried, pingSuccess, view, sem, wg, mutex, importLatency>>

\* Mutant: the append is not protected by the mutex.
LockIgnored(i) ==
  /\ goPc[i] = "lock"
  /\ mutex' = i
  /\ view' = [view EXCEPT ![i] = importLatency]
  /\ Goto(i, "append")
  /\ UNCHANGED <<mainPc, next, tried, pingSuccess, sem, wg, importLatency>>

Lock(i) ==
  /\ goPc[i] = "lock"
  /\ mutex = NoOne
  /\ mutex' = i
  /\ view' = [view EXCEPT ![i] = importLatency]
  /\ Goto(i, "append")
  /\ UNCHANGED <<mainPc, next, tried, pingSuccess, sem, wg, importLatency>>

AppendLatency(i) ==
  /\ goPc[i] = "append"
  /\ importLatency' = Append(view[i], [pod |-> i, ok |-> pingSuccess[i]])
  /\ Goto(i, "unlock")
  /\ UNCHANGED <<mainPc, next, tried, pingSuccess, view, sem, wg, mutex>>

Unlock(i) ==
  /\ goPc[i] = "unlock"
  /\ mutex' = NoOne
  /\ Goto(i, "release")
  /\ UNCHANGED <<mainPc, next, tried, pingSuccess, view, sem, wg, importLatency>>

\* Deferred calls run last in, first out: the slot is given back first ...
Release(i) ==
  /\ goPc[i] = "release"
  /\ sem' = sem - 1
  /\ Goto(i, "done")
  /\ UNCHANGED <<mainPc, next, tried, pingSuccess, view, wg, mutex, importLatency>>

\* ... and then wg.Done().
Done(i) ==
  /\ goPc[i] = "done"
  /\ wg' = wg - 1
  /\ Goto(i, "exited")
  /\ UNCHANGED <<mainPc, next, tried, pingSuccess, view, sem, mutex, importLatency>>

-----------------------------------------------------------------------------
Main == Add \/ Acquire \/ LoopEnd \/ Return

Goroutine(i) ==
  \/ PingOk(i) \/ PingFail(i) \/ GiveUp(i)
  \/ Lock(i) \/ AppendLatency(i) \/ Unlock(i)
  \/ Release(i) \/ Done(i)

\* The call is over: nothing is left to run.
Finished == mainPc = "returned" /\ (\A i \in Pos : goPc[i] = "exited") /\ UNCHANGED vars

Next == Main \/ (\E i \in Pos : Goroutine(i)) \/ Finished

\* The Go scheduler runs every runnable goroutine, and pingAddress returns after
\* importPingerTimeoutMsec at the latest.
Fairness == WF_vars(Main) /\ \A i \in Pos : WF_vars(Goroutine(i))

Spec == Init /\ [][Next]_vars /\ Fairness

-----------------------------------------------------------------------------
(* Properties *)

TypeOK ==
  /\ mainPc \in {"add", "acquire", "wait", "returned"}
  /\ next \in 1..(NPods + 1)
  /\ goPc \in [Pos -> GoStates]
  /\ tried \in [Pos -> 0..Attempts]
  /\ pingSuccess \in [Pos -> BOOLEAN]
  /\ view \in [Pos -> Seq(Entry)]
  /\ sem \in 0..Threads
  /\ wg \in 0..NPods
  /\ mutex \in Pos \cup {NoOne}
  /\ importLatency \in Seq(Entry)

\* A goroutine that may be pinging or appending.
Working == {i \in Pos : goPc[i] \in {"ping", "lock", "append", "unlock", "release"}}

\* "we are using a semaphore importPingThreads to limit concurrent go threads":
\* never more than Threads goroutines are between their start and their release.
ThreadLimit == Cardinality(Working) <= Threads

Listed == {importLatency[k].pod : k \in DOMAIN importLatency}

\* Once the call has returned, every pod has exactly one entry in the list and
\* no goroutine is left that could still append to it or hold a slot.
ReportComplete ==
  mainPc = "returned" =>
    /\ Listed = Pos
    /\ Len(importLatency) = NPods
    /\ \A i \in Pos : goPc[i] = "exited"
    /\ sem = 0

\* The detailed call implements the contract its caller relies on: one entry per
\* pod, appended one at a time, none after the return, and it does return.
Contract == INSTANCE PingContract
              WITH Pods <- Pos, report <- importLatency, returned <- (mainPc = "returned")
ContractHolds == Contract!Spec

-----------------------------------------------------------------------------
(* The inductive invariant behind these properties, in parts *)

\* Goroutines whose entry is in the list.
Posted == {i \in Pos : goPc[i] \in {"unlock", "release", "done", "exited"}}

\* Positions for which wg.Add(1) was called and wg.Done() was not.
Owing == {i \in Pos : \/ i < next /\ goPc[i] # "exited"
                      \/ i = next /\ mainPc = "acquire"}

Loop ==
  /\ \A i \in Pos : goPc[i] = "none" <=> i >= next
  /\ mainPc = "acquire" => next <= NPods
  /\ mainPc \in {"wait", "returned"} => next = NPods + 1

Mutex ==
  /\ \A i \in Pos : goPc[i] \in {"append", "unlock"} <=> mutex = i
  /\ \A i \in Pos : goPc[i] = "append" => view[i] = importLatency

List ==
  /\ Listed = Posted
  /\ Len(importLatency) = Cardinality(Posted)

Counters ==
  /\ sem = Cardinality(Working)
  /\ wg = Cardinality(Owing)

Returned == mainPc = "returned" => \A i \in Pos : goPc[i] = "exited"

IInv == TypeOK /\ Loop /\ Mutex /\ List /\ Counters /\ Returned
=============================================================================
