------------------------------ MODULE RaImport ------------------------------
(***************************************************************************)
(* The import half of raLatency.Stop: dummy interfaces are created, the    *)
(* routes to announce are put into routeImportChan, import workers take    *)
(* them, add the address, ping the CUDN pods from it and record the        *)
(* result; main waits for the count or the timeout, closes importDoneCh,   *)
(* waits for the workers and deletes the interfaces.                       *)
(*                                                                         *)
(* Route k is the address (k-1) \div NIfaces + 1 of interface              *)
(* (k-1) % NIfaces, in the order the two loops write them.  The channel is *)
(* written and closed before a worker exists, so it is the index of the    *)
(* route taken next.  pingAllCudns is one step: PingAll shows it returns.  *)
(***************************************************************************)
EXTENDS Integers, FiniteSets

CONSTANTS NIfaces,     \* numDummyIfaces
          NAddrs,      \* numAddressOnDummyIface
          Workers,     \* the importWorkerCount goroutines
          StaleCount   \* importRoutesCount as an earlier job or its default left it

\* Address i of interface j is 20.j.i.1.  A job may set both sizes; beyond the octets the
\* address does not parse and the worker panics over it.
ASSUME SizesAssumption == NIfaces \in 1..256 /\ NAddrs \in 1..255 /\ StaleCount \in Nat
ASSUME WorkersAssumption == IsFiniteSet(Workers)

NRoutes == NIfaces * NAddrs
Routes == 1..NRoutes
Ifaces == 0..(NIfaces - 1)
IfaceOf(k) == (k - 1) % NIfaces

VARIABLES
  havePods,   \* some CUDN subnet with a pod was found by getPods
  ifaces,     \* dummy interfaces that exist on the host
  addrs,      \* routes whose address is on its interface
  mainPc,     \* where Stop stands
  next,       \* loop variable of the interface loops
  desired,    \* the count Stop waits for
  chan,       \* route the channel delivers next
  importDone, \* importDoneCh is closed
  wpc,        \* where each import worker stands
  item,       \* the route it works on (0: none)
  recorded,   \* routes in Metrics
  verified,   \* verifiedImportRouteCount
  wg,         \* WaitGroup counter
  created,    \* history: interfaces this run created
  undeleted   \* history: interfaces whose deletion was refused

hostVars == <<havePods, ifaces, addrs>>
mainVars == <<mainPc, next, desired>>
workerVars == <<wpc, item>>
resultVars == <<recorded, verified>>
history == <<created, undeleted>>
vars == <<hostVars, mainVars, chan, importDone, workerVars, resultVars, wg, history>>

\* Interfaces of an earlier run may still be there.
Init ==
  /\ havePods \in BOOLEAN
  /\ ifaces \in SUBSET Ifaces /\ addrs = {}
  /\ mainPc = "start" /\ next = 0 /\ desired = StaleCount
  /\ chan = 1 /\ importDone = FALSE
  /\ wpc = [w \in Workers |-> "none"] /\ item = [w \in Workers |-> 0]
  /\ recorded = {} /\ verified = 0
  /\ wg = 0
  /\ created = {} /\ undeleted = {}

-----------------------------------------------------------------------------
(* Stop: start the scenario *)

MainGoto(from, to) == mainPc = from /\ mainPc' = to

\* Without a pod to ping the scenario is not started: no interface, no worker, and
\* the count that is waited for keeps its old value.
BeginScenario ==
  /\ IF havePods THEN MainGoto("start", "create") ELSE MainGoto("start", "wait")
  /\ UNCHANGED <<hostVars, next, desired, chan, importDone, workerVars, resultVars, wg, history>>

\* createDummyInterface adds the interface and brings it up.
CreateIface ==
  /\ mainPc = "create" /\ next < NIfaces
  /\ next \notin ifaces
  /\ ifaces' = ifaces \cup {next}
  /\ created' = created \cup {next}
  /\ next' = next + 1
  /\ UNCHANGED <<havePods, addrs, mainPc, desired, chan, importDone, workerVars, resultVars, wg, undeleted>>

\* It fails: adding is refused (always when the interface exists), or the interface
\* was added but could not be brought up or found.  Stop returns the error.
CreateFails ==
  /\ next < NIfaces
  /\ MainGoto("create", "failed")
  /\ \/ UNCHANGED <<ifaces, created>>
     \/ /\ next \notin ifaces
        /\ ifaces' = ifaces \cup {next}
        /\ created' = created \cup {next}
  /\ UNCHANGED <<havePods, addrs, next, desired, chan, importDone, workerVars, resultVars, wg, undeleted>>

\* Mutant: importRoutesCount is not updated to the number of routes.
FillKeepsCount ==
  /\ next = NIfaces
  /\ MainGoto("create", "spawn")
  /\ UNCHANGED <<hostVars, next, desired, chan, importDone, workerVars, resultVars, wg, history>>

\* The channel is filled with every route and closed.
FillChannel ==
  /\ next = NIfaces
  /\ MainGoto("create", "spawn")
  /\ desired' = NRoutes
  /\ UNCHANGED <<hostVars, next, chan, importDone, workerVars, resultVars, wg, history>>

\* Mutant: the wg.Add(1) for the worker is forgotten.
SpawnUncounted(w) ==
  /\ mainPc = "spawn" /\ wpc[w] = "none"
  /\ wpc' = [wpc EXCEPT ![w] = "select"]
  /\ UNCHANGED <<hostVars, mainVars, chan, importDone, item, resultVars, wg, history>>

Spawn(w) ==
  /\ mainPc = "spawn" /\ wpc[w] = "none"
  /\ wg' = wg + 1
  /\ wpc' = [wpc EXCEPT ![w] = "select"]
  /\ UNCHANGED <<hostVars, mainVars, chan, importDone, item, resultVars, history>>

AllSpawned ==
  /\ \A w \in Workers : wpc[w] # "none"
  /\ MainGoto("spawn", "wait")
  /\ UNCHANGED <<hostVars, next, desired, chan, importDone, workerVars, resultVars, wg, history>>

-----------------------------------------------------------------------------
(* Stop: wait and clean up *)

CountReached ==
  /\ verified >= desired
  /\ MainGoto("wait", "grace")
  /\ UNCHANGED <<hostVars, next, desired, chan, importDone, workerVars, resultVars, wg, history>>

\* Ten more seconds were granted, or importScenarioMaxTimeout has fired.
WaitOver ==
  /\ MainGoto("grace", "close") \/ MainGoto("wait", "close")
  /\ UNCHANGED <<hostVars, next, desired, chan, importDone, workerVars, resultVars, wg, history>>

CloseImportDone ==
  /\ MainGoto("close", "wgWait")
  /\ importDone' = TRUE
  /\ UNCHANGED <<hostVars, next, desired, chan, workerVars, resultVars, wg, history>>

\* Mutant: the wg.Wait() between closing the channel and deleting is forgotten.
WgWaitForgotten ==
  /\ MainGoto("wgWait", "delete")
  /\ next' = 0
  /\ UNCHANGED <<hostVars, desired, chan, importDone, workerVars, resultVars, wg, history>>

WgWait ==
  /\ wg = 0
  /\ MainGoto("wgWait", "delete")
  /\ next' = 0
  /\ UNCHANGED <<hostVars, desired, chan, importDone, workerVars, resultVars, wg, history>>

\* Mutant: an error of deleteDummyInterface ends the clean-up loop.
DeleteGivesUp ==
  /\ mainPc = "delete" /\ next < NIfaces
  /\ \/ /\ next' = next + 1
        /\ ifaces' = ifaces \ {next}
        /\ addrs' = {k \in addrs : IfaceOf(k) # next}
        /\ UNCHANGED undeleted
     \/ /\ next' = NIfaces
        /\ undeleted' = undeleted \cup {next}
        /\ UNCHANGED <<ifaces, addrs>>
  /\ UNCHANGED <<havePods, mainPc, desired, chan, importDone, workerVars, resultVars, wg, created>>

\* deleteDummyInterface: gone with its addresses, or an error that is only logged
\* (the interface is not there, or the kernel refuses).
DeleteIface ==
  /\ mainPc = "delete" /\ next < NIfaces
  /\ next' = next + 1
  /\ \/ /\ ifaces' = ifaces \ {next}
        /\ addrs' = {k \in addrs : IfaceOf(k) # next}
        /\ UNCHANGED undeleted
     \/ /\ undeleted' = undeleted \cup {next}
        /\ UNCHANGED <<ifaces, addrs>>
  /\ UNCHANGED <<havePods, mainPc, desired, chan, importDone, workerVars, resultVars, wg, created>>

\* StopMeasurement normalises and indexes Metrics.
StopMeasurement ==
  /\ next = NIfaces
  /\ MainGoto("delete", "stopped")
  /\ UNCHANGED <<hostVars, next, desired, chan, importDone, workerVars, resultVars, wg, history>>

-----------------------------------------------------------------------------
(* importWorker *)

WorkerStep(w, from, to) == wpc[w] = from /\ wpc' = [wpc EXCEPT ![w] = to]

\* Mutant: the route stays in the channel for the next worker.
TakePeek(w) ==
  /\ chan <= NRoutes
  /\ WorkerStep(w, "select", "add")
  /\ item' = [item EXCEPT ![w] = chan]
  /\ \/ chan' = chan + 1
     \/ chan' = chan
  /\ UNCHANGED <<hostVars, mainVars, importDone, resultVars, wg, history>>

\* The channel delivers a route.
TakeRoute(w) ==
  /\ chan <= NRoutes
  /\ WorkerStep(w, "select", "add")
  /\ item' = [item EXCEPT ![w] = chan]
  /\ chan' = chan + 1
  /\ UNCHANGED <<hostVars, mainVars, importDone, resultVars, wg, history>>

\* The channel is drained, or importDoneCh is closed; with both a route and the
\* closed channel at hand, select takes either.
LeaveLoop(w) ==
  /\ chan > NRoutes \/ importDone
  /\ WorkerStep(w, "select", "return")
  /\ UNCHANGED <<hostVars, mainVars, chan, importDone, item, resultVars, wg, history>>

\* The address, which parses, is added to the interface.  Errors, of the look-up too, are
\* only logged: the pods are pinged all the same.
AddAddress(w) ==
  /\ WorkerStep(w, "add", "ping")
  /\ \/ UNCHANGED addrs
     \/ IfaceOf(item[w]) \in ifaces /\ addrs' = addrs \cup {item[w]}
  /\ UNCHANGED <<havePods, ifaces, mainVars, chan, importDone, item, resultVars, wg, history>>

\* pingAllCudns has returned and the result goes to Metrics ...
Record(w) ==
  /\ WorkerStep(w, "ping", "count")
  /\ recorded' = recorded \cup {item[w]}
  /\ UNCHANGED <<hostVars, mainVars, chan, importDone, item, verified, wg, history>>

\* ... and only then the route counts as verified.
Count(w) ==
  /\ WorkerStep(w, "count", "select")
  /\ verified' = verified + 1
  /\ item' = [item EXCEPT ![w] = 0]
  /\ UNCHANGED <<hostVars, mainVars, chan, importDone, recorded, wg, history>>

\* Mutant: the deferred Done is missing.
DoneForgotten(w) ==
  /\ WorkerStep(w, "return", "exited")
  /\ UNCHANGED <<hostVars, mainVars, chan, importDone, item, resultVars, wg, history>>

\* The deferred wg.Done().
WorkerDone(w) ==
  /\ WorkerStep(w, "return", "exited")
  /\ wg' = wg - 1
  /\ UNCHANGED <<hostVars, mainVars, chan, importDone, item, resultVars, history>>

Worker(w) ==
  \/ TakeRoute(w) \/ LeaveLoop(w) \/ AddAddress(w)
  \/ Record(w) \/ Count(w) \/ WorkerDone(w)

-----------------------------------------------------------------------------
Main ==
  \/ BeginScenario \/ CreateIface \/ CreateFails \/ FillChannel
  \/ (\E w \in Workers : Spawn(w)) \/ AllSpawned
  \/ CountReached \/ WaitOver \/ CloseImportDone
  \/ WgWait \/ DeleteIface \/ StopMeasurement

\* Stop has returned; its workers may rest.
Over == mainPc \in {"stopped", "failed"} /\ UNCHANGED vars

Next == Main \/ (\E w \in Workers : Worker(w)) \/ Over

\* Stop and the workers are scheduled, the pings and the timer end.
Fairness == WF_vars(Main) /\ \A w \in Workers : WF_vars(Worker(w))

Spec == Init /\ [][Next]_vars /\ Fairness

-----------------------------------------------------------------------------
(* Properties *)

MainStates == {"start", "create", "spawn", "wait", "grace", "close", "wgWait",
               "delete", "stopped", "failed"}
WorkerStates == {"none", "select", "add", "ping", "count", "return", "exited"}

TypeOK ==
  /\ havePods \in BOOLEAN
  /\ ifaces \subseteq Ifaces /\ addrs \subseteq Routes
  /\ mainPc \in MainStates /\ next \in 0..NIfaces /\ desired \in Nat
  /\ chan \in 1..(NRoutes + 1) /\ importDone \in BOOLEAN
  /\ wpc \in [Workers -> WorkerStates]
  /\ item \in [Workers -> Routes \cup {0}]
  /\ recorded \subseteq Routes /\ verified \in Nat
  /\ wg \in 0..Cardinality(Workers)
  /\ created \subseteq Ifaces /\ undeleted \subseteq Ifaces

\* A worker between taking a route and having pinged from its address.
Working(w) == wpc[w] \in {"add", "ping"}

\* The interface of a route is there for as long as a worker adds its address or
\* pings from it: the clean-up never pulls it from under a worker.
IfaceInUse == \A w \in Workers : Working(w) => IfaceOf(item[w]) \in ifaces

\* When the wait ends on the count, every route is in Metrics: unlike the export
\* half, a worker records before it counts.
AllRecorded == mainPc = "grace" /\ havePods => recorded = Routes

\* Once the interfaces are being deleted and the results indexed, no result is
\* added any more.
ResultsFinal == [][(mainPc \in {"delete", "stopped"}) => UNCHANGED resultVars]_vars

\* After a Stop that got through, no dummy interface of this run is left, except
\* those the kernel refused to delete.
CleanStop == mainPc = "stopped" => created \cap ifaces \subseteq undeleted

\* "Import scenario creates dummy interfaces, we need to cleanup them": also when
\* Stop gives up, no dummy interface it created is left behind.
CleanFailure == mainPc = "failed" => created \cap ifaces = {}

\* Stop returns, however the workers and the timer interleave.
StopReturns == <>(mainPc \in {"stopped", "failed"})

-----------------------------------------------------------------------------
(* The inductive invariant behind IfaceInUse, AllRecorded and ResultsFinal *)

Active == {w \in Workers : wpc[w] \notin {"none", "exited"}}
Holders == {w \in Workers : wpc[w] \in {"add", "ping", "count"}}
Recorders == {w \in Workers : wpc[w] = "count"}

\* Workers only exist between their start and the end of wg.Wait.
Phases ==
  /\ Active # {} => mainPc \in {"spawn", "wait", "grace", "close", "wgWait"}
  /\ mainPc \in {"start", "create", "failed"} => \A w \in Workers : wpc[w] = "none"
  /\ mainPc = "start" => next = 0
  /\ mainPc = "create" => \A i \in Ifaces : i < next => i \in ifaces
  /\ mainPc \in {"create", "spawn"} => havePods
  /\ ~havePods => \A w \in Workers : wpc[w] = "none"
  /\ mainPc \in {"spawn", "wait", "grace", "close", "wgWait"} /\ havePods =>
       Ifaces \subseteq ifaces /\ desired = NRoutes
  /\ mainPc = "stopped" => next = NIfaces
  /\ mainPc \in {"delete", "stopped"} =>
       \A i \in created \cap ifaces : i \in undeleted \/ i >= next

\* A route is taken once, and recorded by the worker that took it.
Taken ==
  /\ \A w \in Holders : item[w] \in 1..(chan - 1)
  /\ \A v, w \in Holders : item[v] = item[w] => v = w
  /\ recorded \subseteq 1..(chan - 1)
  /\ \A w \in Holders : item[w] \in recorded <=> wpc[w] = "count"

Counts ==
  /\ wg = Cardinality(Active)
  /\ verified + Cardinality(Recorders) = Cardinality(recorded)
  /\ mainPc = "grace" => verified >= desired

IInv == TypeOK /\ Phases /\ Taken /\ Counts
=============================================================================
