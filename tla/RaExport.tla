------------------------------ MODULE RaExport ------------------------------
(***************************************************************************)
(* The export half of raLatency: Start subscribes to the kernel's route    *)
(* notifications and starts the export workers; each worker takes routes   *)
(* from routeCh, pings the pods behind the route and records what it saw   *)
(* per CUDN; Stop waits for the routes, closes exportDoneCh, runs the      *)
(* import half and normalises what was recorded.                           *)
(*                                                                         *)
(* A timestamp is the identity of what it dates: routeTimestamp is the     *)
(* notification that was being handled, a ping timestamp is the pair of    *)
(* notification and pod.  RouteAdvertisements select one CUDN each, so one *)
(* is named by its CUDN.  The import half (RaImport) is one step here; its *)
(* steps take the place of that one in RaLatency.  A job that skips        *)
(* indexing is not modelled: Start and Stop return at once.                *)
(***************************************************************************)
EXTENDS Integers, Sequences, FiniteSets

CONSTANTS Subnets,    \* keys of cudnSubnet
          Foreign,    \* other destinations in the host's routing table
          Cudns,
          CudnOf,     \* cudnSubnet[s].cudn
          PodsOf,     \* len(cudnSubnet[s].pods)
          Workers,    \* the exportWorkerCount goroutines
          RouteCap,   \* capacity of routeCh
          MaxAdds     \* bound: how often the kernel announces one destination

ASSUME CudnOfAssumption == CudnOf \in [Subnets -> Cudns]
ASSUME PodsOfAssumption == PodsOf \in [Subnets -> Nat \ {0}]
ASSUME WorkersAssumption == IsFiniteSet(Workers)
ASSUME SubnetsAssumption == IsFiniteSet(Subnets)
ASSUME BoundsAssumption == RouteCap \in Nat \ {0} /\ MaxAdds \in Nat \ {0}

Dsts == Subnets \cup Foreign
NoRecord == [route |-> 0, pings |-> <<>>]
NoEvent == [id |-> 0, new |-> FALSE, dst |-> "none"]

VARIABLES
  fib,          \* destinations in the kernel's routing table
  adds,         \* how often each destination was announced
  lastId,       \* notifications sent so far
  routeCh,      \* buffered channel of notifications
  routeClosed,  \* the subscription closed routeCh
  exportDone,   \* exportDoneCh is closed
  wpc,          \* where each export worker stands
  update,       \* the notification it handles
  snap,         \* nlRouteVal, its own copy of the CUDN's record
  pod,          \* index of the pod it pings next
  conn,         \* cudnConnTimestamp
  verified,     \* verifiedExportRouteCount
  wg,           \* WaitGroup counter
  mainPc,       \* where Start and Stop stand
  spawned,      \* workers started so far
  metrics,      \* RouteAdvertisements the informer has reported
  unread,       \* RouteAdvertisements normalizeMetrics has yet to come to
  norm,         \* what it read per RouteAdvertisement
  answered,     \* history: pings that succeeded
  counted,      \* history: notifications counted as verified
  raced         \* history: those stored while another worker held a copy from before

kernelVars == <<fib, adds, lastId>>
chanVars == <<routeCh, routeClosed, exportDone>>
workerVars == <<wpc, update, snap, pod>>
recordVars == <<conn, verified>>
reportVars == <<metrics, unread, norm>>
mainVars == <<mainPc, spawned, reportVars>>
history == <<answered, counted, raced>>
vars == <<kernelVars, chanVars, workerVars, recordVars, wg, mainVars, history>>

Init ==
  /\ fib = {} /\ adds = [d \in Dsts |-> 0] /\ lastId = 0
  /\ routeCh = <<>> /\ routeClosed = FALSE /\ exportDone = FALSE
  /\ wpc = [w \in Workers |-> "none"]
  /\ update = [w \in Workers |-> NoEvent]
  /\ snap = [w \in Workers |-> NoRecord]
  /\ pod = [w \in Workers |-> 1]
  /\ conn = [c \in Cudns |-> NoRecord] /\ verified = 0
  /\ wg = 0
  /\ mainPc = "subscribe" /\ spawned = {}
  /\ metrics = {} /\ unread = {} /\ norm = [c \in Cudns |-> NoRecord]
  /\ answered = {} /\ counted = {} /\ raced = {}

-----------------------------------------------------------------------------
(* The kernel and the netlink subscription *)

Subscribed == mainPc # "subscribe" /\ ~routeClosed

Notify(d, new) ==
  /\ Subscribed /\ Len(routeCh) < RouteCap
  /\ lastId' = lastId + 1
  /\ routeCh' = Append(routeCh, [id |-> lastId', new |-> new, dst |-> d])
  /\ UNCHANGED <<routeClosed, exportDone, workerVars, recordVars, wg, mainVars, history>>

\* "linux doesn't allow adding duplicate routes": a destination is announced
\* again only after it was withdrawn.
RouteAdd(d) ==
  /\ d \notin fib /\ adds[d] < MaxAdds
  /\ fib' = fib \cup {d}
  /\ adds' = [adds EXCEPT ![d] = @ + 1]
  /\ Notify(d, TRUE)

RouteDel(d) ==
  /\ d \in fib
  /\ fib' = fib \ {d}
  /\ adds' = adds
  /\ Notify(d, FALSE)

\* The subscription ends, because exportDoneCh is closed or because reading from
\* the socket failed, and closes routeCh behind the last notification.
SubscriptionEnds ==
  /\ Subscribed
  /\ routeClosed' = TRUE
  /\ UNCHANGED <<kernelVars, routeCh, exportDone, workerVars, recordVars, wg, mainVars, history>>

-----------------------------------------------------------------------------
(* exportWorker *)

WorkerGoto(w, pc) == wpc' = [wpc EXCEPT ![w] = pc]

\* Mutant: the worker returns from its loop without having called Done.
WorkerDoneForgotten(w) ==
  /\ wpc[w] = "start"
  /\ wg' = wg
  /\ WorkerGoto(w, "select")
  /\ UNCHANGED <<kernelVars, chanVars, update, snap, pod, recordVars, mainVars, history>>

\* r.wg.Done() is the first statement of the worker; it is not deferred.
WorkerDone(w) ==
  /\ wpc[w] = "start"
  /\ wg' = wg - 1
  /\ WorkerGoto(w, "select")
  /\ UNCHANGED <<kernelVars, chanVars, update, snap, pod, recordVars, mainVars, history>>

\* Mutant: withdrawn routes are handled like announced ones.
ConcernsAnyType(e) == e.dst \in Subnets

Concerns(e) == e.new /\ e.dst \in Subnets

\* A notification is taken from routeCh; it is handled when it announces a known
\* subnet and dropped otherwise.
Receive(w) ==
  /\ wpc[w] = "select" /\ routeCh # <<>>
  /\ routeCh' = Tail(routeCh)
  /\ IF Concerns(Head(routeCh))
     THEN update' = [update EXCEPT ![w] = Head(routeCh)] /\ WorkerGoto(w, "load")
     ELSE UNCHANGED <<update, wpc>>
  /\ UNCHANGED <<kernelVars, routeClosed, exportDone, snap, pod, recordVars, wg, mainVars, history>>

\* Mutant: a closed channel is read on, as if it still delivered routes.
ReceiveClosedIgnored(w) ==
  /\ wpc[w] = "select" /\ routeCh = <<>> /\ routeClosed
  /\ WorkerGoto(w, "select")
  /\ UNCHANGED <<kernelVars, chanVars, update, snap, pod, recordVars, wg, mainVars, history>>

\* Mutant: the worker returns as soon as exportDoneCh is closed.
ReturnOnDone(w) ==
  /\ wpc[w] = "select" /\ exportDone
  /\ WorkerGoto(w, "exited")
  /\ UNCHANGED <<kernelVars, chanVars, update, snap, pod, recordVars, wg, mainVars, history>>

\* routeCh is closed and drained: return.  The other case of the select, a closed
\* exportDoneCh, only breaks out of the select: it changes nothing.
ReceiveClosed(w) ==
  /\ wpc[w] = "select" /\ routeCh = <<>> /\ routeClosed
  /\ WorkerGoto(w, "exited")
  /\ UNCHANGED <<kernelVars, chanVars, update, snap, pod, recordVars, wg, mainVars, history>>

Fresh(w) == [route |-> update[w].id, pings |-> <<>>]
Key(w) == CudnOf[update[w].dst]

\* A worker between taking its copy of a record and storing it back.
Holds(w) == wpc[w] \in {"ping", "store"}

\* Another worker has a copy of the record that w is at.
Contested(w) == \E v \in Workers \ {w} : Holds(v) /\ Key(v) = Key(w)

\* Mutant: the record is stored anew for every notification.
LoadAlwaysStores(w) ==
  /\ wpc[w] = "load"
  /\ conn' = [conn EXCEPT ![Key(w)] = Fresh(w)]
  /\ snap' = [snap EXCEPT ![w] = conn'[Key(w)]]
  /\ pod' = [pod EXCEPT ![w] = 1]
  /\ WorkerGoto(w, "ping")
  /\ UNCHANGED <<kernelVars, chanVars, update, verified, wg, mainVars, history>>

\* LoadOrStore: the first notification of a CUDN creates its record; the worker
\* goes on with a copy of the record there is.
LoadOrStore(w) ==
  /\ wpc[w] = "load"
  /\ conn' = IF conn[Key(w)] = NoRecord THEN [conn EXCEPT ![Key(w)] = Fresh(w)] ELSE conn
  /\ snap' = [snap EXCEPT ![w] = conn'[Key(w)]]
  /\ pod' = [pod EXCEPT ![w] = 1]
  /\ WorkerGoto(w, "ping")
  /\ UNCHANGED <<kernelVars, chanVars, update, verified, wg, mainVars, history>>

\* The attempts on one pod: one of them is answered and dated, or none is.
PingPod(w) ==
  /\ wpc[w] = "ping" /\ pod[w] <= PodsOf[update[w].dst]
  /\ pod' = [pod EXCEPT ![w] = @ + 1]
  /\ \E success \in BOOLEAN :
       LET p == <<update[w].id, pod[w]>> IN
       /\ snap' = IF success THEN [snap EXCEPT ![w].pings = Append(@, p)] ELSE snap
       /\ answered' = IF success THEN answered \cup {[cudn |-> Key(w), ping |-> p]} ELSE answered
  /\ UNCHANGED <<kernelVars, chanVars, wpc, update, recordVars, wg, mainVars, counted, raced>>

\* All pods were tried: the route counts as verified ...
CountRoute(w) ==
  /\ wpc[w] = "ping" /\ pod[w] > PodsOf[update[w].dst]
  /\ verified' = verified + 1
  /\ counted' = counted \cup {update[w]}
  /\ WorkerGoto(w, "store")
  /\ UNCHANGED <<kernelVars, chanVars, update, snap, pod, conn, wg, mainVars, answered, raced>>

\* The handling of a notification ends: the locals of the select case go out of scope.
Forget(w) ==
  /\ raced' = IF Contested(w) THEN raced \cup {update[w].id} ELSE raced
  /\ update' = [update EXCEPT ![w] = NoEvent]
  /\ snap' = [snap EXCEPT ![w] = NoRecord]
  /\ pod' = [pod EXCEPT ![w] = 1]

\* Mutant: the pings of the worker are not put into the record it stores.
StoreWithoutPings(w) ==
  /\ wpc[w] = "store"
  /\ conn' = [conn EXCEPT ![Key(w)].route = snap[w].route]
  /\ WorkerGoto(w, "select")
  /\ Forget(w)
  /\ UNCHANGED <<kernelVars, chanVars, verified, wg, mainVars, answered, counted>>

\* ... before the worker's copy replaces the record of the CUDN.
StoreRecord(w) ==
  /\ wpc[w] = "store"
  /\ conn' = [conn EXCEPT ![Key(w)] = snap[w]]
  /\ WorkerGoto(w, "select")
  /\ Forget(w)
  /\ UNCHANGED <<kernelVars, chanVars, verified, wg, mainVars, answered, counted>>

Worker(w) ==
  \/ WorkerDone(w) \/ Receive(w) \/ ReceiveClosed(w) \/ LoadOrStore(w)
  \/ PingPod(w) \/ CountRoute(w) \/ StoreRecord(w)

-----------------------------------------------------------------------------
(* Start and Stop *)

MainGoto(from, to) == mainPc = from /\ mainPc' = to

\* RouteSubscribe succeeds, or Start returns its error.
Subscribe ==
  /\ MainGoto("subscribe", "spawn") \/ MainGoto("subscribe", "failed")
  /\ routeClosed' = (mainPc' = "failed")
  /\ UNCHANGED <<kernelVars, routeCh, exportDone, workerVars, recordVars, wg, spawned, reportVars, history>>

\* wg.Add(1) and go exportWorker().
Spawn(w) ==
  /\ mainPc = "spawn" /\ w \notin spawned
  /\ spawned' = spawned \cup {w}
  /\ wg' = wg + 1
  /\ WorkerGoto(w, "start")
  /\ UNCHANGED <<kernelVars, chanVars, update, snap, pod, recordVars, mainPc, reportVars, history>>

\* The API connector is made and the informer started, or Start returns an error
\* and leaves the workers behind.
StartInformer ==
  /\ spawned = Workers
  /\ MainGoto("spawn", "job") \/ MainGoto("spawn", "failed")
  /\ UNCHANGED <<kernelVars, chanVars, workerVars, recordVars, wg, spawned, reportVars, history>>

\* handleAdd: the informer reports a RouteAdvertisement.  Its stop channel is never
\* closed, so that this may happen at any time, after Stop too; a Range under way
\* may or may not come to the new entry.
HandleAdd(c) ==
  /\ mainPc \notin {"subscribe", "spawn", "failed"}
  /\ c \notin metrics
  /\ metrics' = metrics \cup {c}
  /\ unread' \in IF mainPc = "normalize" THEN {unread, unread \cup {c}} ELSE {unread}
  /\ UNCHANGED <<kernelVars, chanVars, workerVars, recordVars, wg, mainPc, spawned, norm, history>>

CallStop ==
  /\ MainGoto("job", "wait")
  /\ UNCHANGED <<kernelVars, chanVars, workerVars, recordVars, wg, spawned, reportVars, history>>

\* The ticker finds the desired count: ten more seconds are granted.
CountReached ==
  /\ MainGoto("wait", "grace")
  /\ verified >= Cardinality(Subnets)
  /\ UNCHANGED <<kernelVars, chanVars, workerVars, recordVars, wg, spawned, reportVars, history>>

WaitOver ==
  /\ MainGoto("grace", "close")
  /\ UNCHANGED <<kernelVars, chanVars, workerVars, recordVars, wg, spawned, reportVars, history>>

\* exportScenarioMaxTimeout fires.
Timeout ==
  /\ MainGoto("wait", "close")
  /\ UNCHANGED <<kernelVars, chanVars, workerVars, recordVars, wg, spawned, reportVars, history>>

CloseExportDone ==
  /\ MainGoto("close", "import")
  /\ exportDone' = TRUE
  /\ UNCHANGED <<kernelVars, routeCh, routeClosed, workerVars, recordVars, wg, spawned, reportVars, history>>

\* The import half ran, or could not be started and Stop returns its error.
Import ==
  /\ MainGoto("import", "wgWait") \/ MainGoto("import", "failed")
  /\ UNCHANGED <<kernelVars, chanVars, workerVars, recordVars, wg, spawned, reportVars, history>>

WgWait ==
  /\ MainGoto("wgWait", "normalize")
  /\ wg = 0
  /\ unread' = metrics
  /\ UNCHANGED <<kernelVars, chanVars, workerVars, recordVars, wg, spawned, metrics, norm, history>>

\* normalizeMetrics comes to the RouteAdvertisement of c and reads c's record, if
\* there is one.
Normalize(c) ==
  /\ mainPc = "normalize" /\ c \in unread
  /\ unread' = unread \ {c}
  /\ norm' = [norm EXCEPT ![c] = conn[c]]
  /\ UNCHANGED <<kernelVars, chanVars, workerVars, recordVars, wg, mainPc, spawned, metrics, history>>

NormalizeOver ==
  /\ MainGoto("normalize", "done")
  /\ unread = {}
  /\ UNCHANGED <<kernelVars, chanVars, workerVars, recordVars, wg, spawned, reportVars, history>>

\* What the main thread does apart from the import half and the wait after it.
Own ==
  \/ Subscribe \/ (\E w \in Workers : Spawn(w)) \/ StartInformer
  \/ CallStop \/ CountReached \/ WaitOver \/ Timeout \/ CloseExportDone
  \/ (\E c \in Cudns : Normalize(c)) \/ NormalizeOver

Main == Own \/ Import \/ WgWait

Kernel == \E d \in Dsts : RouteAdd(d) \/ RouteDel(d)

\* The measurement is over; what is left of it may rest.
Over == mainPc \in {"done", "failed"} /\ UNCHANGED vars

\* Those that run beside the main thread.
Others ==
  \/ Kernel \/ SubscriptionEnds
  \/ \E w \in Workers : Worker(w)
  \/ \E c \in Cudns : HandleAdd(c)

Next == Others \/ Main \/ Over

\* Goroutines are scheduled, pings and timers end, and a subscription whose done
\* channel is closed closes routeCh.  The kernel and the API server owe nothing.
Fairness ==
  /\ WF_vars(Main)
  /\ WF_vars(exportDone /\ SubscriptionEnds)
  /\ \A w \in Workers : WF_vars(Worker(w))

Spec == Init /\ [][Next]_vars /\ Fairness

-----------------------------------------------------------------------------
(* Properties *)

Record == [route : Nat, pings : Seq((Nat \ {0}) \X (Nat \ {0}))]
Event == [id : Nat \ {0}, new : BOOLEAN, dst : Dsts]
WorkerStates == {"none", "start", "select", "load", "ping", "store", "exited"}
MainStates == {"subscribe", "spawn", "job", "wait", "grace", "close", "import",
               "wgWait", "normalize", "done", "failed"}

TypeOK ==
  /\ fib \subseteq Dsts /\ adds \in [Dsts -> 0..MaxAdds] /\ lastId \in Nat
  /\ routeCh \in Seq(Event) /\ routeClosed \in BOOLEAN /\ exportDone \in BOOLEAN
  /\ wpc \in [Workers -> WorkerStates]
  /\ update \in [Workers -> Event \cup {NoEvent}]
  /\ snap \in [Workers -> Record]
  /\ pod \in [Workers -> Nat \ {0}]
  /\ conn \in [Cudns -> Record] /\ verified \in Nat
  /\ wg \in 0..Cardinality(Workers)
  /\ mainPc \in MainStates /\ spawned \subseteq Workers
  /\ metrics \subseteq Cudns /\ unread \subseteq Cudns
  /\ norm \in [Cudns -> Record]

\* The first detection of a CUDN's route is the one that is kept: workers that
\* handle routes of the same CUDN at once, each storing its own copy of the
\* record, never change the route timestamp, and no record disappears.
RouteTimestampStable ==
  [][\A c \in Cudns : conn[c] # NoRecord =>
       conn'[c] # NoRecord /\ conn'[c].route = conn[c].route]_vars

\* What normalizeMetrics indexes as the netlink latency of a CUDN is its first
\* detection, although export workers may still be storing records.
NormalizedRoute ==
  \A c \in Cudns : norm[c] # NoRecord =>
    conn[c] # NoRecord /\ norm[c].route = conn[c].route

Listed(ping, record) == \E k \in DOMAIN record.pings : record.pings[k] = ping

\* "For each route notified by the kernel, pings the corresponding CUDN's pod and
\* records ping success timestamp": once no worker handles a route, every ping
\* that was answered is in the record of its CUDN.
PingsKept ==
  (\A w \in Workers : ~Holds(w)) =>
    \A a \in answered : Listed(a.ping, conn[a.cudn])

\* However routes are announced, announced again and shared out, the pings of a route are
\* in the record of its CUDN once its worker has stored them, and stay there through all
\* later races, unless another worker held a copy of the record at the moment of the Store.
UnracedKept ==
  \A a \in answered :
    \/ a.ping[1] \in raced
    \/ \E w \in Workers : Holds(w) /\ update[w].id = a.ping[1]
    \/ Listed(a.ping, conn[a.cudn])

\* "Wait till all CUDNs exported using RAs": when the wait ends on the count and
\* not on the timeout, the route of every subnet was verified.
AllVerified == mainPc = "grace" => \A s \in Subnets : \E e \in counted : e.dst = s

\* A worker that has taken a route and not finished with it.
Handling(w) == wpc[w] \in {"load", "ping", "store"}

\* "We later notify all scenario threads to return in this case": by the time the
\* measurement is normalised, no export worker is still handling a route.
WorkersStopped == mainPc = "normalize" => \A w \in Workers : ~Handling(w)

\* Announcements of a subnet that wait in routeCh.
Queued(s) == {i \in 1..Len(routeCh) : routeCh[i].new /\ routeCh[i].dst = s}

\* No announcement that has come to routeCh is lost: its subnet is verified in the end,
\* also when exportDoneCh is closed while the route is still queued.
RoutesVerified ==
  \A s \in Subnets : Queued(s) # {} ~> \E e \in counted : e.dst = s

\* Closing exportDoneCh makes every export worker return in the end.
WorkersReturn == exportDone ~> \A w \in Workers : wpc[w] = "exited"

\* Stop returns, whatever the kernel announces: workers and waits cannot block it.
StopReturns == mainPc = "wait" ~> mainPc \in {"done", "failed"}

-----------------------------------------------------------------------------
(* The inductive invariant behind RouteTimestampStable and NormalizedRoute *)

\* A worker that handles a route handles an announced subnet.
Handled == \A w \in Workers : Handling(w) => update[w] \in Event /\ update[w].dst \in Subnets

\* A worker's copy carries the route timestamp of the record it will replace.
Copies ==
  \A w \in Workers : Holds(w) =>
    conn[Key(w)].route # 0 /\ snap[w].route = conn[Key(w)].route

\* Only the absent record has no route timestamp.
Records == \A c \in Cudns : conn[c] # NoRecord => conn[c].route # 0

\* wg counts the workers that were started and have not called Done.
Starting == {w \in Workers : wpc[w] = "start"}
Owed ==
  /\ wg = Cardinality(Starting)
  /\ \A w \in Workers : wpc[w] = "none" <=> w \notin spawned

IInv == TypeOK /\ Handled /\ Copies /\ Records /\ Owed /\ NormalizedRoute

-----------------------------------------------------------------------------
(* The inductive invariant behind AllVerified, when a subnet is announced once *)

Held(s) == {w \in Workers : wpc[w] \in {"load", "ping"} /\ update[w].dst = s}
Verified == {e.dst : e \in counted}

\* The announcement of a subnet is still to come, or in one place: the channel, a worker,
\* or among those counted.
InOnePlace(s) ==
  /\ adds[s] = 0 => Queued(s) = {} /\ Held(s) = {} /\ s \notin Verified
  /\ \A i, j \in Queued(s) : i = j
  /\ \A v, w \in Held(s) : v = w
  /\ Queued(s) # {} => Held(s) = {} /\ s \notin Verified
  /\ Held(s) # {} => s \notin Verified

CountTells ==
  /\ \A s \in Subnets : InOnePlace(s)
  /\ Verified \subseteq Subnets /\ verified = Cardinality(Verified)
  /\ mainPc = "grace" => verified >= Cardinality(Subnets)

-----------------------------------------------------------------------------
(* The inductive invariant behind UnracedKept *)

\* A ping is in the record and in each copy that may replace the record.
Settled(a) ==
  /\ Listed(a.ping, conn[a.cudn])
  /\ \A w \in Workers : Holds(w) /\ Key(w) = a.cudn => Listed(a.ping, snap[w])

\* Or it is in the copy of the worker that got it, or that worker's Store was one of a race.
Placed(a) ==
  \/ a.ping[1] \in raced
  \/ \E w \in Workers : Holds(w) /\ Key(w) = a.cudn /\ update[w].id = a.ping[1] /\ Listed(a.ping, snap[w])
  \/ Settled(a)

PingsPlaced == \A a \in answered : a.cudn \in Cudns /\ Placed(a)
=============================================================================
