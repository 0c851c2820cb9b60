----------------------------- MODULE CudnLatency ----------------------------
(***************************************************************************)
(* The cudnLatency measurement: an informer on ClusterUserDefinedNetworks  *)
(* calls handleAdd and handleUpdate, which keep one entry per CUDN name:   *)
(* its creation time and, once NetworkAllocationSucceeded is True, the     *)
(* latency.  Stop closes the informer's channel and normalises at once,    *)
(* whether or not a handler is still running.                              *)
(*                                                                         *)
(* Time has the resolution of the API, one second.  A watch that is        *)
(* interrupted and relists skips states of an object: Observe looks at the *)
(* object whenever it likes.                                               *)
(***************************************************************************)
EXTENDS Integers, Sequences

CONSTANTS Names,       \* CUDN names
          MaxTime,     \* bound: last instant of the clock
          MaxChanges   \* bound: changes of the API objects

ASSUME BoundsAssumption == MaxTime \in Nat /\ MaxChanges \in Nat

None == -1          \* no time, no latency
Unstamped == -2     \* condition True without a parsable lastTransitionTime
NoObject == [created |-> None, alloc |-> None]
NoMetric == [ts |-> None, lat |-> None]
Idle == [kind |-> "idle", name |-> "none", object |-> NoObject]

VARIABLES
  now,       \* the clock
  api,       \* the CUDN of each name: creation and transition to True
  deleted,   \* history: names whose CUDN was deleted
  changes,   \* changes of api so far
  view,      \* the informer's store
  pending,   \* notifications on their way to the handlers
  mainPc,    \* "running" | "normalizing" | "done"
  updating,  \* the notification handleUpdate is at, after its Load
  local,     \* the entry it is about to store
  metrics,   \* Metrics
  owed,      \* names that had an entry when normalizeMetrics began
  unread,    \* names it has not come to
  norm       \* latencies it has put into NormLatencies

apiVars == <<now, api, deleted, changes>>
handlerVars == <<updating, local, metrics>>
mainVars == <<mainPc, owed, unread, norm>>
vars == <<apiVars, view, pending, handlerVars, mainVars>>

\* CUDNs may exist before the measurement starts: the informer has no selector.
Init ==
  /\ now = 0
  /\ api \in [Names -> {NoObject, [created |-> 0, alloc |-> None], [created |-> 0, alloc |-> 0]}]
  /\ deleted = {} /\ changes = 0
  /\ view = [n \in Names |-> NoObject]
  /\ pending = <<>>
  /\ mainPc = "running"
  /\ updating = Idle /\ local = NoMetric
  /\ metrics = [n \in Names |-> NoMetric]
  /\ owed = {} /\ unread = Names /\ norm = [n \in Names |-> None]

-----------------------------------------------------------------------------
(* The API and the informer *)

Tick ==
  /\ now < MaxTime
  /\ now' = now + 1
  /\ UNCHANGED <<api, deleted, changes, view, pending, handlerVars, mainVars>>

Change(n, object) ==
  /\ changes < MaxChanges
  /\ changes' = changes + 1
  /\ api' = [api EXCEPT ![n] = object]
  /\ UNCHANGED <<now, view, pending, handlerVars, mainVars>>

\* A name may be used again after its CUDN was deleted.
Create(n) ==
  /\ api[n] = NoObject
  /\ Change(n, [created |-> now, alloc |-> None])
  /\ UNCHANGED deleted

\* The condition becomes True, or stops being True.
Allocate(n) ==
  /\ api[n] # NoObject /\ api[n].alloc = None
  /\ \E t \in {now, Unstamped} : Change(n, [api[n] EXCEPT !.alloc = t])
  /\ UNCHANGED deleted

Unallocate(n) ==
  /\ api[n] # NoObject /\ api[n].alloc # None
  /\ Change(n, [api[n] EXCEPT !.alloc = None])
  /\ UNCHANGED deleted

Delete(n) ==
  /\ api[n] # NoObject
  /\ Change(n, NoObject)
  /\ deleted' = deleted \cup {n}

Notification(n) ==
  [kind |-> IF view[n] = NoObject THEN "add" ELSE "update", name |-> n, object |-> api[n]]

\* The informer sees a new state of a CUDN: an add when it had none of that name,
\* an update when it had one; there is no handler for a deletion.
Observe(n) ==
  /\ mainPc = "running"
  /\ view[n] # api[n]
  /\ view' = [view EXCEPT ![n] = api[n]]
  /\ pending' = IF api[n] = NoObject THEN pending ELSE Append(pending, Notification(n))
  /\ UNCHANGED <<apiVars, handlerVars, mainVars>>

-----------------------------------------------------------------------------
(* The handlers: one goroutine takes the notifications in order *)

Transition(object) == IF object.alloc = Unstamped THEN now ELSE object.alloc

\* Mutant: the operands of the subtraction are swapped.
LatencySwapped(object, ts) == IF object.alloc = None THEN None ELSE ts - Transition(object)

Latency(object, ts) == IF object.alloc = None THEN None ELSE Transition(object) - ts

Notified == Head(pending)
Take(kind) == updating = Idle /\ pending # <<>> /\ Notified.kind = kind /\ pending' = Tail(pending)

\* Mutant: the condition is not looked at when the CUDN is first seen.
HandleAddUnconditional ==
  /\ Take("add")
  /\ LET n == Notified.name IN
       metrics' = IF metrics[n] # NoMetric THEN metrics
                  ELSE [metrics EXCEPT ![n] = [ts |-> Notified.object.created, lat |-> None]]
  /\ UNCHANGED <<apiVars, view, updating, local, mainVars>>

\* LoadOrStore: the first entry of a name stays; its latency is known when the
\* condition already is True.
HandleAdd ==
  /\ Take("add")
  /\ LET n == Notified.name
         o == Notified.object IN
       metrics' = IF metrics[n] # NoMetric THEN metrics
                  ELSE [metrics EXCEPT ![n] = [ts |-> o.created, lat |-> Latency(o, o.created)]]
  /\ UNCHANGED <<apiVars, view, updating, local, mainVars>>

\* Mutant: a latency that was recorded before is no reason to return.
LoadAlways ==
  /\ Take("update")
  /\ LET n == Notified.name
         o == Notified.object IN
       IF o.alloc # None /\ metrics[n] # NoMetric
       THEN /\ updating' = Notified
            /\ local' = [metrics[n] EXCEPT !.lat = Latency(o, metrics[n].ts)]
       ELSE UNCHANGED <<updating, local>>
  /\ UNCHANGED <<apiVars, view, metrics, mainVars>>

\* handleUpdate up to its Store: it returns unless the condition is True, the name
\* has an entry and the entry has no latency.
Load ==
  /\ Take("update")
  /\ LET n == Notified.name
         o == Notified.object IN
       IF o.alloc # None /\ metrics[n] # NoMetric /\ metrics[n].lat < 0
       THEN /\ updating' = Notified
            /\ local' = [metrics[n] EXCEPT !.lat = Latency(o, metrics[n].ts)]
       ELSE UNCHANGED <<updating, local>>
  /\ UNCHANGED <<apiVars, view, metrics, mainVars>>

\* The Store of handleUpdate.
Store ==
  /\ updating # Idle
  /\ metrics' = [metrics EXCEPT ![updating.name] = local]
  /\ updating' = Idle /\ local' = NoMetric
  /\ UNCHANGED <<apiVars, view, pending, mainVars>>

-----------------------------------------------------------------------------
(* Stop *)

\* The channel is closed: no more is observed.  The handlers are not waited for; what
\* is still pending may be handled or, as no fairness is asked of Handler, never be.
Stop ==
  /\ mainPc = "running" /\ mainPc' = "normalizing"
  /\ owed' = {n \in Names : metrics[n] # NoMetric}
  /\ UNCHANGED <<apiVars, view, pending, handlerVars, unread, norm>>

\* Range comes to n, once at most and perhaps to an entry made since it began; an
\* entry without a latency is left out.
Normalize(n) ==
  /\ mainPc = "normalizing" /\ n \in unread /\ metrics[n] # NoMetric
  /\ unread' = unread \ {n}
  /\ norm' = IF metrics[n].lat < 0 THEN norm ELSE [norm EXCEPT ![n] = metrics[n].lat]
  /\ UNCHANGED <<apiVars, view, pending, handlerVars, mainPc, owed>>

StopOver ==
  /\ mainPc = "normalizing" /\ owed \cap unread = {}
  /\ mainPc' = "done"
  /\ UNCHANGED <<apiVars, view, pending, handlerVars, owed, unread, norm>>

Over == mainPc = "done" /\ UNCHANGED vars

Api == Tick \/ \E n \in Names : Create(n) \/ Allocate(n) \/ Unallocate(n) \/ Delete(n)
Handler == HandleAdd \/ Load \/ Store
Main == Stop \/ (\E n \in Names : Normalize(n)) \/ StopOver

Next == Api \/ (\E n \in Names : Observe(n)) \/ Handler \/ Main \/ Over

Spec == Init /\ [][Next]_vars

-----------------------------------------------------------------------------
(* Properties *)

Times == 0..MaxTime
Object == [created : Times, alloc : Times \cup {None, Unstamped}]
Metric == [ts : Times, lat : Times \cup {None}]

TypeOK ==
  /\ now \in Times /\ changes \in 0..MaxChanges /\ deleted \subseteq Names
  /\ api \in [Names -> Object \cup {NoObject}]
  /\ view \in [Names -> Object \cup {NoObject}]
  /\ pending \in Seq([kind : {"add", "update"}, name : Names, object : Object])
  /\ mainPc \in {"running", "normalizing", "done"}
  /\ updating \in [kind : {"update"}, name : Names, object : Object] \cup {Idle}
  /\ local \in Metric \cup {NoMetric}
  /\ metrics \in [Names -> Metric \cup {NoMetric}]
  /\ owed \subseteq Names /\ unread \subseteq Names
  /\ norm \in [Names -> Times \cup {None}]

\* What handleUpdate is about to store is the entry of its name, as it still is, with
\* the latency it did not have: no other step writes an entry that exists.
StoreCompletes ==
  updating # Idle =>
    LET n == updating.name IN
      /\ metrics[n] # NoMetric /\ metrics[n].lat = None
      /\ local = [metrics[n] EXCEPT !.lat = local.lat] /\ local.lat \in Times

\* An object is made, then allocated, then seen.
Sound(object) ==
  object # NoObject =>
    /\ object.created <= now
    /\ object.alloc \in Times => object.created <= object.alloc /\ object.alloc <= now

ObjectsSound == (\A n \in Names : Sound(api[n])) /\ (\A i \in 1..Len(pending) : Sound(pending[i].object))

NotAfter(t, n) == api[n] # NoObject => t <= api[n].created

\* Of one name, what is told later was made later; the entry is from the first of all.
\* So no latency is negative, which the code would take for "not yet".
ToldInOrder ==
  /\ \A i \in 1..Len(pending) : NotAfter(pending[i].object.created, pending[i].name)
  /\ \A i, j \in 1..Len(pending) :
       i < j /\ pending[i].name = pending[j].name => pending[i].object.created <= pending[j].object.created

StartsFirst ==
  \A n \in Names : metrics[n] # NoMetric =>
    /\ metrics[n].ts <= now /\ NotAfter(metrics[n].ts, n)
    /\ \A i \in 1..Len(pending) : pending[i].name = n => metrics[n].ts <= pending[i].object.created

IInv == TypeOK /\ StoreCompletes /\ ObjectsSound /\ ToldInOrder /\ StartsFirst

\* Nothing on its way: the measurement is not stopped, the informer is up to date and
\* the handlers are idle.
Settled == mainPc = "running" /\ view = api /\ pending = <<>> /\ updating = Idle

\* No CUDN is missed: however the informer skips states, a CUDN whose condition is
\* True has its latency once all is settled, unless its name was used before.
NoneMissed ==
  Settled => \A n \in Names \ deleted : api[n].alloc # None => metrics[n].lat >= 0

ToldOf(n) == {i \in 1..Len(pending) : pending[i].name = n}

\* The inductive invariant behind NoneMissed, for a name that was not used before: an add
\* comes first and makes the entry, and an allocation that the informer saw is recorded,
\* about to be stored, or still to be told.
Followed(n) ==
  /\ view[n] # NoObject => api[n] # NoObject
  /\ view[n] = NoObject => metrics[n] = NoMetric /\ ToldOf(n) = {}
  /\ view[n] # NoObject /\ metrics[n] = NoMetric => ToldOf(n) # {}
  /\ \A i \in ToldOf(n) :
       pending[i].kind = "add" <=> metrics[n] = NoMetric /\ \A j \in ToldOf(n) : j >= i
  /\ view[n].alloc # None =>
       \/ metrics[n].lat >= 0
       \/ updating # Idle /\ updating.name = n
       \/ \E i \in ToldOf(n) : pending[i].object.alloc # None

AllFollowed == \A n \in Names \ deleted : Followed(n)

\* The cudn-density README: the measurement "tracks how long each CUDN takes from
\* creation to NetworkAllocationSucceeded=True".  Once all is settled, the entry of a
\* CUDN that exists is about that CUDN and not about an earlier one of its name.
OfThisCudn ==
  Settled => \A n \in Names :
    api[n] # NoObject /\ metrics[n] # NoMetric => metrics[n].ts = api[n].created

\* The measurement keeps the promise of the ledger: one start time and one latency
\* per name, and the one that is indexed is the one that stays recorded, although
\* the condition may change again and handlers run on while Stop normalises.
Ledger == INSTANCE LatencyLedger WITH entry <- metrics, published <- norm
LedgerHolds == Ledger!Spec
=============================================================================
