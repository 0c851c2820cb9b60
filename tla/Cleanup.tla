------------------------------- MODULE Cleanup ------------------------------
(***************************************************************************)
(* cleanupTestNamespaces, what --cleanup of the virtualisation workloads   *)
(* does: list the namespaces of the test, delete them, then delete the     *)
(* cluster-scoped objects that belonged to them, the                       *)
(* VolumeSnapshotContents first and the PersistentVolumes after them, and  *)
(* poll until those are gone.  Neither wait has a deadline, and both are   *)
(* also for what no one may ever delete: a namespace whose deletion was    *)
(* refused, and the objects that only go with it.                          *)
(*                                                                         *)
(* An object is found by the namespace it refers to.  The program may be   *)
(* killed at any time and run again.  Its context has no deadline.         *)
(***************************************************************************)
EXTENDS Integers

CONSTANTS Spaces,    \* namespaces that carry the label of the test
          Vscs,      \* VolumeSnapshotContents
          Pvs,       \* PersistentVolumes
          MaxKills   \* bound: how often the program is killed

ASSUME KindsAssumption == Vscs \cap Pvs = {}
ASSUME SpacesAssumption == Spaces # {}
ASSUME MaxKillsAssumption == MaxKills \in Nat

Items == Vscs \cup Pvs
Nobody == "nobody"    \* not claimed, or by a namespace that is not of the test

VARIABLES
  live,      \* namespaces of the test that exist
  terminating,   \* those whose deletion the cluster has accepted
  present,   \* objects that exist
  doomed,    \* those the program asked to delete
  owner,     \* the namespace an object refers to
  auto,      \* its policy is Delete: it goes once its namespace has gone
  pc,        \* where the program stands
  kind,      \* the objects it is at, "vsc" or "pv"
  names,     \* namespaceNamesMap
  toDelete,  \* namespaces it has yet to ask to delete
  todo,      \* listed objects it has not looked at
  deleting,  \* deletingVSCs, deletingPVs
  failed,    \* history: some call of this run failed
  kills      \* history: how often the program was killed

clusterVars == <<live, terminating, present, doomed, owner, auto>>
loopVars == <<names, toDelete, todo, deleting>>
vars == <<clusterVars, pc, kind, loopVars, failed, kills>>

\* An earlier run of the test left its namespaces and what they claimed.
Init ==
  /\ live = Spaces /\ terminating = {} /\ present = Items /\ doomed = {}
  /\ owner \in [Items -> Spaces \cup {Nobody}] /\ auto \in [Items -> BOOLEAN]
  /\ pc = "start" /\ kind = "vsc"
  /\ names = {} /\ toDelete = {} /\ todo = {} /\ deleting = {}
  /\ failed = FALSE /\ kills = 0

-----------------------------------------------------------------------------
(* The cluster *)

\* A namespace under deletion goes, with the claims in it, whatever the program does.
NamespaceGoes(n) ==
  /\ n \in terminating \cap live
  /\ live' = live \ {n}
  /\ UNCHANGED <<terminating, present, doomed, owner, auto, pc, kind, loopVars, failed, kills>>

\* An object goes when it was asked to, or by its policy when its namespace has gone.
ItemGoes(i) ==
  /\ i \in present
  /\ i \in doomed \/ (auto[i] /\ owner[i] \in Spaces \ live)
  /\ present' = present \ {i}
  /\ UNCHANGED <<live, terminating, doomed, owner, auto, pc, kind, loopVars, failed, kills>>

-----------------------------------------------------------------------------
(* cleanupTestNamespaces *)

Goto(from, to) == pc = from /\ pc' = to

\* No namespace is found: nothing is left to do.  A failed list is fatal.
ListNamespaces ==
  /\ \/ live = {} /\ Goto("start", "done") /\ UNCHANGED <<names, toDelete, failed>>
     \/ /\ live # {} /\ Goto("start", "namespaces")
        /\ names' = live /\ toDelete' = live /\ UNCHANGED failed
     \/ Goto("start", "fatal") /\ failed' = TRUE /\ UNCHANGED <<names, toDelete>>
  /\ UNCHANGED <<clusterVars, kind, todo, deleting, kills>>

\* CleanupNamespacesByLabel asks to delete them one by one; one that is refused is only
\* logged ...
DeleteNamespace(n) ==
  /\ pc = "namespaces" /\ n \in toDelete
  /\ toDelete' = toDelete \ {n}
  /\ \/ terminating' = terminating \cup {n} /\ UNCHANGED failed
     \/ failed' = TRUE /\ UNCHANGED terminating
  /\ UNCHANGED <<live, present, doomed, owner, auto, pc, kind, names, todo, deleting, kills>>

\* ... and returns when all are gone ...
NamespacesDeleted ==
  /\ Goto("namespaces", "list")
  /\ toDelete = {} /\ names \cap live = {}
  /\ UNCHANGED <<clusterVars, kind, loopVars, failed, kills>>

\* ... or gives up because a list fails, which it logs: the clean-up goes on.
NamespacesNotDeleted ==
  /\ Goto("namespaces", "list")
  /\ failed' = TRUE
  /\ UNCHANGED <<clusterVars, kind, loopVars, kills>>

OfKind == IF kind = "vsc" THEN Vscs ELSE Pvs

\* The kind is done with: PersistentVolumes follow VolumeSnapshotContents.
NextKind ==
  /\ pc' = IF kind = "vsc" THEN "list" ELSE "done"
  /\ kind' = "pv"

\* The objects of the kind are listed; when that fails, the kind is left out.
List ==
  /\ pc = "list"
  /\ \/ /\ pc' = "look"
        /\ todo' = present \cap OfKind /\ deleting' = {}
        /\ UNCHANGED <<kind, failed>>
     \/ NextKind /\ failed' = TRUE /\ UNCHANGED <<todo, deleting>>
  /\ UNCHANGED <<clusterVars, names, toDelete, kills>>

\* Mutant: what goes by its own policy is not waited for.
DeleteAutoIgnored(i) ==
  IF auto[i] THEN UNCHANGED <<doomed, deleting, failed>>
  ELSE \/ doomed' = doomed \cup {i} /\ deleting' = deleting \cup {i} /\ UNCHANGED failed
       \/ failed' = TRUE /\ UNCHANGED <<doomed, deleting>>

\* Mutant: an object is waited for although asking to delete it failed.
DeleteFailedAwaited(i) ==
  /\ deleting' = deleting \cup {i}
  /\ IF auto[i] THEN UNCHANGED <<doomed, failed>>
     ELSE \/ doomed' = doomed \cup {i} /\ UNCHANGED failed
          \/ failed' = TRUE /\ UNCHANGED doomed

\* The delete call is made unless the object goes by its own policy, whether or not its
\* namespace is going; an object for which the call fails is left alone.
DeleteItem(i) ==
  IF auto[i] THEN deleting' = deleting \cup {i} /\ UNCHANGED <<doomed, failed>>
  ELSE \/ doomed' = doomed \cup {i} /\ deleting' = deleting \cup {i} /\ UNCHANGED failed
       \/ failed' = TRUE /\ UNCHANGED <<doomed, deleting>>

\* Mutant: the test for the namespace of an object is turned round.
ClaimedWrongly(i) == owner[i] \notin names

Claimed(i) == owner[i] \in names

\* The loop over the listed objects: those of other namespaces are passed over.
Look(i) ==
  /\ pc = "look" /\ i \in todo
  /\ todo' = todo \ {i}
  /\ IF Claimed(i) THEN DeleteItem(i) ELSE UNCHANGED <<doomed, deleting, failed>>
  /\ UNCHANGED <<live, terminating, present, owner, auto, pc, kind, names, toDelete, kills>>

\* PollUntilContextCancel finds none of the objects listed any more ...
Poll ==
  /\ pc = "look" /\ todo = {}
  /\ deleting \cap present = {}
  /\ NextKind
  /\ UNCHANGED <<clusterVars, loopVars, failed, kills>>

\* ... or a list in it fails, which ends the wait and is logged.
PollFails ==
  /\ pc = "look" /\ todo = {}
  /\ NextKind
  /\ failed' = TRUE
  /\ UNCHANGED <<clusterVars, loopVars, kills>>

Kill ==
  /\ pc \notin {"done", "fatal", "killed"} /\ kills < MaxKills
  /\ pc' = "killed" /\ kills' = kills + 1
  /\ UNCHANGED <<clusterVars, kind, loopVars, failed>>

\* --cleanup is run again.
Rerun ==
  /\ Goto("killed", "start")
  /\ kind' = "vsc" /\ names' = {} /\ toDelete' = {} /\ todo' = {} /\ deleting' = {}
  /\ failed' = FALSE
  /\ UNCHANGED <<clusterVars, kills>>

\* Steps the program takes by itself, and those it waits for.
Program ==
  \/ ListNamespaces \/ (\E n \in Spaces : DeleteNamespace(n)) \/ NamespacesDeleted
  \/ List \/ (\E i \in Items : Look(i)) \/ Poll
CallsFail == NamespacesNotDeleted \/ PollFails

Over == pc \in {"done", "fatal", "killed"} /\ UNCHANGED vars

Next ==
  \/ \E n \in Spaces : NamespaceGoes(n)
  \/ \E i \in Items : ItemGoes(i)
  \/ Program \/ CallsFail \/ Kill \/ Rerun \/ Over

\* The program runs on, and the cluster carries out the deletions it has accepted; a
\* deleted object may be kept for as long as its namespace still uses it.  No call has to
\* fail or to succeed.
Fairness ==
  /\ WF_vars(Program)
  /\ \A n \in Spaces : WF_vars(NamespaceGoes(n))
  /\ \A i \in Items : WF_vars(owner[i] \notin live /\ ItemGoes(i))

Spec == Init /\ [][Next]_vars /\ Fairness

-----------------------------------------------------------------------------
(* Properties *)

Ours(i) == owner[i] \in Spaces

\* Nothing is deleted that does not belong to the test, nor what goes by itself.
OthersKept == \A i \in doomed : Ours(i) /\ ~auto[i]

\* "Cleanup resources created by previous runs": a run of --cleanup in which no call
\* failed leaves nothing of the test behind.
CleanupComplete == pc = "done" /\ ~failed => \A i \in present : ~Ours(i)

\* The same as long as the program was never killed.
UninterruptedComplete == kills = 0 => CleanupComplete

\* The program waits for what nobody is deleting: a namespace whose deletion was refused,
\* or an object in the list of those being deleted whose namespace stays.
AwaitsSpace == pc = "namespaces" /\ \E n \in names : n \in live \ terminating
AwaitsItem ==
  pc = "look" /\ \E i \in deleting \cap present : owner[i] \in live \ terminating

\* --cleanup comes to an end, whatever calls fail on its way, with one exception: the
\* polls have no deadline, and where the deletion of a namespace was refused they may wait
\* for it, or for an object of it, for ever.  Nothing else keeps them: not an object for
\* which the delete call failed, and not one that goes by its own policy.
CleanupEnds ==
  pc = "start" ~> (pc \in {"done", "fatal", "killed"} \/ [](AwaitsSpace \/ AwaitsItem))

-----------------------------------------------------------------------------
(* The inductive invariant behind UninterruptedComplete *)

TypeOK ==
  /\ live \subseteq Spaces /\ terminating \subseteq Spaces
  /\ present \subseteq Items /\ doomed \subseteq Items
  /\ owner \in [Items -> Spaces \cup {Nobody}] /\ auto \in [Items -> BOOLEAN]
  /\ pc \in {"start", "namespaces", "list", "look", "done", "fatal", "killed"}
  /\ kind \in {"vsc", "pv"}
  /\ names \subseteq Spaces /\ toDelete \subseteq Spaces
  /\ todo \subseteq Items /\ deleting \subseteq Items
  /\ failed \in BOOLEAN /\ kills \in 0..MaxKills

Smooth == kills = 0 /\ ~failed

\* In a run that went smoothly so far, what is left of the test is of a kind that is
\* still to come, not looked at yet, or waited for.
Progress ==
  Smooth =>
    /\ pc = "start" => live = Spaces /\ terminating = {}
    /\ pc # "start" => names = Spaces
    /\ pc \in {"start", "namespaces"} => kind = "vsc"
    /\ pc = "list" /\ kind = "pv" => \A i \in present \cap Vscs : ~Ours(i)
    /\ pc = "look" => \A i \in present \cap OfKind : Ours(i) => i \in todo \cup deleting
    /\ pc = "look" /\ kind = "pv" => \A i \in present \cap Vscs : ~Ours(i)
    /\ pc = "done" => \A i \in present : ~Ours(i)

Kills == pc = "killed" => kills # 0

IInv == TypeOK /\ OthersKept /\ Progress /\ Kills
=============================================================================
