---------------------------- MODULE CleanupProofs ---------------------------
(***************************************************************************)
(* For any namespaces and objects: cleanupTestNamespaces deletes nothing   *)
(* of others, and a run that was not disturbed leaves nothing of the test. *)
(***************************************************************************)
EXTENDS Cleanup, TLAPS

USE DEF TypeOK, Kills

LEMMA InitInv == Init => IInv
<1> SUFFICES ASSUME Init PROVE IInv
  OBVIOUS
<1>1. TypeOK
  <2>1. 0 \in 0..MaxKills
    BY MaxKillsAssumption
  <2>2. owner \in [Items -> Spaces \cup {Nobody}] /\ auto \in [Items -> BOOLEAN]
    BY DEF Init
  <2> QED
    BY <2>1, <2>2 DEF Init
<1>2. OthersKept /\ Progress
  BY DEF Init, OthersKept, Progress
<1> QED
  BY <1>1, <1>2 DEF Init, IInv

\* Steps that leave the cluster and the history alone keep what was deleted.
LEMMA Frame ==
  ASSUME IInv, UNCHANGED clusterVars
  PROVE  OthersKept' /\ (\A i \in Items : Ours(i)' <=> Ours(i))
BY DEF clusterVars, IInv, OthersKept, Ours

-----------------------------------------------------------------------------
(* The cluster *)

LEMMA NamespaceGoesInv == ASSUME IInv, NEW n \in Spaces, NamespaceGoes(n) PROVE IInv'
BY DEF IInv, NamespaceGoes, loopVars, OthersKept, Ours, Progress, Smooth, OfKind

LEMMA ItemGoesInv == ASSUME IInv, NEW i \in Items, ItemGoes(i) PROVE IInv'
BY DEF IInv, ItemGoes, loopVars, OthersKept, Ours, Progress, Smooth, OfKind

-----------------------------------------------------------------------------
(* The program *)

LEMMA ListNamespacesInv == ASSUME IInv, ListNamespaces PROVE IInv'
<1> USE DEF ListNamespaces, Goto, clusterVars
<1>1. TypeOK'
  BY DEF IInv
<1>2. Progress'
  BY SpacesAssumption DEF IInv, Progress, Smooth
<1> QED
  BY <1>1, <1>2, Frame DEF IInv

LEMMA DeleteNamespaceInv == ASSUME IInv, NEW n \in Spaces, DeleteNamespace(n) PROVE IInv'
<1> USE DEF DeleteNamespace
<1>1. TypeOK'
  BY DEF IInv
<1>2. OthersKept' /\ Progress'
  BY DEF IInv, OthersKept, Ours, Progress, Smooth, OfKind
<1> QED
  BY <1>1, <1>2 DEF IInv

LEMMA NamespacesInv ==
  ASSUME IInv, NamespacesDeleted \/ NamespacesNotDeleted
  PROVE  IInv'
<1> USE DEF NamespacesDeleted, NamespacesNotDeleted, Goto, clusterVars, loopVars
<1>1. TypeOK'
  BY DEF IInv
<1>2. Progress'
  BY DEF IInv, Progress, Smooth
<1> QED
  BY <1>1, <1>2, Frame DEF IInv

LEMMA ListInv == ASSUME IInv, List PROVE IInv'
<1> USE DEF List, NextKind, clusterVars
<1>1. TypeOK'
  BY DEF IInv, OfKind
<1>2. Progress'
  BY DEF IInv, Progress, Smooth, OfKind, Ours
<1> QED
  BY <1>1, <1>2, Frame DEF IInv

\* An object of another namespace is passed over; one of the test is waited for,
\* unless asking to delete it fails.
LEMMA LookInv == ASSUME IInv, NEW i \in Items, Look(i) PROVE IInv'
<1> USE DEF Look, DeleteItem
<1>1. TypeOK'
  BY DEF IInv
<1>2. OthersKept'
  BY DEF IInv, OthersKept, Ours, Claimed
<1>3. Progress'
  <2> SUFFICES ASSUME Smooth' PROVE Progress'
    BY DEF Progress
  <2>1. Smooth /\ names = Spaces
    BY DEF Smooth, IInv, Progress
  <2>2. ASSUME NEW j \in (present \cap OfKind)', Ours(j)' PROVE j \in (todo \cup deleting)'
    <3>1. j \in todo \cup deleting
      BY <2>1, <2>2 DEF IInv, Progress, OfKind, Ours
    <3>2. CASE j = i
      BY <2>1, <2>2, <3>2 DEF Claimed, Ours, Smooth
    <3>3. CASE j # i
      BY <3>1, <3>3
    <3> QED
      BY <3>2, <3>3
  <2> QED
    BY <2>1, <2>2 DEF IInv, Progress, Ours
<1> QED
  BY <1>1, <1>2, <1>3 DEF IInv

LEMMA PollInv == ASSUME IInv, Poll \/ PollFails PROVE IInv'
<1> USE DEF Poll, PollFails, NextKind, clusterVars, loopVars
<1>1. TypeOK'
  BY DEF IInv
<1>2. Progress'
  BY DEF IInv, Progress, Smooth, OfKind, Ours, Items
<1> QED
  BY <1>1, <1>2, Frame DEF IInv

LEMMA KillInv == ASSUME IInv, Kill \/ Rerun PROVE IInv'
<1> USE DEF Kill, Rerun, Goto, clusterVars, loopVars
<1>1. TypeOK'
  <2>1. CASE Kill
    <3>1. kills + 1 \in 0..MaxKills
      BY <2>1, MaxKillsAssumption DEF IInv
    <3> QED
      BY <2>1, <3>1 DEF IInv
  <2>2. CASE Rerun
    BY <2>2 DEF IInv
  <2> QED
    BY <2>1, <2>2
<1>2. kills' # 0
  BY MaxKillsAssumption DEF IInv, Progress, Smooth
<1> QED
  BY <1>1, <1>2, Frame DEF IInv, Progress, Smooth

-----------------------------------------------------------------------------
(* The theorems *)

LEMMA NextInv == IInv /\ [Next]_vars => IInv'
<1> SUFFICES ASSUME IInv, [Next]_vars PROVE IInv'
  OBVIOUS
<1>1. CASE \E n \in Spaces : NamespaceGoes(n)
  BY <1>1, NamespaceGoesInv
<1>2. CASE \E i \in Items : ItemGoes(i)
  BY <1>2, ItemGoesInv
<1>3. CASE Program
  BY <1>3, ListNamespacesInv, DeleteNamespaceInv, NamespacesInv, ListInv, LookInv, PollInv DEF Program
<1>4. CASE CallsFail
  BY <1>4, NamespacesInv, PollInv DEF CallsFail
<1>5. CASE Kill \/ Rerun
  BY <1>5, KillInv
<1>6. CASE UNCHANGED vars
  BY <1>6 DEF vars, clusterVars, loopVars, IInv, OthersKept, Ours, Progress, Smooth, OfKind
<1> QED
  BY <1>1, <1>2, <1>3, <1>4, <1>5, <1>6 DEF Next, Over

\* The inductive invariant holds for any namespaces, objects and number of kills.
THEOREM Invariance == Spec => []IInv
BY InitInv, NextInv, PTL DEF Spec

\* Only objects of the test that would not go by themselves are ever deleted.
THEOREM OthersKeptHolds == Spec => []OthersKept
<1>1. IInv => OthersKept
  BY DEF IInv
<1> QED
  BY <1>1, Invariance, PTL

\* A run of --cleanup that was neither killed nor met an error leaves nothing behind.
THEOREM UninterruptedCompleteHolds == Spec => []UninterruptedComplete
<1>1. IInv => UninterruptedComplete
  BY DEF IInv, Progress, Smooth, UninterruptedComplete, CleanupComplete
<1> QED
  BY <1>1, Invariance, PTL
=============================================================================
