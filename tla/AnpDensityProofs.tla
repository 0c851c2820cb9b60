-------------------------- MODULE AnpDensityProofs --------------------------
(***************************************************************************)
(* For any namespaces, whatever an earlier run left: the namespaces the    *)
(* loop is past have the label of their tenant, and the tenants their      *)
(* policies, which share a priority only when the priorities wrapped.      *)
(***************************************************************************)
EXTENDS AnpDensity, FiniteSetTheorems, SequenceTheorems, TLAPS

-----------------------------------------------------------------------------
(* Lemmas about numbers *)

LEMMA Divided ==
  ASSUME NEW d \in Nat \ {0}, NEW x \in Nat
  PROVE  /\ x \div d \in Nat /\ x % d \in 0..(d - 1)
         /\ x = d * (x \div d) + (x % d)
OBVIOUS

\* Quotient and remainder are determined by what they are for.
LEMMA DividedOnce ==
  ASSUME NEW d \in Nat \ {0}, NEW q \in Nat, NEW r \in 0..(d - 1)
  PROVE  (d * q + r) \div d = q /\ (d * q + r) % d = r
OBVIOUS

\* One more.
LEMMA OneMore ==
  ASSUME NEW d \in Nat \ {0}, NEW x \in Nat
  PROVE  /\ (x + 1) % d = IF (x % d) + 1 = d THEN 0 ELSE (x % d) + 1
         /\ (x + 1) \div d = IF (x + 1) % d = 0 THEN (x \div d) + 1 ELSE x \div d
<1> DEFINE q == x \div d
           r == x % d
<1>1. q \in Nat /\ r \in 0..(d - 1) /\ x = d * q + r
  BY Divided
<1> HIDE DEF q, r
<1>2. CASE r + 1 = d
  <2>1. x + 1 = d * (q + 1) + 0 /\ q + 1 \in Nat /\ 0 \in 0..(d - 1)
    BY <1>1, <1>2
  <2>2. (d * (q + 1) + 0) \div d = q + 1 /\ (d * (q + 1) + 0) % d = 0
    <3>1. q + 1 \in Nat /\ 0 \in 0..(d - 1)
      BY <2>1
    <3> QED
      BY <3>1, DividedOnce
  <2>3. (x + 1) \div d = q + 1 /\ (x + 1) % d = 0
    BY <2>1, <2>2
  <2> QED
    BY <1>2, <2>3 DEF q, r
<1>3. CASE r + 1 # d
  <2>1. x + 1 = d * q + (r + 1) /\ r + 1 \in 0..(d - 1)
    BY <1>1, <1>3
  <2>2. (x + 1) \div d = q /\ (x + 1) % d = r + 1
    BY <1>1, <2>1, DividedOnce
  <2> QED
    BY <1>1, <1>3, <2>2 DEF q, r
<1> QED
  BY <1>2, <1>3

\* The tenant and the priority after the next step of the loop.
LEMMA NextTenantOf ==
  ASSUME NEW n \in Nat
  PROVE  TenantOf(n + 1) = IF (n + 1) % PerTenant = 0 THEN TenantOf(n) + 1 ELSE TenantOf(n)
<1>1. PerTenant \in Nat \ {0} /\ n \div PerTenant \in Nat
  BY TenantAssumption, Divided
<1>2. (n + 1) \div PerTenant = IF (n + 1) % PerTenant = 0 THEN (n \div PerTenant) + 1 ELSE n \div PerTenant
  BY <1>1, OneMore
<1> QED
  BY <1>1, <1>2 DEF TenantOf

LEMMA NextPriorityOf ==
  ASSUME NEW t \in Nat \ {0}
  PROVE  PriorityOf(t) \in 1..LastPriority /\ PriorityOf(t + 1) = Wrap(PriorityOf(t))
<1>1. LastPriority \in Nat \ {0} /\ t - 1 \in Nat
  BY TenantAssumption
<1>2. (t - 1) % LastPriority \in 0..(LastPriority - 1)
  BY <1>1, Divided
<1>3. ((t - 1) + 1) % LastPriority =
        IF ((t - 1) % LastPriority) + 1 = LastPriority THEN 0 ELSE ((t - 1) % LastPriority) + 1
  BY <1>1, OneMore
<1>4. (t - 1) + 1 = t /\ (t + 1) - 1 = t
  OBVIOUS
<1> QED
  BY <1>1, <1>2, <1>3, <1>4 DEF PriorityOf, Wrap

LEMMA TenantType ==
  ASSUME NEW n \in Nat
  PROVE  TenantOf(n) \in Nat \ {0}
BY TenantAssumption, Divided DEF TenantOf

-----------------------------------------------------------------------------
(* The invariant *)

LEMMA InitInv == Init => IInv
<1> SUFFICES ASSUME NEW earlier \in SUBSET Namespaces, InitAfter(earlier) PROVE IInv
  BY DEF Init
<1> DEFINE before(ns) == {m \in earlier : m < ns}
           tenant(ns) == TenantOf(Cardinality(before(ns)))
<1>1. ASSUME NEW ns PROVE tenant(ns) \in Nat \ {0}
  <2>1. IsFiniteSet(Namespaces) /\ before(ns) \in SUBSET Namespaces
    BY NamespacesAssumption
  <2>2. Cardinality(before(ns)) \in Nat
    BY <2>1, FS_Subset, FS_CardinalityType
  <2> QED
    BY <2>2, TenantType
<1>2. /\ customerTenant = [ns \in Namespaces |-> IF ns \in earlier THEN tenant(ns) ELSE 0]
      /\ policies = {PolicyOf(tenant(ns)) : ns \in earlier}
  BY DEF InitAfter, LeftBy
<1> HIDE DEF tenant
<1>3. customerTenant \in [Namespaces -> Nat]
  BY <1>1, <1>2
<1>4. OfTenants
  BY <1>1, <1>2 DEF OfTenants, PolicyOf
<1>5. TypeOK
  <2>1. sourceNsList \in Seq(Namespaces) /\ Len(sourceNsList) = 0 /\ nsIdx = 0 /\ tenantID = 1
    BY DEF InitAfter
  <2>2. phase = "idle" /\ err \in BOOLEAN /\ newTenant \in BOOLEAN /\ verified \in BOOLEAN
    BY DEF InitAfter
  <2> QED
    BY <1>3, <2>1, <2>2 DEF TypeOK
<1>6. InLoop
  BY TenantAssumption DEF InitAfter, InLoop, PriorityOf
<1>7. ListedOnce /\ TenantsCovered
  BY DEF InitAfter, ListedOnce, TenantsCovered
<1> QED
  BY <1>4, <1>5, <1>6, <1>7 DEF IInv

USE DEF loop, cluster, Return

LEMMA ListNamespacesInv == ASSUME IInv, ListNamespaces PROVE IInv'
<1> USE DEF ListNamespaces, IInv
<1>0. nsIdx' = 0 /\ nsIdx = 0
  BY DEF InLoop
<1>1. CASE Return(TRUE) /\ UNCHANGED sourceNsList
  BY <1>1 DEF TypeOK, ListedOnce, InLoop, OfTenants, TenantsCovered
<1>2. CASE \E set \in (SUBSET Namespaces) \ {{}} :
             sourceNsList' \in Listings(set) /\ phase' = "list" /\ UNCHANGED err
  <2>1. PICK set \in SUBSET Namespaces : sourceNsList' \in Listings(set)
    BY <1>2
  <2>2. Cardinality(set) \in Nat /\ set \subseteq Nat
    BY NamespacesAssumption, FS_Subset, FS_CardinalityType
  <2>3. /\ sourceNsList' \in [1..Cardinality(set) -> set]
        /\ \A m, n \in DOMAIN sourceNsList' : m < n => sourceNsList'[m] < sourceNsList'[n]
    BY <2>1 DEF Listings
  <2>4. sourceNsList' \in Seq(Namespaces) /\ Len(sourceNsList') \in Nat
    <3>1. sourceNsList' \in [1..Cardinality(set) -> Namespaces]
      BY <2>3
    <3>2. sourceNsList' \in Seq(Namespaces)
      BY <2>2, <3>1, SeqDef
    <3> QED
      BY <3>2, LenProperties
  <2>5. ListedOnce'
    <3> SUFFICES ASSUME NEW m \in DOMAIN sourceNsList', NEW n \in DOMAIN sourceNsList', m # n
                 PROVE  sourceNsList'[m] # sourceNsList'[n]
      BY DEF ListedOnce
    <3>0. DOMAIN sourceNsList' = 1..Cardinality(set)
      BY <2>3
    <3>1. m \in 1..Cardinality(set) /\ n \in 1..Cardinality(set)
      BY <3>0
    <3>2. sourceNsList'[m] \in Nat /\ sourceNsList'[n] \in Nat
      <4>1. sourceNsList'[m] \in set /\ sourceNsList'[n] \in set
        BY <2>3, <3>1
      <4> QED
        BY <2>2, <4>1
    <3>3. CASE m < n
      <4>1. sourceNsList'[m] < sourceNsList'[n]
        BY <2>3, <3>3
      <4> HIDE DEF ListNamespaces
      <4> QED
        BY <3>2, <4>1
    <3>4. CASE n < m
      <4>1. sourceNsList'[n] < sourceNsList'[m]
        BY <2>3, <3>4
      <4> HIDE DEF ListNamespaces
      <4> QED
        BY <3>2, <4>1
    <3> QED
      BY <2>2, <3>1, <3>3, <3>4
  <2>6. TypeOK' /\ InLoop' /\ OfTenants'
    BY <1>0, <1>2, <2>4 DEF TypeOK, InLoop, OfTenants
  <2>7. TenantsCovered'
    BY <1>0 DEF TenantsCovered
  <2> QED
    BY <2>5, <2>6, <2>7
<1> QED
  BY <1>1, <1>2

LEMMA ListPoliciesInv == ASSUME IInv, ListPolicies PROVE IInv'
<1> USE DEF ListPolicies, IInv
<1>1. TypeOK' /\ ListedOnce' /\ OfTenants' /\ TenantsCovered'
  BY DEF TypeOK, ListedOnce, OfTenants, TenantsCovered
<1>2. InLoop'
  BY DEF InLoop
<1> QED
  BY <1>1, <1>2

\* The head of the loop.
LEMMA AtHead ==
  ASSUME IInv, LabelNamespace
  PROVE  /\ nsIdx \in Nat /\ nsIdx + 1 \in DOMAIN sourceNsList
         /\ tenantID' = TenantOf(nsIdx) /\ tenantID' \in Nat \ {0} /\ priority' = PriorityOf(tenantID')
         /\ newTenant' = (nsIdx % PerTenant = 0)
<1> USE DEF LabelNamespace, IInv
<1>0. nsIdx \in Nat /\ nsIdx + 1 \in DOMAIN sourceNsList /\ tenantID \in Nat \ {0} /\ newTenant \in BOOLEAN
      /\ priority = PriorityOf(tenantID) /\ phase = "label"
  BY DEF TypeOK, InLoop
<1>1. tenantID' = NextTenant /\ priority' = NextPriority /\ newTenant' = Begins
  OBVIOUS
<1>2. priority' = PriorityOf(tenantID')
  BY <1>0, <1>1, NextPriorityOf DEF NextTenant, NextPriority
<1>3. CASE nsIdx = 0
  <2>1. tenantID = 1 /\ newTenant
    BY <1>0, <1>3 DEF InLoop
  <2>2. TenantOf(0) = 1 /\ 0 % PerTenant = 0
    BY TenantAssumption DEF TenantOf
  <2> QED
    BY <1>0, <1>1, <1>2, <1>3, <2>1, <2>2 DEF NextTenant, Boundary, Begins
<1>4. CASE nsIdx > 0
  <2>1. tenantID = TenantOf(nsIdx - 1) /\ ~newTenant
    BY <1>0, <1>4 DEF InLoop
  <2>2. TenantOf((nsIdx - 1) + 1) =
          IF ((nsIdx - 1) + 1) % PerTenant = 0 THEN TenantOf(nsIdx - 1) + 1 ELSE TenantOf(nsIdx - 1)
    <3>1. nsIdx - 1 \in Nat
      BY <1>0, <1>4
    <3> QED
      BY <3>1, NextTenantOf
  <2>3. (nsIdx - 1) + 1 = nsIdx
    BY <1>0
  <2>4. TenantOf(nsIdx) \in Nat \ {0}
    BY <1>0, TenantType
  <2> QED
    BY <1>0, <1>1, <1>2, <1>4, <2>1, <2>2, <2>3, <2>4 DEF NextTenant, Boundary, Begins
<1>5. nsIdx = 0 \/ nsIdx > 0
  BY <1>0
<1> HIDE DEF LabelNamespace, IInv
<1> QED
  BY <1>3, <1>4, <1>5

LEMMA LabelNamespaceInv == ASSUME IInv, LabelNamespace PROVE IInv'
<1> USE DEF LabelNamespace, IInv
<1> DEFINE ns == sourceNsList[nsIdx + 1]
<1>0. /\ nsIdx \in Nat /\ nsIdx + 1 \in DOMAIN sourceNsList /\ ns \in Namespaces
      /\ customerTenant \in [Namespaces -> Nat] /\ sourceNsList \in Seq(Namespaces)
      /\ nsIdx \in 0..Len(sourceNsList)
  BY AtHead DEF TypeOK
<1>1. UNCHANGED <<sourceNsList, nsIdx, policies, verified>>
  OBVIOUS
<1>2. \/ /\ customerTenant' = [customerTenant EXCEPT ![ns] = tenantID']
         /\ phase' = "apply" /\ err' = err
      \/ phase' = "done" /\ err' = TRUE /\ customerTenant' = customerTenant
  OBVIOUS
<1>3. /\ tenantID' = TenantOf(nsIdx) /\ tenantID' \in Nat \ {0} /\ priority' = PriorityOf(tenantID')
      /\ newTenant' = (nsIdx % PerTenant = 0)
  BY AtHead
<1>4. customerTenant' \in [Namespaces -> Nat]
  BY <1>0, <1>2, <1>3
<1>5. TypeOK'
  BY <1>0, <1>1, <1>2, <1>3, <1>4 DEF TypeOK
<1>6. ListedOnce' /\ OfTenants'
  BY <1>1 DEF ListedOnce, OfTenants
<1>7. InLoop'
  <2>1. phase' = "apply" => customerTenant'[ns] = tenantID'
    BY <1>0, <1>2, <1>3
  <2>2. phase' = "apply" => nsIdx < Len(sourceNsList)
    OBVIOUS
  <2> HIDE DEF LabelNamespace, IInv
  <2> QED
    BY <1>1, <1>2, <1>3, <2>1, <2>2 DEF InLoop
<1>8. TenantsCovered'
  <2> SUFFICES ASSUME NEW n \in 0..(nsIdx - 1)
               PROVE  /\ customerTenant'[sourceNsList[n + 1]] = TenantOf(n)
                      /\ PolicyOf(TenantOf(n)) \in policies
    BY <1>1 DEF TenantsCovered
  <2>1. n + 1 \in DOMAIN sourceNsList /\ n + 1 # nsIdx + 1
    BY <1>0
  <2>2. sourceNsList[n + 1] # ns /\ sourceNsList[n + 1] \in Namespaces
    BY <1>0, <2>1 DEF ListedOnce
  <2>3. customerTenant'[sourceNsList[n + 1]] = customerTenant[sourceNsList[n + 1]]
    BY <1>0, <1>2, <2>2
  <2> QED
    BY <2>3 DEF TenantsCovered
<1> QED
  BY <1>5, <1>6, <1>7, <1>8

LEMMA ApplyPolicyInv == ASSUME IInv, ApplyPolicy PROVE IInv'
<1> USE DEF ApplyPolicy, IInv
<1>0. /\ nsIdx \in Nat /\ nsIdx < Len(sourceNsList) /\ tenantID = TenantOf(nsIdx) /\ priority = PriorityOf(tenantID)
      /\ tenantID \in Nat \ {0} /\ newTenant \in BOOLEAN /\ (newTenant <=> nsIdx % PerTenant = 0)
      /\ customerTenant[sourceNsList[nsIdx + 1]] = tenantID /\ sourceNsList \in Seq(Namespaces)
  BY DEF TypeOK, InLoop
<1>1. UNCHANGED <<err, sourceNsList, tenantID, priority, customerTenant, verified>>
  OBVIOUS
<1>2. CASE phase' = "dead"
  <2>1. UNCHANGED <<newTenant, policies, nsIdx>>
    BY <1>2
  <2> HIDE DEF ApplyPolicy
  <2> QED
    BY <1>1, <1>2, <2>1 DEF TypeOK, ListedOnce, InLoop, OfTenants, TenantsCovered
<1>3. CASE phase' # "dead"
  <2>1. /\ newTenant' = FALSE /\ nsIdx' = nsIdx + 1 /\ phase' = "label"
        /\ policies' = IF newTenant
                       THEN policies \cup {[tenant |-> tenantID, priority |-> priority]} ELSE policies
    BY <1>3
  <2> HIDE DEF ApplyPolicy
  <2>2. [tenant |-> tenantID, priority |-> priority] = PolicyOf(tenantID)
    BY <1>0 DEF PolicyOf
  <2>3. TypeOK' /\ ListedOnce'
    <3>1. nsIdx' \in 0..Len(sourceNsList)
      BY <1>0, <2>1
    <3>2. UNCHANGED <<err, sourceNsList, tenantID, customerTenant, verified>>
      BY <1>1
    <3> QED
      BY <2>1, <3>1, <3>2 DEF TypeOK, ListedOnce
  <2>4. OfTenants'
    <3>1. PolicyOf(tenantID).tenant = tenantID
      BY DEF PolicyOf
    <3>2. ASSUME NEW p \in policies' PROVE p.tenant \in Nat \ {0} /\ p = PolicyOf(p.tenant)
      <4>1. CASE p \in policies
        BY <4>1 DEF OfTenants
      <4>2. CASE p = PolicyOf(tenantID)
        BY <1>0, <3>1, <4>2
      <4> QED
        BY <2>1, <2>2, <3>2, <4>1, <4>2
    <3> QED
      BY <3>2 DEF OfTenants
  <2>5. InLoop'
    <3>1. nsIdx' > 0 /\ nsIdx' - 1 = nsIdx
      BY <1>0, <2>1
    <3> QED
      BY <1>0, <1>1, <2>1, <3>1 DEF InLoop
  <2>6. PolicyOf(tenantID) \in policies'
    <3>1. CASE newTenant
      BY <2>1, <2>2, <3>1
    <3>2. CASE ~newTenant
      <4>1. nsIdx > 0
        <5>1. 0 % PerTenant = 0
          BY TenantAssumption
        <5> QED
          BY <1>0, <3>2, <5>1
      <4>2. TenantOf((nsIdx - 1) + 1) =
              IF ((nsIdx - 1) + 1) % PerTenant = 0 THEN TenantOf(nsIdx - 1) + 1 ELSE TenantOf(nsIdx - 1)
        <5>1. nsIdx - 1 \in Nat
          BY <1>0, <4>1
        <5> QED
          BY <5>1, NextTenantOf
      <4>3. (nsIdx - 1) + 1 = nsIdx /\ nsIdx - 1 \in 0..(nsIdx - 1)
        BY <1>0, <4>1
      <4>4. TenantOf(nsIdx - 1) = tenantID
        BY <1>0, <3>2, <4>2, <4>3
      <4> QED
        BY <2>1, <3>2, <4>3, <4>4 DEF TenantsCovered
    <3> QED
      BY <1>0, <3>1, <3>2
  <2>7. TenantsCovered'
    <3> SUFFICES ASSUME NEW n \in 0..nsIdx
                 PROVE  /\ customerTenant[sourceNsList[n + 1]] = TenantOf(n)
                        /\ PolicyOf(TenantOf(n)) \in policies'
      <4>1. nsIdx' - 1 = nsIdx
        BY <1>0, <2>1
      <4> QED
        BY <1>1, <4>1 DEF TenantsCovered
    <3>1. CASE n = nsIdx
      BY <1>0, <2>6, <3>1
    <3>2. CASE n \in 0..(nsIdx - 1)
      BY <2>1, <3>2 DEF TenantsCovered
    <3> QED
      BY <1>0, <3>1, <3>2
  <2> QED
    BY <2>3, <2>4, <2>5, <2>7
<1> QED
  BY <1>2, <1>3

LEMMA VerifyInv == ASSUME IInv, Verify PROVE IInv'
<1>1. TypeOK'
  BY DEF Verify, IInv, TypeOK
<1> QED
  BY <1>1 DEF Verify, IInv, ListedOnce, InLoop, OfTenants, TenantsCovered

LEMMA StutterInv == ASSUME IInv, UNCHANGED anp PROVE IInv'
BY DEF anp, IInv, TypeOK, ListedOnce, InLoop, OfTenants, TenantsCovered

LEMMA Kept == ASSUME IInv, [Next]_anp PROVE IInv'
BY ListNamespacesInv, ListPoliciesInv, LabelNamespaceInv, ApplyPolicyInv, VerifyInv, StutterInv DEF Next

-----------------------------------------------------------------------------
(* Theorems *)

\* The inductive invariant: the loop stands where its counters say.
THEOREM Invariance == Spec => []IInv
<1>1. Init => IInv
  BY InitInv
<1>2. IInv /\ [Next]_anp => IInv'
  BY Kept
<1> QED
  BY <1>1, <1>2, PTL DEF Spec

\* The namespaces the loop is past have the label of their tenant, whatever an earlier run
\* left on them, and their tenant its policy: also when a later namespace failed.
THEOREM TenantsCoveredHolds == Spec => []TenantsCovered
<1>1. IInv => TenantsCovered
  BY DEF IInv
<1> QED
  BY <1>1, Invariance, PTL

LEMMA Apart == ASSUME IInv PROVE PrioritiesApart
<1> SUFFICES ASSUME NEW p \in policies, NEW q \in policies
             PROVE  /\ p.priority \in 1..LastPriority
                    /\ p.priority = q.priority <=> p.tenant % LastPriority = q.tenant % LastPriority
  BY DEF PrioritiesApart
<1>1. /\ p.tenant \in Nat \ {0} /\ p.priority = PriorityOf(p.tenant)
      /\ q.tenant \in Nat \ {0} /\ q.priority = PriorityOf(q.tenant)
  BY DEF IInv, OfTenants, PolicyOf
<1>2. p.priority \in 1..LastPriority
  BY <1>1, NextPriorityOf
<1>3. ASSUME NEW t \in Nat \ {0}
      PROVE  /\ (t - 1) % LastPriority \in 0..(LastPriority - 1)
             /\ t % LastPriority =
                  IF ((t - 1) % LastPriority) + 1 = LastPriority THEN 0 ELSE ((t - 1) % LastPriority) + 1
  <2>1. t - 1 \in Nat /\ LastPriority \in Nat \ {0} /\ (t - 1) + 1 = t
    BY TenantAssumption
  <2>2. (t - 1) % LastPriority \in 0..(LastPriority - 1)
    BY <2>1, Divided
  <2>3. ((t - 1) + 1) % LastPriority =
          IF ((t - 1) % LastPriority) + 1 = LastPriority THEN 0 ELSE ((t - 1) % LastPriority) + 1
    BY <2>1, OneMore
  <2> QED
    BY <2>1, <2>2, <2>3
<1>4. p.priority = q.priority <=> (p.tenant - 1) % LastPriority = (q.tenant - 1) % LastPriority
  <2>1. (p.tenant - 1) % LastPriority \in Int /\ (q.tenant - 1) % LastPriority \in Int
    BY <1>1, <1>3
  <2> QED
    BY <1>1, <2>1 DEF PriorityOf
<1>5. (p.tenant - 1) % LastPriority = (q.tenant - 1) % LastPriority
        <=> p.tenant % LastPriority = q.tenant % LastPriority
  <2>1. LastPriority \in Nat \ {0}
    BY TenantAssumption
  <2> DEFINE a == (p.tenant - 1) % LastPriority
             b == (q.tenant - 1) % LastPriority
  <2>2. a \in 0..(LastPriority - 1) /\ b \in 0..(LastPriority - 1)
        /\ p.tenant % LastPriority = (IF a + 1 = LastPriority THEN 0 ELSE a + 1)
        /\ q.tenant % LastPriority = (IF b + 1 = LastPriority THEN 0 ELSE b + 1)
    BY <1>1, <1>3
  <2> HIDE DEF a, b
  <2>3. a = b <=> p.tenant % LastPriority = q.tenant % LastPriority
    BY <2>1, <2>2
  <2> QED
    BY <2>3 DEF a, b
<1> QED
  BY <1>2, <1>4, <1>5

\* Priorities are in range, and two policies share one only when LastPriority tenants, or a
\* multiple of it, lie between them.
THEOREM PrioritiesApartHolds == Spec => []PrioritiesApart
<1>1. IInv => PrioritiesApart
  BY Apart
<1> QED
  BY <1>1, Invariance, PTL
=============================================================================
