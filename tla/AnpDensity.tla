----------------------------- MODULE AnpDensity -----------------------------
(***************************************************************************)
(* generateCidrSelectorAnpMultiPolicyWithMultiRulesMultiIPsByTenant of     *)
(* anp-density-pods.go: each namespace of the benchmark gets the label of  *)
(* its tenant, and the first namespace of every tenant brings a policy.    *)
(*                                                                         *)
(* Tenants are numbered from 1; a policy is named after its tenant and its *)
(* priority.  The rules of a policy are left out.                          *)
(***************************************************************************)
EXTENDS AnpParameters, Sequences

VARIABLES
  phase,          \* "idle" | "list" | "label" | "apply" | "done" | "dead"
  err,            \* the function returned an error
  sourceNsList,   \* the namespaces, in order
  nsIdx,          \* index into the list, from 0
  tenantID, priority, newTenant,
  currentANPs,    \* number of policies before
  customerTenant, \* label of each namespace, 0 for none
  policies,       \* AdminNetworkPolicies of the cluster, [tenant, priority]
  verified        \* what verifyAdminNetworkPolicies returned, which nobody looks at

loop == <<nsIdx, tenantID, priority, newTenant>>
cluster == <<customerTenant, policies>>
anp == <<phase, err, sourceNsList, loop, currentANPs, cluster, verified>>

\* Where the n-th namespace of a list belongs, from 0, and the policy it brings.
TenantOf(n) == n \div PerTenant + 1
PriorityOf(tenant) == ((tenant - 1) % LastPriority) + 1
PolicyOf(tenant) == [tenant |-> tenant, priority |-> PriorityOf(tenant)]

\* What the API may answer: the namespaces of a set, in order.
Listings(set) ==
  {list \in [1..Cardinality(set) -> set] : \A m, n \in DOMAIN list : m < n => list[m] < list[n]}

\* What an earlier run left: the labels of the namespaces it found and the policies of
\* their tenants, which no garbage collection takes away.
LeftBy(earlier) ==
  LET before(ns) == {m \in earlier : m < ns}
      tenant(ns) == TenantOf(Cardinality(before(ns)))
  IN /\ customerTenant = [ns \in Namespaces |-> IF ns \in earlier THEN tenant(ns) ELSE 0]
     /\ policies = {PolicyOf(tenant(ns)) : ns \in earlier}

InitAfter(earlier) ==
  /\ phase = "idle" /\ err = FALSE /\ sourceNsList = << >>
  /\ nsIdx = 0 /\ tenantID = 1 /\ priority = 1 /\ newTenant = TRUE
  /\ currentANPs = 0 /\ verified = FALSE
  /\ LeftBy(earlier)

Init == \E earlier \in SUBSET Namespaces : InitAfter(earlier)

Return(error) == phase' = "done" /\ err' = error

\* getNamespacesByPrefix: an error, or no namespace because they are garbage collected,
\* is an error of the function.
ListNamespaces ==
  /\ phase = "idle"
  /\ \/ Return(TRUE) /\ UNCHANGED sourceNsList
     \/ \E set \in (SUBSET Namespaces) \ {{}} :
          sourceNsList' \in Listings(set) /\ phase' = "list" /\ UNCHANGED err
  /\ UNCHANGED <<loop, currentANPs, cluster, verified>>

\* The policies that are there are counted.
ListPolicies ==
  /\ phase = "list"
  /\ \/ Return(TRUE) /\ UNCHANGED currentANPs
     \/ phase' = "label" /\ currentANPs' = Cardinality(policies) /\ UNCHANGED err
  /\ UNCHANGED <<sourceNsList, loop, cluster, verified>>

\* Mutant: the priority wraps to 0.
WrapToZero(p) == p % LastPriority

\* priority++, and from 99 back to 1.
Wrap(p) == IF p + 1 > LastPriority THEN 1 ELSE p + 1

\* The head of the loop: every PerTenant-th namespace begins a tenant.
Boundary == nsIdx % PerTenant = 0 /\ nsIdx # 0
NextTenant == IF Boundary THEN tenantID + 1 ELSE tenantID
NextPriority == IF Boundary THEN Wrap(priority) ELSE priority

\* Mutant: newTenant is set by the loop only.
BeginsLate == Boundary

Begins == newTenant \/ Boundary

\* The namespace is labelled; a failure ends the function with an error.
LabelNamespace ==
  /\ phase = "label" /\ nsIdx < Len(sourceNsList)
  /\ tenantID' = NextTenant /\ priority' = NextPriority
  /\ newTenant' = Begins
  /\ \/ /\ customerTenant' = [customerTenant EXCEPT ![sourceNsList[nsIdx + 1]] = NextTenant]
        /\ phase' = "apply" /\ UNCHANGED err
     \/ Return(TRUE) /\ UNCHANGED customerTenant
  /\ UNCHANGED <<sourceNsList, nsIdx, currentANPs, policies, verified>>

\* The policy of a new tenant is created or, by its name, updated; a failure is fatal.
ApplyPolicy ==
  /\ phase = "apply"
  /\ \/ /\ newTenant' = FALSE
        /\ policies' = IF newTenant
                       THEN policies \cup {[tenant |-> tenantID, priority |-> priority]} ELSE policies
        /\ nsIdx' = nsIdx + 1 /\ phase' = "label"
     \/ newTenant /\ phase' = "dead" /\ UNCHANGED <<newTenant, policies, nsIdx>>
  /\ UNCHANGED <<err, sourceNsList, tenantID, priority, currentANPs, customerTenant, verified>>

\* verifyAdminNetworkPolicies counts, and its result is dropped.  It panics over a policy
\* whose status has no condition.
Verify ==
  /\ phase = "label" /\ nsIdx = Len(sourceNsList)
  /\ \/ /\ verified' \in {FALSE, policies # {} /\ Cardinality(policies) = tenantID + currentANPs}
        /\ Return(FALSE)
     \/ policies # {} /\ phase' = "dead" /\ UNCHANGED <<err, verified>>
  /\ UNCHANGED <<sourceNsList, loop, currentANPs, cluster>>

Next == ListNamespaces \/ ListPolicies \/ LabelNamespace \/ ApplyPolicy \/ Verify

Spec == Init /\ [][Next]_anp /\ WF_anp(Next)
-----------------------------------------------------------------------------
(* Properties *)

\* The namespaces the loop is past belong to consecutive tenants of PerTenant each, whatever
\* labels an earlier run left on them, and the policy of each tenant is there: also when
\* the function ends early.
TenantsCovered ==
  \A n \in 0..(nsIdx - 1) :
    /\ customerTenant[sourceNsList[n + 1]] = TenantOf(n)
    /\ PolicyOf(TenantOf(n)) \in policies

\* Whatever ran before, two policies of the cluster share a priority only when LastPriority
\* tenants, or a multiple of it, lie between them.
PrioritiesApart ==
  \A p, q \in policies :
    /\ p.priority \in 1..LastPriority
    /\ p.priority = q.priority <=> p.tenant % LastPriority = q.tenant % LastPriority

-----------------------------------------------------------------------------
(* The inductive invariant behind TenantsCovered and PrioritiesApart *)

TypeOK ==
  /\ phase \in {"idle", "list", "label", "apply", "done", "dead"}
  /\ err \in BOOLEAN /\ newTenant \in BOOLEAN /\ verified \in BOOLEAN
  /\ sourceNsList \in Seq(Namespaces)
  /\ nsIdx \in 0..Len(sourceNsList)
  /\ tenantID \in Nat \ {0}
  /\ customerTenant \in [Namespaces -> Nat]

\* Names are listed once.
ListedOnce == \A m, n \in DOMAIN sourceNsList : m # n => sourceNsList[m] # sourceNsList[n]

\* Where the loop stands: between passes, and between the label and the policy.
InLoop ==
  /\ priority = PriorityOf(tenantID)
  /\ phase \in {"idle", "list"} => nsIdx = 0 /\ tenantID = 1 /\ newTenant
  /\ phase = "label" => /\ nsIdx = 0 => tenantID = 1 /\ newTenant
                        /\ nsIdx > 0 => tenantID = TenantOf(nsIdx - 1) /\ ~newTenant
  /\ phase = "apply" => /\ nsIdx < Len(sourceNsList) /\ tenantID = TenantOf(nsIdx)
                        /\ customerTenant[sourceNsList[nsIdx + 1]] = tenantID
                        /\ newTenant <=> nsIdx % PerTenant = 0

\* Every policy is one of a tenant.
OfTenants == \A p \in policies : p.tenant \in Nat \ {0} /\ p = PolicyOf(p.tenant)

IInv == TypeOK /\ ListedOnce /\ InLoop /\ OfTenants /\ TenantsCovered
=============================================================================
