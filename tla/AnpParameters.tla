---------------------------- MODULE AnpParameters ---------------------------
(***************************************************************************)
(* The namespaces of the benchmark, numbered in the order the API lists    *)
(* them, and the sizes that AnpDensity.tla works with.                     *)
(***************************************************************************)
EXTENDS Integers, FiniteSets

CONSTANTS Namespaces,    \* names that may be listed
          PerTenant,     \* totalNsByTenant, 3 in the program
          LastPriority   \* 99 in the program

ASSUME NamespacesAssumption == Namespaces \subseteq Nat /\ IsFiniteSet(Namespaces)
ASSUME TenantAssumption == PerTenant \in Nat \ {0} /\ LastPriority \in Nat \ {0}
=============================================================================
