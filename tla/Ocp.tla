-------------------------------- MODULE Ocp ---------------------------------
(***************************************************************************)
(* kube-burner-ocp as a whole: an invocation (Command.tla), with the       *)
(* routine that egressip calls before its launch (EgressIPs.tla) and the   *)
(* one that anp-density-pods calls after it (AnpDensity.tla).              *)
(***************************************************************************)
EXTENDS Command, EgressParameters, AnpParameters

VARIABLES step, workers, server, wanted, k, nodeIPs, egressIPCidr, baseAddrInt, i, addrSlice,
          phase, err, sourceNsList, nsIdx, tenantID, priority, newTenant, currentANPs,
          customerTenant, policies, verified

Addresses == INSTANCE EgressIPs
Policies == INSTANCE AnpDensity

egress == <<step, workers, server, wanted, k, nodeIPs, egressIPCidr, baseAddrInt, i, addrSlice>>
anp == <<phase, err, sourceNsList, nsIdx, tenantID, priority, newTenant, currentANPs, customerTenant,
         policies, verified>>
whole == <<all, egress, anp>>

Calls(routine) == At("call") /\ Step.what = routine

\* What an earlier run left matters only to the invocation that looks at it.
OcpInit ==
  /\ Init
  /\ Addresses!Init
  /\ \E earlier \in IF inv.name = "anp-density-pods" THEN SUBSET Namespaces ELSE {{}} :
       Policies!InitAfter(earlier)

\* eipAddresses := generateEgressIPs(...)
GenerateEgressIPs ==
  /\ Calls("addresses")
  /\ \/ Addresses!Next /\ UNCHANGED all
     \/ step = "done" /\ CallReturns /\ UNCHANGED egress
     \/ step = "dead" /\ CallDies /\ UNCHANGED egress
  /\ UNCHANGED anp

\* Mutant: the program exits with 0 after the policies.
GeneratePoliciesQuit ==
  /\ Calls("policies")
  /\ \/ Policies!Next /\ UNCHANGED all
     \/ /\ phase = "done" /\ pc' = "exit" /\ exit' = 0
        /\ UNCHANGED <<inv, at, cluster, values, round, rc, history, anp>>
     \/ phase = "dead" /\ CallDies /\ UNCHANGED anp
  /\ UNCHANGED egress

\* err := generateCidrSelectorAnp...ByTenant(...), an error of which is printed only.
GeneratePolicies ==
  /\ Calls("policies")
  /\ \/ Policies!Next /\ UNCHANGED all
     \/ phase = "done" /\ CallReturns /\ UNCHANGED anp
     \/ phase = "dead" /\ CallDies /\ UNCHANGED anp
  /\ UNCHANGED egress

OcpNext ==
  \/ Own /\ UNCHANGED <<egress, anp>>
  \/ GenerateEgressIPs
  \/ GeneratePolicies

\* A process that runs on.
OcpSpec == OcpInit /\ [][OcpNext]_whole /\ WF_whole(OcpNext)

-----------------------------------------------------------------------------
(* Properties *)

\* The whole is an invocation as Command.tla describes it: the routines come back.
CommandHolds == Spec

EgressAddresses == Addresses!EgressAddresses
InCidr == Addresses!InCidr

TenantsCovered == Policies!TenantsCovered
PrioritiesApart == Policies!PrioritiesApart
=============================================================================
