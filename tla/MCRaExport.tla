----------------------------- MODULE MCRaExport -----------------------------
(* Instances of RaExport for TLC: two subnets, in one CUDN or in two.      *)
EXTENDS RaExport, TLC

CONSTANTS s1, s2, c1, c2

\* One subnet per CUDN: the default of the udn-bgp workload.
OneEach == s1 :> c1 @@ s2 :> c2
\* Both subnets in one CUDN: --cidrs-per-cudn.
Shared == s1 :> c1 @@ s2 :> c1
OnePod == s1 :> 1 @@ s2 :> 1

WorkerSymmetry == Permutations(Workers)
=============================================================================
