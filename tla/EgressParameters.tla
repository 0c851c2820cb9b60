-------------------------- MODULE EgressParameters --------------------------
(***************************************************************************)
(* The cluster and the flags that EgressIPs.tla works with.                *)
(*                                                                         *)
(* An address is the number ipconv makes of it, below Space; its last byte *)
(* is its remainder by Byte.  An answer of the cluster that is not an IPv4 *)
(* address (a host name, an annotation that is absent) is None.            *)
(***************************************************************************)
EXTENDS Integers, Sequences

CONSTANTS Space,     \* number of addresses, 2^32 in the program
          Byte,      \* number of values of a byte, 256 in the program
          Clusters,  \* node lists: sequences of [address, annotated, hop, cidr]
          Servers,   \* values of --external-server-ip
          Wants      \* values of --iterations times --addresses-per-iteration

None == -1
Address == 0..(Space - 1)
\* ParseCIDR's network and mask, as the first address and the number of addresses.
Cidr == [network : Address, size : 1..Space]
NoCidr == [network |-> None, size |-> 0]
Node == [address : Address \cup {None}, annotated : BOOLEAN, hop : Address \cup {None},
         cidr : Cidr \cup {NoCidr}]

ASSUME SpaceAssumption == Space \in Nat \ {0} /\ Byte \in 1..Space /\ Space % Byte = 0
ASSUME ClustersAssumption ==
  Clusters \subseteq Seq(Node) /\ Servers \subseteq Address \cup {None} /\ Wants \subseteq Nat
=============================================================================
