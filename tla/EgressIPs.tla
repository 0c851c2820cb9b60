----------------------------- MODULE EgressIPs ------------------------------
(***************************************************************************)
(* generateEgressIPs of egressip.go: the nodes are listed, the addresses   *)
(* they use are put aside, and the addresses of the first annotated CIDR   *)
(* are tried one after the other until there are as many free ones as the  *)
(* iterations need.                                                        *)
(***************************************************************************)
EXTENDS EgressParameters, FiniteSets

VARIABLES
  step,          \* "idle" | "nodes" | "try" | "done" | "dead"
  workers,       \* the node list
  server,        \* externalServerIP
  wanted,        \* numJobIterations * addressesPerIteration
  k,             \* node the first loop is at
  nodeIPs,       \* addresses put aside
  egressIPCidr,  \* the CIDR found, or NoCidr
  baseAddrInt,   \* the first usable address
  i,             \* passes of the second loop
  addrSlice      \* the addresses found

given == <<workers, server, wanted>>
found == <<k, nodeIPs, egressIPCidr, baseAddrInt>>
tried == <<i, addrSlice>>
egress == <<step, given, found, tried>>

Init ==
  /\ step = "idle"
  /\ workers = << >> /\ server = None /\ wanted = 0
  /\ k = 1 /\ nodeIPs = << >> /\ egressIPCidr = NoCidr /\ baseAddrInt = 0
  /\ i = 0 /\ addrSlice = << >>

\* The call: the nodes are listed, or the program dies.
ListNodes ==
  /\ step = "idle"
  /\ server' \in Servers /\ wanted' \in Wants
  /\ \/ workers' \in Clusters /\ step' = "nodes"
     \/ step' = "dead" /\ UNCHANGED workers
  /\ UNCHANGED <<found, tried>>

\* What a node uses: its first address and, when it is annotated, its gateway.
InUse(node) == IF node.annotated THEN <<node.address, node.hop>> ELSE <<node.address>>

\* One pass of the loop over the nodes; the CIDR is that of the first node that has one.
ReadNode ==
  /\ step = "nodes" /\ k <= Len(workers)
  /\ nodeIPs' = nodeIPs \o InUse(workers[k])
  /\ egressIPCidr' = IF egressIPCidr = NoCidr THEN workers[k].cidr ELSE egressIPCidr
  /\ k' = k + 1
  /\ UNCHANGED <<step, given, baseAddrInt, tried>>

\* Mutant: one address is skipped, not four.
FirstUsableNext(cidr) == cidr.network + 1

\* getFirstUsableAddr: the last byte of the network is advanced by 4, in a byte.
FirstUsable(cidr) == (cidr.network - (cidr.network % Byte)) + (((cidr.network % Byte) + 4) % Byte)

\* The server is put aside as well; without a CIDR, or with something that is not an IPv4
\* address among those put aside, the program dies.
Convert ==
  /\ step = "nodes" /\ k > Len(workers)
  /\ nodeIPs' = Append(nodeIPs, server)
  /\ IF egressIPCidr = NoCidr \/ \E n \in DOMAIN nodeIPs' : nodeIPs'[n] = None
     THEN step' = "dead" /\ UNCHANGED baseAddrInt
     ELSE step' = "try" /\ baseAddrInt' = FirstUsable(egressIPCidr)
  /\ UNCHANGED <<given, k, egressIPCidr, tried>>

\* nodeMap
Taken == {nodeIPs[n] : n \in DOMAIN nodeIPs}

\* baseAddrInt + uint32(j)
Candidate(j) == (baseAddrInt + j) % Space

\* Mutant: the loop makes no extra passes for the addresses it skips.
PassesTooFew == wanted

Passes == wanted + Len(nodeIPs)

Free(address) == address \notin Taken

\* Mutant: an address that is taken is tried again.
TryAgain ==
  /\ step = "try" /\ i < Passes
  /\ addrSlice' = IF Free(Candidate(i)) THEN Append(addrSlice, Candidate(i)) ELSE addrSlice
  /\ i' = IF Free(Candidate(i)) THEN i + 1 ELSE i
  /\ step' = IF Len(addrSlice') >= wanted THEN "done" ELSE step
  /\ UNCHANGED <<given, found>>

\* One pass of the second loop.
Try ==
  /\ step = "try" /\ i < Passes
  /\ addrSlice' = IF Free(Candidate(i)) THEN Append(addrSlice, Candidate(i)) ELSE addrSlice
  /\ i' = i + 1
  /\ step' = IF Len(addrSlice') >= wanted THEN "done" ELSE step
  /\ UNCHANGED <<given, found>>

OutOfPasses ==
  /\ step = "try" /\ i >= Passes
  /\ step' = "done"
  /\ UNCHANGED <<given, found, tried>>

Next == ListNodes \/ ReadNode \/ Convert \/ Try \/ OutOfPasses

Spec == Init /\ [][Next]_egress /\ WF_egress(Next)

-----------------------------------------------------------------------------
(* Properties *)

\* Addresses past this many candidates come round again.
NoWrap == Passes <= Space

\* What the nodes and the server of the cluster use, whatever the program put aside.
UsedBy(node) == {node.address} \cup (IF node.annotated THEN {node.hop} ELSE {})
Used == {server} \cup UNION {UsedBy(workers[n]) : n \in DOMAIN workers}

\* When something is wanted, the loop ends with as many addresses as wanted, none of them
\* used by a node, a gateway or the server, none given out twice, and none that is free
\* left out.
EgressAddresses ==
  step = "done" /\ wanted > 0 /\ NoWrap =>
    /\ Len(addrSlice) = wanted
    /\ \A n \in DOMAIN addrSlice : addrSlice[n] \notin Used
    /\ \A m, n \in DOMAIN addrSlice : m # n => addrSlice[m] # addrSlice[n]
    /\ \A j \in 0..(i - 1) : Candidate(j) \notin Taken => \E n \in DOMAIN addrSlice : addrSlice[n] = Candidate(j)

\* The addresses lie in the CIDR when it has room for all passes past the first four and
\* its network address leaves room in its last byte.
InCidr ==
  step = "done" /\ (egressIPCidr.network % Byte) + 4 < Byte
    /\ egressIPCidr.size >= 4 + Passes /\ egressIPCidr.network + egressIPCidr.size <= Space =>
  \A n \in DOMAIN addrSlice :
    addrSlice[n] - egressIPCidr.network \in 4..(egressIPCidr.size - 1)

-----------------------------------------------------------------------------
(* The inductive invariant behind EgressAddresses and InCidr *)

TypeOK ==
  /\ step \in {"idle", "nodes", "try", "done", "dead"}
  /\ workers \in Seq(Node) /\ server \in Address \cup {None} /\ wanted \in Nat
  /\ k \in Nat \ {0} /\ nodeIPs \in Seq(Address \cup {None})
  /\ egressIPCidr \in Cidr \cup {NoCidr} /\ baseAddrInt \in Address
  /\ i \in Nat /\ addrSlice \in Seq(Address)

Skipped == {j \in 0..(i - 1) : Candidate(j) \in Taken}

\* What the nodes that were read use is put aside.
SetAside ==
  /\ step = "idle" => k = 1
  /\ \A n \in DOMAIN workers : n < k => UsedBy(workers[n]) \subseteq Taken
  /\ step \in {"try", "done"} => k > Len(workers) /\ server \in Taken

\* What has been found so far: every candidate that is free, once.
Progress ==
  /\ step \in {"idle", "nodes", "dead"} => i = 0 /\ addrSlice = << >>
  /\ step \in {"try", "done"} =>
       /\ egressIPCidr # NoCidr /\ baseAddrInt = FirstUsable(egressIPCidr)
       /\ i <= Passes
       /\ Len(addrSlice) + Cardinality(Skipped) = i
       /\ \A n \in DOMAIN addrSlice :
            \E j \in 0..(i - 1) : addrSlice[n] = Candidate(j) /\ addrSlice[n] \notin Taken
       /\ \A j \in 0..(i - 1) \ Skipped : \E n \in DOMAIN addrSlice : addrSlice[n] = Candidate(j)
       /\ NoWrap => \A m, n \in DOMAIN addrSlice : m # n => addrSlice[m] # addrSlice[n]
  /\ step = "try" /\ i > 0 => Len(addrSlice) < wanted
  /\ step = "done" => Len(addrSlice) >= wanted \/ i >= Passes
  /\ wanted > 0 => Len(addrSlice) <= wanted

IInv == TypeOK /\ SetAside /\ Progress
=============================================================================
