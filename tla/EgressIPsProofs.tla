-------------------------- MODULE EgressIPsProofs ---------------------------
(***************************************************************************)
(* For any cluster, server and number of addresses: the loop of            *)
(* generateEgressIPs ends with as many addresses as wanted, different ones *)
(* that nobody uses, and within the CIDR when the CIDR is large enough.    *)
(***************************************************************************)
EXTENDS EgressIPs, FiniteSetTheorems, SequenceTheorems, TLAPS

USE DEF None, Address

-----------------------------------------------------------------------------
(* Lemmas about numbers *)

\* A remainder of a number below twice the modulus.
LEMMA ModOnce ==
  ASSUME NEW s \in Nat \ {0}, NEW x \in 0..(2 * s - 1)
  PROVE  x % s = IF x < s THEN x ELSE x - s
OBVIOUS

LEMMA ModRange ==
  ASSUME NEW s \in Nat \ {0}, NEW x \in Int
  PROVE  x % s \in 0..(s - 1)
OBVIOUS

\* The byte a number ends in can be replaced without leaving the space.
LEMMA LastByte ==
  ASSUME NEW x \in Address, NEW b \in 0..(Byte - 1)
  PROVE  (x - (x % Byte)) + b \in Address
<1> USE SpaceAssumption
<1>1. PICK p \in Int : x = Byte * p + (x % Byte)
  <2>1. x \in Int /\ Byte \in Nat \ {0}
    OBVIOUS
  <2>2. x = Byte * (x \div Byte) + (x % Byte) /\ x \div Byte \in Int
    BY <2>1
  <2> QED
    BY <2>2
<1>2. PICK q \in Int : Space = Byte * q
  <2>1. Space \in Int /\ Byte \in Nat \ {0} /\ Space % Byte = 0
    OBVIOUS
  <2>2. Space = Byte * (Space \div Byte) + (Space % Byte) /\ Space \div Byte \in Int
    BY <2>1
  <2>3. Space = Byte * (Space \div Byte)
    BY <2>1, <2>2
  <2> QED
    BY <2>2, <2>3
<1>3. x % Byte \in 0..(Byte - 1)
  BY ModRange
<1>4. Byte * p < Byte * q
  BY <1>1, <1>2, <1>3
<1>5. p + 1 <= q
  BY <1>4
<1>6. Byte * (p + 1) <= Byte * q
  BY <1>5
<1>7. Byte * p + Byte <= Space
  BY <1>2, <1>6
<1>8. x - (x % Byte) = Byte * p /\ Byte * p >= 0
  <2>1. p >= 0
    BY <1>1, <1>3
  <2> QED
    BY <1>1, <1>3, <2>1
<1> QED
  BY <1>7, <1>8

-----------------------------------------------------------------------------
(* The invariant *)

LEMMA InUseType ==
  ASSUME NEW node \in Node
  PROVE  /\ InUse(node) \in Seq(Address \cup {None})
         /\ \A address \in UsedBy(node) : \E n \in DOMAIN InUse(node) : InUse(node)[n] = address
<1>1. node.address \in Address \cup {None} /\ node.hop \in Address \cup {None} /\ node.annotated \in BOOLEAN
  BY DEF Node
<1>2. CASE node.annotated
  <2>1. InUse(node) = <<node.address, node.hop>> /\ UsedBy(node) = {node.address, node.hop}
    BY <1>2 DEF InUse, UsedBy
  <2> QED
    BY <1>1, <2>1
<1>3. CASE ~node.annotated
  <2>1. InUse(node) = <<node.address>> /\ UsedBy(node) = {node.address}
    BY <1>3 DEF InUse, UsedBy
  <2> QED
    BY <1>1, <2>1
<1> QED
  BY <1>1, <1>2, <1>3

LEMMA InitInv == Init => IInv
<1> SUFFICES ASSUME Init PROVE IInv
  OBVIOUS
<1>1. TypeOK
  BY SpaceAssumption DEF Init, TypeOK
<1> QED
  BY <1>1 DEF Init, IInv, SetAside, Progress

LEMMA ListNodesInv == ASSUME IInv, ListNodes PROVE IInv'
<1> USE DEF ListNodes, found, tried, IInv
<1>1. TypeOK'
  BY ClustersAssumption DEF TypeOK
<1>2. k' = 1
  BY DEF SetAside
<1>3. SetAside'
  <2>1. DOMAIN workers' \subseteq Nat \ {0} /\ step' \notin {"idle", "try", "done"}
    BY <1>1 DEF TypeOK
  <2> QED
    BY <1>2, <2>1 DEF SetAside
<1>4. Progress'
  <2>1. i' = 0 /\ addrSlice' = << >> /\ Len(addrSlice') = 0 /\ step' \notin {"idle", "try", "done"}
    BY DEF Progress
  <2>2. wanted' \in Nat
    BY <1>1 DEF TypeOK
  <2> HIDE DEF ListNodes
  <2> QED
    BY <2>1, <2>2 DEF Progress
<1> QED
  BY <1>1, <1>3, <1>4

LEMMA ReadNodeInv == ASSUME IInv, ReadNode PROVE IInv'
<1> USE DEF ReadNode, given, tried, IInv
<1>0. workers[k] \in Node /\ k \in DOMAIN workers /\ k \in Nat \ {0} /\ workers \in Seq(Node)
  BY DEF TypeOK
<1>1. workers[k].cidr \in Cidr \cup {NoCidr}
  BY <1>0 DEF Node
<1>2. InUse(workers[k]) \in Seq(Address \cup {None})
  BY <1>0, InUseType
<1>3. TypeOK'
  BY <1>0, <1>1, <1>2, ConcatProperties DEF TypeOK
<1>4. /\ \A n \in DOMAIN nodeIPs : n \in DOMAIN nodeIPs' /\ nodeIPs'[n] = nodeIPs[n]
      /\ \A n \in DOMAIN InUse(workers[k]) :
           Len(nodeIPs) + n \in DOMAIN nodeIPs' /\ nodeIPs'[Len(nodeIPs) + n] = InUse(workers[k])[n]
  <2>1. nodeIPs \in Seq(Address \cup {None})
    BY DEF TypeOK
  <2> QED
    BY <1>2, <2>1, ConcatProperties
<1>5. Taken \subseteq Taken' /\ UsedBy(workers[k]) \subseteq Taken'
  <2>1. \A address \in UsedBy(workers[k]) :
          \E n \in DOMAIN InUse(workers[k]) : InUse(workers[k])[n] = address
    BY <1>0, InUseType
  <2> HIDE DEF ReadNode
  <2> QED
    BY <1>4, <2>1 DEF Taken
<1>6. SetAside'
  <2>1. step' = "nodes" /\ workers' = workers /\ k' = k + 1
    OBVIOUS
  <2>2. ASSUME NEW n \in DOMAIN workers, n < k + 1
        PROVE  UsedBy(workers[n]) \subseteq Taken'
    <3>1. CASE n = k
      BY <1>5, <3>1
    <3>2. CASE n < k
      BY <1>5, <3>2 DEF SetAside
    <3> QED
      BY <1>0, <2>2, <3>1, <3>2
  <2> HIDE DEF ReadNode
  <2> QED
    BY <2>1, <2>2 DEF SetAside, UsedBy
<1>7. Progress'
  BY DEF Progress
<1> QED
  BY <1>3, <1>6, <1>7

LEMMA ConvertInv == ASSUME IInv, Convert PROVE IInv'
<1> USE DEF Convert, given, tried, IInv
<1>0. nodeIPs \in Seq(Address \cup {None}) /\ server \in Address \cup {None}
  BY DEF TypeOK
<1>1. egressIPCidr # NoCidr => FirstUsable(egressIPCidr) \in Address
  <2> SUFFICES ASSUME egressIPCidr # NoCidr PROVE FirstUsable(egressIPCidr) \in Address
    OBVIOUS
  <2>1. egressIPCidr.network \in Address
    BY DEF TypeOK, Cidr
  <2>2. ((egressIPCidr.network % Byte) + 4) % Byte \in 0..(Byte - 1)
    <3>1. egressIPCidr.network \in Int /\ Byte \in Nat \ {0}
      BY <2>1, SpaceAssumption
    <3> HIDE DEF Convert
    <3>2. egressIPCidr.network % Byte \in 0..(Byte - 1)
      BY <3>1, ModRange
    <3>3. (egressIPCidr.network % Byte) + 4 \in Int
      BY <3>1, <3>2
    <3> QED
      BY <3>1, <3>3, ModRange
  <2> QED
    BY <2>1, <2>2, LastByte DEF FirstUsable
<1>2. TypeOK'
  BY <1>0, <1>1, AppendProperties DEF TypeOK
<1>3. Taken \subseteq Taken' /\ server \in Taken'
  <2>1. /\ \A n \in DOMAIN nodeIPs : n \in DOMAIN nodeIPs' /\ nodeIPs'[n] = nodeIPs[n]
        /\ Len(nodeIPs) + 1 \in DOMAIN nodeIPs' /\ nodeIPs'[Len(nodeIPs) + 1] = server
    BY <1>0, AppendProperties
  <2> HIDE DEF Convert
  <2> QED
    BY <2>1 DEF Taken
<1>4. SetAside'
  BY <1>3 DEF SetAside, UsedBy
<1>5. Progress'
  <2>1. CASE step' = "dead"
    BY <2>1 DEF Progress
  <2>2. CASE step' = "try"
    <3>1. egressIPCidr' # NoCidr /\ baseAddrInt' = FirstUsable(egressIPCidr') /\ i' = 0 /\ addrSlice' = << >>
      BY <2>2 DEF Progress, FirstUsable
    <3>2. Passes' \in Nat
      BY <1>2 DEF TypeOK, Passes
    <3>3. Skipped' = {} /\ Cardinality(Skipped') = 0
      BY <3>1, FS_EmptySet DEF Skipped
    <3> HIDE DEF Convert
    <3> QED
      <4>1. 0..(i' - 1) = {} /\ DOMAIN addrSlice' = {} /\ Len(addrSlice') = 0 /\ wanted' \in Nat
        BY <1>2, <3>1 DEF TypeOK
      <4> QED
        BY <2>2, <3>1, <3>2, <3>3, <4>1 DEF Progress
  <2> QED
    BY <2>1, <2>2
<1> QED
  BY <1>2, <1>4, <1>5

-----------------------------------------------------------------------------
(* The second loop *)

LEMMA SkippedFinite ==
  ASSUME IInv PROVE IsFiniteSet(Skipped) /\ Cardinality(Skipped) \in Nat
<1>1. i \in Nat
  BY DEF IInv, TypeOK
<1>2. IsFiniteSet(0..(i - 1)) /\ Skipped \subseteq 0..(i - 1)
  BY <1>1, FS_Interval DEF Skipped
<1> QED
  BY <1>2, FS_Subset, FS_CardinalityType

\* Candidates differ as long as they are less than the whole space apart.
LEMMA CandidatesDiffer ==
  ASSUME IInv, NEW j \in Nat, NEW l \in Nat, j < l, l < Space
  PROVE  Candidate(j) # Candidate(l)
<1>1. Space \in Nat \ {0} /\ baseAddrInt \in 0..(Space - 1)
  BY SpaceAssumption DEF IInv, TypeOK
<1>2. Candidate(j) = IF baseAddrInt + j < Space THEN baseAddrInt + j ELSE baseAddrInt + j - Space
  <2>1. baseAddrInt + j \in 0..(2 * Space - 1)
    BY <1>1
  <2>2. (baseAddrInt + j) % Space = IF baseAddrInt + j < Space THEN baseAddrInt + j ELSE baseAddrInt + j - Space
    BY <1>1, <2>1
  <2> QED
    BY <2>2 DEF Candidate
<1>3. Candidate(l) = IF baseAddrInt + l < Space THEN baseAddrInt + l ELSE baseAddrInt + l - Space
  <2>1. baseAddrInt + l \in 0..(2 * Space - 1)
    BY <1>1
  <2>2. (baseAddrInt + l) % Space = IF baseAddrInt + l < Space THEN baseAddrInt + l ELSE baseAddrInt + l - Space
    BY <1>1, <2>1
  <2> QED
    BY <2>2 DEF Candidate
<1> QED
  BY <1>1, <1>2, <1>3

\* What a pass does to the addresses found and to those skipped.
LEMMA TryPass ==
  ASSUME IInv, Try
  PROVE  /\ \A j \in Nat : Candidate(j)' = Candidate(j)
         /\ Taken' = Taken /\ Passes' = Passes
         /\ 0..(i' - 1) = 0..(i - 1) \cup {i}
         /\ Candidate(i) \notin Taken =>
              Skipped' = Skipped /\ addrSlice' = Append(addrSlice, Candidate(i))
         /\ Candidate(i) \in Taken =>
              Skipped' = Skipped \cup {i} /\ addrSlice' = addrSlice
<1> USE DEF Try, given, found
<1>1. i \in Nat /\ i' = i + 1
  BY DEF IInv, TypeOK
<1>2. (\A j \in Nat : Candidate(j)' = Candidate(j)) /\ Taken' = Taken /\ Passes' = Passes
  BY DEF Candidate, Taken, Passes
<1>3. 0..(i' - 1) = 0..(i - 1) \cup {i}
  BY <1>1
<1>4. Skipped' = {j \in 0..(i - 1) \cup {i} : Candidate(j) \in Taken}
  BY <1>1, <1>2, <1>3 DEF Skipped
<1> QED
  BY <1>1, <1>2, <1>3, <1>4 DEF Skipped, Free

LEMMA TryInv == ASSUME IInv, Try PROVE IInv'
<1> USE DEF Try, given, found
<1>0. /\ i \in Nat /\ i' = i + 1 /\ i < Passes /\ Passes \in Nat /\ wanted \in Nat
      /\ addrSlice \in Seq(Address) /\ step = "try"
  BY DEF IInv, TypeOK, Passes
<1>1. Candidate(i) \in Address
  <2>1. baseAddrInt + i \in Int /\ Space \in Nat \ {0}
    BY <1>0, SpaceAssumption DEF IInv, TypeOK
  <2> QED
    BY <2>1, ModRange DEF Candidate
<1>2. TypeOK'
  <2>1. addrSlice' \in Seq(Address)
    <3>1. Append(addrSlice, Candidate(i)) \in Seq(Address)
      BY <1>0, <1>1, AppendProperties
    <3> QED
      BY <1>0, <3>1
  <2> QED
    BY <1>0, <2>1 DEF IInv, TypeOK
<1>3. SetAside'
  BY TryPass DEF IInv, SetAside, UsedBy
<1>4. Len(addrSlice') + Cardinality(Skipped') = i'
  <2>1. IsFiniteSet(Skipped) /\ Cardinality(Skipped) \in Nat /\ Len(addrSlice) + Cardinality(Skipped) = i
    BY <1>0, SkippedFinite DEF IInv, Progress
  <2>2. CASE Candidate(i) \notin Taken
    BY <1>0, <1>1, <2>1, <2>2, TryPass
  <2>3. CASE Candidate(i) \in Taken
    <3>1. i \notin Skipped
      BY <1>0 DEF Skipped
    <3>2. Cardinality(Skipped \cup {i}) = Cardinality(Skipped) + 1
      BY <2>1, <3>1, FS_AddElement
    <3>3. Skipped' = Skipped \cup {i} /\ addrSlice' = addrSlice
      BY <2>3, TryPass
    <3>4. Cardinality(Skipped') = Cardinality(Skipped) + 1 /\ Len(addrSlice') = Len(addrSlice)
      BY <3>2, <3>3
    <3> QED
      BY <1>0, <2>1, <3>4
  <2> QED
    BY <2>2, <2>3
\* The sequence after the pass, seen from before it.
<1>5. /\ \A n \in DOMAIN addrSlice : n \in DOMAIN addrSlice' /\ addrSlice'[n] = addrSlice[n]
      /\ \A n \in DOMAIN addrSlice' :
           \/ n \in DOMAIN addrSlice
           \/ n = Len(addrSlice) + 1 /\ Candidate(i) \notin Taken /\ addrSlice'[n] = Candidate(i)
      /\ Candidate(i) \notin Taken =>
           Len(addrSlice) + 1 \in DOMAIN addrSlice' /\ addrSlice'[Len(addrSlice) + 1] = Candidate(i)
  <2>1. CASE Candidate(i) \notin Taken
    BY <1>0, <1>1, <2>1, TryPass, AppendProperties
  <2>2. CASE Candidate(i) \in Taken
    BY <1>0, <2>2, TryPass
  <2> QED
    BY <2>1, <2>2
<1>6. \A n \in DOMAIN addrSlice' : \E j \in 0..(i' - 1) : addrSlice'[n] = Candidate(j)' /\ addrSlice'[n] \notin Taken'
  <2> SUFFICES ASSUME NEW n \in DOMAIN addrSlice'
               PROVE  \E j \in 0..(i - 1) \cup {i} : addrSlice'[n] = Candidate(j) /\ addrSlice'[n] \notin Taken
    BY <1>0, TryPass
  <2>1. CASE n \in DOMAIN addrSlice
    BY <1>0, <1>5, <2>1 DEF IInv, Progress
  <2>2. CASE n \notin DOMAIN addrSlice
    BY <1>5, <2>2
  <2> QED
    BY <2>1, <2>2
<1>7. \A j \in 0..(i' - 1) \ Skipped' : \E n \in DOMAIN addrSlice' : addrSlice'[n] = Candidate(j)'
  <2> SUFFICES ASSUME NEW j \in 0..(i - 1) \cup {i}, j \notin Skipped'
               PROVE  \E n \in DOMAIN addrSlice' : addrSlice'[n] = Candidate(j)
    BY <1>0, TryPass
  <2>1. CASE j = i
    <3>1. Candidate(i) \notin Taken
      BY <2>1, TryPass
    <3> QED
      BY <1>5, <2>1, <3>1
  <2>2. CASE j \in 0..(i - 1)
    <3>1. j \notin Skipped
      BY <2>2, TryPass
    <3>2. PICK n \in DOMAIN addrSlice : addrSlice[n] = Candidate(j)
      BY <1>0, <2>2, <3>1 DEF IInv, Progress
    <3> QED
      BY <1>5, <3>2
  <2> QED
    BY <2>1, <2>2
<1>8. NoWrap' => \A m, n \in DOMAIN addrSlice' : m # n => addrSlice'[m] # addrSlice'[n]
  <2> SUFFICES ASSUME NoWrap, NEW m \in DOMAIN addrSlice', NEW n \in DOMAIN addrSlice', m # n
               PROVE  addrSlice'[m] # addrSlice'[n]
    BY TryPass DEF NoWrap
  <2>1. ASSUME NEW a \in DOMAIN addrSlice PROVE addrSlice[a] # Candidate(i)
    <3>1. PICK j \in 0..(i - 1) : addrSlice[a] = Candidate(j)
      BY <1>0, <2>1 DEF IInv, Progress
    <3>2. i < Space /\ j < i /\ j \in Nat
      BY <1>0, SpaceAssumption DEF NoWrap
    <3> QED
      BY <1>0, <3>1, <3>2, CandidatesDiffer
  <2>2. CASE m \in DOMAIN addrSlice /\ n \in DOMAIN addrSlice
    BY <1>0, <1>5, <2>2 DEF IInv, Progress
  <2>3. CASE m \notin DOMAIN addrSlice \/ n \notin DOMAIN addrSlice
    BY <1>5, <2>1, <2>3
  <2> QED
    BY <2>2, <2>3
<1>9. /\ step' = "try" => Len(addrSlice') < wanted
      /\ step' = "done" => Len(addrSlice') >= wanted
      /\ wanted > 0 => Len(addrSlice') <= wanted
  <2>1. Len(addrSlice) \in Nat /\ Len(addrSlice') \in Nat
    BY <1>0, <1>2 DEF TypeOK
  <2>2. wanted > 0 => Len(addrSlice) < wanted
    <3>1. i = 0 => addrSlice = << >> \/ Len(addrSlice) = 0
      BY <1>0, <2>1, SkippedFinite DEF IInv, Progress
    <3> QED
      BY <1>0, <2>1, <3>1 DEF IInv, Progress
  <2>3. Len(addrSlice') <= Len(addrSlice) + 1
    BY <1>0, <1>1, TryPass
  <2> QED
    BY <1>0, <2>1, <2>2, <2>3
<1>10. step' \in {"try", "done"} /\ egressIPCidr' # NoCidr /\ baseAddrInt' = FirstUsable(egressIPCidr')
       /\ i' <= Passes' /\ wanted' = wanted
  BY <1>0, TryPass DEF IInv, Progress
<1> HIDE DEF Try
<1>11. Progress'
  BY <1>4, <1>6, <1>7, <1>8, <1>9, <1>10 DEF Progress
<1> QED
  BY <1>2, <1>3, <1>11 DEF IInv

LEMMA OutOfPassesInv == ASSUME IInv, OutOfPasses PROVE IInv'
<1> USE DEF OutOfPasses, given, found, tried
<1>1. TypeOK' /\ SetAside'
  <2>1. TypeOK'
    BY DEF IInv, TypeOK
  <2>2. Taken' = Taken
    BY DEF Taken
  <2>3. SetAside'
    BY <2>2 DEF IInv, SetAside, UsedBy
  <2> QED
    BY <2>1, <2>3
<1>2. Skipped' = Skipped /\ Passes' = Passes /\ NoWrap' = NoWrap /\ Taken' = Taken
      /\ \A j : Candidate(j)' = Candidate(j)
  BY DEF Skipped, Candidate, Taken, Passes, NoWrap
<1>3. Progress'
  BY <1>2 DEF IInv, Progress, FirstUsable
<1> QED
  BY <1>1, <1>3 DEF IInv

LEMMA StutterInv == ASSUME IInv, UNCHANGED egress PROVE IInv'
<1> USE DEF egress, given, found, tried
<1>1. TypeOK' /\ SetAside'
  <2>1. TypeOK'
    BY DEF IInv, TypeOK
  <2>2. Taken' = Taken
    BY DEF Taken
  <2>3. SetAside'
    BY <2>2 DEF IInv, SetAside, UsedBy
  <2> QED
    BY <2>1, <2>3
<1>2. Skipped' = Skipped /\ Passes' = Passes /\ NoWrap' = NoWrap /\ Taken' = Taken
      /\ \A j : Candidate(j)' = Candidate(j)
  BY DEF Skipped, Candidate, Taken, Passes, NoWrap
<1>3. Progress'
  BY <1>2 DEF IInv, Progress, FirstUsable
<1> QED
  BY <1>1, <1>3 DEF IInv

LEMMA Kept == ASSUME IInv, [Next]_egress PROVE IInv'
BY ListNodesInv, ReadNodeInv, ConvertInv, TryInv, OutOfPassesInv, StutterInv DEF Next

\* The inductive invariant: what was put aside is what the cluster uses, and the passes so
\* far have found every free candidate, once.
THEOREM Invariance == Spec => []IInv
<1>1. Init => IInv
  BY InitInv
<1>2. IInv /\ [Next]_egress => IInv'
  BY Kept
<1> QED
  BY <1>1, <1>2, PTL DEF Spec

-----------------------------------------------------------------------------
(* What the loop promises *)

\* A pass skips an address that is put aside, and no address twice before the space wraps:
\* no more passes are lost than addresses were put aside.
LEMMA FewSkipped ==
  ASSUME IInv, NoWrap, step = "done"
  PROVE  Cardinality(Skipped) <= Len(nodeIPs)
<1>0. i \in Nat /\ i <= Passes /\ nodeIPs \in Seq(Address \cup {None}) /\ Len(nodeIPs) \in Nat /\ Passes \in Nat
  BY DEF IInv, TypeOK, Progress, Passes
<1>1. IsFiniteSet(Taken) /\ Cardinality(Taken) <= Len(nodeIPs)
  <2> DEFINE g == [n \in 1..Len(nodeIPs) |-> nodeIPs[n]]
  <2>1. g \in Surjection(1..Len(nodeIPs), Taken)
    <3>1. g \in [1..Len(nodeIPs) -> Taken]
      BY <1>0 DEF Taken
    <3>2. \A t \in Taken : \E n \in 1..Len(nodeIPs) : g[n] = t
      BY <1>0 DEF Taken
    <3> QED
      BY <3>1, <3>2 DEF Surjection
  <2>2. IsFiniteSet(1..Len(nodeIPs)) /\ Cardinality(1..Len(nodeIPs)) = Len(nodeIPs)
    BY <1>0, FS_Interval
  <2> HIDE DEF g
  <2> QED
    BY <2>1, <2>2, FS_Surjection
<1>2. Cardinality(Skipped) <= Cardinality(Taken)
  <2> DEFINE h == [j \in Skipped |-> Candidate(j)]
  <2>1. h \in [Skipped -> Taken]
    BY DEF Skipped
  <2>2. ASSUME NEW a \in Skipped, NEW b \in Skipped, a # b PROVE h[a] # h[b]
    <3>1. a \in Nat /\ b \in Nat /\ a < Space /\ b < Space
      BY <1>0, SpaceAssumption DEF Skipped, NoWrap
    <3>2. CASE a < b
      BY <3>1, <3>2, CandidatesDiffer
    <3>3. CASE b < a
      BY <3>1, <3>3, CandidatesDiffer
    <3> QED
      BY <2>2, <3>1, <3>2, <3>3
  <2>3. h \in Injection(Skipped, Taken)
    BY <2>1, <2>2 DEF Injection, IsInjective
  <2> HIDE DEF h
  <2> QED
    BY <1>1, <2>3, FS_Injection
<1>3. Cardinality(Skipped) \in Nat /\ Cardinality(Taken) \in Nat
  BY <1>1, SkippedFinite, FS_CardinalityType
<1> QED
  BY <1>0, <1>1, <1>2, <1>3

LEMMA Enough == ASSUME IInv PROVE EgressAddresses
<1> SUFFICES ASSUME step = "done", wanted > 0, NoWrap
             PROVE  /\ Len(addrSlice) = wanted
                    /\ \A n \in DOMAIN addrSlice : addrSlice[n] \notin Used
                    /\ \A m, n \in DOMAIN addrSlice : m # n => addrSlice[m] # addrSlice[n]
                    /\ \A j \in 0..(i - 1) : Candidate(j) \notin Taken =>
                         \E n \in DOMAIN addrSlice : addrSlice[n] = Candidate(j)
  BY DEF EgressAddresses
<1>0. i \in Nat /\ wanted \in Nat /\ Len(nodeIPs) \in Nat /\ Len(addrSlice) \in Nat
      /\ workers \in Seq(Node) /\ k \in Nat
  BY DEF IInv, TypeOK
<1>1. Len(addrSlice) = wanted
  <2>1. Len(addrSlice) + Cardinality(Skipped) = i /\ Len(addrSlice) <= wanted
        /\ (Len(addrSlice) >= wanted \/ i >= wanted + Len(nodeIPs))
    BY DEF IInv, Progress, Passes
  <2>2. Cardinality(Skipped) \in Nat /\ Cardinality(Skipped) <= Len(nodeIPs)
    BY FewSkipped, SkippedFinite
  <2> QED
    BY <1>0, <2>1, <2>2
<1>2. Used \subseteq Taken
  BY <1>0 DEF IInv, SetAside, Used
<1>3. \A n \in DOMAIN addrSlice : addrSlice[n] \notin Taken
  BY DEF IInv, Progress
<1>4. \A m, n \in DOMAIN addrSlice : m # n => addrSlice[m] # addrSlice[n]
  BY DEF IInv, Progress
<1>5. \A j \in 0..(i - 1) : Candidate(j) \notin Taken => \E n \in DOMAIN addrSlice : addrSlice[n] = Candidate(j)
  BY DEF IInv, Progress, Skipped
<1> QED
  BY <1>1, <1>2, <1>3, <1>4, <1>5

\* The extra passes are enough for every address that is in use: as many addresses as
\* wanted are found, none used by the cluster, none twice, none that is free left out.
THEOREM EgressAddressesHolds == Spec => []EgressAddresses
<1>1. IInv => EgressAddresses
  BY Enough
<1> QED
  BY <1>1, Invariance, PTL

LEMMA Within == ASSUME IInv PROVE InCidr
<1> DEFINE net == egressIPCidr.network
<1> SUFFICES ASSUME step = "done", (net % Byte) + 4 < Byte, egressIPCidr.size >= 4 + Passes,
                    net + egressIPCidr.size <= Space, NEW n \in DOMAIN addrSlice
             PROVE  addrSlice[n] - net \in 4..(egressIPCidr.size - 1)
  BY DEF InCidr
<1>0. egressIPCidr \in Cidr /\ Passes \in Nat /\ i <= Passes /\ baseAddrInt = FirstUsable(egressIPCidr)
  BY DEF IInv, TypeOK, Progress, Passes
<1>1. net \in Nat /\ egressIPCidr.size \in Nat /\ Space \in Nat \ {0} /\ Byte \in Nat \ {0}
  BY <1>0, SpaceAssumption DEF Cidr
<1>2. PICK j \in 0..(i - 1) : addrSlice[n] = Candidate(j)
  BY DEF IInv, Progress
<1>3. baseAddrInt = net + 4
  <2>1. net % Byte \in 0..(Byte - 1)
    BY <1>1
  <2>2. (net % Byte) + 4 \in 0..(2 * Byte - 1)
    BY <1>1, <2>1
  <2>3. ((net % Byte) + 4) % Byte = (net % Byte) + 4
    BY <1>1, <2>2, ModOnce
  <2> QED
    BY <1>0, <1>1, <2>1, <2>3 DEF FirstUsable
<1>4. j \in Nat /\ j < Passes
  BY <1>0 DEF IInv, TypeOK
<1>5. baseAddrInt + j \in 0..(2 * Space - 1) /\ baseAddrInt + j < Space
  BY <1>0, <1>1, <1>3, <1>4
<1>6. Candidate(j) = net + 4 + j
  BY <1>1, <1>3, <1>5, ModOnce DEF Candidate
<1> QED
  BY <1>0, <1>1, <1>2, <1>4, <1>6

\* In a CIDR with room for all passes, whose network leaves room in its last byte, every
\* address found lies in the CIDR, past its first four.
THEOREM InCidrHolds == Spec => []InCidr
<1>1. IInv => InCidr
  BY Within
<1> QED
  BY <1>1, Invariance, PTL
=============================================================================
