---------------------------- MODULE LatencyLedger ---------------------------
(***************************************************************************)
(* What a latency measurement promises about what it indexes: an object    *)
(* gets one start time, then one latency, and the latency that is          *)
(* published for it is that one.  Nothing is ever taken back.              *)
(***************************************************************************)
EXTENDS Integers

CONSTANT Names

VARIABLES entry,       \* per name, start time and latency (None: not yet)
          published    \* per name, the latency indexed (None: not indexed)

vars == <<entry, published>>

None == -1
Blank == [ts |-> None, lat |-> None]

Init == entry = [n \in Names |-> Blank] /\ published = [n \in Names |-> None]

\* The object is seen for the first time, its latency may be known at once.
Open(n) ==
  /\ entry[n] = Blank
  /\ entry'[n].ts \in Nat /\ entry'[n].lat \in Nat \cup {None}
  /\ entry' = [entry EXCEPT ![n] = [ts |-> entry'[n].ts, lat |-> entry'[n].lat]]
  /\ UNCHANGED published

\* Its latency becomes known.
Measure(n) ==
  /\ entry[n] # Blank /\ entry[n].lat = None
  /\ entry'[n].lat \in Nat
  /\ entry' = [entry EXCEPT ![n].lat = entry'[n].lat]
  /\ UNCHANGED published

\* A known latency is indexed.
Publish(n) ==
  /\ entry[n].lat # None
  /\ published' = [published EXCEPT ![n] = entry[n].lat]
  /\ UNCHANGED entry

Next == \E n \in Names : Open(n) \/ Measure(n) \/ Publish(n)

Spec == Init /\ [][Next]_vars
=============================================================================
