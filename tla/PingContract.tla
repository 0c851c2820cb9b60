---------------------------- MODULE PingContract ----------------------------
(***************************************************************************)
(* What a caller of pingAllCudns (routeadvertisement-latency_linux.go)     *)
(* relies on: the call returns, and the list it returns holds exactly one  *)
(* entry for every pod it was given, a latency or -1, in the order the     *)
(* answers came in.                                                        *)
(***************************************************************************)
EXTENDS Sequences

CONSTANT Pods

VARIABLES report,    \* entries listed so far, [pod, ok]
          returned   \* the call is over

vars == <<report, returned>>

Reported == {report[k].pod : k \in DOMAIN report}

Init == report = <<>> /\ returned = FALSE

\* The outcome of one pod joins the list; a pod is listed once.
Report(p, ok) ==
  /\ ~returned
  /\ p \notin Reported
  /\ report' = Append(report, [pod |-> p, ok |-> ok])
  /\ UNCHANGED returned

\* The call returns only when every pod is listed.
Return ==
  /\ ~returned
  /\ Reported = Pods
  /\ returned' = TRUE
  /\ UNCHANGED report

Next == Return \/ \E p \in Pods, ok \in BOOLEAN : Report(p, ok)

Spec == Init /\ [][Next]_vars /\ WF_vars(Next)
=============================================================================
