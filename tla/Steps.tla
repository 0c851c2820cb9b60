------------------------------- MODULE Steps --------------------------------
(***************************************************************************)
(* What PreRun and Run of a workload command are made of.  Each is a       *)
(* sequence of the steps below: Command.tla says what a step does,         *)
(* Workloads.tla which command takes which steps.                          *)
(***************************************************************************)
EXTENDS Integers, Sequences

\* A lookup, a probe or a conversion: the command dies when it fails.
Need(thing) == [op |-> "need", what |-> thing]

\* A condition on the flags: the command dies when it does not hold.
Require(condition) == [op |-> "require", holds |-> condition]

\* getStorageAndSnapshotClasses(class, useSnapshot, useSnapshotChanged).
Storage(use, changed) == [op |-> "storage", use |-> use, changed |-> changed]

\* AdditionalVars[v] = ... for every v of names, and the same of a number.
Assign(names) == [op |-> "assign", names |-> names]
Put(name, number) == [op |-> "put", name |-> name, number |-> number]

\* setMetrics(cmd, profiles), os.Setenv(name, ...), wh.SetMeasurements(...).
Metrics(profiles) == [op |-> "metrics", profiles |-> profiles]
SetEnv(name) == [op |-> "setenv", name |-> name]
Measure(measurement) == [op |-> "measure", what |-> measurement]

\* rc = RunWorkload(cmd, wh, config); the scrapes of index; cleanupTestNamespaces.
Launch == [op |-> "launch"]
Scrape == [op |-> "scrape"]
Clean == [op |-> "clean"]

\* A routine with a module of its own: EgressIPs, AnpDensity.
Call(routine) == [op |-> "call", what |-> routine]

\* ClusterHealthCheck as the cluster-health command calls it.
CheckHealth == [op |-> "health"]

\* The storage class of a round of a loop, and its number of VMs.
Class(classes) == [op |-> "class", classes |-> classes]
Grow(initial, increment) == [op |-> "grow", initial |-> initial, increment |-> increment]

\* The end of the body of a loop, which is "back" steps long: it is left when the
\* launch failed or, when max > 0, after max rounds.
Again(back, max) == [op |-> "again", back |-> back, max |-> max]

When(condition, steps) == IF condition THEN steps ELSE << >>
=============================================================================
