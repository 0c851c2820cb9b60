------------------------------ MODULE OcpProofs -----------------------------
(***************************************************************************)
(* For any command lines that meet the assumptions of Command.tla: a       *)
(* cluster that was not found healthy is not touched, nor is one before    *)
(* the flags are valid; the exit code tells whether a launch failed; the   *)
(* values of --set are used, and the loops do what they were told.  For    *)
(* the built-in commands with any values of their flags: a launch has the  *)
(* variables, profiles and measurements it needs, and numbers that fit.    *)
(***************************************************************************)
EXTENDS Ocp, CommandLines, TLAPS

Known == inv \in Invocations

USE DEF Typed

\* PreRun and Run are sequences.
LEMMA Lines ==
  ASSUME Known
  PROVE  /\ Len(inv.pre) \in Nat /\ DOMAIN inv.pre = 1..Len(inv.pre) /\ DOMAIN inv.pre \subseteq Int
         /\ Len(inv.run) \in Nat /\ DOMAIN inv.run = 1..Len(inv.run) /\ DOMAIN inv.run \subseteq Int
BY OrderAssumption DEF Known, IsSequence

LEMMA InitInv == Init => Guarded /\ Known
<1> SUFFICES ASSUME Init PROVE Guarded /\ Known
  OBVIOUS
<1> USE DEF Init, Touched
<1>1. TypeOK
  <2>1. DOMAIN vars = {}
    OBVIOUS
  <2>2. launches \in Seq(Launched)
    OBVIOUS
  <2>3. \A v \in DOMAIN vars : vars[v].n \in Int
    BY <2>1
  <2>4. pc \in {"start", "metadata", "health", "prometheus", "set", "pre", "run", "exit"} /\ at \in Int /\ round \in Nat
    OBVIOUS
  <2>5. micro \in BOOLEAN /\ snapshot \in BOOLEAN /\ cleaned \in BOOLEAN
    OBVIOUS
  <2>6. prometheus \in {"none", "given", "found"} /\ rc \in {0, 1} /\ exit \in {0, 1}
    OBVIOUS
  <2> HIDE DEF Init
  <2> QED
    BY <2>2, <2>3, <2>4, <2>5, <2>6 DEF TypeOK
<1>2. launches = << >> /\ ~cleaned /\ DOMAIN launches = {}
  OBVIOUS
<1>3. HealthyCluster /\ Checked /\ InRun /\ Failed /\ ExitTells
  BY <1>2 DEF HealthyCluster, Checked, InRun, Failed, ExitTells
<1> QED
  BY <1>1, <1>3 DEF Guarded, Known

-----------------------------------------------------------------------------
(* Steps that leave the launches, rc and what was found wrong alone *)

\* What the parts of the invariant beside the types are about.
Untouched == inv' = inv /\ wrong' = wrong /\ rc' = rc /\ launches' = launches /\ cleaned' = cleaned

LEMMA SameLine ==
  ASSUME inv' = inv PROVE FlagsValid' = FlagsValid
BY DEF FlagsValid

\* Dying keeps the invariant, the types apart: an exit code of 1 claims nothing.
LEMMA DieInv ==
  ASSUME Guarded, Untouched, TypeOK', Die
  PROVE  Guarded'
<1> USE DEF Untouched, Guarded, Die
<1>0. FlagsValid' = FlagsValid
  BY SameLine
<1>1. HealthyCluster'
  BY DEF HealthyCluster, Touched
<1>2. Checked'
  BY DEF Checked
<1>3. InRun'
  BY <1>0 DEF InRun, Touched
<1>4. Failed'
  BY DEF Failed
<1>5. ExitTells'
  BY DEF ExitTells
<1> QED
  BY <1>1, <1>2, <1>3, <1>4, <1>5

\* So does a step of PreRun or Run that moves on.
LEMMA AdvanceInv ==
  ASSUME Guarded, Known, Untouched, TypeOK', pc \in {"pre", "run"}, Advance
  PROVE  Guarded'
<1> USE DEF Untouched, Guarded, Advance
<1>0. FlagsValid' = FlagsValid
  BY SameLine
<1>1. HealthyCluster'
  BY DEF HealthyCluster, Touched
<1>2. Checked'
  BY DEF Checked
<1>3. InRun'
  BY <1>0 DEF InRun, Touched
<1>4. Failed'
  <2>1. ASSUME rc # 0, pc = "run", NEW n \in DOMAIN inv.run, n >= at + 1
        PROVE  inv.run[n].op # "launch"
    <3>1. n \in Int /\ at \in Int
      BY <2>1, Lines DEF TypeOK
    <3>2. n >= at
      BY <3>1, <2>1
    <3> QED
      BY <2>1, <3>2 DEF Failed
  <2>2. (rc # 0 /\ pc = "run" => \A n \in DOMAIN inv.run : n >= at => inv.run[n].op # "launch")'
    BY <2>1
  <2> QED
    BY <2>2 DEF Failed
<1>5. ExitTells'
  BY DEF ExitTells
<1> QED
  BY <1>1, <1>2, <1>3, <1>4, <1>5

-----------------------------------------------------------------------------
(* PersistentPreRun *)

USE DEF cluster, values, stage, history

\* Before Run nothing has been touched.
LEMMA NotYet ==
  ASSUME Guarded, pc \notin {"run", "exit", "polling"}
  PROVE  launches = << >> /\ ~cleaned /\ rc = 0
BY DEF Guarded, InRun, Failed, Touched

\* Moving on before Run keeps the invariant when the types do and the health is known.
LEMMA EarlyInv ==
  ASSUME Guarded, pc \notin {"run", "exit", "polling"}, pc' \notin {"run", "exit", "polling"},
         inv' = inv, rc' = rc, UNCHANGED history, TypeOK', Checked'
  PROVE  Guarded'
<1>1. launches' = << >> /\ ~cleaned' /\ rc' = 0
  BY NotYet
<1>2. DOMAIN launches' = {}
  BY <1>1
<1> QED
  BY <1>1, <1>2 DEF Guarded, HealthyCluster, InRun, Failed, ExitTells, Touched

LEMMA WithType ==
  ASSUME TypeOK, NEW names, NEW who, NEW n \in Int, vars' = With(names, who, n)
  PROVE  \A v \in DOMAIN vars' : vars'[v].n \in Int
BY DEF TypeOK, With

LEMMA BeginInv == ASSUME Guarded, Known, Begin PROVE Guarded'
<1> USE DEF Begin
<1>1. TypeOK'
  <2>1. \A v \in DOMAIN vars' : vars'[v].n \in Int
    BY WithType DEF Guarded, TypeOK
  <2> QED
    BY <2>1 DEF Guarded, TypeOK, GoTo
<1>2. CASE pc' = "exit"
  <2>1. launches' = << >> /\ ~cleaned' /\ rc' = 0
    BY NotYet
  <2>2. DOMAIN launches' = {}
    BY <2>1
  <2> QED
    BY <1>1, <1>2, <2>1, <2>2 DEF Guarded, HealthyCluster, Checked, InRun, Failed, ExitTells, Touched
<1>3. CASE pc' # "exit"
  <2>1. pc' \in {"pre", "metadata"} /\ (pc' = "pre" => inv.name \in Quiet)
    BY <1>3 DEF GoTo, Quiet
  <2>2. Checked'
    BY <2>1 DEF Checked
  <2> QED
    BY <1>1, <2>1, <2>2, EarlyInv
<1> QED
  BY <1>2, <1>3

LEMMA GatherMetadataInv == ASSUME Guarded, Known, GatherMetadata PROVE Guarded'
<1> USE DEF GatherMetadata
<1>1. TypeOK'
  <2>1. \A v \in DOMAIN vars' : vars'[v].n \in Int
    BY WithType DEF Guarded, TypeOK
  <2> QED
    BY <2>1 DEF Guarded, TypeOK, GoTo, Die
<1>2. CASE Die
  BY <1>1, <1>2, DieInv DEF Untouched
<1>3. CASE GoTo(IF inv.name = "index" THEN "prometheus" ELSE "health")
  BY <1>1, <1>3, EarlyInv DEF GoTo, Checked, Quiet
<1> QED
  BY <1>2, <1>3

LEMMA HealthCheckInv == ASSUME Guarded, Known, HealthCheck PROVE Guarded'
<1> USE DEF HealthCheck
<1>1. TypeOK'
  BY DEF Guarded, TypeOK, GoTo, Die
<1>2. CASE Die
  <2>1. launches' = << >> /\ ~cleaned' /\ rc' = 0
    BY NotYet
  <2>2. DOMAIN launches' = {}
    BY <2>1
  <2> QED
    BY <1>1, <1>2, <2>1, <2>2 DEF Guarded, HealthyCluster, Checked, InRun, Failed, ExitTells, Touched, Die
<1>3. CASE FindTrouble(micro, Typed("ignore-health-check")) /\ GoTo("prometheus")
  BY <1>1, <1>3, EarlyInv DEF GoTo, Checked, FindTrouble
<1> QED
  BY <1>2, <1>3

LEMMA PrometheusInv == ASSUME Guarded, Known, Prometheus PROVE Guarded'
<1> USE DEF Prometheus
<1>1. TypeOK'
  <2>1. prometheus' \in {"none", "given", "found"}
    BY DEF Guarded, TypeOK
  <2>2. /\ pc' \in {"start", "metadata", "health", "prometheus", "set", "pre", "run", "exit"}
        /\ at' \in Int /\ exit' \in {0, 1}
    <3>1. Die \/ GoTo("set")
      OBVIOUS
    <3>2. at \in Int /\ exit \in {0, 1}
      BY DEF Guarded, TypeOK
    <3> HIDE DEF Prometheus
    <3>3. CASE Die
      BY <3>2, <3>3 DEF Die
    <3>4. CASE GoTo("set")
      BY <3>2, <3>4 DEF GoTo
    <3> QED
      BY <3>1, <3>3, <3>4
  <2> QED
    BY <2>1, <2>2 DEF Guarded, TypeOK
<1>2. CASE Die
  BY <1>1, <1>2, DieInv DEF Untouched
<1>3. CASE GoTo("set")
  BY <1>1, <1>3, EarlyInv DEF GoTo, Checked, Guarded
<1> QED
  BY <1>2, <1>3

LEMMA ParseSetValuesInv == ASSUME Guarded, Known, ParseSetValues PROVE Guarded'
<1> USE DEF ParseSetValues
<1>1. TypeOK'
  <2>1. (pc' = "pre" \/ pc' = "exit") /\ (at' = at \/ at' = 1) /\ (exit' = exit \/ exit' = 1)
    BY DEF GoTo, Die
  <2>2. UNCHANGED <<micro, prometheus, vars, snapshot, round, rc, launches, cleaned>>
    OBVIOUS
  <2> HIDE DEF ParseSetValues
  <2> QED
    BY <2>1, <2>2 DEF Guarded, TypeOK
<1>2. CASE Die
  BY <1>1, <1>2, DieInv DEF Untouched
<1>3. CASE GoTo("pre")
  BY <1>1, <1>3, EarlyInv DEF GoTo, Checked, Guarded
<1> QED
  BY <1>2, <1>3

-----------------------------------------------------------------------------
(* The steps of PreRun and Run *)

USE DEF At

\* A step taken is one of PreRun or Run, and the position is one of its steps.
LEMMA StepTaken ==
  ASSUME NEW op, At(op)
  PROVE  /\ pc \in {"pre", "run"} /\ at \in DOMAIN Steps /\ Step.op = op
         /\ pc = "pre" => Has(inv.pre, op)
         /\ pc = "run" => Has(inv.run, op)
BY DEF Steps, Step, Has

LEMMA StillInv ==
  ASSUME Guarded, Known, Untouched, TypeOK', pc \in {"pre", "run"}, Advance \/ Die
  PROVE  Guarded'
BY AdvanceInv, DieInv

LEMMA AdvanceType ==
  ASSUME TypeOK, pc \in {"pre", "run"}, Advance \/ Die
  PROVE  /\ pc' \in {"start", "metadata", "health", "prometheus", "set", "pre", "run", "exit"}
         /\ at' \in Int /\ exit' \in {0, 1}
BY DEF TypeOK, Advance, Die

LEMMA TakeNeedInv == ASSUME Guarded, Known, TakeNeed PROVE Guarded'
<1>1. TypeOK'
  BY AdvanceType DEF TakeNeed, Guarded, TypeOK
<1> QED
  BY <1>1, StillInv DEF TakeNeed, Untouched

LEMMA TakeRequireInv == ASSUME Guarded, Known, TakeRequire PROVE Guarded'
<1>1. TypeOK'
  BY AdvanceType DEF TakeRequire, Guarded, TypeOK
<1> QED
  BY <1>1, StillInv DEF TakeRequire, Untouched

LEMMA TakeStorageInv == ASSUME Guarded, Known, TakeStorage PROVE Guarded'
<1>0. snapshot' \in BOOLEAN
  <2>1. Step.use \in BOOLEAN
    BY StepsAssumption DEF TakeStorage, Known, Steps, Step
  <2> QED
    BY <2>1 DEF TakeStorage, SnapshotWanted, Guarded, TypeOK
<1>1. TypeOK'
  BY <1>0, AdvanceType DEF TakeStorage, Guarded, TypeOK
<1> QED
  BY <1>1, StillInv DEF TakeStorage, Untouched

LEMMA TakeAssignInv == ASSUME Guarded, Known, TakeAssign PROVE Guarded'
<1>0. pc \in {"pre", "run"} /\ at \in DOMAIN Steps
  BY StepTaken DEF TakeAssign
<1>1. \A v \in DOMAIN vars' : vars'[v].n \in Int
  <2>1. CASE At("assign") /\ vars' = With(Step.names, "program", 0)
    BY <2>1, WithType DEF Guarded
  <2>2. CASE At("put") /\ vars' = With({Step.name}, "program", Step.number)
    <3>1. Step.number \in Int
      BY <2>2, StepsAssumption DEF Known, Steps, Step
    <3> QED
      BY <2>2, <3>1, WithType DEF Guarded
  <2> QED
    BY <2>1, <2>2 DEF TakeAssign
<1>2. TypeOK'
  BY <1>0, <1>1, AdvanceType DEF TakeAssign, Guarded, TypeOK
<1> QED
  BY <1>0, <1>2, StillInv DEF TakeAssign, Untouched

LEMMA TakeEnvironmentInv == ASSUME Guarded, Known, TakeEnvironment PROVE Guarded'
<1>0. pc \in {"pre", "run"}
  BY DEF TakeEnvironment
<1>1. TypeOK'
  BY <1>0, AdvanceType DEF TakeEnvironment, Guarded, TypeOK
<1> QED
  BY <1>0, <1>1, StillInv DEF TakeEnvironment, Untouched

LEMMA TakeMeasureInv == ASSUME Guarded, Known, TakeMeasure PROVE Guarded'
<1>1. TypeOK'
  BY AdvanceType DEF TakeMeasure, Guarded, TypeOK
<1> QED
  BY <1>1, StillInv DEF TakeMeasure, Untouched

LEMMA TakeRoundInv == ASSUME Guarded, Known, TakeRound PROVE Guarded'
<1>0. pc \in {"pre", "run"} /\ at \in DOMAIN Steps
  BY DEF TakeRound
<1>1. \A v \in DOMAIN vars' : vars'[v].n \in Int
  <2>0. round \in Nat
    BY DEF Guarded, TypeOK
  <2>1. CASE /\ At("class") /\ Step.classes # 0
             /\ vars' = With({"storageClassName"}, "program", (round % Step.classes) + 1)
    <3>1. Step.classes \in Nat \ {0}
      BY <2>1, StepsAssumption DEF Known, Steps, Step
    <3>2. (round % Step.classes) + 1 \in Int
      BY <2>0, <3>1
    <3> QED
      BY <2>1, <3>2, WithType DEF Guarded
  <2>2. CASE At("grow") /\ vars' = With({"vmCount"}, "program", Step.initial + round * Step.increment)
    <3>1. Step.initial \in Int /\ Step.increment \in Int
      BY <2>2, StepsAssumption DEF Known, Steps, Step
    <3>2. Step.initial + round * Step.increment \in Int
      BY <2>0, <3>1
    <3> QED
      BY <2>2, <3>2, WithType DEF Guarded
  <2>3. CASE UNCHANGED vars
    BY <2>3 DEF Guarded, TypeOK
  <2> QED
    BY <2>1, <2>2, <2>3 DEF TakeRound
<1>2. TypeOK'
  BY <1>0, <1>1, AdvanceType DEF TakeRound, Guarded, TypeOK
<1> QED
  BY <1>0, <1>2, StillInv DEF TakeRound, Untouched

LEMMA CallInv == ASSUME Guarded, Known, CallReturns \/ CallDies PROVE Guarded'
<1>0. pc \in {"pre", "run"} /\ (Advance \/ Die)
  BY DEF CallReturns, CallDies
<1>1. TypeOK'
  BY <1>0, AdvanceType DEF CallReturns, CallDies, Guarded, TypeOK
<1> QED
  BY <1>0, <1>1, StillInv DEF CallReturns, CallDies, Untouched

LEMMA TakeAgainInv == ASSUME Guarded, Known, TakeAgain PROVE Guarded'
<1> USE DEF TakeAgain
<1>0. at \in DOMAIN Steps /\ Step.op = "again" /\ pc = "run"
  BY StepTaken, InvocationsAssumption DEF Known
<1>1. Step.back \in Int /\ Step.max \in Int
  BY <1>0, StepsAssumption DEF Known, Steps, Step
<1>2. TypeOK'
  BY <1>1 DEF Guarded, TypeOK
<1>3. CASE ~Succeeded
  BY <1>2, <1>3, AdvanceInv DEF Untouched, Advance
<1>4. CASE Succeeded
  <2>0. FlagsValid' = FlagsValid
    BY SameLine
  <2>1. HealthyCluster' /\ Checked' /\ ExitTells'
    BY DEF Guarded, HealthyCluster, Checked, ExitTells, Touched
  <2>2. InRun'
    BY <2>0 DEF Guarded, InRun, Touched
  <2>3. Failed'
    BY <1>4 DEF Guarded, Failed, Succeeded
  <2> QED
    BY <1>2, <2>1, <2>2, <2>3 DEF Guarded
<1> QED
  BY <1>3, <1>4

LEMMA LaunchInv == ASSUME Guarded, Known, Launch PROVE Guarded'
<1> USE DEF Launch
<1> DEFINE L == Has(inv.run, "launch")
<1>0. pc = "run" /\ at \in DOMAIN inv.run /\ inv.run[at].op = "launch" /\ L
  BY StepTaken, InvocationsAssumption DEF Known, Steps, Step
<1>1. PICK ok \in BOOLEAN :
        /\ launches' = Append(launches, [ok |-> ok, class |-> Number("storageClassName"),
                                         vms |-> Number("vmCount")])
        /\ rc' = IF ok THEN 0 ELSE 1
  OBVIOUS
<1>2. UNCHANGED <<inv, pc, exit, wrong, cleaned, micro, snapshot, prometheus, round>> /\ at' = at + 1
  BY DEF Advance
<1>3. \A v \in DOMAIN vars' : vars'[v].n \in Int
  <2>1. PICK moved, blank :
          vars' = [v \in DOMAIN vars \cup moved \cup blank |->
                    IF v \in DOMAIN vars THEN vars[v]
                    ELSE [by |-> IF v \in moved THEN "user" ELSE "default", n |-> 0]]
    OBVIOUS
  <2>2. \A v \in DOMAIN vars : vars[v].n \in Int
    BY DEF Guarded, TypeOK
  <2> HIDE DEF Launch
  <2> SUFFICES ASSUME NEW v \in DOMAIN vars' PROVE vars'[v].n \in Int
    OBVIOUS
  <2>3. CASE v \in DOMAIN vars
    BY <2>1, <2>2, <2>3
  <2>4. CASE v \notin DOMAIN vars
    <3>1. vars'[v] = [by |-> IF v \in moved THEN "user" ELSE "default", n |-> 0]
      BY <2>1, <2>4
    <3> QED
      BY <3>1
  <2> QED
    BY <2>3, <2>4
<1> HIDE DEF Launch
<1>4. [ok |-> ok, class |-> Number("storageClassName"), vms |-> Number("vmCount")] \in Launched
  BY DEF Guarded, TypeOK, Number, Launched
<1>5. launches \in Seq(Launched)
  BY DEF Guarded, TypeOK
<1>6. TypeOK'
  <2>1. launches' \in Seq(Launched)
    BY <1>1, <1>4, <1>5
  <2>2. rc' \in {0, 1} /\ at' \in Int
    BY <1>1, <1>2 DEF Guarded, TypeOK
  <2> QED
    BY <1>2, <1>3, <2>1, <2>2 DEF Guarded, TypeOK
\* rc was 0, or no launch would be left.
<1>7. rc = 0 /\ at \in Int
  <2>1. at \in Int
    BY DEF Guarded, TypeOK
  <2> QED
    BY <1>0, <2>1 DEF Guarded, Failed
<1>8. \A n \in DOMAIN launches : launches[n].ok
  BY <1>7 DEF Guarded, Failed
<1>9. /\ Len(launches') = Len(launches) + 1
      /\ DOMAIN launches' = 1..(Len(launches) + 1)
      /\ \A n \in 1..Len(launches) : launches'[n] = launches[n]
      /\ launches'[Len(launches) + 1].ok = ok
      /\ launches' # << >>
  BY <1>1, <1>4, <1>5
<1>10. \A n \in DOMAIN launches' : n < Len(launches') => launches'[n].ok
  BY <1>5, <1>8, <1>9
<1>11. FlagsValid' /\ FlagsValid
  BY <1>0, <1>2, SameLine DEF Guarded, InRun
<1>12. HealthyCluster' /\ Checked'
  <2>1. inv.name \notin Quiet \cup {"index"}
    BY <1>0, InvocationsAssumption DEF Known
  <2> QED
    BY <1>0, <1>2, <2>1 DEF Guarded, Checked, HealthyCluster
<1>13. InRun'
  BY <1>0, <1>2, <1>11 DEF Guarded, InRun
<1>14. Failed'
  <2>1. rc' = 0 => \A n \in DOMAIN launches' : launches'[n].ok
    <3>1. rc' = 0 => ok
      BY <1>1
    <3>2. ASSUME ok, NEW n \in 1..(Len(launches) + 1) PROVE launches'[n].ok
      <4>1. CASE n = Len(launches) + 1
        BY <1>9, <3>2, <4>1
      <4>2. CASE n \in 1..Len(launches)
        BY <1>5, <1>8, <1>9, <4>2
      <4> QED
        BY <1>5, <4>1, <4>2
    <3> QED
      BY <1>9, <3>1, <3>2
  <2>2. \A n \in DOMAIN inv.run : n >= at + 1 => inv.run[n].op # "launch"
    <3>1. \A n \in DOMAIN inv.run : inv.run[n].op = "launch" => n = at
      BY <1>0, InvocationsAssumption DEF Known
    <3> QED
      BY <1>7, <3>1
  <2> QED
    BY <1>0, <1>2, <2>1, <2>2 DEF Failed
<1>15. ExitTells'
  BY <1>0, <1>2, <1>10 DEF ExitTells
<1> QED
  BY <1>6, <1>12, <1>13, <1>14, <1>15 DEF Guarded

LEMMA TakeScrapeInv == ASSUME Guarded, Known, TakeScrape PROVE Guarded'
<1> USE DEF TakeScrape
<1>0. pc = "run" /\ Has(inv.run, "scrape")
  BY StepTaken, InvocationsAssumption DEF Known
<1>1. ~Has(inv.run, "launch") /\ launches = << >>
  BY <1>0, InvocationsAssumption DEF Known, Guarded, InRun
<1>2. TypeOK'
  BY DEF Guarded, TypeOK, Advance
<1>3. FlagsValid' = FlagsValid
  BY SameLine
<1>4. HealthyCluster' /\ Checked' /\ InRun'
  BY <1>0, <1>3 DEF Guarded, HealthyCluster, Checked, InRun, Touched, Advance
<1>5. Failed' /\ ExitTells'
  <2>1. DOMAIN launches' = {} /\ pc' = "run"
    BY <1>0, <1>1 DEF Advance
  <2>2. \A n \in DOMAIN inv.run : inv.run[n].op # "launch"
    BY <1>1 DEF Has
  <2> QED
    BY <2>1, <2>2 DEF Failed, ExitTells
<1> QED
  BY <1>2, <1>4, <1>5 DEF Guarded

LEMMA TakeCleanInv == ASSUME Guarded, Known, TakeClean PROVE Guarded'
<1> USE DEF TakeClean
<1> DEFINE Polls == pc' = "polling" /\ UNCHANGED <<at, exit>>
<1>0. pc = "run" /\ Has(inv.run, "clean") /\ (Advance \/ Die \/ Polls)
  BY StepTaken, InvocationsAssumption DEF Known
<1>1. inv.name \notin Quiet \cup {"index"} /\ FlagsValid
  BY <1>0, InvocationsAssumption DEF Known, Guarded, InRun
<1>2. TypeOK'
  <2>1. pc' \in {"start", "metadata", "health", "prometheus", "set", "pre", "run", "exit", "polling"}
        /\ at' \in Int /\ exit' \in {0, 1}
    BY <1>0, AdvanceType DEF Guarded, TypeOK
  <2> QED
    BY <2>1 DEF Guarded, TypeOK
<1>3. FlagsValid' = FlagsValid
  BY SameLine
<1>4. pc' \in {"run", "exit", "polling"}
  BY <1>0 DEF Advance, Die
<1>5. HealthyCluster' /\ Checked' /\ InRun'
  BY <1>0, <1>1, <1>3, <1>4 DEF Guarded, HealthyCluster, Checked, InRun, Touched
<1>6. Failed'
  <2>1. ASSUME rc # 0, Advance, NEW n \in DOMAIN inv.run, n >= at + 1
        PROVE  inv.run[n].op # "launch"
    <3>1. n \in Int /\ at \in Int
      BY Lines DEF Guarded, TypeOK
    <3> QED
      BY <1>0, <2>1, <3>1 DEF Guarded, Failed
  <2>2. CASE Die \/ Polls
    BY <1>4, <2>2 DEF Guarded, Failed, Die
  <2>3. CASE Advance
    BY <1>0, <2>1, <2>3 DEF Guarded, Failed, Advance
  <2> QED
    BY <1>0, <2>2, <2>3
<1>7. ExitTells'
  BY <1>0 DEF Guarded, ExitTells, Advance, Die
<1> QED
  BY <1>2, <1>5, <1>6, <1>7 DEF Guarded

LEMMA TakeHealthInv == ASSUME Guarded, Known, TakeHealth PROVE Guarded'
<1> USE DEF TakeHealth
<1>0. pc = "run" /\ Has(inv.run, "health") /\ (Advance \/ Die)
  BY StepTaken, InvocationsAssumption DEF Known
<1>1. inv.name \in Quiet /\ launches = << >> /\ ~cleaned
  <2>1. inv.name \in Quiet
    BY <1>0, InvocationsAssumption DEF Known
  <2>2. ~Has(inv.run, "launch") /\ ~Has(inv.run, "clean")
    BY <2>1, InvocationsAssumption DEF Known
  <2> QED
    BY <2>1, <2>2 DEF Guarded, InRun
<1>2. TypeOK'
  BY <1>0, AdvanceType DEF Guarded, TypeOK
<1>3. FlagsValid' = FlagsValid
  BY SameLine
<1>4. pc' \in {"run", "exit"}
  BY <1>0 DEF Advance, Die
<1>5. HealthyCluster' /\ Checked' /\ InRun'
  BY <1>0, <1>1, <1>3, <1>4 DEF Guarded, HealthyCluster, Checked, InRun, Touched
<1>6. Failed' /\ ExitTells'
  <2>1. DOMAIN launches' = {} /\ rc' = rc
    BY <1>1
  <2>2. \A n \in DOMAIN inv.run : inv.run[n].op # "launch"
    BY <1>1, InvocationsAssumption DEF Known, Has
  <2> QED
    BY <1>4, <2>1, <2>2 DEF Guarded, Failed, ExitTells
<1> QED
  BY <1>2, <1>5, <1>6 DEF Guarded

-----------------------------------------------------------------------------
(* The ends *)

LEMMA EndOfPreRunInv == ASSUME Guarded, Known, EndOfPreRun PROVE Guarded'
<1> USE DEF EndOfPreRun, AtEnd
<1>1. TypeOK'
  <2>1. GoTo("run") \/ Die
    OBVIOUS
  <2> QED
    BY <2>1 DEF Guarded, TypeOK, GoTo, Die
<1>2. CASE Die
  BY <1>1, <1>2, DieInv DEF Untouched
<1>3. CASE FlagsValid /\ GoTo("run")
  <2>1. launches' = << >> /\ ~cleaned' /\ rc' = 0
    BY NotYet
  <2>2. DOMAIN launches' = {}
    BY <2>1
  <2>3. FlagsValid' = FlagsValid /\ pc' = "run"
    BY <1>3, SameLine DEF GoTo
  <2>4. Checked'
    BY <2>3 DEF Guarded, Checked
  <2> QED
    BY <1>1, <1>3, <2>1, <2>2, <2>3, <2>4 DEF Guarded, HealthyCluster, InRun, Failed, ExitTells, Touched
<1> QED
  BY <1>2, <1>3

LEMMA EndOfRunInv == ASSUME Guarded, Known, EndOfRun PROVE Guarded'
<1> USE DEF EndOfRun, AtEnd, ExitCode
<1>1. TypeOK'
  BY DEF Guarded, TypeOK
<1>2. FlagsValid' = FlagsValid
  BY SameLine
<1>3. HealthyCluster' /\ Checked' /\ InRun'
  BY <1>2 DEF Guarded, HealthyCluster, Checked, InRun, Touched
<1>4. Failed' /\ ExitTells'
  BY DEF Guarded, Failed, ExitTells
<1> QED
  BY <1>1, <1>3, <1>4 DEF Guarded

LEMMA StutterInv == ASSUME Guarded, UNCHANGED all PROVE Guarded'
<1>1. FlagsValid' = FlagsValid
  BY SameLine DEF all
<1>2. TypeOK'
  BY DEF all, Guarded, TypeOK
<1> QED
  BY <1>1, <1>2 DEF all, Guarded, HealthyCluster, Checked, InRun, Failed, ExitTells, Touched

LEMMA KnownStays == ASSUME Known, Own \/ CallReturns \/ CallDies PROVE Known'
BY DEF Known, Own, Begin, GatherMetadata, HealthCheck, Prometheus, ParseSetValues, TakeNeed, TakeRequire,
       TakeStorage, TakeAssign, TakeEnvironment, TakeMeasure, TakeRound, Launch, TakeAgain, TakeScrape,
       TakeClean, TakeHealth, EndOfPreRun, EndOfRun, Exited, all, CallReturns, CallDies

LEMMA StepInv == ASSUME Guarded, Known, [Next]_all PROVE Guarded' /\ Known'
<1>1. CASE UNCHANGED all
  BY <1>1, StutterInv DEF all, Known
<1>2. CASE Next
  <2>1. Guarded'
    BY <1>2, BeginInv, GatherMetadataInv, HealthCheckInv, PrometheusInv, ParseSetValuesInv, TakeNeedInv,
       TakeRequireInv, TakeStorageInv, TakeAssignInv, TakeEnvironmentInv, TakeMeasureInv, TakeRoundInv,
       LaunchInv, TakeAgainInv, TakeScrapeInv, TakeCleanInv, TakeHealthInv, EndOfPreRunInv, EndOfRunInv,
       StutterInv, CallInv DEF Next, Own, Exited
  <2> QED
    BY <1>2, <2>1, KnownStays DEF Next
<1> QED
  BY <1>1, <1>2

-----------------------------------------------------------------------------
(* What the steps prepare for the launch *)

LEMMA Shape ==
  ASSUME Known
  PROVE  /\ \A h \in DOMAIN inv.pre : /\ ~Prepares(inv.pre[h])
                                      /\ inv.pre[h].op \notin {"launch", "again", "scrape", "clean", "health"}
         /\ \A j, h \in DOMAIN inv.run : Launches(j) /\ Prepares(inv.run[h]) => h < j
         /\ \A j, h \in DOMAIN inv.run : Launches(j) /\ Launches(h) => j = h
         /\ Looped(inv.run)
         /\ Has(inv.run, "launch") => inv.name \notin Quiet /\ ~Has(inv.run, "scrape")
BY OrderAssumption, LoopAssumption, InvocationsAssumption DEF Known, Launches, Has

Same == UNCHANGED <<inv, vars, setVars, round, launches, lacking>>
Grown == environ \subseteq environ' /\ registered \subseteq registered' /\ metrics' \subseteq ProfileFiles

\* What is known of a variable is its last number.
LEMMA SameNumber == ASSUME UNCHANGED vars PROVE \A name : Number(name)' = Number(name)
BY DEF Number

\* Dying keeps what was prepared, and so does exiting when the loops are through.
LEMMA DiePrepared ==
  ASSUME Prepared, Same, Grown, pc' \in {"exit", "polling"},
         pc' = "polling" \/ exit' = 1 \/ Typed("extract") \/ LoopsFully'
  PROVE  Prepared'
<1> USE DEF Same, Grown
<1>1. OnTheWay'
  BY DEF Prepared, OnTheWay
<1>2. Given'
  BY DEF Prepared, Given, Done
<1>3. Taken' /\ SetValuesUsed'
  BY DEF Prepared, Taken, SetValuesUsed
<1>4. Numbers'
  BY SameNumber DEF Prepared, Numbers, Done
<1>5. Rounds'
  BY DEF Rounds
<1>6. LoopsFully'
  <2>1. CASE pc' = "polling" \/ exit' = 1 \/ Typed("extract")
    BY <2>1 DEF Prepared, LoopsFully
  <2> QED
    BY <2>1
<1> QED
  BY <1>1, <1>2, <1>3, <1>4, <1>5, <1>6 DEF Prepared

\* A step ahead of the launch stays in the body of the loop.
LEMMA AheadAgain ==
  ASSUME Guarded, Known, Prepared, pc = "run", launches # << >>, at \in DOMAIN inv.run,
         NEW j \in DOMAIN inv.run, Launches(j), at + 1 <= j
  PROVE  \E e \in DOMAIN inv.run : Loops(e) /\ e - inv.run[e].back <= at + 1
<1>1. at \in Int /\ j \in Int
  BY Lines DEF Guarded, TypeOK
<1>2. PICK e \in DOMAIN inv.run : Loops(e) /\ e - inv.run[e].back <= at
  BY <1>1 DEF Prepared, OnTheWay
<1>3. e \in Int /\ inv.run[e].back \in Int
  BY <1>2, Lines, StepsAssumption DEF Known, Loops
<1>4. e - inv.run[e].back <= at + 1
  BY <1>1, <1>2, <1>3
<1> QED
  BY <1>2, <1>4

\* A step of PreRun or Run that sets no variable, and what it has to do.
Sideways ==
  /\ pc \in {"pre", "run"} /\ at \in DOMAIN Steps /\ Advance
  /\ Names(Step) = {} /\ Step.op \notin {"launch", "again"}
  /\ Exports(Step) \subseteq environ'
  /\ Step.op = "measure" => Step.what \in registered'
  /\ Step.op = "require" => Step.holds
  /\ rc' = rc \/ (rc' = 1 /\ Step.op = "scrape")

\* Steps that only move on, whatever they add to what is there.
LEMMA SidewaysPrepared ==
  ASSUME Guarded, Known, Prepared, Same, Grown, Sideways
  PROVE  Prepared'
<1> USE DEF Same, Grown
<1>1. /\ pc \in {"pre", "run"} /\ at \in DOMAIN Steps /\ pc' = pc /\ at' = at + 1 /\ at \in Int
      /\ Steps = IF pc = "pre" THEN inv.pre ELSE inv.run
  BY DEF Sideways, Advance, Steps, Guarded, TypeOK
<1>2. OnTheWay'
  <2>1. pc = "pre" => at + 1 \in 1..(Len(inv.pre) + 1)
    BY <1>1, Lines
  <2>2. pc = "run" => at + 1 \in 1..(Len(inv.run) + 1)
    BY <1>1, Lines
  <2>3. ASSUME pc = "pre", NEW h \in 1..at, inv.pre[h].op = "require"
        PROVE  inv.pre[h].holds
    <3>1. CASE h = at
      BY <1>1, <2>3, <3>1 DEF Sideways, Step
    <3>2. CASE h # at
      BY <1>1, <2>3, <3>2 DEF Prepared, OnTheWay
    <3> QED
      BY <3>1, <3>2
  <2>4. ASSUME pc = "run", launches # << >>, NEW j \in DOMAIN inv.run, Launches(j), at + 1 <= j
        PROVE  \E e \in DOMAIN inv.run : Loops(e) /\ e - inv.run[e].back <= at + 1
    BY <1>1, <2>4, AheadAgain
  <2> QED
    BY <1>1, <2>1, <2>2, <2>3, <2>4 DEF Prepared, OnTheWay, Launches, Loops
<1>3. Given'
  <2>1. ASSUME NEW j \in DOMAIN inv.run, Prepares(inv.run[j]), Done(j)'
        PROVE  /\ Names(inv.run[j]) \subseteq DOMAIN vars /\ Exports(inv.run[j]) \subseteq environ'
               /\ inv.run[j].op = "measure" => inv.run[j].what \in registered'
    <3>1. CASE Done(j)
      BY <2>1, <3>1 DEF Prepared, Given
    <3>2. CASE ~Done(j)
      <4>1. pc = "run" /\ j = at
        BY <1>1, <2>1, <3>2, Lines DEF Done
      <4> QED
        BY <1>1, <4>1 DEF Sideways, Step
    <3> QED
      BY <3>1, <3>2
  <2> QED
    BY <1>1, <2>1 DEF Prepared, Given
<1>4. Taken' /\ SetValuesUsed'
  BY <1>1 DEF Prepared, Taken, SetValuesUsed
<1>5. Numbers'
  <2>1. ASSUME NEW j \in DOMAIN inv.run, LastPut(inv.run, j), Done(j)'
        PROVE  Number(inv.run[j].name) = inv.run[j].number
    <3>1. CASE Done(j)
      BY <2>1, <3>1 DEF Prepared, Numbers
    <3>2. CASE ~Done(j)
      <4>1. pc = "run" /\ j = at
        BY <1>1, <2>1, <3>2, Lines DEF Done
      <4>2. Names(inv.run[j]) = {} /\ inv.run[j].op = "put"
        BY <1>1, <2>1, <4>1 DEF Sideways, Step, LastPut
      <4> QED
        BY <4>2 DEF Names
    <3> QED
      BY <3>1, <3>2
  <2> QED
    BY <2>1, SameNumber DEF Prepared, Numbers
<1>6. Rounds'
  <2>0. CASE pc = "pre"
    BY <1>1, <2>0 DEF Prepared, Rounds
  <2>1. CASE pc = "run"
    <3>1. inv.run[at].op \notin {"launch", "again", "class", "grow"}
      BY <1>1, <2>1 DEF Sideways, Step, Names
    <3>2. ASSUME NEW j \in DOMAIN inv.run, Launches(j), at + 1 <= j
          PROVE  /\ Len(launches) = round
                 /\ \A c \in 1..at :
                      /\ inv.run[c].op = "class" => Number("storageClassName") = (round % inv.run[c].classes) + 1
                      /\ inv.run[c].op = "grow" => Number("vmCount") = inv.run[c].initial + round * inv.run[c].increment
      <4>1. j \in Int /\ at <= j
        BY <1>1, <3>2, Lines
      <4>2. SUFFICES ASSUME NEW c \in 1..at
                     PROVE  /\ Len(launches) = round
                            /\ inv.run[c].op = "class" => Number("storageClassName") = (round % inv.run[c].classes) + 1
                            /\ inv.run[c].op = "grow" => Number("vmCount") = inv.run[c].initial + round * inv.run[c].increment
        BY <2>1, <3>2, <4>1 DEF Prepared, Rounds
      <4>3. CASE c = at
        BY <2>1, <3>1, <3>2, <4>1, <4>3 DEF Prepared, Rounds
      <4>4. CASE c \in 1..(at - 1)
        BY <2>1, <3>2, <4>1, <4>4 DEF Prepared, Rounds
      <4> QED
        BY <1>1, <4>3, <4>4
    <3>3. ASSUME NEW e \in DOMAIN inv.run, Loops(e)
          PROVE  /\ at + 1 <= e /\ inv.run[e].max > 0 => round < inv.run[e].max
                 /\ \A j \in DOMAIN inv.run : Launches(j) /\ j < at + 1 /\ at + 1 <= e => Len(launches) = round + 1
                 /\ e < at + 1 /\ rc' = 0 => inv.run[e].max > 0 /\ Len(launches) = inv.run[e].max
      <4>1. e \in Int /\ e # at /\ DOMAIN inv.run \subseteq Int
        BY <1>1, <3>1, <3>3, Lines DEF Loops
      <4>2. \A j \in DOMAIN inv.run : Launches(j) => j # at
        BY <3>1 DEF Launches
      <4>3. rc' = 0 => rc = 0
        BY DEF Sideways
      <4> QED
        BY <1>1, <2>1, <3>3, <4>1, <4>2, <4>3 DEF Prepared, Rounds
    <3> QED
      BY <1>1, <2>1, <3>2, <3>3, SameNumber DEF Rounds, Launches, Loops
  <2> QED
    BY <1>1, <2>0, <2>1
<1>7. LoopsFully'
  BY <1>1 DEF Prepared, LoopsFully
<1> QED
  BY <1>2, <1>3, <1>4, <1>5, <1>6, <1>7 DEF Prepared

\* Most steps are of this kind, or end the program.
LEMMA MostPrepared ==
  ASSUME Guarded, Known, Prepared,
         \/ TakeNeed \/ TakeRequire \/ TakeStorage \/ TakeEnvironment \/ TakeMeasure \/ TakeScrape
         \/ TakeClean \/ TakeHealth \/ CallReturns \/ CallDies
  PROVE  Prepared'
<1> USE DEF Same, Grown, Names, Exports
<1>0. metrics \subseteq ProfileFiles
  BY DEF Prepared, Given
<1>1. CASE TakeNeed \/ TakeRequire \/ CallReturns \/ CallDies
  <2>1. Same /\ Grown /\ rc' = rc /\ pc \in {"pre", "run"} /\ at \in DOMAIN Steps
    BY <1>0, <1>1 DEF TakeNeed, TakeRequire, CallReturns, CallDies
  <2>2. CASE Die
    BY <2>1, <2>2, DiePrepared DEF Die
  <2>3. CASE ~Die
    <3>1. Advance /\ Step.op \in {"need", "require", "call"} /\ (Step.op = "require" => Step.holds)
      BY <1>1, <2>3 DEF TakeNeed, TakeRequire, CallReturns, CallDies
    <3> QED
      BY <2>1, <3>1, SidewaysPrepared DEF Sideways
  <2> QED
    BY <2>2, <2>3
<1>2. CASE TakeStorage
  <2>1. Same /\ Grown /\ rc' = rc /\ pc \in {"pre", "run"} /\ at \in DOMAIN Steps /\ Step.op = "storage"
    BY <1>0, <1>2 DEF TakeStorage
  <2>2. CASE Die
    BY <2>1, <2>2, DiePrepared DEF Die
  <2>3. CASE Advance
    BY <2>1, <2>3, SidewaysPrepared DEF Sideways
  <2> QED
    BY <1>2, <2>2, <2>3 DEF TakeStorage
<1>3. CASE TakeEnvironment
  <2>1. pc \in {"pre", "run"} /\ at \in DOMAIN Steps /\ Step.op \in {"metrics", "setenv"}
    BY <1>3 DEF TakeEnvironment
  <2>2. Step.op = "metrics" => Step.profiles \subseteq ProfileFiles
    BY <2>1, StepsAssumption DEF Known, Steps, Step
  <2>3. metrics' \subseteq ProfileFiles
    <3>1. "metrics-report.yml" \in ProfileFiles
      BY DEF ProfileFiles
    <3> QED
      BY <1>0, <1>3, <2>2, <3>1 DEF TakeEnvironment, Profiles
  <2>4. Exports(Step) \subseteq environ' /\ environ \subseteq environ'
    BY <1>3 DEF TakeEnvironment
  <2>5. Same /\ rc' = rc /\ Advance /\ registered' = registered
    BY <1>3 DEF TakeEnvironment
  <2> QED
    BY <2>1, <2>3, <2>4, <2>5, SidewaysPrepared DEF Sideways
<1>4. CASE TakeMeasure
  <2>1. /\ Same /\ Grown /\ rc' = rc /\ pc \in {"pre", "run"} /\ at \in DOMAIN Steps /\ Advance
        /\ Step.op = "measure" /\ Step.what \in registered'
    BY <1>0, <1>4 DEF TakeMeasure
  <2> QED
    BY <2>1, SidewaysPrepared DEF Sideways
<1>5. CASE TakeScrape
  <2>1. /\ Same /\ Grown /\ (rc' = rc \/ rc' = 1) /\ pc \in {"pre", "run"} /\ at \in DOMAIN Steps /\ Advance
        /\ Step.op = "scrape"
    BY <1>0, <1>5 DEF TakeScrape
  <2> QED
    BY <2>1, SidewaysPrepared DEF Sideways
<1>6. CASE TakeClean
  <2>1. Same /\ Grown /\ rc' = rc /\ pc \in {"pre", "run"} /\ at \in DOMAIN Steps /\ Step.op = "clean"
    BY <1>0, <1>6 DEF TakeClean
  <2>2. CASE Die \/ pc' = "polling"
    BY <2>1, <2>2, DiePrepared DEF Die
  <2>3. CASE Advance
    BY <2>1, <2>3, SidewaysPrepared DEF Sideways
  <2> QED
    BY <1>6, <2>2, <2>3 DEF TakeClean
<1>7. CASE TakeHealth
  <2>1. Same /\ Grown /\ rc' = rc /\ pc \in {"pre", "run"} /\ at \in DOMAIN Steps /\ Step.op = "health"
    BY <1>0, <1>7 DEF TakeHealth
  <2>2. CASE Die
    BY <2>1, <2>2, DiePrepared DEF Die
  <2>3. CASE Advance
    BY <2>1, <2>3, SidewaysPrepared DEF Sideways
  <2> QED
    BY <1>7, <2>2, <2>3 DEF TakeHealth
<1> QED
  BY <1>1, <1>2, <1>3, <1>4, <1>5, <1>6, <1>7

\* An empty list of storage classes.
LEMMA PanicPrepared == ASSUME Guarded, Known, Prepared, TakeRound, ~Advance PROVE Prepared'
<1>1. Die /\ UNCHANGED <<inv, vars, setVars, environ, metrics, registered, round, launches, lacking>>
  BY DEF TakeRound, Advance, history, cluster
<1>2. metrics \subseteq ProfileFiles
  BY DEF Prepared, Given
<1> QED
  BY <1>1, <1>2, DiePrepared DEF Die, Same, Grown

\* A step that gives variables their values.
LEMMA SetVars ==
  ASSUME NEW names, NEW n, vars' = With(names, "program", n)
  PROVE  /\ DOMAIN vars' = DOMAIN vars \cup names
         /\ \A v \in names : vars'[v].by = "program" /\ vars'[v].n = n /\ Number(v)' = n
         /\ \A v \in DOMAIN vars : v \notin names => vars'[v] = vars[v]
         /\ \A v : v \notin names => Number(v)' = Number(v)
BY DEF With, Number

\* Steps that give variables a value.
LEMMA SettingPrepared ==
  ASSUME Guarded, Known, Prepared, TakeAssign \/ TakeRound, Advance
  PROVE  Prepared'
<1>0. pc' = pc /\ pc \in {"pre", "run"}
  BY DEF TakeAssign, TakeRound, Advance
<1>1. /\ UNCHANGED <<inv, pc, exit, setVars, environ, metrics, registered, round, rc, launches, lacking>>
      /\ at' = at + 1 /\ at \in Int /\ round \in Nat
  BY <1>0 DEF TakeAssign, TakeRound, Advance, Die, Guarded, TypeOK
<1>2. pc = "run" /\ at \in DOMAIN inv.run /\ inv.run[at].op \in {"assign", "put", "class", "grow"}
  BY Shape DEF TakeAssign, TakeRound, Steps, Step, Prepares
<1> DEFINE names == Names(inv.run[at])
<1>3. PICK n : /\ vars' = With(names, "program", n)
               /\ inv.run[at].op = "assign" => n = 0
               /\ inv.run[at].op = "put" => n = inv.run[at].number
               /\ inv.run[at].op = "class" => n = (round % inv.run[at].classes) + 1
               /\ inv.run[at].op = "grow" => n = inv.run[at].initial + round * inv.run[at].increment
  BY <1>0, <1>2 DEF TakeAssign, TakeRound, Die, Steps, Step, Names
<1> HIDE DEF names
<1>4. /\ DOMAIN vars' = DOMAIN vars \cup names
      /\ \A v \in names : vars'[v].by = "program" /\ vars'[v].n = n /\ Number(v)' = n
      /\ \A v \in DOMAIN vars : v \notin names => vars'[v] = vars[v]
      /\ \A v : v \notin names => Number(v)' = Number(v)
  BY <1>3, SetVars
\* Only the steps in the body of a loop are taken twice, and no later one sets the same variable.
<1>5. OnTheWay'
  <2>1. at + 1 \in 1..(Len(inv.run) + 1)
    BY <1>1, <1>2, Lines
  <2>2. ASSUME launches # << >>, NEW j \in DOMAIN inv.run, Launches(j), at + 1 <= j
        PROVE  \E e \in DOMAIN inv.run : Loops(e) /\ e - inv.run[e].back <= at + 1
    BY <1>2, <2>2, AheadAgain
  <2> QED
    BY <1>1, <1>2, <2>1, <2>2 DEF Prepared, OnTheWay, Launches, Loops
<1>6. Given'
  <2>1. ASSUME NEW j \in DOMAIN inv.run, Prepares(inv.run[j]), Done(j)'
        PROVE  /\ Names(inv.run[j]) \subseteq DOMAIN vars' /\ Exports(inv.run[j]) \subseteq environ
               /\ inv.run[j].op = "measure" => inv.run[j].what \in registered
    <3>1. CASE Done(j)
      BY <1>4, <2>1, <3>1 DEF Prepared, Given
    <3>2. CASE ~Done(j)
      <4>1. j = at
        BY <1>1, <1>2, <2>1, <3>2, Lines DEF Done
      <4> QED
        BY <1>2, <1>4, <4>1 DEF names, Exports
    <3> QED
      BY <3>1, <3>2
  <2> QED
    BY <1>1, <1>4, <2>1 DEF Prepared, Given
<1>7. Taken'
  <2>1. ASSUME NEW v \in DOMAIN vars', vars'[v].by = "user"
        PROVE  launches # << >> /\ \A h \in DOMAIN inv.run : v \notin Names(inv.run[h])
    BY <1>4, <2>1 DEF Prepared, Taken
  <2> QED
    BY <1>1, <2>1 DEF Prepared, Taken
<1>8. SetValuesUsed'
  <2>1. ASSUME NEW v \in DOMAIN vars, vars[v].by = "user" PROVE v \in DOMAIN vars' /\ vars'[v].by = "user"
    BY <1>2, <1>4, <2>1 DEF Prepared, Taken, names
  <2> QED
    BY <1>1, <1>4, <2>1 DEF Prepared, SetValuesUsed
<1>9. Numbers'
  <2>1. ASSUME NEW j \in DOMAIN inv.run, LastPut(inv.run, j), Done(j)'
        PROVE  Number(inv.run[j].name)' = inv.run[j].number
    <3>1. CASE inv.run[j] = inv.run[at]
      <4>1. inv.run[j].op = "put" /\ names = {inv.run[j].name}
        BY <2>1, <3>1 DEF LastPut, names, Names
      <4> QED
        BY <1>1, <1>3, <1>4, <3>1, <4>1
    <3>2. CASE inv.run[j] # inv.run[at]
      <4>1. Done(j)
        BY <1>1, <1>2, <2>1, <3>2, Lines DEF Done
      <4>2. inv.run[j].name \notin names
        <5>1. CASE j < at
          BY <1>2, <2>1, <3>2, <5>1 DEF LastPut, names
        <5>2. CASE at < j
          <6>1. launches # << >>
            BY <1>1, <1>2, <4>1, <5>2, Lines DEF Done
          <6>2. PICK l \in DOMAIN inv.run : Launches(l)
            BY <6>1 DEF Guarded, InRun, Has, Launches
          <6>3. at < l /\ j < l /\ inv.run[j].op = "put"
            BY <1>2, <2>1, <6>2, Shape DEF LastPut, Prepares
          <6>4. PICK e \in DOMAIN inv.run : Loops(e) /\ e - inv.run[e].back <= at
            BY <1>1, <1>2, <6>1, <6>2, <6>3, Lines DEF Prepared, OnTheWay
          <6>5. Names(inv.run[at]) \cap Names(inv.run[j]) = {}
            BY <1>2, <5>2, <6>4, Shape DEF Looped, Loops
          <6> QED
            BY <6>3, <6>5 DEF names, Names
        <5> QED
          BY <1>1, <1>2, <3>2, <5>1, <5>2, Lines
      <4> QED
        BY <1>1, <1>4, <2>1, <4>1, <4>2 DEF Prepared, Numbers
    <3> QED
      BY <3>1, <3>2
  <2>2. ASSUME NEW v \in DOMAIN vars', ~Numbered(inv.run, v) PROVE vars'[v].n = 0
    <3>1. CASE v \in names
      <4>1. inv.run[at].op = "assign"
        BY <1>2, <2>2, <3>1 DEF Numbered, names
      <4> QED
        BY <1>3, <1>4, <3>1, <4>1
    <3>2. CASE v \notin names
      BY <1>4, <2>2, <3>2 DEF Prepared, Numbers
    <3> QED
      BY <3>1, <3>2
  <2> QED
    BY <1>1, <2>1, <2>2 DEF Numbers
<1>10. Rounds'
  <2>1. ASSUME NEW j \in DOMAIN inv.run, Launches(j), at + 1 <= j
        PROVE  /\ Len(launches) = round
               /\ \A c \in 1..at :
                    /\ inv.run[c].op = "class" => Number("storageClassName")' = (round % inv.run[c].classes) + 1
                    /\ inv.run[c].op = "grow" => Number("vmCount")' = inv.run[c].initial + round * inv.run[c].increment
    <3>1. at <= j
      BY <1>1, <2>1, Lines
    <3>2. Len(launches) = round
      BY <1>2, <2>1, <3>1 DEF Prepared, Rounds
    <3>3. ASSUME NEW c \in 1..at, inv.run[c].op = "class"
          PROVE  Number("storageClassName")' = (round % inv.run[c].classes) + 1
      <4>1. CASE c = at
        BY <1>3, <1>4, <3>3, <4>1 DEF names, Names
      <4>2. CASE c # at
        <5>1. c \in DOMAIN inv.run /\ c < at /\ c \in 1..(at - 1)
          BY <1>1, <1>2, <4>2, Lines
        <5>2. Names(inv.run[c]) \cap Names(inv.run[at]) = {}
          BY <1>2, <3>3, <5>1, Shape DEF Looped
        <5>3. "storageClassName" \notin names
          BY <3>3, <5>2 DEF names, Names
        <5>4. Number("storageClassName")' = Number("storageClassName")
          BY <1>4, <5>3
        <5> QED
          BY <1>2, <2>1, <3>1, <3>3, <5>1, <5>4 DEF Prepared, Rounds
      <4> QED
        BY <4>1, <4>2
    <3>4. ASSUME NEW c \in 1..at, inv.run[c].op = "grow"
          PROVE  Number("vmCount")' = inv.run[c].initial + round * inv.run[c].increment
      <4>1. CASE c = at
        BY <1>3, <1>4, <3>4, <4>1 DEF names, Names
      <4>2. CASE c # at
        <5>1. c \in DOMAIN inv.run /\ c < at /\ c \in 1..(at - 1)
          BY <1>1, <1>2, <4>2, Lines
        <5>2. Names(inv.run[c]) \cap Names(inv.run[at]) = {}
          BY <1>2, <3>4, <5>1, Shape DEF Looped
        <5>3. "vmCount" \notin names
          BY <3>4, <5>2 DEF names, Names
        <5>4. Number("vmCount")' = Number("vmCount")
          BY <1>4, <5>3
        <5> QED
          BY <1>2, <2>1, <3>1, <3>4, <5>1, <5>4 DEF Prepared, Rounds
      <4> QED
        BY <4>1, <4>2
    <3> QED
      BY <3>2, <3>3, <3>4
  <2>2. ASSUME NEW e \in DOMAIN inv.run, Loops(e)
        PROVE  /\ at + 1 <= e /\ inv.run[e].max > 0 => round < inv.run[e].max
               /\ \A j \in DOMAIN inv.run : Launches(j) /\ j < at + 1 /\ at + 1 <= e => Len(launches) = round + 1
               /\ e < at + 1 /\ rc = 0 => inv.run[e].max > 0 /\ Len(launches) = inv.run[e].max
    <3>1. e \in Int /\ e # at /\ DOMAIN inv.run \subseteq Int
      BY <1>2, <2>2, Lines DEF Loops
    <3>2. \A j \in DOMAIN inv.run : Launches(j) => j # at
      BY <1>2 DEF Launches
    <3> QED
      BY <1>1, <1>2, <2>2, <3>1, <3>2 DEF Prepared, Rounds
  <2> QED
    BY <1>1, <1>2, <2>1, <2>2 DEF Rounds, Launches, Loops
<1>11. LoopsFully'
  BY <1>1, <1>2 DEF Prepared, LoopsFully
<1> QED
  BY <1>5, <1>6, <1>7, <1>8, <1>9, <1>10, <1>11 DEF Prepared


\* What a launch does to the variables and to SetVars, and how many there are after it.
LEMMA LaunchVars ==
  ASSUME Guarded, Known, Launch
  PROVE  /\ pc = "run" /\ at \in DOMAIN inv.run /\ Launches(at) /\ rc = 0
         /\ DOMAIN vars \subseteq DOMAIN vars'
         /\ \A v \in DOMAIN vars : vars'[v] = vars[v]
         /\ \A v \in DOMAIN vars' \ DOMAIN vars :
              vars'[v].n = 0 /\ (vars'[v].by = "user" <=> v \in Moved(inv.config \ DOMAIN vars))
         /\ Moved(inv.config \ DOMAIN vars) \subseteq DOMAIN vars'
         /\ \A name : Number(name)' = Number(name)
<1> DEFINE moved == Moved(inv.config \ DOMAIN vars)
           blank == Blank(inv.config \ DOMAIN vars)
<1>1. At("launch") /\ vars' = [v \in DOMAIN vars \cup moved \cup blank |->
                     IF v \in DOMAIN vars THEN vars[v]
                     ELSE [by |-> IF v \in moved THEN "user" ELSE "default", n |-> 0]]
  BY DEF Launch
<1> HIDE DEF moved, blank
<1>2. pc = "run" /\ at \in DOMAIN inv.run /\ Launches(at)
  BY <1>1, StepTaken, Shape DEF Steps, Step, Launches, Has
<1>3. rc = 0
  BY <1>2 DEF Guarded, Failed, TypeOK, Launches
<1>4. /\ DOMAIN vars \subseteq DOMAIN vars'
      /\ \A v \in DOMAIN vars : vars'[v] = vars[v]
      /\ moved \subseteq DOMAIN vars'
  BY <1>1
<1>5. \A v \in DOMAIN vars' \ DOMAIN vars : vars'[v].n = 0 /\ (vars'[v].by = "user" <=> v \in moved)
  BY <1>1
<1>6. ASSUME NEW name PROVE Number(name)' = Number(name)
  <2>1. CASE name \in DOMAIN vars
    BY <1>4, <2>1 DEF Number
  <2>2. CASE name \notin DOMAIN vars
    BY <1>5, <2>2 DEF Number
  <2> QED
    BY <2>1, <2>2
<1> QED
  BY <1>2, <1>3, <1>4, <1>5, <1>6 DEF moved

\* A launch takes the values of --set, finds the numbers and counts as one of this round.
LEMMA LaunchPrepared == ASSUME Guarded, Known, Prepared, Launch PROVE Prepared'
<1> DEFINE missing == inv.config \ DOMAIN vars
           moved   == Moved(missing)
           blank   == Blank(missing)
           unset   == missing \ (moved \cup blank \cup environ)
<1>1. /\ UNCHANGED <<inv, pc, exit, environ, metrics, registered, round>>
      /\ at' = at + 1 /\ at \in Int /\ round \in Nat /\ rc' \in {0, 1}
      /\ setVars' = setVars \ moved
      /\ lacking' = (lacking \cup blank \cup unset) \ inv.idle
  BY DEF Launch, Advance, Guarded, TypeOK
<1>2. PICK launch : /\ launches' = Append(launches, launch)
                    /\ launch.class = Number("storageClassName") /\ launch.vms = Number("vmCount")
                    /\ launch \in Launched
  <2>1. PICK ok \in BOOLEAN :
          launches' = Append(launches, [ok |-> ok, class |-> Number("storageClassName"), vms |-> Number("vmCount")])
    BY DEF Launch
  <2>2. [ok |-> ok, class |-> Number("storageClassName"), vms |-> Number("vmCount")] \in Launched
    BY DEF Guarded, TypeOK, Number, Launched
  <2> QED
    BY <2>1, <2>2
<1>3. /\ pc = "run" /\ at \in DOMAIN inv.run /\ Launches(at) /\ rc = 0
      /\ DOMAIN vars \subseteq DOMAIN vars'
      /\ \A v \in DOMAIN vars : vars'[v] = vars[v]
      /\ \A v \in DOMAIN vars' \ DOMAIN vars : vars'[v].n = 0 /\ (vars'[v].by = "user" <=> v \in moved)
      /\ moved \subseteq DOMAIN vars'
      /\ \A name : Number(name)' = Number(name)
  BY LaunchVars
<1> HIDE DEF missing, moved, blank, unset
<1>4. launches \in Seq(Launched)
  BY DEF Guarded, TypeOK
<1>5. /\ Len(launches) \in Nat /\ DOMAIN launches = 1..Len(launches)
      /\ Len(launches') = Len(launches) + 1 /\ DOMAIN launches' = 1..(Len(launches) + 1)
      /\ \A h \in 1..Len(launches) : launches'[h] = launches[h]
      /\ launches'[Len(launches) + 1] = launch
      /\ launches' # << >>
  BY ONLY <1>2, <1>4
<1>6. inv.name \notin Quiet /\ Common \cup Apis \subseteq DOMAIN vars
  BY <1>3, Shape DEF Has, Launches, Prepared, Given
\* All that prepares is done.
<1>7. \A h \in DOMAIN inv.run : Prepares(inv.run[h]) => h < at /\ Done(h)
  BY <1>3, Shape DEF Done
<1>8. ASSUME NEW h \in DOMAIN inv.run
      PROVE  Names(inv.run[h]) \subseteq DOMAIN vars /\ Exports(inv.run[h]) \subseteq environ
  <2>1. CASE Prepares(inv.run[h])
    BY <1>7, <2>1 DEF Prepared, Given
  <2>2. CASE ~Prepares(inv.run[h])
    BY <2>2 DEF Prepares, Names, Exports
  <2> QED
    BY <2>1, <2>2
<1>9. \A j \in DOMAIN inv.run : Launches(j) => j = at
  BY <1>3, Shape
<1>10. OnTheWay'
  <2>1. at + 1 \in 1..(Len(inv.run) + 1)
    BY <1>1, <1>3, Lines
  <2>2. \A j \in DOMAIN inv.run : Launches(j) => ~(at + 1 <= j)
    BY <1>1, <1>9
  <2> QED
    BY <1>1, <1>3, <2>1, <2>2 DEF Prepared, OnTheWay, Launches
<1>11. Given'
  <2>1. \A j \in DOMAIN inv.run : Prepares(inv.run[j]) =>
          /\ Names(inv.run[j]) \subseteq DOMAIN vars' /\ Exports(inv.run[j]) \subseteq environ
          /\ inv.run[j].op = "measure" => inv.run[j].what \in registered
    BY <1>3, <1>7 DEF Prepared, Given
  <2>2. lacking' \cap (inv.idle \cup Common \cup Apis) = {} /\ lacking' \subseteq inv.config
    BY <1>1, <1>6 DEF Prepared, Given, missing, blank, unset, Blank
  <2>3. lacking' \cap Supplied(inv.run) = {}
    <3>1. ASSUME NEW v \in lacking', NEW h \in DOMAIN inv.run, v \in Names(inv.run[h]) \cup Exports(inv.run[h])
          PROVE  FALSE
      <4>1. v \in DOMAIN vars \/ v \in environ
        BY <1>8, <3>1
      <4>2. v \notin blank /\ v \notin unset
        BY <4>1 DEF missing, blank, unset, Blank
      <4>3. v \in lacking
        BY <1>1, <4>2
      <4>4. v \in Supplied(inv.run)
        BY <3>1 DEF Supplied
      <4> QED
        BY <4>3, <4>4 DEF Prepared, Given
    <3> QED
      BY <3>1 DEF Supplied
  <2>4. Common \cup Apis \subseteq DOMAIN vars' /\ metrics \subseteq ProfileFiles
    BY <1>3, <1>6 DEF Prepared, Given
  <2> QED
    BY <1>1, <1>3, <2>1, <2>2, <2>3, <2>4 DEF Given
<1>12. Taken'
  <2>1. ASSUME NEW v \in DOMAIN vars', vars'[v].by = "user"
        PROVE  \A h \in DOMAIN inv.run : v \notin Names(inv.run[h])
    <3>1. CASE v \in DOMAIN vars
      BY <1>3, <2>1, <3>1 DEF Prepared, Taken
    <3>2. CASE v \notin DOMAIN vars
      BY <1>8, <3>2
    <3> QED
      BY <3>1, <3>2
  <2> QED
    BY <1>1, <1>5, <2>1 DEF Taken
<1>13. SetValuesUsed'
  <2>0. moved = IF inv.readable THEN (inv.config \ DOMAIN vars) \cap setVars ELSE {}
    BY DEF moved, missing, Moved
  <2>1. ASSUME NEW v \in inv.set
        PROVE  \/ v \in DOMAIN vars' /\ vars'[v].by = "user"
               \/ v \in setVars' /\ (inv.readable /\ v \in inv.config => v \in DOMAIN vars')
    <3>1. (v \in DOMAIN vars /\ vars[v].by = "user") \/ v \in setVars
      BY <1>3, <1>6, <2>1 DEF Prepared, Taken, SetValuesUsed
    <3>2. CASE v \in DOMAIN vars
      BY <1>1, <1>3, <2>0, <3>1, <3>2
    <3>3. CASE v \notin DOMAIN vars
      BY <1>1, <1>3, <2>0, <3>1, <3>3
    <3> QED
      BY <3>2, <3>3
  <2> QED
    BY <1>1, <2>1 DEF SetValuesUsed
<1>14. Numbers'
  <2>1. ASSUME NEW j \in DOMAIN inv.run, LastPut(inv.run, j) PROVE Number(inv.run[j].name) = inv.run[j].number
    BY <1>7, <2>1 DEF Prepared, Numbers, LastPut, Prepares
  <2>2. ASSUME NEW v \in DOMAIN vars', ~Numbered(inv.run, v) PROVE vars'[v].n = 0
    BY <1>3, <2>2 DEF Prepared, Numbers
  <2> QED
    BY <1>1, <1>3, <2>1, <2>2 DEF Numbers
\* The launch of a loop is in its body, ahead of its end.
<1>15. ASSUME NEW e \in DOMAIN inv.run, Loops(e) PROVE at + 1 <= e
  BY <1>1, <1>9, <1>15, Shape, Lines DEF Looped, Loops, Launches
<1>16. /\ Len(launches) = round
       /\ \A e \in DOMAIN inv.run : Loops(e) /\ inv.run[e].max > 0 => round < inv.run[e].max
       /\ \A c \in 1..(at - 1) :
            /\ inv.run[c].op = "class" => Number("storageClassName") = (round % inv.run[c].classes) + 1
            /\ inv.run[c].op = "grow" => Number("vmCount") = inv.run[c].initial + round * inv.run[c].increment
  <2>1. at <= at /\ \A e \in DOMAIN inv.run : Loops(e) => at <= e
    BY <1>1, <1>15, Lines
  <2> QED
    BY <1>3, <2>1 DEF Prepared, Rounds
<1>17. Rounds'
  <2>1. \A j \in DOMAIN inv.run : Launches(j) => ~(at + 1 <= j)
    BY <1>1, <1>9
  <2>2. \A e \in DOMAIN inv.run : Loops(e) => e \in Int /\ ~(e < at + 1)
    BY <1>1, <1>15, Lines
  <2> QED
    BY <1>1, <1>3, <1>5, <1>16, <2>1, <2>2 DEF Rounds, Launches, Loops
<1>18. LoopsFully'
  <2>1. ASSUME NEW s \in DOMAIN inv.run, NEW h \in 1..(Len(launches) + 1)
        PROVE  /\ inv.run[s].op = "class" => launches'[h].class = ((h - 1) % inv.run[s].classes) + 1
               /\ inv.run[s].op = "grow" => launches'[h].vms = inv.run[s].initial + (h - 1) * inv.run[s].increment
    <3>1. CASE h \in 1..Len(launches)
      BY <1>5, <3>1 DEF Prepared, LoopsFully
    <3>2. CASE h = Len(launches) + 1
      <4>1. inv.run[s].op \in {"class", "grow"} => s \in 1..(at - 1)
        BY <1>1, <1>7, Lines DEF Prepares
      <4>2. h - 1 = round
        BY <1>1, <1>5, <1>16, <3>2
      <4> QED
        BY <1>2, <1>5, <1>16, <3>2, <4>1, <4>2
    <3> QED
      BY <1>5, <3>1, <3>2
  <2>2. ASSUME NEW s \in DOMAIN inv.run, inv.run[s].op = "again", inv.run[s].max > 0
        PROVE  Len(launches) + 1 <= inv.run[s].max
    <3>1. inv.run[s].max \in Int
      BY <2>2, StepsAssumption DEF Known
    <3> QED
      BY <1>1, <1>16, <2>2, <3>1 DEF Loops
  <2> QED
    BY <1>1, <1>3, <1>5, <2>1, <2>2 DEF LoopsFully
<1> QED
  BY <1>10, <1>11, <1>12, <1>13, <1>14, <1>17, <1>18 DEF Prepared

\* A loop begins its next round, or has done all of them.
LEMMA TakeAgainPrepared == ASSUME Guarded, Known, Prepared, TakeAgain PROVE Prepared'
<1>1. /\ UNCHANGED <<inv, pc, exit, rc, launches, lacking, vars, setVars, environ, metrics, registered>>
      /\ at \in Int /\ round \in Nat /\ rc \in {0, 1} /\ launches \in Seq(Launched)
  BY DEF TakeAgain, Guarded, TypeOK
<1>2. pc = "run" /\ at \in DOMAIN inv.run /\ Loops(at)
  BY Shape, StepTaken DEF TakeAgain, Steps, Step, Loops, Has
<1>3. /\ inv.run[at].back \in 1..(at - 1) /\ inv.run[at].max \in Int
      /\ \A e \in DOMAIN inv.run : Loops(e) => e = at
  BY <1>2, Shape, StepsAssumption DEF Looped, Loops, Known
\* The launch is in the body.
<1>4. PICK l \in DOMAIN inv.run : Launches(l) /\ at - inv.run[at].back <= l /\ l < at
  <2>1. PICK j \in (at - inv.run[at].back)..(at - 1) : inv.run[j].op = "launch"
    BY <1>2, Shape DEF Looped, Loops
  <2>2. j \in DOMAIN inv.run /\ j < at /\ at - inv.run[at].back <= j
    BY <1>1, <1>2, <1>3, <2>1, Lines
  <2> QED
    BY <2>1, <2>2 DEF Launches
<1>5. \A j \in DOMAIN inv.run : Launches(j) => j = l
  BY <1>4, Shape
<1>6. /\ Len(launches) = round + 1 /\ launches # << >>
      /\ inv.run[at].max > 0 => round < inv.run[at].max
  <2>1. at <= at
    BY <1>1
  <2>2. Len(launches) = round + 1 /\ (inv.run[at].max > 0 => round < inv.run[at].max)
    BY <1>2, <1>4, <2>1 DEF Prepared, Rounds
  <2>3. Len(<<>>) = 0
    OBVIOUS
  <2> QED
    BY <1>1, <2>2, <2>3
\* Back to the start of the body, or past the end of the loop.
<1>7. \/ /\ rc = 0 /\ round' = round + 1 /\ at' = at - inv.run[at].back
         /\ inv.run[at].max > 0 => round + 1 < inv.run[at].max
      \/ /\ rc = 0 /\ round' = round + 1 /\ at' = at + 1
         /\ inv.run[at].max > 0 /\ round + 1 >= inv.run[at].max
      \/ rc = 1 /\ round' = round /\ at' = at + 1
  BY <1>1, <1>2, <1>3 DEF TakeAgain, Succeeded, Enough, Steps, Step
<1>8. /\ at' \in 1..(Len(inv.run) + 1)
      /\ at - inv.run[at].back <= at'
  <2>1. /\ at \in Int /\ 1 <= at /\ at <= Len(inv.run) /\ Len(inv.run) \in Int
        /\ inv.run[at].back \in Int /\ 1 <= inv.run[at].back /\ inv.run[at].back <= at - 1
    BY <1>1, <1>2, <1>3, Lines
  <2>2. at' = at - inv.run[at].back \/ at' = at + 1
    BY ONLY <1>7
  <2> QED
    BY ONLY <2>1, <2>2
<1>9. OnTheWay'
  <2>1. Passes(inv.pre)
    BY <1>2 DEF Prepared, OnTheWay
  <2>2. \E e \in DOMAIN inv.run : inv.run[e].op = "again" /\ e - inv.run[e].back <= at'
    BY <1>2, <1>8 DEF Loops
  <2> QED
    BY ONLY <1>1, <1>2, <1>8, <2>1, <2>2 DEF OnTheWay, Loops, Launches
<1>10. \A j \in DOMAIN inv.run : Done(j) /\ Done(j)'
  BY <1>1, <1>6 DEF Done
<1>11. Given' /\ Taken' /\ SetValuesUsed'
  BY <1>1, <1>2, <1>10 DEF Prepared, Given, Taken, SetValuesUsed
<1>12. Numbers'
  BY <1>1, <1>10, SameNumber DEF Prepared, Numbers
<1>13. Rounds'
  <2>1. ASSUME NEW j \in DOMAIN inv.run, Launches(j), at' <= j
        PROVE  /\ Len(launches) = round' /\ at' = at - inv.run[at].back
    BY <1>1, <1>4, <1>5, <1>6, <1>7, <2>1, Lines
  <2>2. ASSUME NEW c \in 1..(at' - 1), at' = at - inv.run[at].back
        PROVE  inv.run[c].op \notin {"class", "grow"}
    <3>1. c \in DOMAIN inv.run /\ c \in Int /\ ~(at - inv.run[at].back <= c)
      BY <1>1, <1>2, <1>3, <2>2, Lines
    <3> QED
      BY <1>2, <3>1, Shape DEF Looped, Loops
  <2>3. /\ at' <= at /\ inv.run[at].max > 0 => round' < inv.run[at].max
        /\ at' <= at => ~(l < at')
        /\ at < at' /\ rc = 0 => inv.run[at].max > 0 /\ Len(launches) = inv.run[at].max
    <3>1. /\ at \in Int /\ round \in Nat /\ l \in Int /\ l < at /\ at - inv.run[at].back <= l
          /\ inv.run[at].back \in Int /\ inv.run[at].back >= 1 /\ inv.run[at].max \in Int
      BY <1>1, <1>2, <1>3, <1>4, Lines
    <3>2. CASE rc = 0 /\ round' = round + 1 /\ at' = at - inv.run[at].back
               /\ (inv.run[at].max > 0 => round + 1 < inv.run[at].max)
      BY ONLY <3>1, <3>2
    <3>3. CASE rc = 0 /\ round' = round + 1 /\ at' = at + 1
               /\ inv.run[at].max > 0 /\ round + 1 >= inv.run[at].max
      <4>1. Len(launches) = inv.run[at].max
        BY ONLY <1>6, <3>1, <3>3
      <4> QED
        BY ONLY <3>1, <3>3, <4>1
    <3>4. CASE rc = 1 /\ round' = round /\ at' = at + 1
      BY ONLY <3>1, <3>4
    <3> QED
      BY ONLY <1>7, <3>2, <3>3, <3>4
  <2>4. ASSUME NEW e \in DOMAIN inv.run, Loops(e)
        PROVE  /\ at' <= e /\ inv.run[e].max > 0 => round' < inv.run[e].max
               /\ \A j \in DOMAIN inv.run : Launches(j) /\ j < at' /\ at' <= e => Len(launches) = round' + 1
               /\ e < at' /\ rc = 0 => inv.run[e].max > 0 /\ Len(launches) = inv.run[e].max
    BY <1>3, <1>5, <2>3, <2>4
  <2> QED
    BY <1>1, <1>2, <2>1, <2>2, <2>4 DEF Rounds, Launches, Loops
<1>14. LoopsFully'
  BY <1>1, <1>2 DEF Prepared, LoopsFully
<1> QED
  BY <1>9, <1>11, <1>12, <1>13, <1>14 DEF Prepared

\* A step of PersistentPreRun, or the last of PreRun, that goes on.
LEMMA EarlyPrepared ==
  ASSUME Guarded, Known, Prepared, pc \notin {"run", "exit", "polling"},
         pc' \in {"metadata", "health", "prometheus", "set", "pre", "run"}, at' = 1,
         UNCHANGED <<inv, rc, environ, metrics, registered, round, launches, lacking>>,
         \/ UNCHANGED vars
         \/ vars' = With(Common, "program", 0)
         \/ pc = "metadata" /\ vars' = With(Apis, "program", 0),
         pc' = "metadata" => Common \subseteq DOMAIN vars',
         pc' \in {"health", "prometheus", "set", "pre", "run"} /\ inv.name \notin Quiet =>
           Common \cup Apis \subseteq DOMAIN vars',
         pc' \in {"pre", "run"} /\ inv.name \notin Quiet => setVars' = inv.set,
         pc' = "run" => Passes(inv.pre)
  PROVE  Prepared'
<1>1. launches = << >> /\ round = 0 /\ Len(launches) = 0 /\ DOMAIN launches = {}
  <2>1. launches = << >> /\ round = 0
    BY NotYet DEF Prepared, Rounds
  <2> QED
    BY <2>1
<1>2. \A v \in DOMAIN vars : vars[v].by # "user" /\ (~Numbered(inv.run, v) => vars[v].n = 0)
  <2>1. ASSUME NEW v \in DOMAIN vars PROVE (~Numbered(inv.run, v) => vars[v].n = 0) /\ vars[v].by # "user"
    BY <1>1, <2>1 DEF Prepared, Taken, Numbers
  <2> QED
    BY <2>1
<1>3. \A v \in DOMAIN vars' : vars'[v].by # "user" /\ (~Numbered(inv.run, v) => vars'[v].n = 0)
  BY <1>2 DEF With
<1>4. \A j \in DOMAIN inv.run : ~Done(j)'
  <2>1. \A j \in DOMAIN inv.run : ~(j < 1)
    BY Lines
  <2> QED
    BY <1>1, <2>1 DEF Done
<1>5. OnTheWay'
  <2>1. 1 \in 1..(Len(inv.pre) + 1) /\ 1 \in 1..(Len(inv.run) + 1) /\ 1..(1 - 1) = {}
    BY Lines
  <2> QED
    BY <1>1, <2>1 DEF OnTheWay
<1>6. Given'
  BY <1>1, <1>4 DEF Prepared, Given
<1>7. Taken' /\ SetValuesUsed'
  BY <1>1, <1>3 DEF Taken, SetValuesUsed
<1>8. Numbers'
  BY <1>3, <1>4 DEF Numbers
<1>9. Rounds'
  <2>1. 1..(1 - 1) = {} /\ \A j \in DOMAIN inv.run : ~(j < 1)
    BY Lines
  <2>2. \A e \in DOMAIN inv.run : Loops(e) => inv.run[e].max \in Int
    BY StepsAssumption DEF Known, Loops
  <2> QED
    BY <1>1, <2>1, <2>2 DEF Rounds, Loops, Launches
<1>10. LoopsFully'
  <2>1. \A s \in DOMAIN inv.run : Loops(s) /\ inv.run[s].max > 0 => 0 <= inv.run[s].max
    BY StepsAssumption DEF Known, Loops
  <2> QED
    BY <1>1, <2>1 DEF LoopsFully, Loops
<1> QED
  BY <1>5, <1>6, <1>7, <1>8, <1>9, <1>10 DEF Prepared

\* Before Run there is nothing prepared but the variables that every command has.
LEMMA BeforePrepared ==
  ASSUME Guarded, Known, Prepared,
         Begin \/ GatherMetadata \/ HealthCheck \/ Prometheus \/ ParseSetValues \/ EndOfPreRun
  PROVE  Prepared'
<1> USE DEF Same, Grown
<1>1. /\ metrics \subseteq ProfileFiles
      /\ pc = "metadata" => Common \subseteq DOMAIN vars
      /\ pc \in {"health", "prometheus", "set", "pre"} /\ inv.name \notin Quiet => Common \cup Apis \subseteq DOMAIN vars
  BY DEF Prepared, Given
<1>2. \A names : vars' = With(names, "program", 0) => DOMAIN vars' = DOMAIN vars \cup names
  BY SetVars
<1>3. CASE Begin
  <2>1. CASE pc' = "exit"
    <3>1. UNCHANGED vars /\ Typed("extract")
      BY <1>3, <2>1 DEF Begin, GoTo
    <3> QED
      BY <1>1, <1>3, <2>1, <3>1, DiePrepared DEF Begin
  <2>2. CASE pc' = "pre"
    BY <1>3, <2>2, EarlyPrepared DEF Begin, GoTo, Quiet
  <2>3. CASE pc' = "metadata"
    BY <1>2, <1>3, <2>3, EarlyPrepared DEF Begin, GoTo
  <2> QED
    BY <1>3, <2>1, <2>2, <2>3 DEF Begin, GoTo
<1>4. CASE GatherMetadata
  <2>1. CASE Die /\ UNCHANGED vars
    BY <1>1, <1>4, <2>1, DiePrepared DEF GatherMetadata, Die
  <2>2. CASE GoTo(IF inv.name = "index" THEN "prometheus" ELSE "health") /\ vars' = With(Apis, "program", 0)
    BY <1>1, <1>2, <1>4, <2>2, EarlyPrepared DEF GatherMetadata, GoTo
  <2> QED
    BY <1>4, <2>1, <2>2 DEF GatherMetadata
<1>5. CASE HealthCheck
  <2>1. CASE Die
    BY <1>1, <1>5, <2>1, DiePrepared DEF HealthCheck, Die
  <2>2. CASE GoTo("prometheus")
    BY <1>1, <1>5, <2>2, EarlyPrepared DEF HealthCheck, GoTo
  <2> QED
    BY <1>5, <2>1, <2>2 DEF HealthCheck
<1>6. CASE Prometheus
  <2>1. CASE Die
    BY <1>1, <1>6, <2>1, DiePrepared DEF Prometheus, Die
  <2>2. CASE GoTo("set")
    BY <1>1, <1>6, <2>2, EarlyPrepared DEF Prometheus, GoTo
  <2> QED
    BY <1>6, <2>1, <2>2 DEF Prometheus
<1>7. CASE ParseSetValues
  <2>1. CASE Die /\ UNCHANGED setVars
    BY <1>1, <1>7, <2>1, DiePrepared DEF ParseSetValues, Die
  <2>2. CASE GoTo("pre") /\ setVars' = inv.set
    BY <1>1, <1>7, <2>2, EarlyPrepared DEF ParseSetValues, GoTo
  <2> QED
    BY <1>7, <2>1, <2>2 DEF ParseSetValues
<1>8. CASE EndOfPreRun
  <2>1. CASE Die
    BY <1>1, <1>8, <2>1, DiePrepared DEF EndOfPreRun, Die
  <2>2. CASE GoTo("run")
    <3>1. pc = "pre" /\ at \notin DOMAIN inv.pre /\ at \in 1..(Len(inv.pre) + 1)
      BY <1>8 DEF EndOfPreRun, AtEnd, Steps, Prepared, OnTheWay
    <3>2. DOMAIN inv.pre = 1..(at - 1)
      BY <3>1, Lines
    <3>3. Passes(inv.pre)
      BY <3>1, <3>2 DEF Prepared, OnTheWay, Passes
    <3>4. launches = << >>
      BY <3>1, NotYet
    <3> QED
      BY <1>1, <1>8, <2>2, <3>1, <3>3, <3>4, EarlyPrepared DEF EndOfPreRun, GoTo, Prepared, Taken
  <2> QED
    BY <1>8, <2>1, <2>2 DEF EndOfPreRun
<1> QED
  BY <1>3, <1>4, <1>5, <1>6, <1>7, <1>8

\* Past the end of Run every step has been taken.
LEMMA EndOfRunPrepared == ASSUME Guarded, Known, Prepared, EndOfRun PROVE Prepared'
<1>1. /\ UNCHANGED <<inv, round, launches, lacking, vars, setVars, environ, metrics, registered>>
      /\ pc = "run" /\ pc' = "exit" /\ exit' = rc /\ at \in Int /\ at \notin DOMAIN inv.run
  BY DEF EndOfRun, AtEnd, ExitCode, Steps, Guarded, TypeOK
<1>2. \A e \in DOMAIN inv.run : e < at
  BY <1>1, Lines DEF Prepared, OnTheWay
<1>3. \A e \in DOMAIN inv.run : Loops(e) /\ rc = 0 => inv.run[e].max > 0 /\ Len(launches) = inv.run[e].max
  BY <1>1, <1>2 DEF Prepared, Rounds
<1>4. LoopsFully'
  BY <1>1, <1>3 DEF Prepared, LoopsFully, Loops
<1>5. metrics \subseteq ProfileFiles
  BY DEF Prepared, Given
<1> QED
  BY <1>1, <1>4, <1>5, DiePrepared DEF Same, Grown

LEMMA StutterPrepared == ASSUME Prepared, UNCHANGED all PROVE Prepared'
<1> USE DEF all
<1>1. OnTheWay' /\ Given' /\ Taken' /\ SetValuesUsed'
  BY DEF Prepared, OnTheWay, Given, Taken, SetValuesUsed, Done, Launches, Loops
<1>2. Numbers' /\ Rounds' /\ LoopsFully'
  BY SameNumber DEF Prepared, Numbers, Rounds, LoopsFully, Done, Launches, Loops
<1> QED
  BY <1>1, <1>2 DEF Prepared

LEMMA InitPrepared == Init => Prepared
<1> SUFFICES ASSUME Init PROVE Prepared
  OBVIOUS
<1>1. /\ inv \in Invocations /\ pc = "start" /\ launches = << >> /\ Len(launches) = 0 /\ DOMAIN launches = {}
      /\ DOMAIN vars = {} /\ round = 0 /\ lacking = {} /\ metrics = {}
  BY DEF Init
<1>2. OnTheWay /\ Given /\ Taken /\ SetValuesUsed
  BY <1>1 DEF OnTheWay, Given, Taken, SetValuesUsed, Done
<1>3. Numbers /\ Rounds
  BY <1>1 DEF Numbers, Rounds, Done
<1>4. LoopsFully
  <2>1. \A s \in DOMAIN inv.run : inv.run[s].op = "again" /\ inv.run[s].max > 0 => 0 <= inv.run[s].max
    BY <1>1, StepsAssumption
  <2> QED
    BY <1>1, <2>1 DEF LoopsFully
<1> QED
  BY <1>2, <1>3, <1>4 DEF Prepared

\* Every step of an invocation keeps what is prepared.
LEMMA PreparedStep == ASSUME Guarded, Known, Prepared, [Next]_all PROVE Prepared'
<1>1. CASE UNCHANGED all
  BY <1>1, StutterPrepared
<1>2. CASE TakeAssign \/ TakeRound
  <2>1. CASE Advance
    BY <1>2, <2>1, SettingPrepared
  <2>2. CASE ~Advance
    BY <1>2, <2>2, PanicPrepared DEF TakeAssign
  <2> QED
    BY <2>1, <2>2
<1>3. CASE Next /\ ~(TakeAssign \/ TakeRound)
  BY <1>3, BeforePrepared, MostPrepared, LaunchPrepared, TakeAgainPrepared, EndOfRunPrepared,
     StutterPrepared DEF Next, Own, Exited
<1> QED
  BY <1>1, <1>2, <1>3

-----------------------------------------------------------------------------
(* Theorems about an invocation *)

\* The inductive invariant of Command.tla holds, for any command lines within its
\* assumptions and any answers of the cluster.
THEOREM Invariance == Spec => []IInv
<1>1. Init => Guarded /\ Known /\ Prepared
  BY InitInv, InitPrepared
<1>2. Guarded /\ Known /\ Prepared /\ [Next]_all => (Guarded /\ Known /\ Prepared)'
  BY StepInv, PreparedStep
<1>3. Guarded /\ Prepared => IInv
  BY DEF IInv
<1> QED
  BY <1>1, <1>2, <1>3, PTL DEF Spec

\* No command changes a cluster that was not found healthy, unless told to: the health
\* check of PersistentPreRun comes before whatever PreRun and Run do.
THEOREM HealthyClusterHolds == Spec => []HealthyCluster
<1>1. IInv => HealthyCluster
  BY DEF IInv, Guarded
<1> QED
  BY <1>1, Invariance, PTL

\* Although cobra validates the required flags after PreRun, nothing touches the cluster
\* before they are.
THEOREM FlagsFirstHolds == Spec => []FlagsFirst
<1>1. IInv => FlagsFirst
  BY DEF IInv, Guarded, InRun, FlagsValid, FlagsFirst
<1> QED
  BY <1>1, Invariance, PTL

\* The exit code is 0 only when every launch succeeded, and none follows one that failed.
THEOREM ExitTellsHolds == Spec => []ExitTells
<1>1. IInv => ExitTells
  BY DEF IInv, Guarded
<1> QED
  BY <1>1, Invariance, PTL

\* Whatever a loop or a later step does, a --set value is used or still to be.
THEOREM SetValuesUsedHolds == Spec => []SetValuesUsed
<1>1. IInv => SetValuesUsed
  BY DEF IInv, Prepared
<1> QED
  BY <1>1, Invariance, PTL

\* However long a loop runs, its rounds take the classes in turn and grow as told, and it
\* ends well after maxIterations rounds only.
THEOREM LoopsFullyHolds == Spec => []LoopsFully
<1>1. IInv => LoopsFully
  BY DEF IInv, Prepared
<1> QED
  BY <1>1, Invariance, PTL

-----------------------------------------------------------------------------
(* What a launch finds, for command lines whose Run supplies it *)

\* The command line is one of those given.
LEMMA KnownHolds == Spec => []Known
<1>1. Init => Known
  BY DEF Init, Known
<1>2. Known /\ [Next]_all => Known'
  BY KnownStays DEF Next, all, Known
<1> QED
  BY <1>1, <1>2, PTL DEF Spec

\* What the configuration uses is there, when Run supplies it.
LEMMA ServedThen == IInv /\ Known /\ (\A v \in Invocations : Served(v)) => ConfigServed
<1> SUFFICES ASSUME IInv, Known, \A v \in Invocations : Served(v), launches # << >> PROVE
      /\ inv.name # "init" => lacking \subseteq Unserved(inv)
      /\ "METRICS" \in environ /\ metrics \subseteq ProfileFiles
      /\ inv.measures \subseteq registered
  BY DEF ConfigServed
<1>1. Has(inv.run, "launch") /\ Passes(inv.pre) /\ Served(inv)
  BY DEF IInv, Guarded, InRun, Prepared, OnTheWay, Known
<1>2. \A h \in DOMAIN inv.run : Done(h)
  BY DEF Done
<1>3. inv.name # "init" => lacking \subseteq Unserved(inv)
  BY <1>1 DEF Served, IInv, Prepared, Given
<1>4. "METRICS" \in environ
  <2>1. PICK h \in DOMAIN inv.run : inv.run[h].op = "metrics"
    BY <1>1 DEF Served, Has
  <2>2. Exports(inv.run[h]) = {"METRICS"} /\ Prepares(inv.run[h])
    BY <2>1 DEF Exports, Prepares
  <2> QED
    BY <1>2, <2>2 DEF IInv, Prepared, Given
<1>5. ASSUME NEW m \in inv.measures PROVE m \in registered
  <2>1. PICK h \in DOMAIN inv.run : inv.run[h].op = "measure" /\ inv.run[h].what = m
    BY <1>1 DEF Served
  <2>2. Prepares(inv.run[h])
    BY <2>1 DEF Prepares
  <2> QED
    BY <1>2, <2>1, <2>2 DEF IInv, Prepared, Given
<1> QED
  BY <1>3, <1>4, <1>5 DEF IInv, Prepared, Given

\* A launch finds the number that the last Put of a variable gave it.
LEMMA CarriedThere ==
  ASSUME IInv, launches # << >>, NEW name, NEW n \in Carried(inv.run, name)
  PROVE  Number(name) = n
<1>1. CASE \E j \in DOMAIN inv.run : LastPut(inv.run, j) /\ inv.run[j].name = name /\ n = inv.run[j].number
  BY <1>1 DEF IInv, Prepared, Numbers, Done
<1>2. CASE ~Numbered(inv.run, name) /\ n = 0
  BY <1>2 DEF IInv, Prepared, Numbers, Number
<1> QED
  BY <1>1, <1>2 DEF Carried

\* The numbers of a launch of udn-bgp are those that Run puts.
LEMMA AllottedThen == IInv /\ Known /\ (\A v \in Invocations : Allotted(v)) => SubnetsFit
<1> SUFFICES ASSUME IInv, Known, \A v \in Invocations : Allotted(v), launches # << >>, inv.name = "udn-bgp"
             PROVE  OctetsFit(Number("JOB_ITERATIONS"), Number("NAMESPACES_PER_CUDN"), Number("CIDRS_PER_CUDN"))
  BY DEF SubnetsFit
<1>1. Passes(inv.pre) /\ Allotted(inv)
  BY DEF IInv, Prepared, OnTheWay, Known
<1> QED
  BY <1>1, CarriedThere DEF Allotted

\* So are those of a launch that has a room to fill.
LEMMA FilledThen == IInv /\ Known /\ (\A v \in Invocations : Filled(v)) => RoomKept
<1> SUFFICES ASSUME IInv, Known, \A v \in Invocations : Filled(v), launches # << >>
             PROVE  RoomFits(inv, Number("JOB_ITERATIONS"), Number("VMS_PER_ITERATION"))
  BY DEF RoomKept
<1>1. Has(inv.run, "launch") /\ Filled(inv)
  BY DEF IInv, Guarded, InRun, Known
<1>2. CASE inv.room = 0
  BY <1>2 DEF RoomFits
<1>3. CASE inv.room # 0
  BY <1>1, <1>3, CarriedThere DEF Filled
<1> QED
  BY <1>2, <1>3

-----------------------------------------------------------------------------
(* Sequences of steps, by the steps in them *)

Members(run) == {run[h] : h \in DOMAIN run}
Listed(run) == \E S : run \in Seq(S)

\* Sequences written out: the one of no step, of one, of two and of three.
LEMMA Literal ==
  /\ Listed(<< >>) /\ Members(<< >>) = {}
  /\ \A a : Listed(<<a>>) /\ Members(<<a>>) = {a}
  /\ \A a, b : Listed(<<a, b>>) /\ Members(<<a, b>>) = {a, b}
  /\ \A a, b, c : Listed(<<a, b, c>>) /\ Members(<<a, b, c>>) = {a, b, c}
<1>1. << >> \in Seq({}) /\ Members(<< >>) = {}
  BY DEF Members
<1>2. ASSUME NEW a
      PROVE  <<a>> \in Seq({a}) /\ Members(<<a>>) = {a}
  BY DEF Members
<1>3. ASSUME NEW a, NEW b
      PROVE  <<a, b>> \in Seq({a, b}) /\ Members(<<a, b>>) = {a, b}
  BY DEF Members
<1>4. ASSUME NEW a, NEW b, NEW c
      PROVE  <<a, b, c>> \in Seq({a, b, c}) /\ Members(<<a, b, c>>) = {a, b, c}
  BY DEF Members
<1> QED
  BY <1>1, <1>2, <1>3, <1>4 DEF Listed

\* Those of four to eight steps.
LEMMA Longer ==
  /\ \A a, b, c, d : Listed(<<a, b, c, d>>) /\ Members(<<a, b, c, d>>) = {a, b, c, d}
  /\ \A a, b, c, d, e : Listed(<<a, b, c, d, e>>) /\ Members(<<a, b, c, d, e>>) = {a, b, c, d, e}
  /\ \A a, b, c, d, e, f : Listed(<<a, b, c, d, e, f>>) /\ Members(<<a, b, c, d, e, f>>) = {a, b, c, d, e, f}
  /\ \A a, b, c, d, e, f, g :
       Listed(<<a, b, c, d, e, f, g>>) /\ Members(<<a, b, c, d, e, f, g>>) = {a, b, c, d, e, f, g}
  /\ \A a, b, c, d, e, f, g, h :
       Listed(<<a, b, c, d, e, f, g, h>>) /\ Members(<<a, b, c, d, e, f, g, h>>) = {a, b, c, d, e, f, g, h}
<1>1. ASSUME NEW a, NEW b, NEW c, NEW d
      PROVE  <<a, b, c, d>> \in Seq({a, b, c, d}) /\ Members(<<a, b, c, d>>) = {a, b, c, d}
  <2> DEFINE run == <<a, b, c, d>>
  <2>1. run \in Seq({a, b, c, d}) /\ DOMAIN run = 1..4
    OBVIOUS
  <2>2. run[1] = a /\ run[2] = b /\ run[3] = c /\ run[4] = d
    OBVIOUS
  <2>3. 1..4 = {1, 2, 3, 4}
    OBVIOUS
  <2> HIDE DEF run
  <2>4. Members(run) = {a, b, c, d}
    BY ONLY <2>1, <2>2, <2>3 DEF Members
  <2> QED
    BY <2>1, <2>4 DEF run
<1>2. ASSUME NEW a, NEW b, NEW c, NEW d, NEW e
      PROVE  <<a, b, c, d, e>> \in Seq({a, b, c, d, e}) /\ Members(<<a, b, c, d, e>>) = {a, b, c, d, e}
  <2> DEFINE run == <<a, b, c, d, e>>
  <2>1. run \in Seq({a, b, c, d, e}) /\ DOMAIN run = 1..5
    OBVIOUS
  <2>2. run[1] = a /\ run[2] = b /\ run[3] = c /\ run[4] = d /\ run[5] = e
    OBVIOUS
  <2>3. 1..5 = {1, 2, 3, 4, 5}
    OBVIOUS
  <2> HIDE DEF run
  <2>4. Members(run) = {a, b, c, d, e}
    BY ONLY <2>1, <2>2, <2>3 DEF Members
  <2> QED
    BY <2>1, <2>4 DEF run
<1>3. ASSUME NEW a, NEW b, NEW c, NEW d, NEW e, NEW f
      PROVE  <<a, b, c, d, e, f>> \in Seq({a, b, c, d, e, f}) /\ Members(<<a, b, c, d, e, f>>) = {a, b, c, d, e, f}
  <2> DEFINE run == <<a, b, c, d, e, f>>
  <2>1. run \in Seq({a, b, c, d, e, f}) /\ DOMAIN run = 1..6
    OBVIOUS
  <2>2. run[1] = a /\ run[2] = b /\ run[3] = c /\ run[4] = d /\ run[5] = e /\ run[6] = f
    OBVIOUS
  <2>3. 1..6 = {1, 2, 3, 4, 5, 6}
    OBVIOUS
  <2> HIDE DEF run
  <2>4. Members(run) = {a, b, c, d, e, f}
    BY ONLY <2>1, <2>2, <2>3 DEF Members
  <2> QED
    BY <2>1, <2>4 DEF run
<1>4. ASSUME NEW a, NEW b, NEW c, NEW d, NEW e, NEW f, NEW g
      PROVE  /\ <<a, b, c, d, e, f, g>> \in Seq({a, b, c, d, e, f, g})
             /\ Members(<<a, b, c, d, e, f, g>>) = {a, b, c, d, e, f, g}
  <2> DEFINE run == <<a, b, c, d, e, f, g>>
  <2>1. run \in Seq({a, b, c, d, e, f, g}) /\ DOMAIN run = 1..7
    OBVIOUS
  <2>2. run[1] = a /\ run[2] = b /\ run[3] = c /\ run[4] = d /\ run[5] = e /\ run[6] = f /\ run[7] = g
    OBVIOUS
  <2>3. 1..7 = {1, 2, 3, 4, 5, 6, 7}
    OBVIOUS
  <2> HIDE DEF run
  <2>4. Members(run) = {a, b, c, d, e, f, g}
    BY ONLY <2>1, <2>2, <2>3 DEF Members
  <2> QED
    BY <2>1, <2>4 DEF run
<1>5. ASSUME NEW a, NEW b, NEW c, NEW d, NEW e, NEW f, NEW g, NEW h
      PROVE  /\ <<a, b, c, d, e, f, g, h>> \in Seq({a, b, c, d, e, f, g, h})
             /\ Members(<<a, b, c, d, e, f, g, h>>) = {a, b, c, d, e, f, g, h}
  <2> DEFINE run == <<a, b, c, d, e, f, g, h>>
  <2>1. run \in Seq({a, b, c, d, e, f, g, h}) /\ DOMAIN run = 1..8
    OBVIOUS
  <2>2. run[1] = a /\ run[2] = b /\ run[3] = c /\ run[4] = d /\ run[5] = e /\ run[6] = f /\ run[7] = g /\ run[8] = h
    OBVIOUS
  <2>3. 1..8 = {1, 2, 3, 4, 5, 6, 7, 8}
    OBVIOUS
  <2> HIDE DEF run
  <2>4. Members(run) = {a, b, c, d, e, f, g, h}
    BY ONLY <2>1, <2>2, <2>3 DEF Members
  <2> QED
    BY <2>1, <2>4 DEF run
<1> QED
  BY <1>1, <1>2, <1>3, <1>4, <1>5 DEF Listed

\* Two sequences joined have the steps of both.
LEMMA Joined ==
  ASSUME NEW a, NEW b, Listed(a), Listed(b)
  PROVE  Listed(a \o b) /\ Members(a \o b) = Members(a) \cup Members(b)
<1>1. PICK R, T : a \in Seq(R) /\ b \in Seq(T)
  BY DEF Listed
<1> DEFINE S == R \cup T
<1>2. a \in Seq(S) /\ b \in Seq(S)
  BY <1>1
<1> HIDE DEF S
<1>3. a \o b \in Seq(S)
  BY <1>2
<1>4. /\ DOMAIN (a \o b) = 1..(Len(a) + Len(b))
      /\ \A h \in 1..Len(a) : (a \o b)[h] = a[h]
      /\ \A h \in 1..Len(b) : (a \o b)[Len(a) + h] = b[h]
  BY <1>2
<1>5. Len(a) \in Nat /\ DOMAIN a = 1..Len(a) /\ Len(b) \in Nat /\ DOMAIN b = 1..Len(b)
  BY <1>2
<1>6. ASSUME NEW s \in Members(a) \cup Members(b) PROVE s \in Members(a \o b)
  <2>1. CASE s \in Members(a)
    BY <1>4, <1>5, <2>1 DEF Members
  <2>2. CASE s \in Members(b)
    <3>1. PICK h \in 1..Len(b) : s = b[h]
      BY <1>5, <2>2 DEF Members
    <3>2. Len(a) + h \in DOMAIN (a \o b)
      BY <1>4, <1>5
    <3> QED
      BY <1>4, <3>1, <3>2 DEF Members
  <2> QED
    BY <1>6, <2>1, <2>2
<1>7. ASSUME NEW h \in DOMAIN (a \o b) PROVE (a \o b)[h] \in Members(a) \cup Members(b)
  <2>1. CASE h <= Len(a)
    BY <1>4, <1>5, <2>1 DEF Members
  <2>2. CASE h > Len(a)
    <3>1. h - Len(a) \in 1..Len(b) /\ h = Len(a) + (h - Len(a))
      BY <1>4, <1>5, <2>2
    <3>2. (a \o b)[h] = b[h - Len(a)]
      BY <1>4, <3>1
    <3> QED
      BY <1>5, <3>1, <3>2 DEF Members
  <2> QED
    BY <1>4, <1>5, <2>1, <2>2
<1> QED
  BY <1>3, <1>6, <1>7 DEF Members, Listed

\* A step that is there under a condition only.
LEMMA Perhaps ==
  ASSUME NEW condition, NEW a, Listed(a)
  PROVE  /\ Listed(Table!When(condition, a))
         /\ Members(Table!When(condition, a)) = IF condition THEN Members(a) ELSE {}
BY Literal DEF Table!When

\* What a run supplies by one of its steps.
LEMMA Supplying ==
  ASSUME NEW run
  PROVE  /\ \A names : Table!Assign(names) \in Members(run) => names \subseteq Supplied(run)
         /\ \A name, number : Table!Put(name, number) \in Members(run) => name \in Supplied(run)
         /\ \A profiles : Table!Metrics(profiles) \in Members(run) => "METRICS" \in Supplied(run) /\ Has(run, "metrics")
         /\ Table!Regular \in Members(run) \/ Table!Aggregated \in Members(run) =>
              "METRICS" \in Supplied(run) /\ Has(run, "metrics")
         /\ \A name : Table!SetEnv(name) \in Members(run) => name \in Supplied(run)
         /\ \A classes : Table!Class(classes) \in Members(run) => "storageClassName" \in Supplied(run)
         /\ \A m : Table!Measure(m) \in Members(run) =>
              \E h \in DOMAIN run : run[h].op = "measure" /\ run[h].what = m
<1>1. \A s \in Members(run) : Names(s) \subseteq Supplied(run) /\ Exports(s) \subseteq Supplied(run)
  BY DEF Members, Supplied
<1>2. \A names : Names(Table!Assign(names)) = names
  BY DEF Names, Table!Assign
<1>3. \A name, number : Names(Table!Put(name, number)) = {name}
  BY DEF Names, Table!Put
<1>4. \A profiles : Exports(Table!Metrics(profiles)) = {"METRICS"} /\ Table!Metrics(profiles).op = "metrics"
  BY DEF Exports, Table!Metrics
<1>5. \A name : Exports(Table!SetEnv(name)) = {name}
  BY DEF Exports, Table!SetEnv
<1>6. \A classes : Names(Table!Class(classes)) = {"storageClassName"}
  BY DEF Names, Table!Class
<1>7. \A m : Table!Measure(m).op = "measure" /\ Table!Measure(m).what = m
  BY DEF Table!Measure
<1>8. \A profiles : Table!Metrics(profiles) \in Members(run) => Has(run, "metrics")
  BY <1>4 DEF Has, Members
<1>9. \A m : Table!Measure(m) \in Members(run) => \E h \in DOMAIN run : run[h].op = "measure" /\ run[h].what = m
  BY <1>7 DEF Members
<1>10. Table!Regular \in Members(run) \/ Table!Aggregated \in Members(run) =>
         "METRICS" \in Supplied(run) /\ Has(run, "metrics")
  BY <1>1, <1>4, <1>8 DEF Table!Regular, Table!Aggregated
<1> QED
  BY <1>1, <1>2, <1>3, <1>4, <1>5, <1>6, <1>8, <1>9, <1>10

\* The variables that each kind of step sets.
LEMMA Setting ==
  /\ \A names : Table!Assign(names).op = "assign" /\ Names(Table!Assign(names)) = names
  /\ \A name, number : /\ Table!Put(name, number).op = "put" /\ Names(Table!Put(name, number)) = {name}
                       /\ Table!Put(name, number).name = name /\ Table!Put(name, number).number = number
  /\ \A profiles : Table!Metrics(profiles).op = "metrics" /\ Names(Table!Metrics(profiles)) = {}
  /\ Table!Regular.op = "metrics" /\ Names(Table!Regular) = {}
  /\ \A thing : Table!Need(thing).op = "need" /\ Names(Table!Need(thing)) = {}
  /\ \A condition : Table!Require(condition).op = "require" /\ Names(Table!Require(condition)) = {}
  /\ \A m : Table!Measure(m).op = "measure" /\ Names(Table!Measure(m)) = {}
  /\ Table!Launch.op = "launch" /\ Names(Table!Launch) = {}
BY DEF Names, Table!Assign, Table!Put, Table!Metrics, Table!Regular, Table!Need, Table!Require, Table!Measure,
     Table!Launch

\* The numbers that a run carries to the launch, by the steps in its last part ...
LEMMA PutLast ==
  ASSUME NEW a, NEW b, Listed(a), Listed(b), NEW name, NEW number,
         Table!Put(name, number) \in Members(b),
         \A s \in Members(b) : name \in Names(s) => s = Table!Put(name, number)
  PROVE  number \in Carried(a \o b, name)
<1>1. PICK R, T : a \in Seq(R) /\ b \in Seq(T)
  BY DEF Listed
<1> DEFINE S == R \cup T
           run == a \o b
<1>2. a \in Seq(S) /\ b \in Seq(S)
  BY <1>1
<1> HIDE DEF S
<1>3. /\ DOMAIN run = 1..(Len(a) + Len(b)) /\ Len(a) \in Nat /\ Len(b) \in Nat /\ DOMAIN b = 1..Len(b)
      /\ \A h \in 1..Len(b) : run[Len(a) + h] = b[h]
  BY <1>2
<1> HIDE DEF run
<1>4. PICK p \in 1..Len(b) : b[p] = Table!Put(name, number)
  BY <1>3 DEF Members
<1> DEFINE j == Len(a) + p
<1>5. j \in DOMAIN run /\ run[j] = Table!Put(name, number)
  BY <1>3, <1>4
<1>6. ASSUME NEW h \in DOMAIN run, j < h, name \in Names(run[h]) PROVE run[h] = run[j]
  <2>1. h - Len(a) \in 1..Len(b) /\ h = Len(a) + (h - Len(a))
    BY <1>3, <1>4, <1>6
  <2>2. run[h] \in Members(b)
    BY <1>3, <2>1 DEF Members
  <2> QED
    BY <1>5, <1>6, <2>2
<1>7. LastPut(run, j) /\ run[j].name = name /\ run[j].number = number
  BY <1>5, <1>6, Setting DEF LastPut
<1>8. number \in Carried(run, name)
  BY <1>5, <1>7 DEF Carried
<1> QED
  BY <1>8 DEF run

\* ... or in the whole of it ...
LEMMA PutOnce ==
  ASSUME NEW run, NEW name, NEW number, Table!Put(name, number) \in Members(run),
         \A s \in Members(run) : name \in Names(s) => s = Table!Put(name, number)
  PROVE  number \in Carried(run, name)
<1>1. PICK j \in DOMAIN run : run[j] = Table!Put(name, number)
  BY DEF Members
<1>2. LastPut(run, j) /\ run[j].name = name /\ run[j].number = number
  BY <1>1, Setting DEF LastPut, Members
<1> QED
  BY <1>1, <1>2 DEF Carried

\* ... or what comes later leaves them as they are.
LEMMA PutBefore ==
  ASSUME NEW a, NEW b, Listed(a), Listed(b), NEW name, NEW number \in Carried(a, name),
         \A s \in Members(b) : name \notin Names(s)
  PROVE  number \in Carried(a \o b, name)
<1>1. PICK R, T : a \in Seq(R) /\ b \in Seq(T)
  BY DEF Listed
<1> DEFINE S == R \cup T
           run == a \o b
<1>2. a \in Seq(S) /\ b \in Seq(S)
  BY <1>1
<1> HIDE DEF S
<1>3. /\ DOMAIN run = 1..(Len(a) + Len(b)) /\ Len(a) \in Nat /\ Len(b) \in Nat
      /\ DOMAIN a = 1..Len(a) /\ DOMAIN b = 1..Len(b)
      /\ \A h \in 1..Len(a) : run[h] = a[h]
      /\ \A h \in 1..Len(b) : run[Len(a) + h] = b[h]
  BY <1>2
<1> HIDE DEF run
<1>4. ASSUME NEW h \in DOMAIN run, ~(h <= Len(a)) PROVE name \notin Names(run[h])
  <2>1. h - Len(a) \in 1..Len(b) /\ h = Len(a) + (h - Len(a))
    BY <1>3, <1>4
  <2>2. run[h] \in Members(b)
    BY <1>3, <2>1 DEF Members
  <2> QED
    BY <2>2
<1>5. \A h \in DOMAIN run : h <= Len(a) => h \in DOMAIN a /\ run[h] = a[h]
  BY <1>3
<1>6. CASE ~Numbered(a, name) /\ number = 0
  <2>1. ~Numbered(run, name)
    BY <1>4, <1>5, <1>6 DEF Numbered
  <2> QED
    BY <1>6, <2>1 DEF Carried, run
<1>7. CASE \E j \in DOMAIN a : LastPut(a, j) /\ a[j].name = name /\ number = a[j].number
  <2>1. PICK j \in DOMAIN a : LastPut(a, j) /\ a[j].name = name /\ number = a[j].number
    BY <1>7
  <2>2. j \in DOMAIN run /\ run[j] = a[j]
    BY <1>3
  <2>3. LastPut(run, j)
    BY <1>4, <1>5, <2>1, <2>2 DEF LastPut
  <2> QED
    BY <2>1, <2>2, <2>3 DEF Carried, run
<1> QED
  BY <1>6, <1>7 DEF Carried

\* A variable that nobody numbers counts as zero.
LEMMA PutNever ==
  ASSUME NEW run, NEW name,
         \A s \in Members(run) : s.op \in {"put", "class", "grow"} => name \notin Names(s)
  PROVE  0 \in Carried(run, name)
BY DEF Carried, Numbered, Members

-----------------------------------------------------------------------------
(* The built-in configurations are served *)

\* A clean-up launches nothing.
LEMMA CleansOnly == ~Has(<<Table!Clean>>, "launch")
BY DEF Has, Table!Clean

\* The cluster densities put the ratio of the typed churn as well.
LEMMA ClusterDensityServed ==
  ASSUME NEW v, NEW variant, NEW iterations, NEW nodes, NEW config,
         config \in {Table!ClusterDensityMsYml, Table!ClusterDensityV2Yml},
         Uses(v, Table!ClusterDensity(variant, v.typed, iterations, nodes), config)
  PROVE  Served(v)
<1> DEFINE auto == "iterations" \notin v.typed
           a == Table!When(variant = "cluster-density-v2", <<Table!Need("image registry")>>)
           b == a \o <<Table!Need("selector")>>
           c == b \o Table!When(auto, <<Table!Need("nodes"), Table!Require(nodes > 0)>>)
           d == c \o <<Table!Regular>>
           e == d \o Table!When(Table!NeedsIngressDomain(variant), <<Table!IngressDomain>>)
           number == IF auto THEN nodes ELSE iterations
           names == Table!Churned \cup Table!Pprof \cup Table!Ready \cup {"NODE_SELECTOR", "SVC_LATENCY", "INGRESS_DOMAIN"}
           f == <<Table!Put("JOB_ITERATIONS", number), Table!Assign(names), Table!Launch>>
<1>1. v.run = e \o f
  BY DEF Uses, Runs, Table!Plain, Table!ClusterDensity
<1>2. v.config \subseteq names \cup Common \cup Apis \cup {"JOB_ITERATIONS", "METRICS"} /\ v.measures = {}
  BY DEF Uses, Runs, Table!ClusterDensityV2Yml, Table!ClusterDensityMsYml, Table!Base, Table!Churned, Common, Apis
<1>3. Listed(a)
  BY Literal, Perhaps
<1> HIDE DEF a
<1>4. Listed(b)
  BY <1>3, Literal, Joined
<1> HIDE DEF b
<1>5. Listed(c)
  BY <1>4, Literal, Joined, Perhaps
<1> HIDE DEF c
<1>6. Listed(d) /\ Table!Regular \in Members(d)
  BY <1>5, Literal, Joined
<1> HIDE DEF d
<1>7. Listed(e) /\ Table!Regular \in Members(e)
  BY <1>6, Literal, Joined, Perhaps
<1> HIDE DEF e
<1>8. Listed(f) /\ {Table!Put("JOB_ITERATIONS", number), Table!Assign(names)} \subseteq Members(f)
  BY Literal
<1> HIDE DEF f, number, names
<1>9. {Table!Regular, Table!Put("JOB_ITERATIONS", number), Table!Assign(names)} \subseteq Members(v.run)
  BY <1>1, <1>7, <1>8, Joined
<1>10. /\ names \subseteq Supplied(v.run) /\ "JOB_ITERATIONS" \in Supplied(v.run)
      /\ "METRICS" \in Supplied(v.run) /\ Has(v.run, "metrics")
  BY <1>9, Supplying
<1> QED
  BY <1>10, <1>2 DEF Served

LEMMA PodServed == ASSUME NEW v, NEW Values, PodLine(v, Values) PROVE Served(v)
<1> USE DEF Served, Uses, Runs, Table!Plain, Table!Requiring, Table!Filling, Common, Apis, Table!Base,
            Table!Regular, Table!Aggregated, Table!EtcdMetrics, Table!Churn, Table!Churned, Table!Pprof, Table!Ready
<1>0. \A h \in DOMAIN v.run : v.run[h] \in Members(v.run)
  BY DEF Members
<1>1. CASE Runs(v, Table!BerserkerLoad, Table!BerserkerLoadYml, {"yml"}, {})
  BY <1>0, <1>1, Supplying DEF Table!BerserkerLoad, Table!BerserkerLoadYml
<1>2. CASE Uses(v, Table!CrdScale, Table!CrdScaleYml)
  BY <1>0, <1>2, Supplying DEF Table!CrdScale, Table!CrdScaleYml
<1>3. CASE Uses(v, Table!EventStorm, Table!EventStormYml)
  BY <1>0, <1>3, Supplying DEF Table!EventStorm, Table!EventStormYml
<1>4. CASE Uses(v, Table!CrashloopFlood, Table!CrashloopFloodYml)
  BY <1>0, <1>4, Supplying DEF Table!CrashloopFlood, Table!CrashloopFloodYml
<1>5. CASE Uses(v, Table!DBQuotaPressure, Table!DbQuotaPressureYml)
  BY <1>0, <1>5, Supplying DEF Table!DBQuotaPressure, Table!DbQuotaPressureYml
<1>6. CASE Uses(v, Table!AnnotationChurn, Table!AnnotationChurnYml)
  BY <1>0, <1>6, Supplying DEF Table!AnnotationChurn, Table!AnnotationChurnYml
<1>7. CASE Uses(v, Table!NodeScale, Table!NodeScaleYml)
  BY <1>0, <1>7, Supplying DEF Table!NodeScale, Table!NodeScaleYml
<1>8. CASE Uses(v, Table!OLMv1, Table!OlmYml)
  BY <1>0, <1>8, Supplying DEF Table!OLMv1, Table!OlmYml
<1>9. CASE Uses(v, Table!PVCDensity, Table!PvcDensityYml)
  BY <1>0, <1>9, Supplying DEF Table!PVCDensity, Table!PvcDensityYml
<1>10. CASE Uses(v, Table!RDSCore, Table!RdsCoreYml)
  BY <1>0, <1>10, Supplying DEF Table!RDSCore, Table!RdsCoreYml
<1>11. CASE Uses(v, Table!WebBurner("web-burner-init"), Table!WebBurnerInitYml)
  BY <1>0, <1>11, Supplying DEF Table!WebBurner, Table!WebBurnerInitYml
<1>12. CASE Uses(v, Table!WebBurner("web-burner-node-density"), Table!WebBurnerNodeDensityYml)
  BY <1>0, <1>12, Supplying DEF Table!WebBurner, Table!WebBurnerNodeDensityYml
<1>13. CASE Uses(v, Table!WebBurner("web-burner-cluster-density"), Table!WebBurnerClusterDensityYml)
  BY <1>0, <1>13, Supplying DEF Table!WebBurner, Table!WebBurnerClusterDensityYml
<1>14. CASE Uses(v, Table!Whereabouts, Table!WhereaboutsYml)
  BY <1>0, <1>14, Supplying DEF Table!Whereabouts, Table!WhereaboutsYml
<1>15. ASSUME NEW small, Uses(v, Table!BuildFarm(small), Table!BuildFarmYml) PROVE Served(v)
  <2> DEFINE names == Table!Churn \cup Table!BuildController \cup Table!BuildJob \cup
               {"JOB_ITERATIONS", "ITERATIONS_PER_NAMESPACE", "NAMESPACED_ITERATIONS", "QPS", "BURST", "PPROF",
                "DELETION_STRATEGY"}
  <2>1. \A h \in 1..6 : v.run[h] \in Members(v.run)
    BY <1>15 DEF Members, Table!BuildFarm
  <2>2. /\ names \subseteq Supplied(v.run) /\ {"SMALL_JOB_PERCENT", "LARGE_JOB_PERCENT"} \subseteq Supplied(v.run)
        /\ "METRICS" \in Supplied(v.run) /\ Has(v.run, "metrics")
    BY <1>15, <2>1, Supplying DEF Table!BuildFarm
  <2> QED
    BY <1>15, <2>2 DEF Table!BuildFarm, Table!BuildFarmYml, Table!BuildController, Table!BuildJob
<1>16. ASSUME NEW variant, NEW replicas, NEW parallelism, NEW config,
             config \in {Table!KueueOperatorJobsYml, Table!KueueOperatorJobsSharedYml, Table!KueueOperatorPodsYml},
             Uses(v, Table!KueueOperator(variant, replicas, parallelism), config)
      PROVE  Served(v)
  BY <1>0, <1>16, Supplying DEF Table!KueueOperator, Table!KueueOperatorJobsYml, Table!KueueOperatorJobsSharedYml,
     Table!KueueOperatorPodsYml
<1> HIDE DEF Served, Uses, Runs
<1> QED
  BY <1>1, <1>2, <1>3, <1>4, <1>5, <1>6, <1>7, <1>8, <1>9, <1>10, <1>11, <1>12, <1>13, <1>14, <1>15, <1>16,
     ClusterDensityServed DEF PodLine

\* A quotient leaves no more than there is.
LEMMA Fraction ==
  ASSUME NEW a \in Int, NEW b \in Int, b # 0
  PROVE  Table!Quotient(a, b) \in Int /\ (b > 0 /\ Table!Quotient(a, b) > 0 => Table!Quotient(a, b) * b <= a)
<1>1. CASE a >= 0 /\ b > 0
  <2> DEFINE q == a \div b
  <2>1. Table!Quotient(a, b) = q
    BY <1>1 DEF Table!Quotient, Table!Magnitude
  <2>2. q \in Int /\ q * b <= a
    BY <1>1
  <2> QED
    BY <2>1, <2>2
<1>2. CASE ~(a >= 0 /\ b > 0)
  <2> DEFINE m == Table!Magnitude(a)
             d == Table!Magnitude(b)
             q == m \div d
  <2>1. m \in Nat /\ d \in Nat /\ d > 0
    BY DEF Table!Magnitude
  <2> HIDE DEF m, d
  <2>2. q \in Nat
    BY <2>1
  <2> HIDE DEF q
  <2>3. Table!Quotient(a, b) = (IF a >= 0 <=> b > 0 THEN q ELSE -q)
    BY DEF Table!Quotient, q, m, d
  <2> QED
    BY <1>2, <2>2, <2>3
<1> QED
  BY <1>1, <1>2

\* The node densities put the number of pods that the nodes have left.
LEMMA NodeDensityServed ==
  ASSUME NEW v, NEW variant, NEW nodes \in Int, NEW podsPerNode \in Int, NEW pods \in Int, NEW config,
         config \in {Table!NodeDensityYml, Table!NodeDensityCniYml, Table!NodeDensityHeavyYml},
         Uses(v, Table!NodeDensity(variant, nodes, podsPerNode, pods), config)
  PROVE  Served(v) /\ Filled(v)
<1> DEFINE names == Table!Churned \cup Table!Pprof \cup Table!Ready \cup
             {"PROBES_PERIOD", "CONTAINER_IMAGE", "SVC_LATENCY", "NAMESPACED_ITERATIONS",
              "ITERATIONS_PER_NAMESPACE", "PERF_PROFILE", "NUM_SRIOVS", "SRIOV_NETWORK_NAME", "NODE_SELECTOR"}
           free == nodes * podsPerNode - pods
           each == IF variant = "node-density" THEN 1 ELSE 2
           number == Table!Quotient(free, each)
           a == Table!Need("nodes")
           b == Table!Require(nodes > 0)
           c == Table!Need("pod count")
           d == Table!Need("selector")
<1>1. /\ v.run = <<a, b, c, d, Table!Assign(names), Table!Put("JOB_ITERATIONS", number), Table!Regular, Table!Launch>>
      /\ v.room = free /\ v.each = each
  BY DEF Uses, Runs, Table!Plain, Table!Filling, Table!NodeDensity
<1>2. v.config \subseteq names \cup Common \cup {"JOB_ITERATIONS", "METRICS"} /\ v.measures = {}
  BY DEF Uses, Runs, Table!NodeDensityYml, Table!NodeDensityCniYml, Table!NodeDensityHeavyYml, Table!Base, Common
<1>3. "JOB_ITERATIONS" \notin names /\ "VMS_PER_ITERATION" \notin names
  BY DEF Table!Churned, Table!Churn, Table!Pprof, Table!Ready
<1>4. /\ Names(a) = {} /\ Names(b) = {} /\ Names(c) = {} /\ Names(d) = {}
      /\ a.op = "need" /\ b.op = "require" /\ c.op = "need" /\ d.op = "need"
  BY Setting
<1>5. free \in Int /\ each \in {1, 2}
  OBVIOUS
<1> HIDE DEF names, free, each, a, b, c, d
<1>6. number \in Int /\ (number > 0 => number * each <= free)
  BY <1>5, Fraction
<1> HIDE DEF number
<1>7. Members(v.run) = {a, b, c, d, Table!Assign(names), Table!Put("JOB_ITERATIONS", number), Table!Regular, Table!Launch}
  BY <1>1, Longer
<1>8. /\ names \subseteq Supplied(v.run) /\ "JOB_ITERATIONS" \in Supplied(v.run)
      /\ "METRICS" \in Supplied(v.run) /\ Has(v.run, "metrics")
  BY <1>7, Supplying
<1>9. Served(v)
  BY <1>2, <1>8 DEF Served
<1>10. number \in Carried(v.run, "JOB_ITERATIONS")
  <2>1. \A s \in Members(v.run) : "JOB_ITERATIONS" \in Names(s) => s = Table!Put("JOB_ITERATIONS", number)
    BY <1>3, <1>4, <1>7, Setting
  <2> QED
    BY <1>7, <2>1, PutOnce
<1>11. 0 \in Carried(v.run, "VMS_PER_ITERATION")
  <2>1. \A s \in Members(v.run) : "VMS_PER_ITERATION" \notin Names(s)
    BY <1>3, <1>4, <1>7, Setting
  <2> QED
    BY <2>1, PutNever
<1>12. Filled(v)
  BY <1>1, <1>5, <1>6, <1>10, <1>11 DEF Filled, RoomFits
<1> QED
  BY <1>9, <1>12

\* virt-density puts the number of VMs that the nodes have left.
LEMMA VirtDensityServed ==
  ASSUME NEW v, NEW hosts \in Int, NEW vmsPerNode \in Int, NEW vms \in Int,
         Uses(v, Table!VirtDensity(FALSE, hosts, vmsPerNode, vms), Table!VirtDensityYml)
  PROVE  Served(v) /\ Filled(v)
<1> DEFINE names == Table!Churned \cup Table!Vm \cup {"VMI_RUNNING_THRESHOLD", "NAMESPACED_ITERATIONS",
                                                      "ITERATIONS_PER_NAMESPACE", "MOUNTS"}
           free == hosts * vmsPerNode - vms
           a == Table!Need("VMI count")
<1>1. /\ v.run = <<a, Table!Put("JOB_ITERATIONS", free), Table!Assign(names), Table!Regular, Table!Launch>>
      /\ v.room = free /\ v.each = 1
  BY DEF Uses, Runs, Table!Plain, Table!Filling, Table!Cleanable, Table!VirtDensity
<1>2. v.config \subseteq names \cup Common \cup {"JOB_ITERATIONS", "METRICS"} /\ v.measures = {}
  BY DEF Uses, Runs, Table!VirtDensityYml, Table!Base, Common
<1>3. "JOB_ITERATIONS" \notin names /\ "VMS_PER_ITERATION" \notin names
  BY DEF Table!Churned, Table!Churn, Table!Vm
<1>4. free \in Int
  OBVIOUS
<1>5. Names(a) = {}
  BY Setting
<1> HIDE DEF names, free, a
<1>6. Members(v.run) = {a, Table!Put("JOB_ITERATIONS", free), Table!Assign(names), Table!Regular, Table!Launch}
  BY <1>1, Longer
<1>7. /\ names \subseteq Supplied(v.run) /\ "JOB_ITERATIONS" \in Supplied(v.run)
      /\ "METRICS" \in Supplied(v.run) /\ Has(v.run, "metrics")
  BY <1>6, Supplying
<1>8. Served(v)
  BY <1>2, <1>7 DEF Served
<1>9. free \in Carried(v.run, "JOB_ITERATIONS")
  <2>1. \A s \in Members(v.run) : "JOB_ITERATIONS" \in Names(s) => s = Table!Put("JOB_ITERATIONS", free)
    BY <1>3, <1>6, <1>5, Setting
  <2> QED
    BY <1>6, <2>1, PutOnce
<1>10. 0 \in Carried(v.run, "VMS_PER_ITERATION")
  <2>1. \A s \in Members(v.run) : "VMS_PER_ITERATION" \notin Names(s)
    BY <1>3, <1>6, <1>5, Setting
  <2> QED
    BY <2>1, PutNever
<1>11. Filled(v)
  BY <1>1, <1>4, <1>9, <1>10 DEF Filled, RoomFits
<1> QED
  BY <1>8, <1>11

\* The UDN densities of VMs spread them over the namespaces.
LEMMA VirtUDNDensityServed ==
  ASSUME NEW v, NEW variant, NEW binding, NEW hosts \in Int, NEW vmsPerNode \in Int, NEW iterations \in Int,
         Uses(v, Table!VirtUDNDensity(variant, FALSE, binding, hosts, vmsPerNode, iterations),
              Table!VirtUdnDensityYml)
  PROVE  Served(v) /\ Filled(v)
<1> DEFINE names == Table!Churned \cup Table!Vm \cup Table!Pprof \cup
                      {"VMI_RUNNING_THRESHOLD", "UDN_BINDING_METHOD", "ENABLE_LAYER_3"}
           total == hosts * vmsPerNode
           perUdn == IF iterations = 0 THEN 0 ELSE Table!Quotient(total, iterations) - 1
           p == Table!Require(binding \in {"passt", "l2bridge"})
           q == Table!Require(iterations # 0)
           a == <<p, Table!Regular, q>>
           b == a \o Table!When(perUdn < 1, <<Table!Put("VMS_PER_ITERATION", 0)>>)
           c == <<Table!Assign(names), Table!Put("JOB_ITERATIONS", iterations),
                  Table!Put("VMS_PER_ITERATION", perUdn), Table!Launch>>
<1>1. v.run = b \o c /\ v.room = total /\ v.each = 1
  BY DEF Uses, Runs, Table!Plain, Table!Filling, Table!Cleanable, Table!VirtUDNDensity
<1>2. v.config \subseteq names \cup Common \cup {"JOB_ITERATIONS", "VMS_PER_ITERATION", "METRICS"} /\ v.measures = {}
  BY DEF Uses, Runs, Table!VirtUdnDensityYml, Table!Base, Common
<1>3. "JOB_ITERATIONS" \notin names /\ "VMS_PER_ITERATION" \notin names
  BY DEF Table!Churned, Table!Churn, Table!Vm, Table!Pprof
<1>4. total \in Int
  OBVIOUS
<1> HIDE DEF names, total, p, q
<1>5. perUdn \in Int /\ (iterations > 0 /\ perUdn >= 0 => iterations * (1 + perUdn) <= total)
  <2> DEFINE quotient == Table!Quotient(total, iterations)
  <2>1. CASE iterations = 0
    BY <2>1
  <2>2. CASE iterations # 0
    <3>1. quotient \in Int /\ (iterations > 0 /\ quotient > 0 => quotient * iterations <= total)
      BY <1>4, <2>2, Fraction
    <3>2. perUdn = quotient - 1
      BY <2>2
    <3> HIDE DEF quotient, perUdn
    <3>3. /\ 1 + perUdn = quotient /\ perUdn \in Int /\ (perUdn >= 0 => quotient > 0)
          /\ quotient * iterations = iterations * quotient
      BY <3>1, <3>2
    <3> QED
      BY <3>1, <3>3
  <2> QED
    BY <2>1, <2>2
<1> HIDE DEF perUdn
<1>6. Listed(a) /\ Table!Regular \in Members(a)
  BY Literal
<1> HIDE DEF a
<1>7. Listed(b) /\ Table!Regular \in Members(b)
  BY <1>6, Literal, Joined, Perhaps
<1> HIDE DEF b
<1>8. /\ Listed(c)
      /\ Members(c) = {Table!Assign(names), Table!Put("JOB_ITERATIONS", iterations),
                       Table!Put("VMS_PER_ITERATION", perUdn), Table!Launch}
  BY Longer
<1> HIDE DEF c
<1>9. Members(v.run) = Members(b) \cup Members(c)
  BY <1>1, <1>7, <1>8, Joined
<1>10. /\ names \subseteq Supplied(v.run) /\ {"JOB_ITERATIONS", "VMS_PER_ITERATION", "METRICS"} \subseteq Supplied(v.run)
       /\ Has(v.run, "metrics")
  BY <1>7, <1>8, <1>9, Supplying
<1>11. Served(v)
  BY <1>2, <1>10 DEF Served
<1>12. iterations \in Carried(v.run, "JOB_ITERATIONS") /\ perUdn \in Carried(v.run, "VMS_PER_ITERATION")
  <2>1. \A s \in Members(c) : "JOB_ITERATIONS" \in Names(s) => s = Table!Put("JOB_ITERATIONS", iterations)
    BY <1>3, <1>8, Setting
  <2>2. \A s \in Members(c) : "VMS_PER_ITERATION" \in Names(s) => s = Table!Put("VMS_PER_ITERATION", perUdn)
    BY <1>3, <1>8, Setting
  <2>3. /\ Table!Put("JOB_ITERATIONS", iterations) \in Members(c)
        /\ Table!Put("VMS_PER_ITERATION", perUdn) \in Members(c)
    BY <1>8
  <2> QED
    BY <1>1, <1>7, <1>8, <2>1, <2>2, <2>3, PutLast
<1>13. Filled(v)
  BY <1>1, <1>5, <1>12 DEF Filled, RoomFits
<1> QED
  BY <1>11, <1>13

\* init supplies a configuration of its own with the profiles only.
LEMMA CustomServed ==
  ASSUME NEW v, NEW iterations \in Int, NEW podsPerNode \in Int, NEW hosts \in Int, NEW pods \in Int,
         v.name = "init",
         Runs(v, Table!CustomWorkload(v.typed, iterations, podsPerNode, hosts, pods), v.config, {}, {})
  PROVE  Served(v) /\ Filled(v)
<1> DEFINE perNode == "pods-per-node" \in v.typed /\ podsPerNode > 0
           given == IF "iterations" \in v.typed /\ iterations > 0 THEN iterations ELSE 0
           free == hosts * podsPerNode - pods
           number == IF perNode THEN Table!Quotient(free, 2) ELSE given
           numbered == v.typed \cap {"iterations", "pods-per-node"} # {}
           names == v.typed \cap Table!Optional
           a == <<Table!Need("configuration file"), Table!IngressDomain>>
           b == a \o Table!When(perNode, <<Table!Need("pod count")>>)
           c == b \o <<Table!Assign({"INGRESS_DOMAIN"})>>
           d == c \o Table!When(numbered, <<Table!Put("JOB_ITERATIONS", number)>>)
           e == <<Table!Assign(names), Table!Regular, Table!Launch>>
<1>1. v.run = d \o e /\ v.measures = {} /\ v.room = (IF perNode THEN free ELSE 0) /\ v.each = 2
  BY DEF Runs, Table!Plain, Table!Filling, Table!CustomWorkload
<1>2. "JOB_ITERATIONS" \notin names /\ "VMS_PER_ITERATION" \notin names
  BY DEF Table!Optional, Table!Churned, Table!Churn, Table!Pprof, Table!Ready
<1>3. perNode => numbered
  OBVIOUS
<1>4. free \in Int
  OBVIOUS
<1> HIDE DEF free
<1>5. perNode => number \in Int /\ (number > 0 => number * 2 <= free)
  BY <1>4, Fraction
<1> HIDE DEF perNode, number, numbered, names
<1>6. Listed(a) /\ \A s \in Members(a) : Names(s) = {}
  <2>1. Members(a) = {Table!Need("configuration file"), Table!IngressDomain}
    BY Literal
  <2> QED
    BY <2>1, Literal, Setting DEF Table!IngressDomain
<1> HIDE DEF a
<1>7. Listed(b) /\ \A s \in Members(b) : Names(s) = {}
  <2> DEFINE f == <<Table!Need("pod count")>>
             g == Table!When(perNode, f)
  <2>1. Listed(f) /\ \A s \in Members(f) : Names(s) = {}
    <3>1. Listed(f) /\ Members(f) = {Table!Need("pod count")}
      BY Literal
    <3> QED
      BY <3>1, Setting
  <2> HIDE DEF f
  <2>2. Listed(g) /\ \A s \in Members(g) : Names(s) = {}
    BY <2>1, Perhaps
  <2> HIDE DEF g
  <2>3. b = a \o g
    BY DEF g, f
  <2> QED
    BY <1>6, <2>2, <2>3, Joined
<1> HIDE DEF b
<1>8. Listed(c) /\ \A s \in Members(c) : Names(s) \subseteq {"INGRESS_DOMAIN"}
  BY <1>7, Literal, Joined, Setting
<1> HIDE DEF c
<1>9. Listed(e) /\ Members(e) = {Table!Assign(names), Table!Regular, Table!Launch}
  BY Literal
<1> HIDE DEF e
<1>10. Listed(d) /\ (\A s \in Members(d) : Names(s) \subseteq {"INGRESS_DOMAIN", "JOB_ITERATIONS"})
  BY <1>8, Literal, Joined, Perhaps, Setting
<1>11. numbered => number \in Carried(d, "JOB_ITERATIONS")
  <2> DEFINE f == <<Table!Put("JOB_ITERATIONS", number)>>
  <2>1. numbered => d = c \o f
    BY DEF Table!When
  <2>2. Listed(f) /\ Members(f) = {Table!Put("JOB_ITERATIONS", number)}
    BY Literal
  <2> HIDE DEF f, d
  <2>3. \A s \in Members(f) : "JOB_ITERATIONS" \in Names(s) => s = Table!Put("JOB_ITERATIONS", number)
    BY <2>2
  <2>4. Table!Put("JOB_ITERATIONS", number) \in Members(f)
    BY <2>2
  <2> QED
    BY <1>8, <2>1, <2>2, <2>3, <2>4, PutLast
<1> HIDE DEF d
<1>12. Table!Regular \in Members(v.run) /\ Members(v.run) = Members(d) \cup Members(e)
  BY <1>1, <1>9, <1>10, Joined
<1>13. Served(v)
  BY <1>1, <1>12, Supplying DEF Served
<1>14. numbered => number \in Carried(v.run, "JOB_ITERATIONS")
  <2>1. \A s \in Members(e) : "JOB_ITERATIONS" \notin Names(s)
    BY <1>2, <1>9, Setting
  <2> QED
    BY <1>1, <1>9, <1>10, <1>11, <2>1, PutBefore
<1>15. 0 \in Carried(v.run, "VMS_PER_ITERATION")
  <2>1. \A s \in Members(e) : "VMS_PER_ITERATION" \notin Names(s)
    BY <1>2, <1>9, Setting
  <2>2. \A s \in Members(v.run) : "VMS_PER_ITERATION" \notin Names(s)
    BY <1>10, <1>12, <2>1
  <2> QED
    BY <2>2, PutNever
<1>16. Filled(v)
  BY <1>1, <1>3, <1>4, <1>5, <1>14, <1>15 DEF Filled, RoomFits
<1> QED
  BY <1>13, <1>16

\* A command line that only cleans up launches nothing.
LEMMA CleanupServed == ASSUME NEW v, v.run = <<Table!Clean>> PROVE Served(v)
BY CleansOnly DEF Served

\* What a condition says holds past it.
LEMMA Past ==
  ASSUME NEW pre, Passes(pre), NEW condition \in BOOLEAN, Table!Require(condition) \in Members(pre)
  PROVE  condition
<1>1. Table!Require(condition).op = "require" /\ Table!Require(condition).holds = condition
  BY DEF Table!Require
<1>2. PICK h \in DOMAIN pre : pre[h] = Table!Require(condition)
  BY DEF Members
<1>3. pre[h].holds
  BY <1>1, <1>2 DEF Passes
<1> QED
  BY <1>1, <1>2, <1>3

\* evpn supplies the web server to the scenarios that use it, but for the address that the
\* setup of the external VRF is given.
LEMMA EvpnServed ==
  ASSUME NEW v, NEW scenario, NEW webserver, NEW skip,
         Runs(v, Table!EVPN(scenario, webserver, skip), Table!EvpnYml, IdleOfEvpn(scenario, v.typed), {})
  PROVE  Served(v)
<1> SUFFICES ASSUME Passes(v.pre) PROVE Served(v)
  BY DEF Served
<1> DEFINE north == scenario \in {"north-south", "north-south-l3"}
           known == scenario \in {"east-west", "north-south", "north-south-l3"}
           x == {"EXTERNAL_WEBSERVER_IP", "EXTERNAL_WEBSERVER_PORT"}
           y == Table!Ready \cup {"JOB_ITERATIONS", "NAMESPACES_PER_CUDN", "SCENARIO"}
           z == {"CREATE_EXT_FRR_VRF", "L3VNI_START"}
           a == <<Table!Regular, Table!Assign(y)>>
           b == a \o Table!When(north, <<Table!Assign(x)>>)
           c == <<Table!Assign(z), Table!Launch>>
           p == <<Table!Require(known)>>
           q == p \o Table!When(north, <<Table!Require(webserver)>>)
           r == Table!When(north /\ ~skip, <<Table!Need("external webserver")>>)
<1>1. /\ v.run = b \o c /\ v.pre = q \o r /\ v.measures = {}
  BY DEF Runs, Table!Plain, Table!EVPN
<1>2. /\ v.config \subseteq x \cup y \cup z \cup Common \cup {"METRICS"}
      /\ scenario = "east-west" => x \subseteq v.idle \cup Supplied(v.run) \cup Unserved(v)
  <2>1. v.config \subseteq x \cup y \cup z \cup Common \cup {"METRICS"}
    BY DEF Runs, Table!EvpnYml, Table!Base, Common
  <2>2. v.name = "evpn" /\ IdleOfEvpn(scenario, v.typed) \subseteq v.idle
    BY DEF Runs, Table!Plain, Table!EVPN
  <2> HIDE DEF y, z
  <2>3. scenario = "east-west" => x \subseteq v.idle \cup Supplied(v.run) \cup Unserved(v)
    BY ONLY <2>2 DEF IdleOfEvpn, Unserved
  <2> QED
    BY <2>1, <2>3
<1>3. known => scenario = "east-west" \/ north
  OBVIOUS
<1>4. known \in BOOLEAN
  OBVIOUS
<1> HIDE DEF north, known, x, y, z
<1>5. Listed(p) /\ Table!Require(known) \in Members(p)
  BY <1>4, Literal
<1> HIDE DEF p
<1>6. Listed(q) /\ Table!Require(known) \in Members(q)
  BY <1>5, Literal, Joined, Perhaps
<1>7. Listed(r)
  BY Literal, Perhaps
<1> HIDE DEF q, r
<1>8. known
  BY <1>1, <1>4, <1>6, <1>7, Joined, Past
<1>9. Listed(a) /\ {Table!Regular, Table!Assign(y)} \subseteq Members(a)
  BY Literal
<1> HIDE DEF a
<1>10. Listed(b) /\ {Table!Regular, Table!Assign(y)} \subseteq Members(b) /\ (north => Table!Assign(x) \in Members(b))
  BY <1>9, Literal, Joined, Perhaps
<1> HIDE DEF b
<1>11. Listed(c) /\ Table!Assign(z) \in Members(c)
  BY Literal
<1> HIDE DEF c
<1>12. /\ {Table!Regular, Table!Assign(y), Table!Assign(z)} \subseteq Members(v.run)
       /\ north => Table!Assign(x) \in Members(v.run)
  BY <1>1, <1>10, <1>11, Joined
<1>13. /\ y \cup z \subseteq Supplied(v.run) /\ "METRICS" \in Supplied(v.run) /\ Has(v.run, "metrics")
       /\ north => x \subseteq Supplied(v.run)
  BY <1>12, Supplying
<1> QED
  BY <1>1, <1>2, <1>3, <1>8, <1>13 DEF Served

\* cudn-density has the map of the gateways when it checks them.
LEMMA CudnDensityServed ==
  ASSUME NEW v, NEW load, NEW gatewayCheck,
         Runs(v, Table!CudnDensity(load, gatewayCheck), Table!CudnDensityYml,
              IF gatewayCheck THEN {} ELSE {"NODE_GW_MAP"}, {"cudnLatency"})
  PROVE  Served(v)
<1> DEFINE x == Table!Pprof \cup Table!Churned \cup Table!Ready \cup {"JOB_PAUSE"}
           y == {"CUDNS_PER_RA", "ENABLE_LAYER_3", "INCREMENTAL_STEP_SIZE", "INCREMENTAL_STEP_DELAY",
                 "INCREMENTAL_PATTERN", "INCREMENTAL_EXP_BASE", "GATEWAY_CHECK", "BGP",
                 "OCPBUGS_85627_WORKAROUND"}
           iterations == Table!Put("JOB_ITERATIONS", load.iterations)
           perCudn == Table!Put("NAMESPACES_PER_CUDN", load.perCudn)
           a == <<Table!Regular, Table!Assign(x), iterations, perCudn, Table!Assign(y)>>
           gateway == Table!Assign({"NODE_GW_MAP"})
           need == Table!Need("gateway of a worker")
           g == <<need, gateway>>
           b == a \o Table!When(gatewayCheck, g)
           c == <<Table!Measure("cudnLatency"), Table!Launch>>
<1>1. v.run = b \o c /\ v.measures = {"cudnLatency"}
  BY DEF Runs, Table!Plain, Table!CudnDensity
<1>2. /\ v.config \subseteq x \cup y \cup {"JOB_ITERATIONS", "NAMESPACES_PER_CUDN", "NODE_GW_MAP", "METRICS"} \cup Common
      /\ ~gatewayCheck => "NODE_GW_MAP" \in v.idle
  BY DEF Runs, Table!CudnDensityYml, Table!Base, Common
<1>3. \A run : /\ iterations \in Members(run) => "JOB_ITERATIONS" \in Supplied(run)
               /\ perCudn \in Members(run) => "NAMESPACES_PER_CUDN" \in Supplied(run)
               /\ gateway \in Members(run) => "NODE_GW_MAP" \in Supplied(run)
  BY Supplying
<1> HIDE DEF x, y, iterations, perCudn, gateway, need
<1>4. Listed(a) /\ {Table!Regular, Table!Assign(x), iterations, perCudn, Table!Assign(y)} \subseteq Members(a)
  BY Longer
<1>5. Listed(g) /\ gateway \in Members(g)
  BY Literal
<1> HIDE DEF a, g
<1>6. /\ Listed(b) /\ {Table!Regular, Table!Assign(x), iterations, perCudn, Table!Assign(y)} \subseteq Members(b)
      /\ gatewayCheck => gateway \in Members(b)
  BY <1>4, <1>5, Joined, Perhaps
<1> HIDE DEF b
<1>7. Listed(c) /\ Table!Measure("cudnLatency") \in Members(c)
  BY Literal
<1> HIDE DEF c
<1>8. /\ {Table!Regular, Table!Assign(x), iterations, perCudn, Table!Assign(y), Table!Measure("cudnLatency")}
           \subseteq Members(v.run)
      /\ gatewayCheck => gateway \in Members(v.run)
  BY <1>1, <1>6, <1>7, Joined
<1>9. /\ x \cup y \cup {"JOB_ITERATIONS", "NAMESPACES_PER_CUDN", "METRICS"} \subseteq Supplied(v.run)
      /\ Has(v.run, "metrics")
      /\ \E h \in DOMAIN v.run : v.run[h].op = "measure" /\ v.run[h].what = "cudnLatency"
  BY <1>3, <1>8, Supplying
<1>10. gatewayCheck => "NODE_GW_MAP" \in Supplied(v.run)
  BY <1>3, <1>8
<1> QED
  BY <1>1, <1>2, <1>9, <1>10 DEF Served

\* udn-bgp requires what its CIDRs have to suffice for.
LEMMA UdnBgpServed ==
  ASSUME NEW v, NEW iterations \in Int, NEW perCudn \in Nat, NEW cidrs \in Int,
         Runs(v, Table!UdnBgp(iterations, perCudn, cidrs), Table!UdnBgpYml, {}, {"raLatency"})
  PROVE  Served(v) /\ Allotted(v)
<1> DEFINE names == {"ENABLE_VM", "LAYER2"}
           x == Table!Put("JOB_ITERATIONS", iterations)
           y == Table!Put("NAMESPACES_PER_CUDN", perCudn)
           z == Table!Put("CIDRS_PER_CUDN", cidrs)
           m == Table!Measure("raLatency")
           A == cidrs >= 1
           B == perCudn # 0
           C == iterations % perCudn = 0
           D == (iterations \div perCudn) * cidrs <= Table!MaxCidrs
           a == <<Table!Require(A), Table!Require(B)>>
           b == <<Table!Require(C), Table!Require(D)>>
           c == a \o Table!When(B, b)
           d == <<Table!Need("FRR router")>>
<1>1. /\ v.run = <<Table!Regular, x, y, z, Table!Assign(names), m, Table!Launch>>
      /\ v.pre = c \o d /\ v.measures = {"raLatency"}
  BY DEF Runs, Table!Plain, Table!UdnBgp
<1>2. v.config \subseteq names \cup Common \cup {"JOB_ITERATIONS", "NAMESPACES_PER_CUDN", "CIDRS_PER_CUDN", "METRICS"}
  BY DEF Runs, Table!UdnBgpYml, Table!Base, Common
<1>3. \A run : /\ x \in Members(run) => "JOB_ITERATIONS" \in Supplied(run)
               /\ y \in Members(run) => "NAMESPACES_PER_CUDN" \in Supplied(run)
               /\ z \in Members(run) => "CIDRS_PER_CUDN" \in Supplied(run)
  BY Supplying
<1>4. /\ Names(x) = {"JOB_ITERATIONS"} /\ Names(y) = {"NAMESPACES_PER_CUDN"} /\ Names(z) = {"CIDRS_PER_CUDN"}
      /\ Names(m) = {} /\ Names(Table!Assign(names)) = {"ENABLE_VM", "LAYER2"}
      /\ Names(Table!Regular) = {} /\ Names(Table!Launch) = {}
  BY Setting
<1>5. A \in BOOLEAN /\ B \in BOOLEAN /\ C \in BOOLEAN /\ D \in BOOLEAN
  OBVIOUS
<1>6. A /\ B /\ C /\ D => OctetsFit(iterations, perCudn, cidrs)
  <2> SUFFICES ASSUME A, B, C, D PROVE OctetsFit(iterations, perCudn, cidrs)
    OBVIOUS
  <2> DEFINE cudns == iterations \div perCudn
             number == cudns * cidrs
  <2>1. cudns \in Int /\ iterations = cudns * perCudn
    OBVIOUS
  <2>2. number \in Int /\ number <= 55080
    BY <2>1 DEF Table!MaxCidrs
  <2> HIDE DEF number
  <2>3. 40 + (number - 1) \div 255 <= 255
    BY <2>2
  <2> QED
    BY <2>1, <2>3 DEF number, OctetsFit
<1> HIDE DEF names, x, y, z, m, A, B, C, D
<1>7. Passes(v.pre) => A /\ B /\ C /\ D
  <2> SUFFICES ASSUME Passes(v.pre) PROVE A /\ B /\ C /\ D
    OBVIOUS
  <2>1. Listed(a) /\ {Table!Require(A), Table!Require(B)} \subseteq Members(a)
    BY Literal
  <2>2. Listed(b) /\ {Table!Require(C), Table!Require(D)} \subseteq Members(b)
    BY Literal
  <2>3. Listed(d)
    BY Literal
  <2> HIDE DEF a, b, d
  <2>4. /\ Listed(c) /\ {Table!Require(A), Table!Require(B)} \subseteq Members(c)
        /\ B => {Table!Require(C), Table!Require(D)} \subseteq Members(c)
    BY <2>1, <2>2, Joined, Perhaps
  <2> HIDE DEF c
  <2>5. /\ {Table!Require(A), Table!Require(B)} \subseteq Members(v.pre)
        /\ B => {Table!Require(C), Table!Require(D)} \subseteq Members(v.pre)
    BY <1>1, <2>3, <2>4, Joined
  <2>6. A /\ B
    BY <1>5, <2>5, Past
  <2> QED
    BY <1>5, <2>5, <2>6, Past
<1> HIDE DEF c
<1>8. Members(v.run) = {Table!Regular, x, y, z, Table!Assign(names), m, Table!Launch}
  <2>1. v.run = <<Table!Regular, x, y, z, Table!Assign(names), m, Table!Launch>>
    BY <1>1
  <2> QED
    BY ONLY <2>1, Longer
<1>9. /\ names \cup {"JOB_ITERATIONS", "NAMESPACES_PER_CUDN", "CIDRS_PER_CUDN", "METRICS"} \subseteq Supplied(v.run)
      /\ Has(v.run, "metrics")
  BY <1>3, <1>8, Supplying
<1>10. \E h \in DOMAIN v.run : v.run[h].op = "measure" /\ v.run[h].what = "raLatency"
  BY <1>8, Supplying DEF m
<1>11. Served(v)
  BY <1>1, <1>2, <1>9, <1>10 DEF Served
<1>12. /\ iterations \in Carried(v.run, "JOB_ITERATIONS") /\ perCudn \in Carried(v.run, "NAMESPACES_PER_CUDN")
       /\ cidrs \in Carried(v.run, "CIDRS_PER_CUDN")
  <2>1. \A s \in Members(v.run) : /\ "JOB_ITERATIONS" \in Names(s) => s = x
                                  /\ "NAMESPACES_PER_CUDN" \in Names(s) => s = y
                                  /\ "CIDRS_PER_CUDN" \in Names(s) => s = z
    BY <1>4, <1>8
  <2>2. {x, y, z} \subseteq Members(v.run)
    BY <1>8
  <2>3. iterations \in Carried(v.run, "JOB_ITERATIONS")
    BY <2>1, <2>2, PutOnce DEF x
  <2>4. perCudn \in Carried(v.run, "NAMESPACES_PER_CUDN")
    BY <2>1, <2>2, PutOnce DEF y
  <2>5. cidrs \in Carried(v.run, "CIDRS_PER_CUDN")
    BY <2>1, <2>2, PutOnce DEF z
  <2> QED
    BY <2>3, <2>4, <2>5
<1>13. Allotted(v)
  BY <1>6, <1>7, <1>12 DEF Allotted
<1> QED
  BY <1>11, <1>13

LEMMA NetworkServed == ASSUME NEW v, NEW Loads, NetworkLine(v, Int, Loads) PROVE Served(v)
<1> USE DEF Served, Uses, Runs, Table!Plain, Table!Requiring, Common, Apis, Table!Base,
            Table!Regular, Table!Aggregated, Table!Churn, Table!Churned, Table!Pprof, Table!Ready
<1>0. \A h \in DOMAIN v.run : v.run[h] \in Members(v.run)
  BY DEF Members
<1>1. ASSUME NEW exceptRules, NEW latency, Uses(v, Table!NetworkPolicy(exceptRules, latency), Table!NetworkPolicyYml)
      PROVE  Served(v)
  BY <1>0, <1>1, Supplying DEF Table!NetworkPolicy, Table!NetworkPolicyYml
<1>2. ASSUME NEW variant, Uses(v, Table!UDNDensityPods(variant), Table!UdnDensityPodsYml) PROVE Served(v)
  BY <1>0, <1>2, Supplying DEF Table!UDNDensityPods, Table!UdnDensityPodsYml
<1>3. CASE Uses(v, Table!EgressIP, Table!EgressipYml)
  BY <1>0, <1>3, Supplying DEF Table!EgressIP, Table!EgressipYml
<1>4. CASE Uses(v, Table!ANPDensityPods, Table!AnpDensityPodsYml)
  BY <1>0, <1>4, Supplying DEF Table!ANPDensityPods, Table!AnpDensityPodsYml
<1> HIDE DEF Served, Uses, Runs
<1> QED
  BY <1>1, <1>2, <1>3, <1>4, EvpnServed, CudnDensityServed, UdnBgpServed DEF NetworkLine

\* The loops.
LEMMA CapacityServed ==
  ASSUME NEW v, NEW classes, NEW skipResize, NEW max, NEW vmsPerIteration,
         Runs(v, Table!VirtCapacityBenchmark(FALSE, classes, skipResize, max, vmsPerIteration),
              Table!VirtCapacityBenchmarkYml, {"io"}, {})
  PROVE  Served(v)
<1> DEFINE x == Table!Put("vmCount", vmsPerIteration)
           y == Table!Class(classes)
           z == Table!SetEnv("counter")
           e == Table!Again(3, max)
<1>1. /\ v.run = <<Table!SSHKeys, Table!Assign(Table!LoopVars), x, Table!Aggregated, y, z, Table!Launch, e>>
      /\ v.measures = {}
  BY DEF Runs, Table!Plain, Table!Cleanable, Table!VirtCapacityBenchmark
<1>2. v.config \subseteq v.idle \cup Table!LoopVars \cup Common \cup {"vmCount", "storageClassName", "counter", "METRICS"}
  BY DEF Runs, Table!VirtCapacityBenchmarkYml, Table!VirtBase, Table!LoopVars, Common
<1>3. \A run : /\ x \in Members(run) => "vmCount" \in Supplied(run)
               /\ y \in Members(run) => "storageClassName" \in Supplied(run)
               /\ z \in Members(run) => "counter" \in Supplied(run)
  BY Supplying
<1> HIDE DEF x, y, z, e
<1>4. {Table!Assign(Table!LoopVars), x, Table!Aggregated, y, z} \subseteq Members(v.run)
  <2>1. v.run = <<Table!SSHKeys, Table!Assign(Table!LoopVars), x, Table!Aggregated, y, z, Table!Launch, e>>
    BY <1>1
  <2> QED
    BY ONLY <2>1, Longer
<1>5. /\ Table!LoopVars \cup {"vmCount", "storageClassName", "counter", "METRICS"} \subseteq Supplied(v.run)
      /\ Has(v.run, "metrics")
  BY <1>3, <1>4, Supplying
<1> QED
  BY <1>1, <1>2, <1>5 DEF Served

\* The loops choose a class, and a count, in every round.
LEMMA ParallelServed ==
  ASSUME NEW v, NEW classes, NEW skipResize, NEW skipMigration, NEW max, NEW initial, NEW increment,
         Runs(v, Table!VirtParallel(FALSE, classes, skipResize, skipMigration, max, initial, increment),
              Table!VirtParallelYml, {"io"} \cup (IF skipMigration THEN {"selectedNode"} ELSE {}), {})
  PROVE  Served(v)
<1> DEFINE names == Table!LoopVars \cup {"vmsIncrement", "skipRestartJob", "skipSnapshotJob"}
           x == Table!Put("vmCount", initial)
           y == Table!Class(classes)
           grow == Table!Grow(initial, increment)
           z == Table!SetEnv("counter")
           worker == Table!Need("worker node")
           selected == Table!Assign({"selectedNode"})
           f == <<worker, selected>>
           node == Table!When(~skipMigration, f)
           e == Table!Again(4 + Len(node), max)
           a == <<Table!SSHKeys, Table!Assign(names), x, Table!Aggregated, y, grow>>
           b == a \o node
           c == <<z, Table!Launch, e>>
<1>1. v.run = b \o c /\ v.measures = {}
  BY DEF Runs, Table!Plain, Table!Cleanable, Table!VirtParallel
<1>2. /\ v.config \subseteq v.idle \cup names \cup Common \cup
                              {"vmCount", "storageClassName", "counter", "selectedNode", "METRICS"}
      /\ skipMigration => "selectedNode" \in v.idle
  BY DEF Runs, Table!VirtParallelYml, Table!VirtBase, Table!LoopVars, Common
<1>3. \A run : /\ x \in Members(run) => "vmCount" \in Supplied(run)
               /\ y \in Members(run) => "storageClassName" \in Supplied(run)
               /\ z \in Members(run) => "counter" \in Supplied(run)
               /\ selected \in Members(run) => "selectedNode" \in Supplied(run)
  BY Supplying
<1> HIDE DEF names, x, y, z, e, grow, worker, selected
<1>4. Listed(a) /\ {Table!Assign(names), x, Table!Aggregated, y} \subseteq Members(a)
  BY Longer
<1>5. Listed(f) /\ selected \in Members(f)
  BY Literal
<1> HIDE DEF a, f
<1>6. Listed(node) /\ (~skipMigration => selected \in Members(node))
  BY <1>5, Perhaps
<1> HIDE DEF node
<1>7. Listed(c) /\ z \in Members(c)
  BY Literal
<1> HIDE DEF c
<1>8. /\ Listed(b) /\ {Table!Assign(names), x, Table!Aggregated, y} \subseteq Members(b)
      /\ ~skipMigration => selected \in Members(b)
  BY <1>4, <1>6, Joined
<1> HIDE DEF b
<1>9. /\ {Table!Assign(names), x, Table!Aggregated, y, z} \subseteq Members(v.run)
      /\ ~skipMigration => selected \in Members(v.run)
  BY <1>1, <1>7, <1>8, Joined
<1>10. /\ names \cup {"vmCount", "storageClassName", "counter", "METRICS"} \subseteq Supplied(v.run)
       /\ Has(v.run, "metrics") /\ (~skipMigration => "selectedNode" \in Supplied(v.run))
  BY <1>3, <1>9, Supplying
<1> QED
  BY <1>1, <1>2, <1>10 DEF Served

\* virt-migration supplies all of its variables in one assignment.
LEMMA MigrationServed ==
  ASSUME NEW v, Runs(v, Table!VirtMigration(FALSE), Table!VirtMigrationYml, {"io"}, {})
  PROVE  Served(v)
<1> DEFINE names == Table!Keys \cup Table!Vm \cup
             {"storageClassName", "testNamespace", "vmCreateIterations", "vmCreatePerIteration",
              "dataVolumeCounters", "workerNodeName", "loadVMsIterations", "loadVMsPerIteration", "migrationQPS"}
<1>1. v.run = <<Table!SSHKeys, Table!Assign(names), Table!Regular, Table!Launch>> /\ v.measures = {}
  BY DEF Runs, Table!Plain, Table!Cleanable, Table!VirtMigration
<1>2. v.config \subseteq v.idle \cup names \cup Common \cup {"METRICS"}
  BY DEF Runs, Table!VirtMigrationYml, Table!VirtBase, Common
<1> HIDE DEF names
<1>3. {Table!Assign(names), Table!Regular} \subseteq Members(v.run)
  BY <1>1, Longer
<1>4. names \subseteq Supplied(v.run) /\ "METRICS" \in Supplied(v.run) /\ Has(v.run, "metrics")
  BY <1>3, Supplying
<1> QED
  BY <1>1, <1>2, <1>4 DEF Served

LEMMA VirtServed == ASSUME NEW v, NEW Values, VirtLine(v, Values) PROVE Served(v)
<1> USE DEF Served, Uses, Runs, Table!Plain, Table!Cleanable, Common, Table!VirtBase,
            Table!Regular, Table!Aggregated, Table!Keys, Table!Vm
<1>0. \A h \in DOMAIN v.run : v.run[h] \in Members(v.run)
  BY DEF Members
<1>1. ASSUME NEW mode, NEW use, NEW changed, Runs(v, Table!DVClone(mode, use, changed), Table!DvCloneYml, {"io"}, {})
      PROVE  Served(v)
  BY <1>0, <1>1, Supplying DEF Table!DVClone, Table!DvCloneYml
<1>2. ASSUME NEW cleanup \in BOOLEAN, NEW mode, NEW use, NEW changed, 
             Runs(v, Table!VirtEphemeralRestart(cleanup, mode, use, changed), Table!VirtEphemeralRestartYml, {"io"}, {})
      PROVE  Served(v)
  <2>1. CASE cleanup = TRUE
    BY <1>2, <2>1, CleanupServed DEF Table!VirtEphemeralRestart
  <2>2. CASE cleanup = FALSE
    BY <1>0, <1>2, <2>2, Supplying DEF Table!VirtEphemeralRestart, Table!VirtEphemeralRestartYml
  <2> QED
    BY <2>1, <2>2
<1>3. ASSUME NEW cleanup \in BOOLEAN, NEW mode, NEW use, NEW changed, 
             Runs(v, Table!VirtClone(cleanup, mode, use, changed), Table!VirtCloneYml, {"io"}, {})
      PROVE  Served(v)
  <2>1. CASE cleanup = TRUE
    BY <1>3, <2>1, CleanupServed DEF Table!VirtClone
  <2>2. CASE cleanup = FALSE
    BY <1>0, <1>3, <2>2, Supplying DEF Table!VirtClone, Table!VirtCloneYml
  <2> QED
    BY <2>1, <2>2
<1>4. ASSUME NEW cleanup \in BOOLEAN, NEW mode, NEW use, NEW changed, 
             Runs(v, Table!VirtCloneMulti(cleanup, mode, use, changed), Table!VirtCloneMultiYml, {"io"}, {})
      PROVE  Served(v)
  <2>1. CASE cleanup = TRUE
    BY <1>4, <2>1, CleanupServed DEF Table!VirtCloneMulti
  <2>2. CASE cleanup = FALSE
    BY <1>0, <1>4, <2>2, Supplying DEF Table!VirtCloneMulti, Table!VirtCloneMultiYml
  <2> QED
    BY <2>1, <2>2
<1>5. ASSUME NEW cleanup \in BOOLEAN, 
             Runs(v, Table!VirtMigration(cleanup), Table!VirtMigrationYml, {"io"}, {})
      PROVE  Served(v)
  <2>1. CASE cleanup = TRUE
    BY <1>5, <2>1, CleanupServed DEF Table!VirtMigration
  <2>2. CASE cleanup = FALSE
    BY <1>5, <2>2, MigrationServed
  <2> QED
    BY <2>1, <2>2
<1>6. ASSUME NEW classes, NEW skipResize, NEW max, NEW vmsPerIteration,
             Runs(v, Table!VirtCapacityBenchmark(TRUE, classes, skipResize, max, vmsPerIteration),
                  Table!VirtCapacityBenchmarkYml, {"io"}, {})
      PROVE  Served(v)
  BY <1>6, CleanupServed DEF Table!VirtCapacityBenchmark
<1>7. ASSUME NEW classes, NEW skipResize, NEW skipMigration, NEW max, NEW initial, NEW increment,
             Runs(v, Table!VirtParallel(TRUE, classes, skipResize, skipMigration, max, initial, increment),
                  Table!VirtParallelYml, {"io"} \cup (IF skipMigration THEN {"selectedNode"} ELSE {}), {})
      PROVE  Served(v)
  BY <1>7, CleanupServed DEF Table!VirtParallel
<1> HIDE DEF Served, Uses, Runs
<1>8. CASE \E cleanup, use, changed \in BOOLEAN, mode \in {"RO", "RWO", "RWX", "other"} :
       \/ Runs(v, Table!DVClone(mode, use, changed), Table!DvCloneYml, {"io"}, {})
       \/ Runs(v, Table!VirtEphemeralRestart(cleanup, mode, use, changed), Table!VirtEphemeralRestartYml, {"io"}, {})
       \/ Runs(v, Table!VirtClone(cleanup, mode, use, changed), Table!VirtCloneYml, {"io"}, {})
       \/ Runs(v, Table!VirtCloneMulti(cleanup, mode, use, changed), Table!VirtCloneMultiYml, {"io"}, {})
  BY <1>1, <1>2, <1>3, <1>4, <1>8
<1>9. CASE \E cleanup \in BOOLEAN : Runs(v, Table!VirtMigration(cleanup), Table!VirtMigrationYml, {"io"}, {})
  BY <1>5, <1>9
<1>10. CASE \E cleanup, skipResize \in BOOLEAN, classes \in Values \cap Nat, max, vmsPerIteration \in Values :
       Runs(v, Table!VirtCapacityBenchmark(cleanup, classes, skipResize, max, vmsPerIteration),
            Table!VirtCapacityBenchmarkYml, {"io"}, {})
  BY <1>6, <1>10, CapacityServed
<1>11. CASE \E cleanup, skipResize, skipMigration \in BOOLEAN, classes \in Values \cap Nat,
        max, initial, increment \in Values :
       Runs(v, Table!VirtParallel(cleanup, classes, skipResize, skipMigration, max, initial, increment),
            Table!VirtParallelYml, {"io"} \cup (IF skipMigration THEN {"selectedNode"} ELSE {}), {})
  BY <1>7, <1>11, ParallelServed
<1> QED
  BY <1>8, <1>9, <1>10, <1>11 DEF VirtLine

LEMMA DensityServed == ASSUME NEW v, DensityLine(v, Int) PROVE Served(v) /\ Filled(v)
<1>1. ASSUME NEW hosts, NEW vmsPerNode, NEW vms,
             Uses(v, Table!VirtDensity(TRUE, hosts, vmsPerNode, vms), Table!VirtDensityYml)
      PROVE  Served(v) /\ Filled(v)
  <2>1. v.run = <<Table!Clean>> /\ v.room = 0
    BY <1>1 DEF Uses, Runs, Table!Plain, Table!Filling, Table!VirtDensity, Table!Cleanable
  <2> QED
    BY <2>1, CleanupServed DEF Filled
<1>2. ASSUME NEW variant, NEW binding, NEW hosts, NEW vmsPerNode, NEW iterations,
             Uses(v, Table!VirtUDNDensity(variant, TRUE, binding, hosts, vmsPerNode, iterations),
                  Table!VirtUdnDensityYml)
      PROVE  Served(v) /\ Filled(v)
  <2>1. v.run = <<Table!Clean>> /\ v.room = 0
    BY <1>2 DEF Uses, Runs, Table!Plain, Table!Filling, Table!VirtUDNDensity, Table!Cleanable
  <2> QED
    BY <2>1, CleanupServed DEF Filled
<1>3. CASE \E nodes, podsPerNode, pods \in Int :
       \/ Uses(v, Table!NodeDensity("node-density", nodes, podsPerNode, pods), Table!NodeDensityYml)
       \/ Uses(v, Table!NodeDensity("node-density-cni", nodes, podsPerNode, pods), Table!NodeDensityCniYml)
       \/ Uses(v, Table!NodeDensity("node-density-heavy", nodes, podsPerNode, pods), Table!NodeDensityHeavyYml)
  BY <1>3, NodeDensityServed
<1>4. CASE v.name = "init" /\ \E iterations, podsPerNode, hosts, pods \in Int :
       Runs(v, Table!CustomWorkload(v.typed, iterations, podsPerNode, hosts, pods), v.config, {}, {})
  BY <1>4, CustomServed
<1>5. CASE \E cleanup \in BOOLEAN, hosts, vmsPerNode, vms \in Int :
             Uses(v, Table!VirtDensity(cleanup, hosts, vmsPerNode, vms), Table!VirtDensityYml)
  BY <1>1, <1>5, VirtDensityServed
<1>6. CASE \E variant \in {"virt-udn-density", "virt-cudn-density"}, cleanup \in BOOLEAN,
              binding \in {"passt", "l2bridge", "other"}, hosts, vmsPerNode, iterations \in Int :
             Uses(v, Table!VirtUDNDensity(variant, cleanup, binding, hosts, vmsPerNode, iterations),
                  Table!VirtUdnDensityYml)
  BY <1>2, <1>6, VirtUDNDensityServed
<1> QED
  BY <1>3, <1>4, <1>5, <1>6 DEF DensityLine

\* udn-bgp is the one with subnets, and only the densities have a room.
Named(command) == command.name # "udn-bgp"
Roomless(command) == command.room = 0
Ordinary(command) == command.name # "udn-bgp" /\ command.room = 0

LEMMA PodPlain ==
  ASSUME NEW v, NEW Values, PodLine(v, Values)
  PROVE  v.name # "udn-bgp" /\ v.room = 0
<1>1. Ordinary(Table!BerserkerLoad)
  BY DEF Ordinary, Table!BerserkerLoad, Table!Plain
<1>2. \A small : Ordinary(Table!BuildFarm(small))
  BY DEF Ordinary, Table!BuildFarm, Table!Plain
<1>3. \A iterations, nodes : Ordinary(Table!ClusterDensity("cluster-density-v2", v.typed, iterations, nodes))
  BY DEF Ordinary, Table!ClusterDensity, Table!Plain
<1>4. \A iterations, nodes : Ordinary(Table!ClusterDensity("cluster-density-ms", v.typed, iterations, nodes))
  BY DEF Ordinary, Table!ClusterDensity, Table!Plain
<1>5. Ordinary(Table!CrdScale)
  BY DEF Ordinary, Table!CrdScale, Table!Plain, Table!Requiring
<1>6. Ordinary(Table!EventStorm)
  BY DEF Ordinary, Table!EventStorm, Table!Plain
<1>7. Ordinary(Table!CrashloopFlood)
  BY DEF Ordinary, Table!CrashloopFlood, Table!Plain
<1>8. Ordinary(Table!DBQuotaPressure)
  BY DEF Ordinary, Table!DBQuotaPressure, Table!Plain
<1>9. Ordinary(Table!AnnotationChurn)
  BY DEF Ordinary, Table!AnnotationChurn, Table!Plain
<1>10. \A replicas, parallelism : Ordinary(Table!KueueOperator("kueue-operator-jobs", replicas, parallelism))
  BY DEF Ordinary, Table!KueueOperator, Table!Plain
<1>11. \A replicas, parallelism : Ordinary(Table!KueueOperator("kueue-operator-jobs-shared", replicas, parallelism))
  BY DEF Ordinary, Table!KueueOperator, Table!Plain
<1>12. \A replicas, parallelism : Ordinary(Table!KueueOperator("kueue-operator-pods", replicas, parallelism))
  BY DEF Ordinary, Table!KueueOperator, Table!Plain
<1>13. Ordinary(Table!NodeScale)
  BY DEF Ordinary, Table!NodeScale, Table!Plain
<1>14. Ordinary(Table!OLMv1)
  BY DEF Ordinary, Table!OLMv1, Table!Plain, Table!Requiring
<1>15. Ordinary(Table!PVCDensity)
  BY DEF Ordinary, Table!PVCDensity, Table!Plain
<1>16. Ordinary(Table!RDSCore)
  BY DEF Ordinary, Table!RDSCore, Table!Plain, Table!Requiring
<1>17. Ordinary(Table!WebBurner("web-burner-init"))
  BY DEF Ordinary, Table!WebBurner, Table!Plain
<1>18. Ordinary(Table!WebBurner("web-burner-node-density"))
  BY DEF Ordinary, Table!WebBurner, Table!Plain
<1>19. Ordinary(Table!WebBurner("web-burner-cluster-density"))
  BY DEF Ordinary, Table!WebBurner, Table!Plain
<1>20. Ordinary(Table!Whereabouts)
  BY DEF Ordinary, Table!Whereabouts, Table!Plain
<1> QED
  BY <1>1, <1>2, <1>3, <1>4, <1>5, <1>6, <1>7, <1>8, <1>9, <1>10, <1>11, <1>12, <1>13, <1>14, <1>15, <1>16,
       <1>17, <1>18, <1>19, <1>20 DEF PodLine, Uses, Runs, Ordinary

LEMMA DensityPlain ==
  ASSUME NEW v, NEW Values, DensityLine(v, Values)
  PROVE  v.name # "udn-bgp"
<1>1. \A nodes, podsPerNode, pods : Named(Table!NodeDensity("node-density", nodes, podsPerNode, pods))
  BY DEF Named, Table!NodeDensity, Table!Plain, Table!Filling
<1>2. \A nodes, podsPerNode, pods : Named(Table!NodeDensity("node-density-cni", nodes, podsPerNode, pods))
  BY DEF Named, Table!NodeDensity, Table!Plain, Table!Filling
<1>3. \A nodes, podsPerNode, pods : Named(Table!NodeDensity("node-density-heavy", nodes, podsPerNode, pods))
  BY DEF Named, Table!NodeDensity, Table!Plain, Table!Filling
<1>4. \A cleanup, hosts, vmsPerNode, vms : Named(Table!VirtDensity(cleanup, hosts, vmsPerNode, vms))
  BY DEF Named, Table!VirtDensity, Table!Plain, Table!Filling, Table!Cleanable
<1>5. \A cleanup, binding, hosts, vmsPerNode, iterations :
        Named(Table!VirtUDNDensity("virt-udn-density", cleanup, binding, hosts, vmsPerNode, iterations))
  BY DEF Named, Table!VirtUDNDensity, Table!Plain, Table!Filling, Table!Cleanable
<1>6. \A cleanup, binding, hosts, vmsPerNode, iterations :
        Named(Table!VirtUDNDensity("virt-cudn-density", cleanup, binding, hosts, vmsPerNode, iterations))
  BY DEF Named, Table!VirtUDNDensity, Table!Plain, Table!Filling, Table!Cleanable
<1> QED
  BY <1>1, <1>2, <1>3, <1>4, <1>5, <1>6 DEF DensityLine, Uses, Runs, Named

LEMMA NetworkPlain ==
  ASSUME NEW v, NEW Loads, NetworkLine(v, Int, Loads)
  PROVE  /\ v.room = 0
         /\ v.name # "udn-bgp" \/ \E iterations, cidrs \in Int, perCudn \in Nat :
              Runs(v, Table!UdnBgp(iterations, perCudn, cidrs), Table!UdnBgpYml, {}, {"raLatency"})
<1>1. \A scenario, webserver, skip : Ordinary(Table!EVPN(scenario, webserver, skip))
  BY DEF Ordinary, Table!EVPN, Table!Plain
<1>2. \A exceptRules, latency : Ordinary(Table!NetworkPolicy(exceptRules, latency))
  BY DEF Ordinary, Table!NetworkPolicy, Table!Plain
<1>3. Ordinary(Table!UDNDensityPods("udn-density-pods"))
  BY DEF Ordinary, Table!UDNDensityPods, Table!Plain, Table!Requiring
<1>4. Ordinary(Table!UDNDensityPods("cudn-density-pods"))
  BY DEF Ordinary, Table!UDNDensityPods, Table!Plain, Table!Requiring
<1>5. \A load, gatewayCheck : Ordinary(Table!CudnDensity(load, gatewayCheck))
  BY DEF Ordinary, Table!CudnDensity, Table!Plain
<1>6. Ordinary(Table!EgressIP)
  BY DEF Ordinary, Table!EgressIP, Table!Plain, Table!Requiring
<1>7. Ordinary(Table!ANPDensityPods)
  BY DEF Ordinary, Table!ANPDensityPods, Table!Plain, Table!Requiring
<1>8. \A iterations, perCudn, cidrs : Roomless(Table!UdnBgp(iterations, perCudn, cidrs))
  BY DEF Roomless, Table!UdnBgp, Table!Plain
<1> QED
  BY <1>8, <1>1, <1>2, <1>3, <1>4, <1>5, <1>6, <1>7 DEF NetworkLine, Uses, Runs, Ordinary, Roomless

LEMMA VirtPlain ==
  ASSUME NEW v, NEW Values, VirtLine(v, Values)
  PROVE  v.name # "udn-bgp" /\ v.room = 0
<1>1. \A mode, use, changed : Ordinary(Table!DVClone(mode, use, changed))
  BY DEF Ordinary, Table!DVClone, Table!Plain
<1>2. \A cleanup, mode, use, changed : Ordinary(Table!VirtEphemeralRestart(cleanup, mode, use, changed))
  BY DEF Ordinary, Table!VirtEphemeralRestart, Table!Plain, Table!Cleanable
<1>3. \A cleanup, mode, use, changed : Ordinary(Table!VirtClone(cleanup, mode, use, changed))
  BY DEF Ordinary, Table!VirtClone, Table!Plain, Table!Cleanable
<1>4. \A cleanup, mode, use, changed : Ordinary(Table!VirtCloneMulti(cleanup, mode, use, changed))
  BY DEF Ordinary, Table!VirtCloneMulti, Table!Plain, Table!Cleanable
<1>5. \A cleanup : Ordinary(Table!VirtMigration(cleanup))
  BY DEF Ordinary, Table!VirtMigration, Table!Plain, Table!Cleanable
<1>6. \A cleanup, classes, skipResize, max, vmsPerIteration :
        Ordinary(Table!VirtCapacityBenchmark(cleanup, classes, skipResize, max, vmsPerIteration))
  BY DEF Ordinary, Table!VirtCapacityBenchmark, Table!Plain, Table!Cleanable
<1>7. \A cleanup, classes, skipResize, skipMigration, max, initial, increment :
        Ordinary(Table!VirtParallel(cleanup, classes, skipResize, skipMigration, max, initial, increment))
  BY DEF Ordinary, Table!VirtParallel, Table!Plain, Table!Cleanable
<1> QED
  BY <1>1, <1>2, <1>3, <1>4, <1>5, <1>6, <1>7 DEF VirtLine, Uses, Runs, Ordinary

\* Every built-in command line supplies what its launch needs.
LEMMA BuiltInServed ==
  ASSUME NEW v, NEW Loads, BuiltIn(v, Int, Loads)
  PROVE  Served(v) /\ Allotted(v) /\ Filled(v)
<1>1. CASE PodLine(v, Int)
  BY <1>1, PodServed, PodPlain DEF Allotted, Filled
<1>2. CASE DensityLine(v, Int)
  BY <1>2, DensityServed, DensityPlain DEF Allotted
<1>3. CASE NetworkLine(v, Int, Loads)
  BY <1>3, NetworkServed, NetworkPlain, UdnBgpServed DEF Allotted, Filled
<1>4. CASE VirtLine(v, Int)
  BY <1>4, VirtServed, VirtPlain DEF Allotted, Filled
<1>5. CASE OtherLine(v)
  BY <1>5 DEF OtherLine, Served, Allotted, Filled, Quiet, Silent
<1> QED
  BY <1>1, <1>2, <1>3, <1>4, <1>5 DEF BuiltIn

-----------------------------------------------------------------------------
(* Theorems about the built-in commands *)

\* A built-in workload is launched with every variable its configuration uses, but for the
\* web server's address of an east-west evpn with --create-ext-frr-vrf, with METRICS naming
\* profiles there are, and with its measurements registered: whatever the values of the
\* other flags and the answers of the cluster, Run supplies all of it before the launch.
THEOREM ConfigServedHolds ==
  ASSUME NEW Loads, \A v \in Invocations : BuiltIn(v, Int, Loads)
  PROVE  Spec => []ConfigServed
<1>1. IInv /\ Known => ConfigServed
  BY ServedThen, BuiltInServed
<1> QED
  BY <1>1, Invariance, KnownHolds, PTL

\* However many iterations, CUDNs and CIDRs udn-bgp is asked for, what gets past its checks
\* has addresses in cudn.yml.
THEOREM SubnetsFitHolds ==
  ASSUME NEW Loads, \A v \in Invocations : BuiltIn(v, Int, Loads)
  PROVE  Spec => []SubnetsFit
<1>1. IInv /\ Known => SubnetsFit
  BY AllottedThen, BuiltInServed
<1> QED
  BY <1>1, Invariance, KnownHolds, PTL

\* Whatever the cluster holds already, and however its division comes out, a density adds no
\* more than there is room for.
THEOREM RoomKeptHolds ==
  ASSUME NEW Loads, \A v \in Invocations : BuiltIn(v, Int, Loads)
  PROVE  Spec => []RoomKept
<1>1. IInv /\ Known => RoomKept
  BY FilledThen, BuiltInServed
<1> QED
  BY <1>1, Invariance, KnownHolds, PTL

-----------------------------------------------------------------------------
(* The whole program *)

\* What egressip and anp-density-pods do by their routines is a step of the invocation, or
\* none.
LEMMA WholeStep == OcpNext => [Next]_all
<1> SUFFICES ASSUME OcpNext PROVE [Next]_all
  OBVIOUS
<1>1. CASE Own /\ UNCHANGED <<egress, anp>>
  BY <1>1 DEF Next
<1>2. CASE GenerateEgressIPs
  BY <1>2 DEF GenerateEgressIPs, Next
<1>3. CASE GeneratePolicies
  BY <1>3 DEF GeneratePolicies, Next
<1> QED
  BY <1>1, <1>2, <1>3 DEF OcpNext

\* The whole program is an invocation as Command.tla describes it, fairness aside.
THEOREM WholeIsCommand == OcpSpec => Init /\ [][Next]_all
<1>1. OcpInit => Init
  BY DEF OcpInit
<1>2. [OcpNext]_whole => [Next]_all
  BY WholeStep DEF whole, all
<1> QED
  BY <1>1, <1>2, PTL DEF OcpSpec

\* So the program keeps the promises that an invocation keeps ...
THEOREM WholeInvariance ==
  OcpSpec => [](IInv /\ HealthyCluster /\ FlagsFirst /\ ExitTells /\ SetValuesUsed /\ LoopsFully)
<1>1. Init => Guarded /\ Known /\ Prepared
  BY InitInv, InitPrepared
<1>2. Guarded /\ Known /\ Prepared /\ [Next]_all => (Guarded /\ Known /\ Prepared)'
  BY StepInv, PreparedStep
<1>3. Guarded /\ Prepared => IInv /\ HealthyCluster /\ FlagsFirst /\ ExitTells /\ SetValuesUsed /\ LoopsFully
  BY DEF IInv, Guarded, Prepared, InRun, FlagsValid, FlagsFirst
<1> QED
  BY <1>1, <1>2, <1>3, WholeIsCommand, PTL

\* ... and, run with the built-in commands, those about their configurations.
THEOREM WholeConfigurations ==
  ASSUME NEW Loads, \A v \in Invocations : BuiltIn(v, Int, Loads)
  PROVE  OcpSpec => [](ConfigServed /\ SubnetsFit /\ RoomKept)
<1>1. Init => Known
  BY DEF Init, Known
<1>2. Known /\ [Next]_all => Known'
  BY KnownStays DEF Next, all, Known
<1>3. IInv /\ Known => ConfigServed /\ SubnetsFit /\ RoomKept
  BY ServedThen, AllottedThen, FilledThen, BuiltInServed
<1> QED
  BY <1>1, <1>2, <1>3, WholeIsCommand, WholeInvariance, PTL

\* What the whole program does with the variables of EgressIPs.tla and AnpDensity.tla is
\* what those modules describe, so that their theorems hold of it as well.
THEOREM WholeRunsRoutines ==
  OcpSpec => /\ Addresses!Init /\ [][Addresses!Next]_egress
             /\ Policies!Init /\ [][Policies!Next]_anp
<1>1. OcpInit => Addresses!Init /\ Policies!Init
  BY DEF OcpInit, Policies!Init
<1>2. ASSUME [OcpNext]_whole PROVE [Addresses!Next]_egress /\ [Policies!Next]_anp
  <2>1. CASE UNCHANGED whole
    BY <2>1 DEF whole
  <2>2. CASE Own /\ UNCHANGED <<egress, anp>>
    BY <2>2
  <2>3. CASE GenerateEgressIPs
    BY <2>3 DEF GenerateEgressIPs
  <2>4. CASE GeneratePolicies
    BY <2>4 DEF GeneratePolicies
  <2> QED
    BY <1>2, <2>1, <2>2, <2>3, <2>4 DEF OcpNext
<1> QED
  BY <1>1, <1>2, PTL DEF OcpSpec

-----------------------------------------------------------------------------
(* The theorems about the routines, carried over to the whole program.  An instance has
   its own copy of every definition: the two of each are the same by expanding both. *)

AddressProofs == INSTANCE EgressIPsProofs
PolicyProofs == INSTANCE AnpDensityProofs

USE DEF None, Address, Cidr, NoCidr, Node, AddressProofs!None, AddressProofs!Address,
        AddressProofs!Cidr, AddressProofs!NoCidr, AddressProofs!Node, Addresses!None,
        Addresses!NoCidr, Addresses!given, Addresses!found, Addresses!tried,
        AddressProofs!given, AddressProofs!found, AddressProofs!tried

LEMMA SameAddressInit == Addresses!Init => AddressProofs!Init
BY DEF Addresses!Init, AddressProofs!Init

LEMMA SameAddressNext == Addresses!Next => AddressProofs!Next
<1>1. Addresses!ListNodes => AddressProofs!ListNodes
  BY DEF Addresses!ListNodes, AddressProofs!ListNodes
<1>2. Addresses!ReadNode => AddressProofs!ReadNode
  BY DEF Addresses!ReadNode, AddressProofs!ReadNode, Addresses!InUse, AddressProofs!InUse
<1>3. Addresses!Convert => AddressProofs!Convert
  BY DEF Addresses!Convert, AddressProofs!Convert, Addresses!FirstUsable, AddressProofs!FirstUsable
<1>4. Addresses!Try => AddressProofs!Try
  BY DEF Addresses!Try, AddressProofs!Try, Addresses!Passes, AddressProofs!Passes, Addresses!Free,
         AddressProofs!Free, Addresses!Candidate, AddressProofs!Candidate, Addresses!Taken, AddressProofs!Taken
<1>5. Addresses!OutOfPasses => AddressProofs!OutOfPasses
  BY DEF Addresses!OutOfPasses, AddressProofs!OutOfPasses, Addresses!Passes, AddressProofs!Passes
<1> QED
  BY <1>1, <1>2, <1>3, <1>4, <1>5 DEF Addresses!Next, AddressProofs!Next

LEMMA SameAddressPromises ==
  /\ AddressProofs!EgressAddresses => EgressAddresses
  /\ AddressProofs!InCidr => InCidr
<1>1. AddressProofs!EgressAddresses => EgressAddresses
  BY DEF EgressAddresses, Addresses!EgressAddresses, AddressProofs!EgressAddresses, Addresses!NoWrap,
         AddressProofs!NoWrap, Addresses!Passes, AddressProofs!Passes, Addresses!Candidate,
         AddressProofs!Candidate, Addresses!Taken, AddressProofs!Taken, Addresses!Used,
         AddressProofs!Used, Addresses!UsedBy, AddressProofs!UsedBy
<1>2. AddressProofs!InCidr => InCidr
  BY DEF InCidr, Addresses!InCidr, AddressProofs!InCidr, Addresses!Passes, AddressProofs!Passes
<1> QED
  BY <1>1, <1>2

LEMMA WholeAddresses == OcpSpec => []AddressProofs!IInv
<1>1. Addresses!Init => AddressProofs!IInv
  BY SameAddressInit, AddressProofs!InitInv, SpaceAssumption, ClustersAssumption
<1>2. AddressProofs!IInv /\ [Addresses!Next]_egress => AddressProofs!IInv'
  <2>1. UNCHANGED egress => UNCHANGED AddressProofs!egress
    BY DEF egress, AddressProofs!egress
  <2>2. [Addresses!Next]_egress => [AddressProofs!Next]_AddressProofs!egress
    BY <2>1, SameAddressNext
  <2> QED
    BY <2>2, AddressProofs!Kept, SpaceAssumption, ClustersAssumption
<1> QED
  BY <1>1, <1>2, WholeRunsRoutines, PTL

\* The egress IPs that the program hands to the launch are as many as wanted, none of them
\* in use, none twice, and none that was free is left out.
THEOREM WholeEgressAddresses == OcpSpec => []EgressAddresses
<1>1. AddressProofs!IInv => EgressAddresses
  BY SameAddressPromises, AddressProofs!Enough, SpaceAssumption, ClustersAssumption
<1> QED
  BY <1>1, WholeAddresses, PTL

\* They lie in the CIDR of the nodes when it has room for all passes of the search.
THEOREM WholeInCidr == OcpSpec => []InCidr
<1>1. AddressProofs!IInv => InCidr
  BY SameAddressPromises, AddressProofs!Within, SpaceAssumption, ClustersAssumption
<1> QED
  BY <1>1, WholeAddresses, PTL

USE DEF IsFiniteSet, PolicyProofs!IsFiniteSet, Policies!Cardinality, PolicyProofs!Cardinality,
        Policies!TenantOf, PolicyProofs!TenantOf, Policies!PriorityOf, PolicyProofs!PriorityOf,
        Policies!PolicyOf, PolicyProofs!PolicyOf, Policies!loop, PolicyProofs!loop,
        Policies!cluster, PolicyProofs!cluster, Policies!Return, PolicyProofs!Return

LEMMA SamePolicyInit == Policies!Init => PolicyProofs!Init
BY DEF Policies!Init, PolicyProofs!Init, Policies!InitAfter, PolicyProofs!InitAfter,
       Policies!LeftBy, PolicyProofs!LeftBy

LEMMA SamePolicyNext == Policies!Next => PolicyProofs!Next
<1>1. Policies!ListNamespaces => PolicyProofs!ListNamespaces
  BY DEF Policies!ListNamespaces, PolicyProofs!ListNamespaces, Policies!Listings, PolicyProofs!Listings
<1>2. Policies!ListPolicies => PolicyProofs!ListPolicies
  BY DEF Policies!ListPolicies, PolicyProofs!ListPolicies
<1>3. Policies!LabelNamespace => PolicyProofs!LabelNamespace
  BY DEF Policies!LabelNamespace, PolicyProofs!LabelNamespace, Policies!NextTenant,
         PolicyProofs!NextTenant, Policies!NextPriority, PolicyProofs!NextPriority, Policies!Boundary,
         PolicyProofs!Boundary, Policies!Wrap, PolicyProofs!Wrap, Policies!Begins, PolicyProofs!Begins
<1>4. Policies!ApplyPolicy => PolicyProofs!ApplyPolicy
  BY DEF Policies!ApplyPolicy, PolicyProofs!ApplyPolicy
<1>5. Policies!Verify => PolicyProofs!Verify
  BY DEF Policies!Verify, PolicyProofs!Verify
<1> QED
  BY <1>1, <1>2, <1>3, <1>4, <1>5 DEF Policies!Next, PolicyProofs!Next

LEMMA WholePolicies == OcpSpec => []PolicyProofs!IInv
<1>1. Policies!Init => PolicyProofs!IInv
  BY SamePolicyInit, PolicyProofs!InitInv, NamespacesAssumption, TenantAssumption
<1>2. PolicyProofs!IInv /\ [Policies!Next]_anp => PolicyProofs!IInv'
  <2>1. UNCHANGED anp => UNCHANGED PolicyProofs!anp
    BY DEF anp, PolicyProofs!anp
  <2>2. [Policies!Next]_anp => [PolicyProofs!Next]_PolicyProofs!anp
    BY <2>1, SamePolicyNext
  <2> QED
    BY <2>2, PolicyProofs!Kept, NamespacesAssumption, TenantAssumption
<1> QED
  BY <1>1, <1>2, WholeRunsRoutines, PTL

\* The namespaces that anp-density-pods is past belong to their tenants, whose policies are
\* there, whatever an earlier run left.
THEOREM WholeTenantsCovered == OcpSpec => []TenantsCovered
<1>1. PolicyProofs!TenantsCovered => TenantsCovered
  BY DEF TenantsCovered, Policies!TenantsCovered, PolicyProofs!TenantsCovered
<1>2. PolicyProofs!IInv => TenantsCovered
  BY <1>1 DEF PolicyProofs!IInv
<1> QED
  BY <1>2, WholePolicies, PTL

\* Two policies share a priority only when LastPriority tenants, or a multiple of it, lie
\* between them.
THEOREM WholePrioritiesApart == OcpSpec => []PrioritiesApart
<1>1. PolicyProofs!PrioritiesApart => PrioritiesApart
  BY DEF PrioritiesApart, Policies!PrioritiesApart, PolicyProofs!PrioritiesApart
<1>2. PolicyProofs!IInv => PrioritiesApart
  BY <1>1, PolicyProofs!Apart, NamespacesAssumption, TenantAssumption
<1> QED
  BY <1>2, WholePolicies, PTL
=============================================================================
