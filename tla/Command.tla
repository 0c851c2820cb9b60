------------------------------ MODULE Command -------------------------------
(***************************************************************************)
(* One invocation of kube-burner-ocp, from the command line to the exit    *)
(* code: the PersistentPreRun of the root command (metadata, health check, *)
(* Prometheus, --set), then PreRun, the validation of required flags,      *)
(* which cobra does after it, Run, and the exit in PostRun.                *)
(*                                                                         *)
(* PreRun and Run are the steps the invocation carries (Steps.tla).  The   *)
(* cluster answers each lookup as it likes.  The benchmark itself, wh.Run  *)
(* of the kube-burner library, succeeds or fails.                          *)
(***************************************************************************)
EXTENDS Integers, Sequences

CONSTANTS
  Invocations,  \* command lines: [name, typed, set, env, profile, required,
                \*   exclusive, config, idle, readable, measures, room, each, pre, run]
  Capacity      \* bound: the cluster has room for this many rounds of a loop

ASSUME CapacityAssumption == Capacity \in Nat

\* PersistentPreRun returns early for these; the last one can still be extracted.
Silent == {"version", "help", "completion"}
Quiet == Silent \cup {"cluster-health"}

Has(steps, op) == \E k \in DOMAIN steps : steps[k].op = op

\* PreRun touches nothing.  A command launches at one place, or scrapes, and those that skip
\* the health check do not launch or clean up.
ASSUME InvocationsAssumption ==
  \A v \in Invocations :
    /\ \A op \in {"launch", "clean", "scrape", "again", "health"} : ~Has(v.pre, op)
    /\ \A j, k \in DOMAIN v.run : v.run[j].op = "launch" /\ v.run[k].op = "launch" => j = k
    /\ Has(v.run, "launch") => ~Has(v.run, "scrape")
    /\ Has(v.run, "launch") \/ Has(v.run, "clean") => v.name \notin Quiet \cup {"index"}
    /\ Has(v.run, "health") => v.name \in Quiet

\* The variables of AdditionalVars that a step sets ...
Names(s) ==
  CASE s.op = "assign" -> s.names
    [] s.op = "put"    -> {s.name}
    [] s.op = "class"  -> {"storageClassName"}
    [] s.op = "grow"   -> {"vmCount"}
    [] OTHER           -> {}

\* ... and those of the environment.
Exports(s) ==
  CASE s.op = "setenv"  -> {s.name}
    [] s.op = "metrics" -> {"METRICS"}
    [] OTHER            -> {}

Prepares(s) == s.op \in {"assign", "put", "class", "grow", "metrics", "setenv", "measure"}

IsSequence(s) == Len(s) \in Nat /\ DOMAIN s = 1..Len(s)

\* PreRun gives no variable a value, Run all of them before the launch.
ASSUME OrderAssumption ==
  \A v \in Invocations :
    /\ IsSequence(v.pre) /\ IsSequence(v.run)
    /\ \A k \in DOMAIN v.pre : ~Prepares(v.pre[k])
    /\ \A j, k \in DOMAIN v.run : v.run[j].op = "launch" /\ Prepares(v.run[k]) => k < j

\* A loop has the launch in its body, and what a round chooses; of the steps of its body,
\* and of those that choose, no later one sets the same variable.
Looped(run) ==
  /\ \A e \in DOMAIN run : run[e].op = "again" =>
       /\ run[e].back \in 1..(e - 1)
       /\ \E j \in (e - run[e].back)..(e - 1) : run[j].op = "launch"
       /\ \A k \in DOMAIN run :
            /\ run[k].op = "again" => k = e
            /\ run[k].op \in {"class", "grow"} => e - run[e].back <= k
            /\ e - run[e].back <= k => \A l \in DOMAIN run : k < l => Names(run[k]) \cap Names(run[l]) = {}
  /\ \A k, l \in DOMAIN run :
       run[k].op \in {"class", "grow"} /\ k < l => Names(run[k]) \cap Names(run[l]) = {}

ASSUME LoopAssumption == \A v \in Invocations : Looped(v.run)

ProfileFiles ==
  {"build-farm-metrics.yml", "cnv-metrics.yml", "etcd-density-metrics.yml", "kueue-metrics.yml",
   "metrics-aggregated.yml", "metrics-egressip.yml", "metrics-report.yml", "metrics.yml"}

\* What the steps carry.
ASSUME StepsAssumption ==
  \A v \in Invocations :
    /\ \A steps \in {v.pre, v.run} : \A k \in DOMAIN steps :
         /\ steps[k].op = "storage" => steps[k].use \in BOOLEAN
         /\ steps[k].op = "put" => steps[k].number \in Int
         /\ steps[k].op = "metrics" => steps[k].profiles \subseteq ProfileFiles
         /\ steps[k].op = "class" => steps[k].classes \in Nat
         /\ steps[k].op = "grow" => steps[k].initial \in Int /\ steps[k].increment \in Int
         /\ steps[k].op = "again" => steps[k].back \in Int /\ steps[k].max \in Int

VARIABLES
  inv,         \* the command line
  pc, at,      \* the stage, and the step of PreRun or Run that is next
  micro,       \* IsMicroShift()
  wrong,       \* what the health check found wrong with the cluster
  prometheus,  \* wh.PrometheusURL: "none", "given" or "found"
  vars,        \* AdditionalVars: who gave a variable its value, and the number it is
  setVars,     \* SetVars: the names given with --set
  environ,     \* the variables of the environment
  metrics,     \* the profiles in METRICS
  registered,  \* measurements handed to wh.SetMeasurements
  snapshot,    \* getStorageAndSnapshotClasses returned a VolumeSnapshotClass
  round,       \* counter of the endless loops
  rc, exit,    \* rc of Run, and the exit code
  launches,    \* history: the launches of the benchmark
  lacking,     \* history: variables they had no value for, or an empty default
  cleaned      \* history: cleanupTestNamespaces was called

stage == <<pc, at>>
cluster == <<micro, wrong, prometheus>>
values == <<vars, setVars, environ, metrics, registered, snapshot>>
history == <<launches, lacking, cleaned>>
all == <<inv, stage, cluster, values, round, rc, exit, history>>

Unchecked == "unchecked"

Init ==
  /\ inv \in Invocations
  /\ pc = "start" /\ at = 1
  /\ micro = FALSE /\ wrong = {Unchecked} /\ prometheus = "none"
  /\ vars = [v \in {} |-> 0] /\ setVars = {} /\ environ = inv.env
  /\ metrics = {} /\ registered = {} /\ snapshot = FALSE
  /\ round = 0 /\ rc = 0 /\ exit = 0
  /\ launches = << >> /\ lacking = {} /\ cleaned = FALSE

Typed(flag) == flag \in inv.typed

\* log.Fatal, os.Exit(1), or an error handed back to cobra, for which main exits with 1.
\* A panic, which exits with 2, is not told apart.
Die == pc' = "exit" /\ exit' = 1 /\ UNCHANGED at

GoTo(place) == pc' = place /\ at' = 1 /\ UNCHANGED exit

\* AdditionalVars after names have got a value, the number n if it is one.
With(names, who, n) ==
  [v \in DOMAIN vars \cup names |-> IF v \in names THEN [by |-> who, n |-> n] ELSE vars[v]]

-----------------------------------------------------------------------------
(* PersistentPreRun *)

Common == {"UUID", "QPS", "BURST", "GC", "GC_METRICS", "LOCAL_INDEXING", "ES_SERVER",
           "ES_INDEX", "ALERTS"}
Apis == {"HAS_IMAGESTREAM_API", "HAS_ROUTE_API"}

\* The quiet commands go straight on; --extract writes the configuration and exits; for
\* the others AdditionalVars starts with what all workloads use.
Begin ==
  /\ pc = "start"
  /\ IF inv.name \in Silent \/ (inv.name \in Quiet /\ ~Typed("extract"))
     THEN GoTo("pre") /\ UNCHANGED vars
     ELSE IF Typed("extract")
          THEN pc' = "exit" /\ exit' \in {0, 1} /\ UNCHANGED <<at, vars>>
          ELSE GoTo("metadata") /\ vars' = With(Common, "program", 0)
  /\ UNCHANGED <<inv, cluster, setVars, environ, metrics, registered, snapshot, round, rc, history>>

\* GatherMetadata, and the two API groups looked up in what it found.
GatherMetadata ==
  /\ pc = "metadata"
  /\ \/ Die /\ UNCHANGED <<micro, vars>>
     \/ /\ GoTo(IF inv.name = "index" THEN "prometheus" ELSE "health")
        /\ micro' \in BOOLEAN
        /\ vars' = With(Apis, "program", 0)
  /\ UNCHANGED <<inv, wrong, prometheus, setVars, environ, metrics, registered, snapshot, round, rc, history>>

\* What ClusterHealthCheck may find wrong: nodes not ready, or, looked at only when they
\* are and never on MicroShift, operators that are unavailable or cannot be listed, and
\* the osd-cluster-ready job.
Troubles(microShift) ==
  {{}, {"nodes"}} \cup
  (IF microShift THEN {} ELSE {{"listing"}} \cup SUBSET {"operators", "job"})

\* Mutant: the nodes are trusted when the cluster is MicroShift.
FindTroubleLeniently(microShift, ignore) ==
  /\ wrong' \in Troubles(microShift)
  /\ "listing" \notin wrong'
  /\ wrong' = {} \/ ignore \/ microShift

\* isClusterHealthy exits when it cannot list the operators, --ignore-health-check or not.
FindTrouble(microShift, ignore) ==
  /\ wrong' \in Troubles(microShift)
  /\ "listing" \notin wrong'
  /\ wrong' = {} \/ ignore

\* ... and the program ends when the cluster is not healthy.
FindFatal(microShift, ignore) ==
  /\ wrong' \in Troubles(microShift)
  /\ wrong' # {} /\ ("listing" \in wrong' \/ ~ignore)

HealthCheck ==
  /\ pc = "health"
  /\ LET ignore == Typed("ignore-health-check") IN
     \/ FindTrouble(micro, ignore) /\ GoTo("prometheus")
     \/ FindFatal(micro, ignore) /\ Die
  /\ UNCHANGED <<inv, micro, prometheus, values, round, rc, history>>

\* Metrics are collected unless every flag that asks for them is off.
Collecting ==
  /\ ~Typed("metrics-endpoint")
  /\ ~Typed("alerting=false") \/ Typed("es-server") \/ Typed("local-indexing") \/ inv.name = "index"

\* The endpoint given, or the cluster's own, which MicroShift does not have.
Prometheus ==
  /\ pc = "prometheus"
  /\ \/ ~Collecting /\ GoTo("set") /\ UNCHANGED prometheus
     \/ Collecting /\ Typed("prometheus-url") /\ GoTo("set") /\ prometheus' = "given"
     \/ Collecting /\ ~Typed("prometheus-url") /\ ~micro /\ GoTo("set") /\ prometheus' = "found"
     \/ Collecting /\ ~Typed("prometheus-url") /\ Die /\ UNCHANGED prometheus
  /\ UNCHANGED <<inv, micro, wrong, values, round, rc, history>>

ParseSetValues ==
  /\ pc = "set"
  /\ IF Typed("malformed --set") THEN Die /\ UNCHANGED setVars
     ELSE GoTo("pre") /\ setVars' = inv.set
  /\ UNCHANGED <<inv, cluster, vars, environ, metrics, registered, snapshot, round, rc, history>>

-----------------------------------------------------------------------------
(* The steps of PreRun and Run *)

Steps == IF pc = "pre" THEN inv.pre ELSE inv.run
Step == Steps[at]
At(op) == pc \in {"pre", "run"} /\ at \in DOMAIN Steps /\ Step.op = op
Advance == at' = at + 1 /\ UNCHANGED <<pc, exit>>

TakeNeed ==
  /\ At("need")
  /\ Advance \/ Die
  /\ UNCHANGED <<inv, cluster, values, round, rc, history>>

TakeRequire ==
  /\ At("require")
  /\ IF Step.holds THEN Advance ELSE Die
  /\ UNCHANGED <<inv, cluster, values, round, rc, history>>

\* getStorageAndSnapshotClasses: unless --use-snapshot was typed, the StorageProfile of
\* the class says whether a snapshot class is looked up ...
SnapshotWanted(use, changed) == IF changed THEN {use} ELSE BOOLEAN

\* ... and any lookup may fail.
TakeStorage ==
  /\ At("storage")
  /\ \/ Advance /\ snapshot' \in SnapshotWanted(Step.use, Step.changed)
     \/ Die /\ UNCHANGED snapshot
  /\ UNCHANGED <<inv, cluster, vars, setVars, environ, metrics, registered, round, rc, history>>

TakeAssign ==
  /\ \/ At("assign") /\ vars' = With(Step.names, "program", 0)
     \/ At("put") /\ vars' = With({Step.name}, "program", Step.number)
  /\ Advance
  /\ UNCHANGED <<inv, cluster, setVars, environ, metrics, registered, snapshot, round, rc, history>>

\* setMetrics: both profiles unless told otherwise, only the regular ones on MicroShift.
Profiles(regular) ==
  LET type == IF micro /\ ~Typed("profile-type") THEN "regular" ELSE inv.profile
  IN CASE type = "reporting" -> {"metrics-report.yml"}
       [] type = "both"      -> regular \cup {"metrics-report.yml"}
       [] OTHER              -> regular

TakeEnvironment ==
  /\ \/ At("metrics") /\ metrics' = Profiles(Step.profiles) /\ environ' = environ \cup {"METRICS"}
     \/ At("setenv") /\ environ' = environ \cup {Step.name} /\ UNCHANGED metrics
  /\ Advance
  /\ UNCHANGED <<inv, cluster, vars, setVars, registered, snapshot, round, rc, history>>

TakeMeasure ==
  /\ At("measure")
  /\ registered' = registered \cup {Step.what}
  /\ Advance
  /\ UNCHANGED <<inv, cluster, vars, setVars, environ, metrics, snapshot, round, rc, history>>

\* counter % len(storageClasses) panics for the empty list of --storage-class "".
TakeRound ==
  /\ \/ /\ At("class") /\ Step.classes # 0
        /\ vars' = With({"storageClassName"}, "program", (round % Step.classes) + 1)
        /\ Advance
     \/ At("class") /\ Step.classes = 0 /\ Die /\ UNCHANGED vars
     \/ At("grow") /\ vars' = With({"vmCount"}, "program", Step.initial + round * Step.increment) /\ Advance
  /\ UNCHANGED <<inv, cluster, setVars, environ, metrics, registered, snapshot, round, rc, history>>

\* Mutant: a name given with --set is given its default all the same.
MovedNone(missing) == {}

\* Of the variables that a configuration on disk refers to and that AdditionalVars lacks,
\* defaultUndefinedTemplateVars takes those given with --set out of SetVars ...
Moved(missing) == IF inv.readable THEN missing \cap setVars ELSE {}

\* ... and gives an empty default to the ones the environment does not have either.
Blank(missing) == IF inv.readable THEN missing \ (setVars \cup environ) ELSE {}

Number(name) == IF name \in DOMAIN vars THEN vars[name].n ELSE 0

\* RunWorkload.  The configuration cannot be rendered when it uses a variable without a
\* value, and the cluster is full in the end.  rc is what wh.Run returns.
Launch ==
  /\ At("launch")
  /\ LET missing == inv.config \ DOMAIN vars
         moved   == Moved(missing)
         blank   == Blank(missing)
         unset   == missing \ (moved \cup blank \cup environ)
     IN /\ vars' = [v \in DOMAIN vars \cup moved \cup blank |->
                     IF v \in DOMAIN vars THEN vars[v]
                     ELSE [by |-> IF v \in moved THEN "user" ELSE "default", n |-> 0]]
        /\ setVars' = setVars \ moved
        /\ lacking' = (lacking \cup blank \cup unset) \ inv.idle
        /\ \E ok \in BOOLEAN :
             /\ ok => unset \subseteq inv.idle /\ Len(launches) < Capacity
             /\ launches' = Append(launches, [ok |-> ok, class |-> Number("storageClassName"),
                                              vms |-> Number("vmCount")])
             /\ rc' = IF ok THEN 0 ELSE 1
  /\ Advance
  /\ UNCHANGED <<inv, cluster, environ, metrics, registered, snapshot, round, cleaned>>

\* Mutant: the last round is not counted.
EnoughTooLate(max) == max > 0 /\ round >= max

\* counter += 1, and whether that makes maxIterations.
Enough(max) == max > 0 /\ round + 1 >= max

\* Mutant: a failed launch does not end the loop.
KeepOn == TRUE

Succeeded == rc = 0

TakeAgain ==
  /\ At("again")
  /\ UNCHANGED <<pc, exit>>
  /\ IF Succeeded
     THEN round' = round + 1 /\ at' = IF Enough(Step.max) THEN at + 1 ELSE at - Step.back
     ELSE at' = at + 1 /\ UNCHANGED round
  /\ UNCHANGED <<inv, cluster, values, rc, history>>

\* The scrapes of index: one that fails makes rc 1, the others are done all the same.
TakeScrape ==
  /\ At("scrape")
  /\ rc' \in {rc, 1}
  /\ Advance
  /\ UNCHANGED <<inv, cluster, values, round, history>>

\* cleanupTestNamespaces (Cleanup.tla) returns, or ends the program, or polls for ever.
TakeClean ==
  /\ At("clean")
  /\ cleaned' = TRUE
  /\ \/ Advance
     \/ Die
     \/ pc' = "polling" /\ UNCHANGED <<at, exit>>
  /\ UNCHANGED <<inv, cluster, values, round, rc, launches, lacking>>

\* A routine with a module of its own returns, or it ends the program.
CallReturns ==
  /\ At("call") /\ Advance
  /\ UNCHANGED <<inv, cluster, values, round, rc, history>>

CallDies ==
  /\ At("call") /\ Die
  /\ UNCHANGED <<inv, cluster, values, round, rc, history>>

\* ClusterHealthCheck(false, detectMicroShift()), where a failure to find out means no.
TakeHealth ==
  /\ At("health")
  /\ \E microShift \in BOOLEAN :
       /\ micro' = microShift
       /\ \/ FindTrouble(microShift, FALSE) /\ Advance
          \/ FindFatal(microShift, FALSE) /\ Die
  /\ UNCHANGED <<inv, prometheus, values, round, rc, history>>

AtEnd(place) == pc = place /\ at \notin DOMAIN Steps

\* Mutant: the required flags are looked at no more.
FlagsTrusted == TRUE

\* ValidateRequiredFlags and ValidateFlagGroups, which cobra calls between PreRun and Run.
FlagsValid ==
  /\ inv.required \subseteq inv.typed
  /\ \A a, b \in inv.exclusive : Typed(a) /\ Typed(b) => a = b
  /\ Typed("es-server") <=> Typed("es-index")
  /\ ~(Typed("es-server") /\ Typed("metrics-endpoint"))

EndOfPreRun ==
  /\ AtEnd("pre")
  /\ IF FlagsValid THEN GoTo("run") ELSE Die
  /\ UNCHANGED <<inv, cluster, values, round, rc, history>>

\* Mutant: PostRun is left out.
ExitCodeLost == 0

\* os.Exit(rc) in PostRun.
ExitCode == rc

EndOfRun ==
  /\ AtEnd("run")
  /\ pc' = "exit" /\ exit' = ExitCode
  /\ UNCHANGED <<inv, at, cluster, values, round, rc, history>>

Exited == pc \in {"exit", "polling"} /\ UNCHANGED all

\* What the command does by itself, without the routines of other modules.
Own ==
  \/ Begin \/ GatherMetadata \/ HealthCheck \/ Prometheus \/ ParseSetValues
  \/ TakeNeed \/ TakeRequire \/ TakeStorage \/ TakeAssign \/ TakeEnvironment \/ TakeMeasure
  \/ TakeRound \/ Launch \/ TakeAgain \/ TakeScrape \/ TakeClean \/ TakeHealth
  \/ EndOfPreRun \/ EndOfRun \/ Exited

Next == Own \/ CallReturns \/ CallDies

\* A process that runs on; wh.Run has a timeout of its own.
Spec == Init /\ [][Next]_all /\ WF_all(Next)

-----------------------------------------------------------------------------
(* Properties *)

Touched == launches # << >> \/ cleaned

\* Unless told to ignore it, no command changes a cluster that was not found healthy.
HealthyCluster == Touched /\ ~Typed("ignore-health-check") => wrong = {}

\* PreRun runs before the required flags are validated, but nothing that touches the
\* cluster does.
FlagsFirst == Touched =>
  /\ inv.required \subseteq inv.typed
  /\ \A a, b \in inv.exclusive : Typed(a) /\ Typed(b) => a = b

\* Only the last launch of a command can have failed, and the exit code says whether it did.
ExitTells ==
  /\ \A k \in DOMAIN launches : k < Len(launches) => launches[k].ok
  /\ pc = "exit" /\ exit = 0 => \A k \in DOMAIN launches : launches[k].ok

\* What the steps of Run supply.
Supplied(run) == UNION {Names(run[k]) \cup Exports(run[k]) : k \in DOMAIN run}

\* evpn.yml hands the address of the web server to the script that sets up the external VRF,
\* in every scenario; Run has it in the north-south ones only.
Unserved(v) ==
  IF v.name = "evpn" /\ "create-ext-frr-vrf" \in v.typed
  THEN {"EXTERNAL_WEBSERVER_IP"} \ Supplied(v.run)
  ELSE {}

\* Whatever the flags, a built-in configuration gets a value for every variable that it
\* uses, but for the web server of an east-west evpn with --create-ext-frr-vrf; it gets
\* profiles that exist, and the measurements of its own that it names.
ConfigServed ==
  launches # << >> =>
    /\ inv.name # "init" => lacking \subseteq Unserved(inv)
    /\ "METRICS" \in environ /\ metrics \subseteq ProfileFiles
    /\ inv.measures \subseteq registered

\* A --set value is the value of the variable, however many rounds a loop has made, or it
\* is still to override the configuration, which has got another value for the variable.
SetValuesUsed ==
  launches # << >> =>
    \A v \in inv.set :
      \/ v \in DOMAIN vars /\ vars[v].by = "user"
      \/ v \in setVars /\ (inv.readable /\ v \in inv.config => v \in DOMAIN vars)

\* The endless loops take the storage classes in turn, add as many VMs a round as they
\* were told to, and end well after maxIterations rounds only, unless they only extract.
LoopsFully ==
  \A s \in DOMAIN inv.run :
    /\ \A k \in DOMAIN launches :
         /\ inv.run[s].op = "class" => launches[k].class = ((k - 1) % inv.run[s].classes) + 1
         /\ inv.run[s].op = "grow" => launches[k].vms = inv.run[s].initial + (k - 1) * inv.run[s].increment
    /\ inv.run[s].op = "again" =>
         /\ inv.run[s].max > 0 => Len(launches) <= inv.run[s].max
         /\ pc = "exit" /\ exit = 0 /\ ~Typed("extract") =>
              inv.run[s].max > 0 /\ Len(launches) = inv.run[s].max

\* cudn.yml of udn-bgp counts the first octet of a CIDR from 40 up, 255 CIDRs each: none
\* goes past 255, and every CUDN gets the same number of namespaces.
OctetsFit(iterations, perCudn, cidrs) ==
  LET cudns == iterations \div perCudn IN
  iterations = cudns * perCudn /\ 40 + (cudns * cidrs - 1) \div 255 <= 255

\* udn-bgp launches with numbers that its template has CIDRs for.
SubnetsFit ==
  launches # << >> /\ inv.name = "udn-bgp" =>
    OctetsFit(Number("JOB_ITERATIONS"), Number("NAMESPACES_PER_CUDN"), Number("CIDRS_PER_CUDN"))

RoomFits(v, iterations, vms) ==
  v.room # 0 /\ iterations > 0 /\ vms >= 0 => iterations * (v.each + vms) <= v.room

\* What the densities add fits into the room their cluster has left, when there is any.
RoomKept == launches # << >> => RoomFits(inv, Number("JOB_ITERATIONS"), Number("VMS_PER_ITERATION"))

\* Every invocation comes to an end, or waits in its clean-up: CleanupEnds of Cleanup.tla
\* says for what.  No lookup, launch, loop with a limit, scrape or routine keeps it.
CommandExits == <>(pc \in {"exit", "polling"})

-----------------------------------------------------------------------------
(* The inductive invariant *)

Launched == [ok : BOOLEAN, class : Int, vms : Int]

TypeOK ==
  /\ pc \in {"start", "metadata", "health", "prometheus", "set", "pre", "run", "exit", "polling"}
  /\ at \in Int /\ round \in Nat
  /\ micro \in BOOLEAN /\ snapshot \in BOOLEAN
  /\ prometheus \in {"none", "given", "found"}
  /\ \A v \in DOMAIN vars : vars[v].n \in Int
  /\ rc \in {0, 1} /\ exit \in {0, 1}
  /\ launches \in Seq(Launched) /\ cleaned \in BOOLEAN

\* Past the health check the cluster was healthy, if anybody cares.
Checked ==
  pc \in {"prometheus", "set", "pre", "run"} /\ inv.name \notin Quiet \cup {"index"}
    /\ ~Typed("ignore-health-check") => wrong = {}

\* Only Run touches the cluster, the command line being valid.
InRun == /\ pc = "run" => FlagsValid
         /\ Touched => pc \in {"run", "exit", "polling"} /\ FlagsValid
         /\ launches # << >> => Has(inv.run, "launch")
         /\ cleaned => Has(inv.run, "clean")

\* rc is 0 as long as every launch went well; after one that did not, none is to come.
Failed ==
  /\ rc = 0 => \A k \in DOMAIN launches : launches[k].ok
  /\ pc \notin {"run", "exit", "polling"} => rc = 0
  /\ rc # 0 /\ pc = "run" => \A k \in DOMAIN inv.run : k >= at => inv.run[k].op # "launch"

\* Behind HealthyCluster, FlagsFirst and ExitTells.
Guarded == TypeOK /\ HealthyCluster /\ Checked /\ InRun /\ Failed /\ ExitTells

Passes(pre) == \A k \in DOMAIN pre : pre[k].op = "require" => pre[k].holds

\* A Put that no other step overrides makes the number of its variable; one without a
\* number counts as zero.
LastPut(run, j) ==
  run[j].op = "put" /\ \A k \in DOMAIN run : j < k /\ run[j].name \in Names(run[k]) => run[k] = run[j]
Numbered(run, name) == \E k \in DOMAIN run : run[k].op \in {"put", "class", "grow"} /\ name \in Names(run[k])

Launches(j) == inv.run[j].op = "launch"
Loops(e) == inv.run[e].op = "again"

\* A step of Run that has been taken, be it in an earlier round; with a launch all those
\* before it have.
Done(j) == launches # << >> \/ (pc = "run" /\ j < at)

\* Where PreRun and Run are, having met the conditions on the way; a launch is ahead again
\* in the body of a loop only.
OnTheWay ==
  /\ pc = "pre" => at \in 1..(Len(inv.pre) + 1)
  /\ pc = "run" => at \in 1..(Len(inv.run) + 1)
  /\ pc = "pre" => \A k \in 1..(at - 1) : inv.pre[k].op = "require" => inv.pre[k].holds
  /\ pc = "run" \/ launches # << >> => Passes(inv.pre)
  /\ pc = "run" /\ launches # << >> => \A j \in DOMAIN inv.run : Launches(j) /\ at <= j =>
       \E e \in DOMAIN inv.run : Loops(e) /\ e - inv.run[e].back <= at

\* What the steps taken have set is there.
Given ==
  /\ pc = "metadata" => Common \subseteq DOMAIN vars
  /\ (pc \in {"health", "prometheus", "set", "pre", "run"} /\ inv.name \notin Quiet) \/ launches # << >> =>
       Common \cup Apis \subseteq DOMAIN vars
  /\ \A j \in DOMAIN inv.run : Prepares(inv.run[j]) /\ Done(j) =>
       /\ Names(inv.run[j]) \subseteq DOMAIN vars /\ Exports(inv.run[j]) \subseteq environ
       /\ inv.run[j].op = "measure" => inv.run[j].what \in registered
  /\ metrics \subseteq ProfileFiles
  /\ lacking \cap (inv.idle \cup Common \cup Apis \cup Supplied(inv.run)) = {} /\ lacking \subseteq inv.config

\* What is set with --set waits for the first launch; what that takes no step ever sets.
Taken ==
  /\ pc \in {"pre", "run"} /\ inv.name \notin Quiet /\ launches = << >> => setVars = inv.set
  /\ \A v \in DOMAIN vars : vars[v].by = "user" =>
       launches # << >> /\ \A k \in DOMAIN inv.run : v \notin Names(inv.run[k])

\* The launch finds the numbers that Run puts.
Numbers ==
  /\ \A j \in DOMAIN inv.run : LastPut(inv.run, j) /\ Done(j) => Number(inv.run[j].name) = inv.run[j].number
  /\ \A v \in DOMAIN vars : ~Numbered(inv.run, v) => vars[v].n = 0

\* The rounds are counted after the launch; what the step of a round chose lasts until then.
Rounds ==
  /\ pc \notin {"run", "exit", "polling"} => round = 0
  /\ pc = "run" =>
       /\ \A j \in DOMAIN inv.run : Launches(j) /\ at <= j =>
            /\ Len(launches) = round
            /\ \A c \in 1..(at - 1) :
                 /\ inv.run[c].op = "class" => Number("storageClassName") = (round % inv.run[c].classes) + 1
                 /\ inv.run[c].op = "grow" => Number("vmCount") = inv.run[c].initial + round * inv.run[c].increment
       /\ \A e \in DOMAIN inv.run : Loops(e) =>
            /\ at <= e /\ inv.run[e].max > 0 => round < inv.run[e].max
            /\ \A j \in DOMAIN inv.run : Launches(j) /\ j < at /\ at <= e => Len(launches) = round + 1
            /\ e < at /\ rc = 0 => inv.run[e].max > 0 /\ Len(launches) = inv.run[e].max

\* Behind SetValuesUsed, LoopsFully and the properties of the configurations.
Prepared == OnTheWay /\ Given /\ Taken /\ SetValuesUsed /\ Numbers /\ Rounds /\ LoopsFully

IInv == Guarded /\ Prepared
=============================================================================
