----------------------------- MODULE Workloads ------------------------------
(***************************************************************************)
(* The workload commands: what PreRun and Run of each do, in the order of  *)
(* the code, as a function of the flags that decide what they do.  `typed' *)
(* is the set of the flags on the command line; numbers are the values of  *)
(* flags and what the cluster counts.  A step that dies ends the command.  *)
(***************************************************************************)
EXTENDS Steps

Plain(name, run) ==
  [name |-> name, required |-> {}, exclusive |-> {}, room |-> 0, each |-> 1,
   pre |-> << >>, run |-> run]

Requiring(command, flags) == [command EXCEPT !.required = flags]

\* What there is room for, and what one iteration puts there.
Filling(command, room, each) == [command EXCEPT !.room = room, !.each = each]

\* Names that many commands assign together.
Churn == {"CHURN_CYCLES", "CHURN_DURATION", "CHURN_DELAY", "CHURN_PERCENT"}
Churned == Churn \cup {"CHURN_MODE", "DELETION_STRATEGY"}
Pprof == {"PPROF", "PPROF_INTERVAL"}
Vm == {"VM_IMAGE", "VM_CPU", "VM_MEMORY"}
Keys == {"privateKey", "publicKey"}
Ready == {"POD_READY_THRESHOLD"}

Regular == Metrics({"metrics.yml"})
Aggregated == Metrics({"metrics-aggregated.yml"})
IngressDomain == Need("default ingress domain")

\* Mutant: division rounds up.
QuotientUp(a, b) == (a + b - 1) \div b

\* Go divides towards zero.
Magnitude(a) == IF a >= 0 THEN a ELSE -a
Quotient(a, b) ==
  LET q == Magnitude(a) \div Magnitude(b) IN IF a >= 0 <=> b > 0 THEN q ELSE -q

-----------------------------------------------------------------------------
(* Pods, jobs and builds *)

BerserkerLoad ==
  Plain("berserker-load",
    <<Assign(Churned \cup Ready \cup {"JOB_ITERATIONS", "JOB_PAUSE", "MAX_WAIT_TIMEOUT",
                                      "DAEMONSET_REPLICAS", "SERVICE_REPLICAS"}),
      Regular, Launch>>)

BuildController ==
  {"NUM_CONTROLLERS", "NUM_THREADS", "ENABLE_JOB_WATCHER", "ENABLE_POD_WATCHER", "ENABLE_JOBS_LISTING",
   "ENABLE_SECRETS_LISTING", "WATCHER_RESTART_INTERVAL", "SLEEP_BEFORE_RESTART", "SECRETS_LIST_INTERVAL",
   "JOBS_LIST_INTERVAL", "NAMESPACE_FILTER_REGEX"}
BuildJob ==
  {"METADATA_ITERATIONS", "METADATA_ITERATIONS_DELAY", "NUM_WATCHERS", "BUILD_IMAGE", "BUILD_PLATFORM",
   "TARGET_IMAGE"}

\* Its own --qps and --burst replace those of the root command.
BuildFarm(small) ==
  Plain("build-farm",
    <<Require(small \in 0..100),
      Assign(Churn \cup BuildController \cup BuildJob \cup
             {"JOB_ITERATIONS", "ITERATIONS_PER_NAMESPACE", "NAMESPACED_ITERATIONS", "QPS", "BURST", "PPROF",
              "DELETION_STRATEGY"}),
      Put("SMALL_JOB_PERCENT", small), Put("LARGE_JOB_PERCENT", 100 - small),
      Metrics({"build-farm-metrics.yml", "metrics.yml"}), Launch>>)

NeedsIngressDomain(variant) == variant # "cluster-density-ms"

\* Without --iterations there is one iteration for each node the selector picks.
ClusterDensity(variant, typed, iterations, nodes) ==
  LET auto == "iterations" \notin typed IN
  Plain(variant,
    When(variant = "cluster-density-v2", <<Need("image registry")>>)
    \o <<Need("selector")>>
    \o When(auto, <<Need("nodes"), Require(nodes > 0)>>)
    \o <<Regular>>
    \o When(NeedsIngressDomain(variant), <<IngressDomain>>)
    \o <<Put("JOB_ITERATIONS", IF auto THEN nodes ELSE iterations),
         Assign(Churned \cup Pprof \cup Ready \cup {"NODE_SELECTOR", "SVC_LATENCY", "INGRESS_DOMAIN"}),
         Launch>>)

CrdScale ==
  Requiring(Plain("crd-scale", <<Aggregated, Assign({"JOB_ITERATIONS"}), Launch>>), {"iterations"})

\* init: setIfFlagChanged, only the flags that were typed become variables.  Such a flag
\* is named by its variable here.
Optional ==
  Churned \cup Pprof \cup Ready \cup
  {"ITERATIONS_PER_NAMESPACE", "NAMESPACED_ITERATIONS", "SELECTOR", "SVC_LATENCY"}

CustomWorkload(typed, iterations, podsPerNode, workers, pods) ==
  LET perNode == "pods-per-node" \in typed /\ podsPerNode > 0
      given   == IF "iterations" \in typed /\ iterations > 0 THEN iterations ELSE 0
      free    == workers * podsPerNode - pods
  IN Filling(
       [Plain("init",
          <<Need("configuration file"), IngressDomain>>
          \o When(perNode, <<Need("pod count")>>)
          \o <<Assign({"INGRESS_DOMAIN"})>>
          \o When(typed \cap {"iterations", "pods-per-node"} # {},
                  <<Put("JOB_ITERATIONS", IF perNode THEN Quotient(free, 2) ELSE given)>>)
          \o <<Assign(typed \cap Optional), Regular, Launch>>)
        EXCEPT !.required = {"config"}, !.exclusive = {"iterations", "pods-per-node"}],
       IF perNode THEN free ELSE 0, 2)

EtcdMetrics == Metrics({"etcd-density-metrics.yml", "metrics.yml"})

EventStorm ==
  Plain("event-storm",
    <<EtcdMetrics,
      Assign(Ready \cup {"JOB_ITERATIONS", "DELETION_STRATEGY", "EVENT_ITERATIONS", "EVENT_REPLICAS",
                         "STORM_WORKERS", "STORM_DELAY", "POD_REPLICAS"}),
      Launch>>)

CrashloopFlood ==
  Plain("crashloop-flood",
    <<EtcdMetrics,
      Assign(Ready \cup {"JOB_ITERATIONS", "DELETION_STRATEGY", "CRASHLOOP_REPLICAS", "SOAK_DURATION"}),
      Launch>>)

DBQuotaPressure ==
  Plain("db-quota-pressure",
    <<EtcdMetrics, Assign({"JOB_ITERATIONS", "ITERATIONS_PER_NAMESPACE", "KB_CHUNKS", "KB_SIZE"}), Launch>>)

AnnotationChurn ==
  Plain("annotation-churn",
    <<EtcdMetrics, Assign({"JOB_ITERATIONS", "DELETION_STRATEGY", "PATCH_REPLICAS", "PATCH_ROUNDS"}), Launch>>)

\* Its own --qps and --burst replace those of the root command.  The quota of the shared
\* variant is three quarters of the pods, so that its queues have to share.
KueueOperator(variant, jobReplicas, parallelism) ==
  LET pods == jobReplicas * parallelism IN
  Plain(variant,
    <<Put("PODS_QUOTA", IF variant = "kueue-operator-jobs-shared" THEN Quotient(3 * pods, 4) ELSE pods),
      Assign({"JOB_REPLICAS", "POD_REPLICAS", "PARALLELISM", "ITERATIONS", "WORKLOAD_RUNTIME", "QPS", "BURST"}),
      Metrics({"kueue-metrics.yml"}), Launch>>)

\* A pod for node-density, two for the other variants, as long as nodes hold any.
NodeDensity(variant, nodes, podsPerNode, pods) ==
  LET free == nodes * podsPerNode - pods
      each == IF variant = "node-density" THEN 1 ELSE 2
  IN Filling(
       Plain(variant,
         <<Need("nodes"), Require(nodes > 0), Need("pod count"), Need("selector"),
           Assign(Churned \cup Pprof \cup Ready \cup
                  {"PROBES_PERIOD", "CONTAINER_IMAGE", "SVC_LATENCY", "NAMESPACED_ITERATIONS",
                   "ITERATIONS_PER_NAMESPACE", "PERF_PROFILE", "NUM_SRIOVS", "SRIOV_NETWORK_NAME", "NODE_SELECTOR"}),
           Put("JOB_ITERATIONS", Quotient(free, each)), Regular, Launch>>),
       free, each)

NodeScale ==
  Plain("node-scale",
    <<Assign(Churned \cup Ready \cup {"JOB_ITERATIONS", "PROBES_PERIOD", "CPU", "MEMORY", "TAG", "MAX_PODS"}),
      Regular, Launch>>)

OLMv1 ==
  Requiring(
    Plain("olm",
      <<Need("OLMv1"), Aggregated,
        Assign(Churned \cup Pprof \cup
               {"JOB_ITERATIONS", "CATALOG_IMAGE", "NAMESPACED_ITERATIONS", "ITERATIONS_PER_NAMESPACE",
                "NAMESPACE", "PREFIX_PKG_NAME_V1", "PREFIX_IMG_NAME"}),
        Launch>>),
    {"iterations"})

PVCDensity ==
  Plain("pvc-density",
    <<Assign({"JOB_ITERATIONS", "CONTAINER_IMAGE", "CLAIM_SIZE", "STORAGE_CLASS_NAME"}), Regular, Launch>>)

RDSCore ==
  Plain("rds-core",
    <<Regular, IngressDomain,
      Assign(Churned \cup Ready \cup
             {"DPDK_CORES", "DPDK_HUGEPAGES", "SRIOV_DPDK_DEVICEPOOL", "SRIOV_NET_DEVICEPOOL", "JOB_ITERATIONS",
              "PERF_PROFILE", "SVC_LATENCY", "IDLE_DURATION", "INGRESS_DOMAIN", "PHASED", "DPDK_WORKER_LABEL"}),
      Launch>>)

WebBurner(variant) ==
  Plain(variant,
    <<Regular,
      Assign(Ready \cup {"BFD", "BRIDGE", "CRD", "ICNI", "LIMITCOUNT", "PROBE", "SCALE", "SRIOV"}), Launch>>)

Whereabouts ==
  Plain("whereabouts", <<Assign(Ready \cup {"JOB_ITERATIONS", "CONTAINER_IMAGE", "FAST"}), Aggregated, Launch>>)

-----------------------------------------------------------------------------
(* Networking *)

\* PreRun refuses an unknown scenario and a north-south one without its web server.
EVPN(scenario, webserver, skipReachability) ==
  LET north == scenario \in {"north-south", "north-south-l3"} IN
  [Plain("evpn",
     <<Regular, Assign(Ready \cup {"JOB_ITERATIONS", "NAMESPACES_PER_CUDN", "SCENARIO"})>>
     \o When(north, <<Assign({"EXTERNAL_WEBSERVER_IP", "EXTERNAL_WEBSERVER_PORT"})>>)
     \o <<Assign({"CREATE_EXT_FRR_VRF", "L3VNI_START"}), Launch>>)
   EXCEPT !.pre =
     <<Require(scenario \in {"east-west", "north-south", "north-south-l3"})>>
     \o When(north, <<Require(webserver)>>)
     \o When(north /\ ~skipReachability, <<Need("external webserver")>>)]

NetworkPolicy(exceptRules, latency) ==
  [Plain("network-policy",
     <<Aggregated,
       Assign({"JOB_ITERATIONS", "PODS_PER_NAMESPACE", "NETPOLS_PER_NAMESPACE", "LOCAL_PODS", "POD_SELECTORS",
               "SINGLE_PORTS", "PORT_RANGES", "REMOTE_NAMESPACES", "REMOTE_PODS", "CIDRS", "EXCEPT_RULES",
               "NETPOL_LATENCY", "NETPOL_READY_THRESHOLD"}),
       Launch>>)
   EXCEPT !.pre = <<Require(~(exceptRules > 0 /\ latency))>>]

\* Mutant: the number of CIDRs is not limited.
MaxCidrsNone == 200000

MaxCidrs == 55080

\* The required flags are validated after these conditions.  Dividing by zero is a panic.
UdnBgp(iterations, namespacesPerCudn, cidrsPerCudn) ==
  [Plain("udn-bgp",
     <<Regular, Put("JOB_ITERATIONS", iterations), Put("NAMESPACES_PER_CUDN", namespacesPerCudn),
       Put("CIDRS_PER_CUDN", cidrsPerCudn), Assign({"ENABLE_VM", "LAYER2"}), Measure("raLatency"), Launch>>)
   EXCEPT !.required = {"iterations", "frr-external-ip"},
          !.pre =
            <<Require(cidrsPerCudn >= 1), Require(namespacesPerCudn # 0)>>
            \o When(namespacesPerCudn # 0,
                    <<Require(iterations % namespacesPerCudn = 0),
                      Require((iterations \div namespacesPerCudn) * cidrsPerCudn <= MaxCidrs)>>)
            \o <<Need("FRR router")>>]

\* cudn-density-pods takes its configuration from the directory of udn-density-pods.
UDNDensityPods(variant) ==
  Requiring(
    Plain(variant,
      <<Regular,
        Assign(Churned \cup Pprof \cup Ready \cup {"SIMPLE", "JOB_ITERATIONS", "ENABLE_LAYER_3"}), Launch>>),
    {"iterations"})

\* The conditions on an incremental load; k = [iterations, perCudn, cudnsPerRA, mode, step,
\* pattern, base, churn], the base in tenths.
IncrementalConditions(k) ==
  <<Require(k.step <= k.iterations), Require(k.pattern \in {"linear", "exponential"}),
    Require(k.step % k.perCudn = 0), Require(k.pattern = "exponential" => k.base > 10), Require(~k.churn)>>

CudnDensity(k, gatewayCheck) ==
  [Plain("cudn-density",
     <<Regular, Assign(Pprof \cup Churned \cup Ready \cup {"JOB_PAUSE"}),
       Put("JOB_ITERATIONS", k.iterations), Put("NAMESPACES_PER_CUDN", k.perCudn),
       Assign({"CUDNS_PER_RA", "ENABLE_LAYER_3", "INCREMENTAL_STEP_SIZE", "INCREMENTAL_STEP_DELAY",
               "INCREMENTAL_PATTERN", "INCREMENTAL_EXP_BASE", "GATEWAY_CHECK", "BGP",
               "OCPBUGS_85627_WORKAROUND"})>>
     \o When(gatewayCheck, <<Need("gateway of a worker"), Assign({"NODE_GW_MAP"})>>)
     \o <<Measure("cudnLatency"), Launch>>)
   EXCEPT !.required = {"iterations"},
          !.pre = <<Require(k.perCudn >= 1), Require(k.cudnsPerRA >= 1),
                    Require(~(k.cudnsPerRA > 1 /\ k.perCudn > 1))>>
                  \* the modulus is looked at once it is known to be positive
                  \o When(k.perCudn >= 1, <<Require(k.iterations % k.perCudn = 0)>>)
                  \o <<Require(k.mode \in {"objects", "namespaces"}), Require(k.step >= 0)>>
                  \o When(k.step > 0 /\ k.perCudn >= 1, IncrementalConditions(k))]

\* The list of addresses is generated by EgressIPs.tla.
EgressIP ==
  Requiring(
    Plain("egressip",
      <<Metrics({"metrics-egressip.yml"}), Call("addresses"),
        Assign(Ready \cup {"JOB_ITERATIONS", "ADDRESSES_PER_ITERATION", "EXTERNAL_SERVER_IP", "EIP_ADDRESSES"}),
        Launch>>),
    {"iterations", "external-server-ip"})

\* The policies are generated by AnpDensity.tla, after the launch and whatever its result.
ANPDensityPods ==
  Requiring(
    Plain("anp-density-pods",
      <<Regular, Assign(Pprof \cup Churn \cup Ready \cup {"SIMPLE", "JOB_ITERATIONS", "SVC_LATENCY"}), Launch,
        Call("policies")>>),
    {"iterations"})

-----------------------------------------------------------------------------
(* Virtual machines.  With --cleanup they look at nothing and clean up. *)

Cleanable(cleanup, command) ==
  IF cleanup THEN [command EXCEPT !.pre = << >>, !.run = <<Clean>>, !.room = 0] ELSE command

SSHKeys == Need("SSH key pair")

VirtDensity(cleanup, workers, vmsPerNode, vms) ==
  LET free == workers * vmsPerNode - vms IN
  Cleanable(cleanup,
    Filling(
      Plain("virt-density",
        <<Need("VMI count"), Put("JOB_ITERATIONS", free),
          Assign(Churned \cup Vm \cup {"VMI_RUNNING_THRESHOLD", "NAMESPACED_ITERATIONS",
                                       "ITERATIONS_PER_NAMESPACE", "MOUNTS"}),
          Regular, Launch>>),
      free, 1))

\* One server VM a UDN and the clients; a negative number of clients is passed on.  Dividing
\* by zero is a panic.
VirtUDNDensity(variant, cleanup, binding, workers, vmsPerNode, iterations) ==
  LET total == workers * vmsPerNode
      perUdn == IF iterations = 0 THEN 0 ELSE Quotient(total, iterations) - 1
  IN Cleanable(cleanup,
       Filling(
         Plain(variant,
           <<Require(binding \in {"passt", "l2bridge"}), Regular, Require(iterations # 0)>>
           \o When(perUdn < 1, <<Put("VMS_PER_ITERATION", 0)>>)
           \o <<Assign(Churned \cup Vm \cup Pprof \cup
                      {"VMI_RUNNING_THRESHOLD", "UDN_BINDING_METHOD", "ENABLE_LAYER_3"}),
                Put("JOB_ITERATIONS", iterations), Put("VMS_PER_ITERATION", perUdn), Launch>>),
         total, 1))

\* accessModeTranslator has no other key.
AccessMode(mode) == mode \in {"RO", "RWO", "RWX"}

DVClone(mode, use, changed) ==
  [Plain("dv-clone",
     <<Assign({"storageClassName", "volumeSnapshotClassName", "testNamespace", "containerDiskUrl",
               "dataVolumeSize", "accessMode", "iterations", "clonesPerIteration"}),
       Regular, Launch>>)
   EXCEPT !.pre = <<Require(AccessMode(mode)), Storage(use, changed)>>]

ClonePreRun(mode, use, changed) ==
  <<Require(AccessMode(mode)), Need("virtctl"), Storage(use, changed)>>

VirtEphemeralRestart(cleanup, mode, use, changed) ==
  Cleanable(cleanup,
    [Plain("virt-ephemeral-restart",
       <<SSHKeys,
         Assign(Keys \cup Vm \cup {"storageClassName", "volumeSnapshotClassName", "testNamespace",
                                   "vmsPerIteration", "accessMode", "vmGroups"}),
         Regular, Launch>>)
     EXCEPT !.pre = ClonePreRun(mode, use, changed)])

VirtClone(cleanup, mode, use, changed) ==
  Cleanable(cleanup,
    [Plain("virt-clone",
       <<SSHKeys,
         Assign(Keys \cup Vm \cup
                {"storageClassName", "volumeSnapshotClassName", "testNamespaceBaseName", "accessMode",
                 "iterations", "clonesPerIteration", "verifyEachIteration", "jobIterationDelay",
                 "verifyMaxWaitTime", "dataVolumeCounters"}),
         Regular, Launch>>)
     EXCEPT !.pre = ClonePreRun(mode, use, changed)])

\* useSnapshot is the flag, not what getStorageAndSnapshotClasses made of it.
VirtCloneMulti(cleanup, mode, use, changed) ==
  Cleanable(cleanup,
    [Plain("virt-clone-multi",
       <<SSHKeys,
         Assign(Keys \cup Vm \cup
                {"storageClassName", "volumeSnapshotClassName", "accessMode", "namespaces", "iterations",
                 "vmsPerIteration", "jobIterationDelay", "dataVolumeCounters", "testNamespaceBaseName"}),
         Put("useSnapshot", IF use THEN 1 ELSE 0), Aggregated, Launch>>)
     EXCEPT !.pre = ClonePreRun(mode, use, changed)])

VirtMigration(cleanup) ==
  Cleanable(cleanup,
    [Plain("virt-migration",
       <<SSHKeys,
         Assign(Keys \cup Vm \cup
                {"storageClassName", "testNamespace", "vmCreateIterations", "vmCreatePerIteration",
                 "dataVolumeCounters", "workerNodeName", "loadVMsIterations", "loadVMsPerIteration",
                 "migrationQPS"}),
         Regular, Launch>>)
     EXCEPT !.pre = <<Need("virtctl"), Storage(FALSE, TRUE), Need("worker node")>>])

\* Every class given, or the default one, has a snapshot class and, unless
\* --skip-resize-job, can expand volumes.  No class is left by --storage-class "".
LoopPreRun(classes, skipResize) ==
  <<Need("virtctl")>>
  \o [k \in 1..classes |-> Storage(TRUE, TRUE)]
  \o When(~skipResize, [k \in 1..classes |-> Need("volume expansion")])

\* Mutant: Run forgets volumeSizeIncrement.
LoopVarsFew ==
  Keys \cup Vm \cup {"testNamespace", "dataVolumeCounters", "skipMigrationJob", "rootVolumeSize",
                     "dataVolumeSize", "skipResizeJob"}

\* The volume sizes are at least 6 and 1, the increase at least 1.
LoopVars ==
  Keys \cup Vm \cup {"testNamespace", "dataVolumeCounters", "skipMigrationJob", "rootVolumeSize",
                     "dataVolumeSize", "volumeSizeIncrement", "skipResizeJob"}

VirtCapacityBenchmark(cleanup, classes, skipResize, max, vmsPerIteration) ==
  Cleanable(cleanup,
    [Plain("virt-capacity-benchmark",
       <<SSHKeys, Assign(LoopVars), Put("vmCount", vmsPerIteration), Aggregated,
         Class(classes), SetEnv("counter"), Launch, Again(3, max)>>)
     EXCEPT !.pre = LoopPreRun(classes, skipResize)])

VirtParallel(cleanup, classes, skipResize, skipMigration, max, initial, increment) ==
  LET node == When(~skipMigration, <<Need("worker node"), Assign({"selectedNode"})>>) IN
  Cleanable(cleanup,
    [Plain("virt-parallel",
       <<SSHKeys, Assign(LoopVars \cup {"vmsIncrement", "skipRestartJob", "skipSnapshotJob"}),
         Put("vmCount", initial), Aggregated, Class(classes), Grow(initial, increment)>>
       \o node \o <<SetEnv("counter"), Launch, Again(4 + Len(node), max)>>)
     EXCEPT !.pre = LoopPreRun(classes, skipResize)])

-----------------------------------------------------------------------------
(* Commands that launch nothing *)

\* The endpoint is looked up when PersistentPreRun did not.
Index(typed, tarball) ==
  Plain("index",
    <<Need("cluster metadata"), Scrape>> \o When(tarball /\ "es-server" \notin typed, <<Need("tarball")>>))

ClusterHealth == Plain("cluster-health", <<CheckHealth>>)
=============================================================================
