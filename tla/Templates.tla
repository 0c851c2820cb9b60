------------------------------ MODULE Templates -----------------------------
(***************************************************************************)
(* The built-in configurations, cmd/config/<workload>/<workload>.yml: for  *)
(* each, the names after a dot in its template blocks, which is how        *)
(* defaultUndefinedTemplateVars reads them too.  The names that are no     *)
(* variables (io, yml) or that the branch taken does not use are the idle  *)
(* ones of an invocation.                                                  *)
(***************************************************************************)
EXTENDS Workloads

\* What nearly all of them use, and those of the virt commands with gaps.
Base == {"UUID", "QPS", "BURST", "GC", "GC_METRICS", "LOCAL_INDEXING", "ES_SERVER", "ES_INDEX",
         "ALERTS", "METRICS"}
VirtBase == {"GC", "GC_METRICS", "ES_SERVER", "ES_INDEX", "ALERTS", "METRICS"}

AnnotationChurnYml ==
  Base \cup
  {"DELETION_STRATEGY", "JOB_ITERATIONS", "PATCH_REPLICAS", "PATCH_ROUNDS"}
AnpDensityPodsYml ==
  Base \cup Churn \cup Pprof \cup Ready \cup
  {"JOB_ITERATIONS", "SVC_LATENCY"}
BatchChurnYml ==
  Base \cup Churned \cup
  {"CHAOS_ACTION", "CHAOS_CYCLES", "CHAOS_DELAY", "COMMON_CMS", "COMMON_CM_SIZE",
   "COMMON_SECRETS", "COMMON_SECRET_FILES", "COMMON_SECRET_FILE_SIZE", "CONFIGMAP_WATCHERS",
   "DEPLOYMENT_COUNT", "ENDPOINT_WATCHERS", "ENV_VARS", "ENV_VAR_SIZE", "EVENT_WATCHERS",
   "INCREMENTAL_STEP_DELAY", "INCREMENTAL_STEP_SIZE", "JOB_ITERATIONS", "JOB_PAUSE",
   "NODE_WATCHERS", "POD_ANNOTATIONS", "POD_LABELS", "POD_WATCHERS", "RESOURCE_SIZE",
   "SA_WATCHERS", "SECRET_WATCHERS", "UNIQUE_CMS", "UNIQUE_KV", "UNIQUE_KV_LEN",
   "UNIQUE_LARGE_CMS", "UNIQUE_LARGE_CM_SIZE", "UNIQUE_LARGE_SECRETS",
   "UNIQUE_LARGE_SECRET_SIZE", "UNIQUE_SECRETS", "WATCHER_MODE"}
BerserkerLoadYml ==
  Base \cup Churned \cup Ready \cup
  {"DAEMONSET_REPLICAS", "JOB_ITERATIONS", "JOB_PAUSE", "MAX_WAIT_TIMEOUT",
   "SERVICE_REPLICAS", "yml"}
BuildFarmYml ==
  Base \cup
  {"BUILD_IMAGE", "BUILD_PLATFORM", "CHURN_CYCLES", "CHURN_DELAY", "CHURN_PERCENT",
   "DELETION_STRATEGY", "ENABLE_JOBS_LISTING", "ENABLE_JOB_WATCHER", "ENABLE_POD_WATCHER",
   "ENABLE_SECRETS_LISTING", "ITERATIONS_PER_NAMESPACE", "JOBS_LIST_INTERVAL",
   "JOB_ITERATIONS", "LARGE_JOB_PERCENT", "METADATA_ITERATIONS", "METADATA_ITERATIONS_DELAY",
   "NAMESPACE_FILTER_REGEX", "NUM_CONTROLLERS", "NUM_THREADS", "NUM_WATCHERS",
   "SECRETS_LIST_INTERVAL", "SLEEP_BEFORE_RESTART", "SMALL_JOB_PERCENT", "TARGET_IMAGE",
   "WATCHER_RESTART_INTERVAL"}
ClusterDensityMsYml ==
  Base \cup Churned \cup Ready \cup
  {"HAS_IMAGESTREAM_API", "HAS_ROUTE_API", "JOB_ITERATIONS", "NODE_SELECTOR"}
ClusterDensityV2Yml ==
  Base \cup Churned \cup Pprof \cup Ready \cup
  {"INGRESS_DOMAIN", "JOB_ITERATIONS", "NODE_SELECTOR", "SVC_LATENCY"}
CrashloopFloodYml ==
  Base \cup Ready \cup
  {"CRASHLOOP_REPLICAS", "DELETION_STRATEGY", "JOB_ITERATIONS", "SOAK_DURATION"}
CrdScaleYml == Base \cup {"JOB_ITERATIONS"}
CudnDensityYml ==
  Base \cup Churned \cup Pprof \cup Ready \cup
  {"BGP", "CUDNS_PER_RA", "ENABLE_LAYER_3", "GATEWAY_CHECK", "INCREMENTAL_EXP_BASE",
   "INCREMENTAL_PATTERN", "INCREMENTAL_STEP_DELAY", "INCREMENTAL_STEP_SIZE", "JOB_ITERATIONS",
   "JOB_PAUSE", "NAMESPACES_PER_CUDN", "NODE_GW_MAP", "OCPBUGS_85627_WORKAROUND"}
DbQuotaPressureYml ==
  Base \cup
  {"ITERATIONS_PER_NAMESPACE", "JOB_ITERATIONS", "KB_CHUNKS", "KB_SIZE"}
DvCloneYml ==
    {"ALERTS", "ES_INDEX", "ES_SERVER", "METRICS", "accessMode", "clonesPerIteration",
   "containerDiskUrl", "dataVolumeSize", "io", "iterations", "storageClassName",
   "testNamespace", "volumeSnapshotClassName"}
EgressipYml ==
  Base \cup Ready \cup
  {"ADDRESSES_PER_ITERATION", "EIP_ADDRESSES", "EXTERNAL_SERVER_IP", "JOB_ITERATIONS"}
EventStormYml ==
  Base \cup Ready \cup
  {"DELETION_STRATEGY", "EVENT_ITERATIONS", "EVENT_REPLICAS", "JOB_ITERATIONS",
   "POD_REPLICAS", "STORM_DELAY", "STORM_WORKERS"}
EvpnYml ==
  Base \cup Ready \cup
  {"CREATE_EXT_FRR_VRF", "EXTERNAL_WEBSERVER_IP", "EXTERNAL_WEBSERVER_PORT", "JOB_ITERATIONS",
   "L3VNI_START", "NAMESPACES_PER_CUDN", "SCENARIO"}
KueueOperatorJobsSharedYml ==
  Base \cup
  {"ITERATIONS", "JOB_REPLICAS", "PARALLELISM", "PODS_QUOTA", "WORKLOAD_RUNTIME"}
KueueOperatorJobsYml ==
  Base \cup
  {"ITERATIONS", "JOB_REPLICAS", "PARALLELISM", "PODS_QUOTA", "WORKLOAD_RUNTIME"}
KueueOperatorPodsYml == Base \cup {"ITERATIONS", "POD_REPLICAS", "WORKLOAD_RUNTIME"}
NetworkPolicyYml ==
    {"ALERTS", "BURST", "CIDRS", "ES_INDEX", "ES_SERVER", "EXCEPT_RULES", "JOB_ITERATIONS",
   "LOCAL_INDEXING", "LOCAL_PODS", "METRICS", "NETPOLS_PER_NAMESPACE", "NETPOL_LATENCY",
   "NETPOL_READY_THRESHOLD", "PODS_PER_NAMESPACE", "POD_SELECTORS", "PORT_RANGES", "QPS",
   "REMOTE_NAMESPACES", "REMOTE_PODS", "SINGLE_PORTS", "UUID"}
NodeDensityCniYml ==
  Base \cup Churned \cup Pprof \cup Ready \cup
  {"ITERATIONS_PER_NAMESPACE", "JOB_ITERATIONS", "NAMESPACED_ITERATIONS", "NODE_SELECTOR",
   "NUM_SRIOVS", "PERF_PROFILE", "SRIOV_NETWORK_NAME", "SVC_LATENCY"}
NodeDensityHeavyYml ==
  Base \cup Churned \cup Pprof \cup Ready \cup
  {"ITERATIONS_PER_NAMESPACE", "JOB_ITERATIONS", "NAMESPACED_ITERATIONS", "NODE_SELECTOR",
   "PROBES_PERIOD", "SVC_LATENCY"}
NodeDensityYml ==
  Base \cup Churned \cup Pprof \cup Ready \cup
  {"ITERATIONS_PER_NAMESPACE", "JOB_ITERATIONS", "NAMESPACED_ITERATIONS", "NODE_SELECTOR"}
NodeScaleYml ==
  Base \cup Churned \cup Ready \cup
  {"CPU", "JOB_ITERATIONS", "MAX_PODS", "MEMORY", "TAG"}
OlmYml ==
  Base \cup Churned \cup Pprof \cup
  {"CATALOG_IMAGE", "ITERATIONS_PER_NAMESPACE", "JOB_ITERATIONS", "NAMESPACE",
   "NAMESPACED_ITERATIONS", "PREFIX_IMG_NAME", "PREFIX_PKG_NAME_V1"}
PvcDensityYml ==
    {"ALERTS", "CLAIM_SIZE", "ES_INDEX", "ES_SERVER", "GC", "JOB_ITERATIONS", "LOCAL_INDEXING",
   "METRICS", "STORAGE_CLASS_NAME", "UUID"}
RdsCoreYml ==
  Base \cup Churned \cup Ready \cup
  {"DPDK_CORES", "DPDK_HUGEPAGES", "DPDK_WORKER_LABEL", "IDLE_DURATION", "INGRESS_DOMAIN",
   "JOB_ITERATIONS", "PERF_PROFILE", "PHASED", "SRIOV_DPDK_DEVICEPOOL", "SRIOV_NET_DEVICEPOOL",
   "SVC_LATENCY"}
UdnBgpYml ==
  Base \cup
  {"CIDRS_PER_CUDN", "ENABLE_VM", "JOB_ITERATIONS", "LAYER2", "NAMESPACES_PER_CUDN"}
UdnDensityPodsYml ==
  Base \cup Churned \cup Pprof \cup Ready \cup
  {"ENABLE_LAYER_3", "JOB_ITERATIONS", "SIMPLE"}
VirtCapacityBenchmarkYml ==
  VirtBase \cup Vm \cup Keys \cup
  {"counter", "dataVolumeCounters", "dataVolumeSize", "io", "rootVolumeSize",
   "skipMigrationJob", "skipResizeJob", "storageClassName", "testNamespace", "vmCount",
   "volumeSizeIncrement"}
VirtCloneMultiYml ==
  VirtBase \cup Vm \cup Keys \cup
  {"accessMode", "dataVolumeCounters", "io", "iterations", "jobIterationDelay", "namespaces",
   "storageClassName", "testNamespaceBaseName", "useSnapshot", "vmsPerIteration",
   "volumeSnapshotClassName"}
VirtCloneYml ==
  VirtBase \cup Vm \cup Keys \cup
  {"accessMode", "clonesPerIteration", "dataVolumeCounters", "io", "iterations",
   "jobIterationDelay", "storageClassName", "testNamespaceBaseName", "verifyEachIteration",
   "verifyMaxWaitTime", "volumeSnapshotClassName"}
VirtDensityYml ==
  Base \cup Churned \cup Vm \cup
  {"ITERATIONS_PER_NAMESPACE", "JOB_ITERATIONS", "MOUNTS", "NAMESPACED_ITERATIONS",
   "VMI_RUNNING_THRESHOLD"}
VirtEphemeralRestartYml ==
  VirtBase \cup Vm \cup Keys \cup
  {"accessMode", "io", "storageClassName", "testNamespace", "vmGroups", "vmsPerIteration",
   "volumeSnapshotClassName"}
VirtMigrationYml ==
  VirtBase \cup Vm \cup Keys \cup
  {"dataVolumeCounters", "io", "loadVMsIterations", "loadVMsPerIteration", "migrationQPS",
   "storageClassName", "testNamespace", "vmCreateIterations", "vmCreatePerIteration",
   "workerNodeName"}
VirtParallelYml ==
  VirtBase \cup Vm \cup Keys \cup
  {"counter", "dataVolumeCounters", "dataVolumeSize", "io", "rootVolumeSize", "selectedNode",
   "skipMigrationJob", "skipResizeJob", "skipRestartJob", "skipSnapshotJob",
   "storageClassName", "testNamespace", "vmCount", "volumeSizeIncrement"}
VirtUdnDensityYml ==
  Base \cup Churned \cup Pprof \cup Vm \cup
  {"ENABLE_LAYER_3", "JOB_ITERATIONS", "UDN_BINDING_METHOD", "VMI_RUNNING_THRESHOLD",
   "VMS_PER_ITERATION"}
WebBurnerClusterDensityYml == Base \cup Ready \cup {"LIMITCOUNT", "PROBE", "SCALE"}
WebBurnerInitYml ==
  Base \cup Ready \cup
  {"BFD", "BRIDGE", "CRD", "ICNI", "LIMITCOUNT", "SCALE", "SRIOV"}
WebBurnerNodeDensityYml == Base \cup Ready \cup {"LIMITCOUNT", "PROBE", "SCALE"}
WhereaboutsYml == Base \cup Ready \cup {"FAST", "JOB_ITERATIONS"}
=============================================================================
