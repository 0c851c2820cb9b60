---------------------------- MODULE CommandLines ----------------------------
(***************************************************************************)
(* The command lines of the built-in workloads: each with the steps that   *)
(* Workloads.tla gives its command and the configuration of Templates.tla, *)
(* for any values of the flags and any counts of the cluster.  And what    *)
(* such a command line has to be like for a launch to find what it needs.  *)
(***************************************************************************)
EXTENDS Command

Table == INSTANCE Templates

\* Past the conditions of PreRun, the steps of Run supply what the configuration uses,
\* but for what evpn leaves out.
Served(v) ==
  Has(v.run, "launch") /\ Passes(v.pre) =>
    /\ v.name # "init" => v.config \subseteq v.idle \cup Common \cup Apis \cup Supplied(v.run) \cup Unserved(v)
    /\ Has(v.run, "metrics")
    /\ \A m \in v.measures : \E k \in DOMAIN v.run : v.run[k].op = "measure" /\ v.run[k].what = m

\* The number a launch finds in a variable, if it is the same in every round.
Carried(run, name) ==
  {run[j].number : j \in {k \in DOMAIN run : LastPut(run, k) /\ run[k].name = name}}
  \cup (IF Numbered(run, name) THEN {} ELSE {0})

\* The conditions of PreRun let no numbers pass that cudn.yml has no CIDRs for.
Allotted(v) ==
  v.name = "udn-bgp" /\ Passes(v.pre) =>
    \E iterations \in Carried(v.run, "JOB_ITERATIONS"), perCudn \in Carried(v.run, "NAMESPACES_PER_CUDN"),
       cidrs \in Carried(v.run, "CIDRS_PER_CUDN") : OctetsFit(iterations, perCudn, cidrs)

\* The numbers that Run puts fit into the room there is.
Filled(v) ==
  Has(v.run, "launch") /\ v.room # 0 =>
    \E iterations \in Carried(v.run, "JOB_ITERATIONS"), vms \in Carried(v.run, "VMS_PER_ITERATION") :
      RoomFits(v, iterations, vms)

-----------------------------------------------------------------------------
(* The built-in ones *)

\* The command line is one of the command; of the configuration, idle are the names that
\* are no variables or that the branch taken does not use.
Runs(v, command, config, idle, measures) ==
  /\ v.name = command.name /\ v.pre = command.pre /\ v.run = command.run
  /\ v.room = command.room /\ v.each = command.each
  /\ v.config = config /\ idle \subseteq v.idle /\ v.measures = measures

Uses(v, command, config) == Runs(v, command, config, {}, {})

PodLine(v, Values) ==
  \/ Runs(v, Table!BerserkerLoad, Table!BerserkerLoadYml, {"yml"}, {})
  \/ \E small \in Values : Uses(v, Table!BuildFarm(small), Table!BuildFarmYml)
  \/ \E iterations, nodes \in Values :
       \/ Uses(v, Table!ClusterDensity("cluster-density-v2", v.typed, iterations, nodes), Table!ClusterDensityV2Yml)
       \/ Uses(v, Table!ClusterDensity("cluster-density-ms", v.typed, iterations, nodes), Table!ClusterDensityMsYml)
  \/ Uses(v, Table!CrdScale, Table!CrdScaleYml)
  \/ Uses(v, Table!EventStorm, Table!EventStormYml)
  \/ Uses(v, Table!CrashloopFlood, Table!CrashloopFloodYml)
  \/ Uses(v, Table!DBQuotaPressure, Table!DbQuotaPressureYml)
  \/ Uses(v, Table!AnnotationChurn, Table!AnnotationChurnYml)
  \/ \E replicas, parallelism \in Values :
       \/ Uses(v, Table!KueueOperator("kueue-operator-jobs", replicas, parallelism), Table!KueueOperatorJobsYml)
       \/ Uses(v, Table!KueueOperator("kueue-operator-jobs-shared", replicas, parallelism), Table!KueueOperatorJobsSharedYml)
       \/ Uses(v, Table!KueueOperator("kueue-operator-pods", replicas, parallelism), Table!KueueOperatorPodsYml)
  \/ Uses(v, Table!NodeScale, Table!NodeScaleYml)
  \/ Uses(v, Table!OLMv1, Table!OlmYml)
  \/ Uses(v, Table!PVCDensity, Table!PvcDensityYml)
  \/ Uses(v, Table!RDSCore, Table!RdsCoreYml)
  \/ Uses(v, Table!WebBurner("web-burner-init"), Table!WebBurnerInitYml)
  \/ Uses(v, Table!WebBurner("web-burner-node-density"), Table!WebBurnerNodeDensityYml)
  \/ Uses(v, Table!WebBurner("web-burner-cluster-density"), Table!WebBurnerClusterDensityYml)
  \/ Uses(v, Table!Whereabouts, Table!WhereaboutsYml)

\* The commands that fill their cluster; init takes any configuration.
DensityLine(v, Values) ==
  \/ \E nodes, podsPerNode, pods \in Values :
       \/ Uses(v, Table!NodeDensity("node-density", nodes, podsPerNode, pods), Table!NodeDensityYml)
       \/ Uses(v, Table!NodeDensity("node-density-cni", nodes, podsPerNode, pods), Table!NodeDensityCniYml)
       \/ Uses(v, Table!NodeDensity("node-density-heavy", nodes, podsPerNode, pods), Table!NodeDensityHeavyYml)
  \/ v.name = "init" /\ \E iterations, podsPerNode, workers, pods \in Values :
       Runs(v, Table!CustomWorkload(v.typed, iterations, podsPerNode, workers, pods), v.config, {}, {})
  \/ \E cleanup \in BOOLEAN, workers, vmsPerNode, vms \in Values :
       Uses(v, Table!VirtDensity(cleanup, workers, vmsPerNode, vms), Table!VirtDensityYml)
  \/ \E variant \in {"virt-udn-density", "virt-cudn-density"}, cleanup \in BOOLEAN,
        binding \in {"passt", "l2bridge", "other"}, workers, vmsPerNode, iterations \in Values :
       Uses(v, Table!VirtUDNDensity(variant, cleanup, binding, workers, vmsPerNode, iterations),
            Table!VirtUdnDensityYml)

\* evpn.yml uses the port of the web server in north-south scenarios, and its address in
\* them and where the external VRF is set up.
IdleOfEvpn(scenario, typed) ==
  IF scenario # "east-west" THEN {}
  ELSE {"EXTERNAL_WEBSERVER_PORT"}
       \cup (IF "create-ext-frr-vrf" \in typed THEN {} ELSE {"EXTERNAL_WEBSERVER_IP"})

NetworkLine(v, Values, Loads) ==
  \/ \E scenario \in {"east-west", "north-south", "north-south-l3", "other"}, webserver, skip \in BOOLEAN :
       Runs(v, Table!EVPN(scenario, webserver, skip), Table!EvpnYml, IdleOfEvpn(scenario, v.typed), {})
  \/ \E exceptRules \in Values, latency \in BOOLEAN :
       Uses(v, Table!NetworkPolicy(exceptRules, latency), Table!NetworkPolicyYml)
  \/ \E iterations, cidrs \in Values, perCudn \in Values \cap Nat :
       Runs(v, Table!UdnBgp(iterations, perCudn, cidrs), Table!UdnBgpYml, {}, {"raLatency"})
  \/ \E variant \in {"udn-density-pods", "cudn-density-pods"} :
       Uses(v, Table!UDNDensityPods(variant), Table!UdnDensityPodsYml)
  \/ \E load \in Loads, gatewayCheck \in BOOLEAN :
       Runs(v, Table!CudnDensity(load, gatewayCheck), Table!CudnDensityYml,
            IF gatewayCheck THEN {} ELSE {"NODE_GW_MAP"}, {"cudnLatency"})
  \/ Uses(v, Table!EgressIP, Table!EgressipYml)
  \/ Uses(v, Table!ANPDensityPods, Table!AnpDensityPodsYml)

VirtLine(v, Values) ==
  \/ \E cleanup, use, changed \in BOOLEAN, mode \in {"RO", "RWO", "RWX", "other"} :
       \/ Runs(v, Table!DVClone(mode, use, changed), Table!DvCloneYml, {"io"}, {})
       \/ Runs(v, Table!VirtEphemeralRestart(cleanup, mode, use, changed), Table!VirtEphemeralRestartYml, {"io"}, {})
       \/ Runs(v, Table!VirtClone(cleanup, mode, use, changed), Table!VirtCloneYml, {"io"}, {})
       \/ Runs(v, Table!VirtCloneMulti(cleanup, mode, use, changed), Table!VirtCloneMultiYml, {"io"}, {})
  \/ \E cleanup \in BOOLEAN : Runs(v, Table!VirtMigration(cleanup), Table!VirtMigrationYml, {"io"}, {})
  \/ \E cleanup, skipResize \in BOOLEAN, classes \in Values \cap Nat, max, vmsPerIteration \in Values :
       Runs(v, Table!VirtCapacityBenchmark(cleanup, classes, skipResize, max, vmsPerIteration),
            Table!VirtCapacityBenchmarkYml, {"io"}, {})
  \/ \E cleanup, skipResize, skipMigration \in BOOLEAN, classes \in Values \cap Nat,
        max, initial, increment \in Values :
       Runs(v, Table!VirtParallel(cleanup, classes, skipResize, skipMigration, max, initial, increment),
            Table!VirtParallelYml, {"io"} \cup (IF skipMigration THEN {"selectedNode"} ELSE {}), {})

\* Those that launch nothing.
OtherLine(v) == v.name \in Quiet \cup {"index"} /\ ~Has(v.run, "launch") /\ v.room = 0

\* Values are the values that flags and counts may have, Loads the incremental loads of
\* cudn-density.
BuiltIn(v, Values, Loads) ==
  \/ PodLine(v, Values) \/ DensityLine(v, Values) \/ NetworkLine(v, Values, Loads)
  \/ VirtLine(v, Values) \/ OtherLine(v)
=============================================================================
