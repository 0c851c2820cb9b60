------------------------------- MODULE MCOcp --------------------------------
(* The commands with the flag values that tell their behaviours apart. *)
EXTENDS Ocp, CommandLines

W == INSTANCE Templates

\* A command line: the flags typed, and whether its configuration is on disk.
Invoke(command, typed, readable, config) ==
  [name |-> command.name, required |-> command.required, exclusive |-> command.exclusive,
   room |-> command.room, each |-> command.each, pre |-> command.pre, run |-> command.run,
   typed |-> typed, set |-> {}, env |-> {}, profile |-> "both", config |-> config,
   idle |-> {}, readable |-> readable, measures |-> {}]

\* With the required flags typed, and the configuration compiled in.
Usual(command, config) == Invoke(command, command.required, FALSE, config)

Idle(invocation, names) == [invocation EXCEPT !.idle = names]
Measures(invocation, names) == [invocation EXCEPT !.measures = names]

\* The flags that decide how metrics are collected, in any combination; the others of the
\* root command one at a time.
MetricsFlags == {"alerting=false", "metrics-endpoint", "prometheus-url", "es-server", "es-index", "local-indexing"}
OtherFlags == {"malformed --set", "extract", "ignore-health-check", "profile-type"}

RootInvocations ==
  {Invoke(W!CrdScale, typed \cup {"iterations"}, FALSE, W!CrdScaleYml) : typed \in SUBSET MetricsFlags}
  \cup {Invoke(W!CrdScale, typed, FALSE, W!CrdScaleYml) : typed \in {{flag} : flag \in OtherFlags}}
  \cup {[Invoke(W!CrdScale, typed \cup {"iterations"}, FALSE, W!CrdScaleYml) EXCEPT !.profile = profile] :
           typed \in {{flag, other} : flag \in OtherFlags, other \in OtherFlags},
           profile \in {"regular", "reporting", "both"}}

IndexInvocations ==
  {Invoke(W!Index(typed, tarball), typed, FALSE, {}) :
     typed \in SUBSET {"es-server", "es-index", "prometheus-url", "metrics-endpoint", "extract"},
     tarball \in BOOLEAN}

QuietInvocations ==
  {Invoke(W!ClusterHealth, typed, FALSE, {}) : typed \in SUBSET {"extract", "ignore-health-check"}}
  \cup {Invoke(W!Plain(name, << >>), typed, FALSE, {}) : name \in Silent, typed \in {{}, {"extract"}}}

\* Any configuration may be given to init, any of its variables with --set or in the
\* environment.
InitInvocations ==
  {[Invoke(W!CustomWorkload(typed, 3, 4, 2, pods), typed, readable, W!BatchChurnYml)
    EXCEPT !.set = set, !.env = env] :
     typed \in {{"config", "iterations"}, {"config", "pods-per-node", "CHURN_MODE"}},
     pods \in {1, 12}, readable \in BOOLEAN,
     set \in {{}, {"COMMON_CMS"}, {"CHURN_MODE", "COMMON_CMS"}}, env \in {{}, {"COMMON_CMS"}}}
  \cup
  {Invoke(W!CustomWorkload(typed, iterations, podsPerNode, 2, 1), typed, TRUE, W!BatchChurnYml) :
     typed \in SUBSET {"config", "iterations", "pods-per-node"}, iterations \in {0, 3}, podsPerNode \in {0, 4}}

PodInvocations ==
  {Idle(Usual(W!BerserkerLoad, W!BerserkerLoadYml), {"yml"})}
  \cup {Usual(W!BuildFarm(small), W!BuildFarmYml) : small \in {-1, 0, 100, 101}}
  \cup {Invoke(W!ClusterDensity(variant, typed, 2, nodes), typed, readable,
               IF variant = "cluster-density-ms" THEN W!ClusterDensityMsYml ELSE W!ClusterDensityV2Yml) :
          variant \in {"cluster-density-v2", "cluster-density-ms"}, typed \in {{}, {"iterations"}},
          nodes \in {0, 3}, readable \in BOOLEAN}
  \cup {Usual(W!EventStorm, W!EventStormYml), Usual(W!CrashloopFlood, W!CrashloopFloodYml),
        Usual(W!DBQuotaPressure, W!DbQuotaPressureYml), Usual(W!AnnotationChurn, W!AnnotationChurnYml)}
  \cup {Usual(W!KueueOperator("kueue-operator-jobs", 4, 2), W!KueueOperatorJobsYml),
        Usual(W!KueueOperator("kueue-operator-jobs-shared", 4, 2), W!KueueOperatorJobsSharedYml),
        Usual(W!KueueOperator("kueue-operator-pods", 4, 2), W!KueueOperatorPodsYml)}
  \cup {Usual(W!NodeDensity(variant, nodes, 4, pods),
              CASE variant = "node-density" -> W!NodeDensityYml
                [] variant = "node-density-cni" -> W!NodeDensityCniYml
                [] OTHER -> W!NodeDensityHeavyYml) :
          variant \in {"node-density", "node-density-cni", "node-density-heavy"},
          nodes \in {0, 2}, pods \in {1, 8, 13}}
  \cup {Usual(W!NodeScale, W!NodeScaleYml), Usual(W!OLMv1, W!OlmYml), Usual(W!PVCDensity, W!PvcDensityYml),
        Usual(W!RDSCore, W!RdsCoreYml), Usual(W!Whereabouts, W!WhereaboutsYml)}
  \cup {Usual(W!WebBurner("web-burner-init"), W!WebBurnerInitYml),
        Usual(W!WebBurner("web-burner-node-density"), W!WebBurnerNodeDensityYml),
        Usual(W!WebBurner("web-burner-cluster-density"), W!WebBurnerClusterDensityYml)}

EvpnInvocations ==
  {Idle(Invoke(W!EVPN(scenario, webserver, skip), typed, readable, W!EvpnYml), IdleOfEvpn(scenario, typed)) :
     scenario \in {"east-west", "north-south", "north-south-l3", "other"},
     webserver \in BOOLEAN, skip \in BOOLEAN, typed \in SUBSET {"create-ext-frr-vrf"}, readable \in BOOLEAN}

BgpInvocations ==
  {Measures(Invoke(W!UdnBgp(iterations, perCudn, cidrs), typed, FALSE, W!UdnBgpYml), {"raLatency"}) :
     iterations \in {1, 6, 55080, 55081, 110160}, perCudn \in {0, 1, 2}, cidrs \in {0, 1, 4},
     typed \in {{"iterations", "frr-external-ip"}, {"iterations"}}}

\* One condition on the load is broken at a time, or none.
Load == [iterations |-> 4, perCudn |-> 1, cudnsPerRA |-> 1, mode |-> "objects", step |-> 2,
         pattern |-> "linear", base |-> 20, churn |-> FALSE]
Loads ==
  {[Load EXCEPT !.perCudn = n, !.cudnsPerRA = r] : n \in 0..3, r \in 0..2}
  \cup {[Load EXCEPT !.step = s, !.churn = c] : s \in {-1, 0, 2, 5}, c \in BOOLEAN}
  \cup {[Load EXCEPT !.pattern = p, !.base = b] : p \in {"linear", "exponential", "other"}, b \in {10, 20}}
  \cup {[Load EXCEPT !.mode = "other"], [Load EXCEPT !.perCudn = 2, !.step = 3]}

CudnInvocations ==
  {Idle(Measures(Usual(W!CudnDensity(load, gateway), W!CudnDensityYml), {"cudnLatency"}),
        IF gateway THEN {} ELSE {"NODE_GW_MAP"}) : load \in Loads, gateway \in BOOLEAN}

NetworkInvocations ==
  {Usual(W!NetworkPolicy(except, latency), W!NetworkPolicyYml) : except \in {0, 2}, latency \in BOOLEAN}
  \cup {Usual(W!UDNDensityPods(variant), W!UdnDensityPodsYml) :
          variant \in {"udn-density-pods", "cudn-density-pods"}}
  \cup {Usual(W!EgressIP, W!EgressipYml), Usual(W!ANPDensityPods, W!AnpDensityPodsYml)}

\* What the virt commands have in common.
Modes == {"RWX", "other"}
Artefacts == {"io"}

VirtInvocations ==
  {Usual(W!VirtDensity(cleanup, 2, 2, vms), W!VirtDensityYml) : cleanup \in BOOLEAN, vms \in {1, 6}}
  \cup {Usual(W!VirtUDNDensity(variant, cleanup, binding, 2, 2, iterations), W!VirtUdnDensityYml) :
          variant \in {"virt-udn-density", "virt-cudn-density"}, cleanup \in BOOLEAN,
          binding \in {"passt", "other"}, iterations \in {0, 1, 2, 3, 5}}
  \cup {Idle(Usual(command, W!DvCloneYml), Artefacts) :
          command \in {W!DVClone(mode, use, changed) : mode \in Modes, use \in BOOLEAN, changed \in BOOLEAN}}
  \cup {Idle(Usual(W!VirtEphemeralRestart(cleanup, mode, use, changed), W!VirtEphemeralRestartYml), Artefacts) :
          cleanup \in BOOLEAN, mode \in Modes, use \in BOOLEAN, changed \in BOOLEAN}
  \cup {Idle(Usual(W!VirtClone(cleanup, mode, use, changed), W!VirtCloneYml), Artefacts) :
          cleanup \in BOOLEAN, mode \in Modes, use \in BOOLEAN, changed \in BOOLEAN}
  \cup {Idle(Usual(W!VirtMigration(cleanup), W!VirtMigrationYml), Artefacts) : cleanup \in BOOLEAN}

CloneMultiInvocations ==
  {Idle(Usual(W!VirtCloneMulti(cleanup, mode, use, changed), W!VirtCloneMultiYml), Artefacts) :
     cleanup \in BOOLEAN, mode \in Modes, use \in BOOLEAN, changed \in BOOLEAN}

\* The loops: up to two storage classes, for ever or up to one or two rounds.
LoopInvocations ==
  {[Idle(Invoke(W!VirtCapacityBenchmark(cleanup, classes, skipResize, max, 5), {}, readable,
                W!VirtCapacityBenchmarkYml), Artefacts) EXCEPT !.set = set] :
     cleanup \in BOOLEAN, classes \in 0..2, skipResize \in BOOLEAN, max \in 0..2, readable \in BOOLEAN,
     set \in {{}, {"io"}, {"io", "VM_CPU"}}}
  \cup
  {Idle(Invoke(W!VirtParallel(cleanup, classes, skipResize, skipMigration, max, 2, 3), {}, readable,
               W!VirtParallelYml),
        Artefacts \cup (IF skipMigration THEN {"selectedNode"} ELSE {})) :
     cleanup \in BOOLEAN, classes \in 0..2, skipResize \in BOOLEAN, skipMigration \in BOOLEAN, max \in 0..2,
     readable \in BOOLEAN}
  \cup {Idle(Invoke(W!VirtParallel(FALSE, 1, TRUE, TRUE, 1, 2, 3), {"extract"}, FALSE, W!VirtParallelYml),
             Artefacts \cup {"selectedNode"})}

OcpInvocations ==
  UNION {RootInvocations, IndexInvocations, QuietInvocations, InitInvocations, PodInvocations,
         EvpnInvocations, BgpInvocations, CudnInvocations, NetworkInvocations, VirtInvocations,
         CloneMultiInvocations, LoopInvocations}

\* Each is one of the command lines that the theorems about the built-in commands are about.
ASSUME BuiltInAssumption ==
  /\ \A v \in RootInvocations : PodLine(v, {})
  /\ \A v \in IndexInvocations \cup QuietInvocations : OtherLine(v)
  /\ \A v \in InitInvocations : DensityLine(v, {0, 1, 2, 3, 4, 12})
  /\ \A v \in PodInvocations :
       PodLine(v, {-1, 0, 2, 3, 4, 100, 101}) \/ DensityLine(v, {0, 1, 2, 4, 8, 13})
  /\ \A v \in EvpnInvocations \cup CudnInvocations \cup NetworkInvocations : NetworkLine(v, {0, 2}, Loads)
  /\ \A v \in BgpInvocations :
       \E iterations \in {1, 6, 55080, 55081, 110160}, perCudn \in 0..2, cidrs \in {0, 1, 4} :
         Runs(v, W!UdnBgp(iterations, perCudn, cidrs), W!UdnBgpYml, {}, {"raLatency"})
  /\ \A v \in VirtInvocations \cup CloneMultiInvocations \cup LoopInvocations :
       VirtLine(v, {0, 1, 2, 3, 5}) \/ DensityLine(v, {0, 1, 2, 3, 5, 6})

\* Two nodes that share a gateway, one of them annotated, or none.
Network == [network |-> 8, size |-> 16]
OneNode == [address |-> 13, annotated |-> TRUE, hop |-> 12, cidr |-> Network]
BareNode == [address |-> 14, annotated |-> FALSE, hop |-> -1, cidr |-> [network |-> -1, size |-> 0]]
NamedNode == [BareNode EXCEPT !.address = -1]
NodeLists ==
  {<< >>, <<OneNode>>, <<BareNode, OneNode>>, <<OneNode, [OneNode EXCEPT !.address = 17]>>,
   <<BareNode>>, <<NamedNode, OneNode>>}
ServerAddresses == {-1, 15, 2}
=============================================================================
