# Formal models of kube-burner-ocp

TLA+ modules, TLC configurations and TLAPS proofs for kube-burner-ocp, a Go
program that runs performance workloads on OpenShift: the path of every command
from the command line to the exit code, and the concurrent or failure-prone
routines on it, each in detail. Paths below are relative to the repository; line numbers
are those `PROJECT.json` maps. Run everything in this directory:

    tlc -config <file>.cfg <MC module>.tla      model-check
    tlapm <Proof module>.tla                    check the proofs

## 1. The system

`cmd/ocp.go` is a cobra program. `PersistentPreRun` configures logging, creates a
workload helper of the kube-burner library, fills the package variable
`AdditionalVars`, checks the cluster's health and finds Prometheus. The command of
a workload then validates its flags, adds to `AdditionalVars` and calls
`RunWorkload`, which renders the workload's configuration and hands control to
kube-burner. kube-burner creates the objects and drives *measurements*: it calls
`Start` before a job and `Stop` after it. Two measurements are this program's own.

### Components

| component | code | state it keeps | operations | talks to |
|---|---|---|---|---|
| parallel pings | `routeadvertisement-latency_linux.go:364` `pingAllCudns` | semaphore channel, WaitGroup, mutex, latency list | one goroutine per pod: attempts, append, release | called by import workers |
| RA latency, export | same file, `exportWorker`, `Start`, `Stop`, `handleAdd`, `normalizeMetrics` | `routeCh`, `exportDoneCh`, `cudnConnTimestamp`, `verifiedExportRouteCount`, `wg`, `Metrics` | subscribe, 20 workers, count, wait, close, normalise | kernel (netlink), pods (ping), API server (informer) |
| RA latency, import | same file, `startImportScenario`, `importWorker`, `Stop` | `routeImportChan`, `importDoneCh`, dummy interfaces, `verifiedImportRouteCount`, `wg` | create interfaces, announce addresses, ping, count, delete interfaces | host network, pods |
| CUDN latency | `cudn-latency.go` | `Metrics`: start and latency per CUDN name | `handleAdd`, `handleUpdate`, `Stop`, `normalizeMetrics` | API server (informer) |
| clean-up | `helpers.go:337-472` | none but the cluster's objects | list, delete namespaces, delete snapshot contents, delete volumes, poll | API server |
| egress IPs | `egressip.go:35-143` | node addresses put aside, the list found | list nodes, first usable address, list of free addresses | node annotations |
| workload variables | `helpers.go:61-335`, `types.go` | `AdditionalVars`, `SetVars`, environment | default, move, override; reused by the loops of the virt workloads | environment, configuration files |
| AdminNetworkPolicies | `anp-density-pods.go:50-280` | tenant and priority counters; labels and policies in the cluster | label namespaces, one policy per tenant, verify | API server |
| VM checks | `scripts/check.sh`, `virt-migration/check.sh` | attempt counter | list VMs, retry a command per VM | kubectl, virtctl |
| flag validation | `udn-bgp.go:65-81`, `cudn-density.go:113-149` | none | divisibility and limits | - |
| entry and health | `ocp.go:78-154`, `cluster-health.go` | globals | ordered checks with early exits | API server, Prometheus |
| index | `index.go:59-153` | `rc` | scrape, index, summarise | Prometheus, indexer |
| other commands | the rest of `pkg/workloads` | flag variables | flags to `AdditionalVars`, `RunWorkload` | kube-burner |
| hook scripts | `chaos.sh`, `create-event-storm.sh`, FRR scripts | host state | straight command sequences | oc, podman, ip |

### What is hard, and what would make it correct

* **Parallel pings.** Goroutines share a slice and a semaphore. Correct: never more
  than `importPingThreads` at work; exactly one entry per pod in what is returned;
  no goroutine outlives the call; the call returns.
* **Export half.** Workers copy a CUDN's record, ping for seconds, and store the
  copy back; the kernel withdraws and announces routes as it likes; `Stop` has a
  count, a timeout and a WaitGroup that no longer counts (`wg.Done` is the worker's
  first statement). Correct: the first detection is kept; no ping is lost; the count
  means what the wait says; every announced route is handled even if `exportDoneCh`
  closes meanwhile; workers end; `Stop` returns; nothing is still written when the
  results are read.
* **Import half.** Interfaces on the host are created before and deleted after
  concurrent work, with partial failure. Correct: no interface disappears under a
  worker; a route counts only once it is recorded; a `Stop` leaves no interface.
* **CUDN latency.** Informers skip states, conditions go back and forth, names are
  used again, handlers run on while `Stop` reads. Correct: one start and one latency
  per CUDN, never overwritten, none missed, and about the right CUDN.
* **Clean-up.** A sequence of calls any of which can fail, without deadline, that
  may be killed and run again. Correct: nothing of others is deleted, nothing of the
  test is left, and it ends, unless it waits for what nobody deletes.
* **A command.** Checks in `PersistentPreRun` with early returns, `PreRun` before the
  validation of flags, exits in three ways from any depth, a `--cleanup` that two
  functions have to honour. Correct: nothing touches a cluster that is not healthy, or
  with flags that are not valid; the exit code says whether every launch went well; the
  command ends, or has come to the waits of its clean-up.
* **Variables.** Package-level maps changed by each round of a loop, by flags, by
  `--set` and by defaults. Correct: whatever the flags, a configuration finds a value
  for each variable it uses; a `--set` value is never lost.
* **Egress IPs.** A search with a budget of passes. Correct: as many addresses as
  wanted, none in use, none twice, all in the CIDR when there is room.
* **AdminNetworkPolicies.** Labels and policies of earlier runs, failures half-way.
  Correct: each namespace belongs to its tenant, whose policy is there; priorities
  collide only when there are more tenants than priorities.
* **Limits and divisions.** CIDRs against the octets of a template, room in the cluster
  divided by what an iteration takes.
* **Scripts.** Retry schedules and exit statuses of pipes and subshells.

`PROJECT.json` lists each hazard at its line with the properties that cover it.

## 2. The modules

| module | role |
|---|---|
| `PingContract` | what a caller of `pingAllCudns` relies on (abstract) |
| `PingAll`, `MCPingAll`, `PingAllProofs` | `pingAllCudns` step by step; shown to implement `PingContract` |
| `RaExport`, `MCRaExport`, `RaExportProofs` | export half: kernel, subscription, workers, `Start`, `Stop`, informer, normalisation |
| `RaImport`, `MCRaImport`, `RaImportProofs` | import half of `Stop` |
| `RaLatency`, `MCRaLatency` | the measurement: `RaExport` with `RaImport` in place of its step `Import`; its theorems are in `RaExportProofs` |
| `LatencyLedger` | what a latency measurement promises about what it indexes (abstract) |
| `CudnLatency`, `MCCudnLatency`, `CudnLatencyProofs` | the CUDN latency measurement; shown to implement `LatencyLedger` |
| `Cleanup`, `MCCleanup`, `CleanupProofs` | `cleanupTestNamespaces` |
| `Steps` | the steps that `PreRun` and `Run` of a command are made of |
| `Workloads` | each command as the sequence of its steps, a function of the flags that decide it |
| `Templates` | the variables each built-in configuration uses |
| `Command` | an invocation: `PersistentPreRun`, the steps, the validation of flags, the exit code |
| `CommandLines` | the built-in commands with any values of their flags, and what a command line has to be like for its launch to find what it needs |
| `EgressParameters`, `EgressIPs`, `EgressIPsProofs` | `generateEgressIPs` |
| `AnpParameters`, `AnpDensity`, `AnpDensityProofs` | the policy generation of `anp-density-pods` |
| `Ocp`, `MCOcp`, `OcpProofs` | the program: `Command` with the two routines in place of the steps that call them |

`RaLatency` extends `RaExport` and instantiates `RaImport`: the halves share the main goroutine
and the WaitGroup. `Ocp` extends `Command` and instantiates `EgressIPs` and `AnpDensity`; `MCOcp` takes the
command lines from `Workloads` and the configurations from `Templates`. `Command` does
not know the commands: it works for any set of command lines, which is what most
theorems of `OcpProofs` are about. `CommandLines` says which of these are those of the built-in
commands, for the theorems about configurations and limits; an assumption of `MCOcp` has
TLC find that each command line of the run is one of them.

Each specification has its constants with named assumptions, its variables commented
with the names of the code, one action per statement group that another actor can
interleave with, its properties with the behaviour of the code they are about, and its
inductive invariant in named parts. Operators marked "Mutant" are never used by the
specification: each is a plausible slip in the code that breaks one property.

### How they correspond to the code

**PingAll.** The calling goroutine is `Add` (`wg.Add`), `Acquire` (a slot in the
semaphore channel and `go func`), `LoopEnd`, `Return` (`wg.Wait` and the return). A
goroutine is `PingOk`/`PingFail` (one attempt), `GiveUp`, `Lock`, `AppendLatency`,
`Unlock`, and the deferred calls in their order: `Release`, then `Done`. An append is
reading the slice header (`Lock`) and writing it back (`AppendLatency`), so that the
mutex matters.

**RaExport.** `RouteAdd` and `RouteDel` are the kernel, which appends to `routeCh`; the
comment in the code that Linux does not add duplicate routes is the guard of
`RouteAdd`. A worker is `WorkerDone`, then the loop `Receive`, `LoadOrStore`, one
`PingPod` per pod (its attempts in one step), `CountRoute`, `StoreRecord`; it leaves at
`ReceiveClosed`. The other case of its `select`, a closed `exportDoneCh`, executes a
`break` that only leaves the `select`: it changes nothing and is no action. `Start` is
`Subscribe`, `Spawn`, `StartInformer`; `Stop` is `CallStop`, `CountReached`, `WaitOver` (the
ten seconds), `Timeout`, `CloseExportDone`, `Import`, `WgWait`, `Normalize`,
`NormalizeOver`. `HandleAdd` stays enabled after `Stop`, since the informer's stop channel
is never closed. Timestamps are the identity of what they date, which keeps apart
exactly what the properties need.

**RaImport.** `BeginScenario`, `CreateIface`/`CreateFails`, `FillChannel`, `Spawn`,
`AllSpawned`, the wait, `CloseImportDone`, `WgWait`, `DeleteIface` (a refused deletion is
logged and passed over), `StopMeasurement`. The channel is written and closed before a
worker exists, so it is an index. A worker is `TakeRoute`/`LeaveLoop`, `AddAddress`,
`Record` (the pings and the store into `Metrics`), `Count`, `WorkerDone` (deferred).
Without pods (`havePods`) the scenario is not started and `Stop` waits for the count an
earlier job left in the package variable.

**RaLatency.** `RunScenario` is `Stop` from `startImportScenario` to the close of
`importDoneCh`, each step one of `RaImport!Main`; `ScenarioOver` comes to `wg.Wait` or returns
the error; `WaitAndDelete` is `wg.Wait` and the deletions, which the counters of both halves
have to allow; `BeginNormalize` is the call of `StopMeasurement`. Export workers, the kernel and
the informer run on beside all of them, import workers from their start to their `Done`.

**CudnLatency.** The API is `Tick`, `Create`, `Allocate`, `Unallocate`, `Delete`. `Observe` is
the informer: it looks at an object when it likes, hence skips states. `HandleAdd` is
one step, `handleUpdate` two (`Load`, `Store`). `Stop`, `Normalize` and `StopOver` take no
account of a handler that is running. A condition without a parsable
`lastTransitionTime` (`Unstamped`) takes the time of the handler, as the code does.

**Cleanup.** `ListNamespaces` (with its early return), `DeleteNamespace` for each (the
cluster accepts or refuses it), `NamespacesDeleted`, the end of the wait for all of them, or
`NamespacesNotDeleted`, its end because they cannot be listed; then for each kind of object `List`, `Look` (the loop, `Claimed` and
`DeleteItem`), `Poll` or `PollFails`. The two functions of the code differ in the API they
call and share the actions; `kind` says which one runs. `NamespaceGoes` and `ItemGoes` are the
cluster: a namespace goes only when its deletion was accepted, an object when it was asked to,
or by its own policy once its namespace has gone. `Kill` and `Rerun` are the user.

**Command.** `Begin`, `GatherMetadata`, `HealthCheck`, `Prometheus` and `ParseSetValues` are
`PersistentPreRun` in its order. A command line carries its `PreRun` and `Run` as
sequences of steps, and there is an action for each kind: `TakeNeed` (a lookup that the
command dies without), `TakeRequire` (a condition on flags), `TakeStorage`
(`getStorageAndSnapshotClasses`), `TakeAssign` (into `AdditionalVars`), `TakeEnvironment`
(`setMetrics`, `os.Setenv`), `TakeMeasure`, `TakeRound` and `TakeAgain` (the endless loops),
`Launch` (`RunWorkload`: `defaultUndefinedTemplateVars`, then `wh.Run`), `TakeScrape`,
`TakeClean` (which returns, dies, or stays in the polls of the clean-up, `pc = "polling"`),
`TakeHealth`, `CallReturns` and `CallDies`. `EndOfPreRun` is cobra, which
validates required and exclusive flags between the two; `EndOfRun` is `os.Exit(rc)` in
`PostRun`. A lookup is answered as the cluster likes. `wh.Run` fails whenever it likes,
and must when the configuration uses a variable without a value. `launches`, `lacking`
and `cleaned` record what happened for the properties.

**Workloads.** One operator per command, its steps in the order of the code. Its
parameters are the flags, and the counts of the cluster, on which the steps depend.
A variable whose value matters is `Put` as a number, the others are names. `Templates`
lists the names a configuration uses in the way `defaultUndefinedTemplateVars` finds
them, with a regular expression; names that it finds but that are no variables, or
that the branch taken does not use, are declared idle by the command line.

**EgressIPs.** `ListNodes`, one `ReadNode` per node, `Convert` (the CIDR, the first usable
address, the map of addresses), one `Try` per pass of the loop, `OutOfPasses`. An address
is the number `ipconv` makes of it; the increase of the last byte stays in the byte.

**AnpDensity.** `ListNamespaces`, `ListPolicies`, then for each namespace `LabelNamespace`
and `ApplyPolicy`, in the end `Verify`. Each may fail as in the code: with an error, which
the command prints, or fatally. Initial states hold what an earlier run left.

**Ocp.** The step that calls a routine is the routine's `Next` until it is done, then
`CallReturns`, or `CallDies` when it ended the program.

### Abstractions

* The rules of an AdminNetworkPolicy, node selectors, metadata that is indexed with the
  results, and the job summary of `index` are left out.
* A number is unbounded in `Command`; flags are Go `int`s, far from their limits. The theorems
  about limits are about the integers, hence about every `int` whose products do not overflow.
* A configuration given to `init` may use any variables: what `RunWorkload` does not default
  may be lacking, so that `ConfigServed` asks only its profiles of `init`.
* A panic is an exit with a code that is not zero. Those the models have: the modulo by an
  empty list of storage classes (`TakeRound`), a division by zero iterations, and a policy
  whose status has no condition (`Verify` of `AnpDensity`). The other index and nil
  errors a malformed answer of the cluster could cause are left out.
* Dummy interfaces and their addresses are within the octets of `20.j.i.1`
  (`SizesAssumption`: at most 256 and 255). A job may ask for more; the address then does not
  parse and the import worker panics (`routeadvertisement-latency_linux.go:431-438`).
* Slices are values. In the code two copies of an export record may share a backing
  array; `PingsKept` already fails for the simpler overwrite.
* The netlink socket has no buffer: `Notify` puts an announcement straight into `routeCh`. What
  the kernel has announced and the subscription has not yet read when it ends is lost in the
  code, too; `RoutesVerified` speaks of announcements that came to `routeCh`.
* In `RaExport` the import half is one step, which `RaLatency` takes apart, and in `RaImport`
  `pingAllCudns` is one step: `PingAll` shows that a call returns with one entry per pod.
* Jobs that skip indexing are left out: `Start` and `Stop` of both measurements return at once
  (`routeadvertisement-latency_linux.go:690`, `:752`, `cudn-latency.go:188`, `:211`).
* RouteAdvertisements select one CUDN each (README.md:1408) and are named by it.
* Pings (pro-bing), netlink, informers, the wall clock, the API server, namespace and
  storage controllers are external: they do what the code can observe of them.
* `CudnLatency` has one clock with the resolution of the API, one second.
* Required fields of Kubernetes objects are there; that `volumeSnapshotRef` names no
  namespace is an object of `Nobody`.
* Logging, flag parsing, summaries (quantiles) and document layout are left out.

## 3. The runs

| run | configuration | what it shows |
|---|---|---|
| `ping_all` | 3 pods, 2 slots, 2 attempts | thread limit, complete report, refinement of `PingContract` with liveness, inductive invariant |
| `ra_export_shared` | 2 subnets of one CUDN and a foreign route, 2 workers, each announced once | first detection kept (`RouteTimestampStable`, `NormalizedRoute`), the count means verified (`AllVerified`), pings lost only where one worker stores a record while another holds a copy (`UnracedKept`), inductive invariant |
| `ra_latency` | the whole: 1 subnet with 2 pods, 2 export workers; 1 interface, 1 address, 1 import worker | every announcement in `routeCh` is verified, workers and `Stop` return |
| `ra_export_lost` | 2 subnets of one CUDN | **violated** `PingsKept` |
| `ra_export_stop` | 2 subnets, 2 CUDNs | **violated** `WorkersStopped` |
| `ra_import` | 2 interfaces, 2 addresses, 2 workers, stale count 3 | no interface deleted under a worker, count means recorded, clean stop, final results, `Stop` returns, inductive invariant |
| `ra_import_leak` | the same | **violated** `CleanFailure` |
| `cudn_latency` | 2 names, clock to 2, 3 changes | none missed, refinement of `LatencyLedger`, inductive invariant |
| `cudn_recreated` | the same | **violated** `OfThisCudn` |
| `cleanup` | 2 namespaces, 1 snapshot content, 2 volumes, 1 kill | others kept, undisturbed runs complete, a run ends or waits for a namespace that was refused, or for an object of one (`CleanupEnds`), inductive invariant |
| `cleanup_killed` | the same | **violated** `CleanupComplete` |
| `ocp` | 638 command lines: every command with the flag values that tell its behaviours apart; 24 addresses, 6 node lists; 5 namespaces, 2 a tenant, 2 priorities; room for 3 launches | order of checks, valid flags, exit code, served configurations, `--set`, loops, limits, addresses, policies, every invocation ends or polls in its clean-up; refinement of `Command` by the whole; inductive invariant |

What `ocp` asks, property by property:

| property | what it says |
|---|---|
| `HealthyCluster` | no launch and no clean-up on a cluster not found healthy, unless told to ignore it |
| `FlagsFirst` | nothing touches the cluster before required and exclusive flags are validated |
| `ExitTells` | only the last launch can have failed; exit code 0 means that none did |
| `ConfigServed` | a built-in configuration gets a value for each variable it uses, but for `EXTERNAL_WEBSERVER_IP` of an east-west `evpn` with `--create-ext-frr-vrf`; its profiles exist, its measurements are registered |
| `SetValuesUsed` | a `--set` value is used, or still to be used, after any number of rounds |
| `LoopsFully` | storage classes in turn, VMs by the increment; a loop ends well only after `--max-iterations` rounds, or when it only extracts |
| `SubnetsFit` | a launch of `udn-bgp` finds numbers with which no CIDR goes past the first octet 255 and all CUDNs have as many namespaces |
| `RoomKept` | what a density adds fits into what its cluster has left |
| `EgressAddresses`, `InCidr` | enough free addresses, none twice, none left out; in the CIDR |
| `TenantsCovered`, `PrioritiesApart` | labels, policies and priorities of tenants |
| `CommandExits` | every invocation ends or has come to the polls of its clean-up, of which `CleanupEnds` says when they end |
| `CommandHolds` | the whole implements `Command` |
| `IInv` | the inductive invariant of `OcpProofs` |

### Bounds, and why they are enough

Two workers are the least that interleave on one record, channel or counter, and the
workers' code treats all alike. Two subnets of one CUDN make two workers share a
record, the case all properties of records are about; a subnet that is announced again would
make them share one as well, and is left to the proofs, which bound neither subnets nor
announcements. `RouteCap = 2` lets notifications
queue while a worker is busy; a full channel only delays the kernel. Three pods with two slots
make one goroutine wait for another's slot; two attempts let one fail and the next
succeed. `ra_latency` has the least of both halves with which each actor of one meets each of
the other. Two interfaces with two addresses make an interface carry more than one
route, and `StaleCount = 3` is a count that neither run nor zero routes reach. Three
changes of the API are what it takes to delete, make and allocate a CUDN, or to see
its condition flip twice, and the initial states add CUDNs that already exist. One
kill is enough to interrupt a clean-up at each of its steps.

In `ocp`, metrics flags come in all combinations, the others one at a time; a number
takes the values on both sides of each condition it is in (0, 1, divisible, not
divisible, 55080 and past it). The list of storage classes may be empty, and `evpn` comes in
each scenario with and without `--create-ext-frr-vrf`. Three launches (`Capacity`) make a loop over two storage
classes come round; a loop without `--max-iterations` ends when the cluster is full,
which is the bound. 24 addresses in bytes of 8 let a search run over a byte and past a
CIDR of 16. Five namespaces, two a tenant, make three tenants, so that the
second of two priorities wraps, and, with what an earlier run left, tenants whose members
differ from run to run. `cudn-density` is checked with small loads
only: its conditions do not depend on size.

For the safety properties the proofs lift these bounds.

Symmetry is used for workers and names in runs without liveness properties.

### Fairness

* Goroutines and the main thread are weakly fair: the Go scheduler runs what is
  runnable, and pings, timers and API calls return.
* `RaExport` asks of the subscription only that it closes `routeCh` once `exportDoneCh` is
  closed, what the library's goroutine does; the kernel, the API server and an early
  end of the subscription owe nothing. A choice between count and timeout is left open.
* `RaLatency` asks the same of both halves: one main goroutine, and each worker by itself.
* `Cleanup` asks that a namespace whose deletion the cluster accepted goes in the end, and so
  does an object that is being deleted once its namespace is gone; while its namespace is
  there a claim may hold a volume back for ever. The polls have no deadline, so without that they
  need not end. No call has to fail or to succeed: `NamespacesNotDeleted` and `PollFails`
  carry no fairness, and `DeleteNamespace` may be refused each time.
* `Ocp` is one process, weakly fair: calls return, but for the polls of a clean-up, and `wh.Run`
  has a timeout of its own.
* `CudnLatency` needs none: its properties are about what was told so far.

### Findings

1. `ra_export_lost`: with `--cidrs-per-cudn` above one, two workers extend copies of one
   record and the later `Store` (`:511`) drops the pings of the earlier.
2. `ra_export_stop`: export workers call `wg.Done` first (`:482`), so `wg.Wait` (`:774`) does
   not wait for them and results are normalised under their hands. The ten seconds of
   grace hide this when the count was reached, not after the timeout.
3. `ra_import_leak`: when an interface cannot be created `Stop` returns at once (`:765`)
   and leaves the earlier interfaces; `LinkAdd` then fails on them in the next run.
4. `cudn_recreated`: `handleAdd` keeps the entry of a name (`cudn-latency.go:119`) and
   nothing deletes it, so that a CUDN made again by churn is measured from its
   predecessor's creation, or not at all. This is why `NoneMissed` excepts names that were
   deleted before: a re-created CUDN that is already True when first seen finds its
   predecessor's entry and, without an update, never gets a latency.
5. `cleanup_killed`: without namespaces the clean-up returns (`helpers.go:457`) before it
   looks for volumes and snapshot contents, so those an interrupted clean-up left are
   out of reach of every later one.

### Known departures without a run

Met while modelling, and read off the code; the models follow the code.

* An announcement of a known subnet is counted each time
  (`routeadvertisement-latency_linux.go:510`), so that a route that is withdrawn and
  announced again ends the wait while another subnet was never announced. `AllVerified`
  is checked with every subnet announced once.
* `virt-clone-multi.go:107` hands `useSnapshot`, by default true, to its configuration,
  while `getStorageAndSnapshotClasses` asks the StorageProfile when the flag was not
  typed (the flag's text, `:130`). With a profile that does not say "snapshot" the
  configuration makes a VolumeSnapshot without a class.
* `node-density.go:68-84` and `cluster-density.go:64-79` turn a selector with a value into
  `In` whatever its operator, panic on an existence selector, and leave the operator of
  `key==` empty.
* `anp-density-pods.go:232` selects the label `customer_tenat`; namespaces get
  `customer_tenant` (`:204`). The result of the verification is dropped (`:278`), an error is
  printed and the exit code stays that of the launch (`:331-333`). A run that fails
  half-way leaves the labels of an earlier one on the namespaces it did not reach.
* `virt-udn-density.go:67-70` says that only the server VM will be deployed and sets
  `VMS_PER_ITERATION` to 0, which `:79` overwrites with a number below 1.
* `evpn.yml:72` uses `EXTERNAL_WEBSERVER_IP` with `--create-ext-frr-vrf`, which `evpn.go:93` sets
  for north-south scenarios only: the built-in east-west one cannot be rendered with it, and one
  on disk gets an empty address. `Unserved` in `Command` is this one exception of
  `ConfigServed`.
* `--cleanup` may never end. A namespace that could not be deleted is only logged and then
  waited for with the others, and when that wait gives up, the volumes and snapshot
  contents of that namespace are still deleted and polled for without a deadline
  (`helpers.go:354-364`, `:418-428`): with the Delete policy they are not even asked to go. The
  command's context is never cancelled. `CleanupEnds` names these two waits as its exceptions.
* `--extract` takes the name of the command (`ocp.go:85`), not the configuration directory
  that some commands are annotated with (`:97-101`). A failed `osd-cluster-ready` job counts as
  healthy (`cluster-health.go:118-124`).
* `udn-bgp.go:69-76` lets a negative `--namespaces-per-cudn` through: the remainder of Go is zero and
  the number of CIDRs negative. `SubnetsFitHolds` is about numbers from zero.
* Nothing bounds the number of CUDNs of `cudn-density`, whose templates count octets.
* `node-density`, `custom-workload` and `virt-density` may launch with an iteration count
  below one when the cluster is full; `RoomKept` speaks of positive ones.
* `egressip`: addresses go past the CIDR when it is small, the first address wraps in its
  byte for a network that ends in .252 or above, and one address is found when none is
  wanted. `InCidr` and `EgressAddresses` say when all is well.

## 4. The proofs

All theorems are about every value of the constants under the named assumptions of
their module (finite sets of workers, positive sizes; of command lines, that `PreRun`
touches nothing, that `Run` sets its variables before the one launch it has, and that a
loop goes back to before the launch, to steps that set different variables, once the
launch is made). TLC evaluates each assumption on the command lines of the run. The
theorems follow the same argument:
`Init => IInv`, one lemma per action for `IInv /\ [Next]_vars => IInv'`, then the property
from `IInv`.

| module | theorems | the inductive invariant |
|---|---|---|
| `PingAllProofs` | `Invariance`, `ThreadLimitHolds`, `ReportCompleteHolds`, `ContractSafety` | `sem` and `wg` are the sizes of the sets of goroutines that owe a release and a `Done`; the mutex holder's view of the slice is the slice; the listed pods are those past their append. `ReportComplete` alone is not inductive: nothing in it says that `wg = 0` means that all have exited |
| `RaExportProofs` | `Invariance`, `NormalizedRouteHolds`, `RouteTimestampIsStable`; `UnracedKeptHolds`; where no subnet is announced twice `AllVerifiedHolds`; of the measurement as a whole `WholeIsExport`, `WholeRecords`, `WholeAllVerified`, `WholeUnracedKept`, `WholeRunsScenario`, `WholeScenario`, `HalvesTakeTurns`, `IndexedImportIsFinal` | a worker's copy carries the route timestamp of the record it will replace, hence no `Store` changes it. An announcement is in one place, the channel, a worker or the count, so the count is that of distinct subnets (`CountTells`). An answered ping is in the copy of the worker that got it, until its Store; after a Store that no other worker's copy was in the way of it is in the record and in every copy that may still replace the record (`PingsPlaced`), which is why later races cannot lose it |
| `RaImportProofs` | `Invariance`, `IfaceInUseHolds`, `AllRecordedHolds`, `CleanStopHolds`, `ResultsAreFinal` | `wg` is the number of active workers, so that none is left once interfaces go; verified plus recorded-but-not-counted routes are the recorded ones, and no route is taken twice, so that the count reaches the number of routes only when all are recorded |
| `CudnLatencyProofs` | `Invariance`, `ImplementsLedger`, `NoneMissedHolds` | what handlers are told comes in the order it was made, entries are from the first of all, so no latency is negative, which the code would take for "not yet"; a pending `Store` completes the entry it loaded; an allocation that was seen is recorded, about to be stored or still to be told, and the add of its name comes before it (`AllFollowed`) |
| `OcpProofs` | `Invariance`, `HealthyClusterHolds`, `FlagsFirstHolds`, `ExitTellsHolds`, `SetValuesUsedHolds`, `LoopsFullyHolds`; of the built-in commands `ConfigServedHolds`, `SubnetsFitHolds`, `RoomKeptHolds`; of the whole `WholeIsCommand`, `WholeInvariance`, `WholeConfigurations`, `WholeRunsRoutines`, `WholeEgressAddresses`, `WholeInCidr`, `WholeTenantsCovered`, `WholePrioritiesApart` | `Guarded`: past the health check the cluster is well or ignored; in `Run` the flags are valid, and whatever touched the cluster was a step of `Run`; rc is 0 while every launch went well, and once it is not, no launch lies ahead, which is what the loop's test of rc is for. `Prepared`: see below |
| `EgressIPsProofs` | `Invariance`, `EgressAddressesHolds`, `InCidrHolds` | found and skipped candidates add up to the passes; skipped ones are distinct members of what was put aside, so at most `len(nodeIPs)` many, hence the passes suffice |
| `AnpDensityProofs` | `Invariance`, `TenantsCoveredHolds`, `PrioritiesApartHolds` | tenant and priority are functions of the index; every policy of the cluster, of this run or an earlier one, has the priority of its tenant |
| `CleanupProofs` | `Invariance`, `OthersKeptHolds`, `UninterruptedCompleteHolds` | in a run without kill or error, whatever is left of the test is of a kind still to come, not looked at, or waited for |

`WholeIsExport` and `WholeRunsScenario` say that a behaviour of `RaLatency`, without its fairness, is one
of `RaExport` and, in the variables of the import half, one of `RaImport`: what was proved of
each half alone, with the other as one step or not at all, holds where they interleave
and share the WaitGroup. `IndexedImportIsFinal` needs both halves. `wg.Wait` waits for import
workers, which call `Done` last, and `Stop` normalises after it (`Turns`): so none of them adds
to `Metrics` what the index would miss, as export workers do (finding 2).

`WholeIsCommand` carries the theorems of `Command` over to the program. `WholeRunsRoutines`
says that a behaviour of the program is one of `Addresses!Init /\ [][Addresses!Next]` and of
the same for `Policies`; with it the `Whole...` theorems carry the promises of
`EgressIPs` and `AnpDensity` over, from instances of the modules that prove them. The
inductive invariants of these two were found with TLC and are checked by the prover only.

### What a launch finds

`ConfigServed`, `SubnetsFit` and `RoomKept` relate a launch to what steps before it left in
maps that loops use again. None is inductive, and neither is `SetValuesUsed` or `LoopsFully`.
The second half of the invariant, `Prepared`, says in `Command` what is true in between:

* `OnTheWay`: in `Run` every condition of `PreRun` was met, and after a launch another one lies
  ahead only in the body of a loop;
* `Given`: what a step taken supplies (variables, environment, measurements) is there, and nothing
  is lacking that the command line supplies or declares idle. A step counts as taken ever
  since, through later rounds, because no round takes a variable away;
* `Taken`: `--set` values are untouched until the first launch, and a variable that has one is not set
  by a step of `Run`, so that no round takes it back;
* `Numbers`: a number that no later step overrides is what the launch finds; a variable without
  a number counts as zero;
* `Rounds`: before the launch there were as many launches as rounds, the class and the count are
  those of the round; between launch and `again` there is one launch more, and past a loop all
  of its rounds are made. This is why the theorem on loops needs no bound on rounds.

What a command line must be like is then a statement without time, `Served`, `Allotted` and
`Filled` of `CommandLines`: the names of the configuration are among those that the steps supply; the
conditions of `PreRun` imply that the octets suffice; the numbers put fit into the room.
`BuiltInServed` proves them of every built-in command, one lemma for each whose numbers
or branches need an argument: that 55080 is exactly the limit of 216 first octets with 255
CIDRs each (`UdnBgpServed`), that the division of Go, towards zero, never makes the room
overflow (`NodeDensityServed`, `VirtUDNDensityServed`, `CustomServed`). The names in the sequences
are followed through `\o` and `When` by lemmas about the members of a sequence (`Joined`,
`Perhaps`, `PutLast`, `PutOnce`). Flags and counts are any integers there, except
`--namespaces-per-cudn`, which is no less than zero: see the departures.

Only model-checked, since liveness is out of the prover's reach: `StopReturns`,
`WorkersReturn`, `RoutesVerified`, `CleanupEnds`, `CommandExits`, the liveness half of
`ContractHolds` and `CommandHolds`. `PingsKept`, which `ra_export_lost` refutes, is
`UnracedKept` without its exception; that one holds for any announcements. `AllVerified` is
false without the assumption of its theorem: the departure on repeated announcements in
section 3 tells how. The invariants `UnracedKept`, `AllVerified` and `NoneMissed` rest on were found with TLC and are checked by the prover only; so are `Turns` and
`IndexedImportFinal`, which TLC confirmed on the instance of `ra_latency`.

## 5. Not modelled

* **VM check scripts** (`scripts/check.sh`, `virt-migration/check.sh`) and the **hook scripts**
  (`chaos.sh`, `create-event-storm.sh`, the FRR scripts): what they do and return is decided by
  the shell, by `kubectl`, `virtctl`, `podman` and `ip`; the program sees an exit status.
* **`getPods` and the annotations** of the export half: the model starts from the map of
  subnets it builds. `setInputVars` and `handleAdd` are modelled as far as they change
  state; the parsing is not.
* **The rules of a policy** in `anp-density-pods`, and the text of node selectors.
* **The job summary and the indexer of `index`.**
* **kube-burner** itself, `wh.Run`: it succeeds or fails. Metric and alert profiles and
  dashboards are data. The measurement stub for systems other than Linux returns an
  error.

What would come next: `PingAll` in place of the step of `RaImport` that stands for it.
