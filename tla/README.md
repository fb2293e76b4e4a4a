# Verification of hdfs-operator

A TLA+ model of the operator that turns an `HdfsCluster` resource into Kubernetes
objects, of the shell programs it writes into the pods, and of the algorithms
behind its configuration files. TLC checks the models on small instances; TLAPS
proves, for every size, every invariant that a passing run checks: the safety of the
NameNode bootstrap, which implements an abstract file system, and of the DataNode's
start, whose wait also has a bound; that the controller at rest has written what the
spec says; that the objects of a role group fit together; that published addresses are
complete and fresh; and that the merge of properties is right on the lists it is given.

Paths below are relative to `src/`.

## The system and its parts

| Part | Source | Module |
|---|---|---|
| Reconciler: one pass over the resources of a cluster, work queue, caches | `internal/controller/hdfscluster_controller.go`, `cluster.go`, `sa.go`, role files | `ClusterReconcile` |
| Services, StatefulSet and ConfigMap of a role group, with Kerberos, TLS, OIDC, vector | `internal/common/*.go`, `internal/controller/{name,journal,data}` | `RoleGroupParts`, `RoleGroupBuild` |
| Discovery ConfigMap | `internal/controller/discovery.go` | `Discovery` |
| NameNode start scripts and fail-over | `internal/controller/name/container/format_namenode.go`, `format_zk.go`, `zkfc.go`, `namenode.go` | `NameNodeBootstrap`, which implements `Namespace` |
| DataNode wait script | `internal/controller/data/container/wait_for_namenodes.go` | `WaitForNameNodes`; with the NameNodes and the `datanode` container `DataNodeStart` |
| XML merge | `internal/util/xml_util.go` | `XmlProperties` |
| hdfs-site and core-site generators | `internal/common/hdfs_conf.go`, `cluster_components.go` | the lines other parts depend on, in `NameNodeBootstrap`, `WaitForNameNodes`, `ClusterReconcile`, `RoleGroupParts` |
| Services | `internal/common/service.go`, `svc_headless.go` of each role | names and place in the pass in `ClusterReconcile`, ports in `RoleGroupParts` |
| API types, generated deep copies, affinity, manager flags, version | `api/`, `cmd/`, `internal/common/affinity.go` | inputs of the models, or not modelled |

How they meet: the reconciler builds the objects in a fixed order (service
account; per role its groups; discovery last) and ends a pass at the first object
it writes or cannot build. The StatefulSet puts the scripts into pods. Kubernetes
starts the pods of a StatefulSet in order, and the NameNode scripts depend on it.
The DataNode script polls the NameNodes. Discovery reads the NameNode pods and
their Listeners and publishes addresses. Outside the repository, and modelled by
what the code relies on: Kubernetes (API server, caches, StatefulSet controller,
kubelet, garbage collector), controller-runtime and operator-go, the `hdfs`
commands, JournalNode, ZooKeeper, the listener operator.

## Modules

### NameNodeBootstrap

State: per pod the phase it is in, where the `haadmin` loop of
`format-namenodes` is, whether it found an active NameNode, the namespace in its
`VERSION` file, the state of NameNode and zkfc; the namespace of each JournalNode,
the HA znode and the election lock.

One action per command that reads or changes shared state: `CheckActive` (one
`haadmin` call), `SkipFormat`, `FormatNameNode`, `FormatRefused`,
`BootstrapStandby`, `BootstrapFails`, `FormatZooKeeper`, `StartNameNode`,
`StartZkfc`, then `Elect`, `StepDown` and `Reclaim` for the fail-over. Around them
`CreatePod` and `ScaleDown` in the order of a StatefulSet, stop and start of the
cluster, crashes of each container, eviction of a pod, and `FormatInterrupted`, a
kill between the two halves of a format.

A namespace is a number handed out by `lastId`. `JournalNodes` are the pods behind
the one address that a JournalNode role group has in
`dfs.namenode.shared.edits.dir`: with several of them every command may reach any.

### Namespace

What the bootstrap promises, without pods, scripts and journals: a file system that
is created once while nobody serves (`Create`), volumes that are added by copying from
a NameNode of the same group that serves (`Join`), and NameNodes that serve only with
such a volume (`Serve`, `Leave`). `NameNodeBootstrap!ImplementsNamespace` maps the
namespace to that of the journal, members to the volumes that carry it, and serving to
the NameNode processes that run. A format maps to `Create`, also one that dies halfway
(the creator need not become a member), the copy of a standby to `Join`, the start and
end of a NameNode process to `Serve` and `Leave`; everything else is a stutter.

### WaitForNameNodes

The loop of the script, one `haadmin` call a step, while NameNodes go up and down
and the container may be restarted. The role groups and the order in which the Go
map gives them are chosen initially. `hdfs-site.xml` of a DataNode group lists the
NameNodes of one group, so `haadmin` knows only those (`Answers`).

### DataNodeStart

`NameNodeBootstrap` and `WaitForNameNodes` composed: the steps of `NameNodeBootstrap`,
and those of an instance of `WaitForNameNodes` whose `serving` is the set of NameNodes
that run in the bootstrap. Added are the life of the DataNode pod (`CreateDataNode`,
`ScaleDownDataNode`, `DeleteDataNode`; the volume stays) and `Register`: the `datanode`
container starts after the wait, however it ended, and takes the namespace of a
NameNode. `ImplementsWait` says that the composition is a behaviour of
`WaitForNameNodes`.

### Discovery

One pass is `StartPass`, then for the http and again for the rpc port and each
pod `GetPod` and, when the Listener is not in the pass's address cache,
`GetListener`; then `Write`. `Fail` is the error path: fatal for http, swallowed
for rpc. Both reads go through the manager's client (`cmd/main.go:195`), hence to
informers: `seenPod` and `seenListener` follow the API server with `ObservePod` and
`ObserveListener`, any time later. Pods, Listeners and informers change between all the
steps of a pass.

### ClusterReconcile

The `HdfsCluster` in the API server and in the cache; the owned objects in the API
server and in the caches; the work queue, the pending `RequeueAfter`, the running
pass with the spec it read and the resources it has done. An object is its content:
the resource it was written for, the configuration, TLS and Kerberos, and for a
StatefulSet the replicas. What lists NameNodes (`hdfs-site.xml`, discovery, the arguments
of `wait-for-namenodes`) also has their number (`ListsNameNodes`), discovery their
addresses, and what lists role groups the order in which it does: the code ranges over a
Go map at every build (`GroupOrders`). So an edit of TLS or of replicas, and a Listener
that moves, change discovery as well. `address` is what the Listener informer says;
how a pass reads it pod by pod is the subject of `Discovery`.

Objects have names, and a metrics Service may have the
name of another group's Service (`Name`). `ReconcileResource` is one
resource: build (which fails for discovery while NameNode pods are missing, and
panics for a group that has no NameNode group of its name), skip, write, or fail
because the cache was behind. The user edits and deletes; objects are deleted by
others; API calls fail; the operator restarts; pods get ready and are lost; Listeners
move. A delay may run out while the caches are still behind (`TimerFires`), and `late`
remembers whether the last one did.

### RoleGroupParts and RoleGroupBuild

`RoleGroupParts` has what each builder decides, as operators on the inputs: containers,
volumes, mounts, claims and directories; the ports of containers, Services, metrics
Service, probes, oauth2-proxy and `hdfs-site.xml`; the keytab, the principals of
`core-site.xml` and of the scripts' `kinit`; the environment and the `${env.}` names in
the files; the log4j files. The same option is decided on in several Go packages, and
each has its own operator here.

`RoleGroupBuild` is the pass of one role group in the steps of the code:
`RegisterResources` (merge of the defaults), `WriteService`, `WriteMetricsService`,
`AddContainers`, `AddVolumes`, `AddVolumeClaimTemplates`, `AddVectorContainer`,
`AddOidcContainer`, `WriteStatefulSet`, `BuildConfigMap`, with the early returns and
panics of each. The user edits the spec and the `AuthenticationClass` changes
meanwhile. The API server refuses to change the claim templates of a StatefulSet
(`Refused`), and the pass ends there. Volumes, mounts and containers are sets of names;
what the code appends twice is in them once (see below, `util.go:223`).

### XmlProperties

`String` and `DistinctProperties`, one loop iteration a step. A value is the
position of its pair, so that the last value is the largest one.

### `*Proofs`, `MC*`

The proofs; the values of the constants for TLC.

## Runs

Sizes are distinct states.

| Run | Shows | States |
|---|---|---|
| `bootstrap` | `SingleNamespace`: volumes of a group carry one namespace. `NoFormatWhileServing`: none is created while a NameNode serves, although the test for an active one is long past. `MainInitialised`: main containers find a formatted volume and the znode. `OneGroupServes`: NameNodes of two groups never both run. `ImplementsNamespace`: the refinement. | 221,747 |
| `start_live` | `ReadyMeansFormatted`: "All namenodes ready!" means that all volumes are on the one file system. `DataNodeFits`: the DataNode never meets a NameNode of another one. `ImplementsWait`: the refinement. `EventuallyServing`: no order of starts, crashes, evictions and stops leaves a pod waiting for another. | 101,949 |
| `wait` | `ReadyWasSeen`, `GaveUpAfterMisses`: "ready" means all answered in one round, giving up means that all 12 rounds missed one. `WaitRunsOut`: every step uses up one of `MaxRounds * (NumIds + 1)`, only a kill gives them back. `WaitEnds`, `ServingEndsWait`: the wait always ends, early if the NameNodes serve. `UnknownIdsNeverReady`: with a second NameNode group it always uses up its rounds. | 10,056 |
| `discovery` | `AllOrNothing`, `SameAddress`, `FreshAddresses`: complete per port, one Listener state per pod, and one that the informer had during the pass: neither the address cache of the pass nor the second loop adds an age of its own. `EventuallyAccurate`: right once changes stop. | 417,877 |
| `reconcile` | `QuiescentMatches`: when nothing is queued, pending or running, the objects are those of the spec, unless something was changed from outside or the caches were behind when the last delay ran out (`late`). `ClashNeverRests`: with two Services of one name that never happens, each pass writes one of them. | 439,824 |
| `reconcile_live` | `Converges`: objects and pods come to be as the spec says, and discovery as the Listeners say, after an error, a restart, a lost pod, a lost object, a moved Listener or an edit, with caches any time behind. `StopScalesDown`: a stopped cluster loses its pods, although discovery fails in every pass. `DeletedIsGone`: also what a pass creates after the deletion. | 110,283 |
| `xml_callers` | `LastValueWins`, `OriginStaysInFront` on lists as the generators pass them. | 13,020 |
| `rolegroup` | At every step `ReferencesResolve`: the template mounts volumes it has and probes ports it has. At rest `FilesProvided`: log4j files, vector.yaml and key stores are there, and https without a key store only with Kerberos and no TLS; `WebAnswered`: probes and scraper speak the scheme that is served exactly with both or none of TLS and Kerberos, the proxy exactly with none; `ServicesReach`: Services, pods and addresses agree on ports; `EnvResolved`: every `${env.}` is set; `LoginsPossible`: the keytab has the principals used; `DataOnClaim`: data lies on the claim. `PodsGetConfig`: all objects come to be, in full, those of the last spec, also after specs with which passes fail halfway. `OidcFollowsClass`: the proxy follows a class that changes. | 381,552 |

Four runs state what a comment in the code says and find that the code does
otherwise:

| Run | Comment | Code |
|---|---|---|
| `bootstrap_journals` | `hdfs_conf.go:159`: several JournalNodes are separated by ";" | one address per role group (`cluster_components.go:140`), so NameNodes may format different JournalNodes behind it |
| `xml_distinct` | `xml_util.go:41`: distinct by name | an index of `collect` is used in the shorter `distinctProperties` (`:54`, `:57`): wrong pair, or a panic. No generator passes such lists today |
| `rolegroup_storage` | `role_config.go:76`: merges the defaults with the given config | storage given without cpu and memory is lost (`:92`) |
| `rolegroup_overrides` | `configmap.go:86`: apply any global overrides | the lookup uses the file name as the property name (`:89`): a property never arrives |

### Bounds

- `bootstrap`: two groups of three pods, one failure, one interrupted format and one
  stop. Three pods are the first size in which a new pod can copy from a standby
  while another pod is active; every kind of failure happens at every step. The
  proofs cover all sizes.
- `start_live`: a group of two NameNodes and a DataNode, two failures, a stop, two
  rounds of the wait (the first miss and giving up are different rounds; the script's
  12 are in `wait`), no interrupted format. An interrupted format leaves a journal whose
  namespace no volume has, so that every further format is refused, or a volume whose
  namespace the journal does not have, so that the NameNode does not start. The scripts
  do not repair either, and liveness is not claimed there.
- `wait`: up to two groups of two, the script's 12 rounds and one restart.
- `discovery`: two pods, two addresses, two changes, each seen by the informer at any
  later time: one between the two port loops and one more before or after the write.
- `reconcile`: five specs: a NameNode and a JournalNode group with one NameNode, with
  two, and stopped; two NameNode groups whose Services clash; two NameNode groups listed
  by a DataNode group and by discovery. Two events (`MaxEvents`): edits, a deletion, API
  errors, restarts, lost pods, in any combination, so that an edit can be taken back
  while caches are behind. `Edited` keeps the user away from the larger specs, where the
  map orders are the point. Two JournalNode groups listed by every `hdfs-site.xml` are
  left to the proof. Without `Resyncs` a state of rest stays one.
- `reconcile_live`: two NameNode pods (one that is ready while the other starts), resyncs,
  and one event of any kind, drift and moved Listeners included. One is enough for each
  kind to happen in every state; combinations are in `reconcile`.
- `xml_*`: all lists of up to three, respectively two, names.
- `rolegroup`: every combination of role, Kerberos, TLS, OIDC, logging, aggregator
  and presence of the NameNode group; resources and overrides one at a time on a
  plain spec, since no code looks at both; two changes of the class and two edits
  (`MaxEdits`, among the specs of `Edited`), so that an edit can be taken back and can
  arrive during the pass of an earlier one. `Edited` has specs with which a pass fails
  (another storage, no NameNode group of the name, vector without an aggregator), so that
  edits lead into these and out of them.

### Fairness

Only what the system runs by itself is fair. In `NameNodeBootstrap` the StatefulSet
controller, the kubelet (which restarts containers) and zkfc, in `DataNodeStart` the
same for the DataNode; in `WaitForNameNodes` the shell; in `Discovery`,
`ClusterReconcile` and `RoleGroupBuild` the controller, because a failed pass is queued
again with a delay and the informers resync; in `Discovery`
also the informers, and in `ClusterReconcile` informers, timers, garbage collector and
kubelets. All of it is weak fairness. Users,
failures, changes by others and NameNodes going up or down owe nothing.

Deadlock checking is off where the system may stop: scripts and functions that end,
a bootstrap with nothing left to do, a controller at rest.

## Proofs

`tlapm <module>` checks a proof module from nothing in a few minutes. Where a leaf takes the
SMT solver more than a fraction of a second, or only Zenon proves it, the leaf names the
prover with a time limit of 60 seconds, so that a busy machine gives the same result.

### NameNodeBootstrapProofs

For every set of role groups, number of replicas and budget of failures:

- `TypeCorrect`: the type invariant;
- `MainInitialisedHolds`, with any number of JournalNodes;
- `SingleNamespaceHolds`, `OneGroupServesHolds`, `NoFormatWhileServingHolds`: the other
  safety properties of the `bootstrap` run, under `SingleJournal` (one JournalNode behind
  the address). With two JournalNodes each of the three fails; `bootstrap_journals` shows
  the cause;
- `ImplementsNamespaceHolds`: the refinement of `Namespace`, under the same assumption.

None of these is inductive. `WorkInv` carries `MainInitialised`: a volume keeps its
`VERSION` file and ZooKeeper its znode, the znode is there before any later pod is, and a
NameNode that runs, from which a volume may be copied, has a `VERSION` file. The others
are about namespaces. That a pod formats only an empty journal does not
exclude that some volume still has an older namespace; what excludes it is how pods
come to be. The inductive invariant `IInv` says so in five parts:

- `RunningInv`: a NameNode that runs is in its main phase, on the journal's namespace;
- `PhaseInv`: past the first init container there is a `VERSION` file, past the
  second the znode;
- `OrderInv`: a pod of ordinal above 0 exists only after ordinal 0 has been ready, so
  ordinal 0's namespace is the journal's, also after it has been evicted or stopped;
- `CopyInv`: the namespace of a later pod is a copy of ordinal 0's;
- `IdInv`: identifiers in use were handed out, and each to one group.

`QuietStep` deals with the actions that leave volumes and journal alone and bring
nothing up;
`CreatePodStep`, `AdvanceStep`, `StartStep`, `FormatStep` and `BootstrapStep` with the
others; `IInvStep` puts them together. `NoFormatWhileServing` follows because a format
needs an empty journal (`EmptyJournal`), and a running NameNode a journal with its
namespace. The refinement goes action by action (`RefinementStep`) with `IInv` at hand:
a format meets an empty journal, hence no member and nobody serving; a copy is taken
from a NameNode that runs, hence from a member.

### WaitForNameNodesProofs

`WaitTypeCorrect`, `ReadyWasSeenHolds`, `GaveUpAfterMissesHolds`,
`UnknownIdsNeverReadyHolds` and the action property `WaitRunsOutHolds`, for every list of
groups, number of replicas, rounds and restarts. The script keeps only a flag and two
counters, while the properties are about all answers. `IInv` relates them:
`OrderInv` (the list has each group once), `LoopInv` (the counters' ranges), `AskInv`
(while the flag is set all ids asked have answered, and only ids of the own group do),
`MissInv` (every finished round missed one). `Quotient` and `IdsAreNameNodes` show that
position `k` of the list, group `k \div Replicas` and ordinal `k % Replicas`, goes
through all NameNodes. `WaitRunsOut` is the part of `WaitEnds` that needs no fairness:
`StepsLeft` is positive while the script waits (`StepsLeftRange`), and each of its steps
lowers it (`StepsLeftStep`; `RoundCosts` is the end of a round, where the inner counter
starts over). That a shell which runs on therefore ends the wait is left to the reader,
and to TLC for twelve rounds. The types of this module are proved and not checked by a
run.

### DataNodeStartProofs

For every size `ImplementsWaitHolds`, since NameNodes of the bootstrap come and go one
at a time (`ServingStep`); under `SingleJournal` also `DataNodeFitsHolds` and
`ReadyMeansFormattedHolds`. `StartInv` adds to the bootstrap's `IInv` that the
DataNode's volume, and the volumes of all NameNodes that have answered in the present
round, are of the file system. It is preserved because a volume never leaves the file
system (`MembersStay`), which is read off `Namespace` through the refinement.
`ScriptInv` says of the embedded script that while its flag is set all ids asked have
answered, and `ListIsComplete` that these are all NameNodes in the end: together "ready"
means that all volumes are of the file system, also those of NameNodes that are down
again. `ScriptInv` repeats a part of what `WaitForNameNodesProofs` shows, because a
theorem of an instantiated module cannot be cited.

### ClusterReconcileProofs

`ReconcileTypeCorrect`, `QuiescentMatchesHolds` and `ClashNeverRestsHolds`, for every
set of groups and specs and every number of edits, errors and restarts.
`QuiescentMatches` speaks of rest, and what holds then was put together by a pass while
spec, caches and queue moved on. `IInv` says, of behaviours without drift and late
timers, what the pass can rely on: caches are
behind only while a timer is pending (`CacheInv`), a pass that no other will follow has
the spec of the cache and has done what it has ticked off (`PassInv`), at rest
everything is as the cached spec wants it (`RestInv`), and a deleted cluster does not
come back (`DeletedInv`). The types rest on `DesiredIsContent`: what a builder makes of
a spec, with the groups in any order, is content.

### RoleGroupBuildProofs

`BuildTypeCorrect`, `ReferencesResolveHolds`, `FilesProvidedHolds`, `WebAnsweredHolds`,
`ServicesReachHolds`, `EnvResolvedHolds`, `LoginsPossibleHolds` and `DataOnClaimHolds`, for
every set of specs and any number of edits and of changes of the `AuthenticationClass`;
the run combines resources and overrides with a plain spec only.

Six of them are about a group at rest and compare objects that were written in different
passes, perhaps with edits between. `IInv` follows the pass instead. `TemplateInv`:
behind each step the part of the pod template that the step adds is that of the spec,
and vector is in it only if the spec enables it. `ObjectInv`: a pass gets past an object
only when the API server has it as built. At rest (`AtRest`) all objects are those of
one spec, and what is left is a fact about the builders, which the lemmas on
`RoleGroupParts` state for every spec: `MountsProvided`, `ProbesProvided`, `TlsMounted`,
`WebPort`, `NoPlainPort`, `ServiceServed`, `AddressesServed`, `CommonEnvironment`,
`DataNodeEnvironment`, `LoginsAreOfRole`, `WritersOnClaim`. `ReferencesResolve` holds at
every moment, also of a StatefulSet that is of an older spec; it is carried along from
the template the StatefulSet was made of (`CompleteResolves`).

### DiscoveryProofs

`DiscoveryTypeCorrect`, `AllOrNothingHolds`, `SameAddressHolds` and
`FreshAddressesHolds`, for every number of pods, addresses and changes. Published is
what two loops have collected while the Listeners changed. `LoopInv` says what is
collected at each point of the loops; `CacheInv` that every address used is the one in
the cache of the pass, so that the second loop uses what the first one did and never
reads a Listener again; `DuringInv` that cache and informer hold only addresses that the
informer has had since the pass began. How far the informer is behind the API server is
nobody's promise, and not part of it.

### XmlPropertiesProofs

`LastValueWinsHolds` and `OriginStaysInFrontHolds`, for lists of any length over any
names, under `CallersInputs`: a first list that is not empty, and no name twice in one
of the two. The code takes an index of the concatenation for one of the result;
`Repetition` shows that a name met twice is one of the first list, and `LengthInv` and
`FrontInv` that there the two indices agree. `xml_distinct` shows that the assumption is
needed. `MergeTypeCorrect` does without it: also on lists on which the merge goes wrong its
result and its index of names hold only pairs that it has read.

### Only model-checked

The liveness properties: `EventuallyServing`, `WaitEnds`, `ServingEndsWait`,
`EventuallyAccurate`, `Converges`, `StopScalesDown`, `DeletedIsGone`, `PodsGetConfig`,
`OidcFollowsClass`. Liveness under fairness and `ENABLED` are out of the prover's reach, as
is induction over data, on which a proof about the result of recursive definitions would
rest; the models use no `RECURSIVE` operators. The four properties of the runs that end in
a violation do not hold. Every invariant, refinement and action property of a passing run
is proved, in these cases under an assumption: `SingleJournal` for `SingleNamespace`,
`OneGroupServes`, `NoFormatWhileServing`, `ImplementsNamespace`, `DataNodeFits` and
`ReadyMeansFormatted`; `CallersInputs` for `LastValueWins` and `OriginStaysInFront`.

## Differences between text and code that no run is about

- `discovery.go:234` swallows the error of the rpc loop; `:170` says that http and rpc
  addresses are created. `AllOrNothing` states what does hold.
- Objects of a role group that is removed from the spec stay: only what the spec names
  is registered (`cluster.go:79`).
- `String` drops what is appended to an empty configuration (`xml_util.go:25`).
- With TLS and without Kerberos ports and probes are https while `dfs.http.policy`
  keeps its default (`hdfs_conf.go:128`, `kerberos.go:40`), and with Kerberos and without
  TLS it is the other way round, with https served from no key store. `WebAnswered` and
  `FilesProvided` say that these are the cases in which nobody answers.
- oauth2-proxy reaches its upstream over http (`oidc.go:199`) at the port that TLS
  chooses. `WebAnswered` says that it is answered with neither TLS nor Kerberos, and only
  then.
- With TLS the volume of the key stores is appended twice (`util.go:223` and `:224`). A
  pod template with two volumes of one name is refused by the API server; whether
  operator-go's builder drops the second one cannot be told from this repository. The
  model has a set of volume names, and takes the second append to change nothing.
- The Service of a DataNode offers http 9864 also with TLS, when the pod has 9865, and
  all Services of NameNodes and JournalNodes offer the proxy's port also without the
  proxy. `Unserved` lists both exceptions of `ServicesReach`.
- With two NameNode or JournalNode groups the order of a Go map decides the arguments of
  `wait-for-namenodes`, the text of `hdfs-site.xml` and that of discovery: passes write
  them although nothing changed, and restart the DataNodes. No text of the repository
  says otherwise, and no property forbids it. At rest they are one of the right texts
  (`QuiescentMatches`); that rest is reached is claimed for one group per role
  (`Runnable` in `Converges`).
- An edit of the storage of a running role group is refused by the API server in every
  pass: the Services follow the spec, the StatefulSet and the ConfigMap do not.
  `Unhindered` in `PodsGetConfig` names the case.
- The JVM options name `security.properties` in the container's directory (`util.go:181`);
  the start scripts copy `*.xml` and `log4j.properties` there.
- The small default resources of zkfc (`container.go:119`) are never used, because the
  merge always leaves resources.
- The DataNode builder dereferences a nil storage (`rolegroup_storage` has the cause).
- `reconciliationPaused` is handled in operator-go, if at all; this code does not read it.

## Abstractions and assumptions

- Of files and environment the names, ports, directories and principals that other parts
  depend on are modelled; labels, affinity and other constant text are left out.
- The delay of `RequeueAfter` is at least a second, and the work queue keeps the earliest
  of several: `TimerFires` may come before the caches have the last write. Then a pass
  may meet AlreadyExists or a conflict and be retried; or, when the spec was edited and
  edited back, take an object for desired that a stale cache shows and the API server no
  longer has. Such a pass can be the last one, with the first edit left in the object
  until the resync (ten hours by default) or the next event. `QuiescentMatches` therefore
  asks that the caches had caught up when the last delay ran out (`late`);
  `Converges`, with resyncs, does not.
- How one object is written is operator-go's code, which is not in the repository:
  skip what is as desired, create, or update with the version that was read. The
  function of that name in `internal/util/resource_util.go` does this but has no
  caller, so it is not counted as modelled.
- `Collect` removes all objects of a deleted cluster in one step.
- In `ClusterReconcile` the readiness check and the build of discovery read the number of
  pods directly; the lag of StatefulSet status is left out, that of pods is in
  `Discovery`.
- One operator process: leader election is an option of the manager, off by default.
- A stopped cluster keeps failing in discovery, since its pods are gone: it need not
  come to rest, and `StopScalesDown` does not claim it.
- Epochs of the quorum journal are inside Hadoop. Fencing is `/bin/true`.

## Not modelled

- Containers copy their configuration when they start. Which copy runs after an edit
  that changes StatefulSet and ConfigMap in two passes is beyond the objects that
  `RoleGroupBuild` ends with.
- Fencing and the epochs of the quorum journal: inside Hadoop.
- Removal of a role group: no code does anything about it.
- How operator-go writes an object, waits for readiness and handles
  `reconciliationPaused` and `stopped`: not in the repository, modelled as far as the
  code here depends on it.
- `internal/util/resource_util.go`, `name_util.go`, `map_util.go`, `configuration_util.go`
  and `internal/common/affinity.go`: without callers, never applied, or concatenation of
  text.
- Generated deep copies, flags and servers of the manager, version information.
