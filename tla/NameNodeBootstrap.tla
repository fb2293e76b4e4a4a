------------------------- MODULE NameNodeBootstrap -------------------------
(***************************************************************************)
(* The first start, the restarts and the fail-over of the NameNodes of one *)
(* HdfsCluster.                                                            *)
(*                                                                         *)
(* The operator emits one StatefulSet per NameNode role group.  Each of    *)
(* its pods runs the init container format-namenodes, then the init        *)
(* container format-zookeeper, then the containers namenode and zkfc.  The *)
(* two init containers are shell programs that the operator writes         *)
(* (format_namenode.go, format_zk.go); they are the code modelled here,    *)
(* one action per command that reads or changes shared state.  The         *)
(* StatefulSet controller, the kubelet, the hdfs commands, the JournalNode *)
(* and ZooKeeper are external: they are modelled by what the scripts and   *)
(* the pod template rely on.                                               *)
(***************************************************************************)
EXTENDS Integers

CONSTANTS
  Groups,        \* names of the NameNode role groups
  Replicas,      \* replicas of each group
  JournalNodes,  \* pods behind the one address in dfs.namenode.shared.edits.dir
  MaxFailures,   \* bound: crashes, evictions and failed haadmin calls
  MaxInterrupts, \* bound: kills in the middle of `hdfs namenode -format`
  MaxStops       \* bound: times the user sets clusterOperation.stopped

ASSUME ReplicasAssumption == Replicas \in Nat \ {0}
ASSUME BoundsAssumption ==
  MaxFailures \in Nat /\ MaxInterrupts \in Nat /\ MaxStops \in Nat
ASSUME JournalAssumption == JournalNodes # {}

VARIABLES
  phase,      \* what each pod is doing
  probe,      \* format-namenodes: ordinal of the next namenode_id of the loop
  found,      \* format-namenodes: is ACTIVE_NAMENODE set?
  version,    \* namespace in current/VERSION on each pod's data volume, 0: no file
  nn,         \* HA state of each NameNode process
  zkfc,       \* is the zkfc process of the pod running?
  journal,    \* namespace each JournalNode is formatted for, 0: none
  znode,      \* does the HA parent znode exist?
  lock,       \* holder of the ActiveStandbyElector lock (at most one pod)
  lastId,     \* number of namespaces ever created
  stopped,    \* clusterOperation.stopped, as applied to the StatefulSets
  failures,   \* failures so far
  interrupts, \* interrupted formats so far
  stops       \* stops so far

script == <<probe, found>>
budget == <<failures, interrupts, stops>>
vars == <<phase, probe, found, version, nn, zkfc, journal, znode, lock, lastId,
          stopped, failures, interrupts, stops>>

Ordinal == 0 .. Replicas - 1
Pod == Groups \X Ordinal
Phase == {"absent", "format-namenodes", "format-zookeeper", "main"}

(* Type invariant of the bootstrap state. *)
TypeOK ==
  /\ phase \in [Pod -> Phase]
  /\ probe \in [Pod -> 0 .. Replicas]
  /\ found \in [Pod -> BOOLEAN]
  /\ version \in [Pod -> Nat]
  /\ nn \in [Pod -> {"down", "standby", "active"}]
  /\ zkfc \in [Pod -> BOOLEAN]
  /\ journal \in [JournalNodes -> Nat]
  /\ znode \in BOOLEAN
  /\ lock \in SUBSET Pod
  /\ lastId \in Nat
  /\ stopped \in BOOLEAN
  /\ failures \in 0 .. MaxFailures
  /\ interrupts \in 0 .. MaxInterrupts
  /\ stops \in 0 .. MaxStops

Init ==
  /\ phase = [p \in Pod |-> "absent"]
  /\ probe = [p \in Pod |-> 0]
  /\ found = [p \in Pod |-> FALSE]
  /\ version = [p \in Pod |-> 0]
  /\ nn = [p \in Pod |-> "down"]
  /\ zkfc = [p \in Pod |-> FALSE]
  /\ journal = [j \in JournalNodes |-> 0]
  /\ znode = FALSE
  /\ lock = {}
  /\ lastId = 0
  /\ stopped = FALSE
  /\ failures = 0
  /\ interrupts = 0
  /\ stops = 0

-----------------------------------------------------------------------------
(* The StatefulSet.  The pod management policy is left at its default,     *)
(* OrderedReady: a pod is created when all pods before it are ready, and   *)
(* pods are deleted from the highest ordinal down.                         *)

(* A NameNode pod is ready when its RPC port accepts connections (the      *)
(* readiness probe) and zkfc, which has no probe, runs.                    *)
Ready(p) == phase[p] = "main" /\ nn[p] # "down" /\ zkfc[p]

(* Mutation: sts.Spec.PodManagementPolicy = appv1.ParallelPodManagement, the  *)
(* line that Build has commented out.                                      *)
PredecessorsReadyParallel(p) == p \in Pod

PredecessorsReady(p) ==
  \A q \in Pod : q[1] = p[1] /\ q[2] < p[2] => Ready(q)

CreatePod(p) ==
  /\ ~stopped
  /\ phase[p] = "absent"
  /\ PredecessorsReady(p)
  /\ phase' = [phase EXCEPT ![p] = "format-namenodes"]
  /\ probe' = [probe EXCEPT ![p] = 0]
  /\ found' = [found EXCEPT ![p] = FALSE]
  /\ UNCHANGED <<version, nn, zkfc, journal, znode, lock, lastId, stopped, budget>>

(* The pod goes away with its processes; the data volume stays. *)
RemovePod(p) ==
  /\ phase' = [phase EXCEPT ![p] = "absent"]
  /\ nn' = [nn EXCEPT ![p] = "down"]
  /\ zkfc' = [zkfc EXCEPT ![p] = FALSE]
  /\ lock' = lock \ {p}
  /\ UNCHANGED <<script, version, journal, znode, lastId, stopped, interrupts, stops>>

ScaleDown(p) ==
  /\ stopped
  /\ phase[p] # "absent"
  /\ \A q \in Pod : q[1] = p[1] /\ q[2] > p[2] => phase[q] = "absent"
  /\ RemovePod(p)
  /\ UNCHANGED failures

(* The reconciler passes stopped to the StatefulSet reconcilers, which     *)
(* scale to 0 when it is set and back to the role group's replicas after.  *)
SetStopped ==
  /\ stops < MaxStops
  /\ ~stopped
  /\ stopped' = TRUE
  /\ stops' = stops + 1
  /\ UNCHANGED <<phase, script, version, nn, zkfc, journal, znode, lock, lastId,
                 failures, interrupts>>

ClearStopped ==
  /\ stopped
  /\ stopped' = FALSE
  /\ UNCHANGED <<phase, script, version, nn, zkfc, journal, znode, lock, lastId,
                 budget>>

-----------------------------------------------------------------------------
(* The init container format-namenodes.                                    *)

(* One iteration of the loop over the namenode ids, which are the pods of  *)
(* the pod's own role group.  `haadmin ... || true`: a call that fails,    *)
(* also one to an active NameNode, counts as "not active".                 *)
CheckActive(p) ==
  LET state == nn[<<p[1], probe[p]>>] IN
  /\ phase[p] = "format-namenodes"
  /\ ~found[p]
  /\ probe[p] < Replicas
  /\ \/ /\ state = "active"
        /\ found' = [found EXCEPT ![p] = TRUE]
        /\ UNCHANGED <<probe, failures>>
     \/ /\ state # "active"
        /\ probe' = [probe EXCEPT ![p] = @ + 1]
        /\ UNCHANGED <<found, failures>>
     \/ /\ state = "active" /\ failures < MaxFailures
        /\ probe' = [probe EXCEPT ![p] = @ + 1]
        /\ failures' = failures + 1
        /\ UNCHANGED found
  /\ UNCHANGED <<phase, version, nn, zkfc, journal, znode, lock, lastId, stopped,
                 interrupts, stops>>

LoopDone(p) ==
  phase[p] = "format-namenodes" /\ (found[p] \/ probe[p] = Replicas)

(* The script fails (set -e) and the kubelet starts it from the top. *)
RestartScript(p) ==
  /\ probe' = [probe EXCEPT ![p] = 0]
  /\ found' = [found EXCEPT ![p] = FALSE]

(* VERSION is on the volume: "already formatted. Skipping...". *)
SkipFormat(p) ==
  /\ LoopDone(p)
  /\ version[p] # 0
  /\ phase' = [phase EXCEPT ![p] = "format-zookeeper"]
  /\ UNCHANGED <<script, version, nn, zkfc, journal, znode, lock, lastId, stopped,
                 budget>>

WantsFormat(p) == LoopDone(p) /\ version[p] = 0 /\ ~found[p]
WantsBootstrap(p) == LoopDone(p) /\ version[p] = 0 /\ found[p]

(* Mutation: `-format -force` in the place of `-format -noninteractive`. *)
FormatNameNodeForce(p, j) ==
  /\ WantsFormat(p)
  /\ lastId' = lastId + 1
  /\ journal' = [journal EXCEPT ![j] = lastId']
  /\ version' = [version EXCEPT ![p] = lastId']
  /\ phase' = [phase EXCEPT ![p] = "format-zookeeper"]
  /\ UNCHANGED <<script, nn, zkfc, znode, lock, stopped, budget>>

(* `hdfs namenode -format -noninteractive` reaches JournalNode j: it      *)
(* creates a namespace, unless the JournalNode already holds one.          *)
FormatNameNode(p, j) ==
  /\ WantsFormat(p)
  /\ journal[j] = 0
  /\ lastId' = lastId + 1
  /\ journal' = [journal EXCEPT ![j] = lastId']
  /\ version' = [version EXCEPT ![p] = lastId']
  /\ phase' = [phase EXCEPT ![p] = "format-zookeeper"]
  /\ UNCHANGED <<script, nn, zkfc, znode, lock, stopped, budget>>

FormatRefused(p, j) ==
  /\ WantsFormat(p)
  /\ journal[j] # 0
  /\ RestartScript(p)
  /\ UNCHANGED <<phase, version, nn, zkfc, journal, znode, lock, lastId, stopped,
                 budget>>

(* The command is killed between formatting one of the two places (the     *)
(* local directory and the JournalNode) and the other.                     *)
FormatInterrupted(p, j) ==
  /\ WantsFormat(p)
  /\ journal[j] = 0
  /\ interrupts < MaxInterrupts
  /\ interrupts' = interrupts + 1
  /\ lastId' = lastId + 1
  /\ \/ /\ journal' = [journal EXCEPT ![j] = lastId']
        /\ UNCHANGED version
     \/ /\ version' = [version EXCEPT ![p] = lastId']
        /\ UNCHANGED journal
  /\ RestartScript(p)
  /\ UNCHANGED <<phase, nn, zkfc, znode, lock, stopped, failures, stops>>

(* `hdfs namenode -bootstrapStandby -nonInteractive` copies the image of   *)
(* a running NameNode q that hdfs-site.xml lists, the ones of the own      *)
(* role group, and needs q's edits from JournalNode j.                     *)
CanCopy(p, q, j) ==
  q[1] = p[1] /\ q # p /\ nn[q] # "down" /\ journal[j] = version[q]

BootstrapStandby(p, q, j) ==
  /\ WantsBootstrap(p)
  /\ CanCopy(p, q, j)
  /\ version' = [version EXCEPT ![p] = version[q]]
  /\ phase' = [phase EXCEPT ![p] = "format-zookeeper"]
  /\ UNCHANGED <<script, nn, zkfc, journal, znode, lock, lastId, stopped, budget>>

BootstrapFails(p, j) ==
  /\ WantsBootstrap(p)
  /\ \A q \in Pod : ~CanCopy(p, q, j)
  /\ RestartScript(p)
  /\ UNCHANGED <<phase, version, nn, zkfc, journal, znode, lock, lastId, stopped,
                 budget>>

-----------------------------------------------------------------------------
(* Mutation: exit code 2 ("ZNode already existed") treated as a failure. *)
FormatZooKeeperStrict(p) ==
  /\ phase[p] = "format-zookeeper"
  /\ p[2] = 0 => ~znode
  /\ znode' = (znode \/ p[2] = 0)
  /\ phase' = [phase EXCEPT ![p] = "main"]
  /\ UNCHANGED <<script, version, nn, zkfc, journal, lock, lastId, stopped, budget>>

(* Mutation: the pod leaves its containers without a next one to run. *)
FormatZooKeeperLast(p) ==
  /\ phase[p] = "format-zookeeper"
  /\ znode' = (znode \/ p[2] = 0)
  /\ phase' = [phase EXCEPT ![p] = "done"]
  /\ UNCHANGED <<script, version, nn, zkfc, journal, lock, lastId, stopped, budget>>

(* The init container format-zookeeper: ordinal 0 runs                     *)
(* `hdfs zkfc -formatZK -nonInteractive` and accepts both exit code 0 and  *)
(* exit code 2 (the znode existed); the others do nothing.  Any other exit *)
(* code fails the container, which is run again: a step that changes       *)
(* nothing.                                                                *)
FormatZooKeeper(p) ==
  /\ phase[p] = "format-zookeeper"
  /\ znode' = (znode \/ p[2] = 0)
  /\ phase' = [phase EXCEPT ![p] = "main"]
  /\ UNCHANGED <<script, version, nn, zkfc, journal, lock, lastId, stopped, budget>>

-----------------------------------------------------------------------------
(* The containers namenode and zkfc.                                       *)

(* A NameNode starts as standby when its VERSION belongs to the namespace  *)
(* of the JournalNode its shared edits address resolves to.                *)
StartNameNode(p, j) ==
  /\ phase[p] = "main"
  /\ nn[p] = "down"
  /\ version[p] # 0 /\ journal[j] = version[p]
  /\ nn' = [nn EXCEPT ![p] = "standby"]
  /\ UNCHANGED <<phase, script, version, zkfc, journal, znode, lock, lastId, stopped,
                 budget>>

(* zkfc exits at once when the parent znode does not exist. *)
StartZkfc(p) ==
  /\ phase[p] = "main"
  /\ ~zkfc[p]
  /\ znode
  /\ zkfc' = [zkfc EXCEPT ![p] = TRUE]
  /\ UNCHANGED <<phase, script, version, nn, journal, znode, lock, lastId, stopped,
                 budget>>

(* zkfc wins the lock and makes its NameNode active.  The one that was     *)
(* active before is asked to step down; dfs.ha.fencing.methods is          *)
(* shell(/bin/true), so fencing succeeds even when it did not.             *)
Elect(p) ==
  /\ zkfc[p] /\ nn[p] = "standby"
  /\ lock = {}
  /\ lock' = {p}
  /\ \E fenced \in BOOLEAN :
       nn' = [q \in Pod |-> IF q = p THEN "active"
                            ELSE IF fenced /\ nn[q] = "active" THEN "standby"
                            ELSE nn[q]]
  /\ UNCHANGED <<phase, script, version, zkfc, journal, znode, lastId, stopped, budget>>

(* zkfc finds the lock taken by another pod and makes its own standby. *)
StepDown(p) ==
  /\ zkfc[p] /\ nn[p] = "active"
  /\ lock # {} /\ p \notin lock
  /\ nn' = [nn EXCEPT ![p] = "standby"]
  /\ UNCHANGED <<phase, script, version, zkfc, journal, znode, lock, lastId, stopped,
                 budget>>

(* zkfc holds no lock and none is held: it takes it for its active NameNode. *)
Reclaim(p) ==
  /\ zkfc[p] /\ nn[p] = "active"
  /\ lock = {}
  /\ lock' = {p}
  /\ UNCHANGED <<phase, script, version, nn, zkfc, journal, znode, lastId, stopped,
                 budget>>

-----------------------------------------------------------------------------
(* Failures.                                                               *)

Fail == failures < MaxFailures /\ failures' = failures + 1

(* A container dies and is restarted in place: init containers do not run  *)
(* again.  A dead NameNode makes zkfc give up the lock.                    *)
CrashNameNode(p) ==
  /\ Fail
  /\ nn[p] # "down"
  /\ nn' = [nn EXCEPT ![p] = "down"]
  /\ lock' = lock \ {p}
  /\ UNCHANGED <<phase, script, version, zkfc, journal, znode, lastId, stopped,
                 interrupts, stops>>

CrashZkfc(p) ==
  /\ Fail
  /\ zkfc[p]
  /\ zkfc' = [zkfc EXCEPT ![p] = FALSE]
  /\ lock' = lock \ {p}
  /\ UNCHANGED <<phase, script, version, nn, journal, znode, lastId, stopped,
                 interrupts, stops>>

CrashScript(p) ==
  /\ Fail
  /\ phase[p] = "format-namenodes"
  /\ RestartScript(p)
  /\ UNCHANGED <<phase, version, nn, zkfc, journal, znode, lock, lastId, stopped,
                 interrupts, stops>>

(* The pod is evicted or deleted; the StatefulSet creates it again. *)
DeletePod(p) ==
  /\ Fail
  /\ phase[p] # "absent"
  /\ RemovePod(p)

-----------------------------------------------------------------------------
FormatNameNodes(p) ==
  \/ CheckActive(p)
  \/ SkipFormat(p)
  \/ \E j \in JournalNodes : FormatNameNode(p, j)
  \/ \E j \in JournalNodes : FormatRefused(p, j)
  \/ \E j \in JournalNodes, q \in Pod : BootstrapStandby(p, q, j)
  \/ \E j \in JournalNodes : BootstrapFails(p, j)

Kubelet(p) ==
  \/ FormatNameNodes(p)
  \/ FormatZooKeeper(p)
  \/ \E j \in JournalNodes : StartNameNode(p, j)
  \/ StartZkfc(p)

Failover(p) == Elect(p) \/ StepDown(p) \/ Reclaim(p)

Failure(p) ==
  \/ CrashNameNode(p)
  \/ CrashZkfc(p)
  \/ CrashScript(p)
  \/ DeletePod(p)
  \/ \E j \in JournalNodes : FormatInterrupted(p, j)

Next ==
  \/ \E p \in Pod : CreatePod(p)
  \/ \E p \in Pod : ScaleDown(p)
  \/ SetStopped
  \/ ClearStopped
  \/ \E p \in Pod : Kubelet(p)
  \/ \E p \in Pod : Failover(p)
  \/ \E p \in Pod : Failure(p)

Spec == Init /\ [][Next]_vars

(* What keeps running: the StatefulSet controller creates missing pods, the *)
(* kubelet runs and restarts containers, every zkfc takes part in the       *)
(* election.  The user and the failures owe nothing.                        *)
Fairness ==
  /\ \A p \in Pod : WF_vars(CreatePod(p))
  /\ \A p \in Pod : WF_vars(ScaleDown(p))
  /\ \A p \in Pod : WF_vars(FormatNameNodes(p))
  /\ \A p \in Pod : WF_vars(FormatZooKeeper(p))
  /\ \A p \in Pod : WF_vars(\E j \in JournalNodes : StartNameNode(p, j))
  /\ \A p \in Pod : WF_vars(StartZkfc(p))
  /\ \A p \in Pod : WF_vars(Failover(p))

FairSpec == Spec /\ Fairness

-----------------------------------------------------------------------------
(* dfs.namenode.shared.edits.dir has one address per JournalNode role      *)
(* group (GetJournalNodeServicesForSharedEdits).  With one JournalNode     *)
(* behind it every process reaches the same journal.                       *)
SingleJournal == \A i, j \in JournalNodes : i = j

(* All data volumes of a role group that carry a VERSION file carry the    *)
(* same namespace: the check-then-format of format-namenodes, run by every *)
(* pod with an answer of haadmin that may be stale when it is used, never  *)
(* splits the file system.                                                 *)
SingleNamespace ==
  \A p, q \in Pod :
    p[1] = q[1] /\ version[p] # 0 /\ version[q] # 0 => version[p] = version[q]

(* The NameNodes that run belong to one role group.  format-namenodes asks *)
(* only the pods of its own group for an active NameNode, so of two role   *)
(* groups on one journal the second never gets past its first format.      *)
OneGroupServes ==
  \A p, q \in Pod : nn[p] # "down" /\ nn[q] # "down" => p[1] = q[1]

(* When the main containers of a pod start, its volume is formatted and    *)
(* the znode that zkfc needs exists, although only ordinal 0 of the two    *)
(* init containers' runs creates it.                                       *)
MainInitialised == \A p \in Pod : phase[p] = "main" => znode /\ version[p] # 0

(* format-namenodes never creates a namespace while some NameNode serves,  *)
(* however long ago it looked for an active one.                           *)
NoFormatWhileServing ==
  [][lastId' # lastId => \A p \in Pod : nn[p] = "down"]_vars

(* Two JournalNodes that hold edits hold those of one namespace, as the    *)
(* quorum of JournalNodes in the comment on makeNamenodeSharedEditDir      *)
(* does.                                                                   *)
SharedEditsAreShared ==
  \A i, j \in JournalNodes :
    journal[i] # 0 /\ journal[j] # 0 => journal[i] = journal[j]

-----------------------------------------------------------------------------
(* With one JournalNode the namespace of the cluster is the journal's.     *)
Serving == {p \in Pod : nn[p] # "down"}
JournalNamespace == journal[CHOOSE j \in JournalNodes : TRUE]

FileSystem ==
  INSTANCE Namespace WITH
    NameNode <- Pod,
    namespace <- JournalNamespace,
    members <- {p \in Pod : version[p] # 0 /\ version[p] = JournalNamespace},
    serving <- Serving

(* The commands of the init containers, in all their interleavings with    *)
(* crashes, evictions, stops and fail-overs, create one file system and    *)
(* add volumes to it by copying: they implement Namespace.                 *)
ImplementsNamespace == FileSystem!Spec
=============================================================================
