-------------------------- MODULE ClusterReconcile --------------------------
(***************************************************************************)
(* The controller: HdfsClusterReconciler.Reconcile as controller-runtime   *)
(* drives it, the objects it creates and updates in the API server, the    *)
(* informer caches it reads, and as much of the pods as it looks at.       *)
(*                                                                         *)
(* A pass builds the list of resources from the HdfsCluster it read        *)
(* (ServiceAccount; per NameNode, JournalNode and DataNode role group the  *)
(* headless Service, metrics Service, StatefulSet and ConfigMap; discovery *)
(* last) and reconciles one after the other; it ends at the first error,   *)
(* at the first object it had to write, or with the readiness check.       *)
(* Resources are compared with the objects of their name: two resources    *)
(* that share a name share the object.                                     *)
(***************************************************************************)
EXTENDS Integers, FiniteSets, Functions

CONSTANTS
  Groups,       \* role group names
  MetricsName,  \* the group name whose Service is called like a group's metrics Service
  Specs,        \* HdfsCluster specs the user may apply
  Edited,       \* bound: the specs the user changes, among each other, or deletes
  Resyncs,      \* does the periodic resync of the informer happen?
  MaxEvents,    \* bound: edits of the HdfsCluster, failing API calls, lost pods,
                \* operator restarts and drift
  MaxDrift      \* bound: objects deleted and Listeners moved behind the operator's back

Roles == {"namenode", "journalnode", "datanode"}
SpecType ==
  [namenode : SUBSET Groups, journalnode : SUBSET Groups, datanode : SUBSET Groups,
   replicas : [Roles -> Nat \ {0}], conf : Nat, security : Nat, stopped : BOOLEAN]

ASSUME NamesAssumption == \A g \in Groups : MetricsName[g] # g
ASSUME SpecsAssumption == Specs \subseteq SpecType /\ Edited \subseteq Specs
ASSUME LimitsAssumption == Resyncs \in BOOLEAN /\ MaxEvents \in Nat /\ MaxDrift \in Nat

VARIABLES
  cr,       \* spec of the HdfsCluster in the API server
  exists,   \* is the HdfsCluster there?
  seen,     \* the HdfsCluster in the informer cache: spec and exists
  store,    \* the owned objects in the API server
  cache,    \* the owned objects in the informer caches
  ready,    \* ready pods of each StatefulSet
  address,  \* what the Listener informer says of the NameNodes
  queued,   \* is the request in the work queue?
  timer,    \* is a RequeueAfter pending?
  running,  \* is a pass running?
  spec,     \* the spec it read
  done,     \* the resources it has reconciled
  late,     \* history: were the caches behind when a delay ran out?
  events, drift  \* bounded events so far

env == <<cr, exists, address, drift>>
pass == <<running, spec, done>>
vars == <<cr, exists, seen, store, cache, ready, address, queued, timer, running, spec, done,
          late, events, drift>>

Kinds == {"service", "metrics", "statefulset", "configmap"}
ServiceAccount == <<"cluster", "", "serviceaccount">>
DiscoveryMap == <<"discovery", "", "discovery">>
Resource == (Roles \X Groups \X Kinds) \cup {ServiceAccount, DiscoveryMap}

(* CreateServiceMetricsName appends "-metrics" to the name of the group's  *)
(* Service, which the Service of another group may be called as well.      *)
Name(o) == IF o[3] = "metrics" THEN <<o[1], MetricsName[o[2]], "service">> ELSE o

Object == {Name(o) : o \in Resource}

(* The orders in which a Go map over the role groups may be ranged over. *)
RangeOrders(groups) == Bijection(1 .. Cardinality(groups), groups)

(* What is in an object: the resource it was written for, the              *)
(* configuration, TLS and Kerberos, its replicas, and, where it has them,  *)
(* the number of NameNodes per group that it lists, their addresses, and   *)
(* the order in which it lists role groups.                                *)
Absent == [from |-> <<>>, conf |-> 0, security |-> 0, replicas |-> 0, listed |-> 0,
           address |-> 0, order |-> <<>>]
Content ==
  [from : Resource \cup {<<>>}, conf : Nat, security : Nat, replicas : Nat, listed : Nat,
   address : Nat, order : UNION {RangeOrders(groups) : groups \in SUBSET Groups}]

(* Type invariant of the controller, the API server and the caches. *)
TypeOK ==
  /\ cr \in Specs /\ spec \in Specs
  /\ exists \in BOOLEAN
  /\ seen.spec \in Specs /\ seen.exists \in BOOLEAN
  /\ store \in [Object -> Content]
  /\ cache \in [Object -> Content]
  /\ ready \in [Roles \X Groups -> Nat] /\ address \in Nat
  /\ queued \in BOOLEAN /\ timer \in BOOLEAN /\ running \in BOOLEAN
  /\ done \in SUBSET Resource /\ late \in BOOLEAN
  /\ events \in 0 .. MaxEvents /\ drift \in 0 .. MaxDrift

Init ==
  /\ cr \in Specs
  /\ exists = TRUE
  /\ seen = [spec |-> cr, exists |-> TRUE]
  /\ store = [o \in Object |-> Absent]
  /\ cache = [o \in Object |-> Absent]
  /\ ready = [p \in Roles \X Groups |-> 0]
  /\ address = 0
  /\ queued = TRUE
  /\ timer = FALSE
  /\ running = FALSE
  /\ spec = cr
  /\ done = {}
  /\ late = FALSE
  /\ events = 0 /\ drift = 0

-----------------------------------------------------------------------------
(* What a spec asks for.                                                   *)

(* The resources that RegisterResources adds. *)
RegisterResources(s) ==
  {o \in Roles \X Groups \X Kinds : o[2] \in s[o[1]]} \cup {ServiceAccount, DiscoveryMap}

(* Mutation: discovery registered before the roles. *)
StageDiscoveryFirst ==
  [cluster |-> 1, discovery |-> 2, namenode |-> 3, journalnode |-> 4, datanode |-> 5]

(* The order of the registrations in RegisterResources. *)
Stage ==
  [cluster |-> 1, namenode |-> 2, journalnode |-> 3, datanode |-> 4, discovery |-> 5]

(* The order of RegisterStandardResources within a role group. *)
Rank == [serviceaccount |-> 1, discovery |-> 1,
         service |-> 1, metrics |-> 2, statefulset |-> 3, configmap |-> 4]

(* o is next in the pass: earlier roles are done, earlier kinds of its     *)
(* role group are done, and no other group of its role is half done.  The  *)
(* groups of a role come in the order of a Go map, that is in any order.   *)
IsNext(o) ==
  LET rest == RegisterResources(spec) \ done
  IN  /\ o \in rest
      /\ \A q \in rest :
           /\ Stage[o[1]] <= Stage[q[1]]
           /\ q[1] = o[1] /\ q[2] = o[2] => Rank[o[3]] <= Rank[q[3]]
           /\ q[1] = o[1] /\ q[2] # o[2] => <<q[1], q[2], "service">> \notin done

(* Mutation: -1 as the replicas of a stopped cluster. *)
WantReplicasNegative(r, s) == IF s.stopped THEN -1 ELSE s.replicas[r]

(* A StatefulSet is scaled to 0 when the cluster is stopped. *)
WantReplicas(r, s) == IF s.stopped THEN 0 ELSE s.replicas[r]

(* The objects that list NameNode pods, as many as the spec has replicas,  *)
(* also of a stopped cluster: getPodNames in discovery, hdfs-site.xml, and *)
(* nameNodeIds in the arguments of a DataNode's init container.            *)
ListsNameNodes(o) ==
  o[3] \in {"discovery", "configmap"} \/ (o[1] = "datanode" /\ o[3] = "statefulset")

(* Discovery and a DataNode's init container list the NameNode groups,     *)
(* GetJournalNodeServiceNames the JournalNode groups in                    *)
(* dfs.namenode.shared.edits.dir of every hdfs-site.xml, all in the order  *)
(* of a Go map, which is another one at every build.                       *)
GroupOrders(o, s) ==
  IF o[3] = "configmap" THEN RangeOrders(s.journalnode)
  ELSE IF ListsNameNodes(o) THEN RangeOrders(s.namenode)
  ELSE {<<>>}

(* Ports, schemes and properties follow TLS and Kerberos, except in a      *)
(* DataNode's Service.                                                     *)
UsesSecurity(o) == o # ServiceAccount /\ ~(o[1] = "datanode" /\ o[3] = "service")

(* What a builder may put into the object, a being the addresses that the  *)
(* Listeners of the NameNodes have.                                        *)
Desired(o, s, a) ==
  {[from |-> o,
    conf |-> IF o[3] \in {"statefulset", "configmap"} THEN s.conf ELSE 0,
    security |-> IF UsesSecurity(o) THEN s.security ELSE 0,
    replicas |-> IF o[3] = "statefulset" THEN WantReplicas(o[1], s) ELSE 0,
    listed |-> IF ListsNameNodes(o) THEN s.replicas["namenode"] ELSE 0,
    address |-> IF o = DiscoveryMap THEN a ELSE 0,
    order |-> order] : order \in GroupOrders(o, s)}

(* hdfs-site.xml of a role group takes the NameNodes from the NameNode     *)
(* role group of the same name; without one the build panics on a nil      *)
(* pointer, which controller-runtime turns into an error.                  *)
Panics(o, s) == o[3] = "configmap" /\ o[2] \notin s.namenode

(* The pods of a StatefulSet that exist: with OrderedReady management      *)
(* those that are ready and the one that is starting.                      *)
StsReplicas(r, g) == store[<<r, g, "statefulset">>].replicas
PodCount(r, g) == ready[<<r, g>>] + IF ready[<<r, g>>] < StsReplicas(r, g) THEN 1 ELSE 0

(* Building discovery fails until every NameNode pod of the spec exists. *)
CanBuild(o, s) ==
  /\ ~Panics(o, s)
  /\ o = DiscoveryMap =>
       \A g \in s.namenode : PodCount("namenode", g) >= s.replicas["namenode"]

-----------------------------------------------------------------------------
(* The ways a pass ends.                                                   *)
ReturnError == running' = FALSE /\ queued' = TRUE /\ UNCHANGED timer

(* Mutation: an empty result instead of the one that asks for a delay. *)
RequeueNever == running' = FALSE /\ UNCHANGED <<queued, timer>>

RequeueAfter == running' = FALSE /\ timer' = TRUE /\ UNCHANGED queued
ReturnDone == running' = FALSE /\ UNCHANGED <<queued, timer>>

(* Mutation: a missing HdfsCluster is reconciled from its last spec. *)
StartPassDeleted ==
  /\ queued /\ ~running
  /\ queued' = FALSE
  /\ running' = TRUE
  /\ spec' = seen.spec
  /\ done' = {}
  /\ UNCHANGED <<env, seen, store, cache, ready, timer, events, late>>

(* Mutation: a stopped HdfsCluster is left alone. *)
StartPassStopped ==
  /\ queued /\ ~running
  /\ queued' = FALSE
  /\ running' = (seen.exists /\ ~seen.spec.stopped)
  /\ spec' = seen.spec
  /\ done' = {}
  /\ UNCHANGED <<env, seen, store, cache, ready, timer, events, late>>

(* The work queue hands the request to a worker: Reconcile reads the       *)
(* HdfsCluster and registers the resources, or returns if it is gone.      *)
StartPass ==
  /\ queued /\ ~running
  /\ queued' = FALSE
  /\ running' = seen.exists
  /\ spec' = seen.spec
  /\ done' = {}
  /\ UNCHANGED <<env, seen, store, cache, ready, timer, events, late>>

(* A pass that had to write an object ends and is tried again later. *)
Write(o, want) ==
  /\ store' = [store EXCEPT ![Name(o)] = want]
  /\ RequeueAfter
  /\ UNCHANGED done

(* One resource of the pass.  Its builder is this repository's, the write  *)
(* is operator-go's: CreateOrUpdate against the cache, where an object     *)
(* that is as desired is skipped; otherwise Create fails when the object   *)
(* exists already and Update when it is not the version that was read.     *)
ReconcileResource(o) ==
  /\ running /\ IsNext(o)
  /\ \/ /\ ~CanBuild(o, spec)
        /\ ReturnError
        /\ UNCHANGED <<store, done>>
     \/ /\ CanBuild(o, spec)
        /\ \E want \in Desired(o, spec, address) :
             \/ /\ cache[Name(o)] = want
                /\ done' = done \cup {o}
                /\ UNCHANGED <<store, queued, timer, running>>
             \/ /\ cache[Name(o)] # want /\ cache[Name(o)] = store[Name(o)]
                /\ Write(o, want)
             \/ /\ cache[Name(o)] # want /\ cache[Name(o)] # store[Name(o)]
                /\ ReturnError
                /\ UNCHANGED <<store, done>>
  /\ UNCHANGED <<env, seen, cache, ready, spec, events, late>>

AllReady(s) ==
  \A r \in Roles : \A g \in s[r] :
    ready[<<r, g>>] = WantReplicas(r, s)

(* All resources are reconciled: the pass asks whether the pods are ready. *)
CheckReady ==
  /\ running /\ RegisterResources(spec) \subseteq done
  /\ \/ AllReady(spec) /\ ReturnDone
     \/ ~AllReady(spec) /\ RequeueAfter
  /\ UNCHANGED <<env, seen, store, cache, ready, spec, done, events, late>>

(* An API call of the pass fails. *)
ApiError ==
  /\ running /\ events < MaxEvents
  /\ events' = events + 1
  /\ ReturnError
  /\ UNCHANGED <<env, seen, store, cache, ready, spec, done, late>>

(* The earliest delay (1s and more) that was asked for is over.  Mostly    *)
(* the caches have the operator's writes by then; late tells whether not.  *)
TimerFires ==
  /\ timer
  /\ timer' = FALSE
  /\ queued' = TRUE
  /\ late' = (cache # store)
  /\ UNCHANGED <<env, seen, store, cache, ready, pass, events>>

(* The operator dies and comes back: queue and pass are lost, the caches   *)
(* are listed anew and every HdfsCluster found is enqueued.                *)
Restart ==
  /\ events < MaxEvents
  /\ events' = events + 1
  /\ seen' = [spec |-> cr, exists |-> exists]
  /\ cache' = store
  /\ queued' = exists
  /\ timer' = FALSE
  /\ running' = FALSE
  /\ late' = FALSE
  /\ UNCHANGED <<env, store, ready, spec, done>>

(* The informer's periodic resync. *)
Resync ==
  /\ Resyncs
  /\ seen.exists /\ ~queued /\ ~running
  /\ queued' = TRUE
  /\ late' = (late /\ cache # store)
  /\ UNCHANGED <<env, seen, store, cache, ready, timer, pass, events>>

-----------------------------------------------------------------------------
(* The user, the informers and Kubernetes.                                 *)
EditCluster(s) ==
  /\ events < MaxEvents /\ exists /\ cr \in Edited /\ s # cr
  /\ cr' = s
  /\ events' = events + 1
  /\ UNCHANGED <<exists, address, drift, seen, store, cache, ready, queued, timer, pass, late>>

DeleteCluster ==
  /\ events < MaxEvents /\ exists /\ cr \in Edited
  /\ exists' = FALSE
  /\ events' = events + 1
  /\ UNCHANGED <<cr, address, drift, seen, store, cache, ready, queued, timer, pass, late>>

(* Mutation: an event that arrives during a pass is dropped. *)
ObserveClusterIdle ==
  /\ seen # [spec |-> cr, exists |-> exists]
  /\ seen' = [spec |-> cr, exists |-> exists]
  /\ queued' = (queued \/ ~running)
  /\ UNCHANGED <<env, store, cache, ready, timer, pass, events, late>>

(* The watch that SetupWithManager sets up: only HdfsCluster. *)
ObserveCluster ==
  /\ seen # [spec |-> cr, exists |-> exists]
  /\ seen' = [spec |-> cr, exists |-> exists]
  /\ queued' = TRUE
  /\ UNCHANGED <<env, store, cache, ready, timer, pass, events, late>>

ObserveObject(o) ==
  /\ cache[o] # store[o]
  /\ cache' = [cache EXCEPT ![o] = store[o]]
  /\ UNCHANGED <<env, seen, store, ready, queued, timer, pass, events, late>>

(* Somebody deletes an owned object. *)
Drift(o) ==
  /\ events < MaxEvents /\ drift < MaxDrift /\ exists /\ store[o] # Absent
  /\ drift' = drift + 1 /\ events' = events + 1
  /\ store' = [store EXCEPT ![o] = Absent]
  /\ UNCHANGED <<cr, exists, address, seen, cache, ready, queued, timer, pass, late>>

(* A NameNode gets another address; nothing watches the Listeners. *)
ListenerMoves ==
  /\ events < MaxEvents /\ drift < MaxDrift
  /\ drift' = drift + 1 /\ events' = events + 1
  /\ address' = address + 1
  /\ UNCHANGED <<cr, exists, seen, store, cache, ready, queued, timer, pass, late>>

(* The garbage collector removes what has lost its owner; its sweep, and   *)
(* the caches' notice of it, is one step.                                  *)
Collect ==
  /\ ~exists /\ \E o \in Object : store[o] # Absent
  /\ store' = [o \in Object |-> Absent]
  /\ cache' = [o \in Object |-> Absent]
  /\ UNCHANGED <<env, seen, ready, queued, timer, pass, events, late>>

(* A pod needs its ConfigMap, a NameNode also a JournalNode. *)
PodReady(r, g) ==
  /\ ready[<<r, g>>] < StsReplicas(r, g)
  /\ store[<<r, g, "configmap">>] # Absent
  /\ r = "namenode" => \E h \in Groups : ready[<<"journalnode", h>>] > 0
  /\ ready' = [ready EXCEPT ![<<r, g>>] = @ + 1]
  /\ UNCHANGED <<env, seen, store, cache, queued, timer, pass, events, late>>

PodRemoved(r, g) ==
  /\ ready[<<r, g>>] > StsReplicas(r, g)
  /\ ready' = [ready EXCEPT ![<<r, g>>] = @ - 1]
  /\ UNCHANGED <<env, seen, store, cache, queued, timer, pass, events, late>>

PodLost(r, g) ==
  /\ events < MaxEvents /\ ready[<<r, g>>] > 0
  /\ events' = events + 1
  /\ ready' = [ready EXCEPT ![<<r, g>>] = @ - 1]
  /\ UNCHANGED <<env, seen, store, cache, queued, timer, pass, late>>

-----------------------------------------------------------------------------
Controller ==
  \/ StartPass
  \/ \E o \in Resource : ReconcileResource(o)
  \/ CheckReady

Kubernetes ==
  \/ TimerFires
  \/ Resync
  \/ ObserveCluster
  \/ \E o \in Object : ObserveObject(o)
  \/ Collect
  \/ \E r \in Roles, g \in Groups : PodReady(r, g)
  \/ \E r \in Roles, g \in Groups : PodRemoved(r, g)

Trouble ==
  \/ ApiError
  \/ Restart
  \/ \E r \in Roles, g \in Groups : PodLost(r, g)
  \/ \E o \in Object : Drift(o)
  \/ ListenerMoves

User == DeleteCluster \/ \E s \in Edited : EditCluster(s)

Next == Controller \/ Kubernetes \/ Trouble \/ User

Spec == Init /\ [][Next]_vars

(* The worker, the informers, the garbage collector, the timers and the    *)
(* kubelets keep going; the user and the trouble owe nothing.              *)
Fairness ==
  /\ WF_vars(Controller)
  /\ WF_vars(TimerFires)
  /\ WF_vars(Resync)
  /\ WF_vars(ObserveCluster)
  /\ WF_vars(Collect)
  /\ \A o \in Object : WF_vars(ObserveObject(o))
  /\ \A r \in Roles, g \in Groups : WF_vars(PodReady(r, g)) /\ WF_vars(PodRemoved(r, g))

FairSpec == Spec /\ Fairness

-----------------------------------------------------------------------------
Quiescent ==
  /\ ~queued /\ ~timer /\ ~running
  /\ seen = [spec |-> cr, exists |-> exists]

Matches(o) == store[Name(o)] \in Desired(o, cr, address)

(* When the controller has nothing left to do, every object of the spec    *)
(* that is in the API server now is there with its desired content: no     *)
(* edit is lost, although a pass may work on an outdated spec, decide from *)
(* outdated caches that there is nothing to write, and meet another order  *)
(* of the role groups than the one it wrote before.  Two things are set    *)
(* aside.  Nothing in the code notices a lost object or a Listener that    *)
(* moved.  And if a delay ran out before the caches had the last write,    *)
(* the pass that follows may take an edit back to an earlier spec for done *)
(* already, and rest on it until the next resync.                          *)
QuiescentMatches ==
  Quiescent /\ exists /\ drift = 0 /\ ~late => \A o \in RegisterResources(cr) : Matches(o)

(* A spec whose metrics Service of one group has the name of the Service   *)
(* of another never lets the controller rest, under the same conditions:   *)
(* every pass finds one of the two changed, writes it and ends, so that    *)
(* discovery is never reached.                                             *)
ClashNeverRests ==
  Quiescent /\ exists /\ drift = 0 /\ ~late =>
    \A o, q \in RegisterResources(cr) : Name(o) = Name(q) => o = q

(* One group per role; JournalNodes and DataNodes in the NameNodes' group. *)
Runnable(s) ==
  /\ ~s.stopped /\ s.journalnode # {}
  /\ \A r \in Roles : s[r] \subseteq s.namenode /\ Cardinality(s[r]) <= 1

(* When the user leaves a runnable cluster alone, all its objects come to  *)
(* be as desired, discovery with the addresses that the Listeners have     *)
(* last, and all pods ready, from whatever state the edits, errors,        *)
(* restarts, lost pods and deletions before have left, and however far the *)
(* caches were behind.                                                     *)
Converges ==
  <>[](exists /\ Runnable(cr)) =>
    <>[](AllReady(cr) /\ \A o \in RegisterResources(cr) : Matches(o))

(* A cluster that is stopped for good loses all pods of its role groups,   *)
(* although no pass ever gets past discovery.                              *)
StopScalesDown ==
  <>[](exists /\ cr.stopped /\ \A r \in Roles : cr[r] \subseteq cr.namenode) =>
    <>[](\A r \in Roles : \A g \in cr[r] : ready[<<r, g>>] = 0)

(* Of a deleted HdfsCluster nothing remains, also when a pass was under    *)
(* way that went on to create objects.                                     *)
DeletedIsGone == <>[]~exists => <>[](\A o \in Object : store[o] = Absent)
=============================================================================
