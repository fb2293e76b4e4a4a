----------------------- MODULE ClusterReconcileProofs -----------------------
(***************************************************************************)
(* Proofs about ClusterReconcile, for every set of role groups and specs,  *)
(* every number of edits, errors and deletions by others.                  *)
(*                                                                         *)
(* QuiescentMatches is not inductive: it speaks of moments without a pass, *)
(* and what holds then was put together by a pass, piece by piece, while   *)
(* the spec, the caches and the queue moved on.  IInv says what a pass may *)
(* rely on as long as nothing else is due: a write that the caches have    *)
(* not seen leaves a timer, and a new spec a request in the queue.         *)
(***************************************************************************)
EXTENDS ClusterReconcile, FiniteSetTheorems, TLAPS

(* Every resource of os is in the API server as s wants it. *)
AllMatch(os, s) == \A o \in os : store[Name(o)] \in Desired(o, s, address)

(* The owned objects are nobody else's concern, and the caches had caught  *)
(* up when the last delay was over.                                        *)
Undisturbed == exists /\ drift = 0 /\ ~late

(* A deleted HdfsCluster does not come back. *)
DeletedInv == exists => seen.exists

(* Only while a timer is pending are the caches behind. *)
CacheInv == Undisturbed /\ ~timer => cache = store

(* A pass that will not be followed by another has the spec of the cache,  *)
(* and what it has done is done.                                           *)
PassInv ==
  running /\ ~queued =>
    /\ spec = seen.spec
    /\ Undisturbed /\ ~timer => AllMatch(done, spec)

(* At rest everything is as the spec in the cache wants it. *)
RestInv ==
  Undisturbed /\ ~running /\ ~queued /\ ~timer =>
    AllMatch(RegisterResources(seen.spec), seen.spec)

IInv ==
  /\ drift \in Nat
  /\ seen = [spec |-> seen.spec, exists |-> seen.exists]
  /\ DeletedInv
  /\ CacheInv
  /\ PassInv
  /\ RestInv

-----------------------------------------------------------------------------
(* The invariant holds before the first pass, which is queued. *)
LEMMA IInvInit == Init => IInv
BY DEF Init, IInv, DeletedInv, CacheInv, PassInv, RestInv, AllMatch

(* Steps that change neither the objects nor what is known of the spec,    *)
(* and that do not end a pass, keep the invariant.                         *)
LEMMA QuietStep ==
  ASSUME IInv,
         UNCHANGED <<exists, address, drift, late, seen, store, cache, queued, timer,
                     running, spec, done>>
  PROVE  IInv'
BY DEF IInv, DeletedInv, CacheInv, PassInv, RestInv, AllMatch, Undisturbed

(* A pass begins with nothing done, or does not begin: then the            *)
(* HdfsCluster is gone.                                                    *)
LEMMA StartPassStep == IInv /\ StartPass => IInv'
BY DEF StartPass, env, IInv, DeletedInv, CacheInv, PassInv, RestInv, AllMatch, Undisturbed

(* One resource of a pass keeps the invariant: it is skipped because the   *)
(* cache, which is up to date unless a timer is pending, has the content   *)
(* that is wanted; or the pass ends with a timer or a request.             *)
LEMMA ReconcileStep ==
  ASSUME IInv, NEW o \in Resource, ReconcileResource(o)
  PROVE  IInv'
<1>1. /\ running
      /\ UNCHANGED <<exists, address, drift, late, seen, cache, spec>>
  BY DEF ReconcileResource, env
<1>2. CASE running' = FALSE /\ queued' = TRUE /\ UNCHANGED <<timer, store, done>>
  BY <1>1, <1>2 DEF IInv, DeletedInv, CacheInv, PassInv, RestInv, Undisturbed
<1>3. CASE running' = FALSE /\ timer' = TRUE /\ UNCHANGED queued
  BY <1>1, <1>3 DEF IInv, DeletedInv, CacheInv, PassInv, RestInv, Undisturbed
<1>4. CASE /\ cache[Name(o)] \in Desired(o, spec, address)
           /\ done' = done \cup {o}
           /\ UNCHANGED <<store, queued, timer, running>>
  <2>1. AllMatch(done, spec) /\ cache = store => AllMatch(done, spec)'
    BY <1>1, <1>4 DEF AllMatch
  <2> QED
    BY <1>1, <1>4, <2>1, SMTT(60)
    DEF IInv, DeletedInv, CacheInv, PassInv, RestInv, Undisturbed
<1> QED
  BY <1>2, <1>3, <1>4, ZenonT(60)
  DEF ReconcileResource, ReturnError, Write, RequeueAfter

(* A pass that has been through all resources leaves them as its spec      *)
(* wants them, unless a request or a timer is pending.                     *)
LEMMA CheckReadyStep == IInv /\ CheckReady => IInv'
<1> SUFFICES ASSUME IInv, CheckReady PROVE IInv'
  OBVIOUS
<1>1. /\ running /\ running' = FALSE
      /\ UNCHANGED <<exists, address, drift, late, seen, store, cache, spec, done>>
  BY DEF CheckReady, env, ReturnDone, RequeueAfter
<1>2. AllMatch(done, spec) => AllMatch(RegisterResources(spec), spec)'
  BY <1>1 DEF CheckReady, AllMatch, RegisterResources
<1>3. CASE timer' = TRUE
  BY <1>1, <1>3, SMTT(60)
  DEF IInv, DeletedInv, CacheInv, PassInv, RestInv, Undisturbed
<1>4. CASE UNCHANGED <<queued, timer>>
  BY <1>1, <1>2, <1>4 DEF IInv, DeletedInv, CacheInv, PassInv, RestInv, Undisturbed
<1> QED
  BY <1>3, <1>4, ZenonT(60) DEF CheckReady, ReturnDone, RequeueAfter

(* The queue, the timers and the end of the operator: a pass that is       *)
(* dropped or may have worked on old caches is followed by another.        *)
LEMMA QueueStep ==
  IInv /\ (ApiError \/ TimerFires \/ Restart \/ Resync) => IInv'
<1> SUFFICES ASSUME IInv, ApiError \/ TimerFires \/ Restart \/ Resync PROVE IInv'
  OBVIOUS
<1>1. CASE ApiError
  BY <1>1, SMTT(60)
  DEF ApiError, ReturnError, env, IInv, DeletedInv, CacheInv, PassInv, RestInv, Undisturbed
<1>2. CASE TimerFires
  BY <1>2, ZenonT(60)
  DEF TimerFires, env, pass, IInv, DeletedInv, CacheInv, PassInv, RestInv, Undisturbed
<1>3. CASE Restart
  BY <1>3 DEF Restart, env, IInv, DeletedInv, CacheInv, PassInv, RestInv, Undisturbed
<1>4. CASE Resync
  BY <1>4, ZenonT(60)
  DEF Resync, env, pass, IInv, DeletedInv, CacheInv, PassInv, RestInv, Undisturbed
<1> QED
  BY <1>1, <1>2, <1>3, <1>4

(* The user and the watch: an edit changes nothing the controller knows,   *)
(* and what the watch tells it is queued.                                  *)
LEMMA UserStep ==
  IInv /\ (User \/ ObserveCluster) => IInv'
<1> SUFFICES ASSUME IInv, User \/ ObserveCluster PROVE IInv'
  OBVIOUS
<1>1. ASSUME NEW s \in Edited, EditCluster(s) PROVE IInv'
  <2>1. UNCHANGED <<exists, address, drift, late, seen, store, cache, queued, timer, running, spec, done>>
    BY <1>1 DEF EditCluster, pass
  <2> QED
    BY <2>1, QuietStep
<1>2. CASE DeleteCluster
  BY <1>2, SMTT(60)
  DEF DeleteCluster, pass, IInv, DeletedInv, CacheInv, PassInv, RestInv,
      Undisturbed
<1>3. CASE ObserveCluster
  BY <1>3 DEF ObserveCluster, env, pass, IInv, DeletedInv, CacheInv, PassInv, RestInv,
              Undisturbed
<1> QED
  BY <1>1, <1>2, <1>3 DEF User

(* The informers and the others: a cache is renewed only while a timer is  *)
(* pending, a lost object or a moved Listener counts as drift, and only    *)
(* the objects of a deleted cluster are collected.                         *)
LEMMA ObjectStep ==
  ASSUME IInv, Collect \/ ListenerMoves \/ \E o \in Object : ObserveObject(o) \/ Drift(o)
  PROVE  IInv'
<1>1. CASE Collect
  BY <1>1, SMTT(60)
  DEF Collect, env, pass, IInv, DeletedInv, CacheInv, PassInv, RestInv,
      Undisturbed
<1>2. ASSUME NEW o \in Object, ObserveObject(o) PROVE IInv'
  <2>1. ~Undisturbed \/ timer
    BY <1>2, SMTT(60) DEF ObserveObject, IInv, CacheInv
  <2> QED
    BY <1>2, <2>1 DEF ObserveObject, env, pass, IInv, DeletedInv, CacheInv, PassInv,
                      RestInv, Undisturbed
<1>3. ASSUME NEW o \in Object, Drift(o) PROVE IInv'
  <2>1. drift' \in Nat /\ drift' # 0
    BY <1>3 DEF Drift, IInv
  <2> QED
    BY <1>3, <2>1 DEF Drift, pass, IInv, DeletedInv, CacheInv, PassInv, RestInv,
                      Undisturbed
<1>4. CASE ListenerMoves
  <2>1. drift' \in Nat /\ drift' # 0
    BY <1>4 DEF ListenerMoves, IInv
  <2> QED
    BY <1>4, <2>1 DEF ListenerMoves, pass, IInv, DeletedInv, CacheInv, PassInv, RestInv,
                      Undisturbed
<1> QED
  BY <1>1, <1>2, <1>3, <1>4, SMTT(60)

(* Pods change nothing but the number of those that are ready. *)
LEMMA PodStep ==
  ASSUME IInv, NEW r \in Roles, NEW g \in Groups,
         PodReady(r, g) \/ PodRemoved(r, g) \/ PodLost(r, g)
  PROVE  IInv'
<1>1. UNCHANGED <<exists, address, drift, late, seen, store, cache, queued, timer, running, spec, done>>
  BY DEF PodReady, PodRemoved, PodLost, env, pass
<1> QED
  BY <1>1, QuietStep, SMTT(60)

(* Every step keeps the invariant. *)
LEMMA IInvStep == IInv /\ [Next]_vars => IInv'
<1> SUFFICES ASSUME IInv, [Next]_vars PROVE IInv'
  OBVIOUS
<1>1. CASE UNCHANGED vars
  BY <1>1, QuietStep DEF vars
<1>2. CASE Controller
  BY <1>2, StartPassStep, ReconcileStep, CheckReadyStep, SMTT(60) DEF Controller
<1>3. CASE Kubernetes
  BY <1>3, QueueStep, UserStep, ObjectStep, PodStep, SMTT(60) DEF Kubernetes
<1>4. CASE Trouble
  BY <1>4, QueueStep, ObjectStep, PodStep DEF Trouble
<1>5. CASE User
  BY <1>5, UserStep
<1> QED
  BY <1>1, <1>2, <1>3, <1>4, <1>5, SMTT(60) DEF Next

LEMMA IInvHolds == Spec => []IInv
BY IInvInit, IInvStep, PTL DEF Spec

-----------------------------------------------------------------------------
(* Types: what a builder makes is content, and a pass writes only that.    *)

(* A list of no role groups is an order of the empty map. *)
LEMMA EmptyOrder == <<>> \in RangeOrders({})
<1>1. 1 .. Cardinality({}) = {}
  BY FS_EmptySet
<1>2. <<>> \in [{} -> {}]
  OBVIOUS
<1> QED
  BY <1>1, <1>2 DEF RangeOrders, Bijection, Injection, Surjection, IsInjective

LEMMA AbsentIsContent == Absent \in Content
BY EmptyOrder DEF Absent, Content

(* The orders that a builder meets are orders of some of the role groups. *)
LEMMA OrdersAreListed ==
  ASSUME NEW s \in Specs, NEW o \in Resource, NEW order \in GroupOrders(o, s)
  PROVE  order \in UNION {RangeOrders(groups) : groups \in SUBSET Groups}
<1>1. s.namenode \in SUBSET Groups /\ s.journalnode \in SUBSET Groups
  BY SpecsAssumption DEF SpecType
<1>2. {} \in SUBSET Groups
  OBVIOUS
<1> QED
  BY <1>1, <1>2, EmptyOrder DEF GroupOrders

(* A StatefulSet is of one of the three roles. *)
LEMMA ReplicasAreNatural ==
  ASSUME NEW s \in Specs, NEW o \in Resource, o[3] = "statefulset"
  PROVE  WantReplicas(o[1], s) \in Nat
<1>1. o[1] \in Roles
  <2>1. ServiceAccount[3] = "serviceaccount" /\ DiscoveryMap[3] = "discovery"
    BY DEF ServiceAccount, DiscoveryMap
  <2>2. o # ServiceAccount /\ o # DiscoveryMap
    BY <2>1
  <2>3. o \in Roles \X Groups \X Kinds
    BY <2>2 DEF Resource
  <2> QED
    BY <2>3
<1>2. s.replicas[o[1]] \in Nat
  BY <1>1, SpecsAssumption, SMTT(60) DEF SpecType
<1> QED
  BY <1>2 DEF WantReplicas

LEMMA DesiredIsContent ==
  ASSUME NEW s \in Specs, NEW o \in Resource, NEW a \in Nat
  PROVE  Desired(o, s, a) \subseteq Content
<1> SUFFICES ASSUME NEW order \in GroupOrders(o, s)
             PROVE  [from |-> o,
                     conf |-> IF o[3] \in {"statefulset", "configmap"} THEN s.conf ELSE 0,
                     security |-> IF UsesSecurity(o) THEN s.security ELSE 0,
                     replicas |-> IF o[3] = "statefulset" THEN WantReplicas(o[1], s) ELSE 0,
                     listed |-> IF ListsNameNodes(o) THEN s.replicas["namenode"] ELSE 0,
                     address |-> IF o = DiscoveryMap THEN a ELSE 0,
                     order |-> order] \in Content
  BY DEF Desired
<1>1. s.conf \in Nat /\ s.security \in Nat /\ s.replicas["namenode"] \in Nat
  BY SpecsAssumption DEF SpecType, Roles
<1>2. (IF o[3] = "statefulset" THEN WantReplicas(o[1], s) ELSE 0) \in Nat
  BY ReplicasAreNatural
<1>3. /\ (IF o[3] \in {"statefulset", "configmap"} THEN s.conf ELSE 0) \in Nat
      /\ (IF UsesSecurity(o) THEN s.security ELSE 0) \in Nat
      /\ (IF ListsNameNodes(o) THEN s.replicas["namenode"] ELSE 0) \in Nat
  BY <1>1
<1>4. (IF o = DiscoveryMap THEN a ELSE 0) \in Nat
  OBVIOUS
<1>5. order \in UNION {RangeOrders(groups) : groups \in SUBSET Groups}
  BY OrdersAreListed
<1> QED
  BY <1>2, <1>3, <1>4, <1>5, SMTT(60) DEF Content

(* The StatefulSet of a role group has a number of replicas. *)
LEMMA StsIsTyped ==
  ASSUME TypeOK, NEW r \in Roles, NEW g \in Groups
  PROVE  StsReplicas(r, g) \in Nat
<1> DEFINE o == <<r, g, "statefulset">>
<1>1. o \in Resource
  BY DEF Resource, Kinds
<1>2. o \in Object
  BY <1>1 DEF Object, Name
<1>3. store[o] \in Content
  BY <1>2 DEF TypeOK
<1> QED
  BY <1>3 DEF StsReplicas, Content

(* The controller's own steps keep the types. *)
LEMMA ControllerTypes == TypeOK /\ Controller => TypeOK'
<1> SUFFICES ASSUME TypeOK, Controller PROVE TypeOK'
  OBVIOUS
<1>1. CASE StartPass
  BY <1>1, ZenonT(60) DEF StartPass, env, TypeOK
<1>2. ASSUME NEW o \in Resource, ReconcileResource(o) PROVE TypeOK'
  <2>1. UNCHANGED <<env, seen, cache, ready, spec, events, late>>
    BY <1>2 DEF ReconcileResource
  <2>2. queued' \in BOOLEAN /\ timer' \in BOOLEAN /\ running' \in BOOLEAN
    BY <1>2, ZenonT(60)
    DEF ReconcileResource, ReturnError, Write, RequeueAfter, TypeOK
  <2>3. done' \in SUBSET Resource
    BY <1>2, ZenonT(60) DEF ReconcileResource, Write, TypeOK
  <2>4. store' = store \/ \E want \in Desired(o, spec, address) :
                             store' = [store EXCEPT ![Name(o)] = want]
    BY <1>2, ZenonT(60) DEF ReconcileResource, Write
  <2>5. store' \in [Object -> Content]
    BY <2>4, DesiredIsContent DEF TypeOK
  <2> QED
    BY <2>1, <2>2, <2>3, <2>5, SMTT(60) DEF TypeOK, env
<1>3. CASE CheckReady
  BY <1>3, ZenonT(60) DEF CheckReady, ReturnDone, RequeueAfter, env, TypeOK
<1> QED
  BY <1>1, <1>2, <1>3 DEF Controller

(* Pods come and go one at a time. *)
LEMMA PodTypes ==
  ASSUME TypeOK, NEW r \in Roles, NEW g \in Groups,
         PodReady(r, g) \/ PodRemoved(r, g) \/ PodLost(r, g)
  PROVE  TypeOK'
<1> DEFINE p == <<r, g>>
<1>1. ready[p] \in Nat /\ StsReplicas(r, g) \in Nat
  BY StsIsTyped DEF TypeOK
<1>2. ready' \in [Roles \X Groups -> Nat]
  <2>1. CASE PodReady(r, g)
    BY <1>1, <2>1, SMTT(60) DEF PodReady, TypeOK
  <2>2. CASE PodRemoved(r, g)
    <3>1. ready[p] - 1 \in Nat
      BY <1>1, <2>2 DEF PodRemoved
    <3> QED
      BY <2>2, <3>1 DEF PodRemoved, TypeOK
  <2>3. CASE PodLost(r, g)
    <3>1. ready[p] - 1 \in Nat
      BY <1>1, <2>3, SMTT(60) DEF PodLost
    <3> QED
      BY <2>3, <3>1 DEF PodLost, TypeOK
  <2> QED
    BY <2>1, <2>2, <2>3, SMTT(60)
<1>3. events' \in 0 .. MaxEvents
  BY LimitsAssumption, SMTT(60) DEF PodReady, PodRemoved, PodLost, TypeOK
<1>4. UNCHANGED <<env, seen, store, cache, queued, timer, pass, late>>
  BY DEF PodReady, PodRemoved, PodLost
<1> QED
  BY <1>2, <1>3, <1>4, SMTT(60) DEF TypeOK, env, pass

(* So do the steps of Kubernetes, of what goes wrong and of the user. *)
LEMMA OutsideTypes == TypeOK /\ (Kubernetes \/ Trouble \/ User) => TypeOK'
<1> SUFFICES ASSUME TypeOK, Kubernetes \/ Trouble \/ User PROVE TypeOK'
  OBVIOUS
<1>1. CASE TimerFires \/ Resync
  BY <1>1, ZenonT(60) DEF TimerFires, Resync, env, pass, TypeOK
<1>2. CASE ObserveCluster
  BY <1>2, SMTT(60) DEF ObserveCluster, env, pass, TypeOK
<1>3. ASSUME NEW o \in Object, ObserveObject(o) PROVE TypeOK'
  BY <1>3 DEF ObserveObject, env, pass, TypeOK
<1>4. CASE Collect
  BY <1>4, AbsentIsContent DEF Collect, env, pass, TypeOK
<1>5. CASE ApiError
  <2>1. events' \in 0 .. MaxEvents
    BY <1>5, LimitsAssumption DEF ApiError, TypeOK
  <2>2. queued' \in BOOLEAN /\ timer' \in BOOLEAN /\ running' \in BOOLEAN
    BY <1>5, ZenonT(60) DEF ApiError, ReturnError, TypeOK
  <2>3. UNCHANGED <<env, seen, store, cache, ready, spec, done, late>>
    BY <1>5 DEF ApiError
  <2> QED
    BY <2>1, <2>2, <2>3, SMTT(60) DEF env, TypeOK
<1>6. CASE Restart
  <2>1. events' \in 0 .. MaxEvents
    BY <1>6, LimitsAssumption DEF Restart, TypeOK
  <2>2. /\ queued' \in BOOLEAN /\ timer' \in BOOLEAN /\ running' \in BOOLEAN
        /\ late' \in BOOLEAN
    BY <1>6, ZenonT(60) DEF Restart, TypeOK
  <2>3. seen'.spec \in Specs /\ seen'.exists \in BOOLEAN
    BY <1>6 DEF Restart, TypeOK
  <2>4. cache' \in [Object -> Content]
    BY <1>6 DEF Restart, TypeOK
  <2>5. UNCHANGED <<env, store, ready, spec, done>>
    BY <1>6 DEF Restart
  <2> QED
    BY <2>1, <2>2, <2>3, <2>4, <2>5 DEF env, TypeOK
<1>7. ASSUME NEW o \in Object, Drift(o) PROVE TypeOK'
  BY <1>7, AbsentIsContent, LimitsAssumption, SMTT(60) DEF Drift, pass, TypeOK
<1>8. CASE DeleteCluster
  <2>1. events' \in 0 .. MaxEvents
    BY <1>8, LimitsAssumption DEF DeleteCluster, TypeOK
  <2>2. exists' \in BOOLEAN
    BY <1>8, ZenonT(60) DEF DeleteCluster
  <2>3. UNCHANGED <<cr, address, drift, seen, store, cache, ready, queued, timer, pass, late>>
    BY <1>8 DEF DeleteCluster
  <2> QED
    BY <2>1, <2>2, <2>3 DEF pass, TypeOK
<1>9. ASSUME NEW s \in Edited, EditCluster(s) PROVE TypeOK'
  BY <1>9, LimitsAssumption, SpecsAssumption DEF EditCluster, pass, TypeOK
<1>10. CASE ListenerMoves
  BY <1>10, LimitsAssumption, SMTT(60) DEF ListenerMoves, pass, TypeOK
<1> QED
  BY <1>1, <1>2, <1>3, <1>4, <1>5, <1>6, <1>7, <1>8, <1>9, <1>10, PodTypes, SMTT(60)
  DEF Kubernetes, Trouble, User

(* Whatever is edited, lost or retried, the objects hold what a builder    *)
(* made of some spec or nothing, the replicas and the ready pods of a      *)
(* StatefulSet never fall below zero, and a pass has nothing but resources *)
(* behind it.                                                              *)
THEOREM ReconcileTypeCorrect == Spec => []TypeOK
<1>1. Init => TypeOK
  <2> SUFFICES ASSUME Init PROVE TypeOK
    OBVIOUS
  <2>1. events \in 0 .. MaxEvents /\ drift \in 0 .. MaxDrift
    BY LimitsAssumption DEF Init
  <2>2. /\ store \in [Object -> Content] /\ cache \in [Object -> Content]
        /\ ready \in [Roles \X Groups -> Nat]
    BY AbsentIsContent DEF Init
  <2>3. seen.spec \in Specs /\ seen.exists \in BOOLEAN
    BY DEF Init
  <2> QED
    BY <2>1, <2>2, <2>3, ZenonT(60) DEF Init, TypeOK
<1>2. TypeOK /\ [Next]_vars => TypeOK'
  <2>1. TypeOK /\ UNCHANGED vars => TypeOK'
    BY DEF TypeOK, vars
  <2> QED
    BY <2>1, ControllerTypes, OutsideTypes DEF Next
<1> QED
  BY <1>1, <1>2, PTL DEF Spec

-----------------------------------------------------------------------------
(* When the controller is at rest every object of the present spec is as   *)
(* desired, discovery included, for every number of groups, edits, errors  *)
(* and restarts: the level-triggered loop of Reconcile loses no edit, as   *)
(* long as its delays outlast the lag of the caches and nobody else        *)
(* touches the objects.                                                    *)
THEOREM QuiescentMatchesHolds == Spec => []QuiescentMatches
<1>1. IInv => QuiescentMatches
  <2> SUFFICES ASSUME IInv, Quiescent, exists, drift = 0, ~late,
                      NEW o \in RegisterResources(cr)
               PROVE  Matches(o)
    BY DEF QuiescentMatches
  <2>1. seen.spec = cr
    BY DEF Quiescent
  <2> QED
    BY <2>1 DEF IInv, RestInv, AllMatch, Undisturbed, Quiescent, Matches
<1> QED
  BY <1>1, IInvHolds, PTL

(* Two resources of one name want different content, so a controller at    *)
(* rest has no such spec: the metrics Service of a group and the Service   *)
(* of another that CreateServiceMetricsName gives its name to are written  *)
(* in turns for ever.                                                      *)
THEOREM ClashNeverRestsHolds == Spec => []ClashNeverRests
<1>1. QuiescentMatches => ClashNeverRests
  <2> SUFFICES ASSUME QuiescentMatches, Quiescent, exists, drift = 0, ~late,
                      NEW o \in RegisterResources(cr), NEW q \in RegisterResources(cr),
                      Name(o) = Name(q)
               PROVE  o = q
    BY DEF ClashNeverRests
  <2>1. store[Name(o)] \in Desired(o, cr, address) /\ store[Name(o)] \in Desired(q, cr, address)
    BY SMTT(60) DEF QuiescentMatches, Matches
  <2>2. store[Name(o)].from = o /\ store[Name(o)].from = q
    BY <2>1 DEF Desired
  <2> QED
    BY <2>2
<1> QED
  BY <1>1, QuiescentMatchesHolds, PTL
=============================================================================
