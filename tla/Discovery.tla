----------------------------- MODULE Discovery -----------------------------
(***************************************************************************)
(* The discovery ConfigMap: the addresses of the NameNodes for clients.    *)
(* One pass of DiscoveryConfigMapBuilder.Build reads, for the http port    *)
(* and then again for the rpc port, every NameNode pod and (through a      *)
(* cache that lives for one pass) the Listener its label names; the result *)
(* is then written by the generic reconciler.  Pods and Listeners change   *)
(* between the reads, and the reads go to the informers of the manager's   *)
(* client, which learn of a change later.                                  *)
(***************************************************************************)
EXTENDS Integers

CONSTANTS
  NumPods,      \* NameNode pods that getPodNames derives from the replicas
  NumAddr,      \* bound: distinct ingress addresses
  PartialPorts, \* may a Listener list one of its two ports before the other?
  MaxChanges    \* bound: changes of pods and Listeners by others, failed writes

ASSUME DiscoveryAssumption ==
  /\ NumPods \in Nat \ {0} /\ NumAddr \in Nat \ {0}
  /\ PartialPorts \in BOOLEAN /\ MaxChanges \in Nat

VARIABLES
  pod,        \* each pod: "absent", "bare" (no listener label) or "labelled"
  listener,   \* status of the Listener of each pod
  seenPod, seenListener,  \* the same in the informers
  pc,         \* where the pass is
  portName,   \* port the running createPortNameAddress is for
  idx,        \* index of the pod it is at
  cache,      \* the map of Listener addresses of this pass
  conn,       \* connections built so far, by port and pod
  published,  \* connections in the ConfigMap
  during,     \* history: addresses in the Listener informer since the pass began
  changes     \* changes so far

world == <<pod, listener, seenPod, seenListener, during, changes>>
vars == <<pod, listener, seenPod, seenListener, pc, portName, idx, cache, conn, published,
          during, changes>>

Pods == 0 .. NumPods - 1
PodStates == {"absent", "bare", "labelled"}
Ports == {"http", "rpc"}
PortSets == {Ports} \cup {{t} : t \in {u \in Ports : PartialPorts}}
Address == [addr : 1 .. NumAddr, ports : PortSets]
NoAddress == [addr |-> 0, ports |-> {}]
Unset == [p \in Pods |-> 0]
Nothing == [t \in Ports |-> Unset]

(* Type invariant of the discovery pass; address 0 is a missing property,  *)
(* NoAddress a Listener that is not found or has no ingress address.       *)
TypeOK ==
  /\ pod \in [Pods -> PodStates] /\ seenPod \in [Pods -> PodStates]
  /\ listener \in [Pods -> Address \cup {NoAddress}]
  /\ seenListener \in [Pods -> Address \cup {NoAddress}]
  /\ pc \in {"idle", "pod", "listener", "write"}
  /\ portName \in Ports
  /\ idx \in Pods
  /\ cache \in [Pods -> Address \cup {NoAddress}]
  /\ conn \in [Ports -> [Pods -> 0 .. NumAddr]]
  /\ published \in [Ports -> [Pods -> 0 .. NumAddr]]
  /\ during \in [Pods -> SUBSET (1 .. NumAddr)]
  /\ changes \in 0 .. MaxChanges

(* No ConfigMap yet; the pods and Listeners may be at any point. *)
Init ==
  /\ pod \in [Pods -> PodStates] /\ seenPod = pod
  /\ listener \in [Pods -> Address \cup {NoAddress}] /\ seenListener = listener
  /\ pc = "idle"
  /\ portName = "http"
  /\ idx = 0
  /\ cache = [p \in Pods |-> NoAddress]
  /\ conn = Nothing
  /\ published = Nothing
  /\ during = [p \in Pods |-> {}]
  /\ changes = 0

-----------------------------------------------------------------------------
(* Pods and Listeners as the other controllers drive them, and the         *)
(* informers behind them.                                                  *)
AddressesOf(l) == {l.addr} \ {0}

ChangePod(p, s) ==
  /\ changes < MaxChanges
  /\ s # pod[p]
  /\ pod' = [pod EXCEPT ![p] = s]
  /\ changes' = changes + 1
  /\ UNCHANGED <<listener, seenPod, seenListener, pc, portName, idx, cache, conn, published,
                 during>>

ChangeListener(p, l) ==
  /\ changes < MaxChanges
  /\ l # listener[p]
  /\ listener' = [listener EXCEPT ![p] = l]
  /\ changes' = changes + 1
  /\ UNCHANGED <<pod, seenPod, seenListener, pc, portName, idx, cache, conn, published,
                 during>>

ObservePod(p) ==
  /\ seenPod[p] # pod[p]
  /\ seenPod' = [seenPod EXCEPT ![p] = pod[p]]
  /\ UNCHANGED <<pod, listener, seenListener, pc, portName, idx, cache, conn, published,
                 during, changes>>

ObserveListener(p) ==
  /\ seenListener[p] # listener[p]
  /\ seenListener' = [seenListener EXCEPT ![p] = listener[p]]
  /\ during' = [during EXCEPT ![p] = @ \cup AddressesOf(listener[p])]
  /\ UNCHANGED <<pod, listener, seenPod, pc, portName, idx, cache, conn, published, changes>>

-----------------------------------------------------------------------------
(* Mutation: the cache as a field of the builder instead of a local. *)
StartPassKeepingCache ==
  /\ pc = "idle"
  /\ pc' = "pod"
  /\ portName' = "http"
  /\ idx' = 0
  /\ conn' = Nothing
  /\ during' = [p \in Pods |-> AddressesOf(seenListener[p])]
  /\ UNCHANGED <<pod, listener, seenPod, seenListener, cache, published, changes>>

StartPass ==
  /\ pc = "idle"
  /\ pc' = "pod"
  /\ portName' = "http"
  /\ idx' = 0
  /\ cache' = [p \in Pods |-> NoAddress]
  /\ conn' = Nothing
  /\ during' = [p \in Pods |-> AddressesOf(seenListener[p])]
  /\ UNCHANGED <<pod, listener, seenPod, seenListener, published, changes>>

(* Mutation: createPortNameAddress returns what it has built so far. *)
FailPartial ==
  /\ pc' = "write"
  /\ UNCHANGED <<portName, idx, conn>>

(* createPortNameAddress returns an error: for http createConnections      *)
(* passes it on and the reconcile ends, for rpc it goes on without.        *)
Fail ==
  /\ \/ portName = "http" /\ pc' = "idle"
     \/ portName = "rpc" /\ pc' = "write"
  /\ conn' = [conn EXCEPT ![portName] = Unset]
  /\ UNCHANGED <<portName, idx>>

(* Mutation: the loop runs once more than there are pods. *)
AdvancePast ==
  \/ /\ idx < NumPods
     /\ pc' = "pod" /\ idx' = idx + 1 /\ UNCHANGED portName
  \/ /\ idx = NumPods /\ portName = "http"
     /\ pc' = "pod" /\ idx' = 0 /\ portName' = "rpc"
  \/ /\ idx = NumPods /\ portName = "rpc"
     /\ pc' = "write" /\ UNCHANGED <<idx, portName>>

(* The next pod, the second port, or the end of the build. *)
Advance ==
  \/ /\ idx < NumPods - 1
     /\ pc' = "pod" /\ idx' = idx + 1 /\ UNCHANGED portName
  \/ /\ idx = NumPods - 1 /\ portName = "http"
     /\ pc' = "pod" /\ idx' = 0 /\ portName' = "rpc"
  \/ /\ idx = NumPods - 1 /\ portName = "rpc"
     /\ pc' = "write" /\ UNCHANGED <<idx, portName>>

(* getPort on the address, and the property appended. *)
Connect(a) ==
  \/ /\ portName \in a.ports
     /\ conn' = [conn EXCEPT ![portName][idx] = a.addr]
     /\ Advance
  \/ portName \notin a.ports /\ Fail

(* Mutation: the cache is not consulted. *)
GetPodUncached ==
  /\ pc = "pod"
  /\ \/ seenPod[idx] # "labelled" /\ Fail
     \/ seenPod[idx] = "labelled" /\ pc' = "listener" /\ UNCHANGED <<portName, idx, conn>>
  /\ UNCHANGED <<world, cache, published>>

(* getListenerNameByPodName, and the address from the cache if it is there. *)
GetPod ==
  /\ pc = "pod"
  /\ \/ seenPod[idx] # "labelled" /\ Fail
     \/ /\ seenPod[idx] = "labelled" /\ cache[idx] = NoAddress
        /\ pc' = "listener"
        /\ UNCHANGED <<portName, idx, conn>>
     \/ seenPod[idx] = "labelled" /\ cache[idx] # NoAddress /\ Connect(cache[idx])
  /\ UNCHANGED <<world, cache, published>>

(* The rest of getListenerAddress: the first ingress address, as far as    *)
(* the informer knows.                                                     *)
GetListener ==
  /\ pc = "listener"
  /\ \/ /\ seenListener[idx] = NoAddress
        /\ Fail
        /\ UNCHANGED cache
     \/ /\ seenListener[idx] # NoAddress
        /\ cache' = [cache EXCEPT ![idx] = seenListener[idx]]
        /\ Connect(seenListener[idx])
  /\ UNCHANGED <<world, published>>

(* The generic reconciler creates or updates the ConfigMap. *)
Write ==
  /\ pc = "write"
  /\ published' = conn
  /\ pc' = "idle"
  /\ UNCHANGED <<world, portName, idx, cache, conn>>

(* The write fails (conflict, API server away), or the operator dies       *)
(* before it: the ConfigMap stays and a later pass starts over.            *)
PassFails ==
  /\ pc # "idle"
  /\ changes < MaxChanges
  /\ changes' = changes + 1
  /\ pc' = "idle"
  /\ UNCHANGED <<pod, listener, seenPod, seenListener, during, portName, idx, cache, conn,
                 published>>

Pass == StartPass \/ GetPod \/ GetListener \/ Write

Next ==
  \/ Pass
  \/ PassFails
  \/ \E p \in Pods, s \in PodStates : ChangePod(p, s)
  \/ \E p \in Pods, l \in Address \cup {NoAddress} : ChangeListener(p, l)
  \/ \E p \in Pods : ObservePod(p) \/ ObserveListener(p)

(* Passes recur: an error is retried with back-off, and the informer's     *)
(* periodic resync enqueues every HdfsCluster again.  Informers catch up.  *)
Spec ==
  /\ Init /\ [][Next]_vars
  /\ WF_vars(Pass)
  /\ \A p \in Pods : WF_vars(ObservePod(p)) /\ WF_vars(ObserveListener(p))

-----------------------------------------------------------------------------
(* The ConfigMap names the web address of every NameNode or it has never   *)
(* been written, and it names the rpc addresses of all NameNodes or of     *)
(* none: a read that fails half way leaves no half-filled list.            *)
AllOrNothing ==
  /\ published # Nothing => \A p \in Pods : published["http"][p] # 0
  /\ published["rpc"] = Unset \/ \A p \in Pods : published["rpc"][p] # 0

(* The two addresses of a NameNode come from one state of its Listener,    *)
(* although the two loops read pods and Listeners at different times.      *)
SameAddress ==
  \A p \in Pods : published["rpc"][p] \in {0, published["http"][p]}

(* What a pass writes for a NameNode was the address of its Listener in    *)
(* the informer at some moment of that same pass: the addresses are as old *)
(* as the informer is behind, and the passes, which carry addresses from   *)
(* one loop to the next, add nothing to it.                                *)
FreshAddresses ==
  pc = "write" => \A t \in Ports, p \in Pods : conn[t][p] \in during[p] \cup {0}

Settled(p) == pod[p] = "labelled" /\ AddressesOf(listener[p]) # {} /\ listener[p].ports = Ports

(* Once all pods carry their label and all Listeners have an address, the  *)
(* ConfigMap ends up with exactly these addresses for both ports, whatever *)
(* incomplete or outdated versions were published before, also from        *)
(* informers that were behind.                                             *)
EventuallyAccurate ==
  <>[](\A p \in Pods : Settled(p)) =>
    <>[](\A t \in Ports, p \in Pods : {published[t][p]} = AddressesOf(listener[p]))
=============================================================================
