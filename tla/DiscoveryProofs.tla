-------------------------- MODULE DiscoveryProofs --------------------------
(***************************************************************************)
(* Proofs about Discovery for every number of pods, addresses and changes. *)
(*                                                                         *)
(* What is published is what a pass has collected in two loops, while the  *)
(* Listeners changed.  IInv says what the pass knows at each point of the  *)
(* loops, and that every address it holds is in its cache: the second loop *)
(* finds there what the first one has used.                                *)
(***************************************************************************)
EXTENDS Discovery, TLAPS

(* A Listener that is found has an address. *)
KnownAddress(l) == l = NoAddress \/ (l.addr \in Nat \ {0} /\ l # NoAddress)

(* The part of the types that the proofs need. *)
TypeInv ==
  /\ pc \in {"idle", "pod", "listener", "write"}
  /\ portName \in Ports
  /\ idx \in Pods
  /\ conn \in [Ports -> [Pods -> Nat]]
  /\ cache \in [Pods -> {l \in Address \cup {NoAddress} : KnownAddress(l)}]
  /\ listener \in [Pods -> {l \in Address \cup {NoAddress} : KnownAddress(l)}]
  /\ seenListener \in [Pods -> {l \in Address \cup {NoAddress} : KnownAddress(l)}]
  /\ during \in [Pods -> SUBSET Nat]

(* How far the loops are: in the first one the web addresses of the pods   *)
(* before idx are there, afterwards all of them, and in the second one the *)
(* rpc addresses of the pods before idx.                                   *)
LoopInv ==
  /\ pc \in {"pod", "listener"} /\ portName = "http" =>
       /\ \A p \in Pods : p < idx => conn["http"][p] # 0
       /\ conn["rpc"] = Unset
  /\ pc \in {"pod", "listener"} /\ portName = "rpc" =>
       /\ \A p \in Pods : conn["http"][p] # 0
       /\ \A p \in Pods : p < idx => conn["rpc"][p] # 0
  /\ pc = "listener" => cache[idx] = NoAddress
  /\ pc = "write" =>
       /\ \A p \in Pods : conn["http"][p] # 0
       /\ conn["rpc"] = Unset \/ \A p \in Pods : conn["rpc"][p] # 0

(* An address that is used is the one in the cache. *)
CacheInv ==
  pc # "idle" => \A t \in Ports, p \in Pods : conn[t][p] \in {0, cache[p].addr}

(* The addresses the pass has, and those in the informer, are among the    *)
(* ones that the informer has had since the pass began.                    *)
DuringInv ==
  pc # "idle" => \A p \in Pods :
    cache[p].addr \in during[p] \cup {0} /\ seenListener[p].addr \in during[p] \cup {0}

IInv == TypeInv /\ LoopInv /\ CacheInv /\ DuringInv /\ AllOrNothing /\ SameAddress

-----------------------------------------------------------------------------
LEMMA AddressesKnown ==
  \A l \in Address \cup {NoAddress} : KnownAddress(l)
BY DiscoveryAssumption DEF Address, NoAddress, KnownAddress, PortSets, Ports

LEMMA IInvInit == Init => IInv
<1> SUFFICES ASSUME Init PROVE IInv
  OBVIOUS
<1>1. TypeInv
  BY AddressesKnown, DiscoveryAssumption
     DEF Init, TypeInv, Ports, Pods, Nothing, Unset
<1>2. AllOrNothing /\ SameAddress
  BY DEF Init, AllOrNothing, SameAddress, Nothing, Unset, Ports
<1> QED
  BY <1>1, <1>2 DEF Init, IInv, LoopInv, CacheInv, DuringInv

(* A pass begins with nothing collected. *)
LEMMA StartPassStep == ASSUME IInv, StartPass PROVE IInv'
<1>1. TypeInv'
  <2>1. cache' \in [Pods -> {l \in Address \cup {NoAddress} : KnownAddress(l)}]
    BY DEF StartPass, KnownAddress
  <2>2. during' \in [Pods -> SUBSET Nat]
    <3>1. \A p \in Pods : KnownAddress(seenListener[p])
      BY DEF IInv, TypeInv
    <3>2. \A p \in Pods : seenListener[p].addr \in Nat
      BY <3>1 DEF KnownAddress, NoAddress
    <3> QED
      BY <3>2 DEF StartPass, AddressesOf
  <2>3. conn' \in [Ports -> [Pods -> Nat]]
    BY DEF StartPass, Nothing, Unset
  <2>4. pc' = "pod" /\ portName' \in Ports /\ idx' \in Pods
    BY DiscoveryAssumption DEF StartPass, Ports, Pods
  <2> QED
    BY <2>1, <2>2, <2>3, <2>4 DEF IInv, StartPass, TypeInv
<1>2. LoopInv'
  BY DEF IInv, StartPass, LoopInv, Nothing, Ports, Pods
<1>3. CacheInv'
  BY DEF IInv, StartPass, CacheInv, Nothing, Unset
<1>4. DuringInv'
  BY DEF IInv, StartPass, DuringInv, TypeInv, NoAddress, AddressesOf
<1>5. AllOrNothing' /\ SameAddress'
  BY DEF IInv, StartPass, AllOrNothing, SameAddress
<1> QED
  BY <1>1, <1>2, <1>3, <1>4, <1>5 DEF IInv

(* An error clears what the loop has collected. *)
LEMMA FailStep ==
  ASSUME IInv, Fail, pc \in {"pod", "listener"}, UNCHANGED <<world, cache, published>>
  PROVE  IInv'
<1>1. TypeInv'
  BY DEF IInv, Fail, TypeInv, world, Unset, Ports
<1>2. LoopInv'
  BY DEF IInv, Fail, TypeInv, LoopInv, Ports
<1>3. CacheInv'
  BY DEF IInv, Fail, TypeInv, CacheInv, Unset, Ports
<1>4. DuringInv' /\ AllOrNothing' /\ SameAddress'
  BY DEF IInv, Fail, DuringInv, AllOrNothing, SameAddress, world
<1> QED
  BY <1>1, <1>2, <1>3, <1>4 DEF IInv

(* An address a is used for the pod at idx; it is in the cache then. *)
LEMMA UseStep ==
  ASSUME IInv, pc \in {"pod", "listener"},
         NEW a \in Address, KnownAddress(a), a # NoAddress,
         cache' = [cache EXCEPT ![idx] = a],
         cache[idx] \in {NoAddress, a}, a.addr \in during[idx] \cup {0},
         conn' = [conn EXCEPT ![portName][idx] = a.addr],
         Advance, UNCHANGED <<world, published>>
  PROVE  IInv'
<1> USE DiscoveryAssumption
<1>0. a.addr \in Nat \ {0}
  BY DEF KnownAddress
<1>1. TypeInv'
  <2>1. conn' \in [Ports -> [Pods -> Nat]]
    BY <1>0 DEF IInv, TypeInv
  <2>2. cache' \in [Pods -> {l \in Address \cup {NoAddress} : KnownAddress(l)}]
    BY DEF IInv, TypeInv
  <2>3. pc' \in {"idle", "pod", "listener", "write"} /\ portName' \in Ports /\ idx' \in Pods
    BY SMTT(60) DEF IInv, TypeInv, Advance, Ports, Pods
  <2> QED
    BY <2>1, <2>2, <2>3 DEF IInv, TypeInv, world
<1>2. /\ \A p \in Pods : p # idx => UNCHANGED <<conn["http"][p], conn["rpc"][p]>>
      /\ conn'[portName][idx] # 0
      /\ \A t \in Ports : t # portName => conn'[t] = conn[t]
  BY <1>0 DEF IInv, TypeInv, Ports
<1>3. LoopInv'
  <2>1. portName \in Ports /\ idx \in Pods
    BY DEF IInv, TypeInv
  <2>2. CASE portName = "http"
    <3>1. /\ \A p \in Pods : p < idx => conn'["http"][p] # 0
          /\ conn'["http"][idx] # 0
          /\ conn'["rpc"] = Unset
      BY <1>2, <2>1, <2>2 DEF IInv, LoopInv, Ports, Pods
    <3>2. CASE idx < NumPods - 1
      BY <2>1, <2>2, <3>1, <3>2 DEF LoopInv, Advance, Pods
    <3>3. CASE idx = NumPods - 1
      BY <2>1, <2>2, <3>1, <3>3 DEF LoopInv, Advance, Pods
    <3> QED
      BY <2>1, <3>2, <3>3 DEF Pods
  <2>3. CASE portName = "rpc"
    <3>1. /\ \A p \in Pods : p < idx => conn'["rpc"][p] # 0
          /\ conn'["rpc"][idx] # 0
          /\ \A p \in Pods : conn'["http"][p] # 0
      BY <1>2, <2>1, <2>3 DEF IInv, LoopInv, Ports, Pods
    <3>2. CASE idx < NumPods - 1
      BY <2>1, <2>3, <3>1, <3>2 DEF LoopInv, Advance, Pods
    <3>3. CASE idx = NumPods - 1
      BY <2>1, <2>3, <3>1, <3>3, SMTT(60) DEF LoopInv, Advance, Pods
    <3> QED
      BY <2>1, <3>2, <3>3 DEF Pods
  <2> QED
    BY <2>1, <2>2, <2>3 DEF Ports
<1>4. CacheInv'
  BY <1>2 DEF IInv, CacheInv, TypeInv, NoAddress, Ports
<1>5. DuringInv'
  BY DEF IInv, DuringInv, TypeInv, world
<1>6. AllOrNothing' /\ SameAddress'
  BY DEF IInv, AllOrNothing, SameAddress
<1> QED
  BY <1>1, <1>3, <1>4, <1>5, <1>6 DEF IInv

LEMMA GetPodStep == ASSUME IInv, GetPod PROVE IInv'
<1>1. CASE Fail
  BY <1>1, FailStep, SMTT(60) DEF GetPod
<1>2. CASE seenPod[idx] = "labelled" /\ cache[idx] = NoAddress /\ pc' = "listener"
           /\ UNCHANGED <<portName, idx, conn>>
  BY <1>2 DEF GetPod, IInv, TypeInv, LoopInv, CacheInv, DuringInv, AllOrNothing, SameAddress,
              world
<1>3. CASE cache[idx] # NoAddress /\ Connect(cache[idx]) /\ ~Fail
  <2>1. cache[idx] \in Address /\ KnownAddress(cache[idx])
    BY <1>3 DEF IInv, TypeInv
  <2>2. UNCHANGED cache /\ cache = [cache EXCEPT ![idx] = cache[idx]]
    BY DEF GetPod, IInv, TypeInv
  <2>3. cache[idx].addr \in during[idx] \cup {0} /\ pc = "pod"
    BY DEF GetPod, IInv, TypeInv, DuringInv
  <2> QED
    BY <1>3, <2>1, <2>2, <2>3, UseStep DEF Connect, GetPod
<1> QED
  BY <1>1, <1>2, <1>3 DEF GetPod

LEMMA GetListenerStep == ASSUME IInv, GetListener PROVE IInv'
<1>1. CASE seenListener[idx] = NoAddress
  BY <1>1, FailStep DEF GetListener
<1>2. CASE seenListener[idx] # NoAddress
  <2>1. seenListener[idx] \in Address /\ KnownAddress(seenListener[idx])
    BY <1>2 DEF IInv, TypeInv
  <2>2. /\ cache[idx] = NoAddress /\ pc = "listener"
        /\ seenListener[idx].addr \in during[idx] \cup {0}
        /\ cache' = [cache EXCEPT ![idx] = seenListener[idx]]
    BY <1>2 DEF GetListener, IInv, TypeInv, LoopInv, DuringInv
  <2>3. CASE portName \in seenListener[idx].ports
    BY <1>2, <2>1, <2>2, <2>3, UseStep, ZenonT(60) DEF Connect, GetListener
  <2>4. CASE portName \notin seenListener[idx].ports
    <3>1. Fail
      BY <1>2, <2>4 DEF GetListener, Connect
    <3>2. TypeInv'
      BY <2>1, <2>2, <3>1 DEF IInv, Fail, TypeInv, world, Unset, Ports, GetListener
    <3>3. portName = "http" => conn'["rpc"] = conn["rpc"]
      BY <3>1 DEF IInv, Fail, TypeInv, Ports
    <3>4. LoopInv'
      BY <2>2, <3>1, <3>3 DEF IInv, Fail, TypeInv, LoopInv, Ports
    <3>5. CacheInv'
      <4>1. conn[portName] \in [Pods -> Nat]
        BY DEF IInv, TypeInv
      <4>2. \A p \in Pods : cache'[p].addr = cache[p].addr \/ cache[p].addr = 0
        BY <2>2, SMTT(60) DEF IInv, TypeInv, NoAddress
      <4> QED
        BY <2>2, <3>1, <4>1, <4>2 DEF IInv, Fail, TypeInv, CacheInv, Unset, Ports
    <3>6. DuringInv' /\ AllOrNothing' /\ SameAddress'
      BY <2>2, <3>1 DEF IInv, TypeInv, Fail, DuringInv, AllOrNothing, SameAddress, world,
                        GetListener
    <3> QED
      BY <3>2, <3>4, <3>5, <3>6 DEF IInv
  <2> QED
    BY <2>3, <2>4
<1> QED
  BY <1>1, <1>2

(* What is collected is complete, and both addresses of a pod are the one  *)
(* in the cache.                                                           *)
LEMMA WriteStep == ASSUME IInv, Write PROVE IInv'
<1>1. TypeInv'
  BY DEF IInv, Write, TypeInv, world
<1>2. LoopInv' /\ CacheInv' /\ DuringInv'
  BY DEF Write, LoopInv, CacheInv, DuringInv
<1>3. AllOrNothing'
  BY DEF IInv, Write, LoopInv, AllOrNothing
<1>4. SameAddress'
  <2> SUFFICES ASSUME NEW p \in Pods PROVE conn["rpc"][p] \in {0, conn["http"][p]}
    BY DEF Write, SameAddress
  <2>1. conn["http"][p] # 0
    BY DEF IInv, Write, LoopInv
  <2>2. conn["http"][p] \in {0, cache[p].addr} /\ conn["rpc"][p] \in {0, cache[p].addr}
    BY DEF IInv, Write, CacheInv, Ports
  <2> QED
    BY <2>1, <2>2
<1> QED
  BY <1>1, <1>2, <1>3, <1>4 DEF IInv

(* Others change pods and Listeners, the informers hear of it; a pass may  *)
(* end without a write.                                                    *)
LEMMA WorldStep ==
  ASSUME IInv,
         \/ PassFails
         \/ \E p \in Pods, s \in PodStates : ChangePod(p, s)
         \/ \E p \in Pods, l \in Address \cup {NoAddress} : ChangeListener(p, l)
         \/ \E p \in Pods : ObservePod(p) \/ ObserveListener(p)
  PROVE  IInv'
<1>1. CASE PassFails
  BY <1>1, SMTT(60)
  DEF PassFails, IInv, TypeInv, LoopInv, CacheInv, DuringInv, AllOrNothing, SameAddress
<1>2. ASSUME NEW p \in Pods, NEW s \in PodStates, ChangePod(p, s) \/ ObservePod(p)
      PROVE  IInv'
  BY <1>2, SMTT(60)
  DEF ChangePod, ObservePod, IInv, TypeInv, LoopInv, CacheInv, DuringInv, AllOrNothing,
      SameAddress
<1>3. ASSUME NEW p \in Pods, NEW l \in Address \cup {NoAddress}, ChangeListener(p, l)
      PROVE  IInv'
  <2>1. KnownAddress(l)
    BY AddressesKnown
  <2>2. TypeInv'
    BY <1>3, <2>1, SMTT(60) DEF ChangeListener, IInv, TypeInv
  <2> QED
    BY <1>3, <2>2, SMTT(60)
    DEF ChangeListener, IInv, LoopInv, CacheInv, DuringInv, AllOrNothing, SameAddress
<1>4. ASSUME NEW p \in Pods, ObserveListener(p) PROVE IInv'
  <2>1. listener[p] \in Address \cup {NoAddress} /\ KnownAddress(listener[p])
    BY DEF IInv, TypeInv
  <2>2. listener[p].addr \in Nat /\ AddressesOf(listener[p]) = {listener[p].addr} \ {0}
    BY <2>1 DEF KnownAddress, NoAddress, AddressesOf
  <2>3. TypeInv'
    BY <1>4, <2>1, <2>2, SMTT(60) DEF ObserveListener, IInv, TypeInv
  <2>4. DuringInv'
    BY <1>4, <2>2, SMTT(60) DEF ObserveListener, IInv, TypeInv, DuringInv
  <2> QED
    BY <1>4, <2>3, <2>4 DEF ObserveListener, IInv, LoopInv, CacheInv, AllOrNothing, SameAddress
<1>5. ASSUME NEW p \in Pods, ObservePod(p) PROVE IInv'
  <2>1. "bare" \in PodStates
    BY DEF PodStates
  <2> QED
    BY <1>2, <1>5, <2>1
<1> QED
  BY <1>1, <1>2, <1>3, <1>4, <1>5, SMTT(60)

LEMMA Inductive == Spec => []IInv
<1>1. IInv /\ [Next]_vars => IInv'
  <2> SUFFICES ASSUME IInv, [Next]_vars PROVE IInv'
    BY SMTT(60)
  <2>1. CASE UNCHANGED vars
    BY <2>1 DEF vars, IInv, TypeInv, LoopInv, CacheInv, DuringInv, AllOrNothing, SameAddress
  <2> QED
    BY <2>1, StartPassStep, GetPodStep, GetListenerStep, WriteStep, WorldStep DEF Next, Pass
<1> QED
  BY <1>1, IInvInit, PTL DEF Spec

-----------------------------------------------------------------------------
(* The ConfigMap never has a half-filled list of addresses, wherever a     *)
(* pass fails and whatever changes while it reads.                         *)
THEOREM AllOrNothingHolds == Spec => []AllOrNothing
  BY Inductive, PTL DEF IInv

(* The web and the rpc address of a NameNode in the ConfigMap are of one   *)
(* state of its Listener.                                                  *)
THEOREM SameAddressHolds == Spec => []SameAddress
  BY Inductive, PTL DEF IInv

(* What a pass is about to write was the address of the Listener in the    *)
(* informer at a moment of that pass, so it is no older than the informer  *)
(* was behind while the pass ran.                                          *)
THEOREM FreshAddressesHolds == Spec => []FreshAddresses
<1>1. IInv => FreshAddresses
  BY DEF IInv, CacheInv, DuringInv, FreshAddresses
<1> QED
  BY <1>1, Inductive, PTL

-----------------------------------------------------------------------------
(* The types of the pass; an address has its port only if it is one. *)
LEMMA ConnectTypes ==
  ASSUME TypeOK, NEW a \in Address \cup {NoAddress}, Connect(a)
  PROVE  /\ conn' \in [Ports -> [Pods -> 0 .. NumAddr]]
         /\ pc' \in {"idle", "pod", "listener", "write"} /\ portName' \in Ports /\ idx' \in Pods
<1>0. /\ conn \in [Ports -> [Pods -> 0 .. NumAddr]] /\ portName \in Ports /\ idx \in Pods
      /\ conn[portName] \in [Pods -> 0 .. NumAddr]
  BY DEF TypeOK
<1>1. CASE portName \in a.ports /\ conn' = [conn EXCEPT ![portName][idx] = a.addr] /\ Advance
  <2>1. a.addr \in 0 .. NumAddr
    BY <1>1, DiscoveryAssumption DEF Address, NoAddress
  <2>2. [conn[portName] EXCEPT ![idx] = a.addr] \in [Pods -> 0 .. NumAddr]
    BY <1>0, <2>1
  <2>3. conn' \in [Ports -> [Pods -> 0 .. NumAddr]]
    BY <1>0, <1>1, <2>2
  <2>4. portName' \in Ports /\ pc' \in {"pod", "write"}
    BY <1>0, <1>1, SMTT(60) DEF Advance, Ports
  <2>5. (idx < NumPods - 1 /\ idx' = idx + 1) \/ idx' = 0 \/ idx' = idx
    BY <1>1, SMTT(60) DEF Advance
  <2>6. idx' \in Pods
    BY <1>0, <2>5, DiscoveryAssumption, SMTT(60) DEF Pods
  <2> QED
    BY <2>3, <2>4, <2>6
<1>2. CASE Fail
  <2>1. Unset \in [Pods -> 0 .. NumAddr]
    BY DiscoveryAssumption DEF Unset
  <2> QED
    BY <1>0, <1>2, <2>1 DEF Fail
<1> QED
  BY <1>1, <1>2 DEF Connect

(* The pass stays in its loops, and everything it holds and publishes is   *)
(* an address of a Listener or none.                                       *)
THEOREM DiscoveryTypeCorrect == Spec => []TypeOK
<1> USE DiscoveryAssumption
<1>1. Init => TypeOK
  BY DEF Init, TypeOK, Nothing, Unset, Ports, Pods
<1>2. ASSUME TypeOK, [Next]_vars PROVE TypeOK'
  <2>1. \A l \in Address \cup {NoAddress} : AddressesOf(l) \in SUBSET (1 .. NumAddr)
    BY DEF Address, NoAddress, AddressesOf
  <2>2. Unset \in [Pods -> 0 .. NumAddr]
    BY DEF Unset
  <2>3. CASE StartPass
    <3>1. during' \in [Pods -> SUBSET (1 .. NumAddr)]
      <4>1. during' = [p \in Pods |-> AddressesOf(seenListener[p])]
        BY <2>3 DEF StartPass
      <4>2. \A p \in Pods : seenListener[p] \in Address \cup {NoAddress}
        BY <1>2 DEF TypeOK
      <4> QED
        BY <2>1, <4>1, <4>2, ZenonT(60)
    <3>2. conn' \in [Ports -> [Pods -> 0 .. NumAddr]]
      BY <2>2, <2>3 DEF StartPass, Nothing
    <3>3. cache' \in [Pods -> Address \cup {NoAddress}]
      BY <2>3 DEF StartPass
    <3>4. pc' = "pod" /\ portName' \in Ports /\ idx' \in Pods
      BY <2>3 DEF StartPass, Ports, Pods
    <3> QED
      BY <1>2, <2>3, <3>1, <3>2, <3>3, <3>4 DEF StartPass, TypeOK
  <2>4. ASSUME Fail, UNCHANGED <<world, published>>,
               cache' \in [Pods -> Address \cup {NoAddress}]
        PROVE  TypeOK'
    BY <1>2, <2>2, <2>4 DEF Fail, TypeOK, world
  <2>5. ASSUME NEW a \in Address \cup {NoAddress}, Connect(a), UNCHANGED <<world, published>>,
               cache' \in [Pods -> Address \cup {NoAddress}]
        PROVE  TypeOK'
    BY <1>2, <2>5, ConnectTypes, SMTT(60) DEF TypeOK, world
  <2>6. CASE GetPod
    <3>1. cache[idx] \in Address \cup {NoAddress} /\ UNCHANGED <<cache, world, published>>
      BY <1>2, <2>6 DEF GetPod, TypeOK
    <3>2. CASE pc' = "listener" /\ UNCHANGED <<portName, idx, conn>>
      BY <1>2, <3>1, <3>2 DEF TypeOK, world
    <3> QED
      BY <1>2, <2>4, <2>5, <2>6, <3>1, <3>2 DEF GetPod, TypeOK
  <2>7. CASE GetListener
    <3>1. seenListener[idx] \in Address \cup {NoAddress} /\ UNCHANGED <<world, published>>
      BY <1>2, <2>7 DEF GetListener, TypeOK
    <3>2. cache' \in [Pods -> Address \cup {NoAddress}]
      <4>1. cache \in [Pods -> Address \cup {NoAddress}]
        BY <1>2, ZenonT(60) DEF TypeOK
      <4>2. cache' = cache \/ cache' = [cache EXCEPT ![idx] = seenListener[idx]]
        BY <2>7, ZenonT(60) DEF GetListener
      <4> QED
        BY <3>1, <4>1, <4>2, ZenonT(60)
    <3> QED
      BY <2>4, <2>5, <2>7, <3>1, <3>2 DEF GetListener
  <2>8. CASE Write \/ PassFails \/ UNCHANGED vars
    BY <1>2, <2>8, SMTT(60) DEF Write, PassFails, TypeOK, world, vars
  <2>9. ASSUME NEW p \in Pods, NEW s \in PodStates, ChangePod(p, s)
        PROVE  TypeOK'
    BY <1>2, <2>9 DEF ChangePod, TypeOK
  <2>10. ASSUME NEW p \in Pods, NEW l \in Address \cup {NoAddress}, ChangeListener(p, l)
         PROVE  TypeOK'
    BY <1>2, <2>10, SMTT(60) DEF ChangeListener, TypeOK
  <2>11. ASSUME NEW p \in Pods, ObservePod(p) PROVE TypeOK'
    BY <1>2, <2>11, SMTT(60) DEF ObservePod, TypeOK
  <2>12. ASSUME NEW p \in Pods, ObserveListener(p) PROVE TypeOK'
    <3>1. listener[p] \in Address \cup {NoAddress}
      BY <1>2 DEF TypeOK
    <3>2. during' \in [Pods -> SUBSET (1 .. NumAddr)]
      BY <1>2, <2>1, <2>12, <3>1 DEF ObserveListener, TypeOK
    <3>3. seenListener' \in [Pods -> Address \cup {NoAddress}]
      BY <1>2, <2>12, <3>1 DEF ObserveListener, TypeOK
    <3> QED
      BY <1>2, <2>12, <3>2, <3>3 DEF ObserveListener, TypeOK
  <2> QED
    BY <1>2, <2>3, <2>6, <2>7, <2>8, <2>9, <2>10, <2>11, <2>12 DEF Next, Pass
<1> QED
  BY <1>1, <1>2, PTL DEF Spec
============================================================================
