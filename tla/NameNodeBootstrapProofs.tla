----------------------- MODULE NameNodeBootstrapProofs -----------------------
(***************************************************************************)
(* Proofs about NameNodeBootstrap for every set of role groups, number of  *)
(* replicas and failure budget.  Types and the work of the init containers *)
(* need no more; what is said of namespaces is under SingleJournal: one    *)
(* JournalNode behind the shared edits address.                            *)
(***************************************************************************)
EXTENDS NameNodeBootstrap, TLAPS

(* The initial state is well typed. *)
LEMMA TypeInit == Init => TypeOK
<1> USE ReplicasAssumption, BoundsAssumption DEF Phase
<1>1. Init => TypeOK
  <2> SUFFICES ASSUME Init PROVE TypeOK
    OBVIOUS
  <2>1. /\ found \in [Pod -> BOOLEAN]
        /\ zkfc \in [Pod -> BOOLEAN]
    BY Zenon DEF Init
  <2>2. /\ phase \in [Pod -> Phase]
        /\ nn \in [Pod -> {"down", "standby", "active"}]
    BY DEF Init
  <2>3. /\ probe \in [Pod -> 0 .. Replicas]
        /\ version \in [Pod -> Nat]
        /\ journal \in [JournalNodes -> Nat]
    BY DEF Init
  <2>4. /\ znode \in BOOLEAN /\ stopped \in BOOLEAN
        /\ lock \in SUBSET Pod
    BY ZenonT(60) DEF Init
  <2>5. /\ lastId \in Nat
        /\ failures \in 0 .. MaxFailures
        /\ interrupts \in 0 .. MaxInterrupts
        /\ stops \in 0 .. MaxStops
    BY DEF Init
  <2>6. QED
    BY <2>1, <2>2, <2>3, <2>4, <2>5 DEF TypeOK
<1>2. QED
  BY <1>1

(* Every step keeps the bootstrap state within its types. *)
LEMMA TypeStep == TypeOK /\ [Next]_vars => TypeOK'
<1> USE ReplicasAssumption, BoundsAssumption DEF Phase, script, budget
<1>2. TypeOK /\ [Next]_vars => TypeOK'
  <2> SUFFICES ASSUME TypeOK, [Next]_vars PROVE TypeOK'
    OBVIOUS
  <2> USE DEF TypeOK
  <2>1. ASSUME NEW p \in Pod, CreatePod(p) PROVE TypeOK'
    BY <2>1 DEF CreatePod
  <2>2. ASSUME NEW p \in Pod, ScaleDown(p) PROVE TypeOK'
    BY <2>2 DEF ScaleDown, RemovePod
  <2>3. CASE SetStopped
    BY <2>3 DEF SetStopped
  <2>4. CASE ClearStopped
    BY <2>4, ZenonT(60) DEF ClearStopped
  <2>5. ASSUME NEW p \in Pod, CheckActive(p) PROVE TypeOK'
    <3>1. probe[p] < Replicas => probe[p] + 1 \in 0 .. Replicas
      OBVIOUS
    <3>2. probe' \in [Pod -> 0 .. Replicas]
      BY <2>5, <3>1 DEF CheckActive
    <3>3. found' \in [Pod -> BOOLEAN]
      BY <2>5, Zenon DEF CheckActive
    <3>4. failures' \in 0 .. MaxFailures
      BY <2>5 DEF CheckActive
    <3>5. QED
      BY <2>5, <3>2, <3>3, <3>4 DEF CheckActive
  <2>6. ASSUME NEW p \in Pod, SkipFormat(p) PROVE TypeOK'
    BY <2>6 DEF SkipFormat
  <2>7. ASSUME NEW p \in Pod, NEW j \in JournalNodes, FormatNameNode(p, j)
        PROVE TypeOK'
    BY <2>7 DEF FormatNameNode
  <2>8. ASSUME NEW p \in Pod, NEW j \in JournalNodes, FormatRefused(p, j)
        PROVE TypeOK'
    BY <2>8 DEF FormatRefused, RestartScript
  <2>9. ASSUME NEW p \in Pod, NEW q \in Pod, NEW j \in JournalNodes,
               BootstrapStandby(p, q, j)
        PROVE TypeOK'
    BY <2>9 DEF BootstrapStandby
  <2>10. ASSUME NEW p \in Pod, NEW j \in JournalNodes, BootstrapFails(p, j)
         PROVE TypeOK'
    BY <2>10 DEF BootstrapFails, RestartScript
  <2>11. ASSUME NEW p \in Pod, FormatZooKeeper(p) PROVE TypeOK'
    BY <2>11 DEF FormatZooKeeper
  <2>12. ASSUME NEW p \in Pod, NEW j \in JournalNodes, StartNameNode(p, j)
         PROVE TypeOK'
    BY <2>12 DEF StartNameNode
  <2>13. ASSUME NEW p \in Pod, StartZkfc(p) PROVE TypeOK'
    BY <2>13 DEF StartZkfc
  <2>14. ASSUME NEW p \in Pod, Elect(p) PROVE TypeOK'
    BY <2>14 DEF Elect
  <2>15. ASSUME NEW p \in Pod, StepDown(p) PROVE TypeOK'
    BY <2>15 DEF StepDown
  <2>16. ASSUME NEW p \in Pod, Reclaim(p) PROVE TypeOK'
    BY <2>16 DEF Reclaim
  <2>17. ASSUME NEW p \in Pod, CrashNameNode(p) PROVE TypeOK'
    BY <2>17 DEF CrashNameNode, Fail
  <2>18. ASSUME NEW p \in Pod, CrashZkfc(p) PROVE TypeOK'
    BY <2>18 DEF CrashZkfc, Fail
  <2>19. ASSUME NEW p \in Pod, CrashScript(p) PROVE TypeOK'
    BY <2>19 DEF CrashScript, RestartScript, Fail
  <2>20. ASSUME NEW p \in Pod, DeletePod(p) PROVE TypeOK'
    BY <2>20 DEF DeletePod, RemovePod, Fail
  <2>21. ASSUME NEW p \in Pod, NEW j \in JournalNodes, FormatInterrupted(p, j)
         PROVE TypeOK'
    BY <2>21 DEF FormatInterrupted, RestartScript
  <2>22. CASE UNCHANGED vars
    BY <2>22 DEF vars
  <2>23. QED
    BY <2>1, <2>2, <2>3, <2>4, <2>5, <2>6, <2>7, <2>8, <2>9, <2>10, <2>11,
       <2>12, <2>13, <2>14, <2>15, <2>16, <2>17, <2>18, <2>19, <2>20, <2>21,
       <2>22, ZenonT(60)
    DEF Next, Kubelet, FormatNameNodes, Failover, Failure
<1>3. QED
  BY <1>2

(* The state of the two scripts, the volumes, the journal and the          *)
(* processes is well typed in every behaviour.                             *)
THEOREM TypeCorrect == Spec => []TypeOK
  BY TypeInit, TypeStep, PTL DEF Spec

-----------------------------------------------------------------------------
(* The namespace of the journal, and ordinal 0 of p's group. *)
JournalIs(id) == \A j \in JournalNodes : journal[j] = id
First(p) == <<p[1], 0>>

(* A running NameNode is in its main phase on the journal's namespace. *)
RunningInv ==
  \A p \in Pod : nn[p] # "down" =>
    phase[p] = "main" /\ version[p] # 0 /\ JournalIs(version[p])

(* Past its first init container a pod has a VERSION file; past the second *)
(* the znode exists.                                                       *)
PhaseInv ==
  \A p \in Pod :
    /\ phase[p] \in {"format-zookeeper", "main"} => version[p] # 0
    /\ phase[p] = "main" => znode

(* A later pod exists only since ordinal 0 has been ready, so that one's   *)
(* namespace is the journal's and the znode exists.                        *)
OrderInv ==
  \A p \in Pod : p[2] # 0 /\ phase[p] # "absent" =>
    znode /\ version[First(p)] # 0 /\ JournalIs(version[First(p)])

(* A later pod's VERSION was copied: it is that of ordinal 0. *)
CopyInv ==
  \A p \in Pod : p[2] # 0 /\ version[p] # 0 =>
    version[First(p)] = version[p] /\ JournalIs(version[p])

(* Identifiers in use have been handed out, each to one role group. *)
IdInv ==
  /\ \A p \in Pod : version[p] <= lastId
  /\ \A j \in JournalNodes : journal[j] <= lastId
  /\ \A p, q \in Pod : version[p] = version[q] /\ version[p] # 0 => p[1] = q[1]

IInv ==
  TypeOK /\ RunningInv /\ PhaseInv /\ OrderInv /\ CopyInv /\ IdInv

(* Ordinal 0 of a pod's group is a pod. *)
LEMMA FirstPod ==
  ASSUME NEW p \in Pod
  PROVE  /\ First(p) \in Pod
         /\ First(p)[1] = p[1] /\ First(p)[2] = 0
         /\ p[2] \in Nat
         /\ p[2] = 0 => First(p) = p
  BY ReplicasAssumption DEF First, Pod, Ordinal

(* Steps that leave the volumes, the journal and the identifiers alone,    *)
(* keep the znode, bring no NameNode up and at most take pods away.        *)
Quiet ==
  /\ UNCHANGED <<version, journal, lastId>>
  /\ znode => znode'
  /\ \A p \in Pod :
       /\ nn'[p] # "down" => nn[p] # "down" /\ phase'[p] = phase[p]
       /\ phase'[p] # phase[p] => phase'[p] = "absent"

(* Quiet steps preserve the invariant. *)
LEMMA QuietStep == ASSUME IInv, TypeOK', Quiet PROVE IInv'
<1> USE DEF Quiet, JournalIs, First
<1>1. RunningInv'
  BY DEF IInv, RunningInv
<1>2. PhaseInv'
  BY DEF IInv, PhaseInv
<1>3. OrderInv'
  BY DEF IInv, OrderInv
<1>4. CopyInv'
  BY DEF IInv, CopyInv
<1>5. IdInv'
  BY DEF IInv, IdInv
<1>6. QED
  BY <1>1, <1>2, <1>3, <1>4, <1>5 DEF IInv

(* Creating a pod: for a later ordinal, ordinal 0 is ready at this moment. *)
LEMMA CreatePodStep ==
  ASSUME IInv, TypeOK', NEW p \in Pod, CreatePod(p) PROVE IInv'
<1> USE DEF CreatePod, budget
<1>1. RunningInv'
  BY DEF IInv, TypeOK, RunningInv, JournalIs
<1>2. PhaseInv'
  BY DEF IInv, TypeOK, PhaseInv
<1>3. OrderInv'
  <2> SUFFICES ASSUME NEW r \in Pod, r[2] # 0, phase'[r] # "absent"
               PROVE  znode /\ version[First(r)] # 0 /\ JournalIs(version[First(r)])
    BY DEF OrderInv, JournalIs, First
  <2>1. CASE r = p
    <3>1. Ready(First(p))
      BY <2>1, FirstPod, SMTT(60) DEF PredecessorsReady
    <3>2. QED
      BY <2>1, <3>1, FirstPod DEF Ready, IInv, RunningInv, PhaseInv
  <2>2. CASE r # p
    BY <2>2 DEF IInv, TypeOK, OrderInv
  <2>3. QED
    BY <2>1, <2>2
<1>4. CopyInv' /\ IdInv'
  BY SMTT(60) DEF IInv, CopyInv, IdInv, JournalIs, First
<1>5. QED
  BY <1>1, <1>2, <1>3, <1>4, SMTT(60) DEF IInv

(* A pod moves on to its next container with its VERSION file in place. *)
LEMMA AdvanceStep ==
  ASSUME IInv, TypeOK', NEW p \in Pod, SkipFormat(p) \/ FormatZooKeeper(p)
  PROVE  IInv'
<1> USE DEF SkipFormat, FormatZooKeeper, LoopDone
<1>1. UNCHANGED <<version, journal, lastId, nn>> /\ (znode => znode')
  BY DEF IInv, TypeOK
<1>2. \A r \in Pod : r # p => phase'[r] = phase[r]
  BY SMTT(60) DEF IInv, TypeOK
<1>3. nn[p] = "down" /\ phase[p] # "absent"
  BY SMTT(60) DEF IInv, RunningInv
<1>4. RunningInv'
  BY <1>1, <1>2, <1>3 DEF IInv, RunningInv, JournalIs
<1>5. PhaseInv'
  <2>1. version[p] # 0 /\ (phase'[p] = "main" => znode')
    <3>1. CASE SkipFormat(p)
      BY <3>1 DEF IInv, TypeOK
    <3>2. CASE FormatZooKeeper(p) /\ p[2] = 0
      BY <3>2, ZenonT(60) DEF IInv, PhaseInv
    <3>3. CASE FormatZooKeeper(p) /\ p[2] # 0
      BY <3>3, ZenonT(60) DEF IInv, PhaseInv, OrderInv
    <3>4. QED
      BY <3>1, <3>2, <3>3, SMTT(60)
  <2>2. QED
    BY <1>1, <1>2, <2>1, SMTT(60) DEF IInv, PhaseInv
<1>6. OrderInv'
  BY <1>1, <1>2, <1>3, SMTT(60) DEF IInv, OrderInv, JournalIs, First
<1>7. CopyInv' /\ IdInv'
  BY <1>1, SMTT(60) DEF IInv, CopyInv, IdInv, JournalIs, First
<1>8. QED
  BY <1>4, <1>5, <1>6, <1>7, SMTT(60) DEF IInv

(* A NameNode comes up on the namespace of the journal. *)
LEMMA StartStep ==
  ASSUME SingleJournal, IInv, TypeOK',
         NEW p \in Pod, NEW j \in JournalNodes, StartNameNode(p, j)
  PROVE  IInv'
<1> USE DEF StartNameNode
<1>1. JournalIs(version[p])
  BY SMTT(60) DEF SingleJournal, JournalIs
<1>2. RunningInv'
  BY <1>1, SMTT(60) DEF IInv, TypeOK, RunningInv, JournalIs
<1>3. PhaseInv' /\ OrderInv' /\ CopyInv' /\ IdInv'
  BY SMTT(60) DEF IInv, PhaseInv, OrderInv, CopyInv, IdInv, JournalIs, First
<1>4. QED
  BY <1>2, <1>3, SMTT(60) DEF IInv

(* A namespace is created only while the journal is empty: then no         *)
(* NameNode runs, no later pod exists and no later volume is formatted.    *)
LEMMA EmptyJournal ==
  ASSUME IInv, NEW j \in JournalNodes, journal[j] = 0, NEW p \in Pod
  PROVE  /\ nn[p] = "down"
         /\ p[2] # 0 => phase[p] = "absent" /\ version[p] = 0
  BY SMTT(60) DEF IInv, RunningInv, OrderInv, CopyInv, JournalIs

LEMMA FormatStep ==
  ASSUME SingleJournal, IInv, TypeOK', NEW p \in Pod, NEW j \in JournalNodes,
         FormatNameNode(p, j) \/ FormatInterrupted(p, j)
  PROVE  IInv'
<1> USE DEF FormatNameNode, FormatInterrupted, WantsFormat, LoopDone
<1>1. journal[j] = 0 /\ lastId' = lastId + 1 /\ UNCHANGED <<nn, znode>>
  BY SMTT(60)
<1>2. /\ \A r \in Pod : r # p => version'[r] = version[r] /\ phase'[r] = phase[r]
      /\ version[p] = 0 /\ version'[p] \in {0, lastId'}
      /\ \A i \in JournalNodes : journal'[i] \in {journal[i], lastId'}
      /\ phase'[p] \in {"format-namenodes", "format-zookeeper"}
      /\ phase'[p] = "format-zookeeper" => version'[p] = lastId'
      /\ phase[p] # "absent"
  BY SMTT(60) DEF IInv, TypeOK
<1>3. \A r \in Pod : nn[r] = "down" /\ (r[2] # 0 => phase[r] = "absent" /\ version[r] = 0)
  BY <1>1, EmptyJournal, SMTT(60)
<1>4. p[2] = 0
  BY <1>2, <1>3, SMTT(60)
<1>5. RunningInv'
  BY <1>1, <1>3, SMTT(60) DEF RunningInv
<1>6. PhaseInv'
  BY <1>1, <1>2, SMTT(60) DEF IInv, TypeOK, PhaseInv
<1>7. OrderInv' /\ CopyInv'
  BY <1>2, <1>3, <1>4, SMTT(60) DEF OrderInv, CopyInv
<1>8. IdInv'
  BY <1>1, <1>2, SMTT(60) DEF IInv, TypeOK, IdInv
<1>9. QED
  BY <1>5, <1>6, <1>7, <1>8, SMTT(60) DEF IInv

(* bootstrapStandby copies a namespace within the role group. *)
LEMMA BootstrapStep ==
  ASSUME SingleJournal, IInv, TypeOK', NEW p \in Pod, NEW q \in Pod,
         NEW j \in JournalNodes, BootstrapStandby(p, q, j)
  PROVE  IInv'
<1> USE DEF BootstrapStandby, WantsBootstrap, LoopDone, CanCopy
<1>1. /\ UNCHANGED <<nn, znode, journal, lastId>>
      /\ version[p] = 0 /\ version'[p] = version[q]
      /\ phase[p] # "absent" /\ phase'[p] = "format-zookeeper"
      /\ \A r \in Pod : r # p => version'[r] = version[r] /\ phase'[r] = phase[r]
  BY DEF IInv, TypeOK
<1>2. version[q] # 0 /\ JournalIs(version[q]) /\ q[1] = p[1]
  BY DEF IInv, RunningInv
<1>3. nn[p] = "down"
  BY <1>1 DEF IInv, RunningInv
<1>4. RunningInv'
  BY <1>1, <1>3, SMTT(60) DEF IInv, RunningInv, JournalIs
<1>5. PhaseInv'
  BY <1>1, <1>2, SMTT(60) DEF IInv, PhaseInv
<1>6. ASSUME p[2] # 0 PROVE First(p) # p /\ version[First(p)] = version[q]
  BY <1>1, <1>2, <1>6, FirstPod, JournalAssumption, SMTT(60)
  DEF IInv, OrderInv, JournalIs
<1>7. OrderInv'
  <2> SUFFICES ASSUME NEW r \in Pod, r[2] # 0, phase'[r] # "absent"
               PROVE  znode /\ version'[First(r)] # 0 /\ JournalIs(version'[First(r)])
    BY <1>1 DEF OrderInv, JournalIs, First
  <2>1. phase[r] # "absent" /\ First(r) \in Pod
    BY <1>1, FirstPod
  <2>2. version[First(r)] # 0 /\ znode /\ JournalIs(version[First(r)])
    BY <2>1 DEF IInv, OrderInv
  <2>3. QED
    BY <2>1, <2>2, <1>1, SMTT(60)
<1>8. CopyInv'
  <2> SUFFICES ASSUME NEW r \in Pod, r[2] # 0, version'[r] # 0
               PROVE  version'[First(r)] = version'[r] /\ JournalIs(version'[r])
    BY <1>1, SMTT(60) DEF CopyInv, JournalIs, First
  <2>1. CASE r = p
    BY <2>1, <1>1, <1>2, <1>6, FirstPod, SMTT(60)
  <2>2. CASE r # p
    <3>1. version[First(r)] = version[r] /\ version[r] # 0 /\ JournalIs(version[r])
      BY <2>2, <1>1 DEF IInv, CopyInv
    <3>2. First(r) # p
      BY <3>1, <1>1, SMTT(60)
    <3>3. QED
      BY <3>1, <3>2, <2>2, <1>1, FirstPod
  <2>3. QED
    BY <2>1, <2>2
<1>9. IdInv'
  BY <1>1, <1>2 DEF IInv, TypeOK, IdInv
<1>10. QED
  BY <1>4, <1>5, <1>7, <1>8, <1>9 DEF IInv

LEMMA IInvInit == Init => IInv
<1> SUFFICES ASSUME Init PROVE IInv
  OBVIOUS
<1>1. TypeOK
  BY TypeInit
<1>2. RunningInv /\ PhaseInv /\ OrderInv /\ CopyInv
  BY DEF Init, RunningInv, PhaseInv, OrderInv, CopyInv
<1>3. IdInv
  BY DEF Init, IdInv
<1>4. QED
  BY <1>1, <1>2, <1>3 DEF IInv

(* With one JournalNode behind the shared edits address every step keeps   *)
(* the invariant.                                                          *)
LEMMA IInvStep == ASSUME SingleJournal, IInv, [Next]_vars PROVE IInv'
<1>1. TypeOK'
  BY TypeStep DEF IInv
<1>2. TypeOK
  BY DEF IInv
<1>3. ASSUME NEW p \in Pod, CreatePod(p) PROVE IInv'
  BY <1>1, <1>3, CreatePodStep
<1>4. ASSUME NEW p \in Pod, RemovePod(p) PROVE Quiet
  BY <1>2, <1>4 DEF RemovePod, Quiet, TypeOK, script
<1>5. ASSUME NEW p \in Pod, ScaleDown(p) \/ DeletePod(p) PROVE IInv'
  BY <1>1, <1>4, <1>5, QuietStep DEF ScaleDown, DeletePod
<1>6. ASSUME SetStopped \/ ClearStopped PROVE IInv'
  <2>1. Quiet
    BY <1>6 DEF SetStopped, ClearStopped, Quiet
  <2>2. QED
    BY <1>1, <2>1, QuietStep, SMTT(60)
<1>7. ASSUME NEW p \in Pod, Kubelet(p) PROVE IInv'
  <2>1. ASSUME CheckActive(p) PROVE IInv'
    <3>1. Quiet
      BY <2>1 DEF CheckActive, Quiet
    <3>2. QED
      BY <1>1, <3>1, QuietStep, SMTT(60)
  <2>2. ASSUME SkipFormat(p) \/ FormatZooKeeper(p) PROVE IInv'
    BY <1>1, <2>2, AdvanceStep
  <2>3. ASSUME NEW j \in JournalNodes, FormatNameNode(p, j) PROVE IInv'
    BY <1>1, <2>3, FormatStep
  <2>4. ASSUME NEW j \in JournalNodes, FormatRefused(p, j) \/ BootstrapFails(p, j)
        PROVE  IInv'
    <3>1. Quiet
      BY <2>4 DEF FormatRefused, BootstrapFails, Quiet
    <3>2. QED
      BY <1>1, <3>1, QuietStep, SMTT(60)
  <2>5. ASSUME NEW j \in JournalNodes, NEW q \in Pod, BootstrapStandby(p, q, j)
        PROVE  IInv'
    BY <1>1, <2>5, BootstrapStep
  <2>6. ASSUME NEW j \in JournalNodes, StartNameNode(p, j) PROVE IInv'
    BY <1>1, <2>6, StartStep, SMTT(60)
  <2>7. ASSUME StartZkfc(p) PROVE IInv'
    <3>1. Quiet
      BY <2>7 DEF StartZkfc, Quiet
    <3>2. QED
      BY <1>1, <3>1, QuietStep
  <2>8. QED
    BY <1>7, <2>1, <2>2, <2>3, <2>4, <2>5, <2>6, <2>7 DEF Kubelet, FormatNameNodes
<1>8. ASSUME NEW p \in Pod, Failover(p) PROVE IInv'
  <2>1. Quiet
    <3>1. CASE Elect(p)
      BY <3>1, <1>2, SMTT(60) DEF Elect, Quiet, TypeOK
    <3>2. CASE StepDown(p)
      BY <3>2, <1>2, SMTT(60) DEF StepDown, Quiet, TypeOK
    <3>3. CASE Reclaim(p)
      BY <3>3 DEF Reclaim, Quiet
    <3>4. QED
      BY <1>8, <3>1, <3>2, <3>3, SMTT(60) DEF Failover
  <2>2. QED
    BY <1>1, <2>1, QuietStep
<1>9. ASSUME NEW p \in Pod, Failure(p) PROVE IInv'
  <2>1. ASSUME CrashNameNode(p) \/ CrashZkfc(p) \/ CrashScript(p) PROVE IInv'
    <3>1. Quiet
      BY <2>1, <1>2 DEF CrashNameNode, CrashZkfc, CrashScript, Quiet, TypeOK
    <3>2. QED
      BY <1>1, <3>1, QuietStep
  <2>2. ASSUME NEW j \in JournalNodes, FormatInterrupted(p, j) PROVE IInv'
    BY <1>1, <2>2, FormatStep, SMTT(60)
  <2>3. QED
    BY <1>5, <1>9, <2>1, <2>2, SMTT(60) DEF Failure
<1>10. ASSUME UNCHANGED vars PROVE IInv'
  <2>1. Quiet
    BY <1>10 DEF vars, Quiet
  <2>2. QED
    BY <1>1, <2>1, QuietStep
<1>11. QED
  BY <1>3, <1>5, <1>6, <1>7, <1>8, <1>9, <1>10 DEF Next

LEMMA Inductive == ASSUME SingleJournal PROVE Spec => []IInv
<1>1. IInv /\ [Next]_vars => IInv'
  BY IInvStep
<1>2. QED
  BY <1>1, IInvInit, PTL DEF Spec

(* With one JournalNode behind the shared edits address, the data volumes  *)
(* of a NameNode role group never carry two namespaces, for any number of  *)
(* groups, replicas, crashes, evictions and stops: the check-then-format   *)
(* of format-namenodes is safe.                                            *)
THEOREM SingleNamespaceHolds ==
  ASSUME SingleJournal PROVE Spec => []SingleNamespace
<1>1. ASSUME IInv PROVE SingleNamespace
  <2> SUFFICES ASSUME NEW p \in Pod, NEW q \in Pod, p[1] = q[1],
                      version[p] # 0, version[q] # 0
               PROVE  version[p] = version[q]
    BY DEF SingleNamespace
  <2>1. First(p) = First(q)
    BY SMTT(60) DEF First
  <2>2. version[p] = version[First(p)] /\ version[q] = version[First(q)]
    BY <1>1, FirstPod, SMTT(60) DEF IInv, CopyInv
  <2>3. QED
    BY <2>1, <2>2, SMTT(60)
<1>2. QED
  BY <1>1, Inductive, PTL

(* With one JournalNode, the NameNodes that run all belong to one role     *)
(* group: the check-then-format never lets a second group start on the     *)
(* journal of the first.                                                   *)
THEOREM OneGroupServesHolds ==
  ASSUME SingleJournal PROVE Spec => []OneGroupServes
<1>1. ASSUME IInv PROVE OneGroupServes
  BY <1>1, JournalAssumption DEF IInv, RunningInv, IdInv, JournalIs, OneGroupServes
<1>2. QED
  BY <1>1, Inductive, PTL

(* With one JournalNode, no step of format-namenodes creates a namespace   *)
(* while a NameNode runs.                                                  *)
THEOREM NoFormatWhileServingHolds ==
  ASSUME SingleJournal PROVE Spec => NoFormatWhileServing
<1>1. ASSUME IInv, [Next]_vars
      PROVE  [lastId' # lastId => \A p \in Pod : nn[p] = "down"]_vars
  <2> SUFFICES ASSUME lastId' # lastId PROVE \A p \in Pod : nn[p] = "down"
    OBVIOUS
  <2>1. PICK p \in Pod, j \in JournalNodes :
          FormatNameNode(p, j) \/ FormatInterrupted(p, j)
    <3>1. Next
      BY <1>1, SMTT(60) DEF vars
    <3>2. ASSUME NEW p \in Pod, Failover(p) PROVE FALSE
      BY <3>2, SMTT(60) DEF Failover, Elect, StepDown, Reclaim
    <3>3. ASSUME NEW p \in Pod, CreatePod(p) \/ ScaleDown(p) PROVE FALSE
      BY <3>3 DEF CreatePod, ScaleDown, RemovePod
    <3>4. ~SetStopped /\ ~ClearStopped
      BY SMTT(60) DEF SetStopped, ClearStopped
    <3>5. ASSUME NEW p \in Pod, Kubelet(p)
          PROVE  \E j \in JournalNodes : FormatNameNode(p, j)
      BY <3>5, SMTT(60)
      DEF Kubelet, FormatNameNodes, CheckActive, SkipFormat, FormatRefused,
          BootstrapStandby, BootstrapFails, FormatZooKeeper, StartNameNode, StartZkfc
    <3>6. ASSUME NEW p \in Pod, Failure(p)
          PROVE  \E j \in JournalNodes : FormatInterrupted(p, j)
      BY <3>6, SMTT(60)
      DEF Failure, CrashNameNode, CrashZkfc, CrashScript, DeletePod, RemovePod
    <3>7. QED
      BY <3>1, <3>2, <3>3, <3>4, <3>5, <3>6 DEF Next
  <2>2. journal[j] = 0
    BY <2>1, SMTT(60) DEF FormatNameNode, FormatInterrupted
  <2>3. QED
    BY <1>1, <2>2, EmptyJournal
<1>2. QED
  BY <1>1, Inductive, PTL DEF Spec, NoFormatWhileServing

-----------------------------------------------------------------------------
(* That the init containers have done their work does not depend on the    *)
(* journal: a volume keeps its VERSION file and ZooKeeper its znode, which *)
(* is there before any later pod is, and a NameNode that runs, from which  *)
(* a volume may be copied, has a VERSION file.                             *)
WorkInv ==
  /\ TypeOK
  /\ PhaseInv
  /\ \A p \in Pod : p[2] # 0 /\ phase[p] # "absent" => znode
  /\ \A p \in Pod : nn[p] # "down" => version[p] # 0

(* Steps that keep what the init containers left, move no pod on and bring *)
(* no NameNode up.                                                         *)
LEMMA WorkKept ==
  ASSUME WorkInv, TypeOK', znode => znode',
         \A p \in Pod : /\ version[p] # 0 => version'[p] # 0
                        /\ phase'[p] = phase[p] \/ phase'[p] = "absent"
                        /\ nn'[p] # "down" => nn[p] # "down"
  PROVE  WorkInv'
BY SMTT(60) DEF WorkInv, PhaseInv

(* Steps that move the pod p on, with its VERSION file in place. *)
LEMMA WorkDone ==
  ASSUME WorkInv, TypeOK', znode => znode', UNCHANGED nn, NEW p \in Pod,
         phase[p] # "absent", version'[p] # 0, phase'[p] = "main" => znode',
         \A r \in Pod : r # p => version'[r] = version[r] /\ phase'[r] = phase[r]
  PROVE  WorkInv'
BY SMTT(60) DEF WorkInv, PhaseInv

LEMMA WorkStep == ASSUME WorkInv, [Next]_vars PROVE WorkInv'
<1>1. TypeOK /\ TypeOK'
  BY TypeStep, SMTT(60) DEF WorkInv
<1>2. ASSUME NEW p \in Pod, CreatePod(p) PROVE WorkInv'
  <2>1. p[2] # 0 => znode
    <3> SUFFICES ASSUME p[2] # 0 PROVE znode
      BY SMTT(60)
    <3>1. Ready(First(p))
      BY <1>2, FirstPod, SMTT(60) DEF CreatePod, PredecessorsReady
    <3> QED
      BY <3>1, FirstPod DEF Ready, WorkInv, PhaseInv
  <2>2. /\ UNCHANGED <<version, nn, znode>>
        /\ phase'[p] = "format-namenodes"
        /\ \A r \in Pod : r # p => phase'[r] = phase[r]
    BY <1>1, <1>2, SMTT(60) DEF CreatePod, TypeOK
  <2> QED
    BY <1>1, <2>1, <2>2, SMTT(60) DEF WorkInv, PhaseInv
<1>3. ASSUME NEW p \in Pod, RemovePod(p) PROVE WorkInv'
  BY <1>1, <1>3, WorkKept DEF RemovePod, TypeOK
<1>4. CASE UNCHANGED <<phase, version, nn, znode>>
  BY <1>1, <1>4, WorkKept, SMTT(60)
<1>5. ASSUME NEW p \in Pod, SkipFormat(p) \/ FormatZooKeeper(p) PROVE WorkInv'
  <2>1. /\ phase[p] # "absent" /\ UNCHANGED <<version, nn>> /\ (znode => znode')
        /\ \A r \in Pod : r # p => phase'[r] = phase[r]
    BY <1>1, <1>5, SMTT(60) DEF SkipFormat, FormatZooKeeper, LoopDone, TypeOK
  <2>2. version[p] # 0
    BY <1>5, SMTT(60) DEF SkipFormat, FormatZooKeeper, WorkInv, PhaseInv
  <2>3. phase'[p] = "main" => znode'
    <3>1. CASE SkipFormat(p)
      BY <1>1, <3>1 DEF SkipFormat, TypeOK
    <3>2. CASE FormatZooKeeper(p) /\ p[2] = 0
      BY <3>2, ZenonT(60) DEF FormatZooKeeper
    <3>3. CASE FormatZooKeeper(p) /\ p[2] # 0
      BY <2>1, <3>3, SMTT(60) DEF WorkInv
    <3> QED
      BY <1>5, <3>1, <3>2, <3>3, SMTT(60)
  <2> QED
    BY <1>1, <2>1, <2>2, <2>3, WorkDone, SMTT(60)
<1>6. ASSUME NEW p \in Pod, NEW j \in JournalNodes, FormatNameNode(p, j) PROVE WorkInv'
  <2>1. lastId' # 0 /\ version'[p] = lastId' /\ phase'[p] = "format-zookeeper"
    BY <1>1, <1>6 DEF FormatNameNode, TypeOK
  <2>2. /\ phase[p] # "absent" /\ UNCHANGED <<nn, znode>>
        /\ \A r \in Pod : r # p => version'[r] = version[r] /\ phase'[r] = phase[r]
    BY <1>1, <1>6 DEF FormatNameNode, WantsFormat, LoopDone, TypeOK
  <2> QED
    BY <1>1, <2>1, <2>2, WorkDone, SMTT(60)
<1>7. ASSUME NEW p \in Pod, NEW q \in Pod, NEW j \in JournalNodes, BootstrapStandby(p, q, j)
      PROVE  WorkInv'
  <2>1. version[q] # 0 /\ version'[p] = version[q] /\ phase'[p] = "format-zookeeper"
    BY <1>1, <1>7, SMTT(60) DEF BootstrapStandby, CanCopy, WorkInv, TypeOK
  <2>2. /\ phase[p] # "absent" /\ UNCHANGED <<nn, znode>>
        /\ \A r \in Pod : r # p => version'[r] = version[r] /\ phase'[r] = phase[r]
    BY <1>1, <1>7, SMTT(60) DEF BootstrapStandby, WantsBootstrap, LoopDone, TypeOK
  <2> QED
    BY <1>1, <2>1, <2>2, WorkDone, SMTT(60)
<1>8. ASSUME NEW p \in Pod, NEW j \in JournalNodes, StartNameNode(p, j) PROVE WorkInv'
  <2>1. /\ UNCHANGED <<phase, version, znode>> /\ version[p] # 0
        /\ \A r \in Pod : r # p => nn'[r] = nn[r]
    BY <1>1, <1>8, SMTT(60) DEF StartNameNode, TypeOK
  <2> QED
    BY <1>1, <2>1, SMTT(60) DEF WorkInv, PhaseInv
<1>9. ASSUME NEW p \in Pod, Failover(p) \/ CrashNameNode(p) PROVE WorkInv'
  <2>1. UNCHANGED <<phase, version, znode>>
    BY <1>9, SMTT(60) DEF Failover, Elect, StepDown, Reclaim, CrashNameNode
  <2>2. \A r \in Pod : nn'[r] # "down" => nn[r] # "down"
    BY <1>1, <1>9, SMTT(60)
    DEF Failover, Elect, StepDown, Reclaim, CrashNameNode, TypeOK
  <2> QED
    BY <1>1, <2>1, <2>2, WorkKept, SMTT(60)
<1>10. ASSUME NEW p \in Pod, NEW j \in JournalNodes, FormatInterrupted(p, j) PROVE WorkInv'
  <2>1. UNCHANGED <<phase, nn, znode>>
    BY <1>10, SMTT(60) DEF FormatInterrupted
  <2>2. \A r \in Pod : version[r] # 0 => version'[r] # 0
    BY <1>1, <1>10, SMTT(60) DEF FormatInterrupted, WantsFormat, TypeOK
  <2> QED
    BY <1>1, <2>1, <2>2, WorkKept, SMTT(60)
<1>11. ASSUME NEW p \in Pod, Kubelet(p) PROVE WorkInv'
  BY <1>4, <1>5, <1>6, <1>7, <1>8, <1>11, ZenonT(60)
  DEF Kubelet, FormatNameNodes, CheckActive, FormatRefused, BootstrapFails, StartZkfc
<1>12. ASSUME NEW p \in Pod, Failure(p) PROVE WorkInv'
  BY <1>3, <1>4, <1>9, <1>10, <1>12 DEF Failure, CrashZkfc, CrashScript, DeletePod
<1> QED
  BY <1>2, <1>3, <1>4, <1>9, <1>11, <1>12
  DEF Next, ScaleDown, SetStopped, ClearStopped, vars

(* The main containers of a pod find a formatted volume and the parent     *)
(* znode, which only ordinal 0 creates, with any number of JournalNodes    *)
(* behind the address and whatever is killed, evicted or stopped.          *)
THEOREM MainInitialisedHolds == Spec => []MainInitialised
<1>1. Init => WorkInv
  BY TypeInit DEF Init, WorkInv, PhaseInv
<1>2. WorkInv /\ [Next]_vars => WorkInv'
  BY WorkStep, SMTT(60)
<1>3. WorkInv => MainInitialised
  BY DEF WorkInv, PhaseInv, MainInitialised
<1> QED
  BY <1>1, <1>2, <1>3, PTL DEF Spec

-----------------------------------------------------------------------------
(* The refinement: what the abstract file system's members are here.       *)
Members == {p \in Pod : version[p] # 0 /\ version[p] = JournalNamespace}

(* With one JournalNode the namespace is the one of any JournalNode. *)
LEMMA OneJournal ==
  ASSUME SingleJournal, NEW j \in JournalNodes
  PROVE  JournalNamespace = journal[j] /\ JournalNamespace' = journal'[j]
<1>1. (CHOOSE i \in JournalNodes : TRUE) = j
  BY DEF SingleJournal
<1> QED
  BY <1>1, ZenonT(60) DEF JournalNamespace

(* Steps that leave volumes and journal alone and take at most the         *)
(* NameNode p down are steps of the abstract file system, or none.         *)
LEMMA LeaveStep ==
  ASSUME UNCHANGED <<version, journal>>, NEW p \in Pod,
         Serving' = Serving \/ Serving' = Serving \ {p}
  PROVE  [FileSystem!Next]_(FileSystem!vars)
<1>1. UNCHANGED <<JournalNamespace, Members>>
  BY DEF JournalNamespace, Members
<1>2. CASE Serving' = Serving
  BY <1>1, <1>2 DEF FileSystem!vars, Members
<1>3. CASE Serving' = Serving \ {p} /\ p \in Serving
  <2>1. FileSystem!Leave(p)
    BY <1>1, <1>3 DEF FileSystem!Leave, Members
  <2> QED
    BY <2>1 DEF FileSystem!Next
<1> QED
  BY <1>2, <1>3

(* Whoever creates a namespace finds the journal empty: nobody serves and  *)
(* no volume has the new identity.                                         *)
LEMMA CreateStep ==
  ASSUME SingleJournal, IInv, NEW p \in Pod, NEW j \in JournalNodes,
         FormatNameNode(p, j) \/ FormatInterrupted(p, j)
  PROVE  [FileSystem!Next]_(FileSystem!vars)
<1> USE DEF FormatNameNode, FormatInterrupted
<1>1. journal[j] = 0 /\ lastId' = lastId + 1 /\ lastId \in Nat /\ UNCHANGED nn
  BY SMTT(60) DEF IInv, TypeOK
<1>2. JournalNamespace = 0 /\ Members = {} /\ Serving = {} /\ Serving' = {}
  BY <1>1, OneJournal, EmptyJournal DEF Members, Serving
<1>3. CASE UNCHANGED journal
  <2>1. JournalNamespace' = 0 /\ Members' = {}
    BY <1>2, <1>3, ZenonT(60) DEF JournalNamespace, Members
  <2> QED
    BY <1>2, <2>1, SMTT(60) DEF FileSystem!vars, Members
<1>4. CASE journal' = [journal EXCEPT ![j] = lastId']
  <2>1. JournalNamespace' = lastId'
    BY <1>4, OneJournal, SMTT(60) DEF IInv, TypeOK
  <2>2. \A q \in Pod : q # p => version'[q] # lastId'
    BY <1>1 DEF IInv, TypeOK, IdInv
  <2>3. Members' = {} \/ Members' = {p}
    BY <2>1, <2>2 DEF Members
  <2>4. FileSystem!Create(p)
    BY <1>1, <1>2, <2>1, <2>3, SMTT(60) DEF FileSystem!Create, Members
  <2> QED
    BY <2>4 DEF FileSystem!Next
<1> QED
  BY <1>3, <1>4

(* bootstrapStandby adds a volume to the file system. *)
LEMMA JoinStep ==
  ASSUME SingleJournal, IInv, NEW p \in Pod, NEW q \in Pod, NEW j \in JournalNodes,
         BootstrapStandby(p, q, j)
  PROVE  [FileSystem!Next]_(FileSystem!vars)
<1>1. /\ version[p] = 0 /\ q \in Serving /\ q[1] = p[1]
      /\ version' = [version EXCEPT ![p] = version[q]]
      /\ UNCHANGED <<nn, journal>>
  BY SMTT(60) DEF BootstrapStandby, WantsBootstrap, CanCopy, Serving
<1>2. version[q] # 0 /\ JournalNamespace = version[q] /\ UNCHANGED JournalNamespace
  BY <1>1, OneJournal, SMTT(60)
  DEF IInv, RunningInv, JournalIs, Serving, JournalNamespace
<1>3. p \notin Members /\ Members' = Members \cup {p}
  BY <1>1, <1>2, SMTT(60) DEF Members, IInv, TypeOK
<1>4. FileSystem!Join(p, q)
  BY <1>1, <1>2, <1>3, SMTT(60) DEF FileSystem!Join, Members, Serving
<1> QED
  BY <1>4, SMTT(60) DEF FileSystem!Next

(* A NameNode that starts has a volume of the file system. *)
LEMMA ServeStep ==
  ASSUME SingleJournal, IInv, NEW p \in Pod, NEW j \in JournalNodes, StartNameNode(p, j)
  PROVE  [FileSystem!Next]_(FileSystem!vars)
<1> USE DEF StartNameNode
<1>1. p \in Members /\ UNCHANGED <<JournalNamespace, Members>>
  BY OneJournal, SMTT(60) DEF Members, JournalNamespace
<1>2. p \notin Serving /\ Serving' = Serving \cup {p}
  BY SMTT(60) DEF Serving, IInv, TypeOK
<1>3. FileSystem!Serve(p)
  BY <1>1, <1>2 DEF FileSystem!Serve, Members
<1> QED
  BY <1>3, SMTT(60) DEF FileSystem!Next

(* Every step of the bootstrap is a step of the file system, or none. *)
LEMMA RefinementStep ==
  ASSUME SingleJournal, IInv, [Next]_vars
  PROVE  [FileSystem!Next]_(FileSystem!vars)
<1>1. ASSUME UNCHANGED <<version, journal, nn>>
      PROVE  [FileSystem!Next]_(FileSystem!vars)
  BY <1>1 DEF FileSystem!vars, JournalNamespace, Serving
<1>2. ASSUME NEW p \in Pod, RemovePod(p) \/ CrashNameNode(p)
      PROVE  [FileSystem!Next]_(FileSystem!vars)
  <2>1. Serving' = Serving \ {p} /\ UNCHANGED <<version, journal>>
    BY <1>2, SMTT(60) DEF RemovePod, CrashNameNode, Serving, IInv, TypeOK
  <2> QED
    BY <2>1, LeaveStep, SMTT(60)
<1>3. ASSUME NEW p \in Pod, CreatePod(p) \/ ScaleDown(p)
      PROVE  [FileSystem!Next]_(FileSystem!vars)
  BY <1>1, <1>2, <1>3, SMTT(60) DEF CreatePod, ScaleDown
<1>4. ASSUME SetStopped \/ ClearStopped PROVE [FileSystem!Next]_(FileSystem!vars)
  BY <1>1, <1>4, SMTT(60) DEF SetStopped, ClearStopped
<1>5. ASSUME NEW p \in Pod, Kubelet(p) PROVE [FileSystem!Next]_(FileSystem!vars)
  <2>1. ASSUME \/ CheckActive(p) \/ SkipFormat(p) \/ FormatZooKeeper(p) \/ StartZkfc(p)
               \/ \E j \in JournalNodes : FormatRefused(p, j) \/ BootstrapFails(p, j)
        PROVE  UNCHANGED <<version, journal, nn>>
    BY <2>1, ZenonT(60)
    DEF CheckActive, SkipFormat, FormatZooKeeper, StartZkfc, FormatRefused,
        BootstrapFails
  <2> QED
    BY <1>1, <1>5, <2>1, CreateStep, JoinStep, ServeStep, SMTT(60)
    DEF Kubelet, FormatNameNodes
<1>6. ASSUME NEW p \in Pod, Failover(p) PROVE [FileSystem!Next]_(FileSystem!vars)
  <2>1. Serving' = Serving /\ UNCHANGED <<version, journal>>
    <3>1. CASE Elect(p)
      BY <3>1, SMTT(60) DEF Elect, Serving, IInv, TypeOK
    <3>2. CASE StepDown(p)
      BY <3>2, SMTT(60) DEF StepDown, Serving, IInv, TypeOK
    <3>3. CASE Reclaim(p)
      BY <3>3, SMTT(60) DEF Reclaim, Serving
    <3> QED
      BY <1>6, <3>1, <3>2, <3>3, SMTT(60) DEF Failover
  <2> QED
    BY <2>1, LeaveStep
<1>7. ASSUME NEW p \in Pod, Failure(p) PROVE [FileSystem!Next]_(FileSystem!vars)
  <2>1. ASSUME CrashZkfc(p) \/ CrashScript(p) PROVE UNCHANGED <<version, journal, nn>>
    BY <2>1, SMTT(60) DEF CrashZkfc, CrashScript
  <2> QED
    BY <1>1, <1>2, <1>7, <2>1, CreateStep, SMTT(60) DEF Failure, DeletePod
<1>8. ASSUME UNCHANGED vars PROVE [FileSystem!Next]_(FileSystem!vars)
  BY <1>1, <1>8 DEF vars
<1> QED
  BY <1>3, <1>4, <1>5, <1>6, <1>7, <1>8, SMTT(60) DEF Next

(* With one JournalNode behind the shared edits address, the init          *)
(* containers of any number of NameNode role groups and replicas, with any *)
(* number of crashes, evictions and stops, implement the one file system   *)
(* of Namespace.                                                           *)
THEOREM ImplementsNamespaceHolds ==
  ASSUME SingleJournal PROVE Spec => ImplementsNamespace
<1>1. ASSUME Init PROVE FileSystem!Init
  <2>1. JournalNamespace = 0
    BY <1>1, JournalAssumption DEF Init, JournalNamespace
  <2> QED
    BY <1>1, <2>1 DEF Init, FileSystem!Init, Serving
<1>2. ASSUME IInv, [Next]_vars PROVE [FileSystem!Next]_(FileSystem!vars)
  BY <1>2, RefinementStep
<1> QED
  BY <1>1, <1>2, Inductive, PTL DEF Spec, ImplementsNamespace, FileSystem!Spec
=============================================================================
