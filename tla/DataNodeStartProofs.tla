------------------------- MODULE DataNodeStartProofs -------------------------
(***************************************************************************)
(* Proofs about DataNodeStart for every number of role groups, replicas,   *)
(* rounds, failures and stops.  NameNodes come and go one at a time, as    *)
(* the script expects.  Under SingleJournal none leaves the file system,   *)
(* by the bootstrap's invariant and its refinement of Namespace.           *)
(***************************************************************************)
EXTENDS DataNodeStart, NameNodeBootstrapProofs, FiniteSetTheorems

(* The DataNode's volume is of the file system, and so are the volumes of  *)
(* the NameNodes that have answered the script in its present round.       *)
StartInv ==
  /\ IInv
  /\ blocks # 0 => blocks = JournalNamespace
  /\ answered \subseteq Members
  /\ Wait!Range(order) = Groups

-----------------------------------------------------------------------------
(* Nothing but the bootstrap touches the volumes and the processes. *)
LEMMA OthersStep ==
  ASSUME StartNext, ~NameNodeStep
  PROVE  UNCHANGED <<phase, version, nn, journal, znode, lastId>>
  BY DEF StartNext, CreateDataNode, RunScript, ScaleDownDataNode, DeleteDataNode, Register,
         vars

(* The parts' steps keep the bootstrap's invariant and are steps of the    *)
(* abstract file system.                                                   *)
LEMMA PartsStep ==
  ASSUME SingleJournal, IInv, [StartNext]_startVars
  PROVE  IInv' /\ [FileSystem!Next]_(FileSystem!vars)
<1>1. CASE [Next]_vars
  BY <1>1, IInvStep, RefinementStep, SMTT(60)
<1>2. CASE DeleteDataNode
  <2>1. TypeOK'
    BY <1>2, BoundsAssumption, SMTT(60) DEF DeleteDataNode, Fail, script, IInv, TypeOK
  <2>2. Quiet
    BY <1>2, SMTT(60) DEF DeleteDataNode, Quiet
  <2>3. UNCHANGED <<version, journal, nn>>
    BY <1>2, SMTT(60) DEF DeleteDataNode
  <2> QED
    BY <2>1, <2>2, <2>3, QuietStep, SMTT(60)
    DEF FileSystem!vars, JournalNamespace, Serving
<1> QED
  BY <1>1, <1>2, SMTT(60)
  DEF StartNext, NameNodeStep, CreateDataNode, RunScript, ScaleDownDataNode,
      Register, startVars

(* What is of the file system stays so. *)
LEMMA MembersStay ==
  ASSUME SingleJournal, IInv, [StartNext]_startVars
  PROVE  /\ JournalNamespace # 0 => JournalNamespace' = JournalNamespace
         /\ Members \subseteq Members'
<1>1. [FileSystem!Next]_(FileSystem!vars)
  BY PartsStep, SMTT(60)
<1>2. CASE UNCHANGED FileSystem!vars
  BY <1>2, SMTT(60) DEF FileSystem!vars, Members
<1>3. ASSUME NEW p \in Pod, FileSystem!Create(p) \/ FileSystem!Serve(p) \/ FileSystem!Leave(p)
      PROVE  /\ JournalNamespace # 0 => JournalNamespace' = JournalNamespace
             /\ Members \subseteq Members'
  BY <1>3, SMTT(60) DEF FileSystem!Create, FileSystem!Serve, FileSystem!Leave, Members
<1>4. ASSUME NEW p \in Pod, NEW q \in Pod, FileSystem!Join(p, q)
      PROVE  UNCHANGED JournalNamespace /\ Members \subseteq Members'
  BY <1>4, SMTT(60) DEF FileSystem!Join, Members
<1> QED
  BY <1>1, <1>2, <1>3, <1>4, SMTT(60) DEF FileSystem!Next

(* A NameNode that runs has its volume on the file system. *)
LEMMA ServingAreMembers ==
  ASSUME SingleJournal, IInv, NEW p \in Serving
  PROVE  p \in Members /\ version[p] = JournalNamespace
<1>1. PICK j \in JournalNodes : TRUE
  BY JournalAssumption, SMTT(60)
<1> QED
  BY <1>1, OneJournal, SMTT(60) DEF IInv, RunningInv, JournalIs, Serving, Members

(* The script's steps add to the answers at most a NameNode that runs. *)
LEMMA AnswersStep ==
  ASSUME [StartNext]_startVars
  PROVE  answered' \subseteq answered \cup Serving /\ UNCHANGED order
<1>1. CASE UNCHANGED wait
  BY <1>1, SMTT(60) DEF wait
<1>2. CASE Wait!Script
  BY <1>2, SMTT(60)
  DEF Wait!Script, Wait!CheckNameNode, Wait!AllReady, Wait!NextRound, Wait!Answers
<1>3. CASE Wait!Restart
  BY <1>3, SMTT(60) DEF Wait!Restart
<1> QED
  BY <1>1, <1>2, <1>3, SMTT(60)
  DEF StartNext, NameNodeStep, CreateDataNode, RunScript,
      ScaleDownDataNode, DeleteDataNode, RemoveDataNode, Register, startVars

LEMMA StartInvStep ==
  ASSUME SingleJournal, StartInv, [StartNext]_startVars PROVE StartInv'
<1>1. IInv' /\ IInv
  BY PartsStep, SMTT(60) DEF StartInv
<1>2. (blocks # 0 => blocks = JournalNamespace)'
  <2>1. CASE UNCHANGED blocks
    BY <1>1, <2>1, MembersStay, SMTT(60) DEF StartInv
  <2>2. ASSUME NEW p \in Pod, Register(p)
        PROVE  (blocks # 0 => blocks = JournalNamespace)'
    <3>1. blocks' = JournalNamespace
      BY <1>1, <2>2, ServingAreMembers, SMTT(60) DEF Register
    <3>2. UNCHANGED JournalNamespace
      BY <2>2, SMTT(60) DEF Register, vars, JournalNamespace
    <3> QED
      BY <3>1, <3>2, SMTT(60)
  <2> QED
    BY <2>1, <2>2, SMTT(60) DEF StartNext, NameNodeStep, CreateDataNode, RunScript,
         ScaleDownDataNode, DeleteDataNode, RemoveDataNode, startVars
<1>3. answered' \subseteq Members'
  BY <1>1, MembersStay, AnswersStep, ServingAreMembers, SMTT(60) DEF StartInv
<1>4. (Wait!Range(order) = Groups)'
  BY AnswersStep DEF StartInv, Wait!Range
<1> QED
  BY <1>1, <1>2, <1>3, <1>4, SMTT(60) DEF StartInv

LEMMA StartInductive ==
  ASSUME SingleJournal PROVE StartSpec => []StartInv
<1>1. StartInit => StartInv
  <2> SUFFICES ASSUME StartInit PROVE StartInv
    OBVIOUS
  <2>1. IInv
    BY IInvInit, SMTT(60) DEF StartInit
  <2> QED
    BY <2>1, SMTT(60) DEF StartInit, Wait!Init, StartInv
<1>2. StartInv /\ [StartNext]_startVars => StartInv'
  BY StartInvStep, SMTT(60)
<1> QED
  BY <1>1, <1>2, PTL DEF StartSpec

-----------------------------------------------------------------------------
(* With one JournalNode, a DataNode never meets a NameNode of another      *)
(* namespace than its own, whatever crashes, evictions and stops there     *)
(* have been since it registered.                                          *)
THEOREM DataNodeFitsHolds ==
  ASSUME SingleJournal PROVE StartSpec => []DataNodeFits
<1>1. ASSUME StartInv PROVE DataNodeFits
  BY <1>1, ServingAreMembers, SMTT(60) DEF StartInv, DataNodeFits
<1> QED
  BY <1>1, StartInductive, PTL

-----------------------------------------------------------------------------
(* A step of the bootstrap that leaves the processes alone, or moves the   *)
(* HA state of processes that run on, changes nothing the script can see.  *)
LEMMA SameServing ==
  ASSUME \A p \in Pod : nn[p] = "down" <=> nn'[p] = "down"
  PROVE  UNCHANGED Serving
BY SMTT(60) DEF Serving

(* At most one NameNode comes or goes in a step. *)
LEMMA ServingStep ==
  ASSUME TypeOK, Next
  PROVE  \/ UNCHANGED Serving
         \/ \E p \in Pod : p \notin Serving /\ Serving' = Serving \cup {p}
         \/ \E p \in Pod : p \in Serving /\ Serving' = Serving \ {p}
<1> USE DEF Serving
<1>1. nn \in [Pod -> {"down", "standby", "active"}]
  BY DEF TypeOK
<1>2. CASE UNCHANGED nn
  BY <1>2, SMTT(60)
<1>3. ASSUME NEW p \in Pod, nn' = [nn EXCEPT ![p] = "down"]
      PROVE  UNCHANGED Serving \/ (p \in Serving /\ Serving' = Serving \ {p})
  BY <1>1, <1>3, SMTT(60)
<1>4. ASSUME NEW p \in Pod, NEW j \in JournalNodes, StartNameNode(p, j)
      PROVE  p \notin Serving /\ Serving' = Serving \cup {p}
  BY <1>1, <1>4, SMTT(60) DEF StartNameNode
<1>5. ASSUME NEW p \in Pod, Elect(p) PROVE UNCHANGED Serving
  <2>1. PICK fenced \in BOOLEAN :
          nn' = [q \in Pod |-> IF q = p THEN "active"
                               ELSE IF fenced /\ nn[q] = "active" THEN "standby"
                               ELSE nn[q]]
    BY <1>5, SMTT(60) DEF Elect
  <2>2. \A q \in Pod : nn[q] = "down" <=> nn'[q] = "down"
    BY <1>1, <1>5, <2>1, SMTT(60) DEF Elect
  <2> QED
    BY <2>2, SameServing, SMTT(60)
<1>6. ASSUME NEW p \in Pod, StepDown(p) PROVE UNCHANGED Serving
  BY <1>1, <1>6, SMTT(60) DEF StepDown
<1> QED
  <2>1. \/ UNCHANGED nn
        \/ \E p \in Pod : nn' = [nn EXCEPT ![p] = "down"]
        \/ \E p \in Pod, j \in JournalNodes : StartNameNode(p, j)
        \/ \E p \in Pod : Elect(p) \/ StepDown(p)
    BY ZenonT(60)
    DEF Next, CreatePod, ScaleDown, SetStopped, ClearStopped, Kubelet, FormatNameNodes,
        CheckActive, SkipFormat, FormatNameNode, FormatRefused, BootstrapStandby,
        BootstrapFails, FormatZooKeeper, StartZkfc, Failover, Reclaim, Failure,
        CrashNameNode, CrashZkfc, CrashScript, DeletePod, FormatInterrupted, RemovePod
  <2> QED
    BY <1>2, <1>3, <1>4, <1>5, <1>6, <2>1, SMTT(60)

(* The state of the bootstrap is well typed in the composition as well,    *)
(* and the list is that of all groups.                                     *)
LEMMA PartsTyped ==
  StartSpec => [](TypeOK /\ Wait!Range(order) = Groups)
<1>1. StartInit => TypeOK /\ Wait!Range(order) = Groups
  BY TypeInit, SMTT(60) DEF StartInit
<1>2. ASSUME TypeOK, Wait!Range(order) = Groups, [StartNext]_startVars
      PROVE  TypeOK' /\ (Wait!Range(order) = Groups)'
  <2>1. CASE [Next]_vars
    BY <2>1, <1>2, TypeStep, AnswersStep, SMTT(60) DEF Wait!Range
  <2>2. CASE DeleteDataNode
    <3>1. TypeOK'
      BY <1>2, <2>2, BoundsAssumption, SMTT(60)
      DEF DeleteDataNode, Fail, script, TypeOK
    <3> QED
      BY <1>2, <3>1, AnswersStep, SMTT(60) DEF Wait!Range
  <2> QED
    BY <1>2, <2>1, <2>2, SMTT(60)
    DEF StartNext, NameNodeStep, CreateDataNode, RunScript,
        ScaleDownDataNode, Register, startVars
<1> QED
  BY <1>1, <1>2, PTL DEF StartSpec

(* The NameNodes of the bootstrap do nothing that WaitForNameNodes does    *)
(* not expect, with any number of JournalNodes: what is shown of the       *)
(* script holds in the cluster.                                            *)
THEOREM ImplementsWaitHolds == StartSpec => ImplementsWait
<1>1. ASSUME TypeOK, Wait!Range(order) = Groups, [StartNext]_startVars
      PROVE  [Wait!Next]_(Wait!vars)
  <2>1. CASE UNCHANGED wait /\ UNCHANGED Serving
    BY <2>1, SMTT(60) DEF wait, Wait!vars
  <2>2. CASE UNCHANGED Serving /\ (Wait!Script \/ Wait!Restart)
    BY <2>2, SMTT(60) DEF Wait!Next
  <2>3. CASE NameNodeStep
    <3>1. Next /\ UNCHANGED wait
      BY <2>3, SMTT(60) DEF NameNodeStep
    <3>2. Pod = Wait!NameNodes
      BY <1>1, SMTT(60) DEF Wait!NameNodes, Pod, Ordinal
    <3>3. ASSUME NEW p \in Pod, p \notin Serving, Serving' = Serving \cup {p}
          PROVE  Wait!Next
      BY <3>1, <3>2, <3>3, SMTT(60) DEF Wait!Next, Wait!NameNodeUp, wait
    <3>4. ASSUME NEW p \in Pod, p \in Serving, Serving' = Serving \ {p}
          PROVE  Wait!Next
      BY <3>1, <3>2, <3>4, SMTT(60) DEF Wait!Next, Wait!NameNodeDown, wait
    <3> QED
      BY <1>1, <2>1, <3>1, <3>3, <3>4, ServingStep, SMTT(60)
  <2>4. ASSUME ~NameNodeStep, StartNext PROVE UNCHANGED Serving
    BY <2>4, OthersStep, SMTT(60) DEF Serving
  <2> QED
    BY <1>1, <2>1, <2>2, <2>3, <2>4, ZenonT(60)
    DEF StartNext, CreateDataNode, RunScript,
        ScaleDownDataNode, DeleteDataNode, RemoveDataNode, Register, startVars, vars, Serving
<1>2. ASSUME StartInit PROVE Wait!Init
  BY <1>2, SMTT(60) DEF StartInit
<1> QED
  BY <1>1, <1>2, PartsTyped, PTL DEF StartSpec, ImplementsWait, Wait!Spec

-----------------------------------------------------------------------------
(* What the answers of the script's rounds amount to.  ScriptInv is the    *)
(* part of the invariant of WaitForNameNodesProofs that the end of the     *)
(* wait rests on, of the script with the NameNodes of the bootstrap.       *)

(* The list has NumIds entries, of which idx have been asked; while the    *)
(* flag is set each of these has answered.                                 *)
ScriptInv ==
  /\ Wait!NumGroups \in Nat
  /\ order \in [0 .. Wait!NumGroups - 1 -> Groups]
  /\ idx \in 0 .. Wait!NumIds
  /\ allReady \in BOOLEAN
  /\ outcome # "gave-up" /\ allReady = TRUE =>
       \A k \in 0 .. idx - 1 : Wait!nameNodeIds(k) \in answered
  /\ outcome = "ready" => allReady = TRUE /\ idx = Wait!NumIds

(* Every NameNode of the list's groups is in the list. *)
LEMMA ListIsComplete ==
  ASSUME ScriptInv, NEW id \in Wait!NameNodes
  PROVE  \E k \in 0 .. Wait!NumIds - 1 : Wait!nameNodeIds(k) = id
<1> DEFINE N == Wait!NumGroups
<1>1. N \in Nat /\ order \in [0 .. N - 1 -> Groups] /\ Replicas \in Nat \ {0}
  BY ReplicasAssumption, SMTT(60) DEF ScriptInv
<1>2. PICK g \in 0 .. N - 1, i \in 0 .. Replicas - 1 : id = <<order[g], i>>
  BY <1>1, SMTT(60) DEF Wait!NameNodes, Wait!Range
<1>3. Wait!NumIds = N * Replicas
  BY SMTT(60) DEF Wait!NumIds
<1> HIDE DEF N
<1> DEFINE k == g * Replicas + i
<1>4. k \in 0 .. N * Replicas - 1
  BY <1>1, SMTT(60)
<1>5. k \div Replicas = g /\ k % Replicas = i
  BY <1>1, SMTT(60)
<1> QED
  BY <1>2, <1>3, <1>4, <1>5, SMTT(60) DEF Wait!nameNodeIds

(* The instance counts as the module does. *)
LEMMA SameCardinality == \A S : Wait!Cardinality(S) = Cardinality(S)
  BY SMTT(60) DEF Cardinality, Wait!Cardinality

(* The script starts with nothing asked. *)
LEMMA ScriptInvInit == StartInit => ScriptInv
<1> SUFFICES ASSUME StartInit PROVE ScriptInv
  BY SMTT(60)
<1>1. PICK gs \in SUBSET Groups : order \in Wait!Bijection(0 .. Cardinality(gs) - 1, gs)
  BY SameCardinality, SMTT(60) DEF StartInit, Wait!Init
<1>2. Cardinality(gs) \in Nat
  BY WaitAssumption, FS_Subset, FS_CardinalityType, SMTT(60)
<1>3. order \in [0 .. Cardinality(gs) - 1 -> Groups]
  BY <1>1, SMTT(60) DEF Wait!Bijection, Wait!Injection
<1>4. Wait!NumGroups = Cardinality(gs)
  BY <1>2, <1>3, FS_Interval, SameCardinality, SMTT(60) DEF Wait!NumGroups
<1>5. Wait!NumIds \in Nat
  BY <1>2, <1>4, ReplicasAssumption, SMTT(60) DEF Wait!NumIds
<1>6. allReady \in BOOLEAN
  BY ZenonT(60) DEF StartInit, Wait!Init
<1>7. outcome = "waiting" /\ idx = 0
  BY SMTT(60) DEF StartInit, Wait!Init
<1> QED
  BY <1>2, <1>3, <1>4, <1>5, <1>6, <1>7, SMTT(60) DEF ScriptInv

(* An answer, the end of a round and a new pod keep what the flag says. *)
LEMMA ScriptInvStep ==
  ASSUME ScriptInv, [StartNext]_startVars PROVE ScriptInv'
<1> DEFINE Id(k) == Wait!nameNodeIds(k)
           Num == Wait!NumIds
<1>1. /\ UNCHANGED <<order, Wait!NumGroups, Num>>
      /\ \A k : Wait!nameNodeIds(k)' = Wait!nameNodeIds(k)
  BY AnswersStep, SMTT(60) DEF Wait!NumGroups, Wait!NumIds, Wait!nameNodeIds
<1>2. Num \in Nat
  BY ReplicasAssumption, SMTT(60) DEF ScriptInv, Wait!NumIds
<1>3. CASE UNCHANGED wait
  BY <1>1, <1>3, SMTT(60) DEF ScriptInv, wait
<1>4. CASE Wait!CheckNameNode
  <2>1. /\ outcome = "waiting" /\ idx < Num /\ idx' = idx + 1 /\ UNCHANGED outcome
        /\ \/ answered' = answered \cup {Wait!nameNodeIds(idx)} /\ UNCHANGED allReady
           \/ allReady' = FALSE
    BY <1>4, SMTT(60) DEF Wait!CheckNameNode
  <2>2. idx' \in 0 .. Num' /\ idx \in Nat
    BY <1>1, <1>2, <2>1, SMTT(60) DEF ScriptInv
  <2>3. allReady' \in BOOLEAN
    BY <2>1, ZenonT(60) DEF ScriptInv
  <2>4. ASSUME allReady' = TRUE, NEW k \in 0 .. idx' - 1
        PROVE  Wait!nameNodeIds(k)' \in answered'
    <3>1. /\ answered' = answered \cup {Wait!nameNodeIds(idx)}
          /\ allReady = TRUE
      BY <2>1, <2>4, ZenonT(60)
    <3>2. k \in 0 .. idx - 1 \/ k = idx
      BY <2>1, <2>2, SMTT(60)
    <3> QED
      BY <1>1, <2>1, <3>1, <3>2, SMTT(60) DEF ScriptInv
  <2> QED
    BY <1>1, <2>1, <2>2, <2>3, <2>4, SMTT(60) DEF ScriptInv
<1>5. CASE Wait!AllReady
  <2>1. /\ outcome = "waiting" /\ idx = Num /\ allReady = TRUE
        /\ UNCHANGED <<idx, allReady, answered>>
    BY <1>5, Zenon DEF Wait!AllReady, ScriptInv
  <2> QED
    BY <1>1, <2>1 DEF ScriptInv
<1>6. CASE Wait!NextRound
  <2>1. /\ idx' = IF n' = MaxRounds THEN idx ELSE 0
        /\ outcome' = IF n' = MaxRounds THEN "gave-up" ELSE "waiting"
        /\ allReady' = (n' < MaxRounds)
    BY <1>6, SMTT(60) DEF Wait!NextRound
  <2>2. allReady' \in BOOLEAN
    BY <2>1, SMTT(60)
  <2> QED
    BY <1>1, <1>2, <2>1, <2>2, SMTT(60) DEF ScriptInv
<1>7. CASE Wait!Restart
  <2>1. idx' = 0 /\ outcome' = "waiting" /\ allReady' = TRUE
    BY <1>7, SMTT(60) DEF Wait!Restart
  <2> QED
    BY <1>1, <1>2, <2>1, SMTT(60) DEF ScriptInv
<1> QED
  BY <1>3, <1>4, <1>5, <1>6, <1>7, SMTT(60)
  DEF StartNext, NameNodeStep, CreateDataNode, RunScript,
      ScaleDownDataNode, DeleteDataNode, RemoveDataNode, Register, startVars, Wait!Script

LEMMA ScriptInductive == StartSpec => []ScriptInv
<1>1. ScriptInv /\ [StartNext]_startVars => ScriptInv'
  BY ScriptInvStep, SMTT(60)
<1> QED
  BY <1>1, ScriptInvInit, PTL DEF StartSpec

(* With one JournalNode, "All namenodes ready!" means that every NameNode  *)
(* of the list has its volume on the one file system, although those that  *)
(* answered first may be down again when the last one answers.             *)
THEOREM ReadyMeansFormattedHolds ==
  ASSUME SingleJournal PROVE StartSpec => []ReadyMeansFormatted
<1>1. ASSUME StartInv, ScriptInv PROVE ReadyMeansFormatted
  <2> SUFFICES ASSUME outcome = "ready", NEW p \in Pod
               PROVE  version[p] # 0 /\ version[p] = JournalNamespace
    BY SMTT(60) DEF ReadyMeansFormatted
  <2>1. p \in Wait!NameNodes
    BY <1>1, SMTT(60) DEF StartInv, Wait!NameNodes, Pod, Ordinal
  <2>2. PICK k \in 0 .. Wait!NumIds - 1 : Wait!nameNodeIds(k) = p
    BY <1>1, <2>1, ListIsComplete, SMTT(60)
  <2>3. p \in answered
    BY <1>1, <2>2 DEF ScriptInv
  <2> QED
    BY <1>1, <2>3, SMTT(60) DEF StartInv, Members
<1> QED
  BY <1>1, StartInductive, ScriptInductive, PTL
=============================================================================
