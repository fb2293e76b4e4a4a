--------------------------- MODULE DataNodeStart ---------------------------
(***************************************************************************)
(* The NameNodes of NameNodeBootstrap and a DataNode pod together: its     *)
(* init container wait-for-namenodes, which is WaitForNameNodes with the   *)
(* NameNodes of the bootstrap in the place of ones that come and go at     *)
(* will, and its datanode container, which joins the file system of the    *)
(* first NameNode that it reaches.                                         *)
(***************************************************************************)
EXTENDS NameNodeBootstrap, FiniteSets

CONSTANTS
  Own,       \* role group of the DataNode
  MaxRounds  \* rounds of the wait (12 in the script)

ASSUME WaitAssumption == IsFiniteSet(Groups) /\ Own \in Groups /\ MaxRounds \in Nat \ {0}

VARIABLES
  order, outcome, n, idx, allReady, answered, missed, restarts,  \* WaitForNameNodes
  pod,    \* does the DataNode pod exist?
  blocks  \* namespace on the DataNode's volume, 0: none yet

wait == <<order, outcome, n, idx, allReady, answered, missed, restarts>>
startVars == <<vars, wait, pod, blocks>>

(* Pods are taken away by failures and by stops: the waits begun anew. *)
Wait ==
  INSTANCE WaitForNameNodes WITH
    serving <- Serving,
    MaxRestarts <- MaxFailures + MaxStops

StartInit ==
  /\ Init
  /\ Wait!Init
  /\ Wait!Range(order) = Groups
  /\ pod = FALSE
  /\ blocks = 0

-----------------------------------------------------------------------------
NameNodeStep == Next /\ UNCHANGED <<wait, pod, blocks>>

CreateDataNode ==
  /\ ~stopped /\ ~pod
  /\ pod' = TRUE
  /\ UNCHANGED <<vars, wait, blocks>>

RunScript ==
  /\ pod
  /\ UNCHANGED <<vars, pod, blocks>>
  /\ Wait!Script

(* Mutation: the next pod goes on where the script of the last one was. *)
RemoveDataNodeResume ==
  /\ pod' = FALSE /\ outcome' = "waiting" /\ restarts' = restarts + 1
  /\ UNCHANGED <<order, n, idx, allReady, answered, missed, blocks>>

(* The pod goes, its volume stays; the next pod runs the script anew. *)
RemoveDataNode == pod' = FALSE /\ Wait!Restart /\ UNCHANGED blocks

ScaleDownDataNode ==
  /\ stopped /\ pod
  /\ UNCHANGED vars
  /\ RemoveDataNode

DeleteDataNode ==
  /\ Fail /\ pod
  /\ UNCHANGED <<phase, script, version, nn, zkfc, journal, znode, lock, lastId, stopped,
                 interrupts, stops>>
  /\ RemoveDataNode

(* The datanode container starts when the script has ended, however it     *)
(* has.  It takes the namespace of a NameNode of its hdfs-site.xml.        *)
Register(p) ==
  /\ pod /\ outcome # "waiting"
  /\ p[1] = Own /\ p \in Serving
  /\ blocks = 0
  /\ blocks' = version[p]
  /\ UNCHANGED <<vars, wait, pod>>

StartNext ==
  \/ NameNodeStep
  \/ CreateDataNode
  \/ RunScript
  \/ ScaleDownDataNode
  \/ DeleteDataNode
  \/ \E p \in Pod : Register(p)

StartFairness ==
  /\ Fairness
  /\ WF_startVars(CreateDataNode)
  /\ WF_startVars(ScaleDownDataNode)
  /\ WF_startVars(RunScript)
  /\ WF_startVars(\E p \in Pod : Register(p))

StartSpec == StartInit /\ [][StartNext]_startVars /\ StartFairness

-----------------------------------------------------------------------------
(* When the script ends with "All namenodes ready!", every NameNode of the *)
(* list has its volume on the one file system, although some may have gone *)
(* down since they answered, and others may have answered before the       *)
(* list's last was even created.                                           *)
ReadyMeansFormatted ==
  outcome = "ready" =>
    \A p \in Pod : p[1] = Own => version[p] # 0 /\ version[p] = JournalNamespace

(* A DataNode never meets a NameNode of another namespace than the one on  *)
(* its volume, also after stops and evictions of any of them.              *)
DataNodeFits ==
  \A p \in Pod : blocks # 0 /\ p \in Serving => version[p] = blocks

(* Nothing that the NameNodes of the bootstrap do is outside of what       *)
(* WaitForNameNodes assumes of them.                                       *)
ImplementsWait == Wait!Spec

(* If the user leaves the cluster running, then from some moment on all    *)
(* NameNodes are ready, one is active, and the DataNode is past its wait   *)
(* and part of the file system: no order of starts, crashes, evictions and *)
(* stops leaves one waiting for another.                                   *)
EventuallyServing ==
  <>[]~stopped =>
    <>[](/\ \A p \in Pod : Ready(p)
         /\ \E p \in Pod : nn[p] = "active"
         /\ pod /\ outcome # "waiting" /\ blocks # 0)
=============================================================================
