-------------------------- MODULE WaitForNameNodes --------------------------
(***************************************************************************)
(* The init container wait-for-namenodes of a DataNode pod: a bounded      *)
(* number of rounds, each of which asks every NameNode of the cluster for  *)
(* its HA state, one `hdfs haadmin -getServiceState` at a time.  The       *)
(* NameNodes come and go while the script runs.                            *)
(***************************************************************************)
EXTENDS Integers, FiniteSets, Functions

CONSTANTS
  Groups,      \* names that NameNode role groups may have
  Own,         \* role group whose NameNodes the pod's hdfs-site.xml lists
  Replicas,    \* replicas of each NameNode role group
  MaxRounds,   \* rounds of the loop (12 in the script)
  MaxRestarts  \* bound: times the init container is killed and restarted

ASSUME OwnAssumption == IsFiniteSet(Groups) /\ Own \in Groups
ASSUME CountAssumption ==
  Replicas \in Nat \ {0} /\ MaxRounds \in Nat \ {0} /\ MaxRestarts \in Nat

VARIABLES
  order,     \* order in which nameNodeIds ranged over the role groups
  serving,   \* NameNodes that are active or standby
  outcome,   \* how the script ended, "waiting" while it runs
  n,         \* rounds done
  idx,       \* ids asked in this round
  allReady,  \* ALL_NODES_READY
  answered,  \* history: ids that answered active or standby in this round
  missed,    \* history: rounds in which some id did not
  restarts   \* restarts so far

vars == <<order, serving, outcome, n, idx, allReady, answered, missed, restarts>>

NumGroups == Cardinality(DOMAIN order)
NumIds == NumGroups * Replicas
NameNodes == Range(order) \X (0 .. Replicas - 1)

(* The list in the script: for each group, in the order of the Go map, its *)
(* pods by ordinal.                                                        *)
nameNodeIds(k) == <<order[k \div Replicas], k % Replicas>>

(* Type invariant of the wait script. *)
TypeOK ==
  /\ Own \in Range(order) /\ Range(order) \subseteq Groups
  /\ serving \in SUBSET NameNodes
  /\ outcome \in {"waiting", "ready", "gave-up"}
  /\ n \in 0 .. MaxRounds
  /\ idx \in 0 .. NumIds
  /\ allReady \in BOOLEAN
  /\ answered \in SUBSET NameNodes
  /\ missed \in SUBSET (0 .. MaxRounds - 1)
  /\ restarts \in 0 .. MaxRestarts

Init ==
  /\ \E gs \in SUBSET Groups :
       /\ Own \in gs
       /\ order \in Bijection(0 .. Cardinality(gs) - 1, gs)
  /\ serving = {}
  /\ outcome = "waiting"
  /\ n = 0
  /\ idx = 0
  /\ allReady = TRUE
  /\ answered = {}
  /\ missed = {}
  /\ restarts = 0

-----------------------------------------------------------------------------
(* Mutation: an hdfs-site.xml that lists the NameNodes of all groups. *)
AnswersAnyGroup(id) == id \in serving

(* haadmin knows the ids of hdfs-site.xml, which are those of one group;   *)
(* for any other id it fails, as for a NameNode that is down, and          *)
(* `|| true` turns the failure into the answer "not ready".                *)
Answers(id) == id \in serving /\ id[1] = Own

(* Mutation: the answer is tested for not being empty. *)
CheckNameNodeAny ==
  /\ outcome = "waiting"
  /\ idx < NumIds
  /\ idx' = idx + 1
  /\ answered' = answered \cup {id \in {nameNodeIds(idx)} : Answers(id)}
  /\ UNCHANGED <<order, serving, outcome, n, allReady, missed, restarts>>

CheckNameNode ==
  LET id == nameNodeIds(idx) IN
  /\ outcome = "waiting"
  /\ idx < NumIds
  /\ idx' = idx + 1
  /\ \/ /\ Answers(id)
        /\ answered' = answered \cup {id}
        /\ UNCHANGED <<allReady, missed>>
     \/ /\ ~Answers(id)
        /\ allReady' = FALSE
        /\ missed' = missed \cup {n}
        /\ UNCHANGED answered
  /\ UNCHANGED <<order, serving, outcome, n, restarts>>

(* "All namenodes ready!": break. *)
AllReady ==
  /\ outcome = "waiting"
  /\ idx = NumIds
  /\ allReady
  /\ outcome' = "ready"
  /\ UNCHANGED <<order, serving, n, idx, allReady, answered, missed, restarts>>

(* Mutation: ALL_NODES_READY=true moved out of the loop. *)
NextRoundSticky ==
  /\ outcome = "waiting"
  /\ idx = NumIds
  /\ ~allReady
  /\ n' = n + 1
  /\ outcome' = IF n' = MaxRounds THEN "gave-up" ELSE "waiting"
  /\ idx' = IF n' = MaxRounds THEN idx ELSE 0
  /\ answered' = {}
  /\ UNCHANGED <<order, serving, allReady, missed, restarts>>

(* Mutation: `-le 12` in the place of `-lt 12`. *)
NextRoundLate ==
  /\ outcome = "waiting"
  /\ idx = NumIds
  /\ ~allReady
  /\ n' = n + 1
  /\ outcome' = IF n' > MaxRounds THEN "gave-up" ELSE "waiting"
  /\ idx' = IF n' > MaxRounds THEN idx ELSE 0
  /\ allReady' = (n' <= MaxRounds)
  /\ answered' = {}
  /\ UNCHANGED <<order, serving, missed, restarts>>

(* Mutation: n=$((n + 1)) dropped. *)
NextRoundForever ==
  /\ outcome = "waiting"
  /\ idx = NumIds
  /\ ~allReady
  /\ idx' = 0
  /\ allReady' = TRUE
  /\ answered' = {}
  /\ UNCHANGED <<order, serving, outcome, n, missed, restarts>>

(* Some NameNode was not ready: another round, or out of the loop and,     *)
(* since nothing follows it, on to the datanode container.                 *)
NextRound ==
  /\ outcome = "waiting"
  /\ idx = NumIds
  /\ ~allReady
  /\ n' = n + 1
  /\ outcome' = IF n' = MaxRounds THEN "gave-up" ELSE "waiting"
  /\ idx' = IF n' = MaxRounds THEN idx ELSE 0
  /\ allReady' = (n' < MaxRounds)
  /\ answered' = {}
  /\ UNCHANGED <<order, serving, missed, restarts>>

(* The container is killed while it runs, or the pod at any time: the      *)
(* script starts over.                                                     *)
Restart ==
  /\ restarts < MaxRestarts
  /\ restarts' = restarts + 1
  /\ outcome' = "waiting"
  /\ n' = 0
  /\ idx' = 0
  /\ allReady' = TRUE
  /\ answered' = {}
  /\ missed' = {}
  /\ UNCHANGED <<order, serving>>

NameNodeUp(id) ==
  /\ id \notin serving
  /\ serving' = serving \cup {id}
  /\ UNCHANGED <<order, outcome, n, idx, allReady, answered, missed, restarts>>

NameNodeDown(id) ==
  /\ id \in serving
  /\ serving' = serving \ {id}
  /\ UNCHANGED <<order, outcome, n, idx, allReady, answered, missed, restarts>>

Script == CheckNameNode \/ AllReady \/ NextRound

Next ==
  \/ Script
  \/ Restart
  \/ \E id \in NameNodes : NameNodeUp(id)
  \/ \E id \in NameNodes : NameNodeDown(id)

Spec == Init /\ [][Next]_vars

(* The shell runs on; NameNodes and kills owe nothing. *)
FairSpec == Spec /\ WF_vars(Script)

-----------------------------------------------------------------------------
(* The script says that all NameNodes are ready only after a round in      *)
(* which each of them answered, also those whose answer came long before   *)
(* the last one's.                                                         *)
ReadyWasSeen == outcome = "ready" => answered = NameNodes

(* The script gives up only after MaxRounds rounds of one run, each of     *)
(* which met a NameNode that was not ready: a round in which all were up   *)
(* ends the wait, whatever the rounds before it found.                     *)
GaveUpAfterMisses == outcome = "gave-up" => missed = 0 .. MaxRounds - 1

(* A DataNode pod is never held back for ever: the wait ends, also the one *)
(* of a pod that takes another's place, although the NameNodes may keep    *)
(* going up and down.                                                      *)
WaitEnds == []<>(outcome # "waiting")

(* Steps the script has left at most: the calls and the ends of the        *)
(* rounds it has not come to.                                              *)
StepsLeft == IF outcome = "waiting" THEN (MaxRounds - n) * (NumIds + 1) - idx ELSE 0

(* The wait has a bound that no NameNode can stretch: every step of the    *)
(* script uses up one of MaxRounds * (NumIds + 1) steps, although idx      *)
(* starts over in every round, and only a kill gives them back.            *)
WaitRunsOut ==
  [][/\ StepsLeft \in 0 .. MaxRounds * (NumIds + 1)
     /\ Script => StepsLeft' < StepsLeft
     /\ restarts' = restarts => StepsLeft' <= StepsLeft]_vars

(* With one NameNode role group, if from some moment of the wait on all    *)
(* NameNodes serve, and a round is left, the wait ends with "All namenodes *)
(* ready!", also after restarts.                                           *)
ServingEndsWait ==
  [](NumGroups = 1 /\ n < MaxRounds - 1 /\ []((outcome = "waiting") => serving = NameNodes)
       => <>(outcome = "ready"))

(* A script that lists the NameNodes of role groups its hdfs-site.xml does *)
(* not know, which is the case as soon as there are two groups, asks all   *)
(* its rounds in vain.                                                     *)
UnknownIdsNeverReady == NumGroups > 1 => outcome # "ready"
=============================================================================
