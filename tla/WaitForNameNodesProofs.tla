----------------------- MODULE WaitForNameNodesProofs -----------------------
(***************************************************************************)
(* Proofs about WaitForNameNodes for every list of NameNode role groups,   *)
(* number of replicas, number of rounds and number of restarts.            *)
(*                                                                         *)
(* The script forgets the rounds that are over; what it says at the end is *)
(* about all of them.  IInv relates ALL_NODES_READY and the two counters   *)
(* of the loops to what the answers were.                                  *)
(***************************************************************************)
EXTENDS WaitForNameNodes, FiniteSetTheorems, TLAPS

(* The list covers NumGroups different groups. *)
OrderInv ==
  /\ NumGroups \in Nat
  /\ order \in [0 .. NumGroups - 1 -> Groups]
  /\ \A i, j \in 0 .. NumGroups - 1 : order[i] = order[j] => i = j

(* The counters stay in the loops. *)
LoopInv ==
  /\ outcome \in {"waiting", "ready", "gave-up"}
  /\ n \in 0 .. MaxRounds
  /\ outcome = "waiting" => n < MaxRounds
  /\ idx \in 0 .. NumIds

(* While the flag is set, all ids asked so far have answered; an id that   *)
(* answers is one of the own group.                                        *)
AskInv ==
  /\ answered \subseteq NameNodes
  /\ outcome # "gave-up" /\ allReady = TRUE =>
       \A k \in 0 .. idx - 1 : nameNodeIds(k) \in answered /\ nameNodeIds(k)[1] = Own
  /\ outcome = "ready" => allReady = TRUE /\ idx = NumIds

(* Every round that is over has missed a NameNode, and so has the present  *)
(* one when the flag is not set.                                           *)
MissInv ==
  /\ outcome = "waiting" /\ allReady = TRUE => missed = 0 .. n - 1
  /\ outcome = "waiting" /\ allReady = FALSE => missed = 0 .. n
  /\ outcome = "gave-up" => missed = 0 .. MaxRounds - 1

IInv == OrderInv /\ LoopInv /\ AskInv /\ MissInv /\ allReady \in BOOLEAN

-----------------------------------------------------------------------------
(* The k-th id is one of the (k \div r)-th group. *)
LEMMA Quotient ==
  ASSUME NEW k \in Nat, NEW r \in Nat \ {0}, NEW g \in Nat, k < g * r
  PROVE  k \div r \in 0 .. g - 1 /\ k % r \in 0 .. r - 1
<1>1. k \div r < g /\ k \div r >= 0 /\ k \div r \in Int
  OBVIOUS
<1> QED
  BY <1>1

(* The ids of the list are the NameNodes. *)
LEMMA IdsAreNameNodes ==
  ASSUME OrderInv
  PROVE  /\ NumIds \in Nat
         /\ \A k \in 0 .. NumIds - 1 : nameNodeIds(k) \in NameNodes
         /\ \A id \in NameNodes : \E k \in 0 .. NumIds - 1 : nameNodeIds(k) = id
<1> USE CountAssumption DEF OrderInv
<1>1. NumIds \in Nat
  BY DEF NumIds
<1>2. ASSUME NEW k \in 0 .. NumIds - 1 PROVE nameNodeIds(k) \in NameNodes
  <2>1. k \div Replicas \in 0 .. NumGroups - 1 /\ k % Replicas \in 0 .. Replicas - 1
    <3>1. k \in Nat /\ k < NumGroups * Replicas
      BY <1>1 DEF NumIds
    <3> QED
      BY <3>1, Quotient, ZenonT(60)
  <2> QED
    BY <2>1 DEF nameNodeIds, NameNodes, Range
<1>3. ASSUME NEW id \in NameNodes PROVE \E k \in 0 .. NumIds - 1 : nameNodeIds(k) = id
  <2>1. PICK g \in 0 .. NumGroups - 1, i \in 0 .. Replicas - 1 : id = <<order[g], i>>
    BY DEF NameNodes, Range
  <2> DEFINE k == g * Replicas + i
  <2>2. k \in 0 .. NumIds - 1
    BY DEF NumIds
  <2>3. k \div Replicas = g /\ k % Replicas = i
    OBVIOUS
  <2> QED
    BY <2>1, <2>2, <2>3, ZenonT(60) DEF nameNodeIds
<1> QED
  BY <1>1, <1>2, <1>3

(* The script starts with a list of different groups and nothing asked. *)
LEMMA IInvInit == Init => IInv
<1> SUFFICES ASSUME Init PROVE IInv
  OBVIOUS
<1> USE CountAssumption
<1>1. PICK gs \in SUBSET Groups : order \in Bijection(0 .. Cardinality(gs) - 1, gs)
  BY DEF Init
<1>2. Cardinality(gs) \in Nat
  BY OwnAssumption, FS_Subset, FS_CardinalityType
<1>3. DOMAIN order = 0 .. Cardinality(gs) - 1
  BY <1>1 DEF Bijection, Injection
<1>4. NumGroups = Cardinality(gs)
  BY <1>2, <1>3, FS_Interval DEF NumGroups
<1>5. OrderInv
  BY <1>1, <1>2, <1>4 DEF OrderInv, Bijection, Injection, IsInjective
<1>6. LoopInv /\ AskInv /\ MissInv
  BY <1>5, IdsAreNameNodes DEF Init, LoopInv, AskInv, MissInv
<1>7. allReady \in BOOLEAN
  BY Zenon DEF Init
<1> QED
  BY <1>5, <1>6, <1>7 DEF IInv

(* One answer, the end of a round, a restart and the NameNodes' coming and *)
(* going keep the invariant.                                               *)
LEMMA IInvStep == IInv /\ [Next]_vars => IInv'
<1> SUFFICES ASSUME IInv, [Next]_vars PROVE IInv'
  OBVIOUS
<1> USE CountAssumption
<1>1. OrderInv /\ LoopInv /\ AskInv /\ MissInv
  BY DEF IInv
<1>2. allReady \in BOOLEAN
  BY DEF IInv
<1>3. /\ OrderInv' /\ UNCHANGED <<order, NumGroups, NumIds, NameNodes>>
      /\ \A k : nameNodeIds(k)' = nameNodeIds(k)
  <2>1. UNCHANGED order
    BY DEF Next, Script, CheckNameNode, AllReady, NextRound, Restart, NameNodeUp,
           NameNodeDown, vars
  <2> QED
    BY <1>1, <2>1 DEF OrderInv, NumGroups, NumIds, NameNodes, nameNodeIds
<1>4. NumIds \in Nat
  BY <1>1, IdsAreNameNodes
<1>5. allReady' \in BOOLEAN
  <2>1. UNCHANGED allReady \/ allReady' = FALSE \/ allReady' = TRUE
        \/ allReady' = (n' < MaxRounds)
    BY DEF Next, Script, CheckNameNode, AllReady, NextRound, Restart, NameNodeUp,
           NameNodeDown, vars
  <2>2. (n' < MaxRounds) \in BOOLEAN
    OBVIOUS
  <2> QED
    BY <1>2, <2>1, <2>2, ZenonT(60)
<1>6. CASE CheckNameNode
  <2>1. /\ outcome = "waiting" /\ idx < NumIds /\ idx' = idx + 1
        /\ UNCHANGED <<outcome, n>>
    BY <1>6 DEF CheckNameNode
  <2>2. \/ /\ Answers(nameNodeIds(idx)) /\ answered' = answered \cup {nameNodeIds(idx)}
           /\ UNCHANGED <<allReady, missed>>
        \/ /\ allReady' = FALSE /\ missed' = missed \cup {n}
           /\ UNCHANGED answered
    BY <1>6 DEF CheckNameNode
  <2>3. LoopInv'
    BY <1>1, <1>3, <1>4, <2>1, SMTT(60) DEF LoopInv
  <2>4. AskInv'
    <3>1. nameNodeIds(idx) \in NameNodes
      BY <1>1, <1>4, <2>1, IdsAreNameNodes DEF LoopInv
    <3> QED
      BY <1>1, <1>3, <1>4, <2>1, <2>2, <3>1 DEF AskInv, LoopInv, Answers
  <2>5. MissInv'
    <3>1. n \in Nat /\ (missed = 0 .. n - 1 \/ missed = 0 .. n)
      BY <1>1, <1>2, <2>1 DEF MissInv, LoopInv
    <3>2. missed \cup {n} = 0 .. n
      BY <3>1
    <3> QED
      BY <1>1, <2>1, <2>2, <3>2, ZenonT(60) DEF MissInv
  <2> QED
    BY <1>3, <1>5, <2>3, <2>4, <2>5, SMTT(60) DEF IInv
<1>7. CASE AllReady
  <2>1. /\ outcome' = "ready" /\ allReady = TRUE /\ idx = NumIds /\ outcome = "waiting"
        /\ UNCHANGED <<n, idx, allReady, answered, missed>>
    BY <1>2, <1>7, Zenon DEF AllReady
  <2>2. LoopInv' /\ MissInv'
    BY <1>1, <1>3, <2>1 DEF LoopInv, MissInv
  <2>3. AskInv'
    BY <1>1, <1>3, <2>1, SMTT(60) DEF AskInv, LoopInv
  <2> QED
    BY <1>3, <1>5, <2>2, <2>3 DEF IInv
<1>8. CASE NextRound
  <2>1. /\ outcome = "waiting" /\ n' = n + 1
        /\ outcome' = IF n' = MaxRounds THEN "gave-up" ELSE "waiting"
        /\ idx' = IF n' = MaxRounds THEN idx ELSE 0
        /\ answered' = {} /\ UNCHANGED missed
    BY <1>8 DEF NextRound
  <2>2. allReady = FALSE
    BY <1>2, <1>8, Zenon DEF NextRound
  <2>3. LoopInv'
    BY <1>1, <1>3, <1>4, <2>1 DEF LoopInv
  <2>4. AskInv'
    BY <2>1 DEF AskInv
  <2>5. outcome' = "waiting" => allReady' = TRUE
    <3>1. outcome' = "waiting" => n' < MaxRounds
      BY <2>3 DEF LoopInv
    <3> QED
      BY <1>8, <3>1, Zenon DEF NextRound
  <2>6. MissInv'
    BY <1>1, <2>1, <2>2, <2>5, SMTT(60) DEF MissInv, LoopInv
  <2> QED
    BY <1>3, <1>5, <2>3, <2>4, <2>6 DEF IInv
<1>9. CASE Restart
  <2>1. /\ outcome' = "waiting" /\ n' = 0 /\ idx' = 0 /\ allReady' = TRUE
        /\ answered' = {} /\ missed' = {}
    BY <1>9 DEF Restart
  <2>2. LoopInv' /\ AskInv' /\ MissInv'
    BY <1>3, <1>4, <2>1, SMTT(60) DEF LoopInv, AskInv, MissInv
  <2> QED
    BY <1>3, <1>5, <2>2 DEF IInv
<1>10. CASE UNCHANGED <<outcome, n, idx, allReady, answered, missed>>
  <2>1. LoopInv' /\ MissInv'
    BY <1>1, <1>3, <1>10 DEF LoopInv, MissInv
  <2>2. AskInv'
    BY <1>1, <1>3, <1>10 DEF AskInv
  <2> QED
    BY <1>3, <1>5, <2>1, <2>2 DEF IInv
<1> QED
  BY <1>6, <1>7, <1>8, <1>9, <1>10, SMTT(60)
  DEF Next, Script, NameNodeUp, NameNodeDown, vars

LEMMA Inductive == Spec => []IInv
  BY IInvInit, IInvStep, PTL DEF Spec

-----------------------------------------------------------------------------
(* "All namenodes ready!" is said only after a round in which each of them *)
(* answered, for any number of groups, replicas, rounds and restarts.      *)
THEOREM ReadyWasSeenHolds == Spec => []ReadyWasSeen
<1>1. ASSUME IInv PROVE ReadyWasSeen
  BY <1>1, IdsAreNameNodes, ZenonT(60) DEF IInv, LoopInv, AskInv, ReadyWasSeen
<1> QED
  BY <1>1, Inductive, PTL

(* The script gives up only when every one of its rounds met a NameNode    *)
(* that was not ready.                                                     *)
THEOREM GaveUpAfterMissesHolds == Spec => []GaveUpAfterMisses
<1>1. ASSUME IInv PROVE GaveUpAfterMisses
  BY <1>1 DEF IInv, MissInv, GaveUpAfterMisses
<1> QED
  BY <1>1, Inductive, PTL

(* With two NameNode role groups the wait is always in vain: nameNodeIds   *)
(* lists the ids of both, hdfs-site.xml those of one.                      *)
THEOREM UnknownIdsNeverReadyHolds == Spec => []UnknownIdsNeverReady
<1>1. ASSUME IInv PROVE UnknownIdsNeverReady
  <2> SUFFICES ASSUME NumGroups > 1, outcome = "ready" PROVE FALSE
    BY DEF UnknownIdsNeverReady
  <2> USE CountAssumption
  <2>1. /\ NumGroups \in Nat
        /\ \A k \in 0 .. NumIds - 1 : nameNodeIds(k)[1] = Own
    BY <1>1 DEF IInv, OrderInv, AskInv
  <2>2. 0 \in 0 .. NumIds - 1 /\ Replicas \in 0 .. NumIds - 1
    BY <2>1 DEF NumIds
  <2>3. 0 \div Replicas = 0 /\ Replicas \div Replicas = 1
    OBVIOUS
  <2>4. order[0] = Own /\ order[1] = Own
    BY <2>1, <2>2, <2>3 DEF nameNodeIds
  <2> QED
    BY <1>1, <2>1, <2>4 DEF IInv, OrderInv
<1> QED
  BY <1>1, Inductive, PTL

-----------------------------------------------------------------------------
(* What the type invariant adds to IInv: the NameNodes that come and go    *)
(* are those of the list, and a round that missed one is a round of the    *)
(* loop.                                                                   *)
EnvironmentInv ==
  /\ Own \in Range(order) /\ Range(order) \subseteq Groups
  /\ serving \subseteq NameNodes
  /\ missed \subseteq 0 .. MaxRounds - 1
  /\ restarts \in 0 .. MaxRestarts

LEMMA EnvironmentStep ==
  ASSUME IInv, EnvironmentInv, [Next]_vars PROVE EnvironmentInv'
<1> USE CountAssumption
<1>1. UNCHANGED <<order, Range(order), NameNodes>>
  <2>1. UNCHANGED order
    BY DEF Next, Script, CheckNameNode, AllReady, NextRound, Restart, NameNodeUp,
           NameNodeDown, vars
  <2> QED
    BY <2>1 DEF NameNodes, Range
<1>2. serving' \subseteq NameNodes
  BY DEF EnvironmentInv, Next, Script, CheckNameNode, AllReady, NextRound, Restart, NameNodeUp,
         NameNodeDown, vars
<1>3. missed' \subseteq 0 .. MaxRounds - 1
  <2>1. UNCHANGED missed \/ missed' = {} \/ (outcome = "waiting" /\ missed' = missed \cup {n})
    BY DEF Next, Script, CheckNameNode, AllReady, NextRound, Restart, NameNodeUp,
           NameNodeDown, vars
  <2>2. outcome = "waiting" => n \in 0 .. MaxRounds - 1
    BY SMTT(60) DEF IInv, LoopInv
  <2> QED
    BY <2>1, <2>2, ZenonT(60) DEF EnvironmentInv
<1>4. restarts' \in 0 .. MaxRestarts
  BY DEF EnvironmentInv, Next, Script, CheckNameNode, AllReady, NextRound, Restart, NameNodeUp,
         NameNodeDown, vars
<1> QED
  BY <1>1, <1>2, <1>3, <1>4 DEF EnvironmentInv

(* The list of NameNode groups has the DataNode's own group in it. *)
LEMMA EnvironmentInit == Init => EnvironmentInv
<1> SUFFICES ASSUME Init PROVE EnvironmentInv
  OBVIOUS
<1>1. PICK gs \in SUBSET Groups :
        Own \in gs /\ order \in Bijection(0 .. Cardinality(gs) - 1, gs)
  BY DEF Init
<1>2. Range(order) = gs
  BY <1>1 DEF Bijection, Surjection, Injection, Range
<1> QED
  BY <1>1, <1>2, CountAssumption DEF Init, EnvironmentInv

LEMMA EnvironmentHolds == Spec => []EnvironmentInv
<1>1. IInv /\ EnvironmentInv /\ [Next]_vars => EnvironmentInv'
  BY EnvironmentStep
<1> QED
  BY <1>1, EnvironmentInit, Inductive, PTL DEF Spec

(* The counters of the script stay in their loops and its list names only  *)
(* NameNodes, whatever comes and goes while it runs.                       *)
THEOREM WaitTypeCorrect == Spec => []TypeOK
<1>1. IInv /\ EnvironmentInv => TypeOK
  BY DEF IInv, EnvironmentInv, LoopInv, AskInv, TypeOK
<1> QED
  BY <1>1, Inductive, EnvironmentHolds, PTL

-----------------------------------------------------------------------------
(* While the script waits it has a step left: it is inside its two loops. *)
LEMMA StepsLeftRange ==
  ASSUME IInv
  PROVE  /\ NumIds \in Nat
         /\ StepsLeft \in 0 .. MaxRounds * (NumIds + 1)
         /\ outcome = "waiting" => StepsLeft > 0
<1> USE CountAssumption
<1>1. NumIds \in Nat
  BY IdsAreNameNodes DEF IInv
<1>2. CASE outcome # "waiting"
  <2>1. MaxRounds * (NumIds + 1) \in Nat
    BY <1>1
  <2> QED
    BY <1>1, <1>2, <2>1 DEF StepsLeft
<1>3. CASE outcome = "waiting"
  <2>1. n \in Nat /\ n < MaxRounds /\ idx \in 0 .. NumIds
    BY <1>3 DEF IInv, LoopInv
  <2>2. PICK m \in Nat \ {0} : m = MaxRounds - n /\ m <= MaxRounds
    BY <2>1
  <2>3. m * (NumIds + 1) >= NumIds + 1
    BY <1>1, <2>2
  <2>4. m * (NumIds + 1) <= MaxRounds * (NumIds + 1)
    BY <1>1, <2>2
  <2>5. m * (NumIds + 1) \in Nat /\ MaxRounds * (NumIds + 1) \in Nat
    BY <1>1, <2>2
  <2>6. StepsLeft = m * (NumIds + 1) - idx
    BY <1>3, <2>2 DEF StepsLeft
  <2> QED
    BY <1>1, <2>1, <2>3, <2>4, <2>5, <2>6, SMTT(60)
<1> QED
  BY <1>2, <1>3, SMTT(60)

(* The end of a round costs one step as well: a round less of NumIds + 1   *)
(* steps, and none of the next one's ids asked.                            *)
LEMMA RoundCosts ==
  ASSUME NEW m \in Int, NEW k \in Nat
  PROVE  (m - 1) * (k + 1) = m * (k + 1) - k - 1
OBVIOUS

LEMMA StepsLeftStep ==
  ASSUME IInv, EnvironmentInv, [Next]_vars
  PROVE  /\ Script => StepsLeft' < StepsLeft
         /\ restarts' = restarts => StepsLeft' <= StepsLeft
<1> USE CountAssumption
<1>1. /\ StepsLeft \in Nat /\ NumIds \in Nat
      /\ outcome = "waiting" => StepsLeft > 0
  BY StepsLeftRange
<1>2. UNCHANGED NumIds
  <2>1. UNCHANGED order
    BY DEF Next, Script, CheckNameNode, AllReady, NextRound, Restart, NameNodeUp,
           NameNodeDown, vars
  <2> QED
    BY <2>1 DEF NumIds, NumGroups
<1>3. n \in Nat /\ idx \in Nat
  BY <1>1 DEF IInv, LoopInv
<1>4. CASE CheckNameNode
  <2>1. outcome = "waiting" /\ idx' = idx + 1 /\ UNCHANGED <<outcome, n>>
    BY <1>4 DEF CheckNameNode
  <2>2. (MaxRounds - n) * (NumIds + 1) \in Int
    BY <1>1, <1>3
  <2>3. StepsLeft' = StepsLeft - 1
    BY <1>2, <1>3, <2>1, <2>2, SMTT(60) DEF StepsLeft
  <2> QED
    BY <1>1, <2>3
<1>5. CASE AllReady
  <2>1. outcome = "waiting" /\ outcome' = "ready"
    BY <1>5 DEF AllReady
  <2> QED
    BY <1>1, <2>1 DEF StepsLeft
<1>6. CASE NextRound
  <2>1. /\ outcome = "waiting" /\ idx = NumIds /\ n' = n + 1
        /\ outcome' = "gave-up" \/ (outcome' = "waiting" /\ idx' = 0)
    BY <1>6 DEF NextRound
  <2>2. CASE outcome' = "gave-up"
    BY <1>1, <2>1, <2>2 DEF StepsLeft
  <2>3. CASE outcome' = "waiting" /\ idx' = 0
    <3>1. MaxRounds - n' = (MaxRounds - n) - 1 /\ MaxRounds - n \in Int
      BY <1>3, <2>1
    <3>2. (MaxRounds - n') * (NumIds + 1) = (MaxRounds - n) * (NumIds + 1) - NumIds - 1
      BY <1>1, <3>1, RoundCosts
    <3>3. (MaxRounds - n) * (NumIds + 1) \in Int
      BY <1>1, <3>1
    <3>4. StepsLeft = (MaxRounds - n) * (NumIds + 1) - NumIds
      BY <2>1 DEF StepsLeft
    <3>5. StepsLeft' = (MaxRounds - n') * (NumIds + 1)
      BY <1>1, <1>2, <2>3, <3>2, <3>3 DEF StepsLeft
    <3> QED
      BY <1>1, <3>2, <3>3, <3>4, <3>5
  <2> QED
    BY <2>1, <2>2, <2>3, SMTT(60)
<1>7. CASE Restart
  <2>1. restarts' = restarts + 1 /\ restarts < MaxRestarts
    BY <1>7 DEF Restart
  <2>2. restarts' # restarts
    BY <2>1 DEF EnvironmentInv
  <2>3. Script => UNCHANGED restarts
    BY DEF Script, CheckNameNode, AllReady, NextRound
  <2> QED
    BY <2>2, <2>3
<1>8. CASE UNCHANGED <<outcome, n, idx>>
  <2>1. ~Script
    <3>1. ~CheckNameNode
      BY <1>3, <1>8 DEF CheckNameNode
    <3>2. ~AllReady
      BY <1>8 DEF AllReady
    <3>3. ~NextRound
      BY <1>3, <1>8 DEF NextRound
    <3> QED
      BY <3>1, <3>2, <3>3 DEF Script
  <2>2. StepsLeft' = StepsLeft
    BY <1>2, <1>8 DEF StepsLeft
  <2> QED
    BY <1>1, <2>1, <2>2
<1> QED
  BY <1>4, <1>5, <1>6, <1>7, <1>8, SMTT(60)
  DEF Next, Script, NameNodeUp, NameNodeDown, vars

(* The wait of a DataNode runs out after at most MaxRounds * (NumIds + 1)  *)
(* steps of the script, whatever the NameNodes do and however many there   *)
(* are: with a shell that runs on, WaitEnds follows for every size.        *)
THEOREM WaitRunsOutHolds == Spec => WaitRunsOut
<1>1. ASSUME IInv, EnvironmentInv, [Next]_vars
      PROVE  [/\ StepsLeft \in 0 .. MaxRounds * (NumIds + 1)
              /\ Script => StepsLeft' < StepsLeft
              /\ restarts' = restarts => StepsLeft' <= StepsLeft]_vars
  BY <1>1, StepsLeftRange, StepsLeftStep
<1> QED
  BY <1>1, Inductive, EnvironmentHolds, PTL DEF Spec, WaitRunsOut
=============================================================================
