--------------------------- MODULE XmlProperties ---------------------------
(***************************************************************************)
(* XmlConfiguration.String and DistinctProperties: the properties of an    *)
(* XML configuration and those added to it, one entry per name, the last   *)
(* value winning.  The loop is modelled one iteration a step.  A value is  *)
(* the position (from 0, as in the code) of its pair in the concatenation, *)
(* so an entry of the result is such a position.                           *)
(***************************************************************************)
EXTENDS Integers, Sequences, FiniteSets

CONSTANTS
  Names,          \* property names
  MaxLen,         \* bound: length of each of the two lists
  CallersInputs   \* only lists as the generators pass them?

ASSUME InputsAssumption == MaxLen \in Nat /\ CallersInputs \in BOOLEAN

VARIABLES
  origin,   \* names of c.Properties
  props,    \* names of the properties passed in
  pc,       \* "start", "loop", "done" or "panic"
  idx,      \* loop index
  distinct, \* distinctProperties
  keys      \* distinctKeys, -1: not in the map

vars == <<origin, props, pc, idx, distinct, keys>>

Lists == UNION {[1 .. n -> Names] : n \in 0 .. MaxLen}
HasNoDuplicates(s) == \A i, j \in DOMAIN s : s[i] = s[j] => i = j

collect == origin \o props
NameOf(k) == collect[k + 1]

(* Type invariant of the merge. *)
TypeOK ==
  /\ origin \in Lists /\ props \in Lists
  /\ pc \in {"start", "loop", "done", "panic"}
  /\ idx \in 0 .. Len(collect)
  /\ Len(distinct) <= idx
  /\ \A i \in DOMAIN distinct : distinct[i] \in 0 .. idx - 1
  /\ keys \in [Names -> -1 .. idx - 1]

(* discovery.go and hdfs_conf.go start from a few fixed properties and add *)
(* some, each list without a repeated name.                                *)
Init ==
  /\ origin \in Lists /\ props \in Lists
  /\ CallersInputs => origin # <<>> /\ HasNoDuplicates(origin) /\ HasNoDuplicates(props)
  /\ pc = "start"
  /\ idx = 0
  /\ distinct = <<>>
  /\ keys = [x \in Names |-> -1]

(* String merges only into a configuration that is not empty. *)
String ==
  /\ pc = "start"
  /\ pc' = IF origin # <<>> THEN "loop" ELSE "done"
  /\ UNCHANGED <<origin, props, idx, distinct, keys>>

(* The name is new: remember the loop index and append the pair. *)
AppendNew ==
  /\ pc = "loop" /\ idx < Len(collect)
  /\ keys[NameOf(idx)] = -1
  /\ keys' = [keys EXCEPT ![NameOf(idx)] = idx]
  /\ distinct' = Append(distinct, idx)
  /\ idx' = idx + 1
  /\ UNCHANGED <<origin, props, pc>>

(* Mutation: the first value is kept. *)
OverrideExistingNot ==
  /\ pc = "loop" /\ idx < Len(collect)
  /\ keys[NameOf(idx)] # -1
  /\ idx' = idx + 1
  /\ UNCHANGED <<origin, props, pc, distinct, keys>>

(* Mutation: the old pair is removed and the new one appended. *)
OverrideExistingLast ==
  LET Other(k) == NameOf(k) # NameOf(idx) IN
  /\ pc = "loop" /\ idx < Len(collect)
  /\ keys[NameOf(idx)] # -1
  /\ distinct' = Append(SelectSeq(distinct, Other), idx)
  /\ idx' = idx + 1
  /\ UNCHANGED <<origin, props, pc, keys>>

(* Mutation: the loop index is not advanced. *)
OverrideExistingAgain ==
  /\ pc = "loop" /\ idx < Len(collect)
  /\ keys[NameOf(idx)] # -1
  /\ distinct' = [distinct EXCEPT ![keys[NameOf(idx)] + 1] = idx]
  /\ UNCHANGED <<origin, props, pc, idx, keys>>

(* The name is known: overwrite the entry at the remembered index, which   *)
(* need not be one of the result.                                          *)
OverrideExisting ==
  LET existIdx == keys[NameOf(idx)] IN
  /\ pc = "loop" /\ idx < Len(collect)
  /\ existIdx # -1
  /\ idx' = idx + 1
  /\ \/ /\ existIdx < Len(distinct)
        /\ distinct' = [distinct EXCEPT ![existIdx + 1] = idx]
        /\ UNCHANGED pc
     \/ /\ existIdx >= Len(distinct)
        /\ pc' = "panic"
        /\ UNCHANGED distinct
  /\ UNCHANGED <<origin, props, keys>>

Finish ==
  /\ pc = "loop" /\ idx = Len(collect)
  /\ pc' = "done"
  /\ UNCHANGED <<origin, props, idx, distinct, keys>>

Next == String \/ AppendNew \/ OverrideExisting \/ Finish

Spec == Init /\ [][Next]_vars

-----------------------------------------------------------------------------
(* The merge ends without a panic, every name that is in one of the lists  *)
(* has exactly one entry, and that entry has the name's last value.        *)
LastValueWins ==
  /\ pc # "panic"
  /\ pc = "done" =>
       /\ \A i, j \in DOMAIN distinct : NameOf(distinct[i]) = NameOf(distinct[j]) => i = j
       /\ \A k \in 0 .. Len(collect) - 1 :
            \E i \in DOMAIN distinct : NameOf(distinct[i]) = NameOf(k) /\ distinct[i] >= k

(* The merge of any two lists gives a list that is "distinct by name", and *)
(* gives one: it does not panic.                                           *)
DistinctByName ==
  /\ pc # "panic"
  /\ \A i, j \in DOMAIN distinct : NameOf(distinct[i]) = NameOf(distinct[j]) => i = j

(* The configuration's own properties stay where they were, in front of    *)
(* the added ones, whichever of them are overridden.                       *)
OriginStaysInFront ==
  pc = "done" => \A i \in DOMAIN origin :
    i <= Len(distinct) /\ NameOf(distinct[i]) = origin[i]
=============================================================================
