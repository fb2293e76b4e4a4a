----------------------------- MODULE Namespace -----------------------------
(***************************************************************************)
(* What the start-up of the NameNodes promises: there is one file system.  *)
(* It is created once, while no NameNode serves; a volume is added to it   *)
(* only by copying from a NameNode of the same role group that serves it;  *)
(* and only NameNodes with such a volume serve.                            *)
(***************************************************************************)
EXTENDS Naturals

CONSTANT NameNode  \* the NameNodes: pairs of role group and ordinal

VARIABLES
  namespace,  \* identity of the file system, 0 before there is one
  members,    \* NameNodes whose volume holds its image
  serving     \* NameNodes that serve it

vars == <<namespace, members, serving>>

Init == namespace = 0 /\ members = {} /\ serving = {}

(* The creator may die before it has an image of its own. *)
Create(p) ==
  /\ namespace = 0 /\ serving = {}
  /\ namespace' \in Nat \ {0}
  /\ members' \in {{}, {p}}
  /\ UNCHANGED serving

Join(p, q) ==
  /\ q \in serving /\ q[1] = p[1] /\ p \notin members
  /\ members' = members \cup {p}
  /\ UNCHANGED <<namespace, serving>>

Serve(p) ==
  /\ p \in members \ serving
  /\ serving' = serving \cup {p}
  /\ UNCHANGED <<namespace, members>>

Leave(p) ==
  /\ p \in serving
  /\ serving' = serving \ {p}
  /\ UNCHANGED <<namespace, members>>

Next ==
  \/ \E p \in NameNode : Create(p) \/ Serve(p) \/ Leave(p)
  \/ \E p, q \in NameNode : Join(p, q)

Spec == Init /\ [][Next]_vars
=============================================================================
