-------------------------- MODULE MCRoleGroupBuild --------------------------
(* Specs of a role group for TLC: the options that decide on containers,   *)
(* volumes and files in every combination, the resources and the overrides *)
(* one at a time on a plain spec.  Edited are the options that several     *)
(* objects depend on, and specs that stand in the way of a pass: another   *)
(* storage, no NameNode group, vector without an aggregator.               *)
EXTENDS RoleGroupBuild

Plain(r) ==
  [role |-> r, kerberos |-> FALSE, tls |-> FALSE, auth |-> "none", logging |-> "nil",
   aggregator |-> FALSE, override |-> "none", resources |-> NoResources, peer |-> TRUE]

MCOptions ==
  {i \in [role : Roles, kerberos : BOOLEAN, tls : BOOLEAN,
          auth : {"none", "class", "classAndOidc"},
          logging : {"nil", "agentNil", "off", "on"}, aggregator : BOOLEAN,
          override : {"none"}, resources : {NoResources}, peer : BOOLEAN] :
     i.role = "namenode" => i.peer}

MCResources == {[Plain(r) EXCEPT !.resources = s] : r \in Roles, s \in ResourcesSpec}

MCOverrides == {[Plain(r) EXCEPT !.override = o] : r \in Roles, o \in {"property", "filename"}}

MCOptional ==
  {[Plain(r) EXCEPT !.kerberos = k, !.tls = t] : r \in Roles, k \in BOOLEAN, t \in BOOLEAN}

MCStored ==
  {[Plain(r) EXCEPT !.resources = [given |-> TRUE, cpu |-> "user", memory |-> "user",
                                   storage |-> "user"]] : r \in Roles}
MCAlone == {[Plain(r) EXCEPT !.peer = FALSE] : r \in Roles \ {"namenode"}}
MCNoAggregator == {[Plain(r) EXCEPT !.logging = "on"] : r \in Roles}

MCEdited == MCOptional \cup MCStored \cup MCAlone \cup MCNoAggregator

MCInputs == MCEdited \cup MCOptions \cup MCResources \cup MCOverrides
=============================================================================
