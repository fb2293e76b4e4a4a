------------------------- MODULE MCClusterReconcile -------------------------
(* Instances of ClusterReconcile: specs over one and over two groups. *)
EXTENDS ClusterReconcile

(* "<group>-metrics" *)
MCMetricsName ==
  [g \in Groups |-> CASE g = "a" -> "a-metrics"
                      [] g = "a-metrics" -> "a-metrics-metrics"
                      [] g = "b" -> "b-metrics"]

(* One group, for NameNodes and JournalNodes. *)
Small == [namenode |-> {"a"}, journalnode |-> {"a"}, datanode |-> {},
          replicas |-> [r \in Roles |-> 1], conf |-> 1, security |-> 1, stopped |-> FALSE]
Scaled == [Small EXCEPT !.replicas["namenode"] = 2]
Stopped == [Small EXCEPT !.stopped = TRUE]

(* A second NameNode group whose Service is called like the first one's    *)
(* metrics Service; and one with a DataNode group, which lists both, as    *)
(* discovery does.                                                         *)
Clashing == [Small EXCEPT !.namenode = {"a", "a-metrics"}]
Listing == [Small EXCEPT !.namenode = {"a", "b"}, !.datanode = {"a"}]

MCSpecs == {Small, Scaled, Stopped, Clashing, Listing}
MCEdited == {Small, Scaled}

(* Two NameNodes, running and stopped. *)
MCStopSpecs == {Scaled, [Scaled EXCEPT !.stopped = TRUE]}
=============================================================================
