--------------------------- MODULE RoleGroupBuild ---------------------------
(***************************************************************************)
(* How the Services, the StatefulSet and the ConfigMap of one role group   *)
(* come about, in the order RegisterStandardResources registers them: the  *)
(* merge of the default configuration, the two Services, the containers,   *)
(* volumes and claims of the pod template, the optional vector and oidc    *)
(* containers, and the files of the ConfigMap.                             *)
(*                                                                         *)
(* A pass builds one object after the other and ends at the first it had   *)
(* to write.  The AuthenticationClass, which decides on the oidc           *)
(* container, is read in every pass and watched in none.                   *)
(***************************************************************************)
EXTENDS RoleGroupParts, Sequences

CONSTANTS
  Inputs,      \* what the HdfsCluster says of the role group
  Edited,      \* those the user edits into one another
  MaxEdits,    \* bound: edits
  MaxChanges   \* bound: changes of the AuthenticationClass by others

ClassStates == {"missing", "otherProvider", "oidcProvider", "unreachable"}

ASSUME InputsAssumption ==
  /\ Inputs \subseteq InputType /\ Edited \subseteq Inputs
  /\ MaxEdits \in Nat /\ MaxChanges \in Nat

VARIABLES
  input,      \* the spec of the role group
  edits,      \* edits of it so far
  class,      \* the AuthenticationClass it names
  changes,    \* changes of it so far
  pc,         \* where the pass is
  resources,  \* resources after MergeDefaultConfig
  template,   \* pod template under construction
  svc,        \* ports of the Service in the API server
  metrics,    \* the metrics Service in the API server
  sts,        \* pod template of the StatefulSet in the API server
  cm          \* the ConfigMap in the API server

vars == <<input, edits, class, changes, pc, resources, template, svc, metrics, sts, cm>>
world == <<input, edits, class, changes>>
services == <<svc, metrics>>

NoUpstream == [scheme |-> "none", port |-> 0]
NoMetrics == [scheme |-> "none", port |-> 0]
Empty == [containers |-> {}, mounts |-> {}, volumes |-> {}, claims |-> {}, capacity |-> "none",
          ports |-> {}, probes |-> {}, zkfc |-> "none", keytab |-> {},
          upstream |-> NoUpstream]
NoFiles == [log4j |-> {}, vector |-> FALSE, keystore |-> FALSE, serves |-> "none",
            overridden |-> FALSE, dir |-> <<>>, addresses |-> [r \in Roles |-> {}],
            principals |-> NoPrincipals, placeholders |-> [datanode |-> {}, all |-> {}]]

(* Type invariant of the build. *)
TypeOK ==
  /\ input \in Inputs
  /\ class \in ClassStates
  /\ edits \in 0 .. MaxEdits
  /\ changes \in 0 .. MaxChanges
  /\ pc \in {"idle", "register", "service", "metrics", "containers", "volumes",
             "claims", "vector", "oidc", "statefulset", "configmap", "queued"}
  /\ metrics.scheme \in {"none", "http", "https"}
  /\ {resources.cpu, resources.memory, resources.storage} \subseteq {"none", "user", "default"}
  /\ \A t \in {template, sts} :
       /\ t.containers \subseteq HdfsContainers \cup {"oidc", "vector"}
       /\ t.capacity \in {"none", "user", "default", "10Gi"}
       /\ t.zkfc \in {"none", "own", "group"}
  /\ cm.log4j \subseteq HdfsContainers

Init ==
  /\ input \in Inputs
  /\ class \in ClassStates
  /\ edits = 0
  /\ changes = 0
  /\ pc = "register"
  /\ resources = NoResources
  /\ template = Empty
  /\ svc = {}
  /\ metrics = NoMetrics
  /\ sts = Empty
  /\ cm = NoFiles

-----------------------------------------------------------------------------
(* The resources of the role group.                                        *)

(* The user's amount, the default where there is none, nothing for zero. *)
Merged(amount) ==
  CASE amount = "none" -> "default" [] amount = "zero" -> "none" [] amount = "user" -> "user"

(* GetContainerResource has all three for every role. *)
DefaultResources ==
  [given |-> TRUE, cpu |-> "default", memory |-> "default", storage |-> "default"]

(* Mutation: a zero amount is kept. *)
MergeDefaultConfigKeepZero(r) ==
  [DefaultResources EXCEPT !.cpu = r.cpu, !.memory = r.memory]

(* With neither cpu nor memory a new ResourcesSpec is made, and the user's *)
(* storage is not carried over to it.                                      *)
MergeDefaultConfig(r) ==
  CASE ~r.given -> DefaultResources
    [] r.given /\ r.cpu = "none" /\ r.memory = "none" ->
         [given |-> TRUE, cpu |-> "none", memory |-> "none",
          storage |-> IF r.storage = "none" THEN "default" ELSE "none"]
    [] OTHER ->
         [given |-> TRUE, cpu |-> Merged(r.cpu), memory |-> Merged(r.memory),
          storage |-> IF r.storage = "none" THEN "default" ELSE "user"]

(* A pass begins: RegisterResources of the role. *)
RegisterResources ==
  /\ pc = "register"
  /\ resources' = MergeDefaultConfig(input.resources)
  /\ template' = Empty
  /\ pc' = "service"
  /\ UNCHANGED <<world, services, sts, cm>>

(* A pass that ended early (an error, a panic, an object written) is       *)
(* queued again at once, one that is done at the next resync.              *)
Requeue ==
  /\ pc \in {"idle", "queued"}
  /\ pc' = "register"
  /\ UNCHANGED <<world, resources, template, services, sts, cm>>

-----------------------------------------------------------------------------
(* The Services come first; one that had to be written ends the pass.      *)
WriteService ==
  /\ pc = "service"
  /\ svc' = ServicePorts(input)
  /\ pc' = IF svc = ServicePorts(input) THEN "metrics" ELSE "queued"
  /\ UNCHANGED <<world, resources, template, metrics, sts, cm>>

WriteMetricsService ==
  /\ pc = "metrics"
  /\ metrics' = MetricsService(input)
  /\ pc' = IF metrics = MetricsService(input) THEN "containers" ELSE "queued"
  /\ UNCHANGED <<world, resources, template, svc, sts, cm>>

-----------------------------------------------------------------------------
(* StatefulSetBuilder.Build.                                               *)

(* The zkfc container has resources of its own when the group has none. *)
ZkfcResources(r) == IF r.given THEN "group" ELSE "own"

MountsOf(cs) == UNION {{c} \X Mounts(c, input) : c \in cs}

AddContainers ==
  /\ pc = "containers"
  /\ template' = [template EXCEPT !.containers = Containers(input),
                                  !.mounts = MountsOf(Containers(input)),
                                  !.ports = Ports(input),
                                  !.probes = {LivenessPort(input), ReadinessPort(input)},
                                  !.zkfc = ZkfcResources(resources)]
  /\ pc' = "volumes"
  /\ UNCHANGED <<world, resources, services, sts, cm>>

AddVolumes ==
  /\ pc = "volumes"
  /\ template' = [template EXCEPT !.volumes = CommonVolumes(input) \cup ComponentVolumes(input),
                                  !.keytab = Keytab(input)]
  /\ pc' = "claims"
  /\ UNCHANGED <<world, resources, services, sts, cm>>

(* createDataPvcTemplate of NameNode and JournalNode falls back to 10Gi. *)
Capacity(r) == IF r.storage = "none" THEN "10Gi" ELSE r.storage

(* Without storage the createDataPvcTemplate of DataNode dereferences nil. *)
AddVolumeClaimTemplates ==
  /\ pc = "claims"
  /\ \/ /\ input.role = "datanode" /\ resources.storage = "none"
        /\ pc' = "queued"
        /\ UNCHANGED template
     \/ /\ input.role # "datanode" \/ resources.storage # "none"
        /\ template' = [template EXCEPT
             !.claims = Claims(input),
             !.capacity = Capacity(resources)]
        /\ pc' = "vector"
  /\ UNCHANGED <<world, resources, services, sts, cm>>

(* A logging section without enableVectorAgent is dereferenced as nil. *)
AddVectorContainer ==
  /\ pc = "vector"
  /\ \/ /\ input.logging = "agentNil"
        /\ pc' = "queued"
        /\ UNCHANGED template
     \/ /\ input.logging # "agentNil"
        /\ template' = IF VectorEnabled(input)
                       THEN [template EXCEPT !.containers = @ \cup {"vector"},
                                             !.mounts = @ \cup MountsOf({"vector"})]
                       ELSE template
        /\ pc' = "oidc"
  /\ UNCHANGED <<world, resources, services, sts, cm>>

WantsOidc == input.auth = "classAndOidc" /\ class = "oidcProvider"

WithOidc(t) ==
  [t EXCEPT !.containers = @ \cup {"oidc"}, !.mounts = @ \cup MountsOf({"oidc"}),
            !.ports = @ \cup {OidcPort},
            !.upstream = OidcUpstream(input)]

(* Mutation: the decision of the StatefulSet that exists is kept. *)
AddOidcContainerOnce ==
  /\ pc = "oidc"
  /\ template' = IF IF sts = Empty THEN WantsOidc ELSE "oidc" \in sts.containers
                 THEN WithOidc(template) ELSE template
  /\ pc' = "statefulset"
  /\ UNCHANGED <<world, resources, services, sts, cm>>

(* MakeOidcContainer: a class that is not there is no error. *)
AddOidcContainer ==
  /\ pc = "oidc"
  /\ \/ /\ input.auth # "none" /\ class = "unreachable"
        /\ pc' = "queued"
        /\ UNCHANGED template
     \/ /\ ~(input.auth # "none" /\ class = "unreachable")
        /\ template' = IF WantsOidc THEN WithOidc(template) ELSE template
        /\ pc' = "statefulset"
  /\ UNCHANGED <<world, resources, services, sts, cm>>

(* Mutation: a StatefulSet that exists is left as it is. *)
WriteStatefulSetOnce ==
  /\ pc = "statefulset"
  /\ sts' = IF sts = Empty THEN template ELSE sts
  /\ pc' = IF sts = Empty THEN "queued" ELSE "configmap"
  /\ UNCHANGED <<world, resources, template, services, cm>>

(* The API server refuses to change the claim templates of a StatefulSet. *)
Refused == sts # Empty /\ <<sts.claims, sts.capacity>> # <<template.claims, template.capacity>>

(* A StatefulSet that had to be written ends the pass, which is queued     *)
(* again; one that is as built lets the pass go on.                        *)
WriteStatefulSet ==
  /\ pc = "statefulset"
  /\ \/ Refused /\ pc' = "queued" /\ UNCHANGED sts
     \/ /\ ~Refused
        /\ sts' = template
        /\ pc' = IF sts = template THEN "configmap" ELSE "queued"
  /\ UNCHANGED <<world, resources, template, services, cm>>

-----------------------------------------------------------------------------
(* ConfigMapBuilder.Build.                                                 *)

BuildConfigMap ==
  /\ pc = "configmap"
  /\ \/ /\ HasNameNodes(input) /\ VectorBuilds(input)
        /\ cm' = Files(input)
        /\ pc' = IF cm = Files(input) THEN "idle" ELSE "queued"
     \/ /\ ~(HasNameNodes(input) /\ VectorBuilds(input))
        /\ pc' = "queued"
        /\ UNCHANGED cm
  /\ UNCHANGED <<world, resources, template, services, sts>>

-----------------------------------------------------------------------------
(* The AuthenticationClass is created, edited or deleted by others. *)
ChangeClass ==
  /\ changes < MaxChanges
  /\ class' \in ClassStates \ {class}
  /\ changes' = changes + 1
  /\ UNCHANGED <<input, edits, pc, resources, template, services, sts, cm>>

(* The user edits the spec, and the watch on HdfsCluster queues a pass; an *)
(* edit during a pass, which works on what it read, counts after it.       *)
EditSpec ==
  /\ edits < MaxEdits /\ pc \in {"idle", "queued"}
  /\ input \in Edited
  /\ input' \in {i \in Edited \ {input} : i.role = input.role}
  /\ edits' = edits + 1
  /\ pc' = "queued"
  /\ UNCHANGED <<class, changes, resources, template, services, sts, cm>>

Pass ==
  \/ RegisterResources \/ Requeue
  \/ WriteService \/ WriteMetricsService
  \/ AddContainers \/ AddVolumes \/ AddVolumeClaimTemplates
  \/ AddVectorContainer \/ AddOidcContainer \/ WriteStatefulSet
  \/ BuildConfigMap

Next == Pass \/ ChangeClass \/ EditSpec

Spec == Init /\ [][Next]_vars

(* The work queue hands the key out again after a failure and at resync. *)
FairSpec == Spec /\ WF_vars(Pass)

-----------------------------------------------------------------------------
(* What a pod template refers to is in it, whatever options are combined:  *)
(* every mount of a container names a volume or a claim, every probe a     *)
(* port of the main container.  Mounts and probes come from the container  *)
(* files, volumes from GetCommonVolumes and the builders.  A pod with an   *)
(* unknown mount is refused by the API server.                             *)
ReferencesResolve ==
  /\ \A m \in sts.mounts : m[2] \in sts.volumes \cup sts.claims
  /\ sts.probes \subseteq {p[1] : p \in sts.ports}

(* What the containers of a group at rest read from its ConfigMap is in    *)
(* it: the log4j file the start script copies, and vector's configuration. *)
(* The keystore is mounted where ssl-server.xml says, and the one case in  *)
(* which https is served without a keystore is Kerberos without TLS.       *)
FilesProvided ==
  pc = "idle" =>
    /\ sts.containers \cap HdfsContainers \subseteq cm.log4j
    /\ "vector" \in sts.containers => cm.vector
    /\ cm.keystore => \A c \in sts.containers \cap HdfsContainers : <<c, "tls">> \in sts.mounts
    /\ cm.serves = "https" /\ ~cm.keystore <=> input.kerberos /\ ~input.tls

(* Kerberos decides which scheme the servers of a group at rest speak      *)
(* (dfs.http.policy), TLS which one the liveness probe and the scraper of  *)
(* the metrics Service use, and oauth2-proxy always uses http: the first   *)
(* two are answered exactly where both options or none are given, and with *)
(* one alone the probe fails for good; the proxy is answered exactly where *)
(* none is.                                                                *)
WebAnswered ==
  pc = "idle" =>
    /\ cm.serves \in sts.probes <=> input.kerberos = input.tls
    /\ cm.serves = metrics.scheme <=> input.kerberos = input.tls
    /\ "oidc" \in sts.containers =>
         (<<cm.serves, sts.upstream.port>> \in sts.ports /\ sts.upstream.scheme = cm.serves
            <=> ~input.kerberos /\ ~input.tls)

(* The port of a Service without a container behind it: oidc without the   *)
(* proxy, and the plain web port of a DataNode with TLS.                   *)
Unserved ==
  {p \in {OidcPort} : "oidc" \notin sts.containers}
    \cup {p \in {<<"http", 9864>>} : input.role = "datanode" /\ input.tls}

(* Services, pods and addresses of a group at rest agree, though           *)
(* GetServicePorts, GetPorts, GetNativeMetricsPort and hdfs-site.xml each  *)
(* name ports of their own: what a Service offers the pods have, apart     *)
(* from Unserved, and what hdfs-site.xml tells the other daemons to dial   *)
(* for this role is a port of the Service and of its pods.                 *)
ServicesReach ==
  pc = "idle" =>
    /\ svc \ Unserved \subseteq sts.ports
    /\ metrics.port \in Numbers(sts.ports)
    /\ cm.addresses[input.role] \subseteq Numbers(svc) \cap Numbers(sts.ports)

(* Every ${env.} of the files that a container of a group at rest reads is *)
(* set there, by the pod template or by an export of its start script. The *)
(* web port a DataNode registers with comes from the listener, which knows *)
(* the ports of the container by name.                                     *)
EnvResolved ==
  pc = "idle" => \A c \in sts.containers \cap HdfsContainers :
    cm.placeholders.all \cup (IF c = "datanode" THEN cm.placeholders.datanode ELSE {})
      \subseteq Environment(c, input, sts.ports)

(* Under Kerberos the keytab of a pod has every principal that its         *)
(* containers log in with: the one of kinit in the two scripts, the one    *)
(* core-site.xml gives the daemon, and HTTP for its web server.  Clients   *)
(* are told the same principals by the discovery ConfigMap.                *)
LoginsPossible ==
  pc = "idle" /\ input.kerberos =>
    /\ \A c \in sts.containers \cap HdfsContainers : Logins(c, cm.principals) \subseteq sts.keytab
    /\ \A r \in Roles : SecurityDiscoveryCoreSiteXml[r] = cm.principals[r]

(* The path lies below the directory dir. *)
Below(path, dir) == Len(dir) < Len(path) /\ \A k \in 1 .. Len(dir) : path[k] = dir[k]

(* What a daemon stores outlives its pod: in every container that writes   *)
(* to it the directory of hdfs-site.xml lies below the mount of the data   *)
(* claim, and the format script looks for VERSION in the directory that    *)
(* the NameNode keeps it in.                                               *)
DataOnClaim ==
  pc = "idle" =>
    /\ \A c \in sts.containers \cap DataWriters :
         <<c, "data">> \in sts.mounts /\ Below(cm.dir, DataMountPath(c))
    /\ "formatNameNodes" \in sts.containers => VersionDir = cm.dir

(* The specs every builder can do something with. *)
Buildable ==
  /\ HasNameNodes(input) /\ VectorBuilds(input)
  /\ input.logging # "agentNil"
  /\ input.role = "datanode" => MergeDefaultConfig(input.resources).storage # "none"

(* Nothing stands in the way of a pass: the spec can be built, the class   *)
(* is not unreachable, and the size of the claims is not edited, which the *)
(* API server refuses in every pass.                                       *)
Unhindered ==
  /\ Buildable /\ class # "unreachable"
  /\ sts # Empty => sts.capacity = Capacity(MergeDefaultConfig(input.resources))

(* The pod template as a whole that the spec and the class ask for. *)
WholeTemplate ==
  LET merged == MergeDefaultConfig(input.resources)
      all == Containers(input) \cup {c \in {"vector"} : VectorEnabled(input)}
      plain == [containers |-> all, mounts |-> MountsOf(all),
                volumes |-> CommonVolumes(input) \cup ComponentVolumes(input),
                claims |-> Claims(input), capacity |-> Capacity(merged),
                ports |-> Ports(input), probes |-> {LivenessPort(input), ReadinessPort(input)},
                zkfc |-> ZkfcResources(merged), keytab |-> Keytab(input),
                upstream |-> NoUpstream]
  IN  IF WantsOidc THEN WithOidc(plain) ELSE plain

(* Pods wait for the ConfigMap they mount, which comes last in a pass that *)
(* ends at every object it writes and builds the template in five steps,   *)
(* from resources it merged before: when nothing stands in the way for     *)
(* good the Services, the StatefulSet and the ConfigMap come to be those   *)
(* of the spec as last edited and the class as last changed, whatever      *)
(* stood in the way before.                                                *)
PodsGetConfig ==
  <>[]Unhindered =>
    <>[](/\ svc = ServicePorts(input) /\ metrics = MetricsService(input)
         /\ sts = WholeTemplate
         /\ cm = Files(input))

(* The oidc container follows the AuthenticationClass, which is read in    *)
(* every pass: once class and spec no longer change the pod template has   *)
(* the container exactly when the class has an OIDC provider.              *)
OidcFollowsClass ==
  \A present \in BOOLEAN :
    <>[](Unhindered /\ input.auth = "classAndOidc" /\ (class = "oidcProvider") = present)
      => <>[](("oidc" \in sts.containers) = present)

(* "MergeDefaultConfig merges default configuration with the provided      *)
(* config": storage the user asked for is the size of the data claim.      *)
StorageKept == sts # Empty /\ input.resources.storage = "user" => sts.capacity = "user"

(* "Apply any global overrides from the spec": a property the spec         *)
(* overrides has its value in the ConfigMap of a group at rest.            *)
OverridesApplied == pc = "idle" /\ input.override = "property" => cm.overridden
=============================================================================
