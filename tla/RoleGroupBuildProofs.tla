------------------------ MODULE RoleGroupBuildProofs ------------------------
(***************************************************************************)
(* What RoleGroupBuild promises, for every set of specs, any number of     *)
(* edits and of changes of the AuthenticationClass.                        *)
(*                                                                         *)
(* The invariants about a group at rest relate objects that were written   *)
(* in different passes.  What makes them inductive is how far the pass has *)
(* come: behind each step the part it adds to the pod template is the one  *)
(* of the spec (TemplateInv), and a pass gets past an object only when the *)
(* API server has it as built (ObjectInv).  The StatefulSet alone may be   *)
(* of an older spec at any time; that it holds together is carried from    *)
(* the template it was made of (ReferencesResolve).                        *)
(***************************************************************************)
EXTENDS RoleGroupBuild, TLAPS

(* The points of a pass behind each of its steps. *)
AfterConfigMap == {"idle"}
AfterStatefulSet == AfterConfigMap \cup {"configmap"}
AfterOidc == AfterStatefulSet \cup {"statefulset"}
AfterVector == AfterOidc \cup {"oidc"}
AfterClaims == AfterVector \cup {"vector"}
AfterVolumes == AfterClaims \cup {"claims"}
AfterContainers == AfterVolumes \cup {"volumes"}
AfterMetrics == AfterContainers \cup {"containers"}
AfterService == AfterMetrics \cup {"metrics"}

(* What AddContainers leaves, the optional containers that come later included. *)
HasContainers(t) ==
  /\ t.containers \cap HdfsContainers = Containers(input)
  /\ t.mounts = MountsOf(t.containers)
  /\ t.ports = Ports(input) \cup {p \in {OidcPort} : "oidc" \in t.containers}
  /\ t.probes = {LivenessPort(input), ReadinessPort(input)}
  /\ "oidc" \in t.containers => t.upstream = OidcUpstream(input)

(* What AddVolumes leaves. *)
HasVolumes(t) ==
  /\ t.volumes = CommonVolumes(input) \cup ComponentVolumes(input)
  /\ t.keytab = Keytab(input)

TemplateInv ==
  /\ pc \in AfterContainers => HasContainers(template)
  /\ pc \in AfterVolumes => HasVolumes(template)
  /\ pc \in AfterClaims => template.claims = Claims(input)
  /\ pc \in AfterContainers /\ "vector" \in template.containers => VectorEnabled(input)

ObjectInv ==
  /\ pc \in AfterService => svc = ServicePorts(input)
  /\ pc \in AfterMetrics => metrics = MetricsService(input)
  /\ pc \in AfterStatefulSet => sts = template
  /\ pc \in AfterConfigMap => cm = Files(input)

(* A pod template has all its fields. *)
IsTemplate(t) ==
  t = [containers |-> t.containers, mounts |-> t.mounts, volumes |-> t.volumes,
       claims |-> t.claims, capacity |-> t.capacity, ports |-> t.ports, probes |-> t.probes,
       zkfc |-> t.zkfc, keytab |-> t.keytab, upstream |-> t.upstream]

IInv ==
  /\ TypeOK /\ IsTemplate(template) /\ IsTemplate(sts)
  /\ TemplateInv
  /\ ObjectInv
  /\ ReferencesResolve

-----------------------------------------------------------------------------
(* Lemmas about the parts, for every spec of a role group.                 *)

(* The containers of a group, role by role. *)
LEMMA RoleCases ==
  ASSUME NEW i \in InputType
  PROVE  \/ /\ i.role = "namenode" /\ Containers(i) = NameNodeContainers
            /\ ComponentVolumes(i) = NameNodeVolumes
            /\ Ports(i) = NameNodePorts(i) /\ Log4j(i) = NameNodeLog4j
         \/ /\ i.role = "journalnode" /\ Containers(i) = JournalNodeContainers
            /\ ComponentVolumes(i) = JournalNodeVolumes
            /\ Ports(i) = JournalNodePorts(i) /\ Log4j(i) = JournalNodeLog4j
         \/ /\ i.role = "datanode" /\ Containers(i) = DataNodeContainers
            /\ ComponentVolumes(i) = DataNodeVolumes
            /\ Ports(i) = DataNodePorts(i) /\ Log4j(i) = DataNodeLog4j
<1>1. i.role \in Roles
  BY DEF InputType
<1> QED
  BY <1>1 DEF Roles, Containers, ComponentVolumes, Ports, Log4j

(* Every container's mounts are the common ones and those of its own file. *)
LEMMA MountCases ==
  ASSUME NEW i
  PROVE  /\ Mounts("namenode", i) = CommonMounts(i) \cup NameNodeMounts
         /\ Mounts("zkfc", i) = CommonMounts(i) \cup ZkfcMounts
         /\ Mounts("formatNameNodes", i) = CommonMounts(i) \cup FormatNameNodesMounts
         /\ Mounts("formatZookeeper", i) = CommonMounts(i) \cup FormatZookeeperMounts
         /\ Mounts("journalnode", i) = CommonMounts(i) \cup JournalNodeMounts
         /\ Mounts("datanode", i) = CommonMounts(i) \cup DataNodeMounts
         /\ Mounts("waitForNameNodes", i) = CommonMounts(i) \cup WaitForNameNodesMounts
         /\ Mounts("vector", i) = VectorMounts
         /\ Mounts("oidc", i) = OidcMounts
BY DEF Mounts

(* What the container files mount, GetCommonVolumes, GetVolumes and        *)
(* GetVolumeClaimTemplates provide.                                        *)
LEMMA MountsProvided ==
  ASSUME NEW i \in InputType, NEW c \in Containers(i) \cup {"vector", "oidc"}
  PROVE  Mounts(c, i) \subseteq CommonVolumes(i) \cup ComponentVolumes(i) \cup Claims(i)
<1>1. CommonMounts(i) = CommonVolumes(i)
  BY DEF CommonMounts, CommonVolumes, KerberosMounts, KerberosVolumes, TlsMounts, TlsVolumes
<1>2. {"log", "config"} \subseteq CommonVolumes(i) \cup ComponentVolumes(i)
  BY RoleCases DEF CommonVolumes, NameNodeVolumes, JournalNodeVolumes, DataNodeVolumes
<1>3. CASE c \in {"vector", "oidc"}
  BY <1>2, <1>3, MountCases DEF VectorMounts, OidcMounts
<1>4. CASE c \in Containers(i) /\ i.role = "namenode"
  <2>1. /\ c \in NameNodeContainers /\ ComponentVolumes(i) = NameNodeVolumes
        /\ Claims(i) = {"data", "listener"}
    BY <1>4, RoleCases DEF Claims
  <2> QED
    BY <1>1, <2>1, MountCases DEF NameNodeContainers, NameNodeVolumes, NameNodeMounts,
       ZkfcMounts, FormatNameNodesMounts, FormatZookeeperMounts
<1>5. CASE c \in Containers(i) /\ i.role = "journalnode"
  <2>1. /\ c = "journalnode" /\ ComponentVolumes(i) = JournalNodeVolumes
        /\ "data" \in Claims(i)
    BY <1>5, RoleCases DEF Claims, JournalNodeContainers
  <2> QED
    BY <1>1, <2>1, MountCases DEF JournalNodeVolumes, JournalNodeMounts
<1>6. CASE c \in Containers(i) /\ i.role = "datanode"
  <2>1. /\ c \in DataNodeContainers /\ ComponentVolumes(i) = DataNodeVolumes
        /\ "data" \in Claims(i)
    BY <1>6, RoleCases DEF Claims
  <2> QED
    BY <1>1, <2>1, MountCases DEF DataNodeContainers, DataNodeVolumes, DataNodeMounts,
       WaitForNameNodesMounts
<1> QED
  BY <1>3, <1>4, <1>5, <1>6, RoleCases

(* The name under which a port is found. *)
LEMMA NamedPort ==
  ASSUME NEW port, NEW names, NEW n \in names
  PROVE  <<n, port[n]>> \in Named(port, names)
BY DEF Named

(* The ports of the main containers are those the probes ask for. *)
LEMMA ProbesProvided ==
  ASSUME NEW i \in InputType
  PROVE  {LivenessPort(i), ReadinessPort(i)} \subseteq {p[1] : p \in Ports(i)}
<1>1. CASE i.role = "namenode"
  <2>1. <<"rpc", NameNodePort["rpc"]>> \in Ports(i) /\ HttpPort(i, NameNodePort) \in Ports(i)
    BY <1>1, RoleCases, NamedPort DEF NameNodePorts
  <2> QED
    BY <1>1, <2>1 DEF HttpPort, LivenessPort, ReadinessPort
<1>2. CASE i.role = "journalnode"
  <2>1. <<"rpc", JournalNodePort["rpc"]>> \in Ports(i) /\ HttpPort(i, JournalNodePort) \in Ports(i)
    BY <1>2, RoleCases, NamedPort DEF JournalNodePorts
  <2> QED
    BY <1>2, <2>1 DEF HttpPort, LivenessPort, ReadinessPort
<1>3. CASE i.role = "datanode"
  <2>1. <<"ipc", DataNodePort["ipc"]>> \in Ports(i) /\ HttpPort(i, DataNodePort) \in Ports(i)
    BY <1>3, RoleCases, NamedPort DEF DataNodePorts
  <2> QED
    BY <1>3, <2>1 DEF HttpPort, LivenessPort, ReadinessPort
<1> QED
  BY <1>1, <1>2, <1>3, RoleCases

(* With TLS every container of HDFS mounts the stores. *)
LEMMA TlsMounted ==
  ASSUME NEW i \in InputType, i.tls, NEW c \in Containers(i)
  PROVE  "tls" \in Mounts(c, i)
<1>1. "tls" \in CommonMounts(i)
  BY DEF CommonMounts, TlsMounts
<1>2. c \in HdfsContainers
  BY RoleCases DEF HdfsContainers
<1> QED
  BY <1>1, <1>2, MountCases
  DEF HdfsContainers, NameNodeContainers, JournalNodeContainers, DataNodeContainers

(* GetHttpPort is a port of the main container, under the scheme of TLS. *)
LEMMA WebPort ==
  ASSUME NEW i \in InputType
  PROVE  /\ <<Web(i.tls), GetHttpPort(i)>> \in Ports(i)
         /\ NativeMetricsPort(i) = GetHttpPort(i)
<1>0. i.tls \in BOOLEAN
  BY DEF InputType
<1>1. CASE i.role = "namenode"
  <2>1. HttpPort(i, NameNodePort) \in Ports(i) /\ GetHttpPort(i) = HttpPort(i, NameNodePort)[2]
    BY <1>1, RoleCases DEF NameNodePorts, GetHttpPort
  <2>2. NativeMetricsPort(i) = IF i.tls THEN 9871 ELSE 9870
    BY <1>1 DEF NativeMetricsPort
  <2> QED
    BY <1>0, <2>1, <2>2 DEF HttpPort, NameNodePort, Web
<1>2. CASE i.role = "journalnode"
  <2>1. HttpPort(i, JournalNodePort) \in Ports(i) /\ GetHttpPort(i) = HttpPort(i, JournalNodePort)[2]
    BY <1>2, RoleCases DEF JournalNodePorts, GetHttpPort
  <2>2. NativeMetricsPort(i) = IF i.tls THEN 8481 ELSE 8480
    BY <1>2 DEF NativeMetricsPort
  <2> QED
    BY <1>0, <2>1, <2>2 DEF HttpPort, JournalNodePort, Web
<1>3. CASE i.role = "datanode"
  <2>1. HttpPort(i, DataNodePort) \in Ports(i) /\ GetHttpPort(i) = HttpPort(i, DataNodePort)[2]
    BY <1>3, RoleCases DEF DataNodePorts, GetHttpPort
  <2>2. NativeMetricsPort(i) = IF i.tls THEN 9865 ELSE 9864
    BY <1>3 DEF NativeMetricsPort
  <2> QED
    BY <1>0, <2>1, <2>2 DEF HttpPort, DataNodePort, Web
<1> QED
  BY <1>1, <1>2, <1>3, RoleCases

(* With TLS no port of the main container is called http. *)
LEMMA NoPlainPort ==
  ASSUME NEW i \in InputType, i.tls, NEW n
  PROVE  <<"http", n>> \notin Ports(i)
<1>1. ASSUME NEW port PROVE HttpPort(i, port) # <<"http", n>>
  BY SMTT(60) DEF HttpPort, Web
<1>2. ASSUME NEW port, NEW names, "http" \notin names
      PROVE  <<"http", n>> \notin Named(port, names)
  BY <1>2, SMTT(60) DEF Named
<1>3. CASE i.role = "namenode"
  <2>1. <<"http", n>> \notin Named(NameNodePort, {"rpc", "metric"})
    BY <1>2
  <2> QED
    BY <1>1, <1>3, <2>1, RoleCases, ZenonT(60) DEF NameNodePorts
<1>4. CASE i.role = "journalnode"
  <2>1. <<"http", n>> \notin Named(JournalNodePort, {"rpc", "metric"})
    BY <1>2
  <2> QED
    BY <1>1, <1>4, <2>1, RoleCases, ZenonT(60) DEF JournalNodePorts
<1>5. CASE i.role = "datanode"
  <2>1. <<"http", n>> \notin Named(DataNodePort, {"metric", "data", "ipc"})
    BY <1>2
  <2> QED
    BY <1>1, <1>5, <2>1, RoleCases, ZenonT(60) DEF DataNodePorts
<1> QED
  BY <1>3, <1>4, <1>5, RoleCases

(* What a Service offers the main container has, but for oidc and the      *)
(* plain web port of a DataNode.                                           *)
LEMMA ServiceServed ==
  ASSUME NEW i \in InputType
  PROVE  ServicePorts(i) \subseteq
           Ports(i) \cup {OidcPort} \cup {p \in {<<"http", 9864>>} : i.role = "datanode" /\ i.tls}
<1>0. i.tls \in BOOLEAN
  BY DEF InputType
<1>1. CASE i.role = "namenode"
  BY <1>1, RoleCases DEF ServicePorts, NameNodePorts, NameNodeServicePorts
<1>2. CASE i.role = "journalnode"
  BY <1>2, RoleCases DEF ServicePorts, JournalNodePorts, JournalNodeServicePorts
<1>3. CASE i.role = "datanode"
  <2>1. /\ ServicePorts(i) = {<<"data", 9866>>, <<"http", 9864>>, <<"ipc", 9867>>}
        /\ Ports(i) = DataNodePorts(i)
    BY <1>3, RoleCases DEF ServicePorts, DataNodeServicePorts
  <2>2. <<"data", 9866>> \in DataNodePorts(i) /\ <<"ipc", 9867>> \in DataNodePorts(i)
    BY NamedPort DEF DataNodePorts, DataNodePort
  <2>3. ~i.tls => <<"http", 9864>> \in DataNodePorts(i)
    BY DEF DataNodePorts, HttpPort, Web, DataNodePort
  <2> QED
    BY <1>0, <1>3, <2>1, <2>2, <2>3
<1> QED
  BY <1>1, <1>2, <1>3, RoleCases

(* A port is known by its number. *)
LEMMA NumberOf ==
  ASSUME NEW ports, NEW n, NEW k, <<n, k>> \in ports
  PROVE  k \in Numbers(ports)
<1>1. <<n, k>>[2] = k
  OBVIOUS
<1> QED
  BY <1>1 DEF Numbers

(* The numbers hdfs-site.xml gives for this role are ports of its Service. *)
LEMMA AddressesServed ==
  ASSUME NEW i \in InputType
  PROVE  Addresses(i)[i.role] \subseteq Numbers(ServicePorts(i)) \cap Numbers(Ports(i))
<1>0. i.tls \in BOOLEAN
  BY DEF InputType
<1>1. CASE i.role = "namenode"
  <2>1. Addresses(i)[i.role] = {8020, IF i.tls THEN 9871 ELSE 9870}
    BY <1>0, <1>1 DEF Addresses, NameNodeAddresses, DfsNameNodeHttpAddressHa, NameNodePort
  <2>2. ServicePorts(i) = NameNodeServicePorts(i) /\ Ports(i) = NameNodePorts(i)
    BY <1>1, RoleCases DEF ServicePorts
  <2>3. <<"rpc", 8020>> \in NameNodeServicePorts(i) \cap NameNodePorts(i)
    BY NamedPort DEF NameNodeServicePorts, NameNodePorts, NameNodePort
  <2>4. <<Web(i.tls), IF i.tls THEN 9871 ELSE 9870>> \in NameNodeServicePorts(i) \cap NameNodePorts(i)
    BY <1>0 DEF NameNodeServicePorts, NameNodePorts, HttpPort, NameNodePort, Web
  <2> QED
    BY <2>1, <2>2, <2>3, <2>4, NumberOf
<1>2. CASE i.role = "journalnode"
  <2>1. Addresses(i)[i.role] = {8485}
    BY <1>2 DEF Addresses, SharedEdits
  <2>2. ServicePorts(i) = JournalNodeServicePorts(i) /\ Ports(i) = JournalNodePorts(i)
    BY <1>2, RoleCases DEF ServicePorts
  <2>3. <<"rpc", 8485>> \in JournalNodeServicePorts(i) \cap JournalNodePorts(i)
    BY NamedPort DEF JournalNodeServicePorts, JournalNodePorts, JournalNodePort
  <2> QED
    BY <2>1, <2>2, <2>3, NumberOf
<1>3. CASE i.role = "datanode"
  BY <1>3 DEF Addresses
<1> QED
  BY <1>1, <1>2, <1>3, RoleCases

(* The id, the quorum and the realm are set in every container. *)
LEMMA CommonEnvironment ==
  ASSUME NEW i \in InputType, NEW c, NEW ports
  PROVE  Placeholders(i).all \subseteq Environment(c, i, ports)
<1>1. Placeholders(i).all = {"POD_NAME"} \cup HaZookeeperQuorum \cup RealmEnv(i)
  BY DEF Placeholders
<1> QED
  BY <1>1 DEF HaZookeeperQuorum, Environment, GetCommonContainerEnv

(* The listener of a DataNode exports the address and every port by name,  *)
(* the web port under the name that TLS gives it.                          *)
LEMMA DataNodeEnvironment ==
  ASSUME NEW i \in InputType, i.role = "datanode",
         NEW ports, Ports(i) \subseteq ports
  PROVE  Placeholders(i).datanode \subseteq Environment("datanode", i, ports)
<1>0. i.tls \in BOOLEAN
  BY DEF InputType
<1>1. "datanode" \in Roles /\ "listener" \in Mounts("datanode", i)
  BY MountCases DEF Roles, DataNodeMounts
<1>2. ExportPodAddress("datanode", i, ports) = {"POD_ADDRESS"} \cup {PortEnv[p[1]] : p \in ports}
  BY <1>1 DEF ExportPodAddress
<1>3. ASSUME NEW n, NEW k, <<n, k>> \in DataNodePorts(i)
      PROVE  PortEnv[n] \in ExportPodAddress("datanode", i, ports)
  <2>1. <<n, k>> \in ports /\ <<n, k>>[1] = n
    BY <1>3, RoleCases
  <2> QED
    BY <1>2, <2>1
<1>4. /\ <<"data", 9866>> \in DataNodePorts(i) /\ <<"ipc", 9867>> \in DataNodePorts(i)
  BY NamedPort DEF DataNodePorts, DataNodePort
<1>5. HttpPort(i, DataNodePort) \in DataNodePorts(i)
  BY DEF DataNodePorts
<1>6. PortEnv[Web(i.tls)] \in ExportPodAddress("datanode", i, ports)
  BY <1>3, <1>5 DEF HttpPort
<1>7. TlsHdfsSiteXml(i) = {PortEnv[Web(i.tls)]}
  BY <1>0 DEF TlsHdfsSiteXml, PortEnv, Web
<1>8. {"DATA_PORT", "IPC_PORT"} \subseteq ExportPodAddress("datanode", i, ports)
  BY <1>3, <1>4 DEF PortEnv
<1>9. Placeholders(i).datanode = HdfsSiteTemplate \cup TlsHdfsSiteXml(i)
  BY DEF Placeholders
<1> QED
  BY <1>2, <1>6, <1>7, <1>8, <1>9 DEF HdfsSiteTemplate, Environment

(* The service part of every principal a container logs in with is the one *)
(* of its role, or HTTP for the web server of a daemon.                    *)
LEMMA LoginsAreOfRole ==
  ASSUME NEW i \in InputType, NEW c \in Containers(i)
  PROVE  Logins(c, SecurityCoreSiteXml) \subseteq {GetKerberosServiceName(i.role), "HTTP"}
<1>1. /\ GetKerberosServiceName("namenode") = "nn"
      /\ GetKerberosServiceName("journalnode") = "jn"
      /\ GetKerberosServiceName("datanode") = "dn"
  BY DEF GetKerberosServiceName
<1>2. /\ \A d \in NameNodeContainers : LoginRole(d) = "namenode"
      /\ LoginRole("journalnode") = "journalnode"
      /\ LoginRole("datanode") = "datanode"
  BY DEF LoginRole, NameNodeContainers
<1>3. CASE i.role = "namenode"
  <2>1. c \in NameNodeContainers
    BY <1>3, RoleCases
  <2> QED
    BY <1>1, <1>2, <1>3, <2>1
    DEF NameNodeContainers, Logins, KinitContainers, KinitRole, SecurityCoreSiteXml
<1>4. CASE i.role = "journalnode"
  <2>1. c = "journalnode"
    BY <1>4, RoleCases DEF JournalNodeContainers
  <2> QED
    BY <1>1, <1>2, <1>4, <2>1 DEF Logins, KinitContainers, KinitRole, SecurityCoreSiteXml
<1>5. CASE i.role = "datanode"
  <2>1. c \in {"datanode", "waitForNameNodes"}
    BY <1>5, RoleCases DEF DataNodeContainers
  <2> QED
    BY <1>1, <1>2, <1>5, <2>1 DEF Logins, KinitContainers, KinitRole, SecurityCoreSiteXml, Roles
<1> QED
  BY <1>3, <1>4, <1>5, RoleCases

(* What begins with the parts of a directory lies below it. *)
LEMMA PathsBelow ==
  /\ \A a, b : Below(<<a, b>>, <<a>>)
  /\ \A a, b, c : Below(<<a, b, c>>, <<a, b>>)
BY DEF Below

(* A container that writes to the data directory mounts the claim at a     *)
(* path above it.                                                          *)
LEMMA WritersOnClaim ==
  ASSUME NEW i \in InputType, NEW c \in Containers(i) \cap DataWriters
  PROVE  /\ "data" \in Mounts(c, i)
         /\ Below(DataDir(i), DataMountPath(c))
         /\ c = "formatNameNodes" => VersionDir = DataDir(i)
<1>1. CASE i.role = "namenode"
  <2>1. /\ c \in {"namenode", "formatNameNodes"}
        /\ DataMountPath(c) = <<"data">> /\ DataDir(i) = <<"data", "namenode">>
    BY <1>1, RoleCases DEF NameNodeContainers, DataWriters, DataMountPath, DataDir, RoleNodeDir
  <2> QED
    BY <2>1, MountCases, PathsBelow DEF NameNodeMounts, FormatNameNodesMounts, VersionDir
<1>2. CASE i.role = "journalnode"
  <2>1. /\ c = "journalnode"
        /\ DataMountPath(c) = <<"data">> /\ DataDir(i) = <<"data", "journalnode">>
    BY <1>2, RoleCases DEF JournalNodeContainers, DataMountPath, DataDir, RoleNodeDir
  <2> QED
    BY <2>1, MountCases, PathsBelow, SMTT(60) DEF JournalNodeMounts
<1>3. CASE i.role = "datanode"
  <2>1. /\ c = "datanode"
        /\ DataMountPath(c) = <<"data", "data">> /\ DataDir(i) = <<"data", "data", "datanode">>
    BY <1>3, RoleCases DEF DataNodeContainers, DataWriters, DataMountPath, DataDir, DataNodeDir
  <2> QED
    BY <2>1, MountCases, PathsBelow, SMTT(60) DEF DataNodeMounts
<1> QED
  BY <1>1, <1>2, <1>3, RoleCases

-----------------------------------------------------------------------------
(* Lemmas about the pod template.                                          *)

LEMMA MountsOfUnion ==
  ASSUME NEW cs, NEW ds
  PROVE  MountsOf(cs \cup ds) = MountsOf(cs) \cup MountsOf(ds)
BY DEF MountsOf

LEMMA MountOf ==
  ASSUME NEW cs, NEW c \in cs, NEW v \in Mounts(c, input)
  PROVE  <<c, v>> \in MountsOf(cs)
BY DEF MountsOf

LEMMA MountsOfContainers ==
  ASSUME NEW cs, NEW m \in MountsOf(cs)
  PROVE  \E c \in cs : m[2] \in Mounts(c, input)
<1>1. PICK c \in cs : m \in {c} \X Mounts(c, input)
  BY DEF MountsOf
<1>2. m[2] \in Mounts(c, input)
  BY <1>1
<1> QED
  BY <1>2

(* MergeDefaultConfig leaves amounts of the user, defaults or nothing. *)
LEMMA MergedAmounts ==
  ASSUME NEW r \in ResourcesSpec \cup {NoResources}
  PROVE  LET m == MergeDefaultConfig(r)
         IN {m.cpu, m.memory, m.storage} \subseteq {"none", "user", "default"}
<1>1. \A a \in Amounts : Merged(a) \in {"none", "user", "default"}
  BY DEF Amounts, Merged
<1>2. CASE ~r.given
  <2>1. MergeDefaultConfig(r) = DefaultResources
    BY <1>2 DEF MergeDefaultConfig
  <2> QED
    BY <2>1 DEF DefaultResources
<1>3. CASE r.given
  <2>1. r.cpu \in Amounts /\ r.memory \in Amounts
    <3>1. CASE r = NoResources
      BY <3>1 DEF NoResources, Amounts
    <3>2. CASE r \in ResourcesSpec
      BY <3>2 DEF ResourcesSpec
    <3> QED
      BY <3>1, <3>2
  <2>2. CASE r.cpu = "none" /\ r.memory = "none"
    <3>1. MergeDefaultConfig(r) = [given |-> TRUE, cpu |-> "none", memory |-> "none",
                                   storage |-> IF r.storage = "none" THEN "default" ELSE "none"]
      BY <1>3, <2>2, SMTT(60) DEF MergeDefaultConfig
    <3> QED
      BY <3>1
  <2>3. CASE ~(r.cpu = "none" /\ r.memory = "none")
    <3>1. MergeDefaultConfig(r) = [given |-> TRUE, cpu |-> Merged(r.cpu), memory |-> Merged(r.memory),
                                   storage |-> IF r.storage = "none" THEN "default" ELSE "user"]
      BY <1>3, <2>3 DEF MergeDefaultConfig
    <3> QED
      BY <1>1, <2>1, <3>1
  <2> QED
    BY <2>2, <2>3
<1> QED
  BY <1>2, <1>3

(* A template with its containers, volumes and claims holds together. *)
LEMMA CompleteResolves ==
  ASSUME NEW t, input \in InputType,
         t.containers \subseteq HdfsContainers \cup {"oidc", "vector"},
         HasContainers(t), HasVolumes(t), t.claims = Claims(input)
  PROVE  /\ \A m \in t.mounts : m[2] \in t.volumes \cup t.claims
         /\ t.probes \subseteq {p[1] : p \in t.ports}
<1>1. t.containers \subseteq Containers(input) \cup {"vector", "oidc"}
  BY DEF HasContainers
<1>2. ASSUME NEW m \in t.mounts
      PROVE  m[2] \in t.volumes \cup t.claims
  <2>1. PICK c \in t.containers : m[2] \in Mounts(c, input)
    BY MountsOfContainers, SMTT(60) DEF HasContainers
  <2>2. Mounts(c, input) \subseteq CommonVolumes(input) \cup ComponentVolumes(input) \cup Claims(input)
    BY <1>1, MountsProvided
  <2> QED
    BY <2>1, <2>2, SMTT(60) DEF HasVolumes
<1>3. t.probes \subseteq {p[1] : p \in t.ports}
  <2>1. t.probes \subseteq {p[1] : p \in Ports(input)} /\ Ports(input) \subseteq t.ports
    BY ProbesProvided DEF HasContainers
  <2> QED
    BY <2>1, SMTT(60)
<1> QED
  BY <1>2, <1>3

-----------------------------------------------------------------------------
(* The inductive invariant.                                                *)

LEMMA IInvInit == Init => IInv
<1> SUFFICES ASSUME Init
             PROVE  IInv
  BY SMTT(60)
<1>1. TypeOK
  <2>1. edits \in 0 .. MaxEdits /\ changes \in 0 .. MaxChanges
    BY InputsAssumption, SMTT(60) DEF Init
  <2>2. /\ metrics.scheme = "none"
        /\ resources.cpu = "none" /\ resources.memory = "none" /\ resources.storage = "none"
    BY SMTT(60) DEF Init, NoMetrics, NoResources
  <2>3. /\ template = sts /\ template.containers = {}
        /\ template.capacity = "none" /\ template.zkfc = "none"
    BY SMTT(60) DEF Init, Empty
  <2>4. cm.log4j = {}
    BY SMTT(60) DEF Init, NoFiles
  <2> QED
    BY <2>1, <2>2, <2>3, <2>4, SMTT(60) DEF Init, TypeOK
<1>2. IsTemplate(template) /\ IsTemplate(sts)
  BY SMTT(60) DEF Init, IsTemplate, Empty
<1>3. TemplateInv /\ ObjectInv
  BY SMTT(60)
  DEF Init, TemplateInv, ObjectInv, AfterService, AfterMetrics, AfterContainers,
      AfterVolumes, AfterClaims, AfterVector, AfterOidc, AfterStatefulSet, AfterConfigMap
<1>4. ReferencesResolve
  BY SMTT(60) DEF Init, ReferencesResolve, Empty
<1> QED
  BY <1>1, <1>2, <1>3, <1>4 DEF IInv

(* The fields of a template and their types, which no step loses. *)
TemplateType(t) ==
  /\ IsTemplate(t)
  /\ t.containers \subseteq HdfsContainers \cup {"oidc", "vector"}
  /\ t.capacity \in {"none", "user", "default", "10Gi"}
  /\ t.zkfc \in {"none", "own", "group"}

LEMMA TemplateTypeOK ==
  IInv => TemplateType(template) /\ TemplateType(sts)
BY SMTT(60) DEF IInv, TypeOK, TemplateType

LEMMA TemplateTypeStep ==
  ASSUME IInv, [Next]_vars
  PROVE  TemplateType(template)' /\ TemplateType(sts)'
<1>0. TemplateType(template) /\ TemplateType(sts) /\ input \in InputType
  BY TemplateTypeOK, InputsAssumption, SMTT(60) DEF IInv, TypeOK
<1>1. CASE RegisterResources
  BY <1>0, <1>1 DEF RegisterResources, TemplateType, IsTemplate, Empty
<1>2. CASE AddContainers
  <2>1. Containers(input) \subseteq HdfsContainers
    BY <1>0, RoleCases DEF HdfsContainers
  <2>2. ZkfcResources(resources) \in {"own", "group"}
    BY DEF ZkfcResources
  <2> QED
    BY <1>0, <1>2, <2>1, <2>2, ZenonT(60) DEF AddContainers, TemplateType, IsTemplate
<1>3. CASE AddVolumes
  BY <1>0, <1>3, ZenonT(60) DEF AddVolumes, TemplateType, IsTemplate
<1>4. CASE AddVolumeClaimTemplates
  <2>1. Capacity(resources) \in {"user", "default", "10Gi"}
    BY DEF IInv, TypeOK, Capacity
  <2> QED
    BY <1>0, <1>4, <2>1, ZenonT(60)
    DEF AddVolumeClaimTemplates, TemplateType, IsTemplate
<1>5. CASE AddVectorContainer
  BY <1>0, <1>5, ZenonT(60) DEF AddVectorContainer, TemplateType, IsTemplate
<1>6. CASE AddOidcContainer
  BY <1>0, <1>6, ZenonT(60) DEF AddOidcContainer, WithOidc, TemplateType, IsTemplate
<1>7. CASE WriteStatefulSet
  BY <1>0, <1>7 DEF WriteStatefulSet, TemplateType, IsTemplate
<1>8. CASE UNCHANGED <<template, sts>>
  BY <1>0, <1>8, SMTT(60) DEF TemplateType, IsTemplate
<1> QED
  BY <1>1, <1>2, <1>3, <1>4, <1>5, <1>6, <1>7, <1>8, SMTT(60)
  DEF Next, Pass, Requeue, WriteService, WriteMetricsService, BuildConfigMap,
      ChangeClass, EditSpec, vars, services

(* What a step may do to the variables that few steps write. *)
LEMMA StepChanges ==
  ASSUME [Next]_vars
  PROVE  /\ UNCHANGED metrics \/ metrics' = MetricsService(input)
         /\ UNCHANGED resources \/ resources' = MergeDefaultConfig(input.resources)
         /\ UNCHANGED cm \/ cm' = Files(input)
         /\ UNCHANGED <<input, edits>> \/ EditSpec
         /\ UNCHANGED <<class, changes>> \/ ChangeClass
         /\ UNCHANGED pc \/ pc' \in {"idle", "register", "service", "metrics", "containers",
              "volumes", "claims", "vector", "oidc", "statefulset", "configmap", "queued"}
<1> USE DEF Next, Pass, vars, world, services, RegisterResources, Requeue, WriteService,
     WriteMetricsService, AddContainers, AddVolumes, AddVolumeClaimTemplates,
     AddVectorContainer, AddOidcContainer, WriteStatefulSet, BuildConfigMap
<1>1. UNCHANGED metrics \/ metrics' = MetricsService(input)
  BY SMTT(60) DEF ChangeClass, EditSpec
<1>2. UNCHANGED resources \/ resources' = MergeDefaultConfig(input.resources)
  BY SMTT(60) DEF ChangeClass, EditSpec
<1>3. UNCHANGED cm \/ cm' = Files(input)
  BY SMTT(60) DEF ChangeClass, EditSpec
<1>4. UNCHANGED <<input, edits>> \/ EditSpec
  BY SMTT(60) DEF ChangeClass
<1>5. UNCHANGED <<class, changes>> \/ ChangeClass
  BY SMTT(60) DEF EditSpec
<1>6. UNCHANGED pc \/ pc' \in {"idle", "register", "service", "metrics", "containers",
              "volumes", "claims", "vector", "oidc", "statefulset", "configmap", "queued"}
  BY SMTT(60) DEF ChangeClass, EditSpec
<1> QED
  BY <1>1, <1>2, <1>3, <1>4, <1>5, <1>6, SMTT(60)

(* The rest of the type invariant. *)
LEMMA TypeStep ==
  ASSUME IInv, [Next]_vars
  PROVE  TypeOK'
<1>0. input \in InputType
  BY InputsAssumption, SMTT(60) DEF IInv, TypeOK
<1>1. input' \in Inputs /\ edits' \in 0 .. MaxEdits
  BY StepChanges, InputsAssumption, SMTT(60) DEF IInv, TypeOK, EditSpec
<1>2. class' \in ClassStates /\ changes' \in 0 .. MaxChanges
  BY StepChanges, InputsAssumption, SMTT(60) DEF IInv, TypeOK, ChangeClass
<1>3. pc' \in {"idle", "register", "service", "metrics", "containers", "volumes",
               "claims", "vector", "oidc", "statefulset", "configmap", "queued"}
  BY StepChanges, SMTT(60) DEF IInv, TypeOK
<1>4. metrics'.scheme \in {"none", "http", "https"}
  <2>1. MetricsService(input).scheme \in {"http", "https"}
    BY SMTT(60) DEF MetricsService, Web
  <2> QED
    BY <2>1, StepChanges DEF IInv, TypeOK
<1>5. {resources'.cpu, resources'.memory, resources'.storage} \subseteq {"none", "user", "default"}
  <2>1. input.resources \in ResourcesSpec \cup {NoResources}
    BY <1>0, SMTT(60) DEF InputType
  <2> QED
    BY <2>1, StepChanges, MergedAmounts DEF IInv, TypeOK
<1>6. cm'.log4j \subseteq HdfsContainers
  <2>1. Log4j(input) \subseteq HdfsContainers
    BY <1>0, RoleCases, SMTT(60)
    DEF HdfsContainers, NameNodeContainers, JournalNodeContainers,
        DataNodeContainers, NameNodeLog4j, JournalNodeLog4j, DataNodeLog4j
  <2>2. Files(input).log4j = Log4j(input)
    BY DEF Files
  <2> QED
    BY <2>1, <2>2, StepChanges DEF IInv, TypeOK
<1> QED
  BY <1>1, <1>2, <1>3, <1>4, <1>5, <1>6, TemplateTypeStep, SMTT(60)
  DEF TypeOK, TemplateType

(* Behind each step of a pass its part of the template is that of the spec. *)
LEMMA TemplateStep ==
  ASSUME IInv, [Next]_vars
  PROVE  TemplateInv'
<1> USE DEF AfterContainers, AfterVolumes, AfterClaims, AfterVector, AfterOidc,
            AfterStatefulSet, AfterConfigMap
<1>0. /\ TemplateInv /\ IsTemplate(template) /\ input \in InputType
      /\ template.containers \subseteq HdfsContainers \cup {"oidc", "vector"}
  BY InputsAssumption DEF IInv, TypeOK
<1>1. CASE pc' \in {"register", "service", "metrics", "containers", "queued"}
  BY <1>1, SMTT(60) DEF TemplateInv
<1>2. CASE AddContainers
  <2>1. {"oidc", "vector"} \cap Containers(input) = {} /\ Containers(input) \subseteq HdfsContainers
    BY <1>0, RoleCases DEF HdfsContainers, NameNodeContainers, JournalNodeContainers,
       DataNodeContainers
  <2>2. /\ template'.containers = Containers(input)
        /\ template'.mounts = MountsOf(Containers(input))
        /\ template'.ports = Ports(input)
        /\ template'.probes = {LivenessPort(input), ReadinessPort(input)}
        /\ input' = input /\ pc' = "volumes"
    BY <1>0, <1>2, SMTT(60) DEF AddContainers, IsTemplate, world
  <2>3. HasContainers(template)'
    BY <2>1, <2>2, SMTT(60) DEF HasContainers, MountsOf
  <2> QED
    BY <2>1, <2>2, <2>3, SMTT(60) DEF TemplateInv
<1>3. CASE AddVolumes
  <2>1. /\ template'.containers = template.containers /\ template'.mounts = template.mounts
        /\ template'.ports = template.ports /\ template'.probes = template.probes
        /\ template'.upstream = template.upstream
        /\ template'.volumes = CommonVolumes(input) \cup ComponentVolumes(input)
        /\ template'.keytab = Keytab(input)
        /\ input' = input /\ pc = "volumes" /\ pc' = "claims"
    BY <1>0, <1>3, SMTT(60) DEF AddVolumes, IsTemplate, world
  <2>2. HasContainers(template)'
    BY <1>0, <2>1, SMTT(60) DEF TemplateInv, HasContainers, MountsOf
  <2>3. HasVolumes(template)'
    BY <2>1, SMTT(60) DEF HasVolumes
  <2> QED
    BY <1>0, <2>1, <2>2, <2>3 DEF TemplateInv, VectorEnabled
<1>4. CASE AddVolumeClaimTemplates /\ pc' # "queued"
  <2>1. /\ template'.containers = template.containers /\ template'.mounts = template.mounts
        /\ template'.ports = template.ports /\ template'.probes = template.probes
        /\ template'.upstream = template.upstream /\ template'.volumes = template.volumes
        /\ template'.keytab = template.keytab
        /\ template'.claims = Claims(input)
        /\ input' = input /\ pc = "claims" /\ pc' = "vector"
    BY <1>0, <1>4, ZenonT(60) DEF AddVolumeClaimTemplates, IsTemplate, world
  <2>2. HasContainers(template)' /\ HasVolumes(template)'
    BY <1>0, <2>1 DEF TemplateInv, HasContainers, HasVolumes, MountsOf
  <2> QED
    BY <1>0, <2>1, <2>2 DEF TemplateInv, VectorEnabled
<1>5. CASE AddVectorContainer /\ pc' # "queued"
  <2>0. input' = input /\ pc = "vector" /\ pc' = "oidc"
    BY <1>5, SMTT(60) DEF AddVectorContainer, world
  <2>1. CASE ~VectorEnabled(input)
    <3>1. template' = template
      BY <1>5, <2>1, SMTT(60) DEF AddVectorContainer
    <3> QED
      BY <1>0, <2>0, <3>1 DEF TemplateInv, HasContainers, HasVolumes, MountsOf, VectorEnabled
  <2>2. CASE VectorEnabled(input)
    <3>1. /\ template'.containers = template.containers \cup {"vector"}
          /\ template'.mounts = template.mounts \cup MountsOf({"vector"})
          /\ template'.ports = template.ports /\ template'.probes = template.probes
          /\ template'.upstream = template.upstream /\ template'.volumes = template.volumes
          /\ template'.keytab = template.keytab /\ template'.claims = template.claims
      BY <1>0, <1>5, <2>0, <2>2, ZenonT(60) DEF AddVectorContainer, IsTemplate
    <3>2. "vector" \notin HdfsContainers
      BY DEF HdfsContainers, NameNodeContainers, JournalNodeContainers, DataNodeContainers
    <3>3. template'.mounts = MountsOf(template'.containers)
      BY <1>0, <2>0, <3>1, MountsOfUnion, SMTT(60) DEF TemplateInv, HasContainers
    <3>4. HasContainers(template)'
      BY <1>0, <2>0, <3>1, <3>2, <3>3 DEF TemplateInv, HasContainers, MountsOf
    <3> QED
      BY <1>0, <2>0, <2>2, <3>1, <3>4 DEF TemplateInv, HasVolumes, VectorEnabled
  <2> QED
    BY <2>1, <2>2
<1>6. CASE AddOidcContainer /\ pc' # "queued"
  <2>0. input' = input /\ pc = "oidc" /\ pc' = "statefulset"
    BY <1>6, SMTT(60) DEF AddOidcContainer, world
  <2>1. CASE ~WantsOidc
    <3>1. template' = template
      BY <1>6, <2>1, SMTT(60) DEF AddOidcContainer
    <3> QED
      BY <1>0, <2>0, <3>1 DEF TemplateInv, HasContainers, HasVolumes, MountsOf, VectorEnabled
  <2>2. CASE WantsOidc
    <3>1. /\ template'.containers = template.containers \cup {"oidc"}
          /\ template'.mounts = template.mounts \cup MountsOf({"oidc"})
          /\ template'.ports = template.ports \cup {OidcPort}
          /\ template'.probes = template.probes
          /\ template'.upstream = OidcUpstream(input) /\ template'.volumes = template.volumes
          /\ template'.keytab = template.keytab /\ template'.claims = template.claims
      BY <1>0, <1>6, <2>0, <2>2, ZenonT(60) DEF AddOidcContainer, WithOidc, IsTemplate
    <3>2. "oidc" \notin HdfsContainers
      BY DEF HdfsContainers, NameNodeContainers, JournalNodeContainers, DataNodeContainers
    <3>3. template'.mounts = MountsOf(template'.containers)
      BY <1>0, <2>0, <3>1, MountsOfUnion, SMTT(60) DEF TemplateInv, HasContainers
    <3>4. template'.ports = Ports(input) \cup {p \in {OidcPort} : "oidc" \in template'.containers}
      BY <1>0, <2>0, <3>1, SMTT(60) DEF TemplateInv, HasContainers
    <3>5. HasContainers(template)'
      BY <1>0, <2>0, <3>1, <3>2, <3>3, <3>4, SMTT(60)
      DEF TemplateInv, HasContainers, MountsOf
    <3> QED
      BY <1>0, <2>0, <3>1, <3>5 DEF TemplateInv, HasVolumes, VectorEnabled
  <2> QED
    BY <2>1, <2>2
<1>7. CASE /\ UNCHANGED <<template, input>>
           /\ pc' = pc \/ (pc \in AfterOidc /\ pc' \in AfterOidc)
  BY <1>0, <1>7, SMTT(60)
  DEF TemplateInv, HasContainers, HasVolumes, MountsOf, VectorEnabled
<1>8. CASE RegisterResources \/ Requeue \/ WriteService \/ WriteMetricsService \/ EditSpec
  BY <1>1, <1>8, SMTT(60)
  DEF RegisterResources, Requeue, WriteService, WriteMetricsService, EditSpec
<1>9. CASE WriteStatefulSet \/ BuildConfigMap \/ ChangeClass \/ UNCHANGED vars
  BY <1>1, <1>7, <1>9 DEF WriteStatefulSet, BuildConfigMap, ChangeClass, vars, world
<1> QED
  BY <1>1, <1>2, <1>3, <1>4, <1>5, <1>6, <1>8, <1>9, SMTT(60) DEF Next, Pass

(* A pass gets past an object only when it is as built. *)
LEMMA ObjectStep ==
  ASSUME IInv, [Next]_vars
  PROVE  ObjectInv'
<1> USE DEF AfterService, AfterMetrics, AfterContainers, AfterVolumes, AfterClaims,
            AfterVector, AfterOidc, AfterStatefulSet, AfterConfigMap
<1>0. ObjectInv
  BY DEF IInv
<1>1. CASE pc' \in {"register", "service", "queued"}
  BY <1>1, SMTT(60) DEF ObjectInv
<1>2. CASE RegisterResources \/ Requeue \/ EditSpec
  BY <1>1, <1>2, SMTT(60) DEF RegisterResources, Requeue, EditSpec
<1>3. CASE WriteService \/ WriteMetricsService
  BY <1>0, <1>1, <1>3, SMTT(60)
  DEF WriteService, WriteMetricsService, ObjectInv, world
<1>4. CASE AddContainers \/ AddVolumes \/ AddVolumeClaimTemplates \/ AddVectorContainer
           \/ AddOidcContainer
  BY <1>0, <1>1, <1>4, SMTT(60)
  DEF AddContainers, AddVolumes, AddVolumeClaimTemplates,
      AddVectorContainer, AddOidcContainer, ObjectInv, world, services
<1>5. CASE WriteStatefulSet
  BY <1>0, <1>1, <1>5, SMTT(60) DEF WriteStatefulSet, ObjectInv, world, services
<1>6. CASE BuildConfigMap
  BY <1>0, <1>1, <1>6, SMTT(60) DEF BuildConfigMap, ObjectInv, world, services
<1>7. CASE ChangeClass \/ UNCHANGED vars
  BY <1>0, <1>7 DEF ChangeClass, ObjectInv, vars, services
<1> QED
  BY <1>2, <1>3, <1>4, <1>5, <1>6, <1>7 DEF Next, Pass

(* Only a complete template becomes the StatefulSet. *)
LEMMA ResolveStep ==
  ASSUME IInv, [Next]_vars
  PROVE  ReferencesResolve'
<1>1. CASE UNCHANGED sts
  BY <1>1, SMTT(60) DEF IInv, ReferencesResolve
<1>2. CASE WriteStatefulSet /\ sts' = template
  <2>1. /\ HasContainers(template) /\ HasVolumes(template) /\ template.claims = Claims(input)
        /\ template.containers \subseteq HdfsContainers \cup {"oidc", "vector"}
        /\ input \in InputType
    BY <1>2, InputsAssumption, SMTT(60)
    DEF WriteStatefulSet, IInv, TypeOK, TemplateInv, AfterContainers,
        AfterVolumes, AfterClaims, AfterVector, AfterOidc
  <2> QED
    BY <1>2, <2>1, CompleteResolves, SMTT(60) DEF ReferencesResolve
<1>3. UNCHANGED sts \/ (WriteStatefulSet /\ sts' = template)
  BY DEF Next, Pass, vars, RegisterResources, Requeue, WriteService, WriteMetricsService,
     AddContainers, AddVolumes, AddVolumeClaimTemplates, AddVectorContainer,
     AddOidcContainer, WriteStatefulSet, BuildConfigMap, ChangeClass, EditSpec
<1> QED
  BY <1>1, <1>2, <1>3

(* IInv holds in every state of every run. *)
LEMMA Inductive == Spec => []IInv
<1>1. IInv /\ [Next]_vars => IInv'
  BY TypeStep, TemplateTypeStep, TemplateStep, ObjectStep, ResolveStep, SMTT(60)
  DEF IInv, TemplateType
<1> QED
  BY <1>1, IInvInit, PTL DEF Spec

-----------------------------------------------------------------------------
(* What it implies.                                                        *)

(* The objects of a group at rest are those of its spec. *)
LEMMA AtRest ==
  ASSUME IInv, pc = "idle"
  PROVE  /\ input \in InputType
         /\ svc = ServicePorts(input) /\ metrics = MetricsService(input) /\ cm = Files(input)
         /\ sts.containers \cap HdfsContainers = Containers(input)
         /\ sts.containers \subseteq HdfsContainers \cup {"oidc", "vector"}
         /\ HasContainers(sts) /\ HasVolumes(sts)
         /\ "vector" \in sts.containers => VectorEnabled(input)
BY InputsAssumption DEF IInv, TypeOK, TemplateInv, ObjectInv, HasContainers, AfterService,
   AfterMetrics, AfterContainers, AfterVolumes, AfterClaims, AfterVector, AfterOidc,
   AfterStatefulSet, AfterConfigMap

(* Every variable of the build keeps its type, whatever the specs. *)
THEOREM BuildTypeCorrect == Spec => []TypeOK
<1>1. IInv => TypeOK
  BY DEF IInv
<1> QED
  BY <1>1, Inductive, PTL

(* No StatefulSet the operator writes has a mount without a volume or a    *)
(* probe without a port, for any combination of options and across edits.  *)
THEOREM ReferencesResolveHolds == Spec => []ReferencesResolve
<1>1. IInv => ReferencesResolve
  BY SMTT(60) DEF IInv
<1> QED
  BY <1>1, Inductive, PTL

(* A group at rest has in its ConfigMap what its containers read, and the  *)
(* keystore of https except with Kerberos and no TLS.                      *)
THEOREM FilesProvidedHolds == Spec => []FilesProvided
<1>1. ASSUME IInv, pc = "idle"
      PROVE  /\ sts.containers \cap HdfsContainers \subseteq cm.log4j
             /\ "vector" \in sts.containers => cm.vector
             /\ cm.keystore =>
                  \A c \in sts.containers \cap HdfsContainers : <<c, "tls">> \in sts.mounts
             /\ cm.serves = "https" /\ ~cm.keystore <=> input.kerberos /\ ~input.tls
  <2>1. cm.log4j = Log4j(input) /\ cm.vector = VectorEnabled(input) /\ cm.keystore = input.tls
    <3>1. cm = Files(input)
      BY <1>1, AtRest
    <3>2. cm.log4j = Log4j(input) /\ cm.vector = VectorEnabled(input)
      BY <3>1 DEF Files
    <3>3. cm.keystore = input.tls
      BY <3>1 DEF Files, Keystore
    <3> QED
      BY <3>2, <3>3
  <2>2. Containers(input) \subseteq Log4j(input)
    BY <1>1, AtRest, RoleCases, SMTT(60)
    DEF NameNodeContainers, JournalNodeContainers,
        DataNodeContainers, NameNodeLog4j, JournalNodeLog4j, DataNodeLog4j
  <2>3. ASSUME input.tls, NEW c \in sts.containers \cap HdfsContainers
        PROVE  <<c, "tls">> \in sts.mounts
    <3>1. "tls" \in Mounts(c, input)
      BY <1>1, <2>3, AtRest, TlsMounted, SMTT(60)
    <3> QED
      BY <1>1, <3>1, AtRest, MountOf, SMTT(60) DEF HasContainers
  <2>4. cm.serves = Web(input.kerberos)
    BY <1>1, AtRest, SMTT(60) DEF Files, ServedScheme
  <2>5. cm.serves = "https" /\ ~cm.keystore <=> input.kerberos /\ ~input.tls
    BY <2>1, <2>4, SMTT(60) DEF Web
  <2> QED
    BY <1>1, <2>1, <2>2, <2>3, <2>5, AtRest, SMTT(60)
<1>2. IInv => FilesProvided
  BY <1>1, SMTT(60) DEF FilesProvided
<1> QED
  BY <1>2, Inductive, PTL

(* The liveness probe and the scraper speak the scheme of the servers      *)
(* exactly where Kerberos and TLS go together, and the proxy does exactly  *)
(* without both.                                                           *)
THEOREM WebAnsweredHolds == Spec => []WebAnswered
<1>1. ASSUME IInv, pc = "idle"
      PROVE  /\ cm.serves = Web(input.kerberos) /\ metrics.scheme = Web(input.tls)
             /\ sts.probes = {Web(input.tls), ReadinessPort(input)}
             /\ input.kerberos \in BOOLEAN /\ input.tls \in BOOLEAN
  <2>1. cm.serves = Web(input.kerberos) /\ metrics.scheme = Web(input.tls)
    BY <1>1, AtRest DEF Files, ServedScheme, MetricsService
  <2>2. sts.probes = {Web(input.tls), ReadinessPort(input)}
    BY <1>1, AtRest, ZenonT(60) DEF HasContainers, LivenessPort
  <2>3. input.kerberos \in BOOLEAN /\ input.tls \in BOOLEAN
    BY <1>1, AtRest, SMTT(60) DEF InputType
  <2> QED
    BY <2>1, <2>2, <2>3
<1>2. ASSUME IInv, pc = "idle"
      PROVE  /\ cm.serves \in sts.probes <=> input.kerberos = input.tls
             /\ cm.serves = metrics.scheme <=> input.kerberos = input.tls
  <2>1. Web(input.kerberos) = Web(input.tls) <=> input.kerberos = input.tls
    BY <1>1, <1>2, SMTT(60) DEF Web
  <2>2. Web(input.kerberos) # ReadinessPort(input)
    BY SMTT(60) DEF Web, ReadinessPort
  <2> QED
    BY <1>1, <1>2, <2>1, <2>2, ZenonT(60)
<1>3. ASSUME IInv, pc = "idle", "oidc" \in sts.containers
      PROVE  <<cm.serves, sts.upstream.port>> \in sts.ports /\ sts.upstream.scheme = cm.serves
               <=> ~input.kerberos /\ ~input.tls
  <2>1. sts.upstream.scheme = "http" /\ sts.upstream.port = GetHttpPort(input)
    BY <1>3, AtRest, SMTT(60) DEF HasContainers, OidcUpstream
  <2>2. sts.ports = Ports(input) \cup {OidcPort} /\ input \in InputType
    BY <1>3, AtRest, SMTT(60) DEF HasContainers
  <2>3. CASE input.kerberos
    BY <1>1, <1>3, <2>1, <2>3, SMTT(60) DEF Web
  <2>4. CASE ~input.kerberos /\ input.tls
    <3>1. cm.serves = "http" /\ <<"http", GetHttpPort(input)>> \notin Ports(input)
      BY <1>1, <1>3, <2>2, <2>4, NoPlainPort, SMTT(60) DEF Web
    <3>2. <<"http", GetHttpPort(input)>> # OidcPort
      BY SMTT(60) DEF OidcPort
    <3> QED
      BY <2>1, <2>2, <2>4, <3>1, <3>2, SMTT(60)
  <2>5. CASE ~input.kerberos /\ ~input.tls
    <3>1. cm.serves = "http" /\ Web(input.tls) = "http"
      BY <1>1, <1>3, <2>5, SMTT(60) DEF Web
    <3>2. <<"http", GetHttpPort(input)>> \in Ports(input)
      BY <2>2, <3>1, WebPort, SMTT(60)
    <3> QED
      BY <2>1, <2>2, <2>5, <3>1, <3>2, SMTT(60)
  <2> QED
    BY <2>3, <2>4, <2>5
<1>4. IInv => WebAnswered
  BY <1>2, <1>3, SMTT(60) DEF WebAnswered
<1> QED
  BY <1>4, Inductive, PTL

(* The Services of a group at rest lead to ports of its pods, and the      *)
(* addresses of hdfs-site.xml to both.                                     *)
THEOREM ServicesReachHolds == Spec => []ServicesReach
<1>1. ASSUME IInv, pc = "idle"
      PROVE  /\ svc \ Unserved \subseteq sts.ports
             /\ metrics.port \in Numbers(sts.ports)
             /\ cm.addresses[input.role] \subseteq Numbers(svc) \cap Numbers(sts.ports)
  <2>1. Ports(input) \subseteq sts.ports /\ ("oidc" \in sts.containers => OidcPort \in sts.ports)
    BY <1>1, AtRest, SMTT(60) DEF HasContainers
  <2>2. svc \ Unserved \subseteq sts.ports
    BY <1>1, <2>1, AtRest, ServiceServed DEF Unserved
  <2>3. metrics.port = GetHttpPort(input)
    <3>1. metrics.port = NativeMetricsPort(input)
      BY <1>1, AtRest, SMTT(60) DEF MetricsService
    <3>2. NativeMetricsPort(input) = GetHttpPort(input)
      BY <1>1, AtRest, WebPort, ZenonT(60)
    <3> QED
      BY <3>1, <3>2, SMTT(60)
  <2>4. metrics.port \in Numbers(sts.ports)
    BY <1>1, <2>1, <2>3, AtRest, WebPort, NumberOf, ZenonT(60)
  <2>5. Numbers(Ports(input)) \subseteq Numbers(sts.ports)
    BY <2>1, SMTT(60) DEF Numbers
  <2>6. cm.addresses = Addresses(input)
    BY <1>1, AtRest, SMTT(60) DEF Files
  <2> QED
    BY <1>1, <2>2, <2>4, <2>5, <2>6, AtRest, AddressesServed, SMTT(60)
<1>2. IInv => ServicesReach
  BY <1>1, SMTT(60) DEF ServicesReach
<1> QED
  BY <1>2, Inductive, PTL

(* No ${env.} of the files is unset in a container that reads them.        *)
THEOREM EnvResolvedHolds == Spec => []EnvResolved
<1>1. ASSUME IInv, pc = "idle", NEW c \in sts.containers \cap HdfsContainers
      PROVE  cm.placeholders.all \cup (IF c = "datanode" THEN cm.placeholders.datanode ELSE {})
               \subseteq Environment(c, input, sts.ports)
  <2>1. cm.placeholders = Placeholders(input)
    BY <1>1, AtRest, SMTT(60) DEF Files
  <2>2. Placeholders(input).all \subseteq Environment(c, input, sts.ports)
    BY <1>1, AtRest, CommonEnvironment, SMTT(60)
  <2>3. ASSUME c = "datanode"
        PROVE  Placeholders(input).datanode \subseteq Environment(c, input, sts.ports)
    <3>1. input.role = "datanode"
      BY <1>1, <2>3, AtRest, RoleCases, SMTT(60)
      DEF NameNodeContainers, JournalNodeContainers
    <3>2. Ports(input) \subseteq sts.ports
      BY <1>1, AtRest, SMTT(60) DEF HasContainers
    <3> QED
      BY <1>1, <2>3, <3>1, <3>2, AtRest, DataNodeEnvironment, SMTT(60)
  <2> QED
    BY <2>1, <2>2, <2>3, SMTT(60)
<1>2. IInv => EnvResolved
  BY <1>1, SMTT(60) DEF EnvResolved
<1> QED
  BY <1>2, Inductive, PTL

(* The keytab of a pod has every principal its containers log in with, and *)
(* clients are told the same ones.                                         *)
THEOREM LoginsPossibleHolds == Spec => []LoginsPossible
<1>1. ASSUME IInv, pc = "idle", input.kerberos
      PROVE  /\ \A c \in sts.containers \cap HdfsContainers : Logins(c, cm.principals) \subseteq sts.keytab
             /\ \A r \in Roles : SecurityDiscoveryCoreSiteXml[r] = cm.principals[r]
  <2>1. cm.principals = SecurityCoreSiteXml
    BY <1>1, AtRest, SMTT(60) DEF Files, CoreSitePrincipals
  <2>2. sts.keytab = {GetKerberosServiceName(input.role), "HTTP"}
    BY <1>1, AtRest, SMTT(60) DEF HasVolumes, Keytab
  <2>3. \A r \in Roles : SecurityDiscoveryCoreSiteXml[r] = SecurityCoreSiteXml[r]
    BY SMTT(60) DEF Roles, SecurityDiscoveryCoreSiteXml, SecurityCoreSiteXml
  <2> QED
    BY <1>1, <2>1, <2>2, <2>3, AtRest, LoginsAreOfRole, SMTT(60)
<1>2. IInv => LoginsPossible
  BY <1>1, SMTT(60) DEF LoginsPossible
<1> QED
  BY <1>2, Inductive, PTL

(* Whatever a daemon of a group at rest writes lies below its data claim.  *)
THEOREM DataOnClaimHolds == Spec => []DataOnClaim
<1>1. ASSUME IInv, pc = "idle", NEW c \in sts.containers \cap DataWriters
      PROVE  /\ <<c, "data">> \in sts.mounts /\ Below(cm.dir, DataMountPath(c))
             /\ c = "formatNameNodes" => VersionDir = cm.dir
  <2>1. cm.dir = DataDir(input)
    BY <1>1, AtRest, SMTT(60) DEF Files
  <2>2. c \in Containers(input)
    BY <1>1, AtRest, SMTT(60)
    DEF DataWriters, HdfsContainers, NameNodeContainers, JournalNodeContainers,
        DataNodeContainers
  <2>3. "data" \in Mounts(c, input)
    BY <1>1, <2>2, AtRest, WritersOnClaim, SMTT(60)
  <2>4. <<c, "data">> \in sts.mounts
    BY <1>1, <2>3, AtRest, MountOf DEF HasContainers
  <2> QED
    BY <1>1, <2>1, <2>2, <2>4, AtRest, WritersOnClaim, SMTT(60)
<1>2. "formatNameNodes" \in DataWriters
  BY DEF DataWriters
<1>3. IInv => DataOnClaim
  BY <1>1, <1>2, ZenonT(60) DEF DataOnClaim
<1> QED
  BY <1>3, Inductive, PTL
=============================================================================
