--------------------------- MODULE RoleGroupParts ---------------------------
(***************************************************************************)
(* What the builders of one role group put into its Services, StatefulSet  *)
(* and ConfigMap, as operators on what the HdfsCluster says of the group.  *)
(* The parts come from different packages, which decide on the same option *)
(* (TLS, Kerberos, OIDC) each for itself; they meet in the running pod.    *)
(* RoleGroupBuild assembles them.                                          *)
(***************************************************************************)
EXTENDS Integers

Roles == {"namenode", "journalnode", "datanode"}
Amounts == {"none", "zero", "user"}
ResourcesSpec ==
  [given : {TRUE}, cpu : Amounts, memory : Amounts, storage : {"none", "user"}]
NoResources == [given |-> FALSE, cpu |-> "none", memory |-> "none", storage |-> "none"]
InputType ==
  [role : Roles,
   kerberos : BOOLEAN, tls : BOOLEAN,  \* clusterConfig.authentication
   auth : {"none", "class", "classAndOidc"},  \* authenticationClass, oidc
   logging : {"nil", "agentNil", "off", "on"},
   aggregator : BOOLEAN,               \* vectorAggregatorConfigMapName set, its ConfigMap there
   override : {"none", "property", "filename"},  \* key in configOverrides[file]
   resources : ResourcesSpec \cup {NoResources},
   peer : BOOLEAN]                     \* a NameNode role group of the same name

Web(https) == IF https THEN "https" ELSE "http"

-----------------------------------------------------------------------------
(* Containers, volumes and mounts.                                         *)
NameNodeContainers == {"namenode", "zkfc", "formatNameNodes", "formatZookeeper"}
JournalNodeContainers == {"journalnode"}
DataNodeContainers == {"datanode", "waitForNameNodes"}
HdfsContainers == NameNodeContainers \cup JournalNodeContainers \cup DataNodeContainers

Containers(i) ==
  CASE i.role = "namenode" -> NameNodeContainers
    [] i.role = "journalnode" -> JournalNodeContainers
    [] i.role = "datanode" -> DataNodeContainers

(* GetVolumes of the three StatefulSet builders. *)
NameNodeVolumes ==
  {"config", "logConfig", "formatNameNodesConfig", "formatNameNodesLog",
   "formatZookeeperConfig", "formatZookeeperLog"}
JournalNodeVolumes == {"config", "logConfig"}
DataNodeVolumes ==
  {"config", "logConfig", "waitForNameNodesConfig", "waitForNameNodesLog", "listener"}

ComponentVolumes(i) ==
  CASE i.role = "namenode" -> NameNodeVolumes
    [] i.role = "journalnode" -> JournalNodeVolumes
    [] i.role = "datanode" -> DataNodeVolumes

(* The secret volumes of the two options, and where they are mounted. *)
KerberosVolumes(i) == {v \in {"kerberos"} : i.kerberos}
TlsVolumes(i) == {v \in {"tls"} : i.tls}
KerberosMounts(i) == {v \in {"kerberos"} : i.kerberos}
TlsMounts(i) == {v \in {"tls"} : i.tls}

(* Mutation: no volume for the keytab. *)
CommonVolumesNoKeytab(i) == {"log"} \cup TlsVolumes(i)

(* GetCommonVolumes; the tls volume is added twice under one name. *)
CommonVolumes(i) == {"log"} \cup KerberosVolumes(i) \cup TlsVolumes(i)

(* GetCommonVolumeMounts, with which every GetVolumeMounts below starts. *)
CommonMounts(i) == {"log"} \cup KerberosMounts(i) \cup TlsMounts(i)

NameNodeMounts == {"config", "logConfig", "listener", "data"}
ZkfcMounts == {"config", "logConfig"}
FormatNameNodesMounts == {"formatNameNodesConfig", "formatNameNodesLog", "data"}
FormatZookeeperMounts == {"formatZookeeperConfig", "formatZookeeperLog"}
JournalNodeMounts == {"config", "logConfig", "data"}
DataNodeMounts == {"config", "logConfig", "listener", "data"}
WaitForNameNodesMounts == {"waitForNameNodesConfig", "waitForNameNodesLog"}

(* builder.Vector is given the names of the config and the log volume. *)
VectorMounts == {"config", "log"}
OidcMounts == {}

Mounts(c, i) ==
  CASE c = "namenode" -> CommonMounts(i) \cup NameNodeMounts
    [] c = "zkfc" -> CommonMounts(i) \cup ZkfcMounts
    [] c = "formatNameNodes" -> CommonMounts(i) \cup FormatNameNodesMounts
    [] c = "formatZookeeper" -> CommonMounts(i) \cup FormatZookeeperMounts
    [] c = "journalnode" -> CommonMounts(i) \cup JournalNodeMounts
    [] c = "datanode" -> CommonMounts(i) \cup DataNodeMounts
    [] c = "waitForNameNodes" -> CommonMounts(i) \cup WaitForNameNodesMounts
    [] c = "vector" -> VectorMounts
    [] c = "oidc" -> OidcMounts

(* GetVolumeClaimTemplates; the listener of a DataNode is a volume. *)
Claims(i) == {"data"} \cup {c \in {"listener"} : i.role = "namenode"}

(* Where the data claim is mounted, a path below /kubedoop: the DataNode   *)
(* has it in a directory named for the claim.                              *)
DataMountPath(c) == IF c = "datanode" THEN <<"data", "data">> ELSE <<"data">>

(* The containers whose hdfs command writes to the data directory. *)
DataWriters == {"namenode", "formatNameNodes", "journalnode", "datanode"}

(* Mutation: the name of the claim is left out of dfs.datanode.data.dir. *)
DataNodeDirNoClaim == <<"data", "datanode">>

(* dfs.namenode.name.dir, dfs.journalnode.edits.dir, dfs.datanode.data.dir; *)
(* and the directory in which the format script looks for VERSION.          *)
RoleNodeDir == [namenode |-> <<"data", "namenode">>, journalnode |-> <<"data", "journalnode">>]
DataNodeDir == <<"data", "data", "datanode">>
VersionDir == <<"data", "namenode">>
DataDir(i) == IF i.role = "datanode" THEN DataNodeDir ELSE RoleNodeDir[i.role]

-----------------------------------------------------------------------------
(* Ports: pairs of a name and a number.                                    *)
NameNodePort == [rpc |-> 8020, metric |-> 8183, http |-> 9870, https |-> 9871]
JournalNodePort == [rpc |-> 8485, metric |-> 8081, http |-> 8480, https |-> 8481]
DataNodePort == [metric |-> 8082, data |-> 9866, ipc |-> 9867, http |-> 9864, https |-> 9865]

Named(port, names) == {<<n, port[n]>> : n \in names}
Numbers(ports) == {p[2] : p \in ports}

(* HttpPort: TLS decides on name and number. *)
HttpPort(i, port) == <<Web(i.tls), port[Web(i.tls)]>>

(* GetPorts of the main containers and of the oidc container. *)
NameNodePorts(i) == Named(NameNodePort, {"rpc", "metric"}) \cup {HttpPort(i, NameNodePort)}
JournalNodePorts(i) == Named(JournalNodePort, {"rpc", "metric"}) \cup {HttpPort(i, JournalNodePort)}
DataNodePorts(i) == Named(DataNodePort, {"metric", "data", "ipc"}) \cup {HttpPort(i, DataNodePort)}
OidcPort == <<"oidc", 4180>>

Ports(i) ==
  CASE i.role = "namenode" -> NameNodePorts(i)
    [] i.role = "journalnode" -> JournalNodePorts(i)
    [] i.role = "datanode" -> DataNodePorts(i)

(* GetHttpPort of the StatefulSet builders, which the oidc container gets. *)
GetHttpPort(i) ==
  CASE i.role = "namenode" -> HttpPort(i, NameNodePort)[2]
    [] i.role = "journalnode" -> HttpPort(i, JournalNodePort)[2]
    [] i.role = "datanode" -> HttpPort(i, DataNodePort)[2]

(* The names of the ports that the liveness probe (TlsHttpGetAction) and   *)
(* the readiness probe ask for.                                            *)
LivenessPort(i) == Web(i.tls)
ReadinessPort(i) == IF i.role = "datanode" THEN "ipc" ELSE "rpc"

(* Mutation: http whatever TLS says, as in the Service of the DataNode. *)
NameNodeServicePortsPlain(i) == Named(NameNodePort, {"rpc", "metric", "http"}) \cup {OidcPort}

(* GetServicePorts of the three Services. *)
NameNodeServicePorts(i) ==
  Named(NameNodePort, {"rpc", "metric"}) \cup {OidcPort, HttpPort(i, NameNodePort)}
JournalNodeServicePorts(i) ==
  Named(JournalNodePort, {"rpc", "metric"}) \cup {OidcPort, HttpPort(i, JournalNodePort)}
DataNodeServicePorts(i) == {<<"data", 9866>>, <<"http", 9864>>, <<"ipc", 9867>>}

ServicePorts(i) ==
  CASE i.role = "namenode" -> NameNodeServicePorts(i)
    [] i.role = "journalnode" -> JournalNodeServicePorts(i)
    [] i.role = "datanode" -> DataNodeServicePorts(i)

(* GetNativeMetricsPort: the metrics Service points at the web port. *)
NativeMetricsPort(i) ==
  CASE i.role = "namenode" -> IF i.tls THEN 9871 ELSE 9870
    [] i.role = "journalnode" -> IF i.tls THEN 8481 ELSE 8480
    [] i.role = "datanode" -> IF i.tls THEN 9865 ELSE 9864

MetricsService(i) == [port |-> NativeMetricsPort(i), scheme |-> Web(i.tls)]

(* UPSTREAM of oauth2-proxy: plain http, whatever TLS says, at GetHttpPort. *)
OidcUpstream(i) == [scheme |-> "http", port |-> GetHttpPort(i)]

-----------------------------------------------------------------------------
(* Kerberos.  Principals are named by their service part: the host part is *)
(* made of the cluster's name and namespace everywhere, and the keytab is  *)
(* asked for the service of that name.                                     *)
GetKerberosServiceName(role) ==
  CASE role = "namenode" -> "nn" [] role = "datanode" -> "dn" [] role = "journalnode" -> "jn"

(* CreateKerberosSecretPvc: the principals in the keytab of the pods. *)
Keytab(i) == {s \in {GetKerberosServiceName(i.role), "HTTP"} : i.kerberos}

(* Mutation: the script of the DataNode pod takes the NameNode's ticket. *)
KinitRoleNameNode(c) == "namenode"

(* The role CreateKerberosPrincipal is given in the two scripts with kinit. *)
KinitRole(c) == IF c = "waitForNameNodes" THEN "datanode" ELSE "namenode"
KinitContainers == {"formatNameNodes", "waitForNameNodes"}

(* Principals in core-site.xml of the pods and of the clients. *)
NoPrincipals == [r \in {} |-> ""]
SecurityCoreSiteXml ==
  [journalnode |-> "jn", namenode |-> "nn", datanode |-> "dn", web |-> "HTTP"]
SecurityDiscoveryCoreSiteXml == [journalnode |-> "jn", namenode |-> "nn", datanode |-> "dn"]
CoreSitePrincipals(i) == IF i.kerberos THEN SecurityCoreSiteXml ELSE NoPrincipals

(* Which principal the hdfs command of a container logs in with; hdfs      *)
(* haadmin of waitForNameNodes uses the ticket of kinit.                   *)
LoginRole(c) ==
  CASE c \in NameNodeContainers -> "namenode"
    [] c = "journalnode" -> "journalnode"
    [] c = "datanode" -> "datanode"

Logins(c, principals) ==
  (IF c \in KinitContainers THEN {GetKerberosServiceName(KinitRole(c))} ELSE {})
    \cup (IF c = "waitForNameNodes" THEN {} ELSE {principals[LoginRole(c)]})
    \cup (IF c \in Roles THEN {principals["web"]} ELSE {})

-----------------------------------------------------------------------------
(* The environment of a container.                                         *)
SecurityEnvs(i) == {v \in {"HADOOP_OPTS", "KRB5_CONFIG", "KRB5_CLIENT_KTNAME"} : i.kerberos}
OptsEnv == [namenode |-> "HDFS_NAMENODE_OPTS", datanode |-> "HDFS_DATANODE_OPTS",
            journalnode |-> "HDFS_JOURNALNODE_OPTS"]

GetCommonContainerEnv(c, i) ==
  {"HADOOP_CONF_DIR", "HADOOP_HOME", "POD_NAME", "ZOOKEEPER"}
    \cup SecurityEnvs(i) \cup {OptsEnv[r] : r \in Roles \cap {c}}

(* The scripts of all containers export the realm when Kerberos is on. *)
RealmEnv(i) == {v \in {"KERBEROS_REALM"} : i.kerberos}

(* ExportPodAddress in the scripts of the main containers: the address and *)
(* the ports that the listener volume has of the pod, if it is mounted.    *)
PortEnv == [rpc |-> "RPC_PORT", metric |-> "METRIC_PORT", data |-> "DATA_PORT",
            ipc |-> "IPC_PORT", http |-> "HTTP_PORT", https |-> "HTTPS_PORT",
            oidc |-> "OIDC_PORT"]
ExportPodAddress(c, i, ports) ==
  IF c \in Roles /\ "listener" \in Mounts(c, i)
  THEN {"POD_ADDRESS"} \cup {PortEnv[p[1]] : p \in ports}
  ELSE {}

Environment(c, i, ports) ==
  GetCommonContainerEnv(c, i) \cup RealmEnv(i) \cup ExportPodAddress(c, i, ports)

(* Mutation: the plain port is registered whatever TLS says. *)
TlsHdfsSiteXmlPlain(i) == {"HTTP_PORT"}

(* What the files name as ${env.}: the template of hdfs-site.xml and       *)
(* TlsHdfsSiteXml for the DataNode, the id, the quorum and the realm for   *)
(* every container.                                                        *)
TlsHdfsSiteXml(i) == IF i.tls THEN {"HTTPS_PORT"} ELSE {"HTTP_PORT"}
HdfsSiteTemplate == {"POD_ADDRESS", "IPC_PORT", "DATA_PORT"}
HaZookeeperQuorum == {"ZOOKEEPER"}
Placeholders(i) ==
  [datanode |-> HdfsSiteTemplate \cup TlsHdfsSiteXml(i),
   all |-> {"POD_NAME"} \cup HaZookeeperQuorum \cup RealmEnv(i)]

-----------------------------------------------------------------------------
(* The rest of the files.                                                  *)

(* Mutation: the file of zkfc is left out. *)
NameNodeLog4jNoZkfc == {"namenode", "formatNameNodes", "formatZookeeper"}

(* The log4j files of BuildConfig, named for the container that reads them. *)
NameNodeLog4j == {"namenode", "zkfc", "formatNameNodes", "formatZookeeper"}
JournalNodeLog4j == {"journalnode"}
DataNodeLog4j == {"datanode", "waitForNameNodes"}

Log4j(i) ==
  CASE i.role = "namenode" -> NameNodeLog4j
    [] i.role = "journalnode" -> JournalNodeLog4j
    [] i.role = "datanode" -> DataNodeLog4j

(* Mutation: no dfs.http.policy. *)
ServedSchemeDefault(i) == Web(FALSE)

(* dfs.http.policy is among the Kerberos properties of hdfs-site.xml only. *)
ServedScheme(i) == Web(i.kerberos)

(* The addresses in hdfs-site.xml: of the NameNodes (makeNameNodeRpc,      *)
(* makeNameNodeHttp) and of the JournalNodes (makeNamenodeSharedEditDir).  *)
DfsNameNodeHttpAddressHa(i) == IF i.tls THEN NameNodePort.https ELSE NameNodePort.http
NameNodeAddresses(i) == {NameNodePort.rpc, DfsNameNodeHttpAddressHa(i)}
SharedEdits == {8485}
Addresses(i) == [namenode |-> NameNodeAddresses(i), journalnode |-> SharedEdits, datanode |-> {}]

(* ssl-server.xml and ssl-client.xml name the stores of the tls volume. *)
Keystore(i) == i.tls

(* The loop over configOverrides looks the name of the file up among the   *)
(* properties given for it; applyComponentOverrides changes nothing.       *)
Overridden(i) == i.override = "filename"

(* hdfs-site.xml of a group names the NameNodes of the group of that name. *)
HasNameNodes(i) == i.role = "namenode" \/ i.peer

(* IsVectorEnable and buildVectorConfig *)
VectorEnabled(i) == i.logging = "on"
VectorBuilds(i) == VectorEnabled(i) => i.aggregator

Files(i) ==
  [log4j |-> Log4j(i), vector |-> VectorEnabled(i), keystore |-> Keystore(i),
   serves |-> ServedScheme(i), overridden |-> Overridden(i), dir |-> DataDir(i),
   addresses |-> Addresses(i), principals |-> CoreSitePrincipals(i),
   placeholders |-> Placeholders(i)]
=============================================================================
