------------------------------ MODULE NetconfXML ------------------------------
(***************************************************************************)
(* The XML form of a configuration (pkg/netconf/xml_convert.go): what      *)
(* get-config writes, what edit-config and copy-config read, how an edit   *)
(* is applied to the configuration it finds, and the limit on the number   *)
(* of elements.                                                            *)
(*                                                                         *)
(* An XML document is the set of statements its elements spell out.  The   *)
(* namespaces, the attributes and the text of an element are left out.     *)
(***************************************************************************)
EXTENDS ConfigValidation

CONSTANT MaxXMLElements  \* limit on the number of elements

(***************************************************************************)
(* Writing: the nodes each function writes elements for.                   *)
(***************************************************************************)
writeSystemXML == {"system", "host-name"}
writeServiceXML == {"service", "service.enabled", "service.listen-address", "service.port",
                    "service.community"}
writeChassisXML == DOMAIN ChassisTree
writeInterfacesXML == DOMAIN InterfaceTree
writeRoutingOptionsXML == DOMAIN RoutingTree
writeRoutingInstancesXML == DOMAIN InstanceTree
\* Mutant of writeBFDXML: one element is forgotten.
writeBFDXMLWithoutShutdown == DOMAIN BFDTree \ {"peer.shutdown"}

writeBFDXML == DOMAIN BFDTree
writeBGPXML == DOMAIN BGPTree
writeEVPNXML == DOMAIN EVPNTree
writeOSPFXML == DOMAIN OSPFTree
writeMPLSXML == {"mpls.interface"}
writeVRRPXML == DOMAIN LinkTree \ {"mpls.interface"}
writeProtocolsXML == {"protocols"} \cup writeBFDXML \cup writeBGPXML \cup writeEVPNXML
                     \cup writeOSPFXML \cup writeMPLSXML \cup writeVRRPXML
writeClassOfServiceXML == DOMAIN CoSTree
writeSecurityXML == {"security", "ssh", "ssh.port", "rate-limit", "per-ip", "per-user"}

xmlWrites == writeSystemXML \cup writeServiceXML \cup writeChassisXML \cup writeInterfacesXML
             \cup writeRoutingOptionsXML \cup writeRoutingInstancesXML \cup writeProtocolsXML
             \cup writeClassOfServiceXML \cup writeSecurityXML

\* A service without parameters, an ssh block without a port and a security
\* section with neither port nor rate limit write nothing.
Silent(c, s) ==
  \/ s[1] = "service" /\ Below(c, s) = {s}
  \/ s[1] = "ssh" /\ Of(c, {"ssh.port"}) = {}
  \/ s[1] = "security" /\ Of(c, {"ssh.port", "rate-limit"}) = {}

ConfigToXML(c) == WithBFD({s \in Of(c, xmlWrites) : ~Silent(c, s)})

(***************************************************************************)
(* Reading.  An element outside the allowlist is an error; the rest is     *)
(* what the decoder assigns, section by section.                           *)
(***************************************************************************)
NotRead == {<<"unknown element">>}

allowedConfigElementPaths ==
  DOMAIN SystemTree \cup DOMAIN ChassisTree \cup DOMAIN InterfaceTree \cup DOMAIN RoutingTree
  \cup DOMAIN InstanceTree \cup {"protocols"} \cup DOMAIN BFDTree \cup DOMAIN BGPTree
  \cup DOMAIN EVPNTree \cup DOMAIN OSPFTree \cup DOMAIN LinkTree \cup DOMAIN CoSTree
  \cup {"security", "ssh", "ssh.port", "rate-limit", "per-ip", "per-user"}

validateConfigXMLAllowlist(x) == \A s \in x : s[1] \in allowedConfigElementPaths

systemFromXML ==
  {"system", "host-name", "service", "service.enabled", "service.listen-address", "service.port",
   "service.community"}

chassisFromXML == {"chassis", "cluster.enabled", "node", "node.address", "node.priority", "endpoint"}

interfacesFromXML == {"interface", "description", "unit", "family", "address"}

routingFromXML ==
  {"routing-options", "autonomous-system", "router-id", "route", "next-hop", "distance", "route.bfd",
   "route.bfd-profile", "route.bfd-source", "route.bfd-multihop"}

instancesFromXML ==
  {"instance", "instance.type", "instance.rd", "instance.target", "instance.target-import",
   "instance.target-export", "vrf-import", "vrf-export", "instance.interface"}

protocolsFromXML ==
  {"protocols", "bgp", "group", "group.type", "group.import", "group.export", "neighbor", "peer-as",
   "neighbor.description", "neighbor.local-address", "neighbor.bfd", "neighbor.bfd-profile",
   "mpls.interface", "vrrp", "vrrp.interface", "virtual-address", "vrrp.priority", "preempt"}

bfdConfigFromXML ==
  {"profile", "profile.multiplier", "profile.receive", "profile.transmit", "profile.echo",
   "profile.passive", "peer", "peer.local-address", "peer.interface", "peer.vrf", "peer.multihop",
   "peer.profile", "peer.multiplier", "peer.receive", "peer.transmit", "peer.echo", "peer.passive",
   "peer.shutdown"}

evpnConfigFromXML ==
  {"vni", "vni.type", "bridge-domain", "vlan-id", "vni.instance", "vni.rd", "vni.target",
   "vni.target-import", "vni.target-export", "source-interface", "source-address",
   "multicast-group", "remote-vtep"}

ospfConfigFromXML ==
  {"ospf", "ospf.router-id", "area", "area-id", "area.interface", "passive", "metric", "priority",
   "area.bfd", "area.bfd-profile"}

classOfServiceFromXML ==
  {"class-of-service", "forwarding-class", "queue", "traffic-profile", "shaping-rate",
   "scheduler-map", "cos-interface", "output-profile"}

securityFromXML == {"security", "ssh", "ssh.port", "rate-limit", "per-ip", "per-user"}

decodedElements ==
  systemFromXML \cup chassisFromXML \cup interfacesFromXML \cup routingFromXML \cup instancesFromXML
  \cup protocolsFromXML \cup bfdConfigFromXML \cup evpnConfigFromXML \cup ospfConfigFromXML
  \cup classOfServiceFromXML \cup securityFromXML

decodeConfigXML(x) ==
  IF validateConfigXMLAllowlist(x)
  THEN WithQueue(WithBFD({s \in Of(x, decodedElements) : ~(s[1] \in Numeric \ Explicit /\ Value(s) = "0")}))
  ELSE NotRead

(***************************************************************************)
(* Applying an edit.  Merge works leaf by leaf in some places and replaces *)
(* whole objects in others; static routes are appended.                    *)
(***************************************************************************)
MergedWhole == {"chassis", "service", "instance", "profile", "peer", "group", "vni", "area", "vrrp",
                "forwarding-class", "traffic-profile", "cos-interface", "ssh", "rate-limit"}

MergedByValue == {"host-name", "description", "router-id", "autonomous-system", "ospf.router-id"}

Ordinal == <<"1st", "2nd", "3rd">>

\* Routes of the edit are numbered after the routes to the same prefix.
AppendRoutes(c, e) ==
  LET count(p) == Cardinality({r \in Of(c, {"route"}) : r[2] = p})
      place(o) == CHOOSE i \in DOMAIN Ordinal : Ordinal[i] = o
  IN  {IF "route" \in Path[s[1]] THEN [s EXCEPT ![3] = Ordinal[count(s[2]) + place(s[3])]] ELSE s :
         s \in e}

Overwritten(c, e) ==
  {s \in Of(c, MergedByValue) :
     \E k \in Of(e, {s[1]}) : Up(k, Parent[k[1]]) = Up(s, Parent[s[1]])}

mergeConfigs(c, e) ==
  ((c \ UNION {Below(c, u) : u \in Of(e, MergedWhole)}) \ Overwritten(c, e)) \cup AppendRoutes(c, e)

\* The edit's structure always has an interface map, so that section is
\* always replaced.
replaceConfigs(c, e) ==
  LET sections == {Section[s[1]] : s \in e} \cup {"interface"}
  IN  {s \in c : Section[s[1]] \notin sections} \cup e

ApplyConfigEdit(c, e, defaultOp) ==
  CASE defaultOp = "merge" -> mergeConfigs(c, e)
    [] defaultOp = "replace" -> replaceConfigs(c, e)
    [] OTHER -> c

(***************************************************************************)
(* The number of elements.                                                 *)
(***************************************************************************)
\* Elements that group the entries of a list.
ListElement ==
  Each({"service"}, {"services"}) @@ Each({"endpoint"}, {"sync", "etcd"})
  @@ Each({"interface"}, {"interfaces"}) @@ Each({"route"}, {"static-routes"})
  @@ Each({"instance"}, {"routing-instances"}) @@ Each({"profile", "peer"}, {"bfd"})
  @@ Each({"vni"}, {"evpn"}) @@ Each({"mpls.interface"}, {"mpls"}) @@ Each({"vrrp"}, {"vrrp"})
  @@ Each({"forwarding-class"}, {"forwarding-classes"})
  @@ Each({"traffic-profile"}, {"traffic-control-profiles"}) @@ Each({"cos-interface"}, {"cos-interfaces"})

listElements(c) == UNION {ListElement[s[1]] : s \in Of(c, DOMAIN ListElement)}

\* Entries bring the element of their key with them, chassis its cluster, and
\* ssh its netconf; an area brings its area-id, even an empty one.
ElementsPerNode ==
  [n \in xmlWrites |->
     CASE n = "area" -> 3
       [] n = "area-id" -> 0
       [] n \in {"service", "ospf"} -> 1
       [] n \in {"chassis", "ssh"} -> 2
       [] n = "route" -> 2
       [] n \in Inner \ Containers -> 2
       [] OTHER -> 1]

\* The sum of the weights, at most 3 each, of these statements.
Weight(c, weight) ==
  LET heavier(w) == Cardinality({s \in c : weight[s[1]] > w})
  IN  heavier(0) + heavier(1) + heavier(2)

ElementsWritten(x) == 1 + Weight(x, ElementsPerNode) + Cardinality(listElements(x))

\* What countConfigElements adds per node, section by section.
countSystem == Each({"system"}, 2) @@ Each({"host-name"}, 0)

serviceElementCount == Each(DOMAIN SystemTree \ {"system", "host-name"}, 1)

countChassis == Each({"chassis", "node"}, 2)
                @@ Each({"cluster.enabled", "endpoint", "node.address", "node.priority"}, 1)

countInterfaces == Each({"interface", "unit", "family"}, 2) @@ Each({"description", "address"}, 1)

countRouting == Each({"route"}, 3) @@ Each({"next-hop"}, 0)
                @@ Each(DOMAIN RoutingTree \ {"route", "next-hop"}, 1)

countInstances == Each({"instance"}, 2) @@ Each(DOMAIN InstanceTree \ {"instance"}, 1)

countBFD == Each({"profile", "peer"}, 2) @@ Each(DOMAIN BFDTree \ {"profile", "peer"}, 1)

\* Mutant of countBGP: the key of a neighbor is not counted.
countBGPWithoutPeer ==
  Each({"group"}, 2) @@ Each({"neighbor"}, 2) @@ Each({"peer-as"}, 0)
  @@ Each(DOMAIN BGPTree \ {"group", "neighbor", "peer-as"}, 1)

countBGP == Each({"group"}, 2) @@ Each({"neighbor"}, 3) @@ Each({"peer-as"}, 0)
            @@ Each(DOMAIN BGPTree \ {"group", "neighbor", "peer-as"}, 1)

countEVPN == Each({"vni"}, 2) @@ Each(DOMAIN EVPNTree \ {"vni"}, 1)

countOSPF == Each({"area"}, 3) @@ Each({"area-id"}, 0) @@ Each({"area.interface"}, 2)
             @@ Each(DOMAIN OSPFTree \ {"area", "area-id", "area.interface"}, 1)

countMPLSAndVRRP == Each({"vrrp"}, 2) @@ Each(DOMAIN LinkTree \ {"vrrp"}, 1)

countClassOfService ==
  Each({"forwarding-class"}, 3) @@ Each({"traffic-profile", "cos-interface"}, 2) @@ Each({"queue"}, 0)
  @@ Each(DOMAIN CoSTree \ {"forwarding-class", "traffic-profile", "cos-interface", "queue"}, 1)

countSecurity == Each({"security", "rate-limit", "per-ip", "per-user"}, 1) @@ Each({"ssh.port"}, 3)
                 @@ Each({"ssh"}, 0)

countedPerNode ==
  countSystem @@ serviceElementCount @@ countChassis @@ countInterfaces @@ countRouting
  @@ countInstances @@ Each({"protocols"}, 1) @@ countBFD @@ countBGP @@ countEVPN @@ countOSPF
  @@ countMPLSAndVRRP @@ countClassOfService @@ countSecurity

countConfigElements(c) ==
  LET counted == {s \in Of(c, DOMAIN countedPerNode) : ~Silent(c, s)}
  IN  1 + Weight(counted, countedPerNode) + Cardinality(listElements(c) \cup {"interfaces"})

ValidateConfig(c) == countConfigElements(c) <= MaxXMLElements

\* A document that is too large is refused before it is merged.
XMLToConfig(x) ==
  LET c == decodeConfigXML(x)
  IN  IF c = NotRead \/ ~ValidateConfig(c) THEN NotRead ELSE c
=============================================================================
