------------------------------ MODULE ConfigModel ------------------------------
(***************************************************************************)
(* The commit engine's structure (internal/model) and the difference of    *)
(* two configurations (internal/engine/diff.go).  model.RouterConfig has   *)
(* the same tree as config.Config, but for the area-id of an OSPF area, so *)
(* a configuration is a set of statements here too, and a conversion is    *)
(* the set of nodes it carries.                                            *)
(***************************************************************************)
EXTENDS ConfigText

(***************************************************************************)
(* FromLegacyConfig: the parsed text becomes the engine's structure.  Each *)
(* set lists the fields that are assigned.                                 *)
(***************************************************************************)
systemFromLegacy ==
  {"system", "host-name", "service", "service.enabled", "service.listen-address", "service.port",
   "service.community"}

chassisFromLegacy ==
  {"chassis", "cluster.enabled", "node", "node.address", "node.priority", "endpoint"}

interfacesFromLegacy ==
  {"interface", "description", "unit", "family", "address"}

routingFromLegacy ==
  {"routing-options", "autonomous-system", "router-id", "route", "next-hop", "distance", "route.bfd",
   "route.bfd-profile", "route.bfd-source", "route.bfd-multihop"}

protocolsFromLegacy ==
  {"protocols", "bgp", "group", "group.type", "group.import", "group.export", "neighbor", "peer-as",
   "neighbor.description", "neighbor.local-address", "neighbor.bfd", "neighbor.bfd-profile",
   "mpls.interface", "vrrp", "vrrp.interface", "virtual-address", "vrrp.priority", "preempt"}

instancesFromLegacy ==
  {"instance", "instance.type", "instance.rd", "instance.target", "instance.target-import",
   "instance.target-export", "vrf-import", "vrf-export", "instance.interface"}

policyFromLegacy ==
  {"policy-options", "prefix-list", "prefix", "policy", "term", "from.prefix-list", "from.protocol",
   "from.neighbor", "as-path", "accept", "local-preference", "community"}

securityFromLegacy ==
  {"security", "ssh", "ssh.enabled", "ssh.listen-address", "ssh.port", "user", "password", "role",
   "ssh-key", "rate-limit", "per-ip", "per-user"}

classOfServiceFromLegacy ==
  {"class-of-service", "forwarding-class", "queue", "traffic-profile", "shaping-rate",
   "scheduler-map", "cos-interface", "output-profile"}

ospfFromLegacy ==
  {"ospf", "ospf.router-id", "area", "area.interface", "passive", "metric", "priority", "area.bfd",
   "area.bfd-profile"}

bfdFromLegacy ==
  {"profile", "profile.multiplier", "profile.receive", "profile.transmit", "profile.echo",
   "profile.passive", "peer", "peer.local-address", "peer.interface", "peer.vrf", "peer.multihop",
   "peer.profile", "peer.multiplier", "peer.receive", "peer.transmit", "peer.echo", "peer.passive",
   "peer.shutdown"}

evpnFromLegacy ==
  {"vni", "vni.type", "bridge-domain", "vlan-id", "vni.instance", "vni.rd", "vni.target",
   "vni.target-import", "vni.target-export", "source-interface", "source-address",
   "multicast-group", "remote-vtep"}

FromLegacyConfig(c) ==
  Of(c, systemFromLegacy \cup chassisFromLegacy \cup interfacesFromLegacy \cup routingFromLegacy
          \cup protocolsFromLegacy \cup instancesFromLegacy \cup policyFromLegacy
          \cup securityFromLegacy \cup classOfServiceFromLegacy \cup ospfFromLegacy
          \cup bfdFromLegacy \cup evpnFromLegacy)

(***************************************************************************)
(* ToLegacyConfig: the running configuration becomes text again, and the   *)
(* input of the FRR generator.  The key of an OSPF area becomes its        *)
(* area-id.                                                                *)
(***************************************************************************)
systemToLegacy ==
  {"system", "host-name", "service", "service.enabled", "service.listen-address", "service.port",
   "service.community"}

chassisToLegacy ==
  {"chassis", "cluster.enabled", "node", "node.address", "node.priority", "endpoint"}

interfacesToLegacy ==
  {"interface", "description", "unit", "family", "address"}

routingToLegacy ==
  {"routing-options", "autonomous-system", "router-id", "route", "next-hop", "distance", "route.bfd",
   "route.bfd-profile", "route.bfd-source", "route.bfd-multihop"}

protocolsToLegacy ==
  {"protocols", "bgp", "group", "group.type", "group.import", "group.export", "neighbor", "peer-as",
   "neighbor.description", "neighbor.local-address", "neighbor.bfd", "neighbor.bfd-profile",
   "mpls.interface", "vrrp", "vrrp.interface", "virtual-address", "vrrp.priority", "preempt"}

instancesToLegacy ==
  {"instance", "instance.type", "instance.rd", "instance.target", "instance.target-import",
   "instance.target-export", "vrf-import", "vrf-export", "instance.interface"}

policyToLegacy ==
  {"policy-options", "prefix-list", "prefix", "policy", "term", "from.prefix-list", "from.protocol",
   "from.neighbor", "as-path", "accept", "local-preference", "community"}

securityToLegacy ==
  {"security", "ssh", "ssh.enabled", "ssh.listen-address", "ssh.port", "user", "password", "role",
   "ssh-key", "rate-limit", "per-ip", "per-user"}

classOfServiceToLegacy ==
  {"class-of-service", "forwarding-class", "queue", "traffic-profile", "shaping-rate",
   "scheduler-map", "cos-interface", "output-profile"}

ospfToLegacy ==
  {"ospf", "ospf.router-id", "area", "area.interface", "passive", "metric", "priority", "area.bfd",
   "area.bfd-profile"}

\* Mutant of bfdToLegacy: a field is forgotten.
bfdToLegacyWithoutShutdown ==
  {"profile", "profile.multiplier", "profile.receive", "profile.transmit", "profile.echo",
   "profile.passive", "peer", "peer.local-address", "peer.interface", "peer.vrf", "peer.multihop",
   "peer.profile", "peer.multiplier", "peer.receive", "peer.transmit", "peer.echo", "peer.passive"}

bfdToLegacy ==
  {"profile", "profile.multiplier", "profile.receive", "profile.transmit", "profile.echo",
   "profile.passive", "peer", "peer.local-address", "peer.interface", "peer.vrf", "peer.multihop",
   "peer.profile", "peer.multiplier", "peer.receive", "peer.transmit", "peer.echo", "peer.passive",
   "peer.shutdown"}

evpnToLegacy ==
  {"vni", "vni.type", "bridge-domain", "vlan-id", "vni.instance", "vni.rd", "vni.target",
   "vni.target-import", "vni.target-export", "source-interface", "source-address",
   "multicast-group", "remote-vtep"}

ToLegacyConfig(c) ==
  WithAreaID(
    Of(c, systemToLegacy \cup chassisToLegacy \cup interfacesToLegacy \cup routingToLegacy
            \cup protocolsToLegacy \cup instancesToLegacy \cup policyToLegacy \cup securityToLegacy
            \cup classOfServiceToLegacy \cup ospfToLegacy \cup bfdToLegacy \cup evpnToLegacy))

(***************************************************************************)
(* Clone.  The engine publishes and hands out clones only.  A Go struct    *)
(* assignment (clone := *c) copies every field, so the sets are those of   *)
(* the tree where the code copies the struct and lists where it names the  *)
(* fields.                                                                 *)
(***************************************************************************)
cloneSystem == DOMAIN SystemTree

cloneChassis == DOMAIN ChassisTree

cloneInterfaces == {"interface", "description", "unit", "family", "address"}

cloneProtocols == {"protocols"}

cloneBFD == DOMAIN BFDTree

cloneEVPN == DOMAIN EVPNTree

cloneMPLSAndVRRP == DOMAIN LinkTree

cloneBGP ==
  {"bgp", "group", "group.type", "group.import", "group.export", "neighbor", "peer-as",
   "neighbor.description", "neighbor.local-address", "neighbor.bfd", "neighbor.bfd-profile"}

cloneOSPF == DOMAIN OSPFTree \ {"area-id"}

cloneRouting ==
  {"routing-options", "autonomous-system", "router-id"} \cup {n \in Node : "route" \in Path[n]}

cloneRoutingInstances == DOMAIN InstanceTree

clonePolicy ==
  {"policy-options", "prefix-list", "prefix", "policy", "term", "from.prefix-list", "from.protocol",
   "from.neighbor", "as-path", "accept", "local-preference", "community"}

cloneSecurity == DOMAIN SecurityTree

cloneClassOfService == DOMAIN CoSTree

Clone(c) ==
  Of(c, cloneSystem \cup cloneChassis \cup cloneInterfaces \cup cloneProtocols \cup cloneBFD
        \cup cloneEVPN \cup cloneMPLSAndVRRP \cup cloneBGP \cup cloneOSPF \cup cloneRouting
        \cup cloneRoutingInstances \cup clonePolicy \cup cloneSecurity \cup cloneClassOfService)

(***************************************************************************)
(* The difference: the set of its flags and non-empty lists.  Interfaces   *)
(* are compared by name, description and address; the other parts field by *)
(* field or with reflect.DeepEqual, which compares every field.            *)
(***************************************************************************)
Flag(name, set) == IF set THEN {name} ELSE {}

Differ(old, new, nodes) == Of(old, nodes) # Of(new, nodes)

interfaceNames(m) == {s[2] : s \in Of(m, {"interface"})}

collectAddresses(m, i) == {s \in Of(m, {"address"}) : s[2] = i}

interfaceDescription(m, i) == {s \in Of(m, {"description"}) : s[2] = i}

computeInterfaceDiff(old, new) ==
  LET both == interfaceNames(old) \cap interfaceNames(new)
  IN  Flag("InterfacesRemoved", interfaceNames(old) \ interfaceNames(new) # {})
      \cup Flag("InterfacesAdded", interfaceNames(new) \ interfaceNames(old) # {})
      \cup Flag("DescriptionChanged",
                \E i \in both : interfaceDescription(old, i) # interfaceDescription(new, i))
      \cup Flag("AddressesChanged",
                \E i \in both : collectAddresses(old, i) # collectAddresses(new, i))

bgpCompared == {"bgp", "group", "group.type", "group.import", "group.export", "neighbor", "peer-as",
                "neighbor.description", "neighbor.local-address", "neighbor.bfd",
                "neighbor.bfd-profile"}

\* Mutant of ospfCompared: the fields the comparison lists leave out one.
ospfComparedWithoutPriority ==
  {"ospf", "ospf.router-id", "area", "area.interface", "passive", "metric", "area.bfd",
   "area.bfd-profile"}

ospfCompared == {"ospf", "ospf.router-id", "area", "area.interface", "passive", "metric", "area.bfd",
                 "area.bfd-profile", "priority"}

ospfEqual(old, new, version) ==
  {s \in Of(old, ospfCompared) : s[2] = version} = {s \in Of(new, ospfCompared) : s[2] = version}

computeProtocolDiff(old, new) ==
  Flag("BFDChanged", Differ(old, new, DOMAIN BFDTree))
  \cup Flag("BGPChanged", Differ(old, new, bgpCompared))
  \cup Flag("EVPNChanged", Differ(old, new, DOMAIN EVPNTree))
  \cup Flag("OSPFChanged", ~ospfEqual(old, new, "v2"))
  \cup Flag("OSPF3Changed", ~ospfEqual(old, new, "v3"))
  \cup Flag("MPLSChanged", Differ(old, new, {"mpls.interface"}))
  \cup Flag("VRRPChanged", Differ(old, new, DOMAIN LinkTree \ {"mpls.interface"}))

routingCompared == {"routing-options", "autonomous-system", "router-id"}

staticRoutesCompared == {"route", "next-hop", "distance", "route.bfd", "route.bfd-profile",
                         "route.bfd-source", "route.bfd-multihop"}

computeRoutingDiff(old, new) ==
  Flag("RoutingChanged", Differ(old, new, routingCompared))
  \cup Flag("StaticRoutesChanged", Differ(old, new, staticRoutesCompared))
  \cup Flag("RoutingInstancesChanged", Differ(old, new, DOMAIN InstanceTree))

computePolicyDiff(old, new) == Flag("PolicyChanged", Differ(old, new, DOMAIN PolicyTree))

computeAdvancedDiff(old, new) ==
  Flag("ChassisChanged", Differ(old, new, DOMAIN ChassisTree))
  \cup Flag("ClassOfServiceChanged", Differ(old, new, DOMAIN CoSTree))

computeSystemDiff(old, new) == Flag("SystemChanged", Differ(old, new, DOMAIN SystemTree))

computeSecurityDiff(old, new) == Flag("SecurityChanged", Differ(old, new, DOMAIN SecurityTree))

ComputeDiff(old, new) ==
  computeInterfaceDiff(old, new) \cup computeProtocolDiff(old, new) \cup computeRoutingDiff(old, new)
  \cup computePolicyDiff(old, new) \cup computeAdvancedDiff(old, new)
  \cup computeSystemDiff(old, new) \cup computeSecurityDiff(old, new)

HasChanges(diff) == diff # {}

(***************************************************************************)
(* FromLegacyConfig makes an empty list, Clone makes a nil one, and        *)
(* reflect.DeepEqual tells them apart: compared with a clone, a converted  *)
(* structure that was not cloned differs wherever such a list is empty.    *)
(***************************************************************************)
Lists ==
  Each({"instance"}, {"instance.target-import", "instance.target-export", "vrf-import", "vrf-export",
                      "instance.interface"})
  @@ Each({"vni"}, {"vni.target-import", "vni.target-export"})

From == {"from.prefix-list", "from.protocol", "from.neighbor", "as-path"}

HasEmptyList(c, entry) ==
  \E s \in Of(c, {entry}) : \E n \in Lists[entry] : Within(c, s, {n}) = {}

HasEmptyFrom(c) ==
  \E t \in Of(c, {"term"}) : /\ Within(c, t, From) # {}
                            /\ Within(c, t, {"from.prefix-list"}) = {}

ComputeDiffOfConverted(old, new) ==
  ComputeDiff(old, new)
  \cup Flag("EVPNChanged", HasEmptyList(new, "vni"))
  \cup Flag("RoutingInstancesChanged", HasEmptyList(new, "instance"))
  \cup Flag("PolicyChanged", HasEmptyFrom(new))
=============================================================================
