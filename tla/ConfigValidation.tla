--------------------------- MODULE ConfigValidation ---------------------------
(***************************************************************************)
(* The two semantic validators.  pkg/config/validate.go judges the         *)
(* structure the parser and the NETCONF server build; internal/model/      *)
(* validate.go judges the structure the commit engine applies.  NETCONF    *)
(* asks only the first, the engine only the second, so a configuration     *)
(* that the first accepts and the second does not can be confirmed to a    *)
(* client and never be committed.                                          *)
(*                                                                         *)
(* Checks for nil pointers, for empty or blank names, for the length of a  *)
(* text and for the syntax of an as-path are left out: the values of       *)
(* ConfigTree all pass them.                                               *)
(***************************************************************************)
EXTENDS ConfigText

(***************************************************************************)
(* Three forms of check.                                                   *)
(***************************************************************************)
Formats(c, table) == \A s \in Of(c, DOMAIN table) : Value(s) \in table[s[1]]

References(c, table) == \A s \in Of(c, DOMAIN table) : <<table[s[1]], Value(s)>> \in c

Needs(c, node, child) == \A s \in Of(c, {node}) : Within(c, s, {child}) # {}

Has(c, s, node) == Within(c, s, {node}) # {}

Field(c, s, node) == {Value(k) : k \in Within(c, s, {node})}

(***************************************************************************)
(* Ranges and formats.                                                     *)
(***************************************************************************)
HostName == {"name", "other", "arca-router", "100", "set", "ip4"}
ListenAddress == IP \cup {"localhost"}
Octet == {"0", "1", "5", "100"}
UnitNumber == Port
Distance == Octet
Metric == Port
DetectMultiplier == {"0", "5", "100"}
BFDInterval == {"0", "100", "300"}
VRRPGroup == {"1", "5", "100"}
Queue == {"0", "1", "5"}
VLAN == {"0", "1", "5", "100", "300"}
VNI == Number \ {"0"}
RouteDistinguisher == {"65000:1", "65000:2"}
Target == {"target:65000:1"}
Multicast == {"mcast4"}
WeakCommunity == {"public"}
SSHKey == {"two words"}

SameFamily(a, b) == (a \in IP4 \cup CIDR4) <=> (b \in IP4 \cup CIDR4)

(***************************************************************************)
(* pkg/config/validate.go                                                  *)
(***************************************************************************)
\* Validate fills in the host name before it looks at anything.
WithHostName(c) ==
  IF Of(c, {"host-name"}) = {} THEN c \cup {<<"system">>, <<"host-name", "arca-router">>} ELSE c

SystemValidate(c) ==
  /\ Formats(c, Each({"host-name"}, HostName) @@ Each({"service.listen-address"}, ListenAddress)
                @@ Each({"service.port"}, Port))
  /\ <<"service.enabled", "snmp">> \in c =>
       Field(c, <<"service", "snmp">>, "service.community") \ WeakCommunity # {}

validateSecurity(c) == Formats(c, Each({"ssh.port"}, Port) @@ Each({"ssh.listen-address"}, ListenAddress))

validateAddress(c) ==
  \A s \in Of(c, {"address"}) : Value(s) \in (IF s[4] = "inet" THEN CIDR4 ELSE CIDR6)

InterfaceValidate(c) ==
  /\ Formats(c, Each({"interface"}, InterfaceName) @@ Each({"unit"}, UnitNumber)
                @@ Each({"family"}, {"inet", "inet6"}))
  /\ Needs(c, "family", "address")
  /\ validateAddress(c)

\* Mutant of validateConfiguredInterfaceReference: the form of the name is all
\* that is checked.
validateInterfaceNameOnly(c, nodes) == Formats(c, Each(nodes, InterfaceName))

validateConfiguredInterfaceReference(c, nodes) ==
  Formats(c, Each(nodes, InterfaceName)) /\ References(c, Each(nodes, "interface"))

ChassisValidate(c) == Formats(c, Each({"node.address"}, IP) @@ Each({"node.priority"}, Octet))

validateBFDProfileReference(c, nodes) == References(c, Each(nodes, "profile"))

StaticRouteShape(c) ==
  \A r \in Of(c, {"route"}) :
    /\ r[2] \in CIDR
    /\ \E hop \in Field(c, r, "next-hop") :
         /\ hop \in IP /\ SameFamily(hop, r[2])
         /\ \A src \in Field(c, r, "route.bfd-source") : src \in IP /\ SameFamily(src, hop)
    /\ (\E n \in {"route.bfd-profile", "route.bfd-source", "route.bfd-multihop"} : Has(c, r, n))
         => Has(c, r, "route.bfd")
    /\ ~(Has(c, r, "distance") /\ Has(c, r, "route.bfd"))

validateStaticRoute(c) ==
  /\ StaticRouteShape(c)
  /\ Formats(c, Each({"distance"}, Distance))
  /\ validateBFDProfileReference(c, {"route.bfd-profile"})

RoutingOptionsValidate(c) == Formats(c, Each({"router-id"}, IP4)) /\ validateStaticRoute(c)

validateVRFTargetValue(c, nodes) == Formats(c, Each(nodes, Target))

validatePolicyStatementReference(c, nodes) == References(c, Each(nodes, "policy"))

\* VPN import and export need targets, a distinguisher and a local AS.
VPNShape(c) ==
  \A i \in Of(c, {"instance"}) :
    LET imports == Has(c, i, "instance.target") \/ Has(c, i, "instance.target-import")
        exports == Has(c, i, "instance.target") \/ Has(c, i, "instance.target-export")
    IN  /\ Has(c, i, "vrf-import") => imports
        /\ Has(c, i, "vrf-export") => exports
        /\ exports => Has(c, i, "instance.rd")
        /\ imports \/ exports => Of(c, {"autonomous-system"}) # {}

validateRoutingInstance(c) ==
  /\ Formats(c, Each({"instance.type"}, {"vrf"}) @@ Each({"instance.rd"}, RouteDistinguisher))
  /\ validateVRFTargetValue(c, {"instance.target", "instance.target-import", "instance.target-export"})
  /\ validateConfiguredInterfaceReference(c, {"instance.interface"})
  /\ validatePolicyStatementReference(c, {"vrf-import", "vrf-export"})
  /\ VPNShape(c)

validateRoutingInstanceReference(c, nodes) == References(c, Each(nodes, "instance"))

VNIShape(c) ==
  \A v \in Of(c, {"vni"}) :
    /\ \/ /\ Field(c, v, "vni.type") = {"l2"}
          /\ Has(c, v, "bridge-domain") /\ ~Has(c, v, "vni.instance")
       \/ /\ Field(c, v, "vni.type") = {"l3"}
          /\ Has(c, v, "vni.instance") /\ ~Has(c, v, "bridge-domain") /\ ~Has(c, v, "vlan-id")
    /\ ~(Has(c, v, "multicast-group") /\ Has(c, v, "remote-vtep"))

validateEVPNVNI(c) ==
  /\ Formats(c, Each({"vni"}, VNI) @@ Each({"vlan-id"}, VLAN) @@ Each({"vni.rd"}, RouteDistinguisher)
                @@ Each({"source-address"}, IP) @@ Each({"multicast-group"}, Multicast)
                @@ Each({"remote-vtep"}, IP \ Multicast))
  /\ VNIShape(c)
  /\ validateRoutingInstanceReference(c, {"vni.instance"})
  /\ validateVRFTargetValue(c, {"vni.target", "vni.target-import", "vni.target-export"})
  /\ validateConfiguredInterfaceReference(c, {"source-interface"})

validateBFDTimers(c) ==
  /\ Formats(c, Each({"profile.multiplier", "peer.multiplier"}, DetectMultiplier))
  /\ Formats(c, Each({"profile.receive", "profile.transmit", "peer.receive", "peer.transmit"},
                     BFDInterval))

\* Echo mode and multihop exclude each other, through the profile too.
EchoShape(c) ==
  \A p \in Of(c, {"peer"}) :
    Has(c, p, "peer.multihop") =>
      /\ ~Has(c, p, "peer.echo")
      /\ \A name \in Field(c, p, "peer.profile") : ~Has(c, <<"profile", name>>, "profile.echo")

BFDValidate(c) ==
  /\ Formats(c, Each({"peer", "peer.local-address"}, IP))
  /\ validateConfiguredInterfaceReference(c, {"peer.interface"})
  /\ \A s \in Of(c, {"peer.vrf"}) : Value(s) = "default" \/ <<"instance", Value(s)>> \in c
  /\ References(c, Each({"peer.profile"}, "profile"))
  /\ EchoShape(c)
  /\ validateBFDTimers(c)

VRRPValidate(c) ==
  Formats(c, Each({"vrrp"}, VRRPGroup) @@ Each({"vrrp.interface"}, InterfaceName)
             @@ Each({"virtual-address"}, IP) @@ Each({"vrrp.priority"}, Octet))

validateBGPNeighbor(c) ==
  /\ Formats(c, Each({"neighbor", "neighbor.local-address"}, IP))
  /\ Needs(c, "neighbor", "peer-as")
  /\ validateBFDProfileReference(c, {"neighbor.bfd-profile"})

validateBGPGroup(c) ==
  /\ Needs(c, "group", "group.type") /\ Formats(c, Each({"group.type"}, BGPGroupType))
  /\ Needs(c, "group", "neighbor")
  /\ validateBGPNeighbor(c)
  /\ validatePolicyStatementReference(c, {"group.import", "group.export"})

BGPValidate(c) ==
  /\ <<"bgp">> \in c => Of(c, {"autonomous-system"}) # {}
  /\ Needs(c, "bgp", "group")
  /\ validateBGPGroup(c)

validateOSPFInterface(c) ==
  /\ validateConfiguredInterfaceReference(c, {"area.interface"})
  /\ Formats(c, Each({"metric"}, Metric) @@ Each({"priority"}, Octet))
  /\ validateBFDProfileReference(c, {"area.bfd-profile"})

validateOSPFArea(c) ==
  /\ Formats(c, Each({"area"}, IP4 \cup Number))
  /\ Needs(c, "area", "area.interface")
  /\ validateOSPFInterface(c)

\* A router id is required for OSPF and optional for OSPFv3.
OSPFValidate(c) ==
  /\ <<"ospf", "v2">> \in c =>
       Has(c, <<"ospf", "v2">>, "ospf.router-id") \/ Of(c, {"router-id"}) # {}
  /\ Formats(c, Each({"ospf.router-id"}, IP4))
  /\ Needs(c, "ospf", "area")
  /\ validateOSPFArea(c)

ProtocolsValidate(c) ==
  /\ BFDValidate(c) /\ BGPValidate(c) /\ validateEVPNVNI(c) /\ OSPFValidate(c) /\ VRRPValidate(c)
  /\ validateConfiguredInterfaceReference(c, {"mpls.interface", "vrrp.interface"})

validatePolicyStatement(c) ==
  /\ References(c, Each({"from.prefix-list"}, "prefix-list"))
  /\ Formats(c, Each({"from.protocol"}, Protocol) @@ Each({"from.neighbor"}, IP)
                @@ Each({"community"}, Community))

PolicyOptionsValidate(c) == Formats(c, Each({"prefix"}, CIDR)) /\ validatePolicyStatement(c)

ClassOfServiceValidate(c) ==
  /\ Formats(c, Each({"queue"}, Queue))
  /\ References(c, Each({"output-profile"}, "traffic-profile"))

validateClassOfServiceInterfaceReferences(c) ==
  validateConfiguredInterfaceReference(c, {"cos-interface"})

\* Config.Validate, on the configuration with its host name filled in.
ConfigValidate(c) ==
  /\ SystemValidate(WithHostName(c)) /\ ChassisValidate(c) /\ InterfaceValidate(c)
  /\ RoutingOptionsValidate(c) /\ validateRoutingInstance(c) /\ ProtocolsValidate(c)
  /\ PolicyOptionsValidate(c) /\ ClassOfServiceValidate(c)
  /\ validateClassOfServiceInterfaceReferences(c) /\ validateSecurity(c)

(***************************************************************************)
(* internal/model/validate.go                                              *)
(***************************************************************************)
modelValidateSystem(c) ==
  /\ Formats(c, Each({"service.listen-address"}, ListenAddress) @@ Each({"service.port"}, Port))
  /\ <<"service.enabled", "snmp">> \in c =>
       Field(c, <<"service", "snmp">>, "service.community") \ WeakCommunity # {}

modelValidateInterfaces(c) ==
  Formats(c, Each({"interface"}, InterfaceName) @@ Each({"family"}, {"inet", "inet6"})
             @@ Each({"address"}, CIDR))

modelValidateInterfaceReference(c, nodes) ==
  Formats(c, Each(nodes, InterfaceName)) /\ References(c, Each(nodes, "interface"))

modelValidateChassis(c) == Formats(c, Each({"node.address"}, IP) @@ Each({"node.priority"}, Octet))

modelValidateRouting(c) ==
  /\ Formats(c, Each({"router-id"}, IP))
  /\ StaticRouteShape(c)
  /\ References(c, Each({"route.bfd-profile"}, "profile"))

modelValidateRoutingInstances(c) ==
  /\ Formats(c, Each({"instance.type"}, {"vrf"}) @@ Each({"instance.rd"}, RouteDistinguisher)
                @@ Each({"instance.target", "instance.target-import", "instance.target-export"}, Target))
  /\ modelValidateInterfaceReference(c, {"instance.interface"})
  /\ References(c, Each({"vrf-import", "vrf-export"}, "policy"))
  /\ VPNShape(c)

modelValidateEVPNVNI(c) ==
  /\ Formats(c, Each({"vni"}, VNI) @@ Each({"vlan-id"}, VLAN) @@ Each({"vni.rd"}, RouteDistinguisher)
                @@ Each({"vni.target", "vni.target-import", "vni.target-export"}, Target)
                @@ Each({"source-address"}, IP) @@ Each({"multicast-group"}, Multicast)
                @@ Each({"remote-vtep"}, IP \ Multicast))
  /\ VNIShape(c)
  /\ References(c, Each({"vni.instance"}, "instance"))
  /\ modelValidateInterfaceReference(c, {"source-interface"})

modelValidateBFD(c) ==
  /\ Formats(c, Each({"peer", "peer.local-address"}, IP)
                @@ Each({"profile.multiplier", "peer.multiplier"}, DetectMultiplier)
                @@ Each({"profile.receive", "profile.transmit", "peer.receive", "peer.transmit"},
                        BFDInterval))
  /\ modelValidateInterfaceReference(c, {"peer.interface"})
  /\ \A s \in Of(c, {"peer.vrf"}) : Value(s) = "default" \/ <<"instance", Value(s)>> \in c
  /\ References(c, Each({"peer.profile"}, "profile"))
  /\ EchoShape(c)

modelValidateOSPF(c) ==
  /\ Formats(c, Each({"ospf.router-id"}, IP))
  /\ modelValidateInterfaceReference(c, {"area.interface"})
  /\ References(c, Each({"area.bfd-profile"}, "profile"))

modelValidateBGP(c) ==
  /\ <<"bgp">> \in c => Of(c, {"autonomous-system"}) # {}
  /\ Formats(c, Each({"group.type"}, BGPGroupType) @@ Each({"neighbor"}, IP))
  /\ Needs(c, "neighbor", "peer-as")
  /\ References(c, Each({"neighbor.bfd-profile"}, "profile")
                   @@ Each({"group.import", "group.export"}, "policy"))

modelValidateProtocols(c) ==
  /\ modelValidateBFD(c) /\ modelValidateBGP(c) /\ modelValidateEVPNVNI(c) /\ modelValidateOSPF(c)
  /\ modelValidateInterfaceReference(c, {"mpls.interface", "vrrp.interface"})
  /\ Formats(c, Each({"vrrp"}, VRRPGroup) @@ Each({"virtual-address"}, IP)
                @@ Each({"vrrp.priority"}, Octet))

modelValidatePolicy(c) ==
  /\ Formats(c, Each({"prefix"}, CIDR) @@ Each({"from.protocol"}, Protocol)
                @@ Each({"from.neighbor"}, IP) @@ Each({"community"}, Community))
  /\ References(c, Each({"from.prefix-list"}, "prefix-list"))

modelValidateClassOfService(c) ==
  /\ Formats(c, Each({"queue"}, Queue))
  /\ modelValidateInterfaceReference(c, {"cos-interface"})
  /\ References(c, Each({"output-profile"}, "traffic-profile"))

modelValidateSecurityUsers(c) ==
  /\ Formats(c, Each({"role"}, Role) @@ Each({"password"}, {"hash"}) @@ Each({"ssh-key"}, SSHKey))
  /\ \A u \in Of(c, {"user"}) : Has(c, u, "password") \/ Has(c, u, "ssh-key")

modelValidateSecurity(c) ==
  /\ modelValidateSecurityUsers(c)
  /\ Formats(c, Each({"per-ip", "per-user"}, RateLimit) @@ Each({"ssh.port"}, Port)
                @@ Each({"ssh.listen-address"}, ListenAddress))

\* RouterConfig.Validate
ModelValidate(c) ==
  /\ modelValidateSystem(c) /\ modelValidateInterfaces(c) /\ modelValidateChassis(c)
  /\ modelValidateRouting(c) /\ modelValidateRoutingInstances(c) /\ modelValidateProtocols(c)
  /\ modelValidatePolicy(c) /\ modelValidateClassOfService(c) /\ modelValidateSecurity(c)
=============================================================================
