-------------------------------- MODULE VppPlans --------------------------------
(***************************************************************************)
(* What the VPP plugin derives from a configuration before it talks to     *)
(* VPP: the table of every routing instance, the QoS profile of every      *)
(* interface, the VXLAN tunnel of every VNI, and its dry run               *)
(* (internal/southbound/vpp/plugin.go and evpn.go,                         *)
(* internal/model/routing_instance_table.go).                              *)
(***************************************************************************)
EXTENDS ConfigModel, ConfigValidation

CONSTANT Hardware  \* interfaces that the hardware configuration lists

(***************************************************************************)
(* Tables of routing instances.  A distinguisher gives the number; without *)
(* one it is a hash of the name, moved up past the numbers already taken   *)
(* in the order of the names.                                              *)
(***************************************************************************)
InstanceOrder == <<"blue", "other", "red">>

DistinguisherTable == ("65000:1" :> 1) @@ ("65000:2" :> 2)

NameTable == [blue |-> 7, other |-> 7, red |-> 7]

RoutingInstanceTableID(c, i) ==
  LET rd == Field(c, <<"instance", i>>, "instance.rd")
  IN  IF rd = {} THEN NameTable[i] ELSE DistinguisherTable[CHOOSE r \in rd : TRUE]

RoutingInstanceTablePlans(c) ==
  LET plans[k \in 0 .. Len(InstanceOrder)] ==
        IF k = 0 THEN <<>>
        ELSE LET i == InstanceOrder[k]
                 used == {plans[k - 1][j] : j \in DOMAIN plans[k - 1]}
                 free == CHOOSE t \in RoutingInstanceTableID(c, i) .. RoutingInstanceTableID(c, i) + k :
                           /\ t \notin used
                           /\ \A u \in RoutingInstanceTableID(c, i) .. t - 1 : u \in used
             IN  IF <<"instance", i>> \in c THEN (i :> free) @@ plans[k - 1] ELSE plans[k - 1]
  IN  plans[Len(InstanceOrder)]

\* A number that a distinguisher gives is never moved.
HasTablePlans(c) ==
  /\ Formats(c, Each({"instance.type"}, {"vrf"}))
  /\ \A i \in DOMAIN RoutingInstanceTablePlans(c) :
       Has(c, <<"instance", i>>, "instance.rd") =>
         RoutingInstanceTablePlans(c)[i] = RoutingInstanceTableID(c, i)

\* The table an interface is bound to; 0 is the default table.
routingInterfaceBindings(c) ==
  [n \in InterfaceName |->
     LET of == {s \in Of(c, {"instance.interface"}) : Value(s) = n}
     IN  IF of = {} THEN 0 ELSE RoutingInstanceTablePlans(c)[(CHOOSE s \in of : TRUE)[2]]]

(***************************************************************************)
(* Class of service.  A profile carries the forwarding classes too.        *)
(***************************************************************************)
classOfServiceQoSProfile(c, profile) ==
  Below(c, <<"traffic-profile", profile>>) \cup Of(c, {"queue"})

HasBindings(c) == Formats(c, Each({"queue"}, Queue)) /\ References(c, Each({"output-profile"}, "traffic-profile"))

classOfServiceBindingMap(c) ==
  [n \in {s[2] : s \in Of(c, {"output-profile"})} |->
     classOfServiceQoSProfile(c, CHOOSE p \in Field(c, <<"cos-interface", n>>, "output-profile") : TRUE)]

(***************************************************************************)
(* VXLAN tunnels.                                                          *)
(***************************************************************************)
mplsInterfaceSet(c) == {Value(s) : s \in Of(c, {"mpls.interface"})}

configuredInterfaceAddresses(c, n) == {Value(s) : s \in collectAddresses(c, n)}

evpnDestination(c, v) == Field(c, v, "multicast-group") \cup Field(c, v, "remote-vtep")

\* The configured address, or the addresses of the source interface that have
\* the destination's family.
evpnSourceAddress(c, v) ==
  IF Has(c, v, "source-address") THEN Field(c, v, "source-address")
  ELSE {a \in {HostAddress[n] : n \in UNION {configuredInterfaceAddresses(c, i) :
                                               i \in Field(c, v, "source-interface")}} :
          \A d \in evpnDestination(c, v) : SameFamily(a, d)}

\* What evpnVXLANPlanMap refuses.
HasTunnelPlans(c) ==
  /\ HasTablePlans(c)
  /\ VNIShape(c)
  /\ \A v \in Of(c, {"vni"}) :
       /\ Cardinality(evpnDestination(c, v)) = 1
       /\ \E i \in Field(c, v, "source-interface") : <<"interface", i>> \in c
       /\ \E a \in evpnSourceAddress(c, v) : \A d \in evpnDestination(c, v) : SameFamily(a, d)

\* A plan holds the request for the tunnel; a multicast tunnel is tied to the
\* index of its source interface.
evpnVXLANPlan(c, v, ifaceIndex) ==
  LET source == CHOOSE i \in Field(c, v, "source-interface") : TRUE
      l3 == Field(c, v, "vni.type") = {"l3"}
      table == IF l3 THEN RoutingInstanceTablePlans(c)[CHOOSE i \in Field(c, v, "vni.instance") : TRUE]
               ELSE 0
  IN  [vni |-> Value(v),
       instance |-> Field(c, v, "vni.instance"),
       source |-> source,
       bridge |-> Field(c, v, "bridge-domain"),
       request |-> [vni |-> Value(v),
                    src |-> CHOOSE a \in evpnSourceAddress(c, v) : TRUE,
                    dst |-> CHOOSE d \in evpnDestination(c, v) : TRUE,
                    index |-> IF Has(c, v, "multicast-group") THEN ifaceIndex[source] ELSE 0,
                    table |-> table,
                    l3 |-> l3]]

evpnVXLANPlanMap(c, ifaceIndex) == {evpnVXLANPlan(c, v, ifaceIndex) : v \in Of(c, {"vni"})}

(***************************************************************************)
(* ValidateChanges.  Only what the difference names is looked at.          *)
(***************************************************************************)
validateEVPNChanges(diff, new) == "EVPNChanged" \in diff => HasTunnelPlans(new)

hasHardwareConfig(name) == name \in Hardware

vppValidateChanges(diff, old, new) ==
  /\ validateEVPNChanges(diff, new)
  /\ \A name \in interfaceNames(new) \ interfaceNames(old) : hasHardwareConfig(name)
  /\ "RoutingInstancesChanged" \in diff => HasTablePlans(new)
  /\ "ClassOfServiceChanged" \in diff => HasBindings(new)
=============================================================================
