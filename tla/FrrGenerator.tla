------------------------------ MODULE FrrGenerator ------------------------------
(***************************************************************************)
(* What the FRR plugin makes of a configuration: the lines of the FRR      *)
(* configuration file (pkg/frr/generator*.go), the operations of the       *)
(* transactional backend (pkg/frr/transactional.go) and the choice between *)
(* the two (internal/southbound/frr/plugin.go).                            *)
(*                                                                         *)
(* A line of the file is a sequence: the command and its arguments.  The   *)
(* order of the lines, the sequence numbers of list entries, the constant  *)
(* lines (log, line vty) and checks that the validators have already made  *)
(* of every value are left out.  ConvertJunosToLinuxName is one-to-one, so *)
(* an interface keeps its name.                                            *)
(***************************************************************************)
EXTENDS ConfigModel, ConfigValidation

Values(c, node) == {Value(s) : s \in Of(c, {node})}

\* Lines with the entry's key and each value of one of its fields.
LinesOf(c, entry, node, command) == {<<command, Value(entry), v>> : v \in Field(c, entry, node)}

(***************************************************************************)
(* BGP and EVPN.                                                           *)
(***************************************************************************)
hasIPAddress(c, i, ip) == \E s \in collectAddresses(c, i) : HostAddress[Value(s)] = ip

\* The interfaces that have the local address; the code takes the first one
\* a map iteration meets.
updateSource(c, ip) ==
  LET owners == {i \in interfaceNames(c) : hasIPAddress(c, i, ip)}
  IN  IF owners = {} THEN {ip} ELSE owners

convertBGPNeighbor(c, n) ==
  LET group == Up(n, "group")
  IN  LinesOf(c, n, "peer-as", "remote-as")
      \cup {<<"neighbor description", Value(n), d>> :
              d \in IF Has(c, n, "neighbor.description") THEN Field(c, n, "neighbor.description")
                    ELSE Field(c, group, "group.type")}
      \cup {<<"update-source", Value(n), updateSource(c, a)>> : a \in Field(c, n, "neighbor.local-address")}
      \cup (IF Has(c, n, "neighbor.bfd-profile")
            THEN LinesOf(c, n, "neighbor.bfd-profile", "neighbor bfd profile")
            ELSE {<<"neighbor bfd", Value(n)>> : s \in Within(c, n, {"neighbor.bfd"})})
      \cup {<<"activate", Value(n)>>}
      \cup {<<"route-map in", Value(n), p>> : p \in Field(c, group, "group.import")}
      \cup {<<"route-map out", Value(n), p>> : p \in Field(c, group, "group.export")}

\* attachEVPNConfig creates a BGP instance for EVPN alone.
attachEVPNConfig(c) == <<"bgp">> \in c \/ Of(c, {"vni"}) # {}

GenerateBGPConfig(c) ==
  IF ~attachEVPNConfig(c) THEN {}
  ELSE {<<"router bgp", as>> : as \in Values(c, "autonomous-system")}
       \cup {<<"bgp router-id", id>> : id \in Values(c, "router-id")}
       \cup UNION {convertBGPNeighbor(c, n) : n \in Of(c, {"neighbor"})}

frrValidateBGPConfig(c) ==
  attachEVPNConfig(c) =>
    /\ Of(c, {"autonomous-system"}) # {}
    /\ Values(c, "router-id") \subseteq IP4
    /\ \A n \in Of(c, {"neighbor"}) : Value(n) \in IP /\ Has(c, n, "peer-as")
    /\ \A m, n \in Of(c, {"neighbor"}) : Value(m) = Value(n) => m = n

evpnImportTargets(c, v) == Field(c, v, "vni.target") \cup Field(c, v, "vni.target-import")

evpnExportTargets(c, v) == Field(c, v, "vni.target") \cup Field(c, v, "vni.target-export")

L3(c) == {v \in Of(c, {"vni"}) : Field(c, v, "vni.type") = {"l3"}}

GenerateEVPNConfig(c) ==
  {<<"advertise-all-vni">> : v \in Of(c, {"vni"})}
  \cup UNION {{<<"vni import", Value(v), t>> : t \in evpnImportTargets(c, v)}
              \cup {<<"vni export", Value(v), t>> : t \in evpnExportTargets(c, v)} :
                v \in Of(c, {"vni"}) \ L3(c)}

applyEVPNToVRFs(c) ==
  UNION {UNION {{<<"vrf vni", i, Value(v)>>}
                \cup {<<"evpn import", i, t>> : t \in evpnImportTargets(c, v)}
                \cup {<<"evpn export", i, t>> : t \in evpnExportTargets(c, v)} :
                  i \in Field(c, v, "vni.instance")} : v \in L3(c)}

frrValidateEVPNConfig(c) ==
  /\ VNIShape(c)
  /\ \A v \in L3(c) : \A i \in Field(c, v, "vni.instance") :
       /\ <<"instance", i>> \in c
       /\ \A w \in L3(c) : i \in Field(c, w, "vni.instance") => w = v

(***************************************************************************)
(* OSPF and OSPFv3.  The area-id that the lines name is the area's key:    *)
(* ToLegacyConfig has made it so.                                          *)
(***************************************************************************)
ospfInterfaces(c, version) == {s \in Of(c, {"area.interface"}) : s[2] = version}

ospfRouterID(c, version) ==
  LET own == Field(c, <<"ospf", version>>, "ospf.router-id")
  IN  IF own # {} THEN own ELSE Values(c, "router-id")

\* An IPv4 address of an interface and the interface's entry in an area: each
\* gives a network statement.
ospfNetworks(c) ==
  {n \in Of(c, {"address"}) \X ospfInterfaces(c, "v2") : n[1][2] = Value(n[2]) /\ n[1][4] = "inet"}

\* The statement's prefix is the address's subnet.
ospfPrefix(n) == Subnet[Value(n[1])]

convertOSPFInterface(c, s) ==
  LET line(node, command) == {<<command, s[2], Value(s), v>> : v \in Field(c, s, node)}
      flag(node, command) == {<<command, s[2], Value(s)>> : k \in Within(c, s, {node})}
  IN  line("metric", "ospf cost") \cup line("priority", "ospf priority")
      \cup flag("passive", "ospf passive")
      \cup (IF Has(c, s, "area.bfd-profile") THEN line("area.bfd-profile", "ospf bfd profile")
            ELSE flag("area.bfd", "ospf bfd"))
      \cup IF s[2] = "v3" THEN {<<"ospf6 area", s[2], Value(s), s[3]>>} ELSE {}

GenerateOSPFConfig(c, version) ==
  IF <<"ospf", version>> \notin c THEN {}
  ELSE {<<"router ospf", version>>}
       \cup {<<"ospf router-id", version, id>> : id \in ospfRouterID(c, version)}
       \cup (IF version = "v2" THEN {<<"network", ospfPrefix(n), n[2][3]>> : n \in ospfNetworks(c)} ELSE {})
       \cup UNION {convertOSPFInterface(c, s) : s \in ospfInterfaces(c, version)}

frrValidateOSPFConfig(c, version) ==
  <<"ospf", version>> \in c =>
    /\ ospfRouterID(c, version) \subseteq IP4
    /\ version = "v2" =>
         /\ ospfRouterID(c, version) # {}
         /\ \A m, n \in ospfNetworks(c) : ospfPrefix(m) = ospfPrefix(n) => m = n
    /\ \A s, t \in ospfInterfaces(c, version) :
         /\ Value(s) \in interfaceNames(c)
         /\ Value(s) = Value(t) => s = t

(***************************************************************************)
(* BFD, VRRP and static routes.                                            *)
(***************************************************************************)
GenerateBFDConfig(c) == {s \in Of(c, DOMAIN BFDTree) : ~(s[1] = "peer.vrf" /\ Value(s) = "default")}

frrValidateBFDConfig(c) ==
  /\ Values(c, "peer.interface") \subseteq interfaceNames(c)
  /\ References(c, Each({"peer.profile"}, "profile"))
  /\ EchoShape(c)
  /\ validateBFDTimers(c)

GenerateVRRPConfig(c) == Of(c, DOMAIN LinkTree \ {"mpls.interface"})

frrValidateVRRPConfig(c) ==
  \A g \in Of(c, {"vrrp"}) :
    /\ Value(g) \in VRRPGroup
    /\ Field(c, g, "vrrp.interface") \cap interfaceNames(c) # {}
    /\ Field(c, g, "virtual-address") \cap IP # {}

convertStaticRoutes(c, r) ==
  UNION {{<<"ip route", r[2], hop>>}
         \cup {<<"route distance", r[2], hop, d>> : d \in Field(c, r, "distance")}
         \cup {<<"route bfd", r[2], hop>> : s \in Within(c, r, {"route.bfd"})}
         \cup {<<"route bfd multi-hop", r[2], hop>> : s \in Within(c, r, {"route.bfd-multihop"})}
         \cup {<<"route bfd source", r[2], hop, a>> : a \in Field(c, r, "route.bfd-source")}
         \cup {<<"route bfd profile", r[2], hop, p>> : p \in Field(c, r, "route.bfd-profile")} :
           hop \in Field(c, r, "next-hop")}

GenerateStaticRouteConfig(c) == UNION {convertStaticRoutes(c, r) : r \in Of(c, {"route"})}

frrValidateStaticRoutes(c) ==
  /\ StaticRouteShape(c)
  /\ Formats(c, Each({"distance"}, Distance))
  /\ \A h, k \in Of(c, {"next-hop"}) : Subnet[h[2]] = Subnet[k[2]] /\ Value(h) = Value(k) => h = k

(***************************************************************************)
(* Policy options.  A prefix list of both families is split in two; the    *)
(* lists a term refers to are looked up by name alone, and several of one  *)
(* family are merged into a list of their own.  A list is a record; its    *)
(* name is a sequence, so that a merged list's name is never a             *)
(* configured one (uniqueAggregatePrefixListName).                         *)
(***************************************************************************)
V6Name == [n \in {"list", "list-v6"} |-> IF n = "list" THEN "list-v6" ELSE "list-v6-v6"]

prefixesOf(c, l, v6) == Field(c, l, "prefix") \cap (IF v6 THEN CIDR6 ELSE CIDR4)

isSplit(c, l) == prefixesOf(c, l, FALSE) # {} /\ prefixesOf(c, l, TRUE) # {}

convertPrefixLists(c) ==
  UNION {{k \in {[of |-> Value(l), name |-> <<Value(l)>>, v6 |-> FALSE,
                  prefixes |-> prefixesOf(c, l, FALSE)],
                 [of |-> Value(l), name |-> <<IF isSplit(c, l) THEN V6Name[Value(l)] ELSE Value(l)>>,
                  v6 |-> TRUE, prefixes |-> prefixesOf(c, l, TRUE)]} : k.prefixes # {}} :
           l \in Of(c, {"prefix-list"})}

\* prefixListByName keeps the last list of a name: a list configured under
\* the name that the split of another gave comes after it.
prefixListByName(lists, name) ==
  LET named == {l \in lists : l.name = name}
  IN  IF \E l \in named : <<l.of>> = name THEN CHOOSE l \in named : <<l.of>> = name
      ELSE CHOOSE l \in named : TRUE

\* Mutant of MatchPrefixLists: the second half of a split list is forgotten.
MatchPrefixListsUnsplit(c, t) == {<<n>> : n \in Field(c, t, "from.prefix-list")}

\* The names a term's entry matches before merging.
MatchPrefixLists(c, t) ==
  {<<n>> : n \in Field(c, t, "from.prefix-list")}
  \cup {<<V6Name[n]>> : n \in {m \in Field(c, t, "from.prefix-list") : isSplit(c, <<"prefix-list", m>>)}}

\* The lists it matches after merging.
aggregateRouteMapPrefixListMatches(c, t) ==
  LET lists == convertPrefixLists(c)
      found(v6) == {prefixListByName(lists, n) : n \in {m \in MatchPrefixLists(c, t) :
                      (\E l \in lists : l.name = m) /\ prefixListByName(lists, m).v6 = v6}}
      merged(v6) == [of |-> t[2], name |-> <<t[2], t[3], v6>>, v6 |-> v6,
                     prefixes |-> UNION {l.prefixes : l \in found(v6)}]
  IN  UNION {IF Cardinality(found(v6)) > 1 THEN {merged(v6)} ELSE found(v6) : v6 \in BOOLEAN}

GeneratePrefixListConfig(c) ==
  LET lists == convertPrefixLists(c)
               \cup UNION {aggregateRouteMapPrefixListMatches(c, t) : t \in Of(c, {"term"})}
  IN  UNION {{<<"prefix-list", l.v6, l.name, p>> : p \in l.prefixes} : l \in lists}

\* The entry of a term t in route-map rm.
convertPolicyTerm(c, t, rm) ==
  LET line(node, command) == {<<command, rm, t[2], t[3], v>> : v \in Field(c, t, node)}
  IN  {<<"route-map", rm, t[2], t[3], IF Field(c, t, "accept") = {"false"} THEN "deny" ELSE "permit">>}
      \cup {<<"match prefix-list", rm, t[2], t[3], l.v6, l.name>> :
              l \in aggregateRouteMapPrefixListMatches(c, t)}
      \cup line("from.protocol", "match source-protocol") \cup line("from.neighbor", "match peer")
      \cup line("as-path", "match as-path") \cup line("as-path", "as-path access-list")
      \cup line("local-preference", "set local-preference") \cup line("community", "set community")

GenerateRouteMapConfig(c) == UNION {convertPolicyTerm(c, t, <<t[2]>>) : t \in Of(c, {"term"})}

\* No two lists of one family and name, and every list a term names is there.
validatePolicyObjects(c) ==
  LET lists == convertPrefixLists(c)
  IN  /\ \A k, l \in lists : k.name = l.name /\ k.v6 = l.v6 => k.of = l.of
      /\ \A t \in Of(c, {"term"}) : \A n \in MatchPrefixLists(c, t) : \E l \in lists : l.name = n

(***************************************************************************)
(* Routing instances.  Several policies of one direction become one        *)
(* route-map of all their entries.                                         *)
(***************************************************************************)
composeVRFPolicyRouteMap(i, direction, policies) ==
  {IF Cardinality(policies) = 1 THEN <<p>> ELSE <<i, direction>> : p \in policies}

chainedRouteMap(c, i, direction, policies) ==
  IF Cardinality(policies) < 2 THEN {}
  ELSE UNION {convertPolicyTerm(c, t, <<i, direction>>) : t \in {k \in Of(c, {"term"}) : k[2] \in policies}}

vrfImportTargets(c, i) == Field(c, i, "instance.target") \cup Field(c, i, "instance.target-import")

vrfExportTargets(c, i) == Field(c, i, "instance.target") \cup Field(c, i, "instance.target-export")

convertVRFConfig(c, i) ==
  LET name == Value(i)
      exports == vrfExportTargets(c, i)
      routeMap(node, direction) ==
        {<<"vpn route-map", name, direction, m>> :
           m \in composeVRFPolicyRouteMap(name, direction, Field(c, i, node))}
  IN  {<<"vrf", name>>}
      \cup {<<"rt vpn import", name, t>> : t \in vrfImportTargets(c, i)}
      \cup {<<"rt vpn export", name, t>> : t \in exports}
      \cup (IF exports = {} THEN {} ELSE LinesOf(c, i, "instance.rd", "rd vpn export"))
      \cup routeMap("vrf-import", "import") \cup routeMap("vrf-export", "export")
      \cup chainedRouteMap(c, name, "import", Field(c, i, "vrf-import"))
      \cup chainedRouteMap(c, name, "export", Field(c, i, "vrf-export"))

GenerateVRFConfig(c) == applyEVPNToVRFs(c) \cup UNION {convertVRFConfig(c, i) : i \in Of(c, {"instance"})}

\* Route-maps exist for the policies named; the rest is what VPNShape says.
frrValidateVRFConfig(c) ==
  /\ References(c, Each({"vrf-import", "vrf-export"}, "policy"))
  /\ VPNShape(c)

validateFRRRouteMapReferences(c) ==
  \A n \in Of(c, {"neighbor"}) :
    LET group == Up(n, "group")
    IN  Field(c, group, "group.import") \cup Field(c, group, "group.export") \subseteq Values(c, "policy")

(***************************************************************************)
(* GenerateFRRConfig and GenerateFRRConfigFile: the file, or NotGenerated. *)
(***************************************************************************)
NotGenerated == {<<"generate error">>}

Generates(c) ==
  /\ frrValidateBFDConfig(c) /\ frrValidateBGPConfig(c) /\ frrValidateEVPNConfig(c)
  /\ frrValidateOSPFConfig(c, "v2") /\ frrValidateOSPFConfig(c, "v3") /\ frrValidateVRRPConfig(c)
  /\ frrValidateStaticRoutes(c) /\ validatePolicyObjects(c) /\ frrValidateVRFConfig(c)
  /\ validateFRRRouteMapReferences(c)

GenerateFRRConfigFile(c) ==
  IF ~Generates(c) THEN NotGenerated
  ELSE {<<"hostname", h>> : h \in Values(c, "host-name")}
       \cup GenerateStaticRouteConfig(c) \cup GeneratePrefixListConfig(c) \cup GenerateRouteMapConfig(c)
       \cup GenerateBFDConfig(c) \cup GenerateBGPConfig(c) \cup GenerateEVPNConfig(c)
       \cup GenerateOSPFConfig(c, "v2") \cup GenerateOSPFConfig(c, "v3") \cup GenerateVRRPConfig(c)
       \cup GenerateVRFConfig(c)

(***************************************************************************)
(* The transactional backend: the commands its operations express, and     *)
(* what BuildMgmtOperations refuses.                                       *)
(***************************************************************************)
buildStaticRouteOps == {"ip route", "route distance", "route bfd", "route bfd multi-hop",
                        "route bfd source", "route bfd profile"}

buildBGPOps == {"router bgp", "bgp router-id", "remote-as", "neighbor description", "update-source",
                "neighbor bfd", "activate", "route-map in", "route-map out"}

\* Mutant of buildOSPFOps: one parameter of an interface has no operation.
buildOSPFOpsWithoutPriority == {"router ospf", "ospf router-id", "network", "ospf passive", "ospf cost",
                                "ospf bfd"}

buildOSPFOps == {"router ospf", "ospf router-id", "network", "ospf passive", "ospf cost",
                 "ospf priority", "ospf bfd"}

buildPrefixListOps == {"prefix-list"}

buildRouteMapOps == {"route-map", "match prefix-list", "set local-preference", "set community"}

buildBFDConfigOps == DOMAIN BFDTree

buildVRFOps == {"vrf", "rt vpn import", "rt vpn export", "rd vpn export", "vpn route-map"}

buildVRRPOps == DOMAIN LinkTree \ {"mpls.interface"}

\* The operation for a multihop session has no place for an interface.
buildBFDPeerOps(c, line) ==
  line[1] = "peer.interface" => ~Has(c, Up(line, "peer"), "peer.multihop")

\* Whether an operation expresses this line of the file.
HasMgmtOperation(c, line) ==
  /\ line[1] \in buildStaticRouteOps \cup buildBGPOps \cup buildOSPFOps \cup buildPrefixListOps
                 \cup buildRouteMapOps \cup buildBFDConfigOps \cup buildVRFOps \cup buildVRRPOps
  /\ buildBFDPeerOps(c, line)

BuildMgmtOperations(c) == {line \in GenerateFRRConfigFile(c) : HasMgmtOperation(c, line)}

validateTransactionalEVPN(c) == Of(c, {"vni"}) = {}

validateTransactionalBFDProtocolBindings(c) ==
  Of(c, {"neighbor.bfd-profile"}) = {} /\ {s \in Of(c, {"area.bfd-profile"}) : s[2] = "v2"} = {}

validateTransactionalRouteMapSupport(c) == Of(c, {"from.protocol", "from.neighbor", "as-path"}) = {}

SessionsAreKeyed(c) ==
  \A p \in Of(c, {"peer"}) :
    IF Has(c, p, "peer.multihop") THEN Has(c, p, "peer.local-address") ELSE Has(c, p, "peer.interface")

MgmtAccepts(c) ==
  /\ <<"ospf", "v3">> \notin c
  /\ validateTransactionalEVPN(c) /\ validateTransactionalBFDProtocolBindings(c)
  /\ References(c, Each({"route.bfd-profile"}, "profile"))
  /\ \A s \in Of(c, {"peer.vrf"}) : Value(s) = "default" \/ <<"instance", Value(s)>> \in c
  /\ validateTransactionalRouteMapSupport(c) /\ SessionsAreKeyed(c)

(***************************************************************************)
(* The plugin: which backend, and whether FRR is touched at all.           *)
(***************************************************************************)
frrBFDRequiresFileBackend(c) == ~SessionsAreKeyed(c)

requiresFRRFileBackend(c) ==
  \/ <<"ospf", "v3">> \in c
  \/ Of(c, {"vni", "neighbor.bfd-profile"}) # {}
  \/ {s \in Of(c, {"area.bfd-profile"}) : s[2] = "v2"} # {}
  \/ frrBFDRequiresFileBackend(c)
  \/ Of(c, {"from.protocol", "from.neighbor", "as-path"}) # {}

hasFRRRelevantInterfaceChanges(diff) ==
  diff \cap {"InterfacesAdded", "InterfacesRemoved", "AddressesChanged"} # {}

\* Mutant of hasFRRRelevantChanges: interfaces are taken for VPP's business.
hasFRRRelevantChangesButInterfaces(diff) ==
  diff \cap {"BFDChanged", "BGPChanged", "EVPNChanged", "OSPFChanged", "OSPF3Changed",
             "StaticRoutesChanged", "PolicyChanged", "RoutingChanged", "SystemChanged",
             "VRRPChanged", "RoutingInstancesChanged"} # {}

hasFRRRelevantChanges(diff) ==
  \/ diff \cap {"BFDChanged", "BGPChanged", "EVPNChanged", "OSPFChanged", "OSPF3Changed",
                "StaticRoutesChanged", "PolicyChanged", "RoutingChanged", "SystemChanged",
                "VRRPChanged", "RoutingInstancesChanged"} # {}
  \/ hasFRRRelevantInterfaceChanges(diff)

\* ValidateChanges, the dry run.
frrValidateChanges(diff, new) ==
  hasFRRRelevantChanges(diff) =>
    /\ Generates(ToLegacyConfig(new))
    /\ ~requiresFRRFileBackend(ToLegacyConfig(new)) => MgmtAccepts(ToLegacyConfig(new))
=============================================================================
