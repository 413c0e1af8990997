-------------------------------- MODULE FrrProofs --------------------------------
(***************************************************************************)
(* Proofs about the FRR generator and the FRR plugin's backends, for every *)
(* set of configurations.                                                  *)
(*                                                                         *)
(* The first part is about data: the FRR plugin looks only at flags of the *)
(* difference, so the file that two configurations make must be the same   *)
(* when none of its flags is set.  The second is about the lines of a      *)
(* file: which the transactional backend does not express, and what a file *)
(* says about the configuration it was made from.  The third is about what *)
(* a call of a backend can end with, one lemma for each operation that the *)
(* backends are made of.  SouthboundProofs has the transactions.           *)
(***************************************************************************)
EXTENDS FrrPlugin, TLAPS

(***************************************************************************)
(* What the generator looks at.                                            *)
(***************************************************************************)
\* The nodes whose changes the FRR plugin acts on.
FrrNode ==
  DOMAIN BFDTree \cup bgpCompared \cup DOMAIN EVPNTree \cup ospfCompared
  \cup (DOMAIN LinkTree \ {"mpls.interface"}) \cup routingCompared \cup staticRoutesCompared
  \cup DOMAIN InstanceTree \cup DOMAIN PolicyTree \cup DOMAIN SystemTree \cup {"address"}

\* Two configurations that differ in nothing the FRR plugin acts on.
Alike(c, d) ==
  /\ interfaceNames(c) = interfaceNames(d)
  /\ \A s : s[1] \in FrrNode => (s \in c <=> s \in d)

\* A table that maps every node of a set to one value has that set as domain.
LEMMA DomainOfEach ==
  ASSUME NEW set, NEW v
  PROVE  DOMAIN Each(set, v) = set
BY DEF Each

\* Merged tables have the nodes of all of them.
LEMMA DomainOfMerged ==
  ASSUME NEW tables
  PROVE  DOMAIN Merged(tables) = UNION {DOMAIN t : t \in tables}
BY DEF Merged

\* The nodes of each tree, spelled out: the next six lemmas.
LEMMA BFDNodes ==
  DOMAIN BFDTree =
    {"profile", "peer", "profile.multiplier", "profile.receive", "profile.transmit",
     "profile.echo", "profile.passive", "peer.local-address", "peer.interface",
     "peer.vrf", "peer.multihop", "peer.profile", "peer.multiplier", "peer.receive",
     "peer.transmit", "peer.echo", "peer.passive", "peer.shutdown"}
BY DEF BFDTree, Each, Merged

\* The nodes below evpn.
LEMMA EVPNNodes ==
  DOMAIN EVPNTree =
    {"vni", "vni.type", "bridge-domain", "vlan-id", "vni.instance", "vni.rd", "vni.target",
     "vni.target-import", "vni.target-export", "source-interface", "source-address",
     "multicast-group", "remote-vtep"}
BY DEF EVPNTree, Each, Merged

\* The nodes of MPLS and VRRP.
LEMMA LinkNodes ==
  DOMAIN LinkTree =
    {"mpls.interface", "vrrp", "vrrp.interface", "virtual-address", "vrrp.priority", "preempt"}
BY DEF LinkTree, Each, Merged

\* The nodes of routing instances.
LEMMA InstanceNodes ==
  DOMAIN InstanceTree =
    {"instance", "instance.type", "instance.rd", "instance.target", "instance.target-import",
     "instance.target-export", "vrf-import", "vrf-export", "instance.interface"}
BY DEF InstanceTree, Each, Merged

\* The nodes of policy options.
LEMMA PolicyNodes ==
  DOMAIN PolicyTree =
    {"policy-options", "prefix-list", "policy", "prefix", "term", "from.prefix-list",
     "from.protocol", "from.neighbor", "as-path", "accept", "local-preference",
     "community"}
BY DEF PolicyTree, Each, Merged

\* The nodes below system.
LEMMA SystemNodes ==
  DOMAIN SystemTree =
    {"system", "host-name", "service", "service.enabled", "service.listen-address",
     "service.port", "service.community"}
BY DEF SystemTree, Each, Merged

\* Alike configurations have the same statements of the nodes looked at.
LEMMA AlikeOf ==
  ASSUME NEW c, NEW d, Alike(c, d), NEW nodes, nodes \subseteq FrrNode
  PROVE  Of(c, nodes) = Of(d, nodes)
BY DEF Alike, Of

\* And the same statements within an entry.
LEMMA AlikeWithin ==
  ASSUME NEW c, NEW d, Alike(c, d), NEW nodes, nodes \subseteq FrrNode, NEW e
  PROVE  Within(c, e, nodes) = Within(d, e, nodes)
<1>1. Of(c, nodes) = Of(d, nodes)
  BY AlikeOf
<1> QED
  BY <1>1 DEF Within

\* And the same values.
LEMMA AlikeField ==
  ASSUME NEW c, NEW d, Alike(c, d), NEW n \in FrrNode
  PROVE  /\ \A e : Field(c, e, n) = Field(d, e, n)
         /\ \A e : Has(c, e, n) <=> Has(d, e, n)
         /\ Values(c, n) = Values(d, n)
<1>1. {n} \subseteq FrrNode
  OBVIOUS
<1>2. \A e : Within(c, e, {n}) = Within(d, e, {n})
  BY <1>1, AlikeWithin
<1>3. Of(c, {n}) = Of(d, {n})
  BY <1>1, AlikeOf
<1> QED
  BY <1>2, <1>3 DEF Field, Has, Values

\* The three above for every node at once, the form that the generator's reads
\* are rewritten with.
LEMMA AlikeReads ==
  ASSUME NEW c, NEW d, Alike(c, d)
  PROVE  /\ \A n \in FrrNode : \A e : Field(c, e, n) = Field(d, e, n)
         /\ \A n \in FrrNode : \A e : Has(c, e, n) <=> Has(d, e, n)
         /\ \A n \in FrrNode : \A e : Within(c, e, {n}) = Within(d, e, {n})
         /\ \A n \in FrrNode : Of(c, {n}) = Of(d, {n})
         /\ \A n \in FrrNode : Values(c, n) = Values(d, n)
<1>1. ASSUME NEW n \in FrrNode PROVE {n} \subseteq FrrNode
  OBVIOUS
<1> QED
  BY <1>1, AlikeField, AlikeWithin, AlikeOf

(***************************************************************************)
(* BGP and EVPN.                                                           *)
(***************************************************************************)
\* The FRR plugin acts on every node that the BGP generator reads; the lemmas
\* called Read say so of each generator.
LEMMA BGPRead ==
  /\ "peer-as" \in FrrNode /\ "neighbor.description" \in FrrNode /\ "group.type" \in FrrNode
  /\ "neighbor.local-address" \in FrrNode /\ "neighbor.bfd" \in FrrNode
  /\ "neighbor.bfd-profile" \in FrrNode /\ "group.import" \in FrrNode /\ "group.export" \in FrrNode
  /\ "bgp" \in FrrNode /\ "neighbor" \in FrrNode /\ "router-id" \in FrrNode
  /\ "autonomous-system" \in FrrNode /\ "address" \in FrrNode
BY DEF FrrNode, bgpCompared, routingCompared

\* The nodes that the EVPN generator reads.
LEMMA EVPNRead ==
  /\ "vni" \in FrrNode /\ "vni.type" \in FrrNode /\ "vni.instance" \in FrrNode
  /\ "vni.target" \in FrrNode /\ "vni.target-import" \in FrrNode /\ "vni.target-export" \in FrrNode
  /\ "bridge-domain" \in FrrNode /\ "vlan-id" \in FrrNode /\ "multicast-group" \in FrrNode
  /\ "remote-vtep" \in FrrNode
BY EVPNNodes DEF FrrNode

\* The nodes that the generator of policy options reads.
LEMMA PolicyRead ==
  /\ "prefix-list" \in FrrNode /\ "prefix" \in FrrNode /\ "policy" \in FrrNode /\ "term" \in FrrNode
  /\ "from.prefix-list" \in FrrNode /\ "from.protocol" \in FrrNode /\ "from.neighbor" \in FrrNode
  /\ "as-path" \in FrrNode /\ "accept" \in FrrNode /\ "local-preference" \in FrrNode
  /\ "community" \in FrrNode
BY PolicyNodes DEF FrrNode

\* Alike configurations give a neighbor the same update source; the lemmas
\* called Alike say so of each part of the file, and that both pass the part's
\* validator or neither does.
LEMMA AlikeUpdateSource ==
  ASSUME NEW c, NEW d, Alike(c, d), NEW a
  PROVE  updateSource(c, a) = updateSource(d, a)
<1>1. Of(c, {"address"}) = Of(d, {"address"}) /\ interfaceNames(c) = interfaceNames(d)
  BY AlikeReads, BGPRead DEF Alike
<1>2. \A i : collectAddresses(c, i) = collectAddresses(d, i)
  BY <1>1, Zenon DEF collectAddresses
<1>3. \A i : hasIPAddress(c, i, a) <=> hasIPAddress(d, i, a)
  BY <1>2, Zenon DEF hasIPAddress
<1>4. {i \in interfaceNames(c) : hasIPAddress(c, i, a)} = {i \in interfaceNames(d) : hasIPAddress(d, i, a)}
  BY <1>1, <1>3
<1> QED
  BY <1>4, Zenon DEF updateSource

\* A neighbor's lines.
LEMMA AlikeBGPNeighbor ==
  ASSUME NEW c, NEW d, Alike(c, d), NEW n
  PROVE  convertBGPNeighbor(c, n) = convertBGPNeighbor(d, n)
<1> DEFINE g == Up(n, "group")
<1>1. \A a : updateSource(c, a) = updateSource(d, a)
  BY AlikeUpdateSource
<1>2. /\ Field(c, n, "peer-as") = Field(d, n, "peer-as")
      /\ Field(c, n, "neighbor.description") = Field(d, n, "neighbor.description")
      /\ Has(c, n, "neighbor.description") <=> Has(d, n, "neighbor.description")
      /\ Field(c, g, "group.type") = Field(d, g, "group.type")
      /\ Field(c, n, "neighbor.local-address") = Field(d, n, "neighbor.local-address")
      /\ Field(c, n, "neighbor.bfd-profile") = Field(d, n, "neighbor.bfd-profile")
      /\ Has(c, n, "neighbor.bfd-profile") <=> Has(d, n, "neighbor.bfd-profile")
      /\ Within(c, n, {"neighbor.bfd"}) = Within(d, n, {"neighbor.bfd"})
      /\ Field(c, g, "group.import") = Field(d, g, "group.import")
      /\ Field(c, g, "group.export") = Field(d, g, "group.export")
  BY AlikeReads, BGPRead
<1> QED
  BY <1>1, <1>2, Zenon DEF convertBGPNeighbor, LinesOf

\* Whether there is a BGP instance.
LEMMA AlikeAttach ==
  ASSUME NEW c, NEW d, Alike(c, d)
  PROVE  attachEVPNConfig(c) <=> attachEVPNConfig(d)
<1>1. <<"bgp">>[1] = "bgp"
  OBVIOUS
<1>2. <<"bgp">> \in c <=> <<"bgp">> \in d
  BY <1>1, BGPRead DEF Alike
<1>3. Of(c, {"vni"}) = Of(d, {"vni"})
  BY AlikeReads, EVPNRead
<1> QED
  BY <1>2, <1>3 DEF attachEVPNConfig

\* The BGP part.
LEMMA AlikeBGP ==
  ASSUME NEW c, NEW d, Alike(c, d)
  PROVE  /\ GenerateBGPConfig(c) = GenerateBGPConfig(d)
         /\ frrValidateBGPConfig(c) <=> frrValidateBGPConfig(d)
         /\ validateFRRRouteMapReferences(c) <=> validateFRRRouteMapReferences(d)
<1>1. attachEVPNConfig(c) <=> attachEVPNConfig(d)
  BY AlikeAttach
<1>2. /\ Values(c, "autonomous-system") = Values(d, "autonomous-system")
      /\ Of(c, {"autonomous-system"}) = Of(d, {"autonomous-system"})
      /\ Values(c, "router-id") = Values(d, "router-id")
      /\ Of(c, {"neighbor"}) = Of(d, {"neighbor"})
      /\ \A e : Has(c, e, "peer-as") <=> Has(d, e, "peer-as")
  BY AlikeReads, BGPRead
<1>3. \A n : convertBGPNeighbor(c, n) = convertBGPNeighbor(d, n)
  BY AlikeBGPNeighbor
<1>4. GenerateBGPConfig(c) = GenerateBGPConfig(d)
  BY <1>1, <1>2, <1>3, Zenon DEF GenerateBGPConfig
<1>5. frrValidateBGPConfig(c) <=> frrValidateBGPConfig(d)
  BY <1>1, <1>2, Zenon DEF frrValidateBGPConfig
<1>6. /\ \A e : Field(c, e, "group.import") = Field(d, e, "group.import")
      /\ \A e : Field(c, e, "group.export") = Field(d, e, "group.export")
      /\ Values(c, "policy") = Values(d, "policy")
  BY AlikeReads, BGPRead, PolicyRead
<1>7. validateFRRRouteMapReferences(c) <=> validateFRRRouteMapReferences(d)
  BY <1>2, <1>6, Zenon DEF validateFRRRouteMapReferences
<1> QED
  BY <1>4, <1>5, <1>7

\* The EVPN part, and what it adds to the VRFs.
LEMMA AlikeEVPN ==
  ASSUME NEW c, NEW d, Alike(c, d)
  PROVE  /\ GenerateEVPNConfig(c) = GenerateEVPNConfig(d)
         /\ applyEVPNToVRFs(c) = applyEVPNToVRFs(d)
         /\ frrValidateEVPNConfig(c) <=> frrValidateEVPNConfig(d)
<1>1. /\ Of(c, {"vni"}) = Of(d, {"vni"})
      /\ \A e : Field(c, e, "vni.type") = Field(d, e, "vni.type")
      /\ \A e : Field(c, e, "vni.instance") = Field(d, e, "vni.instance")
      /\ \A e : Field(c, e, "vni.target") = Field(d, e, "vni.target")
      /\ \A e : Field(c, e, "vni.target-import") = Field(d, e, "vni.target-import")
      /\ \A e : Field(c, e, "vni.target-export") = Field(d, e, "vni.target-export")
  BY AlikeReads, EVPNRead
<1>2. /\ \A e : Has(c, e, "bridge-domain") <=> Has(d, e, "bridge-domain")
      /\ \A e : Has(c, e, "vlan-id") <=> Has(d, e, "vlan-id")
      /\ \A e : Has(c, e, "vni.instance") <=> Has(d, e, "vni.instance")
      /\ \A e : Has(c, e, "multicast-group") <=> Has(d, e, "multicast-group")
      /\ \A e : Has(c, e, "remote-vtep") <=> Has(d, e, "remote-vtep")
  BY AlikeReads, EVPNRead
<1>3. /\ \A v : evpnImportTargets(c, v) = evpnImportTargets(d, v)
      /\ \A v : evpnExportTargets(c, v) = evpnExportTargets(d, v)
  BY <1>1, Zenon DEF evpnImportTargets, evpnExportTargets
<1>4. L3(c) = L3(d)
  BY <1>1, Zenon DEF L3
<1>5. GenerateEVPNConfig(c) = GenerateEVPNConfig(d)
  <2> DEFINE T(x, v) == {<<"vni import", Value(v), t>> : t \in evpnImportTargets(x, v)}
                        \cup {<<"vni export", Value(v), t>> : t \in evpnExportTargets(x, v)}
             G(x) == {<<"advertise-all-vni">> : v \in Of(x, {"vni"})}
                     \cup UNION {T(x, v) : v \in Of(x, {"vni"}) \ L3(x)}
  <2>1. GenerateEVPNConfig(c) = G(c) /\ GenerateEVPNConfig(d) = G(d)
    BY Zenon DEF GenerateEVPNConfig
  <2>2. \A v : T(c, v) = T(d, v)
    BY <1>3, Zenon
  <2> HIDE DEF T
  <2>3. G(c) = G(d)
    BY <1>1, <1>4, <2>2, Zenon
  <2> QED
    BY <2>1, <2>3
<1>6. applyEVPNToVRFs(c) = applyEVPNToVRFs(d)
  <2> DEFINE T(x, v, i) == {<<"vrf vni", i, Value(v)>>}
                           \cup {<<"evpn import", i, t>> : t \in evpnImportTargets(x, v)}
                           \cup {<<"evpn export", i, t>> : t \in evpnExportTargets(x, v)}
             U(x, v) == UNION {T(x, v, i) : i \in Field(x, v, "vni.instance")}
  <2>1. /\ applyEVPNToVRFs(c) = UNION {U(c, v) : v \in L3(c)}
        /\ applyEVPNToVRFs(d) = UNION {U(d, v) : v \in L3(d)}
    BY Zenon DEF applyEVPNToVRFs
  <2>2. \A v, i : T(c, v, i) = T(d, v, i)
    BY <1>3, Zenon
  <2> HIDE DEF T
  <2>3. \A v : U(c, v) = U(d, v)
    BY <1>1, <2>2, Zenon
  <2> HIDE DEF U
  <2> QED
    BY <1>4, <2>1, <2>3, Zenon
<1>7. VNIShape(c) <=> VNIShape(d)
  BY <1>1, <1>2, Zenon DEF VNIShape
<1>8. \A i : <<"instance", i>> \in c <=> <<"instance", i>> \in d
  <2>1. "instance" \in FrrNode /\ \A i : <<"instance", i>>[1] = "instance"
    BY InstanceNodes DEF FrrNode
  <2> QED
    BY <2>1 DEF Alike
<1>9. frrValidateEVPNConfig(c) <=> frrValidateEVPNConfig(d)
  BY <1>1, <1>4, <1>7, <1>8, Zenon DEF frrValidateEVPNConfig
<1> QED
  BY <1>5, <1>6, <1>9

(***************************************************************************)
(* OSPF and OSPFv3.                                                        *)
(***************************************************************************)
\* The nodes that the OSPF generators read.
LEMMA OSPFRead ==
  /\ "ospf" \in FrrNode /\ "ospf.router-id" \in FrrNode /\ "area.interface" \in FrrNode
  /\ "metric" \in FrrNode /\ "priority" \in FrrNode /\ "passive" \in FrrNode
  /\ "area.bfd" \in FrrNode /\ "area.bfd-profile" \in FrrNode
BY DEF FrrNode, ospfCompared

\* An OSPF interface's lines.
LEMMA AlikeOSPFInterface ==
  ASSUME NEW c, NEW d, Alike(c, d), NEW s
  PROVE  convertOSPFInterface(c, s) = convertOSPFInterface(d, s)
<1>1. /\ Field(c, s, "metric") = Field(d, s, "metric")
      /\ Field(c, s, "priority") = Field(d, s, "priority")
      /\ Field(c, s, "area.bfd-profile") = Field(d, s, "area.bfd-profile")
      /\ Has(c, s, "area.bfd-profile") <=> Has(d, s, "area.bfd-profile")
      /\ Within(c, s, {"passive"}) = Within(d, s, {"passive"})
      /\ Within(c, s, {"area.bfd"}) = Within(d, s, {"area.bfd"})
  BY AlikeReads, OSPFRead
<1> QED
  BY <1>1, Zenon DEF convertOSPFInterface

\* The OSPF part of either version.
LEMMA AlikeOSPF ==
  ASSUME NEW c, NEW d, Alike(c, d), NEW version
  PROVE  /\ GenerateOSPFConfig(c, version) = GenerateOSPFConfig(d, version)
         /\ frrValidateOSPFConfig(c, version) <=> frrValidateOSPFConfig(d, version)
<1>1. <<"ospf", version>> \in c <=> <<"ospf", version>> \in d
  <2>1. <<"ospf", version>>[1] = "ospf"
    OBVIOUS
  <2> QED
    BY <2>1, OSPFRead DEF Alike
<1>2. /\ Of(c, {"area.interface"}) = Of(d, {"area.interface"})
      /\ Of(c, {"address"}) = Of(d, {"address"})
      /\ \A e : Field(c, e, "ospf.router-id") = Field(d, e, "ospf.router-id")
      /\ Values(c, "router-id") = Values(d, "router-id")
      /\ interfaceNames(c) = interfaceNames(d)
  BY AlikeReads, OSPFRead, BGPRead DEF Alike
<1>3. \A v : ospfInterfaces(c, v) = ospfInterfaces(d, v)
  BY <1>2, Zenon DEF ospfInterfaces
<1>4. ospfRouterID(c, version) = ospfRouterID(d, version)
  BY <1>2, Zenon DEF ospfRouterID
<1>5. ospfNetworks(c) = ospfNetworks(d)
  BY <1>2, <1>3, Zenon DEF ospfNetworks
<1>6. \A s : convertOSPFInterface(c, s) = convertOSPFInterface(d, s)
  BY AlikeOSPFInterface
<1>7. GenerateOSPFConfig(c, version) = GenerateOSPFConfig(d, version)
  <2>1. ospfInterfaces(c, version) = ospfInterfaces(d, version)
    BY <1>3
  <2>2. {convertOSPFInterface(c, s) : s \in ospfInterfaces(c, version)}
        = {convertOSPFInterface(d, s) : s \in ospfInterfaces(d, version)}
    BY <1>6, <2>1
  <2>3. {<<"network", ospfPrefix(n), n[2][3]>> : n \in ospfNetworks(c)}
        = {<<"network", ospfPrefix(n), n[2][3]>> : n \in ospfNetworks(d)}
    BY <1>5, Zenon
  <2>4. {<<"ospf router-id", version, id>> : id \in ospfRouterID(c, version)}
        = {<<"ospf router-id", version, id>> : id \in ospfRouterID(d, version)}
    BY <1>4, Zenon
  <2> QED
    BY <1>1, <2>2, <2>3, <2>4, Zenon DEF GenerateOSPFConfig
<1>8. frrValidateOSPFConfig(c, version) <=> frrValidateOSPFConfig(d, version)
  BY <1>1, <1>2, <1>3, <1>4, <1>5, Zenon DEF frrValidateOSPFConfig
<1> QED
  BY <1>7, <1>8

(***************************************************************************)
(* BFD, VRRP and static routes.                                            *)
(***************************************************************************)
\* The nodes that the BFD generator reads.
LEMMA BFDRead ==
  /\ "profile" \in FrrNode /\ "peer" \in FrrNode /\ "peer.interface" \in FrrNode
  /\ "peer.profile" \in FrrNode /\ "peer.multihop" \in FrrNode /\ "peer.echo" \in FrrNode
  /\ "profile.echo" \in FrrNode
BY BFDNodes DEF FrrNode

\* Both have well-formed values or neither has.
LEMMA AlikeFormats ==
  ASSUME NEW c, NEW d, Alike(c, d), NEW nodes, nodes \subseteq FrrNode, NEW v
  PROVE  Formats(c, Each(nodes, v)) <=> Formats(d, Each(nodes, v))
<1>1. Of(c, DOMAIN Each(nodes, v)) = Of(d, DOMAIN Each(nodes, v))
  BY DomainOfEach, AlikeOf
<1> QED
  BY <1>1, Zenon DEF Formats

\* Both have every entry they refer to or neither has.
LEMMA AlikeReferences ==
  ASSUME NEW c, NEW d, Alike(c, d), NEW nodes, nodes \subseteq FrrNode, NEW n \in FrrNode
  PROVE  References(c, Each(nodes, n)) <=> References(d, Each(nodes, n))
<1>1. Of(c, nodes) = Of(d, nodes)
  BY AlikeOf
<1>2. \A s \in Of(c, nodes) : Each(nodes, n)[s[1]] = n
  BY DEF Of, Each
<1>3. \A v : <<n, v>> \in c <=> <<n, v>> \in d
  <2>1. \A v : <<n, v>>[1] = n
    OBVIOUS
  <2> QED
    BY <2>1 DEF Alike
<1> QED
  BY <1>1, <1>2, <1>3, DomainOfEach DEF References

\* The BFD part.
LEMMA AlikeBFD ==
  ASSUME NEW c, NEW d, Alike(c, d)
  PROVE  /\ GenerateBFDConfig(c) = GenerateBFDConfig(d)
         /\ frrValidateBFDConfig(c) <=> frrValidateBFDConfig(d)
<1>1. Of(c, DOMAIN BFDTree) = Of(d, DOMAIN BFDTree)
  BY AlikeOf DEF FrrNode
<1>2. GenerateBFDConfig(c) = GenerateBFDConfig(d)
  BY <1>1, Zenon DEF GenerateBFDConfig
<1>3. /\ Values(c, "peer.interface") = Values(d, "peer.interface")
      /\ interfaceNames(c) = interfaceNames(d)
      /\ Of(c, {"peer"}) = Of(d, {"peer"})
      /\ \A e : Has(c, e, "peer.multihop") <=> Has(d, e, "peer.multihop")
      /\ \A e : Has(c, e, "peer.echo") <=> Has(d, e, "peer.echo")
      /\ \A e : Field(c, e, "peer.profile") = Field(d, e, "peer.profile")
      /\ \A e : Has(c, e, "profile.echo") <=> Has(d, e, "profile.echo")
  BY AlikeReads, BFDRead DEF Alike
<1>4. References(c, Each({"peer.profile"}, "profile")) <=> References(d, Each({"peer.profile"}, "profile"))
  <2>1. {"peer.profile"} \subseteq FrrNode
    BY BFDRead
  <2> QED
    BY <2>1, BFDRead, AlikeReferences
<1>5. EchoShape(c) <=> EchoShape(d)
  BY <1>3, Zenon DEF EchoShape
<1>6. validateBFDTimers(c) <=> validateBFDTimers(d)
  <2>1. /\ {"profile.multiplier", "peer.multiplier"} \subseteq FrrNode
        /\ {"profile.receive", "profile.transmit", "peer.receive", "peer.transmit"} \subseteq FrrNode
    BY BFDNodes DEF FrrNode
  <2> QED
    BY <2>1, AlikeFormats DEF validateBFDTimers
<1>7. frrValidateBFDConfig(c) <=> frrValidateBFDConfig(d)
  BY <1>3, <1>4, <1>5, <1>6, Zenon DEF frrValidateBFDConfig
<1> QED
  BY <1>2, <1>7

\* The nodes that the VRRP generator reads.
LEMMA VRRPRead ==
  /\ "vrrp" \in FrrNode /\ "vrrp.interface" \in FrrNode /\ "virtual-address" \in FrrNode
BY LinkNodes DEF FrrNode

\* The VRRP part.
LEMMA AlikeVRRP ==
  ASSUME NEW c, NEW d, Alike(c, d)
  PROVE  /\ GenerateVRRPConfig(c) = GenerateVRRPConfig(d)
         /\ frrValidateVRRPConfig(c) <=> frrValidateVRRPConfig(d)
<1>1. GenerateVRRPConfig(c) = GenerateVRRPConfig(d)
  BY AlikeOf DEF GenerateVRRPConfig, FrrNode
<1>2. /\ Of(c, {"vrrp"}) = Of(d, {"vrrp"})
      /\ \A e : Field(c, e, "vrrp.interface") = Field(d, e, "vrrp.interface")
      /\ \A e : Field(c, e, "virtual-address") = Field(d, e, "virtual-address")
      /\ interfaceNames(c) = interfaceNames(d)
  BY AlikeReads, VRRPRead DEF Alike
<1>3. frrValidateVRRPConfig(c) <=> frrValidateVRRPConfig(d)
  BY <1>2, Zenon DEF frrValidateVRRPConfig
<1> QED
  BY <1>1, <1>3

\* The nodes that the generator of static routes reads.
LEMMA RouteRead ==
  /\ "route" \in FrrNode /\ "next-hop" \in FrrNode /\ "distance" \in FrrNode
  /\ "route.bfd" \in FrrNode /\ "route.bfd-multihop" \in FrrNode /\ "route.bfd-source" \in FrrNode
  /\ "route.bfd-profile" \in FrrNode
BY DEF FrrNode, staticRoutesCompared

\* A static route's lines.
LEMMA AlikeRoute ==
  ASSUME NEW c, NEW d, Alike(c, d), NEW r
  PROVE  convertStaticRoutes(c, r) = convertStaticRoutes(d, r)
<1>1. /\ Field(c, r, "next-hop") = Field(d, r, "next-hop")
      /\ Field(c, r, "distance") = Field(d, r, "distance")
      /\ Within(c, r, {"route.bfd"}) = Within(d, r, {"route.bfd"})
      /\ Within(c, r, {"route.bfd-multihop"}) = Within(d, r, {"route.bfd-multihop"})
      /\ Field(c, r, "route.bfd-source") = Field(d, r, "route.bfd-source")
      /\ Field(c, r, "route.bfd-profile") = Field(d, r, "route.bfd-profile")
  BY AlikeReads, RouteRead
<1> DEFINE T(x, hop) ==
      {<<"ip route", r[2], hop>>}
         \cup {<<"route distance", r[2], hop, k>> : k \in Field(x, r, "distance")}
         \cup {<<"route bfd", r[2], hop>> : s \in Within(x, r, {"route.bfd"})}
         \cup {<<"route bfd multi-hop", r[2], hop>> : s \in Within(x, r, {"route.bfd-multihop"})}
         \cup {<<"route bfd source", r[2], hop, a>> : a \in Field(x, r, "route.bfd-source")}
         \cup {<<"route bfd profile", r[2], hop, p>> : p \in Field(x, r, "route.bfd-profile")}
<1>2. /\ convertStaticRoutes(c, r) = UNION {T(c, hop) : hop \in Field(c, r, "next-hop")}
      /\ convertStaticRoutes(d, r) = UNION {T(d, hop) : hop \in Field(d, r, "next-hop")}
  BY Zenon DEF convertStaticRoutes
<1>3. \A hop : T(c, hop) = T(d, hop)
  BY <1>1, Zenon
<1> HIDE DEF T
<1> QED
  BY <1>1, <1>2, <1>3, Zenon

\* The static routes.
LEMMA AlikeStaticRoutes ==
  ASSUME NEW c, NEW d, Alike(c, d)
  PROVE  /\ GenerateStaticRouteConfig(c) = GenerateStaticRouteConfig(d)
         /\ frrValidateStaticRoutes(c) <=> frrValidateStaticRoutes(d)
<1>1. /\ Of(c, {"route"}) = Of(d, {"route"})
      /\ Of(c, {"next-hop"}) = Of(d, {"next-hop"})
      /\ \A e : Field(c, e, "next-hop") = Field(d, e, "next-hop")
      /\ \A e : Field(c, e, "route.bfd-source") = Field(d, e, "route.bfd-source")
      /\ \A e : Has(c, e, "route.bfd") <=> Has(d, e, "route.bfd")
      /\ \A e : Has(c, e, "distance") <=> Has(d, e, "distance")
      /\ \A e : \A n \in {"route.bfd-profile", "route.bfd-source", "route.bfd-multihop"} :
           Has(c, e, n) <=> Has(d, e, n)
  BY AlikeReads, RouteRead
<1>2. GenerateStaticRouteConfig(c) = GenerateStaticRouteConfig(d)
  <2>1. \A r : convertStaticRoutes(c, r) = convertStaticRoutes(d, r)
    BY AlikeRoute
  <2> QED
    BY <1>1, <2>1, Zenon DEF GenerateStaticRouteConfig
<1>3. StaticRouteShape(c) <=> StaticRouteShape(d)
  BY <1>1, Zenon DEF StaticRouteShape
<1>4. Formats(c, Each({"distance"}, Distance)) <=> Formats(d, Each({"distance"}, Distance))
  <2>1. {"distance"} \subseteq FrrNode
    BY RouteRead
  <2> QED
    BY <2>1, AlikeFormats
<1>5. frrValidateStaticRoutes(c) <=> frrValidateStaticRoutes(d)
  BY <1>1, <1>3, <1>4, Zenon DEF frrValidateStaticRoutes
<1> QED
  BY <1>2, <1>5

(***************************************************************************)
(* Policy options.                                                         *)
(***************************************************************************)
\* Prefix lists: split by family, named by terms, and merged.
LEMMA AlikePrefixLists ==
  ASSUME NEW c, NEW d, Alike(c, d)
  PROVE  /\ convertPrefixLists(c) = convertPrefixLists(d)
         /\ \A t : MatchPrefixLists(c, t) = MatchPrefixLists(d, t)
         /\ \A t : aggregateRouteMapPrefixListMatches(c, t) = aggregateRouteMapPrefixListMatches(d, t)
<1>1. /\ Of(c, {"prefix-list"}) = Of(d, {"prefix-list"})
      /\ \A e : Field(c, e, "prefix") = Field(d, e, "prefix")
      /\ \A e : Field(c, e, "from.prefix-list") = Field(d, e, "from.prefix-list")
  BY AlikeReads, PolicyRead
<1>2. \A l, v6 : prefixesOf(c, l, v6) = prefixesOf(d, l, v6)
  BY <1>1, Zenon DEF prefixesOf
<1>3. \A l : isSplit(c, l) <=> isSplit(d, l)
  BY <1>2, Zenon DEF isSplit
<1>4. convertPrefixLists(c) = convertPrefixLists(d)
  <2> DEFINE T(x, l) ==
        {k \in {[of |-> Value(l), name |-> <<Value(l)>>, v6 |-> FALSE,
                 prefixes |-> prefixesOf(x, l, FALSE)],
                [of |-> Value(l), name |-> <<IF isSplit(x, l) THEN V6Name[Value(l)] ELSE Value(l)>>,
                 v6 |-> TRUE, prefixes |-> prefixesOf(x, l, TRUE)]} : k.prefixes # {}}
  <2>1. /\ convertPrefixLists(c) = UNION {T(c, l) : l \in Of(c, {"prefix-list"})}
        /\ convertPrefixLists(d) = UNION {T(d, l) : l \in Of(d, {"prefix-list"})}
    BY Zenon DEF convertPrefixLists
  <2>2. \A l : T(c, l) = T(d, l)
    BY <1>2, <1>3, Zenon
  <2> HIDE DEF T
  <2> QED
    BY <1>1, <2>1, <2>2, Zenon
<1>5. \A t : MatchPrefixLists(c, t) = MatchPrefixLists(d, t)
  BY <1>1, <1>3, Zenon DEF MatchPrefixLists
<1>6. \A t : aggregateRouteMapPrefixListMatches(c, t) = aggregateRouteMapPrefixListMatches(d, t)
  <2> SUFFICES ASSUME NEW t
               PROVE  aggregateRouteMapPrefixListMatches(c, t) = aggregateRouteMapPrefixListMatches(d, t)
    OBVIOUS
  <2> DEFINE A(lists, names) ==
        LET found(v6) == {prefixListByName(lists, n) : n \in {m \in names :
                        (\E l \in lists : l.name = m) /\ prefixListByName(lists, m).v6 = v6}}
            merged(v6) == [of |-> t[2], name |-> <<t[2], t[3], v6>>, v6 |-> v6,
                       prefixes |-> UNION {l.prefixes : l \in found(v6)}]
        IN  UNION {IF Cardinality(found(v6)) > 1 THEN {merged(v6)} ELSE found(v6) : v6 \in BOOLEAN}
  <2>1. /\ aggregateRouteMapPrefixListMatches(c, t) = A(convertPrefixLists(c), MatchPrefixLists(c, t))
        /\ aggregateRouteMapPrefixListMatches(d, t) = A(convertPrefixLists(d), MatchPrefixLists(d, t))
    BY Zenon DEF aggregateRouteMapPrefixListMatches
  <2> HIDE DEF A
  <2> QED
    BY <1>4, <1>5, <2>1, Zenon
<1> QED
  BY <1>4, <1>5, <1>6

\* A term's route-map entry.
LEMMA AlikePolicyTerm ==
  ASSUME NEW c, NEW d, Alike(c, d), NEW t, NEW rm
  PROVE  convertPolicyTerm(c, t, rm) = convertPolicyTerm(d, t, rm)
<1>1. /\ Field(c, t, "accept") = Field(d, t, "accept")
      /\ Field(c, t, "from.protocol") = Field(d, t, "from.protocol")
      /\ Field(c, t, "from.neighbor") = Field(d, t, "from.neighbor")
      /\ Field(c, t, "as-path") = Field(d, t, "as-path")
      /\ Field(c, t, "local-preference") = Field(d, t, "local-preference")
      /\ Field(c, t, "community") = Field(d, t, "community")
  BY AlikeReads, PolicyRead
<1>2. aggregateRouteMapPrefixListMatches(c, t) = aggregateRouteMapPrefixListMatches(d, t)
  BY AlikePrefixLists
<1> QED
  BY <1>1, <1>2, Zenon DEF convertPolicyTerm

\* The prefix lists and route-maps.
LEMMA AlikePolicy ==
  ASSUME NEW c, NEW d, Alike(c, d)
  PROVE  /\ GeneratePrefixListConfig(c) = GeneratePrefixListConfig(d)
         /\ GenerateRouteMapConfig(c) = GenerateRouteMapConfig(d)
         /\ validatePolicyObjects(c) <=> validatePolicyObjects(d)
<1>1. Of(c, {"term"}) = Of(d, {"term"})
  BY AlikeReads, PolicyRead
<1>2. /\ convertPrefixLists(c) = convertPrefixLists(d)
      /\ \A t : MatchPrefixLists(c, t) = MatchPrefixLists(d, t)
      /\ \A t : aggregateRouteMapPrefixListMatches(c, t) = aggregateRouteMapPrefixListMatches(d, t)
  BY AlikePrefixLists
<1>3. \A t, rm : convertPolicyTerm(c, t, rm) = convertPolicyTerm(d, t, rm)
  BY AlikePolicyTerm
<1>4. GeneratePrefixListConfig(c) = GeneratePrefixListConfig(d)
  BY <1>1, <1>2, Zenon DEF GeneratePrefixListConfig
<1>5. GenerateRouteMapConfig(c) = GenerateRouteMapConfig(d)
  BY <1>1, <1>3, Zenon DEF GenerateRouteMapConfig
<1>6. validatePolicyObjects(c) <=> validatePolicyObjects(d)
  BY <1>1, <1>2, Zenon DEF validatePolicyObjects
<1> QED
  BY <1>4, <1>5, <1>6

(***************************************************************************)
(* Routing instances, and the whole file.                                  *)
(***************************************************************************)
\* The nodes that the VRF generator reads.
LEMMA InstanceRead ==
  /\ "instance" \in FrrNode /\ "instance.rd" \in FrrNode /\ "instance.target" \in FrrNode
  /\ "instance.target-import" \in FrrNode /\ "instance.target-export" \in FrrNode
  /\ "vrf-import" \in FrrNode /\ "vrf-export" \in FrrNode
BY InstanceNodes DEF FrrNode

\* A VRF's lines.
LEMMA AlikeInstance ==
  ASSUME NEW c, NEW d, Alike(c, d), NEW i
  PROVE  convertVRFConfig(c, i) = convertVRFConfig(d, i)
<1>1. /\ Field(c, i, "instance.target") = Field(d, i, "instance.target")
      /\ Field(c, i, "instance.target-import") = Field(d, i, "instance.target-import")
      /\ Field(c, i, "instance.target-export") = Field(d, i, "instance.target-export")
      /\ Field(c, i, "instance.rd") = Field(d, i, "instance.rd")
      /\ Field(c, i, "vrf-import") = Field(d, i, "vrf-import")
      /\ Field(c, i, "vrf-export") = Field(d, i, "vrf-export")
  BY AlikeReads, InstanceRead
<1>2. /\ vrfImportTargets(c, i) = vrfImportTargets(d, i)
      /\ vrfExportTargets(c, i) = vrfExportTargets(d, i)
  BY <1>1, Zenon DEF vrfImportTargets, vrfExportTargets
<1>3. LinesOf(c, i, "instance.rd", "rd vpn export") = LinesOf(d, i, "instance.rd", "rd vpn export")
  BY <1>1, Zenon DEF LinesOf
<1>4. \A n, direction, policies :
        chainedRouteMap(c, n, direction, policies) = chainedRouteMap(d, n, direction, policies)
  <2>1. Of(c, {"term"}) = Of(d, {"term"})
    BY AlikeReads, PolicyRead
  <2>2. \A t, rm : convertPolicyTerm(c, t, rm) = convertPolicyTerm(d, t, rm)
    BY AlikePolicyTerm
  <2> QED
    BY <2>1, <2>2, Zenon DEF chainedRouteMap
<1> QED
  BY <1>1, <1>2, <1>3, <1>4, Zenon DEF convertVRFConfig

\* The VRF part.
LEMMA AlikeVRF ==
  ASSUME NEW c, NEW d, Alike(c, d)
  PROVE  /\ GenerateVRFConfig(c) = GenerateVRFConfig(d)
         /\ frrValidateVRFConfig(c) <=> frrValidateVRFConfig(d)
<1>1. /\ Of(c, {"instance"}) = Of(d, {"instance"})
      /\ Of(c, {"autonomous-system"}) = Of(d, {"autonomous-system"})
      /\ \A e : Has(c, e, "instance.target") <=> Has(d, e, "instance.target")
      /\ \A e : Has(c, e, "instance.target-import") <=> Has(d, e, "instance.target-import")
      /\ \A e : Has(c, e, "instance.target-export") <=> Has(d, e, "instance.target-export")
      /\ \A e : Has(c, e, "vrf-import") <=> Has(d, e, "vrf-import")
      /\ \A e : Has(c, e, "vrf-export") <=> Has(d, e, "vrf-export")
      /\ \A e : Has(c, e, "instance.rd") <=> Has(d, e, "instance.rd")
  BY AlikeReads, InstanceRead, BGPRead
<1>2. \A i : convertVRFConfig(c, i) = convertVRFConfig(d, i)
  BY AlikeInstance
<1>3. GenerateVRFConfig(c) = GenerateVRFConfig(d)
  <2>1. applyEVPNToVRFs(c) = applyEVPNToVRFs(d)
    BY AlikeEVPN
  <2> QED
    BY <1>1, <1>2, <2>1, Zenon DEF GenerateVRFConfig
<1>4. VPNShape(c) <=> VPNShape(d)
  BY <1>1, Zenon DEF VPNShape
<1>5. References(c, Each({"vrf-import", "vrf-export"}, "policy"))
        <=> References(d, Each({"vrf-import", "vrf-export"}, "policy"))
  <2>1. {"vrf-import", "vrf-export"} \subseteq FrrNode
    BY InstanceRead
  <2> QED
    BY <2>1, PolicyRead, AlikeReferences
<1> QED
  BY <1>3, <1>4, <1>5 DEF frrValidateVRFConfig

\* Two configurations that differ in nothing the FRR plugin acts on make the
\* same file, or both none.
LEMMA AlikeFile ==
  ASSUME NEW c, NEW d, Alike(c, d)
  PROVE  /\ Generates(c) <=> Generates(d)
         /\ GenerateFRRConfigFile(c) = GenerateFRRConfigFile(d)
<1>1. Generates(c) <=> Generates(d)
  BY AlikeBFD, AlikeBGP, AlikeEVPN, AlikeOSPF, AlikeVRRP, AlikeStaticRoutes, AlikePolicy, AlikeVRF, Zenon
     DEF Generates
<1>2. Values(c, "host-name") = Values(d, "host-name")
  <2>1. "host-name" \in FrrNode
    BY SystemNodes DEF FrrNode
  <2> QED
    BY <2>1, AlikeReads
<1>3. GenerateFRRConfigFile(c) = GenerateFRRConfigFile(d)
  BY <1>1, <1>2, AlikeBFD, AlikeBGP, AlikeEVPN, AlikeOSPF, AlikeVRRP, AlikeStaticRoutes, AlikePolicy,
     AlikeVRF, Zenon DEF GenerateFRRConfigFile
<1> QED
  BY <1>1, <1>3

\* ToLegacyConfig adds the areas' area-id and nothing else, and keeps all that
\* the FRR plugin acts on.
LEMMA Legacy ==
  ASSUME NEW c
  PROVE  /\ \A s \in ToLegacyConfig(c) : s[1] = "area-id" \/ s \in c
         /\ \A s \in c : s[1] \in FrrNode \cup {"interface"} => s \in ToLegacyConfig(c)
         /\ "area-id" \notin FrrNode
<1> DEFINE nodes == systemToLegacy \cup chassisToLegacy \cup interfacesToLegacy \cup routingToLegacy
          \cup protocolsToLegacy \cup instancesToLegacy \cup policyToLegacy \cup securityToLegacy
          \cup classOfServiceToLegacy \cup ospfToLegacy \cup bfdToLegacy \cup evpnToLegacy
<1>2. DOMAIN BFDTree \subseteq nodes
  BY BFDNodes DEF bfdToLegacy
<1>3. DOMAIN EVPNTree \subseteq nodes
  BY EVPNNodes DEF evpnToLegacy
<1>4. DOMAIN LinkTree \subseteq nodes /\ bgpCompared \subseteq nodes
  BY LinkNodes DEF protocolsToLegacy, bgpCompared
<1>5. ospfCompared \subseteq nodes
  BY DEF ospfToLegacy, ospfCompared
<1>6. routingCompared \subseteq nodes /\ staticRoutesCompared \subseteq nodes
  BY DEF routingToLegacy, routingCompared, staticRoutesCompared
<1>7. DOMAIN InstanceTree \subseteq nodes
  BY InstanceNodes DEF instancesToLegacy
<1>8. DOMAIN PolicyTree \subseteq nodes
  BY PolicyNodes DEF policyToLegacy
<1>9. DOMAIN SystemTree \subseteq nodes
  BY SystemNodes DEF systemToLegacy
<1>10. {"interface", "address"} \subseteq nodes
  BY DEF interfacesToLegacy
<1> HIDE DEF nodes
<1>11. FrrNode \cup {"interface"} \subseteq nodes
  BY <1>2, <1>3, <1>4, <1>5, <1>6, <1>7, <1>8, <1>9, <1>10 DEF FrrNode
<1> DEFINE kept == {s \in c : s[1] \in nodes}
<1>12. ToLegacyConfig(c) = WithAreaID(kept)
  BY DEF ToLegacyConfig, Of, nodes
<1> HIDE DEF kept
<1>13. kept \subseteq ToLegacyConfig(c) /\ \A s \in ToLegacyConfig(c) : s[1] = "area-id" \/ s \in kept
  BY <1>12 DEF WithAreaID
<1>14. "area-id" \notin FrrNode
  BY BFDNodes, EVPNNodes, LinkNodes, InstanceNodes, PolicyNodes, SystemNodes
     DEF FrrNode, bgpCompared, ospfCompared, routingCompared, staticRoutesCompared
<1> QED
  BY <1>11, <1>13, <1>14 DEF kept

\* The flags that are not set say that nothing the FRR plugin acts on differs.
LEMMA UnchangedIsAlike ==
  ASSUME NEW old \in Config, NEW new \in Config,
         ~hasFRRRelevantChanges(ComputeDiff(old, new))
  PROVE  Alike(ToLegacyConfig(old), ToLegacyConfig(new))
<1>1. \A name, set : name \in Flag(name, set) <=> set
  BY DEF Flag
<1>2. /\ computeInterfaceDiff(old, new) \subseteq ComputeDiff(old, new)
      /\ computeProtocolDiff(old, new) \subseteq ComputeDiff(old, new)
      /\ computeRoutingDiff(old, new) \subseteq ComputeDiff(old, new)
      /\ computePolicyDiff(old, new) \subseteq ComputeDiff(old, new)
      /\ computeSystemDiff(old, new) \subseteq ComputeDiff(old, new)
  BY DEF ComputeDiff
<1>3. /\ "InterfacesAdded" \notin ComputeDiff(old, new) /\ "InterfacesRemoved" \notin ComputeDiff(old, new)
      /\ "AddressesChanged" \notin ComputeDiff(old, new)
      /\ "BFDChanged" \notin ComputeDiff(old, new) /\ "BGPChanged" \notin ComputeDiff(old, new)
      /\ "EVPNChanged" \notin ComputeDiff(old, new) /\ "OSPFChanged" \notin ComputeDiff(old, new)
      /\ "OSPF3Changed" \notin ComputeDiff(old, new) /\ "VRRPChanged" \notin ComputeDiff(old, new)
      /\ "StaticRoutesChanged" \notin ComputeDiff(old, new) /\ "RoutingChanged" \notin ComputeDiff(old, new)
      /\ "RoutingInstancesChanged" \notin ComputeDiff(old, new)
      /\ "PolicyChanged" \notin ComputeDiff(old, new) /\ "SystemChanged" \notin ComputeDiff(old, new)
  BY DEF hasFRRRelevantChanges, hasFRRRelevantInterfaceChanges
<1>4. /\ interfaceNames(old) = interfaceNames(new)
      /\ \A i \in interfaceNames(old) : collectAddresses(old, i) = collectAddresses(new, i)
  BY <1>1, <1>2, <1>3 DEF computeInterfaceDiff
<1>5. /\ ~Differ(old, new, DOMAIN BFDTree) /\ ~Differ(old, new, bgpCompared)
      /\ ~Differ(old, new, DOMAIN EVPNTree) /\ ~Differ(old, new, DOMAIN LinkTree \ {"mpls.interface"})
      /\ ospfEqual(old, new, "v2") /\ ospfEqual(old, new, "v3")
  BY <1>1, <1>2, <1>3 DEF computeProtocolDiff
<1>6. /\ ~Differ(old, new, routingCompared) /\ ~Differ(old, new, staticRoutesCompared)
      /\ ~Differ(old, new, DOMAIN InstanceTree)
      /\ ~Differ(old, new, DOMAIN PolicyTree) /\ ~Differ(old, new, DOMAIN SystemTree)
  BY <1>1, <1>2, <1>3 DEF computeRoutingDiff, computePolicyDiff, computeSystemDiff
<1>7. HasEntries(old) /\ HasEntries(new)
  BY ConfigAssumption
<1>8. \A s : s[1] \in ospfCompared => (s \in old <=> s \in new)
  BY <1>5, <1>7 DEF ospfEqual, Of, HasEntries
<1>9. \A s : s[1] = "address" => (s \in old <=> s \in new)
  <2> SUFFICES ASSUME NEW s, s[1] = "address" PROVE s \in old <=> s \in new
    OBVIOUS
  <2>1. \A x : s \in collectAddresses(x, s[2]) <=> s \in x
    BY DEF collectAddresses, Of
  <2>2. (s \in old => s[2] \in interfaceNames(old)) /\ (s \in new => s[2] \in interfaceNames(new))
    BY <1>7 DEF HasEntries
  <2> QED
    BY <1>4, <2>1, <2>2
<1>10. \A s : s[1] \in FrrNode => (s \in old <=> s \in new)
  BY <1>5, <1>6, <1>8, <1>9 DEF FrrNode, Differ, Of
<1>11. \A c : interfaceNames(ToLegacyConfig(c)) = interfaceNames(c)
  <2> SUFFICES ASSUME NEW c PROVE Of(ToLegacyConfig(c), {"interface"}) = Of(c, {"interface"})
    BY DEF interfaceNames
  <2> QED
    BY Legacy DEF Of
<1> QED
  BY <1>4, <1>10, <1>11, Legacy DEF Alike

(***************************************************************************)
(* A change that the plugin does not act on leaves the file as it is: the  *)
(* flags of the difference (internal/engine/diff.go) that the plugin looks *)
(* at cover everything the generator (pkg/frr) reads.                      *)
(***************************************************************************)
THEOREM FrrDiffIsComplete ==
  ASSUME NEW old \in Config, NEW new \in Config,
         ~hasFRRRelevantChanges(ComputeDiff(old, new))
  PROVE  /\ Generates(ToLegacyConfig(old)) <=> Generates(ToLegacyConfig(new))
         /\ Artifacts[old].file = Artifacts[new].file
<1>1. Alike(ToLegacyConfig(old), ToLegacyConfig(new))
  BY UnchangedIsAlike
<1>2. /\ Generates(ToLegacyConfig(old)) <=> Generates(ToLegacyConfig(new))
      /\ GenerateFRRConfigFile(ToLegacyConfig(old)) = GenerateFRRConfigFile(ToLegacyConfig(new))
  BY <1>1, AlikeFile
<1>3. \A c \in Config : Artifacts[c].file = GenerateFRRConfigFile(ToLegacyConfig(c))
  BY DEF Artifacts, generateFRRArtifacts
<1> QED
  BY <1>2, <1>3

(***************************************************************************)
(* Which commands each part of the file consists of.                       *)
(***************************************************************************)
BGPCommands == buildBGPOps \cup {"neighbor bfd profile"}

EVPNCommands == {"advertise-all-vni", "vni import", "vni export"}

RouteMapCommands == buildRouteMapOps \cup {"match source-protocol", "match peer", "match as-path",
                                           "as-path access-list"}

VRFCommands == buildVRFOps \cup RouteMapCommands \cup {"vrf vni", "evpn import", "evpn export"}

\* A line begins with its command.
LEMMA Heads ==
  /\ \A x : <<x>>[1] = x
  /\ \A x, a : <<x, a>>[1] = x
  /\ \A x, a, b : <<x, a, b>>[1] = x
  /\ \A x, a, b, d : <<x, a, b, d>>[1] = x
  /\ \A x, a, b, d, e : <<x, a, b, d, e>>[1] = x
  /\ \A x, a, b, d, e, f : <<x, a, b, d, e, f>>[1] = x
OBVIOUS

\* Its second component is its first argument.
LEMMA Seconds ==
  /\ \A x, a : <<x, a>>[2] = a
  /\ \A x, a, b : <<x, a, b>>[2] = a
  /\ \A x, a, b, d : <<x, a, b, d>>[2] = a
OBVIOUS

\* What a line that is some tuple headed by a command of a set begins with.
LEMMA HeadIn ==
  ASSUME NEW l, NEW set,
         \E x \in set : \E a, b, d, e, f :
           l \in {<<x>>, <<x, a>>, <<x, a, b>>, <<x, a, b, d>>, <<x, a, b, d, e>>, <<x, a, b, d, e, f>>}
  PROVE  l[1] \in set
<1>1. PICK x \in set : \E a, b, d, e, f :
        l \in {<<x>>, <<x, a>>, <<x, a, b>>, <<x, a, b, d>>, <<x, a, b, d, e>>, <<x, a, b, d, e, f>>}
  OBVIOUS
<1>2. l[1] = x
  <2>1. PICK a, b, d, e, f :
          l \in {<<x>>, <<x, a>>, <<x, a, b>>, <<x, a, b, d>>, <<x, a, b, d, e>>, <<x, a, b, d, e, f>>}
    BY <1>1
  <2> QED
    BY <2>1, Heads
<1> QED
  BY <1>2

\* The commands of static routes; the lemmas called Lines say which commands a
\* part of the file has, or what a command's presence says about the
\* configuration.
LEMMA StaticRouteLines ==
  ASSUME NEW c, NEW l \in GenerateStaticRouteConfig(c)
  PROVE  l[1] \in buildStaticRouteOps
<1>1. PICK r \in Of(c, {"route"}) : l \in convertStaticRoutes(c, r)
  BY DEF GenerateStaticRouteConfig
<1> DEFINE T(hop) ==
      {<<"ip route", r[2], hop>>}
         \cup {<<"route distance", r[2], hop, d>> : d \in Field(c, r, "distance")}
         \cup {<<"route bfd", r[2], hop>> : s \in Within(c, r, {"route.bfd"})}
         \cup {<<"route bfd multi-hop", r[2], hop>> : s \in Within(c, r, {"route.bfd-multihop"})}
         \cup {<<"route bfd source", r[2], hop, a>> : a \in Field(c, r, "route.bfd-source")}
         \cup {<<"route bfd profile", r[2], hop, p>> : p \in Field(c, r, "route.bfd-profile")}
<1>2. l \in UNION {T(hop) : hop \in Field(c, r, "next-hop")}
  BY <1>1, Zenon DEF convertStaticRoutes
<1> HIDE DEF T
<1>3. PICK hop \in Field(c, r, "next-hop") : l \in T(hop)
  BY <1>2, Zenon
<1>4. \E x \in buildStaticRouteOps : \E d : l = <<x, r[2], hop>> \/ l = <<x, r[2], hop, d>>
  BY <1>3 DEF T, buildStaticRouteOps
<1> QED
  BY <1>4, HeadIn

\* The command of prefix lists.
LEMMA PrefixListLines ==
  ASSUME NEW c, NEW l \in GeneratePrefixListConfig(c)
  PROVE  l[1] = "prefix-list"
BY DEF GeneratePrefixListConfig

\* The commands of a term's entry.
LEMMA PolicyTermLines ==
  ASSUME NEW c, NEW t, NEW rm, NEW l \in convertPolicyTerm(c, t, rm)
  PROVE  l[1] \in RouteMapCommands
<1>1. \E x \in RouteMapCommands : \E a, b : l = <<x, rm, t[2], t[3], a>> \/ l = <<x, rm, t[2], t[3], a, b>>
  BY DEF convertPolicyTerm, RouteMapCommands, buildRouteMapOps
<1> QED
  BY <1>1, HeadIn

\* The commands of route-maps.
LEMMA RouteMapLines ==
  ASSUME NEW c, NEW l \in GenerateRouteMapConfig(c)
  PROVE  l[1] \in RouteMapCommands
<1>1. PICK t \in Of(c, {"term"}) : l \in convertPolicyTerm(c, t, <<t[2]>>)
  BY Zenon DEF GenerateRouteMapConfig
<1> QED
  BY <1>1, PolicyTermLines

\* The commands of a neighbor.
LEMMA BGPNeighborLines ==
  ASSUME NEW c, NEW n, NEW l \in convertBGPNeighbor(c, n)
  PROVE  l[1] \in BGPCommands
<1>1. \E x \in BGPCommands : \E v : l = <<x, Value(n)>> \/ l = <<x, Value(n), v>>
  BY DEF convertBGPNeighbor, LinesOf, BGPCommands, buildBGPOps
<1> QED
  BY <1>1, HeadIn

\* The commands of BGP.
LEMMA BGPLines ==
  ASSUME NEW c, NEW l \in GenerateBGPConfig(c)
  PROVE  l[1] \in BGPCommands
<1>1. CASE \E n \in Of(c, {"neighbor"}) : l \in convertBGPNeighbor(c, n)
  BY <1>1, BGPNeighborLines
<1>2. CASE \E v : l = <<"router bgp", v>> \/ l = <<"bgp router-id", v>>
  <2>1. "router bgp" \in BGPCommands /\ "bgp router-id" \in BGPCommands
    BY DEF BGPCommands, buildBGPOps
  <2> QED
    BY <1>2, <2>1, HeadIn
<1> QED
  BY <1>1, <1>2 DEF GenerateBGPConfig

\* The commands of EVPN.
LEMMA EVPNLines ==
  ASSUME NEW c, NEW l \in GenerateEVPNConfig(c)
  PROVE  l[1] \in EVPNCommands
<1>1. \E x \in EVPNCommands : \E a, b : l = <<x>> \/ l = <<x, a, b>>
  BY DEF GenerateEVPNConfig, EVPNCommands
<1> QED
  BY <1>1, HeadIn

\* The commands EVPN adds to VRFs.
LEMMA EVPNVRFLines ==
  ASSUME NEW c, NEW l \in applyEVPNToVRFs(c)
  PROVE  l[1] \in {"vrf vni", "evpn import", "evpn export"}
<1> DEFINE T(v, i) == {<<"vrf vni", i, Value(v)>>}
                      \cup {<<"evpn import", i, t>> : t \in evpnImportTargets(c, v)}
                      \cup {<<"evpn export", i, t>> : t \in evpnExportTargets(c, v)}
<1>1. l \in UNION {UNION {T(v, i) : i \in Field(c, v, "vni.instance")} : v \in L3(c)}
  BY Zenon DEF applyEVPNToVRFs
<1> HIDE DEF T
<1>2. PICK v \in L3(c) : l \in UNION {T(v, i) : i \in Field(c, v, "vni.instance")}
  BY <1>1, Zenon
<1>3. PICK i : l \in T(v, i)
  BY <1>2, Zenon
<1>4. \E x \in {"vrf vni", "evpn import", "evpn export"} : \E b : l = <<x, i, b>>
  BY <1>3 DEF T
<1> QED
  BY <1>4, HeadIn

\* The shape of an OSPF interface's lines.
LEMMA OSPFInterfaceLine ==
  ASSUME NEW c, NEW s, NEW l \in convertOSPFInterface(c, s)
  PROVE  \E x \in OSPFCommands : \E v : l = <<x, s[2], Value(s)>> \/ l = <<x, s[2], Value(s), v>>
BY DEF convertOSPFInterface, OSPFCommands, buildOSPFOps

\* Their commands, and the version they carry.
LEMMA OSPFInterfaceLines ==
  ASSUME NEW c, NEW s, NEW l \in convertOSPFInterface(c, s)
  PROVE  l[1] \in OSPFCommands /\ l[2] = s[2]
<1>1. PICK x \in OSPFCommands : \E v : l = <<x, s[2], Value(s)>> \/ l = <<x, s[2], Value(s), v>>
  BY OSPFInterfaceLine
<1>2. PICK v : l = <<x, s[2], Value(s)>> \/ l = <<x, s[2], Value(s), v>>
  BY <1>1
<1> QED
  BY <1>2, Heads, Seconds

\* The commands of OSPF, of a version that is configured.
LEMMA OSPFLines ==
  ASSUME NEW c, NEW version, NEW l \in GenerateOSPFConfig(c, version)
  PROVE  /\ <<"ospf", version>> \in c
         /\ l[1] \in OSPFCommands
         /\ l[1] # "network" => l[2] = version
<1>0. <<"ospf", version>> \in c
  BY DEF GenerateOSPFConfig
<1>1. CASE \E s \in ospfInterfaces(c, version) : l \in convertOSPFInterface(c, s)
  BY <1>0, <1>1, OSPFInterfaceLines DEF ospfInterfaces
<1>2. CASE l = <<"router ospf", version>>
  BY <1>0, <1>2 DEF OSPFCommands, buildOSPFOps
<1>3. CASE \E id : l = <<"ospf router-id", version, id>>
  <2>1. PICK id : l = <<"ospf router-id", version, id>>
    BY <1>3
  <2> QED
    BY <1>0, <2>1 DEF OSPFCommands, buildOSPFOps
<1>4. CASE \E a, b : l = <<"network", a, b>>
  <2>1. PICK a, b : l = <<"network", a, b>>
    BY <1>4
  <2> QED
    BY <1>0, <2>1 DEF OSPFCommands, buildOSPFOps
<1> QED
  BY <1>1, <1>2, <1>3, <1>4 DEF GenerateOSPFConfig

\* A line of the VRF part comes from EVPN, from the VRF or from a policy
\* chained for it.
LEMMA VRFOrigin ==
  ASSUME NEW c, NEW l \in GenerateVRFConfig(c)
  PROVE  \/ l \in applyEVPNToVRFs(c)
         \/ l[1] \in buildVRFOps
         \/ \E t, rm : l \in convertPolicyTerm(c, t, rm)
<1>1. CASE l \in applyEVPNToVRFs(c)
  BY <1>1
<1>2. CASE \E i \in Of(c, {"instance"}) : l \in convertVRFConfig(c, i)
  <2>1. PICK i \in Of(c, {"instance"}) : l \in convertVRFConfig(c, i)
    BY <1>2
  <2>2. \/ \E x \in buildVRFOps : \E a, b, d : l = <<x, a>> \/ l = <<x, a, b>> \/ l = <<x, a, b, d>>
        \/ \E n, direction, policies : l \in chainedRouteMap(c, n, direction, policies)
    BY <2>1 DEF convertVRFConfig, LinesOf, buildVRFOps
  <2>3. (\E x \in buildVRFOps : \E a, b, d : l = <<x, a>> \/ l = <<x, a, b>> \/ l = <<x, a, b, d>>)
          => l[1] \in buildVRFOps
    BY HeadIn
  <2>4. ASSUME NEW n, NEW direction, NEW policies, l \in chainedRouteMap(c, n, direction, policies)
        PROVE  \E t, rm : l \in convertPolicyTerm(c, t, rm)
    BY <2>4, Zenon DEF chainedRouteMap
  <2> QED
    BY <2>2, <2>3, <2>4
<1> QED
  BY <1>1, <1>2, Zenon DEF GenerateVRFConfig

\* The commands of VRFs.
LEMMA VRFLines ==
  ASSUME NEW c, NEW l \in GenerateVRFConfig(c)
  PROVE  l[1] \in VRFCommands
BY VRFOrigin, EVPNVRFLines, PolicyTermLines DEF VRFCommands

\* Every line of a file comes from one part, with that part's commands.
LEMMA FileLines ==
  ASSUME NEW c, Generates(c), NEW l \in GenerateFRRConfigFile(c)
  PROVE  \/ l[1] = "hostname"
         \/ l \in GenerateStaticRouteConfig(c) /\ l[1] \in buildStaticRouteOps
         \/ l \in GeneratePrefixListConfig(c) /\ l[1] = "prefix-list"
         \/ l \in GenerateRouteMapConfig(c) /\ l[1] \in RouteMapCommands
         \/ l \in GenerateBFDConfig(c) /\ l \in c /\ l[1] \in DOMAIN BFDTree
         \/ l \in GenerateBGPConfig(c) /\ l[1] \in BGPCommands
         \/ l \in GenerateEVPNConfig(c) /\ l[1] \in EVPNCommands
         \/ l \in GenerateOSPFConfig(c, "v2") /\ l[1] \in OSPFCommands
         \/ l \in GenerateOSPFConfig(c, "v3") /\ l[1] \in OSPFCommands
         \/ l \in GenerateVRRPConfig(c) /\ l \in c /\ l[1] \in DOMAIN LinkTree \ {"mpls.interface"}
         \/ l \in GenerateVRFConfig(c) /\ l[1] \in VRFCommands
<1>1. l \in {<<"hostname", h>> : h \in Values(c, "host-name")} => l[1] = "hostname"
  OBVIOUS
<1>2. l \in GenerateBFDConfig(c) => l \in c /\ l[1] \in DOMAIN BFDTree
  BY DEF GenerateBFDConfig, Of
<1>3. l \in GenerateVRRPConfig(c) => l \in c /\ l[1] \in DOMAIN LinkTree \ {"mpls.interface"}
  BY DEF GenerateVRRPConfig, Of
<1>4. l \in {<<"hostname", h>> : h \in Values(c, "host-name")}
             \cup GenerateStaticRouteConfig(c) \cup GeneratePrefixListConfig(c) \cup GenerateRouteMapConfig(c)
             \cup GenerateBFDConfig(c) \cup GenerateBGPConfig(c) \cup GenerateEVPNConfig(c)
             \cup GenerateOSPFConfig(c, "v2") \cup GenerateOSPFConfig(c, "v3") \cup GenerateVRRPConfig(c)
             \cup GenerateVRFConfig(c)
  BY Zenon DEF GenerateFRRConfigFile
<1> QED
  BY <1>1, <1>2, <1>3, <1>4, StaticRouteLines, PrefixListLines, RouteMapLines, BGPLines, EVPNLines,
     OSPFLines, VRFLines

\* Every part is in the file.
LEMMA PartsOfFile ==
  ASSUME NEW c, Generates(c)
  PROVE  /\ GenerateRouteMapConfig(c) \subseteq GenerateFRRConfigFile(c)
         /\ GenerateBFDConfig(c) \subseteq GenerateFRRConfigFile(c)
         /\ GenerateBGPConfig(c) \subseteq GenerateFRRConfigFile(c)
         /\ GenerateEVPNConfig(c) \subseteq GenerateFRRConfigFile(c)
         /\ GenerateOSPFConfig(c, "v2") \subseteq GenerateFRRConfigFile(c)
         /\ GenerateOSPFConfig(c, "v3") \subseteq GenerateFRRConfigFile(c)
         /\ GenerateVRRPConfig(c) \subseteq GenerateFRRConfigFile(c)
BY DEF GenerateFRRConfigFile

\* Nodes that the file names as the configuration does.
Kept == {"peer", "peer.multihop", "peer.local-address", "peer.interface", "vrrp", "vrrp.interface",
         "virtual-address"}

\* BFD peers and VRRP groups are in the file as they are configured.
LEMMA KeptLines ==
  ASSUME NEW c, Generates(c), NEW n \in Kept
  PROVE  Of(GenerateFRRConfigFile(c), {n}) = Of(c, {n})
<1>1. ASSUME NEW l \in GenerateFRRConfigFile(c), l[1] = n
      PROVE  l \in c
  <2>1. /\ n # "hostname" /\ n # "prefix-list"
        /\ n \notin buildStaticRouteOps /\ n \notin RouteMapCommands /\ n \notin BGPCommands
        /\ n \notin EVPNCommands /\ n \notin OSPFCommands /\ n \notin VRFCommands
    BY DEF Kept, buildStaticRouteOps, RouteMapCommands, BGPCommands, EVPNCommands, OSPFCommands,
           VRFCommands, buildRouteMapOps, buildBGPOps, buildOSPFOps, buildVRFOps
  <2> QED
    BY <1>1, <2>1, FileLines
<1>2. ASSUME NEW l \in c, l[1] = n
      PROVE  l \in GenerateFRRConfigFile(c)
  <2>1. n \in DOMAIN BFDTree \/ n \in DOMAIN LinkTree \ {"mpls.interface"}
    BY BFDNodes, LinkNodes DEF Kept
  <2>2. n # "peer.vrf"
    BY DEF Kept
  <2>3. l \in GenerateBFDConfig(c) \/ l \in GenerateVRRPConfig(c)
    BY <1>2, <2>1, <2>2 DEF GenerateBFDConfig, GenerateVRRPConfig, Of
  <2> QED
    BY <2>3, PartsOfFile
<1> QED
  BY <1>1, <1>2 DEF Of

\* So reading them from the file gives what reading the configuration does.
LEMMA KeptReads ==
  ASSUME NEW c, Generates(c)
  PROVE  /\ \A n \in Kept : Of(GenerateFRRConfigFile(c), {n}) = Of(c, {n})
         /\ \A n \in Kept : \A e : Within(GenerateFRRConfigFile(c), e, {n}) = Within(c, e, {n})
         /\ \A n \in Kept : \A e : Has(GenerateFRRConfigFile(c), e, n) <=> Has(c, e, n)
         /\ \A n \in Kept : \A e : Field(GenerateFRRConfigFile(c), e, n) = Field(c, e, n)
<1>1. \A n \in Kept : Of(GenerateFRRConfigFile(c), {n}) = Of(c, {n})
  BY KeptLines
<1>2. \A n \in Kept : \A e : Within(GenerateFRRConfigFile(c), e, {n}) = Within(c, e, {n})
  BY <1>1 DEF Within
<1> QED
  BY <1>1, <1>2 DEF Has, Field

(***************************************************************************)
(* The operations and the VRRP interfaces can be told from the file.       *)
(***************************************************************************)
\* The VRRP interfaces depend on the VRRP groups alone.
LEMMA SameLinks ==
  ASSUME NEW c, NEW F, Of(F, {"vrrp"}) = Of(c, {"vrrp"}),
         \A e : Field(F, e, "vrrp.interface") = Field(c, e, "vrrp.interface"),
         \A e : Field(F, e, "virtual-address") = Field(c, e, "virtual-address")
  PROVE  vrrpSystemInterfaces(c) = vrrpSystemInterfaces(F)
<1> DEFINE U(I, A, g) == {<<<<a \in IP6, i, Value(g)>>, a>> : i \in I, a \in A}
           T(x, g) == U(Field(x, g, "vrrp.interface"), Field(x, g, "virtual-address"), g)
<1>1. /\ vrrpSystemInterfaces(c) = UNION {T(c, g) : g \in Of(c, {"vrrp"})}
      /\ vrrpSystemInterfaces(F) = UNION {T(F, g) : g \in Of(F, {"vrrp"})}
  BY DEF vrrpSystemInterfaces
<1> HIDE DEF U
<1>2. \A g : T(c, g) = T(F, g)
  OBVIOUS
<1> HIDE DEF T
<1> QED
  BY <1>1, <1>2

\* The file tells the operations, the VRRP interfaces and whether BFD sessions
\* are keyed.
LEMMA TellFromFile ==
  ASSUME NEW c, Generates(c)
  PROVE  /\ BuildMgmtOperations(c) =
               {l \in GenerateFRRConfigFile(c) : HasMgmtOperation(GenerateFRRConfigFile(c), l)}
         /\ vrrpSystemInterfaces(c) = vrrpSystemInterfaces(GenerateFRRConfigFile(c))
         /\ SessionsAreKeyed(c) <=> SessionsAreKeyed(GenerateFRRConfigFile(c))
<1> DEFINE F == GenerateFRRConfigFile(c)
<1>1. /\ \A e : Has(F, e, "peer.multihop") <=> Has(c, e, "peer.multihop")
      /\ \A e : Has(F, e, "peer.local-address") <=> Has(c, e, "peer.local-address")
      /\ \A e : Has(F, e, "peer.interface") <=> Has(c, e, "peer.interface")
      /\ Of(F, {"peer"}) = Of(c, {"peer"}) /\ Of(F, {"vrrp"}) = Of(c, {"vrrp"})
      /\ \A e : Field(F, e, "vrrp.interface") = Field(c, e, "vrrp.interface")
      /\ \A e : Field(F, e, "virtual-address") = Field(c, e, "virtual-address")
  BY KeptReads DEF Kept
<1> HIDE DEF F
<1>2. \A l : HasMgmtOperation(c, l) <=> HasMgmtOperation(F, l)
  BY <1>1, Zenon DEF HasMgmtOperation, buildBFDPeerOps
<1>3. BuildMgmtOperations(c) = {l \in F : HasMgmtOperation(F, l)}
  BY <1>2, Zenon DEF BuildMgmtOperations, F
<1>4. vrrpSystemInterfaces(c) = vrrpSystemInterfaces(F)
  BY <1>1, SameLinks
<1>5. SessionsAreKeyed(c) <=> SessionsAreKeyed(F)
  BY <1>1, Zenon DEF SessionsAreKeyed
<1> QED
  BY <1>3, <1>4, <1>5 DEF F

\* The lines that no operation expresses and that make a configuration need the
\* file backend.
FromCommands == {"match source-protocol", "match peer", "match as-path", "as-path access-list"}

FromNodes == {"from.protocol", "from.neighbor", "as-path"}

\* A command that the transactional backend has no operation for comes from a
\* condition that makes the plugin choose the file: in a term,
LEMMA FromTermLines ==
  ASSUME NEW c, NEW t, NEW rm, NEW l \in convertPolicyTerm(c, t, rm), l[1] \in FromCommands
  PROVE  Of(c, FromNodes) # {}
<1>1. \/ \E n \in FromNodes : Field(c, t, n) # {}
      \/ \E x \in RouteMapCommands \ FromCommands : \E a, b :
           l = <<x, rm, t[2], t[3], a>> \/ l = <<x, rm, t[2], t[3], a, b>>
  BY DEF convertPolicyTerm, FromCommands, FromNodes, RouteMapCommands, buildRouteMapOps
<1>2. (\E x \in RouteMapCommands \ FromCommands : \E a, b :
           l = <<x, rm, t[2], t[3], a>> \/ l = <<x, rm, t[2], t[3], a, b>>)
        => l[1] \in RouteMapCommands \ FromCommands
  BY HeadIn
<1>3. PICK n \in FromNodes : Field(c, t, n) # {}
  BY <1>1, <1>2
<1> QED
  BY <1>3 DEF Field, Within, Of

\* in the whole file,
LEMMA FromLines ==
  ASSUME NEW c, Generates(c), NEW l \in GenerateFRRConfigFile(c), l[1] \in FromCommands
  PROVE  Of(c, FromNodes) # {}
<1>1. /\ l[1] # "hostname" /\ l[1] # "prefix-list" /\ l[1] \notin buildStaticRouteOps
      /\ l[1] \notin DOMAIN BFDTree /\ l[1] \notin BGPCommands /\ l[1] \notin EVPNCommands
      /\ l[1] \notin OSPFCommands /\ l[1] \notin DOMAIN LinkTree
  BY BFDNodes, LinkNodes DEF FromCommands, buildStaticRouteOps, BGPCommands, buildBGPOps, EVPNCommands,
     OSPFCommands, buildOSPFOps
<1>2. CASE l \in GenerateRouteMapConfig(c)
  <2>1. \E t, rm : l \in convertPolicyTerm(c, t, rm)
    BY <1>2, Zenon DEF GenerateRouteMapConfig
  <2> QED
    BY <2>1, FromTermLines
<1>3. CASE l \in GenerateVRFConfig(c)
  <2>1. l \notin applyEVPNToVRFs(c)
    BY EVPNVRFLines DEF FromCommands
  <2>2. l[1] \notin buildVRFOps
    BY DEF FromCommands, buildVRFOps
  <2> QED
    BY <1>3, <2>1, <2>2, VRFOrigin, FromTermLines
<1> QED
  BY <1>1, <1>2, <1>3, FileLines

\* for a neighbor's BFD profile,
LEMMA NeighborProfileLines ==
  ASSUME NEW c, Generates(c), NEW l \in GenerateFRRConfigFile(c), l[1] = "neighbor bfd profile"
  PROVE  Of(c, {"neighbor.bfd-profile"}) # {}
<1>1. /\ l[1] \notin buildStaticRouteOps /\ l[1] \notin RouteMapCommands
      /\ l[1] \notin DOMAIN BFDTree /\ l[1] \notin EVPNCommands
      /\ l[1] \notin OSPFCommands /\ l[1] \notin DOMAIN LinkTree /\ l[1] \notin VRFCommands
  BY BFDNodes, LinkNodes DEF buildStaticRouteOps, EVPNCommands, OSPFCommands, buildOSPFOps,
     RouteMapCommands, buildRouteMapOps, VRFCommands, buildVRFOps
<1>2. l \in GenerateBGPConfig(c)
  BY <1>1, FileLines
<1>3. \/ \E n \in Of(c, {"neighbor"}) : l \in convertBGPNeighbor(c, n)
      \/ \E v : l = <<"router bgp", v>> \/ l = <<"bgp router-id", v>>
  BY <1>2 DEF GenerateBGPConfig
<1>4. (\E v : l = <<"router bgp", v>> \/ l = <<"bgp router-id", v>>)
        => l[1] \in {"router bgp", "bgp router-id"}
  BY HeadIn
<1>5. PICK n \in Of(c, {"neighbor"}) : l \in convertBGPNeighbor(c, n)
  BY <1>3, <1>4
<1>6. \/ Has(c, n, "neighbor.bfd-profile")
      \/ \E x \in buildBGPOps : \E v : l = <<x, Value(n)>> \/ l = <<x, Value(n), v>>
  BY <1>5 DEF convertBGPNeighbor, LinesOf, buildBGPOps
<1>7. (\E x \in buildBGPOps : \E v : l = <<x, Value(n)>> \/ l = <<x, Value(n), v>>)
        => l[1] \in buildBGPOps
  BY HeadIn
<1>8. Has(c, n, "neighbor.bfd-profile")
  BY <1>6, <1>7 DEF buildBGPOps
<1> QED
  BY <1>8 DEF Has, Within

\* for an OSPF interface's BFD profile,
LEMMA InterfaceProfileLines ==
  ASSUME NEW D, NEW new, HasEntries(new), \A s \in D : s[1] = "area-id" \/ s \in new,
         NEW l \in GenerateOSPFConfig(D, "v2"), l[1] = "ospf bfd profile"
  PROVE  {s \in Of(D, {"area.bfd-profile"}) : s[2] = "v2"} # {}
<1>1. PICK j \in ospfInterfaces(D, "v2") : l \in convertOSPFInterface(D, j)
  <2> DEFINE router == {"router ospf", "ospf router-id", "network"}
  <2>1. \/ \E j \in ospfInterfaces(D, "v2") : l \in convertOSPFInterface(D, j)
        \/ \E x \in router : \E a, b : l = <<x, a>> \/ l = <<x, a, b>>
    BY DEF GenerateOSPFConfig
  <2>2. (\E x \in router : \E a, b : l = <<x, a>> \/ l = <<x, a, b>>) => l[1] \in router
    BY HeadIn
  <2> QED
    BY <2>1, <2>2
<1>2. PICK k \in Within(D, j, {"area.bfd-profile"}) : TRUE
  <2> DEFINE other == OSPFCommands \ {"ospf bfd profile"}
  <2>1. \/ Has(D, j, "area.bfd-profile")
        \/ \E x \in other : \E a, b, v : l = <<x, a, b>> \/ l = <<x, a, b, v>>
    BY <1>1 DEF convertOSPFInterface, OSPFCommands, buildOSPFOps
  <2>2. "ospf bfd profile" \notin other
    OBVIOUS
  <2> HIDE DEF other
  <2>3. (\E x \in other : \E a, b, v : l = <<x, a, b>> \/ l = <<x, a, b, v>>) => l[1] \in other
    BY HeadIn
  <2> QED
    BY <2>1, <2>2, <2>3 DEF Has
<1>3. k[2] = "v2"
  <2>1. j \in new /\ j[1] = "area.interface" /\ j[2] = "v2"
    BY <1>1 DEF ospfInterfaces, Of
  <2>2. k \in Within(new, j, {"area.bfd-profile"})
    BY <1>2 DEF Within, Of
  <2> QED
    BY <2>1, <2>2 DEF HasEntries
<1> QED
  BY <1>2, <1>3 DEF Within, Of

\* for OSPF, whose lines carry their version,
LEMMA FileOSPFLines ==
  ASSUME NEW c, Generates(c), NEW l \in GenerateFRRConfigFile(c),
         l[1] = "router ospf" \/ l[1] = "ospf bfd profile"
  PROVE  \/ l \in GenerateOSPFConfig(c, "v2") /\ l[2] = "v2"
         \/ l \in GenerateOSPFConfig(c, "v3") /\ l[2] = "v3"
<1>1. /\ l[1] # "hostname" /\ l[1] # "prefix-list" /\ l[1] # "network"
      /\ l[1] \notin buildStaticRouteOps /\ l[1] \notin RouteMapCommands
      /\ l[1] \notin DOMAIN BFDTree /\ l[1] \notin EVPNCommands
      /\ l[1] \notin BGPCommands /\ l[1] \notin DOMAIN LinkTree /\ l[1] \notin VRFCommands
  BY BFDNodes, LinkNodes DEF buildStaticRouteOps, EVPNCommands, BGPCommands, buildBGPOps,
     RouteMapCommands, buildRouteMapOps, VRFCommands, buildVRFOps
<1> QED
  BY <1>1, FileLines, OSPFLines

\* and for EVPN.
LEMMA EVPNFileLines ==
  ASSUME NEW c, Generates(c), <<"advertise-all-vni">> \in GenerateFRRConfigFile(c)
  PROVE  Of(c, {"vni"}) # {}
<1> DEFINE l == <<"advertise-all-vni">>
<1>1. l[1] = "advertise-all-vni"
  OBVIOUS
<1> HIDE DEF l
<1>2. /\ l[1] \notin buildStaticRouteOps /\ l[1] \notin RouteMapCommands
      /\ l[1] \notin DOMAIN BFDTree /\ l[1] \notin BGPCommands
      /\ l[1] \notin OSPFCommands /\ l[1] \notin DOMAIN LinkTree /\ l[1] \notin VRFCommands
  BY <1>1, BFDNodes, LinkNodes DEF buildStaticRouteOps, BGPCommands, buildBGPOps, OSPFCommands, buildOSPFOps,
     RouteMapCommands, buildRouteMapOps, VRFCommands, buildVRFOps
<1>3. l \in GenerateFRRConfigFile(c)
  BY DEF l
<1>4. l \in GenerateEVPNConfig(c)
  BY <1>1, <1>2, <1>3, FileLines
<1> QED
  BY <1>4 DEF GenerateEVPNConfig

\* Of two configurations whose files differ in static routes only, both need the
\* file backend or neither does.
LEMMA StaticDiffKeepsMode ==
  ASSUME NEW old \in Config, NEW new \in Config,
         Generates(ToLegacyConfig(old)), Generates(ToLegacyConfig(new)),
         IsStaticRouteDiff(Artifacts[old], Artifacts[new]),
         requiresFRRFileBackend(ToLegacyConfig(old))
  PROVE  requiresFRRFileBackend(ToLegacyConfig(new))
<1> DEFINE C == ToLegacyConfig(old)
           D == ToLegacyConfig(new)
           F == GenerateFRRConfigFile(C)
           G == GenerateFRRConfigFile(D)
<1>1. \A l : l[1] \notin buildStaticRouteOps => (l \in F <=> l \in G)
  BY DEF IsStaticRouteDiff, StaticRoutes, Artifacts, generateFRRArtifacts
<1>2. /\ HasEntries(old) /\ HasEntries(new)
      /\ \A s \in C : s[1] = "area-id" \/ s \in old
      /\ \A s \in D : s[1] = "area-id" \/ s \in new
      /\ \A s \in old : s[1] \in FrrNode => s \in C
  BY ConfigAssumption, Legacy
<1>3. Generates(C) /\ Generates(D) /\ requiresFRRFileBackend(C)
  OBVIOUS
<1> SUFFICES requiresFRRFileBackend(D)
  OBVIOUS
<1> HIDE DEF C, D
<1>4. CASE <<"ospf", "v3">> \in C
  <2> DEFINE l == <<"router ospf", "v3">>
  <2>1. l \in F
    BY <1>3, <1>4, PartsOfFile DEF GenerateOSPFConfig
  <2>2. l[1] = "router ospf" /\ l[2] = "v3" /\ l[1] \notin buildStaticRouteOps
    BY DEF buildStaticRouteOps
  <2> HIDE DEF l
  <2>3. l \in GenerateOSPFConfig(D, "v3")
    BY <1>1, <1>3, <2>1, <2>2, FileOSPFLines
  <2> QED
    BY <2>3, OSPFLines DEF requiresFRRFileBackend
<1>5. CASE Of(C, {"vni"}) # {}
  <2>1. <<"advertise-all-vni">> \in F
    BY <1>3, <1>5, PartsOfFile DEF GenerateEVPNConfig
  <2>2. <<"advertise-all-vni">>[1] \notin buildStaticRouteOps
    BY DEF buildStaticRouteOps
  <2>3. <<"advertise-all-vni">> \in G
    BY <1>1, <2>1, <2>2
  <2>4. Of(D, {"vni"}) # {}
    BY <1>3, <2>3, EVPNFileLines
  <2> QED
    BY <2>4 DEF requiresFRRFileBackend, Of
<1>6. CASE Of(C, {"neighbor.bfd-profile"}) # {}
  <2>1. PICK s \in C : s[1] = "neighbor.bfd-profile"
    BY <1>6 DEF Of
  <2>2. <<"bgp">> \in old /\ \E n \in Of(old, {"neighbor"}) : s \in Within(old, n, {s[1]})
    BY <1>2, <2>1 DEF HasEntries
  <2>3. <<"bgp">> \in C
    BY <1>2, <2>2, BGPRead
  <2>4. PICK n \in Of(C, {"neighbor"}) : s \in Within(C, n, {"neighbor.bfd-profile"})
    BY <1>2, <2>1, <2>2, BGPRead DEF Of, Within
  <2> DEFINE l == <<"neighbor bfd profile", Value(n), Value(s)>>
  <2>5. l \in convertBGPNeighbor(C, n)
    BY <2>4 DEF convertBGPNeighbor, LinesOf, Has, Field
  <2>6. l[1] = "neighbor bfd profile" /\ l[1] \notin buildStaticRouteOps
    BY DEF buildStaticRouteOps
  <2> HIDE DEF l
  <2>7. l \in F
    BY <1>3, <2>3, <2>5, PartsOfFile DEF GenerateBGPConfig, attachEVPNConfig
  <2>8. Of(D, {"neighbor.bfd-profile"}) # {}
    BY <1>1, <1>3, <2>6, <2>7, NeighborProfileLines
  <2> QED
    BY <2>8 DEF requiresFRRFileBackend, Of
<1>7. CASE {s \in Of(C, {"area.bfd-profile"}) : s[2] = "v2"} # {}
  <2>1. PICK s \in C : s[1] = "area.bfd-profile" /\ s[2] = "v2"
    BY <1>7 DEF Of
  <2>2. /\ <<"ospf", "v2">> \in old
        /\ \E i \in Of(old, {"area.interface"}) : i[2] = "v2" /\ s \in Within(old, i, {s[1]})
    BY <1>2, <2>1 DEF HasEntries, ospfCompared
  <2>3. <<"ospf", "v2">> \in C
    BY <1>2, <2>2, OSPFRead
  <2>4. PICK i \in ospfInterfaces(C, "v2") : s \in Within(C, i, {"area.bfd-profile"})
    BY <1>2, <2>1, <2>2, OSPFRead DEF Of, Within, ospfInterfaces
  <2> DEFINE l == <<"ospf bfd profile", i[2], Value(i), Value(s)>>
  <2>5. l \in convertOSPFInterface(C, i)
    BY <2>4 DEF convertOSPFInterface, Has, Field
  <2>6. l[1] = "ospf bfd profile" /\ l[2] = "v2" /\ l[1] \notin buildStaticRouteOps
    BY DEF buildStaticRouteOps, ospfInterfaces
  <2> HIDE DEF l
  <2>7. l \in F
    BY <1>3, <2>3, <2>5, PartsOfFile DEF GenerateOSPFConfig
  <2>8. l \in GenerateOSPFConfig(D, "v2")
    BY <1>1, <1>3, <2>6, <2>7, FileOSPFLines
  <2>9. {k \in Of(D, {"area.bfd-profile"}) : k[2] = "v2"} # {}
    BY <1>2, <2>6, <2>8, InterfaceProfileLines
  <2> QED
    BY <2>9 DEF requiresFRRFileBackend
<1>8. CASE frrBFDRequiresFileBackend(C)
  <2>1. ~SessionsAreKeyed(F)
    BY <1>3, <1>8, TellFromFile DEF frrBFDRequiresFileBackend
  <2>2. \A n \in Kept : Of(F, {n}) = Of(G, {n})
    BY <1>1 DEF Of, Kept, buildStaticRouteOps
  <2> HIDE DEF F, G
  <2>3. /\ Of(F, {"peer"}) = Of(G, {"peer"}) /\ Of(F, {"peer.multihop"}) = Of(G, {"peer.multihop"})
        /\ Of(F, {"peer.local-address"}) = Of(G, {"peer.local-address"})
        /\ Of(F, {"peer.interface"}) = Of(G, {"peer.interface"})
    BY <2>2 DEF Kept
  <2>4. SessionsAreKeyed(F) <=> SessionsAreKeyed(G)
    BY <2>3, Zenon DEF SessionsAreKeyed, Has, Within
  <2>5. ~SessionsAreKeyed(D)
    BY <1>3, <2>1, <2>4, TellFromFile DEF G
  <2> QED
    BY <2>5 DEF requiresFRRFileBackend, frrBFDRequiresFileBackend
<1>9. CASE Of(C, FromNodes) # {}
  <2>1. PICK s \in C : s[1] \in FromNodes
    BY <1>9 DEF Of
  <2>2. \E t \in Of(old, {"term"}) : s \in Within(old, t, {s[1]})
    BY <1>2, <2>1 DEF HasEntries, FromNodes
  <2>3. PICK t \in Of(C, {"term"}) : s \in Within(C, t, {s[1]})
    BY <1>2, <2>1, <2>2, PolicyRead DEF Of, Within
  <2>4. \E l \in convertPolicyTerm(C, t, <<t[2]>>) : l[1] \in FromCommands
    <3>1. Value(s) \in Field(C, t, s[1])
      BY <2>3 DEF Field
    <3>2. CASE s[1] = "from.protocol"
      <4>1. <<"match source-protocol", <<t[2]>>, t[2], t[3], Value(s)>> \in convertPolicyTerm(C, t, <<t[2]>>)
        BY <3>1, <3>2 DEF convertPolicyTerm
      <4> QED
        BY <4>1 DEF FromCommands
    <3>3. CASE s[1] = "from.neighbor"
      <4>1. <<"match peer", <<t[2]>>, t[2], t[3], Value(s)>> \in convertPolicyTerm(C, t, <<t[2]>>)
        BY <3>1, <3>3 DEF convertPolicyTerm
      <4> QED
        BY <4>1 DEF FromCommands
    <3>4. CASE s[1] = "as-path"
      <4>1. <<"match as-path", <<t[2]>>, t[2], t[3], Value(s)>> \in convertPolicyTerm(C, t, <<t[2]>>)
        BY <3>1, <3>4 DEF convertPolicyTerm
      <4> QED
        BY <4>1 DEF FromCommands
    <3> QED
      BY <2>1, <3>2, <3>3, <3>4 DEF FromNodes
  <2>5. PICK l \in F : l[1] \in FromCommands
    BY <1>3, <2>3, <2>4, PartsOfFile DEF GenerateRouteMapConfig
  <2>6. l[1] \notin buildStaticRouteOps
    BY <2>5 DEF FromCommands, buildStaticRouteOps
  <2>7. Of(D, FromNodes) # {}
    BY <1>1, <1>3, <2>5, <2>6, FromLines
  <2> QED
    BY <2>7 DEF requiresFRRFileBackend, FromNodes
<1>10. Of(C, {"vni", "neighbor.bfd-profile"}) # {} =>
         Of(C, {"vni"}) # {} \/ Of(C, {"neighbor.bfd-profile"}) # {}
  BY DEF Of
<1> QED
  BY <1>3, <1>4, <1>5, <1>6, <1>7, <1>8, <1>9, <1>10 DEF requiresFRRFileBackend, FromNodes

(***************************************************************************)
(* What a file determines.                                                 *)
(***************************************************************************)
\* The fields of a configuration's artifacts.
LEMMA ArtifactsOf ==
  ASSUME NEW c \in Config
  PROVE  /\ Artifacts[c] = generateFRRArtifacts(ToLegacyConfig(c))
         /\ Artifacts[c].file = GenerateFRRConfigFile(ToLegacyConfig(c))
         /\ Artifacts[c].operations = BuildMgmtOperations(ToLegacyConfig(c))
         /\ Artifacts[c].links = vrrpSystemInterfaces(ToLegacyConfig(c))
         /\ Artifacts[c].mode = IF requiresFRRFileBackend(ToLegacyConfig(c)) THEN "file" ELSE "transactional"
BY DEF Artifacts, generateFRRArtifacts

\* The transactional backend's operations are lines of the subtrees it replaces.
LEMMA OperationsAreManaged ==
  ASSUME NEW c, Generates(c), ~requiresFRRFileBackend(c), NEW l \in BuildMgmtOperations(c)
  PROVE  InReplacedSubtree(l)
<1>1. l \in GenerateFRRConfigFile(c) /\ HasMgmtOperation(c, l)
  BY DEF BuildMgmtOperations
<1>2. l[1] \notin {"hostname", "as-path access-list"}
  BY <1>1, BFDNodes, LinkNodes DEF HasMgmtOperation, buildStaticRouteOps, buildBGPOps, buildOSPFOps, buildPrefixListOps,
     buildRouteMapOps, buildBFDConfigOps, buildVRFOps, buildVRRPOps
<1>3. ASSUME l[1] \in OSPFCommands \ {"network"}
      PROVE  l[2] = "v2"
  <2>1. /\ l[1] # "hostname" /\ l[1] # "prefix-list" /\ l[1] # "network"
        /\ l[1] \notin buildStaticRouteOps /\ l[1] \notin RouteMapCommands
        /\ l[1] \notin DOMAIN BFDTree /\ l[1] \notin EVPNCommands
        /\ l[1] \notin BGPCommands /\ l[1] \notin DOMAIN LinkTree /\ l[1] \notin VRFCommands
    BY <1>3, BFDNodes, LinkNodes DEF buildStaticRouteOps, EVPNCommands, BGPCommands, buildBGPOps,
       RouteMapCommands, buildRouteMapOps, VRFCommands, buildVRFOps, OSPFCommands, buildOSPFOps
  <2>2. <<"ospf", "v3">> \notin c
    BY DEF requiresFRRFileBackend
  <2> QED
    BY <1>1, <2>1, <2>2, FileLines, OSPFLines
<1> QED
  BY <1>2, <1>3 DEF InReplacedSubtree

\* Two files that differ in static routes only have the same operations but for
\* those.
LEMMA StaticDiffOperations ==
  ASSUME NEW F, NEW G, F \ StaticRoutes(F) = G \ StaticRoutes(G)
  PROVE  {l \in G : HasMgmtOperation(G, l)}
           = ({l \in F : HasMgmtOperation(F, l)} \ StaticRoutes(F)) \cup StaticRoutes(G)
<1>1. \A l : l[1] \notin buildStaticRouteOps => (l \in F <=> l \in G)
  BY DEF StaticRoutes
<1>2. Of(F, {"peer.multihop"}) = Of(G, {"peer.multihop"})
  BY <1>1 DEF Of, buildStaticRouteOps
<1>3. \A l : HasMgmtOperation(F, l) <=> HasMgmtOperation(G, l)
  BY <1>2, Zenon DEF HasMgmtOperation, buildBFDPeerOps, Has, Within
<1>4. \A l : l[1] \in buildStaticRouteOps => HasMgmtOperation(G, l)
  BY DEF HasMgmtOperation, buildBFDPeerOps, buildStaticRouteOps
<1> QED
  BY <1>1, <1>3, <1>4 DEF StaticRoutes

\* Configurations that make the same file make the same operations, VRRP
\* interfaces and choice of backend: the plugin may compare files and conclude
\* about all.
LEMMA FileDetermines ==
  ASSUME NEW c \in Config, NEW d \in Config,
         Generates(ToLegacyConfig(c)), Generates(ToLegacyConfig(d)),
         Artifacts[c].file = Artifacts[d].file
  PROVE  Artifacts[c] = Artifacts[d]
<1> DEFINE C == ToLegacyConfig(c)
           D == ToLegacyConfig(d)
<1>1. GenerateFRRConfigFile(C) = GenerateFRRConfigFile(D)
  BY ArtifactsOf
<1>2. BuildMgmtOperations(C) = BuildMgmtOperations(D) /\ vrrpSystemInterfaces(C) = vrrpSystemInterfaces(D)
  BY <1>1, TellFromFile
<1>3. IsStaticRouteDiff(Artifacts[c], Artifacts[d]) /\ IsStaticRouteDiff(Artifacts[d], Artifacts[c])
  BY DEF IsStaticRouteDiff
<1>4. requiresFRRFileBackend(C) <=> requiresFRRFileBackend(D)
  BY <1>3, StaticDiffKeepsMode
<1> HIDE DEF C, D
<1>5. generateFRRArtifacts(C) = generateFRRArtifacts(D)
  BY <1>1, <1>2, <1>4, Zenon DEF generateFRRArtifacts
<1> QED
  BY <1>5, ArtifactsOf DEF C, D

(***************************************************************************)
(* What a call of a backend can end with.                                  *)
(***************************************************************************)
\* The shape of what a call leaves.
IsFRR(f) ==
  /\ DOMAIN f = {"running", "file", "links", "merged", "known", "loaded", "saved"}
  /\ DOMAIN f.known = Backend

\* The preparer knows the interfaces there are.
Tidy(f) == LinkNames(f.links) \subseteq f.known["file"] \cup f.known["transactional"]

\* An outcome of a call on f.
Sound(f, r) ==
  /\ DOMAIN r = {"frr", "ok", "cost"} /\ IsFRR(r.frr)
  /\ r.cost \in Nat
  /\ r.cost = 0 /\ Tidy(f) => Tidy(r.frr)

\* The interfaces are those of the groups, and the preparer of b knows them.
Linked(f, b, desired) ==
  /\ Links(desired) \subseteq f.links
  /\ f.known[b] = LinkNames(desired)
  /\ desired # {} => LinkNames(f.links) = LinkNames(desired)

\* The interfaces of VRRP groups are named as the groups are.
LEMMA LinkNamesOfLinks ==
  ASSUME NEW desired
  PROVE  LinkNames(Links(desired)) = LinkNames(desired)
<1>1. \A x : <<x>>[1] = x
  OBVIOUS
<1>2. \A l \in desired : l[1] \in LinkNames(Links(desired))
  BY DEF LinkNames, Links
<1>3. ASSUME NEW k \in Links(desired) PROVE k[1] \in LinkNames(desired)
  <2>1. CASE k \in desired
    BY <2>1 DEF LinkNames
  <2>2. CASE \E l \in desired : k = <<l[1]>>
    <3>1. PICK l \in desired : k = <<l[1]>>
      BY <2>2
    <3>2. k[1] = l[1]
      BY <3>1, <1>1
    <3> QED
      BY <3>2 DEF LinkNames
  <2> QED
    BY <2>1, <2>2 DEF Links
<1> QED
  BY <1>2, <1>3 DEF LinkNames

\* What does not touch the VRRP interfaces.
KeepsLinks(f, g) == g.links = f.links /\ g.known = f.known

\* What follows a success.
LEMMA ThenOutcome ==
  ASSUME NEW f, NEW p, Sound(f, p), NEW results, \A q \in results : Sound(p.frr, q),
         NEW r \in Then(p, results)
  PROVE  /\ Sound(f, r)
         /\ r.ok => p.ok /\ \E q \in results : q.ok /\ r.frr = q.frr
<1>1. CASE ~p.ok
  BY <1>1 DEF Then
<1>2. CASE p.ok
  <2>1. PICK q \in results : r = [q EXCEPT !.cost = @ + p.cost]
    BY <1>2 DEF Then, Plus
  <2>2. Sound(p.frr, q)
    BY <2>1
  <2>3. DOMAIN r = {"frr", "ok", "cost"} /\ r.frr = q.frr /\ r.ok = q.ok /\ r.cost = q.cost + p.cost
    BY <2>1, <2>2 DEF Sound
  <2>4. p.cost \in Nat /\ q.cost \in Nat /\ (r.cost = 0 => p.cost = 0 /\ q.cost = 0)
    BY <2>2, <2>3 DEF Sound
  <2> QED
    BY <1>2, <2>2, <2>3, <2>4 DEF Sound
<1> QED
  BY <1>1, <1>2 DEF Sound

\* What leaves FRR and its file alone.
KeepsFRR(f, g) == g.running = f.running /\ g.file = f.file /\ g.merged = f.merged

\* A preparer that reads the state file knows no less than before.
LEMMA LoadStateOutcome ==
  ASSUME NEW f, IsFRR(f), NEW b \in Backend, NEW p \in loadState(f, b)
  PROVE  Sound(f, p) /\ KeepsFRR(f, p.frr)
<1> DEFINE g == Knows([f EXCEPT !.loaded = @ \cup {b}], b, f.known[b] \cup f.saved)
<1>1. /\ IsFRR(g) /\ KeepsFRR(f, g) /\ g.links = f.links
      /\ \A x \in Backend : f.known[x] \subseteq g.known[x]
  BY DEF IsFRR, KeepsFRR, Knows, Backend
<1>2. Tidy(f) => Tidy(g)
  BY <1>1 DEF Tidy, Backend
<1> HIDE DEF g
<1>3. \/ p = Result(f, TRUE, 0) \/ p = Result(f, FALSE, 1) \/ p = Result(f, FALSE, 0)
      \/ p = Result(g, TRUE, 0)
  BY DEF loadState, g
<1>4. DOMAIN p = {"frr", "ok", "cost"} /\ p.cost \in Nat /\ p.frr \in {f, g}
  BY <1>3 DEF Result
<1> QED
  BY <1>1, <1>2, <1>4 DEF Sound, KeepsFRR

\* Writing the state file touches neither FRR nor the interfaces.
LEMMA SaveStateOutcome ==
  ASSUME NEW f, IsFRR(f), NEW names, NEW p \in saveState(f, names)
  PROVE  /\ DOMAIN p = {"frr", "ok", "cost"} /\ p.cost \in Nat
         /\ IsFRR(p.frr) /\ KeepsFRR(f, p.frr) /\ KeepsLinks(f, p.frr)
<1>1. PICK left : p = Result([f EXCEPT !.saved = left], TRUE, 0) \/ p = Result([f EXCEPT !.saved = left], FALSE, 1)
  BY DEF saveState
<1> DEFINE g == [f EXCEPT !.saved = left]
<1>2. IsFRR(g) /\ KeepsFRR(f, g) /\ KeepsLinks(f, g)
  BY DEF IsFRR, KeepsFRR, KeepsLinks
<1> HIDE DEF g
<1>3. DOMAIN p = {"frr", "ok", "cost"} /\ p.cost \in Nat /\ p.frr = g
  BY <1>1 DEF Result, g
<1> QED
  BY <1>2, <1>3

\* The rest of Prepare, when it succeeds, leaves the groups' interfaces and,
\* where there are groups, no others.
LEMMA ReconcileOutcome ==
  ASSUME NEW f, IsFRR(f), NEW b \in Backend, NEW desired, NEW p \in Reconcile(f, b, desired)
  PROVE  Sound(f, p) /\ KeepsFRR(f, p.frr) /\ (p.ok => Linked(p.frr, b, desired))
<1> DEFINE stale == LinkNames(f.links) \ LinkNames(desired)
           links == Without(f.links, stale) \cup Links(desired)
           done == Knows([f EXCEPT !.links = links], b, LinkNames(desired))
<1>1. \/ p = Result(f, TRUE, 0) /\ desired = {} /\ f.known[b] = {}
      \/ p \in saveState(done, LinkNames(desired))
      \/ \E x : p = Result([f EXCEPT !.links = x], FALSE, 1)
  BY DEF Reconcile
<1>2. /\ IsFRR(done) /\ KeepsFRR(f, done) /\ done.links = links
      /\ done.known[b] = LinkNames(desired)
  BY DEF IsFRR, KeepsFRR, Knows
<1>3. LinkNames(links) = LinkNames(desired)
  <2>1. LinkNames(links) = LinkNames(Without(f.links, stale)) \cup LinkNames(Links(desired))
    BY DEF LinkNames
  <2>2. LinkNames(Without(f.links, stale)) \subseteq LinkNames(desired)
    BY DEF LinkNames, Without
  <2> QED
    BY <2>1, <2>2, LinkNamesOfLinks
<1>4. Tidy(done) /\ Linked(done, b, desired)
  BY <1>2, <1>3 DEF Tidy, Linked, Backend
<1> HIDE DEF done
<1>5. CASE p = Result(f, TRUE, 0) /\ desired = {} /\ f.known[b] = {}
  <2>1. Links(desired) = {} /\ LinkNames(desired) = {}
    BY <1>5 DEF Links, LinkNames
  <2>2. p.frr = f /\ p.ok /\ p.cost = 0 /\ DOMAIN p = {"frr", "ok", "cost"}
    BY <1>5 DEF Result
  <2>3. Linked(f, b, desired)
    BY <1>5, <2>1 DEF Linked
  <2> QED
    BY <2>2, <2>3 DEF Sound, KeepsFRR
<1>6. CASE p \in saveState(done, LinkNames(desired))
  <2>1. /\ DOMAIN p = {"frr", "ok", "cost"} /\ p.cost \in Nat
        /\ IsFRR(p.frr) /\ KeepsFRR(done, p.frr) /\ KeepsLinks(done, p.frr)
    BY <1>2, <1>6, SaveStateOutcome
  <2>2. Tidy(p.frr) /\ Linked(p.frr, b, desired)
    BY <1>4, <2>1 DEF Tidy, Linked, KeepsLinks
  <2> QED
    BY <1>2, <2>1, <2>2 DEF Sound, KeepsFRR
<1>7. CASE \E x : p = Result([f EXCEPT !.links = x], FALSE, 1)
  <2>1. PICK x : p = Result([f EXCEPT !.links = x], FALSE, 1)
    BY <1>7
  <2>2. IsFRR([f EXCEPT !.links = x]) /\ KeepsFRR(f, [f EXCEPT !.links = x])
    BY DEF IsFRR, KeepsFRR
  <2>3. /\ p.frr = [f EXCEPT !.links = x] /\ DOMAIN p = {"frr", "ok", "cost"}
        /\ ~p.ok /\ p.cost = 1
    BY <2>1 DEF Result
  <2> QED
    BY <2>2, <2>3 DEF Sound
<1> QED
  BY <1>1, <1>5, <1>6, <1>7

\* Prepare as a whole.
LEMMA PrepareOutcome ==
  ASSUME NEW f, IsFRR(f), NEW b \in Backend, NEW desired, NEW p \in Prepare(f, b, desired)
  PROVE  /\ Sound(f, p)
         /\ p.ok => /\ Linked(p.frr, b, desired)
                    /\ p.frr.running = f.running /\ p.frr.file = f.file /\ p.frr.merged = f.merged
<1>1. PICK q \in loadState(f, b) : p \in Then(q, Reconcile(q.frr, b, desired))
  BY DEF Prepare
<1>2. Sound(f, q) /\ KeepsFRR(f, q.frr) /\ IsFRR(q.frr)
  BY LoadStateOutcome DEF Sound
<1>3. \A x \in Reconcile(q.frr, b, desired) :
        Sound(q.frr, x) /\ KeepsFRR(q.frr, x.frr) /\ (x.ok => Linked(x.frr, b, desired))
  BY <1>2, ReconcileOutcome
<1>4. Sound(f, p) /\ (p.ok => \E x \in Reconcile(q.frr, b, desired) : x.ok /\ p.frr = x.frr)
  BY <1>1, <1>2, <1>3, ThenOutcome
<1> QED
  BY <1>2, <1>3, <1>4 DEF KeepsFRR

\* FRR runs these lines, and its file holds what it runs.
Loaded(f, lines) ==
  /\ lines \subseteq f.running
  /\ ~f.merged => f.running = lines
  /\ f.file = f.running

\* A management transaction leaves the interfaces alone and, when it succeeds,
\* FRR and its file with the lines asked for.
LEMMA MgmtOutcome ==
  ASSUME NEW f, IsFRR(f), NEW lines, NEW r \in VtyshMgmtApply(f, lines)
  PROVE  /\ Sound(f, r) /\ KeepsLinks(f, r.frr)
         /\ r.ok => r.frr.running = lines /\ r.frr.file = lines /\ r.frr.merged = f.merged
<1> DEFINE g == [f EXCEPT !.running = lines, !.file = lines]
           h == [f EXCEPT !.running = lines]
<1>1. /\ IsFRR(g) /\ KeepsLinks(f, g) /\ g.running = lines /\ g.file = lines /\ g.merged = f.merged
      /\ IsFRR(h) /\ KeepsLinks(f, h) /\ KeepsLinks(f, f)
  BY DEF IsFRR, KeepsLinks
<1>2. r = Result(g, TRUE, 0) \/ r = Result(f, FALSE, 1) \/ r = Result(h, FALSE, 1)
  BY DEF VtyshMgmtApply
<1> HIDE DEF g, h
<1>3. /\ DOMAIN r = {"frr", "ok", "cost"}
      /\ (r.ok /\ r.frr = g /\ r.cost = 0) \/ (~r.ok /\ r.frr \in {f, h} /\ r.cost = 1)
  BY <1>2 DEF Result
<1>4. \A x : KeepsLinks(f, x) /\ Tidy(f) => Tidy(x)
  BY DEF KeepsLinks, Tidy
<1> QED
  BY <1>1, <1>3, <1>4 DEF Sound

\* Loading the file leaves the interfaces alone; FRR then runs the file, or at
\* least it where vtysh -f stood in.
LEMMA LoadOutcome ==
  ASSUME NEW f, IsFRR(f), NEW r \in applyConfigInternal(f)
  PROVE  Sound(f, r) /\ KeepsLinks(f, r.frr) /\ (r.ok => Loaded(r.frr, f.file))
<1> DEFINE sum == f.running \cup f.file
           g == [f EXCEPT !.running = f.file, !.merged = FALSE]
           h == [f EXCEPT !.running = sum, !.file = sum, !.merged = TRUE]
           k == [f EXCEPT !.running = sum, !.merged = TRUE]
<1>1. /\ IsFRR(g) /\ KeepsLinks(f, g) /\ IsFRR(h) /\ KeepsLinks(f, h)
      /\ IsFRR(k) /\ KeepsLinks(f, k) /\ KeepsLinks(f, f)
  BY DEF IsFRR, KeepsLinks
<1>2. Loaded(g, f.file) /\ Loaded(h, f.file)
  BY DEF IsFRR, Loaded
<1>3. \/ r = Result(g, TRUE, 0) \/ r = Result(h, TRUE, 1)
      \/ r = Result(k, FALSE, 2) \/ r = Result(f, FALSE, 2)
  BY DEF applyConfigInternal
<1> HIDE DEF g, h, k
<1>4. /\ DOMAIN r = {"frr", "ok", "cost"} /\ r.cost \in Nat
      /\ \/ r.ok /\ r.frr \in {g, h}
         \/ ~r.ok /\ r.frr \in {f, k} /\ r.cost > 0
  BY <1>3 DEF Result
<1>5. \A x : KeepsLinks(f, x) /\ Tidy(f) => Tidy(x)
  BY DEF KeepsLinks, Tidy
<1> QED
  BY <1>1, <1>2, <1>4, <1>5 DEF Sound

\* An apply that goes back to its backup reports failure.
LEMMA AutoRollbackOutcome ==
  ASSUME NEW f, NEW r, Sound(f, r), KeepsLinks(f, r.frr), ~r.ok, NEW backup, NEW q \in AutoRollback(r, backup)
  PROVE  Sound(f, q) /\ KeepsLinks(f, q.frr) /\ ~q.ok
<1>1. CASE backup = None
  BY <1>1 DEF AutoRollback
<1>2. CASE backup # None
  <2> DEFINE g == [r.frr EXCEPT !.file = backup]
  <2>1. IsFRR(r.frr) /\ IsFRR(g) /\ KeepsLinks(r.frr, g) /\ KeepsLinks(r.frr, r.frr)
    BY DEF Sound, IsFRR, KeepsLinks
  <2>2. PICK s \in RestoreBackup(r.frr, backup) : q = [[s EXCEPT !.cost = @ + r.cost] EXCEPT !.ok = FALSE]
    BY <1>2 DEF AutoRollback, Plus
  <2>3. DOMAIN s = {"frr", "ok", "cost"} /\ s.cost \in Nat /\ IsFRR(s.frr) /\ KeepsLinks(f, s.frr)
    <3>1. CASE s = Result(r.frr, FALSE, 1)
      BY <2>1, <3>1 DEF Result
    <3>2. CASE s \in applyConfigInternal(g)
      <4>1. Sound(g, s) /\ KeepsLinks(g, s.frr)
        BY <2>1, <3>2, LoadOutcome
      <4> QED
        BY <2>1, <4>1 DEF Sound, KeepsLinks
    <3> QED
      BY <2>2, <3>1, <3>2 DEF RestoreBackup
  <2>4. DOMAIN q = {"frr", "ok", "cost"} /\ q.cost = s.cost + r.cost /\ q.frr = s.frr /\ ~q.ok
    BY <2>2, <2>3
  <2>5. q.cost \in Nat
    BY <2>3, <2>4 DEF Sound
  <2>6. Tidy(f) => Tidy(q.frr)
    BY <2>3, <2>4 DEF Tidy, KeepsLinks
  <2> QED
    BY <2>3, <2>4, <2>5, <2>6 DEF Sound
<1> QED
  BY <1>1, <1>2

\* The file backend, when it succeeds, has loaded the lines asked for.
LEMMA ReloadOutcome ==
  ASSUME NEW f, IsFRR(f), NEW lines, NEW r \in ReloaderApplyConfig(f, lines)
  PROVE  Sound(f, r) /\ KeepsLinks(f, r.frr) /\ (r.ok => Loaded(r.frr, lines))
<1> DEFINE written == [f EXCEPT !.file = lines]
<1>1. IsFRR(written) /\ KeepsLinks(f, written) /\ written.file = lines /\ KeepsLinks(f, f)
  BY DEF IsFRR, KeepsLinks
<1>2. \/ r = Result(f, FALSE, 1)
      \/ r \in AutoRollback(Result(written, FALSE, 1), f.file)
      \/ \E s \in applyConfigInternal(written) : r \in IF s.ok THEN {s} ELSE AutoRollback(s, f.file)
  BY DEF ReloaderApplyConfig
<1> HIDE DEF written
<1>3. \A x : KeepsLinks(f, x) /\ Tidy(f) => Tidy(x)
  BY DEF KeepsLinks, Tidy
<1>4. \A x : IsFRR(x) /\ KeepsLinks(f, x) =>
        Sound(f, Result(x, FALSE, 1)) /\ KeepsLinks(f, Result(x, FALSE, 1).frr) /\ ~Result(x, FALSE, 1).ok
  BY <1>3 DEF Sound, Result
<1>5. CASE r = Result(f, FALSE, 1)
  BY <1>1, <1>4, <1>5
<1>6. CASE r \in AutoRollback(Result(written, FALSE, 1), f.file)
  BY <1>1, <1>4, <1>6, AutoRollbackOutcome
<1>7. CASE \E s \in applyConfigInternal(written) : r \in IF s.ok THEN {s} ELSE AutoRollback(s, f.file)
  <2>1. PICK s \in applyConfigInternal(written) : r \in IF s.ok THEN {s} ELSE AutoRollback(s, f.file)
    BY <1>7
  <2>2. Sound(written, s) /\ KeepsLinks(written, s.frr) /\ (s.ok => Loaded(s.frr, lines))
    BY <1>1, LoadOutcome
  <2>3. Sound(f, s) /\ KeepsLinks(f, s.frr)
    BY <1>1, <2>2 DEF Sound, KeepsLinks, Tidy
  <2>4. CASE s.ok
    BY <2>1, <2>2, <2>3, <2>4
  <2>5. CASE ~s.ok
    BY <2>1, <2>3, <2>5, AutoRollbackOutcome
  <2> QED
    BY <2>4, <2>5
<1> QED
  BY <1>2, <1>5, <1>6, <1>7

\* FRR's generator accepts the configuration.
Ready(c) == Generates(ToLegacyConfig(c))

\* FRR, its file and the VRRP interfaces are what the artifacts ask for.
Fits(f, a) ==
  /\ IF a.mode = "file" THEN a.file \subseteq f.running ELSE a.operations \subseteq f.running
  /\ ~f.merged => IF a.mode = "file" THEN f.running = a.file ELSE Managed(f.running) = a.operations
  /\ f.file = f.running \/ f = NoFRR
  /\ Linked(f, a.mode, a.links)

\* The file backend with its Prepare.
LEMMA FileOutcome ==
  ASSUME NEW f, IsFRR(f), NEW a, a.mode = "file", NEW r \in FileApplyConfig(f, a)
  PROVE  Sound(f, r) /\ (r.ok => Fits(r.frr, a))
<1>1. PICK p \in Prepare(f, "file", a.links) : r \in Then(p, ReloaderApplyConfig(p.frr, a.file))
  BY DEF FileApplyConfig
<1>2. Sound(f, p) /\ IsFRR(p.frr) /\ (p.ok => Linked(p.frr, a.mode, a.links))
  BY <1>1, PrepareOutcome DEF Sound, Backend
<1>3. \A q \in ReloaderApplyConfig(p.frr, a.file) :
        Sound(p.frr, q) /\ KeepsLinks(p.frr, q.frr) /\ (q.ok => Loaded(q.frr, a.file))
  BY <1>2, ReloadOutcome
<1>4. Sound(f, r) /\ (r.ok => p.ok /\ \E q \in ReloaderApplyConfig(p.frr, a.file) : q.ok /\ r.frr = q.frr)
  BY <1>1, <1>2, <1>3, ThenOutcome
<1> QED
  BY <1>2, <1>3, <1>4 DEF Fits, Loaded, Linked, KeepsLinks

\* The transactional backend with its Prepare, whatever FRR ran before.
LEMMA TransactionalOutcome ==
  ASSUME NEW f, IsFRR(f), NEW a, a.mode = "transactional", \A l \in a.operations : InReplacedSubtree(l),
         NEW r \in TransactionalApplyConfig(f, a)
  PROVE  Sound(f, r) /\ (r.ok => Fits(r.frr, a))
<1> DEFINE lines(g) == (g.running \ Managed(g.running)) \cup a.operations
           whole(g) == [g EXCEPT !.merged = FALSE]
<1>1. PICK p \in Prepare(f, "transactional", a.links) : r \in Then(p, VtyshMgmtApply(whole(p.frr), lines(p.frr)))
  BY DEF TransactionalApplyConfig
<1>2. Sound(f, p) /\ IsFRR(p.frr) /\ (p.ok => Linked(p.frr, a.mode, a.links))
  BY <1>1, PrepareOutcome DEF Sound, Backend
<1>3. IsFRR(whole(p.frr)) /\ KeepsLinks(p.frr, whole(p.frr)) /\ ~whole(p.frr).merged
  BY <1>2 DEF IsFRR, KeepsLinks
<1>4. a.operations \subseteq lines(p.frr) /\ Managed(lines(p.frr)) = a.operations
  BY DEF Managed
<1> HIDE DEF lines, whole
<1>5. \A q \in VtyshMgmtApply(whole(p.frr), lines(p.frr)) :
        /\ Sound(whole(p.frr), q) /\ KeepsLinks(whole(p.frr), q.frr)
        /\ q.ok => /\ q.frr.running = lines(p.frr) /\ q.frr.file = lines(p.frr)
  BY <1>3, MgmtOutcome
<1>6. \A q \in VtyshMgmtApply(whole(p.frr), lines(p.frr)) : Sound(p.frr, q) /\ KeepsLinks(p.frr, q.frr)
  BY <1>3, <1>5 DEF Sound, Tidy, KeepsLinks
<1>7. /\ Sound(f, r)
      /\ r.ok => p.ok /\ \E q \in VtyshMgmtApply(whole(p.frr), lines(p.frr)) : q.ok /\ r.frr = q.frr
  BY <1>1, <1>2, <1>6, ThenOutcome
<1> QED
  BY <1>2, <1>4, <1>5, <1>6, <1>7 DEF Fits, Linked, KeepsLinks

\* ApplyConfig, when it succeeds, makes FRR fit the artifacts, from whatever
\* an earlier failure left.
LEMMA ApplyOutcome ==
  ASSUME NEW f, IsFRR(f), NEW c \in Config, Ready(c),
         NEW r \in ApplyConfig(f, Artifacts[c], Artifacts[c].mode)
  PROVE  Sound(f, r) /\ (r.ok => Fits(r.frr, Artifacts[c]))
<1>1. CASE Artifacts[c].mode = "file"
  BY <1>1, FileOutcome DEF ApplyConfig
<1>2. CASE Artifacts[c].mode = "transactional"
  <2>1. ~requiresFRRFileBackend(ToLegacyConfig(c))
    BY <1>2, ArtifactsOf
  <2>2. \A l \in Artifacts[c].operations : InReplacedSubtree(l)
    BY <2>1, ArtifactsOf, OperationsAreManaged DEF Ready
  <2> QED
    BY <1>2, <2>2, TransactionalOutcome DEF ApplyConfig
<1> QED
  BY <1>1, <1>2, ArtifactsOf

\* The operations are a part of the file that the file tells.
LEMMA OperationsOfFile ==
  ASSUME NEW c \in Config, Ready(c)
  PROVE  Artifacts[c].operations = {l \in Artifacts[c].file : HasMgmtOperation(Artifacts[c].file, l)}
<1> DEFINE F == GenerateFRRConfigFile(ToLegacyConfig(c))
<1>1. Artifacts[c].file = F /\ Artifacts[c].operations = BuildMgmtOperations(ToLegacyConfig(c))
  BY ArtifactsOf
<1>2. BuildMgmtOperations(ToLegacyConfig(c)) = {l \in F : HasMgmtOperation(F, l)}
  BY TellFromFile DEF Ready
<1> HIDE DEF F
<1> QED
  BY <1>1, <1>2

\* A transaction after its Prepare.
LEMMA PreparedOutcome ==
  ASSUME NEW f, IsFRR(f), NEW desired, NEW p \in Prepare(f, "transactional", desired),
         NEW lines, NEW r \in Then(p, VtyshMgmtApply(p.frr, lines))
  PROVE  /\ Sound(f, r)
         /\ r.ok => /\ Linked(r.frr, "transactional", desired) /\ p.frr.running = f.running
                    /\ r.frr.running = lines /\ r.frr.file = lines /\ r.frr.merged = f.merged
<1>1. /\ Sound(f, p) /\ IsFRR(p.frr)
      /\ p.ok => Linked(p.frr, "transactional", desired) /\ p.frr.running = f.running /\ p.frr.merged = f.merged
  BY PrepareOutcome DEF Sound, Backend
<1>2. \A q \in VtyshMgmtApply(p.frr, lines) :
        /\ Sound(p.frr, q) /\ KeepsLinks(p.frr, q.frr)
        /\ q.ok => q.frr.running = lines /\ q.frr.file = lines /\ q.frr.merged = p.frr.merged
  BY <1>1, MgmtOutcome
<1>3. Sound(f, r) /\ (r.ok => p.ok /\ \E q \in VtyshMgmtApply(p.frr, lines) : q.ok /\ r.frr = q.frr)
  BY <1>1, <1>2, ThenOutcome
<1> QED
  BY <1>1, <1>2, <1>3 DEF Linked, KeepsLinks

\* ApplyConfigDiff, when it succeeds, makes FRR fit the new artifacts if it
\* fitted the old ones.
LEMMA DiffOutcome ==
  ASSUME NEW f, IsFRR(f), NEW c \in Config, NEW d \in Config, Ready(c), Ready(d),
         Fits(f, Artifacts[c]), Artifacts[d].mode = "transactional",
         IsStaticRouteDiff(Artifacts[c], Artifacts[d]),
         NEW r \in ApplyConfigDiff(f, Artifacts[c], Artifacts[d])
  PROVE  Sound(f, r) /\ (r.ok => Fits(r.frr, Artifacts[d]))
<1> DEFINE a == Artifacts[c]
           b == Artifacts[d]
           from == StaticRoutes(a.file)
           to == StaticRoutes(b.file)
<1>1. a.mode = "transactional" /\ b.mode = "transactional"
  BY ArtifactsOf, StaticDiffKeepsMode DEF Ready
<1>2. CASE from = to
  <2>1. r.frr = f /\ r.ok /\ r.cost = 0 /\ DOMAIN r = {"frr", "ok", "cost"}
    BY <1>2 DEF ApplyConfigDiff, Result
  <2>2. a.file = b.file
    BY <1>2 DEF IsStaticRouteDiff, StaticRoutes
  <2>3. a = b
    BY <2>2, FileDetermines DEF Ready
  <2> QED
    BY <2>1, <2>3 DEF Sound
<1>3. CASE from # to
  <2> DEFINE lines(g) == (g.running \ from) \cup to
  <2>1. PICK p \in Prepare(f, "transactional", b.links) : r \in Then(p, VtyshMgmtApply(p.frr, lines(p.frr)))
    BY <1>3 DEF ApplyConfigDiff
  <2>2. /\ Sound(f, r)
        /\ r.ok => /\ Linked(r.frr, "transactional", b.links) /\ p.frr.running = f.running
                   /\ r.frr.running = lines(p.frr) /\ r.frr.file = lines(p.frr)
                   /\ r.frr.merged = f.merged
    <3> HIDE DEF a, b, from, to, lines
    <3> QED
      BY <2>1, PreparedOutcome, Zenon
  <2>5. /\ a.operations = {l \in a.file : HasMgmtOperation(a.file, l)}
        /\ b.operations = {l \in b.file : HasMgmtOperation(b.file, l)}
    BY OperationsOfFile
  <2>6. b.operations = (a.operations \ from) \cup to
    BY <2>5, StaticDiffOperations DEF IsStaticRouteDiff
  <2>7. \A l \in to : InReplacedSubtree(l)
    BY DEF StaticRoutes, InReplacedSubtree, buildStaticRouteOps, OSPFCommands, buildOSPFOps
  <2>8. a.operations \subseteq f.running /\ (~f.merged => Managed(f.running) = a.operations)
    BY <1>1 DEF Fits
  <2> HIDE DEF a, b, from, to
  <2>9. b.operations \subseteq lines(f) /\ (~f.merged => Managed(lines(f)) = b.operations)
    BY <2>6, <2>7, <2>8 DEF Managed
  <2>10. r.ok => lines(p.frr) = lines(f)
    BY <2>2
  <2> HIDE DEF lines
  <2>11. r.ok => Fits(r.frr, b)
    BY <1>1, <2>2, <2>9, <2>10 DEF Fits
  <2> QED
    BY <2>2, <2>11 DEF b
<1> QED
  BY <1>2, <1>3

\* OSPFv3's area is a command of its interfaces alone.
LEMMA AreaLines ==
  ASSUME NEW c, NEW l \in GenerateOSPFConfig(c, "v2")
  PROVE  l[1] # "ospf6 area"
<1> DEFINE others == OSPFCommands \ {"ospf6 area"}
<1>1. \E x \in others : \E a, b, v : l = <<x, a>> \/ l = <<x, a, b>> \/ l = <<x, a, b, v>>
  <2>1. CASE \E j \in ospfInterfaces(c, "v2") : l \in convertOSPFInterface(c, j)
    <3>1. PICK j \in ospfInterfaces(c, "v2") : l \in convertOSPFInterface(c, j)
      BY <2>1
    <3>2. j[2] = "v2"
      BY DEF ospfInterfaces
    <3> QED
      BY <3>1, <3>2 DEF convertOSPFInterface, OSPFCommands, buildOSPFOps
  <2>2. CASE ~\E j \in ospfInterfaces(c, "v2") : l \in convertOSPFInterface(c, j)
    BY <2>2 DEF GenerateOSPFConfig, OSPFCommands, buildOSPFOps
  <2> QED
    BY <2>1, <2>2
<1> HIDE DEF others
<1>2. l[1] \in others
  BY <1>1, HeadIn
<1> QED
  BY <1>2 DEF others

(***************************************************************************)
(* Where the plugin chooses the transactional backend (plugin.go,          *)
(* requiresFRRFileBackend), BuildMgmtOperations expresses every line of    *)
(* the file it replaces, except the host name and the interface of a       *)
(* multihop BFD session: nothing else of a configuration is lost because   *)
(* the plugin took that backend.                                           *)
(***************************************************************************)
THEOREM TransactionalCarriesFile ==
  ASSUME NEW c \in Config, Ready(c), Artifacts[c].mode = "transactional",
         NEW l \in Artifacts[c].file
  PROVE  \/ l \in Artifacts[c].operations
         \/ l[1] = "hostname"
         \/ l[1] = "peer.interface" /\ Has(ToLegacyConfig(c), Up(l, "peer"), "peer.multihop")
<1> DEFINE C == ToLegacyConfig(c)
<1>1. /\ Generates(C) /\ l \in GenerateFRRConfigFile(C) /\ ~requiresFRRFileBackend(C)
      /\ Artifacts[c].operations = BuildMgmtOperations(C)
  BY ArtifactsOf DEF Ready
<1>2. HasEntries(c) /\ \A s \in C : s[1] = "area-id" \/ s \in c
  BY Legacy, ConfigAssumption
<1> HIDE DEF C
<1>3. /\ <<"ospf", "v3">> \notin C
      /\ Of(C, {"vni"}) = {} /\ Of(C, {"neighbor.bfd-profile"}) = {}
      /\ {s \in Of(C, {"area.bfd-profile"}) : s[2] = "v2"} = {}
      /\ Of(C, FromNodes) = {}
  BY <1>1 DEF requiresFRRFileBackend, Of, FromNodes
<1> DEFINE carried == buildStaticRouteOps \cup buildBGPOps \cup buildOSPFOps \cup buildPrefixListOps
                      \cup buildRouteMapOps \cup buildBFDConfigOps \cup buildVRFOps \cup buildVRRPOps
<1>4. ASSUME l[1] \in RouteMapCommands
      PROVE  l[1] \in carried
  <2>1. l[1] \notin FromCommands
    BY <1>1, <1>3, FromLines
  <2> QED
    BY <1>4, <2>1 DEF FromCommands, RouteMapCommands
<1>5. ASSUME l \in GenerateBGPConfig(C), l[1] \in BGPCommands
      PROVE  l[1] \in carried
  <2>1. l[1] # "neighbor bfd profile"
    BY <1>1, <1>3, NeighborProfileLines
  <2> QED
    BY <1>5, <2>1 DEF BGPCommands
<1>6. l \notin GenerateEVPNConfig(C)
  BY <1>3 DEF GenerateEVPNConfig
<1>7. ASSUME l \in GenerateOSPFConfig(C, "v2"), l[1] \in OSPFCommands
      PROVE  l[1] \in carried
  <2>1. l[1] # "ospf bfd profile" /\ l[1] # "ospf6 area"
    BY <1>2, <1>3, <1>7, InterfaceProfileLines, AreaLines
  <2> QED
    BY <1>7, <2>1 DEF OSPFCommands
<1>8. l \notin GenerateOSPFConfig(C, "v3")
  BY <1>3 DEF GenerateOSPFConfig
<1>9. ASSUME l \in GenerateVRFConfig(C)
      PROVE  l[1] \in carried
  <2>1. applyEVPNToVRFs(C) = {}
    <3>1. L3(C) = {}
      BY <1>3 DEF L3
    <3> QED
      BY <3>1 DEF applyEVPNToVRFs
  <2>2. l[1] \in buildVRFOps \/ l[1] \in RouteMapCommands
    BY <1>9, <2>1, VRFOrigin, PolicyTermLines
  <2> QED
    BY <1>4, <2>2
<1>10. l[1] = "hostname" \/ l[1] \in carried
  BY <1>1, <1>4, <1>5, <1>6, <1>7, <1>8, <1>9, FileLines DEF buildPrefixListOps, buildBFDConfigOps, buildVRRPOps
<1>11. l[1] \in carried /\ buildBFDPeerOps(C, l) => l \in BuildMgmtOperations(C)
  BY <1>1 DEF BuildMgmtOperations, HasMgmtOperation
<1> QED
  BY <1>1, <1>10, <1>11 DEF buildBFDPeerOps, C

(***************************************************************************)
(* The empty configuration, and the error file.                            *)
(***************************************************************************)
\* Nothing is generated from nothing.
LEMMA EmptyGenerates ==
  Generates({}) /\ GenerateFRRConfigFile({}) = {}
<1>1. /\ \A nodes : Of({}, nodes) = {}
      /\ \A e, nodes : Within({}, e, nodes) = {}
      /\ \A n : Values({}, n) = {}
  BY DEF Of, Within, Values
<1>2. /\ \A table : Formats({}, table)
      /\ \A table : References({}, table)
  BY <1>1 DEF Formats, References
<1>3. ~attachEVPNConfig({}) /\ L3({}) = {} /\ convertPrefixLists({}) = {}
  BY <1>1 DEF attachEVPNConfig, L3, convertPrefixLists
<1>4. frrValidateBFDConfig({})
  BY <1>1, <1>2 DEF frrValidateBFDConfig, EchoShape, validateBFDTimers
<1>5. /\ frrValidateBGPConfig({}) /\ frrValidateEVPNConfig({})
      /\ frrValidateOSPFConfig({}, "v2") /\ frrValidateOSPFConfig({}, "v3")
  BY <1>1, <1>3 DEF frrValidateBGPConfig, frrValidateEVPNConfig, VNIShape, frrValidateOSPFConfig
<1>6. frrValidateVRRPConfig({}) /\ frrValidateStaticRoutes({})
  BY <1>1, <1>2 DEF frrValidateVRRPConfig, frrValidateStaticRoutes, StaticRouteShape
<1>7. validatePolicyObjects({}) /\ frrValidateVRFConfig({}) /\ validateFRRRouteMapReferences({})
  BY <1>1, <1>2, <1>3 DEF validatePolicyObjects, frrValidateVRFConfig, VPNShape, validateFRRRouteMapReferences
<1>8. Generates({})
  BY <1>4, <1>5, <1>6, <1>7 DEF Generates
<1>9. GenerateStaticRouteConfig({}) = {} /\ GenerateRouteMapConfig({}) = {}
  BY <1>1 DEF GenerateStaticRouteConfig, GenerateRouteMapConfig
<1>10. GeneratePrefixListConfig({}) = {}
  BY <1>1, <1>3 DEF GeneratePrefixListConfig
<1>11. GenerateBFDConfig({}) = {} /\ GenerateBGPConfig({}) = {} /\ GenerateVRRPConfig({}) = {}
  BY <1>1, <1>3 DEF GenerateBFDConfig, GenerateBGPConfig, GenerateVRRPConfig
<1>12. GenerateEVPNConfig({}) = {}
  BY <1>1 DEF GenerateEVPNConfig
<1>13. GenerateOSPFConfig({}, "v2") = {} /\ GenerateOSPFConfig({}, "v3") = {}
  BY DEF GenerateOSPFConfig
<1>14. GenerateVRFConfig({}) = {}
  BY <1>1, <1>3 DEF GenerateVRFConfig, applyEVPNToVRFs
<1>15. {<<"hostname", h>> : h \in Values({}, "host-name")} = {}
  BY <1>1
<1> QED
  BY <1>8, <1>9, <1>10, <1>11, <1>12, <1>13, <1>14, <1>15 DEF GenerateFRRConfigFile

\* A router that has applied nothing fits the empty configuration.
LEMMA EmptyFits ==
  ASSUME {} \in Config
  PROVE  Ready({}) /\ Fits(NoFRR, Artifacts[{}])
<1>1. ToLegacyConfig({}) = {}
  BY DEF ToLegacyConfig, Of, WithAreaID
<1>2. Artifacts[{}].file = {} /\ Artifacts[{}].operations = {}
  BY <1>1, EmptyGenerates, ArtifactsOf DEF BuildMgmtOperations
<1>3. Artifacts[{}].links = {}
  <2>1. vrrpSystemInterfaces({}) = {}
    BY DEF vrrpSystemInterfaces, Of
  <2> QED
    BY <1>1, <2>1, ArtifactsOf
<1>4. Linked(NoFRR, Artifacts[{}].mode, {})
  BY ArtifactsOf DEF Linked, NoFRR, Links, LinkNames, Backend
<1>5. NoFRR.running = {} /\ Managed({}) = {}
  BY DEF NoFRR, Managed
<1> QED
  BY <1>1, <1>2, <1>3, <1>4, <1>5, EmptyGenerates DEF Ready, Fits

\* The file of a configuration that generates is not the error file.
LEMMA ReadyIsGenerated ==
  ASSUME NEW c \in Config, Ready(c)
  PROVE  Artifacts[c].file # NotGenerated
<1> DEFINE l == <<"generate error">>
<1>1. l[1] = "generate error"
  OBVIOUS
<1>2. /\ l[1] # "hostname" /\ l[1] # "prefix-list"
      /\ l[1] \notin buildStaticRouteOps /\ l[1] \notin RouteMapCommands
      /\ l[1] \notin DOMAIN BFDTree /\ l[1] \notin BGPCommands /\ l[1] \notin EVPNCommands
      /\ l[1] \notin OSPFCommands /\ l[1] \notin DOMAIN LinkTree /\ l[1] \notin VRFCommands
  BY <1>1, BFDNodes, LinkNodes DEF buildStaticRouteOps, EVPNCommands, BGPCommands, buildBGPOps,
     RouteMapCommands, buildRouteMapOps, VRFCommands, buildVRFOps, OSPFCommands, buildOSPFOps
<1>3. l \in NotGenerated
  BY DEF NotGenerated
<1> HIDE DEF l
<1>4. l \notin GenerateFRRConfigFile(ToLegacyConfig(c))
  BY <1>2, FileLines DEF Ready
<1> QED
  BY <1>3, <1>4, ArtifactsOf
=============================================================================
