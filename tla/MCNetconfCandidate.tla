-------------------------- MODULE MCNetconfCandidate --------------------------
(***************************************************************************)
(* NetconfCandidate on two initial configurations, one that uses every     *)
(* node of the tree and one that the transactional FRR backend can carry,  *)
(* and on edits that set any one leaf to any of a few values, alone or     *)
(* with the rest of the list entry it belongs to.                          *)
(***************************************************************************)
EXTENDS NetconfCandidate

SystemLeaves ==
  {<<"host-name", "name">>, <<"service.enabled", "web-ui">>, <<"service.listen-address", "web-ui", "ip4">>,
   <<"service.port", "web-ui", "100">>, <<"service.enabled", "snmp">>,
   <<"service.community", "snmp", "two words">>,
   <<"cluster.enabled">>, <<"node.address", "n0", "ip4">>, <<"node.priority", "n0", "100">>,
   <<"endpoint", "url">>}

InterfaceLeaves ==
  {<<"description", "ge0", "two words">>, <<"address", "ge0", "0", "inet", "net4">>,
   <<"address", "ge1", "0", "inet6", "net6">>}

RoutingLeaves ==
  {<<"autonomous-system", "100">>, <<"router-id", "ip4">>,
   <<"next-hop", "net4", "1st", "ip4">>, <<"route.bfd", "net4", "1st">>,
   <<"route.bfd-profile", "net4", "1st", "prof">>, <<"route.bfd-source", "net4", "1st", "ip4">>,
   <<"route.bfd-multihop", "net4", "1st">>,
   <<"next-hop", "net6", "1st", "ip6">>, <<"distance", "net6", "1st", "5">>,
   <<"instance.type", "red", "vrf">>, <<"instance.rd", "red", "65000:1">>,
   <<"instance.target", "red", "target:65000:1">>, <<"instance.target-import", "red", "target:65000:1">>,
   <<"instance.target-export", "red", "target:65000:1">>, <<"vrf-import", "red", "pol">>,
   <<"vrf-export", "red", "pol">>, <<"instance.interface", "red", "ge1">>}

BFDLeaves ==
  {<<"profile.multiplier", "prof", "5">>, <<"profile.receive", "prof", "100">>,
   <<"profile.transmit", "prof", "100">>, <<"profile.passive", "prof">>, <<"profile.echo", "two words">>,
   <<"peer.local-address", "ip4", "ip4">>, <<"peer.interface", "ip4", "ge0">>,
   <<"peer.vrf", "ip4", "red">>, <<"peer.multihop", "ip4">>, <<"peer.profile", "ip4", "prof">>,
   <<"peer.multiplier", "ip4", "5">>, <<"peer.shutdown", "ip4">>,
   <<"peer.interface", "ip6", "ge1">>, <<"peer.receive", "ip6", "100">>,
   <<"peer.transmit", "ip6", "100">>, <<"peer.echo", "ip6">>, <<"peer.passive", "ip6">>}

BGPLeaves ==
  {<<"group.type", "grp", "external">>, <<"group.import", "grp", "pol">>, <<"group.export", "grp", "pol">>,
   <<"peer-as", "grp", "ip4", "100">>, <<"neighbor.description", "grp", "ip4", "two words">>,
   <<"neighbor.local-address", "grp", "ip4", "ip4">>, <<"neighbor.bfd", "grp", "ip4">>}

OSPFLeaves ==
  {<<"ospf.router-id", "v2", "ip4">>, <<"area-id", "v2", "0", "0">>, <<"passive", "v2", "0", "ge0">>, <<"metric", "v2", "0", "ge0", "5">>,
   <<"priority", "v2", "0", "ge0", "0">>, <<"area.bfd", "v2", "0", "ge0">>}

LinkLeaves ==
  {<<"mpls.interface", "ge0">>, <<"vrrp.interface", "5", "ge0">>, <<"virtual-address", "5", "ip4">>,
   <<"vrrp.priority", "5", "100">>, <<"preempt", "5">>}

PolicyLeaves ==
  {<<"prefix", "list", "net4">>, <<"prefix", "list", "net6">>, <<"from.prefix-list", "pol", "t1", "list">>,
   <<"accept", "pol", "t1", "true">>, <<"local-preference", "pol", "t1", "0">>,
   <<"community", "pol", "t1", "65000:1">>}

SecurityLeaves ==
  {<<"ssh.enabled", "true">>, <<"ssh.listen-address", "ip4">>, <<"ssh.port", "100">>,
   <<"password", "u", "hash">>, <<"role", "u", "admin">>, <<"ssh-key", "u", "two words">>,
   <<"per-ip", "5">>, <<"per-user", "5">>}

CoSLeaves ==
  {<<"queue", "fc", "1">>, <<"shaping-rate", "tp", "100">>, <<"scheduler-map", "tp", "sm">>,
   <<"output-profile", "ge0", "tp">>}

\* What the transactional backend cannot carry.
FileOnlyLeaves ==
  {<<"vni.type", "100", "l2">>, <<"bridge-domain", "100", "two words">>, <<"vlan-id", "100", "5">>,
   <<"vni.rd", "100", "65000:1">>, <<"vni.target", "100", "target:65000:1">>,
   <<"vni.target-import", "100", "target:65000:1">>, <<"vni.target-export", "100", "target:65000:1">>,
   <<"source-interface", "100", "ge0">>, <<"source-address", "100", "ip4">>,
   <<"remote-vtep", "100", "ip4">>,
   <<"vni.type", "300", "l3">>, <<"vni.instance", "300", "red">>, <<"source-interface", "300", "ge0">>,
   <<"multicast-group", "300", "mcast4">>,
   <<"neighbor.bfd-profile", "grp", "ip4", "prof">>, <<"area.bfd-profile", "v2", "0", "ge0", "prof">>,
   <<"area-id", "v3", "0", "0">>, <<"metric", "v3", "0", "ge1", "5">>,
   <<"from.protocol", "pol", "t1", "static">>, <<"from.neighbor", "pol", "t1", "ip4">>,
   <<"as-path", "pol", "t1", "two words">>}

CoreLeaves ==
  SystemLeaves \cup InterfaceLeaves \cup RoutingLeaves \cup BFDLeaves \cup BGPLeaves \cup OSPFLeaves
  \cup LinkLeaves \cup PolicyLeaves \cup SecurityLeaves \cup CoSLeaves

Core == Closure(CoreLeaves)
Full == Closure(CoreLeaves \cup FileOnlyLeaves)

\* Other values for a leaf: of the same kind as the one it has.
OtherValues(s) ==
  CASE Value(s) \in Number -> {"0", "1", "70000"}
    [] Value(s) \in IP -> {"ip4b", "ip6", "mcast4"}
    [] Value(s) \in CIDR -> {"net4b", "net4c", "net6"}
    [] Value(s) \in InterfaceName -> InterfaceName
    [] OTHER -> {"other", "two words", "100", "set"}

Revalued(s) == {[s EXCEPT ![Len(s)] = v] : v \in OtherValues(s)}

\* The list entry, or the section, that a merge treats as one.
Entry(s) ==
  LET whole == Path[s[1]] \cap MergedWhole
  IN  Up(s, IF whole = {} THEN Parent[s[1]] ELSE CHOOSE n \in whole : TRUE)

Leaves(c) == {s \in Of(c, decodedElements) : s[1] \notin Inner}

LeafEdits ==
  UNION {{Closure(k) : k \in UNION {{{t}, {t} \cup (Below(Full, Entry(s)) \ {s})} : t \in Revalued(s)}} :
           s \in {l \in Leaves(Full) : l[1] \notin Flags}}

FlagEdits == {Closure({s}) : s \in {l \in Leaves(Full) : l[1] \in Flags}}

\* Copies of the entries under another key.
OtherKeys(v) ==
  CASE v \in Number -> {"1"} [] v \in IP -> {"ip4b"} [] v \in InterfaceName -> {"ge1", "ge2"}
    [] v \in CIDR -> {"net4b", "net4c"} [] OTHER -> {"other", "two words", "100"}

Copied(s) ==
  LET i == IF s[1] = "route" THEN 2 ELSE Len(s)
  IN  {Closure({[k EXCEPT ![i] = key] : k \in Below(Full, s)}) : key \in OtherKeys(s[i])}

EntryEdits == UNION {Copied(s) : s \in Of(Full, decodedElements \cap (Inner \ (Containers \cup {"service", "ospf", "family"})))}

MCEdits == LeafEdits \cup FlagEdits \cup EntryEdits \cup {{}, {<<"user", "u">>}}

\* Others change or drop any leaf of the smaller configuration, or one of those
\* that only the larger has, or add one of these; policies and users included.
Changed(c, s) == {Closure(((c \ {s}) \ Of(c, Inner)) \cup t) : t \in {{}} \cup {{k} : k \in Revalued(s)}}

\* A second prefix list, under another name or under the one that the split of
\* the first takes, named by the term or not.
SecondLists ==
  LET list(name, prefixes) == {<<"prefix", name, p>> : p \in prefixes}
      named(name) == {{}, {<<"from.prefix-list", "pol", "t1", name>>}}
  IN  UNION {{Core \cup Closure(list("list-v6", p) \cup n) : n \in named("list-v6")} :
               p \in (SUBSET CIDR) \ {{}}}
      \cup {(Core \ {<<"prefix", "list", q>>}) \cup Closure(list("list-v6", p)
              \cup {<<"from.prefix-list", "pol", "t1", "list-v6">>}) :
              p \in (SUBSET CIDR) \ {{}}, q \in {"net4", "net6"}}

\* What they commit has been parsed and has passed the engine's dry run.
MCOthers ==
  LET changed == UNION {Changed(Core, s) : s \in {l \in CoreLeaves : l[1] \notin Flags}}
                 \cup UNION {Changed(Full, s) : s \in FileOnlyLeaves}
                 \cup {Core \cup Closure({s}) : s \in FileOnlyLeaves}
  IN  {c \in changed \cup SecondLists :
         /\ Parse(ToSetCommands(c)) # NotParsed /\ interfaceNames(c) \subseteq Hardware
         /\ ConfigValidate(c) /\ ModelValidate(c) /\ Generates(c)}

MCInitial == {Core, Full}
=============================================================================
