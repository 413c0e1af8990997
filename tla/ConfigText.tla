------------------------------ MODULE ConfigText ------------------------------
(***************************************************************************)
(* The text form of a configuration: the lines "set ..." that              *)
(* serializer.go writes and lexer.go and parser*.go read.  The text is     *)
(* what every datastore keeps, what a commit compares and what the engine  *)
(* is given, so a structure passes through it between any two steps of a   *)
(* client.                                                                 *)
(*                                                                         *)
(* A line is a statement of ConfigTree together with the token the lexer   *)
(* makes of each argument as the serializer wrote it.  The tables give,    *)
(* per node, what the parser takes for the node's own argument and how the *)
(* serializer writes it; they are named after the functions they stand     *)
(* for.                                                                    *)
(***************************************************************************)
EXTENDS ConfigTree

(***************************************************************************)
(* The lexer.  A text without blanks becomes a number when it is all       *)
(* digits, the keyword token when it is "set" and a word otherwise; with a *)
(* blank in it, it becomes several tokens.                                 *)
(***************************************************************************)
NextToken(v) ==
  CASE v \in Number -> "number"
    [] v \in Keyword -> "set"
    [] v \in Phrase -> "words"
    [] OTHER -> "word"

\* Mutant of EscapeValue: nothing is quoted.
EscapeValueBare(v) == NextToken(v)

\* EscapeValue quotes what holds a blank, and nothing else of these classes.
EscapeValue(v) == IF v \in Phrase THEN "string" ELSE NextToken(v)

(***************************************************************************)
(* What the parser takes: the kinds of token per node.                     *)
(***************************************************************************)
W == {"word"}
N == {"number"}
WS == {"word", "string"}
WN == {"word", "number"}
S == {"string"}

parseSystem == Each({"host-name"}, WS)

parseSystemServices ==
  Each({"service"}, W) @@ Each({"service.listen-address", "service.community"}, WS)
  @@ Each({"service.port"}, N)

parseChassis == Each({"node", "node.address"}, W) @@ Each({"node.priority"}, N)
                @@ Each({"endpoint"}, WS)

parseInterfaces == Each({"interface"}, W) @@ Each({"description"}, WS)

parseInterfaceUnit == Each({"unit"}, N) @@ Each({"family", "address"}, W)

parseRoutingOptions == Each({"autonomous-system"}, N) @@ Each({"router-id"}, W)

parseStaticRoute ==
  Each({"route", "nth", "next-hop", "route.bfd-source"}, W) @@ Each({"distance"}, N)
  @@ Each({"route.bfd-profile"}, WS)

parseRoutingInstances ==
  Each({"instance", "instance.type", "instance.rd", "instance.target", "instance.target-import",
        "instance.target-export", "instance.interface"}, W)
  @@ Each({"vrf-import", "vrf-export"}, WS)

parseEVPN ==
  Each({"vni", "vlan-id"}, N) @@ Each({"bridge-domain", "vni.instance"}, WS)
  @@ Each({"vni.type", "vni.rd", "vni.target", "vni.target-import", "vni.target-export",
           "source-interface", "source-address", "multicast-group", "remote-vtep"}, W)

parseBFDProfile ==
  Each({"profile"}, WS) @@ Each({"profile.multiplier", "profile.receive", "profile.transmit"}, N)

parseBFDPeer ==
  Each({"peer", "peer.local-address", "peer.vrf", "peer.profile"}, WS)
  @@ Each({"peer.interface"}, W) @@ Each({"peer.multiplier", "peer.receive", "peer.transmit"}, N)

parseMPLS == Each({"mpls.interface"}, W)

parseVRRP == Each({"vrrp"}, WN) @@ Each({"vrrp.interface", "virtual-address"}, W)
             @@ Each({"vrrp.priority"}, N)

parseBGPGroup == Each({"group", "group.type", "group.import", "group.export"}, W)

parseBGPNeighbor ==
  Each({"neighbor", "neighbor.local-address"}, W) @@ Each({"peer-as"}, N)
  @@ Each({"neighbor.description", "neighbor.bfd-profile"}, WS)

parseOSPFConfig == Each({"ospf", "ospf.router-id"}, W)

parseOSPFArea == Each({"area"}, WN) @@ Each({"area.interface"}, W)
                 @@ Each({"metric", "priority"}, N) @@ Each({"area.bfd-profile"}, WS)

parsePrefixList == Each({"prefix-list", "prefix"}, W)

parsePolicyStatement == Each({"policy", "term"}, W)

parsePolicyMatchConditions ==
  Each({"from.prefix-list", "from.protocol", "from.neighbor"}, W) @@ Each({"as-path"}, WS)

parsePolicyActions == Each({"accept"}, W) @@ Each({"local-preference"}, N) @@ Each({"community"}, WS)

parseClassOfService ==
  Each({"forwarding-class", "traffic-profile", "scheduler-map", "cos-interface",
        "output-profile"}, W)
  @@ Each({"queue", "shaping-rate"}, N)

parseSecurityNETCONF == Each({"ssh.enabled"}, W) @@ Each({"ssh.listen-address"}, WS)
                        @@ Each({"ssh.port"}, WN)

parseSecurityUsers == Each({"user", "role"}, W) @@ Each({"password"}, WS) @@ Each({"ssh-key"}, S)

parseSecurityRateLimit == Each({"per-ip", "per-user"}, WN)

parserTakes ==
  parseSystem @@ parseSystemServices @@ parseChassis @@ parseInterfaces @@ parseInterfaceUnit
  @@ parseRoutingOptions @@ parseStaticRoute @@ parseRoutingInstances @@ parseEVPN
  @@ parseBFDProfile @@ parseBFDPeer @@ parseMPLS @@ parseVRRP @@ parseBGPGroup
  @@ parseBGPNeighbor @@ parseOSPFConfig @@ parseOSPFArea @@ parsePrefixList
  @@ parsePolicyStatement @@ parsePolicyMatchConditions @@ parsePolicyActions
  @@ parseClassOfService @@ parseSecurityNETCONF @@ parseSecurityUsers @@ parseSecurityRateLimit

(***************************************************************************)
(* Values the parser itself refuses.                                       *)
(***************************************************************************)
AutonomousSystem == Number \ {"0"}
Port == Number \ {"70000"}
RateLimit == {"1", "5", "100", "300"}
Protocol == {"static"}
Community == {"65000:1"}
Role == {"admin"}
BGPGroupType == {"internal", "external"}

parsedValues ==
  Each({"autonomous-system", "peer-as"}, AutonomousSystem)
  @@ Each({"group.type"}, BGPGroupType) @@ Each({"prefix"}, CIDR)
  @@ Each({"from.protocol"}, Protocol) @@ Each({"from.neighbor"}, IP)
  @@ Each({"community"}, Community) @@ Each({"ssh.port"}, Port) @@ Each({"role"}, Role)
  @@ Each({"per-ip", "per-user"}, RateLimit)

(***************************************************************************)
(* What the serializer writes: per node, plain (%s, %d) or through         *)
(* EscapeValue.  A node outside the tables is not written.                 *)
(***************************************************************************)
toSetCommandsWithError == Each({"host-name"}, "escaped")

writeSystemServices ==
  Each({"service", "service.enabled", "service.port"}, "plain")
  @@ Each({"service.listen-address", "service.community"}, "escaped")

writeChassis == Each({"cluster.enabled", "node", "node.address", "node.priority"}, "plain")
                @@ Each({"endpoint"}, "escaped")

writeInterfaces == Each({"description"}, "escaped")
                   @@ Each({"interface", "unit", "family", "address"}, "plain")

writeRoutingOptions ==
  Each({"router-id", "autonomous-system", "route", "nth", "next-hop", "distance", "route.bfd",
        "route.bfd-multihop", "route.bfd-source"}, "plain")
  @@ Each({"route.bfd-profile"}, "escaped")

writeRoutingInstances ==
  Each({"instance", "instance.type", "instance.rd", "instance.target", "instance.target-import",
        "instance.target-export", "instance.interface"}, "plain")
  @@ Each({"vrf-import", "vrf-export"}, "escaped")

writeBFD ==
  Each({"profile", "peer", "peer.local-address", "peer.vrf", "peer.profile"}, "escaped")
  @@ Each({"profile.receive", "profile.transmit", "profile.multiplier", "profile.echo",
           "profile.passive", "peer.interface", "peer.multihop", "peer.receive",
           "peer.transmit", "peer.multiplier", "peer.echo", "peer.passive",
           "peer.shutdown"}, "plain")

writeEVPN ==
  Each({"bridge-domain", "vni.instance"}, "escaped")
  @@ Each({"vni", "vni.type", "vlan-id", "vni.rd", "vni.target", "vni.target-import",
           "vni.target-export", "source-interface", "source-address", "multicast-group",
           "remote-vtep"}, "plain")

writeMPLS == Each({"mpls.interface"}, "plain")

writeVRRP == Each({"vrrp", "vrrp.interface", "virtual-address", "vrrp.priority", "preempt"}, "plain")

writeBGP ==
  Each({"group", "group.type", "group.import", "group.export", "neighbor", "peer-as",
        "neighbor.local-address", "neighbor.bfd"}, "plain")
  @@ Each({"neighbor.description", "neighbor.bfd-profile"}, "escaped")

writeOSPF ==
  Each({"ospf", "ospf.router-id", "area", "area.interface", "passive", "metric", "priority",
        "area.bfd"}, "plain")
  @@ Each({"area.bfd-profile"}, "escaped")

writePolicyOptions == Each({"prefix-list", "prefix", "policy"}, "plain")

writePolicyTerm ==
  Each({"term", "from.prefix-list", "from.protocol", "from.neighbor", "accept",
        "local-preference"}, "plain")
  @@ Each({"as-path", "community"}, "escaped")

writeClassOfService ==
  Each({"forwarding-class", "queue", "traffic-profile", "shaping-rate", "scheduler-map",
        "cos-interface", "output-profile"}, "plain")

writeSecurity ==
  Each({"ssh.enabled", "ssh.port", "user", "role", "per-ip", "per-user"}, "plain")
  @@ Each({"ssh.listen-address", "password", "ssh-key"}, "escaped")

serializerWrites ==
  toSetCommandsWithError @@ writeSystemServices @@ writeChassis @@ writeInterfaces
  @@ writeRoutingOptions @@ writeRoutingInstances @@ writeBFD @@ writeEVPN @@ writeMPLS
  @@ writeVRRP @@ writeBGP @@ writeOSPF @@ writePolicyOptions @@ writePolicyTerm
  @@ writeClassOfService @@ writeSecurity

\* "bfd profile p" is written instead of "bfd", not after it.
Shadowed(c, s) ==
  \/ s[1] = "neighbor.bfd" /\ Within(c, Up(s, "neighbor"), {"neighbor.bfd-profile"}) # {}
  \/ s[1] = "area.bfd" /\ Within(c, Up(s, "area.interface"), {"area.bfd-profile"}) # {}

\* List entries are written only as part of what is below them, except that
\* an OSPF interface without parameters gets a line of its own.
WrittenStatements(c) ==
  {s \in c : /\ s[1] \in DOMAIN serializerWrites
             /\ IF s[1] = "area.interface" THEN Below(c, s) = {s}
                ELSE s[1] \notin Inner /\ ~Shadowed(c, s)}

WriteLine(s) ==
  [stmt |-> s,
   tokens |-> [i \in DOMAIN Args(s) |->
                 IF serializerWrites[Owner[s[1]][i]] = "escaped" THEN EscapeValue(Args(s)[i])
                                                                ELSE NextToken(Args(s)[i])]]

NormalizePasswordForStorage(s) == IF s[1] = "password" THEN <<s[1], s[2], "hash">> ELSE s

ToSetCommands(c) == {WriteLine(NormalizePasswordForStorage(s)) : s \in WrittenStatements(c)}

(***************************************************************************)
(* The parser.  It answers NotParsed at the first line it does not         *)
(* accept, and for a second static route to one prefix.  (In the text one  *)
(* route is one line; here it is one line per parameter, so a second route *)
(* shows as a second next-hop.)                                            *)
(***************************************************************************)
NotParsed == {<<"syntax error">>}

Accepts(line) ==
  \A i \in DOMAIN line.tokens :
    LET owner == Owner[line.stmt[1]][i]
    IN  /\ line.tokens[i] \in parserTakes[owner]
        /\ owner \in DOMAIN parsedValues => Args(line.stmt)[i] \in parsedValues[owner]

DuplicateRoute(lines) ==
  \E l, m \in lines : /\ l.stmt[1] = "next-hop" /\ m.stmt[1] = "next-hop"
                       /\ l.stmt[2] = m.stmt[2] /\ l # m

\* A BFD parameter of a neighbor, an area interface or a route turns BFD on.
TurnsOnBFD ==
  Each({"neighbor.bfd-profile"}, "neighbor.bfd") @@ Each({"area.bfd-profile"}, "area.bfd")
  @@ Each({"route.bfd-profile", "route.bfd-source", "route.bfd-multihop"}, "route.bfd")

WithBFD(c) == c \cup {Up(s, TurnsOnBFD[s[1]]) : s \in Of(c, DOMAIN TurnsOnBFD)}

\* A number that is given the zero value leaves only its entry behind, unless
\* the structure records that it was given.
Numeric == {n \in DOMAIN parserTakes \ Inner : parserTakes[n] = N}
           \cup {"ssh.port", "per-ip", "per-user"}

Explicit == {"priority", "local-preference", "queue"}

Stores(s) == IF s[1] \in Numeric \ Explicit /\ Value(s) = "0" THEN Up(s, Parent[s[1]])
             ELSE NormalizePasswordForStorage(s)

\* A forwarding class has a queue from the moment it exists.
WithQueue(c) ==
  c \cup {<<"queue", s[2], "0">> :
            s \in {f \in Of(c, {"forwarding-class"}) : Within(c, f, {"queue"}) = {}}}

\* The text has one name for an OSPF area, which becomes its area-id too.
WithAreaID(c) == c \cup {<<"area-id", s[2], s[3], s[3]>> : s \in Of(c, {"area"})}

Parse(lines) ==
  IF (\E line \in lines : ~Accepts(line)) \/ DuplicateRoute(lines) THEN NotParsed
  ELSE WithAreaID(WithQueue(WithBFD(Closure({Stores(line.stmt) : line \in lines}))))
=============================================================================
