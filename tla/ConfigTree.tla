------------------------------ MODULE ConfigTree ------------------------------
(***************************************************************************)
(* The router configuration (pkg/config/types.go) as a set of statements.  *)
(*                                                                         *)
(* A statement is a sequence: the name of a node of the configuration tree *)
(* followed by its arguments, the keys of the enclosing list entries first *)
(* and the node's own value (or key) last:                                 *)
(*                                                                         *)
(*    <<"description", "ge0", "note">>   interface ge0 has this text       *)
(*    <<"unit", "ge0", "0">>             interface ge0 has a unit 0        *)
(*    <<"route.bfd", "net4", "1st">>     a flag that is set                *)
(*                                                                         *)
(* A configuration is a set of statements that contains the parent of each *)
(* of its members.  A Go field that holds its zero value is no statement,  *)
(* so equality of sets is equality of the structures, except that the      *)
(* order of a list is not represented.                                     *)
(*                                                                         *)
(* Values are a few representatives of each class that some function of    *)
(* the program tells apart.                                                *)
(***************************************************************************)
EXTENDS Naturals, Sequences, FiniteSets, TLC

Each(S, v) == [x \in S |-> v]

\* One table of several whose domains are disjoint.
Merged(tables) == [x \in UNION {DOMAIN t : t \in tables} |-> (CHOOSE t \in tables : x \in DOMAIN t)[x]]

(***************************************************************************)
(* The tree: the parent of every node, section by section.                 *)
(***************************************************************************)
SystemTree ==
  Merged({Each({"system"}, "root"), Each({"host-name", "service"}, "system"),
          Each({"service.enabled", "service.listen-address", "service.port", "service.community"}, "service")})

ChassisTree ==
  Merged({Each({"chassis"}, "root"), Each({"cluster.enabled", "node", "endpoint"}, "chassis"),
          Each({"node.address", "node.priority"}, "node")})

InterfaceTree ==
  Merged({Each({"interface"}, "root"), Each({"description", "unit"}, "interface"),
          Each({"family"}, "unit"), Each({"address"}, "family")})

RoutingTree ==
  Merged({Each({"routing-options"}, "root"),
          Each({"autonomous-system", "router-id", "route"}, "routing-options"),
          Each({"next-hop", "distance", "route.bfd", "route.bfd-profile", "route.bfd-source",
              "route.bfd-multihop"}, "route")})

InstanceTree ==
  Merged({Each({"instance"}, "root"),
          Each({"instance.type", "instance.rd", "instance.target", "instance.target-import",
              "instance.target-export", "vrf-import", "vrf-export", "instance.interface"}, "instance")})

BFDTree ==
  Merged({Each({"profile", "peer"}, "protocols"),
          Each({"profile.multiplier", "profile.receive", "profile.transmit", "profile.echo",
              "profile.passive"}, "profile"),
          Each({"peer.local-address", "peer.interface", "peer.vrf", "peer.multihop", "peer.profile",
              "peer.multiplier", "peer.receive", "peer.transmit", "peer.echo", "peer.passive",
              "peer.shutdown"}, "peer")})

EVPNTree ==
  Merged({Each({"vni"}, "protocols"),
          Each({"vni.type", "bridge-domain", "vlan-id", "vni.instance", "vni.rd", "vni.target",
              "vni.target-import", "vni.target-export", "source-interface", "source-address",
              "multicast-group", "remote-vtep"}, "vni")})

LinkTree ==
  Merged({Each({"mpls.interface", "vrrp"}, "protocols"),
          Each({"vrrp.interface", "virtual-address", "vrrp.priority", "preempt"}, "vrrp")})

BGPTree ==
  Merged({Each({"bgp"}, "protocols"), Each({"group"}, "bgp"),
          Each({"group.type", "group.import", "group.export", "neighbor"}, "group"),
          Each({"peer-as", "neighbor.description", "neighbor.local-address", "neighbor.bfd",
              "neighbor.bfd-profile"}, "neighbor")})

\* ospf and ospf3 have the same structure; the key of "ospf" tells them apart.
OSPFTree ==
  Merged({Each({"ospf"}, "protocols"), Each({"ospf.router-id", "area"}, "ospf"),
          Each({"area-id", "area.interface"}, "area"),
          Each({"passive", "metric", "priority", "area.bfd", "area.bfd-profile"}, "area.interface")})

PolicyTree ==
  Merged({Each({"policy-options"}, "root"), Each({"prefix-list", "policy"}, "policy-options"),
          Each({"prefix"}, "prefix-list"), Each({"term"}, "policy"),
          Each({"from.prefix-list", "from.protocol", "from.neighbor", "as-path", "accept",
              "local-preference", "community"}, "term")})

SecurityTree ==
  Merged({Each({"security"}, "root"), Each({"ssh", "user", "rate-limit"}, "security"),
          Each({"ssh.enabled", "ssh.listen-address", "ssh.port"}, "ssh"),
          Each({"password", "role", "ssh-key"}, "user"),
          Each({"per-ip", "per-user"}, "rate-limit")})

CoSTree ==
  Merged({Each({"class-of-service"}, "root"),
          Each({"forwarding-class", "traffic-profile", "cos-interface"}, "class-of-service"),
          Each({"queue"}, "forwarding-class"),
          Each({"shaping-rate", "scheduler-map"}, "traffic-profile"),
          Each({"output-profile"}, "cos-interface")})

Parent ==
  Merged({SystemTree, ChassisTree, InterfaceTree, RoutingTree, InstanceTree,
          Each({"protocols"}, "root"), BFDTree, EVPNTree, LinkTree, BGPTree, OSPFTree, PolicyTree,
          SecurityTree, CoSTree})

Node == DOMAIN Parent

(***************************************************************************)
(* Nodes without an argument: containers (Go pointers that may be nil) and *)
(* flags (Go booleans).                                                    *)
(***************************************************************************)
Containers == {"system", "chassis", "routing-options", "protocols", "bgp", "policy-options",
               "class-of-service", "security", "ssh", "rate-limit"}

Flags == {"service.enabled", "cluster.enabled", "route.bfd", "route.bfd-multihop", "profile.echo",
          "profile.passive", "peer.multihop", "peer.echo", "peer.passive", "peer.shutdown",
          "neighbor.bfd", "passive", "area.bfd", "preempt"}

\* Nodes that have children: list entries and containers.
Inner == {Parent[n] : n \in Node} \ {"root"}

\* The keys of a static route are its prefix and its place among the routes
\* to that prefix: StaticRoutes is a slice, not a map.
OwnKeys(n) == CASE n \in Containers \cup Flags -> <<>>
                [] n = "route" -> <<"route", "nth">>
                [] OTHER -> <<n>>

\* The node that owns each argument of a statement of node n.
OwnersIn(parent) ==
  LET owner[n \in DOMAIN parent] ==
        (IF parent[n] = "root" THEN <<>> ELSE owner[parent[n]]) \o OwnKeys(n)
  IN  [n \in DOMAIN parent |-> owner[n]]

Owner == OwnersIn(Parent)

\* The node's ancestors, itself included.
PathsIn(parent) ==
  LET path[n \in DOMAIN parent] == {n} \cup (IF parent[n] = "root" THEN {} ELSE path[parent[n]])
  IN  [n \in DOMAIN parent |-> path[n]]

Path == PathsIn(Parent)

SectionsIn(parent) ==
  LET section[n \in DOMAIN parent] == IF parent[n] = "root" THEN n ELSE section[parent[n]]
  IN  [n \in DOMAIN parent |-> section[n]]

Section == SectionsIn(Parent)

(***************************************************************************)
(* Statements.                                                             *)
(***************************************************************************)
Args(s) == Tail(s)

Value(s) == s[Len(s)]

\* The statement of s's ancestor n.
Up(s, n) == <<n>> \o SubSeq(s, 2, Len(Owner[n]) + 1)

Ancestors(s) == {Up(s, n) : n \in Path[s[1]]}

\* The configuration that setting these statements creates (GetOrCreate...).
Closure(S) == UNION {Ancestors(s) : s \in S}

Of(c, nodes) == {s \in c : s[1] \in nodes}

\* The statements of these nodes in the entry s, whose node is above theirs.
Within(c, s, nodes) == {k \in Of(c, nodes) : SubSeq(k, 2, Len(s)) = Args(s)}

Below(c, s) == Within(c, s, {n \in Node : s[1] \in Path[n]})

WellFormed(c) == Closure(c) = c

(***************************************************************************)
(* Values.                                                                 *)
(***************************************************************************)
Number == {"0", "1", "5", "100", "300", "70000"}

InterfaceName == {"ge0", "ge1", "ge2"}

IP4 == {"ip4", "ip4b", "ip4c", "mcast4"}
IP6 == {"ip6"}
IP == IP4 \cup IP6

\* Prefixes; as an interface address, a prefix holds a host address.  Masked,
\* net4c is net4: it is another host of the same subnet.
HostAddress == [net4 |-> "ip4", net4b |-> "ip4b", net4c |-> "ip4c", net6 |-> "ip6"]
Subnet == [net4 |-> "net4", net4b |-> "net4b", net4c |-> "net4", net6 |-> "net6"]
CIDR == DOMAIN HostAddress
CIDR6 == {"net6"}
CIDR4 == CIDR \ CIDR6

\* A value with a blank in it, and the keyword that starts a statement.
Phrase == {"two words"}
Keyword == {"set"}
=============================================================================
