----------------------------- MODULE MCSouthbound -----------------------------
(***************************************************************************)
(* Southbound on nine configurations that between them use every section  *)
(* of the plugins: interfaces that come, go, change and move to another    *)
(* table, MPLS, class of service, tunnels of both kinds, and FRR           *)
(* configurations for each backend, with and without VRRP groups, two of   *)
(* which differ in static routes.                                          *)
(***************************************************************************)
EXTENDS Southbound

Address(n, a) == {<<"address", n, "0", IF a \in CIDR6 THEN "inet6" ELSE "inet", a>>}

Red(interface) ==
  {<<"instance.type", "red", "vrf">>, <<"instance.rd", "red", "65000:1">>,
   <<"instance.target", "red", "target:65000:1">>, <<"instance.interface", "red", interface>>}

Shaped(interface) ==
  {<<"queue", "fc", "1">>, <<"shaping-rate", "tp", "100">>, <<"output-profile", interface, "tp">>}

Plain == Address("ge0", "net4")

Labelled == Address("ge0", "net4b") \cup Address("ge1", "net6") \cup {<<"mpls.interface", "ge0">>, <<"host-name", "name">>}

InInstance == Address("ge0", "net4") \cup Address("ge1", "net4b") \cup Red("ge0") \cup Shaped("ge0")
              \cup {<<"autonomous-system", "100">>}

L3Tunnel ==
  InInstance \cup {<<"vni.type", "300", "l3">>, <<"vni.instance", "300", "red">>,
                   <<"source-interface", "300", "ge1">>, <<"source-address", "300", "ip4b">>,
                   <<"remote-vtep", "300", "ip4">>}

L2Tunnel ==
  Address("ge0", "net4") \cup {<<"autonomous-system", "100">>, <<"vni.type", "100", "l2">>,
                      <<"bridge-domain", "100", "two words">>, <<"vlan-id", "100", "5">>,
                      <<"vni.rd", "100", "65000:1">>, <<"vni.target", "100", "target:65000:1">>,
                      <<"source-interface", "100", "ge0">>, <<"multicast-group", "100", "mcast4">>,
                      <<"metric", "v3", "0", "ge0", "5">>}

Redundant(hop) ==
  Address("ge0", "net4") \cup {<<"vrrp.interface", "5", "ge0">>, <<"virtual-address", "5", "ip4">>,
                      <<"next-hop", "net4", "1st", hop>>}

RedundantV6 ==
  Address("ge0", "net4") \cup {<<"vrrp.interface", "1", "ge0">>, <<"virtual-address", "1", "ip4b">>,
                               <<"metric", "v3", "0", "ge0", "5">>}

MCConfig ==
  {Closure(leaves) : leaves \in {{}, Plain, Labelled, InInstance, L3Tunnel, L2Tunnel,
                                 Redundant("ip4"), Redundant("ip4b"), RedundantV6}}
=============================================================================
