------------------------------ MODULE VppClient ------------------------------
(***************************************************************************)
(* VPP as its clients see it (pkg/vpp/mock.go, the implementation of the   *)
(* client that keeps the dataplane's state itself).                        *)
(*                                                                         *)
(* The dataplane is a set of facts <<kind, id, ...>>.  The id of a fact    *)
(* about an interface is the interface's index:                            *)
(*                                                                         *)
(*    <<"interface", 1, "ge0">>    interface 1 exists and is this device   *)
(*    <<"up", 1>>                  it is up                                *)
(*    <<"address", 1, "net4">>     it has this address                     *)
(*    <<"table", 1, "v4", 7>>      it is bound to this table               *)
(*    <<"ip-table", 7, "v4">>      the table exists                        *)
(*    <<"tunnel", 2, request>>     interface 2 is this VXLAN tunnel        *)
(*                                                                         *)
(* A request names a kind of fact, what to do with it, and the rest of it. *)
(***************************************************************************)
EXTENDS Naturals, Sequences, FiniteSets

\* Kinds of facts that belong to an interface.
OfInterface == {"up", "lcp", "address", "mpls", "qos", "table", "member"}

Version == {"v4", "v6"}

Exists(v, i) == \E f \in v : f[1] = "interface" /\ f[2] = i

\* The tables come in pairs, one for each version.
TablePair(i, t) == IF t = 0 THEN {} ELSE {<<"table", i, w, t>> : w \in Version}

IPTablePair(t) == {<<"ip-table", t, w>> : w \in Version}

\* The facts that a request adds or deletes.
FactsOf(r, id) ==
  CASE r.kind = "table"    -> TablePair(id, r.arg[1])
    [] r.kind = "ip-table" -> IPTablePair(id)
    [] OTHER               -> {<<r.kind, id>> \o r.arg}

(***************************************************************************)
(* Requests that VPP answers with an error.                                *)
(***************************************************************************)
Refuses(v, r, id) ==
  \/ r.kind \in OfInterface /\ ~Exists(v, id)
  \/ r.kind \in {"address", "lcp"} /\ r.op = "add" /\ FactsOf(r, id) \subseteq v
  \/ r.kind \in {"address", "lcp"} /\ r.op = "delete" /\ ~(FactsOf(r, id) \subseteq v)
  \/ r.kind = "table" /\ r.arg[1] # 0 /\ ~(IPTablePair(r.arg[1]) \subseteq v)
  \/ r.kind = "member" /\ r.op = "add" /\ ~\E f \in v : f[1] = "bridge" /\ f[2] = r.arg[1]
  \/ r.kind = "tunnel" /\ r.op = "add" /\ \E f \in v : f[1] = "tunnel" /\ f[3] = r.arg[1]
  \/ r.kind = "tunnel" /\ r.op = "add" /\ r.arg[1].index # 0 /\ ~Exists(v, r.arg[1].index)

(***************************************************************************)
(* The facts that a request replaces or takes along.                       *)
(***************************************************************************)
Displaced(v, r, id) ==
  CASE r.kind \in {"table", "qos", "member"} -> {f \in v : f[1] = r.kind /\ f[2] = id}
    [] r.kind = "bridge" /\ r.op = "delete"  ->
         {f \in v : (f[1] = "bridge" /\ f[2] = id) \/ (f[1] = "member" /\ f[3] = id)}
    [] r.kind = "bridge" /\ r.op = "add"     -> {f \in v : f[1] = "bridge" /\ f[2] = id}
    [] r.kind = "tunnel" /\ r.op = "delete"  ->
         UNION {{f \in v : f[1] \in OfInterface \cup {"interface", "tunnel"} /\ f[2] = t[2]} :
                  t \in {f \in v : f[1] = "tunnel" /\ f[3] = r.arg[1]}}
    [] r.kind = "tunnel" /\ r.op = "add"     -> {}
    [] OTHER -> IF r.op \in {"delete", "drop"} THEN FactsOf(r, id) ELSE {}

After(v, r, id) ==
  CASE r.op \in {"delete", "drop"} -> v \ Displaced(v, r, id)
    [] r.kind = "tunnel" -> v \cup FactsOf(r, id) \cup {<<"interface", id, r.arg[1].vni>>}
    [] OTHER -> (v \ Displaced(v, r, id)) \cup FactsOf(r, id)
=============================================================================
