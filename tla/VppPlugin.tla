------------------------------- MODULE VppPlugin -------------------------------
(***************************************************************************)
(* The VPP plugin (internal/southbound/vpp/plugin.go and evpn.go): how     *)
(* ApplyChanges turns the difference of two configurations into requests,  *)
(* undoes them when one fails, and how RollbackChanges reverts them when a *)
(* later plugin fails.                                                     *)
(*                                                                         *)
(* A function of the plugin is a sequence of sections, a section is a      *)
(* sequence of steps, and a step is a request, what undoes it, and what    *)
(* its failure means.  The steps of a section are worked out when the      *)
(* section begins, from what the plugin knows then.                        *)
(***************************************************************************)
EXTENDS VppClient, VppPlans, SequencesExt

CONSTANT MaxFaults    \* bound: how many requests may fail for no reason of the dataplane's

VARIABLES vpp,                     \* the dataplane
          nextIfIdx,               \* the index of the next interface
          ifaceIndex,              \* index of each interface the plugin knows, or 0
          vxlanIfIndex,            \* index of each tunnel the plugin knows, or 0
          removedInterfaces,       \* index of each interface the last apply removed, or 0
          applyFailureRolledBack,  \* the last apply failed and undid itself
          call,                    \* the function of the plugin that runs
          faults,                  \* requests that have failed so far
          halved                   \* kinds of pairs of which a failed request did one half

vppVars == <<vpp, nextIfIdx, ifaceIndex, vxlanIfIndex, removedInterfaces, applyFailureRolledBack,
             call, halved>>

(***************************************************************************)
(* What a request is about: an interface by its name, a tunnel by its VNI, *)
(* or the id itself.                                                       *)
(***************************************************************************)
Named(n) == <<"name", n>>
Tunnel(v) == <<"vni", v>>
Id(x) == <<"id", x>>

Request(op, kind, on, arg) == [op |-> op, kind |-> kind, on |-> on, arg |-> arg]

SetInterfaceUp(on) == Request("add", "up", on, <<>>)
SetInterfaceDown(on) == Request("delete", "up", on, <<>>)
SetInterfaceAddress(n, a) == Request("add", "address", Named(n), <<a>>)
DeleteInterfaceAddress(n, a) == Request("delete", "address", Named(n), <<a>>)
SetMPLSInterface(n, enabled) == Request(IF enabled THEN "add" ELSE "delete", "mpls", Named(n), <<>>)
SetQoSProfile(n, p) == Request("add", "qos", Named(n), <<p>>)
ClearQoSProfile(n) == Request("delete", "qos", Named(n), <<{}>>)
addIPTablePair(t) == Request("add", "ip-table", Id(t), <<>>)
deleteIPTablePair(t) == Request("delete", "ip-table", Id(t), <<>>)
setInterfaceTablePair(on, t) == Request("add", "table", on, <<t>>)
DeleteLCPInterface(n) == Request("delete", "lcp", Named(n), <<>>)
AddBridgeDomain(plan) == Request("add", "bridge", Id(plan.vni), <<plan.bridge>>)
DeleteBridgeDomain(plan) == Request("delete", "bridge", Id(plan.vni), <<plan.bridge>>)
SetInterfaceL2Bridge(v, enable) == Request(IF enable THEN "add" ELSE "delete", "member", Tunnel(v), <<v>>)
CreateInterface(n) == Request("create", "interface", Id(n), <<n>>)
CreateVXLAN(plan) == Request("add", "tunnel", Id(plan.vni), <<plan.request>>)
DeleteVXLAN(plan) == Request("delete", "tunnel", Id(plan.vni), <<plan.request>>)

\* The LCP manager also saves its mapping (pkg/vpp/lcp_state.go).
LCPCreate(n) == Request("add", "lcp", Named(n), <<>>)
deleteLCPIfPresent(n) == Request("drop", "lcp", Named(n), <<>>)

\* Assignments to the plugin's own variables, and an error of its own.
Assign(op, on) == Request(op, "memory", Id(on), <<>>)

Recall(n) == Assign("recall", n)
Forget(n) == Assign("forget", n)
ForgetVXLAN(v) == Assign("forget vxlan", v)
NoteRemoved(n) == Assign("note removed", n)
Handled(some) == Assign("handled", some)
NotFoundInVPP == Assign("fail", "none")

(***************************************************************************)
(* Steps.  An entry of the undo list is a sequence of steps itself.        *)
(***************************************************************************)
Step(r, u) == [request |-> r, undo |-> u, amends |-> FALSE, logged |-> FALSE, stops |-> TRUE]

Do(r) == Step(r, <<>>)

\* The step's undo takes the place of the entry before it.
Amend(r, u) == [Step(r, u) EXCEPT !.amends = TRUE]

\* An error is only logged.
Try(r) == [Do(r) EXCEPT !.logged = TRUE]

\* An error does not keep the rest of the section from being tried.
Regardless(s) == [k \in DOMAIN s |-> [s[k] EXCEPT !.stops = FALSE]]

Sequential(order, some, Steps(_)) ==
  LET chosen == SelectSeq(order, LAMBDA x : x \in some)
  IN  FlattenSeq([k \in DOMAIN chosen |-> Steps(chosen[k])])

\* The code sorts VNIs and instances and ranges over maps of interfaces, in an
\* order of the runtime's; the model fixes one.
InterfaceOrder == <<"ge0", "ge1">>
AddressOrder == <<"net4", "net4b", "net6">>
VNIOrder == <<"100", "300">>

(***************************************************************************)
(* Interfaces.                                                             *)
(***************************************************************************)
addresses(c, n) == configuredInterfaceAddresses(c, n)

added(old, new) == interfaceNames(new) \ interfaceNames(old)
removed(old, new) == interfaceNames(old) \ interfaceNames(new)

known(n) == ifaceIndex[n] # 0

createInterface(n) ==
  <<Step(CreateInterface(n), Regardless(<<Do(DeleteLCPInterface(n)), Do(SetInterfaceDown(Named(n))),
                                          Do(Forget(n))>>)),
    Do(SetInterfaceUp(Named(n))),
    Try(LCPCreate(n))>>

\* Mutant of removeInterface: the LCP pair is left.
removeInterfaceKeepingLCP(n) ==
  IF ~known(n) THEN <<>>
  ELSE <<Do(NoteRemoved(n)),
         Step(SetInterfaceDown(Named(n)),
              <<Do(Recall(n)), Do(SetInterfaceUp(Named(n))), Do(LCPCreate(n))>>),
         Do(Forget(n))>>

removeInterface(n) ==
  IF ~known(n) THEN <<>>
  ELSE <<Do(NoteRemoved(n)),
         Step(SetInterfaceDown(Named(n)),
              <<Do(Recall(n)), Do(SetInterfaceUp(Named(n))), Do(LCPCreate(n))>>),
         Do(deleteLCPIfPresent(n)),
         Do(Forget(n))>>

addConfiguredAddresses(n, some) ==
  Sequential(AddressOrder, some, LAMBDA a :
    <<Step(SetInterfaceAddress(n, a), <<Do(DeleteInterfaceAddress(n, a))>>)>>)

\* Mutant of removeConfiguredAddresses: nothing puts an address back.
removeConfiguredAddressesForGood(n, some) ==
  Sequential(AddressOrder, some, LAMBDA a : <<Do(DeleteInterfaceAddress(n, a))>>)

removeConfiguredAddresses(n, some) ==
  Sequential(AddressOrder, some, LAMBDA a :
    <<Step(DeleteInterfaceAddress(n, a), <<Do(SetInterfaceAddress(n, a))>>)>>)

applyAddresses(old, new) ==
  Sequential(InterfaceOrder, added(old, new) \ call.handled, LAMBDA n :
    IF known(n) THEN addConfiguredAddresses(n, addresses(new, n)) ELSE <<Do(NotFoundInVPP)>>)

changed(old, new) ==
  {n \in interfaceNames(old) \cap interfaceNames(new) :
     \/ addresses(old, n) # addresses(new, n)
     \/ interfaceDescription(old, n) # interfaceDescription(new, n)}

applyInterfaceChanges(old, new) ==
  Sequential(InterfaceOrder, changed(old, new) \ call.handled, LAMBDA n :
    IF known(n) THEN removeConfiguredAddresses(n, addresses(old, n) \ addresses(new, n))
                     \o addConfiguredAddresses(n, addresses(new, n) \ addresses(old, n))
    ELSE <<Do(NotFoundInVPP)>>)

(***************************************************************************)
(* Routing instances.                                                      *)
(***************************************************************************)
\* The instances whose table is to be created; the plans are compared by name.
routingTablesToCreate(old, new) ==
  {i \in DOMAIN new : ~(i \in DOMAIN old /\ old[i] = new[i])}

routingTablesToDelete(old, new) == routingTablesToCreate(new, old)

routingBindingChanges(old, new) ==
  {n \in InterfaceName : routingInterfaceBindings(old)[n] # routingInterfaceBindings(new)[n]}

\* An interface has no address while it changes its table.
bindInterface(old, new, n) ==
  LET from == routingInterfaceBindings(old)[n]
      to == routingInterfaceBindings(new)[n]
  IN  CASE known(n) ->
             removeConfiguredAddresses(n, addresses(old, n))
             \o <<Step(setInterfaceTablePair(Named(n), to), <<Do(setInterfaceTablePair(Named(n), from))>>)>>
             \o addConfiguredAddresses(n, addresses(new, n))
        [] ~known(n) /\ to = 0 -> <<>>
        [] OTHER -> <<Do(NotFoundInVPP)>>

applyRoutingInstanceChanges(old, new) ==
  LET from == RoutingInstanceTablePlans(old)
      to == RoutingInstanceTablePlans(new)
  IN  Sequential(InstanceOrder, routingTablesToCreate(from, to), LAMBDA i :
        <<Step(addIPTablePair(to[i]), <<Do(deleteIPTablePair(to[i]))>>)>>)
      \o Sequential(InterfaceOrder, routingBindingChanges(old, new), LAMBDA n : bindInterface(old, new, n))

deleteStaleRoutingInstanceTables(old, new) ==
  LET from == RoutingInstanceTablePlans(old)
      to == RoutingInstanceTablePlans(new)
  IN  Sequential(InstanceOrder, routingTablesToDelete(from, to), LAMBDA i :
        <<Step(deleteIPTablePair(from[i]), <<Do(addIPTablePair(from[i]))>>)>>)

(***************************************************************************)
(* MPLS and class of service.                                              *)
(***************************************************************************)
setMPLS(some, enabled) ==
  Sequential(InterfaceOrder, some, LAMBDA n :
    <<Step(SetMPLSInterface(n, enabled), <<Do(SetMPLSInterface(n, ~enabled))>>)>>)

mplsRemovedInterfaces(old, new) == mplsInterfaceSet(old) \ mplsInterfaceSet(new)
mplsAddedInterfaces(old, new) == mplsInterfaceSet(new) \ mplsInterfaceSet(old)

applyMPLSChanges(old, new) ==
  setMPLS(mplsRemovedInterfaces(old, new), FALSE) \o setMPLS(mplsAddedInterfaces(old, new), TRUE)

bindQoS(bindings, n) ==
  IF n \in DOMAIN bindings THEN SetQoSProfile(n, bindings[n]) ELSE ClearQoSProfile(n)

\* An interface that is gone needs no profile cleared.
applyClassOfServiceChanges(old, new) ==
  LET from == classOfServiceBindingMap(old)
      to == classOfServiceBindingMap(new)
      rebound == {n \in DOMAIN from \cup DOMAIN to :
                    ~(n \in DOMAIN from /\ n \in DOMAIN to /\ from[n] = to[n])}
  IN  Sequential(InterfaceOrder, {n \in rebound : known(n) \/ n \in DOMAIN to}, LAMBDA n :
        <<Step(bindQoS(to, n), <<Do(bindQoS(from, n))>>)>>)

(***************************************************************************)
(* VXLAN tunnels.                                                          *)
(***************************************************************************)
createTunnel(plan) ==
  <<Step(CreateVXLAN(plan), <<Do(ForgetVXLAN(plan.vni)), Do(DeleteVXLAN(plan))>>)>>
  \o (IF plan.request.l3 THEN <<Step(setInterfaceTablePair(Tunnel(plan.vni), plan.request.table),
                             <<Do(setInterfaceTablePair(Tunnel(plan.vni), 0))>>)>> ELSE <<>>)
  \o <<Step(SetInterfaceUp(Tunnel(plan.vni)), <<Do(SetInterfaceDown(Tunnel(plan.vni)))>>)>>
  \o (IF plan.request.l3 THEN <<>> ELSE <<Step(SetInterfaceL2Bridge(plan.vni, TRUE),
                                       <<Do(SetInterfaceL2Bridge(plan.vni, FALSE))>>)>>)

addBridge(plan) ==
  IF plan.request.l3 THEN <<>> ELSE <<Step(AddBridgeDomain(plan), <<Do(DeleteBridgeDomain(plan))>>)>>

createEVPNVXLAN(plan) == addBridge(plan) \o createTunnel(plan)

\* One entry undoes a deletion, however far it got.
deleteEVPNVXLAN(plan) ==
  LET attach == IF plan.request.l3 THEN <<>> ELSE <<Do(SetInterfaceL2Bridge(plan.vni, TRUE))>>
      take == IF vxlanIfIndex[plan.vni] = 0 THEN <<>>
              ELSE (IF plan.request.l3 THEN <<>> ELSE <<Step(SetInterfaceL2Bridge(plan.vni, FALSE), attach)>>)
                   \o <<Amend(SetInterfaceDown(Tunnel(plan.vni)),
                              <<Do(SetInterfaceUp(Tunnel(plan.vni)))>> \o attach)>>
      delete == <<Amend(DeleteVXLAN(plan), createTunnel(plan)), Do(ForgetVXLAN(plan.vni))>>
                \o (IF plan.request.l3 THEN <<>>
                    ELSE <<Amend(DeleteBridgeDomain(plan), createEVPNVXLAN(plan))>>)
      all == take \o delete
  IN  [all EXCEPT ![1].amends = FALSE]

plans(c) == evpnVXLANPlanMap(c, ifaceIndex)

planOf(some, v) == CHOOSE p \in some : p.vni = v

\* Both plan maps are made before the first request.
applyEVPNChanges(old, new) ==
  IF \A c \in {old, new} : HasTunnelPlans(c) /\ \A s \in Of(c, {"source-interface"}) : known(Value(s))
  THEN LET evpnPlansToDelete == plans(old) \ plans(new)
           evpnPlansToCreate == plans(new) \ plans(old)
       IN  Sequential(VNIOrder, {p.vni : p \in evpnPlansToDelete},
                      LAMBDA v : deleteEVPNVXLAN(planOf(evpnPlansToDelete, v)))
           \o Sequential(VNIOrder, {p.vni : p \in evpnPlansToCreate},
                         LAMBDA v : createEVPNVXLAN(planOf(evpnPlansToCreate, v)))
  ELSE <<Do(NotFoundInVPP)>>

(***************************************************************************)
(* ApplyChanges and RollbackChanges: their sections, in order, and the     *)
(* steps of each from configuration old to configuration new.              *)
(***************************************************************************)
ApplyChanges ==
  <<"create interfaces", "routing instances", "addresses of new interfaces", "changed interfaces",
    "MPLS", "class of service", "EVPN", "stale tables", "remove interfaces">>

RollbackChanges ==
  <<"disable MPLS", "restore interfaces", "restore class of service", "restore EVPN",
    "remove new interfaces", "restore routing instances", "restore addresses", "enable MPLS">>

If(flag, diff, s) == IF flag \in diff THEN s ELSE <<>>

applySection(section, diff, old, new) ==
  CASE section = "create interfaces" ->
         Sequential(InterfaceOrder, added(old, new), createInterface)
    [] section = "routing instances" ->
         If("RoutingInstancesChanged", diff,
            applyRoutingInstanceChanges(old, new) \o <<Do(Handled(routingBindingChanges(old, new)))>>)
    [] section = "addresses of new interfaces" -> applyAddresses(old, new)
    [] section = "changed interfaces" -> applyInterfaceChanges(old, new)
    [] section = "MPLS" -> If("MPLSChanged", diff, applyMPLSChanges(old, new))
    [] section = "class of service" ->
         If("ClassOfServiceChanged", diff, applyClassOfServiceChanges(old, new))
    [] section = "EVPN" -> If("EVPNChanged", diff, applyEVPNChanges(old, new))
    [] section = "stale tables" ->
         If("RoutingInstancesChanged", diff, deleteStaleRoutingInstanceTables(old, new))
    [] OTHER -> Sequential(InterfaceOrder, removed(old, new), removeInterface)

restoreInterface(n) == <<Do(Recall(n)), Do(SetInterfaceUp(Named(n))), Do(LCPCreate(n))>>

removeNewInterface(new, n) ==
  removeConfiguredAddresses(n, addresses(new, n))
  \o <<Do(DeleteLCPInterface(n)), Do(SetInterfaceDown(Named(n))), Do(Forget(n))>>

rollbackSection(section, diff, old, new) ==
  CASE section = "disable MPLS" ->
         If("MPLSChanged", diff, Regardless(setMPLS(mplsAddedInterfaces(old, new), FALSE)))
    [] section = "restore interfaces" ->
         Regardless(Sequential(InterfaceOrder, {n \in removed(old, new) : removedInterfaces[n] # 0},
                               restoreInterface))
    [] section = "restore class of service" ->
         If("ClassOfServiceChanged", diff, applyClassOfServiceChanges(new, old))
    [] section = "restore EVPN" -> If("EVPNChanged", diff, applyEVPNChanges(new, old))
    [] section = "remove new interfaces" ->
         Regardless(Sequential(InterfaceOrder, {n \in added(old, new) : known(n)},
                               LAMBDA n : removeNewInterface(new, n)))
    [] section = "restore routing instances" ->
         If("RoutingInstancesChanged", diff,
            applyRoutingInstanceChanges(new, old) \o deleteStaleRoutingInstanceTables(new, old)
            \o <<Do(Handled(routingBindingChanges(new, old)))>>)
    [] section = "restore addresses" ->
         Regardless(Sequential(InterfaceOrder, {n \in changed(old, new) \ call.handled : known(n)}, LAMBDA n :
           removeConfiguredAddresses(n, addresses(new, n) \ addresses(old, n))
           \o addConfiguredAddresses(n, addresses(old, n) \ addresses(new, n))))
    [] OTHER -> If("MPLSChanged", diff, Regardless(setMPLS(mplsRemovedInterfaces(old, new), TRUE)))

(***************************************************************************)
(* The outcomes of a request: the dataplane after it, whether it succeeds, *)
(* and how many faults that takes.  A refused request has no effect.       *)
(***************************************************************************)
Pairs == {"table", "ip-table"}

Outcome(v, ok, cost) == [vpp |-> v, ok |-> ok, cost |-> cost]

\* The binding of interface id for one version.
Binding(v, id, version) == {f \in v : f[1] = "table" /\ f[2] = id /\ f[3] = version}

\* A request for a pair is two requests.  When the second one fails the first
\* is taken back, and nobody asks whether that succeeds.
HalfDone(v, r, id) ==
  CASE r.kind = "table" ->
         {Outcome((v \ Binding(v, id, "v4")) \cup Binding(After(v, r, id), id, "v4"), FALSE, 2)}
    [] r.kind = "ip-table" /\ r.op = "add" ->
         {Outcome(v \ {<<"ip-table", id, "v4">>}, FALSE, 1),
          Outcome(v \cup {<<"ip-table", id, "v4">>}, FALSE, 2)}
    [] r.kind = "ip-table" /\ r.op = "delete" ->
         {Outcome(v \ {<<"ip-table", id, w>>}, FALSE, 1) : w \in Version}
    [] OTHER -> {}

\* The manager has made or deleted the pair when it cannot save its mapping.
SaveFails(v, r, id) ==
  IF r.kind = "lcp" /\ r.op # "delete" THEN {Outcome(After(v, r, id), FALSE, 1)} ELSE {}

Fails(v, r, id) ==
  {Outcome(v, FALSE, IF r.kind = "ip-table" /\ r.op = "delete" THEN 2 ELSE 1)}
  \cup HalfDone(v, r, id) \cup SaveFails(v, r, id)

Answers(v, r, id) ==
  IF Refuses(v, r, id) THEN {Outcome(v, FALSE, 0)}
  ELSE {Outcome(After(v, r, id), TRUE, 0)}
       \cup {o \in Fails(v, r, id) : faults + o.cost <= MaxFaults}

Outcomes(r, id) ==
  IF r.kind = "memory" THEN {Outcome(vpp, r.op # "fail", 0)} ELSE Answers(vpp, r, id)

(***************************************************************************)
(* Running a call.                                                         *)
(***************************************************************************)
NoCall == [name |-> "idle", todo |-> <<>>, steps |-> <<>>, undo |-> <<>>, handled |-> {}, failed |-> FALSE]

Call(name, sections) == [NoCall EXCEPT !.name = name, !.todo = sections]

\* A new interface takes the next index.
IsNew(r) == r.kind \in {"interface", "tunnel"} /\ r.op # "delete"

\* Mutant of Resolve: a new interface skips an index.
ResolveSkipping(r) ==
  CASE IsNew(r)           -> nextIfIdx + 1
    [] r.on[1] = "name"   -> ifaceIndex[r.on[2]]
    [] r.on[1] = "vni"    -> vxlanIfIndex[r.on[2]]
    [] OTHER              -> r.on[2]

Resolve(r) ==
  CASE IsNew(r)           -> nextIfIdx
    [] r.on[1] = "name"   -> ifaceIndex[r.on[2]]
    [] r.on[1] = "vni"    -> vxlanIfIndex[r.on[2]]
    [] OTHER              -> r.on[2]

\* What the plugin notes when a request succeeds.
Remember(r) ==
  /\ nextIfIdx' = IF IsNew(r) THEN nextIfIdx + 1 ELSE nextIfIdx
  /\ ifaceIndex' = CASE r.kind = "interface" -> [ifaceIndex EXCEPT ![r.on[2]] = nextIfIdx]
                     [] r.op = "recall" -> [ifaceIndex EXCEPT ![r.on[2]] = removedInterfaces[r.on[2]]]
                     [] r.op = "forget" -> [ifaceIndex EXCEPT ![r.on[2]] = 0]
                     [] OTHER -> ifaceIndex
  /\ vxlanIfIndex' = CASE r.kind = "tunnel" /\ IsNew(r) -> [vxlanIfIndex EXCEPT ![r.on[2]] = nextIfIdx]
                       [] r.op = "forget vxlan" -> [vxlanIfIndex EXCEPT ![r.on[2]] = 0]
                       [] OTHER -> vxlanIfIndex
  /\ removedInterfaces' = IF r.op = "note removed"
                          THEN [removedInterfaces EXCEPT ![r.on[2]] = ifaceIndex[r.on[2]]]
                          ELSE removedInterfaces

\* An apply notes how to undo the step.
PushUndo(step) ==
  IF call.name # "apply" \/ step.undo = <<>> THEN call.undo
  ELSE Append(IF step.amends THEN Front(call.undo) ELSE call.undo, step.undo)

Succeed(step) ==
  /\ call' = [call EXCEPT !.steps = Tail(@), !.undo = PushUndo(step),
                          !.handled = IF step.request.op = "handled" THEN step.request.on[2] ELSE @]
  /\ Remember(step.request)

\* An apply turns around; an undo and a rollback go on as far as they can.
Fail(step) ==
  /\ call' = CASE step.logged -> [call EXCEPT !.steps = Tail(@)]
               [] ~step.logged /\ call.name = "apply" -> [call EXCEPT !.name = "undo", !.todo = <<>>, !.steps = <<>>]
               [] OTHER -> [call EXCEPT !.failed = TRUE, !.steps = IF step.stops THEN <<>> ELSE Tail(@)]
  /\ UNCHANGED <<nextIfIdx, ifaceIndex, vxlanIfIndex, removedInterfaces>>

TakeStep ==
  /\ call.steps # <<>>
  /\ \E step \in {Head(call.steps)} : \E o \in Outcomes(step.request, Resolve(step.request)) :
       /\ vpp' = o.vpp
       /\ faults' = faults + o.cost
       /\ halved' = IF ~o.ok /\ o.vpp # vpp /\ step.request.kind \in Pairs
                    THEN halved \cup {step.request.kind} ELSE halved
       /\ IF o.ok THEN Succeed(step) ELSE Fail(step)
  /\ UNCHANGED applyFailureRolledBack

TakeSection(diff, old, new) ==
  /\ call.steps = <<>> /\ call.todo # <<>>
  /\ call' = [call EXCEPT !.todo = Tail(@),
                !.steps = IF call.name = "apply" THEN applySection(Head(call.todo), diff, old, new)
                          ELSE rollbackSection(Head(call.todo), diff, old, new)]
  /\ UNCHANGED <<vpp, nextIfIdx, ifaceIndex, vxlanIfIndex, removedInterfaces, applyFailureRolledBack,
                 faults, halved>>

\* executeRollback: the latest entry first.
TakeUndo ==
  /\ call.name = "undo" /\ call.steps = <<>> /\ call.undo # <<>>
  /\ call' = [call EXCEPT !.steps = Last(call.undo), !.undo = Front(@)]
  /\ UNCHANGED <<vpp, nextIfIdx, ifaceIndex, vxlanIfIndex, removedInterfaces, applyFailureRolledBack,
                 faults, halved>>

Done == call.steps = <<>> /\ call.todo = <<>> /\ (call.name = "undo" => call.undo = <<>>)
=============================================================================
