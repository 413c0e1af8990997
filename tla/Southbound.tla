------------------------------- MODULE Southbound -------------------------------
(***************************************************************************)
(* The engine's transactions with the VPP and the FRR plugin below it      *)
(* (internal/engine/engine.go, internal/southbound): the configuration is  *)
(* applied to VPP, then to FRR, and published; when a plugin fails, it and *)
(* those before it are told to roll back, the last one first.  Engine has  *)
(* the same transactions over plugins that are black boxes, and what       *)
(* callers see of them; here the plugins are opened.                       *)
(***************************************************************************)
EXTENDS VppPlugin, FrrPlugin

CONSTANT MaxTransactions     \* bound: how many transactions begin

\* The router starts empty; CommitCoordination has restarts over a stored
\* configuration.
Initial == {}

ASSUME InitialAssumption == Initial \in Config

VARIABLES running,           \* the configuration the engine has published
          target,            \* the one it is applying
          phase,             \* what the engine waits for
          unclean,           \* an undo or a rollback has reported an error
          transactions

engineVars == <<running, target, phase, unclean, transactions>>

vars == <<vppVars, faults, frrVars, engineVars>>

Phase == {"idle", "vpp apply", "frr apply", "frr rollback", "vpp rollback"}

Init ==
  /\ vpp = {} /\ nextIfIdx = 1 /\ halved = {} /\ faults = 0
  /\ ifaceIndex = [n \in InterfaceName |-> 0] /\ removedInterfaces = [n \in InterfaceName |-> 0]
  /\ vxlanIfIndex = [v \in Range(VNIOrder) |-> 0]
  /\ applyFailureRolledBack = FALSE /\ call = NoCall
  /\ frr = NoFRR /\ frrCurrent = None /\ frrRollback = None
  /\ running = Initial /\ target = Initial /\ phase = "idle"
  /\ unclean = FALSE /\ transactions = 0

(***************************************************************************)
(* A transaction.                                                          *)
(***************************************************************************)
Diffs == [old \in Config |-> [new \in Config |-> ComputeDiff(old, new)]]

\* The engine's own validator, a difference, and both dry runs.
EngineAccepts(old, new) ==
  /\ ModelValidate(new)
  /\ Diffs[old][new] # {}
  /\ vppValidateChanges(Diffs[old][new], old, new)
  /\ frrValidateChanges(Diffs[old][new], new)

Accepted == {p \in Config \X Config : EngineAccepts(p[1], p[2])}

\* The model ends where a rollback has failed: the engine reports the error
\* and vouches for nothing.
Begin(c) ==
  /\ phase = "idle" /\ ~unclean /\ transactions < MaxTransactions
  /\ <<running, c>> \in Accepted
  /\ target' = c /\ phase' = "vpp apply" /\ transactions' = transactions + 1
  /\ call' = Call("apply", ApplyChanges)
  /\ removedInterfaces' = [n \in InterfaceName |-> 0] /\ applyFailureRolledBack' = FALSE
  /\ UNCHANGED <<vpp, nextIfIdx, ifaceIndex, vxlanIfIndex, halved, faults, frrVars, running, unclean>>

\* A call of the VPP plugin goes on.
VppCall ==
  /\ phase \in {"vpp apply", "vpp rollback"}
  /\ \/ TakeStep
     \/ TakeSection(Diffs[running][target], running, target)
     \/ TakeUndo
  /\ UNCHANGED <<frrVars, engineVars>>

\* RollbackChanges begins: an apply that has undone itself needs nothing.
BeginVppRollback(rolledBack) ==
  /\ phase' = "vpp rollback"
  /\ applyFailureRolledBack' = FALSE
  /\ call' = Call("rollback", IF rolledBack THEN <<>> ELSE RollbackChanges)

\* ApplyChanges returns.  The engine rolls the plugin that failed back, too.
VppApplied ==
  /\ phase = "vpp apply" /\ Done
  /\ IF call.name = "apply"
     THEN phase' = "frr apply" /\ call' = NoCall /\ UNCHANGED applyFailureRolledBack
     ELSE BeginVppRollback(~call.failed)
  /\ unclean' = (unclean \/ call.failed)
  /\ UNCHANGED <<vpp, nextIfIdx, ifaceIndex, vxlanIfIndex, removedInterfaces, halved, faults, frrVars,
                 running, target, transactions>>

VppRolledBack ==
  /\ phase = "vpp rollback" /\ Done
  /\ phase' = "idle" /\ call' = NoCall /\ target' = running
  /\ unclean' = (unclean \/ call.failed)
  /\ UNCHANGED <<vpp, nextIfIdx, ifaceIndex, vxlanIfIndex, removedInterfaces, applyFailureRolledBack,
                 halved, faults, frrVars, running, transactions>>

Afford(r) == faults + r.cost <= MaxFaults /\ faults' = faults + r.cost

FrrApply ==
  /\ phase = "frr apply"
  /\ \E r \in frrApplyOutcomes(Diffs[running][target], Artifacts[running], Artifacts[target]) :
       /\ Afford(r)
       /\ frrApplyChanges(Diffs[running][target], Artifacts[running], Artifacts[target], r)
       /\ phase' = IF r.ok THEN "idle" ELSE "frr rollback"
       /\ running' = IF r.ok THEN target ELSE running
  /\ UNCHANGED <<vppVars, target, unclean, transactions>>

FrrRollback ==
  /\ phase = "frr rollback"
  /\ \E r \in frrRollbackOutcomes(Artifacts[running]) :
       /\ Afford(r)
       /\ frrRollbackChanges(Artifacts[running], r)
       /\ unclean' = (unclean \/ ~r.ok)
  /\ BeginVppRollback(applyFailureRolledBack)
  /\ UNCHANGED <<vpp, nextIfIdx, ifaceIndex, vxlanIfIndex, removedInterfaces, halved, running, target,
                 transactions>>

Next ==
  \/ \E c \in Config : Begin(c)
  \/ VppCall
  \/ VppApplied
  \/ VppRolledBack
  \/ FrrApply
  \/ FrrRollback

Spec == Init /\ [][Next]_vars
-----------------------------------------------------------------------------
(***************************************************************************)
(* Properties.                                                             *)
(***************************************************************************)
\* No transaction runs, and every undo and rollback so far has reported
\* success.
Settled == phase = "idle" /\ ~unclean

\* The plugin's indexes are those of interfaces that VPP has, no two the same,
\* and an apply leaves nothing of itself behind when it is over.
TypeOK ==
  /\ phase \in Phase
  /\ {running, target} \subseteq DOMAIN Artifacts
  /\ \A f \in vpp : f[1] \in OfInterface \cup {"interface", "tunnel"} => f[2] \in 1 .. nextIfIdx - 1
  /\ \A n \in InterfaceName : ifaceIndex[n] # 0 => <<"interface", ifaceIndex[n], n>> \in vpp
  /\ phase = "idle" => call = NoCall
  /\ Range(frr.known) \cup {frr.saved} \subseteq {LinkNames(a.links) : a \in Range(Artifacts)} \cup {None}
  /\ faults \in 0 .. MaxFaults

LiveInterfaces == {ifaceIndex[n] : n \in {m \in InterfaceName : known(m)}}

Tunnels == {f[2] : f \in {g \in vpp : g[1] = "tunnel"}}

\* What VPP should hold for a configuration, but for LCP pairs.
Desired(c) ==
  {<<"up", ifaceIndex[n]>> : n \in interfaceNames(c)}
  \cup (UNION {{<<"address", ifaceIndex[n], a>> : a \in addresses(c, n)} : n \in interfaceNames(c)})
  \cup {<<"mpls", ifaceIndex[n]>> : n \in mplsInterfaceSet(c)}
  \cup {<<"qos", ifaceIndex[n], classOfServiceBindingMap(c)[n]>> : n \in DOMAIN classOfServiceBindingMap(c)}
  \cup (UNION {TablePair(ifaceIndex[n], routingInterfaceBindings(c)[n]) : n \in interfaceNames(c)})
  \cup (UNION {IPTablePair(t) : t \in Range(RoutingInstanceTablePlans(c))})
  \cup UNION {LET i == vxlanIfIndex[p.vni]
              IN  {<<"tunnel", i, p.request>>, <<"up", i>>} \cup TablePair(i, p.request.table)
                  \cup IF p.request.l3 THEN {}
                       ELSE {<<"bridge", p.vni, p.bridge>>, <<"member", i, p.vni>>} : p \in plans(c)}

\* The facts that Desired is about.  VPP never deletes an interface, so those
\* of an interface the plugin has removed are not among them.
Relevant(f) ==
  CASE f[1] \in {"tunnel", "bridge"} -> TRUE
    [] f[1] = "ip-table" -> TRUE
    [] f[1] \in OfInterface \ {"lcp"} -> f[2] \in LiveInterfaces \cup Tunnels
    [] OTHER -> FALSE

\* Between transactions VPP holds exactly what the published configuration
\* asks for: after a commit all of it, and after a commit that failed, in
\* whichever plugin and at whichever request, none of what it attempted.  The
\* exception is a kind of fact of which a failed request did one half.
VppHoldsRunning ==
  Settled =>
    {f \in vpp : Relevant(f) /\ f[1] \notin halved} = {f \in Desired(running) : f[1] \notin halved}

\* Between transactions an interface that is not configured any more carries
\* no traffic: it is down, and no LCP pair ties it to a Linux interface.
RemovedIsDown ==
  Settled =>
    /\ {n \in InterfaceName : known(n)} = interfaceNames(running)
    /\ \A f \in vpp : f[1] \in {"up", "lcp"} => f[2] \in LiveInterfaces \cup Tunnels

\* Between transactions the FRR plugin believes what is so: that it has applied
\* the published configuration, or nothing yet.  FRR runs the lines generated
\* from that configuration and, of what the transactional backend replaces, no
\* others; with the file backend no others at all.  Where vtysh -f had to stand
\* in for a reload, it has at least those lines.  FRR's file holds what FRR
\* runs, unless nothing was ever written.
FrrRunsRunning ==
  Settled =>
    \A a \in {Artifacts[running]} :
      /\ frrCurrent \in {None, Applied(a, a.mode)}
      /\ IF a.mode = "file" THEN a.file \subseteq frr.running ELSE a.operations \subseteq frr.running
      /\ ~frr.merged => IF a.mode = "file" THEN frr.running = a.file ELSE Managed(frr.running) = a.operations
      /\ frr.file = frr.running \/ frr = NoFRR

\* When the FRR plugin is told to roll back, what it returns to is the
\* published configuration, with the backend that configuration is for: the
\* state that ApplyChanges saved is never that of an earlier transaction.
FrrRollsBackToRunning ==
  phase = "frr rollback" =>
    \A a \in {Artifacts[running]} :
      frrRollback = Applied(a, a.mode) /\ applierForRollback(frrRollback) = a.mode

OtherBackend(b) == CHOOSE o \in Backend : o # b

\* Between transactions every VRRP group has its Linux interface with its
\* address.  Where there are groups, no other interface of this kind is left.
\* Where there are none, an interface is left only if the other backend's
\* preparer made it: the one in use read the state file before that and does
\* not look for interfaces it does not know; or if a command has failed, as a
\* Prepare that fails half way makes interfaces that nobody knows.
VrrpLinksAreRunning ==
  Settled =>
    \A a \in {Artifacts[running]} :
      /\ Links(a.links) \subseteq frr.links
      /\ a.links # {} => LinkNames(frr.links) = LinkNames(a.links)
      /\ a.links = {} /\ faults = 0 => LinkNames(frr.links) \subseteq frr.known[OtherBackend(a.mode)]
=============================================================================
