------------------------------- MODULE FrrPlugin -------------------------------
(***************************************************************************)
(* The FRR plugin (internal/southbound/frr/plugin.go) and the backends it  *)
(* applies a configuration with: FRR's management transactions             *)
(* (pkg/frr/transactional.go), the configuration file and its reload       *)
(* (pkg/frr/reloader.go), and the Linux interfaces of VRRP groups that     *)
(* both prepare first (pkg/frr/vrrp_system.go).                            *)
(*                                                                         *)
(* A call of the plugin is one action with the outcomes that the commands  *)
(* it runs can have together: nothing else runs while the plugin does.  An *)
(* outcome is what FRR and the preparer are left with, whether the call    *)
(* reports success, and how many faults it takes.                          *)
(***************************************************************************)
EXTENDS FrrGenerator

CONSTANTS Config,       \* the configurations that are ever committed
          None          \* no file, no configuration

VARIABLES frr,          \* FRR, its file, and the VRRP groups' interfaces
          frrCurrent,   \* what the plugin has applied last, or None
          frrRollback   \* what it returns to when told to roll back, or None

frrVars == <<frr, frrCurrent, frrRollback>>

(***************************************************************************)
(* What is generated from each configuration; the plugin keeps that, not   *)
(* the configuration.                                                      *)
(***************************************************************************)
\* The interface of every VRRP group: its name, made from the family, the
\* parent and the group, and its address.
vrrpSystemInterfaces(c) ==
  UNION {{<<<<a \in IP6, i, Value(g)>>, a>> :
            i \in Field(c, g, "vrrp.interface"), a \in Field(c, g, "virtual-address")} :
           g \in Of(c, {"vrrp"})}

generateFRRArtifacts(c) ==
  [file |-> GenerateFRRConfigFile(c), operations |-> BuildMgmtOperations(c),
   links |-> vrrpSystemInterfaces(c),
   mode |-> IF requiresFRRFileBackend(c) THEN "file" ELSE "transactional"]

Artifacts == [c \in Config |-> generateFRRArtifacts(ToLegacyConfig(c))]

\* What the proofs need of WellFormed(c): the entries that some statements
\* belong to are there.
HasEntries(c) ==
  \A s \in c :
    /\ s[1] = "address" => s[2] \in interfaceNames(c)
    /\ s[1] \in ospfCompared => s[2] \in {"v2", "v3"} /\ <<"ospf", s[2]>> \in c
    /\ s[1] = "area.bfd-profile" =>
         \E i \in Of(c, {"area.interface"}) : i[2] = s[2] /\ s \in Within(c, i, {s[1]})
    /\ s[1] = "area.interface" => \A k \in Within(c, s, {"area.bfd-profile"}) : k[2] = s[2]
    /\ s[1] = "neighbor.bfd-profile" =>
         <<"bgp">> \in c /\ \E n \in Of(c, {"neighbor"}) : s \in Within(c, n, {s[1]})
    /\ s[1] \in {"from.protocol", "from.neighbor", "as-path"} =>
         \E t \in Of(c, {"term"}) : s \in Within(c, t, {s[1]})

ASSUME ConfigAssumption == \A c \in Config : HasEntries(c)

(***************************************************************************)
(* Outcomes.                                                               *)
(***************************************************************************)
Backend == {"file", "transactional"}

NoFRR == [running |-> {}, file |-> None, links |-> {}, merged |-> FALSE,
          known |-> [b \in Backend |-> {}], loaded |-> {}, saved |-> {}]

Result(f, ok, cost) == [frr |-> f, ok |-> ok, cost |-> cost]

Plus(results, cost) == {[r EXCEPT !.cost = @ + cost] : r \in results}

\* The outcomes of what follows an operation, if that has succeeded.
Then(r, results) == IF r.ok THEN Plus(results, r.cost) ELSE {r}

(***************************************************************************)
(* Prepare.  links holds <<name>> for an interface that exists and         *)
(* <<name, address>> for its addresses, which it keeps when it gets        *)
(* another.  Each backend has a preparer of its own: loaded has the        *)
(* backends whose preparer has read the state file, and known[b] the names *)
(* it found there or left since.  The file is one for both; saved has its  *)
(* names, none if there is no file, or is None if it cannot be read.       *)
(***************************************************************************)
Links(desired) == desired \cup {<<l[1]>> : l \in desired}

LinkNames(links) == {l[1] : l \in links}

Without(links, names) == {l \in links : l[1] \notin names}

Knows(f, b, names) == [f EXCEPT !.known = [@ EXCEPT ![b] = names]]

\* A preparer reads the file once, before it does anything else.
loadState(f, b) ==
  IF b \in f.loaded THEN {Result(f, TRUE, 0)}
  ELSE {Result(f, FALSE, 1),
        IF f.saved = None THEN Result(f, FALSE, 0)
        ELSE Result(Knows([f EXCEPT !.loaded = @ \cup {b}], b, f.known[b] \cup f.saved), TRUE, 0)}

\* Without names the file is removed; a write that fails may have emptied the
\* file, written a part of it or all of it.
saveState(f, names) ==
  {Result([f EXCEPT !.saved = names], TRUE, 0)}
  \cup {Result([f EXCEPT !.saved = left], FALSE, 1) :
          left \in IF names = {} THEN {f.saved} ELSE {f.saved, {}, names, None}}

\* Some interfaces are deleted; or all that are stale, and some are set up.
ReconcileFails(f, desired) ==
  LET stale == LinkNames(f.links) \ LinkNames(desired)
  IN  {Without(f.links, gone) : gone \in SUBSET stale}
      \cup {Without(f.links, stale) \cup some :
              some \in {x \in SUBSET Links(desired) : \A l \in x : <<l[1]>> \in x \cup f.links}}

\* Mutant of Reconcile: stale interfaces are left alone.
ReconcileWithoutDelete(f, b, desired) ==
  IF desired = {} /\ f.known[b] = {} THEN {Result(f, TRUE, 0)}
  ELSE saveState(Knows([f EXCEPT !.links = @ \cup Links(desired)], b, LinkNames(desired)), LinkNames(desired))

\* With groups, or where the preparer knows of interfaces, every interface of
\* this kind that is not desired is deleted, whoever made it.
Reconcile(f, b, desired) ==
  LET stale == LinkNames(f.links) \ LinkNames(desired)
      done == Knows([f EXCEPT !.links = Without(@, stale) \cup Links(desired)], b, LinkNames(desired))
  IN  IF desired = {} /\ f.known[b] = {} THEN {Result(f, TRUE, 0)}
      ELSE saveState(done, LinkNames(desired))
           \cup {Result([f EXCEPT !.links = links], FALSE, 1) : links \in ReconcileFails(f, desired)}

Prepare(f, b, desired) == UNION {Then(p, Reconcile(p.frr, b, desired)) : p \in loadState(f, b)}

(***************************************************************************)
(* The transactional backend: one commit, then write memory.               *)
(***************************************************************************)
VtyshMgmtApply(f, running) ==
  {Result([f EXCEPT !.running = running, !.file = running], TRUE, 0),
   Result(f, FALSE, 1),
   Result([f EXCEPT !.running = running], FALSE, 1)}

OSPFCommands == buildOSPFOps \cup {"ospf bfd profile", "ospf6 area"}

\* The subtrees that BuildMgmtOperations deletes first hold this line.
InReplacedSubtree(line) ==
  /\ line[1] \notin {"hostname", "as-path access-list"}
  /\ line[1] \in OSPFCommands \ {"network"} => line[2] = "v2"

Managed(lines) == {l \in lines : InReplacedSubtree(l)}

StaticRoutes(lines) == {l \in lines : l[1] \in buildStaticRouteOps}

\* Mutant of IsStaticRouteDiff: nobody looks at the rest of the configuration.
IsStaticRouteDiffAlways(old, new) == StaticRoutes(old.file) # StaticRoutes(new.file)

\* ApplyConfigDiff knows how to change static routes and nothing else.
IsStaticRouteDiff(old, new) ==
  old.file \ StaticRoutes(old.file) = new.file \ StaticRoutes(new.file)

ApplyConfigDiff(f, old, new) ==
  LET from == StaticRoutes(old.file)
      to == StaticRoutes(new.file)
  IN  IF from = to THEN {Result(f, TRUE, 0)}
      ELSE UNION {Then(p, VtyshMgmtApply(p.frr, (p.frr.running \ from) \cup to)) :
                    p \in Prepare(f, "transactional", new.links)}

TransactionalApplyConfig(f, new) ==
  UNION {Then(p, VtyshMgmtApply([p.frr EXCEPT !.merged = FALSE],
                                (p.frr.running \ Managed(p.frr.running)) \cup new.operations)) :
           p \in Prepare(f, "transactional", new.links)}

(***************************************************************************)
(* The file backend: backup, write, check, load, and the backup again when *)
(* that fails.                                                             *)
(***************************************************************************)
\* frr-reload.py makes FRR run the file; vtysh -f, which is tried when that
\* fails, adds the file to what is running, and write memory saves the sum.
applyConfigInternal(f) ==
  LET sum == f.running \cup f.file
  IN  {Result([f EXCEPT !.running = f.file, !.merged = FALSE], TRUE, 0),
       Result([f EXCEPT !.running = sum, !.file = sum, !.merged = TRUE], TRUE, 1),
       Result([f EXCEPT !.running = sum, !.merged = TRUE], FALSE, 2),
       Result(f, FALSE, 2)}

RestoreBackup(f, backup) ==
  {Result(f, FALSE, 1)} \cup applyConfigInternal([f EXCEPT !.file = backup])

\* An error after the file is written; without a backup it stays.
AutoRollback(r, backup) ==
  IF backup = None THEN {r}
  ELSE {[q EXCEPT !.ok = FALSE] : q \in Plus(RestoreBackup(r.frr, backup), r.cost)}

ReloaderApplyConfig(f, lines) ==
  LET written == [f EXCEPT !.file = lines]
  IN  {Result(f, FALSE, 1)}
      \cup AutoRollback(Result(written, FALSE, 1), f.file)
      \cup UNION {IF r.ok THEN {r} ELSE AutoRollback(r, f.file) : r \in applyConfigInternal(written)}

FileApplyConfig(f, new) ==
  UNION {Then(p, ReloaderApplyConfig(p.frr, new.file)) : p \in Prepare(f, "file", new.links)}

ApplyConfig(f, new, mode) ==
  IF mode = "file" THEN FileApplyConfig(f, new) ELSE TransactionalApplyConfig(f, new)

(***************************************************************************)
(* The plugin.                                                             *)
(***************************************************************************)
Applied(artifacts, mode) == [artifacts |-> artifacts, mode |-> mode]

ASSUME NoneAssumption ==
  None \notin {Applied(Artifacts[c], mode) : c \in Config, mode \in {"file", "transactional"}}

\* What it believes FRR to run before it applies anything.
Previous(old) ==
  CASE frrCurrent # None -> frrCurrent
    [] frrCurrent = None /\ old.file # NotGenerated -> Applied(old, old.mode)
    [] OTHER -> None

\* What ApplyChanges can end with, from the artifacts of one configuration to
\* those of another.
frrApplyOutcomes(diff, old, new) ==
  IF ~hasFRRRelevantChanges(diff) THEN {Result(frr, TRUE, 0)}
  ELSE UNION {IF /\ new.mode = "transactional" /\ previous # None
                 /\ IsStaticRouteDiff(previous.artifacts, new)
              THEN ApplyConfigDiff(frr, previous.artifacts, new)
              ELSE ApplyConfig(frr, new, new.mode) : previous \in {Previous(old)}}

\* Mutant of frrApplyChanges: what to return to is saved once FRR has taken the
\* configuration.
frrApplyChangesSavingLate(diff, old, new, r) ==
  IF ~hasFRRRelevantChanges(diff) THEN UNCHANGED frrVars
  ELSE /\ frrRollback' = IF r.ok THEN Previous(old) ELSE frrRollback
       /\ frr' = r.frr
       /\ frrCurrent' = IF r.ok THEN Applied(new, new.mode) ELSE frrCurrent

\* What it remembers when it has ended so.
frrApplyChanges(diff, old, new, r) ==
  IF ~hasFRRRelevantChanges(diff) THEN UNCHANGED frrVars
  ELSE /\ frrRollback' = Previous(old)
       /\ frr' = r.frr
       /\ frrCurrent' = IF r.ok THEN Applied(new, new.mode) ELSE frrCurrent

applierForRollback(target) ==
  IF (frrCurrent # None /\ frrCurrent.mode = "file") \/ target.mode = "file" THEN "file"
  ELSE target.artifacts.mode

\* What RollbackChanges returns to.
RollbackTarget(old) ==
  CASE frrRollback # None -> frrRollback
    [] frrRollback = None /\ old.file # NotGenerated -> Applied(old, old.mode)
    [] OTHER -> None

frrRollbackOutcomes(old) ==
  UNION {IF target = None THEN {Result(frr, TRUE, 0)}
         ELSE ApplyConfig(frr, target.artifacts, applierForRollback(target)) : target \in {RollbackTarget(old)}}

frrRollbackChanges(old, r) ==
  \E target \in {RollbackTarget(old)} :
    IF target = None THEN UNCHANGED frrVars
    ELSE /\ frr' = r.frr
         /\ frrCurrent' = IF r.ok THEN Applied(target.artifacts, applierForRollback(target)) ELSE frrCurrent
         /\ UNCHANGED frrRollback
=============================================================================
