-------------------------------- MODULE Engine --------------------------------
(***************************************************************************)
(* The configuration engine (internal/engine/engine.go): Apply drives an   *)
(* ordered list of southbound plugins from the running configuration to a  *)
(* new one and, when a plugin fails, back again.  Any number of callers    *)
(* (NETCONF commits, gRPC commits, the cluster synchronizer, the rollbacks *)
(* of failed persistence) contend for applyMu.                             *)
(*                                                                         *)
(* A plugin is external here: it holds the forwarding state its last       *)
(* calls left behind.  A failing ApplyChanges may leave the old state, the *)
(* new one or a partial one; a RollbackChanges that returns nil has        *)
(* restored the old one (the contract of internal/engine/plugin.go), and   *)
(* one that fails leaves a state nothing is known of.  Plugins are handed  *)
(* a diff, so a later success need not repair such a plugin.               *)
(***************************************************************************)
EXTENDS Naturals

CONSTANTS
  Caller,       \* goroutines that call Apply
  Config,       \* configurations
  NoConfig,     \* the empty configuration, which running = nil stands for
  Digest(_),    \* the part of a configuration ComputeDiff compares
  Partial,      \* a diff applied in part, which a rollback can undo
  Lost,         \* forwarding state after a failed rollback
  None,         \* nobody
  PluginCount,  \* len(e.plugins)
  MaxVersion    \* bound: successful applies

ASSUME EngineAssumption ==
  /\ NoConfig \in Config
  /\ None \notin Caller
  /\ PluginCount \in Nat
  /\ MaxVersion \in Nat
  /\ \A c \in Config : Digest(c) \notin {Partial, Lost}
  /\ Partial # Lost

VARIABLES
  running,     \* the published configuration
  version,     \* e.version
  southbound,  \* forwarding state of each plugin
  applyMu,     \* the caller inside Apply, or None
  apply,       \* apply[c]: the call of caller c
  alarm        \* an ApplyError said that its rollback failed

vars == <<running, version, southbound, applyMu, apply, alarm>>

Plugin == 1 .. PluginCount
States == {Digest(c) : c \in Config} \cup {Partial, Lost}

Phase == {"idle", "waiting", "validate", "apply", "rollback"}
Result == {"none", "ok", "unchanged", "rejected", "rolled back", "rollback failed"}

\* A call: what it applies, the configuration it started from (oldCfg), the
\* plugin it has reached (tx.applied is the plugins up to it), whether a
\* rollback failed, and what the last call returned.
Call == [phase : Phase, new : Config, old : Config, at : 0 .. PluginCount + 1,
         failed : BOOLEAN, result : Result]

\* ComputeDiff(old, new).HasChanges()
HasChanges(old, new) == Digest(old) # Digest(new)

Returned(r) ==
  [phase |-> "idle", new |-> NoConfig, old |-> NoConfig, at |-> 0, failed |-> FALSE,
   result |-> r]

\* A first start, or InitializeRunning with a stored snapshot that the
\* forwarding plane still has.
Init ==
  /\ running \in Config
  /\ version \in {0, 1}
  /\ version = 0 => running = NoConfig
  /\ southbound = [p \in Plugin |-> Digest(running)]
  /\ applyMu = None
  /\ apply = [c \in Caller |-> Returned("none")]
  /\ alarm = FALSE

\* The call returns r and its deferred Unlock runs.
Return(c, r) ==
  /\ apply' = [apply EXCEPT ![c] = Returned(r)]
  /\ applyMu' = None

\* Apply is called; the candidate's own validation passes (or the call ends).
ApplyCall(c, new) ==
  /\ apply[c].phase = "idle"
  /\ version < MaxVersion
  /\ apply' = [apply EXCEPT ![c].phase = "waiting", ![c].new = new, ![c].result = "none"]
  /\ UNCHANGED <<running, version, southbound, applyMu, alarm>>

\* Mutant of ApplyDiff: oldCfg is never set.
ApplyDiffFromNothing(c) ==
  /\ apply[c].phase = "waiting"
  /\ applyMu = None
  /\ IF HasChanges(running, apply[c].new)
       THEN /\ apply' = [apply EXCEPT ![c].phase = "validate", ![c].at = 1, ![c].failed = FALSE]
            /\ applyMu' = c
       ELSE Return(c, "unchanged")
  /\ UNCHANGED <<running, version, southbound, alarm>>

\* applyMu.Lock(), then the diff from the running configuration.
ApplyDiff(c) ==
  /\ apply[c].phase = "waiting"
  /\ applyMu = None
  /\ IF HasChanges(running, apply[c].new)
       THEN /\ apply' = [apply EXCEPT ![c].phase = "validate", ![c].old = running,
                                      ![c].at = 1, ![c].failed = FALSE]
            /\ applyMu' = c
       ELSE Return(c, "unchanged")
  /\ UNCHANGED <<running, version, southbound, alarm>>

\* Phase 1: every plugin accepts the diff, or one rejects it.
ValidateChanges(c) ==
  /\ apply[c].phase = "validate"
  /\ \/ /\ apply' = [apply EXCEPT ![c].phase = "apply"]
        /\ UNCHANGED applyMu
     \/ Return(c, "rejected")
  /\ UNCHANGED <<running, version, southbound, alarm>>

\* Mutant of ApplyChanges: the plugin that failed is not rolled back.
ApplyChangesForgetsFailed(c) ==
  LET p == apply[c].at
      new == Digest(apply[c].new)
  IN
  /\ apply[c].phase = "apply"
  /\ p \in Plugin
  /\ \/ /\ southbound' = [southbound EXCEPT ![p] = new]
        /\ apply' = [apply EXCEPT ![c].at = p + 1]
     \/ /\ \E left \in {southbound[p], Partial, new} :
             southbound' = [southbound EXCEPT ![p] = left]
        /\ apply' = [apply EXCEPT ![c].phase = "rollback", ![c].at = p - 1]
  /\ UNCHANGED <<running, version, applyMu, alarm>>

\* Phase 2: the next plugin joins tx.applied and applies the diff.
ApplyChanges(c) ==
  LET p == apply[c].at
      new == Digest(apply[c].new)
  IN
  /\ apply[c].phase = "apply"
  /\ p \in Plugin
  /\ \/ /\ \E left \in {new} \cup ({southbound[p]} \cap {Lost}) :
             southbound' = [southbound EXCEPT ![p] = left]
        /\ apply' = [apply EXCEPT ![c].at = p + 1]
     \/ /\ \E left \in IF southbound[p] = Lost THEN {Lost} ELSE {southbound[p], Partial, new} :
             southbound' = [southbound EXCEPT ![p] = left]
        /\ apply' = [apply EXCEPT ![c].phase = "rollback"]
  /\ UNCHANGED <<running, version, applyMu, alarm>>

\* transaction.rollback: last plugin first, the failed one included, and on
\* past a plugin whose rollback fails.
RollbackChanges(c) ==
  LET p == apply[c].at
      old == Digest(apply[c].old)
  IN
  /\ apply[c].phase = "rollback"
  /\ p \in Plugin
  /\ \/ /\ \E left \in {old} \cup ({southbound[p]} \cap {Lost}) :
             southbound' = [southbound EXCEPT ![p] = left]
        /\ apply' = [apply EXCEPT ![c].at = p - 1]
     \/ /\ southbound' = [southbound EXCEPT ![p] = Lost]
        /\ apply' = [apply EXCEPT ![c].at = p - 1, ![c].failed = TRUE]
  /\ UNCHANGED <<running, version, applyMu, alarm>>

\* Mutant of ReturnApplyError: the error path returns without unlocking.
ReturnApplyErrorLocked(c) ==
  /\ apply[c].phase = "rollback"
  /\ apply[c].at = 0
  /\ apply' = [apply EXCEPT ![c] = Returned("rolled back")]
  /\ alarm' = (alarm \/ apply[c].failed)
  /\ UNCHANGED <<running, version, southbound, applyMu>>

\* The ApplyError carries RollbackSucceeded.
ReturnApplyError(c) ==
  /\ apply[c].phase = "rollback"
  /\ apply[c].at = 0
  /\ Return(c, IF apply[c].failed THEN "rollback failed" ELSE "rolled back")
  /\ alarm' = (alarm \/ apply[c].failed)
  /\ UNCHANGED <<running, version, southbound>>

\* Phase 3: publish.
Publish(c) ==
  /\ apply[c].phase = "apply"
  /\ apply[c].at = PluginCount + 1
  /\ version' = version + 1
  /\ running' = apply[c].new
  /\ Return(c, "ok")
  /\ UNCHANGED <<southbound, alarm>>

Step(c) ==
  \/ ApplyDiff(c)
  \/ ValidateChanges(c)
  \/ ApplyChanges(c)
  \/ RollbackChanges(c)
  \/ ReturnApplyError(c)
  \/ Publish(c)

Next == \E c \in Caller : Step(c) \/ \E new \in Config : ApplyCall(c, new)

\* Go's mutexes are starvation free and every plugin call returns (each runs
\* under a context), so each caller inside Apply keeps going.
Fairness == \A c \in Caller : SF_vars(Step(c))

Spec == Init /\ [][Next]_vars /\ Fairness

-----------------------------------------------------------------------------

TypeOK ==
  /\ running \in Config
  /\ version \in Nat
  /\ southbound \in [Plugin -> States]
  /\ applyMu \in Caller \cup {None}
  /\ apply \in [Caller -> Call]
  /\ alarm \in BOOLEAN

Busy(c) == apply[c].phase \in {"validate", "apply", "rollback"}

\* Apply is all or nothing: whenever nobody is inside it, every plugin forwards
\* by the published configuration, unless a rollback failed on that plugin; and
\* then an ApplyError with RollbackSucceeded = FALSE has said so.
AllOrNothing ==
  applyMu = None =>
    \A p \in Plugin :
      \/ southbound[p] = Digest(running)
      \/ southbound[p] = Lost /\ alarm

\* The difference that is handed to the plugins, and that a rollback reverts,
\* starts from the published configuration and is not empty, from the moment it
\* is computed until the call returns: oldCfg is read once, and no publication
\* of another caller makes it stale while plugins are being changed.
DiffIsFromRunning ==
  \A c \in Caller : Busy(c) => apply[c].old = running /\ HasChanges(running, apply[c].new)

\* Every Apply returns.
ApplyReturns ==
  \A c \in Caller : apply[c].phase = "waiting" ~> apply[c].phase = "idle"

=============================================================================
