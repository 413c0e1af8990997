--------------------------- MODULE SouthboundProofs ---------------------------
(***************************************************************************)
(* Proofs about the FRR half of Southbound, for every set of               *)
(* configurations, any number of transactions and any number of faults:    *)
(* between transactions FRR, its file and the VRRP groups' interfaces are  *)
(* what the published configuration asks for, and a rollback returns to    *)
(* that configuration.  FrrProofs has what the generator and the backends  *)
(* do; here is the invariant of the engine's transactions.                 *)
(***************************************************************************)
EXTENDS Southbound, FrrProofs

(***************************************************************************)
(* The invariant.                                                          *)
(***************************************************************************)
Current(c) == Applied(Artifacts[c], Artifacts[c].mode)

\* FRR is as the last transaction has left it, or as its rollback has.
FrrIsSettled ==
  \/ phase \in {"vpp apply", "frr apply"}
  \/ phase \in {"idle", "vpp rollback"} /\ ~unclean

\* What the FRR half of a transaction preserves.  Ready(running) makes the
\* artifacts that the plugin returns to those of a configuration; Accepted
\* carries the dry run's verdict to the apply; Tidy says that only a failure
\* leaves an interface that no backend's preparer knows.
FrrInv ==
  /\ {running, target} \subseteq Config /\ phase \in Phase /\ faults \in Nat /\ IsFRR(frr)
  /\ Ready(running)
  /\ phase \in {"vpp apply", "frr apply"} => <<running, target>> \in Accepted
  /\ frrCurrent \in {None, Current(running)}
  /\ faults = 0 => Tidy(frr)
  /\ FrrIsSettled => Fits(frr, Artifacts[running])
  /\ phase = "frr rollback" => frrRollback = Current(running)

\* What the plugin remembers of a configuration is never taken for None.
LEMMA CurrentFields ==
  ASSUME NEW c \in Config
  PROVE  /\ Current(c) # None
         /\ Current(c).artifacts = Artifacts[c] /\ Current(c).mode = Artifacts[c].mode
         /\ Artifacts[c].mode \in {"file", "transactional"}
<1>1. Artifacts[c].mode \in {"file", "transactional"}
  BY ArtifactsOf
<1>2. Current(c) # None
  BY <1>1, NoneAssumption DEF Current
<1> QED
  BY <1>1, <1>2 DEF Current, Applied

\* What the engine accepts, FRR's generator does.
LEMMA AcceptedIsReady ==
  ASSUME NEW old \in Config, NEW new \in Config, <<old, new>> \in Accepted, Ready(old)
  PROVE  /\ Diffs[old][new] = ComputeDiff(old, new)
         /\ Ready(new)
         /\ ~hasFRRRelevantChanges(ComputeDiff(old, new)) => Artifacts[old] = Artifacts[new]
<1>1. Diffs[old][new] = ComputeDiff(old, new)
  BY DEF Diffs
<1>2. frrValidateChanges(ComputeDiff(old, new), new)
  BY <1>1 DEF Accepted, EngineAccepts
<1>3. Ready(new)
  BY <1>2, FrrDiffIsComplete DEF frrValidateChanges, Ready
<1> QED
  BY <1>1, <1>3, FrrDiffIsComplete, FileDetermines DEF Ready

\* A request to VPP costs some number of faults.
LEMMA OutcomeCosts ==
  ASSUME NEW r, NEW id, NEW o \in Outcomes(r, id)
  PROVE  o.cost \in Nat
<1>1. \A v, ok, n : Outcome(v, ok, n).cost = n
  BY DEF Outcome
<1>2. \E v, ok : \E n \in {0, 1, 2} : o = Outcome(v, ok, n)
  BY DEF Outcomes, Answers, Fails, HalfDone, SaveFails
<1> QED
  BY <1>1, <1>2

\* The VPP plugin's steps take faults and touch nothing of FRR's half.
LEMMA VppCallKeeps ==
  ASSUME VppCall, faults \in Nat
  PROVE  /\ faults' \in Nat /\ (faults' = 0 => faults = 0)
         /\ UNCHANGED <<frr, frrCurrent, frrRollback, running, target, phase, unclean>>
<1>1. UNCHANGED <<frr, frrCurrent, frrRollback, running, target, phase, unclean>>
  BY DEF VppCall, frrVars, engineVars
<1>2. CASE TakeStep
  <2>1. PICK step \in {Head(call.steps)} : \E o \in Outcomes(step.request, Resolve(step.request)) :
          faults' = faults + o.cost
    BY <1>2 DEF TakeStep
  <2> QED
    BY <1>1, <2>1, OutcomeCosts
<1>3. CASE TakeSection(Diffs[running][target], running, target) \/ TakeUndo
  BY <1>1, <1>3 DEF TakeSection, TakeUndo
<1> QED
  BY <1>2, <1>3 DEF VppCall

\* The invariant holds at the start.
LEMMA InitInv ==
  Init => FrrInv
<1> SUFFICES ASSUME Init PROVE FrrInv
  OBVIOUS
<1>1. running = {} /\ target = {} /\ {} \in Config
  BY InitialAssumption DEF Init, Initial
<1>2. frr = NoFRR /\ frrCurrent = None /\ phase = "idle" /\ faults = 0
  BY DEF Init
<1>3. IsFRR(NoFRR) /\ Tidy(NoFRR)
  BY DEF IsFRR, Tidy, NoFRR, LinkNames, Backend
<1> QED
  BY <1>1, <1>2, <1>3, EmptyFits DEF FrrInv, Phase

\* What the plugin saves before it applies anything is the published
\* configuration.
LEMMA PreviousIsRunning ==
  ASSUME FrrInv
  PROVE  Previous(Artifacts[running]) = Current(running)
<1>1. running \in Config /\ Ready(running) /\ frrCurrent \in {None, Current(running)}
  BY DEF FrrInv
<1>2. Artifacts[running].file # NotGenerated
  BY <1>1, ReadyIsGenerated
<1> QED
  BY <1>1, <1>2 DEF Previous, Current

\* ApplyChanges, when it succeeds, makes FRR fit the target.
LEMMA ApplyChangesOutcome ==
  ASSUME FrrInv, phase = "frr apply", NEW diff,
         hasFRRRelevantChanges(diff), Ready(target),
         NEW r \in frrApplyOutcomes(diff, Artifacts[running], Artifacts[target])
  PROVE  Sound(frr, r) /\ (r.ok => Fits(r.frr, Artifacts[target]))
<1> DEFINE old == Artifacts[running]
           new == Artifacts[target]
<1>1. /\ running \in Config /\ target \in Config /\ Ready(running)
      /\ IsFRR(frr) /\ Fits(frr, old)
  BY DEF FrrInv, FrrIsSettled
<1>2. Previous(old).artifacts = old
  BY <1>1, PreviousIsRunning, CurrentFields
<1> HIDE DEF old, new
<1>3. \/ r \in ApplyConfig(frr, new, new.mode)
      \/ /\ new.mode = "transactional" /\ IsStaticRouteDiff(old, new)
         /\ r \in ApplyConfigDiff(frr, old, new)
  BY <1>2 DEF frrApplyOutcomes, old, new
<1> QED
  BY <1>1, <1>3, ApplyOutcome, DiffOutcome DEF old, new

\* Where no fault has happened the preparers still know the interfaces there
\* are.
LEMMA SoundCosts ==
  ASSUME NEW n \in Nat, NEW f, NEW r, Sound(f, r), n = 0 => Tidy(f)
  PROVE  n + r.cost \in Nat /\ IsFRR(r.frr) /\ (n + r.cost = 0 => Tidy(r.frr))
BY DEF Sound

\* An apply, whatever it ends with, preserves the invariant.
LEMMA ApplyKeepsInv ==
  ASSUME FrrInv, FrrApply
  PROVE  FrrInv'
<1> DEFINE diff == Diffs[running][target]
<1>1. /\ running \in Config /\ target \in Config /\ Ready(running) /\ phase = "frr apply"
      /\ <<running, target>> \in Accepted /\ IsFRR(frr) /\ faults \in Nat
      /\ Fits(frr, Artifacts[running]) /\ (faults = 0 => Tidy(frr))
      /\ frrCurrent \in {None, Current(running)}
  BY DEF FrrInv, FrrIsSettled, FrrApply
<1>2. /\ Ready(target) /\ diff = ComputeDiff(running, target)
      /\ ~hasFRRRelevantChanges(diff) => Artifacts[running] = Artifacts[target]
  BY <1>1, AcceptedIsReady
<1>3. PICK r \in frrApplyOutcomes(diff, Artifacts[running], Artifacts[target]) :
        /\ faults' = faults + r.cost
        /\ frrApplyChanges(diff, Artifacts[running], Artifacts[target], r)
        /\ phase' = IF r.ok THEN "idle" ELSE "frr rollback"
        /\ running' = IF r.ok THEN target ELSE running
  BY DEF FrrApply, Afford
<1>4. target' = target /\ unclean' = unclean
  BY DEF FrrApply
<1> HIDE DEF diff
<1>5. CASE ~hasFRRRelevantChanges(diff)
  <2>1. r.ok /\ r.cost = 0
    BY <1>3, <1>5 DEF frrApplyOutcomes, Result
  <2>2. UNCHANGED <<frr, frrCurrent, frrRollback>>
    BY <1>3, <1>5 DEF frrApplyChanges, frrVars
  <2>3. running' = target /\ phase' = "idle" /\ faults' = faults
    <3>1. running' = target /\ phase' = "idle"
      BY <1>3, <2>1, Zenon
    <3>2. faults \in Nat /\ faults' = faults + r.cost
      BY <1>1, <1>3, Zenon
    <3> QED
      BY <2>1, <3>1, <3>2
  <2>4. Artifacts[running'] = Artifacts[running] /\ Current(running') = Current(running)
    BY <1>2, <1>5, <2>3 DEF Current
  <2>5. /\ IsFRR(frr') /\ (faults' = 0 => Tidy(frr')) /\ Fits(frr', Artifacts[running'])
        /\ frrCurrent' \in {None, Current(running')}
    BY <1>1, <2>2, <2>3, <2>4, Zenon
  <2> QED
    BY <1>1, <1>2, <1>4, <2>3, <2>5 DEF FrrInv, Phase
<1>6. CASE hasFRRRelevantChanges(diff)
  <2>1. Sound(frr, r) /\ (r.ok => Fits(r.frr, Artifacts[target]))
    BY <1>1, <1>2, <1>3, <1>6, ApplyChangesOutcome
  <2>2. /\ frrRollback' = Current(running)
        /\ frr' = r.frr
        /\ frrCurrent' = IF r.ok THEN Current(target) ELSE frrCurrent
    BY <1>3, <1>6, PreviousIsRunning DEF frrApplyChanges, Current
  <2>3. faults' \in Nat /\ IsFRR(frr') /\ (faults' = 0 => Tidy(frr'))
    <3>1. faults' = faults + r.cost /\ frr' = r.frr
      BY <1>3, <2>2, Zenon
    <3> QED
      BY <1>1, <2>1, <3>1, SoundCosts
  <2>4. CASE r.ok
    <3>1. running' = target /\ phase' = "idle" /\ frrCurrent' = Current(target)
      BY <1>3, <2>2, <2>4
    <3>2. Fits(frr', Artifacts[running']) /\ frrCurrent' \in {None, Current(running')} /\ Ready(running')
      BY <1>2, <2>1, <2>2, <2>4, <3>1
    <3> QED
      BY <1>1, <1>4, <2>3, <3>1, <3>2 DEF FrrInv, Phase
  <2>5. CASE ~r.ok
    BY <1>1, <1>2, <1>3, <1>4, <2>1, <2>2, <2>3, <2>5 DEF FrrInv, FrrIsSettled, Phase
  <2> QED
    BY <2>4, <2>5
<1> QED
  BY <1>5, <1>6

\* A rollback returns to the published configuration with its own backend.
LEMMA RollbackIsToRunning ==
  ASSUME FrrInv, phase = "frr rollback"
  PROVE  /\ RollbackTarget(Artifacts[running]) = Current(running)
         /\ applierForRollback(Current(running)) = Artifacts[running].mode
<1>1. /\ running \in Config /\ frrRollback = Current(running)
      /\ frrCurrent \in {None, Current(running)}
  BY DEF FrrInv
<1>2. /\ Current(running) # None
      /\ Current(running).artifacts = Artifacts[running]
      /\ Current(running).mode = Artifacts[running].mode
      /\ Artifacts[running].mode \in {"file", "transactional"}
  BY <1>1, CurrentFields
<1> QED
  BY <1>1, <1>2 DEF RollbackTarget, applierForRollback

\* A rollback, whatever it ends with, preserves the invariant.
LEMMA RollbackKeepsInv ==
  ASSUME FrrInv, FrrRollback
  PROVE  FrrInv'
<1> DEFINE a == Artifacts[running]
<1>1. /\ running \in Config /\ target \in Config /\ Ready(running) /\ phase = "frr rollback"
      /\ IsFRR(frr) /\ faults \in Nat /\ (faults = 0 => Tidy(frr))
      /\ frrCurrent \in {None, Current(running)}
  BY DEF FrrInv, FrrRollback
<1>2. PICK r \in frrRollbackOutcomes(a) :
        /\ faults' = faults + r.cost
        /\ frrRollbackChanges(a, r)
        /\ unclean' = (unclean \/ ~r.ok)
  BY DEF FrrRollback, Afford
<1>3. running' = running /\ target' = target /\ phase' = "vpp rollback"
  BY DEF FrrRollback, BeginVppRollback
<1>4. /\ RollbackTarget(a) = Current(running) /\ applierForRollback(Current(running)) = a.mode
      /\ Current(running) # None /\ Current(running).artifacts = a
  BY <1>1, RollbackIsToRunning, CurrentFields
<1> HIDE DEF a
<1>5. r \in ApplyConfig(frr, a, a.mode)
  BY <1>2, <1>4 DEF frrRollbackOutcomes
<1>6. Sound(frr, r) /\ (r.ok => Fits(r.frr, a))
  BY <1>1, <1>5, ApplyOutcome DEF a
<1>7. frr' = r.frr /\ frrCurrent' = IF r.ok THEN Applied(a, a.mode) ELSE frrCurrent
  BY <1>2, <1>4 DEF frrRollbackChanges
<1>8. faults' \in Nat /\ IsFRR(frr') /\ (faults' = 0 => Tidy(frr'))
  <2>1. faults' = faults + r.cost /\ frr' = r.frr
    BY <1>2, <1>7, Zenon
  <2> QED
    BY <1>1, <1>6, <2>1, SoundCosts
<1>9. ~unclean' => Fits(frr', a)
  BY <1>2, <1>6, <1>7
<1>10. frrCurrent' \in {None, Current(running)}
  BY <1>1, <1>7 DEF Current, a
<1> QED
  BY <1>1, <1>3, <1>8, <1>9, <1>10 DEF FrrInv, FrrIsSettled, Phase, a

\* Every step preserves the invariant.
LEMMA NextKeepsInv ==
  ASSUME FrrInv, [Next]_vars
  PROVE  FrrInv'
<1>1. ASSUME NEW c \in Config, Begin(c)
      PROVE  FrrInv'
  <2>1. /\ phase = "idle" /\ ~unclean /\ <<running, c>> \in Accepted
        /\ target' = c /\ phase' = "vpp apply"
        /\ UNCHANGED <<faults, frr, frrCurrent, frrRollback, running, unclean>>
    BY <1>1 DEF Begin, frrVars
  <2> QED
    BY <2>1 DEF FrrInv, FrrIsSettled, Phase
<1>2. CASE VppCall
  <2>1. faults \in Nat
    BY DEF FrrInv
  <2>2. /\ faults' \in Nat /\ (faults' = 0 => faults = 0)
        /\ UNCHANGED <<frr, frrCurrent, frrRollback, running, target, phase, unclean>>
    BY <1>2, <2>1, VppCallKeeps
  <2> QED
    BY <2>2 DEF FrrInv, FrrIsSettled
<1>3. CASE VppApplied
  <2>1. /\ phase = "vpp apply" /\ phase' \in {"frr apply", "vpp rollback"}
        /\ UNCHANGED <<faults, frr, frrCurrent, frrRollback, running, target>>
    BY <1>3 DEF VppApplied, BeginVppRollback, frrVars
  <2> QED
    BY <2>1 DEF FrrInv, FrrIsSettled, Phase
<1>4. CASE VppRolledBack
  <2>1. /\ phase = "vpp rollback" /\ phase' = "idle" /\ target' = running
        /\ unclean' = (unclean \/ call.failed)
        /\ UNCHANGED <<faults, frr, frrCurrent, frrRollback, running>>
    BY <1>4 DEF VppRolledBack, frrVars
  <2> QED
    BY <2>1 DEF FrrInv, FrrIsSettled, Phase
<1>5. CASE FrrApply
  BY <1>5, ApplyKeepsInv
<1>6. CASE FrrRollback
  BY <1>6, RollbackKeepsInv
<1>7. CASE UNCHANGED vars
  BY <1>7 DEF FrrInv, FrrIsSettled, vars, frrVars, engineVars
<1> QED
  BY <1>1, <1>2, <1>3, <1>4, <1>5, <1>6, <1>7 DEF Next

\* In every reachable state the plugin remembers the published configuration
\* or nothing, what it would return to is that configuration, and FRR fits it
\* except while the plugin's own failure has not been rolled back (engine.go,
\* applyAndPublish; plugin.go, ApplyChanges and RollbackChanges).
THEOREM FrrInvHolds ==
  Spec => []FrrInv
BY InitInv, NextKeepsInv, PTL DEF Spec

\* Between transactions FRR runs what the published configuration asks for,
\* whatever failed on the way, unless a rollback has reported an error: with
\* the transactional backend, the file backend, and where only static routes
\* are exchanged (plugin.go, ApplyChanges; transactional.go; reloader.go).
THEOREM FrrRunsPublished ==
  Spec => []FrrRunsRunning
<1>1. FrrInv => FrrRunsRunning
  BY DEF FrrInv, FrrRunsRunning, FrrIsSettled, Settled, Fits, Current
<1> QED
  BY <1>1, FrrInvHolds, PTL

\* RollbackChanges returns to the published configuration, with the backend
\* that configuration is for (plugin.go, RollbackChanges and
\* applierForRollback).
THEOREM FrrReturnsToPublished ==
  Spec => []FrrRollsBackToRunning
<1>1. FrrInv => FrrRollsBackToRunning
  BY RollbackIsToRunning DEF FrrInv, FrrRollsBackToRunning, Current
<1> QED
  BY <1>1, FrrInvHolds, PTL

\* There are two backends.
LEMMA OtherBackends ==
  OtherBackend("file") = "transactional" /\ OtherBackend("transactional") = "file"
<1>1. \A b \in Backend : OtherBackend(b) \in Backend /\ OtherBackend(b) # b
  BY DEF OtherBackend, Backend
<1> QED
  BY <1>1 DEF Backend

\* Between transactions the Linux interfaces of VRRP groups are those of the
\* published configuration; where it has no groups, an interface is left only
\* if the other backend's preparer looks after it or a command has failed
\* (vrrp_system.go, Prepare and loadState; applier.go and transactional.go,
\* which give each backend a preparer).
THEOREM VrrpLinksArePublished ==
  Spec => []VrrpLinksAreRunning
<1>1. FrrInv => VrrpLinksAreRunning
  <2> SUFFICES ASSUME FrrInv, Settled, NEW a, a = Artifacts[running]
               PROVE  /\ Links(a.links) \subseteq frr.links
                      /\ a.links # {} => LinkNames(frr.links) = LinkNames(a.links)
                      /\ a.links = {} /\ faults = 0 =>
                           LinkNames(frr.links) \subseteq frr.known[OtherBackend(a.mode)]
    BY DEF VrrpLinksAreRunning
  <2>1. Linked(frr, a.mode, a.links) /\ (faults = 0 => Tidy(frr))
    BY DEF FrrInv, FrrIsSettled, Settled, Fits
  <2>2. a.mode \in {"file", "transactional"}
    BY ArtifactsOf DEF FrrInv
  <2>3. a.links = {} => frr.known[a.mode] = {}
    BY <2>1 DEF Linked, LinkNames
  <2>4. frr.known["file"] \cup frr.known["transactional"]
        = frr.known[a.mode] \cup frr.known[OtherBackend(a.mode)]
    BY <2>2, OtherBackends
  <2> QED
    BY <2>1, <2>3, <2>4 DEF Linked, Tidy
<1> QED
  BY <1>1, FrrInvHolds, PTL
=============================================================================
