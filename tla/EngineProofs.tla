----------------------------- MODULE EngineProofs -----------------------------
(***************************************************************************)
(* Proofs about the configuration engine, for any number of plugins and of *)
(* callers and any set of configurations.                                  *)
(***************************************************************************)
EXTENDS Engine, TLAPS

\* Init establishes the types.
LEMMA InitTypeOK == Init => TypeOK
  <1>1. Returned("none") \in Call
    BY EngineAssumption DEF Returned, Call, Phase, Result
  <1>2. \A c \in Config : Digest(c) \in States
    BY DEF States
  <1>3. ASSUME Init
        PROVE  southbound \in [Plugin -> States] /\ apply \in [Caller -> Call]
    <2>1. Digest(running) \in States
      BY <1>2, <1>3 DEF Init
    <2> QED BY <1>1, <1>3, <2>1 DEF Init
  <1>4. ASSUME Init PROVE alarm \in BOOLEAN
    BY <1>4 DEF Init
  <1>5. ASSUME Init PROVE running \in Config /\ version \in Nat /\ applyMu \in Caller \cup {None}
    BY <1>5, EngineAssumption DEF Init
  <1> QED BY <1>3, <1>4, <1>5 DEF TypeOK

\* Every step of every caller preserves the types.
LEMMA NextTypeOK == TypeOK /\ [Next]_vars => TypeOK'
  <1> SUFFICES ASSUME TypeOK, [Next]_vars PROVE TypeOK'
    OBVIOUS
  <1> USE DEF TypeOK
  <1>1. ASSUME NEW c \in Caller, NEW r \in Result, Return(c, r)
        PROVE  apply' \in [Caller -> Call] /\ applyMu' \in Caller \cup {None}
    <2>1. Returned(r) \in Call
      BY EngineAssumption DEF Returned, Call, Phase
    <2> QED BY <1>1, <2>1 DEF Return
  <1>2. ASSUME NEW c \in Caller, NEW new \in Config, ApplyCall(c, new)
        PROVE  TypeOK'
    <2>1. [apply[c] EXCEPT !.phase = "waiting", !.new = new, !.result = "none"] \in Call
      BY DEF Call, Phase, Result
    <2> QED BY <1>2, <2>1 DEF ApplyCall
  <1>3. ASSUME NEW c \in Caller, ApplyDiff(c)
        PROVE  TypeOK'
    <2>1. "unchanged" \in Result
      BY DEF Result
    <2>2. CASE HasChanges(running, apply[c].new)
      BY <1>3, <2>2, EngineAssumption DEF ApplyDiff, Call, Phase
    <2>3. CASE ~HasChanges(running, apply[c].new)
      BY <1>1, <1>3, <2>1, <2>3 DEF ApplyDiff
    <2> QED BY <2>2, <2>3
  <1>4. ASSUME NEW c \in Caller, ValidateChanges(c)
        PROVE  TypeOK'
    <2>1. "rejected" \in Result
      BY DEF Result
    <2>2. CASE Return(c, "rejected")
      BY <1>1, <1>4, <2>1, <2>2 DEF ValidateChanges
    <2>3. CASE apply' = [apply EXCEPT ![c].phase = "apply"] /\ UNCHANGED applyMu
      BY <1>4, <2>3 DEF ValidateChanges, Call, Phase
    <2> QED BY <1>4, <2>2, <2>3 DEF ValidateChanges
  <1>5. ASSUME NEW c \in Caller, ApplyChanges(c) \/ RollbackChanges(c)
        PROVE  TypeOK'
    <2>1. /\ apply[c].at \in Plugin
          /\ apply[c].at + 1 \in 0 .. PluginCount + 1
          /\ apply[c].at - 1 \in 0 .. PluginCount + 1
      BY <1>5, EngineAssumption DEF ApplyChanges, RollbackChanges, Plugin
    <2>2. Digest(apply[c].new) \in States /\ Digest(apply[c].old) \in States
      BY DEF States, Call
    <2>3. Lost \in States /\ Partial \in States
      BY DEF States
    <2>4. southbound' \in [Plugin -> States]
      BY <1>5, <2>1, <2>2, <2>3 DEF ApplyChanges, RollbackChanges
    <2>5. apply' \in [Caller -> Call]
      BY <1>5, <2>1 DEF ApplyChanges, RollbackChanges, Call, Phase
    <2> QED BY <1>5, <2>4, <2>5 DEF ApplyChanges, RollbackChanges
  <1>6. ASSUME NEW c \in Caller, ReturnApplyError(c)
        PROVE  TypeOK'
    <2>1. "rollback failed" \in Result /\ "rolled back" \in Result
      BY DEF Result
    <2>2. apply[c].failed \in BOOLEAN
      BY DEF Call
    <2>3. apply' \in [Caller -> Call] /\ applyMu' \in Caller \cup {None}
      BY <1>1, <1>6, <2>1 DEF ReturnApplyError
    <2> QED BY <1>6, <2>2, <2>3 DEF ReturnApplyError
  <1>7. ASSUME NEW c \in Caller, Publish(c)
        PROVE  TypeOK'
    <2>1. "ok" \in Result /\ apply[c].new \in Config
      BY DEF Result, Call
    <2> QED BY <1>1, <1>7, <2>1 DEF Publish
  <1>8. CASE UNCHANGED vars
    BY <1>8 DEF vars
  <1> QED BY <1>2, <1>3, <1>4, <1>5, <1>6, <1>7, <1>8 DEF Next, Step

\* The engine's state keeps its type (TypeOK).
THEOREM EngineTypeCorrect == Spec => []TypeOK
  BY InitTypeOK, NextTypeOK, PTL DEF Spec

-----------------------------------------------------------------------------

\* applyMu is held exactly by the caller inside Apply.
MutexHeldInside == \A c \in Caller : Busy(c) <=> applyMu = c

\* Where each plugin stands while a call is inside Apply: the plugins before
\* apply[c].at have the new configuration, those after it (and, until plugins
\* are touched, all of them) the published one.
Progress(c) ==
  /\ apply[c].old = running
  /\ HasChanges(running, apply[c].new)
  /\ apply[c].phase = "validate" =>
       apply[c].at = 1 /\ \A p \in Plugin : southbound[p] \in {Digest(running), Lost}
  /\ apply[c].phase = "apply" =>
       /\ apply[c].at \in 1 .. PluginCount + 1
       /\ \A p \in Plugin :
            southbound[p] \in
              {IF p < apply[c].at THEN Digest(apply[c].new) ELSE Digest(running), Lost}
  /\ apply[c].phase = "rollback" =>
       /\ apply[c].at \in 0 .. PluginCount
       /\ \A p \in Plugin :
            p > apply[c].at => southbound[p] \in {Digest(running), Lost}
  /\ apply[c].failed => apply[c].phase = "rollback"

\* A plugin is Lost only after an alarm or under the call that will raise it.
LostIsKnown ==
  \A p \in Plugin :
    southbound[p] = Lost =>
      alarm \/ \E c \in Caller : applyMu = c /\ apply[c].failed

Inv ==
  /\ TypeOK
  /\ MutexHeldInside
  /\ \A c \in Caller : Busy(c) => Progress(c)
  /\ LostIsKnown
  /\ AllOrNothing

\* The first states satisfy the invariant.
LEMMA InitInv == Init => Inv
  <1> SUFFICES ASSUME Init PROVE Inv
    OBVIOUS
  <1>1. \A c \in Caller : ~Busy(c) /\ applyMu # c
    BY EngineAssumption DEF Init, Busy, Returned
  <1>2. running \in Config /\ Digest(running) # Lost
    BY EngineAssumption DEF Init
  <1>3. \A p \in Plugin : southbound[p] = Digest(running) /\ southbound[p] # Lost
    BY <1>2 DEF Init
  <1> QED
    BY <1>1, <1>3, InitTypeOK DEF Inv, MutexHeldInside, LostIsKnown, AllOrNothing

\* The other callers are outside while c is inside.
LEMMA Exclusive ==
  ASSUME Inv, NEW c \in Caller, Busy(c)
  PROVE  applyMu = c /\ \A d \in Caller : d # c => ~Busy(d)
  BY DEF Inv, MutexHeldInside

\* A call may return once every plugin has the published configuration.
LEMMA ReturnInv ==
  ASSUME TypeOK, TypeOK', NEW c \in Caller, NEW r, Return(c, r),
         \A d \in Caller : d # c => ~Busy(d),
         southbound' = southbound,
         \A p \in Plugin : southbound[p] \in {Digest(running'), Lost},
         \A p \in Plugin : southbound[p] = Lost => alarm'
  PROVE  Inv'
  <1>1. apply' = [apply EXCEPT ![c] = Returned(r)] /\ applyMu' = None
    BY DEF Return
  <1>2. \A d \in Caller : ~Busy(d)'
    BY <1>1 DEF TypeOK, Busy, Returned
  <1>3. MutexHeldInside'
    BY <1>1, <1>2, EngineAssumption DEF MutexHeldInside
  <1>4. LostIsKnown' /\ AllOrNothing'
    BY DEF LostIsKnown, AllOrNothing
  <1> QED BY <1>2, <1>3, <1>4 DEF Inv

\* One plugin applies the diff, or fails to.
LEMMA ApplyChangesInv ==
  ASSUME Inv, TypeOK, TypeOK', NEW c \in Caller, ApplyChanges(c)
  PROVE  Inv'
  <1> DEFINE p == apply[c].at
  <1>1. Busy(c) /\ Progress(c) /\ apply[c].phase = "apply" /\ p \in Plugin
    BY DEF ApplyChanges, Busy, Inv
  <1>2. applyMu = c /\ \A d \in Caller : d # c => ~Busy(d)
    BY <1>1, Exclusive
  <1>3. UNCHANGED <<running, version, applyMu, alarm>>
    BY DEF ApplyChanges
  <1>4. \A q \in Plugin : q # p => southbound'[q] = southbound[q]
    BY DEF ApplyChanges, TypeOK
  <1>5. southbound'[p] = Lost => southbound[p] = Lost
    BY <1>1, EngineAssumption DEF ApplyChanges, TypeOK, Call
  <1>6. \A q \in Plugin : southbound'[q] = Lost => alarm
    BY <1>1, <1>2, <1>4, <1>5 DEF Inv, LostIsKnown, Progress
  <1>7. LostIsKnown' /\ AllOrNothing'
    BY <1>2, <1>3, <1>6, EngineAssumption DEF LostIsKnown, AllOrNothing
  <1>8. \/ /\ southbound'[p] \in {Digest(apply[c].new), Lost}
           /\ apply' = [apply EXCEPT ![c].at = p + 1]
        \/ apply' = [apply EXCEPT ![c].phase = "rollback"]
    BY <1>1 DEF ApplyChanges, TypeOK
  <1>9. /\ apply'[c].phase \in {"apply", "rollback"}
        /\ apply'[c].old = running
        /\ apply'[c].new = apply[c].new
        /\ HasChanges(running, apply'[c].new)
        /\ apply'[c].failed = apply[c].failed
        /\ \A d \in Caller : d # c => apply'[d] = apply[d]
    BY <1>1, <1>8 DEF TypeOK, Call, Progress
  <1>10. MutexHeldInside' /\ \A d \in Caller : Busy(d)' => d = c
    BY <1>2, <1>3, <1>9 DEF MutexHeldInside, Busy
  <1>11. ~apply[c].failed
    BY <1>1 DEF Progress
  <1>12. CASE /\ southbound'[p] \in {Digest(apply[c].new), Lost}
              /\ apply' = [apply EXCEPT ![c].at = p + 1]
    <2>1. apply'[c].phase = "apply" /\ apply'[c].at = p + 1
      BY <1>1, <1>12 DEF TypeOK, Call
    <2>2. p + 1 \in 1 .. PluginCount + 1
      BY <1>1, EngineAssumption DEF Plugin
    <2>3. ASSUME NEW q \in Plugin
          PROVE  southbound'[q] \in
                   {IF q < p + 1 THEN Digest(apply[c].new) ELSE Digest(running), Lost}
      <3>1. CASE q = p
        BY <1>1, <1>12, <3>1 DEF Plugin
      <3>2. CASE q # p
        <4>1. (q < p + 1) <=> (q < p)
          BY <1>1, <3>2, EngineAssumption DEF Plugin
        <4> QED BY <1>1, <1>4, <3>2, <4>1 DEF Progress
      <3> QED BY <3>1, <3>2
    <2>4. Progress(c)'
      BY <1>3, <1>9, <1>11, <2>1, <2>2, <2>3 DEF Progress
    <2> QED BY <1>7, <1>10, <2>4 DEF Inv
  <1>13. CASE apply' = [apply EXCEPT ![c].phase = "rollback"]
    <2>1. apply'[c].phase = "rollback" /\ apply'[c].at = p
      BY <1>13 DEF TypeOK, Call
    <2>2. p \in 0 .. PluginCount
      BY <1>1, EngineAssumption DEF Plugin
    <2>3. ASSUME NEW q \in Plugin, q > p
          PROVE  southbound'[q] \in {Digest(running), Lost}
      <3>1. q # p /\ ~(q < p)
        BY <1>1, <2>3, EngineAssumption DEF Plugin
      <3> QED BY <1>1, <1>4, <3>1 DEF Progress
    <2>4. Progress(c)'
      BY <1>3, <1>9, <1>11, <2>1, <2>2, <2>3 DEF Progress
    <2> QED BY <1>7, <1>10, <2>4 DEF Inv
  <1> QED BY <1>8, <1>12, <1>13

\* One plugin rolls the diff back, or fails to.
LEMMA RollbackChangesInv ==
  ASSUME Inv, TypeOK, TypeOK', NEW c \in Caller, RollbackChanges(c)
  PROVE  Inv'
  <1> DEFINE p == apply[c].at
  <1>1. Busy(c) /\ Progress(c) /\ apply[c].phase = "rollback" /\ p \in Plugin
    BY DEF RollbackChanges, Busy, Inv
  <1>2. applyMu = c /\ \A d \in Caller : d # c => ~Busy(d)
    BY <1>1, Exclusive
  <1>3. UNCHANGED <<running, version, applyMu, alarm>>
    BY DEF RollbackChanges
  <1>4. \A q \in Plugin : q # p => southbound'[q] = southbound[q]
    BY DEF RollbackChanges, TypeOK
  <1>5. apply[c].old = running
    BY <1>1 DEF Progress
  <1>6. southbound'[p] \in {Digest(running), Lost}
    BY <1>1, <1>5 DEF RollbackChanges, TypeOK
  <1>7. /\ apply'[c].phase = "rollback"
        /\ apply'[c].at = p - 1
        /\ apply'[c].old = running
        /\ HasChanges(running, apply'[c].new)
        /\ apply[c].failed => apply'[c].failed
        /\ \A d \in Caller : d # c => apply'[d] = apply[d]
    BY <1>1, <1>5 DEF RollbackChanges, TypeOK, Call, Progress
  <1>8. (southbound'[p] = Lost /\ southbound[p] # Lost) => apply'[c].failed
    BY <1>1, EngineAssumption DEF RollbackChanges, TypeOK, Call
  <1>9. LostIsKnown' /\ AllOrNothing'
    <2>1. \A q \in Plugin : southbound[q] = Lost => alarm \/ apply[c].failed
      BY <1>2 DEF Inv, LostIsKnown
    <2>2. \A q \in Plugin : southbound'[q] = Lost => alarm \/ apply'[c].failed
      BY <1>4, <1>7, <1>8, <2>1
    <2> QED BY <1>2, <1>3, <2>2, EngineAssumption DEF LostIsKnown, AllOrNothing
  <1>10. MutexHeldInside' /\ \A d \in Caller : Busy(d)' => d = c
    BY <1>2, <1>3, <1>7 DEF MutexHeldInside, Busy
  <1>11. p - 1 \in 0 .. PluginCount
    BY <1>1, EngineAssumption DEF Plugin
  <1>12. ASSUME NEW q \in Plugin, q > p - 1
         PROVE  southbound'[q] \in {Digest(running), Lost}
    <2>1. CASE q = p
      BY <1>6, <2>1
    <2>2. CASE q # p
      <3>1. q > p
        BY <1>1, <1>12, <2>2, EngineAssumption DEF Plugin
      <3> QED BY <1>1, <1>4, <2>2, <3>1 DEF Progress
    <2> QED BY <2>1, <2>2
  <1>13. Progress(c)'
    BY <1>3, <1>7, <1>11, <1>12 DEF Progress
  <1> QED BY <1>9, <1>10, <1>13 DEF Inv

\* Every step preserves the invariant.
LEMMA NextInv == Inv /\ [Next]_vars => Inv'
  <1> SUFFICES ASSUME Inv, [Next]_vars PROVE Inv'
    OBVIOUS
  <1>t. TypeOK /\ TypeOK'
    BY NextTypeOK DEF Inv
  <1> DEFINE Settled == \A p \in Plugin : southbound[p] \in {Digest(running), Lost}
  <1>1. ASSUME NEW c \in Caller, NEW new \in Config, ApplyCall(c, new)
        PROVE  Inv'
    <2>1. \A d \in Caller : Busy(d)' <=> Busy(d)
      BY <1>1, <1>t DEF ApplyCall, Busy, TypeOK
    <2>2. \A d \in Caller : Busy(d) => apply'[d] = apply[d]
      BY <1>1, <1>t DEF ApplyCall, Busy, TypeOK
    <2>3. MutexHeldInside' /\ AllOrNothing'
      BY <1>1, <2>1 DEF ApplyCall, Inv, MutexHeldInside, AllOrNothing
    <2>4. \A d \in Caller : Busy(d)' => Progress(d)'
      BY <1>1, <2>1, <2>2 DEF ApplyCall, Inv, Progress
    <2>5. LostIsKnown'
      <3>1. \A d \in Caller : applyMu = d => apply'[d] = apply[d]
        BY <2>2 DEF Inv, MutexHeldInside
      <3> QED BY <1>1, <3>1 DEF ApplyCall, Inv, LostIsKnown
    <2> QED BY <1>t, <2>3, <2>4, <2>5 DEF Inv
  <1>2. ASSUME NEW c \in Caller, ApplyDiff(c)
        PROVE  Inv'
    <2>1. applyMu = None /\ \A d \in Caller : ~Busy(d)
      BY <1>2, EngineAssumption DEF ApplyDiff, Inv, MutexHeldInside
    <2>2. Settled /\ (\A p \in Plugin : southbound[p] = Lost => alarm)
      BY <2>1, EngineAssumption, <1>t DEF Inv, AllOrNothing, TypeOK
    <2>3. UNCHANGED <<running, version, southbound, alarm>>
      BY <1>2 DEF ApplyDiff
    <2>4. CASE HasChanges(running, apply[c].new)
      <3>1. /\ apply' = [apply EXCEPT ![c].phase = "validate", ![c].old = running,
                                      ![c].at = 1, ![c].failed = FALSE]
            /\ applyMu' = c
        BY <1>2, <2>4 DEF ApplyDiff
      <3>2. /\ apply'[c].phase = "validate"
            /\ apply'[c].old = running
            /\ apply'[c].at = 1
            /\ apply'[c].new = apply[c].new
            /\ apply'[c].failed = FALSE
            /\ \A d \in Caller : d # c => apply'[d] = apply[d]
        BY <1>t, <3>1 DEF TypeOK, Call
      <3>3. MutexHeldInside'
        BY <2>1, <3>1, <3>2 DEF MutexHeldInside, Busy
      <3>4. \A d \in Caller : Busy(d)' => d = c
        BY <2>1, <3>2 DEF Busy
      <3>5. Progress(c)'
        BY <2>2, <2>3, <2>4, <3>2 DEF Progress
      <3>6. LostIsKnown' /\ AllOrNothing'
        BY <2>2, <2>3, <3>1, EngineAssumption DEF LostIsKnown, AllOrNothing
      <3> QED BY <1>t, <3>3, <3>4, <3>5, <3>6 DEF Inv
    <2>5. CASE ~HasChanges(running, apply[c].new)
      <3>1. Return(c, "unchanged")
        BY <1>2, <2>5 DEF ApplyDiff
      <3> QED BY <1>t, <2>1, <2>2, <2>3, <3>1, ReturnInv
    <2> QED BY <2>4, <2>5
  <1>3. ASSUME NEW c \in Caller, ValidateChanges(c)
        PROVE  Inv'
    <2>1. Busy(c) /\ Progress(c) /\ apply[c].phase = "validate"
      BY <1>3 DEF ValidateChanges, Busy, Inv
    <2>2. applyMu = c /\ \A d \in Caller : d # c => ~Busy(d)
      BY <2>1, Exclusive
    <2>3. Settled /\ (\A p \in Plugin : southbound[p] = Lost => alarm)
      BY <2>1, <2>2 DEF Progress, Inv, LostIsKnown
    <2>4. UNCHANGED <<running, version, southbound, alarm>>
      BY <1>3 DEF ValidateChanges
    <2>5. CASE apply' = [apply EXCEPT ![c].phase = "apply"] /\ UNCHANGED applyMu
      <3>1. /\ apply'[c].phase = "apply"
            /\ apply'[c].old = running
            /\ apply'[c].at = 1
            /\ HasChanges(running, apply'[c].new)
            /\ apply'[c].failed = apply[c].failed
            /\ \A d \in Caller : d # c => apply'[d] = apply[d]
        BY <1>t, <2>1, <2>5 DEF TypeOK, Call, Progress
      <3>2. MutexHeldInside' /\ \A d \in Caller : Busy(d)' => d = c
        BY <2>2, <2>5, <3>1 DEF MutexHeldInside, Busy
      <3>3. \A p \in Plugin : ~(p < 1)
        BY EngineAssumption DEF Plugin
      <3>4. 1 \in 1 .. PluginCount + 1
        BY EngineAssumption
      <3>5. ~apply[c].failed
        BY <2>1 DEF Progress
      <3>6. Progress(c)'
        BY <2>3, <2>4, <3>1, <3>3, <3>4, <3>5 DEF Progress
      <3>7. LostIsKnown' /\ AllOrNothing'
        BY <2>2, <2>3, <2>4, <2>5, EngineAssumption DEF LostIsKnown, AllOrNothing
      <3> QED BY <1>t, <3>2, <3>6, <3>7 DEF Inv
    <2>6. CASE Return(c, "rejected")
      BY <1>t, <2>2, <2>3, <2>4, <2>6, ReturnInv
    <2> QED BY <1>3, <2>5, <2>6 DEF ValidateChanges
  <1>4. ASSUME NEW c \in Caller, ApplyChanges(c)
        PROVE  Inv'
    BY <1>4, <1>t, ApplyChangesInv
  <1>5. ASSUME NEW c \in Caller, RollbackChanges(c)
        PROVE  Inv'
    BY <1>5, <1>t, RollbackChangesInv
  <1>6. ASSUME NEW c \in Caller, ReturnApplyError(c)
        PROVE  Inv'
    <2>1. Busy(c) /\ Progress(c) /\ apply[c].phase = "rollback" /\ apply[c].at = 0
      BY <1>6 DEF ReturnApplyError, Busy, Inv
    <2>2. applyMu = c /\ \A d \in Caller : d # c => ~Busy(d)
      BY <2>1, Exclusive
    <2>3. \A p \in Plugin : p > 0
      BY EngineAssumption DEF Plugin
    <2>4. Settled
      BY <2>1, <2>3 DEF Progress
    <2>5. \A p \in Plugin : southbound[p] = Lost => alarm'
      BY <1>6, <2>2 DEF ReturnApplyError, Inv, LostIsKnown
    <2> QED BY <1>6, <1>t, <2>2, <2>4, <2>5, ReturnInv DEF ReturnApplyError
  <1>7. ASSUME NEW c \in Caller, Publish(c)
        PROVE  Inv'
    <2>1. Busy(c) /\ Progress(c) /\ apply[c].phase = "apply" /\ apply[c].at = PluginCount + 1
      BY <1>7 DEF Publish, Busy, Inv
    <2>2. applyMu = c /\ \A d \in Caller : d # c => ~Busy(d)
      BY <2>1, Exclusive
    <2>3. \A p \in Plugin : p < PluginCount + 1
      BY EngineAssumption DEF Plugin
    <2>4. \A p \in Plugin : southbound[p] \in {Digest(running'), Lost}
      BY <1>7, <2>1, <2>3 DEF Progress, Publish
    <2>5. \A p \in Plugin : southbound[p] = Lost => alarm
      BY <2>1, <2>2 DEF Progress, Inv, LostIsKnown
    <2> QED BY <1>7, <1>t, <2>2, <2>4, <2>5, ReturnInv DEF Publish
  <1>8. CASE UNCHANGED vars
    BY <1>8, <1>t DEF vars, Inv, MutexHeldInside, Progress, LostIsKnown, AllOrNothing, Busy
  <1> QED BY <1>1, <1>2, <1>3, <1>4, <1>5, <1>6, <1>7, <1>8 DEF Next, Step

\* Unless a rollback failed, and said so, every plugin forwards by the published
\* configuration whenever no Apply is in progress (AllOrNothing).
THEOREM EngineAllOrNothing == Spec => []AllOrNothing
  <1>1. Inv => AllOrNothing
    BY DEF Inv
  <1> QED BY <1>1, InitInv, NextInv, PTL DEF Spec

\* No publication overtakes a call inside Apply (DiffIsFromRunning).
THEOREM EngineDiffIsFromRunning == Spec => []DiffIsFromRunning
  <1>1. Inv => DiffIsFromRunning
    BY DEF Inv, Progress, DiffIsFromRunning
  <1> QED BY <1>1, InitInv, NextInv, PTL DEF Spec

=============================================================================
