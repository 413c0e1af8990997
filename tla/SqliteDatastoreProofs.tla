------------------------ MODULE SqliteDatastoreProofs ------------------------
(***************************************************************************)
(* Proofs about the SQLite backend, for any sets of sessions, texts and    *)
(* lock targets, any timeouts and any bounds.                              *)
(***************************************************************************)
EXTENDS SqliteDatastore, SequenceTheorems, TLAPS

\* What is known of a call record whichever request it belongs to.
LEMMA CallFacts ==
  ASSUME NEW c \in Call
  PROVE  /\ c.at \in Nat
         /\ c.op \in {"commit", "rollback", "steal"}
         /\ c.op = "rollback" => c.text \in Text
         /\ c.op = "steal" => c.target \in Target
  BY DEF Call

\* Whole seconds of an instant are a natural number.
LEMMA UnixNat == ASSUME NEW t \in Nat PROVE Unix(t) \in Nat
  BY DEF Unix

\* Retiring rows keeps their number, their texts and their type.
LEMMA RetiredFacts ==
  ASSUME running \in Seq(RunningRow)
  PROVE  /\ Retired \in Seq(RunningRow)
         /\ Len(Retired) = Len(running)
         /\ \A i \in 1 .. Len(running) :
              Retired[i].text = running[i].text /\ Retired[i].current = FALSE
  <1>1. \A i \in 1 .. Len(running) : running[i] \in RunningRow
    OBVIOUS
  <1>2. \A i \in 1 .. Len(running) :
          [running[i] EXCEPT !.current = FALSE] \in RunningRow
    BY <1>1 DEF RunningRow
  <1>3. Len(running) \in Nat
    OBVIOUS
  <1>4. Retired \in [1 .. Len(running) -> RunningRow]
    BY <1>2 DEF Retired
  <1>5. Retired \in Seq(RunningRow) /\ Len(Retired) = Len(running)
    BY <1>3, <1>4
  <1>6. \A i \in 1 .. Len(running) :
          Retired[i].text = running[i].text /\ Retired[i].current = FALSE
    BY <1>1 DEF Retired, RunningRow
  <1> QED BY <1>5, <1>6

-----------------------------------------------------------------------------

\* Init establishes the types.
LEMMA InitTypeOK == Init => TypeOK
  BY DEF Init, TypeOK

\* Every request, transaction, cleanup and restart preserves the types.
LEMMA NextTypeOK == TypeOK /\ [Next]_vars => TypeOK'
  <1> SUFFICES ASSUME TypeOK, [Next]_vars PROVE TypeOK'
    OBVIOUS
  <1> USE DEF TypeOK
  <1>1. ASSUME NEW s \in Session, NEW target \in Target, NEW d \in Timeouts,
               AcquireLock(s, target, d) \/ ExtendLock(s, target, d)
        PROVE  TypeOK'
    <2>1. Unix(clock) \in Nat /\ d \in Nat
      BY UnixNat, TimeAssumption
    <2>2. [session |-> s, expires |-> Unix(clock) + d] \in LockRow
      BY <2>1 DEF LockRow
    <2> QED BY <1>1, <2>2 DEF AcquireLock, ExtendLock, SetLock
  <1>2. ASSUME NEW s \in Session, NEW target \in Target, ReleaseLock(s, target)
        PROVE  TypeOK'
    BY <1>2 DEF ReleaseLock, SetLock
  <1>3. ASSUME NEW s \in Session, NEW target \in Target, StealLockCall(s, target)
        PROVE  TypeOK'
    <2>1. [op |-> "steal", at |-> clock, target |-> target] \in Call
      BY DEF Call
    <2> QED BY <1>3, <2>1 DEF StealLockCall
  <1>4. ASSUME NEW s \in Session, StealLockTx(s)
        PROVE  TypeOK'
    <2>1. call[s] \in Call
      BY <1>4 DEF StealLockTx, Idle
    <2>2. call[s].target \in Target /\ Unix(call[s].at) \in Nat
      BY <1>4, <2>1, CallFacts, UnixNat DEF StealLockTx
    <2>3. [session |-> s, expires |-> Unix(call[s].at) + StealTimeout] \in LockRow
      BY <2>2, TimeAssumption DEF LockRow
    <2> QED BY <1>4, <2>2, <2>3 DEF StealLockTx, SetLock
  <1>5. ASSUME NEW s \in Session, CandidateRequest(s)
        PROVE  TypeOK'
    BY <1>5 DEF CandidateRequest, SaveCandidate, DeleteCandidate
  <1>6. ASSUME NEW s \in Session, CommitCall(s)
        PROVE  TypeOK'
    <2>1. [op |-> "commit", at |-> clock] \in Call
      BY DEF Call
    <2> QED BY <1>6, <2>1 DEF CommitCall
  <1>7. ASSUME NEW s \in Session, NEW i \in 1 .. Len(history), RollbackCall(s, i)
        PROVE  TypeOK'
    <2>1. history[i] \in Commits
      OBVIOUS
    <2>2. [op |-> "rollback", at |-> clock, text |-> history[i].text] \in Call
      BY <2>1 DEF Call, Commits
    <2> QED BY <1>7, <2>2 DEF RollbackCall
  <1>8. ASSUME NEW s \in Session, NEW x \in Text, call[s] \in Call, Record(s, x)
        PROVE  /\ locks' \in [Target -> LockRow \cup {None}]
               /\ running' \in Seq(RunningRow)
               /\ history' \in Seq(Commits)
    <2>1. [text |-> x, current |-> TRUE] \in RunningRow
      BY DEF RunningRow
    <2>2. [text |-> x, at |-> call[s].at] \in Commits
      BY <1>8, CallFacts DEF Commits
    <2>3. Retired \in Seq(RunningRow)
      BY RetiredFacts
    <2>4. running' \in Seq(RunningRow)
      BY <1>8, <2>1, <2>3, AppendProperties DEF Record
    <2>5. history' \in Seq(Commits)
      BY <1>8, <2>2, AppendProperties DEF Record
    <2>6. locks' \in [Target -> LockRow \cup {None}]
      BY <1>8 DEF Record, SetLock
    <2> QED BY <2>4, <2>5, <2>6
  <1>9. ASSUME NEW s \in Session, CommitTx(s)
        PROVE  TypeOK'
    <2>1. call[s] \in Call /\ candidates[s] \in Text
      BY <1>9 DEF CommitTx, Idle
    <2> QED BY <1>9, <2>1, <1>8 DEF CommitTx
  <1>10. ASSUME NEW s \in Session, RollbackTx(s)
         PROVE  TypeOK'
    <2>1. call[s] \in Call
      BY <1>10 DEF RollbackTx, Idle
    <2>2. call[s].text \in Text
      BY <1>10, <2>1, CallFacts DEF RollbackTx
    <2> QED BY <1>10, <2>1, <2>2, <1>8 DEF RollbackTx
  <1>11. ASSUME NEW s \in Session, FailTx(s)
         PROVE  TypeOK'
    BY <1>11 DEF FailTx
  <1>12. CASE performLockCleanup
    BY <1>12 DEF performLockCleanup
  <1>13. CASE CleanupEphemeralState
    BY <1>13 DEF CleanupEphemeralState
  <1>14. CASE Tick
    BY <1>14 DEF Tick
  <1>15. CASE UNCHANGED vars
    BY <1>15 DEF vars
  <1> QED
    BY <1>1, <1>2, <1>3, <1>4, <1>5, <1>6, <1>7, <1>9, <1>10, <1>11, <1>12,
       <1>13, <1>14, <1>15 DEF Next, LockRequest, Transaction

\* The datastore's tables keep their types (TypeOK).
THEOREM SqliteTypeCorrect == Spec => []TypeOK
  BY InitTypeOK, NextTypeOK, PTL DEF Spec

-----------------------------------------------------------------------------

\* A transaction of s that records x: what CommitTx and RollbackTx share.
Recording(s, x) ==
  /\ call[s] # None
  /\ call[s] \in Call
  /\ call[s].op # "steal"
  /\ HoldsAt(s, "candidate", call[s].at)
  /\ Record(s, x)
  /\ call' = [call EXCEPT ![s] = None]
  /\ clock' = clock

\* The transactions that record.
LEMMA TxRecords ==
  ASSUME TypeOK, NEW s \in Session, CommitTx(s) \/ RollbackTx(s)
  PROVE  \E x \in Text : Recording(s, x)
  <1>1. call[s] \in Call
    BY DEF CommitTx, RollbackTx, Idle, TypeOK
  <1>2. CASE CommitTx(s)
    BY <1>1, <1>2 DEF CommitTx, Recording, Idle, TypeOK
  <1>3. CASE RollbackTx(s)
    BY <1>1, <1>3, CallFacts DEF RollbackTx, Recording, Idle
  <1> QED BY <1>2, <1>3

\* Only a recording transaction touches running_config and commit_history.
LEMMA StepRecordsOrNot ==
  ASSUME TypeOK, [Next]_vars
  PROVE  \/ \E s \in Session, x \in Text : Recording(s, x)
         \/ UNCHANGED <<running, history>>
  <1>1. ASSUME NEW s \in Session, CommitTx(s) \/ RollbackTx(s)
        PROVE  \E x \in Text : Recording(s, x)
    BY <1>1, TxRecords
  <1>3. ASSUME NEW s \in Session, LockRequest(s) \/ CandidateRequest(s)
        PROVE  UNCHANGED <<running, history>>
    BY <1>3 DEF LockRequest, AcquireLock, ExtendLock, ReleaseLock, StealLockCall,
                CandidateRequest, SaveCandidate, DeleteCandidate
  <1>4. ASSUME NEW s \in Session,
               CommitCall(s) \/ \E i \in 1 .. Len(history) : RollbackCall(s, i)
        PROVE  UNCHANGED <<running, history>>
    BY <1>4 DEF CommitCall, RollbackCall
  <1>5. ASSUME NEW s \in Session, StealLockTx(s) \/ FailTx(s)
        PROVE  UNCHANGED <<running, history>>
    BY <1>5 DEF StealLockTx, FailTx
  <1>6. ASSUME performLockCleanup \/ CleanupEphemeralState \/ Tick \/ UNCHANGED vars
        PROVE  UNCHANGED <<running, history>>
    BY <1>6 DEF performLockCleanup, CleanupEphemeralState, Tick, vars
  <1> QED BY <1>1, <1>3, <1>4, <1>5, <1>6 DEF Next, Transaction

\* What a recording transaction appends.
LEMMA RecordFacts ==
  ASSUME TypeOK, NEW s \in Session, NEW x \in Text, Recording(s, x)
  PROVE  /\ Len(history') = Len(history) + 1
         /\ \A i \in 1 .. Len(history) : history'[i] = history[i]
         /\ history'[Len(history) + 1].text = x
         /\ history'[Len(history) + 1].at = call[s].at
         /\ Len(running') = Len(running) + 1
         /\ \A i \in 1 .. Len(running) :
              running'[i].text = running[i].text /\ running'[i].current = FALSE
         /\ running'[Len(running) + 1].text = x
         /\ running'[Len(running) + 1].current = TRUE
  <1>1. [text |-> x, at |-> call[s].at] \in Commits
    BY CallFacts DEF Recording, Commits
  <1>2. [text |-> x, current |-> TRUE] \in RunningRow
    BY DEF RunningRow
  <1>3. /\ Len(history') = Len(history) + 1
        /\ \A i \in 1 .. Len(history) : history'[i] = history[i]
        /\ history'[Len(history) + 1] = [text |-> x, at |-> call[s].at]
    BY <1>1, AppendProperties DEF Recording, Record, TypeOK
  <1>4. running \in Seq(RunningRow) /\ Retired \in Seq(RunningRow)
    BY RetiredFacts DEF TypeOK
  <1>5. /\ Len(running') = Len(Retired) + 1
        /\ \A i \in 1 .. Len(Retired) : running'[i] = Retired[i]
        /\ running'[Len(Retired) + 1] = [text |-> x, current |-> TRUE]
    BY <1>2, <1>4, AppendProperties DEF Recording, Record
  <1>6. /\ history'[Len(history) + 1].text = x
        /\ history'[Len(history) + 1].at = call[s].at
    BY <1>3
  <1>7. /\ Len(running') = Len(running) + 1
        /\ \A i \in 1 .. Len(running) :
             running'[i].text = running[i].text /\ running'[i].current = FALSE
        /\ running'[Len(running) + 1] = [text |-> x, current |-> TRUE]
    BY <1>4, <1>5, RetiredFacts
  <1>8. /\ running'[Len(running) + 1].text = x
        /\ running'[Len(running) + 1].current = TRUE
    BY <1>7
  <1> QED BY <1>3, <1>6, <1>7, <1>8

-----------------------------------------------------------------------------

\* Each running_config row was written with the commit_history row of the same
\* position, and exactly the last one is current.
RowsPaired ==
  /\ Len(running) = Len(history)
  /\ \A i \in 1 .. Len(running) :
       /\ running[i].text = history[i].text
       /\ running[i].current <=> i = Len(running)

\* Recording keeps the two tables in step.
LEMMA NextRowsPaired == TypeOK /\ RowsPaired /\ [Next]_vars => RowsPaired'
  <1> SUFFICES ASSUME TypeOK, RowsPaired, [Next]_vars PROVE RowsPaired'
    OBVIOUS
  <1>1. CASE UNCHANGED <<running, history>>
    BY <1>1 DEF RowsPaired
  <1>2. ASSUME NEW s \in Session, NEW x \in Text, Recording(s, x)
        PROVE  RowsPaired'
    <2>1. Len(running) \in Nat /\ Len(history) = Len(running)
      BY DEF TypeOK, RowsPaired
    <2>2. Len(running') = Len(running) + 1 /\ Len(history') = Len(running')
      BY <1>2, <2>1, RecordFacts
    <2>3. /\ \A i \in 1 .. Len(running) : history'[i] = history[i]
          /\ history'[Len(running')].text = x
          /\ \A i \in 1 .. Len(running) :
               running'[i].text = running[i].text /\ running'[i].current = FALSE
          /\ running'[Len(running')].text = x
          /\ running'[Len(running')].current = TRUE
      BY <1>2, <2>1, <2>2, RecordFacts
    <2>4. ASSUME NEW i \in 1 .. Len(running)
          PROVE  /\ running'[i].text = history'[i].text
                 /\ running'[i].current <=> i = Len(running')
      BY <2>1, <2>2, <2>3 DEF RowsPaired
    <2>5. /\ running'[Len(running')].text = history'[Len(running')].text
          /\ running'[Len(running')].current = TRUE
      BY <2>3
    <2>6. \A i \in 1 .. Len(running') : i \in 1 .. Len(running) \/ i = Len(running')
      BY <2>1, <2>2
    <2> QED BY <2>2, <2>4, <2>5, <2>6 DEF RowsPaired
  <1> QED BY <1>1, <1>2, StepRecordsOrNot

\* The rows of running_config and commit_history correspond, and the last one
\* alone is current (RowsPaired): Record appends to both.
THEOREM SqliteRowsPaired == Spec => []RowsPaired
  <1>1. Init => RowsPaired
    BY DEF Init, RowsPaired
  <1> QED BY <1>1, NextRowsPaired, SqliteTypeCorrect, PTL DEF Spec

\* GetRunning returns the newest commit (CurrentIsNewestCommit), whatever calls
\* were in flight, stolen, failed or cut off by a restart.
THEOREM SqliteCurrentIsNewestCommit == Spec => []CurrentIsNewestCommit
  <1>1. ASSUME TypeOK, RowsPaired PROVE CurrentIsNewestCommit
    <2>1. Len(running) \in Nat /\ Len(history) = Len(running)
          /\ DOMAIN running = 1 .. Len(running)
      BY <1>1 DEF TypeOK, RowsPaired
    <2>2. \A i, j \in 1 .. Len(running) : running[i].current /\ running[j].current => i = j
      BY <1>1 DEF RowsPaired
    <2>3. CASE history = << >>
      <3>1. ~ \E i \in DOMAIN running : running[i].current
        BY <2>1, <2>3
      <3> QED BY <2>2, <2>3, <3>1 DEF CurrentIsNewestCommit, GetRunning
    <2>4. CASE history # << >>
      <3>1. Len(running) \in DOMAIN running
        BY <1>1, <2>1, <2>4, EmptySeq DEF TypeOK
      <3>2. \A i \in DOMAIN running : running[i].current <=> i = Len(running)
        BY <1>1, <2>1 DEF RowsPaired
      <3>3. (CHOOSE i \in DOMAIN running : running[i].current) = Len(running)
        BY <3>1, <3>2
      <3>4. running[Len(running)].text = history[Len(history)].text
        BY <1>1, <2>1, <3>1 DEF RowsPaired
      <3> QED BY <2>2, <2>4, <3>1, <3>2, <3>3, <3>4 DEF CurrentIsNewestCommit, GetRunning
    <2> QED BY <2>3, <2>4
  <1> QED BY <1>1, SqliteTypeCorrect, SqliteRowsPaired, PTL

-----------------------------------------------------------------------------

\* Why HistoryInTimeOrder is preserved: no instant lies in the future, and while
\* a session owns the candidate lock nobody has committed since its pending
\* commit or rollback read the clock (it could not have taken the lock later,
\* having a call in flight).
PendingCommitIsNewest ==
  /\ \A i \in 1 .. Len(history) : history[i].at <= clock
  /\ \A s \in Session :
       call[s] # None =>
         /\ call[s].at <= clock
         /\ call[s].op # "steal" /\ locks["candidate"] # None
              /\ locks["candidate"].session = s =>
              \A i \in 1 .. Len(history) : history[i].at <= call[s].at

TimeInv == TypeOK /\ HistoryInTimeOrder /\ PendingCommitIsNewest

\* A session with no pending call owes PendingCommitIsNewest nothing, so taking
\* the lock, or starting a call at the present instant, preserves it.
LEMMA NextPendingCommitIsNewest ==
  ASSUME TypeOK, PendingCommitIsNewest, [Next]_vars
  PROVE  PendingCommitIsNewest'
  <1> USE DEF PendingCommitIsNewest, TypeOK
  <1>1. ASSUME NEW s \in Session, NEW target \in Target, NEW d \in Timeouts,
               AcquireLock(s, target, d)
        PROVE  PendingCommitIsNewest'
    BY <1>1, TargetAssumption DEF AcquireLock, SetLock, Idle
  <1>2. ASSUME NEW s \in Session, NEW target \in Target, NEW d \in Timeouts,
               ExtendLock(s, target, d)
        PROVE  PendingCommitIsNewest'
    BY <1>2, TargetAssumption DEF ExtendLock, SetLock, Idle
  <1>3. ASSUME NEW s \in Session, NEW target \in Target, ReleaseLock(s, target)
        PROVE  PendingCommitIsNewest'
    BY <1>3, TargetAssumption DEF ReleaseLock, SetLock
  <1>4. ASSUME NEW s \in Session, NEW target \in Target, StealLockCall(s, target)
        PROVE  PendingCommitIsNewest'
    BY <1>4 DEF StealLockCall
  <1>5. ASSUME NEW s \in Session, StealLockTx(s)
        PROVE  PendingCommitIsNewest'
    BY <1>5, TargetAssumption DEF StealLockTx, SetLock
  <1>6. ASSUME NEW s \in Session, CandidateRequest(s)
        PROVE  PendingCommitIsNewest'
    BY <1>6 DEF CandidateRequest, SaveCandidate, DeleteCandidate
  <1>7. ASSUME NEW s \in Session, CommitCall(s)
        PROVE  PendingCommitIsNewest'
    BY <1>7 DEF CommitCall
  <1>8. ASSUME NEW s \in Session, NEW i \in 1 .. Len(history), RollbackCall(s, i)
        PROVE  PendingCommitIsNewest'
    BY <1>8 DEF RollbackCall
  <1>9. ASSUME NEW s \in Session, NEW x \in Text, Recording(s, x)
        PROVE  PendingCommitIsNewest'
    <2>1. Len(history) \in Nat /\ call[s].at <= clock /\ clock' = clock
      BY <1>9 DEF Recording
    <2>2. /\ Len(history') = Len(history) + 1
          /\ \A i \in 1 .. Len(history) : history'[i] = history[i]
          /\ history'[Len(history) + 1].at = call[s].at
      BY <1>9, RecordFacts
    <2>3. \A i \in 1 .. Len(history') : i \in 1 .. Len(history) \/ i = Len(history) + 1
      BY <2>1, <2>2
    <2>4. \A i \in 1 .. Len(history') : history'[i].at <= clock'
      <3>1. \A i \in 1 .. Len(history) : history'[i].at <= clock'
        BY <2>1, <2>2
      <3>2. history'[Len(history) + 1].at <= clock'
        BY <2>1, <2>2
      <3> QED BY <2>3, <3>1, <3>2
    <2>5. locks'["candidate"] = None
      BY <1>9, TargetAssumption DEF Recording, Record, SetLock
    <2>6. \A r \in Session : call'[r] # None => call'[r].at <= clock'
      BY <1>9 DEF Recording
    <2> QED BY <2>4, <2>5, <2>6
  <1>10. ASSUME NEW s \in Session, FailTx(s)
         PROVE  PendingCommitIsNewest'
    BY <1>10 DEF FailTx
  <1>11. CASE performLockCleanup
    BY <1>11, TargetAssumption DEF performLockCleanup
  <1>12. CASE CleanupEphemeralState
    BY <1>12, TargetAssumption DEF CleanupEphemeralState
  <1>13. CASE Tick
    <2>1. \A i \in 1 .. Len(history) : history[i].at \in Nat
      <3>1. \A i \in 1 .. Len(history) : history[i] \in Commits
        OBVIOUS
      <3> QED BY <3>1 DEF Commits
    <2>2. \A r \in Session : call[r] # None => call[r].at \in Nat
      BY CallFacts
    <2> QED BY <1>13, <2>1, <2>2 DEF Tick
  <1>14. CASE UNCHANGED vars
    BY <1>14 DEF vars
  <1>15. ASSUME NEW s \in Session, CommitTx(s) \/ RollbackTx(s)
         PROVE  PendingCommitIsNewest'
    <2>1. \E x \in Text : Recording(s, x)
      BY <1>15, TxRecords
    <2> QED BY <1>9, <2>1
  <1> QED
    BY <1>1, <1>2, <1>3, <1>4, <1>5, <1>6, <1>7, <1>8, <1>10, <1>11, <1>12,
       <1>13, <1>14, <1>15 DEF Next, LockRequest, Transaction

\* The instant a recording transaction appends is no older than any before it.
LEMMA NextHistoryInTimeOrder ==
  ASSUME TimeInv, [Next]_vars
  PROVE  HistoryInTimeOrder'
  <1> USE DEF TimeInv
  <1>1. CASE UNCHANGED <<running, history>>
    BY <1>1 DEF HistoryInTimeOrder
  <1>2. ASSUME NEW s \in Session, NEW x \in Text, Recording(s, x)
        PROVE  HistoryInTimeOrder'
    <2>1. Len(history) \in Nat
      BY DEF TypeOK
    <2>2. call[s] # None
      BY <1>2 DEF Recording
    <2>3. \A i \in 1 .. Len(history) : history[i].at <= call[s].at
      BY <1>2, <2>2 DEF Recording, HoldsAt, PendingCommitIsNewest
    <2>4. Len(history') = Len(history) + 1
      BY <1>2, RecordFacts
    <2>5. \A i \in 1 .. Len(history) : history'[i] = history[i]
      BY <1>2, RecordFacts
    <2>6. history'[Len(history) + 1].at = call[s].at
      BY <1>2, RecordFacts
    <2>7. ASSUME NEW i \in 1 .. Len(history'), NEW j \in 1 .. Len(history'), i < j
          PROVE  history'[i].at <= history'[j].at
      <3>1. i \in 1 .. Len(history)
        BY <2>1, <2>4, <2>7
      <3>2. CASE j \in 1 .. Len(history)
        BY <2>5, <2>7, <3>1, <3>2 DEF HistoryInTimeOrder
      <3>3. CASE j = Len(history) + 1
        BY <2>3, <2>5, <2>6, <3>1, <3>3
      <3> QED BY <2>1, <2>4, <3>2, <3>3
    <2> QED BY <2>7 DEF HistoryInTimeOrder
  <1> QED BY <1>1, <1>2, StepRecordsOrNot

\* Commit instants never run backwards along the history (HistoryInTimeOrder),
\* although Commit and Rollback read the clock before they own the database.
THEOREM SqliteHistoryInTimeOrder == Spec => []HistoryInTimeOrder
  <1>1. Init => TimeInv
    BY InitTypeOK DEF Init, TimeInv, HistoryInTimeOrder, PendingCommitIsNewest
  <1>2. TimeInv /\ [Next]_vars => TimeInv'
    BY NextTypeOK, NextPendingCommitIsNewest, NextHistoryInTimeOrder DEF TimeInv
  <1>3. TimeInv => HistoryInTimeOrder
    BY DEF TimeInv
  <1> QED BY <1>1, <1>2, <1>3, PTL DEF Spec

-----------------------------------------------------------------------------

\* Only the owner of the candidate lock appends to the history, and the lock goes
\* with it (RunningChangesUnderLock).
THEOREM SqliteRunningChangesUnderLock == Spec => RunningChangesUnderLock
  <1> DEFINE Kept ==
        history' # history =>
          /\ locks["candidate"] # None
          /\ LET s == locks["candidate"].session IN call[s] # None /\ call'[s] = None
          /\ locks'["candidate"] = None
          /\ SubSeq(history', 1, Len(history)) = history
          /\ Len(history') = Len(history) + 1
  <1>1. ASSUME TypeOK, [Next]_vars PROVE Kept
    <2>1. CASE UNCHANGED <<running, history>>
      BY <2>1
    <2>2. ASSUME NEW s \in Session, NEW x \in Text, Recording(s, x)
          PROVE  Kept
      <3>1. /\ locks["candidate"] # None
            /\ locks["candidate"].session = s
            /\ call[s] # None
            /\ call'[s] = None
        BY <2>2, <1>1 DEF Recording, HoldsAt, TypeOK
      <3>2. locks'["candidate"] = None
        BY <2>2, <1>1, TargetAssumption DEF Recording, Record, SetLock, TypeOK
      <3>3. /\ Len(history') = Len(history) + 1
            /\ \A i \in 1 .. Len(history) : history'[i] = history[i]
        BY <1>1, <2>2, RecordFacts
      <3>4. history \in Seq(Commits) /\ history' \in Seq(Commits)
        BY <1>1, NextTypeOK DEF TypeOK
      <3>5. SubSeq(history', 1, Len(history)) = history
        BY <3>3, <3>4
      <3> QED BY <3>1, <3>2, <3>3, <3>5
    <2> QED BY <1>1, <2>1, <2>2, StepRecordsOrNot
  <1>2. TypeOK /\ [Next]_vars => [Kept]_vars
    BY <1>1
  <1> QED BY <1>2, SqliteTypeCorrect, PTL DEF Spec, RunningChangesUnderLock

-----------------------------------------------------------------------------

\* GetLockInfo and the transactions agree on who holds a lock
\* (ReportedHolderHolds), for any instant and any expiry second.
THEOREM SqliteReportedHolderHolds == Spec => []ReportedHolderHolds
  <1>1. ASSUME TypeOK PROVE ReportedHolderHolds
    <2> SUFFICES ASSUME NEW target \in Target, NEW s \in Session, GetLockInfo(target) = s
                 PROVE  HoldsAt(s, target, clock)
      BY DEF ReportedHolderHolds
    <2>1. /\ locks[target] # None
          /\ ~(clock > 2 * locks[target].expires)
          /\ locks[target].session = s
      BY NoneAssumption DEF GetLockInfo
    <2>2. locks[target].expires \in Nat /\ clock \in Nat
      BY <1>1, <2>1 DEF TypeOK, LockRow
    <2>3. ~ExpiredAt(locks[target], clock)
      BY <2>1, <2>2 DEF ExpiredAt, Unix
    <2> QED BY <2>1, <2>3 DEF HoldsAt
  <1> QED BY <1>1, SqliteTypeCorrect, PTL

\* No request of another session and no cleanup takes an unexpired lock away
\* (LiveLockKept); only its owner, a steal or a restart does.
THEOREM SqliteLiveLockKept == Spec => LiveLockKept
  <1> DEFINE Same(target) ==
               locks'[target] # None /\ locks'[target].session = locks[target].session
             Kept(target) ==
               locks[target] # None /\ ~ExpiredAt(locks[target], clock) =>
                 \/ Same(target)
                 \/ ReleaseLock(locks[target].session, target)
                 \/ CommitTx(locks[target].session)
                 \/ RollbackTx(locks[target].session)
                 \/ Stolen(target)
                 \/ CleanupEphemeralState
  <1>1. ASSUME TypeOK, [Next]_vars, NEW target \in Target,
               locks[target] # None, ~ExpiredAt(locks[target], clock)
        PROVE  Kept(target)
    <2> USE <1>1 DEF TypeOK
    <2>1. ASSUME locks'[target] = locks[target] PROVE Kept(target)
      BY <2>1
    <2>2. ASSUME NEW s \in Session, NEW t \in Target, NEW d \in Timeouts,
                 AcquireLock(s, t, d) \/ ExtendLock(s, t, d)
          PROVE  Kept(target)
      <3>1. CASE t # target
        BY <2>1, <2>2, <3>1 DEF AcquireLock, ExtendLock, SetLock
      <3>2. CASE t = target
        <4>1. locks[target].session = s
          BY <2>2, <3>2 DEF AcquireLock, ExtendLock, HoldsAt
        <4>2. locks'[target] = [session |-> s, expires |-> Unix(clock) + d]
          BY <2>2, <3>2 DEF AcquireLock, ExtendLock, SetLock
        <4>3. locks'[target] \in LockRow
          <5>1. Unix(clock) \in Nat /\ d \in Nat
            BY UnixNat, TimeAssumption
          <5> QED BY <4>2, <5>1 DEF LockRow
        <4> QED BY <4>1, <4>2, <4>3, NoneAssumption DEF LockRow
      <3> QED BY <3>1, <3>2
    <2>3. ASSUME NEW s \in Session, NEW t \in Target, ReleaseLock(s, t)
          PROVE  Kept(target)
      BY <2>1, <2>3 DEF ReleaseLock, SetLock
    <2>4. ASSUME NEW s \in Session, StealLockTx(s)
          PROVE  Kept(target)
      BY <2>1, <2>4 DEF StealLockTx, SetLock, Stolen, Idle
    <2>5. ASSUME NEW s \in Session, CommitTx(s) \/ RollbackTx(s)
          PROVE  Kept(target)
      <3>1. CASE target # "candidate"
        BY <2>1, <2>5, <3>1 DEF CommitTx, RollbackTx, Record, SetLock
      <3>2. CASE target = "candidate"
        BY <2>5, <3>2 DEF CommitTx, RollbackTx, HoldsAt
      <3> QED BY <3>1, <3>2
    <2>6. CASE performLockCleanup
      BY <2>1, <2>6 DEF performLockCleanup
    <2>7. CASE CleanupEphemeralState
      BY <2>7
    <2>8. ASSUME NEW s \in Session,
                 CandidateRequest(s) \/ CommitCall(s) \/ FailTx(s)
                   \/ (\E i \in 1 .. Len(history) : RollbackCall(s, i))
                   \/ (\E t \in Target : StealLockCall(s, t))
          PROVE  Kept(target)
      <3>1. locks' = locks
        BY <2>8 DEF CandidateRequest, SaveCandidate, DeleteCandidate, CommitCall,
                    FailTx, RollbackCall, StealLockCall
      <3> QED BY <2>1, <3>1
    <2>9. CASE Tick \/ UNCHANGED vars
      BY <2>1, <2>9 DEF Tick, vars
    <2> HIDE DEF Kept, TypeOK
    <2> QED
      BY <2>2, <2>3, <2>4, <2>5, <2>6, <2>7, <2>8, <2>9 DEF Next, LockRequest, Transaction
  <1>2. TypeOK /\ [Next]_vars => [\A target \in Target : Kept(target)]_vars
    BY <1>1
  <1> QED BY <1>2, SqliteTypeCorrect, PTL DEF Spec, LiveLockKept

-----------------------------------------------------------------------------

\* A recording transaction appends its text to the abstract log.
LEMMA RecordAppends ==
  ASSUME TypeOK, NEW s \in Session, NEW x \in Text, Recording(s, x)
  PROVE  CommittedTexts' = Append(CommittedTexts, x)
  <1>1. Len(history) \in Nat
    BY DEF TypeOK
  <1>2. /\ Len(history') = Len(history) + 1
        /\ \A i \in 1 .. Len(history) : history'[i] = history[i]
        /\ history'[Len(history) + 1].text = x
    BY RecordFacts
  <1>3. \A i \in 1 .. Len(history) : history[i] \in Commits
    BY DEF TypeOK
  <1>4. CommittedTexts \in [1 .. Len(history) -> Text]
    BY <1>3 DEF CommittedTexts, Commits
  <1>5. CommittedTexts \in Seq(Text) /\ Len(CommittedTexts) = Len(history)
    BY <1>1, <1>4
  <1>6. CommittedTexts' \in [1 .. Len(history) + 1 -> Text]
    BY <1>1, <1>2, <1>3 DEF CommittedTexts, Commits
  <1>7. CommittedTexts' \in Seq(Text) /\ Len(CommittedTexts') = Len(history) + 1
    BY <1>1, <1>6
  <1>8. \A i \in 1 .. Len(history) : CommittedTexts'[i] = CommittedTexts[i]
    BY <1>1, <1>2 DEF CommittedTexts
  <1>9. CommittedTexts'[Len(history) + 1] = x
    BY <1>1, <1>2 DEF CommittedTexts
  <1>10. /\ Append(CommittedTexts, x) \in Seq(Text)
         /\ Len(Append(CommittedTexts, x)) = Len(history) + 1
         /\ \A i \in 1 .. Len(history) : Append(CommittedTexts, x)[i] = CommittedTexts[i]
         /\ Append(CommittedTexts, x)[Len(history) + 1] = x
    BY <1>5, AppendProperties
  <1>11. \A i \in 1 .. Len(history) + 1 : CommittedTexts'[i] = Append(CommittedTexts, x)[i]
    BY <1>1, <1>8, <1>9, <1>10
  <1> QED BY <1>7, <1>10, <1>11, SeqEqual

\* The text a pending rollback read is still in the log: commits are never
\* removed.
PendingTextLogged ==
  \A s \in Session :
    call[s] # None /\ call[s].op = "rollback" =>
      \E i \in 1 .. Len(history) : history[i].text = call[s].text

LEMMA NextPendingTextLogged ==
  ASSUME TypeOK, PendingTextLogged, [Next]_vars
  PROVE  PendingTextLogged'
  <1> USE DEF PendingTextLogged, TypeOK
  <1>1. ASSUME NEW s \in Session, NEW x \in Text, Recording(s, x)
        PROVE  PendingTextLogged'
    <2>1. /\ Len(history') = Len(history) + 1
          /\ \A i \in 1 .. Len(history) : history'[i] = history[i]
      BY <1>1, RecordFacts
    <2>2. 1 .. Len(history) \subseteq 1 .. Len(history')
      BY <2>1
    <2>3. call' = [call EXCEPT ![s] = None]
      BY <1>1 DEF Recording
    <2> QED BY <2>1, <2>2, <2>3
  <1>2. ASSUME NEW s \in Session, NEW i \in 1 .. Len(history), RollbackCall(s, i)
        PROVE  PendingTextLogged'
    BY <1>2 DEF RollbackCall
  <1>3. ASSUME UNCHANGED <<running, history>>,
               \A s \in Session :
                 call'[s] = call[s] \/ call'[s] = None \/ call'[s].op # "rollback"
        PROVE  PendingTextLogged'
    BY <1>3
  <1>4. ASSUME UNCHANGED <<running, history>>,
               ~ \E s \in Session, i \in 1 .. Len(history) : RollbackCall(s, i),
               ~ \E s \in Session : CommitTx(s) \/ RollbackTx(s)
        PROVE  PendingTextLogged'
    <2>1. \A s \in Session :
            call'[s] = call[s] \/ call'[s] = None \/ call'[s].op # "rollback"
      <3>1. ASSUME NEW s \in Session, LockRequest(s) \/ CandidateRequest(s) \/ CommitCall(s)
            PROVE  \A r \in Session :
                     call'[r] = call[r] \/ call'[r] = None \/ call'[r].op # "rollback"
        <4>1. CASE CommitCall(s)
          BY <4>1 DEF CommitCall
        <4>2. CASE CandidateRequest(s)
          BY <4>2 DEF CandidateRequest, SaveCandidate, DeleteCandidate
        <4>3. ASSUME NEW target \in Target, StealLockCall(s, target)
              PROVE  \A r \in Session : call'[r] = call[r] \/ call'[r].op # "rollback"
          BY <4>3 DEF StealLockCall
        <4>4. ASSUME NEW target \in Target,
                     \/ \E d \in Timeouts : AcquireLock(s, target, d) \/ ExtendLock(s, target, d)
                     \/ ReleaseLock(s, target)
              PROVE  call' = call
          BY <4>4 DEF AcquireLock, ExtendLock, ReleaseLock
        <4> QED BY <3>1, <4>1, <4>2, <4>3, <4>4 DEF LockRequest
      <3>2. ASSUME NEW s \in Session, StealLockTx(s) \/ FailTx(s)
            PROVE  \A r \in Session : call'[r] = call[r] \/ call'[r] = None
        BY <3>2 DEF StealLockTx, FailTx
      <3>3. ASSUME performLockCleanup \/ CleanupEphemeralState \/ Tick \/ UNCHANGED vars
            PROVE  \A r \in Session : call'[r] = call[r] \/ call'[r] = None
        BY <3>3 DEF performLockCleanup, CleanupEphemeralState, Tick, vars
      <3> QED BY <1>4, <3>1, <3>2, <3>3 DEF Next, Transaction
    <2> QED BY <1>3, <1>4, <2>1
  <1>5. ASSUME NEW s \in Session, CommitTx(s) \/ RollbackTx(s)
        PROVE  PendingTextLogged'
    BY <1>1, <1>5, TxRecords
  <1> QED BY <1>1, <1>2, <1>4, <1>5, StepRecordsOrNot

\* What each step of the backend is to its callers: a step of the abstract
\* datastore, or nothing.
LEMMA StepImplements ==
  ASSUME TypeOK, PendingTextLogged, [Next]_vars
  PROVE  [Abstract!Next]_(Abstract!vars)
  <1> USE DEF TypeOK
  <1> DEFINE Goal == Abstract!Next \/ UNCHANGED <<LockHolder, candidates, CommittedTexts>>
  <1> SUFFICES Goal
    BY DEF Abstract!vars
  <1>1. history' = history => CommittedTexts' = CommittedTexts
    BY DEF CommittedTexts
  <1>2. locks'["candidate"] = locks["candidate"] => LockHolder' = LockHolder
    BY DEF LockHolder
  <1>3. locks'["candidate"] = None => LockHolder' = None
    BY DEF LockHolder
  <1>4. ASSUME NEW s \in Session, NEW target \in Target, NEW e \in Nat,
               UNCHANGED <<candidates, history>>,
               SetLock(target, [session |-> s, expires |-> e])
        PROVE  Goal
    <2>1. CASE target = "candidate"
      <3>1. locks'["candidate"] = [session |-> s, expires |-> e]
        BY <1>4, <2>1 DEF SetLock
      <3>2. locks'["candidate"].session = s
        BY <3>1
      <3>3. LockHolder' = s \/ LockHolder' = None
        BY <3>2 DEF LockHolder
      <3>4. Abstract!Take(s) \/ Abstract!Drop
        BY <1>1, <1>4, <3>3 DEF Abstract!Take, Abstract!Drop
      <3> QED BY <3>4 DEF Abstract!Next
    <2>2. CASE target # "candidate"
      BY <1>1, <1>2, <1>4, <2>2, TargetAssumption DEF SetLock
    <2> QED BY <2>1, <2>2
  <1>5. ASSUME UNCHANGED <<candidates, history>>,
               locks'["candidate"] \in {None, locks["candidate"]}
        PROVE  Goal
    BY <1>1, <1>2, <1>3, <1>5 DEF Abstract!Drop, Abstract!Next
  <1>6. ASSUME NEW s \in Session, NEW target \in Target, NEW d \in Timeouts,
               AcquireLock(s, target, d) \/ ExtendLock(s, target, d)
        PROVE  Goal
    <2>1. Unix(clock) \in Nat /\ d \in Nat
      BY UnixNat, TimeAssumption
    <2>2. Unix(clock) + d \in Nat
      BY <2>1
    <2> QED BY <1>4, <1>6, <2>2 DEF AcquireLock, ExtendLock
  <1>7. ASSUME NEW s \in Session, NEW target \in Target, ReleaseLock(s, target)
        PROVE  Goal
    BY <1>5, <1>7, TargetAssumption DEF ReleaseLock, SetLock
  <1>8. ASSUME NEW s \in Session, StealLockTx(s)
        PROVE  Goal
    <2>1. call[s] \in Call
      BY <1>8 DEF StealLockTx, Idle
    <2>2. call[s].target \in Target /\ Unix(call[s].at) \in Nat
      BY <1>8, <2>1, CallFacts, UnixNat DEF StealLockTx
    <2>3. Unix(call[s].at) + StealTimeout \in Nat
      BY <2>2, TimeAssumption
    <2> QED BY <1>4, <1>8, <2>2, <2>3 DEF StealLockTx
  <1>9. ASSUME NEW s \in Session, CandidateRequest(s)
        PROVE  Goal
    <2>1. Abstract!Edit(s)
      BY <1>1, <1>2, <1>9
         DEF CandidateRequest, SaveCandidate, DeleteCandidate, Abstract!Edit
    <2> QED BY <2>1 DEF Abstract!Next
  <1>10. ASSUME NEW s \in Session, CommitTx(s)
         PROVE  Goal
    <2>1. /\ Recording(s, candidates[s])
          /\ candidates[s] \in Text
          /\ candidates[s] # None
          /\ candidates' = [candidates EXCEPT ![s] = None]
      BY <1>10 DEF CommitTx, Recording, Idle
    <2>2. CommittedTexts' = Append(CommittedTexts, candidates[s])
      BY <2>1, RecordAppends
    <2>3. LockHolder = s /\ LockHolder' = None
      BY <2>1, <1>3, TargetAssumption DEF Recording, HoldsAt, Record, SetLock, LockHolder
    <2>4. Abstract!Promote(s)
      BY <2>1, <2>2, <2>3 DEF Abstract!Promote
    <2> QED BY <2>4 DEF Abstract!Next
  <1>11. ASSUME NEW s \in Session, RollbackTx(s)
         PROVE  Goal
    <2>1. call[s] \in Call /\ call[s] # None /\ call[s].op = "rollback"
      BY <1>11 DEF RollbackTx, Idle
    <2>2. call[s].text \in Text
      BY <2>1, CallFacts
    <2>3. Recording(s, call[s].text) /\ candidates' = candidates
      BY <1>11, <2>1 DEF RollbackTx, Recording
    <2>4. PICK i \in 1 .. Len(history) : history[i].text = call[s].text
      BY <2>1 DEF PendingTextLogged
    <2>5. i \in 1 .. Len(CommittedTexts) /\ CommittedTexts[i] = call[s].text
      BY <2>4 DEF CommittedTexts
    <2>6. CommittedTexts' = Append(CommittedTexts, CommittedTexts[i])
      BY <2>2, <2>3, <2>5, RecordAppends
    <2>7. LockHolder = s /\ LockHolder' = None
      BY <2>3, <1>3, TargetAssumption DEF Recording, HoldsAt, Record, SetLock, LockHolder
    <2>8. Abstract!Restore(s)
      BY <2>3, <2>5, <2>6, <2>7 DEF Abstract!Restore
    <2> QED BY <2>8 DEF Abstract!Next
  <1>12. CASE performLockCleanup
    BY <1>5, <1>12, TargetAssumption DEF performLockCleanup
  <1>13. CASE CleanupEphemeralState
    <2>1. Abstract!Forget
      BY <1>1, <1>3, <1>13, TargetAssumption DEF CleanupEphemeralState, Abstract!Forget
    <2> QED BY <2>1 DEF Abstract!Next
  <1>14. ASSUME UNCHANGED <<locks, candidates, history>> PROVE Goal
    BY <1>5, <1>14
  <1>15. ASSUME NEW s \in Session,
                FailTx(s) \/ CommitCall(s)
                  \/ (\E i \in 1 .. Len(history) : RollbackCall(s, i))
                  \/ (\E target \in Target : StealLockCall(s, target))
         PROVE  Goal
    BY <1>14, <1>15 DEF FailTx, CommitCall, RollbackCall, StealLockCall
  <1>16. CASE Tick \/ UNCHANGED vars
    BY <1>14, <1>16 DEF Tick, vars
  <1> QED
    BY <1>6, <1>7, <1>8, <1>9, <1>10, <1>11, <1>12, <1>13, <1>15, <1>16
       DEF Next, LockRequest, Transaction

\* The SQLite backend implements the abstract datastore (ImplementsDatastore).
THEOREM SqliteImplementsDatastore == Spec => ImplementsDatastore
  <1>1. Init => Abstract!Init
    <2> SUFFICES ASSUME Init PROVE Abstract!Init
      OBVIOUS
    <2>1. LockHolder = None
      BY TargetAssumption DEF Init, LockHolder
    <2>2. Len(history) = 0
      BY DEF Init
    <2>3. CommittedTexts = << >>
      BY <2>2 DEF CommittedTexts
    <2> QED BY <2>1, <2>3 DEF Init, Abstract!Init
  <1>2. Init => PendingTextLogged
    BY DEF Init, PendingTextLogged
  <1>3. TypeOK /\ PendingTextLogged /\ [Next]_vars => PendingTextLogged'
    BY NextPendingTextLogged
  <1>4. TypeOK /\ PendingTextLogged /\ [Next]_vars => [Abstract!Next]_(Abstract!vars)
    BY StepImplements
  <1> QED
    BY <1>1, <1>2, <1>3, <1>4, SqliteTypeCorrect, PTL DEF Spec, ImplementsDatastore, Abstract!Spec

=============================================================================
