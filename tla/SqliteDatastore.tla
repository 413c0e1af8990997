--------------------------- MODULE SqliteDatastore ---------------------------
(***************************************************************************)
(* The SQLite backend of the configuration datastore (pkg/datastore/       *)
(* sqlite*.go).  Every write is one IMMEDIATE transaction (withTx), hence  *)
(* one step.  Commit, Rollback and StealLock read the wall clock, and      *)
(* Rollback its target commit, BEFORE the transaction begins and may wait  *)
(* for SQLite's write lock in between: each is a call step followed by a   *)
(* transaction step, and other sessions run between the two.               *)
(*                                                                         *)
(* A failing request changes nothing, so only the calls that had read      *)
(* something beforehand have a step for their failure.                     *)
(***************************************************************************)
EXTENDS Naturals, Sequences

CONSTANTS
  Session,       \* session identifiers (NETCONF sessions, engine-<uuid>)
  Text,          \* configuration texts
  Target,        \* what can be locked: LockTargetCandidate, LockTargetRunning
  None,          \* no row
  Timeouts,      \* lock lifetimes asked for, in seconds
  StealTimeout,  \* lifetime of a stolen lock, in seconds
  MaxClock,      \* bound: half seconds the clock may advance
  MaxCommits     \* bound: commits a session may start from

ASSUME NoneAssumption ==
  None \notin Session /\ None \notin Text /\ None \notin [session : Session, expires : Nat]
ASSUME TargetAssumption == "candidate" \in Target
ASSUME TimeAssumption ==
  Timeouts \subseteq Nat /\ StealTimeout \in Nat /\ MaxClock \in Nat /\ MaxCommits \in Nat

VARIABLES
  clock,       \* wall clock, in half seconds
  locks,       \* config_locks: the row of each target, or None
  candidates,  \* candidate_configs: the text of each session, or None
  running,     \* running_config rows in insertion order
  history,     \* commit_history rows in insertion order
  call         \* call[s]: what session s read before its transaction, or None

vars == <<clock, locks, candidates, running, history, call>>

LockRow == [session : Session, expires : Nat]
RunningRow == [text : Text, current : BOOLEAN]
Commits == [text : Text, at : Nat]
Call == [op : {"commit"}, at : Nat]
        \cup [op : {"rollback"}, at : Nat, text : Text]
        \cup [op : {"steal"}, at : Nat, target : Target]

\* time.Time.Unix(): whole seconds of an instant in half seconds.
Unix(t) == t \div 2

\* Mutant of ExpiredAt: a lock is taken to expire a second early.
ExpiredAtBoundary(row, t) == Unix(t) >= row.expires

\* The expiry test of AcquireLock, ReleaseLock, ExtendLock, Commit, Rollback
\* and the cleanup query, made with the instant t.
ExpiredAt(row, t) == Unix(t) > row.expires

\* Does s own an unexpired row for target, as seen with the instant t?
HoldsAt(s, target, t) ==
  /\ locks[target] # None
  /\ ~ExpiredAt(locks[target], t)
  /\ locks[target].session = s

\* The session GetLockInfo reports: it compares full-resolution instants.
GetLockInfo(target) ==
  IF locks[target] = None \/ clock > 2 * locks[target].expires
    THEN None
    ELSE locks[target].session

\* The text GetRunning returns: the row whose is_current is set.
GetRunning ==
  IF \E i \in DOMAIN running : running[i].current
    THEN running[CHOOSE i \in DOMAIN running : running[i].current].text
    ELSE None

Idle(s) == call[s] = None

-----------------------------------------------------------------------------

Init ==
  /\ clock = 0
  /\ locks = [t \in Target |-> None]
  /\ candidates = [s \in Session |-> None]
  /\ running = << >>
  /\ history = << >>
  /\ call = [s \in Session |-> None]

SetLock(target, row) == locks' = [locks EXCEPT ![target] = row]

\* Mutant of AcquireLock: a lock is up for taking in its last second.
AcquireLockEarly(s, target, timeout) ==
  /\ Idle(s)
  /\ locks[target] # None =>
       Unix(clock) >= locks[target].expires \/ locks[target].session = s
  /\ SetLock(target, [session |-> s, expires |-> Unix(clock) + timeout])
  /\ UNCHANGED <<clock, candidates, running, history, call>>

AcquireLock(s, target, timeout) ==
  /\ Idle(s)
  /\ locks[target] # None =>
       ExpiredAt(locks[target], clock) \/ locks[target].session = s
  /\ SetLock(target, [session |-> s, expires |-> Unix(clock) + timeout])
  /\ UNCHANGED <<clock, candidates, running, history, call>>

\* An expired row is removed for whoever asks.  Closing a session releases its
\* locks from another goroutine, so a call of s may be in flight.
ReleaseLock(s, target) ==
  /\ locks[target] # None
  /\ ExpiredAt(locks[target], clock) \/ locks[target].session = s
  /\ SetLock(target, None)
  /\ UNCHANGED <<clock, candidates, running, history, call>>

ExtendLock(s, target, duration) ==
  /\ Idle(s)
  /\ HoldsAt(s, target, clock)
  /\ SetLock(target, [session |-> s, expires |-> Unix(clock) + duration])
  /\ UNCHANGED <<clock, candidates, running, history, call>>

StealLockCall(s, target) ==
  /\ Idle(s)
  /\ call' = [call EXCEPT ![s] = [op |-> "steal", at |-> clock, target |-> target]]
  /\ UNCHANGED <<clock, locks, candidates, running, history>>

\* INSERT OR REPLACE: whatever row is there goes.
StealLockTx(s) ==
  /\ ~Idle(s)
  /\ call[s].op = "steal"
  /\ SetLock(call[s].target,
             [session |-> s, expires |-> Unix(call[s].at) + StealTimeout])
  /\ call' = [call EXCEPT ![s] = None]
  /\ UNCHANGED <<clock, candidates, running, history>>

SaveCandidate(s, x) ==
  /\ Idle(s)
  /\ candidates' = [candidates EXCEPT ![s] = x]
  /\ UNCHANGED <<clock, locks, running, history, call>>

DeleteCandidate(s) ==
  /\ Idle(s)
  /\ candidates' = [candidates EXCEPT ![s] = None]
  /\ UNCHANGED <<clock, locks, running, history, call>>

CommitCall(s) ==
  /\ Idle(s)
  /\ Len(history) < MaxCommits
  /\ call' = [call EXCEPT ![s] = [op |-> "commit", at |-> clock]]
  /\ UNCHANGED <<clock, locks, candidates, running, history>>

RollbackCall(s, i) ==
  /\ Idle(s)
  /\ Len(history) < MaxCommits
  /\ call' = [call EXCEPT
                ![s] = [op |-> "rollback", at |-> clock, text |-> history[i].text]]
  /\ UNCHANGED <<clock, locks, candidates, running, history>>

\* UPDATE running_config SET is_current = 0 WHERE is_current = 1
Retired == [i \in 1 .. Len(running) |-> [running[i] EXCEPT !.current = FALSE]]

\* Mutants of Record: the old row stays current; the lock stays taken.
RecordKeepsCurrent(s, x) ==
  /\ running' = Append(running, [text |-> x, current |-> TRUE])
  /\ history' = Append(history, [text |-> x, at |-> call[s].at])
  /\ SetLock("candidate", None)

RecordKeepsLock(s, x) ==
  /\ running' = Append(Retired, [text |-> x, current |-> TRUE])
  /\ history' = Append(history, [text |-> x, at |-> call[s].at])
  /\ UNCHANGED locks

\* The statements Commit and Rollback share: a new current running row, a
\* commit_history row stamped with the instant read before the transaction,
\* and the candidate lock released.
Record(s, x) ==
  /\ running' = Append(Retired, [text |-> x, current |-> TRUE])
  /\ history' = Append(history, [text |-> x, at |-> call[s].at])
  /\ SetLock("candidate", None)

\* Mutants of CommitTx: a missing candidate is not noticed; ownership of the
\* lock is not checked again; the candidate is left behind.
CommitTxOfNothing(s) ==
  /\ ~Idle(s)
  /\ call[s].op = "commit"
  /\ HoldsAt(s, "candidate", call[s].at)
  /\ Record(s, candidates[s])
  /\ candidates' = [candidates EXCEPT ![s] = None]
  /\ call' = [call EXCEPT ![s] = None]
  /\ UNCHANGED clock

CommitTxWithoutLock(s) ==
  /\ ~Idle(s)
  /\ call[s].op = "commit"
  /\ candidates[s] # None
  /\ Record(s, candidates[s])
  /\ candidates' = [candidates EXCEPT ![s] = None]
  /\ call' = [call EXCEPT ![s] = None]
  /\ UNCHANGED clock

CommitTxKeepsCandidate(s) ==
  /\ ~Idle(s)
  /\ call[s].op = "commit"
  /\ HoldsAt(s, "candidate", call[s].at)
  /\ candidates[s] # None
  /\ Record(s, candidates[s])
  /\ call' = [call EXCEPT ![s] = None]
  /\ UNCHANGED <<clock, candidates>>

CommitTx(s) ==
  /\ ~Idle(s)
  /\ call[s].op = "commit"
  /\ HoldsAt(s, "candidate", call[s].at)
  /\ candidates[s] # None
  /\ Record(s, candidates[s])
  /\ candidates' = [candidates EXCEPT ![s] = None]
  /\ call' = [call EXCEPT ![s] = None]
  /\ UNCHANGED clock

RollbackTx(s) ==
  /\ ~Idle(s)
  /\ call[s].op = "rollback"
  /\ HoldsAt(s, "candidate", call[s].at)
  /\ Record(s, call[s].text)
  /\ call' = [call EXCEPT ![s] = None]
  /\ UNCHANGED <<clock, candidates>>

\* The transaction finds no lock, an expired one, another owner or no
\* candidate, or a statement fails: it is undone as a whole.
FailTx(s) ==
  /\ ~Idle(s)
  /\ call' = [call EXCEPT ![s] = None]
  /\ UNCHANGED <<clock, locks, candidates, running, history>>

\* The five-minute ticker's query.
performLockCleanup ==
  /\ locks' = [t \in Target |->
                 IF locks[t] # None /\ ExpiredAt(locks[t], clock)
                   THEN None
                   ELSE locks[t]]
  /\ UNCHANGED <<clock, candidates, running, history, call>>

\* The daemon dies with whatever it had in flight and starts again; startup
\* removes locks and candidates before any session exists.
CleanupEphemeralState ==
  /\ locks' = [t \in Target |-> None]
  /\ candidates' = [s \in Session |-> None]
  /\ call' = [s \in Session |-> None]
  /\ UNCHANGED <<clock, running, history>>

Tick ==
  /\ clock < MaxClock
  /\ clock' = clock + 1
  /\ UNCHANGED <<locks, candidates, running, history, call>>

LockRequest(s) ==
  \E target \in Target :
    \/ \E d \in Timeouts : AcquireLock(s, target, d) \/ ExtendLock(s, target, d)
    \/ ReleaseLock(s, target)
    \/ StealLockCall(s, target)

CandidateRequest(s) ==
  \/ \E x \in Text : SaveCandidate(s, x)
  \/ DeleteCandidate(s)

Transaction(s) ==
  \/ StealLockTx(s)
  \/ CommitTx(s)
  \/ RollbackTx(s)
  \/ FailTx(s)

Next ==
  \/ \E s \in Session :
       \/ LockRequest(s)
       \/ CandidateRequest(s)
       \/ CommitCall(s)
       \/ \E i \in 1 .. Len(history) : RollbackCall(s, i)
       \/ Transaction(s)
  \/ performLockCleanup
  \/ CleanupEphemeralState
  \/ Tick

Spec == Init /\ [][Next]_vars

-----------------------------------------------------------------------------

TypeOK ==
  /\ clock \in Nat
  /\ locks \in [Target -> LockRow \cup {None}]
  /\ candidates \in [Session -> Text \cup {None}]
  /\ running \in Seq(RunningRow)
  /\ history \in Seq(Commits)
  /\ call \in [Session -> Call \cup {None}]

\* GetRunning returns the text of the newest commit, and no other row is
\* current: Commit and Rollback retire the old row and write the new one and
\* its commit_history row in one transaction.
CurrentIsNewestCommit ==
  /\ GetRunning = IF history = << >> THEN None ELSE history[Len(history)].text
  /\ \A i, j \in 1 .. Len(running) :
       running[i].current /\ running[j].current => i = j

\* The session GetLockInfo names owns the row by the test the transactions make,
\* although the two compare time at different resolutions: a session that
\* passes the NETCONF ownership check is not refused for an expired lock.
ReportedHolderHolds ==
  \A target \in Target, s \in Session :
    GetLockInfo(target) = s => HoldsAt(s, target, clock)

\* Commit instants never run backwards along the history although each is read
\* before its transaction waits for the database.  ListCommitHistory orders by
\* timestamp, and "the newest commit" and "rollback N" are read off that order.
HistoryInTimeOrder ==
  \A i, j \in 1 .. Len(history) : i < j => history[i].at <= history[j].at

\* A session that called StealLock gets the lock.
Stolen(target) ==
  \E s \in Session :
    /\ call[s] # None
    /\ call[s].op = "steal"
    /\ call[s].target = target
    /\ StealLockTx(s)

\* A lock that has not expired passes to another session only by theft, and is
\* given up only with the effect of its owner's release, commit or rollback, or
\* at startup: no AcquireLock, and no transaction of another session, ends it.
LiveLockKept ==
  [][\A target \in Target :
       locks[target] # None /\ ~ExpiredAt(locks[target], clock) =>
         \/ locks'[target] # None /\ locks'[target].session = locks[target].session
         \/ ReleaseLock(locks[target].session, target)
         \/ CommitTx(locks[target].session)
         \/ RollbackTx(locks[target].session)
         \/ Stolen(target)
         \/ CleanupEphemeralState]_vars

\* The running configuration changes only in a transaction of the session that
\* owns the candidate lock, and that transaction releases the lock; commits
\* are never rewritten or removed.
RunningChangesUnderLock ==
  [][history' # history =>
       /\ locks["candidate"] # None
       /\ LET s == locks["candidate"].session IN call[s] # None /\ call'[s] = None
       /\ locks'["candidate"] = None
       /\ SubSeq(history', 1, Len(history)) = history
       /\ Len(history') = Len(history) + 1]_vars

-----------------------------------------------------------------------------

\* What the backend shows its callers: the lock's owner, expired or not, the
\* candidates, and the texts of the history.
LockHolder == IF locks["candidate"] = None THEN None ELSE locks["candidate"].session
CommittedTexts == [i \in 1 .. Len(history) |-> history[i].text]

Abstract == INSTANCE ConfigDatastore WITH
  holder <- LockHolder, candidate <- candidates, log <- CommittedTexts

\* The SQLite backend implements the abstract datastore: a call that waits for
\* its transaction still promotes exactly the candidate stored at that moment,
\* and only while its session owns the lock.
ImplementsDatastore == Abstract!Spec

=============================================================================
