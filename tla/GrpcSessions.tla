---------------------------- MODULE GrpcSessions ----------------------------
(***************************************************************************)
(* Sessions of the gRPC server (SessionManager and the candidate part of   *)
(* Server in internal/northbound/grpc/server.go).  Calls run concurrently, *)
(* also calls for the same session.  A call first goes through the         *)
(* manager under m.mu, where it expires idle sessions, and then works on   *)
(* the session under session.mu with the pointer it was given.  The        *)
(* manager waits for session.mu while it holds m.mu; a commit holds        *)
(* session.mu until it is done, which may outlast the session's ttl.       *)
(*                                                                         *)
(* Candidate text is abstracted to the running version it is for (the one  *)
(* it was derived from, or that its client names, or, where the client     *)
(* names none, the one it replaces), to whether it is blank, and to        *)
(* whether a commit overtook it on its way into a session without a base.  *)
(* What a commit does is CommitCoordination.                               *)
(***************************************************************************)
EXTENDS Integers

CONSTANTS
  Session,    \* session identifiers, never reused
  Thread,     \* goroutines of calls in flight
  None,       \* nobody; not set
  TTL,        \* m.ttl
  MaxClock,   \* bound: clock ticks
  MaxVersion  \* bound: running versions

ASSUME GrpcAssumption ==
  /\ None \notin Session \cup Thread \cup Nat
  /\ TTL \in Nat /\ MaxClock \in Nat /\ MaxVersion \in Nat

VARIABLES
  clock,
  version,     \* the engine's running version
  sessions,    \* m.sessions
  lockHeld,    \* m.lockHeld
  lastActive,  \* LastActiveAt of each session
  hasLock,     \* HasLock
  base,        \* CandidateBaseVersion, None while CandidateBaseSet is false
  text,        \* CandidateText
  mMu,         \* holder of m.mu
  sMu,         \* holder of each session.mu
  call         \* the call of each thread

vars == <<clock, version, sessions, lockHeld, lastActive, hasLock, base, text, mMu, sMu, call>>
candidateVars == <<base, text>>
lockVars == <<lockHeld, hasLock>>

\* "locked" is the second half of Server.AcquireLock; the others are the
\* calls of the clients, "read" standing for those that change no state.
Op == {"create", "close", "lock", "release", "read", "edit", "replace", "discard",
       "commit", "rollback"}
Call == [at : {"idle", "manager", "expire", "session", "replace", "commit"},
         op : Op \cup {"locked", None}, session : Session \cup {None}, now : Nat, expected : Nat]
Idle == [at |-> "idle", op |-> None, session |-> None, now |-> 0, expected |-> 0]

Text == [for : Nat \cup {None}, blank : BOOLEAN, overtaken : BOOLEAN]

Init ==
  /\ clock = 1
  /\ version = 1
  /\ sessions = {}
  /\ lockHeld = None
  /\ lastActive = [s \in Session |-> 0]
  /\ hasLock = [s \in Session |-> FALSE]
  /\ base = [s \in Session |-> None]
  /\ text = [s \in Session |-> [for |-> None, blank |-> TRUE, overtaken |-> FALSE]]
  /\ mMu = None
  /\ sMu = [s \in Session |-> None]
  /\ call = [t \in Thread |-> Idle]

-----------------------------------------------------------------------------
(* The manager *)

\* A client calls, for a session it knows of, and the call gets m.mu.
Begin(t, op, s) ==
  /\ call[t].at = "idle"
  /\ mMu = None
  /\ IF op = "create"
       THEN s = None /\ \E x \in Session : lastActive[x] = 0
       ELSE s \in Session /\ lastActive[s] # 0
  /\ mMu' = t
  /\ call' = [call EXCEPT ![t] = [at |-> "expire", op |-> op, session |-> s, now |-> clock,
                              expected |-> 0]]
  /\ UNCHANGED <<clock, version, sessions, lastActive, sMu, lockVars, candidateVars>>

\* A call comes back to the manager.
EnterManager(t) ==
  /\ call[t].at = "manager"
  /\ mMu = None
  /\ mMu' = t
  /\ call' = [call EXCEPT ![t].at = "expire", ![t].now = clock]
  /\ UNCHANGED <<clock, version, sessions, lastActive, sMu, lockVars, candidateVars>>

Expired(s, now) == TTL > 0 /\ now > lastActive[s] + TTL

\* The lock, if s has it, goes to nobody.
Unlocked(s) ==
  /\ hasLock' = [hasLock EXCEPT ![s] = FALSE]
  /\ lockHeld' = IF hasLock[s] THEN None ELSE lockHeld

\* expireLocked, one session; it waits for the session's mutex.
Expire(t, s) ==
  /\ call[t].at = "expire"
  /\ s \in sessions
  /\ Expired(s, call[t].now)
  /\ sMu[s] = None
  /\ Unlocked(s)
  /\ sessions' = sessions \ {s}
  /\ UNCHANGED <<clock, version, lastActive, mMu, sMu, call, candidateVars>>

\* Thread t has expired what it had to.
Swept(t) ==
  /\ call[t].at = "expire"
  /\ \A s \in sessions : ~Expired(s, call[t].now)

\* The deferred m.mu.Unlock; the call goes on as next says.
LeaveManager(t, next) ==
  /\ mMu' = None
  /\ call' = [call EXCEPT ![t] = [next EXCEPT !.now = 0]]
  /\ UNCHANGED <<clock, version, sMu, candidateVars>>

Touch(s, now) == lastActive' = [lastActive EXCEPT ![s] = now]

\* uuid.New: a session nobody has seen (lastActive is 0 until it exists).
Create(t) ==
  /\ Swept(t)
  /\ call[t].op = "create"
  /\ \E s \in Session :
       /\ lastActive[s] = 0
       /\ sessions' = sessions \cup {s}
       /\ Touch(s, call[t].now)
  /\ LeaveManager(t, Idle)
  /\ UNCHANGED lockVars

\* Get, for the calls that go on to work on the session.
Get(t) ==
  /\ Swept(t)
  /\ call[t].op \in {"locked", "read", "edit", "replace", "discard", "commit", "rollback"}
  /\ call[t].session \in sessions
  /\ Touch(call[t].session, call[t].now)
  /\ LeaveManager(t, [call[t] EXCEPT !.at = "session"])
  /\ UNCHANGED <<sessions, lockVars>>

\* Mutant of Close: the session goes and keeps its lock.
CloseLocked(t) ==
  /\ Swept(t)
  /\ call[t].op = "close"
  /\ call[t].session \in sessions
  /\ sessions' = sessions \ {call[t].session}
  /\ LeaveManager(t, Idle)
  /\ UNCHANGED <<lastActive, lockVars>>

Close(t) ==
  LET s == call[t].session IN
  /\ Swept(t)
  /\ call[t].op = "close"
  /\ s \in sessions
  /\ sMu[s] = None
  /\ Unlocked(s)
  /\ sessions' = sessions \ {s}
  /\ LeaveManager(t, Idle)
  /\ UNCHANGED lastActive

AcquireLock(t) ==
  LET s == call[t].session IN
  /\ Swept(t)
  /\ call[t].op = "lock"
  /\ s \in sessions
  /\ lockHeld \in {None, s}
  /\ sMu[s] = None
  /\ hasLock' = [hasLock EXCEPT ![s] = TRUE]
  /\ lockHeld' = s
  /\ Touch(s, call[t].now)
  /\ LeaveManager(t, [call[t] EXCEPT !.at = "manager", !.op = "locked"])
  /\ UNCHANGED sessions

\* The candidate lock is held by another session.
LockConflict(t) ==
  /\ Swept(t)
  /\ call[t].op = "lock"
  /\ call[t].session \in sessions
  /\ lockHeld \notin {None, call[t].session}
  /\ LeaveManager(t, Idle)
  /\ UNCHANGED <<sessions, lastActive, lockVars>>

\* Mutant of ReleaseLock: it does not wait for session.mu.
ReleaseLockAnytime(t) ==
  LET s == call[t].session IN
  /\ Swept(t)
  /\ call[t].op = "release"
  /\ s \in sessions
  /\ Unlocked(s)
  /\ LeaveManager(t, Idle)
  /\ UNCHANGED <<sessions, lastActive>>

ReleaseLock(t) ==
  LET s == call[t].session IN
  /\ Swept(t)
  /\ call[t].op = "release"
  /\ s \in sessions
  /\ sMu[s] = None
  /\ IF hasLock[s] THEN Touch(s, call[t].now) ELSE UNCHANGED lastActive
  /\ Unlocked(s)
  /\ LeaveManager(t, Idle)
  /\ UNCHANGED sessions

\* Only Server.AcquireLock goes on, to release the lock it took.
SessionNotFound(t) ==
  /\ Swept(t)
  /\ call[t].op # "create"
  /\ call[t].session \notin sessions
  /\ LeaveManager(t, IF call[t].op = "locked"
                       THEN [call[t] EXCEPT !.at = "manager", !.op = "release"]
                       ELSE Idle)
  /\ UNCHANGED <<sessions, lastActive, lockVars>>

-----------------------------------------------------------------------------
(* The session *)

\* ensureCandidateBaseCurrentLocked
BaseCurrent(s) == base[s] \in {None, version}

\* The candidate is what runs as version v, which may be an empty configuration.
ResetTo(s, v) ==
  /\ base' = [base EXCEPT ![s] = v]
  /\ \E blank \in BOOLEAN :
       text' = [text EXCEPT ![s] = [for |-> v, blank |-> blank, overtaken |-> FALSE]]

\* resetSessionCandidateLocked
ResetCandidate(s) == ResetTo(s, version)

\* Thread t works on its session in one step: session.mu is free.
InSession(t, op) == call[t].at = "session" /\ call[t].op = op /\ sMu[call[t].session] = None

Return(t) ==
  /\ call' = [call EXCEPT ![t] = Idle]
  /\ UNCHANGED <<clock, version, sessions, lastActive, mMu, sMu, lockVars>>

\* A blank candidate starts from what runs; one with a stale base, or a
\* running configuration that cannot be written out, costs the session its
\* lock again.
AcquireLockReset(t) ==
  LET s == call[t].session IN
  /\ InSession(t, "locked")
  /\ \/ text[s].blank /\ ResetCandidate(s) /\ Return(t)
     \/ ~text[s].blank /\ BaseCurrent(s) /\ Return(t) /\ UNCHANGED candidateVars
     \/ /\ text[s].blank \/ ~BaseCurrent(s)
        /\ call' = [call EXCEPT ![t].at = "manager", ![t].op = "release"]
        /\ UNCHANGED <<clock, version, sessions, lastActive, mMu, sMu, lockVars, candidateVars>>

\* GetCandidate, ValidateCandidate, Diff.
ReadCandidate(t) ==
  /\ InSession(t, "read")
  /\ Return(t)
  /\ UNCHANGED candidateVars

\* EditCandidate changes the text it finds, which may leave it blank.
EditCandidate(t) ==
  LET s == call[t].session IN
  /\ InSession(t, "edit")
  /\ \/ /\ hasLock[s] /\ BaseCurrent(s)
        /\ \E blank \in BOOLEAN : text' = [text EXCEPT ![s].blank = blank]
     \/ UNCHANGED text
  /\ Return(t)
  /\ UNCHANGED base

\* Mutant of ensureExpectedRunningVersion: no version is refused.
AnyVersion(expected) == expected <= version

\* The version that a client wrote its text against must be the one that runs;
\* 0 stands for any.
ensureExpectedRunningVersion(expected) == expected \in {0, version}

\* Unless it refuses, the call keeps session.mu to the end, and looks at what
\* runs again.
ReplaceCandidateWithBase(t) ==
  LET s == call[t].session IN
  /\ InSession(t, "replace")
  /\ \/ \E expected \in 0 .. version :
          /\ hasLock[s]
          /\ ensureExpectedRunningVersion(expected)
          /\ sMu' = [sMu EXCEPT ![s] = t]
          /\ call' = [call EXCEPT ![t].at = "replace", ![t].expected = expected]
     \/ /\ call' = [call EXCEPT ![t] = Idle]
        /\ UNCHANGED sMu
  /\ UNCHANGED <<clock, version, sessions, lastActive, mMu, lockVars, candidateVars>>

\* A candidate with a base is replaced if the base still runs, and keeps it;
\* one without gets what runs now.  The text may turn out not to be valid.
ReplaceEnd(t) ==
  LET s == call[t].session IN
  /\ call[t].at = "replace"
  /\ \/ /\ BaseCurrent(s)
        /\ base' = [base EXCEPT ![s] = version]
        /\ \E blank \in BOOLEAN :
             text' = [text EXCEPT ![s] =
                       [for |-> IF call[t].expected = 0 THEN version ELSE call[t].expected,
                        blank |-> blank,
                        overtaken |-> base[s] = None /\ call[t].expected \notin {0, version}]]
     \/ UNCHANGED candidateVars
  /\ sMu' = [sMu EXCEPT ![s] = None]
  /\ call' = [call EXCEPT ![t] = Idle]
  /\ UNCHANGED <<clock, version, sessions, lastActive, mMu, lockVars>>

Discard(t) ==
  /\ InSession(t, "discard")
  /\ ResetCandidate(call[t].session) \/ UNCHANGED candidateVars
  /\ Return(t)

\* The checks before the commit; a rollback needs no candidate.
MayCommit(s, op) ==
  /\ hasLock[s]
  /\ BaseCurrent(s)
  /\ op = "commit" => base[s] # None

\* Commit and Rollback keep session.mu from here on, unless they refuse.
Commit(t, op) ==
  LET s == call[t].session IN
  /\ InSession(t, op)
  /\ \/ /\ MayCommit(s, op)
        /\ sMu' = [sMu EXCEPT ![s] = t]
        /\ call' = [call EXCEPT ![t].at = "commit"]
     \/ /\ call' = [call EXCEPT ![t] = Idle]
        /\ UNCHANGED sMu
  /\ UNCHANGED <<clock, version, sessions, lastActive, mMu, lockVars, candidateVars>>

\* The running version after Apply, and after the Apply that undoes it when
\* persisting fails.
Published(n) ==
  /\ version + n <= MaxVersion
  /\ version' = version + n

CommitReturns(t) ==
  /\ sMu' = [sMu EXCEPT ![call[t].session] = None]
  /\ call' = [call EXCEPT ![t] = Idle]
  /\ UNCHANGED <<clock, sessions, lastActive, mMu, lockVars>>

\* Mutant of CommitEnd: it calls the manager with session.mu held.
CommitEndInManager(t) ==
  /\ call[t].at = "commit"
  /\ call' = [call EXCEPT ![t].at = "manager", ![t].op = "release"]
  /\ UNCHANGED <<clock, version, sessions, lastActive, mMu, sMu, lockVars, candidateVars>>

\* It succeeds and resets the candidate, or cannot write it out, or is
\* undone, or fails before it applies.  That no other commit comes between
\* its checks and Apply is up to the datastore lock (CommitCoordination).
CommitEnd(t) ==
  LET s == call[t].session IN
  /\ call[t].at = "commit"
  /\ \/ /\ Published(1)
        /\ ResetTo(s, version')
     \/ (Published(1) \/ Published(2) \/ UNCHANGED version) /\ UNCHANGED candidateVars
  /\ CommitReturns(t)

-----------------------------------------------------------------------------

\* A NETCONF commit or a synchronization replaces what runs.
OtherCommit ==
  /\ version < MaxVersion
  /\ version' = version + 1
  /\ UNCHANGED <<clock, sessions, lastActive, mMu, sMu, call, lockVars, candidateVars>>

Tick ==
  /\ clock < MaxClock
  /\ clock' = clock + 1
  /\ UNCHANGED <<version, sessions, lastActive, mMu, sMu, call, lockVars, candidateVars>>

InManager(t) ==
  \/ Create(t) \/ Get(t) \/ Close(t) \/ AcquireLock(t) \/ LockConflict(t)
  \/ ReleaseLock(t) \/ SessionNotFound(t)
  \/ \E s \in Session : Expire(t, s)

OnSession(t) ==
  \/ AcquireLockReset(t) \/ ReadCandidate(t) \/ EditCandidate(t)
  \/ ReplaceCandidateWithBase(t) \/ ReplaceEnd(t) \/ Discard(t)
  \/ Commit(t, "commit") \/ Commit(t, "rollback") \/ CommitEnd(t)

Next ==
  \/ \E t \in Thread :
       \/ EnterManager(t) \/ InManager(t) \/ OnSession(t)
       \/ \E op \in Op, s \in Session \cup {None} : Begin(t, op, s)
  \/ OtherCommit
  \/ Tick

Spec == Init /\ [][Next]_vars

-----------------------------------------------------------------------------

TypeOK ==
  /\ clock \in Nat
  /\ version \in Nat
  /\ sessions \subseteq Session
  /\ lockHeld \in Session \cup {None}
  /\ lastActive \in [Session -> Nat]
  /\ hasLock \in [Session -> BOOLEAN]
  /\ base \in [Session -> Nat \cup {None}]
  /\ text \in [Session -> Text]
  /\ mMu \in Thread \cup {None}
  /\ sMu \in [Session -> Thread \cup {None}]
  /\ call \in [Thread -> Call]

\* The manager and the sessions agree on who has the candidate lock, and that
\* session exists: a lock is never left with a session that is gone.
LockAgrees ==
  \A s \in Session :
    /\ hasLock[s] <=> lockHeld = s
    /\ hasLock[s] => s \in sessions

\* While a commit runs its session keeps the candidate lock, although close,
\* release and expiry may be called meanwhile; so no two commits of the server
\* run at once.
CommitKeepsLock ==
  /\ \A t \in Thread : call[t].at = "commit" => lockHeld = call[t].session
  /\ \A t, u \in Thread : call[t].at = "commit" /\ call[u].at = "commit" => t = u

\* What a commit publishes is for the version that the commit is checked
\* against: a text that an edit built on nothing, between the two halves of
\* AcquireLock, is never committed, nor one whose client named a version that
\* has been replaced.  The exception is a replacement in a session that has no
\* base yet: there a commit of others may come after the version named is
\* checked and before the base is read.
CommitIsBased ==
  \A t \in Thread :
    call[t].at = "commit" /\ call[t].op = "commit" =>
      \A s \in {call[t].session} :
        /\ base[s] # None
        /\ text[s].for = base[s] \/ (text[s].overtaken /\ text[s].for < base[s])

\* The mutexes are taken in one order, the manager's before a session's: what
\* is held across steps is the manager's mutex by a call that sweeps expired
\* sessions, or a session's by its commit or its replacement, which wait for
\* no mutex.  So the sweep that waits for a session's mutex (expireLocked)
\* waits for a call that goes on, and no two calls wait for each other.
MutexOrder ==
  /\ \A t \in Thread : mMu = t => call[t].at = "expire" /\ \A s \in Session : sMu[s] # t
  /\ \A t \in Thread, s \in Session :
       sMu[s] = t => call[t].at \in {"replace", "commit"} /\ call[t].session = s

=============================================================================
