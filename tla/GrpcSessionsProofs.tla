------------------------ MODULE GrpcSessionsProofs ------------------------
(***************************************************************************)
(* The candidate lock of the gRPC server, for any number of sessions and   *)
(* concurrent calls: the manager and the sessions agree on its holder, a   *)
(* commit keeps it to the end, and commits a candidate with a base.        *)
(***************************************************************************)
EXTENDS GrpcSessions, TLAPS

\* A call that works on a session has one.
CallHasSession ==
  \A t \in Thread : call[t].at \in {"session", "replace", "commit"} => call[t].session \in Session

\* A call that takes several steps holds its session's mutex, without which
\* nobody takes the session's lock away or changes its candidate.  The version
\* that a replacement names has run, and no earlier than the base.
CallHoldsMutex ==
  \A t \in Thread :
    \A s \in {call[t].session} :
      /\ call[t].at \in {"replace", "commit"} => sMu[s] = t
      /\ call[t].at = "commit" => hasLock[s] /\ (call[t].op = "commit" => base[s] # None)
      /\ call[t].at = "replace" =>
           /\ call[t].expected <= version
           /\ call[t].expected # 0 /\ base[s] # None => base[s] <= call[t].expected

\* Text c is for version b, or b came while it was put into its session.
IsFor(c, b) == c.for = b \/ (c.overtaken /\ c.for < b)

\* A base has run, and a candidate that has one is for it.
BasedText == \A s \in Session : base[s] # None => base[s] <= version /\ IsFor(text[s], base[s])

IInv == TypeOK /\ LockAgrees /\ MutexOrder /\ CallHasSession /\ CallHoldsMutex /\ BasedText

\* The invariant holds initially: there is no session and no call.
LEMMA InitIInv == Init => IInv
BY GrpcAssumption DEF Init, IInv, TypeOK, LockAgrees, MutexOrder, CallHasSession, CallHoldsMutex, BasedText,
   Idle, Call, Text

\* What a step that gives session s a new base leaves of the candidates.
Rebased(s) ==
  /\ base' \in [Session -> Nat \cup {None}]
  /\ text' \in [Session -> Text]
  /\ base'[s] \in Nat /\ base'[s] <= version'
  /\ IsFor(text'[s], base'[s])
  /\ \A x \in Session \ {s} : base'[x] = base[x] /\ text'[x] = text[x]

\* Setting base to a version and text to one for it is such a step.
LEMMA RebasedTo ==
  ASSUME TypeOK, NEW s \in Session, NEW v \in Nat, v <= version', NEW c \in Text, IsFor(c, v),
         base' = [base EXCEPT ![s] = v],
         text' = [text EXCEPT ![s] = c]
  PROVE  Rebased(s)
<1>1. text' \in [Session -> Text] /\ text'[s] = c /\ \A x \in Session \ {s} : text'[x] = text[x]
  BY Zenon DEF TypeOK
<1>2. base' \in [Session -> Nat \cup {None}] /\ base'[s] = v
      /\ \A x \in Session \ {s} : base'[x] = base[x]
  BY DEF TypeOK
<1>3. QED
  BY <1>1, <1>2 DEF Rebased

\* ResetTo a version that has run is such a step.
LEMMA ResetRebases ==
  ASSUME TypeOK, NEW s \in Session, NEW v \in Nat, v <= version', ResetTo(s, v)
  PROVE  Rebased(s)
<1>1. PICK blank \in BOOLEAN :
        text' = [text EXCEPT ![s] = [for |-> v, blank |-> blank, overtaken |-> FALSE]]
  BY DEF ResetTo
<1> DEFINE c == [for |-> v, blank |-> blank, overtaken |-> FALSE]
<1>2. c \in Text /\ IsFor(c, v)
  BY DEF Text, IsFor
<1> HIDE DEF c
<1>3. text' = [text EXCEPT ![s] = c] /\ base' = [base EXCEPT ![s] = v]
  BY <1>1 DEF c, ResetTo
<1>4. QED
  BY <1>2, <1>3, RebasedTo

\* resetSessionCandidateLocked is one.
LEMMA CandidateReset ==
  ASSUME TypeOK, NEW s \in Session, ResetCandidate(s), UNCHANGED version
  PROVE  Rebased(s)
BY ResetRebases DEF TypeOK, ResetCandidate

\* A replacement that ends has changed only its own candidate: with a base, the
\* version that its client named is the one that runs.
LEMMA ReplaceEndRebases ==
  ASSUME IInv, NEW t \in Thread, ReplaceEnd(t)
  PROVE  Rebased(call[t].session) \/ UNCHANGED candidateVars
<1> DEFINE s == call[t].session
           e == call[t].expected
<1>1. s \in Session /\ e \in Nat /\ version \in Nat /\ UNCHANGED version
  BY DEF IInv, TypeOK, Call, CallHasSession, ReplaceEnd
<1>2. e <= version /\ (e # 0 /\ base[s] # None => base[s] <= e)
  BY DEF IInv, CallHoldsMutex, ReplaceEnd
<1>3. CASE UNCHANGED candidateVars
  BY <1>3
<1>4. ASSUME BaseCurrent(s), base' = [base EXCEPT ![s] = version], NEW blank \in BOOLEAN,
             text' = [text EXCEPT ![s] =
                       [for |-> IF e = 0 THEN version ELSE e, blank |-> blank,
                        overtaken |-> base[s] = None /\ e \notin {0, version}]]
      PROVE  Rebased(s)
  <2> DEFINE raced == base[s] = None /\ e \notin {0, version}
             v == IF e = 0 THEN version ELSE e
             c == [for |-> v, blank |-> blank, overtaken |-> raced]
  <2>1. raced \in BOOLEAN /\ v \in Nat /\ (v = version \/ (raced /\ v < version))
    BY <1>1, <1>2, <1>4 DEF BaseCurrent
  <2>2. text' = [text EXCEPT ![s] = c]
    BY <1>4
  <2> HIDE DEF raced, v
  <2>3. c \in Text /\ IsFor(c, version)
    BY <2>1 DEF Text, IsFor
  <2>4. base' = [base EXCEPT ![s] = version] /\ s \in Session /\ version \in Nat /\ version <= version'
    BY <1>1, <1>4
  <2> HIDE DEF c, s, e
  <2>5. QED
    BY <2>2, <2>3, <2>4, RebasedTo DEF IInv
<1>5. QED
  BY <1>3, <1>4 DEF ReplaceEnd

\* A commit that ends has changed only its own candidate.
LEMMA CommitEndRebases ==
  ASSUME IInv, NEW t \in Thread, CommitEnd(t)
  PROVE  /\ version' \in Nat
         /\ Rebased(call[t].session) \/ UNCHANGED candidateVars
<1>1. version' \in Nat
  BY DEF IInv, TypeOK, CommitEnd, Published
<1>2. call[t].session \in Session
  BY DEF IInv, CallHasSession, CommitEnd
<1>3. CASE UNCHANGED candidateVars
  BY <1>1, <1>3
<1>4. CASE ResetTo(call[t].session, version')
  BY <1>1, <1>2, <1>4, ResetRebases DEF IInv
<1>5. QED
  BY <1>3, <1>4 DEF CommitEnd

\* An edit does not change what a text is for.
LEMMA EditKeepsOrigin ==
  ASSUME TypeOK, NEW s \in Session, NEW blank \in BOOLEAN,
         text' = [text EXCEPT ![s].blank = blank]
  PROVE  /\ text' \in [Session -> Text]
         /\ \A x \in Session : text'[x].for = text[x].for /\ text'[x].overtaken = text[x].overtaken
<1> DEFINE c == [text[s] EXCEPT !.blank = blank]
<1>1. text' = [text EXCEPT ![s] = c]
  OBVIOUS
<1>2. c \in Text /\ c.for = text[s].for /\ c.overtaken = text[s].overtaken
  BY DEF TypeOK, Text
<1> HIDE DEF c
<1>3. text' \in [Session -> Text]
  BY <1>1, <1>2, Zenon DEF TypeOK
<1>4. text'[s] = c /\ \A x \in Session \ {s} : text'[x] = text[x]
  BY <1>1 DEF TypeOK
<1>5. QED
  BY <1>2, <1>3, <1>4

\* The ways a call goes on are calls.
LEMMA CallTypes ==
  ASSUME NEW c \in Call, NEW n \in Nat, NEW v \in Nat
  PROVE  /\ Idle \in Call
         /\ [c EXCEPT !.at = "expire", !.now = n] \in Call
         /\ [c EXCEPT !.now = n] \in Call
         /\ [c EXCEPT !.at = "session"] \in Call
         /\ [c EXCEPT !.at = "replace", !.expected = v] \in Call
         /\ [c EXCEPT !.at = "commit"] \in Call
         /\ [c EXCEPT !.at = "manager", !.op = "locked"] \in Call
         /\ [c EXCEPT !.at = "manager", !.op = "release"] \in Call
BY DEF Call, Idle, Op

\* Every step keeps the types.
LEMMA TypeOKStep ==
  ASSUME IInv, [Next]_vars
  PROVE  TypeOK'
<1> USE GrpcAssumption DEF IInv, TypeOK, lockVars, candidateVars
<1>1. ASSUME NEW t \in Thread, NEW op \in Op, NEW s \in Session \cup {None}, Begin(t, op, s) PROVE TypeOK'
  BY <1>1 DEF Begin, Op, Call
<1>2. ASSUME NEW t \in Thread, EnterManager(t) PROVE TypeOK'
  <2>1. call' \in [Thread -> Call]
    <3>1. call' = [call EXCEPT ![t] = [call[t] EXCEPT !.at = "expire", !.now = clock]]
      BY <1>2 DEF EnterManager
    <3>2. [call[t] EXCEPT !.at = "expire", !.now = clock] \in Call
      BY CallTypes
    <3>3. QED
      BY <3>1, <3>2, Zenon
  <2>2. QED
    BY <1>2, <2>1 DEF EnterManager
<1>3. ASSUME NEW t \in Thread, NEW s \in Session, Expire(t, s) PROVE TypeOK'
  BY <1>3 DEF Expire, Unlocked, Call
<1>4. ASSUME NEW t \in Thread, Create(t) PROVE TypeOK'
  BY <1>4 DEF Create, Swept, Touch, LeaveManager, Idle, Call
<1>5. ASSUME NEW t \in Thread, Get(t) PROVE TypeOK'
  <2>1. call' \in [Thread -> Call]
    <3>1. call' = [call EXCEPT ![t] = [[call[t] EXCEPT !.at = "session"] EXCEPT !.now = 0]]
      BY <1>5 DEF Get, LeaveManager
    <3>2. [call[t] EXCEPT !.at = "session"] \in Call
      BY CallTypes
    <3>3. [[call[t] EXCEPT !.at = "session"] EXCEPT !.now = 0] \in Call
      BY <3>2, CallTypes
    <3>4. QED
      BY <3>1, <3>3, Zenon
  <2>2. QED
    BY <1>5, <2>1 DEF Get, Swept, Touch, LeaveManager, Call
<1>6. ASSUME NEW t \in Thread, Close(t) PROVE TypeOK'
  BY <1>6 DEF Close, Swept, Unlocked, LeaveManager, Idle, Call
<1>7. ASSUME NEW t \in Thread, AcquireLock(t) PROVE TypeOK'
  <2>1. call' \in [Thread -> Call]
    <3>1. call' = [call EXCEPT ![t] = [[call[t] EXCEPT !.at = "manager", !.op = "locked"] EXCEPT !.now = 0]]
      BY <1>7 DEF AcquireLock, LeaveManager
    <3>2. [call[t] EXCEPT !.at = "manager", !.op = "locked"] \in Call
      BY CallTypes
    <3>3. [[call[t] EXCEPT !.at = "manager", !.op = "locked"] EXCEPT !.now = 0] \in Call
      BY <3>2, CallTypes
    <3>4. QED
      BY <3>1, <3>3, Zenon
  <2>2. QED
    BY <1>7, <2>1 DEF AcquireLock, Swept, Touch, LeaveManager, Call
<1>8. ASSUME NEW t \in Thread, LockConflict(t) PROVE TypeOK'
  BY <1>8 DEF LockConflict, Swept, LeaveManager, Idle, Call
<1>9. ASSUME NEW t \in Thread, ReleaseLock(t) PROVE TypeOK'
  BY <1>9 DEF ReleaseLock, Swept, Unlocked, Touch, LeaveManager, Idle, Call
<1>10. ASSUME NEW t \in Thread, SessionNotFound(t) PROVE TypeOK'
  <2>1. call' \in [Thread -> Call]
    <3> DEFINE next == IF call[t].op = "locked"
                     THEN [call[t] EXCEPT !.at = "manager", !.op = "release"] ELSE Idle
    <3>1. call' = [call EXCEPT ![t] = [next EXCEPT !.now = 0]]
      BY <1>10 DEF SessionNotFound, LeaveManager
    <3>2. next \in Call
      BY CallTypes
    <3> HIDE DEF next
    <3>3. [next EXCEPT !.now = 0] \in Call
      BY <3>2, CallTypes
    <3>4. QED
      BY <3>1, <3>3, Zenon
  <2>2. QED
    BY <1>10, <2>1 DEF SessionNotFound, LeaveManager
<1>11. ASSUME NEW t \in Thread, AcquireLockReset(t) PROVE TypeOK'
  <2> call[t].session \in Session
    BY <1>11 DEF AcquireLockReset, InSession, CallHasSession
  <2>1. call' = [call EXCEPT ![t] = Idle]
        \/ call' = [call EXCEPT ![t] = [call[t] EXCEPT !.at = "manager", !.op = "release"]]
    BY <1>11 DEF AcquireLockReset, Return
  <2>2. call' \in [Thread -> Call]
    <3>1. Idle \in Call /\ [call[t] EXCEPT !.at = "manager", !.op = "release"] \in Call
      BY CallTypes
    <3>2. QED
      BY <2>1, <3>1
  <2>3. ResetCandidate(call[t].session) \/ UNCHANGED candidateVars
    BY <1>11 DEF AcquireLockReset
  <2>4. base' \in [Session -> Nat \cup {None}]
        /\ text' \in [Session -> Text]
    BY <1>11, <2>3, CandidateReset DEF AcquireLockReset, Return, Rebased
  <2>5. QED
    BY <1>11, <2>2, <2>4 DEF AcquireLockReset, Return
<1>12. ASSUME NEW t \in Thread, ReadCandidate(t) PROVE TypeOK'
  BY <1>12 DEF ReadCandidate, InSession, Return, Idle, Call
<1>13. ASSUME NEW t \in Thread, EditCandidate(t) PROVE TypeOK'
  <2> call[t].session \in Session
    BY <1>13 DEF EditCandidate, InSession, CallHasSession
  <2>1. call' \in [Thread -> Call]
    <3>1. call' = [call EXCEPT ![t] = Idle]
      BY <1>13 DEF EditCandidate, Return
    <3>2. Idle \in Call
      BY CallTypes
    <3>3. QED
      BY <3>1, <3>2, Zenon
  <2>2. text' \in [Session -> Text]
    BY <1>13, EditKeepsOrigin DEF EditCandidate
  <2>3. QED
    BY <1>13, <2>1, <2>2 DEF EditCandidate, Return
<1>14. ASSUME NEW t \in Thread, ReplaceCandidateWithBase(t) PROVE TypeOK'
  <2>1. call' = [call EXCEPT ![t] = Idle]
        \/ \E e \in 0 .. version :
             call' = [call EXCEPT ![t] = [call[t] EXCEPT !.at = "replace", !.expected = e]]
    BY <1>14 DEF ReplaceCandidateWithBase
  <2>2. call' \in [Thread -> Call]
    <3>1. 0 .. version \subseteq Nat
      OBVIOUS
    <3>2. Idle \in Call
          /\ \A e \in 0 .. version : [call[t] EXCEPT !.at = "replace", !.expected = e] \in Call
      BY <3>1, CallTypes
    <3>3. QED
      BY <2>1, <3>2
  <2>3. sMu' \in [Session -> Thread \cup {None}]
    BY <1>14 DEF ReplaceCandidateWithBase
  <2>4. QED
    BY <1>14, <2>2, <2>3 DEF ReplaceCandidateWithBase
<1>15. ASSUME NEW t \in Thread, ReplaceEnd(t) PROVE TypeOK'
  <2>1. call' \in [Thread -> Call]
    <3>1. call' = [call EXCEPT ![t] = Idle]
      BY <1>15 DEF ReplaceEnd
    <3>2. Idle \in Call
      BY CallTypes
    <3>3. QED
      BY <3>1, <3>2, Zenon
  <2>2. base' \in [Session -> Nat \cup {None}] /\ text' \in [Session -> Text]
    BY <1>15, ReplaceEndRebases DEF Rebased
  <2>3. QED
    BY <1>15, <2>1, <2>2 DEF ReplaceEnd
<1>16. ASSUME NEW t \in Thread, Discard(t) PROVE TypeOK'
  <2> call[t].session \in Session
    BY <1>16 DEF Discard, InSession, CallHasSession
  <2>1. call' \in [Thread -> Call]
    <3>1. call' = [call EXCEPT ![t] = Idle]
      BY <1>16 DEF Discard, Return
    <3>2. Idle \in Call
      BY CallTypes
    <3>3. QED
      BY <3>1, <3>2, Zenon
  <2>2. base' \in [Session -> Nat \cup {None}]
        /\ text' \in [Session -> Text]
    BY <1>16, CandidateReset DEF Discard, Return, Rebased
  <2>3. QED
    BY <1>16, <2>1, <2>2 DEF Discard, Return
<1>17. ASSUME NEW t \in Thread, NEW op \in {"commit", "rollback"}, Commit(t, op) PROVE TypeOK'
  <2>1. call' = [call EXCEPT ![t] = Idle] \/ call' = [call EXCEPT ![t] = [call[t] EXCEPT !.at = "commit"]]
    BY <1>17 DEF Commit
  <2>2. call' \in [Thread -> Call]
    <3>1. Idle \in Call /\ [call[t] EXCEPT !.at = "commit"] \in Call
      BY CallTypes
    <3>2. QED
      BY <2>1, <3>1
  <2>3. QED
    BY <1>17, <2>2 DEF Commit
<1>18. ASSUME NEW t \in Thread, CommitEnd(t) PROVE TypeOK'
  <2> call[t].session \in Session
    BY <1>18 DEF CommitEnd, CallHasSession
  <2>1. call' \in [Thread -> Call]
    <3>1. call' = [call EXCEPT ![t] = Idle]
      BY <1>18 DEF CommitEnd, CommitReturns
    <3>2. Idle \in Call
      BY CallTypes
    <3>3. QED
      BY <3>1, <3>2, Zenon
  <2>2. version' \in Nat /\ (Rebased(call[t].session) \/ UNCHANGED candidateVars)
    BY <1>18, CommitEndRebases
  <2>3. QED
    BY <1>18, <2>1, <2>2 DEF CommitEnd, CommitReturns, Rebased
<1>19. CASE OtherCommit
  BY <1>19 DEF OtherCommit
<1>20. CASE Tick
  BY <1>20 DEF Tick
<1>21. CASE UNCHANGED vars
  BY <1>21 DEF vars
<1>22. QED
  BY <1>1, <1>2, <1>3, <1>4, <1>5, <1>6, <1>7, <1>8, <1>9, <1>10, <1>11, <1>12, <1>13, <1>14, <1>15, <1>16, <1>17, <1>18, <1>19, <1>20, <1>21 DEF Next, InManager, OnSession

\* Every step keeps the manager and the sessions in agreement on the lock.
LEMMA LockAgreesStep ==
  ASSUME IInv, [Next]_vars
  PROVE  LockAgrees'
<1> USE GrpcAssumption DEF IInv, TypeOK, Call, lockVars, candidateVars, LockAgrees
<1>1. ASSUME NEW t \in Thread, NEW op \in Op, NEW s \in Session \cup {None}, Begin(t, op, s) PROVE LockAgrees'
  BY <1>1 DEF Begin, Op
<1>2. ASSUME NEW t \in Thread, EnterManager(t) PROVE LockAgrees'
  BY <1>2 DEF EnterManager
<1>3. ASSUME NEW t \in Thread, NEW s \in Session, Expire(t, s) PROVE LockAgrees'
  BY <1>3 DEF Expire, Unlocked
<1>4. ASSUME NEW t \in Thread, Create(t) PROVE LockAgrees'
  BY <1>4 DEF Create, Swept, Touch, LeaveManager, Idle
<1>5. ASSUME NEW t \in Thread, Get(t) PROVE LockAgrees'
  BY <1>5 DEF Get, Swept, Touch, LeaveManager
<1>6. ASSUME NEW t \in Thread, Close(t) PROVE LockAgrees'
  BY <1>6 DEF Close, Swept, Unlocked, LeaveManager, Idle
<1>7. ASSUME NEW t \in Thread, AcquireLock(t) PROVE LockAgrees'
  BY <1>7 DEF AcquireLock, Swept, Touch, LeaveManager
<1>8. ASSUME NEW t \in Thread, LockConflict(t) PROVE LockAgrees'
  BY <1>8 DEF LockConflict, Swept, LeaveManager, Idle
<1>9. ASSUME NEW t \in Thread, ReleaseLock(t) PROVE LockAgrees'
  BY <1>9 DEF ReleaseLock, Swept, Unlocked, Touch, LeaveManager, Idle
<1>10. ASSUME NEW t \in Thread, SessionNotFound(t) PROVE LockAgrees'
  BY <1>10 DEF SessionNotFound, Swept, LeaveManager, Idle, Op
<1>11. ASSUME NEW t \in Thread, AcquireLockReset(t) PROVE LockAgrees'
  BY <1>11 DEF AcquireLockReset, InSession, ResetCandidate, Return, Idle
<1>12. ASSUME NEW t \in Thread, ReadCandidate(t) PROVE LockAgrees'
  BY <1>12 DEF ReadCandidate, InSession, Return, Idle
<1>13. ASSUME NEW t \in Thread, EditCandidate(t) PROVE LockAgrees'
  BY <1>13 DEF EditCandidate, InSession, Return, Idle
<1>14. ASSUME NEW t \in Thread, ReplaceCandidateWithBase(t) PROVE LockAgrees'
  BY <1>14 DEF ReplaceCandidateWithBase, InSession, Idle
<1>15. ASSUME NEW t \in Thread, ReplaceEnd(t) PROVE LockAgrees'
  BY <1>15 DEF ReplaceEnd, Idle
<1>16. ASSUME NEW t \in Thread, Discard(t) PROVE LockAgrees'
  BY <1>16 DEF Discard, InSession, ResetCandidate, Return, Idle
<1>17. ASSUME NEW t \in Thread, NEW op \in {"commit", "rollback"}, Commit(t, op) PROVE LockAgrees'
  BY <1>17 DEF Commit, InSession, MayCommit, Idle
<1>18. ASSUME NEW t \in Thread, CommitEnd(t) PROVE LockAgrees'
  BY <1>18 DEF CommitEnd, Published, CommitReturns, Idle
<1>19. CASE OtherCommit
  BY <1>19 DEF OtherCommit
<1>20. CASE Tick
  BY <1>20 DEF Tick
<1>21. CASE UNCHANGED vars
  BY <1>21 DEF vars
<1>22. QED
  BY <1>1, <1>2, <1>3, <1>4, <1>5, <1>6, <1>7, <1>8, <1>9, <1>10, <1>11, <1>12, <1>13, <1>14, <1>15, <1>16, <1>17, <1>18, <1>19, <1>20, <1>21 DEF Next, InManager, OnSession

\* Every step keeps the order of the mutexes.
LEMMA MutexOrderStep ==
  ASSUME IInv, [Next]_vars
  PROVE  MutexOrder'
<1> USE GrpcAssumption DEF IInv, TypeOK, Call, lockVars, candidateVars, MutexOrder, CallHasSession, CallHoldsMutex
<1>1. ASSUME NEW t \in Thread, NEW op \in Op, NEW s \in Session \cup {None}, Begin(t, op, s) PROVE MutexOrder'
  BY <1>1 DEF Begin, Op
<1>2. ASSUME NEW t \in Thread, EnterManager(t) PROVE MutexOrder'
  BY <1>2 DEF EnterManager
<1>3. ASSUME NEW t \in Thread, NEW s \in Session, Expire(t, s) PROVE MutexOrder'
  BY <1>3 DEF Expire, Unlocked
<1>4. ASSUME NEW t \in Thread, Create(t) PROVE MutexOrder'
  BY <1>4 DEF Create, Swept, Touch, LeaveManager, Idle
<1>5. ASSUME NEW t \in Thread, Get(t) PROVE MutexOrder'
  BY <1>5 DEF Get, Swept, Touch, LeaveManager
<1>6. ASSUME NEW t \in Thread, Close(t) PROVE MutexOrder'
  BY <1>6 DEF Close, Swept, Unlocked, LeaveManager, Idle
<1>7. ASSUME NEW t \in Thread, AcquireLock(t) PROVE MutexOrder'
  BY <1>7 DEF AcquireLock, Swept, Touch, LeaveManager
<1>8. ASSUME NEW t \in Thread, LockConflict(t) PROVE MutexOrder'
  BY <1>8 DEF LockConflict, Swept, LeaveManager, Idle
<1>9. ASSUME NEW t \in Thread, ReleaseLock(t) PROVE MutexOrder'
  BY <1>9 DEF ReleaseLock, Swept, Unlocked, Touch, LeaveManager, Idle
<1>10. ASSUME NEW t \in Thread, SessionNotFound(t) PROVE MutexOrder'
  BY <1>10 DEF SessionNotFound, Swept, LeaveManager, Idle, Op
<1>11. ASSUME NEW t \in Thread, AcquireLockReset(t) PROVE MutexOrder'
  <2>1. call[t].at = "session" /\ \A u \in Thread \ {t} : call'[u] = call[u]
    BY <1>11 DEF AcquireLockReset, InSession, Return
  <2>2. UNCHANGED <<sMu, mMu>>
    BY <1>11 DEF AcquireLockReset, Return
  <2>3. QED
    BY <2>1, <2>2
<1>12. ASSUME NEW t \in Thread, ReadCandidate(t) PROVE MutexOrder'
  BY <1>12 DEF ReadCandidate, InSession, Return, Idle
<1>13. ASSUME NEW t \in Thread, EditCandidate(t) PROVE MutexOrder'
  BY <1>13 DEF EditCandidate, InSession, Return, Idle
<1>14. ASSUME NEW t \in Thread, ReplaceCandidateWithBase(t) PROVE MutexOrder'
  BY <1>14 DEF ReplaceCandidateWithBase, InSession, Idle
<1>15. ASSUME NEW t \in Thread, ReplaceEnd(t) PROVE MutexOrder'
  <2>1. call[t].session \in Session /\ sMu[call[t].session] = t
    BY <1>15 DEF ReplaceEnd
  <2>2. /\ call' = [call EXCEPT ![t] = Idle] /\ sMu' = [sMu EXCEPT ![call[t].session] = None]
        /\ UNCHANGED mMu /\ call[t].at = "replace"
    BY <1>15 DEF ReplaceEnd
  <2>3. QED
    BY <2>1, <2>2 DEF Idle
<1>16. ASSUME NEW t \in Thread, Discard(t) PROVE MutexOrder'
  BY <1>16 DEF Discard, InSession, ResetCandidate, Return, Idle
<1>17. ASSUME NEW t \in Thread, NEW op \in {"commit", "rollback"}, Commit(t, op) PROVE MutexOrder'
  BY <1>17 DEF Commit, InSession, MayCommit, Idle
<1>18. ASSUME NEW t \in Thread, CommitEnd(t) PROVE MutexOrder'
  BY <1>18 DEF CommitEnd, Published, CommitReturns, Idle
<1>19. CASE OtherCommit
  BY <1>19 DEF OtherCommit
<1>20. CASE Tick
  BY <1>20 DEF Tick
<1>21. CASE UNCHANGED vars
  BY <1>21 DEF vars
<1>22. QED
  BY <1>1, <1>2, <1>3, <1>4, <1>5, <1>6, <1>7, <1>8, <1>9, <1>10, <1>11, <1>12, <1>13, <1>14, <1>15, <1>16, <1>17, <1>18, <1>19, <1>20, <1>21 DEF Next, InManager, OnSession

\* Only calls that found their session go on to work on it.
LEMMA CallHasSessionStep ==
  ASSUME IInv, [Next]_vars
  PROVE  CallHasSession'
<1> USE GrpcAssumption DEF IInv, TypeOK, Call, lockVars, candidateVars, CallHasSession
<1>1. ASSUME NEW t \in Thread, NEW op \in Op, NEW s \in Session \cup {None}, Begin(t, op, s) PROVE CallHasSession'
  BY <1>1 DEF Begin, Op
<1>2. ASSUME NEW t \in Thread, EnterManager(t) PROVE CallHasSession'
  BY <1>2 DEF EnterManager
<1>3. ASSUME NEW t \in Thread, NEW s \in Session, Expire(t, s) PROVE CallHasSession'
  BY <1>3 DEF Expire, Unlocked
<1>4. ASSUME NEW t \in Thread, Create(t) PROVE CallHasSession'
  BY <1>4 DEF Create, Swept, Touch, LeaveManager, Idle
<1>5. ASSUME NEW t \in Thread, Get(t) PROVE CallHasSession'
  BY <1>5 DEF Get, Swept, Touch, LeaveManager
<1>6. ASSUME NEW t \in Thread, Close(t) PROVE CallHasSession'
  BY <1>6 DEF Close, Swept, Unlocked, LeaveManager, Idle
<1>7. ASSUME NEW t \in Thread, AcquireLock(t) PROVE CallHasSession'
  BY <1>7 DEF AcquireLock, Swept, Touch, LeaveManager
<1>8. ASSUME NEW t \in Thread, LockConflict(t) PROVE CallHasSession'
  BY <1>8 DEF LockConflict, Swept, LeaveManager, Idle
<1>9. ASSUME NEW t \in Thread, ReleaseLock(t) PROVE CallHasSession'
  BY <1>9 DEF ReleaseLock, Swept, Unlocked, Touch, LeaveManager, Idle
<1>10. ASSUME NEW t \in Thread, SessionNotFound(t) PROVE CallHasSession'
  BY <1>10 DEF SessionNotFound, Swept, LeaveManager, Idle, Op
<1>11. ASSUME NEW t \in Thread, AcquireLockReset(t) PROVE CallHasSession'
  BY <1>11 DEF AcquireLockReset, InSession, ResetCandidate, Return, Idle
<1>12. ASSUME NEW t \in Thread, ReadCandidate(t) PROVE CallHasSession'
  BY <1>12 DEF ReadCandidate, InSession, Return, Idle
<1>13. ASSUME NEW t \in Thread, EditCandidate(t) PROVE CallHasSession'
  BY <1>13 DEF EditCandidate, InSession, Return, Idle
<1>14. ASSUME NEW t \in Thread, ReplaceCandidateWithBase(t) PROVE CallHasSession'
  BY <1>14 DEF ReplaceCandidateWithBase, InSession, Idle
<1>15. ASSUME NEW t \in Thread, ReplaceEnd(t) PROVE CallHasSession'
  BY <1>15 DEF ReplaceEnd, Idle
<1>16. ASSUME NEW t \in Thread, Discard(t) PROVE CallHasSession'
  BY <1>16 DEF Discard, InSession, ResetCandidate, Return, Idle
<1>17. ASSUME NEW t \in Thread, NEW op \in {"commit", "rollback"}, Commit(t, op) PROVE CallHasSession'
  BY <1>17 DEF Commit, InSession, MayCommit, Idle
<1>18. ASSUME NEW t \in Thread, CommitEnd(t) PROVE CallHasSession'
  BY <1>18 DEF CommitEnd, Published, CommitReturns, Idle
<1>19. CASE OtherCommit
  BY <1>19 DEF OtherCommit
<1>20. CASE Tick
  BY <1>20 DEF Tick
<1>21. CASE UNCHANGED vars
  BY <1>21 DEF vars
<1>22. QED
  BY <1>1, <1>2, <1>3, <1>4, <1>5, <1>6, <1>7, <1>8, <1>9, <1>10, <1>11, <1>12, <1>13, <1>14, <1>15, <1>16, <1>17, <1>18, <1>19, <1>20, <1>21 DEF Next, InManager, OnSession

\* No step takes the mutex from a replacement or a commit that runs.
LEMMA CallHoldsMutexStep ==
  ASSUME IInv, [Next]_vars
  PROVE  CallHoldsMutex'
<1> USE GrpcAssumption DEF IInv, TypeOK, Call, lockVars, candidateVars, CallHoldsMutex
<1>1. ASSUME NEW t \in Thread, NEW op \in Op, NEW s \in Session \cup {None}, Begin(t, op, s) PROVE CallHoldsMutex'
  BY <1>1 DEF Begin, Op
<1>2. ASSUME NEW t \in Thread, EnterManager(t) PROVE CallHoldsMutex'
  BY <1>2 DEF EnterManager
<1>3. ASSUME NEW t \in Thread, NEW s \in Session, Expire(t, s) PROVE CallHoldsMutex'
  BY <1>3 DEF Expire, Unlocked
<1>4. ASSUME NEW t \in Thread, Create(t) PROVE CallHoldsMutex'
  BY <1>4 DEF Create, Swept, Touch, LeaveManager, Idle
<1>5. ASSUME NEW t \in Thread, Get(t) PROVE CallHoldsMutex'
  BY <1>5 DEF Get, Swept, Touch, LeaveManager
<1>6. ASSUME NEW t \in Thread, Close(t) PROVE CallHoldsMutex'
  BY <1>6 DEF Close, Swept, Unlocked, LeaveManager, Idle
<1>7. ASSUME NEW t \in Thread, AcquireLock(t) PROVE CallHoldsMutex'
  BY <1>7 DEF AcquireLock, Swept, Touch, LeaveManager
<1>8. ASSUME NEW t \in Thread, LockConflict(t) PROVE CallHoldsMutex'
  BY <1>8 DEF LockConflict, Swept, LeaveManager, Idle
<1>9. ASSUME NEW t \in Thread, ReleaseLock(t) PROVE CallHoldsMutex'
  BY <1>9 DEF ReleaseLock, Swept, Unlocked, Touch, LeaveManager, Idle
<1>10. ASSUME NEW t \in Thread, SessionNotFound(t) PROVE CallHoldsMutex'
  BY <1>10 DEF SessionNotFound, Swept, LeaveManager, Idle, Op
<1>11. ASSUME NEW t \in Thread, AcquireLockReset(t) PROVE CallHoldsMutex'
  <2> call[t].session \in Session /\ sMu[call[t].session] = None
    BY <1>11 DEF AcquireLockReset, InSession, CallHasSession
  <2>1. Rebased(call[t].session) \/ UNCHANGED candidateVars
    BY <1>11, CandidateReset DEF AcquireLockReset, Return
  <2>2. \A u \in Thread : call'[u].at \in {"replace", "commit"} => u # t /\ call'[u] = call[u]
    BY <1>11 DEF AcquireLockReset, InSession, Return, Idle
  <2>3. UNCHANGED <<sMu, hasLock, version>>
    BY <1>11 DEF AcquireLockReset, Return
  <2>4. \A u \in Thread : call[u].at \in {"replace", "commit"} =>
          call[u].session \in Session \ {call[t].session}
    BY DEF CallHasSession
  <2>5. QED
    BY <2>1, <2>2, <2>3, <2>4 DEF Rebased
<1>12. ASSUME NEW t \in Thread, ReadCandidate(t) PROVE CallHoldsMutex'
  BY <1>12 DEF ReadCandidate, InSession, Return, Idle
<1>13. ASSUME NEW t \in Thread, EditCandidate(t) PROVE CallHoldsMutex'
  BY <1>13 DEF EditCandidate, InSession, Return, Idle
<1>14. ASSUME NEW t \in Thread, ReplaceCandidateWithBase(t) PROVE CallHoldsMutex'
  <2> call[t].session \in Session /\ sMu[call[t].session] = None
    BY <1>14 DEF ReplaceCandidateWithBase, InSession, CallHasSession
  <2>1. \A u \in Thread : call[u].at \in {"replace", "commit"} =>
          call[u].session \in Session \ {call[t].session}
    BY DEF CallHasSession
  <2>2. (\A u \in Thread \ {t} : call'[u] = call[u]) /\ UNCHANGED <<hasLock, base, version>>
    BY <1>14 DEF ReplaceCandidateWithBase
  <2>3. CASE call' = [call EXCEPT ![t] = Idle] /\ UNCHANGED sMu
    BY <2>1, <2>2, <2>3 DEF Idle
  <2>4. ASSUME NEW e \in 0 .. version, ensureExpectedRunningVersion(e),
               sMu' = [sMu EXCEPT ![call[t].session] = t],
               call' = [call EXCEPT ![t].at = "replace", ![t].expected = e]
        PROVE  CallHoldsMutex'
    <3>1. call'[t].session = call[t].session /\ call'[t].at = "replace" /\ call'[t].expected = e
      BY <2>4
    <3>2. sMu'[call[t].session] = t /\ \A x \in Session \ {call[t].session} : sMu'[x] = sMu[x]
      BY <2>4
    <3>3. e \in Nat /\ e <= version /\ (e # 0 /\ base[call[t].session] # None => base[call[t].session] <= e)
      BY <2>4 DEF BasedText, ensureExpectedRunningVersion
    <3>4. QED
      BY <2>1, <2>2, <3>1, <3>2, <3>3
  <2>5. QED
    BY <1>14, <2>3, <2>4 DEF ReplaceCandidateWithBase
<1>15. ASSUME NEW t \in Thread, ReplaceEnd(t) PROVE CallHoldsMutex'
  <2> call[t].session \in Session /\ sMu[call[t].session] = t
    BY <1>15 DEF ReplaceEnd, CallHasSession
  <2>1. Rebased(call[t].session) \/ UNCHANGED candidateVars
    BY <1>15, ReplaceEndRebases
  <2>2. \A u \in Thread : call'[u].at \in {"replace", "commit"} => u # t /\ call'[u] = call[u]
    BY <1>15 DEF ReplaceEnd, Idle
  <2>3. \A u \in Thread \ {t} : call[u].at \in {"replace", "commit"} =>
          call[u].session \in Session \ {call[t].session}
    BY DEF CallHasSession
  <2>4. UNCHANGED <<hasLock, version>> /\ \A x \in Session \ {call[t].session} : sMu'[x] = sMu[x]
    BY <1>15 DEF ReplaceEnd
  <2>5. QED
    BY <2>1, <2>2, <2>3, <2>4 DEF Rebased
<1>16. ASSUME NEW t \in Thread, Discard(t) PROVE CallHoldsMutex'
  <2> call[t].session \in Session /\ sMu[call[t].session] = None
    BY <1>16 DEF Discard, InSession, CallHasSession
  <2>1. Rebased(call[t].session) \/ UNCHANGED candidateVars
    BY <1>16, CandidateReset DEF Discard, Return
  <2>2. \A u \in Thread : call'[u].at \in {"replace", "commit"} => u # t /\ call'[u] = call[u]
    BY <1>16 DEF Discard, InSession, Return, Idle
  <2>3. UNCHANGED <<sMu, hasLock, version>>
    BY <1>16 DEF Discard, Return
  <2>4. \A u \in Thread : call[u].at \in {"replace", "commit"} =>
          call[u].session \in Session \ {call[t].session}
    BY DEF CallHasSession
  <2>5. QED
    BY <2>1, <2>2, <2>3, <2>4 DEF Rebased
<1>17. ASSUME NEW t \in Thread, NEW op \in {"commit", "rollback"}, Commit(t, op) PROVE CallHoldsMutex'
  <2> call[t].session \in Session /\ sMu[call[t].session] = None
    BY <1>17 DEF Commit, InSession, CallHasSession
  <2>1. \A u \in Thread : call[u].at \in {"replace", "commit"} =>
          call[u].session \in Session \ {call[t].session}
    BY DEF CallHasSession
  <2>2. \A u \in Thread \ {t} : call'[u] = call[u]
    BY <1>17 DEF Commit
  <2>3. CASE call' = [call EXCEPT ![t] = Idle] /\ UNCHANGED sMu
    BY <1>17, <2>1, <2>3 DEF Commit, Idle
  <2>4. CASE /\ MayCommit(call[t].session, op)
             /\ sMu' = [sMu EXCEPT ![call[t].session] = t]
             /\ call' = [call EXCEPT ![t].at = "commit"]
    <3>1. call'[t].session = call[t].session /\ call'[t].op = op /\ call'[t].at = "commit"
      BY <1>17, <2>4 DEF Commit, InSession
    <3>2. hasLock[call[t].session] /\ (op = "commit" => base[call[t].session] # None)
      BY <2>4 DEF MayCommit
    <3>3. sMu'[call[t].session] = t /\ \A x \in Session \ {call[t].session} : sMu'[x] = sMu[x]
      BY <2>4
    <3>4. UNCHANGED <<hasLock, base, version>>
      BY <1>17 DEF Commit
    <3>5. QED
      BY <2>1, <2>2, <3>1, <3>2, <3>3, <3>4
  <2>5. QED
    BY <1>17, <2>3, <2>4 DEF Commit
<1>18. ASSUME NEW t \in Thread, CommitEnd(t) PROVE CallHoldsMutex'
  <2> call[t].session \in Session /\ sMu[call[t].session] = t
    BY <1>18 DEF CommitEnd, CallHasSession
  <2>2. Rebased(call[t].session) \/ UNCHANGED candidateVars
    BY <1>18, CommitEndRebases
  <2>3. \A u \in Thread : call'[u].at \in {"replace", "commit"} => u # t /\ call'[u] = call[u]
    BY <1>18 DEF CommitEnd, CommitReturns, Idle
  <2>4. \A u \in Thread \ {t} : call[u].at \in {"replace", "commit"} =>
          call[u].session \in Session \ {call[t].session}
    BY DEF CallHasSession
  <2>5. /\ UNCHANGED hasLock /\ version' \in Nat /\ version <= version'
        /\ \A x \in Session \ {call[t].session} : sMu'[x] = sMu[x]
    BY <1>18 DEF CommitEnd, CommitReturns, Published
  <2>6. QED
    BY <2>2, <2>3, <2>4, <2>5 DEF Rebased
<1>19. CASE OtherCommit
  BY <1>19 DEF OtherCommit
<1>20. CASE Tick
  BY <1>20 DEF Tick
<1>21. CASE UNCHANGED vars
  BY <1>21 DEF vars
<1>22. QED
  BY <1>1, <1>2, <1>3, <1>4, <1>5, <1>6, <1>7, <1>8, <1>9, <1>10, <1>11, <1>12, <1>13, <1>14, <1>15, <1>16, <1>17, <1>18, <1>19, <1>20, <1>21 DEF Next, InManager, OnSession

\* Base and text change together, or only in ways that keep their relation.
LEMMA BasedTextStep ==
  ASSUME IInv, [Next]_vars
  PROVE  BasedText'
<1> USE GrpcAssumption DEF IInv, TypeOK, Call, lockVars, candidateVars, BasedText
<1>1. ASSUME NEW t \in Thread, NEW op \in Op, NEW s \in Session \cup {None}, Begin(t, op, s) PROVE BasedText'
  BY <1>1 DEF Begin, Op
<1>2. ASSUME NEW t \in Thread, EnterManager(t) PROVE BasedText'
  BY <1>2 DEF EnterManager
<1>3. ASSUME NEW t \in Thread, NEW s \in Session, Expire(t, s) PROVE BasedText'
  BY <1>3 DEF Expire, Unlocked
<1>4. ASSUME NEW t \in Thread, Create(t) PROVE BasedText'
  BY <1>4 DEF Create, Swept, Touch, LeaveManager, Idle
<1>5. ASSUME NEW t \in Thread, Get(t) PROVE BasedText'
  BY <1>5 DEF Get, Swept, Touch, LeaveManager
<1>6. ASSUME NEW t \in Thread, Close(t) PROVE BasedText'
  BY <1>6 DEF Close, Swept, Unlocked, LeaveManager, Idle
<1>7. ASSUME NEW t \in Thread, AcquireLock(t) PROVE BasedText'
  BY <1>7 DEF AcquireLock, Swept, Touch, LeaveManager
<1>8. ASSUME NEW t \in Thread, LockConflict(t) PROVE BasedText'
  BY <1>8 DEF LockConflict, Swept, LeaveManager, Idle
<1>9. ASSUME NEW t \in Thread, ReleaseLock(t) PROVE BasedText'
  BY <1>9 DEF ReleaseLock, Swept, Unlocked, Touch, LeaveManager, Idle
<1>10. ASSUME NEW t \in Thread, SessionNotFound(t) PROVE BasedText'
  BY <1>10 DEF SessionNotFound, Swept, LeaveManager, Idle, Op
<1>11. ASSUME NEW t \in Thread, AcquireLockReset(t) PROVE BasedText'
  <2> call[t].session \in Session
    BY <1>11 DEF AcquireLockReset, InSession, CallHasSession
  <2>1. Rebased(call[t].session) \/ UNCHANGED candidateVars
    BY <1>11, CandidateReset DEF AcquireLockReset, Return
  <2>2. UNCHANGED version
    BY <1>11 DEF AcquireLockReset, Return
  <2>3. QED
    BY <2>1, <2>2 DEF Rebased
<1>12. ASSUME NEW t \in Thread, ReadCandidate(t) PROVE BasedText'
  BY <1>12 DEF ReadCandidate, InSession, Return, Idle
<1>13. ASSUME NEW t \in Thread, EditCandidate(t) PROVE BasedText'
  <2> call[t].session \in Session
    BY <1>13 DEF EditCandidate, InSession, CallHasSession
  <2>1. /\ UNCHANGED <<base, version>>
        /\ \A x \in Session : text'[x].for = text[x].for /\ text'[x].overtaken = text[x].overtaken
    BY <1>13, EditKeepsOrigin DEF EditCandidate, Return
  <2>2. QED
    BY <2>1 DEF IsFor
<1>14. ASSUME NEW t \in Thread, ReplaceCandidateWithBase(t) PROVE BasedText'
  BY <1>14 DEF ReplaceCandidateWithBase
<1>15. ASSUME NEW t \in Thread, ReplaceEnd(t) PROVE BasedText'
  <2>1. call[t].session \in Session /\ UNCHANGED version
    BY <1>15 DEF ReplaceEnd, CallHasSession
  <2>2. Rebased(call[t].session) \/ UNCHANGED candidateVars
    BY <1>15, ReplaceEndRebases
  <2>3. QED
    BY <2>1, <2>2 DEF Rebased
<1>16. ASSUME NEW t \in Thread, Discard(t) PROVE BasedText'
  <2> call[t].session \in Session
    BY <1>16 DEF Discard, InSession, CallHasSession
  <2>1. Rebased(call[t].session) \/ UNCHANGED candidateVars
    BY <1>16, CandidateReset DEF Discard, Return
  <2>2. UNCHANGED version
    BY <1>16 DEF Discard, Return
  <2>3. QED
    BY <2>1, <2>2 DEF Rebased
<1>17. ASSUME NEW t \in Thread, NEW op \in {"commit", "rollback"}, Commit(t, op) PROVE BasedText'
  BY <1>17 DEF Commit, InSession, MayCommit, Idle
<1>18. ASSUME NEW t \in Thread, CommitEnd(t) PROVE BasedText'
  <2> call[t].session \in Session
    BY <1>18 DEF CommitEnd, CallHasSession
  <2>2. Rebased(call[t].session) \/ UNCHANGED candidateVars
    BY <1>18, CommitEndRebases
  <2>3. version' \in Nat /\ version <= version'
    BY <1>18 DEF CommitEnd, Published
  <2>4. QED
    BY <2>2, <2>3 DEF Rebased
<1>19. CASE OtherCommit
  BY <1>19 DEF OtherCommit
<1>20. CASE Tick
  BY <1>20 DEF Tick
<1>21. CASE UNCHANGED vars
  BY <1>21 DEF vars
<1>22. QED
  BY <1>1, <1>2, <1>3, <1>4, <1>5, <1>6, <1>7, <1>8, <1>9, <1>10, <1>11, <1>12, <1>13, <1>14, <1>15, <1>16, <1>17, <1>18, <1>19, <1>20, <1>21 DEF Next, InManager, OnSession

\* The six lemmas together.
LEMMA IInvStep == IInv /\ [Next]_vars => IInv'
BY TypeOKStep, LockAgreesStep, MutexOrderStep, CallHasSessionStep, CallHoldsMutexStep, BasedTextStep
   DEF IInv

\* The state of the gRPC server's sessions keeps its types (SessionManager,
\* Session).
THEOREM TypeCorrect == Spec => []TypeOK
<1>1. IInv => TypeOK
  BY DEF IInv
<1>2. QED
  BY InitIInv, IInvStep, <1>1, PTL DEF Spec

\* The manager's lockHeld and the sessions' HasLock name the same session,
\* one that exists (SessionManager).
THEOREM LockHolderAgreed == Spec => []LockAgrees
<1>1. IInv => LockAgrees
  BY DEF IInv
<1>2. QED
  BY InitIInv, IInvStep, <1>1, PTL DEF Spec

\* m.mu and session.mu are taken in one order, and the holder of a session's
\* mutex waits for neither (expireLocked, Server.Commit,
\* Server.ReplaceCandidateWithBase).
THEOREM MutexesOrdered == Spec => []MutexOrder
<1>1. IInv => MutexOrder
  BY DEF IInv
<1>2. QED
  BY InitIInv, IInvStep, <1>1, PTL DEF Spec

\* Commits keep the candidate lock to the end and so exclude each other
\* (Server.Commit).
THEOREM CommitsExclusive == Spec => []CommitKeepsLock
<1>1. IInv => CommitKeepsLock
  <2> SUFFICES ASSUME IInv PROVE CommitKeepsLock
    OBVIOUS
  <2>1. \A t \in Thread : call[t].at = "commit" => lockHeld = call[t].session /\ sMu[lockHeld] = t
    BY DEF IInv, LockAgrees, CallHasSession, CallHoldsMutex
  <2>2. QED
    BY <2>1 DEF CommitKeepsLock
<1>2. QED
  BY InitIInv, IInvStep, <1>1, PTL DEF Spec

\* A commit publishes a candidate that is for the base it was checked against,
\* except after a replacement overtaken in a session without a base
\* (Server.Commit, Server.ReplaceCandidateWithBase).
THEOREM CommitsBased == Spec => []CommitIsBased
<1>1. IInv => CommitIsBased
  BY DEF IInv, CallHasSession, CallHoldsMutex, BasedText, IsFor, CommitIsBased
<1>2. QED
  BY InitIInv, IInvStep, <1>1, PTL DEF Spec

=============================================================================
