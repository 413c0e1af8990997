------------------------ MODULE NetconfSessionsProofs ------------------------
(***************************************************************************)
(* For any number of sessions and of targets: as long as a session is in   *)
(* the manager's map, the locks it holds in the store are noted where      *)
(* closing it will look for them.                                          *)
(***************************************************************************)
EXTENDS NetconfSessions, TLAPS

\* An RPC between the store and the note has a target.
TargetKnown ==
  \A s \in Session : loop[s].at \in {"AddLock", "RemoveLock"} => loop[s].target \in Target

\* A note is dropped only once the store has given up the lock, and a session
\* that is yet to come holds nothing.
NotHeld ==
  \A s \in Session, t \in Target :
    loop[s].at = "unborn" \/ loop[s] = [at |-> "RemoveLock", target |-> t] => holder[t] # s

IInv == TypeOK /\ TargetKnown /\ NotHeld /\ HeldLocksAreNoted

\* The invariant holds initially: there is no session and no lock.
LEMMA InitIInv == Init => IInv
BY SessionsAssumption
   DEF Init, IInv, TypeOK, TargetKnown, NotHeld, HeldLocksAreNoted, At, Loop, Noting

\* The places a loop goes to.
LEMMA LoopTypes ==
  ASSUME NEW at \in {"unborn", "read", "AddLock", "RemoveLock", "deferred", "done"}
  PROVE  /\ At(at) \in Loop /\ At(at).at = at
         /\ \A t \in Target : [at |-> at, target |-> t] \in Loop
BY DEF At, Loop

\* Every step keeps the types, and targets known.
LEMMA TypeOKStep ==
  ASSUME IInv, [Next]_vars
  PROVE  TypeOK' /\ TargetKnown'
<1> USE DEF IInv, TypeOK, TargetKnown
<1>1. ASSUME NEW s \in Session, Create(s) PROVE TypeOK' /\ TargetKnown'
  BY <1>1, LoopTypes DEF Create
<1>2. ASSUME NEW s \in Session, NEW t \in Target, handleLock(s, t) PROVE TypeOK' /\ TargetKnown'
  BY <1>2, LoopTypes DEF handleLock
<1>3. ASSUME NEW s \in Session, NEW t \in Target, handleUnlock(s, t) PROVE TypeOK' /\ TargetKnown'
  BY <1>3, LoopTypes DEF handleUnlock
<1>4. ASSUME NEW s \in Session, Hangup(s) PROVE TypeOK' /\ TargetKnown'
  BY <1>4 DEF Hangup
<1>5. ASSUME NEW s \in Session, CloseSession(s) PROVE TypeOK' /\ TargetKnown'
  BY <1>5 DEF CloseSession, Take
<1>6. ASSUME NEW s \in Session, AddLock(s) PROVE TypeOK' /\ TargetKnown'
  BY <1>6, LoopTypes DEF AddLock, Reply
<1>7. ASSUME NEW s \in Session, RemoveLock(s) PROVE TypeOK' /\ TargetKnown'
  BY <1>7, LoopTypes DEF RemoveLock, Reply
<1>8. ASSUME NEW s \in Session, ReadFails(s) PROVE TypeOK' /\ TargetKnown'
  BY <1>8, LoopTypes DEF ReadFails
<1>9. ASSUME NEW s \in Session, DeferredClose(s) PROVE TypeOK' /\ TargetKnown'
  BY <1>9, LoopTypes DEF DeferredClose, Take
<1>10. ASSUME NEW s \in Session, GetLocks(s) PROVE TypeOK' /\ TargetKnown'
  BY <1>10 DEF GetLocks
<1>11. ASSUME NEW s \in Session, NEW t \in Target, ReleaseLock(s, t) PROVE TypeOK' /\ TargetKnown'
  BY <1>11 DEF ReleaseLock
<1>12. ASSUME NEW s \in Session, CloseChannel(s) PROVE TypeOK' /\ TargetKnown'
  BY <1>12 DEF CloseChannel
<1>13. ASSUME NEW t \in Target, Expire(t) PROVE TypeOK' /\ TargetKnown'
  BY <1>13 DEF Expire
<1>14. CASE UNCHANGED vars
  BY <1>14 DEF vars
<1>15. QED
  BY <1>1, <1>2, <1>3, <1>4, <1>5, <1>6, <1>7, <1>8, <1>9, <1>10, <1>11, <1>12, <1>13, <1>14
     DEF Next, Handle, handleCommit, Continue, closeSession

\* Every step keeps the notes of the sessions in the map complete.
LEMMA NotesStep ==
  ASSUME IInv, [Next]_vars
  PROVE  NotHeld' /\ HeldLocksAreNoted'
<1> USE SessionsAssumption DEF IInv, TypeOK, TargetKnown, NotHeld, HeldLocksAreNoted, Noting, Loop
<1>1. ASSUME NEW s \in Session, Create(s) PROVE NotHeld' /\ HeldLocksAreNoted'
  BY <1>1 DEF Create, At
<1>2. ASSUME NEW s \in Session, NEW t \in Target, handleLock(s, t) PROVE NotHeld' /\ HeldLocksAreNoted'
  BY <1>2 DEF handleLock
<1>3. ASSUME NEW s \in Session, NEW t \in Target, handleUnlock(s, t) PROVE NotHeld' /\ HeldLocksAreNoted'
  BY <1>3 DEF handleUnlock
<1>4. ASSUME NEW s \in Session, Hangup(s) PROVE NotHeld' /\ HeldLocksAreNoted'
  BY <1>4 DEF Hangup
<1>5. ASSUME NEW s \in Session, CloseSession(s) PROVE NotHeld' /\ HeldLocksAreNoted'
  BY <1>5 DEF CloseSession, Take
<1>6. ASSUME NEW s \in Session, AddLock(s) PROVE NotHeld' /\ HeldLocksAreNoted'
  BY <1>6 DEF AddLock, Reply, At
<1>7. ASSUME NEW s \in Session, RemoveLock(s) PROVE NotHeld' /\ HeldLocksAreNoted'
  BY <1>7 DEF RemoveLock, Reply, At
<1>8. ASSUME NEW s \in Session, ReadFails(s) PROVE NotHeld' /\ HeldLocksAreNoted'
  BY <1>8 DEF ReadFails, At
<1>9. ASSUME NEW s \in Session, DeferredClose(s) PROVE NotHeld' /\ HeldLocksAreNoted'
  BY <1>9 DEF DeferredClose, Take, At
<1>10. ASSUME NEW s \in Session, GetLocks(s) PROVE NotHeld' /\ HeldLocksAreNoted'
  BY <1>10 DEF GetLocks
<1>11. ASSUME NEW s \in Session, NEW t \in Target, ReleaseLock(s, t) PROVE NotHeld' /\ HeldLocksAreNoted'
  BY <1>11 DEF ReleaseLock
<1>12. ASSUME NEW s \in Session, CloseChannel(s) PROVE NotHeld' /\ HeldLocksAreNoted'
  BY <1>12 DEF CloseChannel
<1>13. ASSUME NEW t \in Target, Expire(t) PROVE NotHeld' /\ HeldLocksAreNoted'
  BY <1>13 DEF Expire
<1>14. CASE UNCHANGED vars
  BY <1>14 DEF vars
<1>15. QED
  BY <1>1, <1>2, <1>3, <1>4, <1>5, <1>6, <1>7, <1>8, <1>9, <1>10, <1>11, <1>12, <1>13, <1>14
     DEF Next, Handle, handleCommit, Continue, closeSession

\* The sessions, their loops and their locks keep their types (session.go).
THEOREM TypeCorrect == Spec => []TypeOK
<1>1. IInv /\ [Next]_vars => IInv'
  BY TypeOKStep, NotesStep DEF IInv
<1>2. IInv => TypeOK
  BY DEF IInv
<1>3. QED
  BY InitIInv, <1>1, <1>2, PTL DEF Spec

\* What a session in the map holds in the store is noted, or the RPC that
\* locked it is about to note it (AddLock, RemoveLock).
THEOREM LocksNoted == Spec => []HeldLocksAreNoted
<1>1. IInv /\ [Next]_vars => IInv'
  BY TypeOKStep, NotesStep DEF IInv
<1>2. IInv => HeldLocksAreNoted
  BY DEF IInv
<1>3. QED
  BY InitIInv, <1>1, <1>2, PTL DEF Spec

=============================================================================
