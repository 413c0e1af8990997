--------------------------- MODULE NetconfSessions ---------------------------
(***************************************************************************)
(* The life of a NETCONF session and of its datastore locks                *)
(* (pkg/netconf/session.go, rpc_lock.go, rpc_transaction.go and the RPC    *)
(* loop of ssh_server.go).                                                 *)
(*                                                                         *)
(* Each session has a goroutine, the loop of handleNETCONF, that handles   *)
(* one RPC after the other.  A lock is taken or given back in the store    *)
(* first and noted in the session (AddLock, RemoveLock) afterwards.        *)
(* closeSession releases what the session has noted; it is run by the      *)
(* loop's own deferred CloseSession or, while an RPC is in flight, by the  *)
(* goroutine of a kill-session, of the expiry ticker or of the shutdown:   *)
(* by whoever removes the session from the manager's map.                  *)
(***************************************************************************)
EXTENDS FiniteSets

CONSTANTS
  Session,  \* session identifiers, never reused
  Target,   \* DatastoreCandidate, DatastoreRunning
  None      \* no holder

ASSUME SessionsAssumption == None \notin Session

VARIABLES
  sessions,  \* sm.sessions
  loop,      \* loop[s]: where the RPC loop of s is, and for which target
  noted,     \* noted[s]: datastoreLocks
  closing,   \* closing[s]: where closeSession(s) is
  release,   \* release[s]: the locks it has still to release
  open,      \* open[s]: the SSH channel
  holder     \* holder[t]: the owner of lock t in the datastore

vars == <<sessions, loop, noted, closing, release, open, holder>>

\* An RPC that has called the store is named by what it does next.
Loop == [at : {"unborn", "read", "AddLock", "RemoveLock", "deferred", "done"},
         target : Target \cup {None}]
At(at) == [at |-> at, target |-> None]

Init ==
  /\ sessions = {}
  /\ loop = [s \in Session |-> At("unborn")]
  /\ noted = [s \in Session |-> {}]
  /\ closing = [s \in Session |-> "no"]
  /\ release = [s \in Session |-> {}]
  /\ open = [s \in Session |-> TRUE]
  /\ holder = [t \in Target |-> None]

Create(s) ==
  /\ loop[s].at = "unborn"
  /\ sessions' = sessions \cup {s}
  /\ loop' = [loop EXCEPT ![s] = At("read")]
  /\ UNCHANGED <<noted, closing, release, open, holder>>

-----------------------------------------------------------------------------
(* The RPC loop.  ReadMessage is buffered: an RPC that came with an earlier *)
(* one is still read after the channel has been closed.                     *)

\* AcquireLock succeeds; a session may lock again what it holds.
handleLock(s, t) ==
  /\ loop[s].at = "read"
  /\ holder[t] \in {None, s}
  /\ holder' = [holder EXCEPT ![t] = s]
  /\ loop' = [loop EXCEPT ![s] = [at |-> "AddLock", target |-> t]]
  /\ UNCHANGED <<sessions, noted, closing, release, open>>

\* Mutant of handleUnlock: the note is dropped although the lock stays.
handleUnlockOfNote(s, t) ==
  /\ loop[s].at = "read"
  /\ holder[t] = s
  /\ loop' = [loop EXCEPT ![s] = [at |-> "RemoveLock", target |-> t]]
  /\ UNCHANGED <<sessions, noted, closing, release, open, holder>>

handleUnlock(s, t) ==
  /\ loop[s].at = "read"
  /\ holder[t] = s
  /\ holder' = [holder EXCEPT ![t] = None]
  /\ loop' = [loop EXCEPT ![s] = [at |-> "RemoveLock", target |-> t]]
  /\ UNCHANGED <<sessions, noted, closing, release, open>>

\* Datastore.Commit releases the candidate lock.
handleCommit(s) == "candidate" \in Target /\ handleUnlock(s, "candidate")

\* The loop goes on when the reply can be written.
Reply(s) == loop' = [loop EXCEPT ![s] = At(IF open[s] THEN "read" ELSE "deferred")]

AddLock(s) ==
  /\ loop[s].at = "AddLock"
  /\ noted' = [noted EXCEPT ![s] = @ \cup {loop[s].target}]
  /\ Reply(s)
  /\ UNCHANGED <<sessions, closing, release, open, holder>>

RemoveLock(s) ==
  /\ loop[s].at = "RemoveLock"
  /\ noted' = [noted EXCEPT ![s] = @ \ {loop[s].target}]
  /\ Reply(s)
  /\ UNCHANGED <<sessions, closing, release, open, holder>>

\* The client hangs up or asks for close-session.
Hangup(s) ==
  /\ loop[s].at = "read"
  /\ open[s]
  /\ open' = [open EXCEPT ![s] = FALSE]
  /\ UNCHANGED <<sessions, loop, noted, closing, release, holder>>

\* Nothing is buffered and the channel is closed.
ReadFails(s) ==
  /\ loop[s].at = "read"
  /\ ~open[s]
  /\ loop' = [loop EXCEPT ![s] = At("deferred")]
  /\ UNCHANGED <<sessions, noted, closing, release, open, holder>>

-----------------------------------------------------------------------------
(* Closing *)

\* The session leaves the map, and closeSession is whoever took it out's to run.
Take(s) ==
  /\ s \in sessions
  /\ sessions' = sessions \ {s}
  /\ closing' = [closing EXCEPT ![s] = "list"]

\* kill-session of another session, cleanupExpiredSessions, CloseAll.
CloseSession(s) ==
  /\ Take(s)
  /\ UNCHANGED <<loop, noted, release, open, holder>>

\* The loop's deferred CloseSession returns when closeSession has, or at once
\* when another goroutine has taken the session.
DeferredClose(s) ==
  /\ loop[s].at = "deferred"
  /\ IF s \in sessions THEN Take(s) ELSE UNCHANGED <<sessions, closing>>
  /\ loop' = [loop EXCEPT ![s] = At("done")]
  /\ UNCHANGED <<noted, release, open, holder>>

GetLocks(s) ==
  /\ closing[s] = "list"
  /\ closing' = [closing EXCEPT ![s] = "release"]
  /\ release' = [release EXCEPT ![s] = noted[s]]
  /\ UNCHANGED <<sessions, loop, noted, open, holder>>

\* A lock that is no longer the session's stays noted.
ReleaseLock(s, t) ==
  /\ closing[s] = "release"
  /\ t \in release[s]
  /\ release' = [release EXCEPT ![s] = @ \ {t}]
  /\ IF holder[t] = s
       THEN /\ holder' = [holder EXCEPT ![t] = None]
            /\ noted' = [noted EXCEPT ![s] = @ \ {t}]
       ELSE UNCHANGED <<holder, noted>>
  /\ UNCHANGED <<sessions, loop, closing, open>>

\* Mutant of CloseChannel: the channel stays open.
LeaveChannelOpen(s) ==
  /\ closing[s] = "release"
  /\ release[s] = {}
  /\ closing' = [closing EXCEPT ![s] = "closed"]
  /\ UNCHANGED <<sessions, loop, noted, release, open, holder>>

CloseChannel(s) ==
  /\ closing[s] = "release"
  /\ release[s] = {}
  /\ closing' = [closing EXCEPT ![s] = "closed"]
  /\ open' = [open EXCEPT ![s] = FALSE]
  /\ UNCHANGED <<sessions, loop, noted, release, holder>>

\* The lock's hour is over.
Expire(t) ==
  /\ holder[t] # None
  /\ holder' = [holder EXCEPT ![t] = None]
  /\ UNCHANGED <<sessions, loop, noted, closing, release, open>>

Handle(s) == handleCommit(s) \/ \E t \in Target : handleLock(s, t) \/ handleUnlock(s, t)

\* What the loop of s does by itself.
Continue(s) == AddLock(s) \/ RemoveLock(s) \/ ReadFails(s) \/ DeferredClose(s)

closeSession(s) == GetLocks(s) \/ CloseChannel(s) \/ \E t \in Target : ReleaseLock(s, t)

Next ==
  \/ \E s \in Session :
       \/ Create(s)
       \/ Handle(s)
       \/ Hangup(s)
       \/ CloseSession(s)
       \/ Continue(s)
       \/ closeSession(s)
  \/ \E t \in Target : Expire(t)

\* Goroutines run on, and time passes.
Fairness ==
  /\ \A s \in Session : WF_vars(Continue(s)) /\ WF_vars(closeSession(s))
  /\ \A t \in Target : WF_vars(Expire(t))

Spec == Init /\ [][Next]_vars /\ Fairness

-----------------------------------------------------------------------------

TypeOK ==
  /\ sessions \subseteq Session
  /\ loop \in [Session -> Loop]
  /\ noted \in [Session -> SUBSET Target]
  /\ closing \in [Session -> {"no", "list", "release", "closed"}]
  /\ release \in [Session -> SUBSET Target]
  /\ open \in [Session -> BOOLEAN]
  /\ holder \in [Target -> Session \cup {None}]

Noting(s, t) == loop[s] = [at |-> "AddLock", target |-> t]

\* A lock in the store that belongs to a session still in the manager's map is
\* noted there, where closing the session looks for it, or about to be.
HeldLocksAreNoted ==
  \A s \in sessions, t \in Target : holder[t] = s => t \in noted[s] \/ Noting(s, t)

\* Once a session has left the map, its loop ends and its locks are given up.
ClosedSessionsEnd ==
  \A s \in Session :
    closing[s] # "no" ~> loop[s].at = "done" /\ \A t \in Target : holder[t] # s

\* When a session has been closed and its loop has ended, it holds no lock.
NoLockOutlivesSession ==
  \A s \in Session, t \in Target :
    closing[s] = "closed" /\ loop[s].at = "done" => holder[t] # s

=============================================================================
