---------------------------- MODULE EtcdDatastore ----------------------------
(***************************************************************************)
(* The etcd backend of the configuration datastore (pkg/datastore/         *)
(* etcd*.go), shared by several routers.  A call is a sequence of etcd     *)
(* requests with other calls in between: it reads the lock key, asks for   *)
(* the time to live of its lease, and only then writes, comparing the key  *)
(* with what it read.  Each step below is one request that changes or      *)
(* reads shared state; granting a lease and asking for a time to live are  *)
(* part of the step that first reads the key.                              *)
(*                                                                         *)
(* A request may fail, its answer may be lost after it took effect, and    *)
(* the router may die between two requests.  Revoking a lease is best      *)
(* effort everywhere in the code.  The lock's JSON names its lease, so two *)
(* lock keys with equal values are the same write: comparing the value and *)
(* comparing ModRevision are one test here.                                *)
(***************************************************************************)
EXTENDS Naturals, Sequences, FiniteSets

CONSTANTS
  Proc,        \* goroutines (of one or several routers) that run a call
  Session,     \* session identifiers
  Text,        \* configuration texts
  Target,      \* what can be locked
  None,        \* no key, no call
  Past,        \* histories a store may start from
  Batch,       \* commitHistoryIndexBatchSize
  MaxLeases,   \* bound: leases granted
  MaxSaves,    \* bound: SaveCandidate calls
  MaxCommits   \* bound: commits

ASSUME NoneAssumption == None \notin Session /\ None \notin Text
ASSUME TargetAssumption == "candidate" \in Target
ASSUME PastAssumption == Past \subseteq Seq(Text)
ASSUME BatchAssumption == Batch \in Nat \ {0}
ASSUME BoundAssumption == MaxLeases \in Nat /\ MaxSaves \in Nat

VARIABLES
  leases,      \* leases[l]: the state of lease l in etcd
  locks,       \* locks[t]: the value of the lock key of target t, or None
  candidates,  \* candidates[s]: the candidate key of session s, or None
  saves,       \* number of writes to candidate keys (their ModRevision)
  commits,     \* texts of the commits, in the order of their transactions
  indexed,     \* numbers of the commits with a commit-history key
  version,     \* is the commit-history-index-version key set?
  open,        \* goroutines whose datastore NewEtcdDatastore returned
  call         \* call[p]: the call p is running, or None

vars == <<leases, locks, candidates, saves, commits, indexed, version, open, call>>

Lease == 1 .. MaxLeases
LockValue == [session : Session, lease : Lease]
Candidate == [text : Text, rev : 1 .. MaxSaves]

ASSUME KeyAssumption == None \notin Lease /\ None \notin LockValue /\ None \notin Candidate

\* A lease that ran out reports TTL 0 for a while before etcd deletes it.
LeaseState == {"unused", "live", "lapsing", "gone"}

\* What a goroutine carries from request to request.
Op == {"acquire", "extend", "release", "steal", "commit", "rollback", "read", "open"}
Pc == {"get", "revoke expired", "cas", "put", "giveup", "revoke old", "lock", "txn", "config",
       "done", "flush"}
Call == [op : Op,
         pc : Pc,
         session : Session \cup {None},
         target : Target,
         seen : LockValue \cup {None},       \* the lock key as it was read
         lease : Lease \cup {None},          \* the lease granted to this call
         victim : Session \cup {None},       \* StealLockRequest.TargetSessionID
         cand : Candidate \cup {None},       \* the candidate key as it was read
         text : Text \cup {None},            \* text to restore, or text returned
         at : Nat,                           \* commit number read by GetRunning
         todo : SUBSET Nat]                  \* commits still to be indexed

NewCall(op, pc, s, t) ==
  [op |-> op, pc |-> pc, session |-> s, target |-> t, seen |-> None,
   lease |-> None, victim |-> None, cand |-> None, text |-> None, at |-> 0, todo |-> {}]

Idle(p) == p \in open /\ call[p] = None
At(p, op, pc) == call[p] # None /\ call[p].op = op /\ call[p].pc = pc

\* The calls of this kind that p may be about to make its first request for: the
\* one it has got to, or, when it has none, any.
Asking(p, op) ==
  IF Idle(p)
    THEN {[NewCall(op, "get", s, t) EXCEPT !.victim = v] :
            s \in Session, t \in Target,
            v \in IF op = "steal" THEN Session \cup {None} ELSE {None}}
    ELSE IF At(p, op, "get") THEN {call[p]} ELSE {}

Set(p, c) == call' = [call EXCEPT ![p] = c]
Goto(p, pc) == call' = [call EXCEPT ![p].pc = pc]
End(p) == call' = [call EXCEPT ![p] = None]

-----------------------------------------------------------------------------
\* The etcd server, as the code uses it.

Known(l) == leases[l] \in {"live", "lapsing"}
Granted == {l \in Lease : leases[l] # "unused"}

\* Grant: a lease identifier that was never used.
CanGrant == Granted # Lease
Fresh == CHOOSE l \in Lease : leases[l] = "unused"

\* Deleting a lease deletes the keys attached to it.
DropLease(l) ==
  /\ leases' = [leases EXCEPT ![l] = "gone"]
  /\ locks' = [t \in Target |->
                 IF locks[t] # None /\ locks[t].lease = l THEN None ELSE locks[t]]

Attached(l) == \E t \in Target : locks[t] # None /\ locks[t].lease = l

\* ds.client.Revoke with its error ignored.  A lease without a key that is not
\* given back runs out, and nobody sees when.
Revoke(l) ==
  \/ DropLease(l)
  \/ Attached(l) /\ UNCHANGED <<leases, locks>>

\* Does a lock key or a call still depend on the lease?  What happens to any
\* other lease makes no difference.
Followed(l) == Attached(l) \/ \E p \in Proc : call[p] # None /\ call[p].lease = l

\* The time to live of a lease runs out, and later the server deletes it.
Lapse(l) ==
  /\ leases[l] = "live"
  /\ Followed(l)
  /\ leases' = [leases EXCEPT ![l] = "lapsing"]
  /\ UNCHANGED <<locks, candidates, saves, commits, indexed, version, open, call>>

Expire(l) ==
  /\ leases[l] = "lapsing"
  /\ Followed(l)
  /\ DropLease(l)
  /\ UNCHANGED <<candidates, saves, commits, indexed, version, open, call>>

-----------------------------------------------------------------------------

Init ==
  /\ leases = [l \in Lease |-> "unused"]
  /\ locks = [t \in Target |-> None]
  /\ candidates = [s \in Session |-> None]
  /\ saves = 0
  \* A new store, or one whose commits were made before the index existed.
  /\ commits \in Past
  /\ indexed = {}
  /\ version = FALSE
  /\ open = {}
  /\ call = [p \in Proc |-> None]

Store == <<candidates, saves, commits, indexed, version, open>>

\* Mutant of AcquireGet: a lock of another session is taken to have expired.
AcquireGetUnasked(p, c) ==
  LET seen == locks[c.target] IN
  /\ CanGrant
  /\ LET l == Fresh IN
       IF seen # None /\ seen.session = c.session
         THEN /\ leases' = [leases EXCEPT ![l] = "gone"]  \* or left to run out
              /\ Set(p, NewCall("extend", "get", c.session, c.target))
         ELSE /\ leases' = [leases EXCEPT ![l] = "live"]
              /\ Set(p, [c EXCEPT !.seen = seen, !.lease = l,
                           !.pc = IF seen = None THEN "put" ELSE "revoke expired"])
  /\ UNCHANGED <<locks, Store>>

\* AcquireLock: grant a lease, then read the lock key.  A session that already
\* has the lock gives the new lease back and extends instead.  When another
\* session has it, the time to live of its lease decides: a request of its own,
\* but what changes in between is noticed by the comparison in AcquireDelete.
AcquireGet(p, c) ==
  LET seen == locks[c.target] IN
  /\ CanGrant
  /\ LET l == Fresh IN
       IF seen # None /\ seen.session = c.session
         THEN /\ leases' = [leases EXCEPT ![l] = "gone"]  \* or left to run out
              /\ Set(p, NewCall("extend", "get", c.session, c.target))
         ELSE /\ leases' = [leases EXCEPT ![l] = "live"]
              /\ Set(p, [c EXCEPT !.seen = seen, !.lease = l,
                           !.pc = IF seen = None THEN "put"
                                  ELSE IF leases[seen.lease] = "live" THEN "giveup"
                                  ELSE "revoke expired"])
  /\ UNCHANGED <<locks, Store>>

AcquireRevokeExpired(p) ==
  /\ At(p, "acquire", "revoke expired")
  /\ Revoke(call[p].seen.lease)
  /\ Goto(p, "cas")
  /\ UNCHANGED Store

\* Delete the expired key if it is still the one that was read.  When revoking
\* its lease has already deleted it, the comparison fails.
AcquireDelete(p) ==
  LET c == call[p] IN
  /\ At(p, "acquire", "cas")
  /\ IF locks[c.target] = c.seen
       THEN locks' = [locks EXCEPT ![c.target] = None] /\ Goto(p, "put")
       ELSE UNCHANGED locks /\ Goto(p, "giveup")
  /\ UNCHANGED <<leases, Store>>

\* Mutant of AcquirePut: the key is written without asking whether it is absent.
AcquirePutBlind(p) ==
  LET c == call[p] IN
  /\ At(p, "acquire", "put")
  /\ Known(c.lease)
  /\ locks' = [locks EXCEPT ![c.target] = [session |-> c.session, lease |-> c.lease]]
  /\ End(p)
  /\ UNCHANGED <<leases, Store>>

\* Write the key if it is absent, attached to the lease.  The answer may be lost.
AcquirePut(p) ==
  LET c == call[p] IN
  /\ At(p, "acquire", "put")
  /\ IF Known(c.lease) /\ locks[c.target] = None
       THEN /\ locks' = [locks EXCEPT ![c.target] = [session |-> c.session, lease |-> c.lease]]
            /\ End(p) \/ Goto(p, "giveup")
       ELSE UNCHANGED locks /\ Goto(p, "giveup")
  /\ UNCHANGED <<leases, Store>>

\* An error or a conflict: the lease granted to this call is given back.
GiveUp(p) ==
  /\ call[p] # None
  /\ call[p].pc = "giveup"
  /\ Revoke(call[p].lease)
  /\ End(p)
  /\ UNCHANGED Store

\* ExtendLock: the session must own the lock and its lease must be alive.  That
\* the time to live is a request of its own makes no difference: what changes
\* after the key was read is noticed by the comparison in ExtendPut.
ExtendGet(p, c) ==
  LET seen == locks[c.target] IN
  /\ IF seen # None /\ seen.session = c.session /\ leases[seen.lease] = "live"
       THEN /\ CanGrant
            /\ leases' = [leases EXCEPT ![Fresh] = "live"]
            /\ Set(p, [c EXCEPT !.seen = seen, !.lease = Fresh, !.pc = "put"])
       ELSE End(p) /\ UNCHANGED leases
  /\ UNCHANGED <<locks, Store>>

\* Mutant of ExtendPut: the old lease goes before the key is moved to the new one.
ExtendPutLate(p) ==
  LET c == call[p] IN
  /\ At(p, "extend", "put")
  /\ DropLease(c.seen.lease)
  /\ Goto(p, "giveup")
  /\ UNCHANGED Store

\* Move the key to the new lease if it is still the one that was read.
ExtendPut(p) ==
  LET c == call[p] IN
  /\ At(p, "extend", "put")
  /\ IF Known(c.lease) /\ locks[c.target] = c.seen
       THEN /\ locks' = [locks EXCEPT ![c.target].lease = c.lease]
            /\ Goto(p, "revoke old") \/ Goto(p, "giveup")
       ELSE UNCHANGED locks /\ Goto(p, "giveup")
  /\ UNCHANGED <<leases, Store>>

\* The lease of the key this call replaced or deleted is no longer needed.
RevokeOld(p) ==
  LET c == call[p] IN
  /\ c # None /\ c.op # "steal" /\ c.pc = "revoke old"
  /\ Revoke(c.seen.lease)
  /\ End(p)
  /\ UNCHANGED Store

\* ReleaseLock of a lock the session owns; any other answer changes nothing.
ReleaseGet(p, c) ==
  LET seen == locks[c.target] IN
  /\ IF seen # None /\ seen.session = c.session
       THEN Set(p, [c EXCEPT !.seen = seen, !.pc = "cas"])
       ELSE End(p)
  /\ UNCHANGED <<leases, locks, Store>>

\* StealLock: any lock, or only the one of the session it names.
StealGet(p, c) ==
  LET seen == locks[c.target] IN
  /\ CASE seen = None ->
            Set(p, NewCall("acquire", "get", c.session, c.target))
       [] seen # None /\ c.victim \in {None, seen.session} ->
            Set(p, [c EXCEPT !.seen = seen, !.pc = "cas"])
       [] OTHER -> End(p)
  /\ UNCHANGED <<leases, locks, Store>>

\* Mutant of DeleteSeen: whatever is there is deleted.
DeleteSeenBlind(p) ==
  /\ locks' = [locks EXCEPT ![call[p].target] = None]
  /\ Goto(p, "revoke old")
  /\ UNCHANGED <<leases, Store>>

\* ReleaseLock and StealLock delete the key if it is still the one they read.
DeleteSeen(p) ==
  LET c == call[p] IN
  /\ IF locks[c.target] = c.seen
       THEN locks' = [locks EXCEPT ![c.target] = None] /\ Goto(p, "revoke old")
       ELSE UNCHANGED locks /\ End(p)
  /\ UNCHANGED <<leases, Store>>

ReleaseDelete(p) == At(p, "release", "cas") /\ DeleteSeen(p)

StealDelete(p) == At(p, "steal", "cas") /\ DeleteSeen(p)

\* The thief acquires the lock in a call of its own, which may find it taken.
StealAcquire(p) ==
  LET c == call[p] IN
  /\ At(p, "steal", "revoke old")
  /\ Revoke(c.seen.lease)
  /\ Set(p, NewCall("acquire", "get", c.session, c.target))
  /\ UNCHANGED Store

-----------------------------------------------------------------------------

SaveCandidate(p, s, x) ==
  /\ Idle(p)
  /\ saves < MaxSaves
  /\ saves' = saves + 1
  /\ candidates' = [candidates EXCEPT ![s] = [text |-> x, rev |-> saves']]
  /\ UNCHANGED <<leases, locks, commits, indexed, version, open, call>>

DeleteCandidate(p, s) ==
  /\ Idle(p)
  /\ candidates' = [candidates EXCEPT ![s] = None]
  /\ UNCHANGED <<leases, locks, saves, commits, indexed, version, open, call>>

\* Commit reads the candidate first; Rollback, the commit to go back to.
CommitCall(p, s) ==
  /\ Idle(p)
  /\ Len(commits) < MaxCommits
  /\ candidates[s] # None
  /\ Set(p, [NewCall("commit", "lock", s, "candidate") EXCEPT !.cand = candidates[s]])
  /\ UNCHANGED <<leases, locks, Store>>

RollbackCall(p, s, i) ==
  /\ Idle(p)
  /\ Len(commits) < MaxCommits
  /\ Set(p, [NewCall("rollback", "lock", s, "candidate") EXCEPT !.text = commits[i]])
  /\ UNCHANGED <<leases, locks, Store>>

\* Then the lock, which must be the session's own, and its lease be alive.
VerifyLock(p) ==
  LET c == call[p]
      seen == locks["candidate"]
  IN
  /\ IF seen # None /\ seen.session = c.session /\ leases[seen.lease] = "live"
       THEN Set(p, [c EXCEPT !.seen = seen, !.pc = "txn"])
       ELSE End(p)
  /\ UNCHANGED <<leases, locks, Store>>

CommitLock(p) == At(p, "commit", "lock") /\ VerifyLock(p)

RollbackLock(p) == At(p, "rollback", "lock") /\ VerifyLock(p)

\* Mutant of Record: the index key counts from the commit after.
RecordIndexesNext(x) ==
  /\ commits' = Append(commits, x)
  /\ indexed' = indexed \cup {Len(commits') + 1}
  /\ locks' = [locks EXCEPT !["candidate"] = None]

\* The puts that Commit and Rollback share: running metadata and text, the
\* commit and its index key; and the lock key is deleted.
Record(x) ==
  /\ commits' = Append(commits, x)
  /\ indexed' = indexed \cup {Len(commits')}
  /\ locks' = [locks EXCEPT !["candidate"] = None]

\* Mutants of CommitTxn: the lock is not compared; the candidate is not.
CommitTxnWithoutLock(p) ==
  LET c == call[p] IN
  /\ At(p, "commit", "txn")
  /\ IF candidates[c.session] = c.cand
       THEN /\ Record(c.cand.text)
            /\ candidates' = [candidates EXCEPT ![c.session] = None]
            /\ Goto(p, "revoke old")
       ELSE End(p) /\ UNCHANGED <<locks, candidates, commits, indexed>>
  /\ UNCHANGED <<leases, saves, version, open>>

CommitTxnOfOldCandidate(p) ==
  LET c == call[p] IN
  /\ At(p, "commit", "txn")
  /\ IF locks["candidate"] = c.seen
       THEN /\ Record(c.cand.text)
            /\ candidates' = [candidates EXCEPT ![c.session] = None]
            /\ Goto(p, "revoke old")
       ELSE End(p) /\ UNCHANGED <<locks, candidates, commits, indexed>>
  /\ UNCHANGED <<leases, saves, version, open>>

\* One transaction, if neither the lock nor the candidate changed meanwhile.
CommitTxn(p) ==
  LET c == call[p] IN
  /\ At(p, "commit", "txn")
  /\ IF locks["candidate"] = c.seen /\ candidates[c.session] = c.cand
       THEN /\ Record(c.cand.text)
            /\ candidates' = [candidates EXCEPT ![c.session] = None]
            /\ Goto(p, "revoke old")
       ELSE End(p) /\ UNCHANGED <<locks, candidates, commits, indexed>>
  /\ UNCHANGED <<leases, saves, version, open>>

RollbackTxn(p) ==
  LET c == call[p] IN
  /\ At(p, "rollback", "txn")
  /\ IF locks["candidate"] = c.seen
       THEN Record(c.text) /\ Goto(p, "revoke old")
       ELSE End(p) /\ UNCHANGED <<locks, commits, indexed>>
  /\ UNCHANGED <<leases, candidates, saves, version, open>>

\* GetRunning reads the metadata, and then the text as of the same revision.
GetRunning(p) ==
  /\ Idle(p)
  /\ commits # << >>
  /\ Set(p, [NewCall("read", "config", None, "candidate") EXCEPT !.at = Len(commits)])
  /\ UNCHANGED <<leases, locks, Store>>

\* Mutant of GetRunningConfig: the second read is not pinned to a revision.
GetRunningConfigUnpinned(p) ==
  /\ At(p, "read", "config")
  /\ Set(p, [call[p] EXCEPT !.text = commits[Len(commits)], !.pc = "done"])
  /\ UNCHANGED <<leases, locks, Store>>

GetRunningConfig(p) ==
  /\ At(p, "read", "config")
  /\ Set(p, [call[p] EXCEPT !.text = commits[call[p].at], !.pc = "done"])
  /\ UNCHANGED <<leases, locks, Store>>

GetRunningReturn(p) ==
  /\ At(p, "read", "done")
  /\ End(p)
  /\ UNCHANGED <<leases, locks, Store>>

-----------------------------------------------------------------------------

\* NewEtcdDatastore: unless the version key is there, every commit found gets
\* its index key, Batch commits to a transaction, the version key in the last.
Open(p) ==
  /\ p \notin open
  /\ call[p] = None
  /\ IF version
       THEN open' = open \cup {p} /\ UNCHANGED call
       ELSE /\ Set(p, [NewCall("open", "flush", None, "candidate") EXCEPT !.todo = 1 .. Len(commits)])
            /\ UNCHANGED open
  /\ UNCHANGED <<leases, locks, candidates, saves, commits, indexed, version>>

\* Mutant of ensureCommitHistoryIndex: the version key is in every batch.
ensureCommitHistoryIndexEarly(p) ==
  LET todo == call[p].todo IN
  /\ At(p, "open", "flush")
  /\ version' = TRUE
  /\ IF Cardinality(todo) < Batch
       THEN /\ indexed' = indexed \cup todo
            /\ open' = open \cup {p}
            /\ End(p)
       ELSE \E b \in SUBSET todo :
              /\ Cardinality(b) = Batch
              /\ indexed' = indexed \cup b
              /\ Set(p, [call[p] EXCEPT !.todo = todo \ b])
              /\ UNCHANGED open
  /\ UNCHANGED <<leases, locks, candidates, saves, commits>>

ensureCommitHistoryIndex(p) ==
  LET todo == call[p].todo IN
  /\ At(p, "open", "flush")
  /\ IF Cardinality(todo) < Batch
       THEN /\ indexed' = indexed \cup todo
            /\ version' = TRUE
            /\ open' = open \cup {p}
            /\ End(p)
       ELSE \E b \in SUBSET todo :
              /\ Cardinality(b) = Batch
              /\ indexed' = indexed \cup b
              /\ Set(p, [call[p] EXCEPT !.todo = todo \ b])
              /\ UNCHANGED <<version, open>>
  /\ UNCHANGED <<leases, locks, candidates, saves, commits>>

\* The commits ListCommitHistory returns: those of the index, or of a scan when
\* the index is empty.
ListCommitHistory == IF indexed # {} THEN indexed ELSE 1 .. Len(commits)

-----------------------------------------------------------------------------

\* A request fails, or the answer to a delete is lost: the call returns an
\* error, giving back the lease it was granted.  That a lease cannot be revoked
\* is no error.
Fail(p) ==
  LET c == call[p] IN
  /\ c # None
  /\ c.pc \notin {"giveup", "flush", "done", "revoke expired", "revoke old"}
  /\ IF c.lease # None THEN Goto(p, "giveup") ELSE End(p)
  /\ UNCHANGED <<leases, locks, Store>>

\* The router dies while it builds the index, and opens the datastore again.
\* Dying in any other call is, for the others, a request that fails and a lease
\* that is not given back.
Crash(p) ==
  /\ At(p, "open", "flush")
  /\ End(p)
  /\ UNCHANGED <<leases, locks, Store>>

LockStep(p) ==
  \/ \E c \in Asking(p, "acquire") : AcquireGet(p, c)
  \/ AcquireRevokeExpired(p)
  \/ AcquireDelete(p)
  \/ AcquirePut(p)
  \/ GiveUp(p)
  \/ \E c \in Asking(p, "extend") : ExtendGet(p, c)
  \/ ExtendPut(p)
  \/ RevokeOld(p)
  \/ \E c \in Asking(p, "release") : ReleaseGet(p, c)
  \/ \E c \in Asking(p, "steal") : StealGet(p, c)
  \/ ReleaseDelete(p)
  \/ StealDelete(p)
  \/ StealAcquire(p)

StoreStep(p) ==
  \/ CommitLock(p)
  \/ RollbackLock(p)
  \/ CommitTxn(p)
  \/ RollbackTxn(p)
  \/ GetRunning(p)
  \/ GetRunningConfig(p)
  \/ GetRunningReturn(p)
  \/ Open(p)
  \/ ensureCommitHistoryIndex(p)

Request(p) ==
  \/ \E s \in Session, x \in Text : SaveCandidate(p, s, x)
  \/ \E s \in Session : DeleteCandidate(p, s) \/ CommitCall(p, s)
  \/ \E s \in Session, i \in 1 .. Len(commits) : RollbackCall(p, s, i)

Next ==
  \/ \E p \in Proc : LockStep(p) \/ StoreStep(p) \/ Request(p) \/ Fail(p) \/ Crash(p)
  \/ \E l \in Lease : Lapse(l) \/ Expire(l)

Spec == Init /\ [][Next]_vars

-----------------------------------------------------------------------------

TypeOK ==
  /\ leases \in [Lease -> LeaseState]
  /\ locks \in [Target -> LockValue \cup {None}]
  /\ candidates \in [Session -> Candidate \cup {None}]
  /\ saves \in 0 .. MaxSaves
  /\ commits \in Seq(Text)
  /\ indexed \in SUBSET (1 .. Len(commits))
  /\ version \in BOOLEAN
  /\ open \in SUBSET Proc
  /\ call \in [Proc -> Call \cup {None}]

\* Is p at the request that ends a lock of session s: its own release, commit,
\* rollback or failed attempt, or a theft that names s or nobody?
MayEnd(p, s) ==
  /\ call[p] # None
  /\ \/ /\ call[p].session = s
        /\ \/ call[p].op = "release" /\ call[p].pc = "cas"
           \/ call[p].op \in {"commit", "rollback"} /\ call[p].pc = "txn"
           \/ call[p].pc = "giveup"
     \/ At(p, "steal", "cas") /\ call[p].victim \in {None, s}

\* A lock whose lease is alive stays with its session until that session gives
\* it up or somebody steals it, and a thief that names a victim takes from
\* nobody else.  In particular no revoked lease takes a later lock with it, and
\* a lock found expired is not deleted after its session took it again.
LiveLockKept ==
  [][\A t \in Target :
       locks[t] # None /\ leases[locks[t].lease] = "live" =>
         \/ locks'[t] # None /\ locks'[t].session = locks[t].session
         \/ locks'[t] = None /\ \E p \in Proc : MayEnd(p, locks[t].session) /\ call'[p] # call[p]]_vars

\* GetRunning returns the text of the very commit its metadata names, although
\* it reads the two keys in two requests and commits may fall in between.
RunningReadIsOneCommit ==
  \A p \in Proc : At(p, "read", "done") => call[p].text = commits[call[p].at]

\* Once a datastore is open, the history it lists is complete: commits made
\* before the index existed are listed too, whoever built the index and
\* however often building it was interrupted.
HistoryIsComplete == open # {} => ListCommitHistory = 1 .. Len(commits)

\* What the backend shows its callers.
LockHolder == IF locks["candidate"] = None THEN None ELSE locks["candidate"].session
CandidateTexts ==
  [s \in Session |-> IF candidates[s] = None THEN None ELSE candidates[s].text]

Abstract == INSTANCE ConfigDatastore WITH
  holder <- LockHolder, candidate <- CandidateTexts, log <- commits

\* The etcd backend implements the abstract datastore: although a commit reads
\* the candidate, the lock and the lease one after the other, it promotes
\* exactly the candidate stored when its transaction runs, and only while its
\* session's key is the lock.
ImplementsDatastore == Abstract!Spec
=============================================================================
