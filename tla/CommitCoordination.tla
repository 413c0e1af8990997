-------------------------- MODULE CommitCoordination --------------------------
(***************************************************************************)
(* Commits across the parts of the router: NETCONF and gRPC sessions, the  *)
(* engine of each node (its Apply is one step here; Engine has the inside), *)
(* the datastore (the abstract ConfigDatastore) and, in a cluster, the     *)
(* etcd config synchronizer of each node.                                  *)
(*                                                                         *)
(* A NETCONF commit (handleCommit, newNETCONFCommitHook) reads the         *)
(* candidate under the session's own datastore lock; a gRPC commit or      *)
(* rollback (Server.Commit, Server.Rollback) takes the datastore lock for  *)
(* itself (PrepareCommit, PrepareRollback) after checking that the         *)
(* candidate's base is still what runs.  Both then remember what runs,     *)
(* apply, and only afterwards persist; when that fails they apply what     *)
(* they remembered.  A NETCONF commit still owns its lock while it undoes; *)
(* a gRPC commit has released it (Abort) before.                           *)
(***************************************************************************)
EXTENDS Naturals, Sequences

CONSTANTS
  Node,        \* routers
  Netconf,     \* NETCONF sessions
  Grpc,        \* gRPC sessions that hold the gRPC candidate lock of their node
  Config,      \* configurations
  Deployments, \* deployments to look at, records as in Deployment
  None

Session == Netconf \cup Grpc

Fault ==
  {"apply",            \* a commit's engine.Apply fails, its plugins rolled back
   "netconf persist",  \* Datastore.Commit fails for a NETCONF session
   "grpc persist",     \* Datastore.Commit or Rollback fails for a gRPC session
   "answer",           \* it succeeds in etcd, and the answer is lost
   "undo",             \* the engine.Apply of the remembered snapshot fails
   "sync",             \* a reconcile pass fails
   "lock",             \* the lock holder loses the lock
   "crash"}            \* the daemon is killed and restarted

Deployment ==
  [home : [Session -> Node \cup {None}],  \* the node a session is connected to
   configs : SUBSET Config,               \* the configurations its clients use
   initial : Config,                      \* the one in the configuration file
   faults : SUBSET Fault,                 \* what may fail
   maxOps : Nat]                          \* bound: commits and counted faults

ASSUME CoordinationAssumption ==
  /\ None \notin Session \cup Config \cup Node
  /\ Netconf \cap Grpc = {}
  /\ \A d \in Deployments :
       /\ d \in Deployment
       /\ \A s \in Grpc : d.home[s] # None
       /\ \A s, t \in Grpc : d.home[s] = d.home[t] => s = t

VARIABLES
  deployment,  \* one of Deployments, for good
  holder, candidate, log,  \* the datastore
  engine,      \* engine[n]: the running snapshot of node n
  forwarding,  \* forwarding[n]: the configuration its VPP and FRR have
  op,          \* op[s]: the commit or rollback session s is executing
  base,        \* base[s]: CandidateBaseVersion and hash of gRPC session s
  readAt,      \* readAt[s]: what NETCONF session s's candidate started from: the
               \* number of commits then, 0 once it has lost the lock since
  sync,        \* sync[n]: the reconcile pass of node n
  seen,        \* seen[n]: lastRunningRevision of its synchronizer
  ops          \* commits, crashes and lock losses so far

datastoreVars == <<holder, candidate, log>>
vars == <<deployment, holder, candidate, log, engine, forwarding, op, base, readAt, sync, seen, ops>>

Datastore == INSTANCE ConfigDatastore WITH Text <- Config

Home == deployment.home
Faults == deployment.faults
Router == {Home[s] : s \in Session} \ {None}

\* The routers share an etcd store and run the synchronizer.
Syncing == \E m, n \in Router : m # n

Stored == log[Len(log)]
Snapshot == [config : Config, version : Nat]

Phase == {"idle", "save", "prepare", "recheck", "before", "apply", "persist", "undo"}
Op == [phase : Phase, new : Config \cup {None}, before : Config \cup {None},
       restore : BOOLEAN]
NoOp == [phase |-> "idle", new |-> None, before |-> None, restore |-> FALSE]

SyncPhase == {"idle", "load", "apply"}
Sync == [phase : SyncPhase, revision : Nat, snapshot : Config \cup {None}]
NoSync == [phase |-> "idle", revision |-> 0, snapshot |-> None]

Running(s) == engine[Home[s]].config

\* The first commit, of the configuration file, has been made everywhere.
Init ==
  /\ deployment \in Deployments
  /\ holder = None
  /\ candidate = [s \in Session |-> None]
  /\ log = <<deployment.initial>>
  /\ engine = [n \in Node |-> [config |-> deployment.initial, version |-> 1]]
  /\ forwarding = [n \in Node |-> deployment.initial]
  /\ op = [s \in Session |-> NoOp]
  /\ base = [s \in Grpc |-> [config |-> deployment.initial, version |-> 1]]
  /\ readAt = [s \in Netconf |-> 0]
  /\ sync = [n \in Node |-> NoSync]
  /\ seen = [n \in Node |-> 1]
  /\ ops = 0

Count == ops < deployment.maxOps /\ ops' = ops + 1
Goto(s, phase) == op' = [op EXCEPT ![s].phase = phase]
Finish(s) == op' = [op EXCEPT ![s] = NoOp]
Start(s, phase, c, restore) ==
  op' = [op EXCEPT ![s] = [phase |-> phase, new |-> c, before |-> None, restore |-> restore]]

\* engine.Apply succeeds: nothing happens when the diff is empty.
EngineApply(n, c) ==
  IF c = engine[n].config
    THEN UNCHANGED <<engine, forwarding>>
    ELSE /\ engine' = [engine EXCEPT ![n] = [config |-> c, version |-> @.version + 1]]
         /\ forwarding' = [forwarding EXCEPT ![n] = c]

\* preparedCommit.Abort, preparedRollback.Abort: delete candidate, release lock.
Abort(s) ==
  /\ candidate' = [candidate EXCEPT ![s] = None]
  /\ holder' = IF holder = s THEN None ELSE holder
  /\ UNCHANGED log

-----------------------------------------------------------------------------
(* NETCONF *)

Lock(s) ==
  /\ Home[s] # None
  /\ op[s].phase = "idle"
  /\ holder \in {None, s}
  /\ Datastore!Take(s)
  /\ UNCHANGED <<engine, forwarding, op, base, readAt, sync, seen, ops, deployment>>

\* edit-config, copy-config, delete-config and discard-changes check the lock
\* and read the candidate, or the running configuration when there is none.
EditConfig(s) ==
  /\ op[s].phase = "idle"
  /\ holder = s
  /\ Goto(s, "save")
  /\ readAt' = IF candidate[s] = None THEN [readAt EXCEPT ![s] = Len(log)] ELSE readAt
  /\ UNCHANGED <<datastoreVars, engine, forwarding, base, sync, seen, ops, deployment>>

\* SaveCandidate or DeleteCandidate, which do not look at the lock.
SaveEdit(s) ==
  /\ op[s].phase = "save"
  /\ Finish(s)
  /\ Datastore!Edit(s)
  /\ candidate'[s] \in deployment.configs \cup {None}
  /\ readAt' = IF candidate'[s] = None THEN [readAt EXCEPT ![s] = 0] ELSE readAt
  /\ UNCHANGED <<engine, forwarding, base, sync, seen, ops, deployment>>

\* The candidate stays where it is.
Unlock(s) ==
  /\ op[s].phase = "idle"
  /\ holder = s
  /\ Datastore!Drop
  /\ readAt' = [readAt EXCEPT ![s] = 0]
  /\ UNCHANGED <<engine, forwarding, op, base, sync, seen, ops, deployment>>

NetconfCommit(s) ==
  /\ op[s].phase = "idle"
  /\ holder = s
  /\ candidate[s] # None
  /\ Count
  /\ Start(s, "before", candidate[s], FALSE)
  /\ UNCHANGED <<datastoreVars, engine, forwarding, base, readAt, sync, seen, deployment>>

-----------------------------------------------------------------------------
(* gRPC *)

\* Discard: the session starts again from what runs.
GrpcReset(s) ==
  /\ op[s].phase = "idle"
  /\ base' = [base EXCEPT ![s] = engine[Home[s]]]
  /\ UNCHANGED <<datastoreVars, engine, forwarding, op, readAt, sync, seen, ops, deployment>>

GrpcCall(s, c, restore) ==
  /\ op[s].phase = "idle"
  /\ base[s] = engine[Home[s]]
  /\ c # Running(s)
  /\ Count
  /\ Start(s, "prepare", c, restore)
  /\ UNCHANGED <<datastoreVars, engine, forwarding, base, readAt, sync, seen, deployment>>

GrpcCommit(s) == \E c \in deployment.configs : GrpcCall(s, c, FALSE)
GrpcRollback(s) == \E i \in 1 .. Len(log) : GrpcCall(s, log[i], TRUE)

\* AcquireLock of the store, then SaveCandidate for a commit.
Prepare(s) ==
  /\ op[s].phase = "prepare"
  /\ IF holder = None
       THEN /\ holder' = s
            /\ candidate' = [candidate EXCEPT ![s] = IF op[s].restore THEN None ELSE op[s].new]
            /\ Goto(s, "recheck")
       ELSE /\ Finish(s)
            /\ UNCHANGED <<holder, candidate>>
  /\ UNCHANGED <<log, engine, forwarding, base, readAt, sync, seen, ops, deployment>>

\* Mutant of Recheck: the base is not compared again under the lock.
RecheckChangesOnly(s) ==
  /\ op[s].phase = "recheck"
  /\ IF op[s].new # Running(s)
       THEN Goto(s, "before") /\ UNCHANGED datastoreVars
       ELSE Finish(s) /\ Abort(s)
  /\ UNCHANGED <<engine, forwarding, base, readAt, sync, seen, ops, deployment>>

\* ensureCandidateBaseCurrentLocked and hasCandidateChanges, once more.
Recheck(s) ==
  /\ op[s].phase = "recheck"
  /\ IF base[s] = engine[Home[s]] /\ op[s].new # Running(s)
       THEN Goto(s, "before") /\ UNCHANGED datastoreVars
       ELSE Finish(s) /\ Abort(s)
  /\ UNCHANGED <<engine, forwarding, base, readAt, sync, seen, ops, deployment>>

-----------------------------------------------------------------------------
(* Both *)

\* Mutant of Remember: the snapshot is not kept.
RememberNothing(s) ==
  /\ op[s].phase = "before"
  /\ IF s \in Netconf /\ op[s].new = Running(s)
       THEN Finish(s)
       ELSE Goto(s, "apply")
  /\ UNCHANGED <<datastoreVars, engine, forwarding, base, readAt, sync, seen, ops, deployment>>

KeepSnapshot(s, c) == op' = [op EXCEPT ![s].phase = "apply", ![s].before = c]

\* beforeSnap := RunningSnapshot(); the NETCONF hook compares here.
Remember(s) ==
  /\ op[s].phase = "before"
  /\ IF s \in Netconf /\ op[s].new = Running(s)
       THEN Finish(s)
       ELSE KeepSnapshot(s, Running(s))
  /\ UNCHANGED <<datastoreVars, engine, forwarding, base, readAt, sync, seen, ops, deployment>>

Apply(s) ==
  /\ op[s].phase = "apply"
  /\ EngineApply(Home[s], op[s].new)
  /\ Goto(s, "persist")
  /\ UNCHANGED <<datastoreVars, base, readAt, sync, seen, ops, deployment>>

\* Apply fails and rolls its plugins back.
ApplyFails(s) ==
  /\ "apply" \in Faults
  /\ op[s].phase = "apply"
  /\ Finish(s)
  /\ IF s \in Grpc THEN Abort(s) ELSE UNCHANGED datastoreVars
  /\ UNCHANGED <<engine, forwarding, base, readAt, sync, seen, ops, deployment>>

\* Mutant of Store: the candidate is not deleted.
StoreKeepsCandidate(s) ==
  /\ holder = s
  /\ log' = Append(log, op[s].new)
  /\ holder' = None
  /\ UNCHANGED <<candidate, readAt>>

\* Datastore.Rollback of the commit chosen, or Datastore.Commit.
Store(s) ==
  /\ IF op[s].restore
       THEN Datastore!Restore(s) /\ log' = Append(log, op[s].new)
       ELSE Datastore!Promote(s)
  /\ readAt' = [r \in Netconf |-> IF r = s THEN 0 ELSE readAt[r]]

\* Afterwards a gRPC session resets its candidate to what runs.
Persist(s) ==
  /\ op[s].phase = "persist"
  /\ Store(s)
  /\ Finish(s)
  /\ base' = [r \in Grpc |-> IF r = s THEN engine[Home[s]] ELSE base[r]]
  /\ UNCHANGED <<engine, forwarding, sync, seen, ops, deployment>>

\* The lock is no longer the session's, or the store fails.
PersistFails(s) ==
  /\ op[s].phase = "persist"
  /\ \/ holder # s
     \/ s \in Netconf /\ "netconf persist" \in Faults
     \/ s \in Grpc /\ "grpc persist" \in Faults
  /\ Goto(s, "undo")
  /\ IF s \in Grpc THEN Abort(s) ELSE UNCHANGED datastoreVars
  /\ UNCHANGED <<engine, forwarding, base, readAt, sync, seen, ops, deployment>>

\* The transaction lands in etcd, but its caller sees an error.
PersistUnanswered(s) ==
  /\ Syncing
  /\ "answer" \in Faults
  /\ op[s].phase = "persist"
  /\ Store(s)
  /\ Goto(s, "undo")
  /\ UNCHANGED <<engine, forwarding, base, sync, seen, ops, deployment>>

\* Mutant of Undo: the error is returned and the engine left as it is.
UndoNothing(s) ==
  /\ op[s].phase = "undo"
  /\ Finish(s)
  /\ UNCHANGED <<datastoreVars, engine, forwarding, base, readAt, sync, seen, ops, deployment>>

\* rollbackEngineToSnapshot, rollbackToSnapshot
Undo(s) ==
  /\ op[s].phase = "undo"
  /\ EngineApply(Home[s], op[s].before)
  /\ Finish(s)
  /\ UNCHANGED <<datastoreVars, base, readAt, sync, seen, ops, deployment>>

UndoFails(s) ==
  /\ "undo" \in Faults
  /\ op[s].phase = "undo"
  /\ Finish(s)
  /\ UNCHANGED <<datastoreVars, engine, forwarding, base, readAt, sync, seen, ops, deployment>>

-----------------------------------------------------------------------------
(* The synchronizer *)

\* EtcdStatus: the running/current key's revision is the number of commits.
SyncStatus(n) ==
  /\ Syncing /\ n \in Router
  /\ sync[n].phase = "idle"
  /\ Len(log) # seen[n]
  /\ sync' = [sync EXCEPT ![n].phase = "load", ![n].revision = Len(log)]
  /\ UNCHANGED <<datastoreVars, engine, forwarding, op, base, readAt, seen, ops, deployment>>

\* GetLatestSnapshot reads the store again.
SyncLoad(n) ==
  /\ sync[n].phase = "load"
  /\ sync' = [sync EXCEPT ![n].phase = "apply", ![n].snapshot = Stored]
  /\ UNCHANGED <<datastoreVars, engine, forwarding, op, base, readAt, seen, ops, deployment>>

SyncApply(n) ==
  /\ sync[n].phase = "apply"
  /\ EngineApply(n, sync[n].snapshot)
  /\ seen' = [seen EXCEPT ![n] = sync[n].revision]
  /\ sync' = [sync EXCEPT ![n] = NoSync]
  /\ UNCHANGED <<datastoreVars, op, base, readAt, ops, deployment>>

\* Mutant of SyncFails: a failed pass marks the revision as seen.
SyncFailsSeen(n) ==
  /\ "sync" \in Faults
  /\ sync[n].phase # "idle"
  /\ Count
  /\ seen' = [seen EXCEPT ![n] = sync[n].revision]
  /\ sync' = [sync EXCEPT ![n] = NoSync]
  /\ UNCHANGED <<datastoreVars, engine, forwarding, op, base, readAt, deployment>>

\* An error of any of the three calls leaves the revision unseen.
SyncFails(n) ==
  /\ "sync" \in Faults
  /\ sync[n].phase # "idle"
  /\ Count
  /\ sync' = [sync EXCEPT ![n] = NoSync]
  /\ UNCHANGED <<datastoreVars, engine, forwarding, op, base, readAt, seen, deployment>>

-----------------------------------------------------------------------------
(* Faults *)

\* kill-session, lease expiry, StealLock: the holder loses the lock.
LoseLock ==
  /\ "lock" \in Faults
  /\ holder # None
  /\ Count
  /\ Datastore!Drop
  /\ readAt' = [s \in Netconf |-> IF s = holder THEN 0 ELSE readAt[s]]
  /\ UNCHANGED <<engine, forwarding, op, base, sync, seen, deployment>>

\* The daemon of node n dies and starts again.  VPP and FRR keep running; of its
\* sessions, CleanupEphemeralState clears locks and candidates (in etcd the lock
\* goes when its lease runs out, and nobody promotes the candidate);
\* applyInitialConfig, given a stored snapshot, only calls InitializeRunning.
Restart(n) ==
  /\ "crash" \in Faults
  /\ n \in Router
  /\ Count
  /\ holder' = IF holder # None /\ Home[holder] = n THEN None ELSE holder
  /\ candidate' = [s \in Session |-> IF Home[s] = n THEN None ELSE candidate[s]]
  /\ engine' = [engine EXCEPT ![n] = [config |-> Stored, version |-> Len(log)]]
  /\ op' = [s \in Session |-> IF Home[s] = n THEN NoOp ELSE op[s]]
  /\ base' = [s \in Grpc |-> IF Home[s] = n THEN engine'[n] ELSE base[s]]
  /\ readAt' = [s \in Netconf |-> IF Home[s] = n THEN 0 ELSE readAt[s]]
  /\ sync' = [sync EXCEPT ![n] = NoSync]
  /\ seen' = [seen EXCEPT ![n] = 0]
  /\ UNCHANGED <<log, forwarding, deployment>>

\* A handler goes on.
Work(s) ==
  \/ SaveEdit(s)
  \/ Prepare(s)
  \/ Recheck(s)
  \/ Remember(s)
  \/ Apply(s)
  \/ ApplyFails(s)
  \/ Persist(s)
  \/ PersistFails(s)
  \/ PersistUnanswered(s)
  \/ Undo(s)
  \/ UndoFails(s)

Reconcile(n) == SyncStatus(n) \/ SyncLoad(n) \/ SyncApply(n)

Next ==
  \/ \E s \in Netconf : Lock(s) \/ EditConfig(s) \/ Unlock(s) \/ NetconfCommit(s)
  \/ \E s \in Grpc : GrpcReset(s) \/ GrpcCommit(s) \/ GrpcRollback(s)
  \/ \E s \in Session : Work(s)
  \/ \E n \in Node : Reconcile(n) \/ SyncFails(n) \/ Restart(n)
  \/ LoseLock

\* A handler that has started runs on, and the synchronizer's ticker fires.
Fairness ==
  /\ \A s \in Session : WF_vars(Work(s))
  /\ \A n \in Node : WF_vars(Reconcile(n))

Spec == Init /\ [][Next]_vars /\ Fairness

-----------------------------------------------------------------------------

\* Sessions run one operation at a time, and what is stored, what runs and what
\* the synchronizers remember is what the code keeps there.
TypeOK ==
  /\ deployment \in Deployments
  /\ holder \in Session \cup {None}
  /\ candidate \in [Session -> Config \cup {None}]
  /\ log \in Seq(Config)
  /\ engine \in [Node -> Snapshot]
  /\ forwarding \in [Node -> Config]
  /\ op \in [Session -> Op]
  /\ base \in [Grpc -> Snapshot]
  /\ readAt \in [Netconf -> Nat]
  /\ sync \in [Node -> Sync]
  /\ seen \in [Node -> Nat]
  /\ ops \in Nat

\* No session of node n has applied something it has not yet persisted or undone.
Settled(n) == \A s \in Session : Home[s] = n => op[s].phase \notin {"persist", "undo"}

OnlyTheseFail(faults) == Faults \subseteq faults

\* What is stored is what runs: between commits the engine of a lone router and
\* its forwarding plane have the newest stored configuration, whatever mixture
\* of commits, rollbacks, failed applies and failed NETCONF persists has
\* happened.
StoredIsRunning ==
  ~Syncing /\ OnlyTheseFail({"apply", "netconf persist"}) =>
    \A n \in Router : Settled(n) => engine[n].config = Stored /\ forwarding[n] = Stored

\* The same with failing gRPC persists.
StoredIsRunningGrpc ==
  ~Syncing /\ OnlyTheseFail({"apply", "netconf persist", "grpc persist"}) =>
    \A n \in Router : Settled(n) => engine[n].config = Stored /\ forwarding[n] = Stored

\* A gRPC commit or rollback on a lone router never buries a commit its user had
\* not seen: what it replaces in the store is what the session's candidate was
\* based on.
NoLostUpdate ==
  [][\A s \in Grpc :
       ~Syncing /\ OnlyTheseFail({"apply", "netconf persist"}) /\ Persist(s) =>
         log[Len(log)] = base[s].config]_vars

\* A commit stores the configuration it applied, not what the session's
\* candidate row has become since: handleCommit reads the candidate, applies it
\* and then has Datastore.Commit promote the row.  And a NETCONF commit does not
\* bury another one, while its session has kept the lock since its candidate was
\* made from the running configuration.  (A candidate survives the loss of the
\* lock and is not rebased when its session locks again.)
CommitIsOfItsBase ==
  [][\A s \in Session : Persist(s) =>
       /\ log'[Len(log')] = op[s].new
       /\ s \in Netconf /\ readAt[s] # 0 => readAt[s] = Len(log)]_vars

\* The synchronizer leaves an applied but not yet persisted local commit alone.
SyncSparesLocalCommit ==
  [][\A n \in Node : SyncApply(n) /\ engine' # engine => Settled(n)]_vars

\* After a restart the forwarding plane is brought to the stored configuration.
RestartReapplies ==
  [][\A n \in Node : Restart(n) => forwarding'[n] = Stored]_vars

\* In a cluster where only applies and reconcile passes fail, every router ends
\* up with the newest stored configuration.
Converges ==
  Syncing /\ OnlyTheseFail({"apply", "sync"}) =>
    <>[](\A n \in Router : engine[n].config = Stored /\ forwarding[n] = Stored)
=============================================================================
