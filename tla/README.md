# Verification of arca-router's configuration plane

TLA+ specifications of how arca-router accepts, converts, applies, stores and
synchronizes configurations, model-checked with TLC and in large part proved
with TLAPS. `PROJECT.json` lists every component, run, mutant, finding, hazard
and theorem, and maps each definition to the lines it models.

## 1. The system

A router is one daemon, `arca-routerd`. What it does with a configuration:

| Part | State | Operations | Source |
|---|---|---|---|
| Engine | running snapshot (config, version, hash), `applyMu`, plugins | `Apply` (diff, validate, apply, publish; roll plugins back on failure), `InitializeRunning` | `internal/engine` |
| VPP plugin | indices of the interfaces and tunnels it made, what the last apply removed | `ValidateChanges`, `ApplyChanges` with its undo list, `RollbackChanges` | `internal/southbound/vpp`, `pkg/vpp` |
| FRR plugin | what it applied last, what it would go back to, FRR's file, VRRP interfaces | the same three calls, through FRR's transactions or its file and reload | `internal/southbound/frr`, `pkg/frr` |
| Datastore | running row and commit history, candidate per session, lock per target | lock, unlock, extend, steal, save and delete candidate, commit, rollback, clean-up | `pkg/datastore` (SQLite and etcd) |
| Store adapter | prepared commits | `PrepareCommit`, `PrepareRollback`, their `Commit` and `Abort` | `internal/store` |
| Configuration forms | none: text, structure, engine structure, XML, FRR lines | parse, serialize, convert, copy, merge, validate, diff, generate | `pkg/config`, `internal/model`, `pkg/netconf/xml_convert.go`, `pkg/frr` |
| NETCONF server | sessions, tracked locks, one RPC loop per session | `lock`, `unlock`, `get-config`, `edit-config`, `copy-config`, `delete-config`, `discard-changes`, `validate`, `commit`, `close-session`, `kill-session`, clean-up | `pkg/netconf` |
| gRPC server | sessions, the candidate lock, candidate text and base | session, lock, edit, replace, discard, commit, rollback | `internal/northbound/grpc` |
| etcd config synchronizer | last seen revision | `reconcile` at every tick | `cmd/arca-routerd/config_sync.go` |
| Daemon | | first start, restart over a stored configuration, commit hook of NETCONF | `cmd/arca-routerd/main.go` |
| CLI, web, metrics, telemetry, audit | none that a commit decides on | views | see `PROJECT.json` |

A commit crosses most of them. A NETCONF session takes the datastore lock with
`<lock>`, edits its candidate, and on `<commit>` the hook applies the candidate
to the engine and then has the datastore promote it. A gRPC session holds a
lock of the gRPC server only; its commit takes the datastore lock when it
prepares, checks its base version again, applies, persists, and undoes the
apply when persisting fails. In a cluster the synchronizer of every router
polls etcd and applies what the other routers have stored.

What makes this hard, and what the properties are aimed at (`hazards` in
`PROJECT.json` gives the lines):

* apply comes before persist, so every failure in between needs an undo, and
  the snapshot to undo to is read earlier;
* a lock can be lost (kill-session, expiry, theft) in the middle of a commit;
* clocks are read before the transaction that uses them;
* an etcd call is several requests: leases run out between them, and an answer
  can be lost after its transaction has landed;
* the synchronizer runs between any two steps of a local commit;
* the daemon may die between apply and persist;
* a plugin may fail half way through dozens of requests, and so may its undo;
* sessions are closed by other goroutines while their RPCs run;
* mutexes are held across waits for other mutexes;
* a configuration has five forms, each conversion lists every parameter by
  hand, and each check looks at one form only.

## 2. Modules

| Module | Models | State and actions against the code |
|---|---|---|
| `ConfigDatastore` | what any datastore promises | `holder`, `candidate`, `log`; `Take`, `Drop`, `Edit`, `Promote`, `Restore`, `Forget` |
| `SqliteDatastore` | `pkg/datastore/sqlite*.go` | the tables as variables; each transaction is one step, a request that reads the clock first is two (`CommitCall`, `CommitTx`); lock clean-up, `CleanupEphemeralState`, failing transactions |
| `EtcdDatastore` | `pkg/datastore/etcd*.go` | the keys and leases as variables; `call[p]` is what a goroutine carries from one etcd request to the next; leases lapse, requests fail, answers are lost, daemons die; the history index is built in batches |
| `Engine` | `internal/engine/engine.go` | one record per caller of `Apply`; a step per phase and per plugin call; a plugin that fails may have undone its own changes or be left in part |
| `CommitCoordination` | NETCONF hook, gRPC `Commit`/`Rollback`, synchronizer, restart | composes the abstract datastore (`INSTANCE ConfigDatastore`) with engines and sessions; `op[s].phase` is the line a handler has reached; `deployment` says where sessions connect and what may fail |
| `NetconfSessions` | `session.go`, `rpc_lock.go`, the RPC loop of `ssh_server.go` | `sessions` is the manager's map, `noted` a session's `datastoreLocks`, `loop` where the RPC loop is, `closing`/`release` where `closeSession` is |
| `GrpcSessions` | `SessionManager` and the candidate calls of `Server` | `mMu`, `sMu` are the mutexes, `call[t]` is the call of a goroutine; a call passes the manager, then the session |
| `ConfigTree` | `pkg/config/types.go` | a configuration is a set of statements `<<node, keys ..., value>>`; the tree of nodes |
| `ConfigText` | lexer, parser, serializer | a text is a set of lines with the tokens the lexer makes of them |
| `ConfigModel` | `internal/model/convert.go`, copies, `internal/engine/diff.go` | what each conversion carries; `ComputeDiff` flag by flag |
| `ConfigValidation` | `pkg/config/validate.go`, `internal/model/validate.go` | the two validators, check by check |
| `NetconfXML` | `pkg/netconf/xml_convert.go` | what the writer writes and the reader reads, merge, replace and none, the element limit |
| `FrrGenerator` | `pkg/frr/generator*.go`, `transactional.go` | the lines of the file, the operations of the transactional backend, what each refuses, the choice between them |
| `VppPlans` | table numbers, QoS profiles, tunnels of a configuration, the plugin's dry run | operators of a configuration |
| `NetconfCandidate` | `rpc_config.go`, `rpc_transaction.go` | a session's `candidate` and the `running` text through every form; an action per RPC |
| `VppClient` | the client's requests with the effect `pkg/vpp/mock.go` gives them | the dataplane is a set of facts |
| `VppPlugin` | `internal/southbound/vpp` | a function of the plugin is a sequence of sections of requests, each with its undo; a step per request |
| `FrrPlugin` | `internal/southbound/frr`, `reloader.go`, `vrrp_system.go` | a call of the plugin is one action with the outcomes its commands can have together |
| `Southbound` | the engine's transactions over the two plugins | `phase`: VPP applies, FRR applies, publish; or the rollbacks in reverse order |
| `*Proofs` | | theorems about the module of the same name; `FrrProofs` about `FrrGenerator` and `FrrPlugin`, on which `SouthboundProofs` builds |
| `MC*` | | constants and symmetry for TLC |

How they fit together. `CommitCoordination` uses `ConfigDatastore`, which both
backends implement (`ImplementsDatastore`, proved for both), and takes the
engine's `Apply` as one step, which `Engine` justifies: `applyMu` serializes
callers, and `AllOrNothing` says what a failed one leaves. `Southbound` opens
the plugins that are black boxes in `Engine`. `NetconfCandidate` opens the
configurations that are model values in `CommitCoordination`.
`CommitCoordination` assumes one gRPC committer per node, which
`CommitKeepsLock` of `GrpcSessions` gives.

Abstractions.

* In `CommitCoordination`, `Engine` and the datastores configurations are model
  values; a diff is empty exactly when digests are equal. In `GrpcSessions` a
  candidate text is the running version it is for, whether it is blank, and
  whether a commit overtook it (below). A text is for the version it was derived
  from or that `expectedBaseVersion` names; where a client names none (0, as when the
  CLI restores a backup) it asks for an unconditional replacement, and its text
  counts as for the version it replaces.
* In the configuration forms a value is one of a few representatives of each
  class that some function tells apart (a name, a text with a blank in it, a
  number of each range, an address of each family). A Go zero value is no
  statement, except for the leaves whose presence the code records. The order
  of lists and lines, XML namespaces, attributes, filters and nesting depth are
  left out.
* The wall clock never runs backwards, and the clocks of routers that share
  etcd agree.
* VPP behaves as the mock client of the repository; etcd, SQLite, FRR and Linux
  are external.

Definitions preceded by "Mutant of ..." are deliberately wrong variants of the
definition after them; no specification uses them. They show that the
properties can fail.

## 3. Runs

A run is `tlc -config X.cfg M`; its module is the one of the same name, or
`MCCommitCoordination` and `NetconfSessions`. The states are distinct ones.

| Run | cfg | States | Shows |
|---|---|---|---|
| `sqlite` | `MCSqliteDatastore` | 435,826 | tables consistent: the current row is the newest commit, history in time order, the reported lock owner passes the transactions' test, live locks are kept, running changes only under the lock; the backend implements the abstract datastore |
| `etcd` | `MCEtcdDatastore` | 720,300 | with two goroutines of two routers, request by request: a live lock stays with its session, `GetRunning` returns one commit, the history is complete; the backend implements the abstract datastore |
| `engine` | `MCEngine` | 29,971 | all plugins on the published configuration unless a failed rollback was reported; the difference a call applies and would roll back starts from what is published for as long as the call lasts; every `Apply` returns |
| `commit` | `MCCommit` | 335,826 | three deployments, see below: stored is running, no gRPC commit buries one it did not see, a commit stores what it applied and is of its base, routers converge |
| `netconf_sessions` | `MCNetconfSessions` | 295,985 | a lock held by a live session is tracked by it; a closed session's loop ends and its locks become free |
| `grpc_sessions` | `MCGrpcSessions` | 2,802,483 | one session has the candidate lock, keeps it while it commits, and commits a candidate for the version the commit is checked against; mutexes are taken in one order |
| `netconf_candidate` | `MCNetconfCandidate` | 2,221 | what one form of a configuration says survives into the next, and what one check accepts the next accepts too |
| `southbound` | `MCSouthbound` | 775,355 | whatever commits, undoes itself or is rolled back, the dataplane, FRR and the VRRP interfaces end as the published configuration wants them, unless an error was reported |

Four runs show where the code differs from what its documentation or comments
say (each is a `finding`, with the quotation):

| Run | What happens |
|---|---|
| `commit_grpc_persist` | a gRPC commit releases its lock before it undoes, and undoes over a commit stored in between |
| `commit_restart` | a restart over a stored configuration does not re-apply it |
| `commit_sync_race` | the synchronizer applies an older snapshot over an applied, unpersisted local commit |
| `netconf_lock_leak` | a session killed between `AcquireLock` and `AddLock` leaves its lock until it expires |

The run `commit` has three deployments: a lone router with two NETCONF sessions
and a gRPC session whose applies and NETCONF persists fail; a cluster in which
every fault happens; and a cluster whose applies and synchronizations fail.
`StoredIsRunning` and `NoLostUpdate` speak of the first, `CommitIsOfItsBase` of
all, `Converges` of the third. With more faults they are false, and the
violation runs show why: a commit that lost its lock, or a gRPC commit that
could not be persisted, undoes to the snapshot it remembered, over whatever was
stored meanwhile. With failing NETCONF persists `Converges` is false too: an undo
can take back a synchronization whose revision is already marked as seen, and
the router stays behind until the next commit.

### What the exceptions in the properties mean

Some properties name the cases in which the code does not do what they say. They
are part of what the runs show.

* gRPC candidates (`CommitIsBased`): `ReplaceCandidateWithBase` checks the version
  its client names, then the candidate's base, and gives a candidate without a
  base the version that runs when it is done, each time reading what runs again. A
  candidate with a base is safe, since the base must equal both. In a session
  whose `AcquireLock` is between its two critical sections, or in which an edit
  came there, there is no base, and a commit of others between the first and the
  last read is not noticed. (Of the second and the third read a call makes only
  one that matters, so the model has two steps.)
* NETCONF candidates (`CommitIsOfItsBase`): a candidate survives the loss of its
  session's lock and is not rebased; the property is about sessions that have kept
  it.
* Configuration forms: `edit-config` accepts, and writes into the candidate, what
  the parser then refuses (`CandidateReadsBack`): a rate limit above 1000, a second
  static route for a prefix, a name or text that is a number, the keyword, or has a
  blank where no string may stand. The `area-id` of an OSPF area becomes the area's
  name. List entries without parameters are not in the text;
  policies, users and two ssh leaves are not in the XML, so copying the answer
  of `get-config` back deletes them (`GetConfigIsComplete`); a merge replaces
  whole list entries; `Config.Validate` accepts what the generators or the
  VPP dry run refuse (`GeneratorGap`), among it two OSPF networks, or two static
  routes with one next hop, whose prefixes are the same subnet, and an interface
  that the hardware configuration does not list; a multihop BFD peer loses its interface
  in the transactional backend; a prefix list whose split takes the name of
  another is mixed with it (`TermMatchesItsLists`).
* VPP plugin: after a failed apply whose undo failed too, `RollbackChanges`
  finds the interface index forgotten and reports success although VPP keeps
  leftovers. When the LCP delete of `removeInterface` fails, the undo's
  `Create` is refused, and one fault is reported as a failed rollback.
  `RollbackChanges` restores EVPN before the routing tables. A half-done
  deletion of a table pair is not undone. Removed interfaces are taken down and
  keep their addresses (`RemovedIsDown`).
* FRR plugin: a first VRRP preparation that fails part way leaves interfaces
  that nobody removes; each backend has a VRRP preparer of its own, which reads the
  shared state file once, so that after a switch of backends a configuration
  without groups leaves the interfaces the other one made
  (`VrrpLinksAreRunning`); lines that the transactional backend does not know
  survive a switch from the file backend to it; rollback uses the caller's
  context.

### Bounds

* Two sessions suffice for a conflict over a lock, three (two NETCONF, one
  gRPC) for a conflict while a third commit is undone. Two goroutines of two
  routers suffice for a call to be overtaken between any two of its requests.
* Three configurations let "before", "mine" and "the other's" differ; in the
  clusters an old and a new one do.
* `MaxClock` exceeds the lock timeout, or the session ttl, by enough for a lock
  or session to expire, be taken and expire again or be used. Half-second clock
  units in `SqliteDatastore` keep whole seconds and instants apart.
* `MaxLeases = 3` lets a lock be lost, taken and extended; `MaxCommits = 3` over
  a past that may be unindexed lets commits fall between the batches
  (`Batch = 1`) of the index.
* `maxOps` of a deployment bounds commits and faults together: 2 or 3; the undo
  races need 2.
* `MaxVersion` 2 (`grpc_sessions`) lets a base become stale, 3 (`engine`) lets a
  commit be applied and undone.
* `MaxEdits = 1` (`netconf_candidate`): each edit is tried on two
  configurations that between them use every node, so a second edit meets no
  new conversion; `MaxXMLElements = 180` lies between what small and full
  candidates need.
* `MaxFaults = 2` and `MaxTransactions = 3` (`southbound`): one fault fails an
  apply, the second its undo or rollback, and a third transaction works on what
  they leave. The nine configurations use every section of the plugins, and both
  FRR backends with VRRP groups and without.
* Symmetry is used for sessions, texts and threads where a run has no liveness
  property.

`CHECK_DEADLOCK FALSE` is set where the model stops: callers and versions used
up (`engine`), leases and commits used up (`etcd`), every session closed
(`netconf_*`), edits or transactions used up (`netconf_candidate`,
`southbound`).

### Fairness

* `Engine`: strong fairness of each caller. Callers compete for `applyMu`, and
  Go's mutex hands over to a waiter after a millisecond; plugin calls return.
* `CommitCoordination`: weak fairness of a handler that has started and of the
  synchronizer's ticker. Nothing is assumed of clients or faults.
* `NetconfSessions`: weak fairness of the RPC loop and of `closeSession`, which
  are goroutines that only wait for the store, and of lock expiry.

## 4. Proofs

All for any sets of sessions, goroutines, leases, targets, configurations,
plugins, routers and deployments; for the FRR half of the southbound also any
number of transactions and faults. Assumptions are the named `ASSUME`s of the
modules: types of the constants, that `None` is no element of the other sets,
that a deployment is one (a gRPC session is connected, at most one per router),
that no session is both a NETCONF and a gRPC session (both are UUIDs), and, of
the configurations of `Southbound`, that a statement of a list entry comes with
that entry (`ConfigAssumption`: the parser and the reader make the entry first)
and that the empty one is among them (`InitialAssumption`).

* `SqliteDatastoreProofs`: type correctness, `CurrentIsNewestCommit`,
  `HistoryInTimeOrder`, `ReportedHolderHolds`, `LiveLockKept`,
  `RunningChangesUnderLock` and the refinement `ImplementsDatastore`. The current
  row being the newest commit is not inductive: it needs that running rows and
  history rows are paired (`RowsPaired`). Time order needs that no pending call
  is older than the newest commit of its lock owner (`PendingCommitIsNewest`,
  `TimeInv`), because the clock is read before the transaction. The refinement
  needs that a pending rollback's text is in the history
  (`PendingTextLogged`).
* `EtcdDatastoreProofs`: type correctness, `RunningReadIsOneCommit`,
  `HistoryIsComplete` and `ImplementsDatastore`. An etcd call lives across many
  steps of others, so the strengthening says what it may rely on between two of
  its requests, as a predicate of the call and the commits alone (`Typed`): the
  commit a reader names exists and never changes, a rollback's text was
  committed, a call about to write its transaction has seen a lock of its own
  session. `HistoryIsComplete` needs `IndexInv`: a commit is in the index or in
  the work list of every goroutine that is building it. In the refinement a
  transaction that compares the lock key is `Promote` or `Restore` because the
  key it compares is the one `Typed` says is its session's.
  `LiveLockKept` is the second part of the module. A lease is revoked by number
  long after it was read, so the proof has to show that the lease a call is about
  to revoke is on no key of a live lock. `LeaseInv` says how leases stand to calls (`Leased`:
  a lease granted and not yet written is on no key; one whose key was replaced is
  on no key any more; an expired one stays so), to each other (`Apart`: no lease
  is granted to two calls, none is read before it is written) and to keys
  (`Keyed`: no two keys share a lease).
* `EngineProofs`: type correctness, `AllOrNothing`, `DiffIsFromRunning`.
  The strengthening says that a caller inside `Apply` holds the mutex
  (`MutexHeldInside`), which plugins have the new and which the old
  configuration at each phase (`Progress`), and that a plugin in an unknown
  state has been reported (`LostIsKnown`).
* `CommitCoordinationProofs`: type correctness, `CommitIsOfItsBase`,
  `StoredIsRunning` and `NoLostUpdate`. `TypeInv` adds what a handler knows at
  each of its lines (`Knows`). `CommitIsOfItsBase` rests on `BaseInv`: until it
  is stored, the candidate row is what the commit read, and a NETCONF candidate
  whose session has kept the lock was made from the newest commit; it holds
  under every fault. `StoredIsRunning` and `NoLostUpdate` rest on `LoneInv`: on a
  lone router without the faults above, a session from its second look at the
  base to the end of its undo has the datastore lock (so there is one), the
  snapshot it remembers is what is stored, what the engine and the forwarding
  plane have after its apply is what it commits, and a gRPC session's base is
  what is stored.
* `GrpcSessionsProofs`: `LockAgrees`, `MutexOrder`, `CommitKeepsLock` and
  `CommitIsBased`. The strengthening is that a commit or a replacement in progress
  holds its session's mutex, without which nobody clears the lock or changes the
  candidate, and that the version a replacement was checked for is no older than
  the base (`CallHoldsMutex`); and that a base has run and the text under it is for
  it, or was overtaken (`BasedText`).
* `NetconfSessionsProofs`: `HeldLocksAreNoted`. The strengthening says which
  target an RPC in progress is about (`TargetKnown`) and that a lock being
  released is no longer counted as held (`NotHeld`).

* `FrrProofs`: what the FRR plugin relies on, for any configuration.
  `FrrDiffIsComplete`: the flags of `ComputeDiff` that the plugin looks at cover
  all that the generators read, function by function (`Alike` says which parts
  of two configurations agree when the flags are unset), so a commit that the
  plugin skips would have written the same file. `TransactionalCarriesFile`:
  where the plugin picks the transactional backend, `BuildMgmtOperations` has an
  operation for every line of the file but the host name and the interface of a
  multihop BFD session. Then, for each backend, what it leaves when it succeeds:
  the file backend and the transactional one make FRR fit the configuration from
  whatever an earlier failure left (`FileOutcome`, `TransactionalOutcome`), the
  exchange of static routes only if FRR fitted the old one (`DiffOutcome`).
* `SouthboundProofs`: `FrrRunsRunning`, `FrrRollsBackToRunning` and
  `VrrpLinksAreRunning`. None is inductive: between a failed apply and its
  rollback FRR may run anything, so the rollback must know where to return to.
  And the exchange of static routes needs that the plugin believes what is so.
  `FrrInv` says that the plugin remembers the published configuration or nothing
  (it starts knowing nothing, and an apply without FRR changes teaches it
  nothing); that what a rollback would return to is the published one; that the
  published configuration passed the generator (`Ready`), for otherwise a
  rollback could not generate it again; that the transaction in progress passed
  the dry run; and that only a failed command leaves an interface that neither
  backend's preparer knows (`Tidy`). `FrrDiffIsComplete` is what carries it over a commit
  that the plugin skips.

Model-checked only:

* the liveness properties (`ApplyReturns`, `Converges`, `ClosedSessionsEnd`),
  which need fairness and `ENABLED`;
* `NetconfCandidate`: its properties are about the tables of some two hundred
  nodes and what a few representative values do in them, so that a proof would
  be the same case analysis TLC does. `FrrDiffIsComplete` and
  `TransactionalCarriesFile` are the general forms of its `FRRChangesAreSeen`
  and of the part of `TransactionalCarriesAll` about the file;
* the VPP half of `Southbound` (`TypeOK`, `VppHoldsRunning`, `RemovedIsDown`): a
  function of the VPP plugin is a sequence of requests worked out by folds over
  the configuration, and an invariant of it needs induction over those sequences.

A weak spot: `LiveLockKept` of `SqliteDatastore` cannot tell a clean-up that
deletes a row too early from its owner's release.

## 5. Not modelled

* An `Abort` that fails itself leaves the datastore lock until it expires.
* The first start, which commits the configuration file, is in `Init`. In
  `CommitCoordination` the lock of a router that died goes at once, not when its
  lease runs out: until then the others only wait. After a crash between apply
  and persist a later apply is taken to set all of the forwarding plane, not only
  the difference.
* etcd: the legacy lock key, malformed values and audit events. `AcquireLock` of
  an expired lock answers "conflict" when its own `Revoke` has already deleted
  the key; the model allows the answer and claims nothing of it.
* VPP: connection handling, the reads the real client makes after a creation, and
  the reconciliation of LCP pairs at start; a daemon restart and lost answers
  between a plugin and VPP. In `MCSouthbound` no configuration changes only a
  tunnel's source address or table, or only renames an instance with its table:
  the plugin leaves such tunnels as they are.
* Read-only views, telemetry, protocol codecs, user database, audit rows,
  generated code: `PROJECT.json` says why for each component.
