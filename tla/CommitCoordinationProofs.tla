----------------------- MODULE CommitCoordinationProofs -----------------------
(***************************************************************************)
(* Proofs about commits across the parts of the router, for any sets of    *)
(* routers, sessions and configurations, and any deployments.              *)
(***************************************************************************)
EXTENDS CommitCoordination, TLAPS

\* The phases in which a session carries a configuration to commit, and those in
\* which it remembers what ran before.
Carrying == {"prepare", "recheck", "before", "apply", "persist", "undo"}
Remembering == {"apply", "persist", "undo"}

\* What a handler on router n knows at each of its steps: where it runs, what it
\* commits and what it would go back to.
Knows(o, n) ==
  /\ o.phase # "idle" => n # None
  /\ o.phase \in Carrying => o.new # None
  /\ o.phase \in Remembering => o.before # None

TypeInv ==
  /\ TypeOK
  /\ log # << >>
  /\ holder # None => Home[holder] # None
  /\ \A s \in Session : Knows(op[s], Home[s])
  /\ \A n \in Node : sync[n].phase = "apply" => sync[n].snapshot # None

\* The phases in which the candidate row of a session is what its commit read.
Prepared == {"recheck", "before", "apply", "persist"}

\* What the operation o of session s, whose candidate row is c, relies on.
Promised(s, o, c) ==
  /\ o.phase \in {"prepare", "recheck"} => s \in Grpc
  /\ o.phase \in Prepared /\ ~o.restore => c = o.new

\* Until it is stored, the candidate row of a session is what the session's
\* commit has read; and a NETCONF candidate whose session has kept the lock was
\* made from the newest commit.
BaseInv ==
  /\ \A s \in Session : Promised(s, op[s], candidate[s])
  /\ \A s \in Netconf : readAt[s] # 0 => holder = s /\ readAt[s] = Len(log)

\* A lone router whose applies and NETCONF persists may fail.
Lone == ~Syncing /\ OnlyTheseFail({"apply", "netconf persist"})

\* The phases in which a commit on it has the datastore lock.
Locked == {"recheck", "before", "apply", "persist", "undo"}

\* Those in which it has applied what it has not stored.
Ahead == {"persist", "undo"}

\* Commits of a lone router are serialised by the datastore lock: the session
\* that has it is the only one that has applied something it has not stored, it
\* remembers what is stored, and what it applied is what it commits.
Serial(s) ==
  /\ op[s].phase \in Locked => holder = s
  /\ op[s].phase \in Remembering => op[s].before = Stored
  /\ op[s].phase \in Ahead =>
       engine[Home[s]].config = op[s].new /\ forwarding[Home[s]] = op[s].new
  /\ s \in Grpc /\ op[s].phase \in {"before", "apply", "persist"} => base[s].config = Stored

RunsStored(n) == Settled(n) => engine[n].config = Stored /\ forwarding[n] = Stored

AloneInv ==
  /\ \A n \in Node : sync[n].phase = "idle"
  /\ \A s \in Session : Serial(s)
  /\ \A n \in Router : RunsStored(n)

LoneInv == Lone => AloneInv

-----------------------------------------------------------------------------
(***************************************************************************)
(* Deployments, operations and the engine.                                 *)
(***************************************************************************)
\* What a deployment says of sessions and configurations.
LEMMA Deployed ==
  ASSUME TypeOK
  PROVE  /\ Home \in [Session -> Node \cup {None}]
         /\ \A s \in Grpc : Home[s] \in Node
         /\ \A s \in Session : Home[s] # None => Home[s] \in Router
         /\ deployment.configs \subseteq Config
         /\ deployment.initial \in Config
         /\ deployment.maxOps \in Nat
  <1>1. deployment \in Deployment /\ \A s \in Grpc : deployment.home[s] # None
    BY CoordinationAssumption DEF TypeOK
  <1> QED BY <1>1 DEF Deployment, Home, Router, Session

\* Deployments do not change.
LEMMA SameDeployment ==
  ASSUME UNCHANGED deployment
  PROVE  /\ Home' = Home /\ Router' = Router /\ Faults' = Faults
         /\ (Syncing' <=> Syncing) /\ (Lone' <=> Lone)
  BY DEF Home, Router, Faults, Syncing, Lone, OnlyTheseFail

\* There is always a newest commit, and committing makes another.
LEMMA StoredType ==
  ASSUME TypeOK, log # << >>
  PROVE  Stored \in Config /\ Len(log) \in Nat \ {0}
  <1>1. log \in Seq(Config)
    BY DEF TypeOK
  <1>2. Len(log) \in Nat \ {0}
    BY <1>1
  <1> QED BY <1>1, <1>2 DEF Stored

LEMMA Appended ==
  ASSUME NEW l \in Seq(Config), NEW c \in Config
  PROVE  /\ Append(l, c) \in Seq(Config)
         /\ Append(l, c) # << >>
         /\ Len(Append(l, c)) = Len(l) + 1
         /\ Append(l, c)[Len(Append(l, c))] = c
  <1>1. /\ Append(l, c) \in Seq(Config)
        /\ Len(Append(l, c)) = Len(l) + 1
        /\ Append(l, c)[Len(Append(l, c))] = c
    OBVIOUS
  <1>2. Len(Append(l, c)) # 0 /\ Len(<< >>) = 0
    BY <1>1
  <1> QED BY <1>1, <1>2

\* One session's operation changes.
LEMMA SetOp ==
  ASSUME TypeOK, NEW s \in Session, NEW o \in Op, op' = [op EXCEPT ![s] = o]
  PROVE  op' \in [Session -> Op] /\ op'[s] = o /\ \A r \in Session \ {s} : op'[r] = op[r]
  BY DEF TypeOK

\* The next step of an operation, and its end.
LEMMA GotoOp ==
  ASSUME TypeOK, NEW s \in Session, NEW phase \in Phase, Goto(s, phase)
  PROVE  /\ op' \in [Session -> Op]
         /\ op'[s].phase = phase /\ op'[s].new = op[s].new
         /\ op'[s].before = op[s].before /\ op'[s].restore = op[s].restore
         /\ \A r \in Session \ {s} : op'[r] = op[r]
  <1>1. op[s] \in Op /\ op \in [Session -> Op]
    BY DEF TypeOK
  <1>2. op'[s] = [op[s] EXCEPT !.phase = phase] /\ \A r \in Session \ {s} : op'[r] = op[r]
    BY <1>1 DEF Goto
  <1>3. [op[s] EXCEPT !.phase = phase] \in Op
    BY <1>1 DEF Op
  <1>4. op' = [op EXCEPT ![s] = [op[s] EXCEPT !.phase = phase]]
    BY DEF Goto
  <1>5. op' \in [Session -> Op]
    BY <1>1, <1>3, <1>4
  <1> QED BY <1>1, <1>2, <1>5 DEF Op

LEMMA FinishOp ==
  ASSUME TypeOK, NEW s \in Session, Finish(s)
  PROVE  /\ op' \in [Session -> Op]
         /\ op'[s].phase = "idle"
         /\ \A r \in Session \ {s} : op'[r] = op[r]
  <1>1. NoOp \in Op /\ NoOp.phase = "idle"
    BY DEF NoOp, Op, Phase
  <1> QED BY <1>1 DEF TypeOK, Finish

\* The first step of a commit or rollback, and the one that remembers what runs.
LEMMA StartOp ==
  ASSUME TypeOK, NEW s \in Session, NEW phase \in Phase, NEW c \in Config, NEW restore \in BOOLEAN,
         Start(s, phase, c, restore)
  PROVE  /\ op' \in [Session -> Op]
         /\ op'[s].phase = phase /\ op'[s].new = c
         /\ \A r \in Session \ {s} : op'[r] = op[r]
  <1> DEFINE o == [phase |-> phase, new |-> c, before |-> None, restore |-> restore]
  <1>1. o \in Op /\ o.phase = phase /\ o.new = c
    BY DEF Op
  <1>2. op' = [op EXCEPT ![s] = o]
    BY DEF Start
  <1> HIDE DEF o
  <1>3. op' \in [Session -> Op] /\ op'[s] = o /\ \A r \in Session \ {s} : op'[r] = op[r]
    BY <1>1, <1>2, SetOp, Zenon
  <1> QED BY <1>1, <1>3, Zenon

LEMMA RememberOp ==
  ASSUME TypeOK, NEW s \in Session, NEW c \in Config, KeepSnapshot(s, c)
  PROVE  /\ op' \in [Session -> Op]
         /\ op'[s].phase = "apply" /\ op'[s].new = op[s].new
         /\ op'[s].before = c /\ op'[s].restore = op[s].restore
         /\ \A r \in Session \ {s} : op'[r] = op[r]
  <1>1. op[s] \in Op /\ "apply" \in Phase
    BY DEF TypeOK, Phase
  <1> DEFINE o == [op[s] EXCEPT !.phase = "apply", !.before = c]
  <1>2. /\ o \in Op /\ o.phase = "apply" /\ o.new = op[s].new
        /\ o.before = c /\ o.restore = op[s].restore
    BY <1>1, Zenon DEF Op
  <1>3. op' = [op EXCEPT ![s] = o]
    BY <1>1 DEF KeepSnapshot
  <1> HIDE DEF o
  <1> QED BY <1>2, <1>3, SetOp

\* A successful engine.Apply leaves the engine with the configuration, and the
\* forwarding plane too when it had what the engine had.
LEMMA EngineApplied ==
  ASSUME TypeOK, NEW n \in Node, NEW c \in Config, EngineApply(n, c)
  PROVE  /\ engine' \in [Node -> Snapshot] /\ forwarding' \in [Node -> Config]
         /\ engine'[n].config = c
         /\ forwarding[n] = engine[n].config => forwarding'[n] = c
         /\ \A m \in Node \ {n} : engine'[m] = engine[m] /\ forwarding'[m] = forwarding[m]
  <1>1. engine[n] \in Snapshot /\ engine \in [Node -> Snapshot] /\ forwarding \in [Node -> Config]
    BY DEF TypeOK
  <1>2. CASE c = engine[n].config
    BY <1>1, <1>2 DEF EngineApply
  <1>3. CASE c # engine[n].config
    <2> DEFINE e == [config |-> c, version |-> engine[n].version + 1]
    <2>1. e \in Snapshot /\ e.config = c
      BY <1>1 DEF Snapshot
    <2>2. engine' = [engine EXCEPT ![n] = e] /\ forwarding' = [forwarding EXCEPT ![n] = c]
      BY <1>1, <1>3 DEF EngineApply
    <2> HIDE DEF e
    <2> QED BY <1>1, <2>1, <2>2
  <1> QED BY <1>2, <1>3

-----------------------------------------------------------------------------
(***************************************************************************)
(* Types.                                                                  *)
(***************************************************************************)
\* A step of one session.
LEMMA SessionStepType ==
  ASSUME TypeInv, UNCHANGED <<deployment, sync, seen>>, NEW s \in Session,
         op' \in [Session -> Op], \A r \in Session \ {s} : op'[r] = op[r], Knows(op'[s], Home[s]),
         holder' \in {None, holder, s}, Home[s] # None,
         candidate' \in [Session -> Config \cup {None}],
         log' \in Seq(Config), log' # << >>,
         engine' \in [Node -> Snapshot], forwarding' \in [Node -> Config],
         base' \in [Grpc -> Snapshot], readAt' \in [Netconf -> Nat], ops' \in Nat
  PROVE  TypeInv'
  <1>1. Home' = Home
    BY SameDeployment
  <1>2. holder' \in Session \cup {None}
    BY DEF TypeInv, TypeOK
  <1>3. TypeOK'
    BY <1>2 DEF TypeInv, TypeOK
  <1>4. holder' # None => Home'[holder'] # None
    BY <1>1 DEF TypeInv
  <1>5. ASSUME NEW r \in Session PROVE Knows(op'[r], Home'[r])
    BY <1>1 DEF TypeInv
  <1>6. \A n \in Node : sync'[n].phase = "apply" => sync'[n].snapshot # None
    BY DEF TypeInv
  <1> QED BY <1>3, <1>4, <1>5, <1>6 DEF TypeInv

\* What the steps of one session leave alone keeps its type.
LEMMA Unchanged ==
  ASSUME TypeInv
  PROVE  /\ UNCHANGED op => op' \in [Session -> Op]
         /\ UNCHANGED candidate => candidate' \in [Session -> Config \cup {None}]
         /\ UNCHANGED log => log' \in Seq(Config) /\ log' # << >>
         /\ UNCHANGED engine => engine' \in [Node -> Snapshot]
         /\ UNCHANGED forwarding => forwarding' \in [Node -> Config]
         /\ UNCHANGED base => base' \in [Grpc -> Snapshot]
         /\ UNCHANGED readAt => readAt' \in [Netconf -> Nat]
         /\ UNCHANGED ops => ops' \in Nat
         /\ Count => ops' \in Nat
  BY DEF TypeInv, TypeOK, Count

\* The phases.
LEMMA Phases ==
  /\ "idle" \in Phase /\ "save" \in Phase /\ "prepare" \in Phase /\ "recheck" \in Phase
  /\ "before" \in Phase /\ "apply" \in Phase /\ "persist" \in Phase /\ "undo" \in Phase
  BY DEF Phase

\* Aborting keeps the types of the datastore.
LEMMA AbortType ==
  ASSUME TypeInv, NEW s \in Session, Abort(s)
  PROVE  /\ candidate' \in [Session -> Config \cup {None}]
         /\ UNCHANGED log /\ holder' \in {None, holder}
  BY DEF TypeInv, TypeOK, Abort

\* So does storing a commit, which is then the newest.
LEMMA StoreType ==
  ASSUME TypeInv, NEW s \in Session, op[s].new # None, Store(s)
  PROVE  /\ candidate' \in [Session -> Config \cup {None}]
         /\ log' \in Seq(Config) /\ log' # << >> /\ Len(log') = Len(log) + 1
         /\ \/ op[s].restore /\ UNCHANGED candidate /\ log' = Append(log, op[s].new)
            \/ /\ ~op[s].restore /\ candidate[s] # None
               /\ log' = Append(log, candidate[s]) /\ candidate' = [candidate EXCEPT ![s] = None]
         /\ holder = s /\ holder' = None
         /\ readAt' \in [Netconf -> Nat]
         /\ \A r \in Netconf : readAt'[r] = IF r = s THEN 0 ELSE readAt[r]
  <1>0. /\ candidate \in [Session -> Config \cup {None}] /\ log \in Seq(Config)
        /\ op[s].new \in Config /\ readAt \in [Netconf -> Nat]
    <2>1. op[s] \in Op
      BY DEF TypeInv, TypeOK
    <2> QED BY <2>1 DEF TypeInv, TypeOK, Op
  <1>1. readAt' \in [Netconf -> Nat] /\ \A r \in Netconf : readAt'[r] = IF r = s THEN 0 ELSE readAt[r]
    BY <1>0 DEF Store
  <1>2. CASE op[s].restore
    <2>1. log' = Append(log, op[s].new) /\ UNCHANGED candidate /\ holder = s /\ holder' = None
      BY <1>2, Zenon DEF Store, Datastore!Restore
    <2> QED BY <1>0, <1>1, <1>2, <2>1, Appended
  <1>3. CASE ~op[s].restore
    <2>1. /\ log' = Append(log, candidate[s]) /\ candidate[s] # None
          /\ candidate' = [candidate EXCEPT ![s] = None] /\ holder = s /\ holder' = None
      BY <1>3, Zenon DEF Store, Datastore!Promote
    <2>2. candidate' \in [Session -> Config \cup {None}] /\ candidate[s] \in Config
      BY <1>0, <2>1
    <2> QED BY <1>0, <1>1, <1>3, <2>1, <2>2, Appended
  <1> QED BY <1>2, <1>3

\* The requests of NETCONF sessions.
LEMMA NetconfType ==
  ASSUME TypeInv, NEW s \in Netconf, Lock(s) \/ EditConfig(s) \/ Unlock(s) \/ NetconfCommit(s)
  PROVE  TypeInv'
  <1>0. s \in Session /\ TypeOK /\ Knows(op[s], Home[s]) /\ op[s] \in Op
        /\ candidate[s] \in Config \cup {None} /\ Len(log) \in Nat /\ readAt \in [Netconf -> Nat]
    BY DEF Session, TypeInv, TypeOK
  <1>1. CASE Lock(s)
    BY <1>0, <1>1, Unchanged, SessionStepType, Zenon DEF Lock, Datastore!Take
  <1>2. CASE EditConfig(s)
    <2>1. Home[s] # None
      BY <1>0, <1>2, CoordinationAssumption DEF EditConfig, TypeInv
    <2>2. /\ op' \in [Session -> Op] /\ op'[s].phase = "save"
          /\ \A r \in Session \ {s} : op'[r] = op[r]
      BY <1>0, <1>2, GotoOp, Phases DEF EditConfig
    <2>3. Knows(op'[s], Home[s])
      BY <2>1, <2>2 DEF Knows, Carrying, Remembering
    <2>4. readAt' \in [Netconf -> Nat]
      BY <1>0, <1>2 DEF EditConfig
    <2>5. UNCHANGED <<datastoreVars, engine, forwarding, base, sync, seen, ops, deployment>>
      BY <1>2 DEF EditConfig
    <2> QED BY <1>0, <2>1, <2>2, <2>3, <2>4, <2>5, Unchanged, SessionStepType DEF datastoreVars
  <1>3. CASE Unlock(s)
    <2>1. Home[s] # None
      BY <1>0, <1>3, CoordinationAssumption DEF Unlock, TypeInv
    <2>2. readAt' \in [Netconf -> Nat]
      BY <1>0, <1>3 DEF Unlock
    <2>3. holder' = None
          /\ UNCHANGED <<candidate, log, engine, forwarding, op, base, sync, seen, ops, deployment>>
      BY <1>3 DEF Unlock, Datastore!Drop
    <2> QED BY <1>0, <2>1, <2>2, <2>3, Unchanged, SessionStepType, Zenon
  <1>4. CASE NetconfCommit(s)
    <2>1. Home[s] # None /\ candidate[s] \in Config
      BY <1>0, <1>4, CoordinationAssumption DEF NetconfCommit, TypeInv
    <2>2. Start(s, "before", candidate[s], FALSE)
      BY <1>4, Zenon DEF NetconfCommit
    <2>3. /\ op' \in [Session -> Op] /\ op'[s].phase = "before" /\ op'[s].new = candidate[s]
          /\ \A r \in Session \ {s} : op'[r] = op[r]
      BY <1>0, <2>1, <2>2, StartOp, Phases
    <2>4. Knows(op'[s], Home[s])
      BY <2>1, <2>3, CoordinationAssumption DEF Knows, Carrying, Remembering
    <2>5. Count /\ UNCHANGED <<datastoreVars, engine, forwarding, base, readAt, sync, seen, deployment>>
      BY <1>4 DEF NetconfCommit
    <2> QED BY <1>0, <2>1, <2>3, <2>4, <2>5, Unchanged, SessionStepType DEF datastoreVars
  <1> QED BY <1>1, <1>2, <1>3, <1>4

\* The requests of gRPC sessions.
LEMMA GrpcType ==
  ASSUME TypeInv, NEW s \in Grpc, GrpcReset(s) \/ GrpcCommit(s) \/ GrpcRollback(s)
  PROVE  TypeInv'
  <1>0. /\ s \in Session /\ TypeOK /\ Knows(op[s], Home[s]) /\ Home[s] \in Node /\ Home[s] # None
        /\ base \in [Grpc -> Snapshot] /\ engine \in [Node -> Snapshot] /\ log \in Seq(Config)
    BY Deployed, CoordinationAssumption DEF Session, TypeInv, TypeOK
  <1>1. CASE GrpcReset(s)
    <2>1. base' \in [Grpc -> Snapshot]
      BY <1>0, <1>1 DEF GrpcReset
    <2>2. UNCHANGED <<datastoreVars, engine, forwarding, op, readAt, sync, seen, ops, deployment>>
      BY <1>1 DEF GrpcReset
    <2> QED BY <1>0, <2>1, <2>2, Unchanged, SessionStepType DEF datastoreVars
  <1>2. ASSUME NEW c \in Config, NEW restore \in BOOLEAN, GrpcCall(s, c, restore) PROVE TypeInv'
    <2>1. Start(s, "prepare", c, restore)
      BY <1>2 DEF GrpcCall
    <2>2. /\ op' \in [Session -> Op] /\ op'[s].phase = "prepare" /\ op'[s].new = c
          /\ \A r \in Session \ {s} : op'[r] = op[r]
      BY <1>0, <2>1, StartOp, Phases
    <2>3. Knows(op'[s], Home[s])
      BY <1>0, <2>2, CoordinationAssumption DEF Knows, Carrying, Remembering
    <2>4. Count /\ UNCHANGED <<datastoreVars, engine, forwarding, base, readAt, sync, seen, deployment>>
      BY <1>2 DEF GrpcCall
    <2> HIDE DEF Knows
    <2> QED BY <1>0, <2>2, <2>3, <2>4, Unchanged, SessionStepType, Zenon DEF datastoreVars
  <1>3. CASE GrpcCommit(s)
    BY <1>0, <1>2, <1>3, Deployed, Zenon DEF GrpcCommit
  <1>4. CASE GrpcRollback(s)
    <2>1. PICK i \in 1 .. Len(log) : GrpcCall(s, log[i], TRUE)
      BY <1>4, Zenon DEF GrpcRollback
    <2>2. log[i] \in Config
      BY <1>0, <2>1
    <2> QED BY <1>2, <2>1, <2>2
  <1> QED BY <1>1, <1>3, <1>4

\* The steps of a commit or rollback.
LEMMA WorkType ==
  ASSUME TypeInv, NEW s \in Session, Work(s)
  PROVE  TypeInv'
  <1> USE DEF Carrying, Remembering
  <1>0. /\ TypeOK /\ Knows(op[s], Home[s]) /\ op[s] \in Op
        /\ candidate \in [Session -> Config \cup {None}]
        /\ engine \in [Node -> Snapshot] /\ base \in [Grpc -> Snapshot]
        /\ Home[s] \in Node \cup {None}
    BY Deployed DEF TypeInv, TypeOK
  <1>1. /\ op[s].phase # "idle" => Home[s] # None /\ Home[s] \in Node
        /\ op[s].phase \in Carrying => op[s].new # None /\ op[s].new \in Config
        /\ op[s].phase \in Remembering => op[s].before # None /\ op[s].before \in Config
    BY <1>0 DEF Knows, Op
  <1>2. ASSUME Finish(s)
        PROVE  op' \in [Session -> Op] /\ (\A r \in Session \ {s} : op'[r] = op[r])
               /\ Knows(op'[s], Home[s])
    <2>1. op'[s].phase = "idle" /\ op' \in [Session -> Op] /\ \A r \in Session \ {s} : op'[r] = op[r]
      BY <1>0, <1>2, FinishOp
    <2> QED BY <2>1 DEF Knows
  <1>3. ASSUME NEW phase \in {"recheck", "before", "persist", "undo"}, Goto(s, phase),
               op[s].phase \in Carrying, phase \in Remembering => op[s].phase \in Remembering
        PROVE  op' \in [Session -> Op] /\ (\A r \in Session \ {s} : op'[r] = op[r])
               /\ Knows(op'[s], Home[s])
    <2>1. /\ op'[s].phase = phase /\ op'[s].new = op[s].new /\ op'[s].before = op[s].before
          /\ op' \in [Session -> Op] /\ \A r \in Session \ {s} : op'[r] = op[r]
      BY <1>0, <1>3, GotoOp, Phases
    <2> QED BY <1>1, <1>3, <2>1 DEF Knows
  <1>4. ASSUME NEW c \in Config, EngineApply(Home[s], c), op[s].phase # "idle"
        PROVE  engine' \in [Node -> Snapshot] /\ forwarding' \in [Node -> Config]
    BY <1>0, <1>1, <1>4, EngineApplied
  <1>5. CASE SaveEdit(s)
    <2>1. op[s].phase # "idle" /\ Finish(s) /\ UNCHANGED <<holder, log>>
          /\ UNCHANGED <<engine, forwarding, base, sync, seen, ops, deployment>>
      BY <1>5 DEF SaveEdit, Datastore!Edit
    <2>2. candidate' \in [Session -> Config \cup {None}]
      BY <1>0, <1>5 DEF SaveEdit, Datastore!Edit
    <2>3. readAt' \in [Netconf -> Nat]
      BY <1>5, Zenon DEF SaveEdit, TypeInv, TypeOK
    <2> QED BY <1>1, <1>2, <2>1, <2>2, <2>3, Unchanged, SessionStepType
  <1>6. CASE Prepare(s)
    <2>1. /\ op[s].phase = "prepare"
          /\ UNCHANGED <<log, engine, forwarding, base, readAt, sync, seen, ops, deployment>>
      BY <1>6 DEF Prepare
    <2>2. holder' \in {holder, s} /\ (Goto(s, "recheck") \/ Finish(s))
      BY <1>6 DEF Prepare
    <2>3. candidate' \in [Session -> Config \cup {None}]
      BY <1>0, <1>1, <1>6, <2>1 DEF Prepare
    <2> QED BY <1>1, <1>2, <1>3, <2>1, <2>2, <2>3, Unchanged, SessionStepType
  <1>7. CASE Recheck(s)
    <2>1. /\ op[s].phase = "recheck"
          /\ UNCHANGED <<engine, forwarding, base, readAt, sync, seen, ops, deployment>>
          /\ \/ Goto(s, "before") /\ UNCHANGED datastoreVars
             \/ Finish(s) /\ Abort(s)
      BY <1>7 DEF Recheck
    <2>2. /\ op' \in [Session -> Op] /\ (\A r \in Session \ {s} : op'[r] = op[r])
          /\ Knows(op'[s], Home[s])
      BY <1>2, <1>3, <2>1
    <2>3. /\ candidate' \in [Session -> Config \cup {None}] /\ UNCHANGED log
          /\ holder' \in {None, holder}
      BY <2>1, AbortType, Unchanged DEF datastoreVars
    <2> QED BY <1>1, <2>1, <2>2, <2>3, Unchanged, SessionStepType
  <1>8. CASE Remember(s)
    <2>1. /\ op[s].phase = "before"
          /\ UNCHANGED <<datastoreVars, engine, forwarding, base, readAt, sync, seen, ops, deployment>>
      BY <1>8 DEF Remember
    <2>2. Running(s) \in Config
      BY <1>0, <1>1, <2>1 DEF Running, Snapshot
    <2>3. \/ Finish(s)
          \/ KeepSnapshot(s, Running(s))
      BY <1>8 DEF Remember
    <2>4. /\ op' \in [Session -> Op] /\ (\A r \in Session \ {s} : op'[r] = op[r])
          /\ Knows(op'[s], Home[s])
      <3>1. CASE KeepSnapshot(s, Running(s))
        <4>1. /\ op'[s].phase = "apply" /\ op'[s].new = op[s].new /\ op'[s].before = Running(s)
              /\ op' \in [Session -> Op] /\ \A r \in Session \ {s} : op'[r] = op[r]
          BY <1>0, <2>2, <3>1, RememberOp, Phases
        <4> QED BY <1>1, <2>1, <2>2, <4>1, CoordinationAssumption DEF Knows
      <3> QED BY <1>2, <2>3, <3>1
    <2> QED BY <1>1, <2>1, <2>4, Unchanged, SessionStepType DEF datastoreVars
  <1>9. CASE Apply(s)
    <2>1. /\ op[s].phase = "apply" /\ Goto(s, "persist") /\ EngineApply(Home[s], op[s].new)
          /\ UNCHANGED <<datastoreVars, base, readAt, sync, seen, ops, deployment>>
      BY <1>9 DEF Apply
    <2>2. engine' \in [Node -> Snapshot] /\ forwarding' \in [Node -> Config]
      BY <1>1, <1>4, <2>1
    <2>3. /\ op' \in [Session -> Op] /\ (\A r \in Session \ {s} : op'[r] = op[r])
          /\ Knows(op'[s], Home[s])
      BY <1>3, <2>1
    <2> QED BY <1>1, <2>1, <2>2, <2>3, Unchanged, SessionStepType DEF datastoreVars
  <1>10. CASE ApplyFails(s)
    <2>1. /\ op[s].phase = "apply" /\ Finish(s) /\ (Abort(s) \/ UNCHANGED datastoreVars)
          /\ UNCHANGED <<engine, forwarding, base, readAt, sync, seen, ops, deployment>>
      BY <1>10 DEF ApplyFails
    <2>2. /\ candidate' \in [Session -> Config \cup {None}] /\ UNCHANGED log
          /\ holder' \in {None, holder}
      BY <2>1, AbortType, Unchanged DEF datastoreVars
    <2> QED BY <1>1, <1>2, <2>1, <2>2, Unchanged, SessionStepType
  <1>11. CASE Persist(s)
    <2>1. /\ op[s].phase = "persist" /\ Finish(s) /\ Store(s)
          /\ UNCHANGED <<engine, forwarding, sync, seen, ops, deployment>>
      BY <1>11, Zenon DEF Persist
    <2>2. base' \in [Grpc -> Snapshot]
      BY <1>0, <1>1, <1>11, <2>1 DEF Persist
    <2>3. /\ candidate' \in [Session -> Config \cup {None}] /\ log' \in Seq(Config) /\ log' # << >>
          /\ readAt' \in [Netconf -> Nat] /\ holder' = None
      BY <1>1, <2>1, StoreType
    <2> QED BY <1>1, <1>2, <2>1, <2>2, <2>3, Unchanged, SessionStepType, Zenon
  <1>12. CASE PersistFails(s)
    <2>1. /\ op[s].phase = "persist" /\ Goto(s, "undo") /\ (Abort(s) \/ UNCHANGED datastoreVars)
          /\ UNCHANGED <<engine, forwarding, base, readAt, sync, seen, ops, deployment>>
      BY <1>12, Zenon DEF PersistFails
    <2>2. /\ candidate' \in [Session -> Config \cup {None}] /\ UNCHANGED log
          /\ holder' \in {None, holder}
      BY <2>1, AbortType, Unchanged DEF datastoreVars
    <2>3. /\ op' \in [Session -> Op] /\ (\A r \in Session \ {s} : op'[r] = op[r])
          /\ Knows(op'[s], Home[s])
      BY <1>3, <2>1
    <2> QED BY <1>1, <2>1, <2>2, <2>3, Unchanged, SessionStepType
  <1>13. CASE PersistUnanswered(s)
    <2>1. /\ op[s].phase = "persist" /\ Goto(s, "undo") /\ Store(s)
          /\ UNCHANGED <<engine, forwarding, base, sync, seen, ops, deployment>>
      BY <1>13, Zenon DEF PersistUnanswered
    <2>2. /\ candidate' \in [Session -> Config \cup {None}] /\ log' \in Seq(Config) /\ log' # << >>
          /\ readAt' \in [Netconf -> Nat] /\ holder' = None
      BY <1>1, <2>1, StoreType
    <2>3. /\ op' \in [Session -> Op] /\ (\A r \in Session \ {s} : op'[r] = op[r])
          /\ Knows(op'[s], Home[s])
      BY <1>3, <2>1
    <2> QED BY <1>1, <2>1, <2>2, <2>3, Unchanged, SessionStepType
  <1>14. CASE Undo(s)
    <2>1. /\ op[s].phase = "undo" /\ Finish(s) /\ EngineApply(Home[s], op[s].before)
          /\ UNCHANGED <<datastoreVars, base, readAt, sync, seen, ops, deployment>>
      BY <1>14 DEF Undo
    <2>2. engine' \in [Node -> Snapshot] /\ forwarding' \in [Node -> Config]
      BY <1>1, <1>4, <2>1
    <2> QED BY <1>1, <1>2, <2>1, <2>2, Unchanged, SessionStepType DEF datastoreVars
  <1>15. CASE UndoFails(s)
    <2>1. /\ op[s].phase = "undo" /\ Finish(s)
          /\ UNCHANGED <<datastoreVars, engine, forwarding, base, readAt, sync, seen, ops, deployment>>
      BY <1>15 DEF UndoFails
    <2> QED BY <1>1, <1>2, <2>1, Unchanged, SessionStepType DEF datastoreVars
  <1> QED BY <1>5, <1>6, <1>7, <1>8, <1>9, <1>10, <1>11, <1>12, <1>13, <1>14, <1>15 DEF Work

\* A step of a synchronizer.
LEMMA SyncStepType ==
  ASSUME TypeInv, UNCHANGED <<deployment, datastoreVars, op, base, readAt>>, NEW n \in Node,
         NEW y \in Sync, sync' = [sync EXCEPT ![n] = y], y.phase = "apply" => y.snapshot # None,
         engine' \in [Node -> Snapshot], forwarding' \in [Node -> Config],
         seen' \in [Node -> Nat], ops' \in Nat
  PROVE  TypeInv'
  <1>1. Home' = Home /\ holder' = holder /\ candidate' = candidate /\ log' = log
    BY SameDeployment DEF datastoreVars
  <1>2. sync \in [Node -> Sync]
    BY DEF TypeInv, TypeOK
  <1>3. sync' \in [Node -> Sync] /\ sync'[n] = y /\ \A m \in Node \ {n} : sync'[m] = sync[m]
    BY <1>2
  <1>4. TypeOK'
    BY <1>1, <1>3 DEF TypeInv, TypeOK
  <1>5. \A m \in Node : sync'[m].phase = "apply" => sync'[m].snapshot # None
    BY <1>3 DEF TypeInv
  <1> QED BY <1>1, <1>4, <1>5 DEF TypeInv

\* The steps of the synchronizers, losing the lock and restarting.
LEMMA NodeType ==
  ASSUME TypeInv, NEW n \in Node, Reconcile(n) \/ SyncFails(n) \/ Restart(n)
  PROVE  TypeInv'
  <1>0. /\ TypeOK /\ log \in Seq(Config) /\ log # << >> /\ sync[n] \in Sync
        /\ engine \in [Node -> Snapshot] /\ seen \in [Node -> Nat]
        /\ (UNCHANGED seen => seen' \in [Node -> Nat])
    BY DEF TypeInv, TypeOK
  <1>1. Stored \in Config /\ Len(log) \in Nat
    BY <1>0, StoredType
  <1>2. NoSync \in Sync /\ NoSync.phase = "idle"
    BY DEF NoSync, Sync, SyncPhase
  <1>3. CASE SyncStatus(n)
    <2> DEFINE y == [sync[n] EXCEPT !.phase = "load", !.revision = Len(log)]
    <2>1. "load" \in SyncPhase
      BY DEF SyncPhase
    <2>2. y \in Sync /\ y.phase = "load"
      BY <1>0, <1>1, <2>1 DEF Sync
    <2>3. /\ sync' = [sync EXCEPT ![n] = y]
          /\ UNCHANGED <<datastoreVars, engine, forwarding, op, base, readAt, seen, ops, deployment>>
      BY <1>3 DEF SyncStatus
    <2> HIDE DEF y
    <2> QED BY <1>0, <2>2, <2>3, Unchanged, SyncStepType, Zenon
  <1>4. CASE SyncLoad(n)
    <2> DEFINE y == [sync[n] EXCEPT !.phase = "apply", !.snapshot = Stored]
    <2>1. "apply" \in SyncPhase
      BY DEF SyncPhase
    <2>2. y \in Sync /\ y.snapshot = Stored
      BY <1>0, <1>1, <2>1 DEF Sync
    <2>3. /\ sync' = [sync EXCEPT ![n] = y]
          /\ UNCHANGED <<datastoreVars, engine, forwarding, op, base, readAt, seen, ops, deployment>>
      BY <1>4, Zenon DEF SyncLoad
    <2>4. y.snapshot # None
      BY <1>1, <2>2, CoordinationAssumption
    <2> HIDE DEF y
    <2> QED BY <1>0, <2>2, <2>3, <2>4, Unchanged, SyncStepType, Zenon
  <1>5. CASE SyncApply(n)
    <2>1. /\ sync' = [sync EXCEPT ![n] = NoSync] /\ sync[n].phase = "apply"
          /\ EngineApply(n, sync[n].snapshot)
          /\ UNCHANGED <<datastoreVars, op, base, readAt, ops, deployment>>
      BY <1>5 DEF SyncApply
    <2>2. sync[n].snapshot \in Config /\ sync[n].revision \in Nat
      BY <1>0, <2>1 DEF TypeInv, Sync
    <2>3. engine' \in [Node -> Snapshot] /\ forwarding' \in [Node -> Config]
      BY <1>0, <2>1, <2>2, EngineApplied
    <2>4. seen' \in [Node -> Nat]
      BY <1>0, <1>5, <2>2 DEF SyncApply
    <2> QED BY <1>2, <2>1, <2>3, <2>4, Unchanged, SyncStepType, Zenon
  <1>6. CASE SyncFails(n)
    <2>1. /\ sync' = [sync EXCEPT ![n] = NoSync] /\ Count
          /\ UNCHANGED <<datastoreVars, engine, forwarding, op, base, readAt, seen, deployment>>
      BY <1>6 DEF SyncFails
    <2> QED BY <1>0, <1>2, <2>1, Unchanged, SyncStepType, Zenon
  <1>7. CASE Restart(n)
    <2> DEFINE e == [config |-> Stored, version |-> Len(log)]
    <2>1. e \in Snapshot
      BY <1>1 DEF Snapshot
    <2>2. engine' = [engine EXCEPT ![n] = e]
      BY <1>7 DEF Restart
    <2> HIDE DEF e
    <2>3. engine' \in [Node -> Snapshot] /\ engine'[n] \in Snapshot
      BY <1>0, <2>1, <2>2
    <2>4. NoOp \in Op /\ NoOp.phase = "idle"
      BY DEF NoOp, Op, Phase
    <2>5. op' = [s \in Session |-> IF Home[s] = n THEN NoOp ELSE op[s]]
      BY <1>7 DEF Restart
    <2>6. op' \in [Session -> Op] /\ \A s \in Session : op'[s] \in {NoOp, op[s]}
      BY <1>0, <2>4, <2>5 DEF TypeOK
    <2>7. base' \in [Grpc -> Snapshot]
      <3>1. base' = [s \in Grpc |-> IF Home[s] = n THEN engine'[n] ELSE base[s]]
        BY <1>7 DEF Restart
      <3> QED BY <1>0, <2>3, <3>1 DEF TypeOK
    <2>8. candidate' \in [Session -> Config \cup {None}] /\ readAt' \in [Netconf -> Nat]
          /\ holder' \in {None, holder} /\ seen' \in [Node -> Nat] /\ ops' \in Nat
      BY <1>0, <1>7, Unchanged DEF Restart, TypeOK
    <2>9. sync' = [sync EXCEPT ![n] = NoSync] /\ UNCHANGED <<log, forwarding, deployment>>
      BY <1>7 DEF Restart
    <2>10. sync' \in [Node -> Sync] /\ \A m \in Node : sync'[m] \in {NoSync, sync[m]}
      BY <1>0, <1>2, <2>9 DEF TypeOK
    <2>11. TypeOK'
      BY <1>0, <2>3, <2>6, <2>7, <2>8, <2>9, <2>10 DEF TypeOK
    <2>12. Home' = Home
      BY <2>9, SameDeployment
    <2>13. ASSUME NEW s \in Session PROVE Knows(op'[s], Home'[s])
      BY <2>4, <2>6, <2>12 DEF TypeInv, Knows, Carrying, Remembering
    <2>14. \A m \in Node : sync'[m].phase = "apply" => sync'[m].snapshot # None
      BY <1>2, <2>10 DEF TypeInv
    <2> QED BY <1>0, <2>8, <2>9, <2>11, <2>12, <2>13, <2>14 DEF TypeInv
  <1> QED BY <1>3, <1>4, <1>5, <1>6, <1>7 DEF Reconcile

LEMMA LoseLockType ==
  ASSUME TypeInv, LoseLock
  PROVE  TypeInv'
  <1>1. holder' = None /\ Count
        /\ UNCHANGED <<candidate, log, engine, forwarding, op, base, sync, seen, deployment>>
    BY DEF LoseLock, Datastore!Drop
  <1>2. readAt' \in [Netconf -> Nat] /\ ops' \in Nat
    BY Unchanged DEF LoseLock, TypeInv, TypeOK
  <1>3. TypeOK'
    BY <1>1, <1>2 DEF TypeInv, TypeOK
  <1>4. Home' = Home
    BY <1>1, SameDeployment
  <1> QED BY <1>1, <1>3, <1>4 DEF TypeInv

LEMMA NextTypeInv == TypeInv /\ [Next]_vars => TypeInv'
  <1> SUFFICES ASSUME TypeInv, [Next]_vars PROVE TypeInv'
    OBVIOUS
  <1>1. CASE Next
    BY <1>1, NetconfType, GrpcType, WorkType, NodeType, LoseLockType DEF Next
  <1>2. CASE UNCHANGED vars
    BY <1>2 DEF vars, TypeInv, TypeOK, Home
  <1> QED BY <1>1, <1>2

LEMMA InitTypeInv == Init => TypeInv
  <1> SUFFICES ASSUME Init PROVE TypeInv
    OBVIOUS
  <1>1. deployment \in Deployment
    BY CoordinationAssumption DEF Init
  <1>2. deployment.initial \in Config
    BY <1>1 DEF Deployment
  <1>3. log = <<deployment.initial>>
    BY DEF Init
  <1>4. log \in Seq(Config) /\ log # << >>
    BY <1>2, <1>3
  <1>5. [config |-> deployment.initial, version |-> 1] \in Snapshot
    BY <1>2 DEF Snapshot
  <1>6. NoOp \in Op /\ NoOp.phase = "idle" /\ NoSync \in Sync /\ NoSync.phase = "idle"
    BY DEF NoOp, Op, Phase, NoSync, Sync, SyncPhase
  <1>7. op = [s \in Session |-> NoOp] /\ sync = [n \in Node |-> NoSync]
    BY DEF Init
  <1>8. /\ op \in [Session -> Op] /\ (\A s \in Session : op[s].phase = "idle")
        /\ sync \in [Node -> Sync] /\ (\A n \in Node : sync[n].phase = "idle")
    BY <1>6, <1>7
  <1>9. engine \in [Node -> Snapshot] /\ base \in [Grpc -> Snapshot]
    BY <1>5 DEF Init
  <1>10. TypeOK
    BY <1>2, <1>4, <1>8, <1>9 DEF Init, TypeOK
  <1>11. \A s \in Session : Knows(op[s], Home[s])
    BY <1>8 DEF Knows, Carrying, Remembering
  <1> QED BY <1>4, <1>8, <1>10, <1>11 DEF Init, TypeInv

LEMMA CoordinationTypeInv == Spec => []TypeInv
  BY InitTypeInv, NextTypeInv, PTL DEF Spec

\* Every commit, rollback, synchronization and restart keeps the variables in
\* their types (TypeOK): in particular a handler that undoes its apply always has
\* a snapshot to go back to, and a synchronizer that applies has one to apply.
THEOREM CoordinationTypeCorrect == Spec => []TypeOK
  <1>1. TypeInv => TypeOK
    BY DEF TypeInv
  <1> QED BY <1>1, CoordinationTypeInv, PTL

-----------------------------------------------------------------------------
(***************************************************************************)
(* A commit stores what it read, and is of the newest commit.              *)
(***************************************************************************)
\* A step of one session.
LEMMA SessionStepBase ==
  ASSUME BaseInv, NEW s \in Session,
         \A r \in Session \ {s} : op'[r] = op[r] /\ candidate'[r] = candidate[r],
         Promised(s, op'[s], candidate'[s]),
         \A r \in Netconf : readAt'[r] # 0 => holder' = r /\ readAt'[r] = Len(log')
  PROVE  BaseInv'
  <1>1. ASSUME NEW r \in Session PROVE Promised(r, op'[r], candidate'[r])
    BY <1>1 DEF BaseInv
  <1> QED BY <1>1 DEF BaseInv

\* The lock changes hands without a commit, and no NETCONF session had it that
\* has a candidate.
LEMMA LockPasses ==
  ASSUME BaseInv, UNCHANGED <<readAt, log>>,
         \/ holder' = holder
         \/ holder \notin Netconf
  PROVE  \A r \in Netconf : readAt'[r] # 0 => holder' = r /\ readAt'[r] = Len(log')
  BY DEF BaseInv

\* Aborting a gRPC operation, storing a commit.
LEMMA AbortBase ==
  ASSUME TypeInv, BaseInv, NEW s \in Grpc, Abort(s), UNCHANGED readAt
  PROVE  /\ \A r \in Session \ {s} : candidate'[r] = candidate[r]
         /\ \A r \in Netconf : readAt'[r] # 0 => holder' = r /\ readAt'[r] = Len(log')
  <1>1. log' = log /\ holder' = IF holder = s THEN None ELSE holder
    BY DEF Abort
  <1>2. \A r \in Session \ {s} : candidate'[r] = candidate[r]
    BY DEF Abort, TypeInv, TypeOK
  <1>3. s \notin Netconf
    BY CoordinationAssumption
  <1> QED BY <1>1, <1>2, <1>3, LockPasses

LEMMA StoreBase ==
  ASSUME TypeInv, BaseInv, NEW s \in Session, op[s].phase = "persist", Store(s)
  PROVE  /\ log' = Append(log, op[s].new) /\ op[s].new \in Config
         /\ \A r \in Session \ {s} : candidate'[r] = candidate[r]
         /\ \A r \in Netconf : readAt'[r] = 0
  <1>1. op[s].new # None /\ op[s] \in Op
    BY DEF TypeInv, TypeOK, Knows, Carrying
  <1>2. /\ \/ op[s].restore /\ UNCHANGED candidate /\ log' = Append(log, op[s].new)
           \/ /\ ~op[s].restore /\ log' = Append(log, candidate[s])
              /\ candidate' = [candidate EXCEPT ![s] = None]
        /\ holder = s
        /\ \A r \in Netconf : readAt'[r] = IF r = s THEN 0 ELSE readAt[r]
    BY <1>1, StoreType
  <1>3. ~op[s].restore => candidate[s] = op[s].new
    BY DEF BaseInv, Promised, Prepared
  <1>4. log' = Append(log, op[s].new)
    BY <1>2, <1>3
  <1>5. \A r \in Session \ {s} : candidate'[r] = candidate[r]
    BY <1>2 DEF TypeInv, TypeOK
  <1>6. \A r \in Netconf : readAt'[r] = 0
    BY <1>2 DEF BaseInv
  <1> QED BY <1>1, <1>4, <1>5, <1>6 DEF Op

LEMMA NextBaseInv == TypeInv /\ BaseInv /\ [Next]_vars => BaseInv'
  <1> SUFFICES ASSUME TypeInv, BaseInv, [Next]_vars PROVE BaseInv'
    OBVIOUS
  <1>0. TypeOK /\ candidate \in [Session -> Config \cup {None}] /\ readAt \in [Netconf -> Nat]
    BY DEF TypeInv, TypeOK
  <1>1. ASSUME NEW s \in Session, op'[s].phase \notin Prepared \cup {"prepare"}
        PROVE  Promised(s, op'[s], candidate'[s])
    BY <1>1 DEF Promised, Prepared
  <1>2. ASSUME NEW s \in Session, Finish(s)
        PROVE  Promised(s, op'[s], candidate'[s]) /\ \A r \in Session \ {s} : op'[r] = op[r]
    <2>1. op'[s].phase = "idle" /\ \A r \in Session \ {s} : op'[r] = op[r]
      BY <1>0, <1>2, FinishOp
    <2> QED BY <1>1, <2>1 DEF Prepared
  <1>3. ASSUME NEW s \in Netconf, Lock(s) PROVE BaseInv'
    <2>1. /\ holder \in {None, s} /\ holder' = s
          /\ UNCHANGED <<candidate, log, op, readAt>>
      BY <1>3 DEF Lock, Datastore!Take
    <2>2. \A r \in Netconf : readAt'[r] # 0 => holder' = r /\ readAt'[r] = Len(log')
      BY <2>1, CoordinationAssumption DEF BaseInv, Session
    <2> QED BY <2>1, <2>2 DEF BaseInv
  <1>4. ASSUME NEW s \in Netconf, EditConfig(s) PROVE BaseInv'
    <2>1. /\ holder = s /\ Goto(s, "save") /\ UNCHANGED <<candidate, log, holder>>
          /\ readAt' = IF candidate[s] = None THEN [readAt EXCEPT ![s] = Len(log)] ELSE readAt
      BY <1>4 DEF EditConfig, datastoreVars
    <2>2. s \in Session /\ op'[s].phase = "save" /\ \A r \in Session \ {s} : op'[r] = op[r]
      BY <1>0, <2>1, GotoOp, Phases DEF Session
    <2>3. \A r \in Netconf : readAt'[r] # 0 => holder' = r /\ readAt'[r] = Len(log')
      BY <1>0, <2>1 DEF BaseInv
    <2> QED BY <1>1, <2>1, <2>2, <2>3, SessionStepBase DEF Prepared
  <1>5. ASSUME NEW s \in Netconf, Unlock(s) PROVE BaseInv'
    <2>1. /\ holder = s /\ holder' = None /\ UNCHANGED <<candidate, log, op>>
          /\ readAt' = [readAt EXCEPT ![s] = 0]
      BY <1>5 DEF Unlock, Datastore!Drop
    <2>2. \A r \in Netconf : readAt'[r] = 0
      BY <1>0, <2>1 DEF BaseInv
    <2> QED BY <2>1, <2>2 DEF BaseInv
  <1>6. ASSUME NEW s \in Netconf, NetconfCommit(s) PROVE BaseInv'
    <2>1. /\ candidate[s] # None /\ Start(s, "before", candidate[s], FALSE)
          /\ UNCHANGED <<candidate, log, holder, readAt>>
      BY <1>6, Zenon DEF NetconfCommit, datastoreVars
    <2>2. s \in Session /\ candidate[s] \in Config
      BY <1>0, <2>1 DEF Session
    <2>3. /\ op'[s].phase = "before" /\ op'[s].new = candidate'[s]
          /\ \A r \in Session \ {s} : op'[r] = op[r]
      BY <1>0, <2>1, <2>2, StartOp, Phases, Zenon
    <2>4. Promised(s, op'[s], candidate'[s])
      BY <2>3 DEF Promised
    <2> QED BY <2>1, <2>2, <2>3, <2>4, LockPasses, SessionStepBase
  <1>7. ASSUME NEW s \in Grpc, GrpcReset(s) PROVE BaseInv'
    BY <1>7 DEF GrpcReset, datastoreVars, BaseInv
  <1>8. ASSUME NEW s \in Grpc, NEW c \in Config, NEW restore \in BOOLEAN, GrpcCall(s, c, restore)
        PROVE  BaseInv'
    <2>1. Start(s, "prepare", c, restore) /\ UNCHANGED <<candidate, log, holder, readAt>>
      BY <1>8 DEF GrpcCall, datastoreVars
    <2>2. s \in Session
      BY DEF Session
    <2>3. op'[s].phase = "prepare" /\ \A r \in Session \ {s} : op'[r] = op[r]
      BY <1>0, <2>1, <2>2, StartOp, Phases
    <2>4. Promised(s, op'[s], candidate'[s])
      BY <2>3 DEF Promised, Prepared
    <2> QED BY <2>1, <2>2, <2>3, <2>4, LockPasses, SessionStepBase, Zenon
  <1>9. ASSUME NEW s \in Grpc, GrpcCommit(s) \/ GrpcRollback(s) PROVE BaseInv'
    <2>1. PICK c \in Config, restore \in BOOLEAN : GrpcCall(s, c, restore)
      <3>1. CASE GrpcCommit(s)
        BY <1>0, <3>1, Deployed, Zenon DEF GrpcCommit
      <3>2. CASE GrpcRollback(s)
        <4>1. PICK i \in 1 .. Len(log) : GrpcCall(s, log[i], TRUE)
          BY <3>2, Zenon DEF GrpcRollback
        <4>2. log[i] \in Config
          BY <1>0, <4>1 DEF TypeOK
        <4> QED BY <4>1, <4>2
      <3> QED BY <1>9, <3>1, <3>2
    <2> QED BY <1>8, <2>1
  <1>10. ASSUME NEW s \in Session, SaveEdit(s) PROVE BaseInv'
    <2>1. /\ Finish(s) /\ UNCHANGED <<holder, log>>
          /\ readAt' = IF candidate'[s] = None THEN [readAt EXCEPT ![s] = 0] ELSE readAt
      BY <1>10 DEF SaveEdit, Datastore!Edit
    <2>2. \A r \in Session \ {s} : candidate'[r] = candidate[r]
      BY <1>0, <1>10 DEF SaveEdit, Datastore!Edit
    <2>3. \A r \in Netconf : readAt'[r] # 0 => holder' = r /\ readAt'[r] = Len(log')
      BY <1>0, <2>1 DEF BaseInv
    <2> QED BY <1>2, <2>1, <2>2, <2>3, SessionStepBase
  <1>11. ASSUME NEW s \in Session, Prepare(s) PROVE BaseInv'
    <2>1. op[s].phase = "prepare" /\ UNCHANGED <<log, readAt>>
      BY <1>11 DEF Prepare
    <2>2. CASE holder = None
      <3>1. /\ holder' = s /\ Goto(s, "recheck")
            /\ candidate' = [candidate EXCEPT ![s] = IF op[s].restore THEN None ELSE op[s].new]
        BY <1>11, <2>2 DEF Prepare
      <3>2. /\ op'[s].new = op[s].new /\ op'[s].restore = op[s].restore
            /\ \A r \in Session \ {s} : op'[r] = op[r]
        BY <1>0, <3>1, GotoOp, Phases
      <3>3. /\ \A r \in Session \ {s} : candidate'[r] = candidate[r]
            /\ ~op[s].restore => candidate'[s] = op[s].new
        BY <1>0, <3>1
      <3>4. Promised(s, op'[s], candidate'[s])
        BY <2>1, <3>2, <3>3 DEF Promised, BaseInv
      <3>5. holder \notin Netconf
        BY <2>2, CoordinationAssumption DEF Session
      <3> QED BY <2>1, <3>2, <3>3, <3>4, <3>5, LockPasses, SessionStepBase
    <2>3. CASE holder # None
      <3>1. Finish(s) /\ UNCHANGED <<holder, candidate>>
        BY <1>11, <2>3 DEF Prepare
      <3> QED BY <1>2, <2>1, <3>1, LockPasses, SessionStepBase
    <2> QED BY <2>2, <2>3
  <1>12. ASSUME NEW s \in Session, NEW phase \in Phase \ {"prepare", "recheck"}, Goto(s, phase),
                op[s].phase \in Prepared
         PROVE  /\ \A r \in Session \ {s} : op'[r] = op[r]
                /\ Promised(s, op'[s], candidate[s])
    <2>1. /\ op'[s].phase = phase /\ op'[s].new = op[s].new /\ op'[s].restore = op[s].restore
          /\ \A r \in Session \ {s} : op'[r] = op[r]
      BY <1>0, <1>12, GotoOp
    <2> QED BY <1>12, <2>1 DEF BaseInv, Promised
  <1>13. ASSUME NEW s \in Session, op[s].phase \in Prepared,
                NEW phase \in Phase \ {"prepare", "recheck"}, Goto(s, phase),
                UNCHANGED <<datastoreVars, readAt>>
         PROVE  BaseInv'
    BY <1>12, <1>13, LockPasses, SessionStepBase DEF datastoreVars
  <1>14. ASSUME NEW s \in Session, Finish(s), UNCHANGED <<datastoreVars, readAt>>
         PROVE  BaseInv'
    BY <1>2, <1>14, LockPasses, SessionStepBase DEF datastoreVars
  <1>15. ASSUME NEW s \in Grpc, Finish(s), Abort(s), UNCHANGED readAt PROVE BaseInv'
    BY <1>2, <1>15, AbortBase, SessionStepBase DEF Session
  <1>16. ASSUME NEW s \in Session, Recheck(s) PROVE BaseInv'
    <2>1. op[s].phase = "recheck" /\ UNCHANGED readAt
      BY <1>16 DEF Recheck
    <2>2. s \in Grpc
      BY <2>1 DEF BaseInv, Promised
    <2>3. (Goto(s, "before") /\ UNCHANGED datastoreVars) \/ (Finish(s) /\ Abort(s))
      BY <1>16 DEF Recheck
    <2> QED BY <1>13, <1>15, <2>1, <2>2, <2>3, Phases DEF Prepared
  <1>17. ASSUME NEW s \in Session, Remember(s) PROVE BaseInv'
    <2>1. op[s].phase = "before" /\ UNCHANGED <<datastoreVars, readAt>>
      BY <1>17 DEF Remember
    <2>2. CASE Finish(s)
      BY <1>14, <2>1, <2>2
    <2>3. CASE KeepSnapshot(s, Running(s))
      <3>1. Running(s) \in Config
        <4>1. Home[s] \in Node
          BY <1>0, <2>1, Deployed DEF TypeInv, Knows
        <4> QED BY <1>0, <4>1 DEF Running, TypeOK, Snapshot
      <3>2. /\ op'[s].phase = "apply" /\ op'[s].new = op[s].new /\ op'[s].restore = op[s].restore
            /\ \A r \in Session \ {s} : op'[r] = op[r]
        BY <1>0, <2>3, <3>1, RememberOp
      <3>3. Promised(s, op'[s], candidate[s])
        BY <2>1, <3>2 DEF BaseInv, Promised, Prepared
      <3> QED BY <2>1, <3>2, <3>3, LockPasses, SessionStepBase DEF datastoreVars
    <2> QED BY <1>17, <2>2, <2>3 DEF Remember
  <1>18. ASSUME NEW s \in Session, Apply(s) PROVE BaseInv'
    BY <1>13, <1>18, Phases DEF Apply, Prepared
  <1>19. ASSUME NEW s \in Session, ApplyFails(s) PROVE BaseInv'
    <2>1. Finish(s) /\ UNCHANGED readAt
      BY <1>19 DEF ApplyFails
    <2>2. (s \in Grpc /\ Abort(s)) \/ UNCHANGED datastoreVars
      BY <1>19 DEF ApplyFails
    <2> QED BY <1>14, <1>15, <2>1, <2>2
  <1>20. ASSUME NEW s \in Session, op[s].phase = "persist", Store(s), Finish(s) \/ Goto(s, "undo")
         PROVE  BaseInv'
    <2>1. /\ \A r \in Session \ {s} : candidate'[r] = candidate[r]
          /\ \A r \in Netconf : readAt'[r] = 0
      BY <1>20, StoreBase
    <2>2. op'[s].phase \in {"idle", "undo"} /\ \A r \in Session \ {s} : op'[r] = op[r]
      BY <1>0, <1>20, FinishOp, GotoOp, Phases
    <2>3. Promised(s, op'[s], candidate'[s])
      BY <1>1, <2>2 DEF Prepared
    <2> QED BY <2>1, <2>2, <2>3, SessionStepBase
  <1>21. ASSUME NEW s \in Session, PersistFails(s) PROVE BaseInv'
    <2>1. op[s].phase = "persist" /\ Goto(s, "undo") /\ UNCHANGED readAt
      BY <1>21, Zenon DEF PersistFails
    <2>2. op'[s].phase = "undo" /\ \A r \in Session \ {s} : op'[r] = op[r]
      BY <1>0, <2>1, GotoOp, Phases
    <2>3. Promised(s, op'[s], candidate'[s])
      BY <1>1, <2>2 DEF Prepared
    <2>4. CASE s \in Grpc /\ Abort(s)
      BY <2>1, <2>2, <2>3, <2>4, AbortBase, SessionStepBase
    <2>5. CASE UNCHANGED datastoreVars
      BY <2>1, <2>2, <2>3, <2>5, LockPasses, SessionStepBase DEF datastoreVars
    <2> QED BY <1>21, <2>4, <2>5, Zenon DEF PersistFails
  <1>22. ASSUME NEW s \in Session, Work(s) PROVE BaseInv'
    <2>1. CASE SaveEdit(s) \/ Prepare(s) \/ Recheck(s) \/ Remember(s) \/ Apply(s) \/ ApplyFails(s)
      BY <2>1, <1>10, <1>11, <1>16, <1>17, <1>18, <1>19
    <2>2. CASE Persist(s) \/ PersistUnanswered(s)
      BY <2>2, <1>20 DEF Persist, PersistUnanswered
    <2>3. CASE PersistFails(s)
      BY <2>3, <1>21
    <2>4. CASE Undo(s) \/ UndoFails(s)
      BY <2>4, <1>14 DEF Undo, UndoFails
    <2> QED BY <1>22, <2>1, <2>2, <2>3, <2>4 DEF Work
  <1>23. ASSUME UNCHANGED <<datastoreVars, op, readAt>> PROVE BaseInv'
    BY <1>23 DEF BaseInv, datastoreVars
  <1>24. ASSUME NEW n \in Node, Reconcile(n) \/ SyncFails(n) PROVE BaseInv'
    BY <1>23, <1>24 DEF Reconcile, SyncStatus, SyncLoad, SyncApply, SyncFails
  <1>25. ASSUME NEW n \in Node, Restart(n) PROVE BaseInv'
    <2>1. /\ holder' = IF holder # None /\ Home[holder] = n THEN None ELSE holder
          /\ candidate' = [s \in Session |-> IF Home[s] = n THEN None ELSE candidate[s]]
          /\ op' = [s \in Session |-> IF Home[s] = n THEN NoOp ELSE op[s]]
          /\ readAt' = [s \in Netconf |-> IF Home[s] = n THEN 0 ELSE readAt[s]]
          /\ UNCHANGED log
      BY <1>25 DEF Restart
    <2>2. ASSUME NEW s \in Session PROVE Promised(s, op'[s], candidate'[s])
      <3>1. CASE Home[s] = n
        BY <1>1, <2>1, <3>1, Zenon DEF NoOp, Prepared
      <3>2. CASE Home[s] # n
        BY <2>1, <3>2 DEF BaseInv
      <3> QED BY <3>1, <3>2
    <2>3. ASSUME NEW s \in Netconf, readAt'[s] # 0 PROVE holder' = s /\ readAt'[s] = Len(log')
      <3>1. Home[s] # n /\ readAt[s] # 0
        BY <2>1, <2>3
      <3> QED BY <2>1, <3>1 DEF BaseInv
    <2> QED BY <2>2, <2>3 DEF BaseInv
  <1>26. ASSUME LoseLock PROVE BaseInv'
    <2>1. /\ holder' = None /\ readAt' = [s \in Netconf |-> IF s = holder THEN 0 ELSE readAt[s]]
          /\ UNCHANGED <<candidate, log, op>>
      BY <1>26 DEF LoseLock, Datastore!Drop
    <2>2. \A s \in Netconf : readAt'[s] = 0
      BY <2>1 DEF BaseInv
    <2> QED BY <2>1, <2>2 DEF BaseInv
  <1>27. CASE UNCHANGED vars
    BY <1>23, <1>27 DEF vars, datastoreVars
  <1> QED BY <1>3, <1>4, <1>5, <1>6, <1>7, <1>9, <1>22, <1>24, <1>25, <1>26, <1>27 DEF Next

LEMMA CoordinationBaseInv == Spec => []BaseInv
  <1>1. Init => BaseInv
    BY DEF Init, BaseInv, Promised, NoOp, Prepared
  <1> QED BY <1>1, NextBaseInv, CoordinationTypeInv, PTL DEF Spec

\* CommitIsOfItsBase: whatever fails, whoever loses its lock and however often
\* the daemons restart, Datastore.Commit and Rollback store the configuration
\* that the handler applied, and a NETCONF commit whose session has kept its
\* lock buries no other.
THEOREM CoordinationCommitIsOfItsBase == Spec => CommitIsOfItsBase
  <1> DEFINE Step == \A s \in Session : Persist(s) =>
                       /\ log'[Len(log')] = op[s].new
                       /\ s \in Netconf /\ readAt[s] # 0 => readAt[s] = Len(log)
  <1>1. ASSUME TypeInv, BaseInv PROVE Step
    <2>1. SUFFICES ASSUME NEW s \in Session, Persist(s)
                   PROVE  /\ log'[Len(log')] = op[s].new
                          /\ s \in Netconf /\ readAt[s] # 0 => readAt[s] = Len(log)
      OBVIOUS
    <2>2. op[s].phase = "persist" /\ Store(s)
      BY <2>1 DEF Persist
    <2>3. log' = Append(log, op[s].new) /\ op[s].new \in Config
      BY <1>1, <2>2, StoreBase
    <2>4. log \in Seq(Config)
      BY <1>1 DEF TypeInv, TypeOK
    <2>5. log'[Len(log')] = op[s].new
      BY <2>3, <2>4, Appended
    <2>6. s \in Netconf /\ readAt[s] # 0 => readAt[s] = Len(log)
      BY <1>1 DEF BaseInv
    <2> QED BY <2>5, <2>6
  <1>2. TypeInv /\ BaseInv /\ [Next]_vars => [Step]_vars
    BY <1>1
  <1>3. Spec => [][Step]_vars
    BY <1>2, CoordinationTypeInv, CoordinationBaseInv, PTL DEF Spec
  <1> QED BY <1>3 DEF CommitIsOfItsBase

-----------------------------------------------------------------------------
(***************************************************************************)
(* A lone router runs what is stored.                                      *)
(***************************************************************************)
\* A lone router is the only one.
LEMMA OnlyRouter ==
  ASSUME Lone, NEW m \in Router, NEW n \in Router
  PROVE  m = n
  BY DEF Lone, Syncing

\* Whoever has the lock, or finds it free, is the only one to commit.
LEMMA OnlyHolder ==
  ASSUME AloneInv, NEW s \in Session, holder \in {None, s}
  PROVE  \A r \in Session \ {s} : op[r].phase \notin Locked
  BY CoordinationAssumption DEF AloneInv, Serial, Session

\* Outside Locked nothing is claimed of a session.
LEMMA NotLocked ==
  ASSUME NEW s \in Session, op[s].phase \notin Locked
  PROVE  Serial(s)
  BY DEF Serial, Locked, Remembering, Ahead

LEMMA NotLockedNext ==
  ASSUME NEW s \in Session, op'[s].phase \notin Locked
  PROVE  Serial(s)'
  BY DEF Serial, Locked, Remembering, Ahead

\* Until it has applied, the holder sees a settled router.
LEMMA HolderSeesStored ==
  ASSUME TypeInv, AloneInv, NEW s \in Session, holder \in {None, s},
         op[s].phase # "idle", op[s].phase \notin Ahead
  PROVE  /\ Home[s] \in Router /\ Home[s] \in Node
         /\ engine[Home[s]].config = Stored /\ forwarding[Home[s]] = Stored
  <1>1. \A r \in Session : op[r].phase \notin Ahead
    BY OnlyHolder DEF Locked, Ahead
  <1>2. Settled(Home[s])
    BY <1>1 DEF Settled, Ahead
  <1>3. Home[s] \in Router /\ Home[s] \in Node
    BY Deployed DEF TypeInv, Knows
  <1> QED BY <1>2, <1>3 DEF AloneInv, RunsStored

\* A step of the session that has the lock, or takes it.
LEMMA HolderStep ==
  ASSUME AloneInv, UNCHANGED <<deployment, sync>>, NEW s \in Session, holder \in {None, s},
         \A r \in Session \ {s} : op'[r] = op[r], Serial(s)',
         \A n \in Router : RunsStored(n)'
  PROVE  AloneInv'
  <1>1. ASSUME NEW r \in Session PROVE Serial(r)'
    <2>1. CASE r = s
      BY <2>1
    <2>2. CASE r # s
      <3>1. op'[r].phase \notin Locked
        BY <2>2, OnlyHolder
      <3> QED BY <3>1, NotLockedNext
    <2> QED BY <2>1, <2>2
  <1>2. Router' = Router
    BY SameDeployment
  <1> QED BY <1>1, <1>2 DEF AloneInv

\* One that leaves the engine and the log as they are, and settles nothing.
LEMMA StillRuns ==
  ASSUME AloneInv, UNCHANGED <<deployment, log, engine, forwarding>>, NEW s \in Session,
         \A r \in Session \ {s} : op'[r] = op[r],
         op[s].phase \notin Ahead \/ op'[s].phase \in Ahead
  PROVE  \A n \in Router : RunsStored(n)'
  <1> SUFFICES ASSUME NEW n \in Router, Settled(n)'
               PROVE  engine[n].config = Stored /\ forwarding[n] = Stored
    BY DEF RunsStored, Stored
  <1>1. Home' = Home
    BY SameDeployment
  <1>2. ASSUME NEW r \in Session, Home[r] = n PROVE op[r].phase \notin {"persist", "undo"}
    BY <1>1, <1>2 DEF Settled, Ahead
  <1> QED BY <1>2 DEF AloneInv, RunsStored, Settled

\* One of any session, which leaves the lock as it is too.
LEMMA AnyStep ==
  ASSUME AloneInv, UNCHANGED <<deployment, sync, holder, log, engine, forwarding>>,
         NEW s \in Session, op[s].phase \notin Ahead, op'[s].phase \notin Locked,
         \A r \in Session \ {s} : op'[r] = op[r],
         \A r \in Grpc \ {s} : base'[r] = base[r]
  PROVE  AloneInv'
  <1>1. Home' = Home /\ Router' = Router
    BY SameDeployment
  <1>2. ASSUME NEW r \in Session PROVE Serial(r)'
    <2>1. CASE r = s
      BY <2>1, NotLockedNext
    <2>2. CASE r # s
      <3>1. op'[r] = op[r] /\ (r \in Grpc => base'[r] = base[r]) /\ Serial(r)
        BY <2>2 DEF AloneInv
      <3> QED BY <1>1, <3>1 DEF Serial, Stored
    <2> QED BY <2>1, <2>2
  <1>3. \A n \in Router : RunsStored(n)'
    BY StillRuns
  <1> QED BY <1>1, <1>2, <1>3 DEF AloneInv

\* The requests of a session on a lone router.
LEMMA LoneRequest ==
  ASSUME TypeInv, Lone, AloneInv,
         \/ \E s \in Netconf : Lock(s) \/ EditConfig(s) \/ Unlock(s) \/ NetconfCommit(s)
         \/ \E s \in Grpc : GrpcReset(s) \/ GrpcCommit(s) \/ GrpcRollback(s)
  PROVE  AloneInv'
  <1>0. TypeOK
    BY DEF TypeInv
  <1>1. ASSUME NEW s \in Netconf, Lock(s) \/ Unlock(s) PROVE AloneInv'
    <2>1. /\ s \in Session /\ op[s].phase = "idle" /\ holder \in {None, s}
          /\ UNCHANGED <<deployment, sync, log, engine, forwarding, op>>
      BY <1>1 DEF Lock, Unlock, Datastore!Take, Datastore!Drop, Session
    <2>2. Serial(s)'
      BY <2>1, NotLockedNext DEF Locked
    <2>3. \A n \in Router : RunsStored(n)'
      BY <2>1, StillRuns, Zenon DEF Ahead
    <2> QED BY <2>1, <2>2, <2>3, HolderStep
  <1>2. ASSUME NEW s \in Netconf, EditConfig(s) PROVE AloneInv'
    <2>1. /\ s \in Session /\ op[s].phase = "idle" /\ Goto(s, "save")
          /\ UNCHANGED <<deployment, sync, holder, log, engine, forwarding, base>>
      BY <1>2, Zenon DEF EditConfig, datastoreVars, Session
    <2>2. op'[s].phase = "save" /\ \A r \in Session \ {s} : op'[r] = op[r]
      BY <1>0, <2>1, GotoOp, Phases, Zenon
    <2> QED BY <2>1, <2>2, AnyStep, Zenon DEF Ahead, Locked
  <1>3. ASSUME NEW s \in Netconf, NetconfCommit(s) PROVE AloneInv'
    <2>1. /\ s \in Session /\ op[s].phase = "idle" /\ holder = s /\ candidate[s] # None
          /\ Start(s, "before", candidate[s], FALSE)
          /\ UNCHANGED <<deployment, sync, holder, log, engine, forwarding>>
      BY <1>3, Zenon DEF NetconfCommit, datastoreVars, Session
    <2>2. candidate[s] \in Config
      BY <1>0, <2>1 DEF TypeOK
    <2>3. op'[s].phase = "before" /\ \A r \in Session \ {s} : op'[r] = op[r]
      BY <1>0, <2>1, <2>2, StartOp, Phases
    <2>4. Serial(s)'
      BY <2>1, <2>3, CoordinationAssumption, Zenon DEF Serial, Remembering, Ahead
    <2>5. \A n \in Router : RunsStored(n)'
      BY <2>1, <2>3, StillRuns, Zenon DEF Ahead
    <2> QED BY <2>1, <2>3, <2>4, <2>5, HolderStep, Zenon
  <1>4. ASSUME NEW s \in Grpc, GrpcReset(s) PROVE AloneInv'
    <2>1. /\ s \in Session /\ op[s].phase = "idle" /\ base' = [base EXCEPT ![s] = engine[Home[s]]]
          /\ UNCHANGED <<deployment, sync, holder, log, engine, forwarding, op>>
      BY <1>4, Zenon DEF GrpcReset, datastoreVars, Session
    <2>2. \A r \in Grpc \ {s} : base'[r] = base[r]
      BY <1>0, <2>1 DEF TypeOK
    <2> QED BY <2>1, <2>2, AnyStep, Zenon DEF Ahead, Locked
  <1>5. ASSUME NEW s \in Grpc, NEW c \in Config, NEW restore \in BOOLEAN, GrpcCall(s, c, restore)
        PROVE  AloneInv'
    <2>1. /\ s \in Session /\ op[s].phase = "idle" /\ Start(s, "prepare", c, restore)
          /\ UNCHANGED <<deployment, sync, holder, log, engine, forwarding, base>>
      BY <1>5, Zenon DEF GrpcCall, datastoreVars, Session
    <2>2. op'[s].phase = "prepare" /\ \A r \in Session \ {s} : op'[r] = op[r]
      BY <1>0, <2>1, StartOp, Phases
    <2> QED BY <2>1, <2>2, AnyStep, Zenon DEF Ahead, Locked
  <1>6. ASSUME NEW s \in Grpc, GrpcCommit(s) \/ GrpcRollback(s) PROVE AloneInv'
    <2>1. CASE GrpcCommit(s)
      BY <1>0, <1>5, <2>1, Deployed, Zenon DEF GrpcCommit
    <2>2. CASE GrpcRollback(s)
      <3>1. PICK i \in 1 .. Len(log) : GrpcCall(s, log[i], TRUE)
        BY <2>2, Zenon DEF GrpcRollback
      <3>2. log[i] \in Config
        BY <1>0, <3>1 DEF TypeOK
      <3> QED BY <1>5, <3>1, <3>2, Zenon
    <2> QED BY <1>6, <2>1, <2>2
  <1> QED BY <1>1, <1>2, <1>3, <1>4, <1>6

\* Its handlers, up to the apply.
LEMMA LoneBefore ==
  ASSUME TypeInv, Lone, AloneInv, NEW s \in Session,
         SaveEdit(s) \/ Prepare(s) \/ Recheck(s) \/ Remember(s) \/ ApplyFails(s)
  PROVE  AloneInv'
  <1>0. TypeOK /\ Serial(s)
    BY Zenon DEF TypeInv, AloneInv
  <1>1. ASSUME Finish(s), UNCHANGED <<deployment, sync, log, engine, forwarding>>,
               op[s].phase \notin Ahead, holder = s
        PROVE  AloneInv'
    <2>1. op'[s].phase = "idle" /\ \A r \in Session \ {s} : op'[r] = op[r]
      BY <1>0, <1>1, FinishOp
    <2>2. Serial(s)'
      BY <2>1, NotLockedNext DEF Locked
    <2>3. \A n \in Router : RunsStored(n)'
      BY <1>1, <2>1, StillRuns
    <2> QED BY <1>1, <2>1, <2>2, <2>3, HolderStep
  <1>2. ASSUME Finish(s), UNCHANGED <<deployment, sync, holder, log, engine, forwarding, base>>,
               op[s].phase \notin Ahead
        PROVE  AloneInv'
    <2>1. op'[s].phase = "idle" /\ \A r \in Session \ {s} : op'[r] = op[r]
      BY <1>0, <1>2, FinishOp
    <2> QED BY <1>2, <2>1, AnyStep DEF Locked
  <1>3. CASE SaveEdit(s)
    BY <1>2, <1>3, Zenon DEF SaveEdit, Datastore!Edit, Ahead
  <1>4. CASE Prepare(s)
    <2>1. op[s].phase = "prepare" /\ UNCHANGED <<deployment, sync, log, engine, forwarding, base>>
      BY <1>4, Zenon DEF Prepare
    <2>2. CASE holder = None
      <3>1. holder' = s /\ Goto(s, "recheck")
        BY <1>4, <2>2, Zenon DEF Prepare
      <3>2. op'[s].phase = "recheck" /\ \A r \in Session \ {s} : op'[r] = op[r]
        BY <1>0, <3>1, GotoOp, Phases
      <3>3. Serial(s)'
        BY <3>1, <3>2, Zenon DEF Serial, Remembering, Ahead
      <3>4. \A n \in Router : RunsStored(n)'
        BY <2>1, <3>2, StillRuns, Zenon DEF Ahead
      <3> QED BY <2>1, <2>2, <3>2, <3>3, <3>4, HolderStep, Zenon
    <2>3. CASE holder # None
      BY <1>2, <1>4, <2>1, <2>3, Zenon DEF Prepare, Ahead
    <2> QED BY <2>2, <2>3
  <1>5. CASE Recheck(s)
    <2>1. /\ op[s].phase = "recheck" /\ holder = s
          /\ UNCHANGED <<deployment, sync, engine, forwarding, base>>
      BY <1>0, <1>5, Zenon DEF Recheck, Serial, Locked
    <2>2. CASE base[s] = engine[Home[s]] /\ op[s].new # Running(s)
      <3>1. Goto(s, "before") /\ UNCHANGED <<holder, log>>
        BY <1>5, <2>2, Zenon DEF Recheck, datastoreVars
      <3>2. op'[s].phase = "before" /\ \A r \in Session \ {s} : op'[r] = op[r]
        BY <1>0, <3>1, GotoOp, Phases, Zenon
      <3>3. base[s].config = Stored
        BY <2>1, <2>2, HolderSeesStored, Zenon DEF Ahead
      <3>4. Serial(s)'
        BY <2>1, <3>1, <3>2, <3>3, Zenon DEF Serial, Remembering, Ahead, Stored
      <3>5. \A n \in Router : RunsStored(n)'
        BY <2>1, <3>1, <3>2, StillRuns, Zenon DEF Ahead
      <3> QED BY <2>1, <3>2, <3>4, <3>5, HolderStep, Zenon
    <2>3. CASE ~(base[s] = engine[Home[s]] /\ op[s].new # Running(s))
      <3>1. Finish(s) /\ UNCHANGED log
        BY <1>5, <2>3 DEF Recheck, Abort
      <3> QED BY <1>1, <2>1, <3>1, Zenon DEF Ahead
    <2> QED BY <2>2, <2>3, Zenon
  <1>6. CASE Remember(s)
    <2>1. /\ op[s].phase = "before" /\ holder = s
          /\ UNCHANGED <<deployment, sync, holder, log, engine, forwarding, base>>
      BY <1>0, <1>6 DEF Remember, Serial, Locked, datastoreVars
    <2>2. CASE Finish(s)
      BY <1>1, <2>1, <2>2 DEF Ahead
    <2>3. CASE KeepSnapshot(s, Running(s))
      <3>1. Running(s) = Stored /\ Stored \in Config
        BY <1>0, <2>1, HolderSeesStored, StoredType, Zenon DEF Running, Ahead, TypeInv
      <3>2. /\ op'[s].phase = "apply" /\ op'[s].before = Stored
            /\ \A r \in Session \ {s} : op'[r] = op[r]
        BY <1>0, <2>3, <3>1, RememberOp, Zenon
      <3>3. Serial(s)'
        BY <1>0, <2>1, <3>2 DEF Serial, Ahead, Stored
      <3>4. \A n \in Router : RunsStored(n)'
        BY <2>1, <3>2, StillRuns, Zenon DEF Ahead
      <3> QED BY <2>1, <3>2, <3>3, <3>4, HolderStep, Zenon
    <2> QED BY <1>6, <2>2, <2>3, Zenon DEF Remember
  <1>7. CASE ApplyFails(s)
    <2>1. /\ op[s].phase = "apply" /\ holder = s /\ Finish(s)
          /\ UNCHANGED <<deployment, sync, log, engine, forwarding>>
      BY <1>0, <1>7 DEF ApplyFails, Serial, Locked, datastoreVars, Abort
    <2> QED BY <1>1, <2>1 DEF Ahead
  <1> QED BY <1>3, <1>4, <1>5, <1>6, <1>7

\* And from the apply on.
LEMMA LoneAfter ==
  ASSUME TypeInv, BaseInv, Lone, AloneInv, NEW s \in Session,
         Apply(s) \/ Persist(s) \/ PersistFails(s) \/ Undo(s)
  PROVE  AloneInv'
  <1>0. /\ TypeOK /\ Serial(s) /\ op[s] \in Op /\ Knows(op[s], Home[s])
        /\ op[s].phase \in {"apply", "persist", "undo"}
    BY Zenon DEF TypeInv, TypeOK, AloneInv, Apply, Persist, PersistFails, Undo
  <1>1. /\ holder = s /\ Home[s] \in Router /\ Home[s] \in Node
        /\ op[s].new \in Config /\ op[s].before = Stored /\ op[s].before \in Config
    <2>1. holder = s /\ op[s].before = Stored
      BY <1>0, Zenon DEF Serial, Locked, Remembering
    <2>2. Home[s] \in Router /\ Home[s] \in Node
      BY <1>0, Deployed, Zenon DEF Knows
    <2>3. op[s].new \in Config /\ op[s].before \in Config
      BY <1>0 DEF Knows, Carrying, Remembering, Op
    <2> QED BY <2>1, <2>2, <2>3, Zenon
  <1>2. \A n \in Router : n = Home[s]
    BY <1>1, OnlyRouter
  <1>3. CASE Apply(s)
    <2>1. /\ op[s].phase = "apply" /\ EngineApply(Home[s], op[s].new) /\ Goto(s, "persist")
          /\ UNCHANGED <<deployment, sync, holder, log, base>>
      BY <1>3, Zenon DEF Apply, datastoreVars
    <2>2. /\ op'[s].phase = "persist" /\ op'[s].new = op[s].new /\ op'[s].before = op[s].before
          /\ \A r \in Session \ {s} : op'[r] = op[r]
      BY <1>0, <2>1, GotoOp, Phases, Zenon
    <2>3. engine[Home[s]].config = Stored /\ forwarding[Home[s]] = Stored
      BY <1>1, <2>1, HolderSeesStored, Zenon DEF Ahead
    <2>4. engine'[Home[s]].config = op[s].new /\ forwarding'[Home[s]] = op[s].new
      BY <1>0, <1>1, <2>1, <2>3, EngineApplied, Zenon
    <2>5. Home' = Home
      BY <2>1, SameDeployment, Zenon
    <2>6. Serial(s)'
      BY <1>0, <1>1, <2>1, <2>2, <2>4, <2>5, Zenon DEF Serial, Stored
    <2>7. \A n \in Router : RunsStored(n)'
      BY <1>2, <2>2, <2>5 DEF RunsStored, Settled
    <2> QED BY <1>1, <2>1, <2>2, <2>6, <2>7, HolderStep, Zenon
  <1>4. CASE Persist(s)
    <2>1. /\ op[s].phase = "persist" /\ Store(s) /\ Finish(s)
          /\ UNCHANGED <<deployment, sync, engine, forwarding>>
      BY <1>4 DEF Persist
    <2>2. op'[s].phase = "idle" /\ \A r \in Session \ {s} : op'[r] = op[r]
      BY <1>0, <2>1, FinishOp, Zenon
    <2>3. Stored' = op[s].new
      <3>1. log' = Append(log, op[s].new) /\ log \in Seq(Config)
        BY <1>0, <2>1, StoreBase, Zenon DEF TypeOK
      <3> QED BY <1>1, <3>1, Appended, Zenon DEF Stored
    <2>4. engine[Home[s]].config = op[s].new /\ forwarding[Home[s]] = op[s].new
      BY <1>0, <2>1, Zenon DEF Serial, Ahead
    <2>5. Serial(s)'
      BY <2>2, NotLockedNext, Zenon DEF Locked
    <2>6. \A n \in Router : RunsStored(n)'
      BY <1>2, <2>1, <2>3, <2>4, Zenon DEF RunsStored
    <2> QED BY <1>1, <2>1, <2>2, <2>5, <2>6, HolderStep, Zenon
  <1>5. CASE PersistFails(s)
    <2>1. s \notin Grpc
      BY <1>1, <1>5, CoordinationAssumption, Zenon DEF PersistFails, Lone, OnlyTheseFail
    <2>2. /\ op[s].phase = "persist" /\ Goto(s, "undo")
          /\ UNCHANGED <<deployment, sync, holder, log, engine, forwarding>>
      BY <1>5, <2>1, Zenon DEF PersistFails, datastoreVars
    <2>3. /\ op'[s].phase = "undo" /\ op'[s].new = op[s].new /\ op'[s].before = op[s].before
          /\ \A r \in Session \ {s} : op'[r] = op[r]
      BY <1>0, <2>2, GotoOp, Phases, Zenon
    <2>4. Home' = Home
      BY <2>2, SameDeployment, Zenon
    <2>5. Serial(s)'
      BY <1>0, <1>1, <2>1, <2>2, <2>3, <2>4, Zenon DEF Serial, Ahead, Stored
    <2>6. \A n \in Router : RunsStored(n)'
      BY <2>2, <2>3, StillRuns, Zenon DEF Ahead
    <2> QED BY <1>1, <2>2, <2>3, <2>5, <2>6, HolderStep, Zenon
  <1>6. CASE Undo(s)
    <2>1. /\ op[s].phase = "undo" /\ EngineApply(Home[s], op[s].before) /\ Finish(s)
          /\ UNCHANGED <<deployment, sync, holder, log>>
      BY <1>6, Zenon DEF Undo, datastoreVars
    <2>2. op'[s].phase = "idle" /\ \A r \in Session \ {s} : op'[r] = op[r]
      BY <1>0, <2>1, FinishOp, Zenon
    <2>3. engine[Home[s]].config = op[s].new /\ forwarding[Home[s]] = op[s].new
      BY <1>0, <2>1, Zenon DEF Serial, Ahead
    <2>4. engine'[Home[s]].config = Stored /\ forwarding'[Home[s]] = Stored
      <3>1. /\ TypeOK /\ Home[s] \in Node /\ op[s].before \in Config
            /\ EngineApply(Home[s], op[s].before)
        BY <1>0, <1>1, <2>1, Zenon
      <3>2. forwarding[Home[s]] = engine[Home[s]].config
        BY <2>3, Zenon
      <3>3. engine'[Home[s]].config = op[s].before /\ forwarding'[Home[s]] = op[s].before
        BY <3>1, <3>2, EngineApplied
      <3> QED BY <1>1, <3>3, Zenon
    <2>5. Serial(s)'
      BY <2>2, NotLockedNext, Zenon DEF Locked
    <2>6. \A n \in Router : RunsStored(n)'
      BY <1>2, <2>1, <2>4 DEF RunsStored, Stored
    <2> QED BY <1>1, <2>1, <2>2, <2>5, <2>6, HolderStep, Zenon
  <1> QED BY <1>3, <1>4, <1>5, <1>6

LEMMA NextLoneInv == TypeInv /\ BaseInv /\ LoneInv /\ [Next]_vars => LoneInv'
  <1> SUFFICES ASSUME TypeInv, BaseInv, LoneInv, [Next]_vars, Lone' PROVE AloneInv'
    BY DEF LoneInv
  <1>1. UNCHANGED deployment
    BY Zenon DEF Next, Work, Reconcile, vars, Lock, EditConfig, Unlock, NetconfCommit, GrpcReset,
       GrpcCommit, GrpcRollback, GrpcCall, SaveEdit, Prepare, Recheck, Remember, Apply, ApplyFails,
       Persist, PersistFails, PersistUnanswered, Undo, UndoFails, SyncStatus, SyncLoad, SyncApply,
       SyncFails, Restart, LoseLock
  <1>2. Lone /\ AloneInv
    BY <1>1, SameDeployment DEF LoneInv
  <1>3. ~Syncing /\ Faults \subseteq {"apply", "netconf persist"}
    BY <1>2 DEF Lone, OnlyTheseFail
  <1>4. CASE \/ \E s \in Netconf : Lock(s) \/ EditConfig(s) \/ Unlock(s) \/ NetconfCommit(s)
             \/ \E s \in Grpc : GrpcReset(s) \/ GrpcCommit(s) \/ GrpcRollback(s)
    BY <1>2, <1>4, LoneRequest
  <1>5. ASSUME NEW s \in Session, Work(s) PROVE AloneInv'
    <2>1. ~PersistUnanswered(s) /\ ~UndoFails(s)
      BY <1>3, Zenon DEF PersistUnanswered, UndoFails
    <2> QED BY <1>2, <1>5, <2>1, LoneBefore, LoneAfter DEF Work
  <1>6. ~ \E n \in Node : Reconcile(n) \/ SyncFails(n) \/ Restart(n)
    <2> SUFFICES ASSUME NEW n \in Node PROVE ~(Reconcile(n) \/ SyncFails(n) \/ Restart(n))
      OBVIOUS
    <2>1. sync[n].phase = "idle"
      BY <1>2 DEF AloneInv
    <2> QED BY <1>3, <2>1 DEF Reconcile, SyncStatus, SyncLoad, SyncApply, SyncFails, Restart
  <1>7. ~LoseLock
    BY <1>3, Zenon DEF LoseLock
  <1>8. CASE UNCHANGED vars
    BY <1>2, <1>8 DEF vars, AloneInv, Serial, RunsStored, Settled, Stored, Router, Home
  <1> QED BY <1>4, <1>5, <1>6, <1>7, <1>8 DEF Next

LEMMA CoordinationLoneInv == Spec => []LoneInv
  <1>1. Init => LoneInv
    <2> SUFFICES ASSUME Init PROVE AloneInv
      BY DEF LoneInv
    <2>1. /\ \A n \in Node : sync[n].phase = "idle"
          /\ \A s \in Session : op[s].phase = "idle"
      BY DEF Init, NoSync, NoOp
    <2>2. \A s \in Session : Serial(s)
      BY <2>1, NotLocked DEF Locked
    <2>3. Stored = deployment.initial
      BY DEF Init, Stored
    <2>4. \A n \in Router : n \in Node
      BY InitTypeInv, Deployed, Zenon DEF TypeInv, Router
    <2>5. \A n \in Router : RunsStored(n)
      BY <2>3, <2>4 DEF Init, RunsStored
    <2> QED BY <2>1, <2>2, <2>5 DEF AloneInv
  <1> QED BY <1>1, NextLoneInv, CoordinationTypeInv, CoordinationBaseInv, PTL DEF Spec

\* StoredIsRunning: on a lone router whose applies and NETCONF persists may fail,
\* however its NETCONF and gRPC sessions interleave, a settled engine and its
\* forwarding plane have the newest stored configuration.
THEOREM CoordinationStoredIsRunning == Spec => []StoredIsRunning
  <1>1. LoneInv => StoredIsRunning
    BY Zenon DEF LoneInv, AloneInv, RunsStored, StoredIsRunning, Lone
  <1> QED BY <1>1, CoordinationLoneInv, PTL

\* NoLostUpdate: there, a gRPC commit or rollback replaces in the store what its
\* candidate was based on, as the check under the lock (Recheck) promises.
THEOREM CoordinationNoLostUpdate == Spec => NoLostUpdate
  <1> DEFINE Step == \A s \in Grpc :
                       ~Syncing /\ OnlyTheseFail({"apply", "netconf persist"}) /\ Persist(s) =>
                         log[Len(log)] = base[s].config
  <1>1. LoneInv => Step
    BY Zenon DEF LoneInv, AloneInv, Serial, Lone, Persist, Stored, Session
  <1>2. LoneInv /\ [Next]_vars => [Step]_vars
    BY <1>1, Zenon
  <1>3. Spec => [][Step]_vars
    BY <1>2, CoordinationLoneInv, PTL DEF Spec
  <1> QED BY <1>3 DEF NoLostUpdate

=============================================================================
