------------------------- MODULE EtcdDatastoreProofs -------------------------
(***************************************************************************)
(* Proofs about the etcd backend, for any sets of goroutines, sessions,    *)
(* texts and lock targets, any past of the store and any bounds: types,    *)
(* GetRunning, the commit history, the abstract datastore, and the locks.  *)
(*                                                                         *)
(* A call carries what it read from request to request, so every proof     *)
(* rests on what is known of a call at each of its requests.  Typed says   *)
(* what a call knows by itself; it is about values, not about the state,   *)
(* so that a step is checked by what it makes of the call and the commits. *)
(***************************************************************************)
EXTENDS EtcdDatastore, TLAPS

LockOp == {"acquire", "extend", "release", "steal"}
SessionOp == LockOp \cup {"commit", "rollback"}

\* The call has been granted a lease and has not written a key with it.
Unput(c) == c.op \in {"acquire", "extend"} /\ c.pc \in {"revoke expired", "cas", "put"}

\* What a call knows by itself, given the texts committed so far.
Typed(c, cs) ==
  /\ c.op \in SessionOp => c.session \in Session
  /\ c.pc = "giveup" \/ Unput(c) => c.lease # None
  /\ c.pc \in {"revoke expired", "cas", "revoke old", "txn"} => c.seen # None
  /\ c.op = "extend" /\ c.pc = "put" => c.seen # None /\ c.seen.session = c.session
  /\ c.op = "release" /\ c.pc = "cas" => c.seen.session = c.session
  /\ c.op = "steal" /\ c.pc = "cas" => c.victim \in {None, c.seen.session}
  /\ c.pc = "txn" => c.seen.session = c.session
  /\ c.op = "commit" => c.cand # None
  /\ c.op = "rollback" => \E i \in 1 .. Len(cs) : c.text = cs[i]
  /\ c.op = "read" => c.at \in 1 .. Len(cs)
  /\ c.op = "read" /\ c.pc = "done" => c.text = cs[c.at]
  /\ c.op = "open" => c.todo \subseteq 1 .. Len(cs)

CallsTyped == \A p \in Proc : call[p] # None => Typed(call[p], commits)

TypeInv == TypeOK /\ CallsTyped

\* A commit is in the index, or a goroutine that is building it has it to do;
\* the version key says that all are in it, and no datastore is open before.
IndexInv ==
  /\ open # {} => version
  /\ version => 1 .. Len(commits) \subseteq indexed
  /\ \A p \in Proc : call[p] # None /\ call[p].op = "open" =>
       1 .. Len(commits) \subseteq indexed \cup call[p].todo

-----------------------------------------------------------------------------
(***************************************************************************)
(* Calls.                                                                  *)
(***************************************************************************)
\* A call that starts knows nothing but its session.
LEMMA NewCallFacts ==
  ASSUME NEW op \in Op, NEW pc \in Pc, NEW s \in Session \cup {None}, NEW t \in Target
  PROVE  LET c == NewCall(op, pc, s, t)
         IN  /\ c \in Call
             /\ c.op = op /\ c.pc = pc /\ c.session = s /\ c.target = t
             /\ c.seen = None /\ c.lease = None
  BY DEF NewCall, Call

\* A call that goes on to its next request keeps all it carries.
LEMMA GotoFacts ==
  ASSUME NEW c \in Call, NEW pc \in Pc
  PROVE  LET d == [c EXCEPT !.pc = pc]
         IN  /\ d \in Call
             /\ d.pc = pc /\ d.op = c.op /\ d.session = c.session /\ d.target = c.target
             /\ d.seen = c.seen /\ d.lease = c.lease /\ d.victim = c.victim /\ d.cand = c.cand
             /\ d.text = c.text /\ d.at = c.at /\ d.todo = c.todo
  BY DEF Call

\* The call of a goroutine that makes the first request of an operation.
LEMMA AskingFacts ==
  ASSUME TypeInv, NEW p \in Proc, NEW op \in LockOp, NEW c \in Asking(p, op)
  PROVE  /\ c \in Call
         /\ c.op = op /\ c.pc = "get" /\ c.session \in Session
         /\ call[p] # None => call[p] = c
  <1>1. CASE Idle(p)
    <2>1. PICK s \in Session, t \in Target, v \in Session \cup {None} :
            c = [NewCall(op, "get", s, t) EXCEPT !.victim = v]
      BY <1>1 DEF Asking
    <2>2. op \in Op /\ "get" \in Pc
      BY DEF Op, Pc, LockOp
    <2>3. NewCall(op, "get", s, t) \in Call /\ NewCall(op, "get", s, t).op = op
          /\ NewCall(op, "get", s, t).pc = "get" /\ NewCall(op, "get", s, t).session = s
      BY <2>2, NewCallFacts
    <2>4. c \in Call /\ c.op = op /\ c.pc = "get" /\ c.session = s
      BY <2>1, <2>3 DEF Call
    <2> QED BY <1>1, <2>4 DEF Idle
  <1>2. CASE ~Idle(p)
    <2>1. At(p, op, "get") /\ c = call[p]
      BY <1>2 DEF Asking
    <2>2. call[p] \in Call /\ Typed(call[p], commits)
      BY <2>1 DEF TypeInv, TypeOK, CallsTyped, At
    <2> QED BY <2>1, <2>2 DEF At, Typed, SessionOp
  <1> QED BY <1>1, <1>2

\* The lease that etcd grants.
LEMMA FreshFacts ==
  ASSUME TypeOK, CanGrant
  PROVE  Fresh \in Lease /\ leases[Fresh] = "unused"
  <1>1. \E l \in Lease : leases[l] = "unused"
    BY DEF CanGrant, Granted
  <1> QED BY <1>1 DEF Fresh

\* Committing makes the history one longer.
LEMMA AppendFacts ==
  ASSUME NEW cs \in Seq(Text), NEW x \in Text
  PROVE  /\ Append(cs, x) \in Seq(Text)
         /\ Len(Append(cs, x)) = Len(cs) + 1
         /\ Len(Append(cs, x)) \in 1 .. Len(Append(cs, x))
         /\ 1 .. Len(cs) \subseteq 1 .. Len(Append(cs, x))
         /\ 1 .. Len(Append(cs, x)) = (1 .. Len(cs)) \cup {Len(Append(cs, x))}
         /\ \A i \in 1 .. Len(cs) : Append(cs, x)[i] = cs[i]
         /\ Append(cs, x)[Len(Append(cs, x))] = x
  OBVIOUS

\* What a call knows stays true when somebody commits.
LEMMA TypedGrows ==
  ASSUME NEW c, NEW cs \in Seq(Text), NEW x \in Text, Typed(c, cs)
  PROVE  Typed(c, Append(cs, x))
  <1>1. Len(Append(cs, x)) = Len(cs) + 1 /\ Len(cs) \in Nat
    OBVIOUS
  <1>2. \A i \in 1 .. Len(cs) : i \in 1 .. Len(Append(cs, x)) /\ Append(cs, x)[i] = cs[i]
    OBVIOUS
  <1>3. 1 .. Len(cs) \subseteq 1 .. Len(Append(cs, x))
    BY <1>2
  <1>4. c.op = "rollback" => \E i \in 1 .. Len(Append(cs, x)) : c.text = Append(cs, x)[i]
    BY <1>2 DEF Typed
  <1>5. c.op = "read" => c.at \in 1 .. Len(Append(cs, x))
    BY <1>2 DEF Typed
  <1>6. c.op = "read" /\ c.pc = "done" => c.text = Append(cs, x)[c.at]
    BY <1>2 DEF Typed
  <1>7. c.op = "open" => c.todo \subseteq 1 .. Len(Append(cs, x))
    BY <1>3 DEF Typed
  <1> HIDE DEF Unput, SessionOp
  <1> QED BY <1>4, <1>5, <1>6, <1>7, Zenon DEF Typed

\* One goroutine's call changes, and perhaps somebody commits.
LEMMA CallStep ==
  ASSUME TypeInv, NEW p \in Proc, NEW c \in Call \cup {None}, call' = [call EXCEPT ![p] = c],
         c # None => Typed(c, commits'),
         commits' = commits \/ \E x \in Text : commits' = Append(commits, x)
  PROVE  call' \in [Proc -> Call \cup {None}] /\ CallsTyped'
  <1>1. call' \in [Proc -> Call \cup {None}]
    BY DEF TypeInv, TypeOK
  <1>2. ASSUME NEW q \in Proc, call'[q] # None PROVE Typed(call'[q], commits')
    <2>1. CASE q = p
      BY <1>2, <2>1 DEF TypeInv, TypeOK
    <2>2. CASE q # p
      <3>1. call'[q] = call[q]
        BY <2>2 DEF TypeInv, TypeOK
      <3>2. Typed(call[q], commits) /\ commits \in Seq(Text)
        BY <1>2, <3>1 DEF TypeInv, TypeOK, CallsTyped
      <3> QED BY <3>1, <3>2, TypedGrows, Zenon
    <2> QED BY <2>1, <2>2
  <1> QED BY <1>1, <1>2 DEF CallsTyped

-----------------------------------------------------------------------------
(***************************************************************************)
(* Types.                                                                  *)
(***************************************************************************)

\* Init establishes the types.
LEMMA InitTypeInv == Init => TypeInv
  <1> SUFFICES ASSUME Init PROVE TypeInv
    OBVIOUS
  <1>1. commits \in Seq(Text) /\ saves \in 0 .. MaxSaves
    BY PastAssumption, BoundAssumption DEF Init
  <1>2. TypeOK
    BY <1>1, Zenon DEF Init, TypeOK, LeaseState
  <1>3. CallsTyped
    BY DEF Init, CallsTyped
  <1> QED BY <1>2, <1>3 DEF TypeInv

\* A step that changes leases, lock keys and one call, and commits nothing.
LEMMA LockStepType ==
  ASSUME TypeInv, NEW p \in Proc, NEW c \in Call \cup {None}, call' = [call EXCEPT ![p] = c],
         c # None => Typed(c, commits), UNCHANGED Store,
         leases' \in [Lease -> LeaseState], locks' \in [Target -> LockValue \cup {None}]
  PROVE  TypeInv'
  <1>1. commits' = commits
    BY DEF Store
  <1>2. call' \in [Proc -> Call \cup {None}] /\ CallsTyped'
    BY <1>1, CallStep, Zenon
  <1>3. TypeOK'
    BY <1>1, <1>2 DEF TypeInv, TypeOK, Store
  <1> QED BY <1>2, <1>3 DEF TypeInv

\* Deleting a lease, and revoking one, keeps leases and keys well formed.
LEMMA DropLeaseType ==
  ASSUME TypeOK, NEW l, DropLease(l) \/ Revoke(l) \/ UNCHANGED <<leases, locks>>
  PROVE  leases' \in [Lease -> LeaseState] /\ locks' \in [Target -> LockValue \cup {None}]
  BY DEF TypeOK, DropLease, Revoke, LeaseState

\* The call that a goroutine is running, and the same call at another request.
LEMMA RunningCall ==
  ASSUME TypeInv, NEW p \in Proc, call[p] # None
  PROVE  call[p] \in Call /\ Typed(call[p], commits)
  BY DEF TypeInv, TypeOK, CallsTyped

LEMMA GotoIsSet ==
  ASSUME NEW p, NEW pc, Goto(p, pc)
  PROVE  call' = [call EXCEPT ![p] = [call[p] EXCEPT !.pc = pc]]
  BY DEF Goto

LEMMA EndStep ==
  ASSUME NEW p, End(p)
  PROVE  call' = [call EXCEPT ![p] = None]
  BY DEF End

\* To give a lease up, or to forget an old one, a call needs to know no more.
LEMMA GotoTyped ==
  ASSUME NEW cs, NEW c \in Call, Typed(c, cs), NEW pc \in Pc,
         \/ pc = "giveup" /\ c.lease # None
         \/ pc = "revoke old" /\ c.seen # None
         \/ pc = "cas" /\ c.op = "acquire" /\ c.pc = "revoke expired"
         \/ pc = "put" /\ c.op = "acquire" /\ c.pc = "cas"
  PROVE  [c EXCEPT !.pc = pc] \in Call /\ Typed([c EXCEPT !.pc = pc], cs)
  <1> DEFINE d == [c EXCEPT !.pc = pc]
  <1>1. /\ d \in Call
        /\ d.pc = pc /\ d.op = c.op /\ d.session = c.session /\ d.target = c.target
        /\ d.seen = c.seen /\ d.lease = c.lease /\ d.victim = c.victim /\ d.cand = c.cand
        /\ d.text = c.text /\ d.at = c.at /\ d.todo = c.todo
    BY GotoFacts
  <1> HIDE DEF d
  <1>2. Typed(d, cs)
    BY <1>1, Zenon DEF Typed, Unput
  <1> QED BY <1>1, <1>2 DEF d

\* Every request about locks preserves the types.
LEMMA LockStepTypeInv ==
  ASSUME TypeInv, NEW p \in Proc, LockStep(p)
  PROVE  TypeInv'
  <1> USE DEF LockOp
  <1>0. /\ leases \in [Lease -> LeaseState]
        /\ locks \in [Target -> LockValue \cup {None}]
        /\ UNCHANGED leases => leases' \in [Lease -> LeaseState]
        /\ UNCHANGED locks => locks' \in [Target -> LockValue \cup {None}]
        /\ TypeOK
    BY DEF TypeInv, TypeOK
  <1>n. /\ "get" \in Pc /\ "cas" \in Pc /\ "put" \in Pc
        /\ "acquire" \in Op /\ "extend" \in Op
    BY DEF Op, Pc
  <1>1. ASSUME NEW c \in Asking(p, "acquire"), AcquireGet(p, c) PROVE TypeInv'
    <2> DEFINE seen == locks[c.target]
               pc == IF seen = None THEN "put"
                     ELSE IF leases[seen.lease] = "live" THEN "giveup" ELSE "revoke expired"
               new == [c EXCEPT !.seen = seen, !.lease = Fresh, !.pc = pc]
               extend == NewCall("extend", "get", c.session, c.target)
    <2>1. c \in Call /\ c.op = "acquire" /\ c.session \in Session /\ c.target \in Target
      BY AskingFacts DEF Call
    <2>2. Fresh \in Lease /\ seen \in LockValue \cup {None} /\ pc \in Pc
      BY <1>0, <1>1, <2>1, FreshFacts DEF AcquireGet, Pc
    <2>3. leases' \in [Lease -> LeaseState] /\ locks' = locks /\ UNCHANGED Store
      BY <1>0, <1>1 DEF AcquireGet, LeaseState
    <2>4. call' = [call EXCEPT ![p] = new] \/ call' = [call EXCEPT ![p] = extend]
      BY <1>1 DEF AcquireGet, Set
    <2>5. extend \in Call /\ Typed(extend, commits)
      <3>1. extend \in Call /\ extend.op = "extend" /\ extend.pc = "get" /\ extend.session \in Session
        BY <1>n, <2>1, NewCallFacts
      <3> HIDE DEF extend
      <3> QED BY <3>1 DEF Typed, Unput
    <2>6. new \in Call /\ Typed(new, commits)
      <3>1. /\ new \in Call
            /\ new.pc = pc /\ new.op = "acquire" /\ new.session \in Session
            /\ new.seen = seen /\ new.lease = Fresh
        BY <2>1, <2>2, Zenon DEF Call
      <3>2. /\ pc \in {"put", "giveup", "revoke expired"}
            /\ pc = "revoke expired" => seen # None
            /\ Fresh # None
        BY <2>2, KeyAssumption, Zenon
      <3> HIDE DEF new, pc, seen
      <3> QED BY <3>1, <3>2, Zenon DEF Typed, Unput
    <2> HIDE DEF new, extend
    <2> QED BY <1>0, <2>3, <2>4, <2>5, <2>6, LockStepType
  <1>2. CASE AcquireRevokeExpired(p)
    <2>1. call[p] \in Call /\ Typed(call[p], commits) /\ call[p].op = "acquire"
          /\ call[p].pc = "revoke expired"
      BY <1>2, RunningCall DEF AcquireRevokeExpired, At
    <2>2. call' = [call EXCEPT ![p] = [call[p] EXCEPT !.pc = "cas"]]
      BY <1>2, GotoIsSet DEF AcquireRevokeExpired
    <2>3. [call[p] EXCEPT !.pc = "cas"] \in Call /\ Typed([call[p] EXCEPT !.pc = "cas"], commits)
      BY <2>1, GotoTyped, Zenon DEF Pc
    <2>4. Revoke(call[p].seen.lease) /\ UNCHANGED Store
      BY <1>2 DEF AcquireRevokeExpired
    <2> QED BY <1>0, <2>2, <2>3, <2>4, LockStepType, DropLeaseType, Zenon
  <1>3. CASE AcquireDelete(p)
    <2>1. call[p] \in Call /\ Typed(call[p], commits) /\ call[p].op = "acquire"
          /\ call[p].pc = "cas" /\ call[p].lease # None
      BY <1>3, RunningCall, Zenon DEF AcquireDelete, At, Typed, Unput
    <2>2. PICK pc \in {"put", "giveup"} : call' = [call EXCEPT ![p] = [call[p] EXCEPT !.pc = pc]]
      BY <1>3, GotoIsSet DEF AcquireDelete
    <2>3. [call[p] EXCEPT !.pc = pc] \in Call /\ Typed([call[p] EXCEPT !.pc = pc], commits)
      BY <2>1, GotoTyped DEF Pc
    <2>4. locks' \in [Target -> LockValue \cup {None}] /\ UNCHANGED <<leases, Store>>
      BY <1>0, <1>3 DEF AcquireDelete
    <2> QED BY <1>0, <2>2, <2>3, <2>4, LockStepType, Zenon
  <1>4. CASE AcquirePut(p)
    <2>1. call[p] \in Call /\ Typed(call[p], commits) /\ call[p].op = "acquire"
          /\ call[p].pc = "put" /\ call[p].lease # None /\ call[p].session \in Session
      BY <1>4, RunningCall, Zenon DEF AcquirePut, At, Typed, Unput, SessionOp
    <2>2. PICK c \in {None, [call[p] EXCEPT !.pc = "giveup"]} : call' = [call EXCEPT ![p] = c]
      BY <1>4, GotoIsSet, EndStep DEF AcquirePut
    <2>3. c \in Call \cup {None} /\ (c # None => Typed(c, commits))
      BY <2>1, GotoTyped DEF Pc
    <2>4. [session |-> call[p].session, lease |-> call[p].lease] \in LockValue
      BY <2>1 DEF Call, LockValue
    <2>5. locks' \in [Target -> LockValue \cup {None}] /\ UNCHANGED <<leases, Store>>
      BY <1>0, <1>4, <2>4 DEF AcquirePut
    <2> QED BY <1>0, <2>2, <2>3, <2>5, LockStepType, Zenon
  <1>5. CASE GiveUp(p)
    BY <1>0, <1>5, EndStep, LockStepType, DropLeaseType DEF GiveUp
  <1>6. ASSUME NEW c \in Asking(p, "extend"), ExtendGet(p, c) PROVE TypeInv'
    <2> DEFINE seen == locks[c.target]
               new == [c EXCEPT !.seen = seen, !.lease = Fresh, !.pc = "put"]
    <2>1. c \in Call /\ c.op = "extend" /\ c.session \in Session /\ c.target \in Target
      BY AskingFacts DEF Call
    <2>2. UNCHANGED <<locks, Store>>
      BY <1>6 DEF ExtendGet
    <2>3. CASE seen # None /\ seen.session = c.session /\ leases[seen.lease] = "live"
      <3>1. Fresh \in Lease /\ seen \in LockValue /\ "put" \in Pc
        BY <1>0, <1>6, <2>1, <2>3, FreshFacts DEF ExtendGet, Pc
      <3>2. leases' \in [Lease -> LeaseState] /\ call' = [call EXCEPT ![p] = new]
        BY <1>0, <1>6, <2>3 DEF ExtendGet, Set, LeaseState
      <3>3. /\ new \in Call
            /\ new.pc = "put" /\ new.op = "extend" /\ new.session = c.session
            /\ new.seen = seen /\ new.lease = Fresh
        BY <2>1, <3>1, Zenon DEF Call
      <3>4. Fresh # None
        BY <3>1, KeyAssumption
      <3> HIDE DEF new, seen
      <3>5. Typed(new, commits)
        BY <2>1, <2>3, <3>3, <3>4 DEF Typed, Unput
      <3> QED BY <1>0, <2>2, <3>2, <3>3, <3>5, LockStepType, Zenon
    <2>4. CASE ~(seen # None /\ seen.session = c.session /\ leases[seen.lease] = "live")
      <3>1. call' = [call EXCEPT ![p] = None] /\ UNCHANGED leases
        BY <1>6, <2>4, EndStep DEF ExtendGet
      <3> QED BY <1>0, <2>2, <3>1, LockStepType
    <2> QED BY <2>3, <2>4
  <1>7. CASE ExtendPut(p)
    <2>1. call[p] \in Call /\ Typed(call[p], commits) /\ call[p].op = "extend"
          /\ call[p].pc = "put" /\ call[p].lease # None /\ call[p].seen # None
      BY <1>7, RunningCall, Zenon DEF ExtendPut, At, Typed, Unput
    <2>2. PICK pc \in {"revoke old", "giveup"} :
            call' = [call EXCEPT ![p] = [call[p] EXCEPT !.pc = pc]]
      BY <1>7, GotoIsSet, Zenon DEF ExtendPut
    <2>3. [call[p] EXCEPT !.pc = pc] \in Call /\ Typed([call[p] EXCEPT !.pc = pc], commits)
      BY <2>1, GotoTyped DEF Pc
    <2>4. call[p].seen \in LockValue /\ call[p].lease \in Lease
      BY <2>1, Zenon DEF Call
    <2>5. [call[p].seen EXCEPT !.lease = call[p].lease] \in LockValue
      BY <2>4 DEF LockValue
    <2>6. locks' \in [Target -> LockValue \cup {None}] /\ UNCHANGED <<leases, Store>>
      BY <1>0, <1>7, <2>5, Zenon DEF ExtendPut
    <2> QED BY <1>0, <2>2, <2>3, <2>6, LockStepType
  <1>8. CASE RevokeOld(p)
    BY <1>0, <1>8, EndStep, LockStepType, DropLeaseType, Zenon DEF RevokeOld
  <1>9. ASSUME NEW c \in Asking(p, "release"), ReleaseGet(p, c) PROVE TypeInv'
    <2> DEFINE seen == locks[c.target]
               new == [c EXCEPT !.seen = seen, !.pc = "cas"]
    <2>1. c \in Call /\ c.op = "release" /\ c.session \in Session /\ c.target \in Target
      BY AskingFacts DEF Call
    <2>2. UNCHANGED <<leases, locks, Store>>
      BY <1>9 DEF ReleaseGet
    <2>3. CASE seen # None /\ seen.session = c.session
      <3>1. new \in Call /\ new.pc = "cas" /\ new.op = "release" /\ new.session = c.session
            /\ new.seen = seen
        BY <1>0, <1>n, <2>1 DEF Call
      <3>2. call' = [call EXCEPT ![p] = new]
        BY <1>9, <2>3 DEF ReleaseGet, Set
      <3> HIDE DEF new, seen
      <3>3. Typed(new, commits)
        BY <2>1, <2>3, <3>1 DEF Typed, Unput
      <3> QED BY <1>0, <2>2, <3>1, <3>2, <3>3, LockStepType, Zenon
    <2>4. CASE ~(seen # None /\ seen.session = c.session)
      <3>1. call' = [call EXCEPT ![p] = None]
        BY <1>9, <2>4, EndStep DEF ReleaseGet
      <3> QED BY <1>0, <2>2, <3>1, LockStepType, Zenon
    <2> QED BY <2>3, <2>4
  <1>10. ASSUME NEW c \in Asking(p, "steal"), StealGet(p, c) PROVE TypeInv'
    <2> DEFINE seen == locks[c.target]
               new == [c EXCEPT !.seen = seen, !.pc = "cas"]
               acquire == NewCall("acquire", "get", c.session, c.target)
    <2>1. c \in Call /\ c.op = "steal" /\ c.session \in Session /\ c.target \in Target
      BY AskingFacts DEF Call
    <2>2. UNCHANGED <<leases, locks, Store>>
      BY <1>10 DEF StealGet
    <2>3. CASE seen = None
      <3>1. acquire \in Call /\ acquire.op = "acquire" /\ acquire.pc = "get"
            /\ acquire.session \in Session
        BY <1>n, <2>1, NewCallFacts
      <3>2. call' = [call EXCEPT ![p] = acquire]
        BY <1>10, <2>3 DEF StealGet, Set
      <3> HIDE DEF acquire
      <3>3. Typed(acquire, commits)
        BY <3>1 DEF Typed, Unput
      <3> QED BY <1>0, <2>2, <3>1, <3>2, <3>3, LockStepType, Zenon
    <2>4. CASE seen # None /\ c.victim \in {None, seen.session}
      <3>1. new \in Call /\ new.pc = "cas" /\ new.op = "steal" /\ new.session = c.session
            /\ new.seen = seen /\ new.victim = c.victim
        BY <1>0, <1>n, <2>1, Zenon DEF Call
      <3>2. call' = [call EXCEPT ![p] = new]
        BY <1>10, <2>4 DEF StealGet, Set
      <3> HIDE DEF new, seen
      <3>3. Typed(new, commits)
        BY <2>1, <2>4, <3>1 DEF Typed, Unput
      <3> QED BY <1>0, <2>2, <3>1, <3>2, <3>3, LockStepType, Zenon
    <2>5. CASE ~(seen = None) /\ ~(seen # None /\ c.victim \in {None, seen.session})
      <3>1. call' = [call EXCEPT ![p] = None]
        BY <1>10, <2>5, EndStep DEF StealGet
      <3> QED BY <1>0, <2>2, <3>1, LockStepType
    <2> QED BY <2>3, <2>4, <2>5
  <1>11. CASE ReleaseDelete(p) \/ StealDelete(p)
    <2>1. call[p] \in Call /\ Typed(call[p], commits) /\ call[p].pc = "cas" /\ call[p].seen # None
          /\ DeleteSeen(p)
      BY <1>11, RunningCall, Zenon DEF ReleaseDelete, StealDelete, At, Typed
    <2>2. PICK c \in {None, [call[p] EXCEPT !.pc = "revoke old"]} : call' = [call EXCEPT ![p] = c]
      BY <2>1, GotoIsSet, EndStep DEF DeleteSeen
    <2>3. c \in Call \cup {None} /\ (c # None => Typed(c, commits))
      BY <2>1, GotoTyped DEF Pc
    <2>4. locks' \in [Target -> LockValue \cup {None}] /\ UNCHANGED <<leases, Store>>
      BY <1>0, <2>1 DEF DeleteSeen
    <2> QED BY <1>0, <2>2, <2>3, <2>4, LockStepType
  <1>12. CASE StealAcquire(p)
    <2> DEFINE acquire == NewCall("acquire", "get", call[p].session, call[p].target)
    <2>1. call[p] \in Call /\ call[p].session \in Session /\ call[p].target \in Target
      BY <1>12, RunningCall, Zenon DEF StealAcquire, At, Typed, SessionOp, Call
    <2>2. acquire \in Call /\ acquire.op = "acquire" /\ acquire.pc = "get"
          /\ acquire.session \in Session
      BY <1>n, <2>1, NewCallFacts
    <2>3. call' = [call EXCEPT ![p] = acquire] /\ Revoke(call[p].seen.lease) /\ UNCHANGED Store
      BY <1>12 DEF StealAcquire, Set
    <2> HIDE DEF acquire
    <2>4. Typed(acquire, commits)
      BY <2>2 DEF Typed, Unput
    <2> QED BY <1>0, <2>2, <2>3, <2>4, LockStepType, DropLeaseType, Zenon
  <1> QED
    BY <1>1, <1>2, <1>3, <1>4, <1>5, <1>6, <1>7, <1>8, <1>9, <1>10, <1>11, <1>12 DEF LockStep

\* A transaction that records a commit and changes one call.
LEMMA RecordType ==
  ASSUME TypeInv, NEW p \in Proc, NEW x \in Text, Record(x), Goto(p, "revoke old"),
         call[p] # None, call[p].seen # None, UNCHANGED <<leases, saves, version, open>>,
         candidates' \in [Session -> Candidate \cup {None}]
  PROVE  TypeInv'
  <1>0. commits' = Append(commits, x)
    BY Zenon DEF Record
  <1>1. commits \in Seq(Text) /\ indexed \in SUBSET (1 .. Len(commits))
    BY Zenon DEF TypeInv, TypeOK
  <1>2. /\ commits' \in Seq(Text) /\ Len(commits') \in 1 .. Len(commits')
        /\ 1 .. Len(commits) \subseteq 1 .. Len(commits')
    BY <1>0, <1>1, AppendFacts, Zenon
  <1>3. indexed' \in SUBSET (1 .. Len(commits'))
    <2>1. indexed' = indexed \cup {Len(commits')}
      BY Zenon DEF Record
    <2> QED BY <1>1, <1>2, <2>1
  <1>4. call[p] \in Call /\ Typed(call[p], commits')
    BY <1>0, <1>1, RunningCall, TypedGrows, Zenon
  <1>5. [call[p] EXCEPT !.pc = "revoke old"] \in Call
        /\ Typed([call[p] EXCEPT !.pc = "revoke old"], commits')
    BY <1>4, GotoTyped DEF Pc
  <1>6. call' \in [Proc -> Call \cup {None}] /\ CallsTyped'
    <2>1. call' = [call EXCEPT ![p] = [call[p] EXCEPT !.pc = "revoke old"]]
      BY GotoIsSet
    <2> QED BY <1>0, <1>5, <2>1, CallStep
  <1>7. locks' \in [Target -> LockValue \cup {None}]
    BY Zenon DEF Record, TypeInv, TypeOK
  <1>8. TypeOK'
    BY <1>2, <1>3, <1>6, <1>7, Zenon DEF TypeInv, TypeOK
  <1> QED BY <1>6, <1>8, Zenon DEF TypeInv

\* A step that changes nothing but one call.
LEMMA CallStepType ==
  ASSUME TypeInv, NEW p \in Proc, NEW c \in Call \cup {None}, call' = [call EXCEPT ![p] = c],
         c # None => Typed(c, commits), UNCHANGED <<leases, locks, Store>>
  PROVE  TypeInv'
  <1>1. leases' \in [Lease -> LeaseState] /\ locks' \in [Target -> LockValue \cup {None}]
    BY DEF TypeInv, TypeOK
  <1> QED BY <1>1, LockStepType, Zenon

\* Every request about commits preserves the types.
LEMMA StoreStepTypeInv ==
  ASSUME TypeInv, NEW p \in Proc, StoreStep(p)
  PROVE  TypeInv'
  <1>n. "txn" \in Pc /\ "config" \in Pc /\ "done" \in Pc /\ "flush" \in Pc /\ "read" \in Op /\ "open" \in Op
    BY DEF Op, Pc
  <1>0. /\ locks \in [Target -> LockValue \cup {None}]
        /\ commits \in Seq(Text) /\ Len(commits) \in Nat
        /\ candidates \in [Session -> Candidate \cup {None}]
    BY DEF TypeInv, TypeOK
  <1>1. CASE CommitLock(p) \/ RollbackLock(p)
    <2> DEFINE c == call[p]
               seen == locks["candidate"]
               new == [c EXCEPT !.seen = seen, !.pc = "txn"]
    <2>1. c \in Call /\ Typed(c, commits) /\ c.op \in {"commit", "rollback"} /\ VerifyLock(p)
      BY <1>1, RunningCall DEF CommitLock, RollbackLock, At
    <2>2. UNCHANGED <<leases, locks, Store>>
      BY <2>1 DEF VerifyLock
    <2>3. CASE seen # None /\ seen.session = c.session
      <3>1. /\ new \in Call
            /\ new.pc = "txn" /\ new.op = c.op /\ new.session = c.session /\ new.cand = c.cand
            /\ new.seen = seen /\ new.text = c.text
        BY <1>0, <1>n, <2>1, TargetAssumption, Zenon DEF Call
      <3>2. call' = [call EXCEPT ![p] = new] \/ call' = [call EXCEPT ![p] = None]
        BY <2>1, <2>3, EndStep DEF VerifyLock, Set
      <3> HIDE DEF new, seen, c
      <3>3. Typed(new, commits)
        BY <2>1, <2>3, <3>1, Zenon DEF Typed, Unput, SessionOp
      <3> QED BY <2>2, <3>1, <3>2, <3>3, CallStepType
    <2>4. CASE ~(seen # None /\ seen.session = c.session)
      <3>1. call' = [call EXCEPT ![p] = None]
        BY <2>1, <2>4, EndStep DEF VerifyLock
      <3> QED BY <2>2, <3>1, CallStepType
    <2> QED BY <2>3, <2>4
  <1>2. CASE CommitTxn(p)
    <2>1. call[p] # None /\ call[p].seen # None /\ call[p].cand \in Candidate
      BY <1>2, RunningCall, Zenon DEF CommitTxn, At, Typed, Call
    <2>2. call[p].cand.text \in Text
      BY <2>1 DEF Candidate
    <2>3. CASE locks["candidate"] = call[p].seen /\ candidates[call[p].session] = call[p].cand
      <3>1. Record(call[p].cand.text) /\ Goto(p, "revoke old")
            /\ candidates' \in [Session -> Candidate \cup {None}]
            /\ UNCHANGED <<leases, saves, version, open>>
        BY <1>0, <1>2, <2>3, Zenon DEF CommitTxn
      <3> QED BY <2>1, <2>2, <3>1, RecordType, Zenon
    <2>4. CASE ~(locks["candidate"] = call[p].seen /\ candidates[call[p].session] = call[p].cand)
      <3>1. call' = [call EXCEPT ![p] = None] /\ UNCHANGED <<leases, locks, Store>>
        BY <1>2, <2>4, EndStep, Zenon DEF CommitTxn, Store
      <3> QED BY <3>1, CallStepType, Zenon
    <2> QED BY <2>3, <2>4
  <1>3. CASE RollbackTxn(p)
    <2>1. call[p] # None /\ call[p].seen # None /\ \E i \in 1 .. Len(commits) : call[p].text = commits[i]
      BY <1>3, RunningCall, Zenon DEF RollbackTxn, At, Typed
    <2>2. call[p].text \in Text
      BY <1>0, <2>1
    <2>3. CASE locks["candidate"] = call[p].seen
      <3>1. Record(call[p].text) /\ Goto(p, "revoke old")
            /\ candidates' \in [Session -> Candidate \cup {None}]
            /\ UNCHANGED <<leases, saves, version, open>>
        BY <1>0, <1>3, <2>3, Zenon DEF RollbackTxn
      <3> QED BY <2>1, <2>2, <3>1, RecordType, Zenon
    <2>4. CASE locks["candidate"] # call[p].seen
      <3>1. call' = [call EXCEPT ![p] = None] /\ UNCHANGED <<leases, locks, Store>>
        BY <1>3, <2>4, EndStep DEF RollbackTxn, Store
      <3> QED BY <3>1, CallStepType, Zenon
    <2> QED BY <2>3, <2>4
  <1>4. CASE GetRunning(p)
    <2> DEFINE first == NewCall("read", "config", None, "candidate")
               new == [first EXCEPT !.at = Len(commits)]
    <2>1. first \in Call /\ first.op = "read" /\ first.pc = "config"
      BY <1>n, NewCallFacts, TargetAssumption
    <2>2. call' = [call EXCEPT ![p] = new] /\ UNCHANGED <<leases, locks, Store>>
          /\ Len(commits) \in 1 .. Len(commits)
      BY <1>0, <1>4 DEF GetRunning, Set
    <2> HIDE DEF first
    <2>3. new \in Call /\ new.op = "read" /\ new.pc = "config" /\ new.at = Len(commits)
      BY <1>0, <2>1 DEF Call
    <2> HIDE DEF new
    <2>4. Typed(new, commits)
      BY <2>2, <2>3 DEF Typed, Unput, SessionOp, LockOp
    <2> QED BY <2>2, <2>3, <2>4, CallStepType, Zenon
  <1>5. CASE GetRunningConfig(p)
    <2> DEFINE c == call[p]
               new == [c EXCEPT !.text = commits[c.at], !.pc = "done"]
    <2>1. c \in Call /\ c.op = "read" /\ c.at \in 1 .. Len(commits)
      BY <1>5, RunningCall, Zenon DEF GetRunningConfig, At, Typed
    <2>2. commits[c.at] \in Text
      BY <1>0, <2>1
    <2>3. call' = [call EXCEPT ![p] = new] /\ UNCHANGED <<leases, locks, Store>>
      BY <1>5 DEF GetRunningConfig, Set
    <2>4. new \in Call /\ new.op = "read" /\ new.pc = "done" /\ new.at = c.at
          /\ new.text = commits[c.at]
      BY <1>n, <2>1, <2>2, Zenon DEF Call
    <2> HIDE DEF new, c
    <2>5. Typed(new, commits)
      BY <2>1, <2>4 DEF Typed, Unput, SessionOp, LockOp
    <2> QED BY <2>3, <2>4, <2>5, CallStepType, Zenon
  <1>6. CASE GetRunningReturn(p)
    BY <1>6, EndStep, CallStepType DEF GetRunningReturn
  <1>7. CASE Open(p)
    <2>1. CASE version
      BY <1>7, <2>1 DEF Open, TypeInv, TypeOK, CallsTyped
    <2>2. CASE ~version
      <3> DEFINE first == NewCall("open", "flush", None, "candidate")
                 new == [first EXCEPT !.todo = 1 .. Len(commits)]
      <3>1. first \in Call /\ first.op = "open" /\ first.pc = "flush"
        BY <1>n, NewCallFacts, TargetAssumption
      <3>2. call' = [call EXCEPT ![p] = new] /\ UNCHANGED <<leases, locks, Store>>
        BY <1>7, <2>2 DEF Open, Set, Store
      <3> HIDE DEF first
      <3>3. new \in Call /\ new.op = "open" /\ new.pc = "flush" /\ new.todo = 1 .. Len(commits)
        BY <1>0, <3>1 DEF Call
      <3> HIDE DEF new
      <3>4. Typed(new, commits)
        BY <3>3 DEF Typed, Unput, SessionOp, LockOp
      <3> QED BY <3>2, <3>3, <3>4, CallStepType
    <2> QED BY <2>1, <2>2
  <1>8. CASE ensureCommitHistoryIndex(p)
    <2> DEFINE c == call[p]
    <2>1. c \in Call /\ c.op = "open" /\ c.pc = "flush" /\ c.todo \subseteq 1 .. Len(commits)
      BY <1>8, RunningCall, Zenon DEF ensureCommitHistoryIndex, At, Typed
    <2>2. PICK new \in {None} \cup {[c EXCEPT !.todo = c.todo \ b] : b \in SUBSET c.todo} :
            call' = [call EXCEPT ![p] = new]
      BY <1>8, EndStep DEF ensureCommitHistoryIndex, Set
    <2>3. new \in Call \cup {None} /\ (new # None => Typed(new, commits))
      <3>1. ASSUME NEW b \in SUBSET c.todo, new = [c EXCEPT !.todo = c.todo \ b]
            PROVE  new \in Call /\ Typed(new, commits)
        <4> HIDE DEF c
        <4>1. new \in Call /\ new.op = "open" /\ new.pc = "flush" /\ new.todo = c.todo \ b
          BY <2>1, <3>1 DEF Call
        <4> QED BY <2>1, <4>1 DEF Typed, Unput, SessionOp, LockOp
      <3> QED BY <2>2, <3>1
    <2>4. UNCHANGED <<leases, locks, candidates, saves, commits>>
      BY <1>8 DEF ensureCommitHistoryIndex
    <2>5. call' \in [Proc -> Call \cup {None}] /\ CallsTyped'
      BY <2>2, <2>3, <2>4, CallStep, Zenon
    <2>6. indexed' \in SUBSET (1 .. Len(commits)) /\ version' \in BOOLEAN /\ open' \in SUBSET Proc
      BY <1>8, <2>1, Zenon DEF ensureCommitHistoryIndex, TypeInv, TypeOK
    <2> QED BY <2>4, <2>5, <2>6 DEF TypeInv, TypeOK
  <1> QED
    BY <1>1, <1>2, <1>3, <1>4, <1>5, <1>6, <1>7, <1>8 DEF StoreStep

\* The requests that only change a candidate, and the calls they start.
LEMMA RequestTypeInv ==
  ASSUME TypeInv, NEW p \in Proc, Request(p)
  PROVE  TypeInv'
  <1>n. "lock" \in Pc /\ "commit" \in Op /\ "rollback" \in Op
    BY DEF Op, Pc
  <1>0. /\ candidates \in [Session -> Candidate \cup {None}]
        /\ commits \in Seq(Text)
        /\ saves \in 0 .. MaxSaves
    BY DEF TypeInv, TypeOK
  <1>1. ASSUME NEW s \in Session, NEW x \in Text, SaveCandidate(p, s, x) PROVE TypeInv'
    <2>1. saves' \in 0 .. MaxSaves /\ saves' \in 1 .. MaxSaves
      BY <1>0, <1>1, BoundAssumption DEF SaveCandidate
    <2>2. [text |-> x, rev |-> saves'] \in Candidate
      BY <2>1 DEF Candidate
    <2>3. candidates' \in [Session -> Candidate \cup {None}]
      BY <1>0, <1>1, <2>2 DEF SaveCandidate
    <2> QED BY <1>1, <2>1, <2>3 DEF SaveCandidate, TypeInv, TypeOK, CallsTyped
  <1>2. ASSUME NEW s \in Session, DeleteCandidate(p, s) PROVE TypeInv'
    <2>1. candidates' \in [Session -> Candidate \cup {None}]
      BY <1>0, <1>2 DEF DeleteCandidate
    <2> QED BY <1>2, <2>1 DEF DeleteCandidate, TypeInv, TypeOK, CallsTyped
  <1>3. ASSUME NEW s \in Session, CommitCall(p, s) PROVE TypeInv'
    <2> DEFINE first == NewCall("commit", "lock", s, "candidate")
               new == [first EXCEPT !.cand = candidates[s]]
    <2>1. first \in Call /\ first.op = "commit" /\ first.pc = "lock" /\ first.session = s
      BY <1>n, NewCallFacts, TargetAssumption
    <2>2. call' = [call EXCEPT ![p] = new] /\ UNCHANGED <<leases, locks, Store>>
          /\ candidates[s] # None
      BY <1>3 DEF CommitCall, Set
    <2> HIDE DEF first
    <2>3. new \in Call /\ new.op = "commit" /\ new.pc = "lock" /\ new.session = s
          /\ new.cand = candidates[s]
      BY <1>0, <2>1 DEF Call
    <2> HIDE DEF new
    <2>4. Typed(new, commits)
      BY <2>2, <2>3 DEF Typed, Unput
    <2> QED BY <2>2, <2>3, <2>4, CallStepType, Zenon
  <1>4. ASSUME NEW s \in Session, NEW i \in 1 .. Len(commits), RollbackCall(p, s, i)
        PROVE  TypeInv'
    <2> DEFINE first == NewCall("rollback", "lock", s, "candidate")
               new == [first EXCEPT !.text = commits[i]]
    <2>1. first \in Call /\ first.op = "rollback" /\ first.pc = "lock" /\ first.session = s
      BY <1>n, NewCallFacts, TargetAssumption
    <2>2. call' = [call EXCEPT ![p] = new] /\ UNCHANGED <<leases, locks, Store>>
      BY <1>4 DEF RollbackCall, Set
    <2>3. commits[i] \in Text
      BY <1>0
    <2> HIDE DEF first
    <2>4. new \in Call /\ new.op = "rollback" /\ new.pc = "lock" /\ new.session = s
          /\ new.text = commits[i]
      BY <2>1, <2>3 DEF Call
    <2> HIDE DEF new
    <2>5. Typed(new, commits)
      BY <2>2, <2>4 DEF Typed, Unput
    <2> QED BY <2>2, <2>4, <2>5, CallStepType
  <1> QED BY <1>1, <1>2, <1>3, <1>4 DEF Request

\* Failing, dying and the passing of time preserve the types.
LEMMA FaultTypeInv ==
  ASSUME TypeInv,
         \/ \E p \in Proc : Fail(p) \/ Crash(p)
         \/ \E l \in Lease : Lapse(l) \/ Expire(l)
  PROVE  TypeInv'
  <1>1. ASSUME NEW p \in Proc, Fail(p) PROVE TypeInv'
    <2>1. call[p] \in Call /\ Typed(call[p], commits)
      BY <1>1, RunningCall, Zenon DEF Fail
    <2>2. CASE call[p].lease # None
      <3>1. call' = [call EXCEPT ![p] = [call[p] EXCEPT !.pc = "giveup"]]
        BY <1>1, <2>2, GotoIsSet DEF Fail
      <3>2. [call[p] EXCEPT !.pc = "giveup"] \in Call /\ Typed([call[p] EXCEPT !.pc = "giveup"], commits)
        BY <2>1, <2>2, GotoTyped, Zenon DEF Pc
      <3> QED BY <1>1, <3>1, <3>2, CallStepType DEF Fail
    <2>3. CASE call[p].lease = None
      <3>1. call' = [call EXCEPT ![p] = None]
        BY <1>1, <2>3, EndStep, Zenon DEF Fail
      <3> QED BY <1>1, <3>1, CallStepType, Zenon DEF Fail
    <2> QED BY <2>2, <2>3
  <1>2. ASSUME NEW p \in Proc, Crash(p) PROVE TypeInv'
    BY <1>2, EndStep, CallStepType DEF Crash
  <1>3. ASSUME NEW l \in Lease, Lapse(l) PROVE TypeInv'
    BY <1>3 DEF Lapse, LeaseState, TypeInv, TypeOK, CallsTyped
  <1>4. ASSUME NEW l \in Lease, Expire(l) PROVE TypeInv'
    <2>1. leases' \in [Lease -> LeaseState] /\ locks' \in [Target -> LockValue \cup {None}]
      BY <1>4, DropLeaseType DEF Expire, TypeInv
    <2> QED BY <1>4, <2>1 DEF Expire, TypeInv, TypeOK, CallsTyped
  <1> QED BY <1>1, <1>2, <1>3, <1>4

\* Every step preserves the types.
LEMMA NextTypeInv == TypeInv /\ [Next]_vars => TypeInv'
  <1>1. ASSUME TypeInv, UNCHANGED vars PROVE TypeInv'
    BY <1>1 DEF vars, TypeInv, TypeOK, CallsTyped
  <1> QED
    BY <1>1, LockStepTypeInv, StoreStepTypeInv, RequestTypeInv, FaultTypeInv DEF Next

LEMMA EtcdTypeInv == Spec => []TypeInv
  BY InitTypeInv, NextTypeInv, PTL DEF Spec

\* The etcd store's keys and the calls in progress are always well formed
\* (TypeOK), for any number of goroutines, sessions, targets and leases.
THEOREM EtcdTypeCorrect == Spec => []TypeOK
  <1>1. TypeInv => TypeOK
    BY DEF TypeInv
  <1> QED BY <1>1, EtcdTypeInv, PTL

\* GetRunning returns the text of the commit that its metadata names
\* (RunningReadIsOneCommit).
THEOREM EtcdRunningReadIsOneCommit == Spec => []RunningReadIsOneCommit
  <1>1. TypeInv => RunningReadIsOneCommit
    BY Zenon DEF TypeInv, CallsTyped, Typed, RunningReadIsOneCommit, At
  <1> QED BY <1>1, EtcdTypeInv, PTL

-----------------------------------------------------------------------------
(***************************************************************************)
(* The history index.                                                      *)
(***************************************************************************)

\* A step that leaves commits and index alone and opens no datastore.
LEMMA IndexCall ==
  ASSUME TypeInv, IndexInv, NEW p \in Proc, NEW c, call' = [call EXCEPT ![p] = c],
         UNCHANGED <<commits, indexed, version, open>>,
         \/ c = None \/ c.op # "open"
         \/ call[p] # None /\ c.op = call[p].op /\ c.todo = call[p].todo
  PROVE  IndexInv'
  <1>1. ASSUME NEW q \in Proc, call'[q] # None, call'[q].op = "open"
        PROVE  1 .. Len(commits) \subseteq indexed \cup call'[q].todo
    <2>1. call[q] # None /\ call[q].op = "open" /\ call'[q].todo = call[q].todo
      BY <1>1 DEF TypeInv, TypeOK
    <2> QED BY <2>1 DEF IndexInv
  <1> QED BY <1>1 DEF IndexInv

LEMMA IndexEnd ==
  ASSUME TypeInv, IndexInv, NEW p \in Proc, End(p), UNCHANGED <<commits, indexed, version, open>>
  PROVE  IndexInv'
  BY EndStep, IndexCall

LEMMA IndexGoto ==
  ASSUME TypeInv, IndexInv, NEW p \in Proc, NEW pc \in Pc, Goto(p, pc), call[p] # None,
         UNCHANGED <<commits, indexed, version, open>>
  PROVE  IndexInv'
  <1>1. call[p] \in Call
    BY RunningCall
  <1> DEFINE d == [call[p] EXCEPT !.pc = pc]
  <1>2. d.op = call[p].op /\ d.todo = call[p].todo
    BY <1>1 DEF Call
  <1>3. call' = [call EXCEPT ![p] = d]
    BY GotoIsSet
  <1> HIDE DEF d
  <1> QED BY <1>2, <1>3, IndexCall

\* A transaction indexes the commit that it makes.
LEMMA IndexRecord ==
  ASSUME TypeInv, IndexInv, NEW p \in Proc, NEW x \in Text, Record(x), Goto(p, "revoke old"),
         call[p] # None, UNCHANGED <<version, open>>
  PROVE  IndexInv'
  <1>1. commits' = Append(commits, x) /\ indexed' = indexed \cup {Len(commits')}
    BY Zenon DEF Record
  <1>2. commits \in Seq(Text)
    BY Zenon DEF TypeInv, TypeOK
  <1>3. 1 .. Len(commits') = (1 .. Len(commits)) \cup {Len(commits')}
    BY <1>1, <1>2, AppendFacts, Zenon
  <1>4. ASSUME NEW q \in Proc, call'[q] # None, call'[q].op = "open"
        PROVE  call[q] # None /\ call[q].op = "open" /\ call'[q].todo = call[q].todo
    <2>1. call[p] \in Call
      BY RunningCall, Zenon
    <2>2. LET d == [call[p] EXCEPT !.pc = "revoke old"]
          IN  d.op = call[p].op /\ d.todo = call[p].todo
      BY <2>1 DEF Call
    <2>3. call' = [call EXCEPT ![p] = [call[p] EXCEPT !.pc = "revoke old"]]
      BY GotoIsSet
    <2> QED BY <1>4, <2>2, <2>3 DEF TypeInv, TypeOK
  <1> QED BY <1>1, <1>3, <1>4, Zenon DEF IndexInv

\* No step leaves a commit out of the index.
LEMMA NextIndexInv == TypeInv /\ IndexInv /\ [Next]_vars => IndexInv'
  <1> SUFFICES ASSUME TypeInv, IndexInv, [Next]_vars PROVE IndexInv'
    OBVIOUS
  <1> USE DEF LockOp
  <1>n. /\ "cas" \in Pc /\ "put" \in Pc /\ "giveup" \in Pc /\ "revoke old" \in Pc
        /\ "get" \in Pc /\ "acquire" \in Op /\ "extend" \in Op
    BY DEF Pc, Op
  <1>s. UNCHANGED Store => UNCHANGED <<commits, indexed, version, open>>
    BY DEF Store
  <1>1. ASSUME NEW p \in Proc, LockStep(p) PROVE IndexInv'
    <2>1. ASSUME NEW c \in Asking(p, "acquire"), AcquireGet(p, c) PROVE IndexInv'
      <3> DEFINE seen == locks[c.target]
                 pc == IF seen = None THEN "put"
                       ELSE IF leases[seen.lease] = "live" THEN "giveup" ELSE "revoke expired"
                 new == [c EXCEPT !.seen = seen, !.lease = Fresh, !.pc = pc]
                 extend == NewCall("extend", "get", c.session, c.target)
      <3>1. c \in Call /\ c.op = "acquire"
        BY AskingFacts
      <3>2. new.op = "acquire" /\ extend.op = "extend"
        BY <3>1 DEF Call, NewCall
      <3>3. call' = [call EXCEPT ![p] = new] \/ call' = [call EXCEPT ![p] = extend]
        BY <2>1 DEF AcquireGet, Set
      <3> HIDE DEF new, extend
      <3> QED BY <1>s, <2>1, <3>2, <3>3, IndexCall DEF AcquireGet
    <2>2. CASE AcquireRevokeExpired(p)
      BY <1>n, <1>s, <2>2, IndexGoto, Zenon DEF AcquireRevokeExpired, At
    <2>3. CASE AcquireDelete(p)
      BY <1>n, <1>s, <2>3, IndexGoto, Zenon DEF AcquireDelete, At
    <2>4. CASE AcquirePut(p)
      BY <1>n, <1>s, <2>4, IndexGoto, IndexEnd, Zenon DEF AcquirePut, At
    <2>5. CASE GiveUp(p)
      BY <1>s, <2>5, IndexEnd DEF GiveUp
    <2>6. ASSUME NEW c \in Asking(p, "extend"), ExtendGet(p, c) PROVE IndexInv'
      <3> DEFINE new == [c EXCEPT !.seen = locks[c.target], !.lease = Fresh, !.pc = "put"]
      <3>1. c \in Call /\ c.op = "extend"
        BY AskingFacts
      <3>2. new.op = "extend"
        BY <3>1 DEF Call
      <3>3. call' = [call EXCEPT ![p] = new] \/ End(p)
        BY <2>6 DEF ExtendGet, Set
      <3> HIDE DEF new
      <3> QED BY <1>s, <2>6, <3>2, <3>3, IndexCall, IndexEnd DEF ExtendGet
    <2>7. CASE ExtendPut(p)
      BY <1>n, <1>s, <2>7, IndexGoto, Zenon DEF ExtendPut, At
    <2>8. CASE RevokeOld(p)
      BY <1>s, <2>8, IndexEnd, Zenon DEF RevokeOld
    <2>9. ASSUME NEW c \in Asking(p, "release"), ReleaseGet(p, c) PROVE IndexInv'
      <3> DEFINE new == [c EXCEPT !.seen = locks[c.target], !.pc = "cas"]
      <3>1. c \in Call /\ c.op = "release"
        BY AskingFacts
      <3>2. new.op = "release"
        BY <3>1 DEF Call
      <3>3. call' = [call EXCEPT ![p] = new] \/ End(p)
        BY <2>9 DEF ReleaseGet, Set
      <3> HIDE DEF new
      <3> QED BY <1>s, <2>9, <3>2, <3>3, IndexCall, IndexEnd DEF ReleaseGet
    <2>10. ASSUME NEW c \in Asking(p, "steal"), StealGet(p, c) PROVE IndexInv'
      <3> DEFINE new == [c EXCEPT !.seen = locks[c.target], !.pc = "cas"]
                 acquire == NewCall("acquire", "get", c.session, c.target)
      <3>1. c \in Call /\ c.op = "steal"
        BY AskingFacts
      <3>2. new.op = "steal" /\ acquire.op = "acquire"
        BY <3>1 DEF Call, NewCall
      <3>3. call' = [call EXCEPT ![p] = new] \/ call' = [call EXCEPT ![p] = acquire] \/ End(p)
        BY <2>10 DEF StealGet, Set
      <3> HIDE DEF new, acquire
      <3> QED BY <1>s, <2>10, <3>2, <3>3, IndexCall, IndexEnd DEF StealGet
    <2>11. CASE ReleaseDelete(p) \/ StealDelete(p)
      <3>1. DeleteSeen(p) /\ call[p] # None
        BY <2>11 DEF ReleaseDelete, StealDelete, At
      <3> QED BY <1>n, <1>s, <3>1, IndexGoto, IndexEnd, Zenon DEF DeleteSeen
    <2>12. CASE StealAcquire(p)
      <3> DEFINE acquire == NewCall("acquire", "get", call[p].session, call[p].target)
      <3>1. acquire.op = "acquire"
        BY DEF NewCall
      <3>2. call' = [call EXCEPT ![p] = acquire]
        BY <2>12, Zenon DEF StealAcquire, Set
      <3> HIDE DEF acquire
      <3> QED BY <1>s, <2>12, <3>1, <3>2, IndexCall, Zenon DEF StealAcquire
    <2> QED
      BY <1>1, <2>1, <2>2, <2>3, <2>4, <2>5, <2>6, <2>7, <2>8, <2>9, <2>10, <2>11, <2>12 DEF LockStep
  <1>2. ASSUME NEW p \in Proc, StoreStep(p) PROVE IndexInv'
    <2>1. CASE CommitLock(p) \/ RollbackLock(p)
      <3> DEFINE new == [call[p] EXCEPT !.seen = locks["candidate"], !.pc = "txn"]
      <3>1. call[p] \in Call /\ call[p].op # "open" /\ VerifyLock(p)
        BY <2>1, RunningCall DEF CommitLock, RollbackLock, At
      <3>2. new.op # "open"
        BY <3>1 DEF Call
      <3>3. call' = [call EXCEPT ![p] = new] \/ End(p)
        BY <3>1 DEF VerifyLock, Set
      <3> HIDE DEF new
      <3> QED BY <1>s, <3>1, <3>2, <3>3, IndexCall, IndexEnd DEF VerifyLock
    <2>2. CASE CommitTxn(p)
      <3>1. call[p] # None /\ call[p].cand \in Candidate
        BY <2>2, RunningCall, Zenon DEF CommitTxn, At, Typed, Call
      <3>2. call[p].cand.text \in Text
        BY <3>1 DEF Candidate
      <3> QED BY <2>2, <3>1, <3>2, IndexRecord, IndexEnd, Zenon DEF CommitTxn
    <2>3. CASE RollbackTxn(p)
      <3>1. call[p] # None /\ \E i \in 1 .. Len(commits) : call[p].text = commits[i]
        BY <2>3, RunningCall, Zenon DEF RollbackTxn, At, Typed
      <3>2. call[p].text \in Text
        BY <3>1 DEF TypeInv, TypeOK
      <3> QED BY <2>3, <3>1, <3>2, IndexRecord, IndexEnd, Zenon DEF RollbackTxn
    <2>4. CASE GetRunning(p)
      <3> DEFINE new == [NewCall("read", "config", None, "candidate") EXCEPT !.at = Len(commits)]
      <3>1. new.op = "read"
        BY DEF NewCall
      <3>2. call' = [call EXCEPT ![p] = new]
        BY <2>4 DEF GetRunning, Set
      <3> HIDE DEF new
      <3> QED BY <1>s, <2>4, <3>1, <3>2, IndexCall, Zenon DEF GetRunning
    <2>5. CASE GetRunningConfig(p)
      <3> DEFINE new == [call[p] EXCEPT !.text = commits[call[p].at], !.pc = "done"]
      <3>1. call[p] \in Call /\ call[p].op = "read"
        BY <2>5, RunningCall DEF GetRunningConfig, At
      <3>2. new.op = "read"
        BY <3>1 DEF Call
      <3>3. call' = [call EXCEPT ![p] = new]
        BY <2>5 DEF GetRunningConfig, Set
      <3> HIDE DEF new
      <3> QED BY <1>s, <2>5, <3>2, <3>3, IndexCall DEF GetRunningConfig
    <2>6. CASE GetRunningReturn(p)
      BY <1>s, <2>6, IndexEnd DEF GetRunningReturn
    <2>7. CASE Open(p)
      <3>1. CASE version
        BY <2>7, <3>1 DEF Open, IndexInv
      <3>2. CASE ~version
        <4> DEFINE new == [NewCall("open", "flush", None, "candidate") EXCEPT !.todo = 1 .. Len(commits)]
        <4>1. new.todo = 1 .. Len(commits)
          BY DEF NewCall
        <4>2. call' = [call EXCEPT ![p] = new] /\ UNCHANGED <<commits, indexed, version, open>>
          BY <2>7, <3>2 DEF Open, Set
        <4> HIDE DEF new
        <4>3. \A q \in Proc : call'[q] = new \/ call'[q] = call[q]
          BY <4>2 DEF TypeInv, TypeOK
        <4> QED BY <4>1, <4>2, <4>3 DEF IndexInv
      <3> QED BY <3>1, <3>2
    <2>8. CASE ensureCommitHistoryIndex(p)
      <3> DEFINE todo == call[p].todo
      <3>1. /\ call[p] \in Call /\ call[p] # None
            /\ 1 .. Len(commits) \subseteq indexed \cup todo
            /\ UNCHANGED commits
        BY <2>8, RunningCall DEF ensureCommitHistoryIndex, At, IndexInv
      <3>2. CASE /\ indexed' = indexed \cup todo
                 /\ version' = TRUE
                 /\ End(p)
        <4>1. \A q \in Proc : call'[q] # None => call'[q] = call[q]
          BY <3>2, EndStep DEF TypeInv, TypeOK
        <4> QED BY <3>1, <3>2, <4>1 DEF IndexInv
      <3>3. CASE \E b \in SUBSET todo :
                   /\ indexed' = indexed \cup b
                   /\ Set(p, [call[p] EXCEPT !.todo = todo \ b])
                   /\ UNCHANGED <<version, open>>
        <4>1. PICK b \in SUBSET todo :
                /\ indexed' = indexed \cup b
                /\ call' = [call EXCEPT ![p] = [call[p] EXCEPT !.todo = todo \ b]]
                /\ UNCHANGED <<version, open>>
          BY <3>3, Zenon DEF Set
        <4>2. [call[p] EXCEPT !.todo = todo \ b].todo = todo \ b
          BY <3>1 DEF Call
        <4>3. ASSUME NEW q \in Proc, call'[q] # None, call'[q].op = "open"
              PROVE  1 .. Len(commits) \subseteq indexed' \cup call'[q].todo
          <5>1. CASE q = p
            <6>1. call'[q].todo = todo \ b
              BY <4>1, <4>2, <5>1 DEF TypeInv, TypeOK
            <6> QED BY <3>1, <4>1, <6>1
          <5>2. CASE q # p
            <6>1. call'[q] = call[q]
              BY <4>1, <5>2 DEF TypeInv, TypeOK
            <6> QED BY <4>1, <4>3, <6>1 DEF IndexInv
          <5> QED BY <5>1, <5>2
        <4> QED BY <3>1, <4>1, <4>3 DEF IndexInv
      <3> QED BY <2>8, <3>2, <3>3, Zenon DEF ensureCommitHistoryIndex
    <2> QED BY <1>2, <2>1, <2>2, <2>3, <2>4, <2>5, <2>6, <2>7, <2>8 DEF StoreStep
  <1>3. ASSUME NEW p \in Proc, Request(p) PROVE IndexInv'
    <2>1. ASSUME NEW s \in Session, CommitCall(p, s) PROVE IndexInv'
      <3> DEFINE new == [NewCall("commit", "lock", s, "candidate") EXCEPT !.cand = candidates[s]]
      <3>1. new.op = "commit"
        BY DEF NewCall
      <3>2. call' = [call EXCEPT ![p] = new]
        BY <2>1 DEF CommitCall, Set
      <3> HIDE DEF new
      <3> QED BY <1>s, <2>1, <3>1, <3>2, IndexCall DEF CommitCall
    <2>2. ASSUME NEW s \in Session, NEW i \in 1 .. Len(commits), RollbackCall(p, s, i) PROVE IndexInv'
      <3> DEFINE new == [NewCall("rollback", "lock", s, "candidate") EXCEPT !.text = commits[i]]
      <3>1. new.op = "rollback"
        BY DEF NewCall
      <3>2. call' = [call EXCEPT ![p] = new]
        BY <2>2 DEF RollbackCall, Set
      <3> HIDE DEF new
      <3> QED BY <1>s, <2>2, <3>1, <3>2, IndexCall, Zenon DEF RollbackCall
    <2>3. CASE \E s \in Session : DeleteCandidate(p, s) \/ \E x \in Text : SaveCandidate(p, s, x)
      BY <2>3 DEF SaveCandidate, DeleteCandidate, IndexInv
    <2> QED BY <1>3, <2>1, <2>2, <2>3 DEF Request
  <1>4. ASSUME NEW p \in Proc, Fail(p) \/ Crash(p) PROVE IndexInv'
    BY <1>n, <1>s, <1>4, IndexGoto, IndexEnd, Zenon DEF Fail, Crash
  <1>5. ASSUME NEW l \in Lease, Lapse(l) \/ Expire(l) PROVE IndexInv'
    BY <1>5 DEF Lapse, Expire, IndexInv
  <1>6. CASE UNCHANGED vars
    BY <1>6 DEF vars, IndexInv
  <1> QED BY <1>1, <1>2, <1>3, <1>4, <1>5, <1>6 DEF Next

\* Once a datastore is open, the history it lists is complete, whoever built
\* the index, in batches of whatever size, and however often building it was
\* interrupted (HistoryIsComplete).
THEOREM EtcdHistoryIsComplete == Spec => []HistoryIsComplete
  <1>1. Init => IndexInv
    BY DEF Init, IndexInv
  <1>2. TypeInv /\ IndexInv => HistoryIsComplete
    BY Zenon DEF TypeInv, TypeOK, IndexInv, HistoryIsComplete, ListCommitHistory
  <1> QED BY <1>1, <1>2, EtcdTypeInv, NextIndexInv, PTL DEF Spec

-----------------------------------------------------------------------------
(***************************************************************************)
(* The abstract datastore.                                                 *)
(***************************************************************************)
\* A step that commits nothing and touches no candidate passes the lock on,
\* gives it up or leaves it with its session.
LEMMA LockStepImplements ==
  ASSUME TypeInv, NEW p \in Proc, LockStep(p)
  PROVE  \/ \E s \in Session : Abstract!Take(s)
         \/ Abstract!Drop
         \/ UNCHANGED <<LockHolder, CandidateTexts, commits>>
  <1>0. /\ TypeOK /\ locks \in [Target -> LockValue \cup {None}]
        /\ call[p] # None => call[p] \in Call /\ Typed(call[p], commits)
    BY RunningCall DEF TypeInv, TypeOK
  <1>1. UNCHANGED <<candidates, commits>>
    BY Zenon DEF LockStep, AcquireGet, AcquireRevokeExpired, AcquireDelete, AcquirePut, GiveUp,
           ExtendGet, ExtendPut, RevokeOld, ReleaseGet, StealGet, ReleaseDelete, StealDelete,
           DeleteSeen, StealAcquire, Store
  <1>2. UNCHANGED CandidateTexts
    BY <1>1 DEF CandidateTexts
  <1>3. ASSUME locks'["candidate"] \in {locks["candidate"], None}
        PROVE  LockHolder' \in {LockHolder, None}
    BY <1>3 DEF LockHolder
  <1>4. CASE AcquirePut(p)
    <2>1. /\ call[p] # None /\ call[p].session \in Session /\ call[p].lease \in Lease
          /\ call[p].target \in Target
      BY <1>0, <1>4, Zenon DEF AcquirePut, At, Typed, Unput, SessionOp, LockOp, Call
    <2> DEFINE v == [session |-> call[p].session, lease |-> call[p].lease]
    <2>2. v # None /\ v.session = call[p].session
      BY <2>1, KeyAssumption DEF LockValue
    <2>3. locks' = locks \/ locks' = [locks EXCEPT ![call[p].target] = v]
      BY <1>4 DEF AcquirePut
    <2> HIDE DEF v
    <2>4. locks'["candidate"] \in {locks["candidate"], v}
      BY <1>0, <2>1, <2>3, TargetAssumption
    <2>5. LockHolder' \in {LockHolder, call[p].session}
      BY <2>2, <2>4 DEF LockHolder
    <2> QED BY <1>1, <1>2, <2>1, <2>5 DEF Abstract!Take
  <1>5. CASE ExtendPut(p)
    <2>1. /\ call[p] # None /\ call[p].target \in Target /\ call[p].lease \in Lease
          /\ call[p].seen # None
      BY <1>0, <1>5, Zenon DEF ExtendPut, At, Typed, Unput, Call
    <2>2. \/ locks' = locks
          \/ /\ locks[call[p].target] # None
             /\ locks' = [locks EXCEPT ![call[p].target].lease = call[p].lease]
      BY <1>5, <2>1, Zenon DEF ExtendPut
    <2>3. CASE /\ locks[call[p].target] # None
               /\ locks' = [locks EXCEPT ![call[p].target].lease = call[p].lease]
      <3>1. call[p].target # "candidate" => locks'["candidate"] = locks["candidate"]
        BY <1>0, <2>1, <2>3, TargetAssumption
      <3>2. call[p].target = "candidate" =>
              locks'["candidate"] = [locks["candidate"] EXCEPT !.lease = call[p].lease]
        BY <1>0, <2>1, <2>3
      <3>3. call[p].target = "candidate" =>
              /\ locks["candidate"] # None
              /\ [locks["candidate"] EXCEPT !.lease = call[p].lease].session = locks["candidate"].session
              /\ [locks["candidate"] EXCEPT !.lease = call[p].lease] # None
        BY <1>0, <2>1, <2>3, KeyAssumption DEF LockValue
      <3>4. UNCHANGED LockHolder
        BY <3>1, <3>2, <3>3, Zenon DEF LockHolder
      <3> QED BY <1>1, <1>2, <3>4
    <2>4. locks' = locks => UNCHANGED LockHolder
      BY DEF LockHolder
    <2> QED BY <1>1, <1>2, <2>2, <2>3, <2>4
  <1>6. CASE ~AcquirePut(p) /\ ~ExtendPut(p)
    <2>1. locks'["candidate"] \in {locks["candidate"], None}
      <3>1. CASE UNCHANGED locks
        BY <3>1
      <3>2. ASSUME NEW l, Revoke(l) PROVE locks'["candidate"] \in {locks["candidate"], None}
        BY <3>2, TargetAssumption DEF Revoke, DropLease
      <3>3. ASSUME NEW t, locks' = [locks EXCEPT ![t] = None] PROVE locks'["candidate"] \in {locks["candidate"], None}
        BY <1>0, <3>3, TargetAssumption
      <3>4. \/ UNCHANGED locks
            \/ \E l : Revoke(l)
            \/ \E t : locks' = [locks EXCEPT ![t] = None]
        BY <1>6, Zenon DEF LockStep, AcquireGet, AcquireRevokeExpired, AcquireDelete, GiveUp, ExtendGet,
                    RevokeOld, ReleaseGet, StealGet, ReleaseDelete, StealDelete, DeleteSeen,
                    StealAcquire
      <3> QED BY <3>1, <3>2, <3>3, <3>4
    <2> QED BY <1>1, <1>2, <1>3, <2>1 DEF Abstract!Drop
  <1> QED BY <1>4, <1>5, <1>6

\* The transactions of Commit and Rollback are the abstract ones.
LEMMA TxnImplements ==
  ASSUME TypeInv, NEW p \in Proc, CommitTxn(p) \/ RollbackTxn(p)
  PROVE  \/ \E s \in Session : Abstract!Promote(s) \/ Abstract!Restore(s)
         \/ UNCHANGED <<LockHolder, CandidateTexts, commits>>
  <1> DEFINE c == call[p]
  <1>0. /\ locks \in [Target -> LockValue \cup {None}]
        /\ candidates \in [Session -> Candidate \cup {None}]
    BY DEF TypeInv, TypeOK
  <1>1. /\ c # None /\ c.op \in {"commit", "rollback"} /\ c.pc = "txn" /\ Typed(c, commits) /\ c \in Call
    BY RunningCall, Zenon DEF CommitTxn, RollbackTxn, At
  <1>2. c.session \in Session /\ c.seen # None /\ c.seen.session = c.session
    BY <1>1 DEF Typed, SessionOp
  <1>3. locks["candidate"] = c.seen => LockHolder = c.session
    BY <1>2 DEF LockHolder
  <1>4. ASSUME NEW x, Record(x)
        PROVE  LockHolder' = None /\ commits' = Append(commits, x)
    <2>1. locks' = [locks EXCEPT !["candidate"] = None] /\ commits' = Append(commits, x)
      BY <1>4, Zenon DEF Record
    <2>2. locks'["candidate"] = None
      BY <1>0, <2>1, TargetAssumption, Zenon
    <2>3. LockHolder' = None
      BY <2>2 DEF LockHolder
    <2> QED BY <2>1, <2>3
  <1>5. UNCHANGED <<locks, candidates, commits>> => UNCHANGED <<LockHolder, CandidateTexts, commits>>
    BY DEF LockHolder, CandidateTexts
  <1>6. CASE CommitTxn(p)
    <2>1. CASE locks["candidate"] = c.seen /\ candidates[c.session] = c.cand
      <3>1. Record(c.cand.text) /\ candidates' = [candidates EXCEPT ![c.session] = None]
        BY <1>6, <2>1, Zenon DEF CommitTxn
      <3>2. c.cand # None /\ c.cand.text \in Text /\ c.cand.text # None
        BY <1>1, <1>6, NoneAssumption, Zenon DEF CommitTxn, At, Typed, Call, Candidate
      <3>3. CandidateTexts[c.session] = c.cand.text
        BY <1>2, <2>1, <3>2, Zenon DEF CandidateTexts
      <3>4. CandidateTexts' = [CandidateTexts EXCEPT ![c.session] = None]
        BY <1>0, <1>2, <3>1, Zenon DEF CandidateTexts
      <3>5. Abstract!Promote(c.session)
        BY <1>3, <1>4, <2>1, <3>1, <3>2, <3>3, <3>4, Zenon DEF Abstract!Promote
      <3> QED BY <1>2, <3>5
    <2>2. CASE ~(locks["candidate"] = c.seen /\ candidates[c.session] = c.cand)
      BY <1>5, <1>6, <2>2, Zenon DEF CommitTxn
    <2> QED BY <2>1, <2>2
  <1>7. CASE RollbackTxn(p)
    <2>1. CASE locks["candidate"] = c.seen
      <3>1. Record(c.text) /\ UNCHANGED candidates
        BY <1>7, <2>1, Zenon DEF RollbackTxn
      <3>2. PICK i \in 1 .. Len(commits) : c.text = commits[i]
        BY <1>1, <1>7, Zenon DEF RollbackTxn, At, Typed
      <3>3. commits' = Append(commits, commits[i]) /\ LockHolder' = None
        BY <1>4, <3>1, <3>2, Zenon
      <3>4. UNCHANGED CandidateTexts
        BY <3>1 DEF CandidateTexts
      <3>5. Abstract!Restore(c.session)
        BY <1>3, <2>1, <3>3, <3>4, Zenon DEF Abstract!Restore
      <3> QED BY <1>2, <3>5
    <2>2. CASE locks["candidate"] # c.seen
      BY <1>5, <1>7, <2>2, Zenon DEF RollbackTxn
    <2> QED BY <2>1, <2>2
  <1> QED BY <1>6, <1>7

\* Every step of the backend is a step of the abstract datastore, or none.
LEMMA StepImplements ==
  ASSUME TypeInv, [Next]_vars
  PROVE  [Abstract!Next]_(Abstract!vars)
  <1> DEFINE Same == UNCHANGED <<LockHolder, CandidateTexts, commits>>
             Goal == Abstract!Next \/ Same
  <1> SUFFICES Goal
    BY DEF Abstract!vars
  <1>0. /\ locks \in [Target -> LockValue \cup {None}]
        /\ candidates \in [Session -> Candidate \cup {None}]
        /\ saves \in 0 .. MaxSaves
    BY DEF TypeInv, TypeOK
  <1>1. UNCHANGED <<locks, candidates, commits>> => Same
    BY DEF LockHolder, CandidateTexts
  <1>2. ASSUME NEW p \in Proc, LockStep(p) PROVE Goal
    BY <1>2, LockStepImplements DEF Abstract!Next
  <1>3. ASSUME NEW p \in Proc, StoreStep(p) PROVE Goal
    <2>1. CASE CommitTxn(p) \/ RollbackTxn(p)
      BY <2>1, TxnImplements DEF Abstract!Next
    <2>2. CASE ~(CommitTxn(p) \/ RollbackTxn(p))
      <3>1. UNCHANGED <<locks, candidates, commits>>
        BY <1>3, <2>2 DEF StoreStep, CommitLock, RollbackLock, VerifyLock, GetRunning,
             GetRunningConfig, GetRunningReturn, Open, ensureCommitHistoryIndex, Store
      <3> QED BY <1>1, <3>1
    <2> QED BY <2>1, <2>2
  <1>4. ASSUME NEW s \in Session, NEW v \in Candidate \cup {None},
               candidates' = [candidates EXCEPT ![s] = v], UNCHANGED <<locks, commits>>
        PROVE  Goal
    <2> DEFINE x == IF v = None THEN None ELSE v.text
    <2>1. x \in Text \cup {None}
      BY DEF Candidate
    <2>2. CandidateTexts' = [CandidateTexts EXCEPT ![s] = x]
      BY <1>0, <1>4, Zenon DEF CandidateTexts
    <2>3. UNCHANGED LockHolder
      BY <1>4, Zenon DEF LockHolder
    <2> HIDE DEF x
    <2>4. Abstract!Edit(s)
      BY <1>4, <2>1, <2>2, <2>3, Zenon DEF Abstract!Edit
    <2> QED BY <2>4 DEF Abstract!Next
  <1>5. ASSUME NEW p \in Proc, Request(p) PROVE Goal
    <2>1. ASSUME NEW s \in Session, NEW x \in Text, SaveCandidate(p, s, x) PROVE Goal
      <3>1. saves' \in 1 .. MaxSaves
        BY <1>0, <2>1, BoundAssumption DEF SaveCandidate
      <3>2. [text |-> x, rev |-> saves'] \in Candidate
        BY <3>1 DEF Candidate
      <3> QED BY <1>4, <2>1, <3>2, Zenon DEF SaveCandidate
    <2>2. ASSUME NEW s \in Session, DeleteCandidate(p, s) PROVE Goal
      BY <1>4, <2>2, Zenon DEF DeleteCandidate
    <2>3. ASSUME NEW s \in Session, CommitCall(p, s) PROVE Goal
      BY <1>1, <2>3 DEF CommitCall, Store
    <2>4. ASSUME NEW s \in Session, NEW i \in 1 .. Len(commits), RollbackCall(p, s, i) PROVE Goal
      BY <1>1, <2>4 DEF RollbackCall, Store
    <2> QED BY <1>5, <2>1, <2>2, <2>3, <2>4 DEF Request
  <1>6. ASSUME NEW p \in Proc, Fail(p) \/ Crash(p) PROVE Goal
    BY <1>1, <1>6, Zenon DEF Fail, Crash, Store
  <1>7. ASSUME NEW l \in Lease, Lapse(l) \/ Expire(l) PROVE Goal
    <2>1. locks'["candidate"] \in {locks["candidate"], None} /\ UNCHANGED <<candidates, commits>>
      BY <1>7, TargetAssumption DEF Lapse, Expire, DropLease
    <2>2. LockHolder' \in {LockHolder, None} /\ UNCHANGED CandidateTexts
      BY <2>1 DEF LockHolder, CandidateTexts
    <2> QED BY <2>1, <2>2 DEF Abstract!Drop, Abstract!Next
  <1>8. CASE UNCHANGED vars
    BY <1>1, <1>8 DEF vars
  <1> QED BY <1>2, <1>3, <1>5, <1>6, <1>7, <1>8 DEF Next

\* The etcd backend implements the abstract datastore (ImplementsDatastore): the
\* log grows only by the candidate or the earlier commit that the holder of the
\* lock asked for, in the step that gives up the lock.
THEOREM EtcdImplementsDatastore == Spec => ImplementsDatastore
  <1>1. Init => Abstract!Init
    <2> SUFFICES ASSUME Init PROVE Abstract!Init
      OBVIOUS
    <2>1. LockHolder = None
      BY TargetAssumption DEF Init, LockHolder
    <2>2. CandidateTexts = [s \in Session |-> None]
      BY DEF Init, CandidateTexts
    <2>3. commits \in Seq(Text)
      BY PastAssumption DEF Init
    <2> QED BY <2>1, <2>2, <2>3 DEF Abstract!Init
  <1>2. TypeInv /\ [Next]_vars => [Abstract!Next]_(Abstract!vars)
    BY StepImplements
  <1> QED BY <1>1, <1>2, EtcdTypeInv, PTL DEF Spec, ImplementsDatastore, Abstract!Spec

-----------------------------------------------------------------------------
(***************************************************************************)
(* The locks.                                                              *)
(*                                                                         *)
(* Revoking a lease deletes the keys that have it, whoever wrote them, so  *)
(* a live lock is safe only if no call revokes a lease that has come to be *)
(* on a key again.  Leased says how the leases a call knows stand to those *)
(* of etcd and of the lock keys, Apart how two calls stand to each other,  *)
(* Keyed how the lock keys do.  All three are about values: a step is      *)
(* checked by how it ages the leases, deletes keys and changes one call.   *)
(***************************************************************************)
\* How the leases of a call stand to those of etcd (ls) and the lock keys (ks).
\* The lease granted to it is on no key but one that it wrote for its session;
\* the lease of a key that it replaced or deleted is on no key any more; and
\* the lease of a lock that it found expired has not come back to life.
Leased(c, ls, ks) ==
  /\ c.lease # None =>
       /\ ls[c.lease] # "unused"
       /\ \A t \in Target : ks[t] # None /\ ks[t].lease = c.lease => ks[t].session = c.session
  /\ c.seen # None => ls[c.seen.lease] # "unused"
  /\ Unput(c) => \A t \in Target : ks[t] # None => ks[t].lease # c.lease
  /\ Unput(c) /\ c.seen # None => c.seen.lease # c.lease
  /\ c.pc = "revoke old" => \A t \in Target : ks[t] # None => ks[t].lease # c.seen.lease
  /\ c.op = "acquire" /\ c.pc \in {"revoke expired", "cas"} => ls[c.seen.lease] # "live"

\* No lease is granted to two calls, and one that is on no key yet has not been
\* read by another call.
Apart(c, d) ==
  /\ c.lease # None => c.lease # d.lease
  /\ Unput(c) /\ d.seen # None => d.seen.lease # c.lease

\* Lock keys have leases that etcd granted, no two the same.
Keyed(ls, ks) ==
  /\ \A t \in Target : ks[t] # None => ls[ks[t].lease] # "unused"
  /\ \A t, u \in Target :
       ks[t] # None /\ ks[u] # None /\ ks[t].lease = ks[u].lease => t = u

LeaseInv ==
  /\ Keyed(leases, locks)
  /\ \A p \in Proc : call[p] # None => Leased(call[p], leases, locks)
  /\ \A p, q \in Proc :
       p # q /\ call[p] # None /\ call[q] # None => Apart(call[p], call[q])

-----------------------------------------------------------------------------
(***************************************************************************)
(* Leases.                                                                 *)
(***************************************************************************)
Leases == [Lease -> LeaseState]
Keys == [Target -> LockValue \cup {None}]

\* A lease that was granted stays granted, and one that is not alive any more
\* does not come back.
Ages(ls, ls2) ==
  \A l \in Lease : /\ ls[l] # "unused" => ls2[l] # "unused"
                   /\ ls[l] \notin {"unused", "live"} => ls2[l] # "live"

\* Lock keys are deleted, at most.
Fewer(ks, ks2) == \A t \in Target : ks2[t] \in {ks[t], None}

\* When leases age and keys are deleted, calls and keys stay in order.
LEMMA LeasedAges ==
  ASSUME NEW d \in Call, NEW ls, NEW ls2, NEW ks, NEW ks2, ks \in Keys,
         Typed(d, commits), Leased(d, ls, ks), Ages(ls, ls2), Fewer(ks, ks2)
  PROVE  Leased(d, ls2, ks2)
  <1>1. /\ d.lease # None => d.lease \in Lease
        /\ d.seen # None => d.seen.lease \in Lease
    BY DEF Call, LockValue
  <1>2. \A t \in Target : ks2[t] # None => ks2[t] = ks[t]
    BY DEF Fewer
  <1>3. d.pc \in {"revoke expired", "cas"} => d.seen # None
    BY Zenon DEF Typed
  <1> QED BY <1>1, <1>2, <1>3, Zenon DEF Leased, Ages

LEMMA KeyedAges ==
  ASSUME NEW ls, NEW ls2, NEW ks, NEW ks2, ks \in Keys, Keyed(ls, ks), Ages(ls, ls2), Fewer(ks, ks2)
  PROVE  Keyed(ls2, ks2)
  <1>1. \A t \in Target : ks2[t] # None => ks2[t] = ks[t] /\ ks[t].lease \in Lease
    BY DEF Fewer, Keys, LockValue
  <1> QED BY <1>1 DEF Keyed, Ages

\* A key that is written with a lease which a call does not know leaves that
\* call in order.
LEMMA LeasedPut ==
  ASSUME NEW d \in Call, NEW ls, NEW ks, NEW ks2, NEW t \in Target, NEW l \in Lease,
         Leased(d, ls, ks), d.lease # l, d.seen # None => d.seen.lease # l,
         Typed(d, commits),
         \A u \in Target : u # t => ks2[u] = ks[u], ks2[t].lease = l
  PROVE  Leased(d, ls, ks2)
  <1>1. d.pc = "revoke old" => d.seen # None
    BY Zenon DEF Typed
  <1> QED BY <1>1, Zenon DEF Leased

\* A step is in order when it keeps the other calls and the keys in order and
\* the call of the goroutine that takes it stays apart from theirs.
LEMMA LeaseStep ==
  ASSUME TypeInv, LeaseInv, NEW p \in Proc, NEW c, call' = [call EXCEPT ![p] = c],
         Keyed(leases', locks'),
         \A q \in Proc \ {p} : call[q] # None => Leased(call[q], leases', locks'),
         c # None => /\ Leased(c, leases', locks')
                     /\ \A q \in Proc \ {p} :
                          call[q] # None => Apart(c, call[q]) /\ Apart(call[q], c)
  PROVE  LeaseInv'
  <1>1. call'[p] = c /\ \A q \in Proc \ {p} : call'[q] = call[q]
    BY DEF TypeInv, TypeOK
  <1>2. ASSUME NEW q \in Proc, call'[q] # None PROVE Leased(call'[q], leases', locks')
    BY <1>1, <1>2
  <1>3. ASSUME NEW q \in Proc, NEW r \in Proc, q # r, call'[q] # None, call'[r] # None
        PROVE  Apart(call'[q], call'[r])
    BY <1>1, <1>3 DEF LeaseInv
  <1> QED BY <1>2, <1>3 DEF LeaseInv

\* Deleting a lease, revoking one, and leaving them alone.
LEMMA RevokeAges ==
  ASSUME TypeOK, NEW l, DropLease(l) \/ Revoke(l) \/ UNCHANGED <<leases, locks>>
  PROVE  Ages(leases, leases') /\ Fewer(locks, locks')
  BY DEF TypeOK, DropLease, Revoke, Ages, Fewer, LeaseState

\* Granting a lease, for use or to be given back at once.
LEMMA GrantAges ==
  ASSUME TypeOK, CanGrant, NEW state \in {"live", "gone"},
         leases' = [leases EXCEPT ![Fresh] = state], UNCHANGED locks
  PROVE  Ages(leases, leases') /\ Fewer(locks, locks')
  <1>1. Fresh \in Lease /\ leases[Fresh] = "unused"
    BY FreshFacts
  <1> QED BY <1>1 DEF TypeOK, Ages, Fewer

\* A step in which leases age and keys are deleted.
LEMMA LeaseAgeStep ==
  ASSUME TypeInv, LeaseInv, NEW p \in Proc, NEW c, call' = [call EXCEPT ![p] = c],
         Ages(leases, leases'), Fewer(locks, locks'),
         c # None => /\ Leased(c, leases', locks')
                     /\ \A q \in Proc \ {p} :
                          call[q] # None => Apart(c, call[q]) /\ Apart(call[q], c)
  PROVE  LeaseInv'
  <1>1. locks \in Keys
    BY DEF TypeInv, TypeOK, Keys
  <1>2. Keyed(leases', locks')
    BY <1>1, KeyedAges DEF LeaseInv
  <1>3. ASSUME NEW q \in Proc \ {p}, call[q] # None PROVE Leased(call[q], leases', locks')
    <2>1. call[q] \in Call /\ Typed(call[q], commits)
      BY <1>3, RunningCall
    <2>2. Leased(call[q], leases, locks)
      BY <1>3 DEF LeaseInv
    <2> QED BY <1>1, <2>1, <2>2, LeasedAges
  <1> QED BY <1>2, <1>3, LeaseStep, Zenon

LEMMA LeaseEnd ==
  ASSUME TypeInv, LeaseInv, NEW p \in Proc, End(p), Ages(leases, leases'), Fewer(locks, locks')
  PROVE  LeaseInv'
  BY EndStep, LeaseAgeStep

\* A call that goes on to its next request.
LEMMA LeaseGoto ==
  ASSUME TypeInv, LeaseInv, NEW p \in Proc, NEW pc \in Pc, Goto(p, pc), call[p] # None,
         Ages(leases, leases'), Fewer(locks, locks'),
         \/ pc = "giveup"
         \/ /\ pc = "revoke old"
            /\ \A t \in Target : locks'[t] # None => locks'[t].lease # call[p].seen.lease
         \/ pc = "cas" /\ At(p, "acquire", "revoke expired")
         \/ pc = "put" /\ At(p, "acquire", "cas")
  PROVE  LeaseInv'
  <1> DEFINE d == [call[p] EXCEPT !.pc = pc]
  <1>1. call[p] \in Call /\ Typed(call[p], commits) /\ Leased(call[p], leases, locks)
    BY RunningCall, Zenon DEF LeaseInv
  <1>2. locks \in Keys
    BY Zenon DEF TypeInv, TypeOK, Keys
  <1>3. Leased(call[p], leases', locks')
    BY <1>1, <1>2, LeasedAges, Zenon
  <1>4. /\ d.pc = pc /\ d.op = call[p].op /\ d.session = call[p].session
        /\ d.seen = call[p].seen /\ d.lease = call[p].lease
    BY <1>1 DEF Call
  <1>5. call' = [call EXCEPT ![p] = d]
    BY GotoIsSet
  <1> HIDE DEF d
  <1>6. Unput(d) => Unput(call[p])
    BY <1>4, Zenon DEF Unput, At
  <1>7. Leased(d, leases', locks')
    BY <1>3, <1>4, <1>6, Zenon DEF Leased, At
  <1>8. ASSUME NEW q \in Proc \ {p}, call[q] # None
        PROVE  Apart(d, call[q]) /\ Apart(call[q], d)
    BY <1>4, <1>6, <1>8, Zenon DEF LeaseInv, Apart
  <1> QED BY <1>5, <1>7, <1>8, LeaseAgeStep, Zenon

\* A call that has just started, or is about to make its first request.
LEMMA AskingLeased ==
  ASSUME TypeInv, LeaseInv, NEW p \in Proc, NEW op \in LockOp, NEW c \in Asking(p, op)
  PROVE  /\ Leased(c, leases, locks)
         /\ \A q \in Proc \ {p} : call[q] # None => Apart(c, call[q]) /\ Apart(call[q], c)
  <1>1. CASE Idle(p)
    <2>1. PICK s \in Session, t \in Target, v \in Session \cup {None} :
            c = [NewCall(op, "get", s, t) EXCEPT !.victim = v]
      BY <1>1 DEF Asking
    <2>2. c.lease = None /\ c.seen = None /\ c.pc = "get"
      BY <2>1 DEF NewCall
    <2> QED BY <2>2 DEF Leased, Apart, Unput
  <1>2. CASE ~Idle(p)
    <2>1. call[p] # None /\ c = call[p]
      BY <1>2 DEF Asking, At
    <2> QED BY <2>1 DEF LeaseInv
  <1> QED BY <1>1, <1>2

\* A new call has no leases.
LEMMA LeaseNewCall ==
  ASSUME TypeInv, LeaseInv, NEW p \in Proc, NEW c, call' = [call EXCEPT ![p] = c],
         Ages(leases, leases'), Fewer(locks, locks'),
         c.lease = None, c.seen = None, c.pc \in {"get", "lock", "config", "done", "flush"}
  PROVE  LeaseInv'
  <1>1. Leased(c, leases', locks') /\ ~Unput(c)
    BY Zenon DEF Leased, Unput
  <1>2. ASSUME NEW q \in Proc \ {p}, call[q] # None
        PROVE  Apart(c, call[q]) /\ Apart(call[q], c)
    BY <1>1 DEF Apart
  <1> QED BY <1>1, <1>2, LeaseAgeStep

\* A call that has read a lock key.
LEMMA LeaseSeen ==
  ASSUME TypeInv, LeaseInv, NEW p \in Proc, NEW c, NEW d, call' = [call EXCEPT ![p] = d],
         UNCHANGED <<leases, locks>>,
         Leased(c, leases, locks),
         \A q \in Proc \ {p} : call[q] # None => Apart(c, call[q]) /\ Apart(call[q], c),
         NEW t \in Target, locks[t] # None,
         d.seen = locks[t], d.lease = c.lease, d.session = c.session,
         \/ d.op \in {"release", "steal"} /\ d.pc = "cas"
         \/ d.pc = "txn"
  PROVE  LeaseInv'
  <1>1. ~Unput(d)
    BY Zenon DEF Unput
  <1>2. leases[locks[t].lease] # "unused"
    BY DEF LeaseInv, Keyed
  <1>3. Leased(d, leases, locks)
    BY <1>1, <1>2, Zenon DEF Leased
  <1>4. ASSUME NEW q \in Proc \ {p}, call[q] # None
        PROVE  Apart(d, call[q]) /\ Apart(call[q], d)
    <2>1. Unput(call[q]) => locks[t].lease # call[q].lease
      BY <1>4, Zenon DEF LeaseInv, Leased
    <2> QED BY <1>1, <1>4, <2>1 DEF Apart
  <1>5. Ages(leases, leases') /\ Fewer(locks, locks')
    BY RevokeAges, Zenon DEF TypeInv
  <1> QED BY <1>3, <1>4, <1>5, LeaseAgeStep, Zenon

\* A call that has been granted a lease, and has read a lock key or found none.
LEMMA LeaseGrant ==
  ASSUME TypeInv, LeaseInv, NEW p \in Proc, NEW d, call' = [call EXCEPT ![p] = d],
         CanGrant, leases' = [leases EXCEPT ![Fresh] = "live"], UNCHANGED locks,
         NEW t \in Target, d.seen = locks[t], d.lease = Fresh,
         \/ d.op = "extend" /\ d.pc = "put"
         \/ d.op = "acquire" /\ d.pc \in {"put", "giveup"}
         \/ /\ d.op = "acquire" /\ d.pc = "revoke expired"
            /\ locks[t] # None /\ leases[locks[t].lease] # "live"
  PROVE  LeaseInv'
  <1>1. /\ Fresh \in Lease /\ leases[Fresh] = "unused" /\ leases'[Fresh] = "live"
        /\ \A l \in Lease : l # Fresh => leases'[l] = leases[l]
    BY FreshFacts, Zenon DEF TypeInv, TypeOK
  <1>2. \A u \in Target : locks[u] # None => locks[u].lease \in Lease /\ locks[u].lease # Fresh
                                             /\ leases[locks[u].lease] # "unused"
    BY <1>1, Zenon DEF LeaseInv, Keyed, TypeInv, TypeOK, LockValue
  <1>3. Leased(d, leases', locks')
    BY <1>1, <1>2, Zenon DEF Leased
  <1>4. ASSUME NEW q \in Proc \ {p}, call[q] # None
        PROVE  Apart(d, call[q]) /\ Apart(call[q], d)
    <2>1. call[q].lease # Fresh /\ (call[q].seen # None => call[q].seen.lease # Fresh)
      BY <1>1, <1>4, KeyAssumption, Zenon DEF LeaseInv, Leased
    <2>2. Unput(call[q]) => \A u \in Target : locks[u] # None => locks[u].lease # call[q].lease
      BY <1>4, Zenon DEF LeaseInv, Leased
    <2> QED BY <2>1, <2>2, Zenon DEF Apart
  <1>5. Ages(leases, leases') /\ Fewer(locks, locks')
    BY GrantAges, Zenon DEF TypeInv
  <1> QED BY <1>3, <1>4, <1>5, LeaseAgeStep, Zenon

\* A call that writes a lock key with the lease it was granted, and returns or
\* goes on; when it goes on to revoke the old lease, no other key has that.
LEMMA LeasePut ==
  ASSUME TypeInv, LeaseInv, NEW p \in Proc, call[p] # None, Unput(call[p]),
         UNCHANGED leases, NEW t \in Target,
         \A u \in Target : u # t => locks'[u] = locks[u],
         locks'[t].lease = call[p].lease, locks'[t].session = call[p].session,
         \/ End(p)
         \/ Goto(p, "giveup")
         \/ /\ Goto(p, "revoke old") /\ call[p].seen # None
            /\ \A u \in Target : u # t /\ locks[u] # None => locks[u].lease # call[p].seen.lease
  PROVE  LeaseInv'
  <1> DEFINE c == call[p]
             l == c.lease
  <1>1. c \in Call /\ Typed(c, commits) /\ Leased(c, leases, locks)
    BY RunningCall, Zenon DEF LeaseInv
  <1>2. l \in Lease /\ leases[l] # "unused" /\ \A u \in Target : locks[u] # None => locks[u].lease # l
    BY <1>1, Zenon DEF Typed, Call, Leased
  <1>3. Keyed(leases', locks')
    <2>1. Keyed(leases, locks)
      BY Zenon DEF LeaseInv
    <2>2. ASSUME NEW u \in Target, locks'[u] # None PROVE leases'[locks'[u].lease] # "unused"
      BY <1>2, <2>1, <2>2, Zenon DEF Keyed
    <2>3. ASSUME NEW u \in Target, NEW v \in Target, locks'[u] # None, locks'[v] # None,
                 locks'[u].lease = locks'[v].lease
          PROVE  u = v
      BY <1>2, <2>1, <2>3, Zenon DEF Keyed
    <2> QED BY <2>2, <2>3, Zenon DEF Keyed
  <1>4. ASSUME NEW q \in Proc \ {p}, call[q] # None PROVE Leased(call[q], leases', locks')
    <2>1. call[q] \in Call /\ Typed(call[q], commits) /\ Leased(call[q], leases, locks)
      BY <1>4, RunningCall, Zenon DEF LeaseInv
    <2>2. call[q].lease # l /\ (call[q].seen # None => call[q].seen.lease # l)
      BY <1>2, <1>4, KeyAssumption, Zenon DEF LeaseInv, Apart
    <2> QED BY <1>2, <2>1, <2>2, LeasedPut, Zenon
  <1>5. CASE End(p)
    BY <1>3, <1>4, <1>5, EndStep, LeaseStep, Zenon
  <1>6. ASSUME NEW pc \in {"giveup", "revoke old"}, Goto(p, pc),
               pc = "revoke old" =>
                 /\ c.seen # None
                 /\ \A u \in Target : u # t /\ locks[u] # None => locks[u].lease # c.seen.lease
        PROVE  LeaseInv'
    <2> DEFINE d == [c EXCEPT !.pc = pc]
    <2>1. /\ d.pc = pc /\ d.op = c.op /\ d.session = c.session
          /\ d.seen = c.seen /\ d.lease = c.lease
      BY <1>1, Zenon DEF Call
    <2>2. call' = [call EXCEPT ![p] = d]
      BY <1>6, GotoIsSet, Zenon
    <2> HIDE DEF d
    <2>3. ~Unput(d)
      BY <2>1, Zenon DEF Unput
    <2>4. Leased(d, leases', locks')
      BY <1>1, <1>2, <1>6, <2>1, <2>3, Zenon DEF Leased
    <2>5. ASSUME NEW q \in Proc \ {p}, call[q] # None
          PROVE  Apart(d, call[q]) /\ Apart(call[q], d)
      <3>1. Apart(c, call[q]) /\ Apart(call[q], c)
        BY <2>5, Zenon DEF LeaseInv
      <3> QED BY <2>1, <2>3, <3>1, Zenon DEF Apart
    <2> QED BY <1>3, <1>4, <2>2, <2>4, <2>5, LeaseStep, Zenon
  <1> QED BY <1>5, <1>6, Zenon

\* Deleting the lock key a call read leaves no key with that key's lease.
LEMMA DeletedLease ==
  ASSUME TypeInv, LeaseInv, NEW t \in Target, locks[t] # None,
         locks' = [locks EXCEPT ![t] = None]
  PROVE  /\ Fewer(locks, locks')
         /\ \A u \in Target : locks'[u] # None => locks'[u].lease # locks[t].lease
  <1>1. locks'[t] = None /\ \A u \in Target : u # t => locks'[u] = locks[u]
    BY DEF TypeInv, TypeOK
  <1> QED BY <1>1 DEF LeaseInv, Keyed, Fewer

\* Every request about locks keeps the leases in order.
LEMMA LockStepLeaseInv ==
  ASSUME TypeInv, LeaseInv, NEW p \in Proc, LockStep(p)
  PROVE  LeaseInv'
  <1> USE DEF LockOp
  <1>0. TypeOK /\ "giveup" \in Pc /\ "revoke old" \in Pc /\ "cas" \in Pc /\ "put" \in Pc
    BY DEF TypeInv, Pc
  <1>1. ASSUME NEW c \in Asking(p, "acquire"), AcquireGet(p, c) PROVE LeaseInv'
    <2> DEFINE seen == locks[c.target]
               pc == IF seen = None THEN "put"
                     ELSE IF leases[seen.lease] = "live" THEN "giveup" ELSE "revoke expired"
               new == [c EXCEPT !.seen = seen, !.lease = Fresh, !.pc = pc]
               extend == NewCall("extend", "get", c.session, c.target)
    <2>1. c \in Call /\ c.op = "acquire" /\ c.target \in Target
      BY AskingFacts DEF Call
    <2>2. CanGrant /\ UNCHANGED locks
      BY <1>1 DEF AcquireGet
    <2>3. CASE seen # None /\ seen.session = c.session
      <3>1. leases' = [leases EXCEPT ![Fresh] = "gone"] /\ call' = [call EXCEPT ![p] = extend]
        BY <1>1, <2>3 DEF AcquireGet, Set
      <3>2. Ages(leases, leases') /\ Fewer(locks, locks')
        BY <1>0, <2>2, <3>1, GrantAges, Zenon
      <3>3. extend.lease = None /\ extend.seen = None /\ extend.pc = "get"
        BY DEF NewCall
      <3> HIDE DEF extend
      <3> QED BY <3>1, <3>2, <3>3, LeaseNewCall
    <2>4. CASE ~(seen # None /\ seen.session = c.session)
      <3>1. leases' = [leases EXCEPT ![Fresh] = "live"] /\ call' = [call EXCEPT ![p] = new]
        BY <1>1, <2>4 DEF AcquireGet, Set
      <3>2. new.pc = pc /\ new.op = "acquire" /\ new.seen = seen /\ new.lease = Fresh
        BY <2>1 DEF Call
      <3>3. \/ pc \in {"put", "giveup"}
            \/ pc = "revoke expired" /\ seen # None /\ leases[seen.lease] # "live"
        OBVIOUS
      <3> HIDE DEF new, pc
      <3> QED BY <2>1, <2>2, <3>1, <3>2, <3>3, LeaseGrant, Zenon
    <2> QED BY <2>3, <2>4
  <1>2. CASE AcquireRevokeExpired(p)
    <2>1. At(p, "acquire", "revoke expired") /\ Goto(p, "cas") /\ call[p] # None
          /\ Revoke(call[p].seen.lease)
      BY <1>2, Zenon DEF AcquireRevokeExpired, At
    <2> QED BY <1>0, <2>1, RevokeAges, LeaseGoto, Zenon
  <1>3. CASE AcquireDelete(p)
    <2>1. call[p] # None /\ call[p] \in Call /\ Typed(call[p], commits) /\ At(p, "acquire", "cas")
          /\ UNCHANGED leases
      BY <1>3, RunningCall DEF AcquireDelete, At
    <2>2. Ages(leases, leases')
      BY <2>1 DEF Ages
    <2>3. CASE locks[call[p].target] = call[p].seen
      <3>1. locks' = [locks EXCEPT ![call[p].target] = None] /\ Goto(p, "put")
        BY <1>3, <2>3 DEF AcquireDelete
      <3>2. Fewer(locks, locks')
        BY <1>0, <3>1, Zenon DEF TypeOK, Fewer
      <3> QED BY <1>0, <2>1, <2>2, <3>1, <3>2, LeaseGoto, Zenon
    <2>4. CASE locks[call[p].target] # call[p].seen
      <3>1. UNCHANGED locks /\ Goto(p, "giveup")
        BY <1>3, <2>4 DEF AcquireDelete
      <3>2. Fewer(locks, locks')
        BY <3>1 DEF Fewer
      <3> QED BY <1>0, <2>1, <2>2, <3>1, <3>2, LeaseGoto, Zenon
    <2> QED BY <2>3, <2>4
  <1>4. CASE AcquirePut(p)
    <2>1. call[p] # None /\ call[p] \in Call /\ Unput(call[p]) /\ UNCHANGED leases
          /\ call[p].target \in Target
      BY <1>4, RunningCall, Zenon DEF AcquirePut, At, Unput, Call
    <2>2. CASE Known(call[p].lease) /\ locks[call[p].target] = None
      <3>1. /\ locks' = [locks EXCEPT ![call[p].target] =
                           [session |-> call[p].session, lease |-> call[p].lease]]
            /\ End(p) \/ Goto(p, "giveup")
        BY <1>4, <2>2 DEF AcquirePut
      <3>2. /\ locks'[call[p].target].lease = call[p].lease
            /\ locks'[call[p].target].session = call[p].session
            /\ \A u \in Target : u # call[p].target => locks'[u] = locks[u]
        BY <1>0, <2>1, <3>1, Zenon DEF TypeOK
      <3> QED BY <2>1, <3>1, <3>2, LeasePut, Zenon
    <2>3. CASE ~(Known(call[p].lease) /\ locks[call[p].target] = None)
      <3>1. UNCHANGED locks /\ Goto(p, "giveup")
        BY <1>4, <2>3 DEF AcquirePut
      <3>2. Ages(leases, leases') /\ Fewer(locks, locks')
        BY <2>1, <3>1 DEF Ages, Fewer
      <3> QED BY <1>0, <2>1, <3>1, <3>2, LeaseGoto, Zenon
    <2> QED BY <2>2, <2>3
  <1>5. CASE GiveUp(p)
    BY <1>0, <1>5, RevokeAges, LeaseEnd, Zenon DEF GiveUp
  <1>6. ASSUME NEW c \in Asking(p, "extend"), ExtendGet(p, c) PROVE LeaseInv'
    <2> DEFINE seen == locks[c.target]
               new == [c EXCEPT !.seen = seen, !.lease = Fresh, !.pc = "put"]
    <2>1. c \in Call /\ c.op = "extend" /\ c.target \in Target /\ UNCHANGED locks
      BY <1>6, AskingFacts DEF Call, ExtendGet
    <2>2. CASE seen # None /\ seen.session = c.session /\ leases[seen.lease] = "live"
      <3>1. /\ CanGrant /\ leases' = [leases EXCEPT ![Fresh] = "live"]
            /\ call' = [call EXCEPT ![p] = new]
        BY <1>6, <2>2 DEF ExtendGet, Set
      <3>2. new.pc = "put" /\ new.op = "extend" /\ new.seen = seen /\ new.lease = Fresh
        BY <2>1 DEF Call
      <3> HIDE DEF new
      <3> QED BY <2>1, <3>1, <3>2, LeaseGrant, Zenon
    <2>3. CASE ~(seen # None /\ seen.session = c.session /\ leases[seen.lease] = "live")
      <3>1. End(p) /\ UNCHANGED leases
        BY <1>6, <2>3 DEF ExtendGet
      <3> QED BY <1>0, <2>1, <3>1, RevokeAges, LeaseEnd, Zenon
    <2> QED BY <2>2, <2>3
  <1>7. CASE ExtendPut(p)
    <2>1. /\ call[p] # None /\ call[p] \in Call /\ Unput(call[p]) /\ UNCHANGED leases
          /\ call[p].target \in Target /\ call[p].seen # None
          /\ call[p].seen.session = call[p].session
      BY <1>7, RunningCall, Zenon DEF ExtendPut, At, Unput, Call, Typed
    <2>2. CASE Known(call[p].lease) /\ locks[call[p].target] = call[p].seen
      <3>1. /\ locks' = [locks EXCEPT ![call[p].target].lease = call[p].lease]
            /\ Goto(p, "revoke old") \/ Goto(p, "giveup")
        BY <1>7, <2>2, Zenon DEF ExtendPut
      <3>2. locks[call[p].target] \in LockValue
        BY <1>0, <2>1, <2>2, Zenon DEF TypeOK
      <3>3. /\ locks'[call[p].target].lease = call[p].lease
            /\ locks'[call[p].target].session = call[p].session
            /\ \A u \in Target : u # call[p].target => locks'[u] = locks[u]
        BY <1>0, <2>1, <2>2, <3>1, <3>2, Zenon DEF TypeOK, LockValue
      <3>4. \A u \in Target : u # call[p].target /\ locks[u] # None =>
              locks[u].lease # call[p].seen.lease
        BY <2>1, <2>2, Zenon DEF LeaseInv, Keyed
      <3> QED BY <2>1, <3>1, <3>3, <3>4, LeasePut, Zenon
    <2>3. CASE ~(Known(call[p].lease) /\ locks[call[p].target] = call[p].seen)
      <3>1. UNCHANGED locks /\ Goto(p, "giveup")
        BY <1>7, <2>3, Zenon DEF ExtendPut
      <3>2. Ages(leases, leases') /\ Fewer(locks, locks')
        BY <2>1, <3>1 DEF Ages, Fewer
      <3> QED BY <1>0, <2>1, <3>1, <3>2, LeaseGoto, Zenon
    <2> QED BY <2>2, <2>3
  <1>8. CASE RevokeOld(p)
    BY <1>0, <1>8, RevokeAges, LeaseEnd, Zenon DEF RevokeOld
  <1>9. ASSUME NEW c \in Asking(p, "release"), ReleaseGet(p, c) PROVE LeaseInv'
    <2> DEFINE seen == locks[c.target]
               new == [c EXCEPT !.seen = seen, !.pc = "cas"]
    <2>1. c \in Call /\ c.op = "release" /\ c.target \in Target /\ UNCHANGED <<leases, locks>>
      BY <1>9, AskingFacts DEF Call, ReleaseGet
    <2>2. CASE seen # None /\ seen.session = c.session
      <3>1. call' = [call EXCEPT ![p] = new]
        BY <1>9, <2>2 DEF ReleaseGet, Set
      <3>2. new.pc = "cas" /\ new.op = "release" /\ new.seen = seen /\ new.lease = c.lease
            /\ new.session = c.session
        BY <2>1 DEF Call
      <3> HIDE DEF new
      <3> QED BY <2>1, <2>2, <3>1, <3>2, AskingLeased, LeaseSeen
    <2>3. CASE ~(seen # None /\ seen.session = c.session)
      <3>1. End(p)
        BY <1>9, <2>3 DEF ReleaseGet
      <3> QED BY <1>0, <2>1, <3>1, RevokeAges, LeaseEnd, Zenon
    <2> QED BY <2>2, <2>3
  <1>10. ASSUME NEW c \in Asking(p, "steal"), StealGet(p, c) PROVE LeaseInv'
    <2> DEFINE seen == locks[c.target]
               new == [c EXCEPT !.seen = seen, !.pc = "cas"]
               acquire == NewCall("acquire", "get", c.session, c.target)
    <2>1. c \in Call /\ c.op = "steal" /\ c.target \in Target /\ UNCHANGED <<leases, locks>>
      BY <1>10, AskingFacts DEF Call, StealGet
    <2>2. Ages(leases, leases') /\ Fewer(locks, locks')
      BY <1>0, <2>1, RevokeAges, Zenon
    <2>3. CASE seen = None
      <3>1. call' = [call EXCEPT ![p] = acquire]
        BY <1>10, <2>3 DEF StealGet, Set
      <3>2. acquire.lease = None /\ acquire.seen = None /\ acquire.pc = "get"
        BY DEF NewCall
      <3> HIDE DEF acquire
      <3> QED BY <2>2, <3>1, <3>2, LeaseNewCall, Zenon
    <2>4. CASE seen # None /\ c.victim \in {None, seen.session}
      <3>1. call' = [call EXCEPT ![p] = new]
        BY <1>10, <2>4 DEF StealGet, Set
      <3>2. new.pc = "cas" /\ new.op = "steal" /\ new.seen = seen /\ new.lease = c.lease
            /\ new.session = c.session
        BY <2>1 DEF Call
      <3> HIDE DEF new
      <3> QED BY <2>1, <2>4, <3>1, <3>2, AskingLeased, LeaseSeen, Zenon
    <2>5. CASE ~(seen = None) /\ ~(seen # None /\ c.victim \in {None, seen.session})
      <3>1. End(p)
        BY <1>10, <2>5 DEF StealGet
      <3> QED BY <2>2, <3>1, LeaseEnd
    <2> QED BY <2>3, <2>4, <2>5
  <1>11. CASE ReleaseDelete(p) \/ StealDelete(p)
    <2>1. call[p] # None /\ call[p] \in Call /\ call[p].seen # None /\ call[p].target \in Target
          /\ DeleteSeen(p)
      BY <1>11, RunningCall, Zenon DEF ReleaseDelete, StealDelete, At, Call, Typed
    <2>2. UNCHANGED leases /\ Ages(leases, leases')
      BY <2>1, Zenon DEF DeleteSeen, Ages
    <2>3. CASE locks[call[p].target] = call[p].seen
      <3>1. locks' = [locks EXCEPT ![call[p].target] = None] /\ Goto(p, "revoke old")
        BY <2>1, <2>3, Zenon DEF DeleteSeen
      <3>2. /\ Fewer(locks, locks')
            /\ \A u \in Target : locks'[u] # None => locks'[u].lease # call[p].seen.lease
        BY <2>1, <2>3, <3>1, DeletedLease, Zenon
      <3> QED BY <1>0, <2>1, <2>2, <3>1, <3>2, LeaseGoto, Zenon
    <2>4. CASE locks[call[p].target] # call[p].seen
      <3>1. UNCHANGED locks /\ End(p)
        BY <2>1, <2>4 DEF DeleteSeen
      <3>2. Fewer(locks, locks')
        BY <3>1 DEF Fewer
      <3> QED BY <2>2, <3>1, <3>2, LeaseEnd
    <2> QED BY <2>3, <2>4
  <1>12. CASE StealAcquire(p)
    <2> DEFINE acquire == NewCall("acquire", "get", call[p].session, call[p].target)
    <2>1. call' = [call EXCEPT ![p] = acquire] /\ Revoke(call[p].seen.lease)
      BY <1>12, Zenon DEF StealAcquire, Set
    <2>2. acquire.lease = None /\ acquire.seen = None /\ acquire.pc = "get"
      BY DEF NewCall
    <2> HIDE DEF acquire
    <2> QED BY <1>0, <2>1, <2>2, RevokeAges, LeaseNewCall, Zenon
  <1> QED
    BY <1>1, <1>2, <1>3, <1>4, <1>5, <1>6, <1>7, <1>8, <1>9, <1>10, <1>11, <1>12 DEF LockStep

\* A step of a call that keeps its session, the lease it has and the key it
\* read, and is not about leases.
LEMMA LeaseSame ==
  ASSUME TypeInv, LeaseInv, NEW p \in Proc, call[p] # None, NEW d, call' = [call EXCEPT ![p] = d],
         UNCHANGED <<leases, locks>>,
         d.session = call[p].session, d.lease = call[p].lease, d.seen = call[p].seen,
         d.pc \in {"done", "flush", "giveup"}
  PROVE  LeaseInv'
  <1>1. Leased(call[p], leases, locks)
    BY DEF LeaseInv
  <1>2. ~Unput(d)
    BY Zenon DEF Unput
  <1>3. Leased(d, leases, locks)
    BY <1>1, <1>2, Zenon DEF Leased
  <1>4. ASSUME NEW q \in Proc \ {p}, call[q] # None
        PROVE  Apart(d, call[q]) /\ Apart(call[q], d)
    <2>1. Apart(call[p], call[q]) /\ Apart(call[q], call[p])
      BY <1>4 DEF LeaseInv
    <2> QED BY <1>2, <2>1 DEF Apart
  <1>5. Ages(leases, leases') /\ Fewer(locks, locks')
    BY RevokeAges DEF TypeInv
  <1> QED BY <1>3, <1>4, <1>5, LeaseAgeStep, Zenon

\* A transaction of Commit or Rollback that finds its lock deletes it.
LEMMA LeaseRecord ==
  ASSUME TypeInv, LeaseInv, NEW p \in Proc, call[p] # None, UNCHANGED leases,
         locks["candidate"] = call[p].seen, call[p].seen # None,
         locks' = [locks EXCEPT !["candidate"] = None], Goto(p, "revoke old")
  PROVE  LeaseInv'
  <1>1. Ages(leases, leases') /\ "revoke old" \in Pc
    BY Zenon DEF Ages, Pc
  <1>2. /\ Fewer(locks, locks')
        /\ \A u \in Target : locks'[u] # None => locks'[u].lease # call[p].seen.lease
    BY TargetAssumption, DeletedLease, Zenon
  <1> QED BY <1>1, <1>2, LeaseGoto, Zenon

\* Every other request keeps the leases in order.
LEMMA StoreStepLeaseInv ==
  ASSUME TypeInv, LeaseInv, NEW p \in Proc, StoreStep(p)
  PROVE  LeaseInv'
  <1>0. TypeOK
    BY DEF TypeInv
  <1>1. CASE CommitLock(p) \/ RollbackLock(p)
    <2> DEFINE seen == locks["candidate"]
               new == [call[p] EXCEPT !.seen = seen, !.pc = "txn"]
    <2>1. call[p] # None /\ call[p] \in Call /\ VerifyLock(p) /\ UNCHANGED <<leases, locks>>
      BY <1>1, RunningCall DEF CommitLock, RollbackLock, At, VerifyLock
    <2>2. CASE seen # None /\ seen.session = call[p].session /\ leases[seen.lease] = "live"
      <3>1. call' = [call EXCEPT ![p] = new]
        BY <2>1, <2>2 DEF VerifyLock, Set
      <3>2. new.pc = "txn" /\ new.seen = seen /\ new.lease = call[p].lease
            /\ new.session = call[p].session
        BY <2>1 DEF Call
      <3>3. /\ Leased(call[p], leases, locks)
            /\ \A q \in Proc \ {p} :
                 call[q] # None => Apart(call[p], call[q]) /\ Apart(call[q], call[p])
        BY <2>1 DEF LeaseInv
      <3> HIDE DEF new
      <3> QED BY <2>1, <2>2, <3>1, <3>2, <3>3, TargetAssumption, LeaseSeen, Zenon
    <2>3. CASE ~(seen # None /\ seen.session = call[p].session /\ leases[seen.lease] = "live")
      <3>1. End(p)
        BY <2>1, <2>3 DEF VerifyLock
      <3> QED BY <1>0, <2>1, <3>1, RevokeAges, LeaseEnd
    <2> QED BY <2>2, <2>3
  <1>2. CASE CommitTxn(p)
    <2>1. call[p] # None /\ call[p].seen # None /\ UNCHANGED leases
      BY <1>2, RunningCall, Zenon DEF CommitTxn, At, Typed
    <2>2. CASE locks["candidate"] = call[p].seen /\ candidates[call[p].session] = call[p].cand
      <3>1. locks' = [locks EXCEPT !["candidate"] = None] /\ Goto(p, "revoke old")
        BY <1>2, <2>2, Zenon DEF CommitTxn, Record
      <3> QED BY <2>1, <2>2, <3>1, LeaseRecord, Zenon
    <2>3. CASE ~(locks["candidate"] = call[p].seen /\ candidates[call[p].session] = call[p].cand)
      <3>1. End(p) /\ UNCHANGED locks
        BY <1>2, <2>3, Zenon DEF CommitTxn
      <3> QED BY <1>0, <2>1, <3>1, RevokeAges, LeaseEnd
    <2> QED BY <2>2, <2>3
  <1>3. CASE RollbackTxn(p)
    <2>1. call[p] # None /\ call[p].seen # None /\ UNCHANGED leases
      BY <1>3, RunningCall, Zenon DEF RollbackTxn, At, Typed
    <2>2. CASE locks["candidate"] = call[p].seen
      <3>1. locks' = [locks EXCEPT !["candidate"] = None] /\ Goto(p, "revoke old")
        BY <1>3, <2>2, Zenon DEF RollbackTxn, Record
      <3> QED BY <2>1, <2>2, <3>1, LeaseRecord, Zenon
    <2>3. CASE locks["candidate"] # call[p].seen
      <3>1. End(p) /\ UNCHANGED locks
        BY <1>3, <2>3, Zenon DEF RollbackTxn
      <3> QED BY <1>0, <2>1, <3>1, RevokeAges, LeaseEnd
    <2> QED BY <2>2, <2>3
  <1>4. CASE GetRunning(p)
    <2> DEFINE new == [NewCall("read", "config", None, "candidate") EXCEPT !.at = Len(commits)]
    <2>1. call' = [call EXCEPT ![p] = new] /\ UNCHANGED <<leases, locks>>
      BY <1>4 DEF GetRunning, Set
    <2>2. new.lease = None /\ new.seen = None /\ new.pc = "config"
      BY DEF NewCall
    <2> HIDE DEF new
    <2> QED BY <1>0, <2>1, <2>2, RevokeAges, LeaseNewCall, Zenon
  <1>5. CASE GetRunningConfig(p)
    <2> DEFINE new == [call[p] EXCEPT !.text = commits[call[p].at], !.pc = "done"]
    <2>1. call[p] # None /\ call[p] \in Call
      BY <1>5, RunningCall DEF GetRunningConfig, At
    <2>2. call' = [call EXCEPT ![p] = new] /\ UNCHANGED <<leases, locks>>
      BY <1>5 DEF GetRunningConfig, Set
    <2>3. new.session = call[p].session /\ new.lease = call[p].lease /\ new.seen = call[p].seen
          /\ new.pc = "done"
      BY <2>1 DEF Call
    <2> HIDE DEF new
    <2> QED BY <2>1, <2>2, <2>3, LeaseSame, Zenon
  <1>6. CASE GetRunningReturn(p)
    BY <1>0, <1>6, RevokeAges, LeaseEnd DEF GetRunningReturn
  <1>7. CASE Open(p)
    <2>1. UNCHANGED <<leases, locks>>
      BY <1>7 DEF Open
    <2>2. CASE version
      <3>1. UNCHANGED call
        BY <1>7, <2>2 DEF Open
      <3> QED BY <2>1, <3>1 DEF LeaseInv
    <2>3. CASE ~version
      <3> DEFINE new == [NewCall("open", "flush", None, "candidate") EXCEPT !.todo = 1 .. Len(commits)]
      <3>1. call' = [call EXCEPT ![p] = new]
        BY <1>7, <2>3 DEF Open, Set
      <3>2. new.lease = None /\ new.seen = None /\ new.pc = "flush"
        BY DEF NewCall
      <3> HIDE DEF new
      <3> QED BY <1>0, <2>1, <3>1, <3>2, RevokeAges, LeaseNewCall, Zenon
    <2> QED BY <2>2, <2>3
  <1>8. CASE ensureCommitHistoryIndex(p)
    <2>1. call[p] # None /\ call[p] \in Call /\ call[p].pc = "flush" /\ UNCHANGED <<leases, locks>>
      BY <1>8, RunningCall DEF ensureCommitHistoryIndex, At
    <2>2. End(p) \/ \E b : call' = [call EXCEPT ![p] = [call[p] EXCEPT !.todo = call[p].todo \ b]]
      BY <1>8, Zenon DEF ensureCommitHistoryIndex, Set
    <2>3. CASE End(p)
      BY <1>0, <2>1, <2>3, RevokeAges, LeaseEnd
    <2>4. ASSUME NEW b, call' = [call EXCEPT ![p] = [call[p] EXCEPT !.todo = call[p].todo \ b]]
          PROVE  LeaseInv'
      <3> DEFINE new == [call[p] EXCEPT !.todo = call[p].todo \ b]
      <3>1. new.session = call[p].session /\ new.lease = call[p].lease /\ new.seen = call[p].seen
            /\ new.pc = "flush"
        BY <2>1 DEF Call
      <3>2. call' = [call EXCEPT ![p] = new]
        BY <2>4
      <3> HIDE DEF new
      <3> QED BY <2>1, <3>1, <3>2, LeaseSame, Zenon
    <2> QED BY <2>2, <2>3, <2>4
  <1> QED BY <1>1, <1>2, <1>3, <1>4, <1>5, <1>6, <1>7, <1>8 DEF StoreStep

LEMMA RequestLeaseInv ==
  ASSUME TypeInv, LeaseInv, NEW p \in Proc, Request(p)
  PROVE  LeaseInv'
  <1>0. TypeOK
    BY DEF TypeInv
  <1>1. ASSUME NEW s \in Session, NEW x \in Text, SaveCandidate(p, s, x) PROVE LeaseInv'
    BY <1>1 DEF SaveCandidate, LeaseInv
  <1>2. ASSUME NEW s \in Session, DeleteCandidate(p, s) PROVE LeaseInv'
    BY <1>2 DEF DeleteCandidate, LeaseInv
  <1>3. ASSUME NEW s \in Session, CommitCall(p, s) PROVE LeaseInv'
    <2> DEFINE new == [NewCall("commit", "lock", s, "candidate") EXCEPT !.cand = candidates[s]]
    <2>1. call' = [call EXCEPT ![p] = new] /\ UNCHANGED <<leases, locks>>
      BY <1>3 DEF CommitCall, Set
    <2>2. new.lease = None /\ new.seen = None /\ new.pc = "lock"
      BY DEF NewCall
    <2> HIDE DEF new
    <2> QED BY <1>0, <2>1, <2>2, RevokeAges, LeaseNewCall, Zenon
  <1>4. ASSUME NEW s \in Session, NEW i \in 1 .. Len(commits), RollbackCall(p, s, i) PROVE LeaseInv'
    <2> DEFINE new == [NewCall("rollback", "lock", s, "candidate") EXCEPT !.text = commits[i]]
    <2>1. call' = [call EXCEPT ![p] = new] /\ UNCHANGED <<leases, locks>>
      BY <1>4 DEF RollbackCall, Set
    <2>2. new.lease = None /\ new.seen = None /\ new.pc = "lock"
      BY DEF NewCall
    <2> HIDE DEF new
    <2> QED BY <1>0, <2>1, <2>2, RevokeAges, LeaseNewCall, Zenon
  <1> QED BY <1>1, <1>2, <1>3, <1>4 DEF Request

\* Failures, crashes and leases that run out keep the leases in order.
LEMMA FaultLeaseInv ==
  ASSUME TypeInv, LeaseInv,
         \/ \E p \in Proc : Fail(p) \/ Crash(p)
         \/ \E l \in Lease : Lapse(l) \/ Expire(l)
  PROVE  LeaseInv'
  <1>0. TypeOK /\ "giveup" \in Pc
    BY DEF TypeInv, Pc
  <1>1. ASSUME NEW p \in Proc, Fail(p) PROVE LeaseInv'
    <2>1. call[p] # None /\ UNCHANGED <<leases, locks>> /\ (End(p) \/ Goto(p, "giveup"))
      BY <1>1, Zenon DEF Fail
    <2> QED BY <1>0, <2>1, RevokeAges, LeaseEnd, LeaseGoto, Zenon
  <1>2. ASSUME NEW p \in Proc, Crash(p) PROVE LeaseInv'
    BY <1>0, <1>2, RevokeAges, LeaseEnd DEF Crash
  <1>3. ASSUME NEW l \in Lease, Lapse(l) \/ Expire(l) PROVE LeaseInv'
    <2>1. Ages(leases, leases') /\ Fewer(locks, locks') /\ UNCHANGED call
      <3>1. CASE Lapse(l)
        BY <1>0, <3>1 DEF Lapse, TypeOK, Ages, Fewer
      <3>2. CASE Expire(l)
        BY <1>0, <3>2, RevokeAges DEF Expire
      <3> QED BY <1>3, <3>1, <3>2
    <2>2. locks \in Keys
      BY <1>0 DEF TypeOK, Keys
    <2>3. Keyed(leases', locks')
      BY <2>1, <2>2, KeyedAges DEF LeaseInv
    <2>4. ASSUME NEW p \in Proc, call'[p] # None PROVE Leased(call'[p], leases', locks')
      <3>1. call'[p] = call[p] /\ call[p] # None
        BY <2>1, <2>4
      <3>2. call[p] \in Call /\ Typed(call[p], commits) /\ Leased(call[p], leases, locks)
        BY <3>1, RunningCall DEF LeaseInv
      <3>3. Leased(call[p], leases', locks')
        BY <2>1, <2>2, <3>2, LeasedAges
      <3> QED BY <3>1, <3>3
    <2> QED BY <2>1, <2>3, <2>4 DEF LeaseInv
  <1> QED BY <1>1, <1>2, <1>3

LEMMA NextLeaseInv == TypeInv /\ LeaseInv /\ [Next]_vars => LeaseInv'
  <1> SUFFICES ASSUME TypeInv, LeaseInv, [Next]_vars PROVE LeaseInv'
    OBVIOUS
  <1>1. CASE Next
    BY <1>1, LockStepLeaseInv, StoreStepLeaseInv, RequestLeaseInv, FaultLeaseInv DEF Next
  <1>2. CASE UNCHANGED vars
    BY <1>2 DEF vars, LeaseInv
  <1> QED BY <1>1, <1>2

LEMMA EtcdLeaseInv == Spec => [](TypeInv /\ LeaseInv)
  <1>1. Init => TypeInv /\ LeaseInv
    <2>1. Init => LeaseInv
      BY DEF Init, LeaseInv, Keyed
    <2> QED BY <2>1, InitTypeInv
  <1> QED BY <1>1, NextTypeInv, NextLeaseInv, PTL DEF Spec

-----------------------------------------------------------------------------
(***************************************************************************)
(* A live lock is kept.                                                    *)
(***************************************************************************)
\* What LiveLockKept says of one step and one lock key.
Kept(t) ==
  locks[t] # None /\ leases[locks[t].lease] = "live" =>
    \/ locks'[t] # None /\ locks'[t].session = locks[t].session
    \/ locks'[t] = None /\ \E p \in Proc : MayEnd(p, locks[t].session) /\ call'[p] # call[p]

\* Revoking a lease deletes the keys that have it, and no others.
LEMMA RevokedKey ==
  ASSUME TypeOK, NEW l, DropLease(l) \/ Revoke(l), NEW t \in Target, locks[t] # None
  PROVE  locks'[t] = locks[t] \/ (locks[t].lease = l /\ locks'[t] = None)
  BY DEF TypeOK, DropLease, Revoke

\* A call that goes on or returns is no longer what it was.
LEMMA CallMoves ==
  ASSUME TypeInv, NEW p \in Proc, call[p] # None, NEW pc,
         End(p) \/ (Goto(p, pc) /\ pc # call[p].pc)
  PROVE  call'[p] # call[p]
  <1>1. call[p] \in Call /\ call \in [Proc -> Call \cup {None}]
    BY RunningCall DEF TypeInv, TypeOK
  <1>2. CASE End(p)
    BY <1>1, <1>2 DEF End
  <1>3. CASE Goto(p, pc) /\ pc # call[p].pc
    <2>1. call'[p] = [call[p] EXCEPT !.pc = pc]
      BY <1>1, <1>3, GotoIsSet
    <2>2. [call[p] EXCEPT !.pc = pc].pc = pc
      BY <1>1 DEF Call
    <2> QED BY <1>3, <2>1, <2>2, Zenon
  <1> QED BY <1>2, <1>3

\* Every request about locks keeps a live lock.
LEMMA LockStepKeeps ==
  ASSUME TypeInv, LeaseInv, NEW p \in Proc, LockStep(p), NEW t \in Target
  PROVE  Kept(t)
  <1> SUFFICES ASSUME locks[t] # None, leases[locks[t].lease] = "live"
               PROVE  \/ locks'[t] # None /\ locks'[t].session = locks[t].session
                      \/ /\ locks'[t] = None
                         /\ \E q \in Proc : MayEnd(q, locks[t].session) /\ call'[q] # call[q]
    BY Zenon DEF Kept
  <1>0. /\ TypeOK /\ locks[t] \in LockValue /\ locks \in [Target -> LockValue \cup {None}]
        /\ call[p] # None => Typed(call[p], commits) /\ Leased(call[p], leases, locks)
                             /\ call[p] \in Call
    BY RunningCall DEF TypeInv, TypeOK, LeaseInv
  <1>1. CASE UNCHANGED locks
    BY <1>1
  <1>2. CASE AcquireRevokeExpired(p)
    <2>1. call[p] # None /\ Revoke(call[p].seen.lease) /\ leases[call[p].seen.lease] # "live"
      BY <1>0, <1>2, Zenon DEF AcquireRevokeExpired, At, Leased
    <2> QED BY <1>0, <2>1, RevokedKey, Zenon
  <1>3. CASE AcquireDelete(p)
    <2>1. call[p] # None /\ leases[call[p].seen.lease] # "live"
      BY <1>0, <1>3, Zenon DEF AcquireDelete, At, Leased
    <2>2. locks' = locks \/ (locks[call[p].target] = call[p].seen
                             /\ locks' = [locks EXCEPT ![call[p].target] = None])
      BY <1>3 DEF AcquireDelete
    <2>3. locks[call[p].target] = call[p].seen => t # call[p].target
      BY <2>1, Zenon
    <2> QED BY <1>0, <2>2, <2>3, Zenon
  <1>4. CASE AcquirePut(p)
    BY <1>0, <1>4, Zenon DEF AcquirePut
  <1>5. CASE GiveUp(p)
    <2>1. call[p] # None /\ call[p].pc = "giveup" /\ Revoke(call[p].lease) /\ End(p)
      BY <1>5, Zenon DEF GiveUp
    <2>2. locks'[t] = locks[t] \/ (locks[t].lease = call[p].lease /\ locks'[t] = None)
      BY <1>0, <2>1, RevokedKey, Zenon
    <2>3. CASE locks[t].lease = call[p].lease /\ locks'[t] = None
      <3>1. locks[t].session = call[p].session
        BY <1>0, <2>1, <2>3, Zenon DEF Typed, Leased
      <3>2. MayEnd(p, locks[t].session)
        BY <2>1, <3>1, Zenon DEF MayEnd
      <3> QED BY <2>1, <2>3, <3>2, CallMoves, Zenon
    <2> QED BY <2>2, <2>3, Zenon
  <1>6. CASE ExtendPut(p)
    <2>1. call[p] # None /\ call[p].target \in Target
      BY <1>0, <1>6, Zenon DEF ExtendPut, At, Call
    <2>2. locks' = locks \/ locks' = [locks EXCEPT ![call[p].target].lease = call[p].lease]
      BY <1>6, Zenon DEF ExtendPut
    <2>3. CASE locks' = [locks EXCEPT ![call[p].target].lease = call[p].lease]
      <3>1. t # call[p].target => locks'[t] = locks[t]
        BY <1>0, <2>3
      <3>2. t = call[p].target => locks'[t] = [locks[t] EXCEPT !.lease = call[p].lease]
        BY <1>0, <2>3
      <3>3. /\ [locks[t] EXCEPT !.lease = call[p].lease].session = locks[t].session
            /\ [locks[t] EXCEPT !.lease = call[p].lease] \in [session : Session, lease : Lease \cup {None}]
        BY <1>0, <2>1 DEF LockValue, Call
      <3>4. [locks[t] EXCEPT !.lease = call[p].lease] # None
        <4>1. CASE call[p].lease \in Lease
          BY <1>0, <4>1, KeyAssumption DEF LockValue
        <4>2. call[p].lease # None
          BY <1>0, <1>6, <2>1, Zenon DEF Typed, Unput, ExtendPut, At
        <4> QED BY <1>0, <2>1, <4>1, <4>2 DEF Call
      <3> QED BY <3>1, <3>2, <3>3, <3>4
    <2> QED BY <2>2, <2>3
  <1>7. CASE RevokeOld(p) \/ StealAcquire(p)
    <2>1. call[p] # None /\ call[p].pc = "revoke old" /\ Revoke(call[p].seen.lease)
      BY <1>7, Zenon DEF RevokeOld, StealAcquire, At
    <2>2. locks[t].lease # call[p].seen.lease
      BY <1>0, <2>1, Zenon DEF Leased
    <2> QED BY <1>0, <2>1, <2>2, RevokedKey, Zenon
  <1>8. CASE ReleaseDelete(p) \/ StealDelete(p)
    <2>1. call[p] # None /\ call[p].pc = "cas" /\ call[p].op \in {"release", "steal"} /\ DeleteSeen(p)
      BY <1>8 DEF ReleaseDelete, StealDelete, At
    <2>2. \/ UNCHANGED locks
          \/ /\ locks[call[p].target] = call[p].seen
             /\ locks' = [locks EXCEPT ![call[p].target] = None]
             /\ Goto(p, "revoke old")
      BY <2>1, Zenon DEF DeleteSeen
    <2>3. CASE /\ locks[call[p].target] = call[p].seen
               /\ locks' = [locks EXCEPT ![call[p].target] = None]
               /\ Goto(p, "revoke old")
      <3>1. CASE t = call[p].target
        <4>1. MayEnd(p, locks[t].session)
          BY <1>0, <2>1, <2>3, <3>1, Zenon DEF MayEnd, At, Typed
        <4>2. Goto(p, "revoke old") /\ call[p].pc # "revoke old"
          BY <2>1, <2>3, Zenon
        <4>3. call'[p] # call[p]
          BY <2>1, <4>2, CallMoves, Zenon
        <4> QED BY <1>0, <2>3, <3>1, <4>1, <4>3, Zenon
      <3>2. CASE t # call[p].target
        BY <1>0, <2>3, <3>2, Zenon
      <3> QED BY <3>1, <3>2
    <2> QED BY <2>2, <2>3, Zenon
  <1>9. \/ UNCHANGED locks
        \/ AcquireRevokeExpired(p) \/ AcquireDelete(p) \/ AcquirePut(p) \/ GiveUp(p) \/ ExtendPut(p)
        \/ RevokeOld(p) \/ StealAcquire(p) \/ ReleaseDelete(p) \/ StealDelete(p)
    BY Zenon DEF LockStep, AcquireGet, ExtendGet, ReleaseGet, StealGet
  <1> QED BY <1>1, <1>2, <1>3, <1>4, <1>5, <1>6, <1>7, <1>8, <1>9, Zenon

\* So do the transactions of Commit and Rollback: their session owns the lock.
LEMMA StoreStepKeeps ==
  ASSUME TypeInv, NEW p \in Proc, StoreStep(p), NEW t \in Target
  PROVE  Kept(t)
  <1>1. CASE UNCHANGED locks
    BY <1>1 DEF Kept
  <1>2. CASE CommitTxn(p) \/ RollbackTxn(p)
    <2>1. /\ call[p] # None /\ call[p].op \in {"commit", "rollback"} /\ call[p].pc = "txn"
          /\ Typed(call[p], commits)
      BY <1>2, RunningCall, Zenon DEF CommitTxn, RollbackTxn, At
    <2>2. \/ UNCHANGED locks
          \/ /\ locks["candidate"] = call[p].seen
             /\ locks' = [locks EXCEPT !["candidate"] = None]
             /\ Goto(p, "revoke old")
      BY <1>2, Zenon DEF CommitTxn, RollbackTxn, Record
    <2>3. CASE /\ locks["candidate"] = call[p].seen
               /\ locks' = [locks EXCEPT !["candidate"] = None]
               /\ Goto(p, "revoke old")
      <3>1. locks["candidate"].session = call[p].session
        BY <2>1, <2>3, Zenon DEF Typed
      <3>2. MayEnd(p, locks["candidate"].session)
        BY <2>1, <3>1, Zenon DEF MayEnd
      <3>3. Goto(p, "revoke old") /\ call[p].pc # "revoke old"
        BY <2>1, <2>3, Zenon
      <3>4. call'[p] # call[p]
        BY <2>1, <3>3, CallMoves, Zenon
      <3>5. locks'["candidate"] = None /\ (t # "candidate" => locks'[t] = locks[t])
        BY <2>3, TargetAssumption, Zenon DEF TypeInv, TypeOK
      <3> QED BY <3>2, <3>4, <3>5 DEF Kept
    <2> QED BY <1>1, <2>2, <2>3, Zenon
  <1>3. UNCHANGED locks \/ CommitTxn(p) \/ RollbackTxn(p)
    BY DEF StoreStep, CommitLock, RollbackLock, VerifyLock, GetRunning, GetRunningConfig,
           GetRunningReturn, Open, ensureCommitHistoryIndex
  <1> QED BY <1>1, <1>2, <1>3

\* A lock whose lease is alive stays with its session until that session gives
\* it up or somebody steals it: no Revoke of AcquireLock, ExtendLock, ReleaseLock
\* or StealLock, and no key that AcquireLock finds expired, takes another
\* session's live lock, however the requests of the calls interleave.
THEOREM EtcdLiveLockKept == Spec => LiveLockKept
  <1>1. ASSUME TypeInv, LeaseInv, [Next]_vars, NEW t \in Target PROVE Kept(t)
    <2>1. ASSUME NEW l \in Lease, Lapse(l) \/ Expire(l) PROVE Kept(t)
      <3>1. CASE Lapse(l)
        BY <3>1 DEF Lapse, Kept
      <3>2. CASE Expire(l)
        <4>1. leases[l] = "lapsing" /\ DropLease(l) /\ TypeOK
          BY <1>1, <3>2 DEF Expire, TypeInv
        <4>2. locks[t] # None /\ locks[t].lease # l => locks'[t] = locks[t]
          BY <4>1, RevokedKey
        <4> QED BY <4>1, <4>2 DEF Kept
      <3> QED BY <2>1, <3>1, <3>2
    <2>2. ASSUME NEW p \in Proc, Request(p) \/ Fail(p) \/ Crash(p) PROVE Kept(t)
      <3>1. UNCHANGED locks
        BY <2>2, Zenon DEF Request, SaveCandidate, DeleteCandidate, CommitCall, RollbackCall, Fail, Crash
      <3> QED BY <3>1 DEF Kept
    <2>3. CASE UNCHANGED vars
      BY <2>3 DEF vars, Kept
    <2> QED BY <1>1, <2>1, <2>2, <2>3, LockStepKeeps, StoreStepKeeps DEF Next
  <1>2. TypeInv /\ LeaseInv /\ [Next]_vars => [\A t \in Target : Kept(t)]_vars
    BY <1>1
  <1> QED BY <1>2, EtcdLeaseInv, PTL DEF Spec, LiveLockKept, Kept

=============================================================================
