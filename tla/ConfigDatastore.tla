--------------------------- MODULE ConfigDatastore ---------------------------
(***************************************************************************)
(* What the configuration datastore (the Datastore interface of            *)
(* pkg/datastore/schema.go) promises its callers, whichever backend stores *)
(* the data: one holder of the candidate lock, one private candidate text  *)
(* per session, and an append-only log of committed texts whose last entry *)
(* is the running configuration.  The log grows only when the lock holder  *)
(* promotes its own candidate or restores an earlier entry, and that step  *)
(* gives the lock up.                                                      *)
(*                                                                         *)
(* Time, leases and the two-phase life of a call are the backends' affair: *)
(* SqliteDatastore and EtcdDatastore are shown to implement this module.   *)
(***************************************************************************)
EXTENDS Naturals, Sequences

CONSTANTS
  Session,  \* session identifiers
  Text,     \* configuration texts
  None      \* no row, no key, no holder

VARIABLES
  holder,     \* the session named by the candidate lock, or None
  candidate,  \* candidate[s]: the text session s is editing, or None
  log         \* the committed texts, oldest first

vars == <<holder, candidate, log>>

Running == IF log = << >> THEN None ELSE log[Len(log)]

Init ==
  /\ holder = None
  /\ candidate = [s \in Session |-> None]
  /\ log \in Seq(Text)  \* a store may have a past

\* The lock passes to s: it was free, it had expired, or it was stolen.
Take(s) ==
  /\ holder' = s
  /\ UNCHANGED <<candidate, log>>

\* The lock is given up, or lapses.
Drop ==
  /\ holder' = None
  /\ UNCHANGED <<candidate, log>>

Edit(s) ==
  /\ \E x \in Text \cup {None} : candidate' = [candidate EXCEPT ![s] = x]
  /\ UNCHANGED <<holder, log>>

\* The holder's candidate becomes the running configuration.
Promote(s) ==
  /\ holder = s
  /\ candidate[s] # None
  /\ log' = Append(log, candidate[s])
  /\ candidate' = [candidate EXCEPT ![s] = None]
  /\ holder' = None

\* The holder makes an earlier commit the running configuration again.
Restore(s) ==
  /\ holder = s
  /\ \E i \in 1 .. Len(log) : log' = Append(log, log[i])
  /\ holder' = None
  /\ UNCHANGED candidate

\* Locks and candidates do not outlive the process; commits do.
Forget ==
  /\ holder' = None
  /\ candidate' = [s \in Session |-> None]
  /\ UNCHANGED log

Next ==
  \/ \E s \in Session : Take(s) \/ Edit(s) \/ Promote(s) \/ Restore(s)
  \/ Drop
  \/ Forget

Spec == Init /\ [][Next]_vars

=============================================================================
