--------------------------- MODULE MCGrpcSessions ---------------------------
(* GrpcSessions for TLC. *)
EXTENDS GrpcSessions, TLC

\* Sound where only invariants are checked.
SessionsAndThreads == Permutations(Session) \cup Permutations(Thread)

=============================================================================
