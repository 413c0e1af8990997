-------------------------- MODULE MCSqliteDatastore --------------------------
(* Two interchangeable sessions and two interchangeable texts.             *)
EXTENDS SqliteDatastore, TLC

Symmetry == Permutations(Session) \cup Permutations(Text)

=============================================================================
