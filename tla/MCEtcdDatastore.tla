--------------------------- MODULE MCEtcdDatastore ---------------------------
(* Interchangeable goroutines, sessions and texts; the store has two        *)
(* commits made before the history index existed.                         *)
EXTENDS EtcdDatastore, TLC

MCPast == {h \in [1 .. 2 -> Text] : h[1] = h[2]}

Symmetry == Permutations(Proc) \cup Permutations(Session) \cup Permutations(Text)

=============================================================================
