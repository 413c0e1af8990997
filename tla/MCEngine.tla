------------------------------- MODULE MCEngine -------------------------------
(* Two callers, two plugins, and three configurations of which ComputeDiff *)
(* cannot tell the last two apart.                                         *)
EXTENDS Engine

MCConfig == {"empty", "a", "b", "b2"}
MCDigest(c) == IF c = "b2" THEN "b" ELSE c

=============================================================================
