----------------------------- MODULE MCUserJobs -----------------------------
(* Instances of UserJobs for TLC. *)
EXTENDS UserJobs, TLC

CONSTANTS ann, bob, p1, p2, p3

OnlyAnn    == {ann}
AllAnn     == [j \in Jobs |-> ann]
AnnThenBob == [j \in Jobs |-> IF j = 1 THEN ann ELSE bob]
TwoProcs   == {p1, p2}
ThreeProcs == {p1, p2, p3}

\* Process identifiers are interchangeable.
ProcSymmetry == Permutations(Procs)
=============================================================================
