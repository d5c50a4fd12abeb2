---------------------------- MODULE MCReminders ----------------------------
(* Instances of Reminders for TLC. *)
EXTENDS Reminders, TLC

CONSTANTS t1, t2, a1, p1, p2

\* Process identifiers are interchangeable.
Symmetry == Permutations(Procs)
=============================================================================
