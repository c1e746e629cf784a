---------------------------- MODULE MCMailOutbox ----------------------------
(* Instances of MailOutbox small enough to be checked exhaustively. *)
EXTENDS MailOutbox, TLC

CONSTANTS s1, s2, c1, c2

Symmetry == Permutations(Servers) \cup Permutations(Callers)
=============================================================================
