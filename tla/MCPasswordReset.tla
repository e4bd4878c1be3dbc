-------------------------- MODULE MCPasswordReset --------------------------
(* Instances of PasswordReset for TLC: a period is the four hours a token *)
(* lives.                                                                *)
EXTENDS PasswordReset, TLC

CONSTANTS t1, t2, h1, h2

Symmetry == Permutations({h1, h2}) \cup Permutations({t1, t2})
=============================================================================
