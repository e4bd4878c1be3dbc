----------------------------- MODULE MCSessions -----------------------------
(* Instances of Sessions for TLC: a period is a quarter of RememberMeTTL. *)
EXTENDS Sessions, TLC

CONSTANTS s1, s2, r1, r2

Symmetry == Permutations({r1, r2})
=============================================================================
