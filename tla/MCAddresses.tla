---------------------------- MODULE MCAddresses ----------------------------
(* Instances of Addresses for TLC. *)
EXTENDS Addresses, TLC

CONSTANTS a1, a2, a3, t1, t2

\* Two shipping addresses and a billing address.
MCTypeOf == [a \in AddressIds |-> IF a = a3 THEN "billing" ELSE "shipping"]

Symmetry == Permutations({a1, a2}) \cup Permutations({t1, t2})
=============================================================================
