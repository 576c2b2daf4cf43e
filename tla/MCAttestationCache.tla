-------------------------- MODULE MCAttestationCache --------------------------
(* Instances of AttestationCache small enough for TLC. *)
EXTENDS AttestationCache, TLC

Symmetric == Permutations(Attestations) \union Permutations(Checks)
===============================================================================
