------------------------- MODULE MCColdChainShipment -------------------------
(* Instances of ColdChainShipment small enough for TLC. *)
EXTENDS ColdChainShipment, TLC

\* The wallets are interchangeable: no role is tied to one of them.
Symmetric == Permutations(Wallets)

==============================================================================
