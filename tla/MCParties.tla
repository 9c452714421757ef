------------------------------ MODULE MCParties ------------------------------
(***************************************************************************)
(* An escrow together with the addresses it names.  The addresses and the  *)
(* investors are interchangeable: no action and no property tells one of a *)
(* set from another.                                                       *)
(***************************************************************************)
EXTENDS MCEscrow, EscrowParties

Symmetry == Permutations(Investors) \cup Permutations(Smes) \cup Permutations(Payers)

=============================================================================
