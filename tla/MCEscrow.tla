------------------------------ MODULE MCEscrow ------------------------------
(* The escrow contract on a small chain: two accounts, two denominations,  *)
(* coins of at most 2 and a 2-bit clock.                                   *)
EXTENDS Escrow, TLC

CONSTANTS a1, a2, d1, d2

MCAddr == {a1, a2}

MCDenoms == {d1, d2}

\* Accounts and denominations play interchangeable roles.
MCSymmetry == Permutations(MCAddr) \cup Permutations(MCDenoms)

=============================================================================
