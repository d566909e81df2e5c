------------------------------ MODULE MCFaucet ------------------------------
(* The faucet on a small chain: two senders, a 3-bit clock, hours of 2 s.  *)
EXTENDS Faucet, TLC

CONSTANTS u1, u2

MCAddr == {u1, u2}

\* The senders play interchangeable roles.
MCSymmetry == Permutations(MCAddr)

\* Bound on the claims paid to one address (the history paidAt grows with
\* every claim, and donations let the faucet pay forever).
MaxClaims == 2

ClaimBound == \A a \in MCAddr : Len(paidAt[a]) <= MaxClaims

=============================================================================
