---------------------------- MODULE MCSimpleCrud ----------------------------
(* The key-value store with two keys and two values.                       *)
EXTENDS SimpleCrud, TLC

CONSTANTS k1, k2, v1, v2

MCKey == {k1, k2}

MCValue == {v1, v2}

\* Keys, and values, play interchangeable roles.
MCSymmetry == Permutations(MCKey) \cup Permutations(MCValue)

\* Bound on the history: long enough for create, update, delete and a
\* second create of one key interleaved with writes of the other.
MaxOps == 5

HistoryBound == Len(log) <= MaxOps

=============================================================================
