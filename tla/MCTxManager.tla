---------------------------- MODULE MCTxManager ----------------------------
(* Instances of TxManager for TLC.                                         *)
EXTENDS TxManager, TLC

CONSTANTS a, b, c   \* members; each configuration says which kind they are

\* Local members are interchangeable.
Symmetry == Permutations({a, b})
=============================================================================
