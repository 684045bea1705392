----------------------------- MODULE MCTxStore -----------------------------
(* Small instances of TxStore for TLC. Hashes are interchangeable.         *)
EXTENDS TxStore, TLC

HashSymmetry == Permutations(Hashes)

=============================================================================
