------------------------------- MODULE MCTxm -------------------------------
(* Small instances of Txm for TLC.                                         *)
EXTENDS Txm

CONSTANTS t1, t2, t3

\* Every call carries an ID of its own.
DistinctIds == [t \in Txs |-> t]

\* The second call carries the ID of the first.
SharedId == [t \in Txs |-> IF t = t2 THEN t1 ELSE t]

=============================================================================
