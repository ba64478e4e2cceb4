--------------------------- MODULE MCStoreControl ---------------------------
(* StoreControl for TLC.  Transactions are interchangeable.                    *)
EXTENDS StoreControl

TxSymmetry == Permutations(Tx)
=============================================================================
