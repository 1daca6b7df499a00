------------------------- MODULE MC_StellarSigning -------------------------
(* num_operations: none (the count is compared only after an operation),  *)
(* one, and two (a StellarTxOpRequest in between).                         *)
EXTENDS StellarSigning

MCNumOperations == {0, 1, 2}
=============================================================================
