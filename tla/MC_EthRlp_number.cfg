CONSTANTS
  Txs <- MCTxs

SPECIFICATION Spec

CHECK_DEADLOCK FALSE

INVARIANT NumberIsRlp
