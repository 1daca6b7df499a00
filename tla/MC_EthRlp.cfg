CONSTANTS
  Txs <- MCTxs

SPECIFICATION Spec

\* One transaction is hashed and signed, then the session is over.
CHECK_DEADLOCK FALSE

INVARIANT TypeOK
INVARIANT SignedStreamIsRlp
