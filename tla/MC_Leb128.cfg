CONSTANTS
  Sizes <- MCSizes

SPECIFICATION Spec

INVARIANT TypeOK
INVARIANT TronVarintIsLeb128
