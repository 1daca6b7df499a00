CONSTANTS
  Sizes <- MCSizes

SPECIFICATION Spec

INVARIANT StarcoinPrefixIsBcs
