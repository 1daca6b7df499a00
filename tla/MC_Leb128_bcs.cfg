CONSTANTS
  Sizes <- MCSizes

SPECIFICATION Spec

INVARIANT MessageLengthIsBcs
