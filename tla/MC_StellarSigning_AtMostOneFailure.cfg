CONSTANTS
  NumOperations <- MCNumOperations
  MaxOps = 2
  MaxSessions = 2

SPECIFICATION Spec

INVARIANT AtMostOneFailure
