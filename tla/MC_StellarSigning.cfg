CONSTANTS
  NumOperations <- MCNumOperations
  MaxOps = 2
  MaxSessions = 2

SPECIFICATION Spec

\* The host may stop sending at any point; the device then waits.
CHECK_DEADLOCK FALSE

INVARIANT TypeOK
INVARIANT SessionHashConsistent
INVARIANT SignedOncePerSession

