CONSTANTS
  W = 24
  DataLengths <- MCDataLengths
  InitialChunkSizes <- MCInitialChunkSizes
  MaxSessions = 2
  Zero = Zero
  Key = Key

SPECIFICATION Spec

INVARIANT SignedDataIsTxIntent
