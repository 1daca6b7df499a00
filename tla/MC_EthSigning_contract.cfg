CONSTANTS
  W = 24
  ChainIds <- MCChainIds
  DataLengths <- MCDataLengths
  InitialChunkSizes <- MCInitialChunkSizes
  MaxSessions = 2
  NULL = NULL
  NodeRef = NodeRef
  Zero = Zero
  Key = Key

SPECIFICATION Spec

INVARIANT ContractCreationCarriesData
