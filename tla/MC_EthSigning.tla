---------------------------- MODULE MC_EthSigning ----------------------------
(* Model values for EthSigning.  uint32 is scaled to 24 bits, the smallest  *)
(* width above the 16000000 data limit; chain ids sit on both sides of      *)
(* MAX_CHAIN_ID; data lengths are empty, shorter than one chunk, longer    *)
(* than one 1024-byte request, and over the limit.                          *)
EXTENDS EthSigning

MCChainIds == {0, 1, MAX_CHAIN_ID, MAX_CHAIN_ID + 1}
MCDataLengths == {0, 2, 1030, DATA_LIMIT + 1}
MCInitialChunkSizes == {0, 1, 2}
=============================================================================
