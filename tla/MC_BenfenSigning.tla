-------------------------- MODULE MC_BenfenSigning --------------------------
(* Data lengths: none, three bytes, more than one request, exactly the     *)
(* buffer, one byte over it.  Initial chunks: empty, the three intent      *)
(* bytes, a full 1024-byte chunk (larger than some data lengths).          *)
EXTENDS BenfenSigning

MCDataLengths == {0, 3, 1030, 20480, 20481}
MCInitialChunkSizes == {0, 3, 1024}
=============================================================================
