------------------------- MODULE MC_StellarEncoding -------------------------
(* Keys: all zero bytes, all 0xFF, and a mixed key.  uint32 values at the  *)
(* byte boundaries and the top of TLC's integers; opaques of every length  *)
(* mod 4 (0..5 bytes); asset codes of 1, 4, 5 and 12 characters.          *)
EXTENDS StellarEncoding

MCKeys ==
  {[i \in 1..32 |-> 0], [i \in 1..32 |-> 255], [i \in 1..32 |-> (i * 37) % 256]}

MCUint32s == {0, 1, 255, 256, 65535, 65536, 16777216, 2147483647}

MCOpaques == {[i \in 1..n |-> (i * 61) % 256] : n \in 0..5}

MCAssetCodes ==
  {<<65>>, <<65, 66, 67, 68>>, <<65, 66, 67, 68, 69>>, [i \in 1..12 |-> 70]}
=============================================================================
