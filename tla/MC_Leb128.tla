------------------------------ MODULE MC_Leb128 ------------------------------
(* Sizes 0..130 (the empty message, one group, the first two-byte values)  *)
(* and both sides of every 7-bit group boundary up to 2147483647.            *)
EXTENDS Leb128

MCSizes ==
  (0..130) \cup {2^14 - 1, 2^14, 2^21 - 1, 2^21, 2^28 - 1, 2^28, 2147483647}
=============================================================================
