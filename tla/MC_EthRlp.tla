------------------------------ MODULE MC_EthRlp ------------------------------
(* Transactions for EthRlp: every header form of the fields, of the data   *)
(* and of the enclosing list (1 byte, 0x80+len, 0xb8/0xf8, 0xb9/0xf9,       *)
(* 0xba/0xfa), numbers on both sides of 0x80 and of a byte boundary.  The  *)
(* data lengths 241/242 and 65520/65521 put the smallest legacy list at    *)
(* 255/256 and 65535/65536 bytes.                                          *)
EXTENDS EthRlp

Str(l, f) == [len |-> l, first |-> f]
Empty == Str(0, 0)

MCChains == {1, 127, 128, 256, 2147483647}
MCNonces == {Empty, Str(1, 0), Str(1, 127), Str(1, 128)}
MCFees == {Str(1, 128), Str(8, 1)}
MCGasLimits == {Str(3, 1)}
MCTos == {Empty, Str(20, 18)}
MCValues == {Empty, Str(1, 5), Str(32, 255)}
MCData == {Empty, Str(1, 0), Str(1, 128), Str(2, 1), Str(55, 1), Str(56, 1),
           Str(241, 1), Str(242, 1), Str(255, 1), Str(256, 1),
           Str(65520, 1), Str(65521, 1), Str(65535, 1), Str(65536, 1),
           Str(16000000, 1)}

Key32 == Str(32, 171)
MCAccessLists ==
  {<<>>,
   <<[addr |-> 0, keys |-> <<>>]>>,
   <<[addr |-> 128, keys |-> <<Key32, Key32>>]>>,
   <<[addr |-> 0, keys |-> <<>>], [addr |-> 5, keys |-> <<Str(1, 5), Empty, Key32>>]>>,
   <<[addr |-> 1, keys |-> [i \in 1..8 |-> Key32]]>>}

MCLegacyTxs ==
  [eip : {FALSE}, txType : {0, 1, 6}, chain : MCChains, nonce : MCNonces,
   gasPrice : MCFees, maxPriorityFee : {Empty}, maxGasFee : {Empty},
   gasLimit : MCGasLimits, to : MCTos, value : MCValues, data : MCData,
   accessList : {<<>>}]

MCEip1559Txs ==
  [eip : {TRUE}, txType : {0}, chain : MCChains, nonce : MCNonces,
   gasPrice : {Empty}, maxPriorityFee : MCFees, maxGasFee : {Str(8, 1)},
   gasLimit : MCGasLimits, to : MCTos, value : MCValues, data : MCData,
   accessList : MCAccessLists]

MCTxs == MCLegacyTxs \cup MCEip1559Txs
=============================================================================
