---------------------------- MODULE MC_EthMessage ----------------------------
(* Model values for EthMessage.  Key tails whose hex has digits and        *)
(* letters; sign requests with lengths at every edge of the digit ladder   *)
(* of ethereum_message_hash (0, 9, 10, 100, 10^9 and 2^31 - 1, the largest *)
(* integer of TLC: every 10-digit length takes the same branches).         *)
(* MCVerifyReqs is every combination of two keys' signatures over the      *)
(* EIP-191 hash of a 10-byte message, a typed hash and a Tron message      *)
(* hash, both recovery ids, v raw, plus 27 and out of range, four          *)
(* spellings of K1's address, K2's and the recovered key's addresses, two  *)
(* messages, and one signature of 64 bytes.                                *)
EXTENDS EthMessage

MCPkh == [k \in {"K1", "K2", "KS"} |->
            CASE k = "K1" -> [i \in 1..20 |-> IF i % 2 = 1 THEN 171 ELSE 12]
              [] k = "K2" -> [i \in 1..20 |-> 205]
              [] k = "KS" -> [i \in 1..20 |-> 85]]

MCMessages == {[len |-> n, body |-> "b1"] :
                 n \in {0, 9, 10, 100, 1000000000, 2147483647}}

ToUpper(c) == IF c \in Cha..Chf THEN c - (Cha - ChA) ELSE c
K1Hex == LowerHex(MCPkh["K1"])
K1Upper == <<Ch0, ChX>> \o [i \in 1..40 |-> ToUpper(K1Hex[i])]
K1NotHex == <<Ch0, Chx>> \o [K1Hex EXCEPT ![2] = 103]          \* 'g'
K1BadPrefix == <<49, Chx>> \o K1Hex                            \* "1x"
K2Hex == <<Ch0, Chx>> \o LowerHex(MCPkh["K2"])
StrayHex == LowerHex(MCPkh["KS"])

MsgA == [len |-> 10, body |-> "b1"]
MsgB == [len |-> 10, body |-> "b2"]
TypedAB == ethereum_typed_hash("h1", "h2", TRUE)

Sig(k, d, recid) == [key |-> k, digest |-> d, recid |-> recid]
Req(size, sig, v, a, m) ==
  [size |-> size, sig |-> sig, v |-> v, address |-> a, msg |-> m]

MCVerifyReqs ==
  {Req(65, Sig(k, d, recid), v, a, m) :
     k \in {"K1", "K2"}, d \in {RefEip191(MsgA), TypedAB, tron_message_hash(MsgA)}, recid \in {0, 1},
     v \in {0, 1, 27, 28, 29},
     a \in {K1Hex, K1Upper, K1NotHex, K1BadPrefix, K2Hex, StrayHex},
     m \in {MsgA, MsgB}}
  \cup {Req(64, Sig("K1", RefEip191(MsgA), 0), 27, K1Hex, MsgA)}

=============================================================================
