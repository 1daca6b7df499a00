------------------------------- MODULE EthRlp -------------------------------
(***************************************************************************)
(* The RLP encoding of a transaction as ethereum_onekey.c feeds it into     *)
(* the Keccak context, checked against the RLP of the Ethereum yellow       *)
(* paper (appendix B).                                                      *)
(*                                                                         *)
(* The code hashes a transaction in three steps, in this order:            *)
(*   init (stage 1 computes the list length with rlp_calculate_*, stage 2  *)
(*   hashes the list header, the fields and the data header),              *)
(*   hash_data of the initial chunk and of every TxAck chunk,              *)
(*   send_signature (the EIP-155 triple or the EIP-2930 access list).      *)
(*                                                                         *)
(* Data abstraction: a byte string is [len, first]: its length and its     *)
(* first byte, which is all the encoder ever looks at.  A hashed stream is *)
(* a sequence of items, each a single header byte or a run of payload      *)
(* bytes; an item is [kind, len, first] so that both have a width.  How    *)
(* the data field is cut into chunks is the subject of EthSigning.         *)
(***************************************************************************)
EXTENDS Integers, Sequences, SequencesExt

CONSTANTS
  Txs       \* the transactions to encode: records with the fields
            \* eip, txType, chain, nonce, gasPrice, maxPriorityFee,
            \* maxGasFee, gasLimit, to, value, data, accessList

Byte(v) == [kind |-> "byte", len |-> 1, first |-> v]
\* hash_data(buf, size): the bytes themselves, nothing for size 0; a single
\* byte is a byte whichever field it belongs to.
Payload(b) ==
  CASE b.len = 0 -> <<>>
    [] b.len = 1 -> <<Byte(b.first)>>
    [] OTHER -> <<[kind |-> "data", len |-> b.len, first |-> b.first]>>
Width(s) == FoldLeft(LAMBDA acc, it : acc + it.len, 0, s)

\* In a transaction, byte strings are [len, first], numbers are numbers,
\* and an access-list entry is [addr |-> first byte of its address,
\* keys |-> sequence of byte strings].  An address is 20 bytes.
Address(first) == [len |-> 20, first |-> first]

-----------------------------------------------------------------------------
(* The encoder of ethereum_onekey.c                                         *)

\* Mutant: the two-byte form taken up to 0x1ff, without the uint8 cut of
\* buf[1].
hash_rlp_length_wide(length, firstbyte) ==
  CASE length = 1 /\ firstbyte <= 127 -> <<>>
    [] length <= 55     -> <<Byte(128 + length)>>
    [] length <= 511    -> <<Byte(183 + 1), Byte(length)>>
    [] length <= 65535  -> <<Byte(183 + 2), Byte(length \div 256), Byte(length % 256)>>
    [] OTHER -> <<Byte(183 + 3), Byte((length \div 65536) % 256),
                  Byte((length \div 256) % 256), Byte(length % 256)>>

\* The header of a string (offset 0xb7) or a list (offset 0xf7) of the
\* given length, with buf[1..3] cut to uint8 as the code stores them.
HeaderBytes(offset, length) ==
  CASE length <= 55     -> <<Byte(offset - 55 + length)>>
    [] length <= 255    -> <<Byte(offset + 1), Byte(length)>>
    [] length <= 65535  -> <<Byte(offset + 2), Byte(length \div 256), Byte(length % 256)>>
    [] OTHER -> <<Byte(offset + 3), Byte((length \div 65536) % 256),
                  Byte((length \div 256) % 256), Byte(length % 256)>>

hash_rlp_length(length, firstbyte) ==
  IF length = 1 /\ firstbyte <= 127 THEN <<>> ELSE HeaderBytes(183, length)

hash_rlp_list_length(length) == HeaderBytes(247, length)

hash_rlp_field(b) == hash_rlp_length(b.len, b.first) \o Payload(b)

\* data[0..7] big endian; numbers here are below 2^31, so data[0..3] = 0.
NumberBytes(n) == [i \in 1..8 |-> IF i <= 4 THEN 0 ELSE (n \div 256^(8 - i)) % 256]

\* Skip the leading zero bytes and hash the rest as a field; 0 hashes
\* nothing at all.
hash_rlp_number(n) ==
  IF n = 0 THEN <<>>
  ELSE LET data == NumberBytes(n)
           offset == CHOOSE o \in 1..8 : data[o] # 0 /\ \A j \in 1..(o - 1) : data[j] = 0
       IN hash_rlp_field([len |-> 9 - offset, first |-> data[offset]])

\* Mutant: the short form taken up to 56 bytes.
rlp_calculate_length_56(length, firstbyte) ==
  CASE length = 1 /\ firstbyte <= 127 -> 1
    [] length <= 56    -> 1 + length
    [] length <= 255   -> 2 + length
    [] length <= 65535 -> 3 + length
    [] OTHER           -> 4 + length

rlp_calculate_length(length, firstbyte) ==
  CASE length = 1 /\ firstbyte <= 127 -> 1
    [] length <= 55    -> 1 + length
    [] length <= 255   -> 2 + length
    [] length <= 65535 -> 3 + length
    [] OTHER           -> 4 + length

RECURSIVE ShiftedBytes(_)
\* The loop of rlp_calculate_number_length: one more byte per shift by 8.
ShiftedBytes(n) == IF n = 0 THEN 0 ELSE 1 + ShiftedBytes(n \div 256)

rlp_calculate_number_length(n) == IF n >= 128 THEN 1 + ShiftedBytes(n) ELSE 1

FieldLength(b) == rlp_calculate_length(b.len, b.first)

rlp_calculate_access_list_keys_length(keys) ==
  FoldLeft(LAMBDA acc, k : acc + FieldLength(k), 0, keys)

rlp_calculate_access_list_length(al) ==
  FoldLeft(LAMBDA acc, e :
             LET address_length == rlp_calculate_length(20, 255)
                 keys_length == rlp_calculate_access_list_keys_length(e.keys)
             IN acc + rlp_calculate_length(
                        address_length + rlp_calculate_length(keys_length, 255), 255),
           0, al)

-----------------------------------------------------------------------------
(* Hashing one transaction: the calls of init, txack and send_signature.    *)

VARIABLES
  tx,        \* the transaction being signed
  declared,  \* rlp_length, the list length computed in stage 1
  stream,    \* what went into keccak_ctx since sha3_256_Init
  phase      \* "init", "data" (data being hashed), "trailer", "signed"

vars == <<tx, declared, stream, phase>>

Item == [kind : {"byte", "data"}, len : Nat, first : 0..255]

TypeOK ==
  /\ tx \in Txs
  /\ declared \in Nat
  /\ stream \in Seq(Item)
  /\ \A i \in DOMAIN stream : stream[i].kind = "byte" => stream[i].len = 1
  /\ phase \in {"init", "data", "trailer", "signed"}

Init ==
  /\ tx \in Txs
  /\ declared = 0
  /\ stream = <<>>
  /\ phase = "init"

\* ethereum_signing_init_onekey, stage 1 and 2 (tx_type is hashed inside
\* the list for Wanchain).
LegacyLength(t) ==
  FieldLength(t.nonce) + FieldLength(t.gasPrice) + FieldLength(t.gasLimit)
  + FieldLength(t.to) + FieldLength(t.value) + FieldLength(t.data)
  + (IF t.txType # 0 THEN rlp_calculate_number_length(t.txType) ELSE 0)
  + rlp_calculate_number_length(t.chain)
  + rlp_calculate_length(0, 0) + rlp_calculate_length(0, 0)

SignTxHeader ==
  /\ phase = "init" /\ ~tx.eip
  /\ declared' = LegacyLength(tx)
  /\ stream' = hash_rlp_list_length(declared')
               \o (IF tx.txType # 0 THEN hash_rlp_number(tx.txType) ELSE <<>>)
               \o hash_rlp_field(tx.nonce) \o hash_rlp_field(tx.gasPrice)
               \o hash_rlp_field(tx.gasLimit) \o hash_rlp_field(tx.to)
               \o hash_rlp_field(tx.value)
               \o hash_rlp_length(tx.data.len, tx.data.first)
  /\ phase' = "data"
  /\ UNCHANGED tx

\* ethereum_signing_init_eip1559_onekey, stage 1 and 2: the type byte
\* EIP1559_TX_TYPE precedes the list.
EIP1559_TX_TYPE == 2

Eip1559Length(t) ==
  rlp_calculate_number_length(t.chain)
  + FieldLength(t.nonce) + FieldLength(t.maxPriorityFee)
  + FieldLength(t.maxGasFee) + FieldLength(t.gasLimit)
  + FieldLength(t.to) + FieldLength(t.value) + FieldLength(t.data)
  + rlp_calculate_length(rlp_calculate_access_list_length(t.accessList), 255)

SignTxEIP1559Header ==
  /\ phase = "init" /\ tx.eip
  /\ declared' = Eip1559Length(tx)
  /\ stream' = hash_rlp_number(EIP1559_TX_TYPE)
               \o hash_rlp_list_length(declared')
               \o hash_rlp_number(tx.chain)
               \o hash_rlp_field(tx.nonce) \o hash_rlp_field(tx.maxPriorityFee)
               \o hash_rlp_field(tx.maxGasFee) \o hash_rlp_field(tx.gasLimit)
               \o hash_rlp_field(tx.to) \o hash_rlp_field(tx.value)
               \o hash_rlp_length(tx.data.len, tx.data.first)
  /\ phase' = "data"
  /\ UNCHANGED tx

\* hash_data of the initial chunk and of every TxAck chunk, in order.
HashData ==
  /\ phase = "data"
  /\ stream' = stream \o Payload(tx.data)
  /\ phase' = "trailer"
  /\ UNCHANGED <<tx, declared>>

\* send_signature, legacy: v = chain_id, r = 0, s = 0.
SendSignatureLegacy ==
  /\ phase = "trailer" /\ ~tx.eip
  /\ stream' = stream \o hash_rlp_number(tx.chain)
               \o hash_rlp_length(0, 0) \o hash_rlp_length(0, 0)
  /\ phase' = "signed"
  /\ UNCHANGED <<tx, declared>>

\* send_signature, EIP-1559: the access list, entry by entry.
AccessListEntry(e) ==
  LET address_length == rlp_calculate_length(20, e.addr)
      keys_length == rlp_calculate_access_list_keys_length(e.keys)
  IN hash_rlp_list_length(address_length + rlp_calculate_length(keys_length, 255))
     \o hash_rlp_field(Address(e.addr))
     \o hash_rlp_list_length(keys_length)
     \o FlattenSeq([j \in DOMAIN e.keys |-> hash_rlp_field(e.keys[j])])

SendSignatureEIP1559 ==
  /\ phase = "trailer" /\ tx.eip
  /\ stream' = stream
               \o hash_rlp_list_length(rlp_calculate_access_list_length(tx.accessList))
               \o FlattenSeq([i \in DOMAIN tx.accessList |-> AccessListEntry(tx.accessList[i])])
  /\ phase' = "signed"
  /\ UNCHANGED <<tx, declared>>

Next ==
  \/ SignTxHeader
  \/ SignTxEIP1559Header
  \/ HashData
  \/ SendSignatureLegacy
  \/ SendSignatureEIP1559

\* One transaction is hashed and signed; the session then ends.
Spec == Init /\ [][Next]_vars

-----------------------------------------------------------------------------
(* The reference: RLP of the yellow paper, appendix B.                      *)

RECURSIVE BE(_)
\* BE(x): the big-endian bytes of x without leading zeros.
BE(x) == IF x = 0 THEN <<>> ELSE BE(x \div 256) \o <<x % 256>>

RefHeader(offset, n) ==
  IF n < 56 THEN <<Byte(offset + n)>>
  ELSE <<Byte(offset + 55 + Len(BE(n)))>> \o [i \in 1..Len(BE(n)) |-> Byte(BE(n)[i])]

\* R_b: a single byte below 128 is itself; otherwise a header and the bytes.
RefString(b) ==
  IF b.len = 1 /\ b.first < 128 THEN Payload(b) ELSE RefHeader(128, b.len) \o Payload(b)

\* A scalar is the string of its big-endian bytes (0 is the empty string).
RefNumber(n) ==
  RefString([len |-> Len(BE(n)), first |-> IF n = 0 THEN 0 ELSE BE(n)[1]])

\* R_l: the header of the concatenated encodings, then the encodings.
RefList(items) ==
  LET s == FlattenSeq(items) IN RefHeader(192, Width(s)) \o s

RefAccessList(al) ==
  RefList([i \in DOMAIN al |->
             RefList(<<RefString(Address(al[i].addr)),
                       RefList([j \in DOMAIN al[i].keys |-> RefString(al[i].keys[j])])>>)])

\* EIP-155 (and Wanchain) signing payload; EIP-1559 signing payload.
RefTx(t) ==
  IF t.eip
  THEN <<Byte(EIP1559_TX_TYPE)>>
       \o RefList(<<RefNumber(t.chain), RefString(t.nonce),
                    RefString(t.maxPriorityFee), RefString(t.maxGasFee),
                    RefString(t.gasLimit), RefString(t.to), RefString(t.value),
                    RefString(t.data), RefAccessList(t.accessList)>>)
  ELSE RefList((IF t.txType # 0 THEN <<RefNumber(t.txType)>> ELSE <<>>)
               \o <<RefString(t.nonce), RefString(t.gasPrice),
                    RefString(t.gasLimit), RefString(t.to), RefString(t.value),
                    RefString(t.data), RefNumber(t.chain), RefNumber(0),
                    RefNumber(0)>>)

-----------------------------------------------------------------------------
(* Properties                                                              *)

\* What send_signature signs is the RLP of the transaction: stage 1's
\* rlp_calculate_* lengths, stage 2's hash_rlp_* headers, the data hashed
\* chunk by chunk and the trailer of send_signature together produce exactly
\* the yellow-paper encoding (EIP-155 list, or type byte and EIP-1559 list
\* with its access list), at every length boundary of the header forms.
SignedStreamIsRlp == phase = "signed" => stream = RefTx(tx)

\* The comment on hash_rlp_number: a number is hashed as its big-endian
\* bytes with the leading zeros stripped, i.e. as an RLP scalar (0 is the
\* empty string 0x80), and rlp_calculate_number_length, which stage 1 adds
\* to the list length, counts the bytes hash_rlp_number hashes.
NumberIsRlp ==
  \A n \in {0, 1, 127, 128, 255, 256, tx.chain} :
    /\ hash_rlp_number(n) = RefNumber(n)
    /\ Width(hash_rlp_number(n)) = rlp_calculate_number_length(n)

=============================================================================
