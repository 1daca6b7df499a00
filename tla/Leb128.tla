------------------------------- MODULE Leb128 -------------------------------
(***************************************************************************)
(* The three unsigned LEB128 encoders of the firmware, and what they put   *)
(* in front of a signed message:                                           *)
(*   uleb_encode (common_tx.c), used by benfen_message_sign after the      *)
(*     intent bytes 03 00 00;                                              *)
(*   unsigned_int_to_leb128 (starcoin.c), whose output length the message  *)
(*     handlers take with strlen;                                          *)
(*   write_varint (tron.c), the protobuf varint of the Tron serialiser.    *)
(* The reference is ULEB128 as BCS and protobuf define it: seven bits per  *)
(* byte, least significant group first, the top bit set on all bytes but  *)
(* the last, and 0 encoded as the single byte 00.                          *)
(*                                                                         *)
(* A handler step records the bytes hashed between the domain prefix and   *)
(* the message body (Starcoin's constant 32-byte prefix hash is left out). *)
(***************************************************************************)
EXTENDS Integers, Sequences, SequencesExt

CONSTANTS
  Sizes     \* message sizes / varint values handed to the encoders

\* Every value here fits the int / uint32_t the encoders take.
ASSUME Sizes \subseteq 0..2147483647

RECURSIVE RefUleb(_)
RefUleb(n) == IF n < 128 THEN <<n>> ELSE <<(n % 128) + 128>> \o RefUleb(n \div 128)

\* A uint32 has 32 bits, at most five groups of seven.
MAX_LEB_BYTES == 5

-----------------------------------------------------------------------------
(* The encoders                                                            *)

\* One iteration of the three loops: the low seven bits, the top bit set
\* when something is left after the shift.
Group(v) == IF v \div 128 # 0 THEN (v % 128) + 128 ELSE v % 128

RECURSIVE uleb_encode(_)
\* while (num > 0) { num_bytes[len] = num & 127; if (num >>= 7) ... |= 128; }
uleb_encode(num) == IF num > 0 THEN <<Group(num)>> \o uleb_encode(num \div 128) ELSE <<>>

RECURSIVE unsigned_int_to_leb128(_)
\* do { c = val & 0x7f; val >>= 7; ... } while (more);
unsigned_int_to_leb128(val) ==
  <<Group(val)>> \o (IF val \div 128 # 0 THEN unsigned_int_to_leb128(val \div 128) ELSE <<>>)

\* strlen over msg_length_data[8], zero-initialised: the bytes before the
\* first 00.
StrLen(s) == IF \E i \in DOMAIN s : s[i] = 0
             THEN (CHOOSE i \in DOMAIN s : s[i] = 0 /\ \A j \in 1..(i - 1) : s[j] # 0) - 1
             ELSE Len(s)

RECURSIVE write_varint_shift6(_)
\* Mutant: the value shifted by six bits instead of seven.
write_varint_shift6(v) ==
  IF v \div 64 = 0 THEN <<v % 128>>
  ELSE <<(v % 128) + 128>> \o write_varint_shift6(v \div 64)

RECURSIVE write_varint_no_top(_)
\* Mutant: the continuation bit left off.
write_varint_no_top(v) ==
  IF v \div 128 = 0 THEN <<v % 128>>
  ELSE <<v % 128>> \o write_varint_no_top(v \div 128)

RECURSIVE write_varint(_)
\* while (1) { byte = v & 0x7F; v >>= 7; if (v == 0) { last byte; break; }
\*   buf[index++] = byte | 0x80; }
write_varint(v) ==
  IF v \div 128 = 0 THEN <<v % 128>>
  ELSE <<(v % 128) + 128>> \o write_varint(v \div 128)

-----------------------------------------------------------------------------
(* The handlers                                                            *)

VARIABLES
  handler,   \* the handler of the last step
  size,      \* the message size (or Tron varint value) it encoded
  hashed     \* the bytes it put before the message body

vars == <<handler, size, hashed>>

TypeOK ==
  /\ handler \in {"none", "benfen", "starcoin_sign", "starcoin_verify", "tron"}
  /\ size \in {0} \cup Sizes
  /\ hashed \in Seq(0..255)
  \* an encoding of a 32-bit value is at most five bytes long
  /\ Len(hashed) <= MAX_LEB_BYTES + (IF handler = "benfen" THEN 3 ELSE 0)

Init ==
  /\ handler = "none"
  /\ size = 0
  /\ hashed = <<>>

\* benfen_message_sign: num_bytes = {3, 0, 0}, then uleb_encode(size).
BenfenMessageSign(n) ==
  /\ handler' = "benfen"
  /\ size' = n
  /\ hashed' = <<3, 0, 0>> \o uleb_encode(n)

\* starcoin_sign_message / starcoin_verify_message: msg_header_size =
\* strlen(msg_length_data) bytes of the encoding are copied after the prefix.
StarcoinHeader(n) ==
  SubSeq(unsigned_int_to_leb128(n), 1, StrLen(unsigned_int_to_leb128(n)))

StarcoinSignMessage(n) ==
  /\ handler' = "starcoin_sign"
  /\ size' = n
  /\ hashed' = StarcoinHeader(n)

StarcoinVerifyMessage(n) ==
  /\ handler' = "starcoin_verify"
  /\ size' = n
  /\ hashed' = StarcoinHeader(n)

\* A varint field of the Tron serialiser (write_bytes_with_length, the
\* numeric fields of pack_contract and serialize).
TronVarint(n) ==
  /\ handler' = "tron"
  /\ size' = n
  /\ hashed' = write_varint(n)

Next ==
  \E n \in Sizes :
    \/ BenfenMessageSign(n)
    \/ StarcoinSignMessage(n)
    \/ StarcoinVerifyMessage(n)
    \/ TronVarint(n)

Spec == Init /\ [][Next]_vars

-----------------------------------------------------------------------------
(* Properties                                                              *)

\* The Tron serialiser writes every varint as protobuf's base-128 varint,
\* from 0 (a single 00 byte) up to the largest value, across every 7-bit
\* group boundary.
TronVarintIsLeb128 == handler = "tron" => hashed = RefUleb(size)

\* A Benfen signed message is the intent 03 00 00 followed by the BCS
\* encoding of the message bytes: its ULEB128 length, then the bytes.
BenfenPrefixIsBcs == handler = "benfen" => hashed = <<3, 0, 0>> \o RefUleb(size)

\* A Starcoin signed (or verified) message hashes the BCS encoding of the
\* message after the prefix hash: its ULEB128 length, then the bytes.
StarcoinPrefixIsBcs ==
  handler \in {"starcoin_sign", "starcoin_verify"} => hashed = RefUleb(size)

\* Both signed-message handlers put the BCS length of the message, as
\* ULEB128, between their prefix and the message bytes.
MessageLengthIsBcs == BenfenPrefixIsBcs /\ StarcoinPrefixIsBcs

=============================================================================
