----------------------------- MODULE EthMessage -----------------------------
(***************************************************************************)
(* Personal-message and EIP-712 typed-hash signing, and personal-message   *)
(* verification, of src/legacy/firmware/ethereum_onekey.c, and Tron        *)
(* message signing (tron_message_sign of tron.c), which shares the hash    *)
(* function, the curve and the v = 27 + recid encoding.                    *)
(*                                                                         *)
(* ethereum_message_sign_onekey hashes "\x19Ethereum Signed Message:\n",   *)
(* the decimal message length and the message; it signs the hash and       *)
(* answers with r, s and v = 27 + recid.  ethereum_typed_hash_sign_onekey  *)
(* signs keccak("\x19\x01" || domain hash [|| message hash]).              *)
(* ethereum_message_verify_onekey checks the signature size, parses the    *)
(* hex address, rebuilds the hash, folds v = 27/28 onto 0/1, recovers the  *)
(* public key and compares its Keccak tail with the address.               *)
(*                                                                         *)
(* Abstraction of the cryptography: Keccak is injective, so a digest is    *)
(* its preimage (the fixed prefix as one token, the length digits as ASCII *)
(* codes, a message body or a 32-byte hash as one model value).  A         *)
(* signature is the record of who signed which digest with which recovery  *)
(* id.  Recovery with the signed digest and recid gives the signer; with   *)
(* anything else it fails or gives Stray, a key nobody holds.  Pkh[k] is   *)
(* the 20-byte Keccak tail of k's public key.                              *)
(***************************************************************************)
EXTENDS Integers, Sequences

CONSTANTS
  Keys,        \* nodes the device may be asked to sign with
  Stray,       \* the key recovered from a signature that does not match
  Pkh,         \* Pkh[k]: the 20 bytes an address of key k stands for
  Messages,    \* messages of sign requests: [len, body]
  TypedHashes, \* domain-separator and message hashes of typed requests
  VerifyReqs   \* EthereumVerifyMessageOneKey requests the host may send

VARIABLES
  mreq,   \* the message request handled by the last step (history)
  mresp   \* what the device answered to it (history)

msgVars == <<mreq, mresp>>

NoMsg == [type |-> "none"]

\* ASCII codes the address parser tests
Ch0 == 48
Ch9 == 57
ChA == 65
ChF == 70
ChX == 88
Cha == 97
Chf == 102
Chx == 120

-----------------------------------------------------------------------------
(* ethereum_message_hash: one digit per power of ten the length reaches,   *)
(* from 10^9 down, then the units digit.                                   *)

\* c = '0' + x % 10
Digit(x) == Ch0 + (x % 10)

\* Mutant: a ladder that compares with > instead of >=.
LengthDigitsGt(len) ==
  LET Ps == SelectSeq(<<9, 8, 7, 6, 5, 4, 3, 2, 1>>, LAMBDA p : len > 10^p)
  IN  [i \in 1..Len(Ps) |-> Digit(len \div 10^Ps[i])] \o <<Digit(len)>>

LengthDigits(len) ==
  LET Ps == SelectSeq(<<9, 8, 7, 6, 5, 4, 3, 2, 1>>, LAMBDA p : len >= 10^p)
  IN  [i \in 1..Len(Ps) |-> Digit(len \div 10^Ps[i])] \o <<Digit(len)>>

\* "\x19" "Ethereum Signed Message:\n" (26 bytes) stands as one token.
EIP191_PREFIX == "19 Ethereum Signed Message: 0a"
EIP712_PREFIX == "19 01"

ethereum_message_hash(m) ==
  <<EIP191_PREFIX>> \o LengthDigits(m.len) \o <<m.body>>

\* ethereum_typed_hash: the message hash is left out when has_message_hash
\* is false (primaryType "EIP712Domain").
ethereum_typed_hash(dom, mh, hasMh) ==
  <<EIP712_PREFIX, dom>> \o (IF hasMh THEN <<mh>> ELSE <<>>)

\* tron_message_hash over the Keccak of the message: "\x19" "TRON Signed
\* Message:\n32" (24 bytes, one token) and the 32-byte hash (the body).
TRON_PREFIX == "19 TRON Signed Message: 0a 32"

tron_message_hash(m) == <<TRON_PREFIX, m.body>>

\* ethereum_parse_onekey: 40 hex digits, or 42 starting with 0x or 0X.
\* Returns [ok, pkh]; pkh[i/2] |= nibble << ((1 - i%2) * 4).
Nibble(c) ==
  CASE c \in Ch0..Ch9 -> c - Ch0
    [] c \in Cha..Chf -> c - Cha + 10
    [] c \in ChA..ChF -> c - ChA + 10

IsHexDigit(c) == c \in (Ch0..Ch9) \cup (Cha..Chf) \cup (ChA..ChF)

ethereum_parse_onekey(a) ==
  LET hex == IF Len(a) = 42 THEN SubSeq(a, 3, 42) ELSE a
      wellFormed ==
        /\ Len(a) \in {40, 42}
        /\ Len(a) = 42 => a[1] = Ch0 /\ a[2] \in {Chx, ChX}
        /\ \A i \in 1..Len(hex) : IsHexDigit(hex[i])
  IN  IF wellFormed
        THEN [ok |-> TRUE,
              pkh |-> [j \in 1..20 |-> Nibble(hex[2*j - 1]) * 16 + Nibble(hex[2*j])]]
        ELSE [ok |-> FALSE, pkh |-> <<>>]

\* ecdsa_recover_pub_from_sig: the keys it may return ("fail" is ret != 0).
Recover(sig, digest, v) ==
  IF sig.digest = digest /\ sig.recid = v THEN {sig.key} ELSE {Stray, "fail"}

\* Mutant: the v >= 27 fold written as v > 27.
FoldVGt(v) == IF v > 27 THEN v - 27 ELSE v

\* v should be 27, 28 but some implementations use 0, 1 (uint8_t v).
FoldV(v) == IF v >= 27 THEN v - 27 ELSE v

\* ethereum_message_verify_onekey: the return codes it may give.  1 has
\* sent a DataError failure; 2 is an invalid signature; 0 is valid.
VerifyResults(r) ==
  LET parsed == ethereum_parse_onekey(r.address)
      v == FoldV(r.v)
  IN  CASE r.size # 65      -> {1}
        [] ~parsed.ok        -> {1}
        [] v >= 2            -> {2}
        [] OTHER ->
             {IF k # "fail" /\ Pkh[k] = parsed.pkh THEN 0 ELSE 2 :
                k \in Recover(r.sig, ethereum_message_hash(r.msg), v)}

-----------------------------------------------------------------------------
Digests ==
  {ethereum_message_hash(m) : m \in Messages}
    \cup {ethereum_typed_hash(d, h, b) : d, h \in TypedHashes, b \in BOOLEAN}
    \cup {tron_message_hash(m) : m \in Messages}

MsgTypeOK ==
  /\ mreq \in {NoMsg}
        \cup [type : {"SignMessage"}, msg : Messages, key : Keys]
        \cup [type : {"SignTypedHash"}, dom : TypedHashes, mh : TypedHashes,
              hasMh : BOOLEAN, key : Keys]
        \cup [type : {"VerifyMessage"}, r : VerifyReqs]
        \cup [type : {"TronSignMessage"}, msg : Messages, key : Keys]
  /\ mresp \in {NoMsg}
        \cup [type : {"Failure"}, kind : {"ProcessError", "DataError"}]
        \cup [type : {"Signature"}, sig : [key : Keys, digest : Digests,
                                          recid : {0, 1}],
              size : {65}, v : 0..255]
        \cup [type : {"VerifyResult"}, ret : {0, 2}]

MsgInit == mreq = NoMsg /\ mresp = NoMsg

\* Mutant: the signature answered with signature.size = 64, v left out.
SignDigestSize64(key, digest) ==
  \/ mresp' = [type |-> "Failure", kind |-> "ProcessError"]
  \/ \E recid \in {0, 1} :
       mresp' = [type |-> "Signature", size |-> 64, v |-> 27 + recid,
                 sig |-> [key |-> key, digest |-> digest, recid |-> recid]]

\* The signing tail shared by the sign handlers: hdnode_sign_digest fails
\* (ProcessError), or signs with some recovery id and v = 27 + recid.
SignDigest(key, digest) ==
  \/ mresp' = [type |-> "Failure", kind |-> "ProcessError"]
  \/ \E recid \in {0, 1} :
       mresp' = [type |-> "Signature", size |-> 65, v |-> 27 + recid,
                 sig |-> [key |-> key, digest |-> digest, recid |-> recid]]

EthereumSignMessage(m, key) ==
  /\ mreq' = [type |-> "SignMessage", msg |-> m, key |-> key]
  /\ SignDigest(key, ethereum_message_hash(m))

EthereumSignTypedHash(dom, mh, hasMh, key) ==
  /\ mreq' = [type |-> "SignTypedHash", dom |-> dom, mh |-> mh,
              hasMh |-> hasMh, key |-> key]
  /\ SignDigest(key, ethereum_typed_hash(dom, mh, hasMh))

\* tron_message_sign: the same signing tail over the Tron message hash.
TronMessageSign(m, key) ==
  /\ mreq' = [type |-> "TronSignMessage", msg |-> m, key |-> key]
  /\ SignDigest(key, tron_message_hash(m))

EthereumVerifyMessage(r) ==
  /\ mreq' = [type |-> "VerifyMessage", r |-> r]
  /\ \E ret \in VerifyResults(r) :
       mresp' = IF ret = 1 THEN [type |-> "Failure", kind |-> "DataError"]
                           ELSE [type |-> "VerifyResult", ret |-> ret]

MsgNext ==
  \/ \E m \in Messages, key \in Keys : EthereumSignMessage(m, key)
  \/ \E dom, mh \in TypedHashes, hasMh \in BOOLEAN, key \in Keys :
       EthereumSignTypedHash(dom, mh, hasMh, key)
  \/ \E r \in VerifyReqs : EthereumVerifyMessage(r)
  \/ \E m \in Messages, key \in Keys : TronMessageSign(m, key)

MsgSpec == MsgInit /\ [][MsgNext]_msgVars

-----------------------------------------------------------------------------
(* Reference definitions, from EIP-191 and the hex address format rather   *)
(* than from the code.                                                     *)

\* The decimal digits of n, most significant first.
RECURSIVE RefDecimal(_)
RefDecimal(n) == IF n < 10 THEN <<Ch0 + n>> ELSE RefDecimal(n \div 10) \o <<Ch0 + (n % 10)>>

RefEip191(m) == <<EIP191_PREFIX>> \o RefDecimal(m.len) \o <<m.body>>

HexChar(x) == IF x < 10 THEN Ch0 + x ELSE Cha + x - 10
LowerHex(bytes) ==
  [i \in 1..2 * Len(bytes) |->
     HexChar(IF i % 2 = 1 THEN bytes[(i + 1) \div 2] \div 16
                          ELSE bytes[i \div 2] % 16)]
ToLower(c) == IF c \in ChA..ChF THEN c + (Cha - ChA) ELSE c

\* a spells the 20 bytes pkh in hex digits of either case, with or without
\* a 0x / 0X prefix.
SpellsPkh(a, pkh) ==
  \E p \in {<<>>, <<Ch0, Chx>>, <<Ch0, ChX>>} :
    /\ Len(a) = Len(p) + 40
    /\ SubSeq(a, 1, Len(p)) = p
    /\ \A i \in 1..40 : ToLower(a[Len(p) + i]) = LowerHex(pkh)[i]

\* r carries a signature that key k made over the EIP-191 hash of r.msg, in
\* 65 bytes, with v the recovery id or 27 + it.
Genuine(r, k) ==
  /\ r.size = 65
  /\ r.sig.key = k
  /\ r.sig.digest = RefEip191(r.msg)
  /\ r.v \in {r.sig.recid, 27 + r.sig.recid}

-----------------------------------------------------------------------------
(* Properties.                                                             *)

\* ethereum_message_verify_onekey, against an address of one of the
\* device's keys in any accepted spelling, returns 0 exactly when the
\* signature is that key's EIP-191 signature of the message: the size,
\* address, v fold, hash ladder and public-key comparison together must
\* neither accept a foreign, mismatched or typed-data signature nor refuse
\* a genuine one.
VerifyExact ==
  mreq.type = "VerifyMessage" =>
    \A k \in Keys :
      SpellsPkh(mreq.r.address, Pkh[k]) =>
        ((mresp = [type |-> "VerifyResult", ret |-> 0]) <=> Genuine(mreq.r, k))

\* A signature returned by ethereum_message_sign_onekey is over the EIP-191
\* hash of the message (decimal length), and the device's own verifier
\* accepts it, as sent (v = 27 + recid), for the signer's address.
MessageSignatureVerifies ==
  (mreq.type = "SignMessage" /\ mresp.type = "Signature") =>
    /\ mresp.sig.digest = RefEip191(mreq.msg)
    /\ VerifyResults([size |-> mresp.size, sig |-> mresp.sig, v |-> mresp.v,
                      address |-> LowerHex(Pkh[mreq.key]),
                      msg |-> mreq.msg]) = {0}
=============================================================================
