-------------------------- MODULE StellarEncoding --------------------------
(***************************************************************************)
(* The byte-level encoders of src/legacy/firmware/stellar.c: the account   *)
(* string (version byte, key, CRC16 checksum, base32) that                 *)
(* stellar_publicAddressAsStr writes and stellar_validateAddress /         *)
(* stellar_getAddressBytes read, and the XDR fields that the               *)
(* stellar_hashupdate_* functions feed to the transaction hash.            *)
(*                                                                         *)
(* Bytes are integers 0..255.  A character of an account string is its     *)
(* index in the RFC 4648 base32 alphabet, or NotB32 for a character        *)
(* outside it.  base32_encode / base32_decode belong to the crypto library *)
(* outside this tree and are written from RFC 4648.  The firmware runs     *)
(* little-endian, so a uint32 or uint64 in memory is its bytes least       *)
(* significant first; TLC's integers stop at 2^31 - 1, which bounds the    *)
(* values, not the byte shuffling.                                         *)
(***************************************************************************)
EXTENDS Integers, Sequences, Bitwise

CONSTANTS
  Keys,        \* 32-byte public keys
  Positions,   \* positions of an account string that are corrupted
  Uint32s,     \* uint32 / uint64 values hashed
  Opaques,     \* byte strings hashed with stellar_hashupdate_string
  AssetCodes   \* asset codes of ALPHANUM4 / ALPHANUM12 assets

NotB32 == -1

-----------------------------------------------------------------------------
(* RFC 4648 base32, for inputs of a multiple of 5 bytes (35 here).         *)

Bits(bytes) ==
  [i \in 1..8 * Len(bytes) |-> (bytes[(i + 7) \div 8] \div 2^(7 - ((i - 1) % 8))) % 2]

FromBits(bits, n) ==
  [i \in 1..(Len(bits) \div n) |->
     LET RECURSIVE Acc(_)
         Acc(j) == IF j = 0 THEN 0 ELSE 2 * Acc(j - 1) + bits[(i - 1) * n + j]
     IN  Acc(n)]

base32_encode(bytes) == FromBits(Bits(bytes), 5)

Base32Ok(s) == \A i \in 1..Len(s) : s[i] \in 0..31

base32_decode(s) ==
  FromBits([i \in 1..5 * Len(s) |-> (s[(i + 4) \div 5] \div 2^(4 - ((i - 1) % 5))) % 2], 8)

-----------------------------------------------------------------------------
(* stellar_crc16: CRC16-XModem with initial value 0, bit by bit, most      *)
(* significant bit of each byte first.                                     *)

\* One bit: c15 = crc >> 15; crc <<= 1 (uint16); if (c15 ^ bit) crc ^= 0x1021.
CrcBit(crc, bit) ==
  LET c15 == crc \div 32768
      shifted == (crc * 2) % 65536
  IN  IF c15 # bit THEN shifted ^^ 4129 ELSE shifted

\* The inner loop: bits 7 down to 0 of one byte.
CrcByte(crc, byte) ==
  LET c[bitidx \in 0..8] ==
        IF bitidx = 0 THEN crc
        ELSE CrcBit(c[bitidx - 1], (byte \div 2^(8 - bitidx)) % 2)
  IN  c[8]

\* The outer loop over bytes[i - 1 .. length); each byte's CRC is taken
\* before the next byte is read.
RECURSIVE CrcLoop(_, _, _, _)
CrcLoop(bytes, i, length, crc) ==
  IF i > length THEN crc
  ELSE LET next == CrcByte(crc, bytes[i])
       IN  IF next \in 0..65535 THEN CrcLoop(bytes, i + 1, length, next) ELSE next

stellar_crc16(bytes, length) == CrcLoop(bytes, 1, length, 0)

-----------------------------------------------------------------------------
(* Account strings.                                                        *)

STELLAR_ADDRESS_SIZE == 56
VERSION_G == 48          \* 6 << 3, "G" in base32

\* Version byte, the key, the checksum low byte first, in base32.
stellar_publicAddressAsStr(key) ==
  LET full == <<VERSION_G>> \o key
      checksum == stellar_crc16(full, 33)
  IN  base32_encode(full \o <<checksum % 256, checksum \div 256>>)

\* Mutant: the stored checksum read high byte first.
stellar_validateAddressBigEndian(s) ==
  /\ Len(s) = STELLAR_ADDRESS_SIZE
  /\ Base32Ok(s)
  /\ LET decoded == base32_decode(s)
     IN  /\ decoded[1] = VERSION_G
         /\ stellar_crc16(decoded, 33) = decoded[34] * 256 + decoded[35]

\* strlen 56, base32_decode succeeds, version byte 0x30, and the checksum
\* (decoded[34] << 8) | decoded[33] equals the CRC of the first 33 bytes.
stellar_validateAddress(s) ==
  /\ Len(s) = STELLAR_ADDRESS_SIZE
  /\ Base32Ok(s)
  /\ LET decoded == base32_decode(s)
     IN  /\ decoded[1] = VERSION_G
         /\ stellar_crc16(decoded, 33) = decoded[35] * 256 + decoded[34]

\* [ok, bytes]: the 32 key bytes at offsets 1..32 of the decoded string.
stellar_getAddressBytes(s) ==
  IF stellar_validateAddress(s)
  THEN [ok |-> TRUE, bytes |-> SubSeq(base32_decode(s), 2, 33)]
  ELSE [ok |-> FALSE, bytes |-> <<>>]

-----------------------------------------------------------------------------
(* The XDR fields hashed by stellar_hashupdate_*.                          *)

\* A value's n bytes in memory, least significant first.
RECURSIVE InMemory(_, _)
InMemory(v, n) == IF n = 0 THEN <<>> ELSE <<v % 256>> \o InMemory(v \div 256, n - 1)

\* REVERSE32 / REVERSE64 swap the bytes of the value in memory.
REVERSE(bytes) == [i \in 1..Len(bytes) |-> bytes[Len(bytes) + 1 - i]]

\* data[k] = (value >> 8k) & 0xFF reads the k-th byte of the value in
\* memory, so data is the memory image of the swapped value.
\* Mutant: the REVERSE left out (a build taken for big-endian).
stellar_hashupdate_uint32NoSwap(v) == InMemory(v, 4)

stellar_hashupdate_uint32(v) == REVERSE(InMemory(v, 4))

stellar_hashupdate_uint64(v) == REVERSE(InMemory(v, 8))

stellar_hashupdate_bool(b) == stellar_hashupdate_uint32(IF b THEN 1 ELSE 0)

\* Mutant: the zero padding added even when len is a multiple of 4.
stellar_hashupdate_stringPadAlways(data) ==
  stellar_hashupdate_uint32(Len(data)) \o data
    \o [i \in 1..(4 - (Len(data) % 4)) |-> 0]

\* The length, the bytes, and 4 - len % 4 zero bytes when len % 4 # 0.
stellar_hashupdate_string(data) ==
  LET remainder == Len(data) % 4
  IN  stellar_hashupdate_uint32(Len(data)) \o data
        \o (IF remainder # 0 THEN [i \in 1..(4 - remainder) |-> 0] ELSE <<>>)

\* The account type (only 0) and the 32 key bytes.
stellar_hashupdate_address(bytes) == stellar_hashupdate_uint32(0) \o bytes

\* StellarAssetType: NATIVE 0, ALPHANUM4 1, ALPHANUM12 2.
NATIVE == 0
ALPHANUM4 == 1
ALPHANUM12 == 2

\* strlcpy(dst, code, size): at most size - 1 bytes of the code, then the
\* zeroed rest of the n-byte field that is hashed.
CodeField(code, size, n) ==
  LET k == IF Len(code) < size - 1 THEN Len(code) ELSE size - 1
  IN  [i \in 1..n |-> IF i <= k THEN code[i] ELSE 0]

\* stellar_hashupdate_asset: the type, then for a custom asset whose issuer
\* decodes, the code field and the issuer; an issuer that does not decode
\* fails the session after the type was hashed.  [ok, bytes].
stellar_hashupdate_asset(a) ==
  LET issuer == stellar_getAddressBytes(a.issuer)
      head == stellar_hashupdate_uint32(a.type)
  IN  CASE a.type # NATIVE /\ ~issuer.ok -> [ok |-> FALSE, bytes |-> head]
        [] a.type = ALPHANUM4 ->
             [ok |-> TRUE, bytes |-> head \o CodeField(a.code, 5, 4)
                                    \o stellar_hashupdate_address(issuer.bytes)]
        [] a.type = ALPHANUM12 ->
             [ok |-> TRUE, bytes |-> head \o CodeField(a.code, 13, 12)
                                    \o stellar_hashupdate_address(issuer.bytes)]
        [] OTHER -> [ok |-> TRUE, bytes |-> head]

-----------------------------------------------------------------------------
(* References, from RFC 4506 (XDR) and the Stellar XDR definitions.        *)

\* n bytes of v, most significant first.
RECURSIVE RefBigEndian(_, _)
RefBigEndian(v, n) == IF n = 0 THEN <<>> ELSE RefBigEndian(v \div 256, n - 1) \o <<v % 256>>

\* Variable-length opaque: length, bytes, zero bytes to a multiple of four.
RefOpaque(data) ==
  RefBigEndian(Len(data), 4) \o data
    \o [i \in 1..((4 - (Len(data) % 4)) % 4) |-> 0]

\* Asset: the union tag, then AssetCode4 / AssetCode12 (the code, zero
\* padded) and the issuer's AccountID (key type 0 and the key).
RefAsset(type, code, key) ==
  RefBigEndian(type, 4)
    \o (IF type = NATIVE THEN <<>>
        ELSE LET n == IF type = ALPHANUM4 THEN 4 ELSE 12
             IN  [i \in 1..n |-> IF i <= Len(code) THEN code[i] ELSE 0]
                   \o RefBigEndian(0, 4) \o key)

\* The codes a type admits: 1..4 characters, or 5..12.
CodeFits(type, code) ==
  IF type = ALPHANUM4 THEN Len(code) \in 1..4 ELSE Len(code) \in 5..12
-----------------------------------------------------------------------------------------------------------------------------------------------------
(* The encoders as the handlers call them: stellar_layoutSigningDialog    *)
(* writes the signer's account string, the operation handlers read the     *)
(* host's account strings with stellar_getAddressBytes, and                *)
(* stellar_hashupdate_* hash the fields.  A step is one call: the          *)
(* function, its input and its result.                                     *)

\* The key's string written with the seed version byte (0xC0, "S") and a
\* valid checksum.
SeedString(k) ==
  LET seed == <<192>> \o k
      crc == stellar_crc16(seed, 33)
  IN  base32_encode(seed \o <<crc % 256, crc \div 256>>)

AccountString == [k \in Keys |-> stellar_publicAddressAsStr(k)]

\* What a host can send for an account: a key's string, the string with
\* the character at a corrupted position replaced by another base32
\* character or a non-base32 one, cut by a character, or the seed string.
HostStrings ==
  UNION {LET s == AccountString[k]
         IN  {s, SubSeq(s, 1, STELLAR_ADDRESS_SIZE - 1), SeedString(k)}
               \cup UNION {{[s EXCEPT ![i] = c] : c \in ({NotB32} \cup 0..31) \ {s[i]}}
                           : i \in Positions}
         : k \in Keys}

\* Assets whose code fits its type, issued by a key or by a corrupted
\* string (the first position replaced).
HostAssets ==
  {[type |-> NATIVE, code |-> <<>>, issuer |-> <<>>]}
    \cup {a \in [type : {ALPHANUM4, ALPHANUM12}, code : AssetCodes,
                 issuer : {AccountString[k] : k \in Keys}
                            \cup {[AccountString[k] EXCEPT ![1] = NotB32] : k \in Keys}] :
            CodeFits(a.type, a.code)}

\* The results of the account-string readers, taken once per input (the
\* functions are pure).
AddressBytesOf == [s \in HostStrings |-> stellar_getAddressBytes(s)]
AssetBytesOf == [a \in HostAssets |-> stellar_hashupdate_asset(a)]

VARIABLES
  call,    \* the encoder called last
  input,   \* its argument
  output   \* its result

encVars == <<call, input, output>>

EncTypeOK ==
  call \in {"none", "publicAddressAsStr", "getAddressBytes", "uint32",
            "uint64", "bool", "string", "asset"}

EncInit == call = "none" /\ input = "none" /\ output = "none"

GetAddress(k) ==
  call' = "publicAddressAsStr" /\ input' = k /\ output' = AccountString[k]

ReadAddress(s) ==
  call' = "getAddressBytes" /\ input' = s /\ output' = AddressBytesOf[s]

HashUint32(v) == call' = "uint32" /\ input' = v /\ output' = stellar_hashupdate_uint32(v)

HashUint64(v) == call' = "uint64" /\ input' = v /\ output' = stellar_hashupdate_uint64(v)

HashBool(b) == call' = "bool" /\ input' = b /\ output' = stellar_hashupdate_bool(b)

HashString(d) == call' = "string" /\ input' = d /\ output' = stellar_hashupdate_string(d)

HashAsset(a) == call' = "asset" /\ input' = a /\ output' = AssetBytesOf[a]

EncNext ==
  \/ \E k \in Keys : GetAddress(k)
  \/ \E s \in HostStrings : ReadAddress(s)
  \/ \E v \in Uint32s : HashUint32(v) \/ HashUint64(v)
  \/ \E b \in BOOLEAN : HashBool(b)
  \/ \E d \in Opaques : HashString(d)
  \/ \E a \in HostAssets : HashAsset(a)

EncSpec == EncInit /\ [][EncNext]_encVars

-----------------------------------------------------------------------------
(* Properties.                                                             *)

\* stellar_getAddressBytes accepts exactly the strings that
\* stellar_publicAddressAsStr writes, and gives back the key the string
\* was written for; a string with one character mistyped, cut short, or
\* carrying the seed version byte is refused.  This is the agreement of the
\* writer and the reader on the version byte, the checksum's byte order
\* and the uint16 CRC, and the checksum's power to catch one mistyped
\* character.
AddressRoundTrip ==
  call = "getAddressBytes" =>
    IF \E k \in Keys : input = AccountString[k]
    THEN /\ output.ok
         /\ \E k \in Keys : input = AccountString[k] /\ output.bytes = k
    ELSE ~output.ok

\* The bytes stellar_hashupdate_uint32, _uint64, _bool, _string and _asset
\* feed to the transaction hash are the XDR encoding of the field (RFC
\* 4506 big-endian integers, zero-padded opaques, the Asset union with its
\* zero-padded code and AccountID), so the signature is over the
\* transaction the network decodes; an asset whose issuer does not decode
\* fails.
XdrIsRfc4506 ==
  CASE call = "uint32" -> output = RefBigEndian(input, 4)
    [] call = "uint64" -> output = RefBigEndian(input, 8)
    [] call = "bool" -> output = RefBigEndian(IF input THEN 1 ELSE 0, 4)
    [] call = "string" -> output = RefOpaque(input)
    [] call = "asset" ->
         IF input.type = NATIVE \/ \E k \in Keys : input.issuer = AccountString[k]
         THEN output = [ok |-> TRUE,
                        bytes |-> RefAsset(input.type, input.code,
                                    IF input.type = NATIVE THEN <<>>
                                    ELSE CHOOSE k \in Keys : input.issuer = AccountString[k])]
         ELSE ~output.ok
    [] OTHER -> TRUE
=============================================================================
