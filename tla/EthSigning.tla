----------------------------- MODULE EthSigning -----------------------------
(***************************************************************************)
(* The streaming EVM transaction-signing session of                        *)
(* src/legacy/firmware/ethereum_onekey.c.                                  *)
(*                                                                         *)
(* The host opens a session with EthereumSignTxOneKey (legacy/EIP-155) or  *)
(* EthereumSignTxEIP1559OneKey, carrying data_length and the first chunk   *)
(* of the data field; the device answers with EthereumTxRequestOneKey      *)
(* asking for at most 1024 more bytes, the host answers each request with  *)
(* EthereumTxAckOneKey, and when data_left reaches 0 the device signs and  *)
(* sends the signature.  Every exit ends in ethereum_signing_abort_onekey. *)
(*                                                                         *)
(* Data abstraction: the Keccak context is reduced to the number of data   *)
(* bytes fed into it (hashedData) and to whether the RLP "to" field was    *)
(* hashed as an address or empty (hashedTo); the exact byte stream of the  *)
(* header and trailer is the subject of module EthRlp.  The key material   *)
(* is the EMULATOR build's privkey copy and the _node pointer.  The        *)
(* firmware's uint32 is scaled to W bits (Word = 2^W); every threshold is  *)
(* computed from the width the way the code computes it.                   *)
(***************************************************************************)
EXTENDS Integers, Sequences

CONSTANTS
  W,                  \* bit width standing for uint32
  ChainIds,           \* chain_id values a request may carry
  DataLengths,        \* data_length values a request may carry
  InitialChunkSizes,  \* data_initial_chunk.size values a request may carry
  MaxSessions,        \* bound on the number of SignTx requests of a behaviour
  NULL,               \* _node == NULL
  NodeRef,            \* _node pointing at the caller's derived node
  Zero,               \* privkey after memzero
  Key                 \* privkey holding the derived private key

ASSUME W \in Nat /\ 2^W > 16000000
ASSUME MaxSessions \in Nat \ {0}

Word == 2^W
U32(x) == x % Word

\* Mutant: the bound computed from 35, the smallest offset of v.
MAX_CHAIN_ID_OFF == ((Word - 1) - 35) \div 2

\* #define MAX_CHAIN_ID ((0xFFFFFFFF - 36) >> 1)
MAX_CHAIN_ID == ((Word - 1) - 36) \div 2
\* "we use a stricter limit on data length" (init_common)
DATA_LIMIT == 16000000
\* send_request_chunk never asks for more than this
CHUNK_MAX == 1024

\* The "to" string of a request: absent, 40/42 hex digits, 42 characters
\* that are not an address, or of another length.
ToKinds == {"none", "valid", "malformed", "badlen"}
ToLen(to) == CASE to = "none" -> 0 [] to = "badlen" -> 41 [] OTHER -> 42
\* ethereum_parse_onekey succeeds (pubkeyhash_set)
ToParses(to) == to = "valid"

Requests == [chain : ChainIds, len : DataLengths, chunk : InitialChunkSizes,
             to : ToKinds]

Failure(kind) == [type |-> "Failure", kind |-> kind, val |-> 0]
TxRequest(n) == [type |-> "TxRequest", kind |-> "", val |-> n]
Signature(v) == [type |-> "Signature", kind |-> "", val |-> v]

VARIABLES
  signing,       \* ethereum_signing
  dataTotal,     \* data_total
  dataLeft,      \* data_left
  chainId,       \* chain_id
  eip1559,       \* eip1559
  accessListOk,  \* every signing_access_list[i].address parses
  node,          \* _node
  privkey,       \* privkey (EMULATOR)
  hashedData,    \* data bytes fed to keccak_ctx since sha3_256_Init
  hashedTo,      \* RLP "to" field hashed: "address" (20 bytes) or "contract"
  sessions,      \* SignTx requests handled so far (history)
  req,           \* the request handled by the last step (history)
  resp,          \* the messages the last step wrote to the host (history)
  ackParity      \* parity of the TxAcks received so far (history): two
                 \* identical TxAcks in a row are two steps, not a stutter

vars == <<signing, dataTotal, dataLeft, chainId, eip1559, accessListOk, node,
          privkey, hashedData, hashedTo, sessions, req, resp, ackParity>>

\* The uint32 counters never hold more than the 16000000 bytes init_common
\* admits, whatever the session's history (data_left keeps its value after
\* an abort).
TypeOK ==
  /\ signing \in BOOLEAN
  /\ dataTotal \in 0..DATA_LIMIT
  /\ dataLeft \in 0..DATA_LIMIT
  /\ chainId \in {0} \cup ChainIds
  /\ eip1559 \in BOOLEAN
  /\ accessListOk \in BOOLEAN
  /\ node \in {NULL, NodeRef}
  /\ privkey \in {Zero, Key}
  /\ hashedData \in Nat
  /\ hashedTo \in {"address", "contract"}
  /\ sessions \in 0..MaxSessions
  /\ req \in {"none", "SignTx", "SignTxEIP1559", "TxAck"}
  /\ ackParity \in {0, 1}
  /\ resp \in Seq([type : {"Failure", "TxRequest", "Signature"},
                   kind : {"", "DataError", "ActionCancelled", "ProcessError",
                           "UnexpectedMessage"},
                   val : Int])

Init ==
  /\ signing = FALSE
  /\ dataTotal = 0
  /\ dataLeft = 0
  /\ chainId = 0
  /\ eip1559 = FALSE
  /\ accessListOk = TRUE
  /\ node = NULL
  /\ privkey = Zero
  /\ hashedData = 0
  /\ hashedTo = "contract"
  /\ sessions = 0
  /\ req = "none"
  /\ resp = <<>>
  /\ ackParity = 0

-----------------------------------------------------------------------------
(* Helpers of the handlers.  Each is the primed effect of one function.     *)

\* Mutants: an abort that forgets the memzero of privkey, or that forgets
\* to clear ethereum_signing.
AbortKeepsKey ==
  /\ signing' = FALSE
  /\ node' = NULL
  /\ UNCHANGED privkey

AbortKeepsSigning ==
  /\ UNCHANGED signing
  /\ node' = NULL
  /\ privkey' = Zero

\* ethereum_signing_abort_onekey, called while ethereum_signing is set
Abort ==
  /\ signing' = FALSE
  /\ node' = NULL
  /\ privkey' = Zero

\* send_signature: v is the recovery bit, plus 2 * chain_id + 35 for legacy
\* chains up to MAX_CHAIN_ID, stored in the uint32 signature_v.
SignatureV(isEip, chain, recid) ==
  IF isEip \/ chain > MAX_CHAIN_ID THEN recid
  ELSE U32(recid + 2 * chain + 35)

\* send_signature: hash the access list (EIP-1559) or the EIP-155 triple,
\* sign, answer, abort.  The hashing itself is modelled in EthRlp.
SendSignature(isEip, chain, alOk) ==
  /\ Abort
  /\ \/ /\ isEip /\ ~alOk
        /\ resp' = <<Failure("DataError")>>          \* "Malformed address"
     \/ /\ ~isEip \/ alOk
        /\ resp' = <<Failure("ProcessError")>>       \* "Signing failed"
     \/ /\ ~isEip \/ alOk
        /\ \E recid \in {0, 1} :                     \* ethereum_is_canonic
              resp' = <<Signature(SignatureV(isEip, chain, recid))>>

\* Mutant: signs while one byte is still missing.
RequestOrSignEarly(left, n, k, isEip, chain, alOk) ==
  IF left > 1
  THEN /\ signing' = TRUE
       /\ node' = n
       /\ privkey' = k
       /\ resp' = <<TxRequest(IF left <= CHUNK_MAX THEN left ELSE CHUNK_MAX)>>
  ELSE SendSignature(isEip, chain, alOk)

\* data_left > 0 ? send_request_chunk() : send_signature(); while more data
\* is wanted the node and the key stay as n and k.
RequestOrSign(left, n, k, isEip, chain, alOk) ==
  IF left > 0
  THEN /\ signing' = TRUE
       /\ node' = n
       /\ privkey' = k
       /\ resp' = <<TxRequest(IF left <= CHUNK_MAX THEN left ELSE CHUNK_MAX)>>
  ELSE SendSignature(isEip, chain, alOk)

\* Mutant: init_common without the "Invalid size of initial chunk" check.
CommonOkNoChunkCheck(m) ==
  /\ m.chain >= 1
  /\ m.len > 0 => m.chunk > 0
  /\ m.len <= DATA_LIMIT
  /\ ToLen(m.to) \in {0, 40, 42}
  /\ ~(ToLen(m.to) = 0 /\ m.len = 0)

\* The checks of ethereum_signing_init_common, all answered with DataError.
CommonOk(m) ==
  /\ m.chain >= 1                                     \* "Chain ID out of bounds"
  /\ m.len > 0 => m.chunk > 0           \* "Data length provided, but no initial chunk"
  /\ m.len <= DATA_LIMIT                              \* "Data length exceeds limit"
  /\ m.chunk <= m.len                                 \* "Invalid size of initial chunk"
  /\ ToLen(m.to) \in {0, 40, 42}                      \* "Safety check failed"
  /\ ~(ToLen(m.to) = 0 /\ m.len = 0)

\* chain_id and data_total as init_common leaves them after its first
\* failing check (it resets both to 0 first).
ChainAfter(m) == IF m.chain < 1 THEN 0 ELSE m.chain
TotalAfter(m) ==
  IF m.chain >= 1 /\ (m.len > 0 => m.chunk > 0) /\ m.len <= DATA_LIMIT
  THEN m.len ELSE 0

\* The request passed every check and the user confirmed: stage 1 and 2
\* hash the header and the initial chunk, the node is kept, and the session
\* asks for more data or signs.
StartHashing(m, isEip, alOk) ==
  LET left == U32(m.len - m.chunk) IN
  /\ dataTotal' = m.len
  /\ dataLeft' = left
  /\ hashedData' = m.chunk
  /\ hashedTo' = IF ToParses(m.to) THEN "address" ELSE "contract"
  /\ accessListOk' = alOk
  /\ RequestOrSign(left, NodeRef, Key, isEip, m.chain, alOk)

\* ethereum_signing_init_onekey / _eip1559_onekey: eip1559 is set, then
\* init_common (which sets ethereum_signing, resets the hash, the totals and
\* the access list), then the chain specific checks (fee sizes; tx_type for
\* legacy), the signer's pubkeyhash, and the user's confirmation.  Every
\* failure answers with one Failure and aborts.
SignTxCommon(m, isEip, alOk) ==
  /\ sessions < MaxSessions
  /\ sessions' = sessions + 1
  /\ eip1559' = isEip
  /\ chainId' = ChainAfter(m)
  /\ \/ /\ ~CommonOk(m)
        /\ resp' = <<Failure("DataError")>>
        /\ Abort
        /\ dataTotal' = TotalAfter(m) /\ dataLeft' = 0
        /\ hashedData' = 0 /\ accessListOk' = TRUE /\ UNCHANGED hashedTo
     \/ /\ CommonOk(m)
        \* "Safety check failed" (fee sizes), "Txtype out of bounds",
        \* pubkeyhash failure (DataError); user rejected (ActionCancelled)
        /\ \E kind \in {"DataError", "ActionCancelled"} :
              resp' = <<Failure(kind)>>
        /\ Abort
        /\ dataTotal' = m.len /\ dataLeft' = 0
        /\ hashedData' = 0 /\ accessListOk' = TRUE /\ UNCHANGED hashedTo
     \/ /\ CommonOk(m)
        /\ StartHashing(m, isEip, alOk)

SignTx(m) ==
  /\ req' = "SignTx"
  /\ UNCHANGED ackParity
  /\ SignTxCommon(m, FALSE, TRUE)

SignTxEIP1559(m) ==
  /\ req' = "SignTxEIP1559"
  /\ UNCHANGED ackParity
  /\ \E alOk \in BOOLEAN : SignTxCommon(m, TRUE, alOk)

\* The chunk sizes a host may send: none, what was asked, the whole rest,
\* one byte too many.
AckSizes ==
  {0, IF dataLeft <= CHUNK_MAX THEN dataLeft ELSE CHUNK_MAX,
   dataLeft, dataLeft + 1}

\* Mutant: txack without the "Empty data chunk received" check.
AckOkEmpty(size) == size <= dataLeft

\* ethereum_signing_txack_onekey accepts a chunk that is not longer than
\* data_left ("Too much data") and not empty while data is wanted ("Empty
\* data chunk received").
AckOk(size) ==
  /\ size <= dataLeft
  /\ dataLeft > 0 => size > 0

\* ethereum_signing_txack_onekey
TxAck ==
  /\ req' = "TxAck"
  /\ ackParity' = 1 - ackParity
  /\ UNCHANGED <<chainId, eip1559, accessListOk, dataTotal, hashedTo, sessions>>
  /\ \/ /\ ~signing
        /\ resp' = <<Failure("UnexpectedMessage")>>
        /\ UNCHANGED <<signing, dataLeft, node, privkey, hashedData>>
     \/ /\ signing
        /\ \E size \in AckSizes :
             \/ /\ ~AckOk(size)
                /\ resp' = <<Failure("DataError")>>
                /\ Abort
                /\ UNCHANGED <<dataLeft, hashedData>>
             \/ /\ AckOk(size)
                /\ hashedData' = hashedData + size
                /\ dataLeft' = U32(dataLeft - size)
                /\ RequestOrSign(dataLeft', node, privkey, eip1559, chainId,
                                  accessListOk)

Next ==
  \/ \E m \in Requests : SignTx(m)
  \/ \E m \in Requests : SignTxEIP1559(m)
  \/ TxAck

Spec == Init /\ [][Next]_vars

\* The host keeps answering: TxAck is always enabled and the device waits
\* for it without a timeout, so only a host that answers ends a session.
FairSpec == Spec /\ WF_vars(TxAck)

-----------------------------------------------------------------------------
(* Properties                                                              *)

\* Zero residue: the private key copy and the node pointer exist only while
\* a session is open.  Every exit of ethereum_signing_init_onekey,
\* ethereum_signing_txack_onekey and send_signature (failure, cancel,
\* signature, a new SignTx over an open session) must leave them cleared.
KeyConfinement == (privkey # Zero \/ node # NULL) => signing

\* Between two requests an open session is waiting for data: 0 < data_left
\* <= data_total <= the 16000000 limit, and the bytes already hashed plus
\* the bytes still wanted are exactly the declared data_length.  This is
\* what keeps send_request_chunk's progress division away from zero and
\* data_left from wrapping in ethereum_signing_txack_onekey.
CollectingInvariant ==
  signing =>
    /\ 0 < dataLeft
    /\ dataLeft <= dataTotal
    /\ dataTotal <= DATA_LIMIT
    /\ hashedData + dataLeft = dataTotal

\* send_signature runs only when exactly data_length bytes of data went
\* into the Keccak context, however the host split them into chunks.
SignatureCoversData ==
  \A i \in DOMAIN resp :
    resp[i].type = "Signature" => hashedData = dataTotal

\* The comment on MAX_CHAIN_ID: a legacy signature_v is the full
\* recid + 2 * chain_id + 35 whenever that fits in a uint32, and only the
\* recovery bit otherwise (and always for EIP-1559).
SignatureVDecodes ==
  \A i \in DOMAIN resp :
    resp[i].type = "Signature" =>
      IF eip1559 \/ 2 * chainId + 36 > Word - 1
      THEN resp[i].val \in {0, 1}
      ELSE resp[i].val - 35 - 2 * chainId \in {0, 1}

\* A host that keeps answering sees every session end: data_left strictly
\* falls on every accepted TxAck and every other answer aborts.
SessionEnds == signing ~> ~signing

\* The safety check of init_common: a transaction to address 0 (contract
\* creation) without a data field is refused.  So a signed transaction
\* whose RLP "to" field is empty carries data.
ContractCreationCarriesData ==
  \A i \in DOMAIN resp :
    resp[i].type = "Signature" /\ hashedTo = "contract" => dataTotal > 0

\* The session implements the chain independent promise of SigningSession.
Session == INSTANCE SigningSession WITH
  Limit <- DATA_LIMIT,
  active <- signing,
  remaining <- IF signing THEN dataLeft ELSE 0,
  outcome <- IF resp = <<>> THEN "none"
             ELSE CASE resp[1].type = "Failure" -> "failed"
                    [] resp[1].type = "TxRequest" -> "request"
                    [] resp[1].type = "Signature" -> "signed",
  request <- CASE req = "none" -> "none"
               [] req = "TxAck" -> "Ack"
               [] OTHER -> "Init"

SessionRefinement == Session!Spec

=============================================================================
