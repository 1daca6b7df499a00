---------------------------- MODULE BenfenSigning ----------------------------
(***************************************************************************)
(* The streaming Benfen transaction-signing session of                     *)
(* src/legacy/firmware/benfen.c.                                           *)
(*                                                                         *)
(* BenfenSignTx carries data_length and the first chunk; the device checks *)
(* the first three bytes, copies the chunk into common_tx_data_buffer      *)
(* (20480 bytes), caches the node and hashes the chunk with Blake2b; it    *)
(* asks for at most 1024 more bytes with BenfenTxRequest until data_left   *)
(* is 0, then shows the buffer for blind signing and signs the digest with *)
(* node_cache.  benfen_signing_abort zeroes node_cache and both counters.  *)
(* benfen_sign_tx signs a whole raw_tx in one request, beside the session. *)
(*                                                                         *)
(* Data abstraction: the first three bytes are classified as the           *)
(* transaction intent 00 00 00, the personal-message intent 03 00 00 (a    *)
(* zero among them), or no zero at all; the Blake2b context is the number  *)
(* of bytes fed since blake2b_Init and whether blake2b_Final ran.  The     *)
(* uint32 counters are scaled to W bits.                                   *)
(***************************************************************************)
EXTENDS Integers, Sequences

CONSTANTS
  W,                  \* bit width standing for uint32
  DataLengths,        \* data_length values a request may carry
  InitialChunkSizes,  \* data_initial_chunk.size values a request may carry
  MaxSessions,        \* bound on the number of BenfenSignTx requests
  Zero,               \* node_cache after memzero
  Key                 \* node_cache holding the caller's node

ASSUME W \in Nat /\ 2^W > 20480
ASSUME MaxSessions \in Nat \ {0}

Word == 2^W
U32(x) == x % Word

\* #define MAX_COMMON_TX_DATA_SIZE 20480, sizeof(common_tx_data_buffer)
MAX_COMMON_TX_DATA_SIZE == 20480
CHUNK_MAX == 1024

\* The first three bytes of the initial chunk.
Intents == {"tx", "msg", "none"}

Requests == [len : DataLengths, chunk : InitialChunkSizes, intent : Intents]

Failure(kind) == [type |-> "Failure", kind |-> kind, val |-> 0, key |-> Zero, fresh |-> TRUE]
TxRequest(n) == [type |-> "TxRequest", kind |-> "", val |-> n, key |-> Zero, fresh |-> TRUE]
\* A BenfenSignedTx: signed with node_cache = key, over a context that was
\* (fresh) or was not (already finalised) open.
Signed(key, fresh) == [type |-> "Signed", kind |-> "", val |-> 0, key |-> key, fresh |-> fresh]

VARIABLES
  signing,     \* benfen_signing
  dataTotal,   \* data_total
  dataLeft,    \* data_left
  nodeCache,   \* node_cache
  bufLen,      \* global_data_chunk_size (bytes in common_tx_data_buffer)
  hashed,      \* bytes fed to hash_ctx since blake2b_Init
  hashFinal,   \* blake2b_Final has run on hash_ctx since blake2b_Init
  intent,      \* first three bytes of the last BenfenSignTx (history)
  sessions,    \* BenfenSignTx requests so far (history)
  req,         \* the request of the last step (history)
  resp,        \* the messages the last step wrote (history)
  ackParity    \* parity of the TxAcks received (history)

vars == <<signing, dataTotal, dataLeft, nodeCache, bufLen, hashed, hashFinal,
          intent, sessions, req, resp, ackParity>>

TypeOK ==
  /\ signing \in BOOLEAN
  /\ dataTotal \in 0..(Word - 1)
  /\ dataLeft \in 0..(Word - 1)
  /\ nodeCache \in {Zero, Key}
  \* the buffer never holds more than its capacity
  /\ bufLen \in 0..MAX_COMMON_TX_DATA_SIZE
  /\ hashed \in Nat
  /\ hashFinal \in BOOLEAN
  /\ intent \in Intents
  /\ sessions \in 0..MaxSessions
  /\ req \in {"none", "SignTx", "SignTxOneShot", "TxAck"}
  /\ ackParity \in {0, 1}

Init ==
  /\ signing = FALSE
  /\ dataTotal = 0
  /\ dataLeft = 0
  /\ nodeCache = Zero
  /\ bufLen = 0
  /\ hashed = 0
  /\ hashFinal = FALSE
  /\ intent = "tx"
  /\ sessions = 0
  /\ req = "none"
  /\ resp = <<>>
  /\ ackParity = 0

-----------------------------------------------------------------------------

\* The counters and the flag after benfen_signing_abort, entered with
\* benfen_signing = active and data_total/data_left = total/left: it acts
\* only if a session is open.
AbortCounters(active, total, left) ==
  IF active
  THEN /\ signing' = FALSE /\ dataTotal' = 0 /\ dataLeft' = 0
  ELSE /\ signing' = signing /\ dataTotal' = total /\ dataLeft' = left

\* send_signature: blind-sign dialog over the buffer; on cancel a Failure
\* and abort, otherwise blake2b_Final, sign with node_cache, memzero
\* node_cache, abort.  key and fin are node_cache and the context's state
\* when it is called.
SendSignature(active, key, total, left, fin) ==
  \/ /\ resp' = <<Failure("ActionCancelled")>>
     /\ nodeCache' = IF active THEN Zero ELSE key
     /\ hashFinal' = fin
     /\ AbortCounters(active, total, left)
  \/ /\ resp' = <<Signed(key, ~fin)>>
     /\ nodeCache' = Zero
     /\ hashFinal' = TRUE
     /\ AbortCounters(active, total, left)

\* Mutant: signs while one byte is still missing.
RequestOrSignEarly(active, key, total, left, fin) ==
  IF left > 1
  THEN /\ signing' = active /\ nodeCache' = key
       /\ dataTotal' = total /\ dataLeft' = left /\ hashFinal' = fin
       /\ resp' = <<TxRequest(IF left <= CHUNK_MAX THEN left ELSE CHUNK_MAX)>>
  ELSE SendSignature(active, key, total, left, fin)

\* if (data_left > 0) send_request_chunk(); else send_signature();
RequestOrSign(active, key, total, left, fin) ==
  IF left > 0
  THEN /\ signing' = active /\ nodeCache' = key
       /\ dataTotal' = total /\ dataLeft' = left /\ hashFinal' = fin
       /\ resp' = <<TxRequest(IF left <= CHUNK_MAX THEN left ELSE CHUNK_MAX)>>
  ELSE SendSignature(active, key, total, left, fin)

\* The check of benfen_signing_init (and handle_hash): the request is
\* refused only if data[0], data[1] and data[2] are all non-zero.
IntentAccepted(i) == ~(i = "none")

\* benfen_signing_init
SignTx(m) ==
  /\ sessions < MaxSessions
  /\ sessions' = sessions + 1
  /\ req' = "SignTx"
  /\ intent' = m.intent
  /\ UNCHANGED ackParity
  /\ \/ /\ ~IntentAccepted(m.intent)
        /\ resp' = <<Failure("DataError")>>              \* "Invalid raw tx"
        /\ nodeCache' = Zero
        /\ AbortCounters(TRUE, dataTotal, dataLeft)
        /\ hashed' = 0 /\ hashFinal' = FALSE
        /\ UNCHANGED bufLen
     \/ /\ IntentAccepted(m.intent)
        /\ bufLen' = m.chunk
        /\ hashed' = m.chunk
        /\ RequestOrSign(TRUE, Key, m.len, U32(m.len - m.chunk), FALSE)

\* Mutant: an abort that leaves node_cache as it is.
RefuseAckKeepsKey ==
  /\ resp' = <<Failure("DataError")>>
  /\ UNCHANGED nodeCache
  /\ AbortCounters(signing, dataTotal, dataLeft)
  /\ UNCHANGED <<bufLen, hashed, hashFinal>>

\* Any refused TxAck: a DataError and benfen_signing_abort.
RefuseAck ==
  /\ resp' = <<Failure("DataError")>>
  /\ nodeCache' = IF signing THEN Zero ELSE nodeCache
  /\ AbortCounters(signing, dataTotal, dataLeft)
  /\ UNCHANGED <<bufLen, hashed, hashFinal>>

\* Mutant: txack without the "Empty data chunk received" check.
AckOkEmpty(size) == size <= dataLeft

\* "Too much data" and "Empty data chunk received"
AckOk(size) ==
  /\ size <= dataLeft
  /\ dataLeft > 0 => size > 0

\* Mutant: the overflow check of the buffer left out.
FitsBufferAlways(size) == TRUE

\* "Global buffer overflow"
FitsBuffer(size) == bufLen + size <= MAX_COMMON_TX_DATA_SIZE

\* Mutant: the chunk is hashed but global_data_chunk_size not advanced.
StoreChunkNoAdvance(size) ==
  /\ bufLen' = bufLen
  /\ hashed' = hashed + size

\* memcpy into the buffer, global_data_chunk_size += size, hash_data
StoreChunk(size) ==
  /\ bufLen' = bufLen + size
  /\ hashed' = hashed + size

AckSizes ==
  {0, IF dataLeft <= CHUNK_MAX THEN dataLeft ELSE CHUNK_MAX, dataLeft, dataLeft + 1}

\* benfen_signing_txack: note that it does not look at benfen_signing.
TxAck ==
  /\ req' = "TxAck"
  /\ ackParity' = 1 - ackParity
  /\ UNCHANGED <<intent, sessions>>
  /\ \E size \in AckSizes :
       \/ /\ ~AckOk(size)
          /\ RefuseAck
       \/ /\ AckOk(size) /\ ~FitsBuffer(size)
          /\ RefuseAck
       \/ /\ AckOk(size) /\ FitsBuffer(size)
          /\ StoreChunk(size)
          /\ RequestOrSign(signing, nodeCache, dataTotal, U32(dataLeft - size), hashFinal)

\* benfen_sign_tx, the one-shot form: handle_hash makes the same intent
\* check and hashes raw_tx, the blind-sign dialog is shown, and
\* handle_signature signs with the caller's node.  None of the session's
\* statics are touched.  (The NULL-argument check cannot fire: fsm passes
\* its own buffers.)
SignTxOneShot(m) ==
  /\ sessions < MaxSessions
  /\ sessions' = sessions + 1
  /\ req' = "SignTxOneShot"
  /\ intent' = m.intent
  /\ \/ /\ ~IntentAccepted(m.intent)
        /\ resp' = <<Failure("DataError")>>              \* "Invalid raw tx"
     \/ /\ IntentAccepted(m.intent)
        /\ resp' \in {<<Failure("ActionCancelled")>>, <<Signed(Key, TRUE)>>}
  /\ UNCHANGED <<signing, dataTotal, dataLeft, nodeCache, bufLen, hashed,
                 hashFinal, ackParity>>

Next ==
  \/ \E m \in Requests : SignTx(m)
  \/ \E m \in Requests : SignTxOneShot(m)
  \/ TxAck

Spec == Init /\ [][Next]_vars

\* The device waits for the host without a timeout: only a host that keeps
\* answering ends a session.
FairSpec == Spec /\ WF_vars(TxAck)

-----------------------------------------------------------------------------
(* Properties                                                              *)

\* node_cache holds the caller's node only while a session is open: every
\* exit (invalid raw tx, cancel, signature, refused chunk) zeroes it.
KeyConfinement == nodeCache = Key => signing

\* While a session is open, common_tx_data_buffer holds exactly the bytes
\* fed to the Blake2b context, so the blind-sign dialog shows what is
\* signed.
BufferHoldsHashedData == signing => bufLen = hashed

\* A host that keeps answering sees every session end, by a signature,
\* a cancel, or a refused chunk (at the latest when the buffer is full).
SessionEnds == signing ~> ~signing

\* Spec, SessionState: while Collecting, bytes_remaining <= total_length and
\* strictly decreases to 0; the bytes hashed plus the bytes still wanted are
\* the declared length.
CollectingInvariant ==
  signing =>
    /\ 0 < dataLeft
    /\ dataLeft <= dataTotal
    /\ hashed + dataLeft = dataTotal

\* Spec, Session: an Ack with no active session is rejected, and the digest
\* is finalised once.  So every BenfenSignedTx is made with the session's
\* node over a context finalised for the first time.
SignsOnlySessionData ==
  \A i \in DOMAIN resp :
    resp[i].type = "Signed" => resp[i].key = Key /\ resp[i].fresh

\* Spec, profile of this chain: the first three bytes must be zero (the
\* transaction intent).  So a BenfenSignedTx is never made over data that
\* starts with another intent, such as that of a personal message.
SignedDataIsTxIntent ==
  \A i \in DOMAIN resp : resp[i].type = "Signed" => intent = "tx"

=============================================================================
