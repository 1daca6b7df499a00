# TLA+ models of the OneKey Classic 1s legacy firmware (chain signing code)

This directory holds TLA+ models of the code under `src/legacy/firmware/`.
That code is the part of the firmware that signs transactions for the chains
this repository adds: Ethereum/EVM, Benfen, Starcoin, Stellar and Tron, plus
the U2F HID transport. Each module is translated from the C source. The
PROJECT.json "map" names the lines every definition stands for.

## 1. The system

### Parts and how they interact

All handlers run on one thread. A host message arrives over USB/BLE, the
`fsm_msg*` dispatcher calls a handler, the handler may block on the screen
(`protectButton`, `layout*`), and it answers with `msg_write` or
`fsm_sendFailure`. Concurrency therefore comes from the host. The host may
send any message in any order: a TxAck with no session open, a second SignTx
over an open session, a chunk of the wrong size. The device's static state
has to survive all of these orders.

| Part | Source | State | Operations |
|---|---|---|---|
| EVM streaming signer | `ethereum_onekey.c` 46-58, 227-316, 489-973 | `ethereum_signing`, `data_total`, `data_left`, `chain_id`, `eip1559`, `_node`, `privkey`, `keccak_ctx`, `signing_access_list` | SignTxOneKey, SignTxEIP1559OneKey, TxAckOneKey, abort |
| EVM RLP encoder | `ethereum_onekey.c` 81-225 | feeds `keccak_ctx` | `hash_rlp_*`, `rlp_calculate_*` (pure length/prefix arithmetic) |
| EVM message / typed data signing, path checks | `ethereum_onekey.c` 975-1264 | none | one-shot hash and sign, message verify, hex address parse, BIP-44 / casa45 path checks |
| EVM confirmation screens | `ethereum_onekey.c` 317-477, 548-651 | none | amount/fee formatting, ERC-20 / NFT detection |
| Benfen streaming signer | `benfen.c` | `benfen_signing`, `data_total`, `data_left`, `node_cache`, `global_data_chunk_size`, `common_tx_data_buffer` | SignTx, TxAck, abort, one-shot sign tx, message sign |
| Common tx buffer, ULEB128 | `common_tx.c`, `common_tx.h` | 20480-byte buffer | `uleb_encode` |
| Starcoin | `starcoin.c` | none | sign tx (prefix hash), sign/verify message (LEB128 length) |
| Stellar multi-operation signer | `stellar.c` | `stellar_signing`, `stellar_activeTx` (counts of operations), hash ctx | signingInit, one confirm handler per operation type, fillSignedTx, abort |
| Tron | `tron.c` | none across calls; within `tron_sign_tx` the pager's `index` and the `buf`/`index` of the serialiser | protobuf serialiser (`add_field`, `write_varint`, `pack_contract`, `serialize`), the paged confirmation layouts, sign tx, sign message |
| U2F HID transport | `u2f.c` | reassembly state (`cid`, `seq`, `reader`), 130-packet out ring, `dialog_timeout`, `last_req_state` | `u2fhid_read`, init/msg/ping commands, register, authenticate |
| one-shot chain handlers | `fsm_msg_{algorand,near,cosmos,ripple}.h` | none | CHECK_PIN, derive node, sign, answer |
| settings menu helpers | `menu_para.c` | storage settings | index ↔ value tables |
| headers | `fido2/ctap_trans.h`, `cosmos/parser.h` | none | declarations |

### The hard behaviours

* **Host-driven protocol order.** Every streaming session (EVM, Benfen) is a
  loop of request → TxAck. The host decides the chunk sizes and may send a
  message the device does not expect. The code relies on a flag
  (`ethereum_signing`, `benfen_signing`) and on `data_left`. Benfen's
  `txack` does not look at its flag.
* **Unsigned arithmetic.** `data_left = data_total - chunk` and
  `data_left -= size` are uint32. `signature_v = v + 2*chain_id + 35` is
  stored in a uint32. `MAX_CHAIN_ID` exists to keep that sum from wrapping.
* **Key residue.** `privkey` (emulator), `_node` and `node_cache` hold key
  material. They must be cleared on every exit, including a new request over
  an open session.
* **Encodings at their boundaries.** RLP length prefixes switch form at 56
  bytes and at 256/65536. The single byte below 0x80 is encoded as itself.
  A number 0 is one special case. LEB128 has to encode 0 as one byte.
* **Bounded buffers.** The U2F out ring holds 129 packets and drops silently.
  The 20480-byte common buffer has its own limit. The Stellar operation
  counter is compared with `num_operations`.
* **One thread, two loops.** `u2fhid_read_start` polls USB from inside its
  own loops, so a frame can arrive while a message is collected or while a
  dialog waits for the button.

## 2. Modules

| Module | Models | Source |
|---|---|---|
| `SigningSession` | The abstract promise of a streaming signer: open asks for 1..Limit bytes, each chunk strictly lowers what is left, and the session ends signed or failed. | spec §4 |
| `EthSigning`, `MC_EthSigning` | The EVM session. It refines `SigningSession`. | `ethereum_onekey.c` |
| `EthRlp`, `MC_EthRlp` | The RLP byte stream that init, hash_data and send_signature feed to Keccak. | `ethereum_onekey.c` 81-225, 489-973 |
| `Leb128`, `MC_Leb128` | `uleb_encode`, Starcoin's `unsigned_int_to_leb128` + `strlen`, and Tron's `write_varint`. | `common_tx.c`, `starcoin.c`, `tron.c` |
| `EthMessage`, `MC_EthMessage` | Personal-message and EIP-712 typed-hash signing, the EIP-191 length ladder, `ethereum_parse_onekey`, message verification, and `tron_message_sign`. | `ethereum_onekey.c` 975-1160, `tron.c` 48-84 |
| `OneShotHandlers` | The eight one-shot handlers of `fsm_msg_{cosmos,ripple,algorand,near}.h` (GetAddress, SignTx): their ladders of early returns and the answers. | `fsm_msg_*.h` |
| `RequestLoop` | The request loop serving Tron transactions, EVM/Tron messages and the one-shot handlers one at a time: `TronSigning`, `EthMessage` and `OneShotHandlers` composed. | spec §5 (dispatch is outside this tree) |
| `TronSerialize` | The protobuf serialiser of `tron.c` as operators, and `RefRaw`, the reference protobuf encoding of the same request. | `tron.c` 42-573 |
| `TronSigning`, `MC_TronSigning` | `tron_sign_tx` (`MC_TronSigning` instantiates the composition `RequestLoop`): the data checks, the confirmation dialogs and pagers with the user's keys, serialize and the signature. | `tron.c` 575-1261 |
| `BenfenSigning`, `MC_BenfenSigning` | The Benfen session: signingInit, txack, send_signature, abort; and the one-shot benfen_sign_tx. | `benfen.c` |
| `StellarSigning`, `MC_StellarSigning` | signingInit, the 13 operation handlers, the answer after each operation, and abort. | `stellar.c` |
| `StellarEncoding`, `MC_StellarEncoding` | The account-string writer and readers (`stellar_publicAddressAsStr`, `stellar_validateAddress`, `stellar_getAddressBytes`, `stellar_crc16`) and the XDR `stellar_hashupdate_*` encoders, one call per step. | `stellar.c` 1525-1759 |
| `U2fHid`, `MC_U2fHid` | Frame reassembly, the collect and wait loops of `u2fhid_read_start`, the reply ring, and the register/authenticate user-presence machine. | `u2f.c` |

The modules do not interact through shared state. Each chain handler owns
its statics, and U2F owns the transport. Composition is therefore mostly by
refinement (`EthSigning` of `SigningSession`) and by shared operators
(`Leb128` checks the encoders that the message handlers use; `TronSerialize`
takes `write_varint` from it by `INSTANCE`, and `TronSigning` extends
`TronSerialize`). The one composition of state machines is
`RequestLoop`: the Tron transaction handler, the message handlers and
the one-shot handlers take turns on the device's single request loop (see below).

### EthSigning

Variables: `signing`, `dataTotal`, `dataLeft`, `chainId`, `eip1559`, `node`,
`privkey` and `accessListOk` are the statics of the same name. `hashedData`
and `hashedTo` abstract the Keccak context to the data bytes hashed and the
kind of RLP `to`. `sessions`, `req` and `resp` are history.

Actions:

* `SignTx` / `SignTxEIP1559` are the two init functions. Both go through
  `SignTxCommon`, whose checks are `CommonOk`, `ChainAfter` and `TotalAfter`.
  They then fail, start hashing (`StartHashing`), or go to `RequestOrSign`.
* `TxAck` is `ethereum_signing_txack_onekey`, with the checks in `AckOk`.
* `SendSignature` has three outcomes: "Malformed address", "Signing failed",
  and a signature with v from `SignatureV`. Every exit goes through `Abort`.

Fee sizes, tx_type, pubkeyhash derivation and the user's answer all fail the
same way, so they are one nondeterministic failure branch.

### EthRlp

A byte string is `[len, first]`, because that is all the encoder looks at.
A hashed stream is a sequence of header bytes and payload runs. The actions
are the three places that hash:

* `SignTxHeader`: stage 1 computes the list length with `rlp_calculate_*`;
  stage 2 hashes the header, the fields and the data header.
* `HashData`: the data chunks.
* `SendSignatureLegacy` / the access list: the EIP-155 triple or the EIP-2930
  access list.

`RefTx` is the RLP of the yellow paper (appendix B), written independently
as RECURSIVE operators.

### Leb128

The three encoders are RECURSIVE operators translated loop by loop.
`RefUleb` is the reference ULEB128. Each handler step records the bytes put
between the domain prefix and the message body.

### EthMessage

Four one-shot handlers, each an action whose input is drawn from a
constant set: `EthereumSignMessage`, `EthereumSignTypedHash`,
`EthereumVerifyMessage`, and Tron's `TronMessageSign`, which signs
keccak("\x19TRON Signed Message:\n32" || keccak(message)) with the same
`SignDigest` tail (v = 27 + recid). The history variables `mreq` and `mresp` hold
the last request and the answer.

* Keccak is taken as injective, so a digest is its preimage. The 26-byte
  prefix "\x19Ethereum Signed Message:\n" is one token. The length
  digits are ASCII codes computed by `LengthDigits`, which is the ten
  `>= 10^k` tests of `ethereum_message_hash`. The body is a model value.
* A signature is a record of its key, its digest and its recovery id.
  Recovery with the signed digest and recid returns the signer. With
  anything else it fails or returns `Stray`, a key nobody holds.
* `ethereum_parse_onekey` works on real 40- and 42-character ASCII
  strings, nibble by nibble. `VerifyResults` follows the verifier's order:
  size, address, hash, v fold, `v >= 2`, recovery, and the comparison of
  the public-key hash.
* `RefDecimal` (RECURSIVE) and `SpellsPkh` are references. They are
  written from EIP-191 and from the hex address format, not from the code.
* `VerifyExact`: for every address spelling of a device key, verify
  returns 0 exactly when the request carries that key's 65-byte EIP-191
  signature of the message, with v equal to recid or 27 + recid.
* `MessageSignatureVerifies`: a signature the device returns is over the
  EIP-191 hash, and the device's own verifier accepts it as sent.

Tron message digests are among the verify inputs, so `VerifyExact` also
says that the EVM verifier never accepts a Tron message signature.

### RequestLoop

`RequestLoop` extends `TronSigning`, `EthMessage` and `OneShotHandlers`.
Requests are served one at a time to completion (spec §5). `tron_sign_tx`
keeps its request while its dialogs wait for keys, so any other request is
taken only when `pc = "idle"` (`TronIdle`).

* `TronStep` is a step of `TronSigning`. It clears the other histories.
* `MessageStep` is a step of `EthMessage`, and `OneShotStep` is a step of
  `OneShotHandlers`. Each puts the Tron history back to its initial value
  and clears the other history.

The history variables thus describe the last request, and the product of
the histories is never built. The dispatch loop is not in this tree, so
these definitions are marked spec-modelled.

### OneShotHandlers

Each of the eight handlers is a ladder of early returns, and `Gates` lists
its checks in code order:

* `CHECK_INITIALIZED`, then `CHECK_PARAM` on the coin-type path check,
  then `CHECK_PIN`. `fsm_msgAlgorandSignTx` alone checks the PIN first.
* Then `fsm_getDerivedNode`, and `hdnode_fill_public_key`, which only the
  secp256k1 handlers (Cosmos, Ripple) check.
* For GetAddress: the address encoder (Cosmos, Ripple) and, with
  `show_display`, `fsm_layoutAddress`. For SignTx: `*_sign_tx`.

All these collaborators are outside the tree. A request carries the set
of those that fail on it: none, one of those that can fail for it, or an
invalid path together with a failed PIN entry. The answer (`FailAnswers`)
comes from the handler where it sends a Failure. Where the handler just
returns, the collaborator has answered, which is the firmware's
convention and what `starcoin_sign_tx` does in this tree.

Cosmos returns silently after `cosmos_sign_tx` fails. Ripple, Algorand
and Near send "Signing failed" after their callee fails. Whether any of
the four `*_sign_tx` has already answered is not known here, so both are
allowed. For Cosmos this means the host may get no answer at all
(`OneShotAnswered`, found violated below). When
they have, the host gets two Failures for one request; this hazard is
listed, but no property asserts it.

The BIP-44 / casa45 path checks are not modelled. They depend on
`is_ethereum_slip44` and `ethereum_slip44_by_chain_id`, which are defined
outside this tree.

### TronSerialize and TronSigning

`TronSerialize` translates the serialiser call by call. `add_field` keeps its
uint8 store and its two-byte branch for field numbers over 15 (only
fee_limit, 18, takes it). `pack_contract` builds `capi` and `cmessage` branch
by branch for the twelve contract kinds, adds up the Any length by hand as
the code does, and appends provider, contract_name and permission_id.
`serialize` writes into a buffer with `Put`: the contract is packed once at
`current_index`, `index` is reset, the length varint is written and the
contract is packed again over the first copy, and the result is
`buf[0 .. index)`. A request's address is a pair: the string the host sent
and what `base58_decode_check` makes of it (`<<>>` when it fails, because the
code then writes length 0). `RefRaw` is the reference: protobuf's key/varint/
length-delimited wire format, with Contract, its Any parameter, the contract
message and each Vote nested as length-delimited fields, and the ContractType
numbers and message names of Tron.proto.

`TronSigning` is the handler. `TronSignTx` takes a request and either fails
it (`DataError`: no contract flag, or call data missing or under 4 bytes) or
draws the first page of its confirmation. A confirmation is a sequence of
dialogs of pages; a page is the set of items it draws. The five paged
layouts are translated page by page (`FreezePage`, `FreezeV2Page`,
`DelegatePage`, `VotePage`, `CancelAllPage`), with the order of their
`index == max_index` tests. `layoutTransactionSign`, `layoutBlindSign` and
each `protectButton` dialog are single pages. The keys are the actions:
`PageForward` (KEY_CONFIRM before the last page), `PageBack` (KEY_CANCEL
in the middle), `NextDialog` (KEY_CONFIRM on a last page with a dialog to
follow), `Cancel` (KEY_CANCEL on the first or last page, or any other key),
and `Sign` (KEY_CONFIRM on the last page: `serialize`, then a signature that
may fail with ProcessError). `to_str[36]` is uninitialised when a transfer
has no to_address; what it holds is a nondeterministic choice from `Junk`.

### BenfenSigning

* **Variables.** They are the statics `benfen_signing`, `data_total`,
  `data_left`, `node_cache` and `global_data_chunk_size`. The Blake2b
  context is abstracted to the bytes hashed and whether Final ran.
* **Data.** The first three bytes are classified as tx intent
  (`00 00 00`), message intent (`03 00 00`) or no zero.
* **uint32.** It is scaled to W bits (`U32`).
* **Actions.** `SignTx` and `TxAck`, with `SendSignature`, `RequestOrSign`
  and `AbortCounters` as their parts. `SignTxOneShot` is `benfen_sign_tx`:
  `handle_hash` (the same intent check), the blind-sign dialog and
  `handle_signature` with the caller's node, touching no session static.
  It may arrive between the messages of a session; `sessions` bounds the
  two kinds of request together.
* **ackParity.** This history variable flips on each TxAck. It makes a
  repeated identical TxAck a real step, so weak fairness on `TxAck` means
  the host keeps answering.

### StellarSigning

A handler is a table of steps, run by one RECURSIVE interpreter `Exec`:

* `check_signing`, `source`, `require` (an address that must decode),
  `require_twice` (ChangeTrust's issuer: `stellar_signingFail` and then a
  second `fsm_sendFailure`, stellar.c 1092-1095);
* `format_asset`: fails but continues, as the void C function does;
* `dialog` (cancellable), `hash_asset`, `confirm`.

Each of the 13 `stellar_confirm*Op` handlers is its table, in the C order of
checks, dialogs and hashing. `Operation` runs a table, then the dispatch
that answers `StellarTxOpRequest` or `StellarSignedTx`. The dispatcher
(`fsm_msg_stellar.h`) is not in the tree; `stellar_fillSignedTx` does not
clear `stellar_signing`, and nothing else in the tree does except
`stellar_signingAbort`, so `Dispatch` leaves the flag as the handler left
it and operations after a signature are still handled. `signatures`
counts the StellarSignedTx of the current session. Inputs:

* the source account: none, valid or invalid;
* one bit per decodable field;
* the dialog at which the user cancels.

The SHA-256 context is the header flag plus one flag per operation,
recording whether all of its fields were hashed.

### StellarEncoding

`StellarSigning` abstracts an address to "decodes or not". `StellarEncoding`
checks the code behind that abstraction. Bytes are integers, and an
account-string character is its base32 index (or `NotB32`).

* `stellar_crc16` is the bit loop of the C, byte by byte.
* The account string is version byte 0x30, the key, and the checksum low
  byte first, in base32. base32 comes from a crypto library outside the
  tree and is written from RFC 4648.
* The hashupdate encoders work on the little-endian memory image:
  `REVERSE32` swaps it, and `data[k] = value >> 8k` reads it back.
* `stellar_hashupdate_asset` fails after hashing the type when the issuer
  does not decode, and copies the code with `strlcpy`.

The state is the last call: the function, its input and its result. The
inputs are the host's strings and assets (every key's string with one
character mistyped at chosen positions, cut short, or with the seed
version byte) and the integers and opaques listed under Bounds. The
results of the two readers are tabulated once per input, because they are
pure and a read costs a full CRC.

### U2fHid

**State.** These are the statics of `u2f.c`:

* `cid`, and `*reader`: cmd, len, seq, and buf_ptr - buf as `got`;
* `dialog_timeout`, `last_req_state`, `next_page`;
* the two `last_req` of register and authenticate;
* `u2f_out_start` / `u2f_out_end`.

`pc` says where the single thread is:

* `idle`: not in `u2fhid_read_start`, reader == 0;
* `collect`: the inner loop waiting for data;
* `wait`: the loop waiting for the next command or a button.

A frame is handled in the same step as the host sends it, which is one
`usbPoll`:

* `ReadStart` is the non-tiny path;
* `TinyRead` is the tiny path. Its arms are, in the C order: INIT and abort,
  CHANNEL_BUSY, a new command after `seq == 255`, INVALID_SEQ and abort, out
  of bounds, copy.

`Proceed` and `Dispatch` are the rest of the `for(;;)` body:

* the switch on reader->cmd (`Handle`: ping, msg, wink, invalid command);
* then the wait loop, or at once its end when dialog_timeout is 0.

**Other device actions.**

* `CollectTimeout` is the ERR_MSG_TIMEOUT branch.
* `WaitLoop` is one iteration of the wait loop: a decrement, then the button.
* `HostRead` is `u2f_out_data`.

`queue_u2f_pkt` is translated with its full-ring test. `QueuePkts` calls it
once per packet, as `send_u2fhid_msg` does.

**Host side.** It is a history (`hostMsgs`, `hostCur`). The host starts a
message, sends its next frame, repeats or skips a frame, or sends
U2FHID_INIT, on either of two channels.

**Data.**

* A request is a model value, and memcmp is equality.
* The APDU header travels in the init frame.
* Replies are counted in packets.

**Scaling.** Frame sizes 57/59 become 2/3. The 128 continuation frames
become 2, and the 130-slot ring becomes 4. A maximal message still takes
1 + MAX_CONT frames and exactly fills an empty ring.

## 3. Runs

| Run | Properties | Result |
|---|---|---|
| `eth_session` | `TypeOK`, `KeyConfinement`, `CollectingInvariant`, `SignatureCoversData`, `SignatureVDecodes`, `SessionEnds`, `SessionRefinement` | pass, 2283 states |
| `eth_contract_without_data` | `ContractCreationCarriesData` | violation |
| `rlp_stream` | `TypeOK`, `SignedStreamIsRlp` | pass, 115200 states |
| `tron_sign` | `TypeOK`, `SerializedIsProtobuf`, `SignedTermsShown`, `MsgTypeOK`, `VerifyExact`, `MessageSignatureVerifies`, `ResponseOnlyWhenAuthorised` | pass, 7513 states, about 110 s |
| `tron_value_unseen` | `ValueTransferShown` | violation |
| `benfen_session` | `TypeOK`, `KeyConfinement`, `BufferHoldsHashedData`, `SessionEnds` | pass, 6969 states |
| `benfen_ack_without_session` | `SignsOnlySessionData` | violation |
| `benfen_message_intent` | `SignedDataIsTxIntent` | violation |
| `stellar_session` | `TypeOK`, `SessionHashConsistent`, `SignedOncePerSession` | pass, 2204 states |
| `stellar_signed_after_failure` | `SignedTxCoversOps` | violation |
| `u2f_transport` | `TypeOK`, `DispatchIsHostMessage`, `SignedAfterPressForRequest` | pass, 501730 states, about 55 s |
| `u2f_press_after_timeout` | `SignedWhileDialogLive` | violation |

### What the passing runs show

* **EVM.**
  * Key material exists only while a session is open.
  * `0 < data_left <= data_total`, and hashed + left = total, so the
    uint32 subtraction never wraps.
  * A signature is made only after exactly `data_length` bytes.
  * A legacy v decodes back to the chain id, or is the bare recid when it
    would overflow.
  * Sessions end under a host that keeps answering.
  * The session refines `SigningSession`.
* **RLP.** For every header form of every field, of the data and of the
  list (1 byte, 0x80+len, 0xb8/0xf8 up to 0xba/0xfa), the streamed bytes
  equal the RLP of the transaction.
* **Tron.**
  * Every signature is over the protobuf encoding of the request's
    Transaction.raw, for all twelve contract kinds with every optional
    field set and unset: the two-pass Contract length, the hand-summed Any
    length (also when the contract message needs a two-byte length),
    fee_limit's two-byte key, and varints up to 2^31 - 1.
  * A staking, vote or withdrawal contract is signed only after its kind,
    amounts, resource, receiver, lock and every vote with its count were on
    a page the user walked through, whatever the order of forward and back
    keys.
* **One-shot handlers** (in `tron_sign`, through `RequestLoop`).
  * An address or signature is written only when every check of the
    ladder passed, and never after a Failure; Algorand's PIN-first order
    still refuses a foreign path.
* **Benfen.**
  * `node_cache` holds the key only during a session.
  * The buffer holds exactly the bytes hashed, so the blind-sign screen
    shows what is signed.
  * Every session ends under a host that keeps answering.
* **Stellar.**
  * During a session, every confirmed operation was hashed completely.
  * One StellarSignTx yields at most one StellarSignedTx
    (`SignedOncePerSession`). Operations sent after the signature are
    still confirmed, hashed into the finalised context and counted, since
    `stellar_signing` stays set. Only the equality in
    `stellar_allOperationsConfirmed` keeps them from a second signature. The
    mutant `stellar_allOperationsConfirmedGeq` (`>=`) signs again.
* **U2F.**
  * Reassembly is exact. The host may interleave two channels, repeat or
    skip frames, and send U2FHID_INIT in the middle of a message. Even so,
    every dispatched message is exactly one host message of the served
    channel, with its frames in order.
  * `buf_ptr` stays inside the buffer, even for a message longer than it.
  * A register/authenticate response is signed only after a press on the
    dialog of that same request, and each press signs at most once.

### Findings (the violation runs)

* **EVM contract creation without data** (`ethereum_onekey.c:538`).
  * "Contract creation without data" is refused only when `to` is empty.
  * A 42-character `to` that does not parse passes that check, and is
    then hashed as an empty `to`.
* **Tron value signed unseen** (`tron.c:1182`, `tron.c:186`).
  * A TriggerSmartContract is shown as a token transfer or as "message"
    plus the blind-sign screen; neither shows `call_value`, which is
    signed, so TRX sent with a contract call is never on screen.
  * A TransferContract whose to_address fails `base58_decode_check` is
    signed with an empty to_address while the screen shows the host's
    string; with no to_address the screen shows the uninitialised
    `to_str`. TLC's shortest trace is this last case.
* **Benfen TxAck without session** (`benfen.c:220`).
  * `benfen_signing_txack` never checks `benfen_signing`.
  * An empty chunk with data_left = 0 signs with a zeroed `node_cache`,
    over a finalised context.
* **Benfen intent check** (`benfen.c:197`, and `handle_hash` at
  `benfen.c:83` for the one-shot `benfen_sign_tx`).
  * The three byte tests are joined with `&&`, so only data with no zero
    among them is refused.
  * The message intent `03 00 00` is therefore signed as a transaction.
* **Stellar signed after a failure** (`stellar.c:1492`).
  * `stellar_format_asset` fails and aborts, but returns void, so the
    handler goes on.
  * It counts the operation, and the last one answers StellarSignedTx
    after two Failures.
* **U2F press survives the message timeout** (`u2f.c:249`).
  * The ERR_MSG_TIMEOUT branch leaves `last_req_state` at REG_PASS /
    AUTH_PASS, although its dialog has been replaced by the home screen.
  * The next identical request, at any later time, is signed without a
    new press.

### Properties stated and found violated outside the run list

These have their own cfgs and appear in PROJECT.json hazards. `MC_Leb128.cfg`
also stays beside them: it checks `TronVarintIsLeb128` (passes, 553 states),
which `SerializedIsProtobuf` now covers inside whole Tron transactions.

`MC_StellarEncoding.cfg` checks `AddressRoundTrip` (the reader accepts
exactly the strings the writer produces and returns their key) and
`XdrIsRfc4506` (the hashed bytes are the RFC 4506 encoding). It passes
with 830 states in about 85 s. There is no run slot left for it. The
mutant that reads the checksum high byte first breaks `AddressRoundTrip`,
and the one without `REVERSE32` breaks `XdrIsRfc4506`.

`MC_EthMessage.cfg` checks the message handlers alone, over a larger set
of verify inputs than the `tron_sign` run (every combination listed under
Bounds, 721 requests). It passes. The same three properties are checked in
the run `tron_sign`, through `RequestLoop`, with 78 verify requests
that keep the run at about 80 s. Composing them into `eth_session` instead
would have multiplied the two state spaces, because the EVM session
persists across requests while Tron's does not. The mutant
`LengthDigitsGt`, a `>` for `>=` in the ladder, breaks
`MessageSignatureVerifies` at a 10-byte message. The mutant `FoldVGt`, a
`v > 27` fold, breaks `VerifyExact` on the device's own v = 27.

| Property | Cfg | What it shows |
|---|---|---|
| `CollectingInvariant` (Benfen) | `MC_BenfenSigning_CollectingInvariant.cfg` | The initial chunk is not checked against data_length, so data_left wraps. |
| `AtMostOneFailure` (Stellar) | `MC_StellarSigning_AtMostOneFailure.cfg` | A cancelled source-account dialog produces two Failures: one from the dialog, one from the handler's return. |
| `FailureEndsSession` (Stellar) | `MC_StellarSigning_FailureEndsSession.cfg` | A derive failure in signingInit keeps the session open. |
| `NumberIsRlp` (EthRlp) | `MC_EthRlp_number.cfg` | `hash_rlp_number(0)` hashes nothing, while the length count and RLP take one byte. No caller passes 0 today. |
| `MessageLengthIsBcs` (Leb128) | `MC_Leb128_bcs.cfg` | `uleb_encode(0)` emits no byte, and Starcoin's `strlen` drops the 00 byte, so the signed prefix of an empty Benfen or Starcoin message lacks its BCS length (`common_tx.c:9`, `starcoin.c:110`). |
| `StarcoinPrefixIsBcs` (Leb128) | `MC_Leb128_starcoin.cfg` | The Starcoin half of `MessageLengthIsBcs`. |
| `NoReplyDropped` (U2F) | `MC_U2fHid_NoReplyDropped.cfg` | A full reply ring drops packets silently and truncates the message. |
| `OneShotAnswered` (one-shot) | `OneShotHandlers_OneShotAnswered.cfg` | `fsm_msgCosmosSignTx` returns without an answer when `cosmos_sign_tx` (outside the tree) fails without answering. |
| `EveryCommandAnswered` (U2F) | `MC_U2fHid_EveryCommandAnswered.cfg` | A register arriving in state AUTH falls through with no answer. |
| `ReaderLenFitsBuffer` (U2F) | `MC_U2fHid_ReaderLenFitsBuffer.cfg` | In the wait loop a new command's length is never checked against the buffer. |

### Bounds

* **EVM.**
  * W = 24, the first power of two above the 16000000 limit.
  * Chain ids on both sides of `MAX_CHAIN_ID`.
  * Data lengths 0, 2, 1030 and 16000001.
  * Chunks of 0, the requested size, the rest, and one too many.
  * Two sessions, so a SignTx can arrive over an open session.
* **RLP.** Each field and data length is taken on both sides of every
  header-form boundary, including list lengths 255/256 and 65535/65536.
* **EVM messages.**
  * Lengths 0, 9, 10, 100, 10^9 and 2^31 - 1. The last is TLC's largest
    integer, and every 10-digit length takes the same branches.
  * In `MC_EthMessage.cfg`, verify requests are every combination of:
    * two keys' signatures over a 10-byte message's EIP-191 hash, over
      a typed hash and over a Tron message hash, with both recovery ids;
    * v in {0, 1, 27, 28, 29};
    * six addresses: K1 in lower case, as 0X with upper case, with a
      non-hex digit and with a "1x" prefix; K2; and the recovered key;
    * two messages.
  * One 64-byte signature.
  * In `tron_sign`: both keys, the three digests, both recids and v in
    {1, 27, 29} against K1 as 0X upper case and K2; then K1's genuine
    signature against the non-hex, "1x", lower-case and stray addresses,
    over the other message, and in 64 bytes. This keeps every branch of
    `VerifyResults` and both sides of the v fold.
* **LEB128.** 0..130 and both sides of 2^14, 2^21 and 2^28, plus 2^31 - 1.
* **Tron.** 616 requests: every contract kind; addresses valid, failing
  base58 and absent; call data absent, 3 bytes, 4 bytes, a TRC-20 transfer
  and 130 bytes (two-byte lengths all the way up to the Contract field);
  call_value and call_token_value zero and non-zero; resources 0 and 1;
  receivers and lock set and unset; votes 0, 1 and 2 (counts 3 and 300);
  data, fee_limit and the Contract extras set and unset; expiration
  2^31 - 1 and timestamp 2^28. The 1024-byte `cmessage` is not reached.
* **One-shot handlers.** Each handler with no failing collaborator, with
  each collaborator that can fail for it failing alone, with
  `show_display` on and off, and with an invalid path and a failed PIN
  together; a failed `*_sign_tx` that did or did not answer itself. All 86
  requests are small enough to take every one.
* **Benfen.**
  * Lengths 0, 3, 1030, 20480 (the buffer) and 20481.
  * Chunks 0, 3 and 1024.
  * W = 24, and two sessions.
* **Stellar.**
  * Encoding: three keys (all 0x00, all 0xFF, mixed), corrupted at
    positions 1, 2, 8, 29, 50, 53, 55 and 56 with every other base32
    character and one non-base32 character. uint32s at byte boundaries
    and 2^31 - 1. Opaques of 0-5 bytes. Codes of 1, 4, 5 and 12 characters.
  * num_operations 0, 1 and 2.
  * Two operations per session, and two sessions.
* **U2F.**
  * Two channels, two register requests (one with a bogus appId, which
    needs one press), and one authenticate request.
  * Pings of 1 byte, the maximum, and the maximum + 1.
  * Two messages and six frames: enough for a message, two presses and its
    retry.
  * U2F_TIMEOUT = 3 iterations.
  * The unanswered-command cfg needs three messages.

### Fairness

* `EthSigning` and `BenfenSigning` assume `WF_vars(TxAck)`. The device
  waits for the host with no timeout, so a session ends only if the host
  keeps answering.
* No fairness is assumed for U2F. Its timer loops run on the device's own
  clock, but wink and register/authenticate retries re-arm
  `dialog_timeout` (`u2f.c` 342, 801, 984), and every modelled host sends
  a bounded number of frames. A liveness property would therefore hold by
  that bound alone, so none is checked.
* No fairness is assumed for new requests, for Stellar, or for the Tron
  pagers (the user may page back and forth for ever).
* Runs without liveness set CHECK_DEADLOCK FALSE, because the host may stop
  sending at any point. `tron_sign` is the exception: an idle device can
  always take a new request, so deadlock is checked there.

## 4. Plan, most important first

1. **U2F.**
   * Add the locked / seed-caching early returns of register and
     authenticate (they set dialog_timeout and keep the channel).
   * Add check-only authenticate, `last_good_auth_check_cid`, and the
     `layoutInputPin` branch of `u2fhid_read`.
   * A host model that may send for ever, so that the end of
     `u2fhid_read_start` under re-arming winks and retries can be stated
     as liveness.
2. **Tron.** Resource codes above ENERGY (shown as
   ENERGY) once the enum of this build is known.
3. **EVM.**
   * Model the BIP-44 / casa45 path checks once the slip44 tables are
     available.
4. **Stellar.** Model the hash context per field, so that the digest
   itself can be compared with the reference.

## 5. Not modelled

* **Amount formatting and the token table.** `tron_format_amount`,
  `tron_format_token_amount` and `get_tron_token_by_address` are reduced to
  the value shown and a set of known contracts.
* **Cryptography.** Keccak, Blake2b, SHA, ECDSA and Ed25519 become "hashed
  what" and "signed or failed".
* **Screens, wording and amount formatting**, except where a dialog is a
  point the user can cancel.
* **The EVM path checks** (`ethereum_path_check_onekey`, `ethereum_onekey.c`
  1162-1264). Their coin-type rules need `is_ethereum_slip44` and
  `ethereum_slip44_by_chain_id`, which are not in the tree.
* **Inside the one-shot handlers' collaborators.** `fsm_common_path_check`,
  `protectPin`, `fsm_getDerivedNode`, the address encoders and `*_sign_tx`
  are outside the tree; only whether each fails is modelled.
* **`menu_para.c`**: lookup tables only.
* **The dispatcher** that calls the Benfen and Stellar handlers is not in
  the tree. Its behaviour after a handler returns (no further message) is
  taken from spec §4.3.
