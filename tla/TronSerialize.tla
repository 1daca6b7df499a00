---------------------------- MODULE TronSerialize ----------------------------
(***************************************************************************)
(* The protobuf serialiser of tron.c: add_field, write_varint,             *)
(* write_bytes_with_length, pack_contract and serialize, which build the   *)
(* Transaction.raw bytes that tron_sign_tx hashes and signs.               *)
(*                                                                         *)
(* A request is a record: the transaction fields of TronSignTx and one     *)
(* contract record c whose kind names the has_*_contract flag that is set  *)
(* ("none" when no flag is).  An address is a record [str, raw]: the       *)
(* base58 string the host sent, and what base58_decode_check makes of it   *)
(* (<<>> when the check fails and the call returns 0).  Byte strings whose *)
(* content no property looks at (type URLs, call data) are runs of one     *)
(* filler byte of the right length.                                        *)
(*                                                                         *)
(* The reference, RefRaw, encodes the same fields as protobuf defines the  *)
(* wire format: a key varint(field * 8 + wire type), a varint value or a   *)
(* varint length and the bytes, and nested messages (Contract, the Any     *)
(* parameter, the contract message, Vote) as length-delimited fields of    *)
(* their parent.                                                           *)
(***************************************************************************)
EXTENDS Integers, Sequences, SequencesExt

LOCAL LEB == INSTANCE Leb128 WITH Sizes <- {}, handler <- "none", size <- 0,
                                  hashed <- <<>>

PROTO_TYPE_VARINT == 0
PROTO_TYPE_STRING == 2

Kinds == {"transfer", "vote", "trigger", "freeze", "unfreeze", "withdraw",
          "freezeV2", "unfreezeV2", "withdrawExpire", "delegate",
          "undelegate", "cancelAll"}

\* write_varint(buf, index, value): the protobuf base-128 varint.
write_varint(v) == LEB!write_varint(v)

\* buf[i] = fnumber << 3 | ftype, stored in a uint8_t; for fnumber > 15 the
\* byte is followed by 0x1, the second group of a two-byte varint key.
add_field(f, t) ==
  IF f > 15 THEN <<(f * 8 + t) % 256, 1>> ELSE <<(f * 8 + t) % 256>>

\* write_varint(len) followed by the len bytes.
write_bytes_with_length(b) == write_varint(Len(b)) \o b

\* The pairs of calls every field is written with.
VarintField(f, v) == add_field(f, PROTO_TYPE_VARINT) \o write_varint(v)
StringField(f, b) == add_field(f, PROTO_TYPE_STRING) \o write_bytes_with_length(b)

Opt(cond, s) == IF cond THEN s ELSE <<>>

Bool(b) == IF b THEN 1 ELSE 0

\* A byte string of n filler bytes.
Filler(n) == [i \in 1..n |-> 116]

\* The ContractType written after the key of Contract.type.
ContractTypeNo ==
  [transfer |-> 1, vote |-> 4, trigger |-> 31, freeze |-> 11, unfreeze |-> 12,
   withdraw |-> 13, freezeV2 |-> 54, unfreezeV2 |-> 55, withdrawExpire |-> 56,
   delegate |-> 57, undelegate |-> 58, cancelAll |-> 59]

\* The length the code passes with each "type.googleapis.com/protocol.X".
TypeUrlLen ==
  [transfer |-> 45, vote |-> 48, trigger |-> 49, freeze |-> 50, unfreeze |-> 52,
   withdraw |-> 52, freezeV2 |-> 52, unfreezeV2 |-> 54, withdrawExpire |-> 59,
   delegate |-> 53, undelegate |-> 55, cancelAll |-> 56]

\* One Vote, packed into v_message in the votes loop.
VoteMessage(v) == StringField(1, v.addr.raw) \o VarintField(2, v.count)

\* The contract message built in cmessage, branch by branch.
CMessage(c, owner) ==
  LET own == StringField(1, owner) IN
  CASE c.kind = "transfer" ->
         own \o StringField(2, c.to.raw) \o VarintField(3, c.amount)
    [] c.kind = "vote" ->
         own \o FlattenSeq([i \in DOMAIN c.votes |->
                             StringField(2, VoteMessage(c.votes[i]))])
             \o Opt(c.hasSupport, VarintField(3, Bool(c.support)))
    [] c.kind = "trigger" ->
         own \o StringField(2, c.contractAddr.raw)
             \o Opt(c.callValue # 0, VarintField(3, c.callValue))
             \o StringField(4, c.data)
             \o Opt(c.callTokenValue # 0,
                    VarintField(5, c.callTokenValue) \o VarintField(6, c.assetId))
    [] c.kind = "freeze" ->
         own \o VarintField(2, c.balance) \o VarintField(3, c.duration)
             \o Opt(c.hasResource, VarintField(10, c.resource))
             \o Opt(c.hasReceiver, StringField(15, c.receiver.raw))
    [] c.kind = "unfreeze" ->
         own \o Opt(c.hasResource, VarintField(10, c.resource))
             \o Opt(c.hasReceiver, StringField(15, c.receiver.raw))
    [] c.kind \in {"freezeV2", "unfreezeV2"} ->
         own \o VarintField(2, c.balance)
             \o Opt(c.hasResource, VarintField(3, c.resource))
    [] c.kind \in {"delegate", "undelegate"} ->
         own \o VarintField(2, c.resource) \o VarintField(3, c.balance)
             \o Opt(c.hasReceiver, StringField(4, c.receiver.raw))
             \o Opt(c.kind = "delegate" /\ c.hasLock, VarintField(5, Bool(c.lock)))
    [] c.kind \in {"withdraw", "withdrawExpire", "cancelAll"} -> own
    [] OTHER -> <<>>

\* capi: Any.type_url, field 1 of the Any parameter.
CApi(c) ==
  IF c.kind \in Kinds
  THEN add_field(1, PROTO_TYPE_STRING) \o write_bytes_with_length(Filler(TypeUrlLen[c.kind]))
  ELSE <<>>

\* The Contract fields that follow the parameter.
ContractTail(c) ==
  Opt(c.hasProvider, StringField(3, c.provider))
    \o Opt(c.hasName, StringField(4, c.name))
    \o Opt(c.hasPermission, VarintField(5, c.permission))

\* Mutant: the Any length without the byte of the key of Any.value.
pack_contract_no_key(c, owner) ==
  LET capi == CApi(c)
      cmessage == CMessage(c, owner)
      cmessage_varint_len == Len(write_varint(Len(cmessage)))
  IN  add_field(1, PROTO_TYPE_VARINT)
        \o Opt(c.kind \in Kinds, write_varint(ContractTypeNo[c.kind]))
        \o add_field(2, PROTO_TYPE_STRING)
        \o write_varint(Len(capi) + Len(cmessage) + cmessage_varint_len)
        \o capi
        \o add_field(2, PROTO_TYPE_STRING) \o write_varint(Len(cmessage)) \o cmessage
        \o ContractTail(c)

\* pack_contract: Contract.type, then the Any parameter, whose length the
\* code adds up as capi_len + cmessage_len + 1 + cmessage_varint_len (the 1
\* is the key of Any.value), then provider, contract_name, permission_id.
\* With no contract flag set only the key of Contract.type is written.
pack_contract(c, owner) ==
  LET capi == CApi(c)
      cmessage == CMessage(c, owner)
      cmessage_varint_len == Len(write_varint(Len(cmessage)))
  IN  add_field(1, PROTO_TYPE_VARINT)
        \o Opt(c.kind \in Kinds, write_varint(ContractTypeNo[c.kind]))
        \o add_field(2, PROTO_TYPE_STRING)
        \o write_varint(Len(capi) + Len(cmessage) + 1 + cmessage_varint_len)
        \o capi
        \o add_field(2, PROTO_TYPE_STRING) \o write_varint(Len(cmessage)) \o cmessage
        \o ContractTail(c)

\* s written into buf from position at on (1-based), as the byte loops do.
Put(buf, at, s) ==
  [i \in 1..Max({Len(buf), at + Len(s) - 1}) |->
     IF at <= i /\ i < at + Len(s) THEN s[i - at + 1] ELSE buf[i]]

\* The fields before Contract: ref_block_bytes, ref_block_hash, expiration,
\* data, and the key of field 11.
RawHead(m) ==
  StringField(1, m.refBlockBytes) \o StringField(4, m.refBlockHash)
    \o VarintField(8, m.expiration)
    \o Opt(m.hasData, StringField(10, m.data))
    \o add_field(11, PROTO_TYPE_STRING)

\* timestamp, and fee_limit (field 18, add_field's two-byte branch).
RawTail(m) ==
  VarintField(14, m.timestamp) \o Opt(m.hasFeeLimit, VarintField(18, m.feeLimit))

\* serialize: the contract is packed once at current_index to learn its
\* length, index is reset, the length varint is written, and the contract
\* is packed again over the first copy; the result is buf[0 .. index).
serialize(m, owner) ==
  LET head == RawHead(m)
      current_index == Len(head)
      pc == pack_contract(m.contract, owner)
      first == Put(head, current_index + 1, pc)
      second == Put(first, current_index + 1, write_varint(Len(pc)) \o pc)
      index == current_index + Len(write_varint(Len(pc))) + Len(pc)
  IN  SubSeq(Put(second, index + 1, RawTail(m)), 1, index + Len(RawTail(m)))

-----------------------------------------------------------------------------
(* The reference encoding                                                  *)

RefKey(f, t) == LEB!RefUleb(f * 8 + t)
RefVarint(f, v) == RefKey(f, 0) \o LEB!RefUleb(v)
RefBytes(f, b) == RefKey(f, 2) \o LEB!RefUleb(Len(b)) \o b

\* ContractType of Tron.proto and the message names behind the type URLs.
RefContractType ==
  [transfer |-> 1, vote |-> 4, trigger |-> 31, freeze |-> 11, unfreeze |-> 12,
   withdraw |-> 13, freezeV2 |-> 54, unfreezeV2 |-> 55, withdrawExpire |-> 56,
   delegate |-> 57, undelegate |-> 58, cancelAll |-> 59]
RefMessageNameLen ==
  [transfer |-> 16, vote |-> 19, trigger |-> 20, freeze |-> 21, unfreeze |-> 23,
   withdraw |-> 23, freezeV2 |-> 23, unfreezeV2 |-> 25, withdrawExpire |-> 30,
   delegate |-> 24, undelegate |-> 26, cancelAll |-> 27]
\* "type.googleapis.com/protocol." is 29 bytes.
RefTypeUrl(k) == Filler(29 + RefMessageNameLen[k])

\* The contract message with the fields the request sets, in field order.
RefContractMessage(c, owner) ==
  LET own == RefBytes(1, owner) IN
  CASE c.kind = "transfer" ->
         own \o RefBytes(2, c.to.raw) \o RefVarint(3, c.amount)
    [] c.kind = "vote" ->
         own \o FlattenSeq([i \in DOMAIN c.votes |->
                  RefBytes(2, RefBytes(1, c.votes[i].addr.raw)
                                \o RefVarint(2, c.votes[i].count))])
             \o Opt(c.hasSupport, RefVarint(3, Bool(c.support)))
    [] c.kind = "trigger" ->
         own \o RefBytes(2, c.contractAddr.raw)
             \o Opt(c.callValue # 0, RefVarint(3, c.callValue))
             \o RefBytes(4, c.data)
             \o Opt(c.callTokenValue # 0,
                    RefVarint(5, c.callTokenValue) \o RefVarint(6, c.assetId))
    [] c.kind = "freeze" ->
         own \o RefVarint(2, c.balance) \o RefVarint(3, c.duration)
             \o Opt(c.hasResource, RefVarint(10, c.resource))
             \o Opt(c.hasReceiver, RefBytes(15, c.receiver.raw))
    [] c.kind = "unfreeze" ->
         own \o Opt(c.hasResource, RefVarint(10, c.resource))
             \o Opt(c.hasReceiver, RefBytes(15, c.receiver.raw))
    [] c.kind \in {"freezeV2", "unfreezeV2"} ->
         own \o RefVarint(2, c.balance) \o Opt(c.hasResource, RefVarint(3, c.resource))
    [] c.kind \in {"delegate", "undelegate"} ->
         own \o RefVarint(2, c.resource) \o RefVarint(3, c.balance)
             \o Opt(c.hasReceiver, RefBytes(4, c.receiver.raw))
             \o Opt(c.kind = "delegate" /\ c.hasLock, RefVarint(5, Bool(c.lock)))
    [] OTHER -> own

\* Contract { type = 1; Any parameter = 2 { type_url = 1; value = 2 };
\*            provider = 3; ContractName = 4; Permission_id = 5 }
RefContract(c, owner) ==
  RefVarint(1, RefContractType[c.kind])
    \o RefBytes(2, RefBytes(1, RefTypeUrl(c.kind)) \o RefBytes(2, RefContractMessage(c, owner)))
    \o Opt(c.hasProvider, RefBytes(3, c.provider))
    \o Opt(c.hasName, RefBytes(4, c.name))
    \o Opt(c.hasPermission, RefVarint(5, c.permission))

\* Transaction.raw: ref_block_bytes 1, ref_block_hash 4, expiration 8,
\* data 10, contract 11, timestamp 14, fee_limit 18.
RefRaw(m, owner) ==
  RefBytes(1, m.refBlockBytes) \o RefBytes(4, m.refBlockHash)
    \o RefVarint(8, m.expiration)
    \o Opt(m.hasData, RefBytes(10, m.data))
    \o RefBytes(11, RefContract(m.contract, owner))
    \o RefVarint(14, m.timestamp)
    \o Opt(m.hasFeeLimit, RefVarint(18, m.feeLimit))

=============================================================================
