--------------------------- MODULE MC_TronSigning ---------------------------
(* Requests of every contract kind with each optional field set and unset, *)
(* a valid, an invalid and an absent address, the TRC-20 call data the     *)
(* screen recognises, call data longer than 127 bytes (two-byte lengths up *)
(* to the Contract field), votes with one- and two-byte counts, and        *)
(* fee_limit (field 18); expiration and timestamp take the largest int and *)
(* 2^28, five-byte varints.                                                *)
EXTENDS RequestLoop, MC_EthMessage

Addr(s, b) == [str |-> s, raw |-> <<65>> \o [i \in 1..20 |-> b]]
A1 == Addr("TA1", 1)
A2 == Addr("TA2", 2)
TokenAddr == Addr("TToken", 3)
BadAddr == [str |-> "Tbad", raw |-> <<>>]
NoAddr == [str |-> "", raw |-> <<>>]

MCOwner == <<65>> \o [i \in 1..20 |-> 9]
MCKnownTokens == {"TToken"}
MCJunk == {"", "Tstale"}

Trc20Data == TRC20_PREFIX \o [i \in 1..20 |-> 4] \o [i \in 1..31 |-> 0] \o <<5>>
CallData == {<<>>, <<1, 2, 3>>, <<1, 2, 3, 4>>, Trc20Data, [i \in 1..130 |-> 6]}

DefaultContract ==
  [kind |-> "none", hasTo |-> FALSE, to |-> NoAddr, amount |-> 0,
   votes |-> <<>>, hasSupport |-> FALSE, support |-> FALSE,
   contractAddr |-> NoAddr, callValue |-> 0, hasData |-> FALSE, data |-> <<>>,
   callTokenValue |-> 0, assetId |-> 0, balance |-> 0, duration |-> 0,
   hasResource |-> FALSE, resource |-> 0, hasReceiver |-> FALSE,
   receiver |-> NoAddr, hasLock |-> FALSE, lock |-> FALSE,
   hasProvider |-> FALSE, provider |-> <<>>, hasName |-> FALSE, name |-> <<>>,
   hasPermission |-> FALSE, permission |-> 0]

Resources == {[has |-> FALSE, r |-> 0], [has |-> TRUE, r |-> 1]}
Receivers == {[has |-> FALSE, a |-> NoAddr], [has |-> TRUE, a |-> A2]}

Contracts ==
  {DefaultContract}
  \cup {[DefaultContract EXCEPT !.kind = "transfer", !.hasTo = (a # NoAddr),
         !.to = a, !.amount = v] : a \in {A1, BadAddr, NoAddr}, v \in {0, 200}}
  \cup {[DefaultContract EXCEPT !.kind = "trigger", !.contractAddr = a,
         !.callValue = v, !.hasData = (d # <<>>), !.data = d,
         !.callTokenValue = t, !.assetId = 300] :
          a \in {TokenAddr, A2}, v \in {0, 200}, d \in CallData, t \in {0, 7}}
  \cup {[DefaultContract EXCEPT !.kind = k, !.balance = 200, !.duration = 3,
         !.hasResource = r.has, !.resource = r.r,
         !.hasReceiver = x.has, !.receiver = x.a] :
          k \in {"freeze", "unfreeze"}, r \in Resources, x \in Receivers}
  \cup {[DefaultContract EXCEPT !.kind = k] : k \in {"withdraw", "withdrawExpire", "cancelAll"}}
  \cup {[DefaultContract EXCEPT !.kind = k, !.balance = 200,
         !.hasResource = r.has, !.resource = r.r] :
          k \in {"freezeV2", "unfreezeV2"}, r \in Resources}
  \cup {[DefaultContract EXCEPT !.kind = k, !.resource = 1, !.balance = 200,
         !.hasReceiver = x.has, !.receiver = x.a, !.hasLock = l, !.lock = l] :
          k \in {"delegate", "undelegate"}, x \in Receivers, l \in BOOLEAN}
  \cup {[DefaultContract EXCEPT !.kind = "vote", !.votes = vs,
         !.hasSupport = s # "unset", !.support = (s = "yes")] :
          vs \in {<<>>, <<[addr |-> A1, count |-> 3]>>,
                  <<[addr |-> A1, count |-> 3], [addr |-> A2, count |-> 300]>>},
          s \in {"unset", "yes", "no"}}

WithExtras(c, e) ==
  [c EXCEPT !.hasProvider = e, !.provider = <<1>>, !.hasName = e,
            !.name = <<2, 2>>, !.hasPermission = e, !.permission = 2]

MCRequests ==
  {[refBlockBytes |-> <<1, 2>>, refBlockHash |-> [i \in 1..8 |-> 8],
    expiration |-> 2147483647, hasData |-> d, data |-> <<7, 7, 7>>,
    contract |-> WithExtras(c, e), timestamp |-> 268435456,
    hasFeeLimit |-> f, feeLimit |-> 200] :
     c \in Contracts, e \in BOOLEAN, d \in BOOLEAN, f \in BOOLEAN}
\* The verify requests of the composed run: both keys' signatures over the
\* three kinds of digest with both recovery ids and v in, just past and
\* out of the folded range, against an upper-case 0X address of K1 and
\* K2's address; then K1's genuine signature against the malformed and the
\* foreign addresses, over the other message, and in 64 bytes.
MCDeviceVerifyReqs ==
  {Req(65, Sig(k, d, recid), v, a, MsgA) :
     k \in {"K1", "K2"}, d \in {RefEip191(MsgA), TypedAB, tron_message_hash(MsgA)},
     recid \in {0, 1}, v \in {1, 27, 29}, a \in {K1Upper, K2Hex}}
  \cup {Req(65, Sig("K1", RefEip191(MsgA), 0), 27, a, MsgA) :
          a \in {K1NotHex, K1BadPrefix, StrayHex, K1Hex}}
  \cup {Req(65, Sig("K1", RefEip191(MsgA), 0), 27, K1Hex, MsgB),
        Req(64, Sig("K1", RefEip191(MsgA), 0), 27, K1Hex, MsgA)}
=============================================================================
