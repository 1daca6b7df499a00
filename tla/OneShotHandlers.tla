-------------------------- MODULE OneShotHandlers --------------------------
(***************************************************************************)
(* The one-shot fsm handlers of fsm_msg_cosmos.h, fsm_msg_ripple.h,        *)
(* fsm_msg_algorand.h and fsm_msg_near.h: GetAddress and SignTx for each   *)
(* chain.  Each is a straight ladder of early returns (CHECK_INITIALIZED,  *)
(* CHECK_PARAM on the coin-type path check, CHECK_PIN, derive, fill the    *)
(* public key, encode the address, show it, sign) ending in msg_write of   *)
(* the response.  Nothing outlives the call.                               *)
(*                                                                         *)
(* The collaborators are outside this tree.  What each one can do is a     *)
(* nondeterministic failure: a request carries the set of collaborators    *)
(* that fail on it (at most one or two).  Where the handler returns        *)
(* without answering, the collaborator has answered, as the firmware's     *)
(* convention is and as starcoin_sign_tx (starcoin.c 66-71) does in this   *)
(* tree: CHECK_INITIALIZED and CHECK_PARAM answer Failure, protectPin      *)
(* (CHECK_PIN) answers its PIN failure, fsm_getDerivedNode answers         *)
(* ProcessError, fsm_layoutAddress and cosmos_sign_tx answer               *)
(* ActionCancelled.  Whether cosmos_sign_tx, ripple_sign_tx,               *)
(* algorand_sign_tx and near_sign_tx answer before returning false is not  *)
(* known here: both are allowed.                                           *)
(***************************************************************************)
EXTENDS Integers, Sequences, FiniteSets

VARIABLES
  oreq,   \* the one-shot request handled by the last step (history)
  oresp   \* the answers the device wrote for it, in order (history)

oneShotVars == <<oreq, oresp>>

NoReq == [type |-> "none"]

Chains == {"cosmos", "ripple", "algorand", "near"}

\* The headers that derive on SECP256K1_NAME (the others on ED25519_NAME).
Secp256k1Chains == {"cosmos", "ripple"}

\* What a collaborator can fail on.  hdnode_fill_public_key fails only on a
\* secp256k1 node; algorand / near_get_address_from_public_key are void.
CanFail(type, chain, show) ==
  {"init", "path", "pin", "derive"}
    \cup (IF chain \in Secp256k1Chains THEN {"pubkey"} ELSE {})
    \cup (IF type = "GetAddress" /\ chain \in Secp256k1Chains THEN {"address"} ELSE {})
    \cup (IF type = "GetAddress" /\ show THEN {"display"} ELSE {})
    \cup (IF type = "SignTx" THEN {"sign"} ELSE {})

\* The checks of each handler in the order of its code.
\* Mutant: AlgorandSignTx without its CHECK_PARAM.
GatesNoAlgorandPath(type, chain) ==
  IF type = "SignTx" /\ chain = "algorand"
  THEN <<"init", "pin", "derive", "sign">>
  ELSE LET common == IF chain \in Secp256k1Chains
                     THEN <<"init", "path", "pin", "derive", "pubkey">>
                     ELSE <<"init", "path", "pin", "derive">>
       IN  common \o (IF type = "SignTx" THEN <<"sign">>
                      ELSE IF chain \in Secp256k1Chains
                           THEN <<"address", "display">> ELSE <<"display">>)

Gates(type, chain) ==
  IF type = "SignTx" /\ chain = "algorand"
  THEN <<"init", "pin", "path", "derive", "sign">>
  ELSE LET common == IF chain \in Secp256k1Chains
                     THEN <<"init", "path", "pin", "derive", "pubkey">>
                     ELSE <<"init", "path", "pin", "derive">>
       IN  common \o (IF type = "SignTx" THEN <<"sign">>
                      ELSE IF chain \in Secp256k1Chains
                           THEN <<"address", "display">> ELSE <<"display">>)

\* The answer written when gate g fails: by the handler or, where the
\* handler just returns, by the collaborator.  calleeAnswered says whether
\* a *_sign_tx that returned false had answered itself: fsm_msgCosmosSignTx
\* then just returns, the other three add their own DataError.
FailAnswers(type, chain, g, calleeAnswered) ==
  CASE g = "init" -> <<"NotInitialized">>
    [] g = "path" -> <<"DataError">>
    [] g = "pin" -> <<"PinFailure">>
    [] g = "derive" -> <<"ProcessError">>
    [] g = "pubkey" -> <<"ProcessError">>
    [] g = "address" -> IF chain = "cosmos" THEN <<"ProcessError">> ELSE <<"DataError">>
    [] g = "display" -> <<"ActionCancelled">>
    [] g = "sign" /\ chain = "cosmos" ->
         IF calleeAnswered THEN <<"ActionCancelled">> ELSE <<>>
    [] g = "sign" ->
         (IF calleeAnswered THEN <<"ActionCancelled">> ELSE <<>>) \o <<"DataError">>

Response(type) == IF type = "GetAddress" THEN "Address" ELSE "SignedTx"

\* The first gate, in code order, that fails on the request.
FirstFailing(type, chain, fails) ==
  LET gs == SelectSeq(Gates(type, chain), LAMBDA g : g \in fails)
  IN  IF gs = <<>> THEN "none" ELSE Head(gs)

GateNames == {"init", "path", "pin", "derive", "pubkey", "address", "display", "sign"}

\* One failing collaborator or none, and an invalid path with a failing
\* PIN entry (which tells the order of the two checks); show_display only
\* on GetAddress.
OneShotRequests ==
  {r \in [type : {"GetAddress", "SignTx"}, chain : Chains, show : BOOLEAN,
          fails : SUBSET GateNames] :
     /\ r.type = "SignTx" => ~r.show
     /\ \/ Cardinality(r.fails) <= 1 /\ r.fails \subseteq CanFail(r.type, r.chain, r.show)
        \/ r.fails = {"path", "pin"} /\ ~r.show}

OneShotTypeOK ==
  /\ oreq \in OneShotRequests \cup {NoReq}
  /\ oresp \in Seq({"NotInitialized", "DataError", "PinFailure", "ProcessError",
                    "ActionCancelled", "Address", "SignedTx"})

OneShotInit == oreq = NoReq /\ oresp = <<>>

\* One whole handler: the ladder up to the first failing gate and its
\* answer, or msg_write of the response.
OneShot(r) ==
  \E calleeAnswered \in BOOLEAN :
    /\ calleeAnswered => r.type = "SignTx" /\ "sign" \in r.fails
    /\ oreq' = r
    /\ LET g == FirstFailing(r.type, r.chain, r.fails)
       IN  oresp' = IF g = "none" THEN <<Response(r.type)>>
                    ELSE FailAnswers(r.type, r.chain, g, calleeAnswered)

\* The eight handlers, each one OneShot over its own requests.
Handler(type, chain) == \E r \in OneShotRequests : r.type = type /\ r.chain = chain /\ OneShot(r)

fsm_msgCosmosGetAddress == Handler("GetAddress", "cosmos")
fsm_msgCosmosSignTx == Handler("SignTx", "cosmos")
fsm_msgRippleGetAddress == Handler("GetAddress", "ripple")
fsm_msgRippleSignTx == Handler("SignTx", "ripple")
fsm_msgAlgorandGetAddress == Handler("GetAddress", "algorand")
fsm_msgAlgorandSignTx == Handler("SignTx", "algorand")
fsm_msgNearGetAddress == Handler("GetAddress", "near")
fsm_msgNearSignTx == Handler("SignTx", "near")

OneShotNext ==
  \/ fsm_msgCosmosGetAddress \/ fsm_msgCosmosSignTx
  \/ fsm_msgRippleGetAddress \/ fsm_msgRippleSignTx
  \/ fsm_msgAlgorandGetAddress \/ fsm_msgAlgorandSignTx
  \/ fsm_msgNearGetAddress \/ fsm_msgNearSignTx

OneShotSpec == OneShotInit /\ [][OneShotNext]_oneShotVars

-----------------------------------------------------------------------------
(* Properties.                                                             *)

\* Every one-shot request is answered: no early return of any of the eight
\* handlers leaves the host waiting for a reply.  fsm_msgCosmosSignTx
\* returns without a word when cosmos_sign_tx returns false, so this holds
\* only if every failure path of cosmos_sign_tx answers for it.
OneShotAnswered == oreq # NoReq => oresp # <<>>

\* An address or a signature is written only for a request on which every
\* collaborator succeeded (initialised device, a path of the chain's coin
\* type, the PIN, a derivable node, an address shown and confirmed when
\* show_display asks, the signing dialog), and never after a Failure.
ResponseOnlyWhenAuthorised ==
  \A i \in 1..Len(oresp) :
    oresp[i] \in {"Address", "SignedTx"} =>
      /\ oreq.fails = {}
      /\ oresp = <<Response(oreq.type)>>
=============================================================================
