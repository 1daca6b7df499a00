--------------------------- MODULE StellarSigning ---------------------------
(***************************************************************************)
(* The multi-operation Stellar signer of src/legacy/firmware/stellar.c.    *)
(*                                                                         *)
(* StellarSignTx opens a session (stellar_signingInit) and hashes the      *)
(* transaction header; the host then sends one message per operation and   *)
(* each stellar_confirm*Op handler checks the source account, validates    *)
(* addresses and assets, asks the user, hashes the operation and counts    *)
(* it.  After the last operation the device answers StellarSignedTx,       *)
(* otherwise StellarTxOpRequest (the workflow comment at the top of the    *)
(* file).  stellar_signingFail writes a Failure and calls                  *)
(* stellar_signingAbort, which only clears stellar_signing.  Nothing in    *)
(* the tree clears stellar_signing after stellar_fillSignedTx: the flag is *)
(* set only at stellar.c 60 and cleared only by stellar_signingAbort.      *)
(*                                                                         *)
(* A handler is a table of steps that one interpreter runs: the order of   *)
(* its checks, dialogs and hashing is the table's order.  Data is          *)
(* abstracted to what changes the control: whether each address or asset   *)
(* issuer decodes, where (if anywhere) the user cancels.  The SHA-256      *)
(* context is the header status and one flag per operation started,        *)
(* telling whether all of that operation's fields were hashed.             *)
(***************************************************************************)
EXTENDS Integers, Sequences, FiniteSets

CONSTANTS
  NumOperations,   \* num_operations values a StellarSignTx may carry
  MaxOps,          \* bound on the operations hashed in one session
  MaxSessions      \* bound on the StellarSignTx requests

ASSUME NumOperations \subseteq Nat /\ MaxOps \in Nat /\ MaxSessions \in Nat

VARIABLES
  signing,     \* stellar_signing
  numOps,      \* stellar_activeTx.num_operations
  confirmed,   \* stellar_activeTx.confirmed_operations
  headerOk,    \* signingInit hashed the whole header
  opsHashed,   \* per operation started: all of its fields were hashed
  sessions,    \* StellarSignTx requests so far (history)
  req,         \* the message of the last step (history)
  resp,        \* the messages the last step wrote (history)
  signatures   \* StellarSignedTx written since the last StellarSignTx (history)

vars == <<signing, numOps, confirmed, headerOk, opsHashed, sessions, req, resp, signatures>>

\* memo_type: the five StellarMemoType values and one out of range.
Memos == {"NONE", "TEXT", "ID", "HASH", "RETURN", "invalid"}

\* has_source_account / source_account: absent, decodes, does not decode.
Sources == {"none", "valid", "invalid"}

Requests == [num : NumOperations, memo : Memos, derive : BOOLEAN]

OpNames == {"CreateAccount", "Payment", "PathPaymentStrictReceive",
            "PathPaymentStrictSend", "ManageBuyOffer", "ManageSellOffer",
            "CreatePassiveSellOffer", "SetOptions", "ChangeTrust",
            "AllowTrust", "AccountMerge", "ManageData", "BumpSequence"}

Messages == {"Failure", "TxOpRequest", "SignedTx"}

TypeOK ==
  /\ signing \in BOOLEAN
  /\ numOps \in {0} \cup NumOperations
  /\ confirmed \in 0..MaxOps
  /\ headerOk \in BOOLEAN
  /\ opsHashed \in Seq(BOOLEAN) /\ Len(opsHashed) <= MaxOps
  /\ sessions \in 0..MaxSessions
  /\ req \in {"none", "SignTx"} \cup OpNames
  /\ resp \in Seq(Messages)
  /\ signatures \in 0..MaxOps

Init ==
  /\ signing = FALSE
  /\ numOps = 0
  /\ confirmed = 0
  /\ headerOk = FALSE
  /\ opsHashed = <<>>
  /\ sessions = 0
  /\ req = "none"
  /\ resp = <<>>
  /\ signatures = 0

-----------------------------------------------------------------------------
(* The handler interpreter.  A run state st carries the variables a        *)
(* handler touches, the messages written so far, the dialogs shown, and    *)
(* ret: "run" until the handler returns "true" or "false".                 *)

\* Mutant: a failure that leaves the session open.
stellar_signingFailNoAbort(st) == [st EXCEPT !.resp = Append(@, "Failure")]

\* stellar_signingFail: a ProcessError Failure, then stellar_signingAbort.
stellar_signingFail(st) == [st EXCEPT !.resp = Append(@, "Failure"), !.signing = FALSE]

Return(st, r) == [st EXCEPT !.ret = r]

\* The last operation started lost part of its hashed fields.
Truncated(st) == [st EXCEPT !.ops[Len(st.ops)] = FALSE]

\* A protectButton dialog; the user cancels the c-th dialog of the run.
Dialog(st, c) ==
  LET s1 == [st EXCEPT !.dlg = @ + 1]
  IN  IF s1.dlg = c THEN Return(stellar_signingFail(s1), "false") ELSE s1

\* stellar_confirmSourceAccount followed by the caller's
\* stellar_signingFail("Source account error") when it returns false.  The
\* has_source_account flag is the first field hashed for the operation.
SourceAccount(st, src, c) ==
  LET s1 == [st EXCEPT !.ops = Append(@, TRUE)]
      s2 == [s1 EXCEPT !.dlg = @ + 1]
  IN  CASE src = "none"    -> s1
        [] src = "invalid" -> Return(stellar_signingFail(s1), "false")
        [] s2.dlg = c      -> Return(stellar_signingFail(stellar_signingFail(s2)), "false")
        [] OTHER           -> s2

\* One step.  v maps each field of the handler to whether it is valid.
\*   check_signing  if (!stellar_signing) return false;
\*   source         SourceAccount
\*   require        a validation whose failure fails and returns false
\*   require_twice  the same, with a second fsm_sendFailure after it
\*   format_asset   stellar_format_asset: fails, but the handler goes on
\*   dialog         Dialog
\*   hash_asset     stellar_hashupdate_asset: fails, hashes only the asset
\*                  type, and the handler goes on
\*   confirm        confirmed_operations++; return true;
ExecStep(s, src, v, c, st) ==
  CASE s.do = "check_signing" -> IF st.signing THEN st ELSE Return(st, "false")
    [] s.do = "source"        -> SourceAccount(st, src, c)
    [] s.do = "require"       -> IF v[s.f] THEN st ELSE Return(stellar_signingFail(st), "false")
    [] s.do = "require_twice" ->
         IF v[s.f] THEN st
         ELSE Return([stellar_signingFail(st) EXCEPT !.resp = Append(@, "Failure")], "false")
    [] s.do = "format_asset"  -> IF v[s.f] THEN st ELSE stellar_signingFail(st)
    [] s.do = "dialog"        -> Dialog(st, c)
    [] s.do = "hash_asset"    -> IF v[s.f] THEN st ELSE stellar_signingFail(Truncated(st))
    [] s.do = "confirm"       -> Return([st EXCEPT !.confirmed = @ + 1], "true")

RECURSIVE Exec(_, _, _, _, _)
Exec(steps, src, v, c, st) ==
  IF steps = <<>> \/ st.ret # "run" THEN st
  ELSE Exec(Tail(steps), src, v, c, ExecStep(Head(steps), src, v, c, st))

S(do) == [do |-> do, f |-> "none"]
F(do, f) == [do |-> do, f |-> f]

\* The common head of every handler: if (!stellar_signing) return false;
\* then the source account (the operation type is hashed after it).
OpHead == <<S("check_signing"), S("source")>>

OpFields(steps) == {steps[i].f : i \in DOMAIN steps} \ {"none"}

\* The dialogs a run may show: the source account's and the handler's.
NumDialogs(steps) == 1 + Cardinality({i \in DOMAIN steps : steps[i].do = "dialog"})

-----------------------------------------------------------------------------
(* The handlers, in the order of their checks, dialogs and hashing.        *)

CreateAccountSteps ==
  OpHead \o <<F("require", "new_account"), S("dialog"), S("confirm")>>

PaymentSteps ==
  OpHead \o <<F("require", "destination_account"), F("format_asset", "asset"),
             S("dialog"), F("hash_asset", "asset"), S("confirm")>>

\* Two dialogs (what the receiver gets, what the sender pays); the send
\* asset, the destination asset and the path assets are hashed after them.
PathPaymentSteps ==
  OpHead \o <<F("require", "destination_account"),
             F("format_asset", "send_asset"), F("format_asset", "destination_asset"),
             S("dialog"), S("dialog"),
             F("hash_asset", "send_asset"), F("hash_asset", "destination_asset"),
             F("hash_asset", "paths"), S("confirm")>>

PathPaymentStrictReceiveSteps == PathPaymentSteps
PathPaymentStrictSendSteps == PathPaymentSteps

ManageBuyOfferSteps ==
  OpHead \o <<F("format_asset", "buying_asset"), F("format_asset", "selling_asset"),
             S("dialog"), F("hash_asset", "selling_asset"),
             F("hash_asset", "buying_asset"), S("confirm")>>

SellOfferSteps ==
  OpHead \o <<F("format_asset", "selling_asset"), F("format_asset", "buying_asset"),
             S("dialog"), F("hash_asset", "selling_asset"),
             F("hash_asset", "buying_asset"), S("confirm")>>

ManageSellOfferSteps == SellOfferSteps
CreatePassiveSellOfferSteps == SellOfferSteps

\* Each optional part (inflation destination, clear flags, set flags,
\* thresholds, home domain, signer, signer hash) has its own dialog; an
\* absent part behaves as a present part that passes and is accepted.
SetOptionsSteps ==
  OpHead \o <<F("require", "inflation_destination_account"), S("dialog"),
             F("require", "clear_flags"), S("dialog"),
             F("require", "set_flags"), S("dialog"),
             S("dialog"), S("dialog"),
             F("require", "signer_type"), S("dialog"), S("dialog"),
             S("confirm")>>

\* The issuer is decoded before the dialog; its failure is
\* stellar_signingFail("User canceled") and then a second Failure, "Invalid
\* asset issuer".  The later stellar_hashupdate_asset of the same asset
\* therefore cannot fail.
ChangeTrustSteps ==
  OpHead \o <<F("require_twice", "asset"), S("dialog"), F("hash_asset", "asset"), S("confirm")>>

\* The asset type is checked after the dialog, while it is being hashed.
AllowTrustSteps ==
  OpHead \o <<F("require", "trusted_account"), S("dialog"),
             F("require", "asset_type"), S("confirm")>>

AccountMergeSteps ==
  OpHead \o <<F("require", "destination_account"), S("dialog"), S("confirm")>>

ManageDataSteps == OpHead \o <<S("dialog"), S("dialog"), S("confirm")>>

BumpSequenceSteps == OpHead \o <<S("dialog"), S("confirm")>>

-----------------------------------------------------------------------------
(* The steps of the protocol                                               *)

\* Mutant: every operation counted as confirmed once the count is reached.
stellar_allOperationsConfirmedGeq(st) == st.confirmed >= numOps

\* stellar_allOperationsConfirmed
stellar_allOperationsConfirmed(st) == st.confirmed = numOps

\* Workflow 5a/5b: after a handler returns true the device answers
\* StellarSignedTx (stellar_fillSignedTx hashes the closing zero word and
\* finalises the context) when every operation is confirmed,
\* StellarTxOpRequest otherwise.  stellar_signing stays as the handler left
\* it.  A handler that returns false has written its own Failure, or nothing.
Dispatch(st) ==
  /\ confirmed' = st.confirmed
  /\ opsHashed' = st.ops
  /\ signing' = st.signing
  /\ IF st.ret = "true" /\ stellar_allOperationsConfirmed(st)
     THEN resp' = Append(st.resp, "SignedTx") /\ signatures' = signatures + 1
     ELSE /\ resp' = IF st.ret = "true" THEN Append(st.resp, "TxOpRequest") ELSE st.resp
          /\ signatures' = signatures

Start ==
  [signing |-> signing, confirmed |-> confirmed, ops |-> opsHashed,
   resp |-> <<>>, ret |-> "run", dlg |-> 0]

\* One operation message: the handler runs on every choice of the
\* validity of its fields, of the source account, and of the dialog the
\* user cancels (0: none).
Operation(name, steps) ==
  /\ signing => Len(opsHashed) < MaxOps
  /\ req' = name
  /\ \E src \in Sources, v \in [OpFields(steps) -> BOOLEAN], c \in 0..NumDialogs(steps) :
       Dispatch(Exec(steps, src, v, c, Start))
  /\ UNCHANGED <<numOps, headerOk, sessions>>

CreateAccountOp == Operation("CreateAccount", CreateAccountSteps)
PaymentOp == Operation("Payment", PaymentSteps)
PathPaymentStrictReceiveOp == Operation("PathPaymentStrictReceive", PathPaymentStrictReceiveSteps)
PathPaymentStrictSendOp == Operation("PathPaymentStrictSend", PathPaymentStrictSendSteps)
ManageBuyOfferOp == Operation("ManageBuyOffer", ManageBuyOfferSteps)
ManageSellOfferOp == Operation("ManageSellOffer", ManageSellOfferSteps)
CreatePassiveSellOfferOp == Operation("CreatePassiveSellOffer", CreatePassiveSellOfferSteps)
SetOptionsOp == Operation("SetOptions", SetOptionsSteps)
ChangeTrustOp == Operation("ChangeTrust", ChangeTrustSteps)
AllowTrustOp == Operation("AllowTrust", AllowTrustSteps)
AccountMergeOp == Operation("AccountMerge", AccountMergeSteps)
ManageDataOp == Operation("ManageData", ManageDataSteps)
BumpSequenceOp == Operation("BumpSequence", BumpSequenceSteps)

\* Mutant: the counter of confirmed operations kept across sessions.
ResetKeepsCount == confirmed' = confirmed /\ opsHashed' = <<>>

\* memzero(&stellar_activeTx, sizeof(StellarTransaction)) and sha256_Init
ResetActiveTx == confirmed' = 0 /\ opsHashed' = <<>>

\* The fee, signing account and memo screens: a cancel on any of them is
\* stellar_signingFail; otherwise the first operation is requested.
stellar_layoutTransactionSummary ==
  \/ signing' = TRUE /\ resp' = <<"TxOpRequest">>
  \/ signing' = FALSE /\ resp' = <<"Failure">>

\* StellarSignTx: stellar_signingInit sets stellar_signing before anything
\* can fail.  A node that cannot be derived returns false; an invalid
\* memo type writes a DataError and returns false.  On success the
\* summary is confirmed (stellar_layoutTransactionSummary: a cancel is
\* stellar_signingFail) and the first operation requested.
SignTx(m) ==
  /\ sessions < MaxSessions
  /\ sessions' = sessions + 1
  /\ req' = "SignTx"
  /\ numOps' = m.num
  /\ ResetActiveTx
  /\ signatures' = 0
  /\ \/ /\ ~m.derive
        /\ signing' = TRUE /\ headerOk' = FALSE /\ resp' = <<>>
     \/ /\ m.derive /\ m.memo = "invalid"
        /\ signing' = TRUE /\ headerOk' = FALSE /\ resp' = <<"Failure">>
     \/ /\ m.derive /\ m.memo # "invalid"
        /\ headerOk' = TRUE
        /\ stellar_layoutTransactionSummary

Next ==
  \/ \E m \in Requests : SignTx(m)
  \/ CreateAccountOp \/ PaymentOp \/ PathPaymentStrictReceiveOp
  \/ PathPaymentStrictSendOp \/ ManageBuyOfferOp \/ ManageSellOfferOp
  \/ CreatePassiveSellOfferOp \/ SetOptionsOp \/ ChangeTrustOp
  \/ AllowTrustOp \/ AccountMergeOp \/ ManageDataOp \/ BumpSequenceOp

Spec == Init /\ [][Next]_vars

-----------------------------------------------------------------------------
(* Properties                                                              *)

\* While a session is open the SHA-256 context holds exactly the confirmed
\* operations, each with all of its fields: every handler path that stops
\* part way through an operation ends the session.
SessionHashConsistent ==
  signing => /\ Len(opsHashed) = confirmed
             /\ \A i \in DOMAIN opsHashed : opsHashed[i]

\* One StellarSignTx yields at most one signature.  stellar_signing stays
\* set after stellar_fillSignedTx, so operation messages after the
\* signature are still confirmed, hashed into the finalised context and
\* counted; only the equality of stellar_allOperationsConfirmed keeps them
\* from producing a second StellarSignedTx.
SignedOncePerSession == signatures <= 1

\* Every request that fails is answered with exactly one Failure.
AtMostOneFailure == Len(SelectSeq(resp, LAMBDA x : x = "Failure")) <= 1

\* A StellarSignedTx is written only over operations whose fields were all
\* hashed, each confirmed by the user in an open session.
SignedTxCoversOps ==
  (\E i \in DOMAIN resp : resp[i] = "SignedTx") =>
    \A j \in DOMAIN opsHashed : opsHashed[j]

\* Every failure ends the session: after a Failure no operation is
\* accepted until a new StellarSignTx.
FailureEndsSession == (\E i \in DOMAIN resp : resp[i] = "Failure") => ~signing

=============================================================================
