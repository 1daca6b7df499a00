----------------------------- MODULE TronSigning -----------------------------
(***************************************************************************)
(* tron_sign_tx (tron.c): the checks on the request, the confirmation      *)
(* screens of each contract kind with the user's keys, then serialize,     *)
(* the hash and the signature.                                             *)
(*                                                                         *)
(* A confirmation is a sequence of dialogs, a dialog a sequence of pages,  *)
(* and a page the set of items it draws: <<what, value>> pairs, or         *)
(* <<what, i, value>> for the i-th vote.  The paged layouts                *)
(* (layoutFreezeSign, layoutFreezeV2Sign, layoutDelegateResourceSign,      *)
(* layoutVoteWitnessSign, layoutCancelAllUnfreezeV2Sign) are one dialog    *)
(* of max_index + 1 pages; every protectButton dialog, and each call of    *)
(* layoutTransactionSign and layoutBlindSign (layout2.c, outside this      *)
(* tree), is a dialog of one page that the user confirms or cancels.       *)
(* KEY_UP and KEY_DOWN redraw the same page and change nothing.            *)
(***************************************************************************)
EXTENDS TronSerialize, FiniteSets

CONSTANTS
  Requests,     \* TronSignTx messages the host may send
  Owner,        \* base58_decode_check(owner_address): the signer's raw address
  Signer,       \* signer_str, the signer's base58 address
  KnownTokens,  \* contract addresses get_tron_token_by_address knows
  Junk          \* what the uninitialised to_str[36] may hold

VARIABLES
  pc,        \* "idle" between requests, "confirm" while a dialog is up
  msg,       \* the request being (or last) handled
  screens,   \* its dialogs
  dialog,    \* the dialog on screen
  index,     \* the page of that dialog on screen
  shown,     \* every item drawn for this request so far
  result,    \* how the last request ended
  signed     \* resp->serialized_tx of the last signature

vars == <<pc, msg, screens, dialog, index, shown, result, signed>>

Results == {"none", "signed", "DataError", "ActionCancelled", "ProcessError"}

ResourceName(r) == IF r = 0 THEN "BANDWIDTH" ELSE "ENERGY"

\* "to new contract?" replaces an empty to_str.
ToStr(s) == IF s = "" THEN "to new contract?" ELSE s

\* The TRC-20 transfer(address,uint256) call the code recognises: 68 bytes
\* starting with a9059cbb and twelve zero bytes.
TRC20_PREFIX == <<169, 5, 156, 187>> \o [i \in 1..12 |-> 0]
IsTrc20Call(c) == Len(c.data) = 68 /\ SubSeq(c.data, 1, 16) = TRC20_PREFIX
\* The recipient and value the screen takes from the call data.
Trc20To(c) == <<"trx_address_of", SubSeq(c.data, 17, 36)>>
Trc20Value(c) == SubSeq(c.data, 37, 68)

-----------------------------------------------------------------------------
(* The pages of the paged layouts                                          *)

\* layoutFreezeSign: Freeze pages type, balance, duration, resource,
\* receiver, confirm (max_index 5); UnFreeze type, resource, receiver,
\* confirm (max_index 3).  The max_index test comes before index 2 and 3.
\* Mutant: UnFreeze with max_index 2, one page short.
FreezeMaxIndexShort(c) == IF c.kind = "freeze" THEN 5 ELSE 2
FreezeMaxIndex(c) == IF c.kind = "freeze" THEN 5 ELSE 3
FreezePage(c, i) ==
  CASE i = 0 -> {<<"type", c.kind>>}
    [] i = 1 /\ c.kind = "freeze" -> {<<"balance", c.balance>>}
    [] i = 1 -> {<<"resource", ResourceName(c.resource)>>}
    [] i = FreezeMaxIndex(c) -> {}
    [] i = 2 /\ c.kind = "freeze" -> {<<"duration", c.duration>>}
    [] i = 2 -> {<<"receiver", c.receiver.str>>}
    [] i = 3 -> {<<"resource", ResourceName(c.resource)>>}
    [] i = 4 -> {<<"receiver", c.receiver.str>>}

\* layoutFreezeV2Sign: type, balance, resource, confirm.
FreezeV2Page(c, i) ==
  CASE i = 0 -> {<<"type", c.kind>>}
    [] i = 1 -> {<<"balance", c.balance>>}
    [] i = 2 -> {<<"resource", ResourceName(c.resource)>>}
    [] OTHER -> {}

\* layoutDelegateResourceSign: type, resource, balance, receiver, then lock
\* (Delegate, max_index 5) or confirm (UnDelegate, max_index 4).
DelegateMaxIndex(c) == IF c.kind = "delegate" THEN 5 ELSE 4
DelegatePage(c, i) ==
  CASE i = 0 -> {<<"type", c.kind>>}
    [] i = 1 -> {<<"resource", ResourceName(c.resource)>>}
    [] i = 2 -> {<<"balance", c.balance>>}
    [] i = 3 -> {<<"receiver", c.receiver.str>>}
    [] i = DelegateMaxIndex(c) -> {}
    [] i = 4 -> {<<"lock", c.lock>>}

\* layoutVoteWitnessSign: type, voter, then for vote k the candidate on
\* page 2k+2 and its count on page 2k+3, confirm at vote_count * 2 + 2.
VoteMaxIndex(c) == Len(c.votes) * 2 + 2
VotePage(c, i) ==
  CASE i = 0 -> {<<"type", IF c.hasSupport /\ ~c.support THEN "remove" ELSE "vote">>}
    [] i = 1 -> {<<"voter", Signer>>}
    [] i = VoteMaxIndex(c) -> {}
    [] i % 2 = 0 -> {<<"candidate", (i - 2) \div 2 + 1, c.votes[(i - 2) \div 2 + 1].addr.str>>}
    [] OTHER -> {<<"votes", (i - 3) \div 2 + 1, c.votes[(i - 3) \div 2 + 1].count>>}

\* layoutCancelAllUnfreezeV2Sign: type, signer, confirm.
CancelAllPage(c, i) ==
  CASE i = 0 -> {<<"type", c.kind>>}
    [] i = 1 -> {<<"signer", Signer>>}
    [] OTHER -> {}

Pager(max, Page(_)) == [i \in 1..(max + 1) |-> Page(i - 1)]

-----------------------------------------------------------------------------
(* The confirmation of each contract kind                                  *)

\* The dialogs tron_sign_tx puts up for request m; junk is what to_str
\* holds when a transfer has no to_address.
Screens(m, junk) ==
  LET c == m.contract
      token == IsTrc20Call(c) /\ c.contractAddr.str \in KnownTokens
  IN
  CASE c.kind = "transfer" ->
         << << {<<"trx", c.amount>>,
                <<"to", ToStr(IF c.hasTo THEN c.to.str ELSE junk)>>} >> >>
    [] c.kind = "trigger" /\ token ->
         << << {<<"token", Trc20Value(c)>>, <<"to", Trc20To(c)>>}
                 \cup (IF m.hasFeeLimit THEN {<<"fee", m.feeLimit>>} ELSE {}) >> >>
    [] c.kind = "trigger" ->
         << << {<<"to", ToStr(c.contractAddr.str)>>, <<"data", c.data>>} >> >>
    [] c.kind \in {"freeze", "unfreeze"} ->
         << Pager(FreezeMaxIndex(c), LAMBDA i : FreezePage(c, i)) >>
    [] c.kind \in {"withdraw", "withdrawExpire"} ->
         << << {<<"type", c.kind>>} >>, << {} >> >>
    [] c.kind \in {"freezeV2", "unfreezeV2"} ->
         << Pager(3, LAMBDA i : FreezeV2Page(c, i)) >>
    [] c.kind \in {"delegate", "undelegate"} ->
         << Pager(DelegateMaxIndex(c), LAMBDA i : DelegatePage(c, i)) >>
    [] c.kind = "vote" ->
         << Pager(VoteMaxIndex(c), LAMBDA i : VotePage(c, i)) >>
    [] c.kind = "cancelAll" ->
         << Pager(2, LAMBDA i : CancelAllPage(c, i)) >>

\* The requests tron_sign_tx refuses with Failure_DataError: no contract
\* flag set, or a smart-contract call without data or shorter than 4 bytes.
DataError(m) ==
  \/ m.contract.kind \notin Kinds
  \/ m.contract.kind = "trigger" /\ (~m.contract.hasData \/ Len(m.contract.data) < 4)

-----------------------------------------------------------------------------
(* The handler                                                             *)

TypeOK ==
  /\ pc \in {"idle", "confirm"}
  /\ msg \in Requests \cup {[none |-> TRUE]}
  /\ result \in Results
  /\ signed \in Seq(Nat)
  /\ pc = "confirm" => /\ dialog \in 1..Len(screens)
                       /\ index \in 0..(Len(screens[dialog]) - 1)

Init ==
  /\ pc = "idle"
  /\ msg = [none |-> TRUE]
  /\ screens = <<>>
  /\ dialog = 1
  /\ index = 0
  /\ shown = {}
  /\ result = "none"
  /\ signed = <<>>

MaxIndex == Len(screens[dialog]) - 1

\* tron_sign_tx up to its first screen: the data checks fail the request
\* at once; otherwise the first page of the first dialog is drawn.
TronSignTx(m, junk) ==
  /\ pc = "idle"
  /\ msg' = m
  /\ signed' = <<>>
  /\ dialog' = 1
  /\ index' = 0
  /\ IF DataError(m)
     THEN /\ result' = "DataError"
          /\ screens' = <<>>
          /\ shown' = {}
          /\ UNCHANGED pc
     ELSE /\ result' = "none"
          /\ screens' = Screens(m, junk)
          /\ shown' = screens'[1][1]
          /\ pc' = "confirm"

\* Mutant: KEY_CONFIRM on the last page moves on instead of returning.
PageForwardPastEnd ==
  /\ pc = "confirm"
  /\ index <= MaxIndex
  /\ index' = index + 1
  /\ shown' = shown \cup (IF index + 2 <= Len(screens[dialog])
                          THEN screens[dialog][index + 2] ELSE {})
  /\ UNCHANGED <<pc, msg, screens, dialog, result, signed>>

\* KEY_CONFIRM before the last page: index++ and the next page is drawn.
PageForward ==
  /\ pc = "confirm"
  /\ index < MaxIndex
  /\ index' = index + 1
  /\ shown' = shown \cup screens[dialog][index + 2]
  /\ UNCHANGED <<pc, msg, screens, dialog, result, signed>>

\* KEY_CONFIRM on the last page of a dialog that is not the last one: the
\* layout returns true and tron_sign_tx draws its next dialog.
NextDialog ==
  /\ pc = "confirm"
  /\ index = MaxIndex
  /\ dialog < Len(screens)
  /\ dialog' = dialog + 1
  /\ index' = 0
  /\ shown' = shown \cup screens[dialog + 1][1]
  /\ UNCHANGED <<pc, msg, screens, result, signed>>

\* KEY_CANCEL between the first and the last page: index-- (the page drawn
\* again was drawn before).
PageBack ==
  /\ pc = "confirm"
  /\ 0 < index /\ index < MaxIndex
  /\ index' = index - 1
  /\ UNCHANGED <<pc, msg, screens, dialog, shown, result, signed>>

\* KEY_CANCEL on the first or the last page, or any other key (the switch's
\* default): the layout returns false and tron_sign_tx sends
\* Failure_ActionCancelled.
Cancel ==
  /\ pc = "confirm"
  /\ pc' = "idle"
  /\ result' = "ActionCancelled"
  /\ UNCHANGED <<msg, screens, dialog, index, shown, signed>>

\* KEY_CONFIRM on the last page of the last dialog: serialize, sha256 over
\* buf[0 .. index), and the signature; hdnode_sign_digest may fail.
Sign ==
  /\ pc = "confirm"
  /\ index = MaxIndex
  /\ dialog = Len(screens)
  /\ pc' = "idle"
  /\ \E ok \in BOOLEAN :
       IF ok THEN /\ result' = "signed"
                  /\ signed' = serialize(msg, Owner)
             ELSE /\ result' = "ProcessError"
                  /\ UNCHANGED signed
  /\ UNCHANGED <<msg, screens, dialog, index, shown>>

Next ==
  \/ \E m \in Requests, junk \in Junk : TronSignTx(m, junk)
  \/ PageForward
  \/ NextDialog
  \/ PageBack
  \/ Cancel
  \/ Sign

Spec == Init /\ [][Next]_vars

-----------------------------------------------------------------------------
(* Properties                                                              *)

\* The bytes tron_sign_tx signs are the protobuf encoding of the request's
\* Transaction.raw: every key, varint and length, the Contract packed in
\* two passes, the Any length added up by hand, and fee_limit's two-byte key.
SerializedIsProtobuf == result = "signed" => signed = RefRaw(msg, Owner)

\* What the user must have seen of a staking, voting or withdrawal contract
\* before it is signed: its kind, every amount, resource, receiver and lock
\* it carries, and each vote with its own count.
Terms(c) ==
  CASE c.kind \in {"freeze", "unfreeze", "freezeV2", "unfreezeV2",
                   "delegate", "undelegate"} ->
         {<<"type", c.kind>>, <<"resource", ResourceName(c.resource)>>}
           \cup (IF c.kind # "unfreeze" THEN {<<"balance", c.balance>>} ELSE {})
           \cup (IF c.kind = "freeze" THEN {<<"duration", c.duration>>} ELSE {})
           \cup (IF c.hasReceiver THEN {<<"receiver", c.receiver.str>>} ELSE {})
           \cup (IF c.kind = "delegate" THEN {<<"lock", c.lock>>} ELSE {})
    [] c.kind = "vote" ->
         {<<"candidate", k, c.votes[k].addr.str>> : k \in DOMAIN c.votes}
           \cup {<<"votes", k, c.votes[k].count>> : k \in DOMAIN c.votes}
    [] c.kind \in {"withdraw", "withdrawExpire", "cancelAll"} -> {<<"type", c.kind>>}
    [] OTHER -> {}

\* The paged layouts, walked forwards and back with the keys, only let a
\* signature through once every term of the contract has been on screen.
SignedTermsShown == result = "signed" => Terms(msg.contract) \subseteq shown

\* A TRX transfer, or a smart-contract call that sends TRX with it
\* (call_value), is signed only as it was shown: the amount of TRX it moves
\* was on screen, and a transfer's recipient decodes and is the address the
\* screen showed.
ValueTransferShown ==
  result = "signed" =>
    LET c == msg.contract IN
    /\ c.kind = "transfer" =>
         /\ <<"trx", c.amount>> \in shown
         /\ c.to.raw # <<>>
         /\ <<"to", c.to.str>> \in shown
    /\ c.kind = "trigger" /\ c.callValue # 0 => <<"trx", c.callValue>> \in shown

=============================================================================
