---------------------------- MODULE RequestLoop ----------------------------
(***************************************************************************)
(* The device serving a stream of host requests one at a time: Tron        *)
(* transactions (TronSigning), EVM / Tron messages (EthMessage) and the    *)
(* one-shot GetAddress / SignTx handlers of Cosmos, Ripple, Algorand and   *)
(* Near (OneShotHandlers).  fsm dispatches one request at a time;          *)
(* tron_sign_tx keeps the request while its confirmation dialogs wait for  *)
(* buttons (pc = "confirm"), and no other request is dispatched before it  *)
(* returns, so any other request is served only with the Tron handler      *)
(* idle.                                                                   *)
(*                                                                         *)
(* The variables of each component describe the last request and its      *)
(* answer.  A request of one kind therefore resets the history of the      *)
(* other kinds to its initial value, as a fresh request replaces the       *)
(* previous one in the single message buffer of the firmware.              *)
(***************************************************************************)
EXTENDS TronSigning, EthMessage, OneShotHandlers

tronVars == <<pc, msg, screens, dialog, index, shown, result, signed>>
allVars == <<tronVars, msgVars, oneShotVars>>

\* Tron's history back to its initial value, with the handler idle.
TronIdle ==
  /\ pc = "idle"
  /\ pc' = "idle"
  /\ msg' = [none |-> TRUE]
  /\ screens' = <<>>
  /\ dialog' = 1
  /\ index' = 0
  /\ shown' = {}
  /\ result' = "none"
  /\ signed' = <<>>

\* A step of the Tron transaction handler; the other histories are cleared.
TronStep ==
  /\ Next
  /\ mreq' = NoMsg
  /\ mresp' = NoMsg
  /\ oreq' = NoReq
  /\ oresp' = <<>>

\* A message request, dispatched while tron_sign_tx is not running.
MessageStep ==
  /\ TronIdle
  /\ MsgNext
  /\ oreq' = NoReq
  /\ oresp' = <<>>

\* A one-shot request, dispatched while tron_sign_tx is not running.
OneShotStep ==
  /\ TronIdle
  /\ OneShotNext
  /\ mreq' = NoMsg
  /\ mresp' = NoMsg

DeviceInit == Init /\ MsgInit /\ OneShotInit

DeviceNext == TronStep \/ MessageStep \/ OneShotStep

DeviceSpec == DeviceInit /\ [][DeviceNext]_allVars
=============================================================================
