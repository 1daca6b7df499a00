\* fsm_msgCosmosSignTx returns without an answer when cosmos_sign_tx fails
\* without answering (fsm_msg_cosmos.h 91-93).
SPECIFICATION OneShotSpec
INVARIANT OneShotAnswered
