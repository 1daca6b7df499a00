CONSTANTS
  Keys = {"K1", "K2"}
  Stray = "KS"
  Pkh <- MCPkh
  Messages <- MCMessages
  TypedHashes = {"h1", "h2"}
  VerifyReqs <- MCVerifyReqs

SPECIFICATION MsgSpec

INVARIANT MsgTypeOK
INVARIANT VerifyExact
INVARIANT MessageSignatureVerifies
