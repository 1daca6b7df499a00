CONSTANTS
  Requests <- MCRequests
  Owner <- MCOwner
  Signer = "TSigner"
  KnownTokens <- MCKnownTokens
  Junk <- MCJunk
  Keys = {"K1", "K2"}
  Stray = "KS"
  Pkh <- MCPkh
  Messages <- MCMessages
  TypedHashes = {"h1", "h2"}
  VerifyReqs <- MCDeviceVerifyReqs


SPECIFICATION DeviceSpec

INVARIANT ValueTransferShown
