CONSTANTS
  c1 = c1
  c2 = c2
  r1 = r1
  r2 = r2
  a1 = a1
  NoCid = NoCid
  NoReq = NoReq
  Cids <- MCCids
  RegReqs <- MCRegReqs
  BogusReqs <- MCBogusReqs
  AuthReqs <- MCAuthReqs
  PingLens <- MCPingLens
  INIT_DATA = 2
  CONT_DATA = 3
  MAX_CONT = 2
  U2F_OUT_PKT_BUFFER_LEN = 4
  U2F_TIMEOUT = 3
  APDU_LEN = 3
  REG_RESP_LEN = 5
  AUTH_RESP_LEN = 5
  MaxMsgs = 2
  MaxFrames = 6
SPECIFICATION Spec
CHECK_DEADLOCK FALSE
INVARIANT SignedWhileDialogLive
