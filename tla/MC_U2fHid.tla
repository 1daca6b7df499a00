------------------------------ MODULE MC_U2fHid ------------------------------
(***************************************************************************)
(* U2fHid at a scale TLC can check.  The frame sizes 57/59, the 128       *)
(* continuation frames and the ring of 130 packets are scaled together:   *)
(* a maximal message still takes 1 + MAX_CONT frames and exactly fills an  *)
(* empty ring (capacity U2F_OUT_PKT_BUFFER_LEN - 1).  U2F_TIMEOUT lets the *)
(* wait loop run long enough for two presses and a retry.                 *)
(***************************************************************************)
EXTENDS U2fHid

CONSTANTS c1, c2, r1, r2, a1

MCCids == {c1, c2}
MCRegReqs == {r1, r2}
MCBogusReqs == {r2}
MCAuthReqs == {a1}

MCMaxPayload == 2 + 2 * 3

\* One-frame, maximal and one byte too long pings.
MCPingLens == {1, MCMaxPayload, MCMaxPayload + 1}

====
