--------------------------- MODULE SigningSession ---------------------------
(***************************************************************************)
(* What a streaming signing session promises its host, independent of the  *)
(* chain: an Init request opens a session that wants some bytes (or signs  *)
(* at once when the first chunk was all of them), every accepted Ack       *)
(* leaves strictly fewer bytes wanted, a signature is produced only by the *)
(* Init that carried everything or by the Ack that delivered the last byte *)
(* of an open session, and any request may end the session with a failure. *)
(* An Ack with no open session can only fail.                              *)
(***************************************************************************)
EXTENDS Naturals

CONSTANT Limit   \* the largest payload a session accepts

VARIABLES
  active,      \* a session is open
  remaining,   \* bytes the open session still wants
  outcome,     \* what the last request was answered with
  request      \* the kind of the last request

vars == <<active, remaining, outcome, request>>

Init ==
  /\ active = FALSE
  /\ remaining = 0
  /\ outcome = "none"
  /\ request = "none"

\* an Init request, open or not, (re)starts a session
Open ==
  /\ active' = TRUE
  /\ remaining' \in 1..Limit
  /\ outcome' = "request"
  /\ request' = "Init"

\* an Init request whose first chunk was the whole payload
OpenAndSign ==
  /\ active' = FALSE
  /\ remaining' = 0
  /\ outcome' = "signed"
  /\ request' = "Init"

\* an Ack that leaves bytes to send
Chunk ==
  /\ active
  /\ active' = TRUE
  /\ remaining' \in 1..(remaining - 1)
  /\ outcome' = "request"
  /\ request' = "Ack"

\* the Ack with the last byte
Finish ==
  /\ active
  /\ active' = FALSE
  /\ remaining' = 0
  /\ outcome' = "signed"
  /\ request' = "Ack"

Fail ==
  /\ active' = FALSE
  /\ remaining' = 0
  /\ outcome' = "failed"
  /\ request' \in {"Init", "Ack"}

Next == Open \/ OpenAndSign \/ Chunk \/ Finish \/ Fail

Spec == Init /\ [][Next]_vars

=============================================================================
