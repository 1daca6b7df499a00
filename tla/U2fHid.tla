------------------------------- MODULE U2fHid -------------------------------
(***************************************************************************)
(* The U2F HID transport and the user-presence state machine of           *)
(* src/legacy/firmware/u2f.c.                                              *)
(*                                                                         *)
(* Frames from the host arrive one per usbPoll.  Outside a transaction     *)
(* (pc = "idle") u2fhid_read hands an init frame to u2fhid_read_start,     *)
(* which points reader at a stack buffer, switches to tiny mode and loops: *)
(* it collects continuation frames (pc = "collect"), dispatches the        *)
(* complete message, then waits while dialog_timeout > 0 for the next      *)
(* command or a button press (pc = "wait").  In tiny mode u2fhid_read      *)
(* answers frames of other channels with ERR_CHANNEL_BUSY, aborts the      *)
(* reader on a U2FHID_INIT of the channel and on a wrong sequence number.  *)
(* Every reply goes through queue_u2f_pkt into the ring of                 *)
(* U2F_OUT_PKT_BUFFER_LEN packets that the host drains.                    *)
(*                                                                         *)
(* u2f_register and u2f_authenticate share last_req_state: the first       *)
(* request shows a dialog and answers CONDITIONS_NOT_SATISFIED; a button   *)
(* press in the wait loop moves REG to REG_PASS (AUTH to AUTH_PASS); the   *)
(* host's retry of the same request then gets the signed response.         *)
(*                                                                         *)
(* Data abstraction: payload bytes are not kept; a message is a record of  *)
(* its command, length and (for U2FHID_MSG) the APDU it carries, a request *)
(* is a model value compared with memcmp's equality, and the reader keeps  *)
(* which frames of which host message it copied.  The frame sizes 57/59,   *)
(* the 128 continuation frames, the ring of 130 packets and U2F_TIMEOUT    *)
(* are constants, scaled together in the MC module.  The host side is a    *)
(* history: the messages it started and how far it sent each.             *)
(***************************************************************************)
EXTENDS Integers, Sequences, FiniteSets

CONSTANTS
  Cids,           \* channel ids the host uses (never 0 nor CID_BROADCAST)
  NoCid,          \* cid = 0
  INIT_DATA,      \* sizeof(f->init.data), 57
  CONT_DATA,      \* sizeof(f->cont.data), 59
  MAX_CONT,       \* continuation frames of a maximal message, 128
  U2F_OUT_PKT_BUFFER_LEN,  \* 130
  U2F_TIMEOUT,    \* iterations of the wait loops
  PingLens,       \* lengths of U2FHID_PING messages the host sends
  APDU_LEN,       \* length of a U2FHID_MSG carrying a request
  REG_RESP_LEN,   \* bytes of a register response
  AUTH_RESP_LEN,  \* bytes of an authenticate response
  RegReqs,        \* U2F_REGISTER_REQ contents
  BogusReqs,      \* those with the Chrome / Firefox bogus appId
  AuthReqs,       \* U2F_AUTHENTICATE_REQ contents
  NoReq,          \* the zero-initialised static last_req
  MaxMsgs,        \* bound on the messages the host starts
  MaxFrames       \* bound on the frames the host sends

ASSUME BogusReqs \subseteq RegReqs /\ NoCid \notin Cids

\* U2F_MAXIMUM_PAYLOAD_LENGTH = sizeof(reader->buf): 57 + 128 * 59 = 7609
U2F_MAXIMUM_PAYLOAD_LENGTH == INIT_DATA + MAX_CONT * CONT_DATA

\* reader->seq while no message is being collected
NO_SEQ == 255

\* The command byte of an init frame, which is also its cont.seq byte.
CmdByte == [INIT |-> 134, PING |-> 129, MSG |-> 131, LOCK |-> 132, WINK |-> 136]

Apdus == [ins : {"REG"}, req : RegReqs] \cup [ins : {"AUTH"}, req : AuthReqs]
NoApdu == [ins |-> "none", req |-> NoReq]

\* The messages a host may start: PING with any length (one above the
\* maximum included), MSG with a request, WINK, and LOCK, which the
\* firmware does not implement.
HostMessages ==
  [cmd : {"PING"}, len : PingLens, apdu : {NoApdu}] \cup
  [cmd : {"MSG"}, len : {APDU_LEN}, apdu : Apdus] \cup
  [cmd : {"WINK", "LOCK"}, len : {0}, apdu : {NoApdu}]

\* Frames of a message of len bytes: one init frame, then cont frames.
NumFrames(len) ==
  IF len <= INIT_DATA THEN 1 ELSE 1 + (len - INIT_DATA + CONT_DATA - 1) \div CONT_DATA

\* Frame k of host message m (carried in msg) on channel c.
Frame(c, m, msg, k) ==
  IF k = 0
  THEN [cid |-> c, init |-> TRUE, cmd |-> msg.cmd, len |-> msg.len,
        seq |-> CmdByte[msg.cmd], apdu |-> msg.apdu, m |-> m, k |-> 0]
  ELSE [cid |-> c, init |-> FALSE, cmd |-> "none", len |-> 0,
        seq |-> k - 1, apdu |-> NoApdu, m |-> m, k |-> k]

\* A U2FHID_INIT request on channel c.
InitFrame(c) ==
  [cid |-> c, init |-> TRUE, cmd |-> "INIT", len |-> 8, seq |-> CmdByte.INIT,
   apdu |-> NoApdu, m |-> 0, k |-> 0]

\* reader == 0
NoReader == [cmd |-> "none", len |-> 0, seq |-> NO_SEQ, got |-> 0, apdu |-> NoApdu, frames |-> <<>>]

States == {"INIT", "AUTH", "AUTH_PASS", "REG", "REG_PASS"}
Presses == [kind : {"REG", "AUTH"}, req : RegReqs \cup AuthReqs, stale : BOOLEAN]
NoPress == [kind |-> "none", req |-> NoReq, stale |-> FALSE]

VARIABLES
  pc,             \* "idle" (reader == 0), "collect", "wait"
  cid,            \* the static cid of the channel being served
  reader,         \* *reader: cmd, len, seq, buf_ptr - buf (got), copied frames
  dialogTimeout,  \* dialog_timeout
  lastReqState,   \* last_req_state
  nextPage,       \* next_page
  lastReg,        \* u2f_register's static last_req
  lastAuth,       \* u2f_authenticate's static last_req
  outStart,       \* u2f_out_start
  outEnd,         \* u2f_out_end
  hostMsgs,       \* the messages the host started (history)
  hostCur,        \* per channel: the message being sent and its next frame
  frames,         \* frames sent so far (history)
  lastDispatch,   \* the last message dispatched, and its reply (history)
  press,          \* the button press not yet used by a response (history)
  lastSuccess,    \* the last signed response and the press it used (history)
  dropped         \* a reply packet was dropped by queue_u2f_pkt (history)

vars == <<pc, cid, reader, dialogTimeout, lastReqState, nextPage, lastReg,
          lastAuth, outStart, outEnd, hostMsgs, hostCur, frames, lastDispatch,
          press, lastSuccess, dropped>>

u2fVars == <<dialogTimeout, lastReqState, nextPage, lastReg, lastAuth>>
hostVars == <<hostMsgs, hostCur, frames>>

Ring == 0..(U2F_OUT_PKT_BUFFER_LEN - 1)
Cmds == {"none", "PING", "MSG", "LOCK", "WINK"}
NoDispatch == [cmd |-> "none", len |-> 0, cid |-> NoCid, frames |-> <<>>, pkts |-> 0]
NoSuccess == [kind |-> "none", req |-> NoReq, press |-> NoPress]

TypeOK ==
  /\ pc \in {"idle", "collect", "wait"}
  /\ cid \in Cids \cup {NoCid}
  /\ reader.cmd \in Cmds
  /\ reader.len \in {0} \cup PingLens \cup {APDU_LEN}
  /\ reader.seq \in 0..MAX_CONT \cup {NO_SEQ}
  \* buf_ptr never leaves reader->buf
  /\ reader.got \in 0..U2F_MAXIMUM_PAYLOAD_LENGTH
  /\ reader.frames \in Seq([m : 1..MaxMsgs, k : 0..MAX_CONT])
  /\ dialogTimeout \in 0..U2F_TIMEOUT
  /\ lastReqState \in States
  /\ nextPage \in BOOLEAN
  /\ lastReg \in RegReqs \cup {NoReq}
  /\ lastAuth \in AuthReqs \cup {NoReq}
  /\ outStart \in Ring /\ outEnd \in Ring
  /\ hostMsgs \in Seq([msg : HostMessages, cid : Cids]) /\ Len(hostMsgs) <= MaxMsgs
  /\ hostCur \in [Cids -> [m : 0..MaxMsgs, next : Nat]]
  /\ frames \in 0..MaxFrames
  /\ press \in Presses \cup {NoPress}
  /\ dropped \in BOOLEAN

Init ==
  /\ pc = "idle"
  /\ cid = NoCid
  /\ reader = NoReader
  /\ dialogTimeout = 0
  /\ lastReqState = "INIT"
  /\ nextPage = FALSE
  /\ lastReg = NoReq
  /\ lastAuth = NoReq
  /\ outStart = 0
  /\ outEnd = 0
  /\ hostMsgs = <<>>
  /\ hostCur = [c \in Cids |-> [m |-> 0, next |-> 0]]
  /\ frames = 0
  /\ lastDispatch = NoDispatch
  /\ press = NoPress
  /\ lastSuccess = NoSuccess
  /\ dropped = FALSE

-----------------------------------------------------------------------------
(* The reply ring                                                          *)

\* queue_u2f_pkt with u2f_out_end = end: a full ring drops the packet.
queue_u2f_pkt(end) ==
  IF outStart = (end + 1) % U2F_OUT_PKT_BUFFER_LEN
  THEN end
  ELSE (end + 1) % U2F_OUT_PKT_BUFFER_LEN

\* u2f_out_end after n packets queued one after the other from end.
RECURSIVE QueuePkts(_, _)
QueuePkts(n, end) == IF n = 0 THEN end ELSE QueuePkts(n - 1, queue_u2f_pkt(end))

\* send_u2fhid_msg: no packet for a message above the maximum, else one
\* init packet and the cont packets.
MsgPkts(len) == IF len > U2F_MAXIMUM_PAYLOAD_LENGTH THEN 0 ELSE NumFrames(len)

\* send_u2fhid_error: a single packet.  send_u2f_error: a 2-byte message.
ERR_PKTS == 1
U2F_ERR_PKTS == MsgPkts(2)

-----------------------------------------------------------------------------
(* u2f_register, u2f_authenticate, u2fhid_wink                             *)

\* The user-presence state they read and write.
U2fState == [st |-> lastReqState, np |-> nextPage, dt |-> dialogTimeout,
             reg |-> lastReg, auth |-> lastAuth]

\* A handler's result: the state after it, the packets it sends, and
\* whether it sent a signed response.
Result(u, pkts, ok) == [u |-> u, pkts |-> pkts, ok |-> ok]

\* Mutant: the state machine is not reset when the request changes.
u2f_registerKeepsState(u, r) ==
  LET s0 == u.st
      s1 == IF s0 = "INIT" THEN "REG" ELSE s0
      v  == [u EXCEPT !.reg = r,
                      !.np = IF s0 = "INIT" /\ r \notin BogusReqs THEN TRUE ELSE @]
  IN CASE s1 = "REG"      -> Result([v EXCEPT !.st = "REG", !.dt = U2F_TIMEOUT], U2F_ERR_PKTS, FALSE)
       [] s1 = "REG_PASS" -> Result([v EXCEPT !.st = "INIT", !.dt = 0], MsgPkts(REG_RESP_LEN), TRUE)
       [] OTHER           -> Result([v EXCEPT !.st = s1, !.dt = 0], 0, FALSE)

\* u2f_register on a well-formed request r of an unlocked device whose
\* seed is cached: a request other than last_req resets the machine; INIT
\* shows the dialog (two pages unless the appId is a bogus one); REG
\* answers "test of user presence required"; REG_PASS signs; any other
\* state falls through with dialog_timeout = 0 and no answer.
u2f_register(u, r) ==
  LET s0 == IF r # u.reg THEN "INIT" ELSE u.st
      s1 == IF s0 = "INIT" THEN "REG" ELSE s0
      v  == [u EXCEPT !.reg = r,
                      !.np = IF s0 = "INIT" /\ r \notin BogusReqs THEN TRUE ELSE @]
  IN CASE s1 = "REG"      -> Result([v EXCEPT !.st = "REG", !.dt = U2F_TIMEOUT], U2F_ERR_PKTS, FALSE)
       [] s1 = "REG_PASS" -> Result([v EXCEPT !.st = "INIT", !.dt = 0], MsgPkts(REG_RESP_LEN), TRUE)
       [] OTHER           -> Result([v EXCEPT !.st = s1, !.dt = 0], 0, FALSE)

\* u2f_authenticate with p1 = enforce on a valid key handle: the same
\* machine over AUTH / AUTH_PASS; in another state it sends nothing and
\* leaves dialog_timeout alone.
u2f_authenticate(u, r) ==
  LET s0 == IF r # u.auth THEN "INIT" ELSE u.st
      s1 == IF s0 = "INIT" THEN "AUTH" ELSE s0
      v  == [u EXCEPT !.auth = r, !.np = IF s0 = "INIT" THEN TRUE ELSE @]
  IN CASE s1 = "AUTH"      -> Result([v EXCEPT !.st = "AUTH", !.dt = U2F_TIMEOUT], U2F_ERR_PKTS, FALSE)
       [] s1 = "AUTH_PASS" -> Result([v EXCEPT !.st = "INIT", !.dt = 0], MsgPkts(AUTH_RESP_LEN), TRUE)
       [] OTHER            -> Result([v EXCEPT !.st = s1], 0, FALSE)

\* u2fhid_wink: a non-empty payload is refused; otherwise a running
\* dialog_timeout is restarted and one packet answers.
u2fhid_wink(u, len) ==
  IF len > 0
  THEN Result(u, ERR_PKTS, FALSE)
  ELSE Result([u EXCEPT !.dt = IF @ > 0 THEN U2F_TIMEOUT ELSE @], ERR_PKTS, FALSE)

\* The switch on reader->cmd once the message is complete.
Handle(r, u) ==
  CASE r.cmd = "none" -> Result(u, 0, FALSE)                 \* aborted by init
    [] r.cmd = "PING" -> Result(u, MsgPkts(r.len), FALSE)    \* u2fhid_ping echoes
    [] r.cmd = "MSG"  ->
         IF r.apdu.ins = "REG" THEN u2f_register(u, r.apdu.req)
         ELSE u2f_authenticate(u, r.apdu.req)
    [] r.cmd = "WINK" -> u2fhid_wink(u, r.len)
    [] OTHER          -> Result(u, ERR_PKTS, FALSE)          \* ERR_INVALID_CMD

-----------------------------------------------------------------------------
(* u2fhid_read and u2fhid_read_start                                       *)

\* Frames in the ring.
Pending(end) == (end - outStart + U2F_OUT_PKT_BUFFER_LEN) % U2F_OUT_PKT_BUFFER_LEN

\* n packets handed to queue_u2f_pkt in this step.
Emit(n) ==
  /\ outEnd' = QueuePkts(n, outEnd)
  /\ dropped' = (dropped \/ Pending(outEnd') - Pending(outEnd) < n)
  /\ UNCHANGED outStart

\* u2fhid_init_cmd: a new message from an init frame.
u2fhid_init_cmd(f) ==
  [cmd |-> f.cmd, len |-> f.len, seq |-> 0, got |-> INIT_DATA, apdu |-> f.apdu,
   frames |-> <<[m |-> f.m, k |-> f.k]>>]

\* reader->cmd = 0; reader->len = 0; reader->seq = 255;
Abort(r) == [r EXCEPT !.cmd = "none", !.len = 0, !.seq = NO_SEQ]

\* The copy of a continuation frame.
Copy(r, f) ==
  [r EXCEPT !.seq = @ + 1, !.got = @ + CONT_DATA, !.frames = Append(@, [m |-> f.m, k |-> f.k])]

\* Mutant: continuation frames copied whatever their sequence number.
TinyReadAnySeq(f) ==
  CASE f.cmd = "INIT" ->
         [r |-> IF f.cid = cid THEN Abort(reader) ELSE reader, pkts |-> 1]
    [] f.cid # cid -> [r |-> reader, pkts |-> ERR_PKTS]
    [] f.init /\ reader.seq = NO_SEQ -> [r |-> u2fhid_init_cmd(f), pkts |-> 0]
    [] f.init -> [r |-> Abort(reader), pkts |-> ERR_PKTS]
    [] reader.got >= reader.len \/ reader.got + CONT_DATA > U2F_MAXIMUM_PAYLOAD_LENGTH ->
         [r |-> reader, pkts |-> 0]
    [] OTHER -> [r |-> Copy(reader, f), pkts |-> 0]

\* Mutant: the end of reader->buf left out of the out-of-bounds check.
TinyReadNoBufferCheck(f) ==
  CASE f.cmd = "INIT" ->
         [r |-> IF f.cid = cid THEN Abort(reader) ELSE reader, pkts |-> 1]
    [] f.cid # cid -> [r |-> reader, pkts |-> ERR_PKTS]
    [] f.init /\ reader.seq = NO_SEQ -> [r |-> u2fhid_init_cmd(f), pkts |-> 0]
    [] reader.seq # f.seq -> [r |-> Abort(reader), pkts |-> ERR_PKTS]
    [] reader.got >= reader.len -> [r |-> reader, pkts |-> 0]
    [] OTHER -> [r |-> Copy(reader, f), pkts |-> 0]

\* u2fhid_read in tiny mode: the reader after frame f, and the packets sent.
TinyRead(f) ==
  CASE f.cmd = "INIT" ->                        \* u2fhid_init answers
         [r |-> IF f.cid = cid THEN Abort(reader) ELSE reader, pkts |-> 1]
    [] f.cid # cid -> [r |-> reader, pkts |-> ERR_PKTS]   \* ERR_CHANNEL_BUSY
    [] f.init /\ reader.seq = NO_SEQ -> [r |-> u2fhid_init_cmd(f), pkts |-> 0]
    [] reader.seq # f.seq -> [r |-> Abort(reader), pkts |-> ERR_PKTS]  \* ERR_INVALID_SEQ
    [] reader.got >= reader.len \/ reader.got + CONT_DATA > U2F_MAXIMUM_PAYLOAD_LENGTH ->
         [r |-> reader, pkts |-> 0]             \* out of bounds: ignored
    [] OTHER -> [r |-> Copy(reader, f), pkts |-> 0]

\* The device stays in its loop with reader r, having sent n packets.
Keep(r, n) ==
  /\ reader' = r
  /\ Emit(n)
  /\ UNCHANGED <<pc, cid, u2fVars, lastDispatch, press, lastSuccess>>

\* "We have all the data": the switch on reader->cmd, then the wait for
\* the next command; with dialog_timeout = 0 the loop ends at once,
\* resetting last_req_state, next_page, cid and reader.
Dispatch(r, c, pf) ==
  LET res == Handle(r, U2fState)
      u == res.u
  IN /\ outEnd' = QueuePkts(res.pkts, QueuePkts(pf, outEnd))
     /\ dropped' = (dropped \/ Pending(outEnd') - Pending(outEnd) < pf + res.pkts)
     /\ UNCHANGED outStart
     /\ lastDispatch' = [cmd |-> r.cmd, len |-> r.len, cid |-> c, frames |-> r.frames,
                         pkts |-> res.pkts]
     /\ lastSuccess' = IF res.ok
                       THEN [kind |-> r.apdu.ins, req |-> r.apdu.req, press |-> press]
                       ELSE lastSuccess
     /\ lastReg' = u.reg /\ lastAuth' = u.auth /\ dialogTimeout' = u.dt
     /\ IF u.dt > 0
        THEN /\ pc' = "wait" /\ cid' = c
             /\ reader' = [r EXCEPT !.cmd = "none", !.seq = NO_SEQ]
             /\ lastReqState' = u.st /\ nextPage' = u.np
             /\ press' = press
        ELSE /\ pc' = "idle" /\ cid' = NoCid /\ reader' = NoReader
             /\ lastReqState' = "INIT" /\ nextPage' = FALSE
             /\ press' = NoPress

\* The read loop with reader r on channel c: wait for more data or dispatch.
Proceed(r, c, pf) ==
  IF r.got >= r.len
  THEN Dispatch(r, c, pf)
  ELSE /\ pc' = "collect" /\ cid' = c /\ reader' = r
       /\ Emit(pf)
       /\ UNCHANGED <<u2fVars, lastDispatch, press, lastSuccess>>

\* u2fhid_read outside tiny mode: u2fhid_init, or u2fhid_read_start.
ReadStart(f) ==
  CASE f.cmd = "INIT" -> Keep(reader, 1)
    [] ~f.init -> Keep(reader, 0)
    [] f.len > U2F_MAXIMUM_PAYLOAD_LENGTH -> Keep(reader, ERR_PKTS)    \* ERR_INVALID_LEN
    [] OTHER -> Proceed(u2fhid_init_cmd(f), f.cid, 0)

\* A frame arriving through usbPoll.  In the wait loop an aborted or
\* refused frame leaves reader->cmd = 0 and the loop goes on.
Deliver(f) ==
  IF pc = "idle"
  THEN ReadStart(f)
  ELSE LET t == TinyRead(f)
       IN IF pc = "wait" /\ t.r.cmd = "none"
          THEN Keep(t.r, t.pkts)
          ELSE Proceed(t.r, cid, t.pkts)

-----------------------------------------------------------------------------
(* Actions                                                                 *)

\* The host sends frame f; the device handles it in the same step.
SendFrame(f) ==
  /\ frames < MaxFrames
  /\ frames' = frames + 1
  /\ Deliver(f)

\* The host starts message msg on channel c with its init frame.
HostBegin(c, msg) ==
  /\ Len(hostMsgs) < MaxMsgs
  /\ hostMsgs' = Append(hostMsgs, [msg |-> msg, cid |-> c])
  /\ hostCur' = [hostCur EXCEPT ![c] = [m |-> Len(hostMsgs) + 1, next |-> 1]]
  /\ SendFrame(Frame(c, Len(hostMsgs) + 1, msg, 0))

\* The host sends the next frame of its message on channel c.
HostContinue(c) ==
  LET m == hostCur[c].m
  IN /\ m > 0
     /\ hostCur[c].next < NumFrames(hostMsgs[m].msg.len)
     /\ hostCur' = [hostCur EXCEPT ![c].next = @ + 1]
     /\ UNCHANGED hostMsgs
     /\ SendFrame(Frame(c, m, hostMsgs[m].msg, hostCur[c].next))

\* The host repeats or skips ahead to frame k of its message on channel c.
HostResend(c) ==
  LET m == hostCur[c].m
  IN /\ m > 0
     /\ \E k \in 0..(NumFrames(hostMsgs[m].msg.len) - 1) \ {hostCur[c].next} :
          SendFrame(Frame(c, m, hostMsgs[m].msg, k))
     /\ UNCHANGED <<hostMsgs, hostCur>>

\* The host sends U2FHID_INIT on channel c.
HostInit(c) ==
  /\ SendFrame(InitFrame(c))
  /\ UNCHANGED <<hostMsgs, hostCur>>

\* u2f_out_data: the host takes the oldest reply packet.
HostRead ==
  /\ outStart # outEnd
  /\ outStart' = (outStart + 1) % U2F_OUT_PKT_BUFFER_LEN
  /\ UNCHANGED <<pc, cid, reader, u2fVars, outEnd, hostVars, lastDispatch,
                 press, lastSuccess, dropped>>

\* The message-timeout branch of the collect loop: no frame moved the
\* reader for U2F_TIMEOUT polls.  last_req_state is left as it is; the
\* dialog is replaced by layoutHome.
CollectTimeout ==
  /\ pc = "collect"
  /\ Emit(ERR_PKTS)                           \* ERR_MSG_TIMEOUT
  /\ pc' = "idle" /\ cid' = NoCid /\ reader' = NoReader
  /\ press' = IF press = NoPress THEN press ELSE [press EXCEPT !.stale = TRUE]
  /\ UNCHANGED <<u2fVars, hostVars, lastDispatch, lastSuccess>>

\* One iteration of the wait loop: dialog_timeout--, then the button.  A
\* press on the first page turns the page, on the second moves REG to
\* REG_PASS (AUTH to AUTH_PASS).  When dialog_timeout reaches 0 the loop
\* ends and resets last_req_state, next_page, cid and reader.
WaitLoop ==
  /\ pc = "wait"
  /\ \E pressed \in BOOLEAN :
       LET take == pressed /\ lastReqState \in {"AUTH", "REG"}
           pass == take /\ ~nextPage
       IN IF dialogTimeout - 1 > 0
          THEN /\ dialogTimeout' = dialogTimeout - 1
               /\ nextPage' = (nextPage /\ ~take)
               /\ lastReqState' = IF ~pass THEN lastReqState
                                  ELSE IF lastReqState = "REG" THEN "REG_PASS" ELSE "AUTH_PASS"
               /\ press' = IF ~pass THEN press
                           ELSE [kind |-> lastReqState, stale |-> FALSE,
                                 req |-> IF lastReqState = "REG" THEN lastReg ELSE lastAuth]
               /\ UNCHANGED <<pc, cid, reader>>
          ELSE /\ dialogTimeout' = 0
               /\ lastReqState' = "INIT" /\ nextPage' = FALSE /\ press' = NoPress
               /\ pc' = "idle" /\ cid' = NoCid /\ reader' = NoReader
  /\ UNCHANGED <<lastReg, lastAuth, outStart, outEnd, hostVars, lastDispatch,
                 lastSuccess, dropped>>

Next ==
  \/ \E c \in Cids, msg \in HostMessages : HostBegin(c, msg)
  \/ \E c \in Cids : HostContinue(c)
  \/ \E c \in Cids : HostResend(c)
  \/ \E c \in Cids : HostInit(c)
  \/ HostRead
  \/ CollectTimeout
  \/ WaitLoop

Spec == Init /\ [][Next]_vars

-----------------------------------------------------------------------------
(* Properties                                                              *)

\* Reassembly: whatever the host interleaves on two channels (repeated or
\* skipped frames, U2FHID_INIT in the middle, a second channel while one
\* is served), a message dispatched by u2fhid_read_start is exactly one
\* message the host sent on the served channel: its init frame and then
\* all of its continuation frames in order.
DispatchIsHostMessage ==
  lastDispatch.cmd # "none" =>
    LET m == lastDispatch.frames[1].m
    IN /\ hostMsgs[m].cid = lastDispatch.cid
       /\ hostMsgs[m].msg.cmd = lastDispatch.cmd
       /\ hostMsgs[m].msg.len = lastDispatch.len
       /\ lastDispatch.frames =
            [i \in 1..NumFrames(lastDispatch.len) |-> [m |-> m, k |-> i - 1]]

\* User presence: a signed register or authenticate response is sent only
\* after a button press, in the wait loop, on the dialog of that very
\* request (same kind, same memcmp-equal request), and each press signs
\* at most once.
SignedAfterPressForRequest ==
  lastSuccess # NoSuccess =>
    /\ lastSuccess.press.kind = lastSuccess.kind
    /\ lastSuccess.press.req = lastSuccess.req

\* The press a signed response uses was made while the loop of that
\* dialog was still running: the dialog was not dismissed in between by
\* the message timeout of u2fhid_read_start.
SignedWhileDialogLive ==
  lastSuccess # NoSuccess => ~lastSuccess.press.stale

\* u2fhid_read_start refuses a message longer than reader->buf with
\* ERR_INVALID_LEN; the same holds for a message the wait loop starts, so
\* the reader never expects more bytes than its buffer holds.
ReaderLenFitsBuffer == reader.len <= U2F_MAXIMUM_PAYLOAD_LENGTH

\* Every command the device dispatches gets an answer on its channel.
EveryCommandAnswered == lastDispatch.cmd # "none" => lastDispatch.pkts > 0

\* Every reply packet the device produces reaches the ring.
NoReplyDropped == ~dropped

====
