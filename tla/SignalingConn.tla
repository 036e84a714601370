--------------------------- MODULE SignalingConn ----------------------------
(***************************************************************************)
(* server/tcp_connection.*, and what SignalingWorker does with the bytes   *)
(* of one TcpConnection: reading a header and a body into querybuf, acting *)
(* on the request once both are complete, writing the replies, and the     *)
(* timeout of a silent connection.                                         *)
(*                                                                         *)
(* The buffers are modelled by their lengths.  What the header announces   *)
(* (its magic number and body_len) and what the body asks for are chosen   *)
(* by the client and fixed for the connection.  The handlers run on one    *)
(* thread; the turns of the parse loop and of the write loop are steps so  *)
(* that a loop which does not end shows as a behaviour.                    *)
(***************************************************************************)
EXTENDS Integers

CONSTANTS HeadSize,   \* XHEAD_SIZE
          Limit,      \* the 65535 that bytes_processed is set to
          UintMax,    \* largest uint32_t, 2^32 - 1
          IntMax,     \* largest int, 2^31 - 1
          Prealloc,   \* SDS_MAX_PREALLOC
          BodyLen,    \* values of body_len
          ReplySize,  \* bytes of a reply
          Timeout,    \* connection_timeout
          MaxBytes,   \* bound: bytes the client sends
          MaxRequests \* bound: turns of the parse loop that act on the body

ASSUME ConnAssumption ==
  /\ HeadSize \in Nat \ {0}
  /\ Limit \in Nat
  /\ UintMax \in Nat
  /\ IntMax \in HeadSize..UintMax
  /\ Prealloc \in Nat
  /\ BodyLen \subseteq 0..UintMax
  /\ ReplySize \in Nat \ {0}
  /\ Timeout \in Nat \ {0}
  /\ MaxBytes \in Nat
  /\ MaxRequests \in Nat

VARIABLES
  ask,        \* what the client sends: [magic, body, kind]
  sent,       \* bytes the client has sent
  open,       \* the TcpConnection exists
  pc,         \* "idle", "parse" in _process_query_buffer, "write" in _write_reply,
              \* "undefined" after a read of a length that no buffer was made for
  qb,         \* sdslen(querybuf): bytes read
  state, processed, expected,   \* current_state, bytes_processed, bytes_expected
  requests,   \* history: calls of _process_request
  inflight,   \* requests whose answer RtcWorker has not sent back
  replies,    \* length of reply_list
  pos,        \* cur_resp_pos
  watch,      \* whether the socket is watched for WRITE
  done,       \* history: replies written completely
  age         \* time since last_interaction, up to Timeout

client == <<ask, sent>>
parser == <<qb, state, processed, expected, requests>>
writer == <<inflight, replies, pos, watch, done>>
vars == <<ask, sent, open, pc, qb, state, processed, expected, requests,
          inflight, replies, pos, watch, done, age>>

(* "offer": PUSH or PULL, answered later; "oneway": ANSWER, STOPPUSH,       *)
(* STOPPULL or an unknown command, answered at once; "bad": the body        *)
(* is not valid JSON, as an empty one, or has no cmdno.                     *)
Ask == {a \in [magic : BOOLEAN, body : BodyLen, kind : {"offer", "oneway", "bad"}] :
          a.body = 0 => a.kind = "bad"}

TypeOK ==
  /\ ask \in Ask
  /\ sent \in 0..MaxBytes
  /\ open \in BOOLEAN
  /\ pc \in {"idle", "parse", "write", "undefined"}
  /\ qb \in 0..sent
  /\ state \in {"HEAD", "BODY"}
  /\ processed \in Nat
  /\ expected \in Nat
  /\ requests \in 0..MaxRequests
  /\ inflight \in Nat
  /\ replies \in Nat
  /\ pos \in 0..(ReplySize - 1)
  /\ watch \in BOOLEAN
  /\ done \in Nat
  /\ age \in 0..Timeout

(* _new_conn                                                                *)
Init ==
  /\ ask \in Ask
  /\ sent = 0
  /\ open = TRUE
  /\ pc = "idle"
  /\ qb = 0
  /\ state = "HEAD"
  /\ processed = 0
  /\ expected = HeadSize
  /\ requests = 0
  /\ inflight = 0
  /\ replies = 0
  /\ pos = 0
  /\ watch = FALSE
  /\ done = 0
  /\ age = 0

-----------------------------------------------------------------------------
(* The client sends bytes.                                                  *)
Send(n) ==
  /\ sent + n <= MaxBytes
  /\ sent' = sent + n
  /\ UNCHANGED <<ask, open, pc, parser, writer, age>>

(* Time passes.                                                             *)
Tick ==
  /\ age < Timeout
  /\ age' = age + 1
  /\ UNCHANGED <<client, open, pc, parser, writer>>

-----------------------------------------------------------------------------
(* _close_conn: the TcpConnection goes with its reply_list and its watchers; *)
(* the answers still to come will find it gone.                              *)
Close ==
  /\ open' = FALSE
  /\ pc' = "idle"
  /\ inflight' = 0
  /\ replies' = 0
  /\ pos' = 0
  /\ watch' = FALSE
  /\ UNCHANGED done

Idle == open /\ pc = "idle"

(* int read_len = bytes_expected: a body_len above IntMax becomes negative. *)
ReadLen == IF expected <= IntMax THEN expected ELSE expected - (UintMax + 1)

(* sdsMakeRoomFor(querybuf, read_len) with the preallocation.  A negative   *)
(* read_len is a size close to 2^64 there, and the sds header counts its    *)
(* bytes in ints; beyond that the room made is not the room asked for.      *)
RoomFor(n) == n >= 0 /\ qb + n + Prealloc <= IntMax

(* _read_query: up to bytes_expected bytes, whatever is buffered already.   *)
Read(n) ==
  /\ Idle
  /\ RoomFor(ReadLen)
  /\ n <= ReadLen
  /\ qb + n <= sent
  /\ qb' = qb + n
  /\ age' = 0
  /\ pc' = "parse"
  /\ UNCHANGED <<client, open, state, processed, expected, requests, writer>>

(* Without the room there is no telling what read() does to which memory:   *)
(* the model of this connection ends.                                       *)
ReadUndefined ==
  /\ Idle
  /\ ~RoomFor(ReadLen)
  /\ pc' = "undefined"
  /\ UNCHANGED <<client, open, parser, writer, age>>

(* read() returns 0, at the end of the stream or because nothing was asked  *)
(* for, or fails.                                                           *)
ReadClosed ==
  /\ Idle
  /\ Close
  /\ age' = 0
  /\ UNCHANGED <<client, parser>>

(* The guard of the loop in _process_query_buffer.                          *)
Complete == qb >= processed + expected

ParseHead_OneTurn ==
  /\ pc = "parse" /\ Complete /\ state = "HEAD"
  /\ IF ~ask.magic
     THEN /\ Close
          /\ UNCHANGED <<state, processed, expected>>
     ELSE /\ state' = "BODY"
          /\ processed' = HeadSize
          /\ expected' = ask.body
          /\ pc' = "idle"
          /\ UNCHANGED <<open, writer>>
  /\ UNCHANGED <<client, qb, requests, age>>

ParseHead ==
  /\ pc = "parse" /\ Complete /\ state = "HEAD"
  /\ IF ~ask.magic
     THEN /\ Close
          /\ UNCHANGED <<state, processed, expected>>
     ELSE /\ state' = "BODY"
          /\ processed' = HeadSize
          /\ expected' = ask.body
          /\ UNCHANGED <<open, pc, writer>>
  /\ UNCHANGED <<client, qb, requests, age>>

ParseBody_NoSkip ==
  /\ pc = "parse" /\ Complete /\ state = "BODY"
  /\ requests < MaxRequests
  /\ requests' = requests + 1
  /\ \/ /\ ask.kind \in {"bad", "offer"}
        /\ Close
        /\ UNCHANGED processed
     \/ /\ ask.kind = "offer"
        /\ inflight' = inflight + 1
        /\ UNCHANGED processed
        /\ UNCHANGED <<open, pc, replies, pos, watch, done>>
     \/ /\ ask.kind = "oneway"
        /\ replies' = replies + 1
        /\ watch' = TRUE
        /\ UNCHANGED processed
        /\ UNCHANGED <<open, pc, inflight, pos, done>>
  /\ UNCHANGED <<client, qb, state, expected, age>>

(* _process_request, then bytes_processed = 65535.  A request that can not  *)
(* be parsed, or a PUSH or PULL that RtcServer does not take any more,      *)
(* closes the connection.                                                   *)
ParseBody ==
  /\ pc = "parse" /\ Complete /\ state = "BODY"
  /\ requests < MaxRequests
  /\ requests' = requests + 1
  /\ \/ /\ ask.kind \in {"bad", "offer"}
        /\ Close
        /\ UNCHANGED processed
     \/ /\ ask.kind = "offer"
        /\ inflight' = inflight + 1
        /\ processed' = Limit
        /\ UNCHANGED <<open, pc, replies, pos, watch, done>>
     \/ /\ ask.kind = "oneway"
        /\ replies' = replies + 1
        /\ watch' = TRUE
        /\ processed' = Limit
        /\ UNCHANGED <<open, pc, inflight, pos, done>>
  /\ UNCHANGED <<client, qb, state, expected, age>>

ParseEnd ==
  /\ pc = "parse" /\ ~Complete
  /\ pc' = "idle"
  /\ UNCHANGED <<client, open, parser, writer, age>>

(* _response_server_offer, _add_reply                                       *)
Answer_NoWatch ==
  /\ Idle /\ inflight > 0
  /\ inflight' = inflight - 1
  /\ replies' = replies + 1
  /\ UNCHANGED <<client, open, pc, parser, pos, watch, done, age>>

Answer ==
  /\ Idle /\ inflight > 0
  /\ inflight' = inflight - 1
  /\ replies' = replies + 1
  /\ watch' = TRUE
  /\ UNCHANGED <<client, open, pc, parser, pos, done, age>>

-----------------------------------------------------------------------------
(* _write_reply                                                             *)
WriteBegin ==
  /\ Idle /\ watch
  /\ pc' = "write"
  /\ UNCHANGED <<client, open, parser, writer, age>>

(* A write of n > 0 bytes.  When the socket takes none the loop turns       *)
(* without effect.                                                          *)
WriteSome(n) ==
  /\ pc = "write" /\ replies > 0
  /\ pos + n <= ReplySize
  /\ IF pos + n = ReplySize
     THEN /\ replies' = replies - 1
          /\ done' = done + 1
          /\ pos' = 0
     ELSE /\ pos' = pos + n
          /\ UNCHANGED <<replies, done>>
  /\ UNCHANGED <<client, open, pc, parser, inflight, watch, age>>

WriteError ==
  /\ pc = "write" /\ replies > 0
  /\ Close
  /\ UNCHANGED <<client, parser, age>>

WriteEnd ==
  /\ pc = "write" /\ replies = 0
  /\ age' = 0
  /\ watch' = FALSE
  /\ pc' = "idle"
  /\ UNCHANGED <<client, open, parser, inflight, replies, pos, done>>

(* _process_timeout, from a timer that fires every 100 ms.                  *)
TimedOut_Off == FALSE

TimedOut == age >= Timeout

TimeoutClose ==
  /\ Idle /\ TimedOut
  /\ Close
  /\ UNCHANGED <<client, parser, age>>

-----------------------------------------------------------------------------
Parse == ParseHead \/ ParseBody \/ ParseEnd

Next ==
  \/ Tick \/ ReadClosed \/ ReadUndefined \/ Parse \/ Answer
  \/ \E n \in 1..MaxBytes : Send(n) \/ Read(n)
  \/ WriteBegin \/ WriteError \/ WriteEnd
  \/ \E n \in 1..ReplySize : WriteSome(n)
  \/ TimeoutClose

Spec == Init /\ [][Next]_vars

(* The event loop reads what has arrived and the handlers go on.  Whether   *)
(* the client reads its replies, and so whether a write succeeds, is its    *)
(* own affair.                                                              *)
FairSpec ==
  /\ Spec
  /\ WF_vars(\E n \in 1..MaxBytes : Read(n)) /\ WF_vars(qb < sent /\ ReadUndefined)
  /\ WF_vars(Parse) /\ WF_vars(WriteBegin) /\ WF_vars(WriteEnd)

(* Moreover, time passes and the timer fires.                               *)
ClockRuns == WF_vars(Tick) /\ WF_vars(TimeoutClose)

-----------------------------------------------------------------------------
(* Properties                                                               *)

Message == HeadSize + ask.body

(* Between two events a complete message is never left in the buffer        *)
(* without having been acted on, and no request is acted on before all its  *)
(* bytes have arrived.  The next read asks for at least one byte (a read of *)
(* none would be taken for the end of the stream) unless the client         *)
(* announced a body whose length no int holds, which nothing refuses; and   *)
(* as long as header, body and preallocation fit an int next to the bytes   *)
(* sent, every read has its room.                                           *)
NoStall ==
  /\ Idle /\ ask.magic /\ qb >= Message => requests >= 1
  /\ requests >= 1 => qb >= Message
  /\ Idle => ReadLen > 0 \/ ask.body > IntMax
  /\ sent + Message + Prealloc <= IntMax => pc # "undefined"

(* A second run over the same body needs a buffer that exceeds the constant *)
(* by the body: below that, one connection makes one request.               *)
OnceBelowLimit == requests >= 2 => qb >= Limit + ask.body

(* Every request has its answer in flight, in reply_list or written, and    *)
(* the socket is watched for WRITE exactly as long as there is something to *)
(* write; a reply is never left half written at the end of an event.        *)
RepliesAccounted ==
  /\ open => requests = inflight + replies + done
  /\ Idle => (watch <=> replies > 0) /\ pos = 0

(* The parse loop may turn for ever, as run signaling_conn_tail shows, once *)
(* the buffer exceeds the constant by the body.                             *)
Runaway == pc = "parse" /\ qb >= Limit + ask.body

(* A message that has arrived in full is acted on without the help of any   *)
(* timeout, unless the connection is closed or its worker is held up        *)
(* writing to a client that does not read or was given a length it can not  *)
(* read; the parse loop ends unless the buffer exceeds the constant.        *)
MessageServed ==
  /\ (sent >= Message /\ open) ~> (requests >= 1 \/ ~open \/ pc \in {"write", "undefined"})
  /\ pc = "parse" ~> pc # "parse" \/ Runaway

(* When the clock runs a connection does not stay for ever: it is closed by *)
(* the client, by an error or by the timeout, or its worker is caught in    *)
(* the write loop or the parse loop, or lost in a read without room.        *)
IdleCloses == ClockRuns => (open ~> (~open \/ pc \in {"write", "undefined"} \/ Runaway))

(* The comment on the constant: "short connection: data that comes later is *)
(* not processed".                                                          *)
OneRequest == requests <= 1
=============================================================================
