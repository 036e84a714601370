------------------------ MODULE SignalingConnProofs -------------------------
(***************************************************************************)
(* The safety properties of SignalingConn for every size of header and     *)
(* reply, every body_len a header can announce, every limit, and every way *)
(* of cutting the byte stream into reads and writes.                       *)
(***************************************************************************)
EXTENDS SignalingConn, TLAPS

(* Where the parser stands.  In STATE_HEAD nothing has been processed; in   *)
(* STATE_BODY the header has arrived and was valid, and bytes_processed     *)
(* tells whether the body has been acted on.  Outside the parse loop its    *)
(* condition is false, which is what makes the next read useful.  What a    *)
(* read asks for is the header or the body, so it has its room as long as   *)
(* both fit an int together with what was sent.                             *)
ParserInv ==
  /\ state = "HEAD" => processed = 0 /\ expected = HeadSize /\ requests = 0
  /\ state = "BODY" => expected = ask.body /\ qb >= HeadSize
  /\ state = "BODY" /\ open =>
       processed = IF requests = 0 THEN HeadSize ELSE Limit
  /\ open /\ pc # "parse" => ~Complete
  /\ requests >= 1 => qb >= Message
  /\ requests >= 1 /\ open => ask.body > 0
  /\ requests >= 2 => qb >= Limit + ask.body
  /\ sent + Message + Prealloc <= IntMax => pc # "undefined"

(* Where the writer stands: outside the write loop the socket is watched    *)
(* exactly if there are replies, and none is half written.                  *)
WriterInv ==
  /\ ~open => pc = "idle"
  /\ open => requests = inflight + replies + done
  /\ open /\ pc # "write" => (watch <=> replies > 0) /\ pos = 0
  /\ pc = "write" => watch
  /\ replies = 0 => pos = 0

IInv == TypeOK /\ ParserInv /\ WriterInv

(* What is known of the client's message.                                   *)
LEMMA AskFacts ==
  ASSUME ask \in Ask
  PROVE  /\ ask.body \in Nat
         /\ ask.kind \in {"offer", "oneway", "bad"}
         /\ ask.kind # "bad" => ask.body > 0
<1>1. /\ ask \in [magic : BOOLEAN, body : BodyLen, kind : {"offer", "oneway", "bad"}]
      /\ ask.body = 0 => ask.kind = "bad"
  BY DEF Ask
<1>2. ask.body \in BodyLen /\ ask.kind \in {"offer", "oneway", "bad"}
  BY <1>1
<1>3. ask.body \in Nat
  <2>1. ask.body \in 0..UintMax
    BY <1>2, ConnAssumption, Zenon
  <2> QED
    BY <2>1, ConnAssumption
<1>4. ask.kind # "bad" => ask.body # 0
  BY <1>1, Zenon
<1>5. ask.kind # "bad" => ask.body > 0
  BY <1>3, <1>4
<1> QED
  BY <1>2, <1>3, <1>5

LEMMA InitIInv == Init => IInv
<1> SUFFICES ASSUME Init PROVE IInv
  OBVIOUS
<1> USE ConnAssumption DEF Init
<1>1. open \in BOOLEAN /\ watch \in BOOLEAN /\ open /\ ~watch
  BY Zenon
<1>2. TypeOK
  BY <1>1 DEF TypeOK
<1>3. ParserInv
  <2>1. ask.body \in Nat
    BY AskFacts
  <2> QED
    BY <2>1 DEF ParserInv, Complete, Message
<1>4. WriterInv
  BY <1>1 DEF WriterInv
<1> QED
  BY <1>2, <1>3, <1>4 DEF IInv

(* Steps of the client and of the clock.                                    *)
LEMMA EnvIInv ==
  ASSUME IInv, Tick \/ \E n \in 1..MaxBytes : Send(n)
  PROVE  IInv'
<1> USE ConnAssumption
<1>1. CASE Tick
  BY <1>1 DEF Tick, IInv, TypeOK, ParserInv, WriterInv, Complete, Message,
              client, parser, writer
<1>2. ASSUME NEW n \in 1..MaxBytes, Send(n)
      PROVE  IInv'
  <2>1. ask.body \in Nat
    BY AskFacts DEF IInv, TypeOK
  <2> QED
    BY <1>2, <2>1 DEF Send, IInv, TypeOK, ParserInv, WriterInv, Complete, Message,
              parser, writer
<1> QED
  BY <1>1, <1>2

LEMMA ReadIInv ==
  ASSUME IInv, NEW n \in 1..MaxBytes, Read(n)
  PROVE  IInv'
<1> USE ConnAssumption DEF Read, Idle
<1>0. ask.body \in Nat
  BY AskFacts DEF IInv, TypeOK
<1>1. TypeOK'
  BY DEF IInv, TypeOK, client, writer
<1>2. ParserInv'
  BY <1>0 DEF IInv, TypeOK, ParserInv, Complete, Message, client, writer
<1>3. WriterInv'
  BY DEF IInv, TypeOK, WriterInv, client, writer
<1> QED
  BY <1>1, <1>2, <1>3 DEF IInv

LEMMA ReadUndefinedIInv ==
  ASSUME IInv, ReadUndefined
  PROVE  IInv'
<1> USE ConnAssumption DEF ReadUndefined, Idle
<1>0. ask.body \in Nat
  BY AskFacts DEF IInv, TypeOK
<1>1. TypeOK'
  BY DEF IInv, TypeOK, client, parser, writer
<1>2. sent + Message + Prealloc > IntMax
  <2>1. expected = HeadSize \/ expected = ask.body
    BY DEF IInv, TypeOK, ParserInv
  <2>2. expected <= Message /\ expected \in Nat /\ Message \in Nat
    BY <1>0, <2>1 DEF Message
  <2>3. expected > IntMax \/ qb + expected + Prealloc > IntMax
    BY <2>2 DEF RoomFor, ReadLen, IInv, TypeOK
  <2> QED
    BY <2>2, <2>3 DEF IInv, TypeOK
<1>3. ParserInv'
  BY <1>0, <1>2 DEF IInv, TypeOK, ParserInv, Complete, Message, client, parser, writer
<1>4. WriterInv'
  BY DEF IInv, TypeOK, WriterInv, parser, writer
<1> QED
  BY <1>1, <1>3, <1>4 DEF IInv

(* Every step that closes the connection, whatever it did before.           *)
LEMMA CloseIInv ==
  ASSUME IInv, Close, UNCHANGED client, UNCHANGED <<qb, state, processed, expected>>,
         requests' = requests \/ (state = "BODY" /\ requests' = requests + 1 /\ pc = "parse"
                                  /\ Complete /\ requests < MaxRequests /\ open),
         age' \in 0..Timeout
  PROVE  IInv'
<1> USE ConnAssumption
<1>0. ask.body \in Nat
  BY AskFacts DEF IInv, TypeOK
<1>1. TypeOK'
  <2>1. open' \in BOOLEAN /\ watch' \in BOOLEAN
    BY Zenon DEF Close
  <2> QED
    BY <2>1 DEF IInv, TypeOK, Close, client
<1>2. ParserInv'
  <2>1. ~open' /\ ask' = ask /\ qb' = qb /\ state' = state /\ processed' = processed
           /\ expected' = expected /\ sent' = sent /\ pc' = "idle"
    BY DEF Close, client
  <2>2. CASE requests' = requests
    BY <1>0, <2>1, <2>2 DEF IInv, TypeOK, ParserInv, Complete, Message
  <2>3. CASE state = "BODY" /\ requests' = requests + 1 /\ pc = "parse"
                                  /\ Complete /\ requests < MaxRequests /\ open
    BY <1>0, <2>1, <2>3 DEF IInv, TypeOK, ParserInv, Complete, Message
  <2> QED
    BY <2>2, <2>3
<1>3. WriterInv'
  BY DEF IInv, TypeOK, WriterInv, Close
<1> QED
  BY <1>1, <1>2, <1>3 DEF IInv

LEMMA ParseIInv ==
  ASSUME IInv, Parse
  PROVE  IInv'
<1> USE ConnAssumption
<1>0. /\ ask.body \in Nat
      /\ ask.kind # "bad" => ask.body > 0
  BY AskFacts DEF IInv, TypeOK
<1>1. CASE ParseHead
  <2>1. CASE ~ask.magic
    <3>1. Close /\ UNCHANGED client /\ UNCHANGED <<qb, state, processed, expected>>
            /\ requests' = requests /\ age' \in 0..Timeout
      BY <1>1, <2>1 DEF ParseHead, IInv, TypeOK
    <3> QED
      BY <3>1, CloseIInv
  <2>2. CASE ask.magic
    BY <1>0, <1>1, <2>2 DEF ParseHead, IInv, TypeOK, ParserInv, WriterInv, Complete,
                       Message, client, writer
  <2> QED
    BY <2>1, <2>2
<1>2. CASE ParseBody
  <2>0. open
    BY <1>2 DEF ParseBody, IInv, WriterInv
  <2>1. CASE Close /\ UNCHANGED processed
    <3>1. UNCHANGED client /\ UNCHANGED <<qb, state, processed, expected>>
            /\ state = "BODY" /\ requests' = requests + 1 /\ pc = "parse"
            /\ Complete /\ requests < MaxRequests /\ age' \in 0..Timeout
      BY <1>2, <2>1 DEF ParseBody, IInv, TypeOK
    <3> QED
      BY <2>0, <2>1, <3>1, CloseIInv
  <2>2. CASE /\ ask.kind = "offer"
             /\ inflight' = inflight + 1
             /\ processed' = Limit
             /\ UNCHANGED <<open, pc, replies, pos, watch, done>>
    BY <1>0, <1>2, <2>0, <2>2 DEF ParseBody, IInv, TypeOK, ParserInv, WriterInv,
                       Complete, Message, client
  <2>3. CASE /\ ask.kind = "oneway"
             /\ replies' = replies + 1
             /\ watch' = TRUE
             /\ processed' = Limit
             /\ UNCHANGED <<open, pc, inflight, pos, done>>
    BY <1>0, <1>2, <2>0, <2>3 DEF ParseBody, IInv, TypeOK, ParserInv, WriterInv,
                       Complete, Message, client
  <2> QED
    BY <1>2, <2>1, <2>2, <2>3 DEF ParseBody
<1>3. CASE ParseEnd
  BY <1>3 DEF ParseEnd, IInv, TypeOK, ParserInv, WriterInv, Complete, Message,
              client, parser, writer
<1> QED
  BY <1>1, <1>2, <1>3 DEF Parse

LEMMA WriteIInv ==
  ASSUME IInv, WriteBegin \/ WriteEnd \/ Answer \/ \E n \in 1..ReplySize : WriteSome(n)
  PROVE  IInv'
<1> USE ConnAssumption
<1>1. CASE WriteBegin
  BY <1>1 DEF WriteBegin, Idle, IInv, TypeOK, ParserInv, WriterInv, Complete, Message,
              client, parser, writer
<1>2. CASE WriteEnd
  <2>1. watch' \in BOOLEAN /\ ~watch'
    BY <1>2, Zenon DEF WriteEnd
  <2> QED
    BY <1>2, <2>1 DEF WriteEnd, IInv, TypeOK, ParserInv, WriterInv, Complete, Message,
              client, parser
<1>3. CASE Answer
  BY <1>3 DEF Answer, Idle, IInv, TypeOK, ParserInv, WriterInv, Complete, Message,
              client, parser
<1>4. ASSUME NEW n \in 1..ReplySize, WriteSome(n)
      PROVE  IInv'
  BY <1>4 DEF WriteSome, IInv, TypeOK, ParserInv, WriterInv, Complete, Message,
              client, parser
<1> QED
  BY <1>1, <1>2, <1>3, <1>4

LEMMA NextIInv == IInv /\ [Next]_vars => IInv'
<1> SUFFICES ASSUME IInv, [Next]_vars
             PROVE  IInv'
  OBVIOUS
<1> USE ConnAssumption
<1>1. CASE UNCHANGED vars
  BY <1>1 DEF vars, IInv, TypeOK, ParserInv, WriterInv, Complete, Message
<1>2. CASE ReadClosed \/ WriteError \/ TimeoutClose
  <2>1. Close /\ UNCHANGED client /\ UNCHANGED <<qb, state, processed, expected>>
          /\ requests' = requests /\ age' \in 0..Timeout
    BY <1>2 DEF ReadClosed, WriteError, TimeoutClose, parser, IInv, TypeOK
  <2> QED
    BY <2>1, CloseIInv
<1> QED
  BY <1>1, <1>2, EnvIInv, ReadIInv, ReadUndefinedIInv, ParseIInv, WriteIInv DEF Next

LEMMA AlwaysIInv == Spec => []IInv
  BY InitIInv, NextIInv, PTL DEF Spec

(* The variables of a connection keep their types.                          *)
THEOREM ConnTypeCorrect == Spec => []TypeOK
<1>1. IInv => TypeOK
  BY DEF IInv
<1> QED
  BY <1>1, AlwaysIInv, PTL

(* No complete message waits in querybuf for bytes that need not come and   *)
(* no request is acted on before it is complete; a read asks for at least   *)
(* one byte, unless the body announced exceeds an int, and is defined as    *)
(* long as an int holds what was sent, the message and the preallocation.   *)
THEOREM MessagesNotStalled == Spec => []NoStall
<1>1. IInv => NoStall
  <2> SUFFICES ASSUME IInv PROVE NoStall
    OBVIOUS
  <2>1. ask.body \in Nat
    BY AskFacts DEF IInv, TypeOK
  <2>2. Idle /\ ask.magic /\ qb >= Message => requests >= 1
    BY <2>1, ConnAssumption DEF IInv, TypeOK, ParserInv, Idle, Complete, Message
  <2>3. Idle => ReadLen > 0 \/ ask.body > IntMax
    <3>1. Idle => expected > 0
      BY <2>1, ConnAssumption DEF IInv, TypeOK, ParserInv, Idle, Complete, Message
    <3>2. expected > IntMax => ask.body > IntMax
      BY <2>1, ConnAssumption DEF IInv, TypeOK, ParserInv
    <3> QED
      BY <3>1, <3>2, ConnAssumption DEF ReadLen, IInv, TypeOK
  <2> QED
    BY <2>2, <2>3 DEF NoStall, IInv, ParserInv
<1> QED
  BY <1>1, AlwaysIInv, PTL

(* A body is acted on again only after the limit plus the body was read.    *)
THEOREM SingleRequest == Spec => []OnceBelowLimit
<1>1. IInv => OnceBelowLimit
  BY DEF IInv, ParserInv, OnceBelowLimit
<1> QED
  BY <1>1, AlwaysIInv, PTL

(* Every request's answer is in flight, queued or written; WRITE is watched *)
(* exactly while something is queued; no event ends within a reply.         *)
THEOREM RepliesSound == Spec => []RepliesAccounted
<1>1. IInv => RepliesAccounted
  BY DEF IInv, WriterInv, RepliesAccounted, Idle
<1> QED
  BY <1>1, AlwaysIInv, PTL
=============================================================================
