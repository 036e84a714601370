-------------------------- MODULE RequestPipeline ---------------------------
(***************************************************************************)
(* server/: the path of a request through the threads of the server.       *)
(*                                                                         *)
(*   SignalingServer --fd--> SignalingWorker --RtcMsg--> RtcServer         *)
(*                                 ^                         |             *)
(*                                 +------ RtcWorker <-------+             *)
(*                                                                         *)
(* Each thread runs an event loop and owns a message queue and a pipe.  To *)
(* send, a thread first pushes a message on the receiver's queue and then  *)
(* writes a 4-byte token to the receiver's pipe: two steps, and the second *)
(* one blocks while the pipe is full.  The receiver takes one message per  *)
(* token.  Receiving a token, popping the message and handling it up to    *)
(* the push of what it sends on is one step: no other thread sees what is  *)
(* in between.  The queues are FIFO (LockFreeQueue, or std::queue under a  *)
(* mutex).                                                                 *)
(*                                                                         *)
(* A Client is one TCP connection, which carries one request; its RtcMsg   *)
(* is named by the client it came from.  The file descriptor, the address  *)
(* of the TcpConnection object, the SignalingWorker and the command are    *)
(* copied into the message and never change, so they are kept per client.  *)
(* File descriptors and addresses are recycled once a connection closes.   *)
(***************************************************************************)
EXTENDS Integers, Sequences, FiniteSets, Functions

CONSTANTS Client,    \* TCP connections; bounds how many are ever made
          SWs, RWs,  \* _workers of SignalingServer and of RtcServer
          Name,      \* stream names
          Hash,      \* ComputeCrc32(name) % worker_num
          Fd, Addr,  \* file descriptors and addresses of TcpConnections
          PipeCap,   \* tokens a pipe holds before write() blocks
          CanStop,   \* whether SIGINT or SIGTERM may arrive
          None

SW == Range(SWs)
RW == Range(RWs)
Thread == {"ss", "rs"} \cup SW \cup RW
Token == {"QUIT", "NEW_CONN", "RTC_MSG"}

ASSUME PipelineAssumption ==
  /\ SWs \in Seq(SW) /\ Len(SWs) > 0 /\ RWs \in Seq(RW) /\ Len(RWs) > 0
  /\ Hash \in [Name -> RW]
  /\ SW \cap RW = {} /\ {"ss", "rs"} \cap (SW \cup RW) = {}
  /\ \A i, j \in DOMAIN SWs : SWs[i] = SWs[j] => i = j
  /\ \A i, j \in DOMAIN RWs : RWs[i] = RWs[j] => i = j
  /\ PipeCap \in Nat \ {0}
  /\ CanStop \in BOOLEAN
  /\ None \notin Client \cup Fd \cup Addr \cup Thread \cup Name

VARIABLES
  main,      \* main(): "run", "quit_ss", "quit_rs", "join_ss", "join_rs", "exit"
  pc,        \* per thread: "run" (in its loop), "notify" (in write()),
             \* "stop" and "join" (in _stop), "done"
  dest,      \* the thread it is notifying, stopping or joining
  pipe,      \* tokens in its pipe
  queue,     \* _q_msg of RtcServer, RtcWorker and SignalingWorker
  qconn,     \* _q_conn of SignalingWorker
  nextw,     \* _next_worker_index
  conns,     \* _conns of SignalingWorker
  cur,       \* SignalingWorker: the connection whose request it is sending
  st,        \* client: "new", "accepted", "open", "closed"
  wk, fd, addr,   \* where its connection lives
  cmd, name,      \* its request
  replies,   \* reply_list of its TcpConnection: the requests answered
  got,       \* history: the requests whose answer was written to it
  fate,      \* history: "none", "queued", "dropped", "handled"
  before     \* history: requests for that name sent to RtcServer earlier

threadVars == <<pc, dest, pipe>>
connVars == <<conns, st, wk, fd, addr, replies, got>>
reqVars == <<cmd, name, fate, before>>
vars == <<main, pc, dest, pipe, queue, qconn, nextw, conns, cur, st, wk, fd,
          addr, cmd, name, replies, got, fate, before>>

(* PUSH and PULL are answered when the RtcWorker has made an offer, ANSWER, *)
(* STOPPUSH and STOPPULL as soon as they are sent on.                       *)
Cmd == {"offer", "oneway"}

TypeOK ==
  /\ main \in {"run", "quit_ss", "quit_rs", "join_ss", "join_rs", "exit"}
  /\ pc \in [Thread -> {"run", "notify", "stop", "join", "done"}]
  /\ dest \in [Thread -> Thread \cup {None}]
  /\ pipe \in [Thread -> Seq(Token)]
  /\ queue \in [Thread -> Seq(Client)]
  /\ qconn \in [SW -> Seq(Client)]
  /\ nextw \in 1..Len(SWs)
  /\ conns \in [SW -> [Fd -> Client \cup {None}]]
  /\ cur \in [SW -> Client \cup {None}]
  /\ st \in [Client -> {"new", "accepted", "open", "closed"}]
  /\ wk \in [Client -> SW \cup {None}]
  /\ fd \in [Client -> Fd \cup {None}]
  /\ addr \in [Client -> Addr \cup {None}]
  /\ cmd \in [Client -> Cmd \cup {"none", "unknown"}]
  /\ name \in [Client -> Name \cup {None}]
  /\ replies \in [Client -> Seq(Client)]
  /\ got \in [Client -> Seq(Client)]
  /\ fate \in [Client -> {"none", "queued", "dropped", "handled"}]
  /\ before \in [Client -> SUBSET Client]

(* After init() and start() of both servers.                                *)
Init ==
  /\ main = "run"
  /\ pc = [t \in Thread |-> "run"]
  /\ dest = [t \in Thread |-> None]
  /\ pipe = [t \in Thread |-> << >>]
  /\ queue = [t \in Thread |-> << >>]
  /\ qconn = [w \in SW |-> << >>]
  /\ nextw = 1
  /\ conns = [w \in SW |-> [f \in Fd |-> None]]
  /\ cur = [w \in SW |-> None]
  /\ st = [c \in Client |-> "new"]
  /\ wk = [c \in Client |-> None]
  /\ fd = [c \in Client |-> None]
  /\ addr = [c \in Client |-> None]
  /\ cmd = [c \in Client |-> "none"]
  /\ name = [c \in Client |-> None]
  /\ replies = [c \in Client |-> << >>]
  /\ got = [c \in Client |-> << >>]
  /\ fate = [c \in Client |-> "none"]
  /\ before = [c \in Client |-> {}]

-----------------------------------------------------------------------------
(* A thread whose _stop has run has closed its pipe: write() to it fails.   *)
Closed(t) == pc[t] \in {"stop", "join", "done"}

Writable(t) == ~Closed(t) /\ Len(pipe[t]) < PipeCap

Write_NonBlocking(t, tok) ==
  \/ Writable(t) /\ pipe' = [pipe EXCEPT ![t] = Append(@, tok)]
  \/ ~Writable(t) /\ UNCHANGED pipe

(* write() of tok to the pipe of t: done, or failed.                        *)
Write(t, tok) ==
  \/ Writable(t) /\ pipe' = [pipe EXCEPT ![t] = Append(@, tok)]
  \/ Closed(t) /\ UNCHANGED pipe

(* Thread t, in its event loop, has read token tok from its pipe.           *)
Received(t, tok) ==
  /\ pc[t] = "run"
  /\ pipe[t] # << >>
  /\ Head(pipe[t]) = tok
  /\ pipe' = [pipe EXCEPT ![t] = Tail(@)]

(* Thread t has pushed a message for d and goes on to notify it.            *)
Sending(t, d) ==
  /\ pc' = [pc EXCEPT ![t] = "notify"]
  /\ dest' = [dest EXCEPT ![t] = d]

CloseConn_KeepEntry(c) ==
  /\ st' = [st EXCEPT ![c] = "closed"]
  /\ replies' = [replies EXCEPT ![c] = << >>]
  /\ UNCHANGED conns

(* _close_conn: the socket is closed and the TcpConnection deleted with     *)
(* what is left of its reply_list.                                          *)
CloseConn(c) ==
  /\ conns' = [conns EXCEPT ![wk[c]][fd[c]] = None]
  /\ st' = [st EXCEPT ![c] = "closed"]
  /\ replies' = [replies EXCEPT ![c] = << >>]

UsedFds == {fd[c] : c \in {x \in Client : st[x] \in {"accepted", "open"}}}
UsedAddrs == {addr[c] : c \in {x \in Client : st[x] = "open"}}

-----------------------------------------------------------------------------
(* SignalingServer                                                          *)

(* _next_worker_index                                                       *)
NextWorker == IF nextw + 1 > Len(SWs) THEN 1 ELSE nextw + 1

(* accept_new_conn, _dispatch_new_conn, and notify_new_conn up to notify:   *)
(* round robin over the workers.                                            *)
Accept(c) ==
  LET w == SWs[nextw] IN
  /\ pc["ss"] = "run"
  /\ st[c] = "new"
  /\ \E f \in Fd \ UsedFds : fd' = [fd EXCEPT ![c] = f]
  /\ st' = [st EXCEPT ![c] = "accepted"]
  /\ wk' = [wk EXCEPT ![c] = w]
  /\ nextw' = NextWorker
  /\ qconn' = [qconn EXCEPT ![w] = Append(@, c)]
  /\ Sending("ss", w)
  /\ UNCHANGED <<main, pipe, queue, conns, cur, addr, replies, got, reqVars>>

(* The notify that ends a send of any thread but a SignalingWorker: its     *)
(* result is not used.                                                      *)
Notify(t) ==
  /\ t \notin SW
  /\ pc[t] = "notify"
  /\ Write(dest[t], IF t = "ss" THEN "NEW_CONN" ELSE "RTC_MSG")
  /\ pc' = [pc EXCEPT ![t] = "run"]
  /\ dest' = [dest EXCEPT ![t] = None]
  /\ UNCHANGED <<main, queue, qconn, nextw, cur, connVars, reqVars>>

-----------------------------------------------------------------------------
(* SignalingWorker                                                          *)

(* NEW_CONN: _new_conn for the next descriptor in _q_conn, if any.  The new *)
(* TcpConnection may be where a deleted one was.                            *)
NewConn(w) ==
  /\ Received(w, "NEW_CONN")
  /\ IF qconn[w] = << >>
     THEN UNCHANGED <<qconn, connVars>>
     ELSE LET c == Head(qconn[w]) IN
          /\ qconn' = [qconn EXCEPT ![w] = Tail(@)]
          /\ \E a \in Addr \ UsedAddrs : addr' = [addr EXCEPT ![c] = a]
          /\ conns' = [conns EXCEPT ![w][fd[c]] = c]
          /\ st' = [st EXCEPT ![c] = "open"]
          /\ UNCHANGED <<wk, fd, replies, got>>
  /\ UNCHANGED <<main, pc, dest, queue, nextw, cur, reqVars>>

(* A connection that the event loop of w, which is idle, watches.           *)
Watched(w, c) == pc[w] = "run" /\ st[c] = "open" /\ wk[c] = w

(* A complete request: its message is pushed on RtcServer's queue, and      *)
(* RtcServer::send_rtc_msg goes on to notify.                               *)
Submit(w, c, n, k) ==
  /\ Watched(w, c)
  /\ cmd[c] = "none"
  /\ cmd' = [cmd EXCEPT ![c] = k]
  /\ name' = [name EXCEPT ![c] = n]
  /\ fate' = [fate EXCEPT ![c] = "queued"]
  /\ before' = [before EXCEPT ![c] =
                  {x \in Client : fate[x] # "none" /\ name[x] = n}]
  /\ queue' = [queue EXCEPT !["rs"] = Append(@, c)]
  /\ cur' = [cur EXCEPT ![w] = c]
  /\ Sending(w, "rs")
  /\ UNCHANGED <<main, pipe, qconn, nextw, connVars>>

(* _process_push, _process_pull                                             *)
RequestOffer(w, c, n) == Submit(w, c, n, "offer")

(* _process_stop_push, _process_stop_pull, _process_answer                  *)
RequestOneWay(w, c, n) == Submit(w, c, n, "oneway")

(* A request without a known command: an error reply at once.               *)
UnknownRequest(w, c) ==
  /\ Watched(w, c)
  /\ cmd[c] = "none"
  /\ cmd' = [cmd EXCEPT ![c] = "unknown"]
  /\ replies' = [replies EXCEPT ![c] = Append(@, c)]
  /\ UNCHANGED <<main, threadVars, queue, qconn, nextw, cur, conns, st, wk, fd,
                 addr, got, name, fate, before>>

(* The notify that ends the request.  If RtcServer has closed its pipe the  *)
(* message stays in its queue: the connection of a PUSH or PULL is closed,  *)
(* the others get an error reply.                                           *)
RequestSent(w) ==
  LET c == cur[w] IN
  /\ pc[w] = "notify"
  /\ Write("rs", "RTC_MSG")
  /\ IF cmd[c] = "oneway"
     THEN /\ replies' = [replies EXCEPT ![c] = Append(@, c)]
          /\ UNCHANGED <<conns, st>>
     ELSE IF Closed("rs") THEN CloseConn(c)
     ELSE UNCHANGED <<conns, st, replies>>
  /\ pc' = [pc EXCEPT ![w] = "run"]
  /\ dest' = [dest EXCEPT ![w] = None]
  /\ cur' = [cur EXCEPT ![w] = None]
  /\ UNCHANGED <<main, queue, qconn, nextw, wk, fd, addr, got, reqVars>>

(* RTC_MSG: _response_server_offer finds the connection by its descriptor   *)
(* and compares the pointers.                                               *)
Matches(t, r) == t # None /\ addr[t] = addr[r]

Response_NoPop(w) ==
  /\ Received(w, "RTC_MSG")
  /\ queue[w] # << >>
  /\ LET r == Head(queue[w])
         t == conns[w][fd[r]]
     IN replies' = IF Matches(t, r)
                   THEN [replies EXCEPT ![t] = Append(@, r)]
                   ELSE replies
  /\ UNCHANGED <<main, pc, dest, queue, qconn, nextw, cur, conns, st, wk, fd, addr,
                 got, reqVars>>

Response(w) ==
  /\ Received(w, "RTC_MSG")
  /\ IF queue[w] = << >>
     THEN UNCHANGED <<queue, replies>>
     ELSE LET r == Head(queue[w])
              t == conns[w][fd[r]]
          IN /\ queue' = [queue EXCEPT ![w] = Tail(@)]
             /\ replies' = IF Matches(t, r)
                           THEN [replies EXCEPT ![t] = Append(@, r)]
                           ELSE replies
  /\ UNCHANGED <<main, pc, dest, qconn, nextw, cur, conns, st, wk, fd, addr, got,
                 reqVars>>

(* _write_reply: everything in reply_list is written, or an error closes    *)
(* the connection after the first i answers.                                *)
WriteReply(w, c) ==
  /\ Watched(w, c)
  /\ replies[c] # << >>
  /\ got' = [got EXCEPT ![c] = @ \o replies[c]]
  /\ replies' = [replies EXCEPT ![c] = << >>]
  /\ UNCHANGED <<main, threadVars, queue, qconn, nextw, cur, conns, st, wk, fd,
                 addr, reqVars>>

WriteError(w, c) ==
  /\ Watched(w, c)
  /\ \E i \in 0..(Len(replies[c]) - 1) :
       got' = [got EXCEPT ![c] = @ \o SubSeq(replies[c], 1, i)]
  /\ CloseConn(c)
  /\ UNCHANGED <<main, threadVars, queue, qconn, nextw, cur, wk, fd, addr,
                 reqVars>>

(* The client closed or read() failed, a request that can not be parsed, or *)
(* connection_timeout without an exchange.                                  *)
LoseConn(w, c) ==
  /\ Watched(w, c)
  /\ CloseConn(c)
  /\ UNCHANGED <<main, threadVars, queue, qconn, nextw, cur, wk, fd, addr, got,
                 reqVars>>

-----------------------------------------------------------------------------
(* RtcServer                                                                *)

(* _get_worker: by the hash of the stream name.                             *)
GetWorker_ByConnection(r) ==
  IF wk[r] = SWs[1] THEN RWs[1] ELSE RWs[Len(RWs)]

GetWorker(r) == Hash[name[r]]

(* _process_rtc_msg: a message is dropped if there is no certificate and    *)
(* none can be generated.                                                   *)
RsMsg ==
  /\ Received("rs", "RTC_MSG")
  /\ IF queue["rs"] = << >>
     THEN UNCHANGED <<pc, dest, queue, fate>>
     ELSE LET r == Head(queue["rs"])
              v == GetWorker(r)
          IN \/ /\ queue' = [queue EXCEPT !["rs"] = Tail(@)]
                /\ fate' = [fate EXCEPT ![r] = "dropped"]
                /\ UNCHANGED <<pc, dest>>
             \/ /\ queue' = [queue EXCEPT !["rs"] = Tail(@), ![v] = Append(@, r)]
                /\ Sending("rs", v)
                /\ UNCHANGED fate
  /\ UNCHANGED <<main, qconn, nextw, cur, connVars, cmd, name, before>>

(* RtcWorker::_process_rtc_msg: PUSH and PULL go back to the SignalingWorker. *)
RwMsg(v) ==
  /\ Received(v, "RTC_MSG")
  /\ IF queue[v] = << >>
     THEN UNCHANGED <<pc, dest, queue, fate>>
     ELSE LET r == Head(queue[v])
              w == wk[r]
          IN /\ fate' = [fate EXCEPT ![r] = "handled"]
             /\ IF cmd[r] = "offer"
                THEN /\ queue' = [queue EXCEPT ![v] = Tail(@), ![w] = Append(@, r)]
                     /\ Sending(v, w)
                ELSE /\ queue' = [queue EXCEPT ![v] = Tail(@)]
                     /\ UNCHANGED <<pc, dest>>
  /\ UNCHANGED <<main, qconn, nextw, cur, connVars, cmd, name, before>>

-----------------------------------------------------------------------------
(* Shutdown                                                                 *)

(* process_signal: QUIT for both servers; main() joins them in turn.        *)
Signal ==
  /\ CanStop
  /\ main = "run"
  /\ main' = "quit_ss"
  /\ UNCHANGED <<threadVars, queue, qconn, nextw, cur, connVars, reqVars>>

Quit ==
  /\ \/ main = "quit_ss" /\ Write("ss", "QUIT") /\ main' = "quit_rs"
     \/ main = "quit_rs" /\ Write("rs", "QUIT") /\ main' = "join_ss"
  /\ UNCHANGED <<pc, dest, queue, qconn, nextw, cur, connVars, reqVars>>

Join ==
  /\ \/ main = "join_ss" /\ pc["ss"] = "done" /\ main' = "join_rs"
     \/ main = "join_rs" /\ pc["rs"] = "done" /\ main' = "exit"
  /\ UNCHANGED <<threadVars, queue, qconn, nextw, cur, connVars, reqVars>>

(* _stop of a worker: its loop ends and its pipe is closed.                 *)
StopWorker(t) ==
  /\ t \in SW \cup RW
  /\ Received(t, "QUIT")
  /\ pc' = [pc EXCEPT ![t] = "done"]
  /\ UNCHANGED <<main, dest, queue, qconn, nextw, cur, connVars, reqVars>>

Workers(t) == IF t = "ss" THEN SWs ELSE RWs

(* _stop of a server: it closes its pipe and its listening socket, then     *)
(* stops and joins its workers one after the other.                         *)
StopServer(t) ==
  /\ t \in {"ss", "rs"}
  /\ Received(t, "QUIT")
  /\ pc' = [pc EXCEPT ![t] = "stop"]
  /\ dest' = [dest EXCEPT ![t] = Workers(t)[1]]
  /\ UNCHANGED <<main, queue, qconn, nextw, cur, connVars, reqVars>>

QuitWorker_NoNotify(t) ==
  /\ pc[t] = "stop"
  /\ pc' = [pc EXCEPT ![t] = "join"]
  /\ UNCHANGED <<main, dest, pipe, queue, qconn, nextw, cur, connVars, reqVars>>

QuitWorker(t) ==
  /\ pc[t] = "stop"
  /\ Write(dest[t], "QUIT")
  /\ pc' = [pc EXCEPT ![t] = "join"]
  /\ UNCHANGED <<main, dest, queue, qconn, nextw, cur, connVars, reqVars>>

JoinWorker(t) ==
  LET ws == Workers(t) IN
  /\ pc[t] = "join"
  /\ pc[dest[t]] = "done"
  /\ \E i \in 1..Len(ws) :
       /\ ws[i] = dest[t]
       /\ pc' = [pc EXCEPT ![t] = IF i < Len(ws) THEN "stop" ELSE "done"]
       /\ dest' = [dest EXCEPT ![t] = IF i < Len(ws) THEN ws[i + 1] ELSE None]
  /\ UNCHANGED <<main, pipe, queue, qconn, nextw, cur, connVars, reqVars>>

-----------------------------------------------------------------------------
(* What the threads do by themselves, and what the outside makes them do.   *)
ThreadStep(t) ==
  \/ Notify(t)
  \/ t = "rs" /\ RsMsg
  \/ t \in RW /\ RwMsg(t)
  \/ t \in SW /\ (NewConn(t) \/ RequestSent(t) \/ Response(t))
  \/ StopWorker(t) \/ StopServer(t) \/ QuitWorker(t) \/ JoinWorker(t)

Outside ==
  \/ \E c \in Client : Accept(c)
  \/ \E w \in SW, c \in Client :
       \/ \E n \in Name : RequestOffer(w, c, n) \/ RequestOneWay(w, c, n)
       \/ UnknownRequest(w, c)
       \/ LoseConn(w, c)
       \/ WriteError(w, c)
  \/ Signal

Next ==
  \/ Outside
  \/ \E t \in Thread : ThreadStep(t)
  \/ \E w \in SW, c \in Client : WriteReply(w, c)
  \/ Quit \/ Join

Spec == Init /\ [][Next]_vars

(* Every event loop goes on to the next event it has, and a writable socket *)
(* is written; no client, timeout or signal has to happen.                  *)
FairSpec ==
  /\ Spec
  /\ \A t \in Thread : WF_vars(ThreadStep(t))
  /\ \A c \in Client : WF_vars(\E w \in SW : WriteReply(w, c))
  /\ WF_vars(Quit) /\ WF_vars(Join)

-----------------------------------------------------------------------------
(* Properties                                                               *)

TokenCount(t, tok) == Cardinality({i \in DOMAIN pipe[t] : pipe[t][i] = tok})

Notifying(t, S) == Cardinality({u \in S : pc[u] = "notify" /\ dest[u] = t})

(* As long as a thread runs, every message in its queue has a token in its  *)
(* pipe, or a sender about to write one, and every token has its message:   *)
(* no request is stranded in a queue and no token finds its queue empty.    *)
Paired ==
  /\ \A t \in Thread : ~Closed(t) =>
       Len(queue[t]) = TokenCount(t, "RTC_MSG") + Notifying(t, Thread \ {"ss"})
  /\ \A w \in SW : ~Closed(w) =>
       Len(qconn[w]) = TokenCount(w, "NEW_CONN") + Notifying(w, {"ss"})

(* The connection table and the connections agree: the entries are the open *)
(* connections of the worker, under their descriptor, no two at the same    *)
(* address, a deleted connection has no reply pending, and everything has   *)
(* its type.                                                                *)
TableSound ==
  /\ TypeOK
  /\ \A w \in SW, f \in Fd : conns[w][f] # None =>
       LET c == conns[w][f] IN st[c] = "open" /\ wk[c] = w /\ fd[c] = f
  /\ \A c \in Client : st[c] = "open" => conns[wk[c]][fd[c]] = c
  /\ \A c, d \in Client :
       st[c] = "open" /\ st[d] = "open" /\ c # d => addr[c] # addr[d]
  /\ \A c \in Client : st[c] # "open" => replies[c] = << >>

Answers(c) == got[c] \o replies[c]

(* A request is answered at most once, a connection receives an answer only *)
(* if it asked or if the one that asked is gone, and as long as the         *)
(* connection that asked is open nobody else gets its answer.               *)
AnswerOnce ==
  /\ \A c \in Client : \A i, j \in DOMAIN Answers(c) :
       Answers(c)[i] = Answers(c)[j] => i = j
  /\ \A c, d, r \in Client :
       r \in Range(Answers(c)) /\ r \in Range(Answers(d)) => c = d
  /\ \A c, r \in Client :
       r \in Range(Answers(c)) /\ r # c => st[r] = "closed"

(* Requests for one stream name reach the stream manager in the order in    *)
(* which they were sent to RtcServer, whichever SignalingWorker sent them.  *)
NameOrder ==
  \A c \in Client : fate[c] = "handled" =>
    \A b \in before[c] : fate[b] \in {"handled", "dropped"}

Stopping == main # "run"

(* Unless the server is stopped, a request that was sent on is handled or   *)
(* dropped for want of a certificate, and the answer to a handled PUSH or   *)
(* PULL is written to its connection, unless that was closed before.        *)
RequestsServed ==
  \A c \in Client :
    fate[c] = "queued" ~>
      \/ fate[c] = "dropped"
      \/ fate[c] = "handled" /\ (cmd[c] = "offer" => c \in Range(got[c]))
      \/ fate[c] = "handled" /\ st[c] = "closed"
      \/ Stopping

(* After SIGINT or SIGTERM all threads end and main() returns, whatever was *)
(* in the queues and pipes.                                                 *)
ShutsDown == Stopping ~> main = "exit"

(* What _response_server_offer's comment says of its comparison, "this part *)
(* determines validity": an answer goes to the connection that asked.       *)
AnswersOwnRequest ==
  \A c \in Client : \A r \in Range(Answers(c)) : r = c
=============================================================================
