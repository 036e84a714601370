------------------------ MODULE RequestPipelineProofs ------------------------
(***************************************************************************)
(* Proofs about RequestPipeline for any number of workers, clients, names, *)
(* descriptors and addresses, any hash and any capacity of the pipes.      *)
(* PipeInv is inductive on its own: the types in groups, what each thread  *)
(* is doing to whom (Threads), descriptors (Descriptors, Waiting), the     *)
(* connection tables (Entries) and where requests come from (Requests).    *)
(* The three other results are each inductive on top of it: Routed with    *)
(* NameOrder (a queued request is where its name sends it, behind those    *)
(* that came before it), Unanswered with AnswerOnce (no message is in two  *)
(* places, and a request whose answer is still to come is in nobody's      *)
(* answers), and Paired by itself, by counting tokens and senders.         *)
(***************************************************************************)
EXTENDS RequestPipeline, FiniteSetTheorems, FunctionTheorems, SequenceTheorems, TLAPS

(* What a thread is doing determines whom it is doing it to *)
Threads ==
  /\ \A t \in SW \cup RW : pc[t] \in {"run", "notify", "done"}
  /\ \A w \in SW : pc[w] = "notify" => dest[w] = "rs" /\ cur[w] \in Client
  /\ \A v \in RW : pc[v] = "notify" => dest[v] \in SW
  /\ pc["ss"] \in {"notify", "stop", "join"} => dest["ss"] \in SW
  /\ pc["rs"] \in {"notify", "stop", "join"} => dest["rs"] \in RW

(* A connection has a worker and a descriptor from accept() on, and no two *)
(* that are not closed share a descriptor                                  *)
Descriptors ==
  /\ \A c \in Client : st[c] # "new" => wk[c] \in SW /\ fd[c] \in Fd
  /\ \A c, d \in Client :
       st[c] \in {"accepted", "open"} /\ st[d] \in {"accepted", "open"} /\ c # d
         => fd[c] # fd[d]

(* A descriptor waits once, in the queue of its worker *)
Waiting ==
  /\ \A w \in SW : \A i \in DOMAIN qconn[w] :
       st[qconn[w][i]] = "accepted" /\ wk[qconn[w][i]] = w
  /\ \A w \in SW : \A i, j \in DOMAIN qconn[w] : qconn[w][i] = qconn[w][j] => i = j

(* Entries of the connection tables *)
Entries ==
  /\ \A w \in SW, f \in Fd : conns[w][f] # None =>
       st[conns[w][f]] = "open" /\ wk[conns[w][f]] = w /\ fd[conns[w][f]] = f
  /\ \A c \in Client : st[c] = "open" => conns[wk[c]][fd[c]] = c
  /\ \A c, d \in Client :
       st[c] = "open" /\ st[d] = "open" /\ c # d => addr[c] # addr[d]
  /\ \A c \in Client : st[c] # "open" => replies[c] = << >>

(* Requests come from connections that are or were open; the one a worker  *)
(* is sending belongs to an open connection of its own                     *)
Requests ==
  /\ \A c \in Client : cmd[c] # "none" => st[c] \in {"open", "closed"}
  /\ \A c \in Client : cmd[c] \in Cmd <=> fate[c] # "none"
  /\ \A c \in Client : fate[c] # "none" => name[c] \in Name
  /\ \A w \in SW : pc[w] = "notify" =>
       st[cur[w]] = "open" /\ wk[cur[w]] = w /\ cmd[cur[w]] \in Cmd
  /\ \A t \in Thread : \A i \in DOMAIN queue[t] : cmd[queue[t][i]] \in Cmd

(* The types in groups, so that a step about some variables need not       *)
(* mention the others                                                      *)
ThreadType ==
  /\ main \in {"run", "quit_ss", "quit_rs", "join_ss", "join_rs", "exit"}
  /\ pc \in [Thread -> {"run", "notify", "stop", "join", "done"}]
  /\ dest \in [Thread -> Thread \cup {None}]
  /\ pipe \in [Thread -> Seq(Token)]
  /\ nextw \in 1..Len(SWs)

QueueType == queue \in [Thread -> Seq(Client)] /\ qconn \in [SW -> Seq(Client)]

ConnType ==
  /\ conns \in [SW -> [Fd -> Client \cup {None}]]
  /\ cur \in [SW -> Client \cup {None}]
  /\ st \in [Client -> {"new", "accepted", "open", "closed"}]
  /\ wk \in [Client -> SW \cup {None}]
  /\ fd \in [Client -> Fd \cup {None}]
  /\ addr \in [Client -> Addr \cup {None}]

ReplyType == replies \in [Client -> Seq(Client)] /\ got \in [Client -> Seq(Client)]

ReqType ==
  /\ cmd \in [Client -> Cmd \cup {"none", "unknown"}]
  /\ name \in [Client -> Name \cup {None}]
  /\ fate \in [Client -> {"none", "queued", "dropped", "handled"}]
  /\ before \in [Client -> SUBSET Client]

PipeInv ==
  /\ ThreadType /\ QueueType /\ ConnType /\ ReplyType /\ ReqType
  /\ Threads /\ Descriptors /\ Waiting /\ Entries /\ Requests

-----------------------------------------------------------------------------
(* b stands before the i-th element of a sequence                          *)
Ahead(s, i, b) == \E j \in 1 .. i - 1 : s[j] = b

(* Order: a request that is still queued is where its name sends it, and   *)
(* those that came before it are in front of it                            *)
Routed ==
  /\ \A c \in Client : \A b \in before[c] : fate[b] # "none" /\ name[b] = name[c]
  /\ \A c \in Client : fate[c] = "queued" =>
       c \in Range(queue["rs"]) \/ c \in Range(queue[Hash[name[c]]])
  /\ \A i \in DOMAIN queue["rs"] : \A b \in before[queue["rs"][i]] : fate[b] = "queued" =>
       \/ Ahead(queue["rs"], i, b)
       \/ b \in Range(queue[Hash[name[b]]])
  /\ \A v \in RW : \A i \in DOMAIN queue[v] : \A b \in before[queue[v][i]] :
       fate[b] = "queued" => Ahead(queue[v], i, b)

-----------------------------------------------------------------------------
(* The answer to a request is still to come                                *)
Pending(r) ==
  \/ cmd[r] = "none"
  \/ cmd[r] = "oneway" /\ \E w \in SW : pc[w] = "notify" /\ cur[w] = r
  \/ cmd[r] = "offer" /\ \E t \in Thread : r \in Range(queue[t])

(* No message is in two places of the queues q                             *)
Distinct(q) ==
  \A t, u \in Thread : \A i \in DOMAIN q[t], j \in DOMAIN q[u] :
    q[t][i] = q[u][j] => t = u /\ i = j

(* x is somewhere in the queues q                                          *)
InQueues(q, x) == \E u \in Thread : \E i \in DOMAIN q[u] : q[u][i] = x

(* No element of s occurs twice                                            *)
Injective(s) == \A i, j \in DOMAIN s : s[i] = s[j] => i = j

(* No message is in two places, SignalingWorkers are sent offers only, and *)
(* who waits for an answer has none                                        *)
Unanswered ==
  /\ Distinct(queue)
  /\ \A w \in SW : \A i \in DOMAIN queue[w] : cmd[queue[w][i]] = "offer"
  /\ \A c, r \in Client : Pending(r) => r \notin Range(Answers(c))

-----------------------------------------------------------------------------
(* Who is who *)
LEMMA ThreadFacts ==
  /\ SW \subseteq Thread /\ RW \subseteq Thread /\ "ss" \in Thread /\ "rs" \in Thread
  /\ "ss" \notin SW \cup RW /\ "rs" \notin SW \cup RW
  /\ \A t \in SW : t \notin RW
  /\ None \notin Client /\ None \notin Fd /\ None \notin Addr /\ None \notin Thread
  /\ None \notin Name
  /\ Hash \in [Name -> RW]
  /\ Len(SWs) \in Nat \ {0} /\ \A i \in 1 .. Len(SWs) : SWs[i] \in SW
  /\ Len(RWs) \in Nat \ {0} /\ \A i \in 1 .. Len(RWs) : RWs[i] \in RW
  BY PipelineAssumption DEF Thread

(* The front of a sequence and the rest of it                              *)
LEMMA HeadTail ==
  ASSUME NEW S, NEW s \in Seq(S), s # << >>
  PROVE  /\ Len(s) \in Nat \ {0} /\ DOMAIN s = 1 .. Len(s)
         /\ Head(s) \in S /\ Head(s) = s[1]
         /\ Tail(s) \in Seq(S) /\ Len(Tail(s)) = Len(s) - 1
         /\ DOMAIN Tail(s) = 1 .. Len(s) - 1
         /\ \A i \in 1 .. Len(s) - 1 : Tail(s)[i] = s[i + 1]
  OBVIOUS

(* A sequence with one more element at its end                             *)
LEMMA Appended ==
  ASSUME NEW S, NEW s \in Seq(S), NEW e \in S
  PROVE  /\ Len(s) \in Nat /\ DOMAIN s = 1 .. Len(s)
         /\ Append(s, e) \in Seq(S) /\ Len(Append(s, e)) = Len(s) + 1
         /\ DOMAIN Append(s, e) = 1 .. Len(s) + 1
         /\ \A i \in 1 .. Len(s) : Append(s, e)[i] = s[i]
         /\ Append(s, e)[Len(s) + 1] = e
  OBVIOUS

(* A write or read of a pipe keeps tokens in it *)
LEMMA WriteFacts ==
  ASSUME ThreadType, NEW t \in Thread, NEW tok \in Token, Write(t, tok)
  PROVE  pipe' \in [Thread -> Seq(Token)]
  <1>1. pipe \in [Thread -> Seq(Token)]
    BY DEF ThreadType
  <1>2. Append(pipe[t], tok) \in Seq(Token)
    BY <1>1, Appended
  <1> QED
    BY <1>1, <1>2 DEF Write

(* A read of a pipe leaves a number of tokens in it                        *)
LEMMA ReceivedFacts ==
  ASSUME ThreadType, NEW t \in Thread, NEW tok, Received(t, tok)
  PROVE  pipe' \in [Thread -> Seq(Token)] /\ pc[t] = "run"
  <1>1. pipe[t] \in Seq(Token) /\ pipe[t] # << >>
    BY DEF ThreadType, Received
  <1>2. Tail(pipe[t]) \in Seq(Token)
    BY <1>1
  <1> QED
    BY <1>2 DEF Received, ThreadType

(* After init() and start() of both servers                                *)
LEMMA InitPipe == Init => PipeInv
  <1> SUFFICES ASSUME Init PROVE PipeInv
    OBVIOUS
  <1>1. ThreadType /\ QueueType /\ ConnType /\ ReplyType /\ ReqType
    BY ThreadFacts DEF Init, ThreadType, QueueType, ConnType, ReplyType, ReqType
  <1>2. Threads /\ Descriptors /\ Waiting
    BY ThreadFacts DEF Init, Threads, Descriptors, Waiting
  <1>3. Entries /\ Requests
    BY ThreadFacts DEF Init, Entries, Requests, Cmd
  <1> QED
    BY <1>1, <1>2, <1>3 DEF PipeInv

(* A descriptor that no open connection has goes to the next worker        *)
LEMMA AcceptPipe ==
  ASSUME PipeInv, NEW c \in Client, Accept(c)
  PROVE  PipeInv'
  <1> DEFINE w == SWs[nextw]
  <1>1. /\ ThreadType /\ QueueType /\ ConnType /\ ReplyType /\ ReqType
        /\ Threads /\ Descriptors /\ Waiting /\ Entries /\ Requests
    BY DEF PipeInv
  <1>2. UNCHANGED <<main, pipe, queue, conns, cur, addr, replies, got, cmd, name, fate, before>>
    BY DEF Accept, reqVars
  <1>3. w \in SW /\ w \in Thread
    BY <1>1, ThreadFacts DEF ThreadType
  <1>4. PICK f \in Fd : /\ fd' = [fd EXCEPT ![c] = f]
                        /\ \A x \in Client : st[x] \in {"accepted", "open"} => fd[x] # f
    BY DEF Accept, UsedFds
  <1>5. /\ pc["ss"] = "run" /\ st[c] = "new"
        /\ st' = [st EXCEPT ![c] = "accepted"]
        /\ wk' = [wk EXCEPT ![c] = w]
        /\ qconn' = [qconn EXCEPT ![w] = Append(@, c)]
        /\ pc' = [pc EXCEPT !["ss"] = "notify"]
        /\ dest' = [dest EXCEPT !["ss"] = w]
        /\ nextw' = NextWorker
    BY DEF Accept, Sending
  <1> HIDE DEF w
  <1>6. ThreadType'
    BY <1>1, <1>2, <1>3, <1>5, ThreadFacts DEF ThreadType, NextWorker
  <1>7. /\ qconn' \in [SW -> Seq(Client)]
        /\ DOMAIN qconn'[w] = 1 .. Len(qconn[w]) + 1 /\ DOMAIN qconn[w] = 1 .. Len(qconn[w])
        /\ Len(qconn[w]) \in Nat
        /\ qconn'[w][Len(qconn[w]) + 1] = c
        /\ \A i \in 1 .. Len(qconn[w]) : qconn'[w][i] = qconn[w][i] /\ qconn[w][i] \in Client
        /\ \A x \in SW : x # w => qconn'[x] = qconn[x]
    BY <1>1, <1>3, <1>5, Appended DEF QueueType
  <1>8. QueueType' /\ ReplyType' /\ ReqType'
    BY <1>1, <1>2, <1>7 DEF QueueType, ReplyType, ReqType
  <1>9. ConnType'
    BY <1>1, <1>2, <1>3, <1>4, <1>5 DEF ConnType
  <1>10. /\ st'[c] = "accepted" /\ wk'[c] = w /\ fd'[c] = f
         /\ \A x \in Client : x # c => st'[x] = st[x] /\ wk'[x] = wk[x] /\ fd'[x] = fd[x]
    BY <1>1, <1>4, <1>5 DEF ConnType
  <1>11. Threads'
    BY <1>1, <1>2, <1>3, <1>5, ThreadFacts DEF Threads, ThreadType
  <1>12. Descriptors'
    BY <1>1, <1>3, <1>4, <1>10 DEF Descriptors
  <1>13. Waiting'
    BY <1>1, <1>5, <1>7, <1>10 DEF Waiting, QueueType
  <1>14. Entries'
    BY <1>1, <1>2, <1>5, <1>10, ThreadFacts DEF Entries, ConnType
  <1>15. Requests'
    BY <1>1, <1>2, <1>5, <1>10, ThreadFacts DEF Requests, QueueType, Threads, ThreadType
  <1> QED
    BY <1>6, <1>8, <1>9, <1>11, <1>12, <1>13, <1>14, <1>15 DEF PipeInv

(* The end of a send of a thread that is no SignalingWorker                *)
LEMMA NotifyPipe ==
  ASSUME PipeInv, NEW t \in Thread, Notify(t)
  PROVE  PipeInv'
  <1>1. /\ ThreadType /\ QueueType /\ ConnType /\ ReplyType /\ ReqType
        /\ Threads /\ Descriptors /\ Waiting /\ Entries /\ Requests
    BY DEF PipeInv
  <1>2. UNCHANGED <<main, queue, qconn, nextw, conns, cur, st, wk, fd, addr, cmd, name,
                    replies, got, fate, before>>
    BY DEF Notify, connVars, reqVars
  <1>3. /\ pc' = [pc EXCEPT ![t] = "run"] /\ dest' = [dest EXCEPT ![t] = None]
        /\ pc[t] = "notify" /\ t \notin SW
    BY DEF Notify
  <1>4. dest[t] \in Thread
    BY <1>1, <1>3, ThreadFacts DEF Threads, Thread
  <1>5. pipe' \in [Thread -> Seq(Token)]
    BY <1>1, <1>4, WriteFacts DEF Notify, Token
  <1>6. ThreadType'
    BY <1>1, <1>2, <1>3, <1>5 DEF ThreadType
  <1>7. /\ QueueType' /\ ConnType' /\ ReplyType' /\ ReqType'
        /\ Descriptors' /\ Waiting' /\ Entries'
    BY <1>1, <1>2
    DEF QueueType, ConnType, ReplyType, ReqType, Descriptors, Waiting, Entries
  <1>8. Threads'
    BY <1>1, <1>2, <1>3, ThreadFacts DEF Threads, ThreadType
  <1>9. Requests'
    BY <1>1, <1>2, <1>3, ThreadFacts DEF Requests, ThreadType
  <1> QED
    BY <1>6, <1>7, <1>8, <1>9 DEF PipeInv

(* The worker opens the connection whose descriptor waited longest, at an  *)
(* address no open connection has                                          *)
LEMMA NewConnPipe ==
  ASSUME PipeInv, NEW w \in SW, NewConn(w)
  PROVE  PipeInv'
  <1> DEFINE c == Head(qconn[w])
  <1>1. /\ ThreadType /\ QueueType /\ ConnType /\ ReplyType /\ ReqType
        /\ Threads /\ Descriptors /\ Waiting /\ Entries /\ Requests
    BY DEF PipeInv
  <1>2. UNCHANGED <<main, pc, dest, queue, nextw, cur, wk, fd, cmd, name, replies, got, fate,
                    before>>
    BY DEF NewConn, connVars, reqVars
  <1>3. pipe' \in [Thread -> Seq(Token)] /\ pc[w] = "run"
    BY <1>1, ThreadFacts, ReceivedFacts DEF NewConn
  <1>4. ThreadType' /\ ReplyType' /\ ReqType' /\ Threads'
    BY <1>1, <1>2, <1>3 DEF ThreadType, ReplyType, ReqType, Threads
  <1>5. CASE qconn[w] = << >>
    <2>1. UNCHANGED <<qconn, conns, st, addr>>
      BY <1>5 DEF NewConn, connVars
    <2> QED
      BY <1>1, <1>2, <1>4, <2>1
      DEF PipeInv, QueueType, ConnType, Descriptors, Waiting, Entries, Requests
  <1>6. CASE qconn[w] # << >>
    <2>1. PICK a \in Addr : /\ addr' = [addr EXCEPT ![c] = a]
                            /\ \A x \in Client : st[x] = "open" => addr[x] # a
      BY <1>6 DEF NewConn, UsedAddrs
    <2>2. /\ qconn' = [qconn EXCEPT ![w] = Tail(@)]
          /\ conns' = [conns EXCEPT ![w][fd[c]] = c]
          /\ st' = [st EXCEPT ![c] = "open"]
      BY <1>6 DEF NewConn
    <2>3. /\ Len(qconn[w]) \in Nat \ {0} /\ DOMAIN qconn[w] = 1 .. Len(qconn[w])
          /\ c \in Client /\ c = qconn[w][1]
          /\ Tail(qconn[w]) \in Seq(Client)
          /\ DOMAIN Tail(qconn[w]) = 1 .. Len(qconn[w]) - 1
          /\ \A i \in 1 .. Len(qconn[w]) - 1 : Tail(qconn[w])[i] = qconn[w][i + 1]
      BY <1>1, <1>6, HeadTail DEF QueueType
    <2> HIDE DEF c
    <2>4. /\ qconn' \in [SW -> Seq(Client)] /\ DOMAIN qconn'[w] = 1 .. Len(qconn[w]) - 1
          /\ \A i \in 1 .. Len(qconn[w]) - 1 : qconn'[w][i] = qconn[w][i + 1]
          /\ \A x \in SW : x # w => qconn'[x] = qconn[x]
      BY <1>1, <2>2, <2>3 DEF QueueType
    <2>5. st[c] = "accepted" /\ wk[c] = w /\ fd[c] \in Fd
      BY <1>1, <2>3 DEF Waiting, Descriptors
    <2>6. QueueType' /\ ConnType'
      BY <1>1, <1>2, <2>1, <2>2, <2>3, <2>4, <2>5 DEF QueueType, ConnType
    <2>7. /\ st'[c] = "open" /\ addr'[c] = a /\ conns'[w][fd[c]] = c
          /\ \A x \in Client : x # c => st'[x] = st[x] /\ addr'[x] = addr[x]
          /\ \A x \in SW, f \in Fd : x # w \/ f # fd[c] => conns'[x][f] = conns[x][f]
      BY <1>1, <2>1, <2>2, <2>3, <2>5 DEF ConnType
    <2>8. Descriptors'
      BY <1>1, <1>2, <2>3, <2>5, <2>7 DEF Descriptors
    <2>9. Waiting'
      <3>1. \A x \in SW : x # w => \A i \in DOMAIN qconn[x] : qconn[x][i] # c
        BY <1>1, <2>5 DEF Waiting
      <3>2. \A i \in 1 .. Len(qconn[w]) - 1 : qconn[w][i + 1] # c /\ i + 1 \in DOMAIN qconn[w]
        BY <1>1, <2>3 DEF Waiting
      <3>3. \A x \in SW : \A i \in DOMAIN qconn[x] : qconn[x][i] \in Client
        BY <1>1 DEF QueueType
      <3>4. \A x \in SW : x # w => \A i \in DOMAIN qconn'[x] :
               st'[qconn'[x][i]] = "accepted" /\ wk'[qconn'[x][i]] = x
        BY <1>1, <1>2, <2>4, <2>7, <3>1, <3>3 DEF Waiting
      <3>5. \A i \in DOMAIN qconn'[w] :
               st'[qconn'[w][i]] = "accepted" /\ wk'[qconn'[w][i]] = w
        BY <1>1, <1>2, <2>4, <2>7, <3>2, <3>3 DEF Waiting
      <3>6. \A i, j \in DOMAIN qconn'[w] : qconn'[w][i] = qconn'[w][j] => i = j
        <4> SUFFICES ASSUME NEW i \in 1 .. Len(qconn[w]) - 1, NEW j \in 1 .. Len(qconn[w]) - 1,
                            qconn[w][i + 1] = qconn[w][j + 1]
                     PROVE  i = j
          BY <2>4
        <4>1. i + 1 \in DOMAIN qconn[w] /\ j + 1 \in DOMAIN qconn[w]
          BY <3>2
        <4>2. i + 1 = j + 1
          BY <1>1, <4>1 DEF Waiting
        <4> QED
          BY <2>3, <4>2
      <3> QED
        BY <1>1, <2>4, <3>4, <3>5, <3>6 DEF Waiting
    <2>10. Entries'
      <3>1. \A x \in SW, f \in Fd : conns[x][f] \in Client \cup {None} /\ conns[x][f] # c
        BY <1>1, <2>3, <2>5, ThreadFacts DEF Entries, ConnType
      <3>2. \A x \in SW, f \in Fd : conns'[x][f] # None =>
               /\ st'[conns'[x][f]] = "open" /\ wk'[conns'[x][f]] = x
               /\ fd'[conns'[x][f]] = f
        BY <1>1, <1>2, <2>3, <2>5, <2>7, <3>1 DEF Entries
      <3>3. \A x \in Client : st[x] = "open" => fd[x] # fd[c] /\ x # c
                              /\ wk[x] \in SW /\ fd[x] \in Fd
        BY <1>1, <2>3, <2>5 DEF Descriptors
      <3>4. \A x \in Client : st'[x] = "open" => conns'[wk'[x]][fd'[x]] = x
        BY <1>1, <1>2, <2>3, <2>5, <2>7, <3>3 DEF Entries
      <3>5. \A x, y \in Client :
               st'[x] = "open" /\ st'[y] = "open" /\ x # y => addr'[x] # addr'[y]
        BY <1>1, <2>1, <2>3, <2>7 DEF Entries
      <3>6. \A x \in Client : st'[x] # "open" => replies'[x] = << >>
        BY <1>1, <1>2, <2>3, <2>7 DEF Entries
      <3> QED
        BY <3>2, <3>4, <3>5, <3>6 DEF Entries
    <2>11. Requests'
      <3>1. cmd[c] = "none"
        BY <1>1, <2>3, <2>5 DEF Requests
      <3>2. \A x \in Client : cmd'[x] # "none" => st'[x] \in {"open", "closed"}
        BY <1>1, <1>2, <2>7, <3>1 DEF Requests
      <3>3. \A x \in SW : pc[x] = "notify" => cur[x] \in Client /\ st[cur[x]] = "open"
        BY <1>1 DEF Requests, Threads
      <3>4. \A x \in SW : pc'[x] = "notify" =>
               st'[cur'[x]] = "open" /\ wk'[cur'[x]] = x /\ cmd'[cur'[x]] \in Cmd
        BY <1>1, <1>2, <2>7, <3>3 DEF Requests
      <3> QED
        BY <1>1, <1>2, <3>2, <3>4 DEF Requests
    <2> QED
      BY <1>4, <2>6, <2>8, <2>9, <2>10, <2>11 DEF PipeInv
  <1> QED
    BY <1>5, <1>6

(* A request is pushed by the worker of its open connection                *)
LEMMA SubmitPipe ==
  ASSUME PipeInv, NEW w \in SW, NEW c \in Client, NEW n \in Name, NEW k \in Cmd,
         Submit(w, c, n, k)
  PROVE  PipeInv'
  <1>1. /\ ThreadType /\ QueueType /\ ConnType /\ ReplyType /\ ReqType
        /\ Threads /\ Descriptors /\ Waiting /\ Entries /\ Requests
    BY DEF PipeInv
  <1>2. UNCHANGED <<main, pipe, qconn, nextw, conns, st, wk, fd, addr, replies, got>>
    BY DEF Submit, connVars
  <1>3. /\ pc[w] = "run" /\ st[c] = "open" /\ wk[c] = w /\ cmd[c] = "none"
        /\ cmd' = [cmd EXCEPT ![c] = k] /\ name' = [name EXCEPT ![c] = n]
        /\ fate' = [fate EXCEPT ![c] = "queued"]
        /\ before' = [before EXCEPT ![c] = {x \in Client : fate[x] # "none" /\ name[x] = n}]
        /\ queue' = [queue EXCEPT !["rs"] = Append(@, c)]
        /\ cur' = [cur EXCEPT ![w] = c]
        /\ pc' = [pc EXCEPT ![w] = "notify"] /\ dest' = [dest EXCEPT ![w] = "rs"]
    BY DEF Submit, Watched, Sending
  <1>4. w \in Thread /\ "rs" \in Thread /\ k \in {"offer", "oneway"}
    BY ThreadFacts DEF Cmd
  <1>5. ThreadType'
    BY <1>1, <1>2, <1>3, <1>4 DEF ThreadType
  <1>6. /\ queue' \in [Thread -> Seq(Client)]
        /\ DOMAIN queue["rs"] = 1 .. Len(queue["rs"]) /\ Len(queue["rs"]) \in Nat
        /\ DOMAIN queue'["rs"] = 1 .. Len(queue["rs"]) + 1
        /\ queue'["rs"][Len(queue["rs"]) + 1] = c
        /\ \A i \in 1 .. Len(queue["rs"]) : queue'["rs"][i] = queue["rs"][i]
        /\ \A t \in Thread : t # "rs" => queue'[t] = queue[t]
    BY <1>1, <1>3, <1>4, Appended DEF QueueType
  <1>7. QueueType' /\ ReplyType' /\ Descriptors' /\ Waiting' /\ Entries'
    BY <1>1, <1>2, <1>6 DEF QueueType, ReplyType, Descriptors, Waiting, Entries
  <1>8. ConnType'
    BY <1>1, <1>2, <1>3 DEF ConnType
  <1>9. ReqType'
    BY <1>1, <1>3 DEF ReqType
  <1>10. /\ cmd'[c] = k /\ name'[c] = n /\ fate'[c] = "queued"
         /\ \A x \in Client : x # c => cmd'[x] = cmd[x] /\ name'[x] = name[x] /\ fate'[x] = fate[x]
    BY <1>1, <1>3 DEF ReqType
  <1>11. /\ cur'[w] = c /\ pc'[w] = "notify" /\ dest'[w] = "rs"
         /\ \A x \in SW : x # w => cur'[x] = cur[x]
         /\ \A t \in Thread : t # w => pc'[t] = pc[t] /\ dest'[t] = dest[t]
    BY <1>1, <1>3, <1>4 DEF ConnType, ThreadType
  <1>12. Threads'
    BY <1>1, <1>4, <1>11, ThreadFacts DEF Threads
  <1>13. Requests'
    <2>1. \A x \in Client : /\ cmd'[x] # "none" => st'[x] \in {"open", "closed"}
                            /\ cmd'[x] \in Cmd <=> fate'[x] # "none"
                            /\ fate'[x] # "none" => name'[x] \in Name
      BY <1>1, <1>2, <1>3, <1>10 DEF Requests
    <2>2. \A x \in SW : pc'[x] = "notify" =>
             st'[cur'[x]] = "open" /\ wk'[cur'[x]] = x /\ cmd'[cur'[x]] \in Cmd
      BY <1>1, <1>2, <1>3, <1>10, <1>11, ThreadFacts DEF Requests, Threads
    <2>3. \A t \in Thread : \A i \in DOMAIN queue[t] : queue[t][i] \in Client
      BY <1>1 DEF QueueType
    <2>4. \A t \in Thread : \A i \in DOMAIN queue[t] : cmd'[queue[t][i]] \in Cmd
      BY <1>1, <1>10, <2>3 DEF Requests
    <2>5. \A t \in Thread : \A i \in DOMAIN queue'[t] : cmd'[queue'[t][i]] \in Cmd
      <3> SUFFICES ASSUME NEW t \in Thread, NEW i \in DOMAIN queue'[t]
                   PROVE  cmd'[queue'[t][i]] \in Cmd
        OBVIOUS
      <3>1. CASE t # "rs"
        BY <1>6, <2>4, <3>1
      <3>2. CASE t = "rs" /\ i \in 1 .. Len(queue["rs"])
        BY <1>6, <2>4, <3>2
      <3>3. CASE t = "rs" /\ i = Len(queue["rs"]) + 1
        BY <1>6, <1>10, <3>3
      <3> QED
        BY <1>6, <3>1, <3>2, <3>3
    <2> QED
      BY <2>1, <2>2, <2>5 DEF Requests
  <1> QED
    BY <1>5, <1>7, <1>8, <1>9, <1>12, <1>13 DEF PipeInv

(* An error reply to a request without a known command                     *)
LEMMA UnknownRequestPipe ==
  ASSUME PipeInv, NEW w \in SW, NEW c \in Client, UnknownRequest(w, c)
  PROVE  PipeInv'
  <1>1. /\ ThreadType /\ QueueType /\ ConnType /\ ReplyType /\ ReqType
        /\ Threads /\ Descriptors /\ Waiting /\ Entries /\ Requests
    BY DEF PipeInv
  <1>2. UNCHANGED <<main, pc, dest, pipe, queue, qconn, nextw, conns, cur, st, wk, fd, addr,
                    name, got, fate, before>>
    BY DEF UnknownRequest, threadVars
  <1>3. /\ st[c] = "open" /\ cmd[c] = "none"
        /\ cmd' = [cmd EXCEPT ![c] = "unknown"]
        /\ replies' = [replies EXCEPT ![c] = Append(@, c)]
    BY DEF UnknownRequest, Watched
  <1>4. Append(replies[c], c) \in Seq(Client)
    BY <1>1, Appended DEF ReplyType
  <1>5. ReplyType' /\ ReqType'
    BY <1>1, <1>2, <1>3, <1>4 DEF ReplyType, ReqType
  <1>6. /\ ThreadType' /\ QueueType' /\ ConnType' /\ Threads' /\ Descriptors' /\ Waiting'
    BY <1>1, <1>2 DEF ThreadType, QueueType, ConnType, Threads, Descriptors, Waiting
  <1>7. Entries'
    BY <1>1, <1>2, <1>3 DEF Entries, ReplyType
  <1>8. Requests'
    <2>1. cmd'[c] = "unknown" /\ \A x \in Client : x # c => cmd'[x] = cmd[x]
      BY <1>1, <1>3 DEF ReqType
    <2>2. \A t \in Thread : \A i \in DOMAIN queue[t] : queue[t][i] \in Client \ {c}
      <3>1. \A t \in Thread : \A i \in DOMAIN queue[t] : queue[t][i] \in Client
        BY <1>1 DEF QueueType
      <3> QED
        BY <1>1, <1>3, <3>1 DEF Requests, Cmd
    <2>3. \A x \in SW : pc[x] = "notify" => cur[x] \in Client \ {c}
      BY <1>1, <1>3 DEF Requests, Threads, Cmd
    <2> QED
      BY <1>1, <1>2, <1>3, <2>1, <2>2, <2>3 DEF Requests, Cmd
  <1> QED
    BY <1>5, <1>6, <1>7, <1>8 DEF PipeInv

(* A connection is closed by its worker, which is not sending its request *)
LEMMA CloseConnPipe ==
  ASSUME QueueType, ConnType, ReplyType, Descriptors, Waiting, Entries,
         NEW c \in Client, st[c] = "open", CloseConn(c),
         cur' \in [SW -> Client \cup {None}], UNCHANGED <<wk, fd, addr, qconn>>
  PROVE  /\ ConnType' /\ replies' \in [Client -> Seq(Client)]
         /\ Descriptors' /\ Waiting' /\ Entries'
         /\ st'[c] = "closed" /\ \A x \in Client : x # c => st'[x] = st[x]
  <1>1. /\ conns' = [conns EXCEPT ![wk[c]][fd[c]] = None]
        /\ st' = [st EXCEPT ![c] = "closed"]
        /\ replies' = [replies EXCEPT ![c] = << >>]
    BY DEF CloseConn
  <1>2. wk[c] \in SW /\ fd[c] \in Fd /\ conns[wk[c]][fd[c]] = c
    BY DEF Descriptors, Entries
  <1>3. ConnType' /\ replies' \in [Client -> Seq(Client)]
    BY <1>1, <1>2 DEF ConnType, ReplyType
  <1>4. /\ st'[c] = "closed" /\ replies'[c] = << >> /\ conns'[wk[c]][fd[c]] = None
        /\ \A x \in Client : x # c => st'[x] = st[x] /\ replies'[x] = replies[x]
        /\ \A w \in SW, f \in Fd : w # wk[c] \/ f # fd[c] => conns'[w][f] = conns[w][f]
    BY <1>1, <1>2 DEF ConnType, ReplyType
  <1>5. Descriptors'
    BY <1>4 DEF Descriptors
  <1>6. Waiting'
    <2>1. \A w \in SW : \A i \in DOMAIN qconn[w] : qconn[w][i] \in Client
      BY DEF QueueType
    <2>2. \A w \in SW : \A i \in DOMAIN qconn[w] : qconn[w][i] # c
      BY DEF Waiting
    <2> QED
      BY <1>4, <2>1, <2>2 DEF Waiting
  <1>7. Entries'
    <2>1. \A w \in SW, f \in Fd : conns'[w][f] # None =>
             conns[w][f] # c /\ conns'[w][f] = conns[w][f] /\ conns[w][f] \in Client
      BY <1>2, <1>4 DEF Entries, ConnType
    <2>2. \A w \in SW, f \in Fd : conns'[w][f] # None =>
             st'[conns'[w][f]] = "open" /\ wk'[conns'[w][f]] = w /\ fd'[conns'[w][f]] = f
      BY <1>4, <2>1 DEF Entries
    <2>3. \A x \in Client : st'[x] = "open" => conns'[wk'[x]][fd'[x]] = x
      BY <1>2, <1>4 DEF Entries, Descriptors
    <2> QED
      BY <1>4, <2>2, <2>3 DEF Entries
  <1> QED
    BY <1>3, <1>4, <1>5, <1>6, <1>7

(* The end of the send of a request: a reply, a closed connection, or      *)
(* neither                                                                 *)
LEMMA RequestSentPipe ==
  ASSUME PipeInv, NEW w \in SW, RequestSent(w)
  PROVE  PipeInv'
  <1> DEFINE c == cur[w]
  <1>1. /\ ThreadType /\ QueueType /\ ConnType /\ ReplyType /\ ReqType
        /\ Threads /\ Descriptors /\ Waiting /\ Entries /\ Requests
    BY DEF PipeInv
  <1>2. UNCHANGED <<main, queue, qconn, nextw, wk, fd, addr, cmd, name, got, fate, before>>
    BY DEF RequestSent, reqVars
  <1>3. /\ pc[w] = "notify"
        /\ pc' = [pc EXCEPT ![w] = "run"]
        /\ dest' = [dest EXCEPT ![w] = None]
        /\ cur' = [cur EXCEPT ![w] = None]
    BY DEF RequestSent
  <1>4. \/ UNCHANGED <<conns, st>> /\ replies' = [replies EXCEPT ![c] = Append(@, c)]
        \/ CloseConn(c)
        \/ UNCHANGED <<conns, st, replies>>
    BY DEF RequestSent
  <1>5. c \in Client /\ st[c] = "open" /\ wk[c] = w
    BY <1>1, <1>3 DEF Threads, Requests
  <1>6. pipe' \in [Thread -> Seq(Token)]
    BY <1>1, ThreadFacts, WriteFacts DEF RequestSent, Token
  <1> HIDE DEF c
  <1>7. ThreadType' /\ QueueType' /\ ReqType'
    BY <1>1, <1>2, <1>3, <1>6 DEF ThreadType, QueueType, ReqType
  <1>8. /\ cur'[w] = None /\ pc'[w] = "run" /\ \A x \in SW : x # w => cur'[x] = cur[x]
        /\ \A t \in Thread : t # w => pc'[t] = pc[t] /\ dest'[t] = dest[t]
    BY <1>1, <1>3, ThreadFacts DEF ConnType, ThreadType
  <1>9. Threads'
    BY <1>1, <1>8, ThreadFacts DEF Threads
  <1>10. /\ ConnType' /\ replies' \in [Client -> Seq(Client)] /\ Descriptors' /\ Waiting' /\ Entries'
         /\ st'[c] \in {"open", "closed"} /\ \A x \in Client : x # c => st'[x] = st[x]
    <2>1. CASE UNCHANGED <<conns, st, replies>>
      BY <1>1, <1>2, <1>3, <1>5, <2>1
      DEF ConnType, ReplyType, Descriptors, Waiting, Entries
    <2>2. CASE UNCHANGED <<conns, st>> /\ replies' = [replies EXCEPT ![c] = Append(@, c)]
      <3>1. Append(replies[c], c) \in Seq(Client)
        BY <1>1, <1>5, Appended DEF ReplyType
      <3>2. replies' \in [Client -> Seq(Client)] /\ \A x \in Client : x # c => replies'[x] = replies[x]
        BY <1>1, <1>5, <2>2, <3>1 DEF ReplyType
      <3> QED
        BY <1>1, <1>2, <1>3, <1>5, <2>2, <3>2 DEF ConnType, Descriptors, Waiting, Entries
    <2>3. CASE CloseConn(c)
      <3>1. ConnType /\ cur' \in [SW -> Client \cup {None}]
        BY <1>1, <1>3 DEF ConnType
      <3> QED
        BY <1>1, <1>2, <1>5, <2>3, <3>1, CloseConnPipe
    <2> QED
      BY <1>4, <2>1, <2>2, <2>3
  <1>11. ReplyType'
    BY <1>1, <1>2, <1>10 DEF ReplyType
  <1>12. Requests'
    <2>1. \A x \in SW : x # w /\ pc[x] = "notify" => cur[x] \in Client \ {c}
      BY <1>1, <1>5 DEF Requests, Threads
    <2>2. \A x \in SW : pc'[x] = "notify" => x # w /\ pc[x] = "notify" /\ cur'[x] = cur[x]
      BY <1>8, ThreadFacts
    <2>3. \A x \in SW : pc'[x] = "notify" =>
             st'[cur'[x]] = "open" /\ wk'[cur'[x]] = x /\ cmd'[cur'[x]] \in Cmd
      BY <1>1, <1>2, <1>10, <2>1, <2>2 DEF Requests
    <2>4. \A x \in Client : cmd'[x] # "none" => st'[x] \in {"open", "closed"}
      BY <1>1, <1>2, <1>5, <1>10 DEF Requests
    <2> QED
      BY <1>1, <1>2, <2>3, <2>4 DEF Requests
  <1> QED
    BY <1>7, <1>9, <1>10, <1>11, <1>12 DEF PipeInv

(* The replies of a connection are written                                 *)
LEMMA WriteReplyPipe ==
  ASSUME PipeInv, NEW w \in SW, NEW c \in Client, WriteReply(w, c)
  PROVE  PipeInv'
  <1>1. /\ ThreadType /\ QueueType /\ ConnType /\ ReplyType /\ ReqType
        /\ Threads /\ Descriptors /\ Waiting /\ Entries /\ Requests
    BY DEF PipeInv
  <1>2. UNCHANGED <<main, pc, dest, pipe, queue, qconn, nextw, conns, cur, st, wk, fd, addr, cmd,
                    name, fate, before>>
    BY DEF WriteReply, threadVars, reqVars
  <1>3. /\ got' = [got EXCEPT ![c] = @ \o replies[c]]
        /\ replies' = [replies EXCEPT ![c] = << >>]
    BY DEF WriteReply
  <1>4. got[c] \o replies[c] \in Seq(Client)
    BY <1>1 DEF ReplyType
  <1>5. ReplyType'
    BY <1>1, <1>3, <1>4 DEF ReplyType
  <1>6. /\ ThreadType' /\ QueueType' /\ ConnType' /\ ReqType'
        /\ Threads' /\ Descriptors' /\ Waiting' /\ Requests'
    BY <1>1, <1>2
    DEF ThreadType, QueueType, ConnType, ReqType, Threads, Descriptors, Waiting, Requests
  <1>7. Entries'
    <2>1. \A x \in Client : replies[x] = << >> => replies'[x] = << >>
      BY <1>1, <1>3 DEF ReplyType
    <2> QED
      BY <1>1, <1>2, <2>1 DEF Entries
  <1> QED
    BY <1>5, <1>6, <1>7 DEF PipeInv

(* A connection closes while its worker is idle                            *)
LEMMA LostPipe ==
  ASSUME PipeInv, NEW w \in SW, NEW c \in Client, Watched(w, c), CloseConn(c),
         got' \in [Client -> Seq(Client)],
         UNCHANGED <<main, pc, dest, pipe, queue, qconn, nextw, cur, wk, fd, addr, cmd, name,
                     fate, before>>
  PROVE  PipeInv'
  <1>1. /\ ThreadType /\ QueueType /\ ConnType /\ ReplyType /\ ReqType
        /\ Threads /\ Descriptors /\ Waiting /\ Entries /\ Requests
    BY DEF PipeInv
  <1>2. st[c] = "open" /\ wk[c] = w /\ pc[w] = "run"
    BY DEF Watched
  <1>3. /\ ThreadType' /\ QueueType' /\ ReqType' /\ Threads'
    BY <1>1 DEF ThreadType, QueueType, ReqType, Threads
  <1>4. /\ ConnType' /\ replies' \in [Client -> Seq(Client)]
        /\ Descriptors' /\ Waiting' /\ Entries'
        /\ st'[c] = "closed" /\ \A x \in Client : x # c => st'[x] = st[x]
    <2>1. cur' \in [SW -> Client \cup {None}]
      BY <1>1 DEF ConnType
    <2> QED
      BY <1>1, <1>2, <2>1, CloseConnPipe
  <1>5. ReplyType'
    BY <1>4 DEF ReplyType
  <1>6. Requests'
    <2>1. \A x \in SW : pc[x] = "notify" => cur[x] \in Client \ {c}
      BY <1>1, <1>2 DEF Requests, Threads
    <2>2. \A x \in SW : pc'[x] = "notify" =>
             st'[cur'[x]] = "open" /\ wk'[cur'[x]] = x /\ cmd'[cur'[x]] \in Cmd
      BY <1>1, <1>4, <2>1 DEF Requests
    <2>3. \A x \in Client : cmd'[x] # "none" => st'[x] \in {"open", "closed"}
      BY <1>1, <1>4 DEF Requests
    <2> QED
      BY <1>1, <2>2, <2>3 DEF Requests
  <1> QED
    BY <1>3, <1>4, <1>5, <1>6 DEF PipeInv

(* ... after a write that failed                                           *)
LEMMA WriteErrorPipe ==
  ASSUME PipeInv, NEW w \in SW, NEW c \in Client, WriteError(w, c)
  PROVE  PipeInv'
  <1>1. PICK i \in 0..(Len(replies[c]) - 1) :
           got' = [got EXCEPT ![c] = @ \o SubSeq(replies[c], 1, i)]
    BY DEF WriteError
  <1>2. got \in [Client -> Seq(Client)] /\ replies[c] \in Seq(Client)
    BY DEF PipeInv, ReplyType
  <1>3. SubSeq(replies[c], 1, i) \in Seq(Client)
    BY <1>2
  <1>4. got[c] \o SubSeq(replies[c], 1, i) \in Seq(Client)
    BY <1>2, <1>3
  <1>5. got' \in [Client -> Seq(Client)]
    BY <1>1, <1>2, <1>4
  <1>6. /\ Watched(w, c) /\ CloseConn(c)
        /\ UNCHANGED <<main, pc, dest, pipe, queue, qconn, nextw, cur, wk, fd, addr, cmd, name,
                       fate, before>>
    BY DEF WriteError, threadVars, reqVars
  <1> QED
    BY <1>5, <1>6, LostPipe

(* ... because the client is gone, talks nonsense, or is silent too long   *)
LEMMA LoseConnPipe ==
  ASSUME PipeInv, NEW w \in SW, NEW c \in Client, LoseConn(w, c)
  PROVE  PipeInv'
  <1>1. /\ Watched(w, c) /\ CloseConn(c)
        /\ UNCHANGED <<main, pc, dest, pipe, queue, qconn, nextw, cur, wk, fd, addr, cmd, name, got,
                       fate, before>>
    BY DEF LoseConn, threadVars, reqVars
  <1>2. got' \in [Client -> Seq(Client)]
    BY <1>1 DEF PipeInv, ReplyType
  <1> QED
    BY <1>1, <1>2, LostPipe

(* A message leaves the front of a queue, perhaps for the end of another: *)
(* nothing is queued that was not queued before                           *)
LEMMA Dequeued ==
  ASSUME QueueType, NEW t \in Thread, queue[t] # << >>
  PROVE  /\ Head(queue[t]) \in Client /\ 1 \in DOMAIN queue[t] /\ Head(queue[t]) = queue[t][1]
         /\ queue' = [queue EXCEPT ![t] = Tail(@)] =>
              /\ queue' \in [Thread -> Seq(Client)]
              /\ \A u \in Thread : \A i \in DOMAIN queue'[u] :
                   \E v \in Thread : \E j \in DOMAIN queue[v] : queue'[u][i] = queue[v][j]
         /\ \A d \in Thread :
              d # t /\ queue' = [queue EXCEPT ![t] = Tail(@), ![d] = Append(@, Head(queue[t]))] =>
                /\ queue' \in [Thread -> Seq(Client)]
                /\ \A u \in Thread : \A i \in DOMAIN queue'[u] :
                     \E v \in Thread : \E j \in DOMAIN queue[v] : queue'[u][i] = queue[v][j]
  <1> DEFINE s == queue[t]
             r == Head(queue[t])
  <1>1. queue \in [Thread -> Seq(Client)] /\ s \in Seq(Client)
    BY DEF QueueType
  <1>2. /\ Len(s) \in Nat \ {0} /\ DOMAIN s = 1 .. Len(s) /\ r \in Client /\ r = s[1]
        /\ Tail(s) \in Seq(Client) /\ DOMAIN Tail(s) = 1 .. Len(s) - 1
        /\ \A i \in 1 .. Len(s) - 1 : Tail(s)[i] = s[i + 1]
    BY <1>1, HeadTail
  <1>3. \A i \in DOMAIN Tail(s) : \E j \in DOMAIN s : Tail(s)[i] = s[j]
    <2> SUFFICES ASSUME NEW i \in 1 .. Len(s) - 1
                 PROVE  \E j \in DOMAIN s : Tail(s)[i] = s[j]
      BY <1>2
    <2>1. i + 1 \in DOMAIN s /\ Tail(s)[i] = s[i + 1]
      BY <1>2
    <2> QED
      BY <2>1
  <1>4. ASSUME queue' = [queue EXCEPT ![t] = Tail(@)]
        PROVE  /\ queue' \in [Thread -> Seq(Client)]
               /\ \A u \in Thread : \A i \in DOMAIN queue'[u] :
                    \E v \in Thread : \E j \in DOMAIN queue[v] : queue'[u][i] = queue[v][j]
    <2>1. queue'[t] = Tail(s) /\ \A u \in Thread : u # t => queue'[u] = queue[u]
      BY <1>1, <1>4
    <2>2. queue' \in [Thread -> Seq(Client)]
      BY <1>1, <1>2, <1>4
    <2>3. \A u \in Thread : \A i \in DOMAIN queue'[u] : \E j \in DOMAIN queue[u] :
             queue'[u][i] = queue[u][j]
      <3> SUFFICES ASSUME NEW u \in Thread
                   PROVE  \A i \in DOMAIN queue'[u] : \E j \in DOMAIN queue[u] :
                            queue'[u][i] = queue[u][j]
        OBVIOUS
      <3>1. CASE u = t
        <4> HIDE DEF s, r
        <4>1. \A i \in DOMAIN queue'[t] : \E j \in DOMAIN queue[t] : queue'[t][i] = queue[t][j]
          BY <1>3, <2>1 DEF s
        <4> QED
          BY <3>1, <4>1
      <3>2. CASE u # t
        BY <2>1, <3>2
      <3> QED
        BY <3>1, <3>2
    <2> QED
      BY <2>2, <2>3
  <1>5. ASSUME NEW d \in Thread, d # t,
               queue' = [queue EXCEPT ![t] = Tail(@), ![d] = Append(@, Head(queue[t]))]
        PROVE  /\ queue' \in [Thread -> Seq(Client)]
               /\ \A u \in Thread : \A i \in DOMAIN queue'[u] :
                    \E v \in Thread : \E j \in DOMAIN queue[v] : queue'[u][i] = queue[v][j]
    <2>1. /\ queue'[t] = Tail(s) /\ queue'[d] = Append(queue[d], r)
          /\ \A u \in Thread : u # t /\ u # d => queue'[u] = queue[u]
      BY <1>1, <1>5
    <2>2. /\ Append(queue[d], r) \in Seq(Client) /\ Len(queue[d]) \in Nat
          /\ DOMAIN queue[d] = 1 .. Len(queue[d])
          /\ DOMAIN Append(queue[d], r) = 1 .. Len(queue[d]) + 1
          /\ \A i \in 1 .. Len(queue[d]) : Append(queue[d], r)[i] = queue[d][i]
          /\ Append(queue[d], r)[Len(queue[d]) + 1] = r
      BY <1>1, <1>2, <1>5, Appended
    <2>3. queue' \in [Thread -> Seq(Client)]
      BY <1>1, <1>2, <1>5, <2>2
    <2>4. 1 \in DOMAIN queue[t] /\ r = queue[t][1]
      BY <1>2
    <2> HIDE DEF s, r
    <2>5. \A i \in DOMAIN queue'[d] :
             \E v \in Thread : \E j \in DOMAIN queue[v] : queue'[d][i] = queue[v][j]
      <3> SUFFICES ASSUME NEW i \in 1 .. Len(queue[d]) + 1
                   PROVE  \E v \in Thread : \E j \in DOMAIN queue[v] : queue'[d][i] = queue[v][j]
        BY <2>1, <2>2
      <3>1. CASE i = Len(queue[d]) + 1
        BY <2>1, <2>2, <2>4, <3>1
      <3>2. CASE i \in 1 .. Len(queue[d])
        BY <1>5, <2>1, <2>2, <3>2
      <3> QED
        BY <2>2, <3>1, <3>2
    <2>6. \A i \in DOMAIN queue'[t] : \E j \in DOMAIN queue[t] : queue'[t][i] = queue[t][j]
      BY <1>3, <2>1 DEF s
    <2>7. \A u \in Thread : \A i \in DOMAIN queue'[u] :
             \E v \in Thread : \E j \in DOMAIN queue[v] : queue'[u][i] = queue[v][j]
      <3> SUFFICES ASSUME NEW u \in Thread, NEW i \in DOMAIN queue'[u]
                   PROVE  \E v \in Thread : \E j \in DOMAIN queue[v] : queue'[u][i] = queue[v][j]
        OBVIOUS
      <3>1. CASE u = t
        BY <2>6, <3>1
      <3>2. CASE u = d
        BY <2>5, <3>2
      <3>3. CASE u # t /\ u # d
        BY <2>1, <3>3
      <3> QED
        BY <3>1, <3>2, <3>3
    <2> QED
      BY <2>3, <2>7
  <1>6. r \in Client /\ 1 \in DOMAIN queue[t] /\ r = queue[t][1]
    BY <1>2
  <1> HIDE DEF r
  <1> QED
    BY <1>4, <1>5, <1>6 DEF r

(* An answer is appended to the replies of the open connection that has    *)
(* the descriptor and the address, if there is one                         *)
LEMMA ResponsePipe ==
  ASSUME PipeInv, NEW w \in SW, Response(w)
  PROVE  PipeInv'
  <1>1. /\ ThreadType /\ QueueType /\ ConnType /\ ReplyType /\ ReqType
        /\ Threads /\ Descriptors /\ Waiting /\ Entries /\ Requests
    BY DEF PipeInv
  <1>2. UNCHANGED <<main, pc, dest, qconn, nextw, conns, cur, st, wk, fd, addr, cmd, name, got,
                    fate, before>>
    BY DEF Response, reqVars
  <1>3. pipe' \in [Thread -> Seq(Token)] /\ pc[w] = "run" /\ w \in Thread
    BY <1>1, ThreadFacts, ReceivedFacts DEF Response
  <1>4. ThreadType' /\ ConnType' /\ ReqType' /\ Threads' /\ Descriptors' /\ Waiting'
    BY <1>1, <1>2, <1>3 DEF ThreadType, ConnType, ReqType, Threads, Descriptors, Waiting
  <1>5. CASE queue[w] = << >>
    <2>1. UNCHANGED <<queue, replies>>
      BY <1>5 DEF Response
    <2> QED
      BY <1>1, <1>2, <1>4, <2>1 DEF PipeInv, QueueType, ReplyType, Entries, Requests
  <1>6. CASE queue[w] # << >>
    <2> DEFINE r == Head(queue[w])
               t == conns[w][fd[r]]
    <2>1. /\ queue' = [queue EXCEPT ![w] = Tail(@)]
          /\ \/ replies' = replies
             \/ t # None /\ replies' = [replies EXCEPT ![t] = Append(@, r)]
      BY <1>6 DEF Response, Matches
    <2>2. /\ r \in Client /\ 1 \in DOMAIN queue[w] /\ r = queue[w][1]
          /\ queue' \in [Thread -> Seq(Client)]
          /\ \A u \in Thread : \A i \in DOMAIN queue'[u] :
               \E v \in Thread : \E j \in DOMAIN queue[v] : queue'[u][i] = queue[v][j]
      BY <1>1, <1>3, <1>6, <2>1, Dequeued
    <2> HIDE DEF r
    <2>3. cmd[r] \in Cmd
      BY <1>1, <1>3, <2>2 DEF Requests
    <2>4. fd[r] \in Fd
      BY <1>1, <2>2, <2>3 DEF Requests, Descriptors, Cmd
    <2>5. t # None => t \in Client /\ st[t] = "open"
      BY <1>1, <2>4 DEF Entries, ConnType
    <2> HIDE DEF t
    <2>6. ReplyType' /\ Entries'
      <3>1. CASE replies' = replies
        BY <1>1, <1>2, <3>1 DEF ReplyType, Entries
      <3>2. CASE t # None /\ replies' = [replies EXCEPT ![t] = Append(@, r)]
        <4>1. t \in Client /\ st[t] = "open" /\ Append(replies[t], r) \in Seq(Client)
          BY <1>1, <2>2, <2>5, <3>2, Appended DEF ReplyType
        <4>2. /\ replies' \in [Client -> Seq(Client)]
              /\ \A x \in Client : x # t => replies'[x] = replies[x]
          BY <1>1, <3>2, <4>1 DEF ReplyType
        <4> QED
          BY <1>1, <1>2, <4>1, <4>2 DEF ReplyType, Entries
      <3> QED
        BY <2>1, <3>1, <3>2
    <2>7. QueueType'
      BY <1>1, <1>2, <2>2 DEF QueueType
    <2>8. Requests'
      BY <1>1, <1>2, <2>2 DEF Requests
    <2> QED
      BY <1>4, <2>6, <2>7, <2>8 DEF PipeInv
  <1> QED
    BY <1>5, <1>6

(* RtcServer drops a message or passes it on to the worker of its name     *)
LEMMA RsMsgPipe ==
  ASSUME PipeInv, RsMsg
  PROVE  PipeInv'
  <1> DEFINE r == Head(queue["rs"])
             v == Hash[name[r]]
  <1>1. /\ ThreadType /\ QueueType /\ ConnType /\ ReplyType /\ ReqType
        /\ Threads /\ Descriptors /\ Waiting /\ Entries /\ Requests
    BY DEF PipeInv
  <1>2. UNCHANGED <<main, qconn, nextw, conns, cur, st, wk, fd, addr, cmd, name, replies, got,
                    before>>
    BY DEF RsMsg, connVars
  <1>3. pipe' \in [Thread -> Seq(Token)] /\ pc["rs"] = "run" /\ "rs" \in Thread
    BY <1>1, ThreadFacts, ReceivedFacts DEF RsMsg
  <1>4. ConnType' /\ ReplyType' /\ Descriptors' /\ Waiting' /\ Entries'
    BY <1>1, <1>2 DEF ConnType, ReplyType, Descriptors, Waiting, Entries
  <1>5. \/ queue["rs"] = << >> /\ UNCHANGED <<pc, dest, queue, fate>>
        \/ /\ queue["rs"] # << >>
           /\ queue' = [queue EXCEPT !["rs"] = Tail(@)]
           /\ fate' = [fate EXCEPT ![r] = "dropped"] /\ UNCHANGED <<pc, dest>>
        \/ /\ queue["rs"] # << >>
           /\ queue' = [queue EXCEPT !["rs"] = Tail(@), ![v] = Append(@, r)]
           /\ pc' = [pc EXCEPT !["rs"] = "notify"] /\ dest' = [dest EXCEPT !["rs"] = v]
           /\ UNCHANGED fate
    BY DEF RsMsg, GetWorker, Sending
  <1>6. CASE queue["rs"] = << >> /\ UNCHANGED <<pc, dest, queue, fate>>
    BY <1>1, <1>2, <1>3, <1>4, <1>6
    DEF PipeInv, ThreadType, QueueType, ReqType, Threads, Requests
  <1>7. CASE queue["rs"] # << >>
    <2>1. /\ r \in Client /\ 1 \in DOMAIN queue["rs"] /\ r = queue["rs"][1]
          /\ queue' = [queue EXCEPT !["rs"] = Tail(@)] =>
              /\ queue' \in [Thread -> Seq(Client)]
              /\ \A u \in Thread : \A i \in DOMAIN queue'[u] :
                   \E z \in Thread : \E j \in DOMAIN queue[z] : queue'[u][i] = queue[z][j]
          /\ \A d \in Thread :
              d # "rs" /\ queue' = [queue EXCEPT !["rs"] = Tail(@), ![d] = Append(@, r)] =>
                /\ queue' \in [Thread -> Seq(Client)]
                /\ \A u \in Thread : \A i \in DOMAIN queue'[u] :
                     \E z \in Thread : \E j \in DOMAIN queue[z] : queue'[u][i] = queue[z][j]
      BY <1>1, <1>3, <1>7, Dequeued
    <2> HIDE DEF r
    <2>2. cmd[r] \in Cmd /\ fate[r] # "none" /\ name[r] \in Name
      BY <1>1, <1>3, <2>1 DEF Requests
    <2>3. v \in RW /\ v \in Thread /\ v # "rs"
      BY <2>2, ThreadFacts
    <2> HIDE DEF v
    <2>4. /\ queue' \in [Thread -> Seq(Client)]
          /\ \A u \in Thread : \A i \in DOMAIN queue'[u] :
               \E z \in Thread : \E j \in DOMAIN queue[z] : queue'[u][i] = queue[z][j]
      BY <1>5, <1>7, <2>1, <2>3
    <2>5. QueueType'
      BY <1>1, <1>2, <2>4 DEF QueueType
    <2>6. ThreadType' /\ Threads' /\ \A w \in SW : pc'[w] = pc[w]
      <3>1. CASE UNCHANGED <<pc, dest>>
        BY <1>1, <1>2, <1>3, <3>1 DEF ThreadType, Threads
      <3>2. CASE pc' = [pc EXCEPT !["rs"] = "notify"] /\ dest' = [dest EXCEPT !["rs"] = v]
        BY <1>1, <1>2, <1>3, <2>3, <3>2, ThreadFacts DEF ThreadType, Threads
      <3> QED
        BY <1>5, <1>7, <3>1, <3>2
    <2>7. ReqType' /\ \A x \in Client : fate'[x] # "none" <=> fate[x] # "none"
      BY <1>1, <1>2, <1>5, <1>7, <2>1, <2>2 DEF ReqType
    <2>8. Requests'
      BY <1>1, <1>2, <2>4, <2>6, <2>7 DEF Requests
    <2> QED
      BY <1>4, <2>5, <2>6, <2>7, <2>8 DEF PipeInv
  <1> QED
    BY <1>5, <1>6, <1>7

(* An RtcWorker handles a message and passes an offer back to the          *)
(* SignalingWorker it came from                                            *)
LEMMA RwMsgPipe ==
  ASSUME PipeInv, NEW v \in RW, RwMsg(v)
  PROVE  PipeInv'
  <1> DEFINE r == Head(queue[v])
             w == wk[r]
  <1>1. /\ ThreadType /\ QueueType /\ ConnType /\ ReplyType /\ ReqType
        /\ Threads /\ Descriptors /\ Waiting /\ Entries /\ Requests
    BY DEF PipeInv
  <1>2. UNCHANGED <<main, qconn, nextw, conns, cur, st, wk, fd, addr, cmd, name, replies, got,
                    before>>
    BY DEF RwMsg, connVars
  <1>3. pipe' \in [Thread -> Seq(Token)] /\ pc[v] = "run" /\ v \in Thread
    BY <1>1, ThreadFacts, ReceivedFacts DEF RwMsg
  <1>4. ConnType' /\ ReplyType' /\ Descriptors' /\ Waiting' /\ Entries'
    BY <1>1, <1>2 DEF ConnType, ReplyType, Descriptors, Waiting, Entries
  <1>5. \/ queue[v] = << >> /\ UNCHANGED <<pc, dest, queue, fate>>
        \/ /\ queue[v] # << >> /\ fate' = [fate EXCEPT ![r] = "handled"]
           /\ queue' = [queue EXCEPT ![v] = Tail(@)] /\ UNCHANGED <<pc, dest>>
        \/ /\ queue[v] # << >> /\ fate' = [fate EXCEPT ![r] = "handled"]
           /\ queue' = [queue EXCEPT ![v] = Tail(@), ![w] = Append(@, r)]
           /\ pc' = [pc EXCEPT ![v] = "notify"] /\ dest' = [dest EXCEPT ![v] = w]
    BY DEF RwMsg, Sending
  <1>6. CASE queue[v] = << >> /\ UNCHANGED <<pc, dest, queue, fate>>
    BY <1>1, <1>2, <1>3, <1>4, <1>6
    DEF PipeInv, ThreadType, QueueType, ReqType, Threads, Requests
  <1>7. CASE queue[v] # << >>
    <2>1. /\ r \in Client /\ 1 \in DOMAIN queue[v] /\ r = queue[v][1]
          /\ queue' = [queue EXCEPT ![v] = Tail(@)] =>
              /\ queue' \in [Thread -> Seq(Client)]
              /\ \A u \in Thread : \A i \in DOMAIN queue'[u] :
                   \E z \in Thread : \E j \in DOMAIN queue[z] : queue'[u][i] = queue[z][j]
          /\ \A d \in Thread :
              d # v /\ queue' = [queue EXCEPT ![v] = Tail(@), ![d] = Append(@, r)] =>
                /\ queue' \in [Thread -> Seq(Client)]
                /\ \A u \in Thread : \A i \in DOMAIN queue'[u] :
                     \E z \in Thread : \E j \in DOMAIN queue[z] : queue'[u][i] = queue[z][j]
      BY <1>1, <1>3, <1>7, Dequeued
    <2> HIDE DEF r
    <2>2. cmd[r] \in Cmd /\ fate[r] # "none"
      BY <1>1, <1>3, <2>1 DEF Requests
    <2>3. w \in SW /\ w \in Thread /\ w # v
      <3>1. st[r] # "new"
        BY <1>1, <2>1, <2>2 DEF Requests, Cmd
      <3>2. w \in SW
        BY <1>1, <2>1, <3>1 DEF Descriptors
      <3> QED
        BY <3>2, ThreadFacts
    <2> HIDE DEF w
    <2>4. /\ queue' \in [Thread -> Seq(Client)]
          /\ \A u \in Thread : \A i \in DOMAIN queue'[u] :
               \E z \in Thread : \E j \in DOMAIN queue[z] : queue'[u][i] = queue[z][j]
      BY <1>5, <1>7, <2>1, <2>3
    <2>5. QueueType'
      BY <1>1, <1>2, <2>4 DEF QueueType
    <2>6. ThreadType' /\ Threads' /\ \A x \in SW : pc'[x] = pc[x]
      <3>1. CASE UNCHANGED <<pc, dest>>
        BY <1>1, <1>2, <1>3, <3>1 DEF ThreadType, Threads
      <3>2. CASE pc' = [pc EXCEPT ![v] = "notify"] /\ dest' = [dest EXCEPT ![v] = w]
        BY <1>1, <1>2, <1>3, <2>3, <3>2, ThreadFacts DEF ThreadType, Threads
      <3> QED
        BY <1>5, <1>7, <3>1, <3>2
    <2>7. ReqType' /\ \A x \in Client : fate'[x] # "none" <=> fate[x] # "none"
      BY <1>1, <1>2, <1>5, <1>7, <2>1, <2>2 DEF ReqType
    <2>8. Requests'
      BY <1>1, <1>2, <2>4, <2>6, <2>7 DEF Requests
    <2> QED
      BY <1>4, <2>5, <2>6, <2>7, <2>8 DEF PipeInv
  <1> QED
    BY <1>5, <1>6, <1>7

(* The steps of a shutdown move a server or worker along and touch nothing *)
(* else than its pipe or that of the one it stops                          *)
LEMMA StopPipe ==
  ASSUME PipeInv, NEW t \in Thread, NEW p \in {"stop", "join", "done"}, NEW d \in Thread \cup {None},
         pc[t] # "notify",
         pc' = [pc EXCEPT ![t] = p], dest' = [dest EXCEPT ![t] = d],
         t \in SW \cup RW => p = "done",
         t = "ss" /\ p # "done" => d \in SW,
         t = "rs" /\ p # "done" => d \in RW,
         pipe' \in [Thread -> Seq(Token)],
         UNCHANGED <<main, queue, qconn, nextw, conns, cur, st, wk, fd, addr, cmd, name,
                     replies, got, fate, before>>
  PROVE  PipeInv'
  <1>1. /\ ThreadType /\ QueueType /\ ConnType /\ ReplyType /\ ReqType
        /\ Threads /\ Descriptors /\ Waiting /\ Entries /\ Requests
    BY DEF PipeInv
  <1>2. ThreadType'
    BY <1>1 DEF ThreadType
  <1>3. /\ QueueType' /\ ConnType' /\ ReplyType' /\ ReqType'
        /\ Descriptors' /\ Waiting' /\ Entries'
    BY <1>1 DEF QueueType, ConnType, ReplyType, ReqType, Descriptors, Waiting, Entries
  <1>4. /\ pc'[t] = p /\ dest'[t] = d
        /\ \A u \in Thread : u # t => pc'[u] = pc[u] /\ dest'[u] = dest[u]
    BY <1>1 DEF ThreadType
  <1>5. Threads'
    BY <1>1, <1>4, ThreadFacts DEF Threads, Thread
  <1>6. Requests'
    BY <1>1, <1>4, ThreadFacts DEF Requests
  <1> QED
    BY <1>2, <1>3, <1>5, <1>6 DEF PipeInv

(* A worker ends                                                           *)
LEMMA StopWorkerPipe ==
  ASSUME PipeInv, NEW t \in Thread, StopWorker(t)
  PROVE  PipeInv'
  <1>1. ThreadType
    BY DEF PipeInv
  <1>2. pipe' \in [Thread -> Seq(Token)] /\ pc[t] = "run"
    BY <1>1, ReceivedFacts DEF StopWorker
  <1>3. /\ pc' = [pc EXCEPT ![t] = "done"] /\ t \in SW \cup RW /\ dest' = dest
        /\ UNCHANGED <<main, queue, qconn, nextw, conns, cur, st, wk, fd, addr, cmd, name,
                       replies, got, fate, before>>
    BY DEF StopWorker, connVars, reqVars
  <1>4. dest' = [dest EXCEPT ![t] = dest[t]] /\ dest[t] \in Thread \cup {None}
    BY <1>1, <1>3 DEF ThreadType
  <1> QED
    BY <1>2, <1>3, <1>4, StopPipe, ThreadFacts

(* A server closes its pipe and turns to its first worker                  *)
LEMMA StopServerPipe ==
  ASSUME PipeInv, NEW t \in Thread, StopServer(t)
  PROVE  PipeInv'
  <1> DEFINE d == Workers(t)[1]
  <1>1. ThreadType
    BY DEF PipeInv
  <1>2. pipe' \in [Thread -> Seq(Token)] /\ pc[t] = "run"
    BY <1>1, ReceivedFacts DEF StopServer
  <1>3. /\ pc' = [pc EXCEPT ![t] = "stop"] /\ t \in {"ss", "rs"}
        /\ dest' = [dest EXCEPT ![t] = d]
        /\ UNCHANGED <<main, queue, qconn, nextw, conns, cur, st, wk, fd, addr, cmd, name,
                       replies, got, fate, before>>
    BY DEF StopServer, connVars, reqVars
  <1>4. d \in Thread /\ (t = "ss" => d \in SW) /\ (t = "rs" => d \in RW)
    <2>1. CASE t = "ss"
      <3>1. d = SWs[1]
        BY <2>1 DEF Workers
      <3>2. SWs[1] \in SW
        BY ThreadFacts
      <3> QED
        BY <2>1, <3>1, <3>2, ThreadFacts
    <2>2. CASE t = "rs"
      <3>1. d = RWs[1]
        BY <2>2 DEF Workers
      <3>2. RWs[1] \in RW
        BY ThreadFacts
      <3> QED
        BY <2>2, <3>1, <3>2, ThreadFacts
    <2> QED
      BY <1>3, <2>1, <2>2
  <1> HIDE DEF d
  <1> QED
    BY <1>2, <1>3, <1>4, StopPipe, ThreadFacts

(* A server writes QUIT to the worker it turned to                         *)
LEMMA QuitWorkerPipe ==
  ASSUME PipeInv, NEW t \in Thread, QuitWorker(t)
  PROVE  PipeInv'
  <1>1. ThreadType /\ Threads
    BY DEF PipeInv
  <1>2. /\ pc' = [pc EXCEPT ![t] = "join"] /\ pc[t] = "stop" /\ dest' = dest
        /\ UNCHANGED <<main, queue, qconn, nextw, conns, cur, st, wk, fd, addr, cmd, name,
                       replies, got, fate, before>>
    BY DEF QuitWorker, connVars, reqVars
  <1>3. t \notin SW \cup RW /\ dest[t] \in Thread /\ (t = "ss" => dest[t] \in SW)
        /\ (t = "rs" => dest[t] \in RW)
    BY <1>1, <1>2, ThreadFacts DEF Threads, Thread
  <1>4. pipe' \in [Thread -> Seq(Token)]
    BY <1>1, <1>3, WriteFacts DEF QuitWorker, Token
  <1>5. dest' = [dest EXCEPT ![t] = dest[t]]
    BY <1>1, <1>2 DEF ThreadType
  <1> QED
    BY <1>2, <1>3, <1>4, <1>5, StopPipe

(* A server turns to its next worker, or is done after the last            *)
LEMMA JoinWorkerPipe ==
  ASSUME PipeInv, NEW t \in Thread, JoinWorker(t)
  PROVE  PipeInv'
  <1> DEFINE ws == Workers(t)
  <1>1. ThreadType /\ Threads
    BY DEF PipeInv
  <1>2. /\ pc[t] = "join"
        /\ UNCHANGED <<main, pipe, queue, qconn, nextw, conns, cur, st, wk, fd, addr, cmd, name,
                       replies, got, fate, before>>
    BY DEF JoinWorker, connVars, reqVars
  <1>3. t \in {"ss", "rs"}
    BY <1>1, <1>2, ThreadFacts DEF Threads, Thread
  <1>4. PICK i \in 1..Len(ws) :
           /\ pc' = [pc EXCEPT ![t] = IF i < Len(ws) THEN "stop" ELSE "done"]
           /\ dest' = [dest EXCEPT ![t] = IF i < Len(ws) THEN ws[i + 1] ELSE None]
    BY DEF JoinWorker
  <1>5. pipe' \in [Thread -> Seq(Token)]
    BY <1>1, <1>2 DEF ThreadType
  <1>6. CASE i < Len(ws)
    <2> DEFINE d == ws[i + 1]
    <2>1. d \in Thread /\ (t = "ss" => d \in SW) /\ (t = "rs" => d \in RW)
      <3>1. CASE t = "ss"
        <4>1. ws = SWs
          BY <3>1 DEF Workers
        <4>2. i + 1 \in 1 .. Len(SWs)
          BY <1>4, <1>6, <4>1, ThreadFacts
        <4>3. d = SWs[i + 1]
          BY <4>1
        <4> QED
          BY <3>1, <4>2, <4>3, ThreadFacts
      <3>2. CASE t = "rs"
        <4>1. ws = RWs
          BY <3>2 DEF Workers
        <4>2. i + 1 \in 1 .. Len(RWs)
          BY <1>4, <1>6, <4>1, ThreadFacts
        <4>3. d = RWs[i + 1]
          BY <4>1
        <4> QED
          BY <3>2, <4>2, <4>3, ThreadFacts
      <3> QED
        BY <1>3, <3>1, <3>2
    <2>2. pc' = [pc EXCEPT ![t] = "stop"] /\ dest' = [dest EXCEPT ![t] = d]
      BY <1>4, <1>6
    <2> HIDE DEF d
    <2> QED
      BY <1>2, <1>3, <1>5, <2>1, <2>2, StopPipe, ThreadFacts
  <1>7. CASE ~(i < Len(ws))
    <2>1. pc' = [pc EXCEPT ![t] = "done"] /\ dest' = [dest EXCEPT ![t] = None]
      BY <1>4, <1>7
    <2> QED
      BY <1>2, <1>5, <2>1, StopPipe
  <1> QED
    BY <1>6, <1>7

(* main() writes QUIT to a server                                          *)
LEMMA QuitPipe ==
  ASSUME PipeInv, Quit
  PROVE  PipeInv'
  <1>1. /\ ThreadType /\ QueueType /\ ConnType /\ ReplyType /\ ReqType
        /\ Threads /\ Descriptors /\ Waiting /\ Entries /\ Requests
    BY DEF PipeInv
  <1>2. UNCHANGED <<pc, dest, queue, qconn, nextw, conns, cur, st, wk, fd, addr, cmd, name,
                    replies, got, fate, before>>
    BY DEF Quit, connVars, reqVars
  <1>3. pipe' \in [Thread -> Seq(Token)] /\ main' \in {"quit_rs", "join_ss"}
    BY <1>1, ThreadFacts, WriteFacts DEF Quit, Token
  <1>4. ThreadType'
    BY <1>1, <1>2, <1>3 DEF ThreadType
  <1>5. /\ QueueType' /\ ConnType' /\ ReplyType' /\ ReqType'
        /\ Threads' /\ Descriptors' /\ Waiting' /\ Entries' /\ Requests'
    BY <1>1, <1>2
    DEF QueueType, ConnType, ReplyType, ReqType, Threads, Descriptors, Waiting, Entries, Requests
  <1> QED
    BY <1>4, <1>5 DEF PipeInv

(* Every step keeps PipeInv                                                *)
LEMMA NextPipe == PipeInv /\ [Next]_vars => PipeInv'
  <1> SUFFICES ASSUME PipeInv, [Next]_vars PROVE PipeInv'
    OBVIOUS
  <1>1. ASSUME NEW c \in Client, Accept(c) PROVE PipeInv'
    BY <1>1, AcceptPipe
  <1>2. ASSUME NEW w \in SW, NEW c \in Client, NEW n \in Name,
               RequestOffer(w, c, n) \/ RequestOneWay(w, c, n)
        PROVE  PipeInv'
    <2>1. PICK k \in Cmd : Submit(w, c, n, k)
      BY <1>2 DEF RequestOffer, RequestOneWay, Cmd
    <2> QED
      BY <2>1, SubmitPipe
  <1>3. ASSUME NEW w \in SW, NEW c \in Client, UnknownRequest(w, c) PROVE PipeInv'
    BY <1>3, UnknownRequestPipe
  <1>4. ASSUME NEW w \in SW, NEW c \in Client, LoseConn(w, c) PROVE PipeInv'
    BY <1>4, LoseConnPipe
  <1>5. ASSUME NEW w \in SW, NEW c \in Client, WriteError(w, c) PROVE PipeInv'
    BY <1>5, WriteErrorPipe
  <1>6. ASSUME NEW w \in SW, NEW c \in Client, WriteReply(w, c) PROVE PipeInv'
    BY <1>6, WriteReplyPipe
  <1>7. CASE Signal \/ Join \/ UNCHANGED vars
    <2>1. UNCHANGED <<pc, dest, pipe, queue, qconn, nextw, conns, cur, st, wk, fd, addr, cmd, name,
                      replies, got, fate, before>>
      BY <1>7 DEF Signal, Join, vars, threadVars, connVars, reqVars
    <2>2. ThreadType'
      BY <1>7, <2>1 DEF PipeInv, ThreadType, Signal, Join, vars
    <2>3. QueueType' /\ ConnType' /\ ReplyType' /\ ReqType'
      BY <2>1 DEF PipeInv, QueueType, ConnType, ReplyType, ReqType
    <2>4. Threads' /\ Descriptors' /\ Waiting' /\ Entries' /\ Requests'
      BY <2>1 DEF PipeInv, Threads, Descriptors, Waiting, Entries, Requests
    <2> QED
      BY <2>2, <2>3, <2>4 DEF PipeInv
  <1>8. CASE Quit
    BY <1>8, QuitPipe
  <1>9. ASSUME NEW t \in Thread, ThreadStep(t) PROVE PipeInv'
    <2>1. CASE Notify(t)
      BY <2>1, NotifyPipe
    <2>2. CASE t = "rs" /\ RsMsg
      BY <2>2, RsMsgPipe
    <2>3. CASE t \in RW /\ RwMsg(t)
      BY <2>3, RwMsgPipe
    <2>4. CASE t \in SW /\ NewConn(t)
      BY <2>4, NewConnPipe
    <2>5. CASE t \in SW /\ RequestSent(t)
      BY <2>5, RequestSentPipe
    <2>6. CASE t \in SW /\ Response(t)
      BY <2>6, ResponsePipe
    <2>7. CASE StopWorker(t)
      BY <2>7, StopWorkerPipe
    <2>8. CASE StopServer(t)
      BY <2>8, StopServerPipe
    <2>9. CASE QuitWorker(t)
      BY <2>9, QuitWorkerPipe
    <2>10. CASE JoinWorker(t)
      BY <2>10, JoinWorkerPipe
    <2> QED
      BY <1>9, <2>1, <2>2, <2>3, <2>4, <2>5, <2>6, <2>7, <2>8, <2>9, <2>10 DEF ThreadStep
  <1> QED
    BY <1>1, <1>2, <1>3, <1>4, <1>5, <1>6, <1>7, <1>8, <1>9 DEF Next, Outside

(* Types, and what the threads, descriptors, tables and requests have to   *)
(* do with each other, hold throughout, during a shutdown too              *)
THEOREM PipelineInvariant == Spec => []PipeInv
  <1> QED
    BY InitPipe, NextPipe, PTL DEF Spec

(* The entries of _conns are the open connections of the worker under      *)
(* their descriptors, no two of them at one address, and a deleted         *)
(* TcpConnection has no reply left (_new_conn, _close_conn)                *)
THEOREM TablesAgree == Spec => []TableSound
  <1>1. PipeInv => TypeOK
    BY DEF PipeInv, ThreadType, QueueType, ConnType, ReplyType, ReqType, TypeOK
  <1>2. PipeInv => TableSound
    BY <1>1 DEF PipeInv, Entries, TableSound
  <1> QED
    BY <1>2, PipelineInvariant, PTL

(* A message other than the one at the front keeps its place when the      *)
(* front is taken, and everything keeps its place at an append             *)
LEMMA AheadTail ==
  ASSUME NEW S, NEW s \in Seq(S), s # << >>, NEW x, x # Head(s)
  PROVE  /\ x \in Range(s) => x \in Range(Tail(s))
         /\ \A i \in 1 .. Len(s) - 1 : Ahead(s, i + 1, x) => Ahead(Tail(s), i, x)
  <1>1. /\ Len(s) \in Nat \ {0} /\ DOMAIN s = 1 .. Len(s) /\ Head(s) = s[1]
        /\ DOMAIN Tail(s) = 1 .. Len(s) - 1
        /\ \A i \in 1 .. Len(s) - 1 : Tail(s)[i] = s[i + 1]
    BY HeadTail
  <1>2. \A j \in 1 .. Len(s) : s[j] = x => j - 1 \in 1 .. Len(s) - 1 /\ Tail(s)[j - 1] = x
    BY <1>1
  <1>3. ASSUME x \in Range(s) PROVE x \in Range(Tail(s))
    <2>1. PICK j \in 1 .. Len(s) : s[j] = x
      BY <1>1, <1>3 DEF Range
    <2>2. j - 1 \in DOMAIN Tail(s) /\ Tail(s)[j - 1] = x
      BY <1>1, <1>2, <2>1
    <2> QED
      BY <2>2 DEF Range
  <1>4. ASSUME NEW i \in 1 .. Len(s) - 1, Ahead(s, i + 1, x) PROVE Ahead(Tail(s), i, x)
    <2>1. PICK j \in 1 .. i : s[j] = x
      BY <1>4 DEF Ahead
    <2>2. j # 1 /\ j \in 1 .. Len(s)
      BY <1>1, <1>4, <2>1
    <2>3. j - 1 \in 1 .. i - 1 /\ Tail(s)[j - 1] = x
      BY <1>1, <1>2, <1>4, <2>1, <2>2
    <2> QED
      BY <2>3 DEF Ahead
  <1> QED
    BY <1>3, <1>4

(* ... at an append                                                        *)
LEMMA AheadAppend ==
  ASSUME NEW S, NEW s \in Seq(S), NEW e \in S
  PROVE  /\ \A x \in Range(s) : x \in Range(Append(s, e)) /\ Ahead(Append(s, e), Len(s) + 1, x)
         /\ e \in Range(Append(s, e))
         /\ \A i \in 1 .. Len(s) : \A x : Ahead(s, i, x) => Ahead(Append(s, e), i, x)
  <1>1. /\ Len(s) \in Nat /\ DOMAIN s = 1 .. Len(s)
        /\ DOMAIN Append(s, e) = 1 .. Len(s) + 1
        /\ \A i \in 1 .. Len(s) : Append(s, e)[i] = s[i]
        /\ Append(s, e)[Len(s) + 1] = e
    BY Appended
  <1>2. ASSUME NEW x \in Range(s)
        PROVE  x \in Range(Append(s, e)) /\ Ahead(Append(s, e), Len(s) + 1, x)
    <2>1. PICK j \in 1 .. Len(s) : s[j] = x
      BY <1>1 DEF Range
    <2>2. Append(s, e)[j] = x /\ j \in 1 .. Len(s) + 1 /\ j \in 1 .. (Len(s) + 1) - 1
      BY <1>1, <2>1
    <2> QED
      BY <1>1, <2>2 DEF Range, Ahead
  <1>3. e \in Range(Append(s, e))
    BY <1>1 DEF Range
  <1>4. ASSUME NEW i \in 1 .. Len(s), NEW x, Ahead(s, i, x) PROVE Ahead(Append(s, e), i, x)
    BY <1>1, <1>4 DEF Ahead
  <1> QED
    BY <1>2, <1>3, <1>4

(* Steps that neither send nor handle a request keep the order             *)
LEMMA OrderFrame ==
  ASSUME Routed, NameOrder, PipeInv, UNCHANGED <<fate, name, before>>,
         queue'["rs"] = queue["rs"], \A v \in RW : queue'[v] = queue[v]
  PROVE  Routed' /\ NameOrder'
  <1>1. NameOrder'
    BY DEF NameOrder
  <1>2. \A c \in Client : fate[c] # "none" => Hash[name[c]] \in RW
    BY ThreadFacts DEF PipeInv, Requests
  <1>3. \A c \in Client : \A b \in before'[c] : fate'[b] # "none" /\ name'[b] = name'[c]
    BY DEF Routed
  <1>4. \A c \in Client : fate'[c] = "queued" =>
           c \in Range(queue'["rs"]) \/ c \in Range(queue'[Hash[name'[c]]])
    BY <1>2 DEF Routed
  <1>5. \A i \in DOMAIN queue["rs"] : before[queue["rs"][i]] \subseteq Client
    BY ThreadFacts DEF PipeInv, QueueType, ReqType
  <1>6. \A i \in DOMAIN queue'["rs"] : \A b \in before'[queue'["rs"][i]] : fate'[b] = "queued" =>
          \/ Ahead(queue'["rs"], i, b)
          \/ b \in Range(queue'[Hash[name'[b]]])
    BY <1>2, <1>5 DEF Routed
  <1>7. \A v \in RW : \A i \in DOMAIN queue'[v] : \A b \in before'[queue'[v][i]] :
          fate'[b] = "queued" => Ahead(queue'[v], i, b)
    BY DEF Routed
  <1> QED
    BY <1>1, <1>3, <1>4, <1>6, <1>7 DEF Routed

(* A new request joins behind all that are queued for its name             *)
LEMMA SubmitOrder ==
  ASSUME PipeInv, Routed, NameOrder,
         NEW w \in SW, NEW c \in Client, NEW n \in Name, NEW k \in Cmd, Submit(w, c, n, k)
  PROVE  Routed' /\ NameOrder'
  <1> DEFINE s == queue["rs"]
  <1>1. /\ cmd[c] = "none" /\ name' = [name EXCEPT ![c] = n]
        /\ fate' = [fate EXCEPT ![c] = "queued"]
        /\ before' = [before EXCEPT ![c] = {x \in Client : fate[x] # "none" /\ name[x] = n}]
        /\ queue' = [queue EXCEPT !["rs"] = Append(@, c)]
    BY DEF Submit
  <1>2. /\ QueueType /\ ReqType /\ Requests
        /\ s \in Seq(Client) /\ s \in Seq(Client)
    BY ThreadFacts DEF PipeInv, QueueType
  <1>3. fate[c] = "none"
    BY <1>1, <1>2 DEF Requests, Cmd
  <1>4. /\ name'[c] = n /\ fate'[c] = "queued"
        /\ before'[c] = {x \in Client : fate[x] # "none" /\ name[x] = n}
        /\ \A x \in Client : x # c =>
             name'[x] = name[x] /\ fate'[x] = fate[x] /\ before'[x] = before[x]
        /\ \A x \in Client : before[x] \subseteq Client /\ before'[x] \subseteq Client
    BY <1>1, <1>2 DEF ReqType
  <1>5. /\ queue'["rs"] = Append(s, c) /\ Len(s) \in Nat /\ DOMAIN s = 1 .. Len(s)
        /\ DOMAIN Append(s, c) = 1 .. Len(s) + 1
        /\ \A i \in 1 .. Len(s) : Append(s, c)[i] = s[i]
        /\ Append(s, c)[Len(s) + 1] = c
        /\ \A v \in RW : queue'[v] = queue[v]
    BY <1>1, <1>2, Appended, ThreadFacts DEF QueueType
  <1>6. \A x \in Client : \A b \in before'[x] : b # c /\ b \in Client /\ fate'[b] = fate[b]
                                                /\ name'[b] = name[b]
    BY <1>3, <1>4 DEF Routed
  <1>7. \A x \in Client : fate[x] # "none" => Hash[name[x]] \in RW
    BY <1>2, ThreadFacts DEF Requests
  <1>8. /\ \A x \in Range(s) : x \in Range(Append(s, c)) /\ Ahead(Append(s, c), Len(s) + 1, x)
        /\ c \in Range(Append(s, c))
        /\ \A i \in 1 .. Len(s) : \A x : Ahead(s, i, x) => Ahead(Append(s, c), i, x)
    BY <1>2, AheadAppend
  <1>9. \A t \in Thread : \A i \in DOMAIN queue[t] : queue[t][i] \in Client /\ queue[t][i] # c
    <2>1. \A t \in Thread : \A i \in DOMAIN queue[t] : queue[t][i] \in Client
      BY <1>2 DEF QueueType
    <2>2. \A t \in Thread : \A i \in DOMAIN queue[t] : cmd[queue[t][i]] # "none"
      BY <1>2 DEF Requests, Cmd
    <2> QED
      BY <1>1, <2>1, <2>2
  <1> HIDE DEF s
  <1>10. NameOrder'
    BY <1>4, <1>6 DEF NameOrder
  <1>11. \A x \in Client : \A b \in before'[x] : fate'[b] # "none" /\ name'[b] = name'[x]
    BY <1>4, <1>6 DEF Routed
  <1>12. \A x \in Client : fate'[x] = "queued" =>
           x \in Range(queue'["rs"]) \/ x \in Range(queue'[Hash[name'[x]]])
    <2> SUFFICES ASSUME NEW x \in Client, fate'[x] = "queued", x # c
                 PROVE  x \in Range(queue'["rs"]) \/ x \in Range(queue'[Hash[name'[x]]])
      BY <1>5, <1>8
    <2>1. x \in Range(s) \/ x \in Range(queue[Hash[name[x]]])
      BY <1>4 DEF Routed, s
    <2> QED
      BY <1>4, <1>5, <1>7, <1>8, <2>1
  <1>13. ASSUME NEW i \in DOMAIN queue'["rs"], NEW b \in before'[queue'["rs"][i]], fate'[b] = "queued"
         PROVE  Ahead(queue'["rs"], i, b) \/ b \in Range(queue'[Hash[name'[b]]])
    <2>1. CASE i \in 1 .. Len(s)
      <3>1. queue'["rs"][i] = s[i] /\ s[i] \in Client /\ s[i] # c
        BY <1>5, <1>9, <2>1, ThreadFacts DEF s
      <3>2. b \in before[s[i]] /\ fate[b] = "queued" /\ name'[b] = name[b] /\ b \in Client
        BY <1>4, <1>6, <1>13, <3>1
      <3>3. Ahead(s, i, b) \/ b \in Range(queue[Hash[name[b]]])
        BY <1>5, <2>1, <3>2 DEF Routed, s
      <3> QED
        BY <1>5, <1>7, <1>8, <2>1, <3>2, <3>3
    <2>2. CASE i = Len(s) + 1
      <3>1. b \in before'[c]
        BY <1>5, <1>13, <2>2
      <3>2. fate[b] = "queued" /\ name'[b] = name[b] /\ b \in Client
        BY <1>6, <1>13, <3>1
      <3>3. b \in Range(s) \/ b \in Range(queue[Hash[name[b]]])
        BY <3>2 DEF Routed, s
      <3> QED
        BY <1>5, <1>7, <1>8, <2>2, <3>2, <3>3
    <2> QED
      BY <1>5, <1>13, <2>1, <2>2
  <1>14. ASSUME NEW v \in RW, NEW i \in DOMAIN queue'[v], NEW b \in before'[queue'[v][i]],
                fate'[b] = "queued"
         PROVE  Ahead(queue'[v], i, b)
    <2>1. queue'[v] = queue[v] /\ queue[v][i] \in Client /\ queue[v][i] # c
      BY <1>5, <1>9, ThreadFacts
    <2>2. b \in before[queue[v][i]] /\ fate[b] = "queued"
      BY <1>4, <1>6, <1>14, <2>1
    <2> QED
      BY <2>1, <2>2 DEF Routed
  <1> QED
    BY <1>10, <1>11, <1>12, <1>13, <1>14 DEF Routed

(* The first message of RtcServer joins the queue its name sends it to,    *)
(* where what came before it already is                                    *)
LEMMA RsMsgOrder ==
  ASSUME PipeInv, Routed, NameOrder, RsMsg
  PROVE  Routed' /\ NameOrder'
  <1> DEFINE s == queue["rs"]
             r == Head(queue["rs"])
             v == Hash[name[r]]
  <1>1. \/ queue["rs"] = << >> /\ UNCHANGED <<queue, fate>>
        \/ /\ queue["rs"] # << >>
           /\ queue' = [queue EXCEPT !["rs"] = Tail(@)]
           /\ fate' = [fate EXCEPT ![r] = "dropped"]
        \/ /\ queue["rs"] # << >>
           /\ queue' = [queue EXCEPT !["rs"] = Tail(@), ![v] = Append(@, r)]
           /\ UNCHANGED fate
    BY DEF RsMsg, GetWorker
  <1>2. UNCHANGED <<name, before>>
    BY DEF RsMsg
  <1>3. CASE queue["rs"] = << >> /\ UNCHANGED <<queue, fate>>
    BY <1>2, <1>3, OrderFrame
  <1>4. CASE queue["rs"] # << >>
    <2>1. QueueType /\ ReqType /\ Requests /\ s \in Seq(Client) /\ s # << >>
      BY <1>4, ThreadFacts DEF PipeInv, QueueType
    <2>2. /\ Len(s) \in Nat \ {0} /\ DOMAIN s = 1 .. Len(s) /\ r \in Client /\ r = s[1]
          /\ DOMAIN Tail(s) = 1 .. Len(s) - 1
          /\ \A i \in 1 .. Len(s) - 1 : Tail(s)[i] = s[i + 1]
      BY <2>1, HeadTail
    <2>3. \A x : x # r =>
             /\ x \in Range(s) => x \in Range(Tail(s))
             /\ \A i \in 1 .. Len(s) - 1 : Ahead(s, i + 1, x) => Ahead(Tail(s), i, x)
      BY <2>1, AheadTail
    <2> HIDE DEF r
    <2>4. fate[r] # "none" /\ name[r] \in Name
      <3>1. cmd[s[1]] \in Cmd
        BY <2>1, <2>2, ThreadFacts DEF Requests
      <3> QED
        BY <2>1, <2>2, <3>1 DEF Requests
    <2>5. \A x \in Client : fate[x] # "none" => Hash[name[x]] \in RW /\ Hash[name[x]] # "rs"
      BY <2>1, ThreadFacts DEF Requests
    <2>6. \A x \in Client : before[x] \subseteq Client
      BY <2>1 DEF ReqType
    <2>7. \A t \in Thread : \A i \in DOMAIN queue[t] : queue[t][i] \in Client
      BY <2>1 DEF QueueType
    <2>8. \A x \in Client : \A b \in before[x] : fate[b] # "none" /\ name[b] = name[x]
      BY DEF Routed
    <2>9. \A x \in Client : fate[x] = "queued" => x \in Range(s) \/ x \in Range(queue[Hash[name[x]]])
      BY DEF Routed
    <2>10. \A i \in DOMAIN s : \A b \in before[s[i]] : fate[b] = "queued" =>
             Ahead(s, i, b) \/ b \in Range(queue[Hash[name[b]]])
      BY DEF Routed
    <2>11. \A u \in RW : \A i \in DOMAIN queue[u] : \A b \in before[queue[u][i]] :
             fate[b] = "queued" => Ahead(queue[u], i, b)
      BY DEF Routed
    <2>12. "rs" \in Thread /\ RW \subseteq Thread /\ v \in RW /\ v # "rs"
      BY <2>2, <2>4, <2>5, ThreadFacts
    <2>13. CASE /\ queue' = [queue EXCEPT !["rs"] = Tail(@)]
                /\ fate' = [fate EXCEPT ![r] = "dropped"]
      <3>1. queue'["rs"] = Tail(s) /\ \A u \in RW : queue'[u] = queue[u]
        BY <2>1, <2>12, <2>13, ThreadFacts DEF QueueType
      <3>2. fate'[r] = "dropped" /\ \A x \in Client : x # r => fate'[x] = fate[x]
        BY <2>1, <2>2, <2>13 DEF ReqType
      <3> HIDE DEF s, v
      <3>3. NameOrder'
        BY <1>2, <2>6, <3>2 DEF NameOrder
      <3>4. \A x \in Client : \A b \in before'[x] : fate'[b] # "none" /\ name'[b] = name'[x]
        BY <1>2, <2>6, <2>8, <3>2
      <3>5. \A x \in Client : fate'[x] = "queued" =>
               x \in Range(queue'["rs"]) \/ x \in Range(queue'[Hash[name'[x]]])
        BY <1>2, <2>3, <2>5, <2>9, <3>1, <3>2
      <3>6. ASSUME NEW i \in DOMAIN queue'["rs"], NEW b \in before'[queue'["rs"][i]],
                   fate'[b] = "queued"
            PROVE  Ahead(queue'["rs"], i, b) \/ b \in Range(queue'[Hash[name'[b]]])
        <4>1. i \in 1 .. Len(s) - 1 /\ i + 1 \in DOMAIN s /\ queue'["rs"][i] = s[i + 1]
          BY <2>2, <3>1, <3>6
        <4>2. s[i + 1] \in Client
          BY <2>7, <2>12, <4>1 DEF s
        <4>3. b \in before[s[i + 1]] /\ b \in Client /\ b # r /\ fate[b] = "queued"
          BY <1>2, <2>6, <3>2, <3>6, <4>1, <4>2
        <4> QED
          BY <1>2, <2>3, <2>5, <2>10, <3>1, <4>1, <4>3
      <3>7. ASSUME NEW u \in RW, NEW i \in DOMAIN queue'[u], NEW b \in before'[queue'[u][i]],
                   fate'[b] = "queued"
            PROVE  Ahead(queue'[u], i, b)
        <4>1. queue'[u] = queue[u] /\ queue[u][i] \in Client
          BY <2>7, <2>12, <3>1
        <4>2. b \in before[queue[u][i]] /\ b \in Client /\ fate[b] = "queued"
          BY <1>2, <2>6, <3>2, <3>7, <4>1
        <4> QED
          BY <2>11, <4>1, <4>2
      <3> QED
        BY <3>3, <3>4, <3>5, <3>6, <3>7 DEF Routed
    <2>14. CASE /\ queue' = [queue EXCEPT !["rs"] = Tail(@), ![v] = Append(@, r)]
                /\ UNCHANGED fate
      <3> DEFINE q == queue[v]
      <3>1. /\ queue'["rs"] = Tail(s) /\ queue'[v] = Append(q, r)
            /\ \A u \in RW : u # v => queue'[u] = queue[u]
        BY <2>1, <2>12, <2>14, ThreadFacts DEF QueueType
      <3>2. /\ q \in Seq(Client) /\ Len(q) \in Nat /\ DOMAIN q = 1 .. Len(q)
            /\ DOMAIN Append(q, r) = 1 .. Len(q) + 1
            /\ \A i \in 1 .. Len(q) : Append(q, r)[i] = q[i]
            /\ Append(q, r)[Len(q) + 1] = r
        BY <2>1, <2>2, <2>12, Appended DEF QueueType
      <3>3. /\ \A x \in Range(q) : x \in Range(Append(q, r)) /\ Ahead(Append(q, r), Len(q) + 1, x)
            /\ r \in Range(Append(q, r))
            /\ \A i \in 1 .. Len(q) : \A x : Ahead(q, i, x) => Ahead(Append(q, r), i, x)
        BY <2>2, <3>2, AheadAppend
      <3>4. \A u \in RW : \A x \in Range(queue[u]) : x \in Range(queue'[u])
        BY <3>1, <3>3
      <3>5. r \in Range(queue'[Hash[name[r]]])
        BY <3>1, <3>3
      <3>6. \A b \in before[r] : fate[b] = "queued" => b \in Range(q)
        <4> SUFFICES ASSUME NEW b \in before[r], fate[b] = "queued" PROVE b \in Range(q)
          OBVIOUS
        <4>1. 1 \in DOMAIN s /\ b \in before[s[1]]
          BY <2>2
        <4>2. Ahead(s, 1, b) \/ b \in Range(queue[Hash[name[b]]])
          BY <2>10, <4>1
        <4>3. ~ Ahead(s, 1, b)
          BY DEF Ahead
        <4>4. name[b] = name[r]
          BY <2>2, <2>8
        <4> QED
          BY <4>2, <4>3, <4>4
      <3> HIDE DEF s, q
      <3>7. NameOrder'
        BY <1>2, <2>14 DEF NameOrder
      <3>8. \A x \in Client : \A b \in before'[x] : fate'[b] # "none" /\ name'[b] = name'[x]
        BY <1>2, <2>8, <2>14
      <3>9. \A x \in Client : fate'[x] = "queued" =>
               x \in Range(queue'["rs"]) \/ x \in Range(queue'[Hash[name'[x]]])
        <4> SUFFICES ASSUME NEW x \in Client, fate[x] = "queued"
                     PROVE  x \in Range(queue'["rs"]) \/ x \in Range(queue'[Hash[name[x]]])
          BY <1>2, <2>14
        <4>1. CASE x = r
          BY <3>5, <4>1
        <4>2. CASE x # r
          BY <2>3, <2>5, <2>9, <3>1, <3>4, <4>2
        <4> QED
          BY <4>1, <4>2
      <3>10. ASSUME NEW i \in DOMAIN queue'["rs"], NEW b \in before'[queue'["rs"][i]],
                    fate'[b] = "queued"
             PROVE  Ahead(queue'["rs"], i, b) \/ b \in Range(queue'[Hash[name'[b]]])
        <4>1. i \in 1 .. Len(s) - 1 /\ i + 1 \in DOMAIN s /\ queue'["rs"][i] = s[i + 1]
          BY <2>2, <3>1, <3>10
        <4>2. s[i + 1] \in Client
          BY <2>7, <2>12, <4>1 DEF s
        <4>3. b \in before[s[i + 1]] /\ b \in Client /\ fate[b] = "queued"
          BY <1>2, <2>6, <2>14, <3>10, <4>1, <4>2
        <4>4. CASE b = r
          BY <1>2, <3>5, <4>4
        <4>5. CASE b # r
          BY <1>2, <2>3, <2>5, <2>10, <3>1, <3>4, <4>1, <4>3, <4>5
        <4> QED
          BY <4>4, <4>5
      <3>11. ASSUME NEW u \in RW, NEW i \in DOMAIN queue'[u], NEW b \in before'[queue'[u][i]],
                    fate'[b] = "queued"
             PROVE  Ahead(queue'[u], i, b)
        <4>1. CASE u # v
          <5>1. queue'[u] = queue[u]
            BY <3>1, <4>1
          <5> QED
            BY <1>2, <2>11, <2>14, <3>11, <5>1
        <4>2. CASE u = v /\ i \in 1 .. Len(q)
          <5>1. queue'[u][i] = q[i] /\ i \in DOMAIN q
            BY <3>1, <3>2, <4>2
          <5>2. Ahead(q, i, b)
            BY <1>2, <2>11, <2>14, <3>11, <4>2, <5>1 DEF q
          <5> QED
            BY <3>1, <3>3, <4>2, <5>2
        <4>3. CASE u = v /\ i = Len(q) + 1
          <5>1. queue'[u][i] = r
            BY <3>1, <3>2, <4>3
          <5>2. b \in Range(q)
            BY <1>2, <2>14, <3>6, <3>11, <5>1
          <5> QED
            BY <3>1, <3>3, <4>3, <5>2
        <4> QED
          BY <3>1, <3>2, <3>11, <4>1, <4>2, <4>3
      <3> QED
        BY <3>7, <3>8, <3>9, <3>10, <3>11 DEF Routed
    <2> QED
      BY <1>1, <1>4, <2>13, <2>14
  <1> QED
    BY <1>1, <1>3, <1>4

(* The first message of an RtcWorker has nothing queued before it          *)
LEMMA RwMsgOrder ==
  ASSUME PipeInv, Routed, NameOrder, NEW v \in RW, RwMsg(v)
  PROVE  Routed' /\ NameOrder'
  <1> DEFINE s == queue[v]
             r == Head(queue[v])
  <1>1. \/ queue[v] = << >> /\ UNCHANGED <<queue, fate>>
        \/ /\ queue[v] # << >> /\ fate' = [fate EXCEPT ![r] = "handled"]
           /\ \/ queue' = [queue EXCEPT ![v] = Tail(@)]
              \/ queue' = [queue EXCEPT ![v] = Tail(@), ![wk[r]] = Append(@, r)]
    BY DEF RwMsg
  <1>2. UNCHANGED <<name, before>>
    BY DEF RwMsg
  <1>3. CASE queue[v] = << >> /\ UNCHANGED <<queue, fate>>
    BY <1>2, <1>3, OrderFrame
  <1>4. CASE queue[v] # << >>
    <2>1. QueueType /\ ReqType /\ Requests /\ Descriptors /\ s \in Seq(Client) /\ s # << >>
      BY <1>4, ThreadFacts DEF PipeInv, QueueType
    <2>2. /\ Len(s) \in Nat \ {0} /\ DOMAIN s = 1 .. Len(s) /\ r \in Client /\ r = s[1]
          /\ DOMAIN Tail(s) = 1 .. Len(s) - 1
          /\ \A i \in 1 .. Len(s) - 1 : Tail(s)[i] = s[i + 1]
      BY <2>1, HeadTail
    <2>3. \A x : x # r =>
             /\ x \in Range(s) => x \in Range(Tail(s))
             /\ \A i \in 1 .. Len(s) - 1 : Ahead(s, i + 1, x) => Ahead(Tail(s), i, x)
      BY <2>1, AheadTail
    <2> HIDE DEF r
    <2>4. wk[r] \in SW
      <3>1. cmd[s[1]] \in Cmd
        BY <2>1, <2>2, ThreadFacts DEF Requests
      <3>2. st[r] # "new"
        BY <2>1, <2>2, <3>1 DEF Requests, Cmd
      <3> QED
        BY <2>1, <2>2, <3>2 DEF Descriptors
    <2>5. \A x \in Client : fate[x] # "none" => Hash[name[x]] \in RW
      BY <2>1, ThreadFacts DEF Requests
    <2>6. \A x \in Client : before[x] \subseteq Client
      BY <2>1 DEF ReqType
    <2>7. \A t \in Thread : \A i \in DOMAIN queue[t] : queue[t][i] \in Client
      BY <2>1 DEF QueueType
    <2>8. \A x \in Client : \A b \in before[x] : fate[b] # "none" /\ name[b] = name[x]
      BY DEF Routed
    <2>9. \A x \in Client : fate[x] = "queued" =>
             x \in Range(queue["rs"]) \/ x \in Range(queue[Hash[name[x]]])
      BY DEF Routed
    <2>10. \A i \in DOMAIN queue["rs"] : \A b \in before[queue["rs"][i]] : fate[b] = "queued" =>
             Ahead(queue["rs"], i, b) \/ b \in Range(queue[Hash[name[b]]])
      BY DEF Routed
    <2>11. \A u \in RW : \A i \in DOMAIN queue[u] : \A b \in before[queue[u][i]] :
             fate[b] = "queued" => Ahead(queue[u], i, b)
      BY DEF Routed
    <2>12. "rs" \in Thread /\ RW \subseteq Thread /\ v # "rs" /\ wk[r] # "rs" /\ wk[r] \notin RW
           /\ wk[r] \in Thread
      BY <2>4, ThreadFacts
    <2>13. /\ queue'["rs"] = queue["rs"] /\ queue'[v] = Tail(s)
           /\ \A u \in RW : u # v => queue'[u] = queue[u]
      <3>1. CASE queue' = [queue EXCEPT ![v] = Tail(@)]
        BY <2>1, <2>12, <3>1 DEF QueueType
      <3>2. CASE queue' = [queue EXCEPT ![v] = Tail(@), ![wk[r]] = Append(@, r)]
        BY <2>1, <2>12, <3>2 DEF QueueType
      <3> QED
        BY <1>1, <1>4, <3>1, <3>2
    <2>14. fate'[r] = "handled" /\ \A x \in Client : x # r => fate'[x] = fate[x]
      BY <1>1, <1>4, <2>1, <2>2 DEF ReqType
    <2>15. \A b \in before[r] : fate[b] # "queued" /\ fate[b] # "none" /\ b \in Client
      <3> SUFFICES ASSUME NEW b \in before[r]
                   PROVE  fate[b] # "queued" /\ fate[b] # "none" /\ b \in Client
        OBVIOUS
      <3>1. 1 \in DOMAIN s /\ b \in before[s[1]]
        BY <2>2
      <3>2. fate[b] = "queued" => Ahead(s, 1, b)
        BY <2>11, <3>1
      <3>3. ~ Ahead(s, 1, b)
        BY DEF Ahead
      <3> QED
        BY <2>2, <2>6, <2>8, <3>2, <3>3
    <2>16. \A u \in RW : \A x \in Range(queue[u]) : x # r => x \in Range(queue'[u])
      BY <2>3, <2>13
    <2> HIDE DEF s
    <2>17. NameOrder'
      <3> SUFFICES ASSUME NEW x \in Client, fate'[x] = "handled", NEW b \in before[x]
                   PROVE  fate'[b] \in {"handled", "dropped"}
        BY <1>2 DEF NameOrder
      <3>1. b \in Client
        BY <2>6
      <3>2. CASE x = r
        <4>1. fate[b] \in {"handled", "dropped"}
          BY <2>1, <2>15, <3>1, <3>2 DEF ReqType
        <4> QED
          BY <2>14, <3>1, <4>1
      <3>3. CASE x # r
        BY <2>14, <3>1, <3>3 DEF NameOrder
      <3> QED
        BY <3>2, <3>3
    <2>18. \A x \in Client : \A b \in before'[x] : fate'[b] # "none" /\ name'[b] = name'[x]
      BY <1>2, <2>6, <2>8, <2>14
    <2>19. \A x \in Client : fate'[x] = "queued" =>
             x \in Range(queue'["rs"]) \/ x \in Range(queue'[Hash[name'[x]]])
      BY <1>2, <2>5, <2>9, <2>13, <2>14, <2>16
    <2>20. ASSUME NEW i \in DOMAIN queue'["rs"], NEW b \in before'[queue'["rs"][i]],
                  fate'[b] = "queued"
           PROVE  Ahead(queue'["rs"], i, b) \/ b \in Range(queue'[Hash[name'[b]]])
      <3>1. queue["rs"][i] \in Client /\ i \in DOMAIN queue["rs"] /\ b \in before[queue["rs"][i]]
        BY <1>2, <2>7, <2>12, <2>13, <2>20
      <3>2. b \in Client /\ b # r /\ fate[b] = "queued"
        BY <2>6, <2>14, <2>20, <3>1
      <3> QED
        BY <1>2, <2>5, <2>10, <2>13, <2>16, <3>1, <3>2
    <2>21. ASSUME NEW u \in RW, NEW i \in DOMAIN queue'[u], NEW b \in before'[queue'[u][i]],
                  fate'[b] = "queued"
           PROVE  Ahead(queue'[u], i, b)
      <3>1. CASE u # v
        <4>1. queue'[u] = queue[u] /\ queue[u][i] \in Client /\ i \in DOMAIN queue[u]
          BY <2>7, <2>12, <2>13, <2>21, <3>1
        <4>2. b \in before[queue[u][i]] /\ b \in Client /\ fate[b] = "queued"
          BY <1>2, <2>6, <2>14, <2>21, <4>1
        <4> QED
          BY <2>11, <4>1, <4>2
      <3>2. CASE u = v
        <4>1. i \in 1 .. Len(s) - 1 /\ i + 1 \in DOMAIN s /\ queue'[u][i] = s[i + 1]
          BY <2>2, <2>13, <2>21, <3>2
        <4>2. s[i + 1] \in Client
          BY <2>7, <2>12, <4>1 DEF s
        <4>3. b \in before[s[i + 1]] /\ b \in Client /\ b # r /\ fate[b] = "queued"
          BY <1>2, <2>6, <2>14, <2>21, <4>1, <4>2
        <4>4. Ahead(s, i + 1, b)
          BY <2>11, <4>1, <4>3 DEF s
        <4> QED
          BY <2>3, <2>13, <3>2, <4>1, <4>3, <4>4
      <3> QED
        BY <3>1, <3>2
    <2> QED
      BY <2>17, <2>18, <2>19, <2>20, <2>21 DEF Routed
  <1> QED
    BY <1>1, <1>3, <1>4

(* The queues of SignalingWorkers do not matter                            *)
LEMMA ResponseOrder ==
  ASSUME PipeInv, Routed, NameOrder, NEW w \in SW, Response(w)
  PROVE  Routed' /\ NameOrder'
  <1>1. UNCHANGED <<fate, name, before>>
    BY DEF Response, reqVars
  <1>2. queue' = queue \/ queue' = [queue EXCEPT ![w] = Tail(@)]
    BY DEF Response
  <1>3. queue'["rs"] = queue["rs"] /\ \A v \in RW : queue'[v] = queue[v]
    BY <1>2, ThreadFacts DEF PipeInv, QueueType
  <1> QED
    BY <1>1, <1>3, OrderFrame

(* Every step keeps the order                                              *)
LEMMA NextOrder == PipeInv /\ Routed /\ NameOrder /\ [Next]_vars => Routed' /\ NameOrder'
  <1> SUFFICES ASSUME PipeInv, Routed, NameOrder, [Next]_vars PROVE Routed' /\ NameOrder'
    OBVIOUS
  <1>1. CASE UNCHANGED <<queue, fate, name, before>>
    BY <1>1, OrderFrame
  <1>2. ASSUME NEW w \in SW, NEW c \in Client, NEW n \in Name,
               RequestOffer(w, c, n) \/ RequestOneWay(w, c, n)
        PROVE  Routed' /\ NameOrder'
    <2>1. PICK k \in Cmd : Submit(w, c, n, k)
      BY <1>2 DEF RequestOffer, RequestOneWay, Cmd
    <2> QED
      BY <2>1, SubmitOrder
  <1>3. ASSUME NEW t \in Thread, ThreadStep(t) PROVE Routed' /\ NameOrder'
    <2>1. CASE t = "rs" /\ RsMsg
      BY <2>1, RsMsgOrder
    <2>2. CASE t \in RW /\ RwMsg(t)
      BY <2>2, RwMsgOrder
    <2>3. CASE t \in SW /\ Response(t)
      BY <2>3, ResponseOrder
    <2>4. CASE t \in SW /\ (NewConn(t) \/ RequestSent(t))
      BY <1>1, <2>4 DEF NewConn, RequestSent, reqVars
    <2>5. CASE Notify(t) \/ StopWorker(t) \/ StopServer(t) \/ QuitWorker(t) \/ JoinWorker(t)
      BY <1>1, <2>5 DEF Notify, StopWorker, StopServer, QuitWorker, JoinWorker, reqVars
    <2> QED
      BY <1>3, <2>1, <2>2, <2>3, <2>4, <2>5 DEF ThreadStep
  <1>4. CASE \E c \in Client : Accept(c)
    BY <1>1, <1>4 DEF Accept, reqVars
  <1>5. ASSUME NEW w \in SW, NEW c \in Client,
               UnknownRequest(w, c) \/ LoseConn(w, c) \/ WriteError(w, c) \/ WriteReply(w, c)
        PROVE  Routed' /\ NameOrder'
    BY <1>1, <1>5 DEF UnknownRequest, LoseConn, WriteError, WriteReply, reqVars
  <1>6. CASE Signal \/ Quit \/ Join \/ UNCHANGED vars
    BY <1>1, <1>6 DEF Signal, Quit, Join, vars, reqVars
  <1> QED
    BY <1>2, <1>3, <1>4, <1>5, <1>6 DEF Next, Outside

(* Requests for one stream name reach the stream manager in the order in   *)
(* which they were pushed on RtcServer's queue, whichever workers sent     *)
(* them (_get_worker)                                                      *)
THEOREM OrderKept == Spec => []NameOrder
  <1>1. Init => Routed /\ NameOrder
    BY ThreadFacts DEF Init, Routed, NameOrder
  <1> QED
    BY <1>1, NextOrder, PipelineInvariant, PTL DEF Spec

(* Taking the front of a queue and adding a message that is in no queue    *)
(* keep the messages distinct                                              *)
LEMMA DistinctTail ==
  ASSUME NEW q \in [Thread -> Seq(Client)], NEW t \in Thread, q[t] # << >>, Distinct(q),
         NEW p, p = [q EXCEPT ![t] = Tail(@)]
  PROVE  /\ p \in [Thread -> Seq(Client)] /\ Distinct(p)
         /\ ~ InQueues(p, Head(q[t]))
         /\ \A u \in Thread : \A i \in DOMAIN p[u] : \E j \in DOMAIN q[u] : p[u][i] = q[u][j]
  <1> DEFINE s == q[t]
  <1>1. /\ s \in Seq(Client)
        /\ Len(s) \in Nat \ {0} /\ DOMAIN s = 1 .. Len(s) /\ Head(s) = s[1]
        /\ Tail(s) \in Seq(Client) /\ DOMAIN Tail(s) = 1 .. Len(s) - 1
        /\ \A i \in 1 .. Len(s) - 1 : Tail(s)[i] = s[i + 1]
    BY HeadTail
  <1>2. p[t] = Tail(s) /\ \A u \in Thread : u # t => p[u] = q[u]
    OBVIOUS
  <1>3. p \in [Thread -> Seq(Client)]
    BY <1>1
  <1> HIDE DEF s
  <1>4. \A u \in Thread : \A i \in DOMAIN p[u] :
           LET k == IF u = t THEN i + 1 ELSE i IN k \in DOMAIN q[u] /\ p[u][i] = q[u][k]
    <2> SUFFICES ASSUME NEW u \in Thread, NEW i \in DOMAIN p[u]
                 PROVE  LET k == IF u = t THEN i + 1 ELSE i IN k \in DOMAIN q[u] /\ p[u][i] = q[u][k]
      OBVIOUS
    <2>1. CASE u = t
      <3>1. i \in 1 .. Len(s) - 1
        BY <1>1, <1>2, <2>1
      <3>2. i + 1 \in DOMAIN s /\ p[u][i] = s[i + 1]
        BY <1>1, <1>2, <2>1, <3>1
      <3> QED
        BY <2>1, <3>2 DEF s
    <2>2. CASE u # t
      BY <1>2, <2>2
    <2> QED
      BY <2>1, <2>2
  <1>5. Distinct(p)
    <2> SUFFICES ASSUME NEW u \in Thread, NEW v \in Thread, NEW i \in DOMAIN p[u], NEW j \in DOMAIN p[v],
                        p[u][i] = p[v][j]
                 PROVE  u = v /\ i = j
      BY DEF Distinct
    <2>1. u = v /\ (IF u = t THEN i + 1 ELSE i) = (IF v = t THEN j + 1 ELSE j)
      BY <1>4 DEF Distinct
    <2>2. u = t => i \in Int /\ j \in Int
      BY <1>1, <1>2, <2>1
    <2> QED
      BY <2>1, <2>2
  <1>6. ~ InQueues(p, Head(q[t]))
    <2> SUFFICES ASSUME NEW u \in Thread, NEW i \in DOMAIN p[u], p[u][i] = Head(q[t])
                 PROVE  FALSE
      BY DEF InQueues
    <2>1. 1 \in DOMAIN q[t] /\ Head(q[t]) = q[t][1]
      BY <1>1 DEF s
    <2>2. u = t /\ (IF u = t THEN i + 1 ELSE i) = 1
      BY <1>4, <2>1 DEF Distinct
    <2>3. i \in 1 .. Len(s) - 1
      BY <1>1, <1>2, <2>2
    <2> QED
      BY <1>1, <2>2, <2>3
  <1> QED
    BY <1>3, <1>4, <1>5, <1>6

(* ... and a message that is in no queue is added                          *)
LEMMA DistinctAppend ==
  ASSUME NEW q \in [Thread -> Seq(Client)], NEW d \in Thread, NEW e \in Client, Distinct(q),
         ~ InQueues(q, e),
         NEW p, p = [q EXCEPT ![d] = Append(@, e)]
  PROVE  /\ Distinct(p)
         /\ \A u \in Thread : \A i \in DOMAIN p[u] :
              p[u][i] = e \/ (i \in DOMAIN q[u] /\ p[u][i] = q[u][i])
  <1> DEFINE s == q[d]
  <1>1. /\ s \in Seq(Client) /\ Len(s) \in Nat /\ DOMAIN s = 1 .. Len(s)
        /\ DOMAIN Append(s, e) = 1 .. Len(s) + 1
        /\ \A i \in 1 .. Len(s) : Append(s, e)[i] = s[i]
        /\ Append(s, e)[Len(s) + 1] = e
    BY Appended
  <1>2. p[d] = Append(s, e) /\ \A u \in Thread : u # d => p[u] = q[u]
    OBVIOUS
  <1> HIDE DEF s
  <1>3. \A u \in Thread : \A i \in DOMAIN p[u] :
           \/ u = d /\ i = Len(s) + 1 /\ p[u][i] = e
           \/ i \in DOMAIN q[u] /\ p[u][i] = q[u][i] /\ p[u][i] # e
    <2> SUFFICES ASSUME NEW u \in Thread, NEW i \in DOMAIN p[u]
                 PROVE  \/ u = d /\ i = Len(s) + 1 /\ p[u][i] = e
                        \/ i \in DOMAIN q[u] /\ p[u][i] = q[u][i] /\ p[u][i] # e
      OBVIOUS
    <2>1. CASE u # d
      BY <1>2, <2>1 DEF InQueues
    <2>2. CASE u = d /\ i = Len(s) + 1
      BY <1>1, <1>2, <2>2
    <2>3. CASE u = d /\ i \in 1 .. Len(s)
      <3>1. i \in DOMAIN s /\ p[u][i] = s[i]
        BY <1>1, <1>2, <2>3
      <3> QED
        BY <2>3, <3>1 DEF s, InQueues
    <2> QED
      BY <1>1, <1>2, <2>1, <2>2, <2>3
  <1>4. Distinct(p)
    BY <1>3 DEF Distinct
  <1> QED
    BY <1>3, <1>4

(* An answer joins those of its connection at the end, and a connection    *)
(* that closes keeps an initial part of them                               *)
LEMMA InjectiveAppend ==
  ASSUME NEW S, NEW g \in Seq(S), NEW p \in Seq(S), NEW e \in S
  PROVE  /\ Range(g \o Append(p, e)) = Range(g \o p) \cup {e}
         /\ Injective(g \o p) /\ e \notin Range(g \o p) => Injective(g \o Append(p, e))
  <1> DEFINE a == g \o p
  <1>1. a \in Seq(S) /\ g \o Append(p, e) = Append(a, e)
    OBVIOUS
  <1>2. /\ Len(a) \in Nat /\ DOMAIN a = 1 .. Len(a)
        /\ DOMAIN Append(a, e) = 1 .. Len(a) + 1
        /\ \A i \in 1 .. Len(a) : Append(a, e)[i] = a[i]
        /\ Append(a, e)[Len(a) + 1] = e
    BY <1>1, Appended
  <1> HIDE DEF a
  <1>3. Range(Append(a, e)) = Range(a) \cup {e}
    BY <1>2 DEF Range
  <1>4. Injective(a) /\ e \notin Range(a) => Injective(Append(a, e))
    BY <1>2 DEF Injective, Range
  <1> QED
    BY <1>1, <1>3, <1>4 DEF a

(* ... of which some were still to be written                              *)
LEMMA InjectiveCut ==
  ASSUME NEW S, NEW g \in Seq(S), NEW p \in Seq(S), NEW i \in 0 .. Len(p)
  PROVE  /\ Range((g \o SubSeq(p, 1, i)) \o << >>) \subseteq Range(g \o p)
         /\ Injective(g \o p) => Injective((g \o SubSeq(p, 1, i)) \o << >>)
  <1> DEFINE a == g \o p
             b == (g \o SubSeq(p, 1, i)) \o << >>
  <1>1. SubSeq(p, 1, i) \in Seq(S) /\ Len(SubSeq(p, 1, i)) = i
    OBVIOUS
  <1>2. a \in Seq(S) /\ Len(a) = Len(g) + Len(p) /\ b \in Seq(S) /\ Len(b) = Len(g) + i
    BY <1>1
  <1>3. \A k \in 1 .. Len(b) : b[k] = a[k]
    BY <1>1, <1>2
  <1>4. DOMAIN a = 1 .. Len(a) /\ DOMAIN b = 1 .. Len(b) /\ DOMAIN b \subseteq DOMAIN a
    BY <1>2
  <1> HIDE DEF a, b
  <1>5. Range(b) \subseteq Range(a)
    BY <1>3, <1>4 DEF Range
  <1>6. Injective(a) => Injective(b)
    BY <1>3, <1>4 DEF Injective
  <1> QED
    BY <1>5, <1>6 DEF a, b

(* ... or all                                                              *)
LEMMA InjectiveDrop ==
  ASSUME NEW S, NEW g \in Seq(S), NEW p \in Seq(S)
  PROVE  /\ Range(g \o << >>) \subseteq Range(g \o p)
         /\ Injective(g \o p) => Injective(g \o << >>)
         /\ (g \o p) \o << >> = g \o p
  <1> DEFINE a == g \o p
  <1>1. g \o << >> = g /\ a \in Seq(S) /\ a \o << >> = a
    OBVIOUS
  <1>2. \A k \in DOMAIN g : k \in DOMAIN a /\ a[k] = g[k]
    OBVIOUS
  <1> HIDE DEF a
  <1>3. Range(g) \subseteq Range(a)
    BY <1>2 DEF Range
  <1>4. Injective(a) => Injective(g)
    BY <1>2 DEF Injective
  <1> QED
    BY <1>1, <1>3, <1>4 DEF a

(* A step that gives no answer, and one that gives the answer to r to the  *)
(* connection t                                                            *)
LEMMA NoAnswer ==
  ASSUME AnswerOnce, Unanswered,
         \A c \in Client : Injective(Answers(c)) =>
           Injective(got'[c] \o replies'[c]) /\ Range(got'[c] \o replies'[c]) \subseteq Range(Answers(c)),
         \A c \in Client : st[c] = "closed" => st'[c] = "closed",
         \A r \in Client : Pending(r)' => Pending(r)
  PROVE  /\ AnswerOnce'
         /\ \A c, r \in Client : Pending(r)' => r \notin Range(Answers(c))'
  <1>1. \A c \in Client : Answers(c)' = got'[c] \o replies'[c]
    BY DEF Answers
  <1>2. \A c \in Client : Injective(Answers(c))
    BY DEF AnswerOnce, Injective
  <1>3. \A c \in Client : Injective(Answers(c)') /\ Range(Answers(c)') \subseteq Range(Answers(c))
    BY <1>1, <1>2
  <1>4. \A c, d, r \in Client : r \in Range(Answers(c)) /\ r \in Range(Answers(d)) => c = d
    BY DEF AnswerOnce
  <1>5. \A c, r \in Client : r \in Range(Answers(c)) /\ r # c => st[r] = "closed"
    BY DEF AnswerOnce
  <1>6. \A c, r \in Client : Pending(r) => r \notin Range(Answers(c))
    BY DEF Unanswered
  <1>7. \A c, d, r \in Client : r \in Range(Answers(c)') /\ r \in Range(Answers(d)') => c = d
    BY <1>3, <1>4
  <1>8. \A c, r \in Client : r \in Range(Answers(c)') /\ r # c => st'[r] = "closed"
    BY <1>3, <1>5
  <1>9. \A c, r \in Client : Pending(r)' => r \notin Range(Answers(c)')
    BY <1>3, <1>6
  <1>10. \A c \in Client : \A i, j \in DOMAIN Answers(c)' :
            Answers(c)'[i] = Answers(c)'[j] => i = j
    BY <1>3 DEF Injective
  <1> QED
    BY <1>7, <1>8, <1>9, <1>10 DEF AnswerOnce

(* The step that answers r: r was waiting, is not any more, and t asked    *)
(* for it or the one that did is gone                                      *)
LEMMA NewAnswer ==
  ASSUME AnswerOnce, Unanswered, PipeInv, NEW t \in Client, NEW r \in Client,
         replies' = [replies EXCEPT ![t] = Append(@, r)], got' = got,
         Pending(r), ~ Pending(r)', r # t => st'[r] = "closed",
         \A c \in Client : st[c] = "closed" => st'[c] = "closed",
         \A x \in Client : Pending(x)' => Pending(x)
  PROVE  /\ AnswerOnce'
         /\ \A c, x \in Client : Pending(x)' => x \notin Range(Answers(c))'
  <1>1. \A c \in Client : Injective(Answers(c))
    BY DEF AnswerOnce, Injective
  <1>2. \A c, x \in Client : Pending(x) => x \notin Range(Answers(c))
    BY DEF Unanswered
  <1>3. /\ Answers(t)' = got[t] \o Append(replies[t], r)
        /\ \A c \in Client : c # t => Answers(c)' = Answers(c)
    BY DEF Answers, PipeInv, ReplyType
  <1>4. got[t] \in Seq(Client) /\ replies[t] \in Seq(Client)
    BY DEF PipeInv, ReplyType
  <1>5. /\ Range(Answers(t)') = Range(Answers(t)) \cup {r}
        /\ Injective(Answers(t)')
    <2>1. Answers(t) = got[t] \o replies[t] /\ Injective(Answers(t)) /\ r \notin Range(Answers(t))
      BY <1>1, <1>2 DEF Answers
    <2>2. /\ Range(got[t] \o Append(replies[t], r)) = Range(got[t] \o replies[t]) \cup {r}
          /\ Injective(got[t] \o replies[t]) /\ r \notin Range(got[t] \o replies[t]) =>
               Injective(got[t] \o Append(replies[t], r))
      BY <1>4, InjectiveAppend
    <2> QED
      BY <1>3, <2>1, <2>2
  <1>6. \A c, d, x \in Client : x \in Range(Answers(c)) /\ x \in Range(Answers(d)) => c = d
    BY DEF AnswerOnce
  <1>7. \A c, x \in Client : x \in Range(Answers(c)) /\ x # c => st[x] = "closed"
    BY DEF AnswerOnce
  <1>8. \A c \in Client : r \notin Range(Answers(c))
    BY <1>2
  <1>9. \A c, d, x \in Client : x \in Range(Answers(c)') /\ x \in Range(Answers(d)') => c = d
    BY <1>3, <1>5, <1>6, <1>8
  <1>10. \A c, x \in Client : x \in Range(Answers(c)') /\ x # c => st'[x] = "closed"
    BY <1>3, <1>5, <1>7
  <1>11. \A c, x \in Client : Pending(x)' => x \notin Range(Answers(c)')
    BY <1>2, <1>3, <1>5
  <1>12. \A c \in Client : Injective(Answers(c)')
    BY <1>1, <1>3, <1>5
  <1>13. \A c \in Client : \A i, j \in DOMAIN Answers(c)' :
            Answers(c)'[i] = Answers(c)'[j] => i = j
    BY <1>12 DEF Injective
  <1> QED
    BY <1>9, <1>10, <1>11, <1>13 DEF AnswerOnce

(* Steps that leave the requests, queues and answers alone                 *)
LEMMA AnswerFrame ==
  ASSUME PipeInv, AnswerOnce, Unanswered, UNCHANGED <<queue, cmd, got, replies>>,
         \A c \in Client : st[c] = "closed" => st'[c] = "closed",
         \A w \in SW : pc'[w] = "notify" => pc[w] = "notify" /\ cur'[w] = cur[w]
  PROVE  AnswerOnce' /\ Unanswered'
  <1>1. \A r \in Client : Pending(r)' => Pending(r)
    BY DEF Pending
  <1>2. \A c \in Client : Injective(Answers(c)) =>
           Injective(got'[c] \o replies'[c]) /\ Range(got'[c] \o replies'[c]) \subseteq Range(Answers(c))
    BY DEF Answers
  <1>3. AnswerOnce' /\ \A c, r \in Client : Pending(r)' => r \notin Range(Answers(c))'
    BY <1>1, <1>2, NoAnswer
  <1>4. Distinct(queue') /\ \A w \in SW : \A i \in DOMAIN queue'[w] : cmd'[queue'[w][i]] = "offer"
    BY DEF Unanswered
  <1> QED
    BY <1>3, <1>4 DEF Unanswered

(* A new request has no answer yet                                         *)
LEMMA SubmitAnswer ==
  ASSUME PipeInv, AnswerOnce, Unanswered,
         NEW w \in SW, NEW c \in Client, NEW n \in Name, NEW k \in Cmd, Submit(w, c, n, k)
  PROVE  AnswerOnce' /\ Unanswered'
  <1>1. /\ cmd[c] = "none" /\ cmd' = [cmd EXCEPT ![c] = k]
        /\ queue' = [queue EXCEPT !["rs"] = Append(@, c)]
        /\ cur' = [cur EXCEPT ![w] = c]
        /\ pc' = [pc EXCEPT ![w] = "notify"]
        /\ UNCHANGED <<st, got, replies>>
    BY DEF Submit, Sending, connVars
  <1>2. queue \in [Thread -> Seq(Client)] /\ "rs" \in Thread /\ "rs" \notin SW /\ SW \subseteq Thread
    BY ThreadFacts DEF PipeInv, QueueType
  <1>3. \A t \in Thread : \A i \in DOMAIN queue[t] : queue[t][i] \in Client
    BY <1>2
  <1>4. \A t \in Thread : \A i \in DOMAIN queue[t] : cmd[queue[t][i]] # "none"
    BY DEF PipeInv, Requests, Cmd
  <1>5. \A t \in Thread : \A i \in DOMAIN queue[t] : queue[t][i] # c
    BY <1>1, <1>3, <1>4
  <1>6. Distinct(queue) /\ ~ InQueues(queue, c)
    BY <1>5 DEF Unanswered, InQueues
  <1>7. /\ Distinct(queue')
        /\ \A u \in Thread : \A i \in DOMAIN queue'[u] :
             queue'[u][i] = c \/ (i \in DOMAIN queue[u] /\ queue'[u][i] = queue[u][i])
    <2>1. queue' = [queue EXCEPT !["rs"] = Append(@, c)] /\ queue \in [Thread -> Seq(Client)]
      BY <1>1, <1>2
    <2>2. "rs" \in Thread
      BY <1>2
    <2>3. Distinct(queue')
      BY <1>6, <2>1, <2>2, DistinctAppend
    <2>4. \A u \in Thread : \A i \in DOMAIN queue'[u] :
             queue'[u][i] = c \/ (i \in DOMAIN queue[u] /\ queue'[u][i] = queue[u][i])
      BY <1>6, <2>1, <2>2, DistinctAppend
    <2> QED
      BY <2>3, <2>4
  <1>8. \A x \in Client : x # c => cmd'[x] = cmd[x]
    BY <1>1 DEF PipeInv, ReqType
  <1>9. \A x \in SW : queue'[x] = queue[x]
    BY <1>1, <1>2
  <1>10. \A x \in SW : \A i \in DOMAIN queue'[x] : cmd'[queue'[x][i]] = "offer"
    BY <1>2, <1>3, <1>5, <1>8, <1>9 DEF Unanswered
  <1>11. \A x \in SW : x # w => pc'[x] = pc[x] /\ cur'[x] = cur[x]
    BY <1>1, <1>2 DEF PipeInv, ThreadType, ConnType
  <1>12. cur'[w] = c
    BY <1>1 DEF PipeInv, ConnType
  <1>13. ASSUME NEW r \in Client, Pending(r)' PROVE Pending(r)
    <2>1. CASE r = c
      BY <1>1, <2>1 DEF Pending
    <2>2. CASE r # c
      <3>1. cmd'[r] = cmd[r]
        BY <1>8, <2>2
      <3>2. \A t \in Thread : r \in Range(queue'[t]) => r \in Range(queue[t])
        BY <1>7, <2>2 DEF Range
      <3>3. \A x \in SW : pc'[x] = "notify" /\ cur'[x] = r => pc[x] = "notify" /\ cur[x] = r
        BY <1>11, <1>12, <2>2
      <3> QED
        BY <1>13, <3>1, <3>2, <3>3 DEF Pending
    <2> QED
      BY <2>1, <2>2
  <1>14. \A x \in Client : Injective(Answers(x)) =>
           Injective(got'[x] \o replies'[x]) /\ Range(got'[x] \o replies'[x]) \subseteq Range(Answers(x))
    BY <1>1 DEF Answers
  <1>15. AnswerOnce' /\ \A x, r \in Client : Pending(r)' => r \notin Range(Answers(x))'
    BY <1>1, <1>13, <1>14, NoAnswer
  <1> QED
    BY <1>7, <1>10, <1>15 DEF Unanswered

(* An error reply answers the request it is about                          *)
LEMMA UnknownAnswer ==
  ASSUME PipeInv, AnswerOnce, Unanswered, NEW w \in SW, NEW c \in Client, UnknownRequest(w, c)
  PROVE  AnswerOnce' /\ Unanswered'
  <1>1. /\ cmd[c] = "none" /\ cmd' = [cmd EXCEPT ![c] = "unknown"]
        /\ replies' = [replies EXCEPT ![c] = Append(@, c)]
        /\ UNCHANGED <<st, got, queue, pc, cur>>
    BY DEF UnknownRequest, threadVars
  <1>2. queue \in [Thread -> Seq(Client)] /\ SW \subseteq Thread
    BY ThreadFacts DEF PipeInv, QueueType
  <1>3. \A t \in Thread : \A i \in DOMAIN queue[t] : queue[t][i] \in Client
    BY <1>2
  <1>4. cmd'[c] = "unknown" /\ \A x \in Client : x # c => cmd'[x] = cmd[x]
    BY <1>1 DEF PipeInv, ReqType
  <1>5. \A x \in SW : \A i \in DOMAIN queue[x] : cmd[queue[x][i]] = "offer" /\ queue[x][i] # c
    BY <1>1 DEF Unanswered
  <1>6. Distinct(queue') /\ \A x \in SW : \A i \in DOMAIN queue'[x] : cmd'[queue'[x][i]] = "offer"
    BY <1>1, <1>2, <1>3, <1>4, <1>5 DEF Unanswered
  <1>7. Pending(c) /\ ~ Pending(c)'
    BY <1>1, <1>4 DEF Pending
  <1>8. \A x \in Client : Pending(x)' => Pending(x)
    BY <1>1, <1>4 DEF Pending
  <1>9. AnswerOnce' /\ \A x, r \in Client : Pending(r)' => r \notin Range(Answers(x))'
    BY <1>1, <1>7, <1>8, NewAnswer
  <1> QED
    BY <1>6, <1>9 DEF Unanswered

(* A connection that closes keeps what was written to it                   *)
LEMMA ClosedAnswers ==
  ASSUME PipeInv, NEW c \in Client, CloseConn(c), got' = got
  PROVE  /\ \A x \in Client : Injective(Answers(x)) =>
              /\ Injective(got'[x] \o replies'[x])
              /\ Range(got'[x] \o replies'[x]) \subseteq Range(Answers(x))
         /\ \A x \in Client : st[x] = "closed" => st'[x] = "closed"
  <1>1. /\ replies'[c] = << >> /\ \A x \in Client : x # c => replies'[x] = replies[x]
        /\ st' = [st EXCEPT ![c] = "closed"]
    BY DEF CloseConn, PipeInv, ReplyType
  <1>2. got[c] \in Seq(Client) /\ replies[c] \in Seq(Client)
    BY DEF PipeInv, ReplyType
  <1>3. /\ Range(got[c] \o << >>) \subseteq Range(got[c] \o replies[c])
        /\ Injective(got[c] \o replies[c]) => Injective(got[c] \o << >>)
    BY <1>2, InjectiveDrop
  <1>4. \A x \in Client : Injective(Answers(x)) =>
              /\ Injective(got'[x] \o replies'[x])
              /\ Range(got'[x] \o replies'[x]) \subseteq Range(Answers(x))
    <2> SUFFICES ASSUME NEW x \in Client, Injective(Answers(x))
                 PROVE  /\ Injective(got'[x] \o replies'[x])
                        /\ Range(got'[x] \o replies'[x]) \subseteq Range(Answers(x))
      OBVIOUS
    <2>1. CASE x = c
      BY <1>1, <1>3, <2>1 DEF Answers
    <2>2. CASE x # c
      BY <1>1, <2>2 DEF Answers
    <2> QED
      BY <2>1, <2>2
  <1>5. \A x \in Client : st[x] = "closed" => st'[x] = "closed"
    BY <1>1 DEF PipeInv, ConnType
  <1> QED
    BY <1>4, <1>5

(* STOPPUSH, STOPPULL and ANSWER are answered here, by the only worker     *)
(* that sends them                                                         *)
LEMMA RequestSentAnswer ==
  ASSUME PipeInv, AnswerOnce, Unanswered, NEW w \in SW, RequestSent(w)
  PROVE  AnswerOnce' /\ Unanswered'
  <1>1. pc[w] = "notify" /\ pc' = [pc EXCEPT ![w] = "run"] /\ UNCHANGED <<got, queue, cmd>>
        /\ cur' = [cur EXCEPT ![w] = None]
    BY DEF RequestSent, reqVars
  <1>c. PICK c \in Client : c = cur[w]
    BY <1>1 DEF PipeInv, Threads
  <1>2. \/ /\ cmd[c] = "oneway" /\ UNCHANGED <<conns, st>>
           /\ replies' = [replies EXCEPT ![c] = Append(@, c)]
        \/ CloseConn(c)
        \/ UNCHANGED <<conns, st, replies>>
    BY <1>c DEF RequestSent
  <1>3. \A x \in SW : pc[x] = "notify" /\ cur[x] = c => x = w
    BY <1>1, <1>c DEF PipeInv, Threads, Requests
  <1>4. pc'[w] = "run" /\ \A x \in SW : x # w => pc'[x] = pc[x] /\ cur'[x] = cur[x]
    BY <1>1, ThreadFacts DEF PipeInv, ThreadType, ConnType
  <1>5. \A r \in Client : Pending(r)' => Pending(r)
    BY <1>1, <1>4 DEF Pending
  <1>6. Distinct(queue') /\ \A x \in SW : \A i \in DOMAIN queue'[x] : cmd'[queue'[x][i]] = "offer"
    BY <1>1 DEF Unanswered
  <1>7. AnswerOnce' /\ \A x, r \in Client : Pending(r)' => r \notin Range(Answers(x))'
    <2>1. CASE UNCHANGED <<conns, st, replies>>
      <3>1. \A x \in Client : Injective(Answers(x)) =>
              /\ Injective(got'[x] \o replies'[x])
              /\ Range(got'[x] \o replies'[x]) \subseteq Range(Answers(x))
        BY <1>1, <2>1 DEF Answers
      <3> QED
        BY <1>5, <2>1, <3>1, NoAnswer
    <2>2. CASE CloseConn(c)
      <3>1. /\ \A x \in Client : Injective(Answers(x)) =>
                 /\ Injective(got'[x] \o replies'[x])
                 /\ Range(got'[x] \o replies'[x]) \subseteq Range(Answers(x))
            /\ \A x \in Client : st[x] = "closed" => st'[x] = "closed"
        BY <1>1, <1>3, <2>2, ClosedAnswers
      <3> QED
        BY <1>5, <3>1, NoAnswer
    <2>3. CASE /\ cmd[c] = "oneway" /\ UNCHANGED <<conns, st>>
               /\ replies' = [replies EXCEPT ![c] = Append(@, c)]
      <3>1. Pending(c)
        BY <1>1, <1>c, <2>3 DEF Pending
      <3>2. \A x \in SW : ~ (pc'[x] = "notify" /\ cur'[x] = c)
        BY <1>3, <1>4
      <3>3. ~ Pending(c)'
        BY <1>1, <2>3, <3>2 DEF Pending
      <3> QED
        BY <1>1, <1>3, <1>5, <2>3, <3>1, <3>3, NewAnswer
    <2> QED
      BY <1>2, <2>1, <2>2, <2>3
  <1> QED
    BY <1>6, <1>7 DEF Unanswered

(* Answers written or thrown away                                          *)
LEMMA WrittenAnswer ==
  ASSUME PipeInv, AnswerOnce, Unanswered, NEW w \in SW, NEW c \in Client,
         WriteReply(w, c) \/ WriteError(w, c) \/ LoseConn(w, c)
  PROVE  AnswerOnce' /\ Unanswered'
  <1>1. UNCHANGED <<pc, queue, cur, cmd>>
    BY DEF WriteReply, WriteError, LoseConn, threadVars, reqVars
  <1>2. \A r \in Client : Pending(r)' => Pending(r)
    BY <1>1 DEF Pending
  <1>3. Distinct(queue') /\ \A x \in SW : \A i \in DOMAIN queue'[x] : cmd'[queue'[x][i]] = "offer"
    BY <1>1 DEF Unanswered
  <1>4. got \in [Client -> Seq(Client)] /\ replies \in [Client -> Seq(Client)]
        /\ st \in [Client -> {"new", "accepted", "open", "closed"}]
    BY DEF PipeInv, ReplyType, ConnType
  <1>5. /\ \A x \in Client : Injective(Answers(x)) =>
              /\ Injective(got'[x] \o replies'[x])
              /\ Range(got'[x] \o replies'[x]) \subseteq Range(Answers(x))
        /\ \A x \in Client : st[x] = "closed" => st'[x] = "closed"
    <2>1. CASE LoseConn(w, c)
      BY <2>1, ClosedAnswers DEF LoseConn
    <2>2. CASE WriteReply(w, c)
      <3>1. /\ got' = [got EXCEPT ![c] = @ \o replies[c]] /\ UNCHANGED st
            /\ replies' = [replies EXCEPT ![c] = << >>]
        BY <2>2 DEF WriteReply
      <3>2. got'[c] = got[c] \o replies[c] /\ replies'[c] = << >>
        BY <1>4, <3>1
      <3>3. \A x \in Client : x # c => got'[x] = got[x] /\ replies'[x] = replies[x]
        BY <1>4, <3>1
      <3>4. (got[c] \o replies[c]) \o << >> = got[c] \o replies[c]
        BY <1>4, InjectiveDrop
      <3>5. \A x \in Client : got'[x] \o replies'[x] = Answers(x)
        BY <3>2, <3>3, <3>4 DEF Answers
      <3> QED
        BY <3>1, <3>5
    <2>3. CASE WriteError(w, c)
      <3>1. PICK i \in 0..(Len(replies[c]) - 1) :
               got' = [got EXCEPT ![c] = @ \o SubSeq(replies[c], 1, i)]
        BY <2>3 DEF WriteError
      <3>2. /\ st' = [st EXCEPT ![c] = "closed"]
            /\ replies' = [replies EXCEPT ![c] = << >>]
        BY <2>3 DEF WriteError, CloseConn
      <3>3. got'[c] = got[c] \o SubSeq(replies[c], 1, i) /\ replies'[c] = << >>
        BY <1>4, <3>1, <3>2
      <3>4. \A x \in Client : x # c => got'[x] = got[x] /\ replies'[x] = replies[x]
        BY <1>4, <3>1, <3>2
      <3>5. i \in 0 .. Len(replies[c]) /\ got[c] \in Seq(Client) /\ replies[c] \in Seq(Client)
        BY <1>4, <3>1
      <3>6. /\ Range((got[c] \o SubSeq(replies[c], 1, i)) \o << >>) \subseteq Range(got[c] \o replies[c])
            /\ Injective(got[c] \o replies[c]) =>
                 Injective((got[c] \o SubSeq(replies[c], 1, i)) \o << >>)
        BY <3>5, InjectiveCut
      <3>7. \A x \in Client : Injective(Answers(x)) =>
              /\ Injective(got'[x] \o replies'[x])
              /\ Range(got'[x] \o replies'[x]) \subseteq Range(Answers(x))
        <4> SUFFICES ASSUME NEW x \in Client, Injective(Answers(x))
                     PROVE  /\ Injective(got'[x] \o replies'[x])
                            /\ Range(got'[x] \o replies'[x]) \subseteq Range(Answers(x))
          OBVIOUS
        <4>1. CASE x = c
          BY <3>3, <3>6, <4>1 DEF Answers
        <4>2. CASE x # c
          BY <3>4, <4>2 DEF Answers
        <4> QED
          BY <4>1, <4>2
      <3>8. \A x \in Client : st[x] = "closed" => st'[x] = "closed"
        BY <1>4, <3>2
      <3> QED
        BY <3>7, <3>8
    <2> QED
      BY <2>1, <2>2, <2>3
  <1>6. AnswerOnce' /\ \A x, r \in Client : Pending(r)' => r \notin Range(Answers(x))'
    BY <1>2, <1>5, NoAnswer
  <1> QED
    BY <1>3, <1>6 DEF Unanswered

(* Messages move, and nothing is answered                                  *)
LEMMA MovedAnswer ==
  ASSUME PipeInv, AnswerOnce, Unanswered, UNCHANGED <<cmd, got, replies, st, cur>>,
         \A x \in SW : pc'[x] = pc[x],
         Distinct(queue'),
         \A x \in SW : \A i \in DOMAIN queue'[x] : cmd[queue'[x][i]] = "offer",
         \A u \in Thread : \A i \in DOMAIN queue'[u] :
           \E v \in Thread : \E j \in DOMAIN queue[v] : queue'[u][i] = queue[v][j]
  PROVE  AnswerOnce' /\ Unanswered'
  <1>1. \A r : (\E t \in Thread : r \in Range(queue'[t])) => \E t \in Thread : r \in Range(queue[t])
    BY DEF Range
  <1>2. \A r \in Client : Pending(r)' => Pending(r)
    BY <1>1 DEF Pending
  <1>3. \A x \in Client : Injective(Answers(x)) =>
           Injective(got'[x] \o replies'[x]) /\ Range(got'[x] \o replies'[x]) \subseteq Range(Answers(x))
    BY DEF Answers
  <1>4. AnswerOnce' /\ \A x, r \in Client : Pending(r)' => r \notin Range(Answers(x))'
    BY <1>2, <1>3, NoAnswer
  <1> QED
    BY <1>4 DEF Unanswered

(* The queues after a message r left the front of one, and perhaps joined  *)
(* another                                                                 *)
LEMMA Moved ==
  ASSUME PipeInv, Unanswered, NEW t \in Thread, queue[t] # << >>
  PROVE  /\ Head(queue[t]) \in Client /\ 1 \in DOMAIN queue[t] /\ Head(queue[t]) = queue[t][1]
         /\ queue' = [queue EXCEPT ![t] = Tail(@)] =>
              /\ Distinct(queue')
              /\ \A u \in Thread : \A i \in DOMAIN queue'[u] :
                   /\ queue'[u][i] # Head(queue[t])
                   /\ \E j \in DOMAIN queue[u] : queue'[u][i] = queue[u][j]
         /\ \A d \in Thread :
              d # t /\ queue' = [queue EXCEPT ![t] = Tail(@), ![d] = Append(@, Head(queue[t]))] =>
                /\ Distinct(queue')
                /\ \A u \in Thread : \A i \in DOMAIN queue'[u] :
                     \/ u = d /\ queue'[u][i] = Head(queue[t])
                     \/ \E j \in DOMAIN queue[u] : queue'[u][i] = queue[u][j]
  <1> DEFINE q == [queue EXCEPT ![t] = Tail(@)]
             r == Head(queue[t])
  <1>1. queue \in [Thread -> Seq(Client)] /\ Distinct(queue)
    BY DEF PipeInv, QueueType, Unanswered
  <1>2. r \in Client /\ 1 \in DOMAIN queue[t] /\ r = queue[t][1]
    BY <1>1, HeadTail
  <1>3. q \in [Thread -> Seq(Client)] /\ Distinct(q)
    BY <1>1, DistinctTail
  <1>4. ~ InQueues(q, r)
    <2>1. q = [queue EXCEPT ![t] = Tail(@)]
      OBVIOUS
    <2> HIDE DEF q
    <2> QED
      BY <1>1, <2>1, DistinctTail
  <1>5. \A u \in Thread : \A i \in DOMAIN q[u] : \E j \in DOMAIN queue[u] : q[u][i] = queue[u][j]
    BY <1>1, DistinctTail
  <1>6. ASSUME NEW d \in Thread, d # t,
               queue' = [queue EXCEPT ![t] = Tail(@), ![d] = Append(@, Head(queue[t]))]
        PROVE  /\ Distinct(queue')
               /\ \A u \in Thread : \A i \in DOMAIN queue'[u] :
                     \/ u = d /\ queue'[u][i] = r
                     \/ \E j \in DOMAIN queue[u] : queue'[u][i] = queue[u][j]
    <2>1. queue' = [q EXCEPT ![d] = Append(@, r)]
      BY <1>1, <1>6
    <2> HIDE DEF q, r
    <2>2. Distinct(queue')
      BY <1>2, <1>3, <1>4, <2>1, DistinctAppend
    <2>3. \A u \in Thread : \A i \in DOMAIN queue'[u] :
             queue'[u][i] = r \/ (i \in DOMAIN q[u] /\ queue'[u][i] = q[u][i])
      BY <1>2, <1>3, <1>4, <2>1, DistinctAppend
    <2>4. \A u \in Thread : u # d => queue'[u] = q[u]
      BY <1>3, <2>1
    <2> QED
      BY <1>5, <2>2, <2>3, <2>4
  <1>7. queue' = q => /\ Distinct(queue')
                      /\ \A u \in Thread : \A i \in DOMAIN queue'[u] :
                           /\ queue'[u][i] # r
                           /\ \E j \in DOMAIN queue[u] : queue'[u][i] = queue[u][j]
    <2> HIDE DEF q, r
    <2> QED
      BY <1>3, <1>4, <1>5 DEF InQueues
  <1> HIDE DEF r
  <1> QED
    BY <1>2, <1>6, <1>7 DEF r

(* RtcServer moves a message                                               *)
LEMMA RsMsgAnswer ==
  ASSUME PipeInv, AnswerOnce, Unanswered, RsMsg
  PROVE  AnswerOnce' /\ Unanswered'
  <1> DEFINE r == Head(queue["rs"])
             v == Hash[name[r]]
  <1>1. UNCHANGED <<cmd, got, replies, st, cur>>
    BY DEF RsMsg, connVars
  <1>2. \/ queue["rs"] = << >> /\ UNCHANGED <<pc, queue>>
        \/ /\ queue["rs"] # << >>
           /\ queue' = [queue EXCEPT !["rs"] = Tail(@)] /\ UNCHANGED pc
        \/ /\ queue["rs"] # << >>
           /\ queue' = [queue EXCEPT !["rs"] = Tail(@), ![v] = Append(@, r)]
           /\ pc' = [pc EXCEPT !["rs"] = "notify"]
    BY DEF RsMsg, GetWorker, Sending
  <1>3. \A x \in SW : pc'[x] = pc[x]
    BY <1>2, ThreadFacts DEF PipeInv, ThreadType
  <1>4. CASE queue["rs"] = << >> /\ UNCHANGED <<pc, queue>>
    BY <1>1, <1>3, <1>4, AnswerFrame
  <1>5. CASE queue["rs"] # << >>
    <2>1. "rs" \in Thread /\ SW \subseteq Thread
      BY ThreadFacts
    <2>2. /\ r \in Client /\ 1 \in DOMAIN queue["rs"] /\ r = queue["rs"][1]
          /\ queue' = [queue EXCEPT !["rs"] = Tail(@)] =>
              /\ Distinct(queue')
              /\ \A u \in Thread : \A i \in DOMAIN queue'[u] :
                   /\ queue'[u][i] # r
                   /\ \E j \in DOMAIN queue[u] : queue'[u][i] = queue[u][j]
          /\ \A d \in Thread :
              d # "rs" /\ queue' = [queue EXCEPT !["rs"] = Tail(@), ![d] = Append(@, r)] =>
                /\ Distinct(queue')
                /\ \A u \in Thread : \A i \in DOMAIN queue'[u] :
                     \/ u = d /\ queue'[u][i] = r
                     \/ \E j \in DOMAIN queue[u] : queue'[u][i] = queue[u][j]
      BY <1>5, <2>1, Moved
    <2> HIDE DEF r
    <2>3. v \in RW /\ v \in Thread /\ v # "rs"
      <3>1. cmd[r] \in Cmd
        BY <2>1, <2>2 DEF PipeInv, Requests
      <3>2. name[r] \in Name
        BY <2>2, <3>1 DEF PipeInv, Requests
      <3> QED
        BY <3>2, ThreadFacts
    <2> HIDE DEF v
    <2>4. /\ Distinct(queue')
          /\ \A u \in Thread : \A i \in DOMAIN queue'[u] :
               \/ u = v /\ queue'[u][i] = r
               \/ \E j \in DOMAIN queue[u] : queue'[u][i] = queue[u][j]
      BY <1>2, <1>5, <2>2, <2>3
    <2>5. \A x \in SW : \A i \in DOMAIN queue[x] : cmd[queue[x][i]] = "offer"
      BY DEF Unanswered
    <2>6. \A x \in SW : \A i \in DOMAIN queue'[x] : cmd[queue'[x][i]] = "offer"
      BY <2>1, <2>3, <2>4, <2>5, ThreadFacts
    <2>7. \A u \in Thread : \A i \in DOMAIN queue'[u] :
             \E z \in Thread : \E j \in DOMAIN queue[z] : queue'[u][i] = queue[z][j]
      BY <2>1, <2>2, <2>4
    <2> QED
      BY <1>1, <1>3, <2>4, <2>6, <2>7, MovedAnswer
  <1> QED
    BY <1>2, <1>4, <1>5

(* An RtcWorker takes a message out of the queues, or moves an offer       *)
LEMMA RwMsgAnswer ==
  ASSUME PipeInv, AnswerOnce, Unanswered, NEW v \in RW, RwMsg(v)
  PROVE  AnswerOnce' /\ Unanswered'
  <1> DEFINE r == Head(queue[v])
             w == wk[r]
  <1>1. UNCHANGED <<cmd, got, replies, st, cur>>
    BY DEF RwMsg, connVars
  <1>2. \/ queue[v] = << >> /\ UNCHANGED <<pc, queue>>
        \/ /\ queue[v] # << >>
           /\ queue' = [queue EXCEPT ![v] = Tail(@)] /\ UNCHANGED pc
        \/ /\ queue[v] # << >> /\ cmd[r] = "offer"
           /\ queue' = [queue EXCEPT ![v] = Tail(@), ![w] = Append(@, r)]
           /\ pc' = [pc EXCEPT ![v] = "notify"]
    BY DEF RwMsg, Sending
  <1>3. \A x \in SW : pc'[x] = pc[x]
    BY <1>2, ThreadFacts DEF PipeInv, ThreadType
  <1>4. CASE queue[v] = << >> /\ UNCHANGED <<pc, queue>>
    BY <1>1, <1>3, <1>4, AnswerFrame
  <1>5. CASE queue[v] # << >>
    <2>1. v \in Thread /\ SW \subseteq Thread
      BY ThreadFacts
    <2>2. /\ r \in Client /\ 1 \in DOMAIN queue[v] /\ r = queue[v][1]
          /\ queue' = [queue EXCEPT ![v] = Tail(@)] =>
              /\ Distinct(queue')
              /\ \A u \in Thread : \A i \in DOMAIN queue'[u] :
                   /\ queue'[u][i] # r
                   /\ \E j \in DOMAIN queue[u] : queue'[u][i] = queue[u][j]
          /\ \A d \in Thread :
              d # v /\ queue' = [queue EXCEPT ![v] = Tail(@), ![d] = Append(@, r)] =>
                /\ Distinct(queue')
                /\ \A u \in Thread : \A i \in DOMAIN queue'[u] :
                     \/ u = d /\ queue'[u][i] = r
                     \/ \E j \in DOMAIN queue[u] : queue'[u][i] = queue[u][j]
      BY <1>5, <2>1, Moved
    <2> HIDE DEF r
    <2>3. w \in Thread /\ w # v
      <3>1. cmd[r] \in Cmd
        BY <2>1, <2>2 DEF PipeInv, Requests
      <3>2. st[r] # "new"
        BY <2>2, <3>1 DEF PipeInv, Requests, Cmd
      <3>3. w \in SW
        BY <2>2, <3>2 DEF PipeInv, Descriptors
      <3> QED
        BY <3>3, ThreadFacts
    <2> HIDE DEF w
    <2>4. /\ Distinct(queue')
          /\ \A u \in Thread : \A i \in DOMAIN queue'[u] :
               \/ cmd[r] = "offer" /\ queue'[u][i] = r
               \/ \E j \in DOMAIN queue[u] : queue'[u][i] = queue[u][j]
      BY <1>2, <1>5, <2>2, <2>3
    <2>5. \A x \in SW : \A i \in DOMAIN queue[x] : cmd[queue[x][i]] = "offer"
      BY DEF Unanswered
    <2>6. \A x \in SW : \A i \in DOMAIN queue'[x] : cmd[queue'[x][i]] = "offer"
      BY <2>1, <2>4, <2>5
    <2>7. \A u \in Thread : \A i \in DOMAIN queue'[u] :
             \E z \in Thread : \E j \in DOMAIN queue[z] : queue'[u][i] = queue[z][j]
      BY <2>1, <2>2, <2>4
    <2> QED
      BY <1>1, <1>3, <2>4, <2>6, <2>7, MovedAnswer
  <1> QED
    BY <1>2, <1>4, <1>5

(* The answer to an offer: a connection other than the one that asked has  *)
(* the same address, so that one is not open any more                      *)
LEMMA ResponseAnswer ==
  ASSUME PipeInv, AnswerOnce, Unanswered, NEW w \in SW, Response(w)
  PROVE  AnswerOnce' /\ Unanswered'
  <1>1. UNCHANGED <<cmd, got, st, cur, pc>>
    BY DEF Response, reqVars
  <1>2. CASE queue[w] = << >>
    <2>1. UNCHANGED <<queue, replies>>
      BY <1>2 DEF Response
    <2> QED
      BY <1>1, <2>1, AnswerFrame
  <1>3. CASE queue[w] # << >>
    <2>1. w \in Thread /\ SW \subseteq Thread
      BY ThreadFacts
    <2>2. queue' = [queue EXCEPT ![w] = Tail(@)]
      BY <1>3 DEF Response
    <2>3. PICK r \in Client : r = Head(queue[w]) /\ 1 \in DOMAIN queue[w] /\ r = queue[w][1]
      BY <1>3, <2>1, Moved
    <2>4. /\ Distinct(queue')
          /\ \A u \in Thread : \A i \in DOMAIN queue'[u] :
               /\ queue'[u][i] # r
               /\ \E j \in DOMAIN queue[u] : queue'[u][i] = queue[u][j]
      <3>1. queue' = [queue EXCEPT ![w] = Tail(@)] =>
              /\ Distinct(queue')
              /\ \A u \in Thread : \A i \in DOMAIN queue'[u] :
                   /\ queue'[u][i] # Head(queue[w])
                   /\ \E j \in DOMAIN queue[u] : queue'[u][i] = queue[u][j]
        BY <1>3, <2>1, Moved
      <3> QED
        BY <2>2, <2>3, <3>1
    <2>5. \A x \in SW : \A i \in DOMAIN queue[x] : cmd[queue[x][i]] = "offer"
      BY DEF Unanswered
    <2>6. \A x \in SW : \A i \in DOMAIN queue'[x] : cmd[queue'[x][i]] = "offer"
      BY <2>1, <2>4, <2>5
    <2>7. cmd[r] = "offer" /\ st[r] \in {"open", "closed"} /\ fd[r] \in Fd
      <3>1. cmd[r] = "offer"
        BY <2>3, <2>5
      <3>2. st[r] \in {"open", "closed"}
        BY <2>3, <3>1 DEF PipeInv, Requests
      <3> QED
        BY <2>3, <3>1, <3>2 DEF PipeInv, Descriptors
    <2>8. CASE replies' = replies
      <3>1. \A u \in Thread : \A i \in DOMAIN queue'[u] :
               \E z \in Thread : \E j \in DOMAIN queue[z] : queue'[u][i] = queue[z][j]
        BY <2>4
      <3> QED
        BY <1>1, <2>4, <2>6, <2>8, <3>1, MovedAnswer
    <2>9. CASE replies' # replies
      <3>1. PICK t \in Client \cup {None} : t = conns[w][fd[r]]
        BY <2>7 DEF PipeInv, ConnType
      <3>2. /\ t # None /\ addr[t] = addr[r]
            /\ replies' = [replies EXCEPT ![t] = Append(@, r)]
        BY <1>3, <2>3, <2>9, <3>1 DEF Response, Matches
      <3>3. t \in Client /\ st[t] = "open"
        BY <2>7, <3>1, <3>2 DEF PipeInv, Entries
      <3>4. r # t => st[r] = "closed"
        BY <2>3, <2>7, <3>2, <3>3 DEF PipeInv, Entries
      <3>5. r \in Range(queue[w]) /\ \A u \in Thread : r \notin Range(queue'[u])
        BY <2>3, <2>4 DEF Range
      <3>6. Pending(r) /\ ~ Pending(r)'
        BY <1>1, <2>1, <2>7, <3>5 DEF Pending
      <3>7. \A u \in Thread : \A x \in Range(queue'[u]) : x \in Range(queue[u])
        BY <2>4 DEF Range
      <3>8. \A x \in Client : Pending(x)' => Pending(x)
        BY <1>1, <3>7 DEF Pending
      <3>9. AnswerOnce' /\ \A x, y \in Client : Pending(y)' => y \notin Range(Answers(x))'
        BY <1>1, <2>3, <3>2, <3>3, <3>4, <3>6, <3>8, NewAnswer
      <3> QED
        BY <1>1, <2>4, <2>6, <3>9 DEF Unanswered
    <2> QED
      BY <2>8, <2>9
  <1> QED
    BY <1>2, <1>3

(* Every step answers at most one request, and only one that waits         *)
LEMMA NextAnswer == PipeInv /\ AnswerOnce /\ Unanswered /\ [Next]_vars => AnswerOnce' /\ Unanswered'
  <1> SUFFICES ASSUME PipeInv, AnswerOnce, Unanswered, [Next]_vars
               PROVE  AnswerOnce' /\ Unanswered'
    OBVIOUS
  <1>1. /\ st \in [Client -> {"new", "accepted", "open", "closed"}]
        /\ pc \in [Thread -> {"run", "notify", "stop", "join", "done"}]
        /\ SW \subseteq Thread /\ "ss" \notin SW
    BY ThreadFacts DEF PipeInv, ConnType, ThreadType
  <1>2. ASSUME NEW c \in Client, Accept(c) PROVE AnswerOnce' /\ Unanswered'
    <2>1. /\ UNCHANGED <<queue, cmd, got, replies, cur>>
          /\ st[c] = "new" /\ st' = [st EXCEPT ![c] = "accepted"]
          /\ pc' = [pc EXCEPT !["ss"] = "notify"]
      BY <1>2 DEF Accept, Sending, reqVars
    <2>2. \A x \in SW : pc'[x] = pc[x]
      BY <1>1, <2>1
    <2>3. \A x \in Client : st[x] = "closed" => st'[x] = "closed"
      BY <1>1, <2>1
    <2> QED
      BY <2>1, <2>2, <2>3, AnswerFrame
  <1>3. ASSUME NEW w \in SW, NEW c \in Client, NEW n \in Name,
               RequestOffer(w, c, n) \/ RequestOneWay(w, c, n)
        PROVE  AnswerOnce' /\ Unanswered'
    <2>1. PICK k \in Cmd : Submit(w, c, n, k)
      BY <1>3 DEF RequestOffer, RequestOneWay, Cmd
    <2> QED
      BY <2>1, SubmitAnswer
  <1>4. ASSUME NEW w \in SW, NEW c \in Client, UnknownRequest(w, c) PROVE AnswerOnce' /\ Unanswered'
    BY <1>4, UnknownAnswer
  <1>5. ASSUME NEW w \in SW, NEW c \in Client,
               LoseConn(w, c) \/ WriteError(w, c) \/ WriteReply(w, c)
        PROVE  AnswerOnce' /\ Unanswered'
    BY <1>5, WrittenAnswer
  <1>6. CASE Signal \/ Quit \/ Join \/ UNCHANGED vars
    <2>1. UNCHANGED <<queue, cmd, got, replies, st, pc, cur>>
      BY <1>6 DEF Signal, Quit, Join, vars, threadVars, connVars, reqVars
    <2> QED
      BY <2>1, AnswerFrame
  <1>7. ASSUME NEW t \in Thread, ThreadStep(t) PROVE AnswerOnce' /\ Unanswered'
    <2>1. CASE t = "rs" /\ RsMsg
      BY <2>1, RsMsgAnswer
    <2>2. CASE t \in RW /\ RwMsg(t)
      BY <2>2, RwMsgAnswer
    <2>3. CASE t \in SW /\ RequestSent(t)
      BY <2>3, RequestSentAnswer
    <2>4. CASE t \in SW /\ Response(t)
      BY <2>4, ResponseAnswer
    <2>5. CASE t \in SW /\ NewConn(t)
      <3>1. UNCHANGED <<queue, cmd, got, replies, cur, pc>>
        BY <2>5 DEF NewConn, connVars, reqVars
      <3>2. \A x \in Client : st[x] = "closed" => st'[x] = "closed"
        <4>1. CASE qconn[t] = << >>
          BY <2>5, <4>1 DEF NewConn, connVars
        <4>2. CASE qconn[t] # << >>
          <5>1. qconn[t] \in Seq(Client) /\ 1 \in DOMAIN qconn[t] /\ Head(qconn[t]) = qconn[t][1]
            BY <2>5, <4>2, HeadTail DEF PipeInv, QueueType
          <5>2. st[Head(qconn[t])] = "accepted"
            BY <2>5, <5>1 DEF PipeInv, Waiting
          <5>3. st' = [st EXCEPT ![Head(qconn[t])] = "open"]
            BY <2>5, <4>2 DEF NewConn
          <5> QED
            BY <1>1, <5>2, <5>3
        <4> QED
          BY <4>1, <4>2
      <3> QED
        BY <3>1, <3>2, AnswerFrame
    <2>6. CASE Notify(t) \/ StopWorker(t) \/ StopServer(t) \/ QuitWorker(t) \/ JoinWorker(t)
      <3>1. UNCHANGED <<queue, cmd, got, replies, cur, st>>
        BY <2>6 DEF Notify, StopWorker, StopServer, QuitWorker, JoinWorker, connVars, reqVars
      <3>2. PICK p \in {"run", "stop", "join", "done"} : pc' = [pc EXCEPT ![t] = p]
        BY <2>6 DEF Notify, StopWorker, StopServer, QuitWorker, JoinWorker
      <3>3. \A x \in SW : pc'[x] = "notify" => pc[x] = "notify"
        BY <1>1, <3>2
      <3> QED
        BY <3>1, <3>3, AnswerFrame
    <2> QED
      BY <1>7, <2>1, <2>2, <2>3, <2>4, <2>5, <2>6 DEF ThreadStep
  <1> QED
    BY <1>2, <1>3, <1>4, <1>5, <1>6, <1>7 DEF Next, Outside

(* No request is answered twice or to two connections, and nobody gets the *)
(* answer of a connection that is still open (_response_server_offer)      *)
THEOREM AnsweredOnce == Spec => []AnswerOnce
  <1>1. Init => AnswerOnce /\ Unanswered
    <2> SUFFICES ASSUME Init PROVE AnswerOnce /\ Unanswered
      OBVIOUS
    <2>1. \A c \in Client : Answers(c) = << >>
      BY DEF Init, Answers
    <2>2. Range(<< >>) = {} /\ DOMAIN << >> = {}
      BY DEF Range
    <2>3. \A t \in Thread : queue[t] = << >>
      BY DEF Init
    <2>4. AnswerOnce
      BY <2>1, <2>2 DEF AnswerOnce
    <2>5. Unanswered
      BY <2>1, <2>2, <2>3, ThreadFacts DEF Unanswered, Distinct
    <2> QED
      BY <2>4, <2>5
  <1> QED
    BY <1>1, NextAnswer, PipelineInvariant, PTL DEF Spec

(* Tokens of one kind in a pipe, and threads of S about to write to t      *)
Cnt(s, k) == Cardinality({i \in DOMAIN s : s[i] = k})

(* Threads of S about to write to t                                        *)
Senders(p, d, t, S) == {u \in S : p[u] = "notify" /\ d[u] = t}

(* Two states of the threads that agree except on u                        *)
Agree(p, d, p2, d2, u) == \A x \in Thread : x # u => p2[x] = p[x] /\ d2[x] = d[x]

(* How many they are                                                       *)
Num(p, d, t, S) == Cardinality(Senders(p, d, t, S))

(* The tokens can be counted                                               *)
LEMMA CntNat ==
  ASSUME NEW T, NEW s \in Seq(T), NEW k
  PROVE  Cnt(s, k) \in Nat /\ IsFiniteSet({i \in DOMAIN s : s[i] = k})
  <1>1. DOMAIN s = 1 .. Len(s) /\ Len(s) \in Nat
    OBVIOUS
  <1>2. IsFiniteSet(1 .. Len(s))
    BY <1>1, FS_Interval
  <1>3. IsFiniteSet({i \in DOMAIN s : s[i] = k})
    BY <1>1, <1>2, FS_Subset
  <1> QED
    BY <1>3, FS_CardinalityType DEF Cnt

(* One more token                                                          *)
LEMMA CntAppend ==
  ASSUME NEW T, NEW s \in Seq(T), NEW e \in T, NEW k
  PROVE  /\ e = k => Cnt(Append(s, e), k) = Cnt(s, k) + 1
         /\ e # k => Cnt(Append(s, e), k) = Cnt(s, k)
  <1> DEFINE A == {i \in DOMAIN s : s[i] = k}
             B == {i \in DOMAIN Append(s, e) : Append(s, e)[i] = k}
  <1>1. /\ Len(s) \in Nat /\ DOMAIN s = 1 .. Len(s)
        /\ DOMAIN Append(s, e) = 1 .. Len(s) + 1
        /\ \A i \in 1 .. Len(s) : Append(s, e)[i] = s[i]
        /\ Append(s, e)[Len(s) + 1] = e
    BY Appended
  <1>2. IsFiniteSet(A) /\ Cardinality(A) \in Nat
    BY CntNat DEF Cnt
  <1>3. CASE e = k
    <2>1. B = A \cup {Len(s) + 1}
      BY <1>1, <1>3
    <2>2. Len(s) + 1 \notin A
      BY <1>1
    <2> HIDE DEF A, B
    <2>3. Cardinality(B) = Cardinality(A) + 1
      BY <1>2, <2>1, <2>2, FS_AddElement
    <2> QED
      BY <1>3, <2>3 DEF Cnt, A, B
  <1>4. CASE e # k
    <2>1. B = A
      BY <1>1, <1>4
    <2> QED
      BY <1>4, <2>1 DEF Cnt
  <1> QED
    BY <1>3, <1>4

(* One token less: the rest of the tokens are those from the second on     *)
LEMMA CntTail ==
  ASSUME NEW T, NEW s \in Seq(T), s # << >>, NEW k
  PROVE  /\ Head(s) = k => Cnt(s, k) = Cnt(Tail(s), k) + 1
         /\ Head(s) # k => Cnt(s, k) = Cnt(Tail(s), k)
         /\ Cnt(Tail(s), k) \in Nat
  <1> DEFINE A == {i \in DOMAIN s : s[i] = k}
             B == {i \in DOMAIN Tail(s) : Tail(s)[i] = k}
             F == [i \in B |-> i + 1]
  <1>1. /\ Len(s) \in Nat \ {0} /\ DOMAIN s = 1 .. Len(s) /\ Head(s) = s[1]
        /\ Tail(s) \in Seq(T) /\ DOMAIN Tail(s) = 1 .. Len(s) - 1
        /\ \A i \in 1 .. Len(s) - 1 : Tail(s)[i] = s[i + 1]
    BY HeadTail
  <1>2. IsFiniteSet(A) /\ Cardinality(A) \in Nat /\ IsFiniteSet(B) /\ Cardinality(B) \in Nat
    <2>1. IsFiniteSet(A) /\ Cardinality(A) \in Nat
      BY CntNat DEF Cnt
    <2>2. IsFiniteSet(B) /\ Cardinality(B) \in Nat
      BY <1>1, CntNat DEF Cnt
    <2> QED
      BY <2>1, <2>2
  <1>3. \A i \in B : i \in 1 .. Len(s) - 1 /\ i + 1 \in A \ {1}
    BY <1>1
  <1>4. \A j \in A \ {1} : j - 1 \in B /\ (j - 1) + 1 = j
    BY <1>1
  <1>5. F \in Bijection(B, A \ {1})
    <2> HIDE DEF A, B
    <2>1. F \in [B -> A \ {1}]
      BY <1>3
    <2>2. \A a, b \in B : F[a] = F[b] => a = b
      BY <1>3
    <2>3. \A j \in A \ {1} : \E i \in B : F[i] = j
      BY <1>4
    <2> HIDE DEF F
    <2> QED
      BY <2>1, <2>2, <2>3, Fun_IsBij
  <1>6. Cardinality(A \ {1}) = Cardinality(B)
    <2> HIDE DEF A, B, F
    <2>1. ExistsBijection(B, A \ {1})
      BY <1>5 DEF ExistsBijection
    <2> QED
      BY <1>2, <2>1, FS_Bijection
  <1>7. 1 \in A <=> Head(s) = k
    BY <1>1
  <1> HIDE DEF A, B
  <1>8. Cardinality(A \ {1}) = IF 1 \in A THEN Cardinality(A) - 1 ELSE Cardinality(A)
    BY <1>2, FS_RemoveElement
  <1>9. /\ Head(s) = k => Cardinality(A) = Cardinality(B) + 1
        /\ Head(s) # k => Cardinality(A) = Cardinality(B)
        /\ Cardinality(B) \in Nat
    BY <1>2, <1>6, <1>7, <1>8
  <1>10. Cnt(s, k) = Cardinality(A) /\ Cnt(Tail(s), k) = Cardinality(B)
    BY DEF Cnt, A, B
  <1> QED
    BY <1>9, <1>10

(* The workers of a server are finitely many                               *)
LEMMA ThreadsFinite == IsFiniteSet(Thread)
  <1>1. IsFiniteSet(SW)
    <2>1. DOMAIN SWs = 1 .. Len(SWs) /\ Len(SWs) \in Nat /\ SWs \in [1 .. Len(SWs) -> SW]
      BY PipelineAssumption
    <2>2. SWs \in Surjection(1 .. Len(SWs), SW)
      BY <2>1, Fun_RangeProperties DEF SW
    <2>3. IsFiniteSet(1 .. Len(SWs))
      BY <2>1, FS_Interval
    <2> QED
      BY <2>2, <2>3, FS_Surjection
  <1>2. IsFiniteSet(RW)
    <2>1. DOMAIN RWs = 1 .. Len(RWs) /\ Len(RWs) \in Nat /\ RWs \in [1 .. Len(RWs) -> RW]
      BY PipelineAssumption
    <2>2. RWs \in Surjection(1 .. Len(RWs), RW)
      BY <2>1, Fun_RangeProperties DEF RW
    <2>3. IsFiniteSet(1 .. Len(RWs))
      BY <2>1, FS_Interval
    <2> QED
      BY <2>2, <2>3, FS_Surjection
  <1>3. IsFiniteSet({"ss", "rs"})
    <2>1. {"ss", "rs"} = {"ss"} \cup {"rs"}
      OBVIOUS
    <2>2. IsFiniteSet({"ss"})
      BY FS_Singleton
    <2>3. IsFiniteSet({"ss"} \cup {"rs"})
      BY <2>2, FS_AddElement
    <2> QED
      BY <2>1, <2>3
  <1>4. IsFiniteSet({"ss", "rs"} \cup SW)
    BY <1>1, <1>3, FS_Union
  <1> QED
    BY <1>2, <1>4, FS_Union DEF Thread

(* When one thread starts or ends a send, the senders to t differ by it    *)
LEMMA SenderStep ==
  ASSUME NEW S \in SUBSET Thread, NEW t, NEW u \in Thread, NEW p, NEW d, NEW p2, NEW d2,
         Agree(p, d, p2, d2, u)
  PROVE  /\ Cardinality(Senders(p, d, t, S)) \in Nat /\ Cardinality(Senders(p2, d2, t, S)) \in Nat
         /\ (u \in Senders(p, d, t, S) <=> u \in Senders(p2, d2, t, S)) =>
              Cardinality(Senders(p2, d2, t, S)) = Cardinality(Senders(p, d, t, S))
         /\ u \notin Senders(p, d, t, S) /\ u \in Senders(p2, d2, t, S) =>
              Cardinality(Senders(p2, d2, t, S)) = Cardinality(Senders(p, d, t, S)) + 1
         /\ u \in Senders(p, d, t, S) /\ u \notin Senders(p2, d2, t, S) =>
              Cardinality(Senders(p, d, t, S)) = Cardinality(Senders(p2, d2, t, S)) + 1
  <1> DEFINE A == Senders(p, d, t, S)
             B == Senders(p2, d2, t, S)
  <1>1. A \subseteq Thread /\ B \subseteq Thread /\ A \ {u} = B \ {u}
    BY DEF Senders, Agree
  <1> HIDE DEF A, B
  <1>2. IsFiniteSet(A) /\ IsFiniteSet(B)
    BY <1>1, ThreadsFinite, FS_Subset
  <1>3. Cardinality(A) \in Nat /\ Cardinality(B) \in Nat
    BY <1>2, FS_CardinalityType
  <1>4. Cardinality(A \ {u}) = IF u \in A THEN Cardinality(A) - 1 ELSE Cardinality(A)
    BY <1>2, FS_RemoveElement
  <1>5. Cardinality(B \ {u}) = IF u \in B THEN Cardinality(B) - 1 ELSE Cardinality(B)
    BY <1>2, FS_RemoveElement
  <1>6. Cardinality(A \ {u}) = Cardinality(B \ {u})
    BY <1>1
  <1>7. /\ (u \in A <=> u \in B) => Cardinality(B) = Cardinality(A)
        /\ u \notin A /\ u \in B => Cardinality(B) = Cardinality(A) + 1
        /\ u \in A /\ u \notin B => Cardinality(A) = Cardinality(B) + 1
    BY <1>3, <1>4, <1>5, <1>6
  <1> QED
    BY <1>3, <1>7 DEF A, B

(* Paired, in terms of the two counts                                      *)
LEMMA PairedCounts ==
  /\ Paired <=>
       /\ \A t \in Thread : ~ Closed(t) =>
            Len(queue[t]) = Cnt(pipe[t], "RTC_MSG") + Num(pc, dest, t, Thread \ {"ss"})
       /\ \A w \in SW : ~ Closed(w) =>
            Len(qconn[w]) = Cnt(pipe[w], "NEW_CONN") + Num(pc, dest, w, {"ss"})
  /\ Paired' <=>
       /\ \A t \in Thread : pc'[t] \notin {"stop", "join", "done"} =>
            Len(queue'[t]) = Cnt(pipe'[t], "RTC_MSG") + Num(pc', dest', t, Thread \ {"ss"})
       /\ \A w \in SW : pc'[w] \notin {"stop", "join", "done"} =>
            Len(qconn'[w]) = Cnt(pipe'[w], "NEW_CONN") + Num(pc', dest', w, {"ss"})
  BY DEF Paired, TokenCount, Notifying, Cnt, Num, Senders, Closed

(* u starts to send to d                                                   *)
Starts(u, d) ==
  pc[u] # "notify" /\ pc' = [pc EXCEPT ![u] = "notify"] /\ dest' = [dest EXCEPT ![u] = d]

(* u has sent to d                                                         *)
Ends(u, d) ==
  /\ pc[u] = "notify" /\ dest[u] = d
  /\ pc' = [pc EXCEPT ![u] = "run"] /\ dest' = [dest EXCEPT ![u] = None]

(* One sender more to d, and as many as before to everybody else           *)
LEMMA SendStarts ==
  ASSUME ThreadType, NEW u \in Thread, NEW d, Starts(u, d),
         NEW t, NEW S \in SUBSET Thread
  PROVE  /\ Num(pc, dest, t, S) \in Nat
         /\ u \in S /\ t = d => Num(pc', dest', t, S) = Num(pc, dest, t, S) + 1
         /\ ~ (u \in S /\ t = d) => Num(pc', dest', t, S) = Num(pc, dest, t, S)
  <1>1. Agree(pc, dest, pc', dest', u)
    BY DEF ThreadType, Agree, Starts
  <1>2. pc[u] # "notify" /\ pc'[u] = "notify" /\ dest'[u] = d
    BY DEF ThreadType, Starts
  <1>3. u \notin Senders(pc, dest, t, S) /\ (u \in Senders(pc', dest', t, S) <=> u \in S /\ t = d)
    BY <1>2 DEF Senders
  <1>4. /\ Cardinality(Senders(pc, dest, t, S)) \in Nat
        /\ (u \in Senders(pc, dest, t, S) <=> u \in Senders(pc', dest', t, S)) =>
              Cardinality(Senders(pc', dest', t, S)) = Cardinality(Senders(pc, dest, t, S))
        /\ u \notin Senders(pc, dest, t, S) /\ u \in Senders(pc', dest', t, S) =>
              Cardinality(Senders(pc', dest', t, S)) = Cardinality(Senders(pc, dest, t, S)) + 1
    BY <1>1, SenderStep
  <1> QED
    BY <1>3, <1>4 DEF Num

(* One sender less                                                         *)
LEMMA SendEnds ==
  ASSUME ThreadType, NEW u \in Thread, NEW d, Ends(u, d),
         NEW t, NEW S \in SUBSET Thread
  PROVE  /\ Num(pc', dest', t, S) \in Nat
         /\ u \in S /\ t = d => Num(pc, dest, t, S) = Num(pc', dest', t, S) + 1
         /\ ~ (u \in S /\ t = d) => Num(pc, dest, t, S) = Num(pc', dest', t, S)
  <1>1. Agree(pc, dest, pc', dest', u)
    BY DEF ThreadType, Agree, Ends
  <1>2. pc'[u] = "run" /\ pc[u] = "notify" /\ dest[u] = d
    BY DEF ThreadType, Ends
  <1>3. u \notin Senders(pc', dest', t, S) /\ (u \in Senders(pc, dest, t, S) <=> u \in S /\ t = d)
    BY <1>2 DEF Senders
  <1>4. /\ Cardinality(Senders(pc', dest', t, S)) \in Nat
        /\ (u \in Senders(pc, dest, t, S) <=> u \in Senders(pc', dest', t, S)) =>
              Cardinality(Senders(pc', dest', t, S)) = Cardinality(Senders(pc, dest, t, S))
        /\ u \in Senders(pc, dest, t, S) /\ u \notin Senders(pc', dest', t, S) =>
              Cardinality(Senders(pc, dest, t, S)) = Cardinality(Senders(pc', dest', t, S)) + 1
    BY <1>1, SenderStep
  <1> QED
    BY <1>3, <1>4 DEF Num

(* As many senders                                                         *)
LEMMA NoSend ==
  ASSUME ThreadType, NEW u \in Thread, pc[u] # "notify", pc'[u] # "notify",
         Agree(pc, dest, pc', dest', u), NEW t, NEW S \in SUBSET Thread
  PROVE  Num(pc, dest, t, S) \in Nat /\ Num(pc', dest', t, S) = Num(pc, dest, t, S)
  <1>1. u \notin Senders(pc', dest', t, S) /\ u \notin Senders(pc, dest, t, S)
    BY DEF Senders
  <1>2. /\ Cardinality(Senders(pc, dest, t, S)) \in Nat
        /\ (u \in Senders(pc, dest, t, S) <=> u \in Senders(pc', dest', t, S)) =>
              Cardinality(Senders(pc', dest', t, S)) = Cardinality(Senders(pc, dest, t, S))
    BY SenderStep
  <1> QED
    BY <1>1, <1>2 DEF Num

(* A token written to a pipe that is open, and one read                    *)
LEMMA WriteCount ==
  ASSUME ThreadType, NEW x \in Thread, NEW tok \in Token, Write(x, tok)
  PROVE  \A t \in Thread, k \in Token : ~ Closed(t) =>
           /\ Cnt(pipe[t], k) \in Nat
           /\ t = x /\ k = tok => Cnt(pipe'[t], k) = Cnt(pipe[t], k) + 1
           /\ ~ (t = x /\ k = tok) => Cnt(pipe'[t], k) = Cnt(pipe[t], k)
  <1> SUFFICES ASSUME NEW t \in Thread, NEW k \in Token, ~ Closed(t)
               PROVE  /\ Cnt(pipe[t], k) \in Nat
                      /\ t = x /\ k = tok => Cnt(pipe'[t], k) = Cnt(pipe[t], k) + 1
                      /\ ~ (t = x /\ k = tok) => Cnt(pipe'[t], k) = Cnt(pipe[t], k)
    OBVIOUS
  <1>1. pipe \in [Thread -> Seq(Token)] /\ pipe[t] \in Seq(Token)
    BY DEF ThreadType
  <1>2. Cnt(pipe[t], k) \in Nat
    BY <1>1, CntNat
  <1>3. CASE pipe' = pipe /\ t # x
    BY <1>2, <1>3
  <1>4. CASE pipe' = [pipe EXCEPT ![x] = Append(@, tok)]
    <2>1. CASE t # x
      BY <1>1, <1>2, <1>4, <2>1
    <2>2. CASE t = x
      <3>1. pipe'[t] = Append(pipe[t], tok)
        BY <1>1, <1>4, <2>2
      <3> QED
        BY <1>1, <1>2, <2>2, <3>1, CntAppend
    <2> QED
      BY <2>1, <2>2
  <1> QED
    BY <1>3, <1>4 DEF Write

(* A token read                                                            *)
LEMMA ReadCount ==
  ASSUME ThreadType, NEW x \in Thread, NEW tok \in Token, Received(x, tok)
  PROVE  \A t \in Thread, k \in Token :
           /\ Cnt(pipe'[t], k) \in Nat
           /\ t = x /\ k = tok => Cnt(pipe[t], k) = Cnt(pipe'[t], k) + 1
           /\ ~ (t = x /\ k = tok) => Cnt(pipe[t], k) = Cnt(pipe'[t], k)
  <1> SUFFICES ASSUME NEW t \in Thread, NEW k \in Token
               PROVE  /\ Cnt(pipe'[t], k) \in Nat
                      /\ t = x /\ k = tok => Cnt(pipe[t], k) = Cnt(pipe'[t], k) + 1
                      /\ ~ (t = x /\ k = tok) => Cnt(pipe[t], k) = Cnt(pipe'[t], k)
    OBVIOUS
  <1>1. pipe \in [Thread -> Seq(Token)] /\ pipe[t] \in Seq(Token)
    BY DEF ThreadType
  <1>2. /\ pipe[x] # << >> /\ Head(pipe[x]) = tok
        /\ pipe' = [pipe EXCEPT ![x] = Tail(@)]
    BY DEF Received
  <1>3. CASE t # x
    <2>1. pipe'[t] = pipe[t]
      BY <1>1, <1>2, <1>3
    <2> QED
      BY <1>1, <1>3, <2>1, CntNat
  <1>4. CASE t = x
    <2>1. pipe'[t] = Tail(pipe[t])
      BY <1>1, <1>2, <1>4
    <2>2. /\ Head(pipe[t]) = k => Cnt(pipe[t], k) = Cnt(Tail(pipe[t]), k) + 1
          /\ Head(pipe[t]) # k => Cnt(pipe[t], k) = Cnt(Tail(pipe[t]), k)
          /\ Cnt(Tail(pipe[t]), k) \in Nat
      BY <1>1, <1>2, <1>4, CntTail
    <2> QED
      BY <1>2, <1>4, <2>1, <2>2
  <1> QED
    BY <1>3, <1>4

(* The end of a send: one token more, one sender less                      *)
LEMMA SentPaired ==
  ASSUME PipeInv, Paired, NEW u \in Thread, NEW d \in Thread, Ends(u, d),
         u = "ss" => Write(d, "NEW_CONN"), u # "ss" => Write(d, "RTC_MSG"),
         UNCHANGED <<queue, qconn>>
  PROVE  Paired'
  <1> DEFINE R == "RTC_MSG"
             C == "NEW_CONN"
             T == Thread \ {"ss"}
             tok == IF u = "ss" THEN "NEW_CONN" ELSE "RTC_MSG"
  <1>1. ThreadType /\ Write(d, tok) /\ tok \in Token /\ R \in Token /\ C \in Token
        /\ T \in SUBSET Thread /\ {"ss"} \in SUBSET Thread /\ SW \subseteq Thread
    BY ThreadFacts DEF PipeInv, Token
  <1>2. \A t \in Thread : pc'[t] \notin {"stop", "join", "done"} => ~ Closed(t)
    BY <1>1 DEF ThreadType, Closed, Ends
  <1>3. \A t \in Thread, k \in Token : ~ Closed(t) =>
           /\ Cnt(pipe[t], k) \in Nat
           /\ t = d /\ k = tok => Cnt(pipe'[t], k) = Cnt(pipe[t], k) + 1
           /\ ~ (t = d /\ k = tok) => Cnt(pipe'[t], k) = Cnt(pipe[t], k)
    BY <1>1, WriteCount
  <1>4. \A t : /\ Num(pc', dest', t, T) \in Nat
               /\ u \in T /\ t = d => Num(pc, dest, t, T) = Num(pc', dest', t, T) + 1
               /\ ~ (u \in T /\ t = d) => Num(pc, dest, t, T) = Num(pc', dest', t, T)
    BY <1>1, SendEnds
  <1>7. \A t : /\ Num(pc', dest', t, {"ss"}) \in Nat
               /\ u = "ss" /\ t = d => Num(pc, dest, t, {"ss"}) = Num(pc', dest', t, {"ss"}) + 1
               /\ ~ (u = "ss" /\ t = d) => Num(pc, dest, t, {"ss"}) = Num(pc', dest', t, {"ss"})
    <2>1. \A t : /\ Num(pc', dest', t, {"ss"}) \in Nat
                 /\ u \in {"ss"} /\ t = d => Num(pc, dest, t, {"ss"}) = Num(pc', dest', t, {"ss"}) + 1
                 /\ ~ (u \in {"ss"} /\ t = d) => Num(pc, dest, t, {"ss"}) = Num(pc', dest', t, {"ss"})
      BY <1>1, SendEnds
    <2> QED
      BY <2>1
  <1>5. ASSUME NEW t \in Thread, pc'[t] \notin {"stop", "join", "done"}
        PROVE  Len(queue'[t]) = Cnt(pipe'[t], R) + Num(pc', dest', t, T)
    <2>1. ~ Closed(t) /\ Len(queue'[t]) = Cnt(pipe[t], R) + Num(pc, dest, t, T)
      BY <1>2, <1>5, PairedCounts
    <2>2. /\ Cnt(pipe[t], R) \in Nat
          /\ t = d /\ R = tok => Cnt(pipe'[t], R) = Cnt(pipe[t], R) + 1
          /\ ~ (t = d /\ R = tok) => Cnt(pipe'[t], R) = Cnt(pipe[t], R)
      BY <1>1, <1>3, <2>1
    <2>3. /\ Num(pc', dest', t, T) \in Nat
          /\ u \in T /\ t = d => Num(pc, dest, t, T) = Num(pc', dest', t, T) + 1
          /\ ~ (u \in T /\ t = d) => Num(pc, dest, t, T) = Num(pc', dest', t, T)
      BY <1>4
    <2>4. (u \in T <=> u # "ss") /\ (R = tok <=> u # "ss")
      OBVIOUS
    <2> HIDE DEF T, R, tok
    <2> QED
      BY <2>1, <2>2, <2>3, <2>4
  <1>6. ASSUME NEW t \in SW, pc'[t] \notin {"stop", "join", "done"}
        PROVE  Len(qconn'[t]) = Cnt(pipe'[t], C) + Num(pc', dest', t, {"ss"})
    <2>1. ~ Closed(t) /\ Len(qconn'[t]) = Cnt(pipe[t], C) + Num(pc, dest, t, {"ss"})
      BY <1>1, <1>2, <1>6, PairedCounts
    <2>2. /\ Cnt(pipe[t], C) \in Nat
          /\ t = d /\ C = tok => Cnt(pipe'[t], C) = Cnt(pipe[t], C) + 1
          /\ ~ (t = d /\ C = tok) => Cnt(pipe'[t], C) = Cnt(pipe[t], C)
      BY <1>1, <1>3, <2>1
    <2>3. C = tok <=> u = "ss"
      OBVIOUS
    <2> HIDE DEF C, tok
    <2> QED
      BY <1>7, <2>1, <2>2, <2>3
  <1> QED
    BY <1>5, <1>6, PairedCounts

(* A token always finds its message                                        *)
LEMMA TokenHasMessage ==
  ASSUME PipeInv, Paired, NEW u \in Thread
  PROVE  /\ Received(u, "RTC_MSG") => queue[u] # << >>
         /\ u \in SW /\ Received(u, "NEW_CONN") => qconn[u] # << >>
  <1>1. ThreadType /\ "RTC_MSG" \in Token /\ "NEW_CONN" \in Token
        /\ Thread \ {"ss"} \in SUBSET Thread /\ {"ss"} \in SUBSET Thread
    BY ThreadFacts DEF PipeInv, Token
  <1>2. \A S : S \in SUBSET Thread => Num(pc, dest, u, S) \in Nat
    <2>1. Agree(pc, dest, pc, dest, u)
      BY DEF Agree
    <2> QED
      BY <2>1, SenderStep DEF Num
  <1>3. ASSUME Received(u, "RTC_MSG") PROVE queue[u] # << >>
    <2>1. Cnt(pipe[u], "RTC_MSG") \in Nat \ {0}
      BY <1>1, <1>3, ReadCount
    <2>2. ~ Closed(u)
      BY <1>3 DEF Received, Closed
    <2>3. Len(queue[u]) = Cnt(pipe[u], "RTC_MSG") + Num(pc, dest, u, Thread \ {"ss"})
      BY <2>2, PairedCounts
    <2>4. Len(queue[u]) # 0
      BY <1>1, <1>2, <2>1, <2>3
    <2> QED
      BY <2>4
  <1>4. ASSUME u \in SW, Received(u, "NEW_CONN") PROVE qconn[u] # << >>
    <2>1. Cnt(pipe[u], "NEW_CONN") \in Nat \ {0}
      BY <1>1, <1>4, ReadCount
    <2>2. ~ Closed(u)
      BY <1>4 DEF Received, Closed
    <2>3. Len(qconn[u]) = Cnt(pipe[u], "NEW_CONN") + Num(pc, dest, u, {"ss"})
      BY <1>4, <2>2, PairedCounts
    <2>4. Len(qconn[u]) # 0
      BY <1>1, <1>2, <2>1, <2>3
    <2> QED
      BY <2>4
  <1> QED
    BY <1>3, <1>4

(* A message taken with its token, and nothing sent                        *)
LEMMA TakenPaired ==
  ASSUME PipeInv, Paired, NEW u \in Thread, Received(u, "RTC_MSG"), queue[u] # << >>,
         queue' = [queue EXCEPT ![u] = Tail(@)], UNCHANGED <<pc, dest, qconn>>
  PROVE  Paired'
  <1> DEFINE R == "RTC_MSG"
             C == "NEW_CONN"
             T == Thread \ {"ss"}
  <1>1. ThreadType /\ R \in Token /\ C \in Token /\ SW \subseteq Thread /\ T \in SUBSET Thread
        /\ queue \in [Thread -> Seq(Client)]
    BY ThreadFacts DEF PipeInv, Token, QueueType
  <1>2. \A t \in Thread, k \in Token :
           /\ Cnt(pipe'[t], k) \in Nat
           /\ t = u /\ k = R => Cnt(pipe[t], k) = Cnt(pipe'[t], k) + 1
           /\ ~ (t = u /\ k = R) => Cnt(pipe[t], k) = Cnt(pipe'[t], k)
    BY <1>1, ReadCount
  <1>3. /\ Len(queue[u]) \in Nat /\ Len(queue'[u]) = Len(queue[u]) - 1
        /\ \A t \in Thread : t # u => queue'[t] = queue[t]
    BY <1>1, HeadTail
  <1>4. \A t : Num(pc, dest, t, T) \in Nat
    <2>1. Agree(pc, dest, pc, dest, u)
      BY DEF Agree
    <2> QED
      BY <1>1, <2>1, SenderStep DEF Num
  <1>5. ASSUME NEW t \in Thread, pc'[t] \notin {"stop", "join", "done"}
        PROVE  Len(queue'[t]) = Cnt(pipe'[t], R) + Num(pc', dest', t, T)
    <2>1. Len(queue[t]) = Cnt(pipe[t], R) + Num(pc, dest, t, T)
      BY <1>5, PairedCounts DEF Closed
    <2>2. /\ Cnt(pipe'[t], R) \in Nat
          /\ t = u => Cnt(pipe[t], R) = Cnt(pipe'[t], R) + 1
          /\ t # u => Cnt(pipe[t], R) = Cnt(pipe'[t], R)
      BY <1>1, <1>2
    <2>3. Num(pc', dest', t, T) = Num(pc, dest, t, T) /\ Num(pc, dest, t, T) \in Nat
      BY <1>4
    <2> HIDE DEF R, T
    <2>4. CASE t = u
      BY <1>3, <2>1, <2>2, <2>3, <2>4
    <2>5. CASE t # u
      BY <1>3, <2>1, <2>2, <2>3, <2>5
    <2> QED
      BY <2>4, <2>5
  <1>6. ASSUME NEW t \in SW, pc'[t] \notin {"stop", "join", "done"}
        PROVE  Len(qconn'[t]) = Cnt(pipe'[t], C) + Num(pc', dest', t, {"ss"})
    <2>1. Len(qconn[t]) = Cnt(pipe[t], C) + Num(pc, dest, t, {"ss"})
      BY <1>1, <1>6, PairedCounts DEF Closed
    <2>2. Cnt(pipe'[t], C) = Cnt(pipe[t], C)
      BY <1>1, <1>2
    <2> QED
      BY <2>1, <2>2
  <1> QED
    BY <1>5, <1>6, PairedCounts

(* A message taken with its token and passed on to d                       *)
LEMMA PassedPaired ==
  ASSUME PipeInv, Paired, NEW u \in Thread, NEW d \in Thread, d # u, u # "ss",
         Received(u, "RTC_MSG"), queue[u] # << >>,
         queue' = [queue EXCEPT ![u] = Tail(@), ![d] = Append(@, Head(queue[u]))],
         Starts(u, d), UNCHANGED qconn
  PROVE  Paired'
  <1> DEFINE R == "RTC_MSG"
             C == "NEW_CONN"
             T == Thread \ {"ss"}
  <1>1. ThreadType /\ R \in Token /\ C \in Token /\ SW \subseteq Thread /\ T \in SUBSET Thread
        /\ {"ss"} \in SUBSET Thread /\ queue \in [Thread -> Seq(Client)] /\ u \in T /\ u \notin {"ss"}
    BY ThreadFacts DEF PipeInv, Token, QueueType
  <1>2. \A t \in Thread, k \in Token :
           /\ Cnt(pipe'[t], k) \in Nat
           /\ t = u /\ k = R => Cnt(pipe[t], k) = Cnt(pipe'[t], k) + 1
           /\ ~ (t = u /\ k = R) => Cnt(pipe[t], k) = Cnt(pipe'[t], k)
    BY <1>1, ReadCount
  <1>3. queue'[u] = Tail(queue[u]) /\ queue'[d] = Append(queue[d], Head(queue[u]))
        /\ \A t \in Thread : t # u /\ t # d => queue'[t] = queue[t]
    BY <1>1
  <1>4. /\ Len(queue[u]) \in Nat /\ Len(queue'[u]) = Len(queue[u]) - 1
        /\ Head(queue[u]) \in Client
    BY <1>1, <1>3, HeadTail
  <1>5. Len(queue[d]) \in Nat /\ Len(queue'[d]) = Len(queue[d]) + 1
    BY <1>1, <1>3, <1>4, Appended
  <1>6. pc[u] = "run"
    BY DEF Received
  <1>7. \A t : /\ Num(pc, dest, t, T) \in Nat
               /\ u \in T /\ t = d => Num(pc', dest', t, T) = Num(pc, dest, t, T) + 1
               /\ ~ (u \in T /\ t = d) => Num(pc', dest', t, T) = Num(pc, dest, t, T)
    BY <1>1, <1>6, SendStarts
  <1>11. \A t : ~ (u \in {"ss"} /\ t = d) =>
           Num(pc', dest', t, {"ss"}) = Num(pc, dest, t, {"ss"})
    BY <1>1, <1>6, SendStarts
  <1>8. \A t \in Thread : pc'[t] \notin {"stop", "join", "done"} => ~ Closed(t)
    BY <1>1, <1>6 DEF ThreadType, Closed, Starts
  <1>9. ASSUME NEW t \in Thread, pc'[t] \notin {"stop", "join", "done"}
        PROVE  Len(queue'[t]) = Cnt(pipe'[t], R) + Num(pc', dest', t, T)
    <2>1. Len(queue[t]) = Cnt(pipe[t], R) + Num(pc, dest, t, T)
      BY <1>8, <1>9, PairedCounts
    <2>2. /\ Cnt(pipe'[t], R) \in Nat
          /\ t = u => Cnt(pipe[t], R) = Cnt(pipe'[t], R) + 1
          /\ t # u => Cnt(pipe[t], R) = Cnt(pipe'[t], R)
      BY <1>1, <1>2
    <2>3. /\ Num(pc, dest, t, T) \in Nat
          /\ t = d => Num(pc', dest', t, T) = Num(pc, dest, t, T) + 1
          /\ t # d => Num(pc', dest', t, T) = Num(pc, dest, t, T)
      BY <1>1, <1>7
    <2> HIDE DEF R, T
    <2>4. CASE t = u
      BY <1>4, <2>1, <2>2, <2>3, <2>4
    <2>5. CASE t = d
      BY <1>5, <2>1, <2>2, <2>3, <2>5
    <2>6. CASE t # u /\ t # d
      BY <1>3, <2>1, <2>2, <2>3, <2>6
    <2> QED
      BY <2>4, <2>5, <2>6
  <1>10. ASSUME NEW t \in SW, pc'[t] \notin {"stop", "join", "done"}
         PROVE  Len(qconn'[t]) = Cnt(pipe'[t], C) + Num(pc', dest', t, {"ss"})
    <2>1. Len(qconn[t]) = Cnt(pipe[t], C) + Num(pc, dest, t, {"ss"})
      BY <1>1, <1>8, <1>10, PairedCounts
    <2>2. Cnt(pipe'[t], C) = Cnt(pipe[t], C)
      BY <1>1, <1>2
    <2>3. Num(pc', dest', t, {"ss"}) = Num(pc, dest, t, {"ss"})
      BY <1>1, <1>11
    <2> QED
      BY <2>1, <2>2, <2>3
  <1> QED
    BY <1>9, <1>10, PairedCounts

(* Steps that leave the counts of the open threads alone                   *)
LEMMA StillPaired ==
  ASSUME PipeInv, Paired, UNCHANGED <<queue, qconn>>,
         \A t \in Thread : pc'[t] \notin {"stop", "join", "done"} =>
           /\ ~ Closed(t)
           /\ Cnt(pipe'[t], "RTC_MSG") = Cnt(pipe[t], "RTC_MSG")
           /\ Cnt(pipe'[t], "NEW_CONN") = Cnt(pipe[t], "NEW_CONN"),
         \A t \in Thread :
           /\ Num(pc', dest', t, Thread \ {"ss"}) = Num(pc, dest, t, Thread \ {"ss"})
           /\ Num(pc', dest', t, {"ss"}) = Num(pc, dest, t, {"ss"})
  PROVE  Paired'
  BY PairedCounts, ThreadFacts

(* A server or worker that stops, or moves on in its _stop                 *)
LEMMA StopPaired ==
  ASSUME PipeInv, Paired, NEW u \in Thread, pc[u] # "notify", UNCHANGED <<queue, qconn>>,
         pc'[u] \in {"stop", "join", "done"}, Agree(pc, dest, pc', dest', u),
         \A t \in Thread : t # u /\ ~ Closed(t) =>
           /\ Cnt(pipe'[t], "RTC_MSG") = Cnt(pipe[t], "RTC_MSG")
           /\ Cnt(pipe'[t], "NEW_CONN") = Cnt(pipe[t], "NEW_CONN")
  PROVE  Paired'
  <1>1. ThreadType /\ Thread \ {"ss"} \in SUBSET Thread /\ {"ss"} \in SUBSET Thread
    BY ThreadFacts DEF PipeInv
  <1>2. \A t \in Thread : Num(pc', dest', t, Thread \ {"ss"}) = Num(pc, dest, t, Thread \ {"ss"})
    BY <1>1, NoSend
  <1>3. \A t \in Thread : Num(pc', dest', t, {"ss"}) = Num(pc, dest, t, {"ss"})
    BY <1>1, NoSend
  <1>4. \A t \in Thread : pc'[t] \notin {"stop", "join", "done"} =>
           /\ ~ Closed(t)
           /\ Cnt(pipe'[t], "RTC_MSG") = Cnt(pipe[t], "RTC_MSG")
           /\ Cnt(pipe'[t], "NEW_CONN") = Cnt(pipe[t], "NEW_CONN")
    BY DEF Closed, Agree
  <1> QED
    BY <1>2, <1>3, <1>4, StillPaired

(* The _stop of servers and workers                                        *)
LEMMA ShutdownPaired ==
  ASSUME PipeInv, Paired, NEW t \in Thread,
         StopWorker(t) \/ StopServer(t) \/ QuitWorker(t) \/ JoinWorker(t)
  PROVE  Paired'
  <1>1. ThreadType /\ Threads /\ {"QUIT", "RTC_MSG", "NEW_CONN"} \subseteq Token
    BY DEF PipeInv, Token
  <1>2. CASE StopWorker(t) \/ StopServer(t)
    <2>1. /\ Received(t, "QUIT") /\ UNCHANGED <<queue, qconn>>
          /\ \/ pc' = [pc EXCEPT ![t] = "done"] /\ dest' = dest
             \/ pc' = [pc EXCEPT ![t] = "stop"] /\ \E d : dest' = [dest EXCEPT ![t] = d]
      BY <1>2 DEF StopWorker, StopServer
    <2>2. Agree(pc, dest, pc', dest', t) /\ pc'[t] \in {"stop", "join", "done"}
      BY <1>1, <2>1 DEF ThreadType, Agree
    <2>3. pc[t] # "notify" /\ pipe' = [pipe EXCEPT ![t] = Tail(@)]
      BY <2>1 DEF Received
    <2>4. \A u \in Thread : u # t => pipe'[u] = pipe[u]
      BY <1>1, <2>3 DEF ThreadType
    <2> QED
      BY <2>1, <2>2, <2>3, <2>4, StopPaired
  <1>3. CASE QuitWorker(t)
    <2>1. /\ pc[t] = "stop" /\ Write(dest[t], "QUIT") /\ pc' = [pc EXCEPT ![t] = "join"]
          /\ dest' = dest /\ UNCHANGED <<queue, qconn>>
      BY <1>3 DEF QuitWorker
    <2>2. PICK d \in Thread : d = dest[t]
      BY <1>1, <2>1, ThreadFacts DEF Threads, Thread
    <2>3. \A u \in Thread : ~ Closed(u) =>
             /\ Cnt(pipe'[u], "RTC_MSG") = Cnt(pipe[u], "RTC_MSG")
             /\ Cnt(pipe'[u], "NEW_CONN") = Cnt(pipe[u], "NEW_CONN")
      BY <1>1, <2>1, <2>2, WriteCount
    <2>4. Agree(pc, dest, pc', dest', t) /\ pc'[t] \in {"stop", "join", "done"}
      BY <1>1, <2>1 DEF ThreadType, Agree
    <2> QED
      BY <2>1, <2>3, <2>4, StopPaired
  <1>4. CASE JoinWorker(t)
    <2>1. /\ pc[t] = "join" /\ UNCHANGED <<pipe, queue, qconn>>
          /\ \E p \in {"stop", "done"} : \E d :
                pc' = [pc EXCEPT ![t] = p] /\ dest' = [dest EXCEPT ![t] = d]
      BY <1>4 DEF JoinWorker
    <2>2. Agree(pc, dest, pc', dest', t) /\ pc'[t] \in {"stop", "join", "done"}
      BY <1>1, <2>1 DEF ThreadType, Agree
    <2> QED
      BY <2>1, <2>2, StopPaired
  <1> QED
    BY <1>2, <1>3, <1>4

(* QUIT is not a token of a message                                        *)
LEMMA QuitPaired ==
  ASSUME PipeInv, Paired, Quit
  PROVE  Paired'
  <1>1. ThreadType /\ {"QUIT", "RTC_MSG", "NEW_CONN"} \subseteq Token
    BY DEF PipeInv, Token
  <1>2. UNCHANGED <<pc, dest, queue, qconn>>
    BY DEF Quit
  <1>3. PICK x \in Thread : Write(x, "QUIT")
    BY ThreadFacts DEF Quit
  <1>4. \A u \in Thread : ~ Closed(u) =>
           /\ Cnt(pipe'[u], "RTC_MSG") = Cnt(pipe[u], "RTC_MSG")
           /\ Cnt(pipe'[u], "NEW_CONN") = Cnt(pipe[u], "NEW_CONN")
    BY <1>1, <1>3, WriteCount
  <1>5. \A t \in Thread : pc'[t] \notin {"stop", "join", "done"} => ~ Closed(t)
    BY <1>2 DEF Closed
  <1> QED
    BY <1>2, <1>4, <1>5, StillPaired

(* A request or a descriptor pushed, its token still to be written         *)
LEMMA SubmitPaired ==
  ASSUME PipeInv, Paired, NEW w \in SW, NEW c \in Client, NEW n, NEW k, Submit(w, c, n, k)
  PROVE  Paired'
  <1> DEFINE R == "RTC_MSG"
             C == "NEW_CONN"
             T == Thread \ {"ss"}
  <1>1. ThreadType /\ w \in Thread /\ w \in T /\ w \notin {"ss"} /\ "rs" \in Thread
        /\ T \in SUBSET Thread /\ {"ss"} \in SUBSET Thread
        /\ queue \in [Thread -> Seq(Client)] /\ SW \subseteq Thread
    BY ThreadFacts DEF PipeInv, QueueType
  <1>2. /\ Starts(w, "rs") /\ UNCHANGED <<pipe, qconn>>
        /\ queue' = [queue EXCEPT !["rs"] = Append(@, c)] /\ pc[w] = "run"
    BY DEF Submit, Watched, Sending, Starts
  <1>3. /\ Len(queue'["rs"]) = Len(queue["rs"]) + 1
        /\ \A t \in Thread : t # "rs" => queue'[t] = queue[t]
    BY <1>1, <1>2, Appended
  <1>4. \A t : /\ Num(pc, dest, t, T) \in Nat
               /\ w \in T /\ t = "rs" => Num(pc', dest', t, T) = Num(pc, dest, t, T) + 1
               /\ ~ (w \in T /\ t = "rs") => Num(pc', dest', t, T) = Num(pc, dest, t, T)
    BY <1>1, <1>2, SendStarts
  <1>5. \A t : ~ (w \in {"ss"} /\ t = "rs") =>
           Num(pc', dest', t, {"ss"}) = Num(pc, dest, t, {"ss"})
    BY <1>1, <1>2, SendStarts
  <1>6. \A t \in Thread : pc'[t] \notin {"stop", "join", "done"} => ~ Closed(t)
    BY <1>1, <1>2 DEF ThreadType, Closed, Starts
  <1>7. \A t \in Thread : Cnt(pipe[t], R) \in Nat
    BY <1>1, CntNat DEF ThreadType
  <1>8. ASSUME NEW t \in Thread, pc'[t] \notin {"stop", "join", "done"}
        PROVE  Len(queue'[t]) = Cnt(pipe'[t], R) + Num(pc', dest', t, T)
    <2>1. Len(queue[t]) = Cnt(pipe[t], R) + Num(pc, dest, t, T)
      BY <1>6, <1>8, PairedCounts
    <2>2. pipe'[t] = pipe[t] /\ Cnt(pipe[t], R) \in Nat
      BY <1>2, <1>7
    <2>3. /\ Num(pc, dest, t, T) \in Nat
          /\ t = "rs" => Num(pc', dest', t, T) = Num(pc, dest, t, T) + 1
          /\ t # "rs" => Num(pc', dest', t, T) = Num(pc, dest, t, T)
      BY <1>1, <1>4
    <2> HIDE DEF R, T
    <2>4. CASE t = "rs"
      BY <1>3, <2>1, <2>2, <2>3, <2>4
    <2>5. CASE t # "rs"
      BY <1>3, <2>1, <2>2, <2>3, <2>5
    <2> QED
      BY <2>4, <2>5
  <1>9. ASSUME NEW t \in SW, pc'[t] \notin {"stop", "join", "done"}
        PROVE  Len(qconn'[t]) = Cnt(pipe'[t], C) + Num(pc', dest', t, {"ss"})
    <2>1. Len(qconn[t]) = Cnt(pipe[t], C) + Num(pc, dest, t, {"ss"})
      BY <1>1, <1>6, <1>9, PairedCounts
    <2>2. Num(pc', dest', t, {"ss"}) = Num(pc, dest, t, {"ss"})
      BY <1>1, <1>5
    <2> QED
      BY <1>2, <2>1, <2>2
  <1> QED
    BY <1>8, <1>9, PairedCounts

(* A descriptor, which SignalingServer is about to announce                *)
LEMMA AcceptPaired ==
  ASSUME PipeInv, Paired, NEW c \in Client, Accept(c)
  PROVE  Paired'
  <1> DEFINE R == "RTC_MSG"
             C == "NEW_CONN"
             T == Thread \ {"ss"}
  <1>1. ThreadType /\ "ss" \in Thread /\ "ss" \notin T /\ "ss" \in {"ss"}
        /\ T \in SUBSET Thread /\ {"ss"} \in SUBSET Thread
        /\ qconn \in [SW -> Seq(Client)] /\ SW \subseteq Thread
    BY ThreadFacts DEF PipeInv, QueueType
  <1>2. PICK w \in SW : w = SWs[nextw]
    BY <1>1, ThreadFacts DEF ThreadType
  <1>3. /\ Starts("ss", w) /\ UNCHANGED <<pipe, queue>>
        /\ qconn' = [qconn EXCEPT ![w] = Append(@, c)] /\ pc["ss"] = "run"
    BY <1>2 DEF Accept, Sending, Starts
  <1>4. /\ Len(qconn'[w]) = Len(qconn[w]) + 1
        /\ \A t \in SW : t # w => qconn'[t] = qconn[t]
    BY <1>1, <1>3, Appended
  <1>5. \A t : /\ Num(pc, dest, t, {"ss"}) \in Nat
               /\ "ss" \in {"ss"} /\ t = w =>
                    Num(pc', dest', t, {"ss"}) = Num(pc, dest, t, {"ss"}) + 1
               /\ ~ ("ss" \in {"ss"} /\ t = w) =>
                    Num(pc', dest', t, {"ss"}) = Num(pc, dest, t, {"ss"})
    BY <1>1, <1>3, SendStarts
  <1>6. \A t : ~ ("ss" \in T /\ t = w) => Num(pc', dest', t, T) = Num(pc, dest, t, T)
    BY <1>1, <1>3, SendStarts
  <1>7. \A t \in Thread : pc'[t] \notin {"stop", "join", "done"} => ~ Closed(t)
    BY <1>1, <1>3 DEF ThreadType, Closed, Starts
  <1>8. \A t \in Thread : Cnt(pipe[t], C) \in Nat
    BY <1>1, CntNat DEF ThreadType
  <1>9. ASSUME NEW t \in Thread, pc'[t] \notin {"stop", "join", "done"}
        PROVE  Len(queue'[t]) = Cnt(pipe'[t], R) + Num(pc', dest', t, T)
    <2>1. Len(queue[t]) = Cnt(pipe[t], R) + Num(pc, dest, t, T)
      BY <1>7, <1>9, PairedCounts
    <2>2. Num(pc', dest', t, T) = Num(pc, dest, t, T)
      BY <1>1, <1>6
    <2> QED
      BY <1>3, <2>1, <2>2
  <1>10. ASSUME NEW t \in SW, pc'[t] \notin {"stop", "join", "done"}
         PROVE  Len(qconn'[t]) = Cnt(pipe'[t], C) + Num(pc', dest', t, {"ss"})
    <2>1. Len(qconn[t]) = Cnt(pipe[t], C) + Num(pc, dest, t, {"ss"})
      BY <1>1, <1>7, <1>10, PairedCounts
    <2>2. pipe'[t] = pipe[t] /\ Cnt(pipe[t], C) \in Nat
      BY <1>1, <1>3, <1>8
    <2>3. /\ Num(pc, dest, t, {"ss"}) \in Nat
          /\ t = w => Num(pc', dest', t, {"ss"}) = Num(pc, dest, t, {"ss"}) + 1
          /\ t # w => Num(pc', dest', t, {"ss"}) = Num(pc, dest, t, {"ss"})
      BY <1>5
    <2> HIDE DEF C
    <2>4. CASE t = w
      BY <1>4, <2>1, <2>2, <2>3, <2>4
    <2>5. CASE t # w
      BY <1>4, <2>1, <2>2, <2>3, <2>5
    <2> QED
      BY <2>4, <2>5
  <1> QED
    BY <1>9, <1>10, PairedCounts

(* A descriptor taken with its token                                       *)
LEMMA NewConnPaired ==
  ASSUME PipeInv, Paired, NEW w \in SW, NewConn(w)
  PROVE  Paired'
  <1> DEFINE R == "RTC_MSG"
             C == "NEW_CONN"
  <1>1. ThreadType /\ R \in Token /\ C \in Token /\ SW \subseteq Thread /\ w \in Thread
        /\ {"ss"} \in SUBSET Thread /\ qconn \in [SW -> Seq(Client)]
    BY ThreadFacts DEF PipeInv, Token, QueueType
  <1>2. Received(w, C) /\ UNCHANGED <<pc, dest, queue>>
    BY DEF NewConn
  <1>3. qconn[w] # << >>
    BY <1>1, <1>2, TokenHasMessage
  <1>4. qconn' = [qconn EXCEPT ![w] = Tail(@)]
    BY <1>3 DEF NewConn
  <1>5. \A t \in Thread, k \in Token :
           /\ Cnt(pipe'[t], k) \in Nat
           /\ t = w /\ k = C => Cnt(pipe[t], k) = Cnt(pipe'[t], k) + 1
           /\ ~ (t = w /\ k = C) => Cnt(pipe[t], k) = Cnt(pipe'[t], k)
    BY <1>1, <1>2, ReadCount
  <1>6. /\ Len(qconn[w]) \in Nat /\ Len(qconn'[w]) = Len(qconn[w]) - 1
        /\ \A t \in SW : t # w => qconn'[t] = qconn[t]
    BY <1>1, <1>3, <1>4, HeadTail
  <1>7. \A t : Num(pc, dest, t, {"ss"}) \in Nat
    <2>1. Agree(pc, dest, pc, dest, w)
      BY DEF Agree
    <2> QED
      BY <1>1, <2>1, SenderStep DEF Num
  <1>8. ASSUME NEW t \in Thread, pc'[t] \notin {"stop", "join", "done"}
        PROVE  Len(queue'[t]) = Cnt(pipe'[t], R) + Num(pc', dest', t, Thread \ {"ss"})
    <2>1. Len(queue[t]) = Cnt(pipe[t], R) + Num(pc, dest, t, Thread \ {"ss"})
      BY <1>2, <1>8, PairedCounts DEF Closed
    <2>2. Cnt(pipe'[t], R) = Cnt(pipe[t], R)
      BY <1>1, <1>5
    <2> QED
      BY <1>2, <2>1, <2>2
  <1>9. ASSUME NEW t \in SW, pc'[t] \notin {"stop", "join", "done"}
        PROVE  Len(qconn'[t]) = Cnt(pipe'[t], C) + Num(pc', dest', t, {"ss"})
    <2>1. Len(qconn[t]) = Cnt(pipe[t], C) + Num(pc, dest, t, {"ss"})
      BY <1>1, <1>2, <1>9, PairedCounts DEF Closed
    <2>2. /\ Cnt(pipe'[t], C) \in Nat
          /\ t = w => Cnt(pipe[t], C) = Cnt(pipe'[t], C) + 1
          /\ t # w => Cnt(pipe[t], C) = Cnt(pipe'[t], C)
      BY <1>1, <1>5
    <2>3. Num(pc', dest', t, {"ss"}) = Num(pc, dest, t, {"ss"}) /\ Num(pc, dest, t, {"ss"}) \in Nat
      BY <1>2, <1>7
    <2> HIDE DEF C
    <2>4. CASE t = w
      BY <1>6, <2>1, <2>2, <2>3, <2>4
    <2>5. CASE t # w
      BY <1>6, <2>1, <2>2, <2>3, <2>5
    <2> QED
      BY <2>4, <2>5
  <1> QED
    BY <1>8, <1>9, PairedCounts

(* A message taken with its token by any thread, and perhaps passed on     *)
LEMMA MessagePaired ==
  ASSUME PipeInv, Paired, NEW u \in Thread,
         \/ u = "rs" /\ RsMsg
         \/ u \in RW /\ RwMsg(u)
         \/ u \in SW /\ Response(u)
  PROVE  Paired'
  <1>1. /\ Received(u, "RTC_MSG") /\ UNCHANGED qconn /\ u # "ss"
    BY ThreadFacts DEF RsMsg, RwMsg, Response
  <1>2. queue[u] # << >>
    BY <1>1, TokenHasMessage
  <1>3. PICK r \in Client : r = Head(queue[u]) /\ 1 \in DOMAIN queue[u] /\ r = queue[u][1]
    BY <1>2, HeadTail DEF PipeInv, QueueType
  <1>4. cmd[r] \in Cmd
    BY <1>3 DEF PipeInv, Requests
  <1>5. wk[r] \in SW /\ Hash[name[r]] \in RW
    <2>1. st[r] # "new" /\ name[r] \in Name
      BY <1>3, <1>4 DEF PipeInv, Requests, Cmd
    <2> QED
      BY <1>3, <2>1, ThreadFacts DEF PipeInv, Descriptors
  <1>6. pc[u] # "notify"
    BY <1>1 DEF Received
  <1>7. CASE queue' = [queue EXCEPT ![u] = Tail(@)] /\ UNCHANGED <<pc, dest>>
    BY <1>1, <1>2, <1>7, TakenPaired
  <1>8. ASSUME NEW d \in Thread, d # u,
               queue' = [queue EXCEPT ![u] = Tail(@), ![d] = Append(@, Head(queue[u]))],
               Starts(u, d)
        PROVE  Paired'
    BY <1>1, <1>2, <1>8, PassedPaired
  <1>9. CASE u = "rs" /\ RsMsg
    <2>1. \/ queue' = [queue EXCEPT !["rs"] = Tail(@)] /\ UNCHANGED <<pc, dest>>
          \/ /\ queue' = [queue EXCEPT !["rs"] = Tail(@), ![Hash[name[r]]] = Append(@, r)]
             /\ Sending("rs", Hash[name[r]])
      BY <1>2, <1>3, <1>9 DEF RsMsg, GetWorker
    <2>2. PICK v \in RW : v = Hash[name[r]]
      BY <1>5
    <2>3. v \in Thread /\ v # "rs"
      BY ThreadFacts
    <2>4. CASE queue' = [queue EXCEPT !["rs"] = Tail(@)] /\ UNCHANGED <<pc, dest>>
      BY <1>7, <1>9, <2>4
    <2>5. CASE /\ queue' = [queue EXCEPT !["rs"] = Tail(@), ![v] = Append(@, r)]
               /\ Sending("rs", v)
      <3>1. Starts(u, v)
        BY <1>6, <1>9, <2>5 DEF Sending, Starts
      <3> QED
        BY <1>3, <1>8, <1>9, <2>3, <2>5, <3>1
    <2> QED
      BY <2>1, <2>2, <2>4, <2>5
  <1>10. CASE u \in RW /\ RwMsg(u)
    <2>1. \/ queue' = [queue EXCEPT ![u] = Tail(@)] /\ UNCHANGED <<pc, dest>>
          \/ /\ queue' = [queue EXCEPT ![u] = Tail(@), ![wk[r]] = Append(@, r)]
             /\ Sending(u, wk[r])
      BY <1>2, <1>3, <1>10 DEF RwMsg
    <2>2. PICK w \in SW : w = wk[r]
      BY <1>5
    <2>3. w \in Thread /\ w # u
      BY <1>10, ThreadFacts
    <2>4. CASE /\ queue' = [queue EXCEPT ![u] = Tail(@), ![w] = Append(@, r)]
               /\ Sending(u, w)
      <3>1. Starts(u, w)
        BY <1>6, <2>4 DEF Sending, Starts
      <3> QED
        BY <1>3, <1>8, <2>3, <2>4, <3>1
    <2> QED
      BY <1>7, <2>1, <2>2, <2>4
  <1>11. CASE u \in SW /\ Response(u)
    BY <1>2, <1>7, <1>11 DEF Response
  <1> QED
    BY <1>9, <1>10, <1>11

(* Every step keeps messages and tokens paired                             *)
LEMMA NextPaired == PipeInv /\ Paired /\ [Next]_vars => Paired'
  <1> SUFFICES ASSUME PipeInv, Paired, [Next]_vars PROVE Paired'
    OBVIOUS
  <1>1. CASE UNCHANGED <<pc, dest, pipe, queue, qconn>>
    BY <1>1 DEF Paired, TokenCount, Notifying, Closed
  <1>2. ASSUME NEW c \in Client, Accept(c) PROVE Paired'
    BY <1>2, AcceptPaired
  <1>3. ASSUME NEW w \in SW, NEW c \in Client, NEW n \in Name,
               RequestOffer(w, c, n) \/ RequestOneWay(w, c, n)
        PROVE  Paired'
    BY <1>3, SubmitPaired DEF RequestOffer, RequestOneWay
  <1>4. ASSUME NEW w \in SW, NEW c \in Client,
               UnknownRequest(w, c) \/ LoseConn(w, c) \/ WriteError(w, c) \/ WriteReply(w, c)
        PROVE  Paired'
    BY <1>1, <1>4 DEF UnknownRequest, LoseConn, WriteError, WriteReply, threadVars
  <1>5. CASE Signal \/ Join \/ UNCHANGED vars
    BY <1>1, <1>5 DEF Signal, Join, vars, threadVars
  <1>6. CASE Quit
    BY <1>6, QuitPaired
  <1>7. ASSUME NEW t \in Thread, ThreadStep(t) PROVE Paired'
    <2>1. CASE Notify(t)
      <3>1. PICK d \in Thread : d = dest[t]
        BY <2>1, ThreadFacts DEF Notify, PipeInv, Threads, Thread
      <3>2. Ends(t, d)
        BY <2>1, <3>1 DEF Notify, Ends
      <3> QED
        BY <2>1, <3>1, <3>2, SentPaired DEF Notify
    <2>2. CASE t \in SW /\ RequestSent(t)
      <3>1. dest[t] = "rs" /\ "rs" \in Thread /\ t # "ss"
        BY <2>2, ThreadFacts DEF RequestSent, PipeInv, Threads
      <3>2. Ends(t, "rs")
        BY <2>2, <3>1 DEF RequestSent, Ends
      <3> QED
        BY <2>2, <3>1, <3>2, SentPaired DEF RequestSent
    <2>3. CASE (t = "rs" /\ RsMsg) \/ (t \in RW /\ RwMsg(t)) \/ (t \in SW /\ Response(t))
      BY <2>3, MessagePaired
    <2>4. CASE t \in SW /\ NewConn(t)
      BY <2>4, NewConnPaired
    <2>5. CASE StopWorker(t) \/ StopServer(t) \/ QuitWorker(t) \/ JoinWorker(t)
      BY <2>5, ShutdownPaired
    <2> QED
      BY <1>7, <2>1, <2>2, <2>3, <2>4, <2>5 DEF ThreadStep
  <1> QED
    BY <1>2, <1>3, <1>4, <1>5, <1>6, <1>7 DEF Next, Outside

(* No message is stranded in the queue of a thread that runs, and no token *)
(* finds the queue empty, whatever the threads do and however full the     *)
(* pipes are (notify, _process_notify)                                     *)
THEOREM TokensMatch == Spec => []Paired
  <1>1. Init => Paired
    <2> SUFFICES ASSUME Init PROVE Paired
      OBVIOUS
    <2>1. \A t \in Thread : pipe[t] = << >> /\ queue[t] = << >> /\ pc[t] = "run"
      BY DEF Init
    <2>2. \A w \in SW : qconn[w] = << >>
      BY DEF Init
    <2>3. \A t \in Thread, k \in Token : {i \in DOMAIN pipe[t] : pipe[t][i] = k} = {}
      BY <2>1
    <2>4. \A t, S : S \in SUBSET Thread => {u \in S : pc[u] = "notify" /\ dest[u] = t} = {}
      BY <2>1
    <2>5. \A t \in Thread : TokenCount(t, "RTC_MSG") = 0 /\ TokenCount(t, "NEW_CONN") = 0
      BY <2>3, FS_EmptySet DEF TokenCount, Token
    <2>6. \A t \in Thread : Notifying(t, Thread \ {"ss"}) = 0 /\ Notifying(t, {"ss"}) = 0
      BY <2>4, FS_EmptySet, ThreadFacts DEF Notifying
    <2>7. Len(<< >>) = 0
      OBVIOUS
    <2>8. \A t \in Thread :
             Len(queue[t]) = TokenCount(t, "RTC_MSG") + Notifying(t, Thread \ {"ss"})
      <3> SUFFICES ASSUME NEW t \in Thread
                   PROVE  Len(queue[t]) = TokenCount(t, "RTC_MSG") + Notifying(t, Thread \ {"ss"})
        OBVIOUS
      <3>1. Len(queue[t]) = 0
        BY <2>1, <2>7
      <3>2. TokenCount(t, "RTC_MSG") = 0
        BY <2>5
      <3>3. Notifying(t, Thread \ {"ss"}) = 0
        BY <2>6
      <3> QED
        BY <3>1, <3>2, <3>3
    <2>9. \A w \in SW : Len(qconn[w]) = TokenCount(w, "NEW_CONN") + Notifying(w, {"ss"})
      BY <2>2, <2>5, <2>6, <2>7, ThreadFacts
    <2> QED
      BY <2>8, <2>9 DEF Paired
  <1> QED
    BY <1>1, NextPaired, PipelineInvariant, PTL DEF Spec
=============================================================================
