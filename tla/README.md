# A TLA+ model of rtcserver

This directory holds TLA+ modules that model the media server in
`src/rtcserver`, TLC configurations that check them on small instances, and
TLAPS proofs about all of them for every value of their constants. It
describes the Linux build of the code. `PROJECT.json` lists for every definition
the source lines it translates; all source paths below are relative to
`src/rtcserver/src`.

1. [The system](#the-system)
2. [Plan](#plan)
3. [The modules and the code](#the-modules-and-the-code)
4. [Runs](#runs)
5. [Disagreements between the code and its comments](#disagreements-between-the-code-and-its-comments)
6. [Proofs](#proofs)
7. [What is left out](#what-is-left-out)

## The system

rtcserver is a selective forwarding unit: a browser publishes ("pushes") a
stream over WebRTC, other users subscribe to ("pull") it. An HTTP front end in Go
(`src/go/signaling`) translates the browser's requests into a binary RPC over
TCP; the C++ server handles these, negotiates a peer connection per stream, and
forwards RTP and RTCP packets between the push and the pull stream of a name.

| Part | State it keeps | Operations | Interaction |
|---|---|---|---|
| `SignalingServer` (one thread) | listening socket, round-robin index, workers | accept, dispatch, stop | hands a descriptor to a worker through a queue and a pipe |
| `SignalingWorker` (several threads) | table of `TcpConnection`s by descriptor, queues of new connections and of answers | new connection, read, parse, send a request on, match and write an answer, time out, stop | request to `RtcServer`, answers from `RtcWorker`s |
| `TcpConnection` | input buffer with parser state, list of replies with a write position, time of last use | bytes in, bytes out | owned by one worker |
| `RtcServer` (one thread) | queue, DTLS certificate, workers | take a request, make or renew the certificate, choose the worker by the name's CRC, stop | forwards to `RtcWorker`s |
| `RtcWorker` (several threads) | queue, its `RtcStreamManager` | run a request, send an offer back, stop | |
| `LockFreeQueue` | linked list with three pointers and a counter | produce, consume, destroy | the queues of `SignalingWorker` (connections) and `RtcWorker`: one producer and one consumer thread |
| `RtcStreamManager`, `RtcStream` | push and pull streams by name; per stream its state and ICE timer | create push/pull, answer, stop push/pull, connection state, time-out, packet | on the worker's thread; called back by peer connections |
| `PeerConnection` | descriptions, tracks, deferred destroy timer | offer, answer, send, destroy | owns a `TransportController` |
| `TransportController` | DTLS and SRTP transports by name, aggregated state | set descriptions, aggregate states | signals `PeerConnection` |
| `DtlsTransport`, `DtlsSrtpTransport`, `SrtpSession` | handshake state, cached ClientHello, keys | packets, writable channel, fingerprint | between ICE and RTP |
| `IceAgent`, `IceTransportChannel`, `IceController`, `IceConnection` | connections to peer addresses, write state, round trip, pings, the selected connection | binding request from a new address, remote parameters, ping timer, response, error, destroy | synchronous signals from connection to channel to agent |
| `UDPPort` | connections by peer address | read a datagram, authenticate and answer a binding request, send | demultiplexes to connections; unknown addresses go to the channel |
| `StunMessage` | a message and its attributes | build, read, validate | |
| `AsyncUdpSocket` | list of unsent datagrams, what its watcher waits for | send, writable | called by ports, connections and the event loop |
| `EventLoop` | watchers | wrapper of libev | every thread has one |
| Go signaling, share servers, browser pages | none that lasts | HTTP handlers, RPC client | calls the C++ server |
| xrtcsdk | Windows client library | | a separate program |

What is hard about it:

* **Threads.** Queue and notification are two steps; a lost or a surplus token in
  a pipe strands a message, because a reader takes one message per token. Writes
  to pipes block. The lock-free queue frees nodes on the producer's side while
  the consumer reads.
* **Identity.** Answers find their connection by descriptor and address, streams
  are found by name and user; both are recycled while messages, timers and
  failures that mean the previous holder are on their way.
* **Time.** Connections, ICE checks and streams time out while an answer is under
  way; a deleted stream's peer connection lives on for 10 ms.
* **Byte streams.** Requests are cut into reads anywhere, replies into writes.
* **Order of negotiation.** The answer, the peer's binding requests and its
  ClientHello come over different paths in any order, and an answer may come
  again with another fingerprint.
* **Half-done work.** A datagram may be refused, delayed or lost in the middle of
  a flush; the installation of SRTP keys may fail between two sessions that share
  a global counter with all others.
* **Re-entrancy.** In the ICE code a change of one connection re-sorts the list,
  switches the selected connection and changes the channel's state inside the
  loop that made the change.

What makes each part correct: the queue is a FIFO without leaks or access to
freed memory; no message is stranded and requests for one name stay in order;
each request is answered at most once and to the right connection; a connection
serves one request whatever the cut of the stream, and closes when idle; the
stream tables never lead to a deleted stream, no stream becomes unreachable, and
users cannot delete each other's streams; the ICE channel's reported state is
that of its connections, its selected connection exists, every connection is
tried, and a dead peer is noticed; a port answers each authentic request once
and in a form the peer accepts, and its datagrams leave in order; media is
protected only with keys agreed with the peer the latest answer names, and the
state reported to the stream is the one ICE and DTLS are in; stop ends all
threads.
`PROJECT.json` lists the hazards by source line with the properties that guard
them, and the ones no property guards yet.

## Plan

The order is from the core outwards; the first eight are in place.

1. `LockFreeQueue`, with the abstract `Fifo` it implements, and proofs.
2. `RtcStreamManager`: the tables at the heart of the server, and proofs.
3. `RequestPipeline`: all threads, queues and pipes, and proofs.
4. `SignalingConn`: one connection byte by byte, and proofs.
5. `IceTransportChannel`: channel, controller and connections, with the abstract
   `IceChannel` it implements, and proofs.
6. `AsyncUdpSocket` with the abstract `LossyFifo`, and proofs.
7. `StunMessage`, and `UdpPort`, which composes it with the socket, and proofs.
8. `MediaTransport`: agent, controller, DTLS and SRTP on top of `IceChannel`, and
   proofs.
9. `NotifyRing`: a counting abstraction of the pipes (messages and tokens as
   numbers), for every number of threads and every pipe capacity, with the bound
   on requests in flight below which the ring of blocking writes cannot close.
10. The tracks of the session description.

How the modules fit together: `UdpPort` extends `AsyncUdpSocket` and
`StunMessage`; `IceTransportChannel` takes the reading of error codes from
`StunMessage` and implements `IceChannel` (proved); `MediaTransport` instantiates
`IceChannel` as its environment, so what is shown there rests on what the channel
was shown to do. The state signal of `MediaTransport` (`m.pc`) is what
`RtcStreamManager` receives in `OnConnectionState`.

## The modules and the code

### LockFreeQueue and Fifo (`base/lock_free_queue.h`)

Nodes live at addresses of a finite pool and a freed address may be handed out
again. The producer (`Link`, `Publish`, `Count`, `TestDivider`, `FreeFirst`), the
consumer (`TestLast`, `LoadNext`, `CopyValue`, `Advance`, `Uncount`) and the
destructor (`BeginDestroy`, `DestroyNode`, `EndDestroy`) take one step per access
to shared memory. The destructor starts when neither is inside a call, as the
owners join their threads first. `Fifo` is the promise: a sequence, with a value
appended at its end and taken from its front; the refinement mapping takes what
was sent and not yet received.

### RtcStreamManager (`stream/`)

`entry` is the pair of maps, the other variables are the fields of the stream
objects. One action per handler: create push, create pull, answer, stop,
connection state, ICE time-out, the 10 ms destroy timer, and RTP/RTCP forwarding.
A `Stream` is an address: it is free, live, or dying (deleted, its peer
connection not yet), and is reused after that. `sent` and `actor` record what the
last event forwarded and for whom it ran. The peer connection is its state
signal, which is chosen freely except that it can be connected only after an
answer: DTLS needs the fingerprint from it.

Streams are removed by user and name. `RemovalScope` says what that means for a
stream that fails or whose timer expires: a registered one removes itself, and it
removes another in its place only if it is a pull stream that another user's pull
has pushed out of the map; it then removes the pull stream its own user has made
since. This exception is reached, with a connected stream as the victim: u1 pulls,
u2 pulls, u2 stops, u1 pulls again and connects, and the timer of u1's first stream
expires.

### RequestPipeline (`server/`, `main.cpp`)

Threads `ss`, `rs`, the signaling workers and the RTC workers each have a queue
and a pipe of `PipeCap` tokens. A handler that sends something pushes it and goes
to `"notify"`, where it blocks until the pipe has room; its other state changes
are part of the same step as the pop that started it, since no other thread can
see them. Descriptors and addresses of connections are chosen among those that
are free. `LoseConn` is a client that closes, a read error or the connection
timer; they do the same to the state. `RsMsg` drops the message when no
certificate can be made. With `CanStop`, a signal makes `main` quit and join both
servers, which quit and join their workers.

### SignalingConn (`server/tcp_connection.*`, byte handling of `server/signaling_worker.cpp`)

Buffers are their lengths; the header's magic and `body_len` and the kind of
request are fixed by the client. Each turn of the parse loop and of the write
loop is a step. `Limit` is the constant 65535 of the code.

`body_len` is any `uint32_t`. `ReadLen` is its conversion to the `int read_len`,
negative above `IntMax`. `RoomFor` says when `sdsMakeRoomFor` really makes the room
asked for: not for a negative length, which it takes as a `size_t` close to 2^64,
and not when buffer and preallocation exceed the `int`s of the sds header. Without
the room the read is undefined, and the model of the connection ends (`ReadUndefined`,
`pc = "undefined"`). `NoStall` says that nothing else leads there and that a
connection that waits asks for all that its message lacks.

### IceTransportChannel (`ice/`)

The memory of the channel, the controller and the connections is one record; a
method is an operator from record to record, so a signal handled inside a method
is a nested operator (`SetWriteState` calls `SortConnectionsAndUpdateState`). The
loop of `_update_connection_states` and that of the destructor take one step per
connection; while one runs no other action is enabled, as in the code. Times are
ages in ticks up to `AgeCap`. `answered` stands for the comparison of two time
stamps that may lie in the same millisecond. A ping's round trip is chosen from
`RttSamples`. Of the unanswered requests only "none" up to "`MaxReqs` or more" are
told apart. The 5 ms tolerance of the ping timer is less than a tick.
Pings and data from the peer change nothing in this state (`_last_ping_received`
and `_last_data_received` are never assigned), so they are no actions.

A connection has the user name fragment of the binding request that created it
and, if the answer was there, its password. An answer that comes later gives its
password only to connections of its own fragment that have none
(`MaybeSetRemoteIceParams`); one that never gets a password, or whose fragment is
empty, is never pinged and never times out. `PingedAgain` is therefore about
connections that have both, which an answer gives to those of its fragment, and
`DeadPeerFails` about channels all of whose connections have them. Answers carry
both a fragment and a password.

`expected_response_time` in `_too_many_ping_fails` is an `int`. `LongUptime` says that
the clock is beyond its range, 24.8 days after the machine was started: the wrapped
number is less than every time stamp, and the test is left with the number of pings.

An error response whose code is not 401, 420 or 500 destroys the connection and
its requests from inside `check_response`, which then deletes the same request
again; the model stops in phase `"undefined"`. The code is the one the parsed
message yields (`ErrorCode`, by way of `StunMessage`).

`IceChannel` is what the listeners of a channel may rely on: flags that never go
back (parameters known, had a connection, has been writable), no writable channel
before the peer's parameters are known, and a state that follows from these.

### AsyncUdpSocket and LossyFifo (`base/async_udp_socket.cpp`, `base/event_loop.cpp`)

`list` is `_udp_packet_list`, `events` what the watcher waits for. `SendTo` and
`SendData` begin a call, after which each `sendto` is a step with the three
outcomes the code tells apart (sent, error, `EAGAIN`) until the call returns.
`wire` records what the kernel took. In `LossyFifo` datagrams leave in order, and
an error costs the oldest waiting one and at most the newest; the datagram being
sent is the newest, so the refinement mapping is `list \o hand` and `wire`.

### StunMessage and UdpPort (`ice/stun.cpp`, `ice/udp_port.cpp`, answers of `ice/ice_connection.cpp`)

A message is its type, its length field and its attributes with their lengths; an
HMAC or CRC is the tuple of what it was computed over, so a checksum matches
exactly when the receiver covers the same octets under the same length field.
`Write` adds the number of octets on the wire. Values nobody reads are left out.
Every attribute declares the length it has: the parser reads a PRIORITY as four
octets whatever it declares, so a message that lies about it is read out of step,
which is not modelled.

`UdpPort` keeps for each address the user of its connection. `OnReadPacket` is the
whole path of a datagram: demultiplexing, the checks of `get_stun_message`, the
decision of the connection or the channel (`Answer`), the entry for a new address
and the answer given to the socket. The callback reads until nothing is left and
then flushes (`cb`). Pings and media of the upper layers come at any time the
thread is free, also from within the reading callback. `MCInputs` has one datagram
of every kind the handlers tell apart.

### MediaTransport (`pc/`, `ice/ice_agent.cpp`)

All objects of a peer connection live on one thread and call each other by
synchronous signals; they are one record `m`, a method is an operator on it, and
slots are applied in the order in which they were connected. The server bundles
audio and video, so there is one channel and one transport of each kind. Actions:
a change of the channel (with its writable, receiving and state signals in turn),
an answer with a fingerprint, with one of the wrong length, or without one (a null
dereference, phase `"undefined"`), a handshake packet, sessions of other
peer connections on the shared libsrtp counter, and the destroy timer followed by
the agent's deletion. Of the OpenSSL adapter, which is vendored with libwebrtc, the
states are modelled (`AdapterInput`, `ContinueSSL`, `ReadSSL`): it verifies the
certificate against its digest during the handshake and raises its events from
within the call that hands it a packet. Its `BeginSSL` may fail; whether it does is
chosen with the adapter (`NewAdapters`). `gen` numbers the adapters, `peer` is the
certificate seen by the present one.

## Runs

| Run | What it asks | Bounds |
|---|---|---|
| `lock_free_queue` | memory safety, no race on a node, counter, no leak, refinement of `Fifo` | 3 addresses for 4 values: every address is recycled while the other thread is inside a call |
| `stream_manager` | tables, forwarding, on whose behalf a stream is deleted, what a failure or time-out takes with it | 2 users, 1 name, 3 streams: a stream of each user, and one dying while its successor lives |
| `stream_orphans` | (violation) all sessions are in the tables | as `stream_manager` |
| `pipeline` | pairing, tables, at most one answer, order per name | 3 connections, 2 + 2 workers, pipes of 1 token, 2 descriptors and 2 addresses: the third connection reuses both |
| `pipeline_stop` | requests are handled and answered until a stop at any moment, after which all threads end | 2 connections, 1 signaling and 1 RTC worker: full pipes and every moment of the stop; more workers exceed TLC's reach with liveness |
| `pipeline_reuse` | (violation) an answer goes to the one who asked | 2 connections |
| `signaling_conn` | parser and writer under every cut of the stream; an arrived message is acted on; no connection stays open for ever | header 2, limit 6, up to 12 bytes: past the limit plus a body; bodies of 0, 1, 2, 5, 9 and 20 with integers up to 18 and 37: shorter and longer than the limit, beyond the buffer, and negative as an `int`; timeout of 2 ticks |
| `signaling_conn_tail` | (violation) one request per connection | bodies 0 to 2, up to 9 bytes |
| `ice_channel` | selected pointers, deleted connections, reported state, refinement of `IceChannel`; every connection is pinged again and again; a silent peer is noticed | 2 connections, each of the fragment the answer will name or of another, which stands for all that never get a password, and answers that name one fragment; all intervals 1 to 4 ticks in the order of the real ones; every write state and every channel state is reached; `LongUptime = FALSE`, and the same with `TRUE` passes too |
| `ice_retry` | (violation) the connection survives a 401, 420 or 500 | as above, without liveness |
| `udp_port` | what is sent passes the receiver's checks; answers match requests and users; refinement of `LossyFifo`; no datagram waits for ever; the WRITE watch ends | 2 addresses, 2 users, 10 kinds of input, 2 datagrams in and 2 of the upper layers out: lists of up to 3 with errors and `EAGAIN` at every place |
| `media_transport` | keys and peer, start of the handshake, reported state, libsrtp's counter, ended transports | 2 fingerprints and a malformed one, 3 answers: a change, a change back and a malformed one; 2 sessions of others |

The type invariants of the modules with proofs are theorems. Those of
`RequestPipeline`, `IceTransportChannel` and `MediaTransport` are also the first
conjunct of `TableSound`, `SelectedAlive` and `KeysMatchPeer`.

Every property of a passing run has a mutant in `PROJECT.json`: a definition
ending in the name of a plausible slip (`DestroyConnection_FreedFirst`) for which
the property fails.

**Bounds.** Connections, streams and values are few because every property is
about at most two of them and a third that takes over what one of them leaves
(an address, a descriptor, a name). `PipeCap = 1` makes a full pipe the normal
case. The intervals of the ICE code (48, 480, 900, 2500, 5000, 15000 ms) are
scaled down. Their order matters for one property: `PingedAgain` needs
`WEAK + STRONG < STABLING` (528 < 900 in the code). With an interval of the
selected connection as short as the timer's, the selected connection is due every
time and the others starve; TLC finds that behaviour with
`STABLING_CONNECTION_PING_INTERVAL = 3` and `STRONG_PING_INTERVAL = 2`. The run
uses 1, 2 and 4.

**Deadlock** is not checked where the system may stop: all connections used up
(`RequestPipeline`, `SignalingConn`), a destroyed queue, a deleted channel or
peer connection. The stream manager and the port never stop and are checked.

**Fairness** is assumed of event loops only: a thread with something to do does
it, a due timer fires, a started loop goes on, a watched writable socket is
written. Nothing is assumed of clients, peers, certificates or signals, except
that `IdleCloses` is stated for a running clock (`ClockRuns`). In `IceTransportChannel` the
fairness of a loop is stated for the part of its steps that moves `todo` and
`loop`; it is the same requirement, as no other action moves them while a loop
runs. In `UdpPort` two conditions are strong: a socket that is watched for WRITE
is reported writable again and again although reads come in between (libev's poll
is level-triggered and reports every ready descriptor), and the kernel does not
answer `EAGAIN` for ever. The bounds on datagrams in and out are what
`WriteWatchEnds` needs besides: it says that the watch ends once the traffic does.

## Disagreements between the code and its comments

* **Orphaned pull streams** (`stream_orphans`). `create_pull_stream` overwrites the
  entry of another user's pull stream, which then lives without being in the table.
* **Answers to a recycled connection** (`pipeline_reuse`). The comparison that
  "determines validity" accepts a new connection with the old descriptor and
  address.
* **Parsing after the request** (`signaling_conn_tail`). `bytes_processed = 65535`
  is to ignore later data; more than 65535 bytes make the loop act on the first
  body again and never end.
* **Error codes are never read** (`ice_retry`). The reader of STUN messages skips
  the ERROR-CODE attribute, so that every error response counts as 600 and
  destroys the connection; the branch commented "retry maybe recover" is dead.

Seen while modelling, with nothing in the repository that says otherwise: the
controller leaves a selected connection only for one whose round trip is 10 ms
shorter, also when the selected one no longer answers.

## Proofs

TLAPS proves, for every value of the constants that satisfies the named
assumptions of the modules:

**LockFreeQueueProofs.** The inductive invariant is `QInv == TypeOK /\ ChainInv`.
Memory safety is not inductive: that the producer's `first->next` is a live node
follows from the shape of the whole list. `ChainInv` numbers the nodes in the
order of allocation (`node`) and says that those from `freed` to `Allocated` are
alive, linked in that order and carry the values sent, and where the three
pointers and the two program counters stand among them. From it follow
`NoUseAfterFree`, `NoNodeRace`, `SizeAccurate` and `NoLeak` (by cardinality
theorems), and that every step is a step of `Fifo` or a stutter (`Refinement`).

**RtcStreamManagerProofs.** `MInv == TypeOK /\ NoDanglingEntry /\ PushRegistered /\
TimerGuards` is inductive, where `TimerGuards` says that the timer of a live stream in the
maps has not expired, and that of a connected stream does not run: that a stream removed "by user and name" is one the
table holds needs the tables to be sound, and that a push stream is never orphaned
needs that the entry it replaces is deleted in the same step. Lemmas treat the two
patterns, a step that deletes registered streams and a step that also creates one.
The action properties `OwnerDeletes` and `RemovalScope` follow from it (the latter
because a push stream that is alive is registered), and so does `ForwardedToPeer`:
the entry a packet is passed on to is alive and belongs to the name and kind it is
filed under.

**RequestPipelineProofs.** For any number of workers, clients, names, descriptors
and addresses, any hash and any capacity of the pipes, during a shutdown too.
`PipeInv` is inductive: beside the types it says whom a thread is sending to or
waiting for (`Threads`), that no two connections that are not closed share a
descriptor and that a descriptor waits once, in the queue of its worker
(`Descriptors`, `Waiting`), that the tables and the open connections are the same
(`Entries`), and where the requests in queues come from (`Requests`). `TableSound`
follows. The order of requests for a name needs `Routed` on top: a request still
queued is in RtcServer's queue or in that of the worker its name hashes to, behind
those that came before it, so passing the first message on keeps the order.
`AnswerOnce` needs `Unanswered`: no message is in two places, and nobody has an
answer to a request that is still on its way. `Paired` is inductive over `PipeInv`
by counting: a push makes one more message and one more sender about to write, the
write turns the sender into a token, a read takes a token and a message. The
assumptions are that there is at least one worker of each kind, that `SWs` and
`RWs` list workers, and that the hash maps names to workers.

**MediaTransportProofs.** A handler is a chain of methods of several objects, so the
proof goes method by method over the record `m`: what each leaves of it and which
parts of `MediaInv` hold in between. `Sessions` (both SRTP sessions have keys or
neither exists, and libsrtp's count is the number of users) and `Reported` (what the
agent and the controller announced last is true now) survive every method;
`Handshake` (the state of DTLS, the adapter, the fingerprint and the keys agree) and
`Started` (a handshake that can start has) hold between handlers and are carried
through the three signals of the channel one at a time. All five invariants follow,
and the action property `EndedUntilNewFingerprint` from the same lemmas. The only
thing known of the channel is `IceChannel`.

**IceTransportChannelProofs.** For any set of connections, priorities, intervals and
round trips. A method calls others through signals in the middle of its work, so the
proof goes from the innermost outwards: `_update_state`, the sort with its switch,
the two setters of a connection that signal a change, `update_state` and
`received_ping_response`, `destroy`, and then the handlers. `Good` is what holds of
the memory even inside a handler: the types, what is on the list is alive, the
selected connection is on the list and is the one the controller has selected, no
password and no answered ping before the peer's parameters. `IceInv` adds what only
holds between handlers: the report is `Accurate`, and a connection is deleted only in
the destructor or in the step that ends the model. `NoStaleRead` needs both: the
controller keeps a pointer to a destroyed connection, but the destructor's next sort
comes only with a new selected connection, to which the pointer then goes.
`SelectedAlive` and `StateAccurate` follow. For `ImplementsChannel`, `Monotone` says
which flags every step keeps and that a writable connection needs the parameters
before the step. The theorem `StableSortCorrect` says that the list operator is a
stable sort for every list: the comparison is a strict weak order, so the number of
elements that go before one (`Below`) numbers the positions without gaps, by
cardinality theorems and not by induction.

**SignalingConnProofs.** `IInv` adds to the types where the parser stands
(`ParserInv`: what `bytes_processed` and `bytes_expected` are in each state, and
that outside the loop its condition is false) and where the writer stands
(`WriterInv`). The constants are any limit, any body lengths up to the largest
unsigned integer, and any smaller bound of the signed ones that a header fits in.
`NoStall`, `OnceBelowLimit` and `RepliesAccounted` follow.

**AsyncUdpSocketProofs.** `SocketInv == SocketTypeOK /\ HandOfCall /\
NoStrandedDatagram` is inductive: `send_data` leaves the watcher alone at `EAGAIN`,
which is right only because WRITE is watched whenever the list is not empty, and
nothing is in hand there. Each step is one of `LossyFifo` or a stutter by four
lemmas about sequences (`HeadTailConcat`, `DropBothEnds`, `SingleConcat`,
`TailType`).

**UdpPortProofs.** `PortUsesSocket` shows that the port's steps are steps of the
socket or leave it alone, which carries the socket's theorems over to the
composition (`PortNothingStranded`, `PortRefinement`). It needs the types of the
port's own tables (`PortType`). For the answers, `FlightInv` is inductive: every
answer in flight names a datagram received from its address, no two the same one,
and an answer of success agrees with the table of connections, whose entries never
change once made. `Kept` says that a step of the socket loses datagrams but
neither invents nor repeats one. `RepliesMatch` and `OneUserPerAddress` follow.
For `SentMessagesVerify`, `GoodFlight` says which messages are in flight, and the
rest is about the construction of a message: `Built` says that the length field is
the size of the attributes, a multiple of four; each method keeps it, the HMAC
covers the octets that precede it and the CRC all that precede it, so
`SignedVerifies` holds of every message built that way, not only of the three the
port sends. The size is a recursive function of the attributes; `Sized` carries its
value along with the construction, which avoids an induction. The assumptions are
that admitted inputs name users of `Ufrags`, that `Datagram` includes what the port
sends, and that a user name fragment has at most 32000 characters (the code's own
have 4), since the 16 bit length field overflows beyond that.

Only model-checked: all liveness properties (`RequestsServed`, `ShutsDown`,
`MessageServed`, `IdleCloses`, `PingedAgain`, `DeadPeerFails`,
`NoDatagramWaitsForever`, `WriteWatchEnds`), because the prover does not treat
fairness. Every invariant and every action property of the passing runs, and all
three refinements, are stated by theorems.

## What is left out

* Reads that return no byte (`EAGAIN`) and a failing `write()` to a pipe or socket
  whose reader is gone (SIGPIPE); descriptor numbers of pipes that are closed
  during shutdown and opened again by others.
* The null worker of `RtcServer::_get_worker`, which cannot occur after `init`.
* The closed ring of full pipes: it needs more requests in flight than three pipes
  hold, out of reach of the bounds here; planned as `NotifyRing`.
* The weak memory effects of the lock-free queue: its pointers are plain
  variables, and the steps are taken to be seen in program order.
* The life time of the certificate shared by raw pointer, and the sources a pull
  stream copies from a push stream (recorded, no property).
* What a read into a buffer without the room does, and memory that runs out.
* Whatever follows the double deletion after a fatal ICE error response.
* What follows an answer without a fingerprint (a null dereference).
* The retransmission of DTLS handshake packets, a timer of the OpenSSL adapter.
* An answer whose section has no ice-ufrag or ice-pwd line (empty ones are refused).
* The growth of the list of unsent datagrams and of unanswered requests; the
  range of port numbers, whose sockets are not closed with their channel.
* Formatting and parsing of SDP and JSON, tracks; logging; configuration; sockets.
* The Go programs, the browser pages, the Windows client SDK, and third-party
  code, for the reasons given in `PROJECT.json`.
