------------------------- MODULE IceTransportChannel -------------------------
(***************************************************************************)
(* One ICE transport channel of a peer connection: IceTransportChannel     *)
(* with its IceController and the IceConnections of its ports              *)
(* (src/rtcserver/src/ice).  The objects live on one RtcWorker thread and  *)
(* call each other through synchronous signals: a change of a connection   *)
(* re-sorts the controller's list, may switch the selected connection and  *)
(* recomputes the state of the channel before the caller goes on.          *)
(*                                                                         *)
(* The memory of these objects is the record ice, and a method is an       *)
(* operator that maps a record to the record it leaves, so that a nested   *)
(* signal is a nested operator.  The two loops over a copy of the list of  *)
(* connections (_update_connection_states and the destructor) run one      *)
(* iteration per step; todo holds the rest of the copy, and no other step  *)
(* is possible while a loop runs.                                          *)
(*                                                                         *)
(* Time advances in ticks.  A time stamp of the code is its age in ticks,  *)
(* which stops where no comparison of the code can tell it from a greater  *)
(* one: at AgeCap, or at the only interval it is compared with.            *)
(***************************************************************************)
EXTENDS Integers, Sequences, FiniteSets

CONSTANTS
    Conns,             \* the peer addresses, each with the connection created for it
    NoConn,            \* nullptr
    Priority,          \* IceConnection::priority()
    Ufrags, NoUfrag,   \* user name fragments of the peer, and the empty one
    Answers,           \* the fragments its answers carry
    RttSamples,        \* what request->elapsed() may be
    InitRtt, RTT_RATIO, MIN_RTT, MAX_RTT, k_min_improvement,
    WEAK_PING_INTERVAL, STRONG_PING_INTERVAL,
    STABLING_CONNECTION_PING_INTERVAL, STABLE_CONNECTION_PING_INTERVAL,
    MIN_PINGS_AT_WEAK_PING_INTERVAL, WEAK_CONNECTION_RECEIVE_TIMEOUT,
    CONNECTION_WRITE_CONNECT_FAILS, CONNECTION_WRITE_CONNECT_TIMEOUT,
    CONNECTION_WRITE_TIMEOUT,
    LongUptime,        \* TimeMillis() is beyond an int: the machine is up for 24.8 days
    AgeCap,            \* bound: ages stop here
    MaxReqs,           \* bound: "this many requests or more" are unanswered
    Codes              \* the error codes the peer's error responses carry

ASSUME ConnsAssumption == NoConn \notin Conns /\ Priority \in [Conns -> Nat]

ASSUME UfragAssumption == NoUfrag \in Ufrags /\ Answers \subseteq Ufrags \ {NoUfrag}

ASSUME RttAssumption ==
    /\ InitRtt \in Nat /\ RttSamples \subseteq Nat
    /\ RTT_RATIO \in Nat /\ MIN_RTT \in Nat /\ MAX_RTT \in Nat
    /\ k_min_improvement \in Nat \ {0}
    /\ MIN_RTT <= MAX_RTT

ASSUME IntervalAssumption ==
    /\ WEAK_PING_INTERVAL \in Nat \ {0}
    /\ WEAK_PING_INTERVAL < STRONG_PING_INTERVAL
    /\ STRONG_PING_INTERVAL \in Nat
    /\ STABLING_CONNECTION_PING_INTERVAL \in Nat
    /\ STABLE_CONNECTION_PING_INTERVAL \in Nat
    /\ MIN_PINGS_AT_WEAK_PING_INTERVAL \in Nat
    /\ WEAK_CONNECTION_RECEIVE_TIMEOUT \in Nat
    /\ CONNECTION_WRITE_CONNECT_FAILS \in Nat \ {0}
    /\ CONNECTION_WRITE_CONNECT_TIMEOUT \in Nat
    /\ CONNECTION_WRITE_TIMEOUT \in Nat
    /\ AgeCap \in Nat /\ MaxReqs \in Nat \ {0}
    /\ \A t \in {STRONG_PING_INTERVAL, STABLING_CONNECTION_PING_INTERVAL,
                 STABLE_CONNECTION_PING_INTERVAL, WEAK_CONNECTION_RECEIVE_TIMEOUT,
                 CONNECTION_WRITE_CONNECT_TIMEOUT, CONNECTION_WRITE_TIMEOUT}: t < AgeCap
    /\ Codes \subseteq Nat /\ LongUptime \in BOOLEAN

VARIABLES
    ice,     \* the channel, its controller and its connections
    loop,    \* the loop that is running: "none", "update", "destroy"
    todo,    \* the connections its copy of the list still holds
    phase    \* "open", "closed" (channel deleted), "undefined" (see ErrorResponse)

vars == <<ice, loop, todo, phase>>

WriteState == {"writable", "unreliable", "init", "timeout"}

Age == 0 .. AgeCap

(* What the code remembers of a connection.  user is the fragment its      *)
(* binding request came with, pwd tells that the remote candidate has a    *)
(* password.  answered stands for the test                                 *)
(* _last_ping_sent < _last_ping_response_received; out holds the ages of   *)
(* the oldest entries of _pings_since_last_response, as many as are read;  *)
(* reqs counts _requests.  _last_ping_received and _last_data_received are *)
(* never assigned, so last_received() is the time of the last response.    *)
Connection ==
    [life: {"none", "live", "freed"}, ws: WriteState, recv: BOOLEAN,
     user: Ufrags, pwd: BOOLEAN, rtt: Nat, samples: 0 .. RTT_RATIO + 2, pings: 0 .. MIN_PINGS_AT_WEAK_PING_INTERVAL,
     sent: Age, answered: BOOLEAN,
     resp: 0 .. WEAK_CONNECTION_RECEIVE_TIMEOUT, out: Seq(Age), reqs: 0 .. MaxReqs]

NewConnection(u, known) ==
    [life |-> "live", ws |-> "init", recv |-> FALSE, user |-> u, pwd |-> known,
     rtt |-> InitRtt, samples |-> 0, pings |-> 0,
     sent |-> AgeCap, answered |-> FALSE, resp |-> WEAK_CONNECTION_RECEIVE_TIMEOUT,
     out |-> <<>>, reqs |-> 0]

Least(a, b) == IF a <= b THEN a ELSE b

Members(s) == {s[i] : i \in DOMAIN s}

-----------------------------------------------------------------------------
(* IceConnection and IceController: what they compute *)

Writable(m, c) == m.conn[c].ws = "writable"

(* IceController::ready_to_send *)
ReadyToSend(m, c) == c # NoConn /\ m.conn[c].ws \in {"writable", "unreliable"}

(* IceController::_weak reads the connection the CONTROLLER has selected *)
Weak(m) == m.chosen = NoConn \/ ~(Writable(m, m.chosen) /\ m.conn[m.chosen].recv)

MissResponse(k) == k.out # <<>> /\ k.out[1] > 2 * k.rtt

Stable(k) == k.samples > RTT_RATIO + 1 /\ ~MissResponse(k)

ConnectionPingInterval(m, c) ==
    IF m.conn[c].pings < MIN_PINGS_AT_WEAK_PING_INTERVAL THEN WEAK_PING_INTERVAL
    ELSE IF Weak(m) \/ ~Stable(m.conn[c]) THEN STABLING_CONNECTION_PING_INTERVAL
    ELSE STABLE_CONNECTION_PING_INTERVAL

PastPingInterval(m, c) == m.conn[c].sent >= ConnectionPingInterval(m, c)

Keyed(k) == k.user # NoUfrag /\ k.pwd

(* IceController::_is_pingable *)
Pingable(m, c) == Keyed(m.conn[c]) /\ (Weak(m) \/ PastPingInterval(m, c))

(* IceController::_compare_connections, then the round-trip time *)
WriteRank(k) ==
    CASE k.ws = "writable" -> 0 [] k.ws = "unreliable" -> 1
      [] k.ws = "init" -> 2 [] OTHER -> 3

Better(m, a, b) ==
    LET x == m.conn[a]
        y == m.conn[b]
    IN  \/ WriteRank(x) < WriteRank(y)
        \/ /\ WriteRank(x) = WriteRank(y)
           /\ \/ x.recv /\ ~y.recv
              \/ /\ x.recv = y.recv
                 /\ \/ Priority[a] > Priority[b]
                    \/ Priority[a] = Priority[b] /\ x.rtt < y.rtt

(* The elements of S before j, and the n-th element, in the order R *)
Below(S, R, j) == {i \in S : <<i, j>> \in R}

Nth(S, R, n) == CHOOSE j \in S : Cardinality(Below(S, R, j)) = n - 1

(* absl::c_stable_sort of _connections: an element goes after those that   *)
(* are better and those it ties with that were already before it           *)
StableSort(m) ==
    LET s == m.order
        Before == {p \in (DOMAIN s) \X (DOMAIN s) :
                      \/ Better(m, s[p[1]], s[p[2]])
                      \/ p[1] < p[2] /\ ~Better(m, s[p[2]], s[p[1]])}
    IN  [n \in DOMAIN s |-> s[Nth(DOMAIN s, Before, n)]]

(* erase of every entry of _connections that is c *)
Erase(s, c) ==
    LET kept == {i \in DOMAIN s : s[i] # c}
        Before == {p \in kept \X kept : p[1] < p[2]}
    IN  [n \in 1 .. Cardinality(kept) |-> s[Nth(kept, Before, n)]]

Top(m) == IF m.order = <<>> THEN NoConn ELSE m.order[1]

(* The connection sort_and_switch_connection returns, once m.order is      *)
(* sorted: only a shorter round trip makes it leave the selected one       *)
ConnToSwitchTo(m) ==
    LET top == Top(m)
    IN  IF ~ReadyToSend(m, top) \/ m.chosen = top THEN NoConn
        ELSE IF m.chosen = NoConn THEN top
        ELSE IF m.conn[top].rtt <= m.conn[m.chosen].rtt - k_min_improvement THEN top
        ELSE NoConn

-----------------------------------------------------------------------------
(* IceTransportChannel: what a method leaves in memory *)

(* Mutant: the controller is not told *)
SwitchSelectedConnection_OneSided(m, c) == [m EXCEPT !.selected = c]

SwitchSelectedConnection(m, c) ==
    [m EXCEPT !.selected = c, !.chosen = IF c = NoConn THEN @ ELSE c]

ChannelState(m) ==
    LET has == \E c \in Members(m.order) : m.conn[c].ws # "timeout"
    IN  IF m.had /\ ~has THEN "failed"
        ELSE IF m.been /\ ~m.writable THEN "disconnected"
        ELSE IF ~m.had /\ ~has THEN "new"
        ELSE IF has /\ ~m.writable THEN "checking"
        ELSE "connected"

ChannelWritable(m) == m.selected # NoConn /\ Writable(m, m.selected)

ChannelReceiving(m) == \E c \in Members(m.order) : m.conn[c].recv

(* Mutant: it is forgotten that the channel was writable once *)
UpdateState_Forgets(m) ==
    LET w == ChannelWritable(m)
        m1 == [m EXCEPT !.writable = w, !.been = w, !.receiving = ChannelReceiving(m)]
    IN  [m1 EXCEPT !.state = ChannelState(m1)]

UpdateState(m) ==
    LET w == ChannelWritable(m)
        m1 == [m EXCEPT !.writable = w, !.been = @ \/ w, !.receiving = ChannelReceiving(m)]
    IN  [m1 EXCEPT !.state = ChannelState(m1)]

MaybeStartPinging(m) ==
    IF ~m.pinging /\ \E c \in Members(m.order) : Pingable(m, c)
    THEN [m EXCEPT !.pinging = TRUE, !.due = m.interval]
    ELSE m

(* The places where a sort reads the connection the controller selected:   *)
(* its rtt, and _weak() as long as pinging has not started                 *)
ReadsChosen(m) ==
    /\ m.chosen # NoConn
    /\ \/ ReadyToSend(m, Top(m)) /\ m.chosen # Top(m)
       \/ ~m.pinging /\ \E c \in Members(m.order) : Keyed(m.conn[c])

SortConnectionsAndUpdateState(m) ==
    LET m1 == [m EXCEPT !.order = StableSort(m)]
        m2 == [m1 EXCEPT !.stale = @ \/ (ReadsChosen(m1) /\ m1.conn[m1.chosen].life = "freed")]
        c == ConnToSwitchTo(m2)
        m3 == IF c = NoConn THEN m2 ELSE SwitchSelectedConnection(m2, c)
    IN  MaybeStartPinging(UpdateState(m3))

(* signal_state_change reaches _on_connection_state_change, which sorts *)
SetReceiving(m, c, b) ==
    IF m.conn[c].recv = b THEN m
    ELSE SortConnectionsAndUpdateState([m EXCEPT !.conn[c].recv = b])

UpdateReceiving(m, c) ==
    SetReceiving(m, c, m.conn[c].answered
                       \/ m.conn[c].resp < WEAK_CONNECTION_RECEIVE_TIMEOUT)

(* Mutant: the change of the write state is not signalled *)
SetWriteState_Silent(m, c, w) == [m EXCEPT !.conn[c].ws = w]

SetWriteState(m, c, w) ==
    IF m.conn[c].ws = w THEN m
    ELSE SortConnectionsAndUpdateState([m EXCEPT !.conn[c].ws = w])

(* expected_response_time is an int: beyond its range it has wrapped to a  *)
(* number that is less than every time stamp                               *)
TooManyPingFails(k) ==
    LET rtt == IF 2 * k.rtt < MIN_RTT THEN MIN_RTT ELSE Least(2 * k.rtt, MAX_RTT)
    IN  /\ Len(k.out) >= CONNECTION_WRITE_CONNECT_FAILS
        /\ LongUptime \/ k.out[CONNECTION_WRITE_CONNECT_FAILS] > rtt

TooLongWithoutResponse(k, t) == k.out # <<>> /\ k.out[1] > t

(* Mutant: a connection that was never written to does not time out *)
UpdateConnection_InitKept(m, c) ==
    LET k == m.conn[c]
        m1 == IF /\ k.ws = "writable"
                 /\ TooManyPingFails(k)
                 /\ TooLongWithoutResponse(k, CONNECTION_WRITE_CONNECT_TIMEOUT)
              THEN SetWriteState(m, c, "unreliable") ELSE m
        m2 == IF /\ m1.conn[c].ws = "unreliable"
                 /\ TooLongWithoutResponse(m1.conn[c], CONNECTION_WRITE_TIMEOUT)
              THEN SetWriteState(m1, c, "timeout") ELSE m1
    IN  UpdateReceiving(m2, c)

(* IceConnection::update_state *)
UpdateConnection(m, c) ==
    LET k == m.conn[c]
        m1 == IF /\ k.ws = "writable"
                 /\ TooManyPingFails(k)
                 /\ TooLongWithoutResponse(k, CONNECTION_WRITE_CONNECT_TIMEOUT)
              THEN SetWriteState(m, c, "unreliable") ELSE m
        m2 == IF /\ m1.conn[c].ws \in {"unreliable", "init"}
                 /\ TooLongWithoutResponse(m1.conn[c], CONNECTION_WRITE_TIMEOUT)
              THEN SetWriteState(m1, c, "timeout") ELSE m1
    IN  UpdateReceiving(m2, c)

(* rtc::GetNextMovingAverage, assigned to an int *)
MovingAverage(old, new) == (RTT_RATIO * old + new) \div (RTT_RATIO + 1)

(* IceConnection::received_ping_response.  later: the clock has moved on   *)
(* since the last ping was sent                                            *)
ReceivedPingResponse(m, c, rtt, later) ==
    LET k == m.conn[c]
        k1 == [k EXCEPT !.rtt = IF k.samples > 0 THEN MovingAverage(k.rtt, rtt) ELSE rtt,
                        !.samples = Least(@ + 1, RTT_RATIO + 2),
                        !.resp = 0, !.answered = later, !.out = <<>>]
    IN  SetWriteState(UpdateReceiving([m EXCEPT !.conn[c] = k1], c), c, "writable")

(* IceConnection::ping, with _last_ping_sent_ms of the channel and         *)
(* mark_connection_pinged of the controller                                *)
PingConnection(m, c) ==
    LET k == m.conn[c]
        k1 == [k EXCEPT !.sent = 0, !.answered = FALSE,
                        !.out = IF Len(@) < CONNECTION_WRITE_CONNECT_FAILS
                                THEN Append(@, 0) ELSE @,
                        !.reqs = Least(@ + 1, MaxReqs),
                        !.pings = Least(@ + 1, MIN_PINGS_AT_WEAK_PING_INTERVAL)]
    IN  [m EXCEPT !.conn[c] = k1, !.last = 0,
                  !.unpinged = IF c \in m.pinged THEN @ ELSE @ \ {c},
                  !.pinged = @ \cup {c}]

(* Mutant: the object is deleted before the slots have run *)
DestroyConnection_FreedFirst(m, c) ==
    LET m1 == [m EXCEPT !.pinged = @ \ {c}, !.unpinged = @ \ {c},
                        !.order = Erase(@, c),
                        !.conn[c].life = "freed"]
    IN  IF m.selected = c
        THEN SortConnectionsAndUpdateState(SwitchSelectedConnection(m1, NoConn))
        ELSE UpdateState(m1)

(* IceConnection::destroy, up to and including delete this: the slot runs  *)
(* while the object is still there; neither the controller's pointer nor   *)
(* the port's table is told                                                *)
DestroyConnection(m, c) ==
    LET m1 == [m EXCEPT !.pinged = @ \ {c}, !.unpinged = @ \ {c},
                        !.order = Erase(@, c)]
        m2 == IF m.selected = c
              THEN SortConnectionsAndUpdateState(SwitchSelectedConnection(m1, NoConn))
              ELSE UpdateState(m1)
    IN  [m2 EXCEPT !.conn[c].life = "freed"]

-----------------------------------------------------------------------------
(* The handlers *)

Init ==
    /\ ice = [conn |-> [c \in Conns |-> [NewConnection(NoUfrag, FALSE) EXCEPT !.life = "none"]],
              order |-> <<>>, unpinged |-> {}, pinged |-> {}, chosen |-> NoConn,
              selected |-> NoConn, writable |-> FALSE, receiving |-> FALSE,
              state |-> "new", had |-> FALSE, been |-> FALSE,
              remote |-> FALSE, ufrag |-> NoUfrag, pinging |-> FALSE, interval |-> WEAK_PING_INTERVAL, due |-> 0,
              last |-> STRONG_PING_INTERVAL, stale |-> FALSE, err |-> 0]
    /\ loop = "none" /\ todo = <<>> /\ phase = "open"

Idle == phase = "open" /\ loop = "none"

(* A binding request of user u from an address the port does not know: the *)
(* password is the one of the answer, if that is there, whatever u is      *)
UnknownAddress(c, u) ==
    /\ Idle /\ ice.conn[c].life = "none"
    /\ ice' = SortConnectionsAndUpdateState(
                 [ice EXCEPT !.conn[c] = NewConnection(u, ice.remote),
                             !.had = TRUE,
                             !.order = Append(@, c), !.unpinged = @ \cup {c}])
    /\ UNCHANGED <<loop, todo, phase>>

(* IceConnection::maybe_set_remote_ice_params *)
MaybeSetRemoteIceParams(k, u) ==
    IF k.user = u /\ ~k.pwd THEN [k EXCEPT !.pwd = TRUE] ELSE k

(* Mutant: the parameters are stored and nothing is sorted *)
SetRemoteIceParams_NoSort(u) ==
    /\ Idle
    /\ ice' = [ice EXCEPT !.remote = TRUE, !.ufrag = u,
                          !.conn = [c \in Conns |->
                              IF c \in Members(ice.order)
                              THEN MaybeSetRemoteIceParams(ice.conn[c], u) ELSE ice.conn[c]]]
    /\ UNCHANGED <<loop, todo, phase>>

(* The answer's ICE parameters, which may come after the first connections *)
SetRemoteIceParams(u) ==
    /\ Idle
    /\ ice' = SortConnectionsAndUpdateState(
                 [ice EXCEPT !.remote = TRUE, !.ufrag = u,
                             !.conn = [c \in Conns |->
                                 IF c \in Members(ice.order)
                                 THEN MaybeSetRemoteIceParams(ice.conn[c], u)
                                 ELSE ice.conn[c]]])
    /\ UNCHANGED <<loop, todo, phase>>

(* A response is let in when it carries the remote password and the id of  *)
(* a request that is still in _requests                                    *)
AcceptsResponse(c) == Idle /\ ice.conn[c].life = "live" /\ ice.conn[c].pwd /\ ice.conn[c].reqs > 0

(* check_response deletes the request the response is for *)
RequestDeleted(m, c, n) ==
    /\ n \in (IF m.conn[c].reqs = MaxReqs THEN {MaxReqs, MaxReqs - 1}
              ELSE {m.conn[c].reqs - 1})

PingResponse(c, rtt, later) ==
    /\ AcceptsResponse(c)
    /\ ice.conn[c].sent > 0 => later
    /\ \E n \in 0 .. MaxReqs :
          /\ RequestDeleted(ice, c, n)
          /\ ice' = [ReceivedPingResponse(ice, c, rtt, later) EXCEPT !.conn[c].reqs = n]
    /\ UNCHANGED <<loop, todo, phase>>

(* StunMessage::get_error_code_value of the response *)
Stun == INSTANCE StunMessage

ErrorCode(code) ==
    Stun!ErrorCodeValue(Stun!Write(Stun!AddAttribute(Stun!NewMessage("error"),
                                       Stun!Attribute("ERROR_CODE", 4, code))))

(* STUN_ERROR_UNAUTHORIZED, UNKNOWN_ATTRIBUTE and SERVER_ERROR *)
RetryCodes == {401, 420, 500}

(* An error response.  fail_and_destroy deletes the connection and all its *)
(* requests, one of which check_response then deletes a second time: what  *)
(* the process does after that is undefined, so the model ends there.      *)
ErrorResponse(c, code) ==
    /\ AcceptsResponse(c)
    /\ LET fatal == ErrorCode(code) \notin RetryCodes
       IN  /\ \E n \in 0 .. MaxReqs :
                 /\ RequestDeleted(ice, c, n)
                 /\ ice' = [(IF fatal THEN DestroyConnection(ice, c) ELSE ice)
                                EXCEPT !.conn[c].reqs = n, !.err = code]
           /\ phase' = IF fatal THEN "undefined" ELSE phase
    /\ UNCHANGED <<loop, todo>>

Older(age, cap) == Least(age + 1, cap)

Tick ==
    /\ Idle /\ (ice.pinging => ice.due > 0)
    /\ ice' = [ice EXCEPT
                 !.conn = [c \in Conns |->
                     IF ice.conn[c].life # "live" THEN ice.conn[c]
                     ELSE [ice.conn[c] EXCEPT
                              !.sent = Older(@, AgeCap),
                              !.resp = Older(@, WEAK_CONNECTION_RECEIVE_TIMEOUT),
                              !.out = [i \in DOMAIN @ |-> Older(@[i], AgeCap)]]],
                 !.due = IF ice.pinging THEN @ - 1 ELSE @,
                 !.last = Older(@, STRONG_PING_INTERVAL)]
    /\ UNCHANGED <<loop, todo, phase>>

(* _on_check_and_ping: the timer fires, the connections are updated one    *)
(* after the other, then at most one is pinged                             *)
CheckAndPing ==
    /\ Idle /\ ice.pinging /\ ice.due = 0
    /\ loop' = "update" /\ todo' = ice.order
    /\ UNCHANGED <<ice, phase>>

UpdateConnectionStates ==
    /\ loop = "update" /\ todo # <<>>
    /\ ice' = UpdateConnection(ice, Head(todo))
    /\ todo' = Tail(todo)
    /\ UNCHANGED <<loop, phase>>

NeedPingMoreAtWeak(m) ==
    \E c \in Members(m.order) : m.conn[c].pings < MIN_PINGS_AT_WEAK_PING_INTERVAL

NextPingInterval(m) ==
    IF Weak(m) \/ NeedPingMoreAtWeak(m) THEN WEAK_PING_INTERVAL ELSE STRONG_PING_INTERVAL

(* _find_next_pingable_connection: the selected one when it is due ...     *)
SelectedFirst(m) ==
    m.chosen # NoConn /\ Writable(m, m.chosen) /\ PastPingInterval(m, m.chosen)

(* ... or else a new round when no unpinged one can be pinged, and the one *)
(* of this round that was pinged longest ago (ties: by address in memory)  *)
StartRound(m) ==
    IF \E c \in m.unpinged : Pingable(m, c) THEN m
    ELSE [m EXCEPT !.unpinged = @ \cup m.pinged, !.pinged = {}]

LongestWaiting(m) ==
    LET can == {c \in m.unpinged : Pingable(m, c)}
    IN  {c \in can : \A d \in can : m.conn[d].sent <= m.conn[c].sent}

(* The memory and the connection that select_connection_to_ping leaves *)
Selection(m) ==
    IF m.last < NextPingInterval(m) THEN {<<m, NoConn>>}
    ELSE IF SelectedFirst(m) THEN {<<m, m.chosen>>}
    ELSE LET r == StartRound(m)
         IN  IF LongestWaiting(r) = {} THEN {<<r, NoConn>>}
             ELSE {<<r, c>> : c \in LongestWaiting(r)}

SelectAndPing ==
    /\ loop = "update" /\ todo = <<>>
    /\ \E p \in Selection(ice) :
          LET m == IF p[2] = NoConn THEN p[1] ELSE PingConnection(p[1], p[2])
          IN  ice' = [m EXCEPT !.interval = NextPingInterval(ice),
                               !.due = NextPingInterval(ice)]
    /\ loop' = "none"
    /\ UNCHANGED <<todo, phase>>

(* ~IceTransportChannel: the timer goes first, then every connection *)
DeleteChannel ==
    /\ Idle
    /\ loop' = "destroy" /\ todo' = ice.order
    /\ UNCHANGED <<ice, phase>>

DestroyConnections ==
    /\ loop = "destroy" /\ todo # <<>>
    /\ ice' = DestroyConnection(ice, Head(todo))
    /\ todo' = Tail(todo)
    /\ UNCHANGED <<loop, phase>>

ChannelDeleted ==
    /\ loop = "destroy" /\ todo = <<>>
    /\ loop' = "none" /\ phase' = "closed"
    /\ UNCHANGED <<ice, todo>>

LoopStep ==
    UpdateConnectionStates \/ SelectAndPing \/ DestroyConnections \/ ChannelDeleted

Next ==
    \/ \E c \in Conns :
          \/ \E u \in Ufrags : UnknownAddress(c, u)
          \/ \E rtt \in RttSamples, later \in BOOLEAN : PingResponse(c, rtt, later)
          \/ \E code \in Codes : ErrorResponse(c, code)
    \/ \E u \in Answers : SetRemoteIceParams(u)
    \/ Tick \/ CheckAndPing \/ DeleteChannel
    \/ LoopStep

Spec == Init /\ [][Next]_vars

(* A started loop goes on: the part of LoopStep that moves todo and loop,   *)
(* which no other action does while a loop runs                            *)
LoopGoesOn ==
    \/ loop # "none" /\ todo # <<>> /\ todo' = Tail(todo) /\ loop' = loop
    \/ loop # "none" /\ todo = <<>> /\ todo' = todo /\ loop' = "none"

(* The event loop runs handlers to their end and fires the timer; nothing  *)
(* is assumed of the peer                                                  *)
FairSpec ==
    /\ Spec
    /\ WF_vars(Tick) /\ WF_vars(CheckAndPing) /\ WF_<<loop, todo>>(LoopGoesOn)

-----------------------------------------------------------------------------
Memory ==
    [conn: [Conns -> Connection], order: Seq(Conns),
     unpinged: SUBSET Conns, pinged: SUBSET Conns,
     chosen: Conns \cup {NoConn}, selected: Conns \cup {NoConn},
     writable: BOOLEAN, receiving: BOOLEAN,
     state: {"new", "checking", "connected", "disconnected", "failed"},
     had: BOOLEAN, been: BOOLEAN, remote: BOOLEAN, ufrag: Ufrags, pinging: BOOLEAN,
     interval: {WEAK_PING_INTERVAL, STRONG_PING_INTERVAL},
     due: 0 .. STRONG_PING_INTERVAL, last: 0 .. STRONG_PING_INTERVAL, stale: BOOLEAN, err: Codes \cup {0}]

(* Type invariant *)
TypeOK ==
    /\ ice \in Memory
    /\ loop \in {"none", "update", "destroy"}
    /\ todo \in Seq(Conns)
    /\ phase \in {"open", "closed", "undefined"}

(* The channel's selected connection is alive, is on the controller's list *)
(* and is the one the controller believes selected: the two pointers are   *)
(* set in different objects by _switch_selected_connection; everything has *)
(* its type                                                                *)
SelectedAlive ==
    /\ TypeOK
    /\ ice.selected # NoConn =>
          /\ ice.conn[ice.selected].life = "live"
          /\ ice.selected \in Members(ice.order)
          /\ ice.chosen = ice.selected

(* Although _switch_selected_connection(nullptr) leaves the controller a   *)
(* pointer to the connection being destroyed, no sort reads it once the    *)
(* connection is deleted, not even while the destructor destroys the rest  *)
NoStaleRead == ~ice.stale

(* What the channel has told its listeners is what its connections say     *)
(* now: every path that changes a connection ends in _update_state, also   *)
(* between the iterations of a loop                                        *)
StateAccurate ==
    /\ ice.writable = ChannelWritable(ice)
    /\ ice.receiving = ChannelReceiving(ice)
    /\ ice.state = ChannelState(ice)

(* Whichever comes first, the peer's binding request or its answer: a      *)
(* connection whose password is known, or whose user the last answer       *)
(* names, is pinged again and again.  Not so one whose user is not named   *)
(* by any answer that comes after it, or has no name                       *)
PingedAgain ==
    \A c \in Conns :
        []<>(/\ ice.conn[c].life = "live" /\ ice.conn[c].user # NoUfrag
             /\ ice.conn[c].pwd \/ (ice.remote /\ ice.conn[c].user = ice.ufrag)
             => phase # "open" \/ ice.conn[c].sent = 0)

(* When the peer stops answering (a response has age 0 until the next      *)
(* tick), the channel fails for good: every connection times out and the   *)
(* channel says so, unless it goes away first.  A connection that can not  *)
(* be pinged never times out, so there must be none                        *)
Silent ==
    /\ ice.had /\ ice.remote
    /\ \A c \in Conns : /\ ice.conn[c].resp > 0
                        /\ ice.conn[c].life = "live" => Keyed(ice.conn[c])

DeadPeerFails ==
    <>[]Silent => <>[](ice.state = "failed" \/ phase # "open" \/ loop = "destroy")

(* What the listeners of the channel rely on *)
Ch == INSTANCE IceChannel WITH
          ch <- [remote |-> ice.remote, had |-> ice.had, been |-> ice.been,
                 writable |-> ice.writable, receiving |-> ice.receiving, state |-> ice.state]

(* The channel with its controller and connections implements IceChannel,  *)
(* the specification MediaTransport is built on: in particular it is not   *)
(* writable before the peer's parameters are known, in whatever order      *)
(* binding requests, answers and responses come                            *)
ImplementsChannel == Ch!ChannelSpec

(* "retry maybe recover": an error response with one of the three codes    *)
(* does not end the connection                                             *)
RetryRecovers == phase = "undefined" => ice.err \notin RetryCodes
=============================================================================
