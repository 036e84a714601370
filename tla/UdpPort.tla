------------------------------- MODULE UdpPort -------------------------------
(***************************************************************************)
(* A UDPPort with its socket (src/rtcserver/src/ice/udp_port.cpp): what    *)
(* the io callback reads is demultiplexed by address, STUN binding         *)
(* requests are authenticated and answered at once through the same        *)
(* socket, everything else goes up to the connection of its address.       *)
(* Connections are known here by the remote user name they were created    *)
(* with; what they do with a response is in IceTransportChannel.           *)
(***************************************************************************)
EXTENDS AsyncUdpSocket, StunMessage, FiniteSets

CONSTANTS
    Addrs,          \* remote socket addresses
    Ufrags,         \* remote user name fragments
    NoUser,         \* no connection for the address
    Inputs,         \* what may arrive: octets of a STUN message, or Media
    Media,          \* octets that are no STUN message
    MyUfrag, MyPwd, PeerPwd,   \* the credentials of the two ends
    UfragLength,    \* characters of a user name fragment
    MaxRecv,        \* bound: datagrams received
    MaxSends        \* bound: datagrams sent on behalf of the upper layers

ASSUME PortAssumption ==
    /\ NoUser \notin Ufrags
    /\ UfragLength \in Nat /\ UfragLength <= 32000   \* a ping fits a UDP datagram
    /\ MaxRecv \in Nat /\ MaxSends \in Nat

VARIABLES
    conns,    \* _connections: the user of the connection of an address
    cb,       \* the events the running io callback still has to handle
    asked,    \* history: the datagrams received, in order
    sends     \* history: how many datagrams the upper layers have sent

portVars == <<conns, cb, asked, sends>>

vars == <<socketVars, portVars>>

Init ==
    /\ SocketInit
    /\ conns = [a \in Addrs |-> NoUser]
    /\ cb = {} /\ asked = <<>> /\ sends = 0

-----------------------------------------------------------------------------
(* The messages it sends *)

BindingResponse ==
    Write(AddFingerprint(AddMessageIntegrity(
        AddAttribute(NewMessage("response"), Attribute("XOR_MAPPED_ADDRESS", 8, <<>>)), MyPwd)))

(* "Bad request" and "Unauthorized", after the four octets of the code.    *)
(* Neither carries a MESSAGE-INTEGRITY.                                    *)
BindingErrorResponse(code) ==
    LET reason == IF code = 400 THEN 11 ELSE 12
    IN  Write(AddFingerprint(
            AddAttribute(NewMessage("error"), Attribute("ERROR_CODE", 4 + reason, code))))

(* ConnectionRequest::prepare *)
ConnectionRequest(user) ==
    LET named == AddAttribute(NewMessage("request"),
                     Attribute("USERNAME", 2 * UfragLength + 1, <<user, MyUfrag>>))
        role == AddAttribute(AddAttribute(named, Attribute("ICE_CONTROLLING", 8, <<>>)),
                     Attribute("USE_CANDIDATE", 0, <<>>))
    IN  Write(AddFingerprint(AddMessageIntegrity(
            AddAttribute(role, Attribute("PRIORITY", 4, <<>>)), PeerPwd)))

-----------------------------------------------------------------------------
(* Mutant: the HMAC of a request is not checked *)
Verdict_NoIntegrity(w) ==
    IF w = Media THEN "media"
    ELSE IF ~ValidateFingerprint(w) \/ ~Readable(w) THEN "media"
    ELSE IF w.type # "request" THEN "accepted"
    ELSE IF ~Has(w, "USERNAME") \/ ~Has(w, "MESSAGE_INTEGRITY") THEN "bad_request"
    ELSE IF Value(w, "USERNAME")[1] # MyUfrag THEN "unauthorized"
    ELSE "accepted"

(* get_stun_message: not a STUN message, a request that was refused with   *)
(* an error response, or a message for the caller                          *)
Verdict(w) ==
    IF w = Media THEN "media"
    ELSE IF ~ValidateFingerprint(w) \/ ~Readable(w) THEN "media"
    ELSE IF w.type # "request" THEN "accepted"
    ELSE IF ~Has(w, "USERNAME") \/ ~Has(w, "MESSAGE_INTEGRITY") THEN "bad_request"
    ELSE IF Value(w, "USERNAME")[1] # MyUfrag THEN "unauthorized"
    ELSE IF ~ValidateMessageIntegrity(w, MyPwd) THEN "unauthorized"
    ELSE "accepted"

RemoteUfrag(w) == Value(w, "USERNAME")[2]

(* Mutant: the user of a known connection is not compared *)
Answer_AnyUser(a, w) ==
    CASE w = Media -> "none"
      [] Verdict(w) \in {"bad_request", "unauthorized"} -> Verdict(w)
      [] Verdict(w) = "media" \/ w.type # "request" -> "none"
      [] conns[a] = NoUser /\ ~Has(w, "PRIORITY") -> "bad_request"
      [] OTHER -> "success"

(* What a datagram from address a is answered with: _on_read_packet, and   *)
(* on_read_packet of the connection or _on_unknown_address of the channel  *)
Answer(a, w) ==
    CASE w = Media -> "none"
      [] Verdict(w) \in {"bad_request", "unauthorized"} -> Verdict(w)
      [] Verdict(w) = "media" \/ w.type # "request" -> "none"
      [] conns[a] = NoUser /\ ~Has(w, "PRIORITY") -> "bad_request"
      [] conns[a] # NoUser /\ RemoteUfrag(w) # conns[a] -> "unauthorized"
      [] OTHER -> "success"

Reply(a, answer) ==
    [id |-> Len(asked) + 1, to |-> a,
     msg |-> CASE answer = "success" -> BindingResponse
               [] answer = "bad_request" -> BindingErrorResponse(400)
               [] OTHER -> BindingErrorResponse(401)]

-----------------------------------------------------------------------------
(* The event loop reports what the watcher waits for; the callback reads   *)
(* until nothing is left, then flushes the list                            *)
IoEvent(ready) ==
    /\ pc = "idle" /\ cb = {}
    /\ ready # {} /\ ready \subseteq events
    /\ cb' = ready
    /\ UNCHANGED <<socketVars, conns, asked, sends>>

(* recv_data, one datagram *)
OnReadPacket(a, w) ==
    /\ pc = "idle" /\ "READ" \in cb /\ Len(asked) < MaxRecv
    /\ asked' = Append(asked, [from |-> a, msg |-> w])
    /\ LET answer == Answer(a, w)
       IN  /\ conns' = [conns EXCEPT ![a] =
                            IF answer = "success" /\ @ = NoUser THEN RemoteUfrag(w) ELSE @]
           /\ IF answer = "none" THEN UNCHANGED socketVars ELSE SendTo(Reply(a, answer))
    /\ UNCHANGED <<cb, sends>>

(* recvfrom has nothing more *)
ReadDone ==
    /\ pc = "idle" /\ "READ" \in cb
    /\ cb' = cb \ {"READ"}
    /\ UNCHANGED <<socketVars, conns, asked, sends>>

OnWritable ==
    /\ cb = {"WRITE"} /\ SendData
    /\ cb' = {}
    /\ UNCHANGED <<conns, asked, sends>>

(* A timer or a packet makes a connection ping or forward media *)
UpperLayerSends(a, ping) ==
    /\ conns[a] # NoUser /\ sends < MaxSends
    /\ cb = {} \/ "READ" \in cb
    /\ SendTo([id |-> 0, to |-> a,
               msg |-> IF ping THEN ConnectionRequest(conns[a]) ELSE Media])
    /\ sends' = sends + 1
    /\ UNCHANGED <<conns, cb, asked>>

KernelAnswers == SendStep /\ UNCHANGED portVars

Next ==
    \/ \E ready \in SUBSET {"READ", "WRITE"} : IoEvent(ready)
    \/ \E a \in Addrs, w \in Inputs : OnReadPacket(a, w)
    \/ ReadDone \/ OnWritable \/ KernelAnswers
    \/ \E a \in Addrs, ping \in BOOLEAN : UpperLayerSends(a, ping)

Spec == Init /\ [][Next]_vars

(* The thread runs its callbacks to their end; a socket that is watched    *)
(* for WRITE is reported writable again and again, with or without input   *)
(* (the poll is level-triggered); the kernel does not answer EAGAIN for    *)
(* ever.  Nothing is assumed of what arrives.                              *)
WriteReported == IoEvent({"WRITE"}) \/ IoEvent({"READ", "WRITE"})

FairSpec ==
    /\ Spec
    /\ SF_vars(WriteReported) /\ WF_vars(ReadDone) /\ WF_vars(OnWritable)
    /\ WF_vars(KernelAnswers) /\ SF_vars(SendProgress /\ UNCHANGED portVars)

-----------------------------------------------------------------------------
Datagrams ==
    [id: 0 .. MaxRecv, to: Addrs,
     msg: {Media, BindingResponse, BindingErrorResponse(400), BindingErrorResponse(401)}
          \cup {ConnectionRequest(u) : u \in Ufrags}]

(* The constants fit together: a binding request that passes all checks    *)
(* names a user of Ufrags, and what the port sends are datagrams           *)
Admitted(w) == w # Media /\ Verdict(w) = "accepted" /\ w.type = "request"

ASSUME InputAssumption == \A w \in Inputs : Admitted(w) => RemoteUfrag(w) \in Ufrags

ASSUME DatagramAssumption == Datagrams \subseteq Datagram

(* Type invariant *)
TypeOK ==
    /\ SocketTypeOK
    /\ conns \in [Addrs -> Ufrags \cup {NoUser}]
    /\ cb \subseteq {"READ", "WRITE"}
    /\ asked \in Seq([from: Addrs, msg: Inputs]) /\ sends \in 0 .. MaxSends

Members(s) == {s[i] : i \in DOMAIN s}

InFlight == wire \o list \o hand

(* What leaves passes the checks of a receiver that runs the same code:    *)
(* the length field, the padding, the CRC and the HMAC agree, whatever was *)
(* added to the message after the HMAC was computed                        *)
SentMessagesVerify ==
    \A d \in Members(InFlight) : d.msg # Media =>
        /\ ValidateFingerprint(d.msg) /\ Readable(d.msg)
        /\ d.msg.type = "response" => ValidateMessageIntegrity(d.msg, MyPwd)
        /\ d.msg.type = "request" => /\ ValidateMessageIntegrity(d.msg, PeerPwd)
                                     /\ Value(d.msg, "USERNAME")[1] = conns[d.to]

(* A request is answered at most once, to where it came from, and with     *)
(* success only when it was signed with this port's password for this port *)
RepliesMatch ==
    /\ \A i, j \in DOMAIN InFlight :
          InFlight[i].id = InFlight[j].id /\ InFlight[i].id # 0 => i = j
    /\ \A d \in Members(InFlight) : d.id # 0 =>
          /\ asked[d.id].from = d.to
          /\ d.msg.type = "response" =>
                \E i \in DOMAIN asked[d.id].msg.attrs :
                    /\ asked[d.id].msg.attrs[i].type = "MESSAGE_INTEGRITY"
                    /\ asked[d.id].msg.attrs[i].value[1] = MyPwd

(* All the requests from one address that were answered with success name  *)
(* the same user: the first one decides whose connection it is             *)
OneUserPerAddress ==
    \A d, e \in Members(InFlight) :
        /\ d.id # 0 /\ e.id # 0 /\ d.to = e.to
        /\ d.msg.type = "response" /\ e.msg.type = "response"
        => RemoteUfrag(asked[d.id].msg) = RemoteUfrag(asked[e.id].msg)

(* A datagram that waits leaves: it is sent or given up *)
NoDatagramWaitsForever ==
    \A i \in 1 .. MaxRecv :
        (\E d \in Members(list) : d.id = i) ~> (\A d \in Members(list) : d.id # i)

(* A socket with nothing to send stops watching WRITE, also when it was an *)
(* error that emptied the list                                             *)
WriteWatchEnds == <>[]("WRITE" \notin events)
=============================================================================
