---------------------------- MODULE UdpPortProofs ----------------------------
(***************************************************************************)
(* Proofs about UdpPort for every set of addresses, users and inputs and   *)
(* every bound.  The port drives its socket only through the operations of *)
(* AsyncUdpSocket, so the theorems about the socket hold of the composed   *)
(* system.  The answers are right because three facts survive every step   *)
(* of the socket: the identities of the answers in flight are those of     *)
(* datagrams received, no two are equal, and an answer of success agrees   *)
(* with the table of connections.  The messages pass a receiver's checks   *)
(* because the length field is the size of the attributes at every step of *)
(* their construction.                                                     *)
(***************************************************************************)
EXTENDS UdpPort, AsyncUdpSocketProofs

(* The types of what the port keeps beside the socket *)
PortType ==
    /\ conns \in [Addrs -> Ufrags \cup {NoUser}]
    /\ cb \subseteq {"READ", "WRITE"}
    /\ asked \in Seq([from: Addrs, msg: Inputs]) /\ sends \in 0 .. MaxSends

-----------------------------------------------------------------------------
(* What the handlers decide *)

LEMMA VerdictValues ==
    ASSUME NEW w
    PROVE  Verdict(w) \in {"media", "accepted", "bad_request", "unauthorized"}
  BY DEF Verdict

(* Only an admitted request is answered with success, and only for the     *)
(* user of the connection when there is one                                *)
LEMMA AnswerFacts ==
    ASSUME NEW a, NEW w
    PROVE  /\ Answer(a, w) \in {"none", "bad_request", "unauthorized", "success"}
           /\ Answer(a, w) = "success" =>
                 /\ Admitted(w)
                 /\ conns[a] # NoUser => RemoteUfrag(w) = conns[a]
  <1>1. CASE w = Media
    BY <1>1 DEF Answer
  <1>2. CASE w # Media /\ Verdict(w) \in {"bad_request", "unauthorized"}
    BY <1>2 DEF Answer
  <1>3. CASE w # Media /\ Verdict(w) = "media"
    BY <1>3 DEF Answer
  <1>4. CASE w # Media /\ Verdict(w) = "accepted"
    BY <1>4 DEF Answer, Admitted
  <1> QED
    BY <1>1, <1>2, <1>3, <1>4, VerdictValues

(* A request that is admitted was signed with this port's password *)
LEMMA AdmittedSigned ==
    ASSUME NEW w, Admitted(w)
    PROVE  \E i \in DOMAIN w.attrs :
              /\ w.attrs[i].type = "MESSAGE_INTEGRITY"
              /\ w.attrs[i].value[1] = MyPwd
  <1>1. ValidateMessageIntegrity(w, MyPwd)
    BY DEF Admitted, Verdict
  <1>2. PICK i \in DOMAIN w.attrs :
          /\ w.attrs[i].type = "MESSAGE_INTEGRITY"
          /\ \E n : w.attrs[i].value = <<MyPwd, w.type, n, SubSeq(w.attrs, 1, i - 1)>>
    BY <1>1 DEF ValidateMessageIntegrity
  <1>3. w.attrs[i].value[1] = MyPwd
    BY <1>2
  <1> QED
    BY <1>2, <1>3

(* Attributes do not change the type of a message *)
LEMMA AddAttributeType ==
    ASSUME NEW m, NEW a, "type" \in DOMAIN m
    PROVE  "type" \in DOMAIN AddAttribute(m, a) /\ AddAttribute(m, a).type = m.type
  BY DEF AddAttribute

LEMMA AddMessageIntegrityType ==
    ASSUME NEW m, NEW pwd, "type" \in DOMAIN m
    PROVE  /\ "type" \in DOMAIN AddMessageIntegrity(m, pwd)
           /\ AddMessageIntegrity(m, pwd).type = m.type
  BY AddAttributeType DEF AddMessageIntegrity

LEMMA AddFingerprintType ==
    ASSUME NEW m, "type" \in DOMAIN m
    PROVE  AddFingerprint(m).type = m.type
  BY AddAttributeType DEF AddFingerprint

(* The answers can be told apart by their type *)
LEMMA ResponseTypes ==
    /\ BindingResponse.type = "response"
    /\ \A code : BindingErrorResponse(code).type = "error"
  <1>1. \A t : "type" \in DOMAIN NewMessage(t) /\ NewMessage(t).type = t
    BY DEF NewMessage
  <1>2. \A m : Write(m).type = m.type
    BY DEF Write
  <1>3. BindingResponse.type = "response"
    BY <1>1, <1>2, AddAttributeType, AddMessageIntegrityType, AddFingerprintType DEF BindingResponse
  <1>4. ASSUME NEW code PROVE BindingErrorResponse(code).type = "error"
    BY <1>1, <1>2, AddAttributeType, AddFingerprintType DEF BindingErrorResponse
  <1> QED
    BY <1>3, <1>4

LEMMA ReplyFacts ==
    ASSUME NEW a \in Addrs, NEW answer \in {"bad_request", "unauthorized", "success"},
           PortType, Len(asked) < MaxRecv
    PROVE  /\ Reply(a, answer) \in Datagram
           /\ Reply(a, answer).id = Len(asked) + 1
           /\ Reply(a, answer).to = a
           /\ Reply(a, answer).msg.type = "response" => answer = "success"
  <1>1. Len(asked) \in Nat
    BY DEF PortType
  <1>2. Len(asked) + 1 \in 0 .. MaxRecv
    BY <1>1, PortAssumption
  <1>3. CASE answer = "success"
    <2>1. Reply(a, answer) = [id |-> Len(asked) + 1, to |-> a, msg |-> BindingResponse]
      BY <1>3 DEF Reply
    <2>2. Reply(a, answer) \in Datagrams
      BY <1>2, <2>1 DEF Datagrams
    <2> QED
      BY <1>3, <2>1, <2>2, DatagramAssumption
  <1>4. CASE answer = "bad_request"
    <2>1. Reply(a, answer) = [id |-> Len(asked) + 1, to |-> a, msg |-> BindingErrorResponse(400)]
      BY <1>4 DEF Reply
    <2>2. Reply(a, answer) \in Datagrams
      BY <1>2, <2>1 DEF Datagrams
    <2>3. Reply(a, answer).msg.type = "error"
      BY <2>1, ResponseTypes
    <2> QED
      BY <2>1, <2>2, <2>3, DatagramAssumption
  <1>5. CASE answer = "unauthorized"
    <2>1. Reply(a, answer) = [id |-> Len(asked) + 1, to |-> a, msg |-> BindingErrorResponse(401)]
      BY <1>5 DEF Reply
    <2>2. Reply(a, answer) \in Datagrams
      BY <1>2, <2>1 DEF Datagrams
    <2>3. Reply(a, answer).msg.type = "error"
      BY <2>1, ResponseTypes
    <2> QED
      BY <2>1, <2>2, <2>3, DatagramAssumption
  <1> QED
    BY <1>3, <1>4, <1>5

-----------------------------------------------------------------------------
(* The port moves its socket only by operations of AsyncUdpSocket *)

LEMMA PortStep ==
    ASSUME PortType, [Next]_vars
    PROVE  [SocketNext]_socketVars /\ PortType'
  <1> USE DEF portVars
  <1>1. ASSUME NEW ready \in SUBSET {"READ", "WRITE"}, IoEvent(ready)
        PROVE  UNCHANGED socketVars /\ PortType'
    BY <1>1 DEF IoEvent, PortType
  <1>2. ASSUME NEW a \in Addrs, NEW w \in Inputs, OnReadPacket(a, w)
        PROVE  [SocketNext]_socketVars /\ PortType'
    <2> DEFINE answer == Answer(a, w)
    <2>1. /\ asked' = Append(asked, [from |-> a, msg |-> w]) /\ cb' = cb /\ sends' = sends
          /\ conns' = [conns EXCEPT ![a] =
                          IF answer = "success" /\ @ = NoUser THEN RemoteUfrag(w) ELSE @]
          /\ IF answer = "none" THEN UNCHANGED socketVars ELSE SendTo(Reply(a, answer))
          /\ Len(asked) < MaxRecv
      BY <1>2 DEF OnReadPacket
    <2>2. answer = "success" => RemoteUfrag(w) \in Ufrags
      BY AnswerFacts, InputAssumption
    <2>3. conns' \in [Addrs -> Ufrags \cup {NoUser}]
      <3>1. conns \in [Addrs -> Ufrags \cup {NoUser}]
        BY DEF PortType
      <3> HIDE DEF answer
      <3> QED
        BY <2>1, <2>2, <3>1
    <2>4. asked' \in Seq([from: Addrs, msg: Inputs])
      <3>1. [from |-> a, msg |-> w] \in [from: Addrs, msg: Inputs]
        OBVIOUS
      <3>2. asked \in Seq([from: Addrs, msg: Inputs])
        BY DEF PortType
      <3> QED
        BY <2>1, <3>1, <3>2, AppendProperties
    <2>5. PortType'
      BY <2>1, <2>3, <2>4 DEF PortType
    <2>6. [SocketNext]_socketVars
      <3>1. CASE answer = "none"
        BY <2>1, <3>1
      <3>2. CASE answer # "none"
        <4>1. answer \in {"bad_request", "unauthorized", "success"}
          BY <3>2, AnswerFacts
        <4>2. Reply(a, answer) \in Datagram
          BY <2>1, <4>1, ReplyFacts
        <4>3. SendTo(Reply(a, answer))
          BY <2>1, <3>2
        <4> QED
          BY <4>2, <4>3 DEF SocketNext
      <3> QED
        BY <3>1, <3>2
    <2> QED
      BY <2>5, <2>6
  <1>3. CASE ReadDone
    <2>1. PortType'
      BY <1>3 DEF ReadDone, PortType
    <2> QED
      BY <1>3, <2>1 DEF ReadDone
  <1>4. CASE OnWritable
    <2>1. PortType'
      BY <1>4 DEF OnWritable, PortType
    <2> QED
      BY <1>4, <2>1 DEF OnWritable, SocketNext
  <1>5. CASE KernelAnswers
    <2>1. PortType'
      BY <1>5 DEF KernelAnswers, PortType
    <2> QED
      BY <1>5, <2>1 DEF KernelAnswers, SocketNext
  <1>6. ASSUME NEW a \in Addrs, NEW ping \in BOOLEAN, UpperLayerSends(a, ping)
        PROVE  [SocketNext]_socketVars /\ PortType'
    <2> DEFINE d == [id |-> 0, to |-> a,
                     msg |-> IF ping THEN ConnectionRequest(conns[a]) ELSE Media]
    <2>1. conns[a] \in Ufrags
      BY <1>6 DEF UpperLayerSends, PortType
    <2>2. 0 \in 0 .. MaxRecv
      BY PortAssumption
    <2>3. d \in Datagrams
      BY <2>1, <2>2 DEF Datagrams
    <2>4. d \in Datagram /\ SendTo(d)
      BY <1>6, <2>3, DatagramAssumption DEF UpperLayerSends
    <2>5. [SocketNext]_socketVars
      BY <2>4 DEF SocketNext
    <2>6. /\ conns' = conns /\ cb' = cb /\ asked' = asked
          /\ sends' = sends + 1 /\ sends < MaxSends
      BY <1>6 DEF UpperLayerSends
    <2>7. PortType'
      BY <2>6, PortAssumption DEF PortType
    <2> QED
      BY <2>5, <2>7
  <1>7. CASE UNCHANGED vars
    BY <1>7 DEF vars, PortType
  <1> QED
    BY <1>1, <1>2, <1>3, <1>4, <1>5, <1>6, <1>7 DEF Next

LEMMA PortTypeInvariant == Spec => []PortType
  <1>1. Init => PortType
    BY PortAssumption DEF Init, PortType
  <1>2. PortType /\ [Next]_vars => PortType'
    BY PortStep
  <1> QED
    BY <1>1, <1>2, PTL DEF Spec

(* The composed system behaves, in its socket, as AsyncUdpSocket: what is  *)
(* proved of the socket alone holds of a port that uses it                 *)
THEOREM PortUsesSocket == Spec => SocketSpec
  <1>1. Init => SocketInit
    BY DEF Init
  <1>2. PortType /\ [Next]_vars => [SocketNext]_socketVars
    BY PortStep
  <1> QED
    BY <1>1, <1>2, PortTypeInvariant, PTL DEF Spec, SocketSpec

(* The types are kept whatever arrives and whatever the kernel answers *)
THEOREM PortTypeCorrect == Spec => []TypeOK
  <1>1. SocketInv /\ PortType => TypeOK
    BY DEF SocketInv, PortType, TypeOK
  <1> QED
    BY <1>1, PortUsesSocket, SocketInvariant, PortTypeInvariant, PTL

(* No datagram of a port is stranded in the list of its socket: WRITE is   *)
(* watched while one waits                                                 *)
THEOREM PortNothingStranded == Spec => []NoStrandedDatagram
  BY PortUsesSocket, NothingStranded, PTL

(* What a port sends leaves in order, and an error costs the oldest        *)
(* datagram and at most the one being sent                                 *)
THEOREM PortRefinement == Spec => ImplementsLossyFifo
  BY PortUsesSocket, SocketRefinement, PTL

-----------------------------------------------------------------------------
(* What the socket does to the datagrams in flight *)

(* The members of t are members of s at different places *)
Kept(t, s) ==
    \E f \in [1 .. Len(t) -> 1 .. Len(s)] :
        /\ \A i, j \in 1 .. Len(t) : f[i] = f[j] => i = j
        /\ \A i \in 1 .. Len(t) : t[i] = s[f[i]]

LEMMA KeptSelf ==
    ASSUME NEW S, NEW s \in Seq(S)
    PROVE  Kept(s, s)
  <1> DEFINE f == [i \in 1 .. Len(s) |-> i]
  <1>1. f \in [1 .. Len(s) -> 1 .. Len(s)]
    OBVIOUS
  <1>2. \A i, j \in 1 .. Len(s) : f[i] = f[j] => i = j
    OBVIOUS
  <1>3. \A i \in 1 .. Len(s) : s[i] = s[f[i]]
    OBVIOUS
  <1> QED
    BY <1>1, <1>2, <1>3 DEF Kept

LEMMA KeptPrefix ==
    ASSUME NEW S, NEW s \in Seq(S), NEW t \in Seq(S)
    PROVE  Kept(s, s \o t)
  <1> DEFINE f == [i \in 1 .. Len(s) |-> i]
  <1>1. /\ Len(s \o t) = Len(s) + Len(t) /\ Len(s) \in Nat /\ Len(t) \in Nat
        /\ \A i \in 1 .. Len(s) : (s \o t)[i] = s[i]
    BY ConcatProperties
  <1>2. f \in [1 .. Len(s) -> 1 .. Len(s \o t)]
    BY <1>1
  <1>3. \A i, j \in 1 .. Len(s) : f[i] = f[j] => i = j
    OBVIOUS
  <1>4. \A i \in 1 .. Len(s) : s[i] = (s \o t)[f[i]]
    BY <1>1
  <1> QED
    BY <1>2, <1>3, <1>4 DEF Kept

(* The oldest datagram of the list, and perhaps the one in hand, is lost *)
LEMMA KeptWithoutHead ==
    ASSUME NEW S, NEW w \in Seq(S), NEW l \in Seq(S), NEW h \in Seq(S), l # <<>>
    PROVE  Kept(w \o Tail(l), (w \o l) \o h)
  <1>0. Len(w) \in Nat /\ Len(l) \in Nat \ {0} /\ Len(h) \in Nat
    BY EmptySeq, LenProperties
  <1>1. /\ Tail(l) \in Seq(S) /\ Len(Tail(l)) = Len(l) - 1
        /\ \A i \in 1 .. Len(Tail(l)) : Tail(l)[i] = l[i + 1]
    BY HeadTailProperties
  <1>2. /\ Len(w \o Tail(l)) = Len(w) + Len(l) - 1
        /\ \A i \in 1 .. Len(w) + Len(l) - 1 :
              (w \o Tail(l))[i] = IF i <= Len(w) THEN w[i] ELSE Tail(l)[i - Len(w)]
    <2>1. /\ Len(w \o Tail(l)) = Len(w) + Len(Tail(l))
          /\ \A i \in 1 .. Len(w) + Len(Tail(l)) :
                (w \o Tail(l))[i] = IF i <= Len(w) THEN w[i] ELSE Tail(l)[i - Len(w)]
      BY <1>1, ConcatProperties
    <2>2. Len(w) + Len(Tail(l)) = Len(w) + Len(l) - 1
      BY <1>0, <1>1
    <2> QED
      BY <2>1, <2>2
  <1>3. /\ w \o l \in Seq(S) /\ Len(w \o l) = Len(w) + Len(l)
        /\ \A i \in 1 .. Len(w) + Len(l) :
              (w \o l)[i] = IF i <= Len(w) THEN w[i] ELSE l[i - Len(w)]
    BY ConcatProperties
  <1>4. /\ Len((w \o l) \o h) = Len(w) + Len(l) + Len(h)
        /\ \A i \in 1 .. Len(w) + Len(l) : ((w \o l) \o h)[i] = (w \o l)[i]
    <2>1. /\ Len((w \o l) \o h) = Len(w \o l) + Len(h)
          /\ \A i \in 1 .. Len(w \o l) + Len(h) :
                ((w \o l) \o h)[i] = IF i <= Len(w \o l) THEN (w \o l)[i] ELSE h[i - Len(w \o l)]
      BY <1>3, ConcatProperties
    <2> QED
      BY <2>1, <1>0, <1>3
  <1> DEFINE n == Len(w) + Len(l) - 1
             f == [i \in 1 .. n |-> IF i <= Len(w) THEN i ELSE i + 1]
  <1>5. f \in [1 .. n -> 1 .. Len(w) + Len(l) + Len(h)]
    BY <1>0
  <1>6. \A i, j \in 1 .. n : f[i] = f[j] => i = j
    BY <1>0
  <1>7. ASSUME NEW i \in 1 .. n PROVE (w \o Tail(l))[i] = ((w \o l) \o h)[f[i]]
    <2>1. CASE i <= Len(w)
      <3>1. f[i] = i /\ i \in 1 .. Len(w) + Len(l)
        BY <2>1, <1>0
      <3> QED
        BY <2>1, <3>1, <1>2, <1>3, <1>4
    <2>2. CASE i > Len(w)
      <3>1. f[i] = i + 1 /\ i + 1 \in 1 .. Len(w) + Len(l) /\ ~(i + 1 <= Len(w)) /\ ~(i <= Len(w))
        BY <2>2, <1>0
      <3>2. ((w \o l) \o h)[f[i]] = l[i + 1 - Len(w)]
        BY <3>1, <1>3, <1>4
      <3>3. i - Len(w) \in 1 .. Len(Tail(l)) /\ (i - Len(w)) + 1 = i + 1 - Len(w)
        BY <2>2, <1>0, <1>1
      <3>4. (w \o Tail(l))[i] = Tail(l)[i - Len(w)]
        BY <3>1, <1>2
      <3> QED
        BY <3>2, <3>3, <3>4, <1>1
    <2> QED
      BY <2>1, <2>2, <1>0
  <1> DEFINE t == w \o Tail(l)
             s == (w \o l) \o h
  <1>8. Len(t) = n /\ Len(s) = Len(w) + Len(l) + Len(h)
    BY <1>2, <1>4
  <1>9. \A i \in 1 .. n : t[i] = s[f[i]]
    BY <1>7
  <1> HIDE DEF f, n, t, s
  <1>10. /\ f \in [1 .. Len(t) -> 1 .. Len(s)]
         /\ \A i, j \in 1 .. Len(t) : f[i] = f[j] => i = j
         /\ \A i \in 1 .. Len(t) : t[i] = s[f[i]]
    BY <1>5, <1>6, <1>8, <1>9
  <1>11. Kept(t, s)
    BY <1>10 DEF Kept
  <1> QED
    BY <1>11 DEF t, s

(* Handing over a datagram puts it behind all others *)
LEMMA FlightSendTo ==
    ASSUME SocketInv, NEW d \in Datagram, SendTo(d)
    PROVE  InFlight \in Seq(Datagram) /\ InFlight' = Append(InFlight, d)
  <1>1. /\ wire \in Seq(Datagram) /\ list \in Seq(Datagram) /\ hand = <<>>
        /\ wire' = wire /\ list' = list /\ hand' = <<d>>
    BY DEF SocketInv, SocketTypeOK, HandOfCall, SendTo
  <1>2. wire \o list \in Seq(Datagram)
    BY <1>1, ConcatProperties
  <1>3. InFlight = wire \o list
    BY <1>1, <1>2, ConcatEmptySeq DEF InFlight
  <1> QED
    BY <1>1, <1>2, <1>3, AppendIsConcat DEF InFlight

(* Whatever the kernel answers, nothing new is in flight and nothing twice *)
LEMMA FlightKept ==
    ASSUME SocketInv, SendData \/ SendStep \/ UNCHANGED socketVars
    PROVE  Kept(InFlight', InFlight)
  <1>1. /\ wire \in Seq(Datagram) /\ list \in Seq(Datagram) /\ hand \in Seq(Datagram)
        /\ <<>> \in Seq(Datagram)
    BY DEF SocketInv, SocketTypeOK
  <1>2. wire \o list \in Seq(Datagram) /\ InFlight \in Seq(Datagram)
    BY <1>1, ConcatProperties DEF InFlight
  <1>3. Kept(InFlight, InFlight)
    BY <1>2, KeptSelf
  <1>4. CASE SendData \/ AllSent \/ UNCHANGED socketVars
    <2>1. InFlight' = InFlight
      BY <1>4 DEF SendData, AllSent, socketVars, InFlight
    <2> QED
      BY <1>3, <2>1
  <1>5. CASE HeadSent
    <2>1. /\ list # <<>> /\ wire' = Append(wire, Head(list)) /\ list' = Tail(list) /\ hand' = hand
      BY <1>5 DEF HeadSent
    <2>2. Head(list) \in Datagram /\ Tail(list) \in Seq(Datagram)
      BY <1>1, <2>1, TailType
    <2>3. Append(wire, Head(list)) = wire \o <<Head(list)>> /\ <<Head(list)>> \in Seq(Datagram)
      BY <1>1, <2>2, AppendIsConcat
    <2>4. (wire \o <<Head(list)>>) \o Tail(list) = wire \o (<<Head(list)>> \o Tail(list))
      BY <1>1, <2>2, <2>3, ConcatAssociative
    <2>5. <<Head(list)>> \o Tail(list) = list
      <3>1. Len(list) \in Nat \ {0} /\ list[1] = Head(list)
        BY <1>1, <2>1, EmptySeq
      <3>2. SubSeq(list, 1, Len(list)) = <<list[1]>> \o SubSeq(list, 1 + 1, Len(list))
        BY <1>1, <3>1, SubSeqRecursiveFirst
      <3>3. SubSeq(list, 1, Len(list)) = list /\ SubSeq(list, 2, Len(list)) = Tail(list)
        BY <1>1, <2>1, SubSeqFull, TailIsSubSeq
      <3> QED
        BY <3>1, <3>2, <3>3
    <2>6. InFlight' = InFlight
      BY <2>1, <2>3, <2>4, <2>5 DEF InFlight
    <2> QED
      BY <1>3, <2>6
  <1>6. CASE HeadFails
    <2>1. list # <<>> /\ wire' = wire /\ list' = Tail(list) /\ hand' = <<>>
      BY <1>6 DEF HeadFails
    <2>2. wire \o Tail(list) \in Seq(Datagram)
      BY <1>1, <2>1, TailType, ConcatProperties
    <2>3. InFlight' = wire \o Tail(list)
      BY <2>1, <2>2, ConcatEmptySeq DEF InFlight
    <2> QED
      BY <1>1, <2>1, <2>3, KeptWithoutHead DEF InFlight
  <1>7. CASE Again
    <2>1. wire' = wire /\ list' = list \o hand /\ hand' = <<>>
      BY <1>7 DEF Again
    <2>2. wire \o (list \o hand) = (wire \o list) \o hand
      BY <1>1, ConcatAssociative
    <2>3. InFlight' = InFlight
      BY <1>2, <2>1, <2>2, ConcatEmptySeq DEF InFlight
    <2> QED
      BY <1>3, <2>3
  <1>8. CASE OwnSent
    <2>1. list = <<>> /\ wire' = wire \o hand /\ list' = <<>> /\ hand' = <<>>
      BY <1>8 DEF OwnSent
    <2>2. wire \o hand \in Seq(Datagram)
      BY <1>1, ConcatProperties
    <2>3. InFlight' = wire \o hand /\ InFlight = wire \o hand
      BY <1>1, <2>1, <2>2, ConcatEmptySeq DEF InFlight
    <2> QED
      BY <1>3, <2>3
  <1>9. CASE OwnFails
    <2>1. list = <<>> /\ wire' = wire /\ list' = <<>> /\ hand' = <<>>
      BY <1>9 DEF OwnFails
    <2>2. InFlight' = wire /\ InFlight = wire \o hand
      BY <1>1, <2>1, ConcatEmptySeq DEF InFlight
    <2> QED
      BY <1>1, <2>2, KeptPrefix
  <1> QED
    BY <1>4, <1>5, <1>6, <1>7, <1>8, <1>9 DEF SendStep

-----------------------------------------------------------------------------
(* Answers.  A datagram with an identity answers a datagram received; one  *)
(* that says success answers an admitted request of the user of the        *)
(* connection of its address.                                              *)
Sound(d) ==
    d.id # 0 =>
        /\ d.id \in 1 .. Len(asked)
        /\ asked[d.id].from = d.to
        /\ d.msg.type = "response" =>
              /\ Admitted(asked[d.id].msg)
              /\ conns[d.to] = RemoteUfrag(asked[d.id].msg)
              /\ conns[d.to] # NoUser

FlightInv ==
    /\ \A i \in 1 .. Len(InFlight) : Sound(InFlight[i])
    /\ \A i, j \in 1 .. Len(InFlight) :
          InFlight[i].id = InFlight[j].id /\ InFlight[i].id # 0 => i = j

(* With the tables unchanged, losing datagrams does no harm *)
LEMMA KeptFlightInv ==
    ASSUME FlightInv, Kept(InFlight', InFlight), asked' = asked, conns' = conns
    PROVE  FlightInv'
  <1> DEFINE s == InFlight
             t == InFlight'
  <1>1. PICK f \in [1 .. Len(t) -> 1 .. Len(s)] :
          /\ \A i, j \in 1 .. Len(t) : f[i] = f[j] => i = j
          /\ \A i \in 1 .. Len(t) : t[i] = s[f[i]]
    BY DEF Kept
  <1>2. \A d : Sound(d)' <=> Sound(d)
    BY DEF Sound
  <1>3. \A i \in 1 .. Len(t) : Sound(t[i])
    BY <1>1 DEF FlightInv
  <1>4. \A i \in 1 .. Len(t) : Sound(InFlight[i])'
    BY <1>2, <1>3
  <1>5. \A i, j \in 1 .. Len(t) : t[i].id = t[j].id /\ t[i].id # 0 => i = j
    <2> TAKE i, j \in 1 .. Len(t)
    <2> HAVE t[i].id = t[j].id /\ t[i].id # 0
    <2>1. f[i] = f[j]
      BY <1>1 DEF FlightInv
    <2> QED
      BY <1>1, <2>1
  <1> QED
    BY <1>4, <1>5 DEF FlightInv

(* A datagram that was sound stays so when another one is received: the    *)
(* user of a connection does not change                                    *)
LEMMA SoundKept ==
    ASSUME PortType, NEW a \in Addrs, NEW w \in Inputs, OnReadPacket(a, w), NEW d, Sound(d)
    PROVE  Sound(d)'
  <1>1. /\ asked \in Seq([from: Addrs, msg: Inputs]) /\ conns \in [Addrs -> Ufrags \cup {NoUser}]
        /\ asked' = Append(asked, [from |-> a, msg |-> w])
        /\ conns' = [conns EXCEPT ![a] =
                        IF Answer(a, w) = "success" /\ @ = NoUser THEN RemoteUfrag(w) ELSE @]
    BY DEF OnReadPacket, PortType
  <1>2. CASE d.id = 0
    BY <1>2 DEF Sound
  <1>3. CASE d.id # 0
    <2>1. /\ d.id \in 1 .. Len(asked) /\ asked[d.id].from = d.to
          /\ asked[d.id] \in [from: Addrs, msg: Inputs]
      <3>1. d.id \in 1 .. Len(asked) /\ asked[d.id].from = d.to
        BY <1>3 DEF Sound
      <3> QED
        BY <1>1, <3>1, ElementOfSeq
    <2>2. asked'[d.id] = asked[d.id] /\ d.id \in 1 .. Len(asked')
      BY <1>1, <2>1
    <2>3. d.to \in Addrs
      BY <2>1
    <2>4. conns[d.to] # NoUser => conns'[d.to] = conns[d.to]
      BY <1>1, <2>3
    <2> QED
      BY <1>3, <2>1, <2>2, <2>4 DEF Sound
  <1> QED
    BY <1>2, <1>3

(* The answer to the datagram just received is sound *)
LEMMA ReplySound ==
    ASSUME PortType, NEW a \in Addrs, NEW w \in Inputs, OnReadPacket(a, w),
           Answer(a, w) # "none", NEW d, d = Reply(a, Answer(a, w))
    PROVE  Sound(d)'
  <1> DEFINE answer == Answer(a, w)
  <1>1. /\ asked \in Seq([from: Addrs, msg: Inputs]) /\ conns \in [Addrs -> Ufrags \cup {NoUser}]
        /\ asked' = Append(asked, [from |-> a, msg |-> w]) /\ Len(asked) < MaxRecv
        /\ conns' = [conns EXCEPT ![a] =
                        IF answer = "success" /\ @ = NoUser THEN RemoteUfrag(w) ELSE @]
    BY DEF OnReadPacket, PortType
  <1>2. answer \in {"bad_request", "unauthorized", "success"}
    BY AnswerFacts
  <1>3. /\ d.id = Len(asked) + 1 /\ d.to = a
        /\ d.msg.type = "response" => answer = "success"
    BY <1>1, <1>2, ReplyFacts
  <1>4. asked'[Len(asked) + 1] = [from |-> a, msg |-> w] /\ Len(asked') = Len(asked) + 1
        /\ Len(asked) \in Nat
    BY <1>1
  <1>5. answer = "success" =>
          /\ Admitted(w) /\ RemoteUfrag(w) \in Ufrags
          /\ conns[a] # NoUser => RemoteUfrag(w) = conns[a]
    BY AnswerFacts, InputAssumption
  <1>6. answer = "success" => conns'[a] = RemoteUfrag(w) /\ conns'[a] # NoUser
    <2> HIDE DEF answer
    <2> QED
      BY <1>1, <1>5, PortAssumption
  <1> HIDE DEF answer
  <1>7. /\ d.id # 0 /\ d.id \in 1 .. Len(asked') /\ asked'[d.id].from = d.to
        /\ asked'[d.id].msg = w
    BY <1>3, <1>4
  <1>8. d.msg.type = "response" =>
          /\ Admitted(asked'[d.id].msg)
          /\ conns'[d.to] = RemoteUfrag(asked'[d.id].msg)
          /\ conns'[d.to] # NoUser
    BY <1>3, <1>5, <1>6, <1>7
  <1> QED
    BY <1>7, <1>8 DEF Sound

LEMMA StepFlightInv ==
    ASSUME SocketInv, PortType, FlightInv, [Next]_vars
    PROVE  FlightInv'
  <1>1. ASSUME NEW ready \in SUBSET {"READ", "WRITE"}, IoEvent(ready) PROVE FlightInv'
    <2>1. UNCHANGED socketVars /\ asked' = asked /\ conns' = conns
      BY <1>1 DEF IoEvent
    <2> QED
      BY <2>1, FlightKept, KeptFlightInv
  <1>2. ASSUME NEW a \in Addrs, NEW w \in Inputs, OnReadPacket(a, w) PROVE FlightInv'
    <2>1. CASE Answer(a, w) = "none"
      <3>1. InFlight' = InFlight
        BY <1>2, <2>1 DEF OnReadPacket, socketVars, InFlight
      <3>2. \A i \in 1 .. Len(InFlight) : Sound(InFlight[i])'
        <4> TAKE i \in 1 .. Len(InFlight)
        <4>1. \A e : Sound(e) => Sound(e)'
          BY <1>2, SoundKept
        <4>2. \A e : e = InFlight[i] => Sound(e)'
          BY <4>1 DEF FlightInv
        <4> QED
          BY <3>1, <4>2 DEF Sound
      <3> QED
        BY <3>1, <3>2 DEF FlightInv
    <2>2. CASE Answer(a, w) # "none"
      <3>1. PICK d : d = Reply(a, Answer(a, w))
        OBVIOUS
      <3>2. SendTo(d) /\ Len(asked) < MaxRecv
        BY <1>2, <2>2, <3>1 DEF OnReadPacket
      <3>3. Answer(a, w) \in {"bad_request", "unauthorized", "success"}
        BY <2>2, AnswerFacts
      <3>4. d \in Datagram /\ d.id = Len(asked) + 1
        BY <3>1, <3>2, <3>3, ReplyFacts
      <3>5. InFlight \in Seq(Datagram) /\ InFlight' = Append(InFlight, d)
        BY <3>2, <3>4, FlightSendTo
      <3>6. /\ Len(InFlight) \in Nat /\ Len(InFlight') = Len(InFlight) + 1
            /\ \A i \in 1 .. Len(InFlight) : InFlight'[i] = InFlight[i]
            /\ InFlight'[Len(InFlight) + 1] = d
        BY <3>5, AppendProperties
      <3>7. \A e : Sound(e) => Sound(e)'
        BY <1>2, SoundKept
      <3>8. \A e : e = d => Sound(e)'
        BY <1>2, <2>2, <3>1, ReplySound
      <3>9. ASSUME NEW i \in 1 .. Len(InFlight') PROVE \A e : e = InFlight'[i] => Sound(e)'
        <4>1. CASE i = Len(InFlight) + 1
          BY <3>6, <3>8, <4>1
        <4>2. CASE i \in 1 .. Len(InFlight)
          BY <3>6, <3>7, <4>2 DEF FlightInv
        <4> QED
          BY <3>6, <4>1, <4>2
      <3>10. \A i \in 1 .. Len(InFlight') : Sound(InFlight[i])'
        BY <3>9 DEF Sound
      <3>11. Len(asked) \in Nat
        BY DEF PortType
      <3>12. \A i \in 1 .. Len(InFlight) : InFlight[i].id # d.id
        BY <3>4, <3>11 DEF FlightInv, Sound
      <3>13. \A i, j \in 1 .. Len(InFlight') :
               InFlight'[i].id = InFlight'[j].id /\ InFlight'[i].id # 0 => i = j
        <4> TAKE i, j \in 1 .. Len(InFlight')
        <4> HAVE InFlight'[i].id = InFlight'[j].id /\ InFlight'[i].id # 0
        <4>1. CASE i \in 1 .. Len(InFlight) /\ j \in 1 .. Len(InFlight)
          BY <3>6, <4>1 DEF FlightInv
        <4>2. CASE i \in 1 .. Len(InFlight) /\ j = Len(InFlight) + 1
          BY <3>6, <3>12, <4>2
        <4>3. CASE i = Len(InFlight) + 1 /\ j \in 1 .. Len(InFlight)
          BY <3>6, <3>12, <4>3
        <4> QED
          BY <3>6, <4>1, <4>2, <4>3
      <3> QED
        BY <3>10, <3>13 DEF FlightInv
    <2> QED
      BY <2>1, <2>2
  <1>3. CASE ReadDone
    <2>1. UNCHANGED socketVars /\ asked' = asked /\ conns' = conns
      BY <1>3 DEF ReadDone
    <2> QED
      BY <2>1, FlightKept, KeptFlightInv
  <1>4. CASE OnWritable
    <2>1. SendData /\ asked' = asked /\ conns' = conns
      BY <1>4 DEF OnWritable
    <2> QED
      BY <2>1, FlightKept, KeptFlightInv
  <1>5. CASE KernelAnswers
    <2>1. SendStep /\ asked' = asked /\ conns' = conns
      BY <1>5 DEF KernelAnswers, portVars
    <2> QED
      BY <2>1, FlightKept, KeptFlightInv
  <1>6. ASSUME NEW a \in Addrs, NEW ping \in BOOLEAN, UpperLayerSends(a, ping) PROVE FlightInv'
    <2>1. PICK d : d = [id |-> 0, to |-> a,
                        msg |-> IF ping THEN ConnectionRequest(conns[a]) ELSE Media]
      OBVIOUS
    <2>2. SendTo(d) /\ asked' = asked /\ conns' = conns /\ d.id = 0
      BY <1>6, <2>1 DEF UpperLayerSends
    <2>3. d \in Datagram
      <3>1. conns[a] \in Ufrags /\ 0 \in 0 .. MaxRecv
        BY <1>6, PortAssumption DEF UpperLayerSends, PortType
      <3>2. d \in Datagrams
        BY <2>1, <3>1 DEF Datagrams
      <3> QED
        BY <3>2, DatagramAssumption
    <2>4. InFlight \in Seq(Datagram) /\ InFlight' = Append(InFlight, d)
      BY <2>2, <2>3, FlightSendTo
    <2>5. /\ Len(InFlight) \in Nat /\ Len(InFlight') = Len(InFlight) + 1
          /\ \A i \in 1 .. Len(InFlight) : InFlight'[i] = InFlight[i]
          /\ InFlight'[Len(InFlight) + 1] = d
      BY <2>3, <2>4, AppendProperties
    <2>6. \A i \in 1 .. Len(InFlight') : InFlight'[i].id # 0 => i \in 1 .. Len(InFlight)
      BY <2>2, <2>5
    <2>7. \A i \in 1 .. Len(InFlight') : Sound(InFlight[i])'
      BY <2>2, <2>5, <2>6 DEF Sound, FlightInv
    <2>8. \A i, j \in 1 .. Len(InFlight') :
            InFlight'[i].id = InFlight'[j].id /\ InFlight'[i].id # 0 => i = j
      BY <2>5, <2>6 DEF FlightInv
    <2> QED
      BY <2>7, <2>8 DEF FlightInv
  <1>7. CASE UNCHANGED vars
    <2>1. UNCHANGED socketVars /\ asked' = asked /\ conns' = conns
      BY <1>7 DEF vars, portVars
    <2> QED
      BY <2>1, FlightKept, KeptFlightInv
  <1> QED
    BY <1>1, <1>2, <1>3, <1>4, <1>5, <1>6, <1>7 DEF Next

LEMMA FlightInvariant == Spec => []FlightInv
  <1>1. Init => FlightInv
    <2> SUFFICES ASSUME Init PROVE FlightInv
      OBVIOUS
    <2>1. InFlight = <<>>
      BY ConcatEmptySeq DEF Init, SocketInit, InFlight
    <2>2. Len(InFlight) = 0
      BY <2>1, EmptySeq
    <2> QED
      BY <2>2 DEF FlightInv
  <1>2. SocketInv /\ PortType /\ FlightInv /\ [Next]_vars => FlightInv'
    BY StepFlightInv
  <1>3. Spec => []SocketInv
    BY PortUsesSocket, SocketInvariant, PTL
  <1> QED
    BY <1>1, <1>2, <1>3, PortTypeInvariant, PTL DEF Spec

LEMMA FlightMembers ==
    ASSUME SocketInv, NEW d \in Members(InFlight)
    PROVE  \E i \in 1 .. Len(InFlight) : d = InFlight[i]
  <1>1. wire \o list \in Seq(Datagram) /\ hand \in Seq(Datagram)
    BY ConcatProperties DEF SocketInv, SocketTypeOK
  <1>2. InFlight \in Seq(Datagram)
    BY <1>1, ConcatProperties DEF InFlight
  <1> QED
    BY <1>2 DEF Members

(* A request is answered at most once, to the address it came from, and    *)
(* with success only if it was signed for this port, whatever the socket   *)
(* does with the answers on the way                                        *)
THEOREM RepliesCorrect == Spec => []RepliesMatch
  <1>1. SocketInv /\ FlightInv => RepliesMatch
    <2> SUFFICES ASSUME SocketInv, FlightInv PROVE RepliesMatch
      OBVIOUS
    <2>1. wire \o list \in Seq(Datagram) /\ hand \in Seq(Datagram)
      BY ConcatProperties DEF SocketInv, SocketTypeOK
    <2>2. DOMAIN InFlight = 1 .. Len(InFlight)
      BY <2>1, ConcatProperties, LenProperties DEF InFlight
    <2>3. \A i, j \in DOMAIN InFlight :
            InFlight[i].id = InFlight[j].id /\ InFlight[i].id # 0 => i = j
      BY <2>2 DEF FlightInv
    <2>4. ASSUME NEW d \in Members(InFlight), d.id # 0
          PROVE  /\ asked[d.id].from = d.to
                 /\ d.msg.type = "response" =>
                      \E i \in DOMAIN asked[d.id].msg.attrs :
                          /\ asked[d.id].msg.attrs[i].type = "MESSAGE_INTEGRITY"
                          /\ asked[d.id].msg.attrs[i].value[1] = MyPwd
      <3>1. Sound(d)
        BY FlightMembers DEF FlightInv
      <3>2. asked[d.id].from = d.to
        BY <2>4, <3>1 DEF Sound
      <3>3. d.msg.type = "response" => Admitted(asked[d.id].msg)
        BY <2>4, <3>1 DEF Sound
      <3> QED
        BY <3>2, <3>3, AdmittedSigned
    <2> QED
      BY <2>3, <2>4 DEF RepliesMatch
  <1>2. Spec => []SocketInv
    BY PortUsesSocket, SocketInvariant, PTL
  <1> QED
    BY <1>1, <1>2, FlightInvariant, PTL

(* Success is only ever said to one user of an address *)
THEOREM AddressOwned == Spec => []OneUserPerAddress
  <1>1. SocketInv /\ FlightInv => OneUserPerAddress
    <2> SUFFICES ASSUME SocketInv, FlightInv,
                        NEW d \in Members(InFlight), NEW e \in Members(InFlight),
                        d.id # 0, e.id # 0, d.to = e.to,
                        d.msg.type = "response", e.msg.type = "response"
                 PROVE  RemoteUfrag(asked[d.id].msg) = RemoteUfrag(asked[e.id].msg)
      BY DEF OneUserPerAddress
    <2>1. Sound(d) /\ Sound(e)
      BY FlightMembers DEF FlightInv
    <2> QED
      BY <2>1 DEF Sound
  <1>2. Spec => []SocketInv
    BY PortUsesSocket, SocketInvariant, PTL
  <1> QED
    BY <1>1, <1>2, FlightInvariant, PTL

-----------------------------------------------------------------------------
(* STUN messages.  Octets is a recursive function over the attributes; its *)
(* value is established along with the message, one attribute at a time,   *)
(* so that no induction over messages is needed.                           *)

(* f counts the octets of the first i attributes of s                      *)
Running(s, f) ==
    f = [i \in 0 .. Len(s) |->
            IF i = 0 THEN 0
            ELSE f[i - 1] + k_stun_attribute_header_size + Padded(s[i].length)]

(* The attributes s have n octets, however the recursion is resolved       *)
Sized(s, n) ==
    (\E f : Running(s, f)) /\ (\A f : Running(s, f) => f[Len(s)] = n)

(* ... which then is what Octets computes                                  *)
LEMMA SizedOctets ==
    ASSUME NEW s, NEW n, Sized(s, n)
    PROVE  Octets(s) = n
  <1> DEFINE g == CHOOSE f : Running(s, f)
  <1>1. Running(s, g)
    BY DEF Sized
  <1>2. Octets(s) = g[Len(s)]
    BY DEF Octets, Running
  <1> QED
    BY <1>1, <1>2 DEF Sized

(* Attributes end at a multiple of four octets                             *)
LEMMA PaddedFacts ==
    ASSUME NEW n \in Nat
    PROVE  Padded(n) \in Nat /\ Padded(n) % 4 = 0 /\ Padded(n) <= n + 3
  BY DEF Padded

(* No attributes, no octets                                                *)
LEMMA SizedEmpty == Sized(<<>>, 0)
  <1>1. Len(<<>>) = 0 /\ 0 .. 0 = {0}
    OBVIOUS
  <1> DEFINE f == [i \in {0} |-> 0]
  <1>2. Running(<<>>, f)
    <2>1. f = [i \in {0} |-> IF i = 0 THEN 0
               ELSE f[i - 1] + k_stun_attribute_header_size + Padded(<<>>[i].length)]
      OBVIOUS
    <2> QED
      BY <1>1, <2>1 DEF Running
  <1>3. ASSUME NEW g, Running(<<>>, g) PROVE g[Len(<<>>)] = 0
    BY <1>1, <1>3 DEF Running
  <1> QED
    BY <1>2, <1>3 DEF Sized

(* The count, unfolded once                                                *)
LEMMA RunningStep ==
    ASSUME NEW S, NEW s \in Seq(S), NEW f, Running(s, f)
    PROVE  /\ DOMAIN f = 0 .. Len(s)
           /\ f[0] = 0
           /\ \A i \in 1 .. Len(s) :
                 f[i] = f[i - 1] + k_stun_attribute_header_size + Padded(s[i].length)
  BY DEF Running

(* ... and folded again                                                    *)
LEMMA StepRunning ==
    ASSUME NEW S, NEW s \in Seq(S), NEW f,
           f = [i \in 0 .. Len(s) |-> f[i]], f[0] = 0,
           \A i \in 1 .. Len(s) :
              f[i] = f[i - 1] + k_stun_attribute_header_size + Padded(s[i].length)
    PROVE  Running(s, f)
  <1> DEFINE g == [i \in 0 .. Len(s) |->
            IF i = 0 THEN 0
            ELSE f[i - 1] + k_stun_attribute_header_size + Padded(s[i].length)]
  <1>1. Len(s) \in Nat
    OBVIOUS
  <1>2. ASSUME NEW i \in 0 .. Len(s) PROVE g[i] = f[i]
    <2>1. CASE i = 0
      BY <2>1
    <2>2. CASE i # 0
      <3>1. i \in 1 .. Len(s)
        BY <1>1, <2>2
      <3>2. g[i] = f[i - 1] + k_stun_attribute_header_size + Padded(s[i].length)
        BY <2>2
      <3> QED
        BY <3>1, <3>2
    <2> QED
      BY <2>1, <2>2
  <1>3. g = [i \in 0 .. Len(s) |-> g[i]]
    OBVIOUS
  <1> HIDE DEF g
  <1>4. g = f
    BY <1>2, <1>3
  <1> QED
    BY <1>4 DEF Running, g

(* One more attribute adds its header and its padded value                 *)
LEMMA SizedAppend ==
    ASSUME NEW S, NEW s \in Seq(S), NEW n \in Nat, Sized(s, n), NEW a, NEW m,
           m = n + k_stun_attribute_header_size + Padded(a.length)
    PROVE  Sized(Append(s, a), m)
  <1> DEFINE t == Append(s, a)
  <1>1. /\ t \in Seq(S \cup {a}) /\ Len(t) = Len(s) + 1 /\ Len(s) \in Nat
        /\ t[Len(s) + 1] = a /\ \A i \in 1 .. Len(s) : t[i] = s[i]
    <2>1. s \in Seq(S \cup {a})
      BY SeqMonotonic
    <2> QED
      BY <2>1, AppendProperties
  <1> HIDE DEF t
  <1>2. \E f : Running(t, f)
    <2>1. PICK f : Running(s, f)
      BY DEF Sized
    <2>2. f[Len(s)] = n
      BY <2>1 DEF Sized
    <2> DEFINE g == [i \in 0 .. Len(t) |-> IF i <= Len(s) THEN f[i] ELSE m]
    <2>3. g = [i \in 0 .. Len(t) |-> g[i]]
      OBVIOUS
    <2>4. \A i \in 0 .. Len(s) : g[i] = f[i]
      BY <1>1
    <2>5. g[Len(s) + 1] = m
      BY <1>1
    <2> HIDE DEF g
    <2>6. g[0] = 0
      BY <2>1, <2>4, <1>1, RunningStep
    <2>7. ASSUME NEW i \in 1 .. Len(t)
          PROVE  g[i] = g[i - 1] + k_stun_attribute_header_size + Padded(t[i].length)
      <3>1. CASE i = Len(s) + 1
        <4>1. g[i] = m /\ g[i - 1] = n /\ t[i] = a
          BY <3>1, <1>1, <2>2, <2>4, <2>5
        <4> QED
          BY <4>1
      <3>2. CASE i \in 1 .. Len(s)
        <4>1. g[i] = f[i] /\ g[i - 1] = f[i - 1] /\ t[i] = s[i]
          BY <3>2, <1>1, <2>4
        <4>2. f[i] = f[i - 1] + k_stun_attribute_header_size + Padded(s[i].length)
          BY <3>2, <2>1, RunningStep
        <4> QED
          BY <4>1, <4>2
      <3> QED
        BY <1>1, <3>1, <3>2
    <2>8. Running(t, g)
      BY <1>1, <2>3, <2>6, <2>7, StepRunning
    <2> QED
      BY <2>8
  <1>3. ASSUME NEW g, Running(t, g) PROVE g[Len(t)] = m
    <2>1. /\ DOMAIN g = 0 .. Len(t) /\ g[0] = 0
          /\ \A i \in 1 .. Len(t) :
                g[i] = g[i - 1] + k_stun_attribute_header_size + Padded(t[i].length)
      BY <1>1, <1>3, RunningStep
    <2> DEFINE f == [i \in 0 .. Len(s) |-> g[i]]
    <2>2. f = [i \in 0 .. Len(s) |-> f[i]] /\ \A i \in 0 .. Len(s) : f[i] = g[i]
      OBVIOUS
    <2> HIDE DEF f
    <2>3. f[0] = 0 /\ f[Len(s)] = g[Len(s)]
      BY <1>1, <2>1, <2>2
    <2>4. ASSUME NEW i \in 1 .. Len(s)
          PROVE  f[i] = f[i - 1] + k_stun_attribute_header_size + Padded(s[i].length)
      <3>1. i \in 1 .. Len(t) /\ i \in 0 .. Len(s) /\ i - 1 \in 0 .. Len(s) /\ t[i] = s[i]
        BY <1>1
      <3>2. g[i] = g[i - 1] + k_stun_attribute_header_size + Padded(s[i].length)
        BY <2>1, <3>1
      <3> QED
        BY <2>2, <3>1, <3>2
    <2>5. Running(s, f)
      BY <2>2, <2>3, <2>4, StepRunning
    <2>6. g[Len(s)] = n
      BY <2>3, <2>5 DEF Sized
    <2>7. Len(t) \in 1 .. Len(t) /\ Len(t) - 1 = Len(s) /\ t[Len(t)] = a
      BY <1>1
    <2>8. g[Len(t)] = g[Len(s)] + k_stun_attribute_header_size + Padded(a.length)
      BY <2>1, <2>7
    <2> QED
      BY <2>6, <2>8
  <1>4. Sized(t, m)
    BY <1>2, <1>3 DEF Sized
  <1> QED
    BY <1>4 DEF t

(* A message under construction: its length field is the size of its       *)
(* attributes                                                              *)
Built(m, t, s, n) ==
    /\ {"length", "type", "attrs"} \subseteq DOMAIN m
    /\ m.length = n /\ m.type = t /\ m.attrs = s
    /\ n \in Nat /\ n < 65536 /\ n % 4 = 0
    /\ Sized(s, n) /\ \E S : s \in Seq(S)

(* A new message is one                                                    *)
LEMMA NewBuilt ==
    ASSUME NEW t
    PROVE  Built(NewMessage(t), t, <<>>, 0)
  <1>1. <<>> \in Seq({})
    OBVIOUS
  <1>2. /\ {"length", "type", "attrs"} \subseteq DOMAIN NewMessage(t)
        /\ NewMessage(t).length = 0 /\ NewMessage(t).type = t /\ NewMessage(t).attrs = <<>>
    BY DEF NewMessage
  <1>3. 0 \in Nat /\ 0 < 65536 /\ 0 % 4 = 0
    OBVIOUS
  <1> QED
    BY <1>1, <1>2, <1>3, SizedEmpty DEF Built

(* The size with one more attribute                                        *)
LEMMA AppendSized ==
    ASSUME NEW m, NEW t, NEW s, NEW n, Built(m, t, s, n), NEW a, a.length \in Nat, NEW k,
           k = n + Padded(a.length) + k_stun_attribute_header_size
    PROVE  /\ k \in Nat /\ k % 4 = 0
           /\ Sized(Append(s, a), k) /\ \E S : Append(s, a) \in Seq(S)
  <1>1. n \in Nat /\ n % 4 = 0 /\ Sized(s, n)
    BY DEF Built
  <1>2. PICK S : s \in Seq(S)
    BY DEF Built
  <1>3. Padded(a.length) \in Nat /\ Padded(a.length) % 4 = 0
    BY PaddedFacts
  <1>4. k \in Nat /\ k % 4 = 0
    BY <1>1, <1>3 DEF k_stun_attribute_header_size
  <1>5. k = n + k_stun_attribute_header_size + Padded(a.length)
    BY <1>1, <1>3 DEF k_stun_attribute_header_size
  <1>6. Sized(Append(s, a), k)
    BY <1>1, <1>2, <1>5, SizedAppend
  <1>7. Append(s, a) \in Seq(S \cup {a})
    <2>1. s \in Seq(S \cup {a})
      BY <1>2, SeqMonotonic
    <2> QED
      BY <2>1, AppendProperties
  <1> QED
    BY <1>4, <1>6, <1>7

(* add_attribute keeps the length field right as long as it does not       *)
(* overflow its 16 bits                                                    *)
LEMMA AddAttributeBuilt ==
    ASSUME NEW m, NEW t, NEW s, NEW n, Built(m, t, s, n), NEW a, a.length \in Nat, NEW k,
           k = n + Padded(a.length) + k_stun_attribute_header_size, k < 65536
    PROVE  Built(AddAttribute(m, a), t, Append(s, a), k)
  <1> DEFINE b == AddAttribute(m, a)
             z == (m.length + Padded(a.length) + k_stun_attribute_header_size) % 65536
  <1>1. {"length", "type", "attrs"} \subseteq DOMAIN m
    BY DEF Built
  <1>2. z = k
    <2>1. m.length = n /\ k \in Nat
      BY AppendSized DEF Built
    <2>2. k % 65536 = k
      BY <2>1
    <2> QED
      BY <2>1, <2>2
  <1>3. b = [m EXCEPT !.length = z, !.attrs = Append(m.attrs, a)]
    BY <1>1 DEF AddAttribute
  <1> HIDE DEF b, z
  <1>4. /\ DOMAIN b = DOMAIN m
        /\ b.length = k /\ b.type = m.type /\ b.attrs = Append(m.attrs, a)
    BY <1>1, <1>2, <1>3
  <1>5. m.type = t /\ m.attrs = s
    BY DEF Built
  <1>6. k \in Nat /\ k % 4 = 0 /\ Sized(Append(s, a), k) /\ \E S : Append(s, a) \in Seq(S)
    BY AppendSized
  <1>7. Built(b, t, Append(s, a), k)
    BY <1>1, <1>4, <1>5, <1>6 DEF Built
  <1> QED
    BY <1>7 DEF b

(* Replacing the last element                                              *)
LEMMA LastReplaced ==
    ASSUME NEW S, NEW s \in Seq(S), NEW a, NEW b
    PROVE  [Append(s, a) EXCEPT ![Len(Append(s, a))] = b] = Append(s, b)
  <1>1. s \in Seq(S \cup {a, b})
    BY SeqMonotonic
  <1>2. /\ Append(s, a) \in Seq(S \cup {a, b}) /\ Len(Append(s, a)) = Len(s) + 1
        /\ \A i \in 1 .. Len(s) : Append(s, a)[i] = s[i]
    BY <1>1, AppendProperties
  <1>3. /\ Append(s, b) \in Seq(S \cup {a, b}) /\ Len(Append(s, b)) = Len(s) + 1
        /\ \A i \in 1 .. Len(s) : Append(s, b)[i] = s[i]
        /\ Append(s, b)[Len(s) + 1] = b
    BY <1>1, AppendProperties
  <1>4. Len(s) \in Nat
    OBVIOUS
  <1> DEFINE x == Append(s, a)
             T == S \cup {a, b}
             p == Len(s) + 1
             z == Append(s, b)
  <1>5. x \in Seq(T) /\ b \in T /\ p \in 1 .. Len(x) /\ Len(x) = p
    BY <1>2, <1>4
  <1> HIDE DEF x, T, p, z
  <1>6. /\ [x EXCEPT ![p] = b] \in Seq(T)
        /\ Len([x EXCEPT ![p] = b]) = Len(x)
        /\ \A j \in 1 .. Len(x) : [x EXCEPT ![p] = b][j] = IF j = p THEN b ELSE x[j]
    BY <1>5, ExceptSeq
  <1> DEFINE y == [x EXCEPT ![p] = b]
  <1>7. y \in Seq(T) /\ Len(y) = Len(x) /\ \A j \in 1 .. Len(x) : y[j] = IF j = p THEN b ELSE x[j]
    BY <1>6
  <1> HIDE DEF y
  <1>8. \A i \in 1 .. Len(y) : y[i] = z[i]
    BY <1>2, <1>3, <1>4, <1>5, <1>7 DEF x, z, p
  <1>9. y = z
    BY <1>3, <1>5, <1>7, <1>8, SeqEqual DEF z, T, p
  <1> QED
    BY <1>5, <1>9 DEF x, y, z

(* Attributes whose last one gets the value v, and a message with them     *)
LastSet(s, v) == [s EXCEPT ![Len(s)].value = v]

ValueSet(m, v) == [m EXCEPT !.attrs[Len(m.attrs)].value = v]

(* Setting the value of the last attribute                                 *)
LEMMA LastValue ==
    ASSUME NEW S, NEW s \in Seq(S), NEW a, NEW v
    PROVE  LastSet(Append(s, a), v) = Append(s, [a EXCEPT !.value = v])
  <1>1. Append(s, a)[Len(Append(s, a))] = a
    OBVIOUS
  <1>2. [Append(s, a) EXCEPT ![Len(Append(s, a))].value = v] =
          [Append(s, a) EXCEPT ![Len(Append(s, a))] = [a EXCEPT !.value = v]]
    BY <1>1
  <1> QED
    BY <1>2, LastReplaced DEF LastSet

(* The MESSAGE-INTEGRITY behind s under a header with length n, and the    *)
(* FINGERPRINT                                                             *)
Hmac(s, t, n, pwd) ==
    [Attribute("MESSAGE_INTEGRITY", k_stun_message_integrity_size, <<>>)
        EXCEPT !.value = <<pwd, t, n, s>>]

Crc(s, t, n) == [Attribute("FINGERPRINT", 4, <<>>) EXCEPT !.value = <<t, n, s>>]

(* Its fields                                                              *)
LEMMA HmacFacts ==
    ASSUME NEW s, NEW t, NEW n, NEW pwd
    PROVE  /\ Hmac(s, t, n, pwd).length = 20 /\ Hmac(s, t, n, pwd).type = "MESSAGE_INTEGRITY"
           /\ Hmac(s, t, n, pwd).value = <<pwd, t, n, s>>
  BY DEF Hmac, Attribute, k_stun_message_integrity_size

(* Its fields                                                              *)
LEMMA CrcFacts ==
    ASSUME NEW s, NEW t, NEW n
    PROVE  /\ Crc(s, t, n).length = 4 /\ Crc(s, t, n).type = "FINGERPRINT"
           /\ Crc(s, t, n).value = <<t, n, s>>
  BY DEF Crc, Attribute

(* Filling in a checksum does not change the size                          *)
LEMMA ValueBuilt ==
    ASSUME NEW m, NEW t, NEW s, NEW n, NEW a, Built(m, t, Append(s, a), n),
           NEW S, s \in Seq(S), NEW v, NEW b, b = [a EXCEPT !.value = v],
           Sized(Append(s, b), n)
    PROVE  Built(ValueSet(m, v), t, Append(s, b), n)
  <1> DEFINE x == ValueSet(m, v)
  <1>1. {"length", "type", "attrs"} \subseteq DOMAIN m /\ m.attrs = Append(s, a)
    BY DEF Built
  <1>2. x = [m EXCEPT !.attrs = LastSet(m.attrs, v)]
    BY <1>1 DEF ValueSet, LastSet
  <1> DEFINE y == LastSet(m.attrs, v)
  <1>3. y = Append(s, b)
    BY <1>1, LastValue
  <1> HIDE DEF y, x
  <1>4. /\ DOMAIN x = DOMAIN m /\ x.length = m.length /\ x.type = m.type
        /\ x.attrs = Append(s, b)
    BY <1>1, <1>2, <1>3 DEF y
  <1>5. Append(s, b) \in Seq(S \cup {b})
    <2>1. s \in Seq(S \cup {b})
      BY SeqMonotonic
    <2> QED
      BY <2>1, AppendProperties
  <1>6. Built(x, t, Append(s, b), n)
    BY <1>1, <1>4, <1>5 DEF Built
  <1> QED
    BY <1>6 DEF x

(* What add_message_integrity makes of a message                           *)
LEMMA IntegrityBuilt ==
    ASSUME NEW m, NEW t, NEW s, NEW n, Built(m, t, s, n), n + 24 < 65536, NEW pwd
    PROVE  Built(AddMessageIntegrity(m, pwd), t, Append(s, Hmac(s, t, n + 24, pwd)), n + 24)
  <1> DEFINE a == Attribute("MESSAGE_INTEGRITY", k_stun_message_integrity_size, <<>>)
             v == <<pwd, t, n + 24, s>>
             h == Hmac(s, t, n + 24, pwd)
             room == AddAttribute(m, a)
  <1>1. a.length = 20 /\ h.length = 20 /\ Padded(20) = 20
    BY HmacFacts DEF Attribute, Padded, k_stun_message_integrity_size
  <1>2. h = [a EXCEPT !.value = v]
    BY DEF Hmac
  <1>3. n \in Nat /\ n + 24 = n + Padded(20) + k_stun_attribute_header_size
    BY <1>1 DEF Built, k_stun_attribute_header_size
  <1>4. m.type = t /\ m.attrs = s
    BY DEF Built
  <1>5. PICK S : s \in Seq(S)
    BY DEF Built
  <1> HIDE DEF h
  <1>6. AddMessageIntegrity(m, pwd) =
          ValueSet(room, <<pwd, m.type, room.length, m.attrs>>)
    BY DEF AddMessageIntegrity, ValueSet
  <1> HIDE DEF a
  <1>7. Built(room, t, Append(s, a), n + 24)
    BY <1>1, <1>3, AddAttributeBuilt
  <1>8. <<pwd, m.type, room.length, m.attrs>> = v
    BY <1>4, <1>7 DEF Built
  <1>9. Sized(Append(s, h), n + 24)
    BY <1>1, <1>3, AppendSized
  <1> HIDE DEF v, room
  <1>10. Built(ValueSet(room, v), t, Append(s, h), n + 24)
    BY <1>2, <1>5, <1>7, <1>9, ValueBuilt
  <1>11. AddMessageIntegrity(m, pwd) = ValueSet(room, v)
    BY <1>6, <1>8
  <1> QED
    BY <1>10, <1>11 DEF h

(* What add_fingerprint makes of a message                                 *)
LEMMA FingerprintBuilt ==
    ASSUME NEW m, NEW t, NEW s, NEW n, Built(m, t, s, n), n + 8 < 65536
    PROVE  Built(AddFingerprint(m), t, Append(s, Crc(s, t, n + 8)), n + 8)
  <1> DEFINE a == Attribute("FINGERPRINT", 4, <<>>)
             v == <<t, n + 8, s>>
             h == Crc(s, t, n + 8)
             room == AddAttribute(m, a)
  <1>1. a.length = 4 /\ h.length = 4 /\ Padded(4) = 4
    BY CrcFacts DEF Attribute, Padded
  <1>2. h = [a EXCEPT !.value = v]
    BY DEF Crc
  <1>3. n \in Nat /\ n + 8 = n + Padded(4) + k_stun_attribute_header_size
    BY <1>1 DEF Built, k_stun_attribute_header_size
  <1>4. m.type = t /\ m.attrs = s
    BY DEF Built
  <1>5. PICK S : s \in Seq(S)
    BY DEF Built
  <1> HIDE DEF h
  <1>6. AddFingerprint(m) =
          ValueSet(room, <<m.type, room.length, m.attrs>>)
    BY DEF AddFingerprint, ValueSet
  <1> HIDE DEF a
  <1>7. Built(room, t, Append(s, a), n + 8)
    BY <1>1, <1>3, AddAttributeBuilt
  <1>8. <<m.type, room.length, m.attrs>> = v
    BY <1>4, <1>7 DEF Built
  <1>9. Sized(Append(s, h), n + 8)
    BY <1>1, <1>3, AppendSized
  <1> HIDE DEF v, room
  <1>10. Built(ValueSet(room, v), t, Append(s, h), n + 8)
    BY <1>2, <1>5, <1>7, <1>9, ValueBuilt
  <1>11. AddFingerprint(m) = ValueSet(room, v)
    BY <1>6, <1>8
  <1> QED
    BY <1>10, <1>11 DEF h

(* No HMAC yet                                                             *)
Plain(s) == \A i \in 1 .. Len(s) : s[i].type # "MESSAGE_INTEGRITY"

(* ... with one more such attribute                                        *)
LEMMA PlainAppend ==
    ASSUME NEW S, NEW s \in Seq(S), Plain(s), NEW a,
           a.type # "MESSAGE_INTEGRITY"
    PROVE  Plain(Append(s, a))
  <1>1. s \in Seq(S \cup {a}) /\ Len(s) \in Nat
    BY SeqMonotonic
  <1>2. /\ Len(Append(s, a)) = Len(s) + 1 /\ Append(s, a)[Len(s) + 1] = a
        /\ \A i \in 1 .. Len(s) : Append(s, a)[i] = s[i]
    BY <1>1, AppendProperties
  <1> HIDE DEF Plain
  <1>3. ASSUME NEW i \in 1 .. Len(Append(s, a))
        PROVE  Append(s, a)[i].type # "MESSAGE_INTEGRITY"
    <2>1. CASE i = Len(s) + 1
      BY <1>2, <2>1
    <2>2. CASE i \in 1 .. Len(s)
      BY <1>2, <2>2 DEF Plain
    <2> QED
      BY <1>1, <1>2, <2>1, <2>2
  <1> QED
    BY <1>3 DEF Plain

(* An appended sequence and what was there before                          *)
LEMMA Before ==
    ASSUME NEW S, NEW s \in Seq(S), NEW a
    PROVE  /\ Append(s, a) \in Seq(S \cup {a})
           /\ Len(Append(s, a)) = Len(s) + 1 /\ Len(s) \in Nat
           /\ Append(s, a)[Len(s) + 1] = a
           /\ \A i \in 1 .. Len(s) : Append(s, a)[i] = s[i]
           /\ SubSeq(Append(s, a), 1, Len(s)) = s
  <1> DEFINE T == S \cup {a}
             x == Append(s, a)
  <1>1. s \in Seq(T) /\ Len(s) \in Nat /\ a \in T
    BY SeqMonotonic
  <1> HIDE DEF T
  <1>2. /\ x \in Seq(T) /\ Len(x) = Len(s) + 1 /\ x[Len(s) + 1] = a
        /\ \A i \in 1 .. Len(s) : x[i] = s[i]
    BY <1>1, AppendProperties
  <1> HIDE DEF x
  <1>3. /\ SubSeq(x, 1, Len(s)) \in Seq(T)
        /\ Len(SubSeq(x, 1, Len(s))) = Len(s)
        /\ \A i \in 1 .. Len(s) : SubSeq(x, 1, Len(s))[i] = x[i]
    BY <1>1, <1>2
  <1>4. SubSeq(x, 1, Len(s)) = s
    BY <1>1, <1>2, <1>3, SeqEqual
  <1> QED
    BY <1>1, <1>2, <1>4 DEF x, T

(* What write() puts on the wire                                           *)
LEMMA Written ==
    ASSUME NEW m, NEW t, NEW s, NEW n, Built(m, t, s, n)
    PROVE  /\ Write(m).length = n /\ Write(m).type = t /\ Write(m).attrs = s
           /\ Write(m).size = 20 + n
           /\ n \in Nat /\ Write(m).size % 4 = 0
  <1>1. /\ m.length = n /\ m.type = t /\ m.attrs = s /\ n \in Nat /\ n % 4 = 0
        /\ Octets(s) = n
    BY SizedOctets DEF Built
  <1>2. /\ Write(m).length = m.length /\ Write(m).type = m.type /\ Write(m).attrs = m.attrs
        /\ Write(m).size = 20 + Octets(m.attrs)
    BY DEF Write, k_stun_header_size
  <1>3. (20 + n) % 4 = 0
    BY <1>1
  <1> QED
    BY <1>1, <1>2, <1>3

(* A message that ends with its FINGERPRINT is valid and readable          *)
LEMMA CrcVerifies ==
    ASSUME NEW m, NEW t, NEW s, NEW n, Built(m, t, s, n), n + 8 < 65536,
           NEW w, w = Write(AddFingerprint(m))
    PROVE  ValidateFingerprint(w) /\ Readable(w) /\ w.type = t
  <1> DEFINE c == Crc(s, t, n + 8)
             x == Append(s, c)
  <1>1. PICK S : s \in Seq(S)
    BY DEF Built
  <1>2. Built(AddFingerprint(m), t, x, n + 8)
    BY FingerprintBuilt
  <1>3. c.length = 4 /\ c.type = "FINGERPRINT" /\ c.value = <<t, n + 8, s>>
    BY CrcFacts
  <1> HIDE DEF c
  <1>4. /\ x \in Seq(S \cup {c}) /\ Len(x) = Len(s) + 1 /\ Len(s) \in Nat /\ x[Len(s) + 1] = c
        /\ (\A i \in 1 .. Len(s) : x[i] = s[i]) /\ SubSeq(x, 1, Len(s)) = s
    BY <1>1, Before
  <1> HIDE DEF x
  <1>5. /\ w.length = n + 8 /\ w.type = t /\ w.attrs = x /\ w.size = 20 + (n + 8)
        /\ n + 8 \in Nat /\ w.size % 4 = 0
    BY <1>2, Written
  <1>6. n \in Nat
    BY DEF Built
  <1>7. x # <<>> /\ Len(x) - 1 = Len(s) /\ x[Len(x)] = c
    BY <1>4
  <1>8. SubSeq(x, 1, Len(x) - 1) = s
    BY <1>4, <1>7
  <1>9. w.attrs[Len(w.attrs)].value = <<w.type, w.length, SubSeq(w.attrs, 1, Len(w.attrs) - 1)>>
    BY <1>3, <1>5, <1>7, <1>8
  <1>10. ValidateFingerprint(w)
    <2>1. w.size >= k_stun_header_size + k_stun_attribute_header_size + 4
      BY <1>5, <1>6 DEF k_stun_header_size, k_stun_attribute_header_size
    <2>2. /\ w.attrs[Len(w.attrs)].type = "FINGERPRINT" /\ w.attrs[Len(w.attrs)].length = 4
          /\ w.attrs # <<>>
      BY <1>3, <1>5, <1>7
    <2> QED
      BY <1>5, <1>9, <2>1, <2>2 DEF ValidateFingerprint
  <1>11. Readable(w)
    BY <1>5, <1>6 DEF Readable, k_stun_header_size
  <1> QED
    BY <1>5, <1>10, <1>11

(* The first p elements                                                    *)
Upto(s, p) == SubSeq(s, 1, p)

(* The first MESSAGE-INTEGRITY is at p, and not the last attribute         *)
FirstHmac(w, p) ==
    /\ p \in DOMAIN w.attrs /\ p < Len(w.attrs) /\ w.attrs[p].type = "MESSAGE_INTEGRITY"
    /\ \A j \in 1 .. p - 1 : w.attrs[j].type # "MESSAGE_INTEGRITY"

(* The HMAC at p covers the octets before it                               *)
LEMMA IntegrityChecks ==
    ASSUME NEW w, NEW pwd, NEW p, FirstHmac(w, p), NEW t, NEW k, NEW s, NEW x,
           w.size % 4 = 0, w.length + k_stun_header_size = w.size, w.type = t,
           Upto(w.attrs, p) = x, Upto(w.attrs, p - 1) = s,
           Octets(x) = k, w.attrs[p].value = <<pwd, t, k, s>>
    PROVE  ValidateMessageIntegrity(w, pwd)
  <1>1. Has(w, "MESSAGE_INTEGRITY")
    BY DEF Has, Known, FirstHmac
  <1>2. w.attrs[p].value =
          <<pwd, w.type, Octets(Upto(w.attrs, p)), Upto(w.attrs, p - 1)>>
    OBVIOUS
  <1> QED
    BY <1>1, <1>2 DEF ValidateMessageIntegrity, FirstHmac, Upto

(* Any message that was given attributes, an HMAC and a CRC, in this order *)
(* and without an overflow of its length field, passes                     *)
(* validate_fingerprint, read and validate_message_integrity under the     *)
(* same password, although the CRC was added after the HMAC was computed   *)
THEOREM SignedVerifies ==
    ASSUME NEW m, NEW t, NEW s, NEW n, Built(m, t, s, n), n + 32 < 65536, Plain(s), NEW pwd
    PROVE  \A w : w = Write(AddFingerprint(AddMessageIntegrity(m, pwd))) =>
              /\ ValidateFingerprint(w) /\ Readable(w) /\ w.type = t
              /\ ValidateMessageIntegrity(w, pwd)
  <1>0. PICK w : w = Write(AddFingerprint(AddMessageIntegrity(m, pwd)))
    OBVIOUS
  <1> DEFINE h == Hmac(s, t, n + 24, pwd)
             x == Append(s, h)
             c == Crc(x, t, n + 32)
             y == Append(x, c)
             p == Len(s) + 1
  <1>1. PICK S : s \in Seq(S)
    BY DEF Built
  <1>2. n \in Nat /\ n + 24 < 65536 /\ (n + 24) + 8 < 65536 /\ (n + 24) + 8 = n + 32
    BY DEF Built
  <1>3. Built(AddMessageIntegrity(m, pwd), t, x, n + 24)
    BY <1>2, IntegrityBuilt
  <1>4. h.length = 20 /\ h.type = "MESSAGE_INTEGRITY" /\ h.value = <<pwd, t, n + 24, s>>
    BY HmacFacts
  <1>5. Built(AddFingerprint(AddMessageIntegrity(m, pwd)), t, y, n + 32)
    <2> HIDE DEF x
    <2>1. PICK k : k = n + 24
      OBVIOUS
    <2>2. Built(AddFingerprint(AddMessageIntegrity(m, pwd)), t, Append(x, Crc(x, t, k + 8)), k + 8)
      BY <1>2, <1>3, <2>1, FingerprintBuilt
    <2> QED
      BY <1>2, <2>1, <2>2
  <1> HIDE DEF h
  <1>6. /\ x \in Seq(S \cup {h}) /\ Len(x) = p /\ Len(s) \in Nat /\ x[p] = h
        /\ (\A i \in 1 .. Len(s) : x[i] = s[i]) /\ SubSeq(x, 1, Len(s)) = s
    BY <1>1, Before
  <1> HIDE DEF x, c
  <1>7. PICK T : x \in Seq(T)
    BY <1>6
  <1>8. /\ y \in Seq(T \cup {c}) /\ Len(y) = Len(x) + 1 /\ y[Len(x) + 1] = c
        /\ (\A i \in 1 .. Len(x) : y[i] = x[i]) /\ SubSeq(y, 1, Len(x)) = x
    BY <1>7, Before
  <1> HIDE DEF y
  <1>9. /\ w.length = n + 32 /\ w.type = t /\ w.attrs = y /\ w.size = 20 + (n + 32)
        /\ w.size % 4 = 0
    BY <1>0, <1>5, Written
  <1>10. DOMAIN y = 1 .. p + 1 /\ p \in DOMAIN y /\ p < Len(y) /\ p - 1 = Len(s)
    BY <1>6, <1>8
  <1>11. \A i \in 1 .. Len(s) : y[i] = s[i]
    BY <1>6, <1>8
  <1>12. y[p] = h
    BY <1>6, <1>8
  <1>13. SubSeq(y, 1, p - 1) = s
    <2>1. /\ SubSeq(y, 1, Len(s)) \in Seq(T \cup {c}) /\ Len(SubSeq(y, 1, Len(s))) = Len(s)
          /\ \A i \in 1 .. Len(s) : SubSeq(y, 1, Len(s))[i] = y[i]
      BY <1>6, <1>8
    <2>2. s \in Seq(S \cup T \cup {c}) /\ SubSeq(y, 1, Len(s)) \in Seq(S \cup T \cup {c})
      BY <1>1, <2>1, SeqMonotonic
    <2>3. SubSeq(y, 1, Len(s)) = s
      BY <1>11, <2>1, <2>2, SeqEqual
    <2> QED
      BY <1>10, <2>3
  <1>14. SubSeq(y, 1, p) = x /\ Octets(x) = n + 24
    <2>1. Sized(x, n + 24)
      BY <1>3 DEF Built
    <2> QED
      BY <1>6, <1>8, <2>1, SizedOctets
  <1>15. \A j \in 1 .. p - 1 : y[j].type # "MESSAGE_INTEGRITY"
    BY <1>10, <1>11 DEF Plain
  <1> HIDE DEF p
  <1>16. ValidateMessageIntegrity(w, pwd)
    <2>1. w.size % 4 = 0 /\ w.length + k_stun_header_size = w.size
      BY <1>2, <1>9 DEF k_stun_header_size
    <2>2. FirstHmac(w, p)
      BY <1>4, <1>9, <1>10, <1>12, <1>15 DEF FirstHmac
    <2>3. Upto(w.attrs, p) = x /\ Upto(w.attrs, p - 1) = s /\ w.type = t
      BY <1>9, <1>13, <1>14 DEF Upto
    <2>4. w.attrs[p].value = <<pwd, t, n + 24, s>>
      BY <1>4, <1>9, <1>12
    <2>5. PICK k : k = n + 24
      OBVIOUS
    <2>6. Octets(x) = k /\ w.attrs[p].value = <<pwd, t, k, s>>
      BY <1>14, <2>4, <2>5
    <2> QED
      BY <2>1, <2>2, <2>3, <2>6, IntegrityChecks
  <1>17. ValidateFingerprint(w) /\ Readable(w) /\ w.type = t
    <2>1. PICK k : k = n + 24 /\ k + 8 < 65536
      BY <1>2
    <2>2. PICK z : z = AddMessageIntegrity(m, pwd)
      OBVIOUS
    <2>3. Built(z, t, x, k) /\ w = Write(AddFingerprint(z))
      BY <1>0, <1>3, <2>1, <2>2
    <2> QED
      BY <2>1, <2>3, CrcVerifies
  <1> QED
    BY <1>0, <1>16, <1>17

(* The fields of an attribute                                              *)
LEMMA AttributeFacts ==
    ASSUME NEW t, NEW n, NEW v
    PROVE  /\ Attribute(t, n, v).length = n /\ Attribute(t, n, v).type = t
           /\ Attribute(t, n, v).value = v
  BY DEF Attribute

(* A new message is plain                                                  *)
LEMMA PlainEmpty == Plain(<<>>)
  <1>1. Len(<<>>) = 0
    OBVIOUS
  <1> QED
    BY <1>1 DEF Plain

(* One more attribute, as a step of the construction                       *)
LEMMA AddPlain ==
    ASSUME NEW m, NEW t, NEW s, NEW n, Built(m, t, s, n), Plain(s),
           NEW a, a.length \in Nat, a.type # "MESSAGE_INTEGRITY",
           NEW k, k = n + Padded(a.length) + k_stun_attribute_header_size, k < 65536
    PROVE  Built(AddAttribute(m, a), t, Append(s, a), k) /\ Plain(Append(s, a))
  <1>1. PICK S : s \in Seq(S)
    BY DEF Built
  <1> QED
    BY <1>1, AddAttributeBuilt, PlainAppend

(* The success response verifies under this port's password                *)
LEMMA ResponseVerifies ==
    \A w : w = BindingResponse =>
       /\ ValidateFingerprint(w) /\ Readable(w) /\ w.type = "response"
       /\ ValidateMessageIntegrity(w, MyPwd)
  <1>1. PICK a : a = Attribute("XOR_MAPPED_ADDRESS", 8, <<>>)
    OBVIOUS
  <1>2. PICK m : m = AddAttribute(NewMessage("response"), a)
    OBVIOUS
  <1>0. PICK e : e = <<>>
    OBVIOUS
  <1>3. a.length = 8 /\ a.type = "XOR_MAPPED_ADDRESS"
    BY <1>1, AttributeFacts
  <1>4. 12 = 0 + Padded(8) + k_stun_attribute_header_size
    BY DEF Padded, k_stun_attribute_header_size
  <1>5. Built(m, "response", Append(e, a), 12) /\ Plain(Append(e, a))
    <2>1. Built(NewMessage("response"), "response", e, 0) /\ Plain(e)
      BY <1>0, NewBuilt, PlainEmpty
    <2> QED
      BY <1>2, <1>3, <1>4, <2>1, AddPlain
  <1>6. BindingResponse = Write(AddFingerprint(AddMessageIntegrity(m, MyPwd)))
    BY <1>1, <1>2 DEF BindingResponse
  <1>7. \A w : w = Write(AddFingerprint(AddMessageIntegrity(m, MyPwd))) =>
           /\ ValidateFingerprint(w) /\ Readable(w) /\ w.type = "response"
           /\ ValidateMessageIntegrity(w, MyPwd)
    BY <1>5, SignedVerifies
  <1> QED
    BY <1>6, <1>7

(* The error response verifies, without an HMAC                            *)
LEMMA ErrorVerifies ==
    ASSUME NEW code
    PROVE  \A w : w = BindingErrorResponse(code) =>
              ValidateFingerprint(w) /\ Readable(w) /\ w.type = "error"
  <1>1. PICK reason : reason = IF code = 400 THEN 11 ELSE 12
    OBVIOUS
  <1>2. PICK a : a = Attribute("ERROR_CODE", 4 + reason, code)
    OBVIOUS
  <1>3. PICK m : m = AddAttribute(NewMessage("error"), a)
    OBVIOUS
  <1>4. a.length = 4 + reason /\ a.type = "ERROR_CODE" /\ reason \in {11, 12}
    BY <1>1, <1>2, AttributeFacts
  <1>5. a.length \in Nat /\ 20 = 0 + Padded(a.length) + k_stun_attribute_header_size
    BY <1>4 DEF Padded, k_stun_attribute_header_size
  <1>0. PICK e : e = <<>>
    OBVIOUS
  <1>6. Built(m, "error", Append(e, a), 20) /\ Plain(Append(e, a))
    <2>1. Built(NewMessage("error"), "error", e, 0) /\ Plain(e)
      BY <1>0, NewBuilt, PlainEmpty
    <2> QED
      BY <1>3, <1>4, <1>5, <2>1, AddPlain
  <1>7. BindingErrorResponse(code) = Write(AddFingerprint(m))
    BY <1>1, <1>2, <1>3 DEF BindingErrorResponse
  <1> DEFINE s == Append(e, a)
  <1> HIDE DEF s
  <1>8. ASSUME NEW w, w = Write(AddFingerprint(m))
        PROVE  ValidateFingerprint(w) /\ Readable(w) /\ w.type = "error"
    <2>1. Built(m, "error", s, 20)
      BY <1>6 DEF s
    <2> QED
      BY <1>8, <2>1, CrcVerifies
  <1> QED
    BY <1>7, <1>8

(* The first attribute is found first                                      *)
LEMMA FirstValue ==
    ASSUME NEW w, NEW t, NEW S, w.attrs \in Seq(S), Len(w.attrs) > 0, w.attrs[1].type = t
    PROVE  Value(w, t) = w.attrs[1].value
  <1> DEFINE at == {i \in DOMAIN w.attrs : w.attrs[i].type = t}
             c == CHOOSE i \in at : \A j \in at : i <= j
  <1>1. DOMAIN w.attrs = 1 .. Len(w.attrs) /\ 1 \in at
    OBVIOUS
  <1>2. at \subseteq Nat /\ \A j \in at : 1 <= j
    BY <1>1
  <1> HIDE DEF at
  <1>3. c \in at /\ \A j \in at : c <= j
    BY <1>1, <1>2
  <1> HIDE DEF c
  <1>4. c = 1
    BY <1>1, <1>2, <1>3
  <1>5. Value(w, t) = w.attrs[c].value
    BY DEF Value, at, c
  <1> QED
    BY <1>4, <1>5

(* Appending does not change the first element                             *)
LEMMA AppendFirst ==
    ASSUME NEW S, NEW s \in Seq(S), NEW a \in S, NEW u, Len(s) > 0, s[1] = u
    PROVE  Append(s, a) \in Seq(S) /\ Append(s, a)[1] = u /\ Len(Append(s, a)) > 0
  OBVIOUS

(* The ping verifies under the peer's password and names the user          *)
LEMMA RequestVerifies ==
    ASSUME NEW user
    PROVE  \A w : w = ConnectionRequest(user) =>
              /\ ValidateFingerprint(w) /\ Readable(w) /\ w.type = "request"
              /\ ValidateMessageIntegrity(w, PeerPwd)
              /\ Value(w, "USERNAME")[1] = user
  <1> USE PortAssumption
  <1>1. PICK u, n1 : /\ u = Attribute("USERNAME", 2 * UfragLength + 1, <<user, MyUfrag>>)
                     /\ n1 = 0 + Padded(2 * UfragLength + 1) + k_stun_attribute_header_size
    OBVIOUS
  <1>2. u.length = 2 * UfragLength + 1 /\ u.type = "USERNAME" /\ u.value = <<user, MyUfrag>>
    BY <1>1, AttributeFacts
  <1>3. 2 * UfragLength + 1 \in Nat /\ n1 \in Nat /\ n1 < 65000
    <2>1. 2 * UfragLength + 1 \in Nat
      OBVIOUS
    <2>2. Padded(2 * UfragLength + 1) \in Nat /\ Padded(2 * UfragLength + 1) <= 2 * UfragLength + 1 + 3
      BY <2>1, PaddedFacts
    <2> HIDE DEF Padded
    <2> QED
      BY <1>1, <2>1, <2>2 DEF k_stun_attribute_header_size
  <1>4. PICK c, d, p : /\ c = Attribute("ICE_CONTROLLING", 8, <<>>)
                       /\ d = Attribute("USE_CANDIDATE", 0, <<>>)
                       /\ p = Attribute("PRIORITY", 4, <<>>)
    OBVIOUS
  <1>5. /\ c.length = 8 /\ c.type = "ICE_CONTROLLING"
        /\ d.length = 0 /\ d.type = "USE_CANDIDATE"
        /\ p.length = 4 /\ p.type = "PRIORITY"
    BY <1>4, AttributeFacts
  <1>6. PICK n2, n3, n4 :
          /\ n2 = n1 + Padded(8) + k_stun_attribute_header_size
          /\ n3 = n2 + Padded(0) + k_stun_attribute_header_size
          /\ n4 = n3 + Padded(4) + k_stun_attribute_header_size
          /\ n2 < 65536 /\ n3 < 65536 /\ n4 < 65400 /\ n4 \in Nat
    BY <1>3 DEF Padded, k_stun_attribute_header_size
  <1>7. PICK m1, m2, m3, m4 :
          /\ m1 = AddAttribute(NewMessage("request"), u) /\ m2 = AddAttribute(m1, c)
          /\ m3 = AddAttribute(m2, d) /\ m4 = AddAttribute(m3, p)
    OBVIOUS
  <1>0. PICK e : e = <<>>
    OBVIOUS
  <1> DEFINE s1 == Append(e, u)
             s2 == Append(s1, c)
             s3 == Append(s2, d)
             s4 == Append(s3, p)
  <1>8. s1 = Append(e, u) /\ s2 = Append(s1, c) /\ s3 = Append(s2, d) /\ s4 = Append(s3, p)
    OBVIOUS
  <1> HIDE DEF s1, s2, s3, s4
  <1>9. Built(m1, "request", s1, n1) /\ Plain(s1)
    <2>1. n1 = 0 + Padded(u.length) + k_stun_attribute_header_size /\ u.length \in Nat /\ n1 < 65536
      BY <1>1, <1>2, <1>3
    <2>2. Built(NewMessage("request"), "request", e, 0) /\ Plain(e)
      BY <1>0, NewBuilt, PlainEmpty
    <2>3. m1 = AddAttribute(NewMessage("request"), u) /\ s1 = Append(e, u)
      BY <1>7, <1>8
    <2>4. u.type # "MESSAGE_INTEGRITY"
      BY <1>2
    <2> QED
      BY <2>1, <2>2, <2>3, <2>4, AddPlain
  <1>10. Built(m2, "request", s2, n2) /\ Plain(s2)
    <2>1. /\ c.length \in Nat /\ c.type # "MESSAGE_INTEGRITY"
          /\ n2 = n1 + Padded(c.length) + k_stun_attribute_header_size /\ n2 < 65536
      BY <1>5, <1>6
    <2>2. m2 = AddAttribute(m1, c) /\ s2 = Append(s1, c)
      BY <1>7, <1>8
    <2> QED
      BY <1>9, <2>1, <2>2, AddPlain
  <1>11. Built(m3, "request", s3, n3) /\ Plain(s3)
    <2>1. /\ d.length \in Nat /\ d.type # "MESSAGE_INTEGRITY"
          /\ n3 = n2 + Padded(d.length) + k_stun_attribute_header_size /\ n3 < 65536
      BY <1>5, <1>6
    <2>2. m3 = AddAttribute(m2, d) /\ s3 = Append(s2, d)
      BY <1>7, <1>8
    <2> QED
      BY <1>10, <2>1, <2>2, AddPlain
  <1>12. Built(m4, "request", s4, n4) /\ Plain(s4)
    <2>1. /\ p.length \in Nat /\ p.type # "MESSAGE_INTEGRITY"
          /\ n4 = n3 + Padded(p.length) + k_stun_attribute_header_size /\ n4 < 65536
      BY <1>5, <1>6
    <2>2. m4 = AddAttribute(m3, p) /\ s4 = Append(s3, p)
      BY <1>7, <1>8
    <2> QED
      BY <1>11, <2>1, <2>2, AddPlain
  <1>13. ConnectionRequest(user) = Write(AddFingerprint(AddMessageIntegrity(m4, PeerPwd)))
    BY <1>1, <1>4, <1>7 DEF ConnectionRequest
  <1>14. n4 \in Nat /\ n4 + 24 < 65536 /\ n4 + 32 < 65536 /\ (n4 + 24) + 8 < 65536
    BY <1>6
  <1>16. PICK w : w = ConnectionRequest(user)
    OBVIOUS
  <1>17. /\ ValidateFingerprint(w) /\ Readable(w) /\ w.type = "request"
         /\ ValidateMessageIntegrity(w, PeerPwd)
    BY <1>12, <1>13, <1>14, <1>16, SignedVerifies
  <1>18. Value(w, "USERNAME")[1] = user
    <2>1. PICK h, j : h = Hmac(s4, "request", n4 + 24, PeerPwd) /\ j = n4 + 24
      OBVIOUS
    <2>2. PICK m5 : m5 = AddMessageIntegrity(m4, PeerPwd)
      OBVIOUS
    <2> DEFINE s5 == Append(s4, h)
               f == Crc(s5, "request", j + 8)
               s6 == Append(s5, f)
    <2>3. Built(m5, "request", s5, j)
      BY <1>12, <1>14, <2>1, <2>2, IntegrityBuilt
    <2> HIDE DEF s5
    <2>4. Built(AddFingerprint(m5), "request", s6, j + 8)
      BY <1>14, <2>1, <2>3, FingerprintBuilt
    <2> HIDE DEF f, s6
    <2>5. w.attrs = s6
      BY <1>13, <1>16, <2>2, <2>4, Written
    <2> DEFINE S == {u, c, d, p, h, f}
    <2>6. u \in S /\ c \in S /\ d \in S /\ p \in S /\ h \in S /\ f \in S
      OBVIOUS
    <2> HIDE DEF S
    <2>7. s1 \in Seq(S) /\ s1[1] = u /\ Len(s1) > 0
      BY <1>0, <1>8, <2>6
    <2>8. s2 \in Seq(S) /\ s2[1] = u /\ Len(s2) > 0
      BY <1>8, <2>6, <2>7, AppendFirst
    <2>9. s3 \in Seq(S) /\ s3[1] = u /\ Len(s3) > 0
      BY <1>8, <2>6, <2>8, AppendFirst
    <2>10. s4 \in Seq(S) /\ s4[1] = u /\ Len(s4) > 0
      BY <1>8, <2>6, <2>9, AppendFirst
    <2>11. s5 \in Seq(S) /\ s5[1] = u /\ Len(s5) > 0
      BY <2>6, <2>10, AppendFirst DEF s5
    <2>12. w.attrs \in Seq(S) /\ w.attrs[1] = u /\ Len(w.attrs) > 0
      <3>1. s6 \in Seq(S) /\ s6[1] = u /\ Len(s6) > 0
        BY <2>6, <2>11, AppendFirst DEF s6
      <3> QED
        BY <2>5, <3>1
    <2>13. Value(w, "USERNAME") = u.value
      <3>1. w.attrs[1].type = "USERNAME" /\ w.attrs[1].value = u.value
        BY <1>2, <2>12
      <3> QED
        BY <2>12, <3>1, FirstValue
    <2> QED
      BY <1>2, <2>13
  <1> QED
    BY <1>16, <1>17, <1>18

-----------------------------------------------------------------------------
(* What the port sends: media, an answer, or a ping that names the user of *)
(* the connection of its address                                           *)
Good(d) ==
    \/ d.msg \in {Media, BindingResponse, BindingErrorResponse(400), BindingErrorResponse(401)}
    \/ d.to \in Addrs /\ conns[d.to] # NoUser /\ d.msg = ConnectionRequest(conns[d.to])

(* ... and so is all that is in flight                                     *)
GoodFlight == \A i \in 1 .. Len(InFlight) : Good(InFlight[i])

(* The user of a connection does not change *)
LEMMA UserKept ==
    ASSUME PortType, [Next]_vars, NEW a \in Addrs, conns[a] # NoUser
    PROVE  conns'[a] = conns[a]
  <1>1. ASSUME NEW b \in Addrs, NEW w \in Inputs, OnReadPacket(b, w)
        PROVE  conns'[a] = conns[a]
    BY <1>1 DEF OnReadPacket, PortType
  <1>2. CASE UNCHANGED conns
    BY <1>2
  <1> QED
    BY <1>1, <1>2 DEF Next, IoEvent, ReadDone, OnWritable, KernelAnswers, UpperLayerSends,
       portVars, vars

(* Losing datagrams does no harm                                           *)
LEMMA KeptGood ==
    ASSUME GoodFlight, Kept(InFlight', InFlight), \A d : Good(d) => Good(d)'
    PROVE  GoodFlight'
  <1> DEFINE s == InFlight
             t == InFlight'
  <1>1. PICK f \in [1 .. Len(t) -> 1 .. Len(s)] : \A i \in 1 .. Len(t) : t[i] = s[f[i]]
    BY DEF Kept
  <1>2. \A i \in 1 .. Len(t) : Good(t[i])
    BY <1>1 DEF GoodFlight
  <1>3. \A i \in 1 .. Len(t) : \A d : d = t[i] => Good(d)'
    BY <1>2
  <1> QED
    BY <1>3 DEF GoodFlight, Good

(* Sending a good one does no harm                                         *)
LEMMA SentGood ==
    ASSUME GoodFlight, SocketInv, NEW d \in Datagram, SendTo(d),
           \A e : Good(e) => Good(e)', Good(d)'
    PROVE  GoodFlight'
  <1>1. InFlight \in Seq(Datagram) /\ InFlight' = Append(InFlight, d)
    BY FlightSendTo
  <1>2. /\ Len(InFlight) \in Nat /\ Len(InFlight') = Len(InFlight) + 1
        /\ \A i \in 1 .. Len(InFlight) : InFlight'[i] = InFlight[i]
        /\ InFlight'[Len(InFlight) + 1] = d
    BY <1>1, AppendProperties
  <1>3. ASSUME NEW i \in 1 .. Len(InFlight') PROVE \A e : e = InFlight'[i] => Good(e)'
    <2>1. CASE i = Len(InFlight) + 1
      <3>1. \A e : e = d => Good(e)'
        BY DEF Good
      <3> QED
        BY <1>2, <2>1, <3>1
    <2>2. CASE i \in 1 .. Len(InFlight)
      BY <1>2, <2>2 DEF GoodFlight
    <2> QED
      BY <1>2, <2>1, <2>2
  <1> QED
    BY <1>3 DEF GoodFlight, Good

(* Every step of the port and its socket keeps GoodFlight                  *)
LEMMA StepGood ==
    ASSUME SocketInv, PortType, GoodFlight, [Next]_vars
    PROVE  GoodFlight'
  <1>1. ASSUME NEW d, Good(d) PROVE Good(d)'
    BY <1>1, UserKept DEF Good
  <1>2. CASE SendData \/ SendStep \/ UNCHANGED socketVars
    BY <1>1, <1>2, FlightKept, KeptGood
  <1>3. ASSUME NEW a \in Addrs, NEW w \in Inputs, OnReadPacket(a, w), ~UNCHANGED socketVars
        PROVE  GoodFlight'
    <2>1. PICK answer : answer = Answer(a, w)
      OBVIOUS
    <2>2. answer # "none" /\ SendTo(Reply(a, answer)) /\ Len(asked) < MaxRecv
      BY <1>3, <2>1 DEF OnReadPacket
    <2>3. answer \in {"bad_request", "unauthorized", "success"}
      BY <2>1, <2>2, AnswerFacts
    <2>4. PICK d : d = Reply(a, answer)
      OBVIOUS
    <2>5. d \in Datagram
      BY <2>2, <2>3, <2>4, ReplyFacts
    <2>6. d.msg \in {BindingResponse, BindingErrorResponse(400), BindingErrorResponse(401)}
      BY <2>3, <2>4 DEF Reply
    <2>7. Good(d)'
      BY <2>6 DEF Good
    <2> QED
      BY <1>1, <2>2, <2>4, <2>5, <2>7, SentGood
  <1>4. ASSUME NEW a \in Addrs, NEW ping \in BOOLEAN, UpperLayerSends(a, ping)
        PROVE  GoodFlight'
    <2>1. PICK d : d = [id |-> 0, to |-> a,
                        msg |-> IF ping THEN ConnectionRequest(conns[a]) ELSE Media]
      OBVIOUS
    <2>2. SendTo(d) /\ conns[a] # NoUser /\ conns[a] \in Ufrags /\ conns' = conns
      BY <1>4, <2>1 DEF UpperLayerSends, PortType
    <2>3. d \in Datagram
      <3>1. 0 \in 0 .. MaxRecv
        BY PortAssumption
      <3>2. d \in Datagrams
        BY <2>1, <2>2, <3>1 DEF Datagrams
      <3> QED
        BY <3>2, DatagramAssumption
    <2>4. d.to = a /\ (d.msg = ConnectionRequest(conns[a]) \/ d.msg = Media)
      BY <2>1
    <2>5. Good(d)'
      <3>1. Good(d)
        BY <2>2, <2>4 DEF Good
      <3> QED
        BY <1>1, <3>1
    <2> QED
      BY <1>1, <2>2, <2>3, <2>5, SentGood
  <1> QED
    BY <1>2, <1>3, <1>4 DEF Next, vars, portVars, IoEvent, ReadDone, OnWritable, KernelAnswers

(* Every STUN message the port puts into flight passes the checks a        *)
(* receiver with the same code makes (validate_fingerprint, read,          *)
(* validate_message_integrity): length field and padding, CRC and HMAC fit *)
(* together whatever the length of the user names, and a ping names the    *)
(* user its connection was created for                                     *)
THEOREM MessagesVerify == Spec => []SentMessagesVerify
  <1>1. Init => GoodFlight
    <2> SUFFICES ASSUME Init PROVE GoodFlight
      OBVIOUS
    <2>1. InFlight = <<>>
      BY ConcatEmptySeq DEF Init, SocketInit, InFlight
    <2>2. Len(InFlight) = 0
      BY <2>1, EmptySeq
    <2> QED
      BY <2>2 DEF GoodFlight
  <1>2. SocketInv /\ PortType /\ GoodFlight /\ [Next]_vars => GoodFlight'
    BY StepGood
  <1>3. SocketInv /\ GoodFlight => SentMessagesVerify
    <2> SUFFICES ASSUME SocketInv, GoodFlight, NEW d \in Members(InFlight), d.msg # Media
                 PROVE  /\ ValidateFingerprint(d.msg) /\ Readable(d.msg)
                        /\ d.msg.type = "response" => ValidateMessageIntegrity(d.msg, MyPwd)
                        /\ d.msg.type = "request" =>
                              /\ ValidateMessageIntegrity(d.msg, PeerPwd)
                              /\ Value(d.msg, "USERNAME")[1] = conns[d.to]
      BY DEF SentMessagesVerify
    <2>1. Good(d)
      BY FlightMembers DEF GoodFlight
    <2>2. PICK m : m = d.msg
      OBVIOUS
    <2>3. CASE m = BindingResponse
      BY <2>2, <2>3, ResponseVerifies
    <2>4. CASE m = BindingErrorResponse(400) \/ m = BindingErrorResponse(401)
      BY <2>2, <2>4, ErrorVerifies
    <2>5. CASE m = ConnectionRequest(conns[d.to])
      BY <2>2, <2>5, RequestVerifies
    <2> QED
      BY <2>1, <2>2, <2>3, <2>4, <2>5 DEF Good
  <1>4. Spec => []SocketInv
    BY PortUsesSocket, SocketInvariant, PTL
  <1> QED
    BY <1>1, <1>2, <1>3, <1>4, PortTypeInvariant, PTL DEF Spec
=============================================================================
