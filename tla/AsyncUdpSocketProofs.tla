------------------------- MODULE AsyncUdpSocketProofs -------------------------
(***************************************************************************)
(* Proofs about AsyncUdpSocket for every set of datagrams and lists of any *)
(* length.  The inductive invariant is the type of the variables, that a   *)
(* datagram is in hand exactly while send_to runs, and that WRITE is       *)
(* watched while a datagram waits; the second part is what makes the third *)
(* one survive EAGAIN in send_data, and both are what the refinement of    *)
(* LossyFifo needs.                                                        *)
(***************************************************************************)
EXTENDS AsyncUdpSocket, SequenceTheorems, TLAPS

SocketInv == SocketTypeOK /\ HandOfCall /\ NoStrandedDatagram

-----------------------------------------------------------------------------
(* Facts about sequences *)

(* What is left of a list is a list of the same kind of things *)
LEMMA TailType ==
    ASSUME NEW S, NEW s \in Seq(S), s # <<>>
    PROVE  Head(s) \in S /\ Tail(s) \in Seq(S)
  BY HeadTailProperties

(* Taking the oldest waiting datagram leaves the one in hand alone *)
LEMMA HeadTailConcat ==
    ASSUME NEW S, NEW s \in Seq(S), NEW t \in Seq(S), s # <<>>
    PROVE  /\ s \o t # <<>>
           /\ Head(s \o t) = Head(s)
           /\ Tail(s \o t) = Tail(s) \o t
  <1>1. /\ s \o t \in Seq(S) /\ Len(s \o t) = Len(s) + Len(t) /\ Len(s) \in Nat /\ Len(t) \in Nat
        /\ \A i \in 1 .. Len(s) + Len(t) :
              (s \o t)[i] = IF i <= Len(s) THEN s[i] ELSE t[i - Len(s)]
    BY ConcatProperties
  <1>2. Len(s) > 0
    BY <1>1
  <1>3. s \o t # <<>>
    BY <1>1, <1>2, ConcatEqualIffEmpty
  <1>4. Head(s \o t) = Head(s)
    BY <1>1, <1>2, <1>3
  <1>5. /\ Tail(s) \in Seq(S) /\ Len(Tail(s)) = Len(s) - 1
        /\ \A i \in 1 .. Len(Tail(s)) : Tail(s)[i] = s[i + 1]
    BY HeadTailProperties
  <1>6. /\ Tail(s \o t) \in Seq(S) /\ Len(Tail(s \o t)) = Len(s) + Len(t) - 1
        /\ \A i \in 1 .. Len(Tail(s \o t)) : Tail(s \o t)[i] = (s \o t)[i + 1]
    BY <1>1, <1>3, HeadTailProperties
  <1>7. /\ Tail(s) \o t \in Seq(S) /\ Len(Tail(s) \o t) = Len(Tail(s)) + Len(t)
        /\ \A i \in 1 .. Len(Tail(s)) + Len(t) :
              (Tail(s) \o t)[i] = IF i <= Len(Tail(s)) THEN Tail(s)[i] ELSE t[i - Len(Tail(s))]
    BY <1>5, ConcatProperties
  <1>8. \A i \in 1 .. Len(Tail(s \o t)) : Tail(s \o t)[i] = (Tail(s) \o t)[i]
    <2> TAKE i \in 1 .. Len(Tail(s \o t))
    <2>1. i + 1 \in 1 .. Len(s) + Len(t) /\ i \in 1 .. Len(Tail(s)) + Len(t)
      BY <1>1, <1>2, <1>5, <1>6
    <2>2. CASE i <= Len(Tail(s))
      BY <2>1, <2>2, <1>1, <1>5, <1>6, <1>7
    <2>3. CASE i > Len(Tail(s))
      <3>1. i + 1 - Len(s) = i - Len(Tail(s))
        BY <1>1, <1>5, <2>1
      <3>2. Tail(s \o t)[i] = t[i + 1 - Len(s)]
        BY <2>1, <2>3, <1>1, <1>5, <1>6
      <3>3. (Tail(s) \o t)[i] = t[i - Len(Tail(s))]
        BY <2>1, <2>3, <1>1, <1>5, <1>7
      <3> QED
        BY <3>1, <3>2, <3>3
    <2> QED
      BY <2>1, <2>2, <2>3, <1>1, <1>5
  <1>9. Tail(s \o t) = Tail(s) \o t
    BY <1>1, <1>2, <1>5, <1>6, <1>7, <1>8, SeqEqual
  <1> QED
    BY <1>3, <1>4, <1>9

(* Losing the oldest datagram and the one in hand leaves what is between *)
LEMMA DropBothEnds ==
    ASSUME NEW S, NEW s \in Seq(S), NEW t \in Seq(S), s # <<>>, Len(t) = 1
    PROVE  /\ Len(s \o t) > 1
           /\ SubSeq(s \o t, 2, Len(s \o t) - 1) = Tail(s)
  <1>1. /\ Len(s \o t) = Len(s) + 1 /\ Len(s) \in Nat
        /\ \A i \in 1 .. Len(s) : (s \o t)[i] = s[i]
    BY ConcatProperties
  <1>2. Len(s) > 0
    BY <1>1
  <1>3. \A i \in 2 .. Len(s) : (s \o t)[i] \in S
    BY <1>1
  <1>4. /\ SubSeq(s \o t, 2, Len(s)) \in Seq(S)
        /\ Len(SubSeq(s \o t, 2, Len(s))) = Len(s) - 1
        /\ \A i \in 1 .. Len(s) - 1 : SubSeq(s \o t, 2, Len(s))[i] = (s \o t)[i + 1]
    <2>1. /\ SubSeq(s \o t, 2, Len(s)) \in Seq(S)
          /\ Len(SubSeq(s \o t, 2, Len(s))) = IF 2 <= Len(s) THEN Len(s) - 2 + 1 ELSE 0
          /\ \A i \in 1 .. Len(s) - 2 + 1 : SubSeq(s \o t, 2, Len(s))[i] = (s \o t)[2 + i - 1]
      BY <1>1, <1>3, SubSeqProperties
    <2> QED
      BY <2>1, <1>1, <1>2
  <1>5. /\ Tail(s) \in Seq(S) /\ Len(Tail(s)) = Len(s) - 1
        /\ \A i \in 1 .. Len(Tail(s)) : Tail(s)[i] = s[i + 1]
    BY HeadTailProperties
  <1>6. \A i \in 1 .. Len(s) - 1 : SubSeq(s \o t, 2, Len(s))[i] = Tail(s)[i]
    BY <1>1, <1>4, <1>5
  <1>7. SubSeq(s \o t, 2, Len(s)) = Tail(s)
    BY <1>4, <1>5, <1>6, SeqEqual
  <1> QED
    BY <1>1, <1>2, <1>7

(* One datagram appended is one datagram concatenated *)
LEMMA SingleConcat ==
    ASSUME NEW S, NEW s \in Seq(S), NEW t \in Seq(S), Len(t) = 1
    PROVE  /\ t # <<>> /\ Tail(t) = <<>> /\ Head(t) \in S
           /\ s \o t = Append(s, Head(t))
  <1>1. t # <<>> /\ t[1] \in S
    <2>1. 1 \in 1 .. Len(t)
      OBVIOUS
    <2>2. t[1] \in S
      BY <2>1, ElementOfSeq
    <2>3. t # <<>>
      BY EmptySeq
    <2> QED
      BY <2>2, <2>3
  <1>2. Head(t) = t[1]
    BY <1>1
  <1>3. Tail(t) = <<>>
    <2>1. Tail(t) \in Seq(S) /\ Len(Tail(t)) = 0
      BY <1>1, HeadTailProperties
    <2> QED
      BY <2>1, EmptySeq
  <1>4. <<t[1]>> \in Seq(S) /\ Len(<<t[1]>>) = 1 /\ <<t[1]>>[1] = t[1]
    BY <1>1
  <1>5. t = <<t[1]>>
    BY <1>4, SeqEqual
  <1> QED
    BY <1>1, <1>2, <1>3, <1>5, AppendIsConcat

-----------------------------------------------------------------------------
LEMMA InitSocketInv == SocketInit => SocketInv
  BY DEF SocketInit, SocketInv, SocketTypeOK, HandOfCall, NoStrandedDatagram

(* Every sendto and every return preserves the invariant *)
LEMMA StepSocketInv == SocketInv /\ [SocketNext]_socketVars => SocketInv'
  <1> SUFFICES ASSUME SocketInv, [SocketNext]_socketVars PROVE SocketInv'
    OBVIOUS
  <1> USE DEF SocketInv, SocketTypeOK, HandOfCall, NoStrandedDatagram
  <1>1. ASSUME NEW d \in Datagram, SendTo(d) PROVE SocketInv'
    BY <1>1 DEF SendTo
  <1>2. CASE SendData
    BY <1>2 DEF SendData
  <1>3. CASE HeadSent
    <2>1. Head(list) \in Datagram /\ Tail(list) \in Seq(Datagram)
      BY <1>3, TailType DEF HeadSent
    <2>2. Append(wire, Head(list)) \in Seq(Datagram)
      BY <2>1, AppendProperties
    <2> QED
      BY <1>3, <2>1, <2>2 DEF HeadSent
  <1>4. CASE HeadFails
    <2>1. Tail(list) \in Seq(Datagram)
      BY <1>4, TailType DEF HeadFails
    <2> QED
      BY <1>4, <2>1 DEF HeadFails
  <1>5. CASE Again
    <2>1. list \o hand \in Seq(Datagram)
      BY ConcatProperties
    <2>2. CASE pc = "add"
      <3>1. /\ list' = list \o hand /\ hand' = <<>> /\ pc' = "idle" /\ wire' = wire
            /\ events' = events \cup {"WRITE"}
        BY <1>5, <2>2 DEF Again, StartIo
      <3>2. events' \in SUBSET {"READ", "WRITE"} /\ "READ" \in events' /\ "WRITE" \in events'
        BY <3>1
      <3>3. hand' \in Seq(Datagram)
        BY <3>1
      <3> QED
        BY <2>1, <3>1, <3>2, <3>3
    <2>3. CASE pc # "add"
      <3>1. list # <<>> /\ "WRITE" \in events
        BY <1>5, <2>3 DEF Again
      <3> QED
        BY <1>5, <2>1, <2>3, <3>1 DEF Again
    <2> QED
      BY <2>2, <2>3
  <1>6. CASE OwnSent
    <2>1. wire \o hand \in Seq(Datagram)
      BY ConcatProperties
    <2> QED
      BY <1>6, <2>1 DEF OwnSent
  <1>7. CASE OwnFails
    BY <1>7 DEF OwnFails
  <1>8. CASE AllSent
    BY <1>8 DEF AllSent, StopIo
  <1>9. CASE UNCHANGED socketVars
    BY <1>9 DEF socketVars
  <1> QED
    BY <1>1, <1>2, <1>3, <1>4, <1>5, <1>6, <1>7, <1>8, <1>9 DEF SocketNext, SendStep

(* The invariant holds in every state of the socket *)
THEOREM SocketInvariant == SocketSpec => []SocketInv
  BY InitSocketInv, StepSocketInv, PTL DEF SocketSpec

(* No datagram is stranded: a watcher waits for WRITE whenever the list is *)
(* not empty, however send_to, send_data and errors alternate.             *)
THEOREM NothingStranded == SocketSpec => []NoStrandedDatagram
  <1>1. SocketInv => NoStrandedDatagram
    BY DEF SocketInv
  <1> QED
    BY <1>1, SocketInvariant, PTL

-----------------------------------------------------------------------------
(* A step of the socket is a step of LossyFifo or changes nothing there *)
LEMMA SocketStepRefines ==
    SocketInv /\ [SocketNext]_socketVars => [L!Next]_(L!lossyVars)
  <1> SUFFICES ASSUME SocketInv, [SocketNext]_socketVars PROVE [L!Next]_(L!lossyVars)
    OBVIOUS
  <1>t. /\ list \in Seq(Datagram) /\ hand \in Seq(Datagram) /\ wire \in Seq(Datagram)
        /\ pc = "add" => Len(hand) = 1
        /\ pc # "add" => hand = <<>>
    BY DEF SocketInv, SocketTypeOK, HandOfCall
  <1> USE DEF L!Next, L!lossyVars
  <1>1. ASSUME NEW d \in Datagram, SendTo(d) PROVE L!Offer(d)
    <2>1. hand = <<>> /\ list' = list /\ hand' = <<d>> /\ wire' = wire
      BY <1>1, <1>t DEF SendTo
    <2>2. list \o hand = list /\ list' \o hand' = Append(list, d)
      BY <2>1, <1>t, ConcatEmptySeq, AppendIsConcat
    <2> QED
      BY <2>1, <2>2 DEF L!Offer
  <1>2. CASE HeadSent
    <2>1. /\ list # <<>> /\ list' = Tail(list) /\ hand' = hand
          /\ wire' = Append(wire, Head(list))
      BY <1>2 DEF HeadSent
    <2>2. L!Deliver
      BY <2>1, <1>t, HeadTailConcat DEF L!Deliver
    <2> QED
      BY <2>2
  <1>3. CASE HeadFails
    <2>1. list # <<>> /\ list' = Tail(list) /\ hand' = <<>> /\ wire' = wire
      BY <1>3 DEF HeadFails
    <2>2. Tail(list) \o <<>> = Tail(list)
      BY <2>1, <1>t, TailType, ConcatEmptySeq
    <2>3. CASE pc = "add"
      <3>1. L!LoseOldestAndNewest
        BY <2>1, <2>2, <2>3, <1>t, DropBothEnds DEF L!LoseOldestAndNewest
      <3> QED
        BY <3>1
    <2>4. CASE pc # "add"
      <3>1. list \o hand = list
        BY <2>4, <1>t, ConcatEmptySeq
      <3>2. L!LoseOldest
        BY <2>1, <2>2, <3>1 DEF L!LoseOldest
      <3> QED
        BY <3>2
    <2> QED
      BY <2>3, <2>4
  <1>4. CASE Again
    <2>1. list' = list \o hand /\ hand' = <<>> /\ wire' = wire
      BY <1>4 DEF Again
    <2>2. list \o hand \in Seq(Datagram)
      BY <1>t, ConcatProperties
    <2>3. list' \o hand' = list \o hand
      BY <2>1, <2>2, ConcatEmptySeq
    <2> QED
      BY <2>1, <2>3
  <1>5. CASE OwnSent
    <2>1. /\ pc = "add" /\ list = <<>> /\ list' = list /\ hand' = <<>>
          /\ wire' = wire \o hand
      BY <1>5 DEF OwnSent
    <2>2. list \o hand = hand /\ list' \o hand' = <<>>
      BY <2>1, <1>t, ConcatEmptySeq
    <2>3. L!Deliver
      BY <2>1, <2>2, <1>t, SingleConcat DEF L!Deliver
    <2> QED
      BY <2>3
  <1>6. CASE OwnFails
    <2>1. /\ pc = "add" /\ list = <<>> /\ list' = list /\ hand' = <<>> /\ wire' = wire
      BY <1>6 DEF OwnFails
    <2>2. list \o hand = hand /\ list' \o hand' = <<>>
      BY <2>1, <1>t, ConcatEmptySeq
    <2>3. L!LoseOldest
      BY <2>1, <2>2, <1>t, SingleConcat DEF L!LoseOldest
    <2> QED
      BY <2>3
  <1>7. CASE SendData \/ AllSent \/ UNCHANGED socketVars
    BY <1>7 DEF SendData, AllSent, socketVars
  <1> QED
    BY <1>1, <1>2, <1>3, <1>4, <1>5, <1>6, <1>7 DEF SocketNext, SendStep

(* send_to and send_data implement LossyFifo, for lists of every length *)
THEOREM SocketRefinement == SocketSpec => ImplementsLossyFifo
  <1>1. SocketInit => L!Init
    BY DEF SocketInit, L!Init
  <1> QED
    BY <1>1, SocketStepRefines, SocketInvariant, PTL DEF SocketSpec, ImplementsLossyFifo, L!Spec
=============================================================================
