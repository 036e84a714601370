---------------------------- MODULE AsyncUdpSocket ----------------------------
(***************************************************************************)
(* AsyncUdpSocket (src/rtcserver/src/base/async_udp_socket.cpp): a         *)
(* non-blocking UDP socket with a list of datagrams the kernel would not   *)
(* take yet.  send_to first flushes the list and then sends or queues the  *)
(* new datagram; the event loop calls send_data when the socket is         *)
(* writable and WRITE is watched.  Each sendto is a step of its own, so    *)
(* that every mixture of outcomes within one call is covered; the thread   *)
(* does nothing else while a call is in progress (pc).                     *)
(***************************************************************************)
EXTENDS Naturals, Sequences

CONSTANT Datagram    \* what is sent, with its address

VARIABLES
    list,     \* _udp_packet_list
    events,   \* what the watcher of the socket waits for
    hand,     \* the argument of the send_to in progress, as a sequence
    pc,       \* "idle", "add" (in _add_udp_packet) or "write" (in send_data)
    wire      \* history: the datagrams the kernel has taken

socketVars == <<list, events, hand, pc, wire>>

SocketInit ==
    /\ list = <<>> /\ events = {"READ"}
    /\ hand = <<>> /\ pc = "idle" /\ wire = <<>>

(* EventLoop::start_io_event and stop_io_event on the active watcher *)
StartIo(mask) == events' = events \cup mask

StopIo(mask) == events' = events \ mask

SendTo(d) ==
    /\ pc = "idle"
    /\ pc' = "add" /\ hand' = <<d>>
    /\ UNCHANGED <<list, events, wire>>

(* The io callback saw WRITE *)
SendData ==
    /\ pc = "idle"
    /\ pc' = "write"
    /\ UNCHANGED <<list, events, hand, wire>>

(* sendto takes the oldest datagram, and the loop goes on *)
HeadSent ==
    /\ pc # "idle" /\ list # <<>>
    /\ wire' = Append(wire, Head(list)) /\ list' = Tail(list)
    /\ UNCHANGED <<events, hand, pc>>

(* sendto fails: the oldest datagram is dropped and the call returns,      *)
(* without the datagram in hand when there is one                          *)
HeadFails ==
    /\ pc # "idle" /\ list # <<>>
    /\ list' = Tail(list) /\ hand' = <<>> /\ pc' = "idle"
    /\ UNCHANGED <<events, wire>>

(* Mutant: the datagram is queued and nobody waits for WRITE *)
Again_NotWatched ==
    /\ pc # "idle" /\ (pc = "write" => list # <<>>)
    /\ list' = list \o hand /\ hand' = <<>> /\ pc' = "idle"
    /\ UNCHANGED <<events, wire>>

(* EAGAIN, for the oldest datagram or, when the list is empty, for the one *)
(* in hand: SEND_AGAIN queues the latter and watches WRITE                 *)
Again ==
    /\ pc # "idle" /\ (pc = "write" => list # <<>>)
    /\ list' = list \o hand /\ hand' = <<>> /\ pc' = "idle"
    /\ IF pc = "add" THEN StartIo({"WRITE"}) ELSE UNCHANGED events
    /\ UNCHANGED wire

(* Mutant: the new datagram goes first *)
OwnSent_BeforeList ==
    /\ pc = "add"
    /\ wire' = wire \o hand /\ hand' = <<>> /\ pc' = "idle"
    /\ UNCHANGED <<list, events>>

(* The list is empty: the datagram in hand is sent ... *)
OwnSent ==
    /\ pc = "add" /\ list = <<>>
    /\ wire' = wire \o hand /\ hand' = <<>> /\ pc' = "idle"
    /\ UNCHANGED <<list, events>>

(* ... or fails, and send_to returns -1 *)
OwnFails ==
    /\ pc = "add" /\ list = <<>>
    /\ hand' = <<>> /\ pc' = "idle"
    /\ UNCHANGED <<list, events, wire>>

(* Mutant: WRITE stays watched *)
AllSent_StillWatched ==
    /\ pc = "write" /\ list = <<>>
    /\ pc' = "idle"
    /\ UNCHANGED <<list, events, hand, wire>>

(* send_data finds the list empty *)
AllSent ==
    /\ pc = "write" /\ list = <<>>
    /\ pc' = "idle" /\ StopIo({"WRITE"})
    /\ UNCHANGED <<list, hand, wire>>

(* What the kernel may answer to the sendto of the call in progress *)
SendStep == HeadSent \/ HeadFails \/ Again \/ OwnSent \/ OwnFails \/ AllSent

(* The steps in which the call in progress gets something done *)
SendProgress == HeadSent \/ HeadFails \/ OwnSent \/ OwnFails \/ AllSent

SocketNext == SendData \/ SendStep \/ \E d \in Datagram : SendTo(d)

SocketSpec == SocketInit /\ [][SocketNext]_socketVars

-----------------------------------------------------------------------------
(* Type invariant *)
SocketTypeOK ==
    /\ list \in Seq(Datagram) /\ wire \in Seq(Datagram)
    /\ hand \in Seq(Datagram)
    /\ events \in SUBSET {"READ", "WRITE"}
    /\ pc \in {"idle", "add", "write"}

(* The datagram in hand is there exactly while send_to runs *)
HandOfCall == IF pc = "add" THEN Len(hand) = 1 ELSE hand = <<>>

(* A datagram in the list is never stranded: WRITE is watched as long as   *)
(* one waits, through every mixture of flushes by send_to and by send_data *)
(* and of errors; and the socket never stops waiting for input             *)
NoStrandedDatagram ==
    /\ list # <<>> => "WRITE" \in events
    /\ "READ" \in events

(* send_to and send_data implement LossyFifo: datagrams leave in order,    *)
(* and an error costs the oldest one and at most the one being sent        *)
L == INSTANCE LossyFifo WITH Datagram <- Datagram, waiting <- list \o hand, delivered <- wire

ImplementsLossyFifo == L!Spec
=============================================================================
