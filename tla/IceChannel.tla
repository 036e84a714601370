------------------------------ MODULE IceChannel ------------------------------
(***************************************************************************)
(* What an IceTransportChannel promises to the objects that listen to it   *)
(* (IceAgent and DtlsTransport), whatever its connections do: it becomes   *)
(* writable only after the peer's ICE parameters are known, it does not    *)
(* forget that it has had a connection or has been writable, and the state *)
(* it reports follows from that.                                           *)
(***************************************************************************)

VARIABLE ch

Channel ==
    [remote: BOOLEAN,      \* the peer's ICE parameters are known
     had: BOOLEAN,         \* _had_connection
     been: BOOLEAN,        \* _has_been_connection
     writable: BOOLEAN, receiving: BOOLEAN,
     state: {"new", "checking", "connected", "disconnected", "failed"}]

ChannelInit ==
    ch = [remote |-> FALSE, had |-> FALSE, been |-> FALSE,
          writable |-> FALSE, receiving |-> FALSE, state |-> "new"]

(* _compute_ice_transport_state; has: some connection is active *)
StateOf(had, has, been, writable) ==
    IF had /\ ~has THEN "failed"
    ELSE IF been /\ ~writable THEN "disconnected"
    ELSE IF ~had /\ ~has THEN "new"
    ELSE IF has /\ ~writable THEN "checking"
    ELSE "connected"

(* What one handler, with all its calls of _update_state, may make of the  *)
(* channel c                                                               *)
MayBecome(c, d) ==
    /\ c.remote => d.remote
    /\ c.had => d.had
    /\ c.been => d.been
    /\ d.writable => c.remote /\ d.had /\ d.been
    /\ d.receiving => d.had
    /\ \E has \in BOOLEAN :
          /\ d.writable => has
          /\ has => d.had
          /\ d.state = StateOf(d.had, has, d.been, d.writable)

ChannelNext == \E d \in Channel : MayBecome(ch, d) /\ ch' = d

ChannelSpec == ChannelInit /\ [][ChannelNext]_ch
=============================================================================
