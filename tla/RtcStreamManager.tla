-------------------------- MODULE RtcStreamManager --------------------------
(***************************************************************************)
(* stream/: RtcStreamManager with the RtcStream objects it owns, one        *)
(* instance per RtcWorker thread.  It keeps one push and one pull stream   *)
(* per stream name, creates and deletes them on behalf of users, reacts to *)
(* the state of their PeerConnection and to their 30 s ICE timer, and      *)
(* forwards media between the push and the pull stream of a name.          *)
(*                                                                         *)
(* Everything here runs on the worker's event loop, so each handler is one *)
(* step; what interleaves are the requests of users, the signals of the    *)
(* PeerConnections and the timers.  A Stream value stands for an RtcStream *)
(* object together with its PeerConnection, whose deletion is deferred by  *)
(* 10 ms (PeerConnection::destroy).                                        *)
(***************************************************************************)
EXTENDS Naturals, FiniteSets

CONSTANTS Uid,      \* users
          Name,     \* stream names
          Stream,   \* RtcStream objects; bounds how many exist at once
          None

ASSUME ManagerAssumption ==
  /\ None \notin Stream
  /\ None \notin Uid

Kind == {"push", "pull"}
Key == Kind \X Name

(* PeerConnectionState without k_closed, which nothing ever signals.        *)
PcState == {"new", "connecting", "connected", "disconnected", "failed"}

VARIABLES
  entry,    \* _push_streams and _pull_streams: kind and name -> stream
  life,     \* "free", "live", or "dying": deleted, PeerConnection not yet
  kind, uid, name,   \* what the stream was created for
  state,    \* RtcStream::_state
  timer,    \* _ice_timeout_watcher: "armed", "fired" or "off" (deleted)
  remote,   \* the PeerConnection has a remote description
  source,   \* pull: the push stream whose tracks its offer advertises
  sent,     \* what the last event forwarded, if anything
  actor     \* history: the user on whose behalf the last event ran

streamVars == <<life, kind, uid, name, state, timer, remote, source>>
vars == <<entry, life, kind, uid, name, state, timer, remote, source, sent, actor>>

TypeOK ==
  /\ entry \in [Key -> Stream \cup {None}]
  /\ life \in [Stream -> {"free", "live", "dying"}]
  /\ kind \in [Stream -> Kind]
  /\ uid \in [Stream -> Uid \cup {None}]
  /\ name \in [Stream -> Name \cup {None}]
  /\ \A s \in Stream : life[s] # "free" => uid[s] \in Uid /\ name[s] \in Name
  /\ state \in [Stream -> PcState]
  /\ timer \in [Stream -> {"armed", "fired", "off"}]
  /\ remote \in [Stream -> BOOLEAN]
  /\ source \in [Stream -> Stream \cup {None}]
  /\ \/ sent = None
     \/ sent \in [packet : {"rtp", "rtcp"}, from : Stream, to : Stream]
  /\ actor \in Uid \cup {None}

Init ==
  /\ entry = [x \in Key |-> None]
  /\ life = [s \in Stream |-> "free"]
  /\ kind = [s \in Stream |-> "push"]
  /\ uid = [s \in Stream |-> None]
  /\ name = [s \in Stream |-> None]
  /\ state = [s \in Stream |-> "new"]
  /\ timer = [s \in Stream |-> "off"]
  /\ remote = [s \in Stream |-> FALSE]
  /\ source = [s \in Stream |-> None]
  /\ sent = None
  /\ actor = None

-----------------------------------------------------------------------------
(* ~RtcStream on every stream of D: the ICE timer is deleted and the        *)
(* PeerConnection is scheduled for deletion.  New is the stream created in  *)
(* the same event, if any: its timer starts.                                *)
Deleted(D) == [s \in Stream |-> IF s \in D THEN "dying" ELSE life[s]]
TimersOff(D) == [s \in Stream |-> IF s \in D THEN "off" ELSE timer[s]]

(* _remove_push_stream(uid, name), _remove_pull_stream(uid, name): the      *)
(* stream they delete, as a set of at most one.                             *)
Removable_AnyUid(k, u, n) == {entry[<<k, n>>]} \ {None}

Removable(k, u, n) ==
  {s \in Stream : s = entry[<<k, n>>] /\ uid[s] = u}

(* erase and delete of the streams in D, which are all registered.          *)
Unregister(D) == [x \in Key |-> IF entry[x] \in D THEN None ELSE entry[x]]

(* A new stream: constructor, register_listener, start and create_offer.    *)
(* D is what the handler deleted before.                                    *)
NewStream(s, k, u, n, src, D) ==
  /\ life[s] = "free"
  /\ life' = [Deleted(D) EXCEPT ![s] = "live"]
  /\ kind' = [kind EXCEPT ![s] = k]
  /\ uid' = [uid EXCEPT ![s] = u]
  /\ name' = [name EXCEPT ![s] = n]
  /\ state' = [state EXCEPT ![s] = "new"]
  /\ timer' = [TimersOff(D) EXCEPT ![s] = "armed"]
  /\ remote' = [remote EXCEPT ![s] = FALSE]
  /\ source' = [source EXCEPT ![s] = src]
  /\ entry' = [Unregister(D) EXCEPT ![<<k, n>>] = s]

-----------------------------------------------------------------------------
CreatePush_NoDelete(u, n) ==
  /\ \E s \in Stream : NewStream(s, "push", u, n, None, {})
  /\ sent' = None
  /\ actor' = u

(* create_push_stream: replaces the push stream of that name whoever owns   *)
(* it.                                                                      *)
CreatePush(u, n) ==
  /\ \E s \in Stream :
       NewStream(s, "push", u, n, None, {entry[<<"push", n>>]} \ {None})
  /\ sent' = None
  /\ actor' = u

(* create_pull_stream: fails (-1) without a push stream.  It deletes the    *)
(* user's own previous pull stream, takes the tracks of the push stream's   *)
(* remote description as they are now, and overwrites the entry, even when  *)
(* another user's stream is registered there.                               *)
CreatePull(u, n) ==
  LET p == entry[<<"push", n>>] IN
  /\ IF p = None
     THEN UNCHANGED <<entry, streamVars>>
     ELSE \E s \in Stream :
            NewStream(s, "pull", u, n, IF remote[p] THEN p ELSE None,
                      Removable("pull", u, n))
  /\ sent' = None
  /\ actor' = u

(* set_answer for one of the two stream types (another type changes         *)
(* nothing): only the user's own stream takes the answer.                   *)
SetAnswer(k, u, n) ==
  LET D == Removable(k, u, n) IN
  /\ remote' = [s \in Stream |-> IF s \in D THEN TRUE ELSE remote[s]]
  /\ sent' = None
  /\ actor' = u
  /\ UNCHANGED <<entry, life, kind, uid, name, state, timer, source>>

(* stop_push and stop_pull.                                                 *)
Stop_KeepEntry(k, u, n) ==
  LET D == Removable(k, u, n) IN
  /\ life' = Deleted(D)
  /\ timer' = TimersOff(D)
  /\ sent' = None
  /\ actor' = u
  /\ UNCHANGED <<entry, kind, uid, name, state, remote, source>>

Stop(k, u, n) ==
  LET D == Removable(k, u, n) IN
  /\ entry' = Unregister(D)
  /\ life' = Deleted(D)
  /\ timer' = TimersOff(D)
  /\ sent' = None
  /\ actor' = u
  /\ UNCHANGED <<kind, uid, name, state, remote, source>>

-----------------------------------------------------------------------------
OnConnectionState_KeepTimer(s, st) ==
  LET D == IF st = "failed" THEN Removable(kind[s], uid[s], name[s]) ELSE {} IN
  /\ life[s] = "live"
  /\ st # state[s]
  /\ st = "connected" => remote[s]
  /\ state' = [state EXCEPT ![s] = st]
  /\ timer' = TimersOff(D)
  /\ entry' = Unregister(D)
  /\ life' = Deleted(D)
  /\ sent' = None
  /\ actor' = uid[s]
  /\ UNCHANGED <<kind, uid, name, remote, source>>

(* RtcStream::_on_connection_state and RtcStreamManager::on_connection_state: *)
(* a connected stream needs no ICE timer, a failed one is removed, by user    *)
(* and name.  DTLS completes only against the fingerprint of an answer.       *)
OnConnectionState(s, st) ==
  LET D == IF st = "failed" THEN Removable(kind[s], uid[s], name[s]) ELSE {} IN
  /\ life[s] = "live"
  /\ st # state[s]
  /\ st = "connected" => remote[s]
  /\ state' = [state EXCEPT ![s] = st]
  /\ timer' = IF st = "connected" THEN [timer EXCEPT ![s] = "off"]
                                  ELSE TimersOff(D)
  /\ entry' = Unregister(D)
  /\ life' = Deleted(D)
  /\ sent' = None
  /\ actor' = uid[s]
  /\ UNCHANGED <<kind, uid, name, remote, source>>

(* ice_timeout_cb and on_stream_exception: a stream that is not connected   *)
(* when its timer expires is removed, by user and name.                     *)
IceTimeout(s) ==
  LET D == IF state[s] # "connected" THEN Removable(kind[s], uid[s], name[s])
                                     ELSE {} IN
  /\ life[s] = "live"
  /\ timer[s] = "armed"
  /\ timer' = [TimersOff(D) EXCEPT ![s] = IF s \in D THEN "off" ELSE "fired"]
  /\ entry' = Unregister(D)
  /\ life' = Deleted(D)
  /\ sent' = None
  /\ actor' = uid[s]
  /\ UNCHANGED <<kind, uid, name, state, remote, source>>

(* destroy_timer_cb: the PeerConnection of a deleted stream goes, and with  *)
(* it the memory of both.                                                   *)
DestroyPc(s) ==
  /\ life[s] = "dying"
  /\ life' = [life EXCEPT ![s] = "free"]
  /\ kind' = [kind EXCEPT ![s] = "push"]
  /\ uid' = [uid EXCEPT ![s] = None]
  /\ name' = [name EXCEPT ![s] = None]
  /\ state' = [state EXCEPT ![s] = "new"]
  /\ remote' = [remote EXCEPT ![s] = FALSE]
  /\ source' = [x \in Stream |-> IF x = s \/ source[x] = s THEN None ELSE source[x]]
  /\ sent' = None
  /\ actor' = None
  /\ UNCHANGED <<entry, timer>>

-----------------------------------------------------------------------------
(* The stream a packet received by s is passed on to: RTP from a push       *)
(* stream to the pull stream of that name, RTCP both ways.                  *)
Target_SameKind(s, packet) ==
  IF packet = "rtp" /\ kind[s] = "pull" THEN None
  ELSE entry[<<"push", name[s]>>]

Target(s, packet) ==
  IF kind[s] = "push" THEN entry[<<"pull", name[s]>>]
  ELSE IF packet = "rtcp" THEN entry[<<"push", name[s]>>] ELSE None

(* on_rtp_packet_received, on_rtcp_packet_received.  SRTP is keyed by DTLS, *)
(* so only a stream with an answer receives media.                          *)
OnPacket(s, packet) ==
  /\ life[s] = "live"
  /\ remote[s]
  /\ sent' = IF Target(s, packet) = None THEN None
             ELSE [packet |-> packet, from |-> s, to |-> Target(s, packet)]
  /\ actor' = uid[s]
  /\ UNCHANGED <<entry, streamVars>>

-----------------------------------------------------------------------------
Request ==
  \E u \in Uid, n \in Name :
    \/ CreatePush(u, n)
    \/ CreatePull(u, n)
    \/ \E k \in Kind : SetAnswer(k, u, n)
    \/ \E k \in Kind : Stop(k, u, n)

Signal ==
  \E s \in Stream :
    \/ \E st \in PcState : OnConnectionState(s, st)
    \/ \E packet \in {"rtp", "rtcp"} : OnPacket(s, packet)

Timer ==
  \E s \in Stream : IceTimeout(s) \/ DestroyPc(s)

Next == Request \/ Signal \/ Timer

Spec == Init /\ [][Next]_vars

-----------------------------------------------------------------------------
(* Properties                                                               *)

Live(s) == life[s] = "live"

(* A registered stream can be found again by its own name, kind and user.   *)
Registered(s) == entry[<<kind[s], name[s]>>] = s

(* Both maps hold only streams that are alive and belong there: no lookup   *)
(* of _find_push_stream or _find_pull_stream returns a deleted object, one  *)
(* of another name or one of the other kind.                                *)
NoDanglingEntry ==
  \A x \in Key : entry[x] # None =>
    /\ Live(entry[x])
    /\ <<kind[entry[x]], name[entry[x]]>> = x

(* Every live push stream is registered: no sequence of requests, failures  *)
(* and timeouts leaves behind a push stream that stop_push can not reach.   *)
PushRegistered == \A s \in Stream : Live(s) /\ kind[s] = "push" => Registered(s)

(* A forwarded packet goes to a live stream of the same name and of the     *)
(* other kind, and RTP never leaves a pull stream.                          *)
ForwardedToPeer ==
  sent # None =>
    /\ Live(sent.from) /\ Live(sent.to)
    /\ name[sent.from] = name[sent.to]
    /\ kind[sent.from] # kind[sent.to]
    /\ sent.packet = "rtp" => kind[sent.from] = "push"

(* A user can not delete the stream of another user, except by pushing      *)
(* under its name: stop, failure and timeout events only delete streams of  *)
(* the user they belong to.                                                 *)
OwnerDeletes ==
  [][\A s \in Stream :
       Live(s) /\ life'[s] # "live" =>
         \/ uid[s] = actor'
         \/ kind[s] = "push" /\ entry'[<<"push", name[s]>>] \notin {s, None}]_vars

(* A stream's ICE timer expires, or its PeerConnection fails.               *)
Ends(t) == IceTimeout(t) \/ OnConnectionState(t, "failed")

(* Removal is by user and name, not by stream.  Still a registered stream   *)
(* that fails, or whose timer expires (which happens only before it         *)
(* connects), removes itself; and it can remove another stream in its place *)
(* only if it is a pull stream that another user's pull has pushed out of   *)
(* the map, and then only a pull stream that its own user has made since.   *)
(* That exception happens, to connected streams too: the timer of the old   *)
(* stream goes on when the old stream is pushed out.                        *)
RemovalScope ==
  [][\A t \in Stream : Ends(t) =>
       /\ Registered(t) => life'[t] # "live"
       /\ \A s \in Stream \ {t} : Live(s) /\ life'[s] # "live" =>
            /\ kind[t] = "pull" /\ ~Registered(t)
            /\ kind[s] = "pull" /\ uid[s] = uid[t] /\ name[s] = name[t]]_vars

(* What rtc_stream_manager.h says of the class, "manages all push and pull  *)
(* sessions": every session that is alive is in its maps.                   *)
AllSessionsManaged == \A s \in Stream : Live(s) => Registered(s)
=============================================================================
