---------------------------- MODULE MediaTransport ----------------------------
(***************************************************************************)
(* The secure transport of a peer connection: PeerConnection and           *)
(* TransportController with their one bundled DtlsTransport and            *)
(* DtlsSrtpTransport (src/rtcserver/src/pc) and the IceAgent, on top of an *)
(* ICE channel that behaves as IceChannel says.  All of it runs on one     *)
(* RtcWorker thread and is wired with synchronous signals: the objects are *)
(* the record m, a method is an operator that maps m to what it leaves,    *)
(* and the slots of a signal are applied in the order they were connected. *)
(*                                                                         *)
(* The adapter around OpenSSL comes with libwebrtc and is modelled by what *)
(* the methods of DtlsTransport see of it.  A handshake is a ClientHello,  *)
(* then the flight that carries the peer's certificate.  The adapter reads *)
(* the packet queue of StreamInterfaceChannel empty at every SE_READ, so   *)
(* the queue is empty between handlers.  The certificate is set before the *)
(* first offer, so _dtls_active is always true.                            *)
(*                                                                         *)
(* Media packets and send_rtp, send_rtcp change no state: a packet is      *)
(* passed on exactly when SrtpActive (and DTLS is connected, inbound).     *)
(***************************************************************************)
EXTENDS Integers, FiniteSets

CONSTANTS
    Fps,             \* fingerprints of certificates
    BadFp,           \* a fingerprint whose length does not fit its algorithm
    NoFp,            \* none
    MaxAnswers,      \* bound: answers processed
    MaxOthers        \* bound: SRTP sessions of other peer connections

ASSUME FpAssumption == BadFp \notin Fps /\ NoFp \notin Fps \cup {BadFp}

ASSUME BoundAssumption == MaxAnswers \in Nat /\ MaxOthers \in Nat

VARIABLES
    m,         \* the objects of this peer connection and libsrtp's counter
    phase,     \* "open", "closing", "gone", or "undefined" (null dereference)
    answers    \* how many answers have been set

vars == <<m, phase, answers>>

(* m.ice: the channel, as its getters show it while signals are delivered *)
INSTANCE IceChannel WITH ch <- m.ice

(* dtls: state, writable, receiving; fp, the remote fingerprint last set;  *)
(* hello, the cached ClientHello; the adapter with the digest it verifies  *)
(* against, what it has seen of the handshake, and its number gen.         *)
(* srtp: the two sessions, the adapter their keys come from, and whether   *)
(* the last installation failed.  lib: g_libsrtp_usage_count, whether the  *)
(* library is initialised, and the sessions of others among the users.     *)
Dtls ==
    [state: {"new", "connecting", "connected", "closed", "failed"},
     writable: BOOLEAN, receiving: BOOLEAN,
     fp: Fps \cup {BadFp, NoFp}, hello: {"none", "good", "bad"},
     adapter: {"absent", "none", "connecting", "connected", "closed", "error"},
     digest: Fps \cup {NoFp}, seen: BOOLEAN, peer: Fps \cup {NoFp}, gen: Nat]

Srtp ==
    [send: {"none", "new", "inited", "keyed"}, recv: {"none", "new", "inited", "keyed"},
     key: Nat, failed: BOOLEAN]

Objects ==
    [up: BOOLEAN, dtls: Dtls, srtp: Srtp,
     lib: [count: Int, ready: BOOLEAN, others: 0 .. MaxOthers],
     agent: {"new", "checking", "connected", "disconnected", "failed"},
     pc: {"new", "connecting", "connected", "disconnected", "failed"}, ice: Channel]

(* set_local_description: everything is created and connected *)
Init ==
    /\ m = [up |-> TRUE,
            dtls |-> [state |-> "new", writable |-> FALSE, receiving |-> FALSE, fp |-> NoFp,
                      hello |-> "none", adapter |-> "absent", digest |-> NoFp,
                      seen |-> FALSE, peer |-> NoFp, gen |-> 0],
            srtp |-> [send |-> "none", recv |-> "none", key |-> 0, failed |-> FALSE],
            lib |-> [count |-> 0, ready |-> FALSE, others |-> 0],
            agent |-> "new", pc |-> "new",
            ice |-> [remote |-> FALSE, had |-> FALSE, been |-> FALSE,
                     writable |-> FALSE, receiving |-> FALSE, state |-> "new"]]
    /\ phase = "open" /\ answers = 0

-----------------------------------------------------------------------------
(* TransportController and IceAgent *)

(* TransportController::_update_state with its one transport of two parts *)
PcState(ds, is) ==
    IF ds = "failed" \/ is = "failed" THEN "failed"
    ELSE IF is = "disconnected" THEN "disconnected"
    ELSE IF ds \in {"new", "closed"} /\ is = "new" THEN "new"
    ELSE IF is \in {"checking", "new"} \/ ds \in {"connecting", "new"} THEN "connecting"
    ELSE "connected"

(* ... or with none left, in the destructor *)
ControllerUpdate(x) ==
    [x EXCEPT !.pc = IF x.up THEN PcState(x.dtls.state, x.ice.state) ELSE "new"]

(* Mutant: the controller is not told *)
AgentUpdate_Silent(x) == [x EXCEPT !.agent = x.ice.state]

(* IceAgent::_update_state with one channel; k_completed never occurs *)
AgentUpdate(x) ==
    IF x.agent = x.ice.state THEN x
    ELSE ControllerUpdate([x EXCEPT !.agent = x.ice.state])

-----------------------------------------------------------------------------
(* SrtpSession and SrtpTransport *)

SrtpActive(x) == x.srtp.send # "none" /\ x.srtp.recv # "none"

(* _increment_libsrtp_usage_count_and_maybe_init *)
UsageGranted(x, k) == x.lib.count > 0 \/ k \notin {"init_fails", "handler_fails"}

Increment(x, k) ==
    [x EXCEPT !.lib.count = IF UsageGranted(x, k) THEN @ + 1 ELSE @,
              !.lib.ready = @ \/ x.lib.count > 0 \/ k # "init_fails"]

Decrement(x) ==
    [x EXCEPT !.lib.count = @ - 1, !.lib.ready = x.lib.count > 1]

(* Mutant: the usage count is given back by sessions that never took it *)
Destroyed_Always(x, s) == IF s = "none" THEN x ELSE Decrement(x)

(* ~SrtpSession *)
Destroyed(x, s) == IF s \in {"inited", "keyed"} THEN Decrement(x) ELSE x

ResetParams(x) ==
    [Destroyed(Destroyed(x, x.srtp.send), x.srtp.recv) EXCEPT
        !.srtp.send = "none", !.srtp.recv = "none"]

(* What may go wrong while keys are installed *)
KeyOutcomes == {"ok", "no_params", "init_fails", "handler_fails", "send_fails", "recv_fails"}

(* SrtpSession::_set_key of a session that was just created *)
SetSend(x, k) ==
    IF ~UsageGranted(x, k) THEN Increment(x, k)
    ELSE [Increment(x, k) EXCEPT !.srtp.send = IF k = "send_fails" THEN "inited" ELSE "keyed"]

SetRecv(x, k) ==
    [Increment(x, k) EXCEPT !.srtp.recv = IF k = "recv_fails" THEN "inited" ELSE "keyed"]

(* set_rtp_params: either both sessions have keys, or both are gone *)
SetRtpParams(x, k) ==
    LET x1 == SetSend([x EXCEPT !.srtp.send = "new", !.srtp.recv = "new"], k)
        x2 == IF x1.srtp.send = "keyed" THEN SetRecv(x1, k) ELSE x1
    IN  IF x2.srtp.recv = "keyed" THEN [x2 EXCEPT !.srtp.key = x.dtls.gen]
        ELSE ResetParams(x2)

(* DtlsSrtpTransport::_maybe_setup_dtls_srtp; a failure is only logged *)
MaybeSetupDtlsSrtp(x, k) ==
    IF SrtpActive(x) \/ ~x.dtls.writable THEN x
    ELSE LET x1 == IF k = "no_params" THEN x ELSE SetRtpParams(x, k)
         IN  [x1 EXCEPT !.srtp.failed = ~SrtpActive(x1)]

-----------------------------------------------------------------------------
(* DtlsTransport.  k: what happens when keys are installed. *)

(* _set_dtls_state: the controller's slot, then DtlsSrtpTransport's *)
SetDtlsState(x, s, k) ==
    IF x.dtls.state = s THEN x
    ELSE LET x1 == ControllerUpdate([x EXCEPT !.dtls.state = s])
         IN  IF s = "connected" THEN MaybeSetupDtlsSrtp(x1, k)
             ELSE [ResetParams(x1) EXCEPT !.srtp.failed = FALSE]

(* No slot is connected to signal_writable_state of DtlsTransport *)
SetWritable(x, w) == [x EXCEPT !.dtls.writable = w]

Ended(x, s) == SetDtlsState(SetWritable(x, FALSE), s, "ok")

(* Mutant: the state changes before the transport is writable *)
Opened_StateFirst(x, k) == SetWritable(SetDtlsState(x, "connected", k), TRUE)

(* _on_dtls_event with SE_OPEN *)
Opened(x, k) == SetDtlsState(SetWritable(x, TRUE), "connected", k)

(* A packet of a handshake that has begun, by way of ContinueSSL.  The     *)
(* certificate is verified against the digest; with no digest the adapter  *)
(* waits for one without a signal.                                         *)
ContinueSSL(x, p, k) ==
    LET done == [x EXCEPT !.dtls.adapter = "connected", !.dtls.peer = p.cert]
        fails == Ended([x EXCEPT !.dtls.adapter = "error"], "failed")
    IN  CASE p.kind = "hello" -> [x EXCEPT !.dtls.seen = TRUE]
          [] p.kind = "finish" /\ x.dtls.seen ->
                IF x.dtls.digest = NoFp THEN done
                ELSE IF x.dtls.digest = p.cert THEN Opened(done, k)
                ELSE fails
          [] p.kind \in {"alert", "close"} -> fails
          [] OTHER -> x

(* Read, after the handshake: the peer has closed, or something is wrong *)
ReadSSL(x, p) ==
    CASE p.kind = "close" -> Ended([x EXCEPT !.dtls.adapter = "closed"], "closed")
      [] p.kind = "alert" -> Ended([x EXCEPT !.dtls.adapter = "error"], "failed")
      [] OTHER -> x

(* OnEvent: a DTLS packet p handed to the adapter, and the events it raises *)
AdapterInput(x, p, k) ==
    CASE x.dtls.adapter = "connecting" -> ContinueSSL(x, p, k)
      [] x.dtls.adapter = "connected" -> ReadSSL(x, p)
      [] OTHER -> x

(* A new OpenSSLStreamAdapter.  An adapter whose BeginSSL is going to fail *)
(* has the state that leaves from the start: nothing looks at it before    *)
(* StartSSL.                                                               *)
NewAdapters == {"none", "error"}

(* _maybe_start_dtls; StartSSL works at most once per adapter *)
MaybeStartDtls(x) ==
    IF x.dtls.adapter = "absent" \/ ~x.ice.writable THEN x
    ELSE IF x.dtls.adapter # "none" THEN SetDtlsState(x, "failed", "ok")
    ELSE LET x1 == SetDtlsState([x EXCEPT !.dtls.adapter = "connecting"], "connecting", "ok")
             x2 == CASE x.dtls.hello = "none" -> x1
                     [] x.dtls.hello = "good" ->
                           AdapterInput(x1, [kind |-> "hello", cert |-> NoFp], "ok")
                     [] OTHER -> SetDtlsState(x1, "failed", "ok")
         IN  [x2 EXCEPT !.dtls.hello = "none"]

(* _setup_dtls: a new adapter; a digest of the wrong length is refused *)
SetupDtls(x, a) ==
    LET x1 == [x EXCEPT !.dtls.adapter = a, !.dtls.seen = FALSE, !.dtls.peer = NoFp,
                        !.dtls.gen = @ + 1,
                        !.dtls.digest = IF x.dtls.fp \in Fps THEN x.dtls.fp ELSE NoFp]
    IN  IF x.dtls.fp = BadFp THEN x1 ELSE MaybeStartDtls(x1)

(* Mutant: the adapter is replaced and the state is kept *)
FreshTransport_StateKept(x) == [x EXCEPT !.dtls.adapter = "absent"]

(* Another fingerprint than before: the adapter is thrown away *)
FreshTransport(x) ==
    IF x.dtls.adapter = "absent" THEN x
    ELSE SetWritable(SetDtlsState([x EXCEPT !.dtls.adapter = "absent"], "new", "ok"), FALSE)

(* set_remote_fingerprint.  An adapter set up by an early ClientHello has  *)
(* no digest yet and is only given one.                                    *)
SetRemoteFingerprint(x, f, a) ==
    LET x1 == [x EXCEPT !.dtls.fp = f]
        x2 == IF x.dtls.adapter = "absent" \/ x.dtls.fp # NoFp THEN SetupDtls(FreshTransport(x1), a)
              ELSE [x1 EXCEPT !.dtls.digest = IF f \in Fps THEN f ELSE @]
    IN  IF x.dtls.fp = f THEN x
        ELSE IF f = BadFp THEN SetDtlsState(x2, "failed", "ok")
        ELSE x2

(* Mutant: only a connected transport looks at the writable channel *)
OnWritableState_NoStart(x) ==
    IF x.dtls.state = "connected" THEN SetWritable(x, x.ice.writable) ELSE x

(* Mutant: DTLS is started again whatever became of it *)
OnWritableState_AlwaysStart(x) ==
    CASE x.dtls.state = "connected" -> SetWritable(x, x.ice.writable)
      [] x.dtls.state = "connecting" -> x
      [] OTHER -> MaybeStartDtls(x)

OnWritableState(x) ==
    CASE x.dtls.state = "new" -> MaybeStartDtls(x)
      [] x.dtls.state = "connected" -> SetWritable(x, x.ice.writable)
      [] OTHER -> x

(* _on_receiving_state; signal_receiving_state reaches the controller *)
OnReceivingState(x) ==
    IF x.dtls.receiving = x.ice.receiving THEN x
    ELSE ControllerUpdate([x EXCEPT !.dtls.receiving = x.ice.receiving])

(* The signals of a channel that becomes d: writable, receiving and state, *)
(* each first to the agent and then to DTLS, with the state that getters   *)
(* show lagging behind until the last                                      *)
IceSignals(x, d) ==
    LET x0 == [x EXCEPT !.ice = [d EXCEPT !.state = x.ice.state, !.receiving = x.ice.receiving]]
        a1 == AgentUpdate(x0)
        x1 == IF d.writable = x.ice.writable THEN x0
              ELSE IF x.up THEN OnWritableState(a1) ELSE a1
        a2 == AgentUpdate([x1 EXCEPT !.ice.receiving = d.receiving])
        x2 == IF d.receiving = x.ice.receiving THEN x1
              ELSE IF x.up THEN OnReceivingState(a2) ELSE a2
    IN  IF d.state = x.ice.state THEN x2 ELSE AgentUpdate([x2 EXCEPT !.ice.state = d.state])

-----------------------------------------------------------------------------
(* The handlers *)

(* Binding requests, responses, pings and time-outs *)
IceChanges ==
    /\ phase \in {"open", "closing"}
    /\ \E d \in Channel :
          /\ MayBecome(m.ice, d) /\ d.remote = m.ice.remote
          /\ m' = IceSignals(m, d)
    /\ UNCHANGED <<phase, answers>>

(* set_remote_sdp with a section for the transport and the fingerprint f:  *)
(* the channel may re-sort its connections before DTLS is told             *)
SetRemoteSdp(f, a) ==
    /\ phase = "open" /\ answers < MaxAnswers
    /\ answers' = answers + 1
    /\ \E d \in Channel :
          /\ MayBecome(m.ice, d) /\ d.remote
          /\ m' = SetRemoteFingerprint(IceSignals(m, d), f, a)
    /\ UNCHANGED phase

(* The section has no fingerprint line: identity_fingerprint is null *)
SetRemoteSdpNoFingerprint ==
    /\ phase = "open" /\ answers < MaxAnswers
    /\ phase' = "undefined"
    /\ answers' = answers + 1
    /\ UNCHANGED m

Packets ==
    [kind: {"hello", "bad_hello", "alert", "close"}, cert: {NoFp}]
    \cup [kind: {"finish"}, cert: Fps]

(* _on_read_packet.  bad_hello: a ClientHello whose record length does not *)
(* fit, which is only found out by _handle_dtls_packet                     *)
OnReadPacket(p, k, a) ==
    /\ phase = "open" /\ m.ice.had
    /\ m' = CASE m.dtls.state = "new" /\ p.kind \in {"hello", "bad_hello"} ->
                   LET x == [m EXCEPT !.dtls.hello = IF p.kind = "hello" THEN "good" ELSE "bad"]
                   IN  IF x.dtls.adapter = "absent" THEN SetupDtls(x, a) ELSE x
              [] m.dtls.state \in {"connecting", "connected"} /\ p.kind # "bad_hello" ->
                   AdapterInput(m, p, k)
              [] OTHER -> m
    /\ UNCHANGED <<phase, answers>>

(* Sessions of other peer connections, on any worker thread *)
OtherSessionStarts ==
    /\ phase # "undefined" /\ m.lib.others < MaxOthers
    /\ m' = [Increment(m, "ok") EXCEPT !.lib.others = @ + 1]
    /\ UNCHANGED <<phase, answers>>

OtherSessionEnds ==
    /\ phase # "undefined" /\ m.lib.others > 0
    /\ m' = [Decrement(m) EXCEPT !.lib.others = @ - 1]
    /\ UNCHANGED <<phase, answers>>

(* The destroy timer: ~TransportController deletes the SRTP transport,     *)
(* then DTLS, then the agent with the channel, which still signals         *)
DestroyTimer ==
    /\ phase = "open"
    /\ phase' = "closing"
    /\ m' = [ResetParams(m) EXCEPT !.up = FALSE, !.dtls.adapter = "absent"]
    /\ UNCHANGED answers

AgentDeleted ==
    /\ phase = "closing"
    /\ phase' = "gone"
    /\ UNCHANGED <<m, answers>>

Next ==
    \/ IceChanges
    \/ \E f \in Fps \cup {BadFp}, a \in NewAdapters : SetRemoteSdp(f, a)
    \/ SetRemoteSdpNoFingerprint
    \/ \E p \in Packets, k \in KeyOutcomes, a \in NewAdapters : OnReadPacket(p, k, a)
    \/ OtherSessionStarts \/ OtherSessionEnds
    \/ DestroyTimer \/ AgentDeleted

Spec == Init /\ [][Next]_vars

-----------------------------------------------------------------------------
(* Type invariant *)
TypeOK ==
    /\ m \in Objects
    /\ phase \in {"open", "closing", "gone", "undefined"}
    /\ answers \in 0 .. MaxAnswers

(* Media is only protected with keys that were agreed with the holder of   *)
(* the certificate the latest answer names, in the handshake of the        *)
(* present adapter: also after a second answer with another fingerprint    *)
(* (and everything has its type)                                           *)
KeysMatchPeer ==
    /\ TypeOK
    /\ SrtpActive(m) =>
          /\ m.dtls.state = "connected"
          /\ m.srtp.key = m.dtls.gen
          /\ m.dtls.peer = m.dtls.fp

(* The handshake starts as soon as the answer is there and the channel is  *)
(* writable, whichever comes last, and then drops the cached ClientHello.  *)
(* It never runs without a digest to verify against: the SE_OPEN that      *)
(* SetPeerCertificateDigest would then post is never delivered here.       *)
StartsWhenReady ==
    phase = "open" =>
        /\ m.dtls.state = "new" => ~(m.dtls.fp \in Fps /\ m.ice.writable)
        /\ m.dtls.state \in {"connecting", "connected"} => m.dtls.hello = "none"
        /\ m.dtls.adapter \in {"connecting", "connected"} =>
              m.dtls.digest = m.dtls.fp /\ m.dtls.fp \in Fps

(* The state last signalled to the stream is the one that follows from the *)
(* states of ICE and DTLS, although ICE signals writable before its state  *)
(* and controller and agent each keep a copy of it                         *)
PcStateAccurate ==
    /\ m.agent = m.ice.state
    /\ phase = "open" => m.pc = PcState(m.dtls.state, m.ice.state)

(* A connected peer connection can carry media: SRTP has its keys, unless  *)
(* their installation failed or the peer has closed DTLS, which the        *)
(* controller counts as connected                                          *)
ConnectedHasKeys ==
    phase = "open" /\ m.pc = "connected" =>
        SrtpActive(m) \/ m.srtp.failed \/ m.dtls.state = "closed"

(* libsrtp's usage count is the number of sessions that use the library,   *)
(* so that it is not shut down under a session, through every way the      *)
(* installation of keys can fail half-way                                  *)
InUse == Cardinality({s \in {"send", "recv"} : m.srtp[s] \in {"inited", "keyed"}})

LibsrtpCounted ==
    /\ m.lib.count = m.lib.others + InUse
    /\ m.lib.count > 0 => m.lib.ready

(* A DTLS transport that failed or was closed stays so until an answer     *)
(* brings another fingerprint: no packet and no writable channel revives   *)
(* it                                                                      *)
EndedUntilNewFingerprint ==
    [][m.dtls.state \in {"failed", "closed"} /\ m'.dtls.state # m.dtls.state
         => m'.dtls.fp # m.dtls.fp]_vars
=============================================================================
