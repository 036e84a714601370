----------------------- MODULE RtcStreamManagerProofs -----------------------
(***************************************************************************)
(* Proofs about RtcStreamManager for any set of users, names and streams.  *)
(***************************************************************************)
EXTENDS RtcStreamManager, TLAPS

(* A registered stream's timer has not expired, and the timer of a          *)
(* connected stream is off (ice_timeout_cb, _on_connection_state).          *)
TimerGuards ==
  \A s \in Stream : Live(s) =>
    /\ timer[s] = "fired" => ~Registered(s)
    /\ state[s] = "connected" => timer[s] = "off"

MInv == TypeOK /\ NoDanglingEntry /\ PushRegistered /\ TimerGuards

LEMMA InitMInv == Init => MInv
  <1> SUFFICES ASSUME Init PROVE MInv
    OBVIOUS
  <1>1. TypeOK
    BY ManagerAssumption DEF Init, TypeOK, Kind, PcState
  <1>2. NoDanglingEntry /\ PushRegistered /\ TimerGuards
    BY DEF Init, NoDanglingEntry, PushRegistered, TimerGuards, Live
  <1> QED
    BY <1>1, <1>2 DEF MInv

(* What a handler deletes is registered, hence alive.                       *)
LEMMA RemovableFacts ==
  ASSUME TypeOK, NoDanglingEntry, NEW k \in Kind, NEW u, NEW n
  PROVE  /\ Removable(k, u, n) \subseteq Stream
         /\ \A s \in Removable(k, u, n) : uid[s] = u
         /\ n \in Name => \A s \in Removable(k, u, n) :
              s = entry[<<k, n>>] /\ Live(s) /\ kind[s] = k /\ name[s] = n
  <1>1. n \in Name => <<k, n>> \in Key
    BY DEF Key
  <1>2. \A s \in Removable(k, u, n) : s \in Stream /\ s = entry[<<k, n>>] /\ uid[s] = u
    BY DEF Removable
  <1> QED
    BY <1>1, <1>2, ManagerAssumption DEF NoDanglingEntry, Live

(* A step that deletes the registered streams of D and creates none.        *)
LEMMA RemoveKeepsMaps ==
  ASSUME TypeOK, NoDanglingEntry, PushRegistered, NEW D \in SUBSET Stream,
         entry' = Unregister(D), life' = Deleted(D),
         kind' = kind, name' = name
  PROVE  NoDanglingEntry' /\ PushRegistered'
  <1>1. \A x \in Key : entry'[x] = IF entry[x] \in D THEN None ELSE entry[x]
    BY DEF Unregister
  <1>2. \A s \in Stream : life'[s] = IF s \in D THEN "dying" ELSE life[s]
    BY DEF Deleted
  <1>3. NoDanglingEntry'
    BY <1>1, <1>2, ManagerAssumption DEF NoDanglingEntry, Live, TypeOK
  <1>4. PushRegistered'
    <2> SUFFICES ASSUME NEW s \in Stream, life'[s] = "live", kind[s] = "push"
                 PROVE entry'[<<kind[s], name[s]>>] = s
      BY DEF PushRegistered, Live, Registered
    <2>1. s \notin D /\ life[s] = "live"
      BY <1>2
    <2>2. entry[<<kind[s], name[s]>>] = s
      BY <2>1 DEF PushRegistered, Live, Registered
    <2>3. <<kind[s], name[s]>> \in Key
      BY <2>1 DEF TypeOK, Key
    <2> QED
      BY <1>1, <2>1, <2>2, <2>3
  <1> QED
    BY <1>3, <1>4

(* Such a step keeps the timers of the streams it leaves alone, or fires or *)
(* disarms some; F and O are the streams whose timer fires or is deleted.   *)
LEMMA RemoveKeepsTimers ==
  ASSUME TypeOK, TimerGuards, NEW D \in SUBSET Stream,
         entry' = Unregister(D), life' = Deleted(D),
         kind' = kind, name' = name,
         timer' \in [Stream -> {"armed", "fired", "off"}],
         \A s \in Stream \ D : Live(s) =>
           /\ timer'[s] = "fired" => timer[s] = "fired" \/ ~Registered(s)
           /\ state'[s] = "connected" => timer'[s] = "off"
  PROVE  TimerGuards'
  <1> SUFFICES ASSUME NEW s \in Stream, life'[s] = "live"
               PROVE  /\ timer'[s] = "fired" => ~Registered(s)'
                      /\ state'[s] = "connected" => timer'[s] = "off"
    BY DEF TimerGuards, Live
  <1>1. s \notin D /\ life[s] = "live"
    BY DEF Deleted
  <1>2. <<kind[s], name[s]>> \in Key
    BY <1>1 DEF TypeOK, Key
  <1>3. Registered(s)' => Registered(s)
    <2>1. None \notin Stream
      BY ManagerAssumption
    <2>2. entry'[<<kind[s], name[s]>>] = s => entry[<<kind[s], name[s]>>] = s
      BY <1>2, <2>1 DEF Unregister
    <2> QED
      BY <2>2 DEF Registered
  <1>4. timer[s] = "fired" => ~Registered(s)
    BY <1>1 DEF TimerGuards, Live
  <1> QED
    BY <1>1, <1>3, <1>4 DEF Live

(* Creating a stream s after deleting the registered streams of D keeps the *)
(* invariant, provided a new push stream replaces the registered one.       *)
LEMMA NewStreamMInv ==
  ASSUME MInv, NEW s \in Stream, NEW k \in Kind, NEW u \in Uid, NEW n \in Name,
         NEW src \in Stream \cup {None}, NEW D \in SUBSET Stream,
         \A d \in D : d = entry[<<k, n>>],
         k = "push" /\ entry[<<k, n>>] # None => entry[<<k, n>>] \in D,
         NewStream(s, k, u, n, src, D), sent' = None, actor' = u
  PROVE  MInv'
  <1> USE ManagerAssumption DEF MInv
  <1>1. <<k, n>> \in Key
    BY DEF Key
  <1>2. life[s] = "free" /\ s \notin D /\ (\A x \in Key : entry[x] # s)
    BY <1>1 DEF NewStream, NoDanglingEntry, Live, TypeOK
  <1>3. /\ \A x \in Key : x # <<k, n>> =>
             entry'[x] = IF entry[x] \in D THEN None ELSE entry[x]
        /\ entry'[<<k, n>>] = s
        /\ entry' \in [Key -> Stream \cup {None}]
    BY <1>1 DEF NewStream, Unregister, TypeOK
  <1>4. /\ life'[s] = "live"
        /\ \A t \in Stream \ {s} : life'[t] = IF t \in D THEN "dying" ELSE life[t]
        /\ life' \in [Stream -> {"free", "live", "dying"}]
    BY <1>2 DEF NewStream, Deleted, TypeOK
  <1>5. /\ timer'[s] = "armed" /\ state'[s] = "new"
        /\ \A t \in Stream \ {s} : state'[t] = state[t]
        /\ \A t \in Stream \ {s} : timer'[t] = IF t \in D THEN "off" ELSE timer[t]
        /\ timer' \in [Stream -> {"armed", "fired", "off"}]
        /\ state' \in [Stream -> PcState]
    <2>1. /\ timer' = [TimersOff(D) EXCEPT ![s] = "armed"]
          /\ state' = [state EXCEPT ![s] = "new"]
      BY DEF NewStream
    <2>2. /\ timer'[s] = "armed"
          /\ \A t \in Stream \ {s} : timer'[t] = IF t \in D THEN "off" ELSE timer[t]
          /\ timer' \in [Stream -> {"armed", "fired", "off"}]
      BY <2>1 DEF TimersOff, TypeOK
    <2>3. /\ state'[s] = "new"
          /\ \A t \in Stream \ {s} : state'[t] = state[t]
          /\ state' \in [Stream -> PcState]
      BY <2>1 DEF TypeOK, PcState
    <2> QED
      BY <2>2, <2>3
  <1>6. /\ kind'[s] = k /\ name'[s] = n /\ uid'[s] = u
        /\ \A t \in Stream \ {s} : kind'[t] = kind[t] /\ name'[t] = name[t] /\ uid'[t] = uid[t]
    BY DEF NewStream, TypeOK
  <1>7. TypeOK'
    <2>1. /\ kind' \in [Stream -> Kind] /\ uid' \in [Stream -> Uid \cup {None}]
          /\ name' \in [Stream -> Name \cup {None}]
          /\ remote' \in [Stream -> BOOLEAN]
          /\ source' \in [Stream -> Stream \cup {None}]
      BY DEF NewStream, TypeOK
    <2>2. \A t \in Stream : life'[t] # "free" => uid'[t] \in Uid /\ name'[t] \in Name
      <3> SUFFICES ASSUME NEW t \in Stream \ {s}, life'[t] # "free"
                   PROVE uid[t] \in Uid /\ name[t] \in Name
        BY <1>6
      <3>1. CASE t \in D
        <4>1. t = entry[<<k, n>>] /\ t # None
          BY <3>1
        <4>2. life[t] = "live"
          BY <4>1, <1>1 DEF NoDanglingEntry, Live
        <4> QED
          BY <4>2 DEF TypeOK
      <3>2. CASE t \notin D
        BY <3>2, <1>4 DEF TypeOK
      <3> QED
        BY <3>1, <3>2
    <2> QED
      BY <1>3, <1>4, <1>5, <2>1, <2>2 DEF TypeOK
  <1>8. NoDanglingEntry'
    <2> SUFFICES ASSUME NEW x \in Key, entry'[x] # None
                 PROVE  /\ life'[entry'[x]] = "live"
                        /\ <<kind'[entry'[x]], name'[entry'[x]]>> = x
      BY DEF NoDanglingEntry, Live
    <2>1. CASE x = <<k, n>>
      BY <2>1, <1>3, <1>4, <1>6
    <2>2. CASE x # <<k, n>>
      <3>1. entry'[x] = entry[x] /\ entry[x] \notin D /\ entry[x] \in Stream \ {s}
        BY <2>2, <1>2, <1>3 DEF TypeOK
      <3>2. life[entry[x]] = "live" /\ <<kind[entry[x]], name[entry[x]]>> = x
        BY <3>1 DEF NoDanglingEntry, Live
      <3> QED
        BY <3>1, <3>2, <1>4, <1>6
    <2> QED
      BY <2>1, <2>2
  <1>9. \A t \in Stream \ {s} : life'[t] = "live" =>
           /\ t \notin D /\ life[t] = "live" /\ <<kind[t], name[t]>> \in Key
    BY <1>4 DEF TypeOK, Key
  <1>10. PushRegistered'
    <2> SUFFICES ASSUME NEW t \in Stream, life'[t] = "live", kind'[t] = "push"
                 PROVE entry'[<<kind'[t], name'[t]>>] = t
      BY DEF PushRegistered, Live, Registered
    <2>1. CASE t = s
      BY <2>1, <1>3, <1>6
    <2>2. CASE t # s
      <3>1. kind[t] = "push" /\ entry[<<kind[t], name[t]>>] = t
        BY <2>2, <1>6, <1>9 DEF PushRegistered, Live, Registered
      <3>2. <<kind[t], name[t]>> # <<k, n>>
        BY <3>1, <2>2, <1>9
      <3> QED
        BY <3>1, <3>2, <2>2, <1>3, <1>6, <1>9
    <2> QED
      BY <2>1, <2>2
  <1>11. TimerGuards'
    <2> SUFFICES ASSUME NEW t \in Stream, life'[t] = "live"
                 PROVE  /\ timer'[t] = "fired" => entry'[<<kind'[t], name'[t]>>] # t
                        /\ state'[t] = "connected" => timer'[t] = "off"
      BY DEF TimerGuards, Live, Registered
    <2>1. CASE t = s
      BY <2>1, <1>5
    <2>2. CASE t # s
      <3>1. /\ timer[t] = "fired" => entry[<<kind[t], name[t]>>] # t
            /\ state[t] = "connected" => timer[t] = "off"
        BY <2>2, <1>9 DEF TimerGuards, Live, Registered
      <3>2. entry[<<kind[t], name[t]>>] # t => entry'[<<kind[t], name[t]>>] # t
        BY <2>2, <1>3, <1>9
      <3>3. /\ timer'[t] = timer[t] /\ state'[t] = state[t]
            /\ kind'[t] = kind[t] /\ name'[t] = name[t]
        BY <2>2, <1>5, <1>6, <1>9
      <3> QED
        BY <3>1, <3>2, <3>3, Zenon
    <2> QED
      BY <2>1, <2>2
  <1> QED
    BY <1>7, <1>8, <1>10, <1>11

LEMMA CreateMInv ==
  ASSUME MInv, NEW u \in Uid, NEW n \in Name, CreatePush(u, n) \/ CreatePull(u, n)
  PROVE  MInv'
  <1> USE ManagerAssumption
  <1>1. CASE CreatePush(u, n)
    <2> DEFINE D == {entry[<<"push", n>>]} \ {None}
    <2>1. PICK s \in Stream : NewStream(s, "push", u, n, None, D)
      BY <1>1 DEF CreatePush
    <2>2. D \in SUBSET Stream /\ "push" \in Kind
      BY DEF MInv, TypeOK, Key, Kind
    <2>3. sent' = None /\ actor' = u
      BY <1>1 DEF CreatePush
    <2> HIDE DEF MInv
    <2> QED
      BY <2>1, <2>2, <2>3, NewStreamMInv
  <1>2. CASE CreatePull(u, n)
    <2> DEFINE p == entry[<<"push", n>>]
               D == Removable("pull", u, n)
               src == IF remote[p] THEN p ELSE None
    <2>1. sent' = None /\ actor' = u
      BY <1>2 DEF CreatePull
    <2>2. CASE p = None
      BY <1>2, <2>1, <2>2 DEF CreatePull, MInv, TypeOK, NoDanglingEntry,
         PushRegistered, TimerGuards, Live, Registered, streamVars
    <2>3. CASE p # None
      <3>1. PICK s \in Stream : NewStream(s, "pull", u, n, src, D)
        BY <1>2, <2>3 DEF CreatePull
      <3>2. src \in Stream \cup {None} /\ "pull" \in Kind
        BY DEF MInv, TypeOK, Key, Kind
      <3>3. D \in SUBSET Stream /\ \A d \in D : d = entry[<<"pull", n>>]
        BY DEF Removable
      <3> HIDE DEF D, src
      <3> QED
        BY <2>1, <3>1, <3>2, <3>3, NewStreamMInv
    <2> QED
      BY <2>2, <2>3
  <1> QED
    BY <1>1, <1>2

(* The handlers that delete by user and name (stop, failure, ICE timeout):  *)
(* D is what they delete.                                                   *)
LEMMA RemoveMInv ==
  ASSUME MInv, NEW D \in SUBSET Stream, \A s \in D : Live(s),
         entry' = Unregister(D), life' = Deleted(D),
         kind' = kind, uid' = uid, name' = name,
         remote' = remote, source' = source,
         state' \in [Stream -> PcState],
         timer' \in [Stream -> {"armed", "fired", "off"}],
         \A s \in Stream \ D : Live(s) =>
           /\ timer'[s] = "fired" => timer[s] = "fired" \/ ~Registered(s)
           /\ state'[s] = "connected" => timer'[s] = "off",
         sent' = None, actor' \in Uid \cup {None}
  PROVE  MInv'
  <1>1. /\ life' \in [Stream -> {"free", "live", "dying"}]
        /\ \A s \in Stream : life'[s] # "free" => life[s] # "free"
    BY DEF Deleted, MInv, TypeOK, Live
  <1>2. entry' \in [Key -> Stream \cup {None}]
    BY DEF Unregister, MInv, TypeOK
  <1>3. TypeOK'
    BY <1>1, <1>2 DEF MInv, TypeOK
  <1>4. NoDanglingEntry' /\ PushRegistered'
    BY RemoveKeepsMaps DEF MInv
  <1>5. TimerGuards'
    BY RemoveKeepsTimers DEF MInv
  <1> QED
    BY <1>3, <1>4, <1>5 DEF MInv

LEMMA StopMInv ==
  ASSUME MInv, NEW k \in Kind, NEW u \in Uid, NEW n \in Name, Stop(k, u, n)
  PROVE  MInv'
  <1> DEFINE D == Removable(k, u, n)
  <1>1. D \in SUBSET Stream /\ (\A s \in D : Live(s))
    BY RemovableFacts DEF MInv
  <1>2. /\ entry' = Unregister(D) /\ life' = Deleted(D) /\ timer' = TimersOff(D)
        /\ sent' = None /\ actor' = u
        /\ UNCHANGED <<kind, uid, name, state, remote, source>>
    BY DEF Stop
  <1> HIDE DEF D
  <1>3. /\ timer' \in [Stream -> {"armed", "fired", "off"}]
        /\ \A s \in Stream \ D : timer'[s] = timer[s]
    BY <1>2 DEF TimersOff, MInv, TypeOK
  <1>4. \A s \in Stream \ D : Live(s) =>
           /\ timer'[s] = "fired" => timer[s] = "fired" \/ ~Registered(s)
           /\ state'[s] = "connected" => timer'[s] = "off"
    BY <1>2, <1>3 DEF MInv, TimerGuards
  <1>5. state' \in [Stream -> PcState]
    BY <1>2 DEF MInv, TypeOK
  <1> QED
    BY <1>1, <1>2, <1>3, <1>4, <1>5, RemoveMInv

LEMMA OnConnectionStateMInv ==
  ASSUME MInv, NEW s \in Stream, NEW st \in PcState, OnConnectionState(s, st)
  PROVE  MInv'
  <1> DEFINE D == IF st = "failed" THEN Removable(kind[s], uid[s], name[s]) ELSE {}
  <1>1. Live(s) /\ kind[s] \in Kind /\ uid[s] \in Uid /\ name[s] \in Name
    BY DEF OnConnectionState, Live, MInv, TypeOK
  <1>2. D \in SUBSET Stream /\ (\A t \in D : Live(t))
    BY <1>1, RemovableFacts DEF MInv
  <1>3. /\ entry' = Unregister(D) /\ life' = Deleted(D)
        /\ timer' = IF st = "connected" THEN [timer EXCEPT ![s] = "off"]
                                        ELSE TimersOff(D)
        /\ state' = [state EXCEPT ![s] = st]
        /\ sent' = None /\ actor' = uid[s]
        /\ UNCHANGED <<kind, uid, name, remote, source>>
    BY DEF OnConnectionState
  <1>4. st = "connected" => D = {}
    OBVIOUS
  <1> HIDE DEF D
  <1>5. /\ timer' \in [Stream -> {"armed", "fired", "off"}]
        /\ \A t \in Stream \ D : t # s => timer'[t] = timer[t]
        /\ s \notin D => timer'[s] = IF st = "connected" THEN "off" ELSE timer[s]
    <2>1. CASE st = "connected"
      BY <2>1, <1>3 DEF MInv, TypeOK
    <2>2. CASE st # "connected"
      BY <2>2, <1>3 DEF TimersOff, MInv, TypeOK
    <2> QED
      BY <2>1, <2>2
  <1>6. state' \in [Stream -> PcState] /\ state'[s] = st
        /\ \A t \in Stream : t # s => state'[t] = state[t]
    BY <1>3 DEF MInv, TypeOK
  <1>7. \A t \in Stream \ D : Live(t) =>
           /\ timer'[t] = "fired" => timer[t] = "fired" \/ ~Registered(t)
           /\ state'[t] = "connected" => timer'[t] = "off"
    BY <1>5, <1>6 DEF MInv, TimerGuards
  <1> QED
    BY <1>1, <1>2, <1>3, <1>5, <1>6, <1>7, RemoveMInv

LEMMA IceTimeoutMInv ==
  ASSUME MInv, NEW s \in Stream, IceTimeout(s)
  PROVE  MInv'
  <1> DEFINE D == IF state[s] # "connected" THEN Removable(kind[s], uid[s], name[s])
                                            ELSE {}
  <1>1. /\ Live(s) /\ kind[s] \in Kind /\ uid[s] \in Uid /\ name[s] \in Name
        /\ timer[s] = "armed"
    BY DEF IceTimeout, Live, MInv, TypeOK
  <1>2. D \in SUBSET Stream /\ (\A t \in D : Live(t))
    BY <1>1, RemovableFacts DEF MInv
  <1>3. /\ entry' = Unregister(D) /\ life' = Deleted(D)
        /\ timer' = [TimersOff(D) EXCEPT ![s] = IF s \in D THEN "off" ELSE "fired"]
        /\ sent' = None /\ actor' = uid[s]
        /\ UNCHANGED <<kind, uid, name, state, remote, source>>
    BY DEF IceTimeout
  <1>4. state[s] # "connected"
    BY <1>1 DEF MInv, TimerGuards
  <1>5. s \notin D => ~Registered(s)
    BY <1>4 DEF Removable, Registered
  <1> HIDE DEF D
  <1>6. /\ timer' \in [Stream -> {"armed", "fired", "off"}]
        /\ \A t \in Stream \ D : t # s => timer'[t] = timer[t]
    BY <1>3 DEF TimersOff, MInv, TypeOK
  <1>7. \A t \in Stream \ D : Live(t) =>
           /\ timer'[t] = "fired" => timer[t] = "fired" \/ ~Registered(t)
           /\ state'[t] = "connected" => timer'[t] = "off"
    BY <1>3, <1>4, <1>5, <1>6 DEF MInv, TimerGuards
  <1>8. state' \in [Stream -> PcState]
    BY <1>3 DEF MInv, TypeOK
  <1> QED
    BY <1>1, <1>2, <1>3, <1>6, <1>7, <1>8, RemoveMInv

(* The steps that delete no stream: an answer, a packet, and the end of a   *)
(* PeerConnection whose stream was deleted before.                          *)
LEMMA QuietMInv ==
  ASSUME MInv,
         \/ \E k \in Kind, u \in Uid, n \in Name : SetAnswer(k, u, n)
         \/ \E s \in Stream, packet \in {"rtp", "rtcp"} : OnPacket(s, packet)
  PROVE  MInv'
  <1>1. UNCHANGED <<entry, life, kind, uid, name, state, timer, source>>
        /\ actor' \in Uid \cup {None}
    BY DEF SetAnswer, OnPacket, streamVars, MInv, TypeOK
  <1>2. remote' \in [Stream -> BOOLEAN]
    <2>1. CASE \E k \in Kind, u \in Uid, n \in Name : SetAnswer(k, u, n)
      <3>1. PICK k \in Kind, u \in Uid, n \in Name : SetAnswer(k, u, n)
        BY <2>1
      <3>2. \A s \in Stream : remote[s] \in BOOLEAN
        BY DEF MInv, TypeOK
      <3>3. remote' = [s \in Stream |-> IF s \in Removable(k, u, n) THEN TRUE ELSE remote[s]]
        BY <3>1 DEF SetAnswer
      <3> QED
        BY <3>2, <3>3, Zenon
    <2>2. CASE \E s \in Stream, packet \in {"rtp", "rtcp"} : OnPacket(s, packet)
      BY <2>2 DEF OnPacket, streamVars, MInv, TypeOK
    <2> QED
      BY <2>1, <2>2
  <1>3. sent' = None \/ sent' \in [packet : {"rtp", "rtcp"}, from : Stream, to : Stream]
    <2>1. CASE \E k \in Kind, u \in Uid, n \in Name : SetAnswer(k, u, n)
      BY <2>1 DEF SetAnswer
    <2>2. CASE \E s \in Stream, packet \in {"rtp", "rtcp"} : OnPacket(s, packet)
      <3>1. PICK s \in Stream, packet \in {"rtp", "rtcp"} : OnPacket(s, packet)
        BY <2>2
      <3>2. name[s] \in Name /\ Target(s, packet) \in Stream \cup {None}
        BY <3>1, ManagerAssumption DEF OnPacket, MInv, TypeOK, Target, Key, Kind
      <3> QED
        BY <3>1, <3>2 DEF OnPacket
    <2> QED
      BY <2>1, <2>2
  <1>4. TypeOK'
    BY <1>1, <1>2, <1>3 DEF MInv, TypeOK
  <1>5. NoDanglingEntry' /\ PushRegistered' /\ TimerGuards'
    BY <1>1 DEF MInv, NoDanglingEntry, PushRegistered, TimerGuards, Live, Registered
  <1> QED
    BY <1>4, <1>5 DEF MInv

LEMMA DestroyPcMInv ==
  ASSUME MInv, NEW s \in Stream, DestroyPc(s)
  PROVE  MInv'
  <1> USE ManagerAssumption
  <1>1. /\ life[s] = "dying" /\ life'[s] = "free"
        /\ life' \in [Stream -> {"free", "live", "dying"}]
        /\ \A t \in Stream : t # s => life'[t] = life[t]
        /\ entry' = entry /\ timer' = timer /\ sent' = None /\ actor' = None
    BY DEF DestroyPc, MInv, TypeOK
  <1>2. /\ kind' \in [Stream -> Kind] /\ uid' \in [Stream -> Uid \cup {None}]
        /\ name' \in [Stream -> Name \cup {None}] /\ state' \in [Stream -> PcState]
        /\ remote' \in [Stream -> BOOLEAN]
        /\ source' \in [Stream -> Stream \cup {None}]
    BY DEF DestroyPc, MInv, TypeOK, Kind, PcState
  <1>3. \A t \in Stream : t # s =>
          /\ kind'[t] = kind[t] /\ uid'[t] = uid[t] /\ name'[t] = name[t]
          /\ state'[t] = state[t]
    BY DEF DestroyPc, MInv, TypeOK
  <1>4. TypeOK'
    BY <1>1, <1>2, <1>3 DEF MInv, TypeOK
  <1>5. \A x \in Key : entry[x] # s /\ entry[x] \in Stream \cup {None}
    BY <1>1 DEF MInv, TypeOK, NoDanglingEntry, Live
  <1>6. NoDanglingEntry'
    BY <1>1, <1>3, <1>5 DEF MInv, NoDanglingEntry, Live
  <1>7. PushRegistered'
    BY <1>1, <1>3 DEF MInv, PushRegistered, Live, Registered
  <1>8. TimerGuards'
    <2> SUFFICES ASSUME NEW t \in Stream, life'[t] = "live"
                 PROVE  /\ timer[t] = "fired" => entry[<<kind'[t], name'[t]>>] # t
                        /\ state'[t] = "connected" => timer[t] = "off"
      BY <1>1 DEF TimerGuards, Live, Registered
    <2>1. t # s /\ life[t] = "live"
      BY <1>1
    <2>2. kind'[t] = kind[t] /\ name'[t] = name[t] /\ state'[t] = state[t]
      BY <2>1, <1>3
    <2>3. /\ timer[t] = "fired" => entry[<<kind[t], name[t]>>] # t
          /\ state[t] = "connected" => timer[t] = "off"
      BY <2>1 DEF MInv, TimerGuards, Live, Registered
    <2> QED
      BY <2>2, <2>3, Zenon
  <1> QED
    BY <1>4, <1>6, <1>7, <1>8 DEF MInv

LEMMA NextMInv == MInv /\ [Next]_vars => MInv'
  <1> SUFFICES ASSUME MInv, [Next]_vars PROVE MInv'
    OBVIOUS
  <1>1. CASE Request
    BY <1>1, CreateMInv, StopMInv, QuietMInv DEF Request
  <1>2. CASE Signal
    BY <1>2, OnConnectionStateMInv, QuietMInv DEF Signal
  <1>3. CASE Timer
    BY <1>3, IceTimeoutMInv, DestroyPcMInv DEF Timer
  <1>4. CASE UNCHANGED vars
    BY <1>4 DEF vars, MInv, TypeOK, NoDanglingEntry, PushRegistered, TimerGuards,
       Live, Registered
  <1> QED
    BY <1>1, <1>2, <1>3, <1>4 DEF Next

(* The variables keep their types, and a stream that exists belongs to a    *)
(* user and a name.                                                         *)
THEOREM ManagerTypeCorrect == Spec => []TypeOK
  <1>1. MInv => TypeOK
    BY DEF MInv
  <1> QED
    BY InitMInv, NextMInv, <1>1, PTL DEF Spec

(* No entry of the maps dangles or is filed under the wrong name or kind.   *)
THEOREM EntriesLive == Spec => []NoDanglingEntry
  <1>1. MInv => NoDanglingEntry
    BY DEF MInv
  <1> QED
    BY InitMInv, NextMInv, <1>1, PTL DEF Spec

(* No live push stream is ever lost from the map.                           *)
THEOREM NoPushOrphan == Spec => []PushRegistered
  <1>1. MInv => PushRegistered
    BY DEF MInv
  <1> QED
    BY InitMInv, NextMInv, <1>1, PTL DEF Spec

(* A failure or an expired timer removes the stream it belongs to if that   *)
(* is in the map, and another stream only when its own was pushed out of    *)
(* the map of pull streams, never a push stream nor another user's          *)
(* (_remove_push_stream, _remove_pull_stream).                              *)
THEOREM RemovalScoped == Spec => RemovalScope
  <1> DEFINE Scope == \A t \in Stream : Ends(t) =>
       /\ Registered(t) => life'[t] # "live"
       /\ \A s \in Stream \ {t} : Live(s) /\ life'[s] # "live" =>
            /\ kind[t] = "pull" /\ ~Registered(t)
            /\ kind[s] = "pull" /\ uid[s] = uid[t] /\ name[s] = name[t]
  <1>1. MInv => Scope
    <2> SUFFICES ASSUME MInv, NEW t \in Stream, Ends(t)
                 PROVE  /\ Registered(t) => life'[t] # "live"
                        /\ \A s \in Stream \ {t} : Live(s) /\ life'[s] # "live" =>
                             /\ kind[t] = "pull" /\ ~Registered(t)
                             /\ kind[s] = "pull" /\ uid[s] = uid[t] /\ name[s] = name[t]
      OBVIOUS
    <2> DEFINE D == Removable(kind[t], uid[t], name[t])
    <2>1. Live(t) /\ life' = Deleted(D)
      <3>1. CASE IceTimeout(t)
        <4>1. state[t] # "connected"
          BY <3>1 DEF IceTimeout, MInv, TimerGuards, Live
        <4> QED
          BY <3>1, <4>1 DEF IceTimeout, Live
      <3>2. CASE OnConnectionState(t, "failed")
        BY <3>2 DEF OnConnectionState, Live
      <3> QED
        BY <3>1, <3>2 DEF Ends
    <2>2. \A s \in Stream : Live(s) /\ life'[s] # "live" => s \in D
      BY <2>1 DEF Deleted, Live
    <2>3. \A s \in D : life'[s] # "live"
      BY <2>1 DEF Deleted, Removable
    <2>4. Registered(t) => t \in D
      BY DEF Registered, Removable
    <2>5. ASSUME NEW s \in Stream \ {t}, s \in D
          PROVE  /\ kind[t] = "pull" /\ ~Registered(t)
                 /\ kind[s] = "pull" /\ uid[s] = uid[t] /\ name[s] = name[t]
      <3>1. s = entry[<<kind[t], name[t]>>] /\ uid[s] = uid[t]
        BY <2>5 DEF Removable
      <3>2. ~Registered(t)
        BY <3>1, <2>5 DEF Registered
      <3>3. kind[t] = "pull"
        BY <3>2, <2>1 DEF MInv, PushRegistered, TypeOK, Kind
      <3>4. name[t] \in Name /\ <<kind[t], name[t]>> \in Key
        BY <2>1 DEF MInv, TypeOK, Live, Key
      <3>5. <<kind[s], name[s]>> = <<kind[t], name[t]>>
        BY <3>1, <3>4, ManagerAssumption DEF MInv, NoDanglingEntry
      <3> QED
        BY <3>1, <3>2, <3>3, <3>5
    <2> QED
      BY <2>2, <2>3, <2>4, <2>5
  <1>2. MInv /\ [Next]_vars => [Scope]_vars
    BY <1>1
  <1> QED
    BY InitMInv, NextMInv, <1>2, PTL DEF Spec, RemovalScope

(* What is forwarded stays between the two streams of a name: the entry a    *)
(* packet is passed on to is neither dangling nor filed under the wrong      *)
(* name or kind (on_rtp_packet_received, on_rtcp_packet_received).           *)
THEOREM ForwardingSound == Spec => []ForwardedToPeer
  <1>1. Init => ForwardedToPeer
    BY DEF Init, ForwardedToPeer
  <1>2. MInv /\ ForwardedToPeer /\ [Next]_vars => ForwardedToPeer'
    <2> SUFFICES ASSUME MInv, ForwardedToPeer, [Next]_vars PROVE ForwardedToPeer'
      OBVIOUS
    <2>1. CASE UNCHANGED vars
      BY <2>1 DEF vars, ForwardedToPeer, Live
    <2>2. CASE sent' = None
      BY <2>2 DEF ForwardedToPeer
    <2>3. ASSUME NEW s \in Stream, NEW packet \in {"rtp", "rtcp"}, OnPacket(s, packet),
                 sent' # None
          PROVE  ForwardedToPeer'
      <3> DEFINE to == Target(s, packet)
      <3>1. /\ Live(s) /\ kind[s] \in Kind /\ name[s] \in Name
            /\ to # None /\ sent' = [packet |-> packet, from |-> s, to |-> to]
            /\ life' = life /\ kind' = kind /\ name' = name
        BY <2>3 DEF OnPacket, Live, MInv, TypeOK, streamVars
      <3>2. <<"push", name[s]>> \in Key /\ <<"pull", name[s]>> \in Key
        BY <3>1 DEF Key, Kind
      <3>3. \/ kind[s] = "push" /\ to = entry[<<"pull", name[s]>>]
            \/ kind[s] = "pull" /\ packet = "rtcp" /\ to = entry[<<"push", name[s]>>]
        BY <3>1 DEF Target, Kind
      <3>4. Live(to) /\ name[to] = name[s] /\ kind[to] # kind[s]
        BY <3>1, <3>2, <3>3 DEF MInv, NoDanglingEntry
      <3> HIDE DEF to
      <3>5. sent'.packet = packet /\ sent'.from = s /\ sent'.to = to
        BY <3>1
      <3>6. packet = "rtp" => kind[s] = "push"
        BY <3>3
      <3> QED
        BY <3>1, <3>4, <3>5, <3>6 DEF ForwardedToPeer, Live
    <2>4. Next => sent' = None \/ \E s \in Stream, packet \in {"rtp", "rtcp"} :
                                     OnPacket(s, packet)
      BY DEF Next, Request, Signal, Timer, CreatePush, CreatePull, SetAnswer, Stop,
         OnConnectionState, IceTimeout, DestroyPc
    <2> QED
      BY <2>1, <2>2, <2>3, <2>4
  <1> QED
    BY InitMInv, NextMInv, <1>1, <1>2, PTL DEF Spec

(* Only the owner's events, or a push under the same name, delete a stream. *)
THEOREM DeletionByOwner == Spec => OwnerDeletes
  <1> DEFINE Allowed == \A s \in Stream :
       Live(s) /\ life'[s] # "live" =>
         \/ uid[s] = actor'
         \/ kind[s] = "push" /\ entry'[<<"push", name[s]>>] \notin {s, None}
  <1>1. MInv /\ [Next]_vars => [Allowed]_vars
    <2> SUFFICES ASSUME MInv, Next, NEW s \in Stream, Live(s), life'[s] # "live"
                 PROVE  \/ uid[s] = actor'
                        \/ kind[s] = "push" /\ entry'[<<"push", name[s]>>] \notin {s, None}
      OBVIOUS
    <2> USE ManagerAssumption
    <2>1. \A D \in SUBSET Stream : life' = Deleted(D) => s \in D
      BY DEF Deleted, Live
    <2>2. ASSUME NEW u \in Uid, NEW n \in Name, CreatePush(u, n)
          PROVE  kind[s] = "push" /\ entry'[<<"push", name[s]>>] \notin {s, None}
      <3> DEFINE D == {entry[<<"push", n>>]} \ {None}
      <3>1. PICK t \in Stream : NewStream(t, "push", u, n, None, D)
        BY <2>2 DEF CreatePush
      <3>2. t # s /\ life'[s] = IF s \in D THEN "dying" ELSE life[s]
        BY <3>1 DEF NewStream, Deleted, Live
      <3>3. s = entry[<<"push", n>>] /\ <<"push", n>> \in Key
        BY <3>2 DEF Live, Key, Kind
      <3>4. kind[s] = "push" /\ name[s] = n
        BY <3>3 DEF MInv, NoDanglingEntry
      <3>5. entry'[<<"push", n>>] = t
        BY <3>1, <3>3 DEF NewStream, Unregister
      <3> QED
        BY <3>2, <3>4, <3>5
    <2>3. ASSUME NEW u \in Uid, NEW n \in Name, CreatePull(u, n)
          PROVE  uid[s] = actor'
      <3> DEFINE D == Removable("pull", u, n)
                 p == entry[<<"push", n>>]
                 src == IF remote[p] THEN p ELSE None
      <3>1. actor' = u
        BY <2>3 DEF CreatePull
      <3>2. CASE entry[<<"push", n>>] = None
        BY <2>3, <3>2 DEF CreatePull, streamVars, Live
      <3>3. CASE entry[<<"push", n>>] # None
        <4>1. PICK t \in Stream : NewStream(t, "pull", u, n, src, D)
          BY <2>3, <3>3 DEF CreatePull
        <4>2. t # s /\ life'[s] = IF s \in D THEN "dying" ELSE life[s]
          BY <4>1 DEF NewStream, Deleted, Live
        <4> QED
          BY <3>1, <4>2 DEF Removable, Live
      <3> QED
        BY <3>2, <3>3
    <2>4. ASSUME NEW k \in Kind, NEW u \in Uid, NEW n \in Name,
                 Stop(k, u, n) \/ SetAnswer(k, u, n)
          PROVE  uid[s] = actor'
      BY <2>1, <2>4 DEF Stop, SetAnswer, Removable, Live
    <2>5. ASSUME NEW t \in Stream, NEW st \in PcState, OnConnectionState(t, st)
          PROVE  uid[s] = actor'
      BY <2>1, <2>5 DEF OnConnectionState, Removable
    <2>6. ASSUME NEW t \in Stream, IceTimeout(t)
          PROVE  uid[s] = actor'
      BY <2>1, <2>6 DEF IceTimeout, Removable
    <2>7. ASSUME NEW t \in Stream, DestroyPc(t) \/ \E p \in {"rtp", "rtcp"} : OnPacket(t, p)
          PROVE  FALSE
      BY <2>7 DEF DestroyPc, OnPacket, streamVars, Live, MInv, TypeOK
    <2> QED
      BY <2>2, <2>3, <2>4, <2>5, <2>6, <2>7 DEF Next, Request, Signal, Timer
  <1> QED
    BY InitMInv, NextMInv, <1>1, PTL DEF Spec, OwnerDeletes
=============================================================================
