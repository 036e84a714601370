------------------------- MODULE MediaTransportProofs -------------------------
(***************************************************************************)
(* Proofs about MediaTransport for every set of fingerprints and every     *)
(* bound. A handler is a chain of methods of several objects, each a       *)
(* function of the record m, so the proof goes method by method: what each *)
(* leaves of the objects it is given, and whether the parts of the         *)
(* invariant survive in between. The parts are Sessions (SRTP and          *)
(* libsrtp's usage count), Reported (what the agent and the controller     *)
(* last announced), Handshake (the state of DTLS, the adapter, the         *)
(* fingerprint and the keys agree) and Started (a handshake that can start *)
(* has). Sessions and Reported hold inside the handlers too, after every   *)
(* method of DTLS; Handshake and Started hold between handlers and are     *)
(* carried through the signals of the channel one at a time.               *)
(***************************************************************************)
EXTENDS MediaTransport, FiniteSetTheorems, TLAPS

Lib == [count: Int, ready: BOOLEAN, others: 0 .. MaxOthers]

(* How many uses of libsrtp a session in state s holds *)
Uses(s) == IF s \in {"inited", "keyed"} THEN 1 ELSE 0

(* The library is not shut down under a session *)
Initialised(x) == x.lib.count > 0 => x.lib.ready

(* Both sessions have keys or neither is there, and the usage count is     *)
(* right                                                                   *)
Sessions(x) ==
    /\ x.srtp.send = x.srtp.recv /\ x.srtp.send \in {"none", "keyed"}
    /\ x.lib.count = x.lib.others + Uses(x.srtp.send) + Uses(x.srtp.recv)
    /\ Initialised(x)

(* The agent and the controller have announced the present state           *)
Reported(x) ==
    /\ x.agent = x.ice.state
    /\ x.up => x.pc = PcState(x.dtls.state, x.ice.state)

(* What neither DTLS nor SRTP keeps is the same in x and y *)
SameRest(x, y) == y.up = x.up /\ y.agent = x.agent /\ y.pc = x.pc /\ y.ice = x.ice

-----------------------------------------------------------------------------
(* A record of objects, one component at a time                            *)

(* The type of m with its library part named                               *)
LEMMA Components ==
    Objects = [up: BOOLEAN, dtls: Dtls, srtp: Srtp, lib: Lib,
               agent: {"new", "checking", "connected", "disconnected", "failed"},
               pc: {"new", "connecting", "connected", "disconnected", "failed"}, ice: Channel]
  BY DEF Objects, Lib

(* A record that differs from the objects x in a well-typed DTLS part      *)
LEMMA WithDtls ==
    ASSUME NEW x \in Objects, NEW y, y = [x EXCEPT !.dtls = y.dtls], y.dtls \in Dtls
    PROVE  y \in Objects
  BY Components

(* ... in a well-typed SRTP part                                           *)
LEMMA WithSrtp ==
    ASSUME NEW x \in Objects, NEW y, y = [x EXCEPT !.srtp = y.srtp], y.srtp \in Srtp
    PROVE  y \in Objects
  BY Components

(* ... in a well-typed library part                                        *)
LEMMA WithLib ==
    ASSUME NEW x \in Objects, NEW y, y = [x EXCEPT !.lib = y.lib], y.lib \in Lib
    PROVE  y \in Objects
  BY Components

(* _update_state of the controller changes the announced state only        *)
LEMMA ControllerUpdateFacts ==
    ASSUME NEW x \in Objects
    PROVE  LET y == ControllerUpdate(x)
           IN  /\ y \in Objects /\ y.dtls = x.dtls /\ y.srtp = x.srtp /\ y.lib = x.lib
               /\ y.up = x.up /\ y.agent = x.agent /\ y.ice = x.ice
               /\ x.up => y.pc = PcState(x.dtls.state, x.ice.state)
  <1>1. PcState(x.dtls.state, x.ice.state) \in
           {"new", "connecting", "connected", "disconnected", "failed"}
    BY DEF PcState
  <1> QED
    BY <1>1, Components DEF ControllerUpdate

(* One use of libsrtp is given back, and the last one shuts it down        *)
LEMMA DecrementFacts ==
    ASSUME NEW x \in Objects
    PROVE  LET y == Decrement(x)
           IN  /\ y \in Objects /\ y.dtls = x.dtls /\ y.srtp = x.srtp
               /\ SameRest(x, y)
               /\ y.lib.count = x.lib.count - 1 /\ y.lib.others = x.lib.others
               /\ y.lib.ready <=> x.lib.count > 1
  <1> DEFINE y == Decrement(x)
  <1>1. y = [x EXCEPT !.lib = y.lib]
    BY DEF Decrement, Objects
  <1>2. y.lib = [count |-> x.lib.count - 1, ready |-> (x.lib.count > 1), others |-> x.lib.others]
    BY DEF Decrement, Objects
  <1>3. x.lib \in Lib
    BY Components
  <1>4. y.lib \in Lib
    BY <1>2, <1>3 DEF Lib
  <1>5. y.dtls = x.dtls /\ y.srtp = x.srtp /\ SameRest(x, y)
    BY DEF Decrement, Objects, SameRest
  <1>6. y.lib.count = x.lib.count - 1 /\ y.lib.others = x.lib.others
    BY DEF Decrement, Objects
  <1>7. y.lib.ready <=> x.lib.count > 1
    BY DEF Decrement, Objects
  <1> QED
    BY <1>1, <1>4, <1>5, <1>6, <1>7, WithLib

(* One use is taken when the library grants it, and then it is initialised *)
LEMMA IncrementFacts ==
    ASSUME NEW x \in Objects, NEW k \in KeyOutcomes
    PROVE  LET y == Increment(x, k)
           IN  /\ y \in Objects /\ y.dtls = x.dtls /\ y.srtp = x.srtp
               /\ SameRest(x, y)
               /\ y.lib.count = x.lib.count + (IF UsageGranted(x, k) THEN 1 ELSE 0)
               /\ y.lib.others = x.lib.others
               /\ y.lib.count > 0 => y.lib.ready
  <1> DEFINE y == Increment(x, k)
             r == x.lib.ready \/ x.lib.count > 0 \/ k # "init_fails"
             c == IF UsageGranted(x, k) THEN x.lib.count + 1 ELSE x.lib.count
  <1>1. y = [x EXCEPT !.lib = y.lib]
    BY DEF Increment, Objects
  <1>2. y.lib = [count |-> c, ready |-> r, others |-> x.lib.others]
    BY DEF Increment, Objects
  <1>3. x.lib \in Lib
    BY Components
  <1>4. c \in Int /\ r \in BOOLEAN
    BY <1>3 DEF Lib
  <1>5. y.dtls = x.dtls /\ y.srtp = x.srtp /\ SameRest(x, y)
    BY DEF Increment, Objects, SameRest
  <1>6. c > 0 => r
    BY <1>3 DEF UsageGranted, KeyOutcomes, Lib
  <1>7. c = x.lib.count + (IF UsageGranted(x, k) THEN 1 ELSE 0)
    BY <1>3 DEF Lib
  <1> HIDE DEF c, r
  <1>8. y.lib \in Lib
    BY <1>2, <1>3, <1>4 DEF Lib
  <1>9. y.lib.count = c /\ y.lib.others = x.lib.others
    BY <1>2
  <1>10. y.lib.ready = r
    BY <1>2
  <1> QED
    BY <1>1, <1>5, <1>6, <1>7, <1>8, <1>9, <1>10, WithLib

(* ~SrtpSession gives back what the session in state s holds               *)
LEMMA DestroyedFacts ==
    ASSUME NEW x \in Objects, NEW s \in {"none", "new", "inited", "keyed"}
    PROVE  LET y == Destroyed(x, s)
           IN  /\ y \in Objects /\ y.dtls = x.dtls /\ y.srtp = x.srtp
               /\ SameRest(x, y)
               /\ y.lib.count = x.lib.count - Uses(s) /\ y.lib.others = x.lib.others
               /\ Initialised(x) => Initialised(y)
  <1>1. x.lib.count \in Int
    BY Components DEF Lib
  <1> QED
    BY <1>1, DecrementFacts DEF SameRest, Destroyed, Uses, Initialised

(* reset_params gives back what both sessions hold                         *)
LEMMA ResetParamsFacts ==
    ASSUME NEW x \in Objects, Initialised(x)
    PROVE  LET y == ResetParams(x)
           IN  /\ y \in Objects /\ y.dtls = x.dtls
               /\ SameRest(x, y)
               /\ y.srtp.send = "none" /\ y.srtp.recv = "none"
               /\ y.lib.count = x.lib.count - Uses(x.srtp.send) - Uses(x.srtp.recv)
               /\ y.lib.others = x.lib.others
               /\ Initialised(y)
  <1> DEFINE x1 == Destroyed(x, x.srtp.send)
             x2 == Destroyed(x1, x.srtp.recv)
             y == ResetParams(x)
  <1>1. x.srtp \in Srtp
    BY Components
  <1>2. /\ x.srtp.send \in {"none", "new", "inited", "keyed"}
        /\ x.srtp.recv \in {"none", "new", "inited", "keyed"}
    BY <1>1 DEF Srtp
  <1>3. /\ x1 \in Objects /\ x1.dtls = x.dtls /\ x1.srtp = x.srtp
        /\ SameRest(x, x1)
        /\ x1.lib.count = x.lib.count - Uses(x.srtp.send) /\ x1.lib.others = x.lib.others
        /\ Initialised(x1)
    BY <1>2, DestroyedFacts DEF SameRest
  <1>4. /\ x2 \in Objects /\ x2.dtls = x.dtls /\ x2.srtp = x.srtp
        /\ SameRest(x, x2)
        /\ x2.lib.count = x.lib.count - Uses(x.srtp.send) - Uses(x.srtp.recv)
        /\ x2.lib.others = x.lib.others
        /\ Initialised(x2)
    <2> HIDE DEF x1
    <2> QED
      BY <1>2, <1>3, DestroyedFacts DEF SameRest
  <1>5. y = [x2 EXCEPT !.srtp.send = "none", !.srtp.recv = "none"]
    BY DEF ResetParams
  <1> HIDE DEF x2, y
  <1>6. y = [x2 EXCEPT !.srtp = y.srtp]
    BY <1>4, <1>5 DEF Objects
  <1>7. y.srtp = [send |-> "none", recv |-> "none", key |-> x.srtp.key, failed |-> x.srtp.failed]
    BY <1>1, <1>4, <1>5, Components DEF Srtp
  <1>8. y.srtp \in Srtp
    BY <1>1, <1>7 DEF Srtp
  <1>9. /\ y.dtls = x2.dtls /\ y.lib = x2.lib
        /\ SameRest(x2, y)
    BY <1>4, <1>5 DEF Objects, SameRest
  <1>10. y \in Objects
    BY <1>4, <1>6, <1>8, WithSrtp
  <1> QED
    BY <1>4, <1>7, <1>9, <1>10 DEF y, SameRest, Initialised

(* Assignments to one field of the sessions *)
LEMMA SendAssigned ==
    ASSUME NEW x \in Objects, NEW a \in {"none", "new", "inited", "keyed"}, NEW y,
           y = [x EXCEPT !.srtp.send = a]
    PROVE  /\ y \in Objects /\ y.dtls = x.dtls /\ y.lib = x.lib
           /\ SameRest(x, y)
           /\ y.srtp.send = a /\ y.srtp.recv = x.srtp.recv
  <1>1. x.srtp \in Srtp
    BY Components
  <1>2. y.srtp = [send |-> a, recv |-> x.srtp.recv, key |-> x.srtp.key, failed |-> x.srtp.failed]
    BY <1>1, Components DEF Srtp
  <1>3. y.srtp \in Srtp
    BY <1>1, <1>2 DEF Srtp
  <1>4. y = [x EXCEPT !.srtp = y.srtp]
    BY DEF Objects
  <1>5. /\ y.dtls = x.dtls /\ y.lib = x.lib
        /\ SameRest(x, y)
    BY DEF Objects, SameRest
  <1>6. y.srtp.send = a /\ y.srtp.recv = x.srtp.recv
    BY <1>2
  <1>7. y \in Objects
    BY <1>3, <1>4, WithSrtp
  <1> QED
    BY <1>5, <1>6, <1>7

(* ... of the receiving session                                            *)
LEMMA RecvAssigned ==
    ASSUME NEW x \in Objects, NEW a \in {"none", "new", "inited", "keyed"}, NEW y,
           y = [x EXCEPT !.srtp.recv = a]
    PROVE  /\ y \in Objects /\ y.dtls = x.dtls /\ y.lib = x.lib
           /\ SameRest(x, y)
           /\ y.srtp.send = x.srtp.send /\ y.srtp.recv = a
  <1>1. x.srtp \in Srtp
    BY Components
  <1>2. y.srtp = [send |-> x.srtp.send, recv |-> a, key |-> x.srtp.key, failed |-> x.srtp.failed]
    BY <1>1, Components DEF Srtp
  <1>3. y.srtp \in Srtp
    BY <1>1, <1>2 DEF Srtp
  <1>4. y = [x EXCEPT !.srtp = y.srtp]
    BY DEF Objects
  <1>5. /\ y.dtls = x.dtls /\ y.lib = x.lib
        /\ SameRest(x, y)
    BY DEF Objects, SameRest
  <1>6. y.srtp.send = x.srtp.send /\ y.srtp.recv = a
    BY <1>2
  <1>7. y \in Objects
    BY <1>3, <1>4, WithSrtp
  <1> QED
    BY <1>5, <1>6, <1>7

(* ... of the adapter the keys come from                                   *)
LEMMA KeyAssigned ==
    ASSUME NEW x \in Objects, NEW g \in Nat, NEW y, y = [x EXCEPT !.srtp.key = g]
    PROVE  /\ y \in Objects /\ y.dtls = x.dtls /\ y.lib = x.lib
           /\ SameRest(x, y)
           /\ y.srtp.send = x.srtp.send /\ y.srtp.recv = x.srtp.recv /\ y.srtp.key = g
  <1>1. x.srtp \in Srtp
    BY Components
  <1>2. y.srtp = [send |-> x.srtp.send, recv |-> x.srtp.recv, key |-> g, failed |-> x.srtp.failed]
    BY <1>1, Components DEF Srtp
  <1>3. y.srtp \in Srtp
    BY <1>1, <1>2 DEF Srtp
  <1>4. y = [x EXCEPT !.srtp = y.srtp]
    BY DEF Objects
  <1>5. /\ y.dtls = x.dtls /\ y.lib = x.lib
        /\ SameRest(x, y)
    BY DEF Objects, SameRest
  <1>6. y.srtp.send = x.srtp.send /\ y.srtp.recv = x.srtp.recv /\ y.srtp.key = g
    BY <1>2
  <1>7. y \in Objects
    BY <1>3, <1>4, WithSrtp
  <1> QED
    BY <1>5, <1>6, <1>7

(* ... of the note that an installation failed                             *)
LEMMA FailedAssigned ==
    ASSUME NEW x \in Objects, NEW b \in BOOLEAN, NEW y, y = [x EXCEPT !.srtp.failed = b]
    PROVE  /\ y \in Objects /\ y.dtls = x.dtls /\ y.lib = x.lib
           /\ SameRest(x, y)
           /\ y.srtp.send = x.srtp.send /\ y.srtp.recv = x.srtp.recv
           /\ y.srtp.key = x.srtp.key /\ y.srtp.failed = b
  <1>1. x.srtp \in Srtp
    BY Components
  <1>2. y.srtp = [send |-> x.srtp.send, recv |-> x.srtp.recv, key |-> x.srtp.key, failed |-> b]
    BY <1>1, Components DEF Srtp
  <1>3. y.srtp \in Srtp
    BY <1>1, <1>2 DEF Srtp
  <1>4. y = [x EXCEPT !.srtp = y.srtp]
    BY DEF Objects
  <1>5. /\ y.dtls = x.dtls /\ y.lib = x.lib
        /\ SameRest(x, y)
    BY DEF Objects, SameRest
  <1>6. y.srtp.send = x.srtp.send /\ y.srtp.recv = x.srtp.recv /\ y.srtp.key = x.srtp.key
    BY <1>2
  <1>7. y \in Objects
    BY <1>3, <1>4, WithSrtp
  <1>8. y.srtp.failed = b
    BY <1>2
  <1> QED
    BY <1>5, <1>6, <1>7, <1>8

-----------------------------------------------------------------------------
(* The installation of keys                                                *)

(* Whatever goes wrong, there are two sessions with keys or none at all,   *)
(* and the usage count is right                                            *)
LEMMA SetRtpParamsFacts ==
    ASSUME NEW x \in Objects, Sessions(x), x.srtp.send = "none", NEW k \in KeyOutcomes
    PROVE  LET y == SetRtpParams(x, k)
           IN  /\ y \in Objects /\ Sessions(y)
               /\ y.dtls = x.dtls /\ SameRest(x, y) /\ y.lib.others = x.lib.others
               /\ y.srtp.send = "keyed" => y.srtp.key = x.dtls.gen
  <1> DEFINE xs == [x EXCEPT !.srtp.send = "new"]
             x0 == [x EXCEPT !.srtp.send = "new", !.srtp.recv = "new"]
             x1 == SetSend(x0, k)
             x2 == IF x1.srtp.send = "keyed" THEN SetRecv(x1, k) ELSE x1
             y == SetRtpParams(x, k)
  <1>1. /\ xs \in Objects /\ xs.dtls = x.dtls /\ xs.lib = x.lib /\ SameRest(x, xs)
        /\ xs.srtp.send = "new"
    BY SendAssigned
  <1>2. x0 = [xs EXCEPT !.srtp.recv = "new"]
    BY Components DEF Srtp
  <1>3. /\ x0 \in Objects /\ x0.dtls = x.dtls /\ x0.lib = x.lib /\ SameRest(x, x0)
        /\ x0.srtp.send = "new" /\ x0.srtp.recv = "new"
    <2> HIDE DEF xs, x0
    <2> QED
      BY <1>1, <1>2, RecvAssigned DEF SameRest
  <1>4. y = IF x2.srtp.recv = "keyed" THEN [x2 EXCEPT !.srtp.key = x.dtls.gen] ELSE ResetParams(x2)
    BY DEF SetRtpParams
  <1>5. x.lib \in Lib /\ x.dtls.gen \in Nat
    BY Components DEF Dtls
  <1>6. x.lib.count = x.lib.others /\ x.lib.others \in Nat /\ Initialised(x)
    BY <1>5, BoundAssumption DEF Sessions, Uses, Lib
  <1> HIDE DEF x0
  <1> DEFINE z == Increment(x0, k)
  <1>7. /\ z \in Objects /\ z.dtls = x.dtls /\ SameRest(x, z) /\ z.lib.others = x.lib.others
        /\ z.srtp = x0.srtp
        /\ z.lib.count = x.lib.count + (IF UsageGranted(x0, k) THEN 1 ELSE 0)
        /\ Initialised(z)
    BY <1>3, IncrementFacts DEF SameRest, Initialised
  <1>8. x1 = IF ~UsageGranted(x0, k) THEN z
             ELSE [z EXCEPT !.srtp.send = IF k = "send_fails" THEN "inited" ELSE "keyed"]
    BY DEF SetSend
  <1>9. /\ x1 \in Objects /\ x1.dtls = x.dtls /\ SameRest(x, x1) /\ x1.lib.others = x.lib.others
        /\ x1.srtp.recv = "new" /\ x1.srtp.send \in {"new", "inited", "keyed"}
        /\ x1.lib.count = x.lib.count + Uses(x1.srtp.send)
        /\ Initialised(x1)
    <2> HIDE DEF x1, z
    <2>1. CASE ~UsageGranted(x0, k)
      BY <2>1, <1>3, <1>5, <1>6, <1>7, <1>8 DEF Uses, Lib
    <2>2. CASE UsageGranted(x0, k)
      <3> DEFINE a == IF k = "send_fails" THEN "inited" ELSE "keyed"
      <3>1. a \in {"inited", "keyed"} /\ x1 = [z EXCEPT !.srtp.send = a]
        BY <1>8, <2>2
      <3> HIDE DEF a
      <3> QED
        BY <1>3, <1>7, <2>2, <3>1, SendAssigned DEF SameRest, Uses, Initialised
    <2> QED
      BY <2>1, <2>2
  <1> HIDE DEF x1, z
  <1>10. /\ x2 \in Objects /\ x2.dtls = x.dtls /\ SameRest(x, x2) /\ x2.lib.others = x.lib.others
         /\ x2.lib.count = x.lib.count + Uses(x2.srtp.send) + Uses(x2.srtp.recv)
         /\ x2.srtp.recv = "keyed" => x2.srtp.send = "keyed"
         /\ Initialised(x2)
    <2>1. CASE x1.srtp.send # "keyed"
      BY <2>1, <1>5, <1>9 DEF Uses, Lib
    <2>2. CASE x1.srtp.send = "keyed"
      <3> DEFINE v == Increment(x1, k)
                 b == IF k = "recv_fails" THEN "inited" ELSE "keyed"
      <3>1. x1.lib.count > 0
        BY <1>5, <1>6, <1>9, <2>2 DEF Uses, Lib
      <3>2. UsageGranted(x1, k)
        BY <3>1 DEF UsageGranted
      <3>3. /\ v \in Objects /\ v.dtls = x.dtls /\ SameRest(x, v) /\ v.lib.others = x.lib.others
            /\ v.srtp = x1.srtp /\ v.lib.count = x1.lib.count + 1
            /\ Initialised(v)
        BY <1>9, <3>2, IncrementFacts DEF SameRest, Initialised
      <3>4. b \in {"inited", "keyed"} /\ x2 = [v EXCEPT !.srtp.recv = b]
        BY <2>2 DEF SetRecv
      <3> HIDE DEF v, b, x2
      <3>5. /\ x2 \in Objects /\ x2.dtls = v.dtls /\ SameRest(v, x2) /\ x2.lib = v.lib
            /\ x2.srtp.send = v.srtp.send /\ x2.srtp.recv = b
        BY <3>3, <3>4, RecvAssigned
      <3>6. Uses("keyed") = 1 /\ Uses(b) = 1
        BY <3>4 DEF Uses
      <3>7. x2.lib.count = x.lib.count + Uses(x2.srtp.send) + Uses(x2.srtp.recv)
        BY <1>5, <1>9, <2>2, <3>3, <3>5, <3>6 DEF Lib
      <3> QED
        BY <2>2, <3>3, <3>5, <3>7 DEF SameRest, Initialised
    <2> QED
      BY <2>1, <2>2
  <1> HIDE DEF x2
  <1>11. CASE x2.srtp.recv = "keyed"
    <2>1. y = [x2 EXCEPT !.srtp.key = x.dtls.gen]
      BY <1>4, <1>11
    <2> HIDE DEF y
    <2>2. /\ y \in Objects /\ y.dtls = x2.dtls /\ y.lib = x2.lib /\ SameRest(x2, y)
          /\ y.srtp.send = x2.srtp.send /\ y.srtp.recv = x2.srtp.recv
          /\ y.srtp.key = x.dtls.gen
      <3> DEFINE g == x.dtls.gen
      <3>1. g \in Nat /\ x2 \in Objects /\ y = [x2 EXCEPT !.srtp.key = g]
        BY <1>5, <1>10, <2>1
      <3> HIDE DEF g
      <3>2. /\ y \in Objects /\ y.dtls = x2.dtls /\ y.lib = x2.lib /\ SameRest(x2, y)
            /\ y.srtp.send = x2.srtp.send /\ y.srtp.recv = x2.srtp.recv
            /\ y.srtp.key = g
        BY <3>1, KeyAssigned
      <3> QED
        BY <3>2 DEF g
    <2> QED
      BY <1>6, <1>10, <1>11, <2>2 DEF y, SameRest, Sessions, Initialised
  <1>12. CASE x2.srtp.recv # "keyed"
    <2>1. y = ResetParams(x2)
      BY <1>4, <1>12
    <2>2. /\ y \in Objects /\ y.dtls = x2.dtls /\ SameRest(x2, y)
          /\ y.srtp.send = "none" /\ y.srtp.recv = "none"
          /\ y.lib.count = x2.lib.count - Uses(x2.srtp.send) - Uses(x2.srtp.recv)
          /\ y.lib.others = x2.lib.others /\ Initialised(y)
      BY <1>10, <2>1, ResetParamsFacts
    <2> HIDE DEF y
    <2>3. y.lib.count = x.lib.others
      <3>1. Uses(x2.srtp.send) \in Nat /\ Uses(x2.srtp.recv) \in Nat
        BY DEF Uses
      <3> QED
        BY <1>5, <1>6, <1>10, <2>2, <3>1 DEF Lib
    <2>4. Uses("none") = 0
      BY DEF Uses
    <2> QED
      BY <1>6, <1>10, <2>2, <2>3, <2>4 DEF y, SameRest, Sessions
  <1> QED
    BY <1>11, <1>12

(* Keys are installed in a transport that is writable, or the failure is   *)
(* noted                                                                   *)
LEMMA MaybeSetupFacts ==
    ASSUME NEW x \in Objects, Sessions(x), x.srtp.send = "none", x.dtls.writable,
           NEW k \in KeyOutcomes
    PROVE  LET y == MaybeSetupDtlsSrtp(x, k)
           IN  /\ y \in Objects /\ Sessions(y)
               /\ y.dtls = x.dtls /\ SameRest(x, y) /\ y.lib.others = x.lib.others
               /\ y.srtp.send = "keyed" => y.srtp.key = x.dtls.gen
               /\ y.srtp.send = "keyed" \/ y.srtp.failed
  <1> DEFINE x1 == IF k = "no_params" THEN x ELSE SetRtpParams(x, k)
             y == MaybeSetupDtlsSrtp(x, k)
  <1>1. /\ x1 \in Objects /\ Sessions(x1)
        /\ x1.dtls = x.dtls /\ SameRest(x, x1) /\ x1.lib.others = x.lib.others
        /\ x1.srtp.send = "keyed" => x1.srtp.key = x.dtls.gen
    BY SetRtpParamsFacts DEF SameRest
  <1>2. y = [x1 EXCEPT !.srtp.failed = ~SrtpActive(x1)]
    BY DEF MaybeSetupDtlsSrtp, SrtpActive
  <1> HIDE DEF x1
  <1>3. CASE x1.srtp.send = "keyed"
    <2>1. y = [x1 EXCEPT !.srtp.failed = FALSE]
      BY <1>1, <1>2, <1>3 DEF SrtpActive, Sessions
    <2>2. /\ y \in Objects /\ y.dtls = x1.dtls /\ y.lib = x1.lib /\ SameRest(x1, y)
          /\ y.srtp.send = x1.srtp.send /\ y.srtp.recv = x1.srtp.recv
          /\ y.srtp.key = x1.srtp.key
      <3> HIDE DEF y
      <3> QED
        BY <1>1, <2>1, FailedAssigned
    <2> QED
      BY <1>1, <1>3, <2>2 DEF SameRest, Sessions, Initialised
  <1>4. CASE x1.srtp.send # "keyed"
    <2>1. y = [x1 EXCEPT !.srtp.failed = TRUE]
      BY <1>1, <1>2, <1>4 DEF SrtpActive, Sessions
    <2>2. /\ y \in Objects /\ y.dtls = x1.dtls /\ y.lib = x1.lib /\ SameRest(x1, y)
          /\ y.srtp.send = x1.srtp.send /\ y.srtp.recv = x1.srtp.recv
          /\ y.srtp.key = x1.srtp.key /\ y.srtp.failed = TRUE
      <3> HIDE DEF y
      <3> QED
        BY <1>1, <2>1, FailedAssigned
    <2> QED
      BY <1>1, <1>4, <2>2 DEF SameRest, Sessions, Initialised
  <1> QED
    BY <1>3, <1>4

-----------------------------------------------------------------------------
(* The state of DTLS                                                       *)

(* The DTLS part is replaced                                               *)
LEMMA DtlsAssigned ==
    ASSUME NEW x \in Objects, NEW d \in Dtls, NEW y, y = [x EXCEPT !.dtls = d]
    PROVE  y \in Objects /\ y.dtls = d /\ y.srtp = x.srtp /\ y.lib = x.lib /\ SameRest(x, y)
  BY Components DEF SameRest

DtlsStates == {"new", "connecting", "connected", "closed", "failed"}

(* What is left of x when its DTLS state has become s, before SRTP is told *)
LEMMA StateAssigned ==
    ASSUME NEW x \in Objects, NEW s \in DtlsStates, NEW y,
           y = ControllerUpdate([x EXCEPT !.dtls.state = s])
    PROVE  /\ y \in Objects /\ y.dtls = [x.dtls EXCEPT !.state = s]
           /\ y.srtp = x.srtp /\ y.lib = x.lib
           /\ y.up = x.up /\ y.agent = x.agent /\ y.ice = x.ice
           /\ x.up => y.pc = PcState(s, x.ice.state)
  <1> DEFINE d == [x.dtls EXCEPT !.state = s]
             x1 == [x EXCEPT !.dtls.state = s]
  <1>1. x.dtls \in Dtls
    BY Components
  <1>2. d \in Dtls /\ d.state = s
    BY <1>1 DEF Dtls, DtlsStates
  <1>3. x1 = [x EXCEPT !.dtls = d]
    BY Components
  <1>4. y = ControllerUpdate(x1)
    OBVIOUS
  <1> HIDE DEF d, x1
  <1>5. x1 \in Objects /\ x1.dtls = d /\ x1.srtp = x.srtp /\ x1.lib = x.lib /\ SameRest(x, x1)
    BY <1>2, <1>3, DtlsAssigned
  <1>6. /\ y \in Objects /\ y.dtls = d /\ y.srtp = x.srtp /\ y.lib = x.lib
        /\ y.up = x.up /\ y.agent = x.agent /\ y.ice = x.ice
        /\ x.up => y.pc = PcState(s, x.ice.state)
    BY <1>2, <1>4, <1>5, ControllerUpdateFacts DEF SameRest
  <1> QED
    BY <1>6 DEF d

(* y follows from x by handlers of DTLS, SRTP and the controller *)
Follows(x, y) ==
    /\ y \in Objects /\ Sessions(y) /\ Reported(y)
    /\ y.up = x.up /\ y.agent = x.agent /\ y.ice = x.ice /\ y.lib.others = x.lib.others

(* _set_dtls_state with another state than connected takes the keys away   *)
LEMMA LeaveConnected ==
    ASSUME NEW x \in Objects, Sessions(x), Reported(x),
           NEW s \in DtlsStates \ {"connected"}, NEW k
    PROVE  LET y == SetDtlsState(x, s, k)
           IN  /\ Follows(x, y) /\ y.dtls = [x.dtls EXCEPT !.state = s]
               /\ x.dtls.state = s => y = x
               /\ x.dtls.state # s => y.srtp.send = "none"
  <1> DEFINE x1 == ControllerUpdate([x EXCEPT !.dtls.state = s])
             x2 == ResetParams(x1)
             y == SetDtlsState(x, s, k)
  <1>0. x.dtls \in Dtls /\ x.lib \in Lib /\ x.srtp \in Srtp
    BY Components
  <1>1. CASE x.dtls.state = s
    <2>1. y = x
      BY <1>1 DEF SetDtlsState
    <2>2. x.dtls = [x.dtls EXCEPT !.state = s]
      BY <1>0, <1>1 DEF Dtls
    <2> QED
      BY <1>1, <2>1, <2>2 DEF Follows
  <1>2. CASE x.dtls.state # s
    <2>1. y = [x2 EXCEPT !.srtp.failed = FALSE]
      BY <1>2 DEF SetDtlsState
    <2>2. /\ x1 \in Objects /\ x1.dtls = [x.dtls EXCEPT !.state = s]
          /\ x1.srtp = x.srtp /\ x1.lib = x.lib
          /\ x1.up = x.up /\ x1.agent = x.agent /\ x1.ice = x.ice
          /\ x.up => x1.pc = PcState(s, x.ice.state)
      BY StateAssigned
    <2> HIDE DEF x1
    <2>3. Initialised(x1)
      BY <2>2 DEF Sessions, Initialised
    <2>4. /\ x2 \in Objects /\ x2.dtls = x1.dtls /\ SameRest(x1, x2)
          /\ x2.srtp.send = "none" /\ x2.srtp.recv = "none"
          /\ x2.lib.count = x.lib.count - Uses(x.srtp.send) - Uses(x.srtp.recv)
          /\ x2.lib.others = x.lib.others
          /\ Initialised(x2)
      BY <2>2, <2>3, ResetParamsFacts
    <2> HIDE DEF x2
    <2>5. x2.lib.count = x.lib.others
      <3>1. Uses(x.srtp.send) \in Nat /\ Uses(x.srtp.recv) \in Nat
        BY DEF Uses
      <3> QED
        BY <1>0, <2>4, <3>1 DEF Lib, Sessions
    <2>6. /\ y \in Objects /\ y.dtls = x2.dtls /\ y.lib = x2.lib /\ SameRest(x2, y)
          /\ y.srtp.send = "none" /\ y.srtp.recv = "none"
      <3> HIDE DEF y
      <3> QED
        BY <2>1, <2>4, FailedAssigned
    <2>7. Sessions(y)
      <3>1. Uses("none") = 0 /\ x.lib.others \in Int
        BY <1>0 DEF Uses, Lib
      <3> QED
        BY <2>4, <2>5, <2>6, <3>1 DEF Sessions, Initialised
    <2>8. y.dtls.state = s
      BY <1>0, <2>2, <2>4, <2>6 DEF Dtls
    <2>9. Reported(y)
      BY <2>2, <2>4, <2>6, <2>8 DEF Reported, SameRest
    <2> QED
      BY <1>2, <2>2, <2>4, <2>6, <2>7, <2>9 DEF Follows, SameRest
  <1> QED
    BY <1>1, <1>2

(* A field of DTLS other than the state is assigned *)
LEMMA FieldAssigned ==
    ASSUME NEW x \in Objects, NEW d \in Dtls, NEW y, y = [x EXCEPT !.dtls = d],
           Sessions(x), Reported(x), d.state = x.dtls.state
    PROVE  /\ Follows(x, y) /\ y.dtls = d /\ y.srtp = x.srtp
  <1>1. y \in Objects /\ y.dtls = d /\ y.srtp = x.srtp /\ y.lib = x.lib /\ SameRest(x, y)
    BY DtlsAssigned
  <1> QED
    BY <1>1 DEF Follows, SameRest, Sessions, Reported, Initialised

(* _set_writable_state                                                     *)
LEMMA SetWritableFacts ==
    ASSUME NEW x \in Objects, Sessions(x), Reported(x), NEW w \in BOOLEAN
    PROVE  LET y == SetWritable(x, w)
           IN  Follows(x, y) /\ y.dtls = [x.dtls EXCEPT !.writable = w] /\ y.srtp = x.srtp
  <1> DEFINE d == [x.dtls EXCEPT !.writable = w]
             y == SetWritable(x, w)
  <1>1. x.dtls \in Dtls
    BY Components
  <1>2. d \in Dtls
    BY <1>1 DEF Dtls
  <1>3. d.state = x.dtls.state
    BY <1>1 DEF Dtls
  <1>4. y = [x EXCEPT !.dtls = d]
    BY Components DEF SetWritable
  <1>5. Follows(x, y) /\ y.dtls = d /\ y.srtp = x.srtp
    <2> HIDE DEF d, y
    <2> QED
      BY <1>2, <1>3, <1>4, FieldAssigned
  <1> QED
    BY <1>5

(* The state of the adapter is assigned                                    *)
LEMMA AdapterAssigned ==
    ASSUME NEW x \in Objects, Sessions(x), Reported(x),
           NEW a \in {"absent", "none", "connecting", "connected", "closed", "error"}
    PROVE  LET y == [x EXCEPT !.dtls.adapter = a]
           IN  Follows(x, y) /\ y.srtp = x.srtp /\ y.dtls = [x.dtls EXCEPT !.adapter = a]
  <1> DEFINE d == [x.dtls EXCEPT !.adapter = a]
             y == [x EXCEPT !.dtls.adapter = a]
  <1>1. x.dtls \in Dtls
    BY Components
  <1>2. d \in Dtls /\ d.state = x.dtls.state
    BY <1>1 DEF Dtls
  <1>3. y = [x EXCEPT !.dtls = d]
    BY Components
  <1> HIDE DEF d, y
  <1>4. Follows(x, y) /\ y.dtls = d /\ y.srtp = x.srtp
    BY <1>2, <1>3, FieldAssigned
  <1> QED
    BY <1>4 DEF d, y

(* The cached ClientHello is assigned                                      *)
LEMMA HelloAssigned ==
    ASSUME NEW x \in Objects, Sessions(x), Reported(x),
           NEW h \in {"none", "good", "bad"}
    PROVE  LET y == [x EXCEPT !.dtls.hello = h]
           IN  Follows(x, y) /\ y.srtp = x.srtp /\ y.dtls = [x.dtls EXCEPT !.hello = h]
  <1> DEFINE d == [x.dtls EXCEPT !.hello = h]
             y == [x EXCEPT !.dtls.hello = h]
  <1>1. x.dtls \in Dtls
    BY Components
  <1>2. d \in Dtls /\ d.state = x.dtls.state
    BY <1>1 DEF Dtls
  <1>3. y = [x EXCEPT !.dtls = d]
    BY Components
  <1> HIDE DEF d, y
  <1>4. Follows(x, y) /\ y.dtls = d /\ y.srtp = x.srtp
    BY <1>2, <1>3, FieldAssigned
  <1> QED
    BY <1>4 DEF d, y

(* A transport that ends is not writable and has no keys                   *)
LEMMA EndedFacts ==
    ASSUME NEW x \in Objects, Sessions(x), Reported(x), NEW s \in {"closed", "failed"},
           x.dtls.state # s
    PROVE  LET y == Ended(x, s)
           IN  /\ Follows(x, y) /\ y.srtp.send = "none"
               /\ y.dtls = [x.dtls EXCEPT !.writable = FALSE, !.state = s]
  <1> DEFINE x1 == SetWritable(x, FALSE)
             y == Ended(x, s)
  <1>1. Follows(x, x1) /\ x1.dtls = [x.dtls EXCEPT !.writable = FALSE]
    BY SetWritableFacts
  <1>2. x.dtls \in Dtls /\ x1.dtls.state = x.dtls.state
    BY <1>1, Components DEF Dtls
  <1>3. y = SetDtlsState(x1, s, "ok") /\ s \in DtlsStates \ {"connected"}
    BY DEF Ended, DtlsStates
  <1> HIDE DEF x1
  <1>31. x1 \in Objects /\ Sessions(x1) /\ Reported(x1)
    BY <1>1 DEF Follows
  <1>4. Follows(x1, y) /\ y.dtls = [x1.dtls EXCEPT !.state = s] /\ y.srtp.send = "none"
    BY <1>2, <1>3, <1>31, LeaveConnected
  <1>5. y.dtls = [x.dtls EXCEPT !.writable = FALSE, !.state = s]
    BY <1>1, <1>2, <1>4 DEF Dtls
  <1> QED
    BY <1>1, <1>4, <1>5 DEF Follows

(* A transport that opens is connected and has keys of its present         *)
(* adapter, or the failure to install them is noted: it is writable before *)
(* its state changes                                                       *)
LEMMA OpenedFacts ==
    ASSUME NEW x \in Objects, Sessions(x), Reported(x), NEW k \in KeyOutcomes,
           x.dtls.state # "connected", x.srtp.send = "none"
    PROVE  LET y == Opened(x, k)
           IN  /\ Follows(x, y)
               /\ y.dtls = [x.dtls EXCEPT !.writable = TRUE, !.state = "connected"]
               /\ y.srtp.send = "keyed" => y.srtp.key = x.dtls.gen
               /\ y.srtp.send = "keyed" \/ y.srtp.failed
  <1> DEFINE x1 == SetWritable(x, TRUE)
             x2 == ControllerUpdate([x1 EXCEPT !.dtls.state = "connected"])
             y == Opened(x, k)
  <1>1. Follows(x, x1) /\ x1.dtls = [x.dtls EXCEPT !.writable = TRUE] /\ x1.srtp = x.srtp
    BY SetWritableFacts
  <1>2. x.dtls \in Dtls /\ x1.dtls.state = x.dtls.state
    BY <1>1, Components DEF Dtls
  <1>3. y = MaybeSetupDtlsSrtp(x2, k)
    BY <1>2 DEF Opened, SetDtlsState
  <1> HIDE DEF x1
  <1>4. /\ x2 \in Objects /\ x2.dtls = [x1.dtls EXCEPT !.state = "connected"]
        /\ x2.srtp = x1.srtp /\ x2.lib = x1.lib
        /\ x2.up = x1.up /\ x2.agent = x1.agent /\ x2.ice = x1.ice
        /\ x1.up => x2.pc = PcState("connected", x1.ice.state)
    <2>1. x1 \in Objects /\ "connected" \in DtlsStates
      BY <1>1 DEF Follows, DtlsStates
    <2> QED
      BY <2>1, StateAssigned
  <1>5. x2.dtls = [x.dtls EXCEPT !.writable = TRUE, !.state = "connected"]
    BY <1>1, <1>2, <1>4 DEF Dtls
  <1> HIDE DEF x2
  <1>6. /\ x2.dtls.writable /\ x2.dtls.state = "connected" /\ x2.dtls.gen = x.dtls.gen
    BY <1>2, <1>5 DEF Dtls
  <1>7. Sessions(x2) /\ x2.srtp.send = "none"
    BY <1>1, <1>4 DEF Follows, Sessions, Initialised
  <1>8. /\ y \in Objects /\ Sessions(y)
        /\ y.dtls = x2.dtls /\ SameRest(x2, y) /\ y.lib.others = x2.lib.others
        /\ y.srtp.send = "keyed" => y.srtp.key = x2.dtls.gen
        /\ y.srtp.send = "keyed" \/ y.srtp.failed
    <2>1. x2 \in Objects /\ x2.dtls.writable
      BY <1>4, <1>6
    <2> QED
      BY <1>3, <1>7, <2>1, MaybeSetupFacts
  <1> HIDE DEF y
  <1>9. Reported(y)
    BY <1>1, <1>4, <1>6, <1>8 DEF Reported, SameRest, Follows
  <1>10. Follows(x, y)
    BY <1>1, <1>4, <1>8, <1>9 DEF Follows, SameRest
  <1> QED
    BY <1>5, <1>6, <1>8, <1>10 DEF y

-----------------------------------------------------------------------------
(* The handshake                                                           *)

(* The state of DTLS, the adapter, the fingerprint and the keys agree      *)
Handshake(x) ==
    LET d == x.dtls
    IN  /\ d.adapter = "absent" => d.fp = NoFp
        /\ d.fp = NoFp => d.state = "new"
        /\ d.fp = BadFp => d.state = "failed"
        /\ d.state = "new" => d.adapter \in {"absent"} \cup NewAdapters
        /\ d.state = "new" /\ d.adapter \in NewAdapters => d.digest = d.fp
        /\ d.state = "connecting" => d.adapter = "connecting"
        /\ d.state = "connected" => d.adapter = "connected"
        /\ d.adapter \in {"connecting", "connected"} => d.digest = d.fp /\ d.fp \in Fps
        /\ d.state \in {"connecting", "connected"} => d.hello = "none"
        /\ d.state = "connected" => d.peer = d.fp /\ (x.srtp.send = "keyed" \/ x.srtp.failed)
        /\ x.srtp.send = "keyed" => d.state = "connected" /\ x.srtp.key = d.gen
        /\ x.ice.writable => d.fp # NoFp

(* A handshake that can start has started *)
Started(x) == x.dtls.state = "new" => ~(x.dtls.fp \in Fps /\ x.ice.writable)

(* What holds between the methods of a handler while the transport is up   *)
Good(x) == x \in Objects /\ Sessions(x) /\ Reported(x) /\ Handshake(x)

(* Only an answer revives a transport that has ended *)
StaysEnded(x, y) == x.dtls.state \in {"failed", "closed"} => y.dtls.state = x.dtls.state

(* A packet handed to the adapter of a transport whose handshake has begun *)
LEMMA AdapterInputFacts ==
    ASSUME NEW x, Good(x), x.dtls.state \in {"connecting", "connected"},
           NEW p \in Packets, NEW k \in KeyOutcomes
    PROVE  LET y == AdapterInput(x, p, k)
           IN  Follows(x, y) /\ Handshake(y) /\ y.dtls.state # "new" /\ y.dtls.fp = x.dtls.fp
  <1> DEFINE y == AdapterInput(x, p, k)
             fails == [x EXCEPT !.dtls.adapter = "error"]
             closed == [x EXCEPT !.dtls.adapter = "closed"]
             done == [x EXCEPT !.dtls.adapter = "connected", !.dtls.peer = p.cert]
             looks == [x EXCEPT !.dtls.seen = TRUE]
  <1>1. x \in Objects /\ Sessions(x) /\ Reported(x) /\ Handshake(x) /\ x.dtls \in Dtls
    BY Components DEF Good
  <1>2. p.cert \in Fps \cup {NoFp}
    BY DEF Packets
  <1>3. /\ Follows(x, fails) /\ fails.srtp = x.srtp
        /\ fails.dtls = [x.dtls EXCEPT !.adapter = "error"]
    BY <1>1, AdapterAssigned
  <1>4. /\ Follows(x, closed) /\ closed.srtp = x.srtp
        /\ closed.dtls = [x.dtls EXCEPT !.adapter = "closed"]
    BY <1>1, AdapterAssigned
  <1>5. /\ Follows(x, done) /\ done.srtp = x.srtp
        /\ done.dtls = [x.dtls EXCEPT !.adapter = "connected", !.peer = p.cert]
    <2> DEFINE d == [x.dtls EXCEPT !.adapter = "connected", !.peer = p.cert]
    <2>1. d \in Dtls /\ d.state = x.dtls.state
      BY <1>1, <1>2 DEF Dtls
    <2>2. done = [x EXCEPT !.dtls = d]
      BY <1>1, Components
    <2> HIDE DEF d, done
    <2>3. Follows(x, done) /\ done.dtls = d /\ done.srtp = x.srtp
      BY <1>1, <2>1, <2>2, FieldAssigned
    <2> QED
      BY <2>3 DEF d
  <1>6. /\ Follows(x, looks) /\ looks.srtp = x.srtp
        /\ looks.dtls = [x.dtls EXCEPT !.seen = TRUE]
    <2> DEFINE d == [x.dtls EXCEPT !.seen = TRUE]
    <2>1. d \in Dtls /\ d.state = x.dtls.state
      BY <1>1 DEF Dtls
    <2>2. looks = [x EXCEPT !.dtls = d]
      BY <1>1, Components
    <2> HIDE DEF d, looks
    <2>3. Follows(x, looks) /\ looks.dtls = d /\ looks.srtp = x.srtp
      BY <1>1, <2>1, <2>2, FieldAssigned
    <2> QED
      BY <2>3 DEF d
  <1>7. \/ y = x \/ y = looks
        \/ x.dtls.adapter = "connecting" /\ x.dtls.digest = NoFp
        \/ x.dtls.adapter = "connecting" /\ x.dtls.digest = p.cert /\ y = Opened(done, k)
        \/ y = Ended(fails, "failed") \/ y = Ended(closed, "closed")
    BY DEF AdapterInput, ContinueSSL, ReadSSL
  <1> HIDE DEF fails, closed, done, looks
  <1>8. x.dtls.fp \in Fps /\ x.dtls.digest = x.dtls.fp /\ x.dtls.fp # NoFp
    BY <1>1, FpAssumption DEF Handshake
  <1>9. CASE y = x
    BY <1>1, <1>9 DEF Follows
  <1>10. CASE y = looks
    BY <1>1, <1>6, <1>10 DEF Follows, Handshake, Dtls
  <1>11. CASE x.dtls.digest = p.cert /\ x.dtls.adapter = "connecting" /\ y = Opened(done, k)
    <2>1. x.srtp.send = "none" /\ x.dtls.state = "connecting"
      BY <1>1, <1>11 DEF Handshake, Sessions
    <2>2. /\ done \in Objects /\ Sessions(done) /\ Reported(done)
          /\ done.dtls.state # "connected" /\ done.srtp.send = "none"
      BY <1>1, <1>5, <2>1 DEF Follows, Dtls
    <2>3. /\ Follows(done, y)
          /\ y.dtls = [done.dtls EXCEPT !.writable = TRUE, !.state = "connected"]
          /\ y.srtp.send = "keyed" => y.srtp.key = done.dtls.gen
          /\ y.srtp.send = "keyed" \/ y.srtp.failed
      BY <1>11, <2>2, OpenedFacts
    <2> HIDE DEF y
    <2>4. /\ y.dtls.state = "connected" /\ y.dtls.adapter = "connected" /\ y.dtls.peer = p.cert
          /\ y.dtls.fp = x.dtls.fp /\ y.dtls.digest = x.dtls.digest
          /\ y.dtls.hello = x.dtls.hello /\ y.dtls.gen = done.dtls.gen
      BY <1>1, <1>5, <2>3 DEF Dtls
    <2>5. Follows(x, y)
      BY <1>5, <2>3 DEF Follows
    <2>6. x.dtls.hello = "none" /\ x.dtls.fp # BadFp
      BY <1>1, <1>8, FpAssumption DEF Handshake
    <2>7. Handshake(y)
      BY <1>8, <1>11, <2>3, <2>4, <2>6 DEF Handshake
    <2> QED
      BY <2>4, <2>5, <2>7 DEF y
  <1>12. CASE y = Ended(fails, "failed")
    <2>1. /\ fails \in Objects /\ Sessions(fails) /\ Reported(fails)
          /\ fails.dtls.state # "failed"
      BY <1>1, <1>3 DEF Follows, Dtls
    <2>2. /\ Follows(fails, y) /\ y.srtp.send = "none"
          /\ y.dtls = [fails.dtls EXCEPT !.writable = FALSE, !.state = "failed"]
      BY <1>12, <2>1, EndedFacts
    <2> HIDE DEF y
    <2>3. /\ y.dtls.state = "failed" /\ y.dtls.adapter = "error" /\ y.dtls.fp = x.dtls.fp
      BY <1>1, <1>3, <2>2 DEF Dtls
    <2>4. Follows(x, y)
      BY <1>3, <2>2 DEF Follows
    <2> QED
      BY <1>8, <2>2, <2>3, <2>4 DEF y, Handshake
  <1>13. CASE y = Ended(closed, "closed")
    <2>1. /\ closed \in Objects /\ Sessions(closed) /\ Reported(closed)
          /\ closed.dtls.state # "closed"
      BY <1>1, <1>4 DEF Follows, Dtls
    <2>2. /\ Follows(closed, y) /\ y.srtp.send = "none"
          /\ y.dtls = [closed.dtls EXCEPT !.writable = FALSE, !.state = "closed"]
      BY <1>13, <2>1, EndedFacts
    <2> HIDE DEF y
    <2>3. /\ y.dtls.state = "closed" /\ y.dtls.adapter = "closed" /\ y.dtls.fp = x.dtls.fp
      BY <1>1, <1>4, <2>2 DEF Dtls
    <2>4. Follows(x, y)
      BY <1>4, <2>2 DEF Follows
    <2> QED
      BY <1>8, <2>2, <2>3, <2>4, FpAssumption DEF y, Handshake
  <1> QED
    BY <1>7, <1>8, <1>9, <1>10, <1>11, <1>12, <1>13

(* A transport whose handshake has not begun begins it when it can *)
LEMMA MaybeStartFacts ==
    ASSUME NEW x, Good(x), x.dtls.state = "new"
    PROVE  LET y == MaybeStartDtls(x)
           IN  Follows(x, y) /\ Handshake(y) /\ Started(y) /\ y.dtls.fp = x.dtls.fp
  <1> DEFINE y == MaybeStartDtls(x)
             s1 == [x EXCEPT !.dtls.adapter = "connecting"]
             x1 == SetDtlsState(s1, "connecting", "ok")
             looks == [x1 EXCEPT !.dtls.seen = TRUE]
             fails == SetDtlsState(x1, "failed", "ok")
             x2 == CASE x.dtls.hello = "none" -> x1
                     [] x.dtls.hello = "good" ->
                           AdapterInput(x1, [kind |-> "hello", cert |-> NoFp], "ok")
                     [] OTHER -> fails
  <1>1. x \in Objects /\ Sessions(x) /\ Reported(x) /\ Handshake(x) /\ x.dtls \in Dtls
    BY Components DEF Good
  <1>2. CASE x.dtls.adapter = "absent" \/ ~x.ice.writable
    <2>1. y = x
      BY <1>2 DEF MaybeStartDtls
    <2> QED
      BY <1>1, <1>2, <2>1, FpAssumption DEF Follows, Handshake, Started
  <1>3. ASSUME x.dtls.adapter # "absent", x.ice.writable
        PROVE  /\ x.dtls.adapter \in NewAdapters /\ x.dtls.digest = x.dtls.fp
               /\ x.srtp.send = "none"
               /\ x.dtls.fp \in Fps /\ x.dtls.fp # NoFp /\ x.dtls.fp # BadFp
    <2>1. x.dtls.fp \in Fps \cup {BadFp, NoFp}
      BY <1>1 DEF Dtls
    <2> QED
      BY <1>1, <1>3, <2>1, FpAssumption DEF Handshake, Sessions
  <1>4. CASE x.dtls.adapter = "error" /\ x.ice.writable
    <2>1. y = SetDtlsState(x, "failed", "ok")
      BY <1>4 DEF MaybeStartDtls
    <2>2. /\ Follows(x, y) /\ y.dtls = [x.dtls EXCEPT !.state = "failed"]
          /\ y.srtp.send = "none"
      BY <1>1, <2>1, LeaveConnected DEF DtlsStates
    <2> HIDE DEF y
    <2>3. y.dtls.state = "failed" /\ y.dtls.adapter = "error" /\ y.dtls.fp = x.dtls.fp
      BY <1>1, <1>4, <2>2 DEF Dtls
    <2>4. Handshake(y) /\ Started(y)
      BY <1>3, <1>4, <2>2, <2>3 DEF Handshake, Started
    <2> QED
      BY <2>2, <2>3, <2>4 DEF y
  <1>5. CASE x.dtls.adapter = "none" /\ x.ice.writable
    <2>1. /\ x.dtls.adapter = "none" /\ x.dtls.digest = x.dtls.fp /\ x.srtp.send = "none"
          /\ x.dtls.fp \in Fps /\ x.dtls.fp # NoFp /\ x.dtls.fp # BadFp
      BY <1>3, <1>5
    <2>2. y = [x2 EXCEPT !.dtls.hello = "none"]
      BY <1>5 DEF MaybeStartDtls
    <2>3. Follows(x, s1) /\ s1.srtp = x.srtp /\ s1.dtls = [x.dtls EXCEPT !.adapter = "connecting"]
      BY <1>1, AdapterAssigned
    <2>4. s1 \in Objects /\ Sessions(s1) /\ Reported(s1) /\ s1.dtls.state # "connecting"
      BY <1>1, <2>3 DEF Follows, Dtls
    <2> HIDE DEF s1
    <2>5. /\ Follows(s1, x1) /\ x1.dtls = [s1.dtls EXCEPT !.state = "connecting"]
          /\ x1.srtp.send = "none"
      BY <2>4, LeaveConnected DEF DtlsStates
    <2> HIDE DEF x1
    <2>6. x1 \in Objects /\ Sessions(x1) /\ Reported(x1) /\ x1.dtls \in Dtls
      BY <2>5, Components DEF Follows
    <2>7. x1.dtls = [x.dtls EXCEPT !.adapter = "connecting", !.state = "connecting"]
      BY <1>1, <2>3, <2>5 DEF Dtls
    <2>8. /\ Follows(x1, x2) /\ x2.srtp.send = "none" /\ x2.dtls.fp = x.dtls.fp
          /\ x2.dtls.digest = x.dtls.digest /\ x2.dtls.adapter = "connecting"
          /\ x2.dtls.state \in {"connecting", "failed"}
      <3>1. CASE x.dtls.hello = "none"
        <4>1. x2 = x1
          BY <3>1
        <4>2. Follows(x1, x1)
          BY <2>6 DEF Follows
        <4> HIDE DEF x2
        <4> QED
          BY <1>1, <2>5, <2>6, <2>7, <4>1, <4>2 DEF Dtls
      <3>2. CASE x.dtls.hello = "good"
        <4> DEFINE d == [x1.dtls EXCEPT !.seen = TRUE]
        <4>1. x2 = looks
          BY <1>1, <2>7, <3>2 DEF AdapterInput, ContinueSSL, Dtls
        <4>2. d \in Dtls /\ d.state = x1.dtls.state
          BY <2>6 DEF Dtls
        <4>3. looks = [x1 EXCEPT !.dtls = d]
          BY <2>6, Components
        <4> HIDE DEF d, looks
        <4>4. Follows(x1, looks) /\ looks.dtls = d /\ looks.srtp = x1.srtp
          BY <2>6, <4>2, <4>3, FieldAssigned
        <4>5. /\ d.fp = x.dtls.fp /\ d.digest = x.dtls.digest /\ d.adapter = "connecting"
              /\ d.state = "connecting"
          BY <1>1, <2>7 DEF Dtls, d
        <4> QED
          BY <2>5, <4>1, <4>4, <4>5
      <3>3. CASE x.dtls.hello \notin {"none", "good"}
        <4>1. x2 = fails
          BY <3>3
        <4>2. x1.dtls.state # "failed"
          BY <1>1, <2>7 DEF Dtls
        <4>3. /\ Follows(x1, fails) /\ fails.dtls = [x1.dtls EXCEPT !.state = "failed"]
              /\ fails.srtp.send = "none"
          BY <2>6, <4>2, LeaveConnected DEF DtlsStates
        <4> HIDE DEF fails
        <4> QED
          BY <1>1, <2>7, <4>1, <4>3 DEF Dtls
      <3> QED
        BY <3>1, <3>2, <3>3
    <2> HIDE DEF x2
    <2>9. x2 \in Objects /\ Sessions(x2) /\ Reported(x2) /\ x2.dtls \in Dtls
      BY <2>8, Components DEF Follows
    <2>10. Follows(x2, y) /\ y.srtp = x2.srtp /\ y.dtls = [x2.dtls EXCEPT !.hello = "none"]
      <3> HIDE DEF y
      <3> QED
        BY <2>2, <2>9, HelloAssigned
    <2> HIDE DEF y
    <2>11. Follows(x, y)
      BY <2>3, <2>5, <2>8, <2>10 DEF Follows
    <2>12. /\ y.dtls.fp = x.dtls.fp /\ y.dtls.digest = x.dtls.digest
           /\ y.dtls.adapter = "connecting" /\ y.dtls.state \in {"connecting", "failed"}
           /\ y.dtls.hello = "none" /\ y.srtp.send = "none"
      BY <2>8, <2>9, <2>10 DEF Dtls
    <2>13. Handshake(y) /\ Started(y)
      BY <2>1, <2>12 DEF Handshake, Started
    <2> QED
      BY <2>11, <2>12, <2>13 DEF y
  <1> QED
    BY <1>2, <1>3, <1>4, <1>5 DEF NewAdapters

(* A new adapter starts its handshake when it can; with a fingerprint that *)
(* it refuses it stays as it is                                            *)
LEMMA SetupFacts ==
    ASSUME NEW x \in Objects, Sessions(x), Reported(x), x.dtls.state = "new",
           x.srtp.send = "none", x.ice.writable => x.dtls.fp # NoFp, NEW a \in NewAdapters
    PROVE  LET y == SetupDtls(x, a)
           IN  /\ Follows(x, y) /\ y.dtls.fp = x.dtls.fp
               /\ x.dtls.fp # BadFp => Handshake(y) /\ Started(y)
               /\ x.dtls.fp = BadFp => y.dtls.state = "new" /\ y.dtls.adapter \in NewAdapters
  <1> DEFINE y == SetupDtls(x, a)
             g == IF x.dtls.fp \in Fps THEN x.dtls.fp ELSE NoFp
             d == [x.dtls EXCEPT !.adapter = a, !.seen = FALSE, !.peer = NoFp,
                                 !.gen = @ + 1, !.digest = g]
             x1 == [x EXCEPT !.dtls.adapter = a, !.dtls.seen = FALSE, !.dtls.peer = NoFp,
                             !.dtls.gen = @ + 1, !.dtls.digest = g]
  <1>1. x.dtls \in Dtls /\ g \in Fps \cup {NoFp}
    BY Components
  <1>2. y = IF x.dtls.fp = BadFp THEN x1 ELSE MaybeStartDtls(x1)
    BY DEF SetupDtls
  <1>3. x.dtls.fp # BadFp => g = x.dtls.fp
    BY <1>1 DEF Dtls
  <1>4. x1 = [x EXCEPT !.dtls = d]
    <2> HIDE DEF g
    <2> QED
      BY <1>1, Components
  <1> HIDE DEF g, x1, y
  <1>5. d \in Dtls
    <2> DEFINE n == x.dtls.gen + 1
               e == [x.dtls EXCEPT !.adapter = a, !.seen = FALSE]
    <2>1. n \in Nat
      BY <1>1 DEF Dtls
    <2>2. e \in Dtls
      BY <1>1 DEF Dtls, NewAdapters
    <2>3. d = [e EXCEPT !.peer = NoFp, !.gen = n, !.digest = g]
      BY <1>1 DEF Dtls
    <2> HIDE DEF n, e, d
    <2> QED
      BY <1>1, <2>1, <2>2, <2>3 DEF Dtls
  <1>6. /\ d.state = "new" /\ d.adapter \in NewAdapters /\ d.fp = x.dtls.fp /\ d.digest = g
    BY <1>1 DEF Dtls
  <1> HIDE DEF d
  <1>7. Follows(x, x1) /\ x1.dtls = d /\ x1.srtp = x.srtp
    BY <1>4, <1>5, <1>6, FieldAssigned
  <1>8. CASE x.dtls.fp = BadFp
    BY <1>2, <1>6, <1>7, <1>8 DEF y
  <1>9. CASE x.dtls.fp # BadFp
    <2>1. x1.ice = x.ice /\ x1.srtp.send = "none"
      BY <1>7 DEF Follows
    <2>2. Handshake(x1)
      BY <1>3, <1>6, <1>7, <1>9, <2>1 DEF Handshake, NewAdapters
    <2>3. Good(x1) /\ x1.dtls.state = "new"
      BY <1>6, <1>7, <2>2 DEF Follows, Good
    <2>4. y = MaybeStartDtls(x1)
      BY <1>2, <1>9
    <2>5. Follows(x1, y) /\ Handshake(y) /\ Started(y) /\ y.dtls.fp = x1.dtls.fp
      BY <2>3, <2>4, MaybeStartFacts
    <2>6. Follows(x, y)
      BY <1>7, <2>5 DEF Follows
    <2> QED
      BY <1>6, <1>7, <1>9, <2>5, <2>6 DEF y
  <1> QED
    BY <1>8, <1>9

(* Throwing the adapter away takes the keys with it *)
LEMMA FreshFacts ==
    ASSUME NEW x \in Objects, Sessions(x), Reported(x),
           x.dtls.adapter = "absent" => x.dtls.state = "new",
           x.dtls.state = "new" => x.srtp.send = "none"
    PROVE  LET y == FreshTransport(x)
           IN  /\ Follows(x, y) /\ y.dtls.fp = x.dtls.fp
               /\ y.dtls.state = "new" /\ y.srtp.send = "none"
  <1> DEFINE y == FreshTransport(x)
             x1 == [x EXCEPT !.dtls.adapter = "absent"]
             x2 == SetDtlsState(x1, "new", "ok")
  <1>1. x.dtls \in Dtls
    BY Components
  <1>2. CASE x.dtls.adapter = "absent"
    BY <1>2 DEF FreshTransport, Follows
  <1>3. CASE x.dtls.adapter # "absent"
    <2>1. y = SetWritable(x2, FALSE)
      BY <1>3 DEF FreshTransport
    <2>2. Follows(x, x1) /\ x1.srtp = x.srtp /\ x1.dtls = [x.dtls EXCEPT !.adapter = "absent"]
      BY AdapterAssigned
    <2> HIDE DEF x1
    <2>3. /\ x1 \in Objects /\ Sessions(x1) /\ Reported(x1)
          /\ x1.dtls.fp = x.dtls.fp /\ x1.dtls.state = x.dtls.state /\ x1.dtls \in Dtls
      BY <1>1, <2>2, Components DEF Follows, Dtls
    <2>4. /\ Follows(x1, x2) /\ x2.dtls = [x1.dtls EXCEPT !.state = "new"]
          /\ x1.dtls.state = "new" => x2 = x1
          /\ x1.dtls.state # "new" => x2.srtp.send = "none"
      BY <2>3, LeaveConnected DEF DtlsStates
    <2> HIDE DEF x2
    <2>5. /\ x2 \in Objects /\ Sessions(x2) /\ Reported(x2) /\ x2.dtls \in Dtls
          /\ x2.dtls.state = "new" /\ x2.dtls.fp = x.dtls.fp
      BY <2>3, <2>4, Components DEF Follows, Dtls
    <2>6. x2.srtp.send = "none"
      BY <2>2, <2>3, <2>4
    <2>7. Follows(x2, y) /\ y.dtls = [x2.dtls EXCEPT !.writable = FALSE] /\ y.srtp = x2.srtp
      BY <2>1, <2>5, SetWritableFacts
    <2> HIDE DEF y
    <2>8. y.dtls.state = "new" /\ y.dtls.fp = x.dtls.fp /\ y.srtp.send = "none"
      BY <2>5, <2>6, <2>7 DEF Dtls
    <2>9. Follows(x, y)
      BY <2>2, <2>4, <2>7 DEF Follows
    <2> QED
      BY <2>8, <2>9 DEF y
  <1> QED
    BY <1>2, <1>3

(* What an answer with the fingerprint f leaves *)
LEMMA FingerprintFacts ==
    ASSUME NEW x, Good(x), Started(x), NEW f \in Fps \cup {BadFp}, NEW a \in NewAdapters
    PROVE  LET y == SetRemoteFingerprint(x, f, a)
           IN  /\ Follows(x, y) /\ Handshake(y) /\ Started(y) /\ y.dtls.fp = f
               /\ x.dtls.fp = f => y = x
  <1> DEFINE y == SetRemoteFingerprint(x, f, a)
             x1 == [x EXCEPT !.dtls.fp = f]
             d1 == [x.dtls EXCEPT !.fp = f]
             r == FreshTransport(x1)
             x2 == IF x.dtls.adapter = "absent" \/ x.dtls.fp # NoFp THEN SetupDtls(r, a)
                   ELSE [x1 EXCEPT !.dtls.digest = IF f \in Fps THEN f ELSE @]
  <1>1. x \in Objects /\ Sessions(x) /\ Reported(x) /\ Handshake(x) /\ x.dtls \in Dtls
    BY Components DEF Good
  <1>2. CASE x.dtls.fp = f
    <2>1. y = x
      BY <1>2 DEF SetRemoteFingerprint
    <2> QED
      BY <1>1, <1>2, <2>1 DEF Follows
  <1>3. CASE x.dtls.fp # f
    <2>1. y = IF f = BadFp THEN SetDtlsState(x2, "failed", "ok") ELSE x2
      BY <1>3 DEF SetRemoteFingerprint
    <2>2. f # NoFp /\ f \in Fps \cup {BadFp, NoFp}
      BY FpAssumption
    <2>3. d1 \in Dtls /\ d1.state = x.dtls.state /\ d1.fp = f /\ d1.adapter = x.dtls.adapter
      BY <1>1, <2>2 DEF Dtls
    <2>4. x1 = [x EXCEPT !.dtls = d1]
      BY <1>1, Components
    <2> HIDE DEF d1, x1, y
    <2>5. Follows(x, x1) /\ x1.dtls = d1 /\ x1.srtp = x.srtp
      BY <1>1, <2>3, <2>4, FieldAssigned
    <2>6. x1 \in Objects /\ Sessions(x1) /\ Reported(x1)
      BY <2>5 DEF Follows
    <2>7. x.dtls.state = "new" => x.srtp.send = "none"
      BY <1>1 DEF Handshake, Sessions
    <2>8. /\ Follows(x1, x2) /\ x2.dtls.fp = f
          /\ f # BadFp => Handshake(x2) /\ Started(x2)
          /\ f = BadFp => /\ x2.dtls.state # "failed"
                          /\ x2.dtls.adapter \in NewAdapters
      <3>1. CASE x.dtls.adapter = "absent" \/ x.dtls.fp # NoFp
        <4>1. x2 = SetupDtls(r, a)
          BY <3>1
        <4>2. x.dtls.adapter = "absent" => x.dtls.state = "new"
          BY <1>1 DEF Handshake
        <4>3. Follows(x1, r) /\ r.dtls.fp = f /\ r.dtls.state = "new" /\ r.srtp.send = "none"
          BY <2>3, <2>5, <2>6, <2>7, <4>2, FreshFacts
        <4> HIDE DEF r, x2
        <4>4. r \in Objects /\ Sessions(r) /\ Reported(r)
          BY <4>3 DEF Follows
        <4>5. /\ Follows(r, x2) /\ x2.dtls.fp = f
              /\ f # BadFp => Handshake(x2) /\ Started(x2)
              /\ f = BadFp => x2.dtls.state = "new" /\ x2.dtls.adapter \in NewAdapters
          BY <2>2, <4>1, <4>3, <4>4, SetupFacts
        <4>6. Follows(x1, x2)
          BY <4>3, <4>5 DEF Follows
        <4> QED
          BY <4>5, <4>6
      <3>2. CASE ~(x.dtls.adapter = "absent" \/ x.dtls.fp # NoFp)
        <4> DEFINE g == IF f \in Fps THEN f ELSE x1.dtls.digest
                   d2 == [d1 EXCEPT !.digest = g]
        <4>1. x2 = [x1 EXCEPT !.dtls.digest = g]
          BY <3>2
        <4>2. x.dtls.adapter \notin {"connecting", "connected"} /\ x.dtls.fp = NoFp
          BY <1>1, <3>2, FpAssumption DEF Handshake
        <4>3. g \in Fps \cup {NoFp} /\ (f # BadFp => g = f)
          BY <2>3, <2>5 DEF Dtls
        <4>4. x2 = [x1 EXCEPT !.dtls = d2]
          <5> HIDE DEF g, x2
          <5> QED
            BY <2>5, <2>6, <4>1, Components
        <4> HIDE DEF g, x2
        <4>5. d2 \in Dtls /\ d2.state = d1.state /\ d2.fp = f /\ d2.digest = g
              /\ d2.adapter = d1.adapter
          BY <2>3, <4>3 DEF Dtls
        <4> HIDE DEF d2
        <4>6. Follows(x1, x2) /\ x2.dtls = d2 /\ x2.srtp = x1.srtp
          BY <2>3, <2>5, <2>6, <4>4, <4>5, FieldAssigned
        <4>7. x.dtls.state = "new" /\ x.dtls.adapter \in NewAdapters
          BY <1>1, <3>2, <4>2 DEF Handshake
        <4>8. x2.dtls.state = "new" /\ x2.dtls.adapter \in NewAdapters /\ x2.srtp.send = "none"
          BY <2>3, <2>5, <2>7, <4>5, <4>6, <4>7
        <4>9. ~x.ice.writable /\ x2.ice = x.ice
          BY <1>1, <2>5, <4>2, <4>6 DEF Handshake, Follows
        <4>10. f # BadFp => Handshake(x2) /\ Started(x2)
          BY <2>2, <4>3, <4>5, <4>6, <4>8, <4>9 DEF Handshake, Started, NewAdapters
        <4> QED
          BY <4>5, <4>6, <4>8, <4>10
      <3> QED
        BY <3>1, <3>2
    <2> HIDE DEF x2
    <2>9. CASE f # BadFp
      <3>1. y = x2
        BY <2>1, <2>9
      <3>2. Follows(x, y)
        BY <2>5, <2>8, <3>1 DEF Follows
      <3> QED
        BY <1>3, <2>8, <2>9, <3>1, <3>2 DEF y
    <2>10. CASE f = BadFp
      <3>1. y = SetDtlsState(x2, "failed", "ok")
        BY <2>1, <2>10
      <3>2. x2 \in Objects /\ Sessions(x2) /\ Reported(x2) /\ x2.dtls \in Dtls
        BY <2>8, Components DEF Follows
      <3>3. /\ Follows(x2, y) /\ y.dtls = [x2.dtls EXCEPT !.state = "failed"]
            /\ y.srtp.send = "none"
        BY <2>8, <2>10, <3>1, <3>2, LeaveConnected DEF DtlsStates
      <3>4. Follows(x, y)
        BY <2>5, <2>8, <3>3 DEF Follows
      <3>5. y.dtls.state = "failed" /\ y.dtls.adapter \in NewAdapters /\ y.dtls.fp = BadFp
        BY <2>8, <2>10, <3>2, <3>3 DEF Dtls
      <3>6. Handshake(y) /\ Started(y)
        BY <2>2, <2>10, <3>3, <3>5 DEF Handshake, Started, NewAdapters
      <3> QED
        BY <1>3, <2>10, <3>4, <3>5, <3>6 DEF y
    <2> QED
      BY <2>9, <2>10
  <1> QED
    BY <1>2, <1>3

-----------------------------------------------------------------------------
(* The signals of the channel                                              *)

(* The channel part is replaced                                            *)
LEMMA WithIce ==
    ASSUME NEW x \in Objects, NEW y, NEW c \in Channel, y = [x EXCEPT !.ice = c]
    PROVE  /\ y \in Objects /\ y.ice = c /\ y.dtls = x.dtls /\ y.srtp = x.srtp /\ y.lib = x.lib
           /\ y.up = x.up /\ y.agent = x.agent /\ y.pc = x.pc
  BY Components

(* A channel that still shows its old state changes nothing that was       *)
(* reported                                                                *)
LEMMA IceAssigned ==
    ASSUME NEW x \in Objects, Sessions(x), Reported(x), NEW y,
           NEW c \in Channel, c.state = x.ice.state, y = [x EXCEPT !.ice = c]
    PROVE  /\ y \in Objects /\ Sessions(y) /\ Reported(y)
           /\ y.ice = c /\ y.dtls = x.dtls /\ y.srtp = x.srtp /\ y.lib = x.lib /\ y.up = x.up
           /\ AgentUpdate(y) = y
  <1>1. /\ y \in Objects /\ y.ice = c /\ y.dtls = x.dtls /\ y.srtp = x.srtp /\ y.lib = x.lib
        /\ y.up = x.up /\ y.agent = x.agent /\ y.pc = x.pc
    BY WithIce
  <1>2. Sessions(y) /\ Reported(y)
    BY <1>1 DEF Sessions, Reported, Initialised
  <1>3. AgentUpdate(y) = y
    BY <1>1, <1>2 DEF AgentUpdate, Reported
  <1> QED
    BY <1>1, <1>2, <1>3

(* The new state reaches the agent, and through it the controller *)
LEMMA AgentFacts ==
    ASSUME NEW x \in Objects, Sessions(x), Reported(x), NEW z,
           NEW c \in Channel, c.state # x.ice.state, z = [x EXCEPT !.ice = c]
    PROVE  LET y == AgentUpdate(z)
           IN  /\ y \in Objects /\ Sessions(y) /\ Reported(y)
               /\ y.ice = c /\ y.dtls = x.dtls /\ y.srtp = x.srtp /\ y.lib = x.lib /\ y.up = x.up
  <1> DEFINE y == AgentUpdate(z)
             u == [z EXCEPT !.agent = z.ice.state]
  <1>1. /\ z \in Objects /\ z.ice = c /\ z.dtls = x.dtls /\ z.srtp = x.srtp /\ z.lib = x.lib
        /\ z.up = x.up /\ z.agent = x.agent /\ z.pc = x.pc
    BY WithIce
  <1>2. z.agent # z.ice.state
    BY <1>1 DEF Reported
  <1>3. y = ControllerUpdate(u)
    BY <1>2 DEF AgentUpdate
  <1>4. z.ice.state \in {"new", "checking", "connected", "disconnected", "failed"}
    BY <1>1 DEF Channel
  <1>5. /\ u \in Objects /\ u.agent = z.ice.state /\ u.ice = z.ice /\ u.dtls = z.dtls
        /\ u.srtp = z.srtp /\ u.lib = z.lib /\ u.up = z.up
    BY <1>1, <1>4, Components
  <1> HIDE DEF u
  <1>6. /\ y \in Objects /\ y.dtls = u.dtls /\ y.srtp = u.srtp /\ y.lib = u.lib
        /\ y.up = u.up /\ y.agent = u.agent /\ y.ice = u.ice
        /\ u.up => y.pc = PcState(u.dtls.state, u.ice.state)
    BY <1>3, <1>5, ControllerUpdateFacts
  <1> HIDE DEF y
  <1>7. Sessions(y) /\ Reported(y)
    BY <1>1, <1>5, <1>6 DEF Sessions, Reported, Initialised
  <1> QED
    BY <1>1, <1>5, <1>6, <1>7 DEF y

(* After the channel's writable signal a handshake that can start has      *)
(* started, and nothing that had ended is revived                          *)
LEMMA OnWritableFacts ==
    ASSUME NEW x, Good(x)
    PROVE  LET y == OnWritableState(x)
           IN  /\ Follows(x, y) /\ Handshake(y) /\ Started(y)
               /\ y.dtls.fp = x.dtls.fp /\ StaysEnded(x, y)
  <1> DEFINE y == OnWritableState(x)
  <1>1. x \in Objects /\ Sessions(x) /\ Reported(x) /\ Handshake(x) /\ x.dtls \in Dtls
    BY Components DEF Good
  <1>2. CASE x.dtls.state = "new"
    <2>1. y = MaybeStartDtls(x)
      BY <1>2 DEF OnWritableState
    <2>2. Follows(x, y) /\ Handshake(y) /\ Started(y) /\ y.dtls.fp = x.dtls.fp
      BY <1>2, <2>1, MaybeStartFacts
    <2> HIDE DEF y
    <2> QED
      BY <1>2, <2>2 DEF y, StaysEnded
  <1>3. CASE x.dtls.state = "connected"
    <2> DEFINE w == x.ice.writable
    <2>1. y = SetWritable(x, w)
      BY <1>3 DEF OnWritableState
    <2>2. w \in BOOLEAN
      BY <1>1, Components DEF Channel
    <2> HIDE DEF w, y
    <2>3. Follows(x, y) /\ y.dtls = [x.dtls EXCEPT !.writable = w] /\ y.srtp = x.srtp
      BY <1>1, <2>1, <2>2, SetWritableFacts
    <2>4. /\ y.dtls.state = x.dtls.state /\ y.dtls.adapter = x.dtls.adapter
          /\ y.dtls.fp = x.dtls.fp /\ y.dtls.digest = x.dtls.digest
          /\ y.dtls.hello = x.dtls.hello /\ y.dtls.peer = x.dtls.peer /\ y.dtls.gen = x.dtls.gen
      BY <1>1, <2>3 DEF Dtls
    <2>5. y.ice = x.ice
      BY <2>3 DEF Follows
    <2>6. Handshake(y)
      BY <1>1, <2>3, <2>4, <2>5 DEF Handshake
    <2> QED
      BY <1>3, <2>3, <2>4, <2>6 DEF y, StaysEnded, Started
  <1>4. CASE x.dtls.state \notin {"new", "connected"}
    <2>1. y = x
      BY <1>4 DEF OnWritableState
    <2> QED
      BY <1>1, <1>4, <2>1 DEF Follows, Started, StaysEnded
  <1> QED
    BY <1>2, <1>3, <1>4

(* The receiving signal reaches the controller and changes no state of     *)
(* DTLS                                                                    *)
LEMMA OnReceivingFacts ==
    ASSUME NEW x, Good(x), Started(x)
    PROVE  LET y == OnReceivingState(x)
           IN  /\ Follows(x, y) /\ Handshake(y) /\ Started(y)
               /\ y.dtls.fp = x.dtls.fp /\ y.dtls.state = x.dtls.state
  <1> DEFINE y == OnReceivingState(x)
             w == x.ice.receiving
             d == [x.dtls EXCEPT !.receiving = w]
             u == [x EXCEPT !.dtls.receiving = w]
  <1>1. x \in Objects /\ Sessions(x) /\ Reported(x) /\ Handshake(x) /\ x.dtls \in Dtls
    BY Components DEF Good
  <1>2. CASE y = x
    BY <1>1, <1>2 DEF Follows
  <1>3. CASE y = ControllerUpdate(u)
    <2>1. w \in BOOLEAN
      BY <1>1, Components DEF Channel
    <2>2. u = [x EXCEPT !.dtls = d]
      <3> HIDE DEF w
      <3> QED
        BY <1>1, Components
    <2> HIDE DEF w, u, y
    <2>3. d \in Dtls
      BY <1>1, <2>1 DEF Dtls
    <2>4. /\ d.state = x.dtls.state /\ d.adapter = x.dtls.adapter
          /\ d.fp = x.dtls.fp /\ d.digest = x.dtls.digest
          /\ d.hello = x.dtls.hello /\ d.peer = x.dtls.peer /\ d.gen = x.dtls.gen
      BY <1>1 DEF Dtls
    <2> HIDE DEF d
    <2>5. Follows(x, u) /\ u.dtls = d /\ u.srtp = x.srtp
      BY <1>1, <2>2, <2>3, <2>4, FieldAssigned
    <2>6. /\ u \in Objects /\ Sessions(u) /\ Reported(u)
          /\ u.up = x.up /\ u.agent = x.agent /\ u.ice = x.ice /\ u.lib.others = x.lib.others
      BY <2>5 DEF Follows
    <2>7. /\ y \in Objects /\ y.dtls = u.dtls /\ y.srtp = u.srtp /\ y.lib = u.lib
          /\ y.up = u.up /\ y.agent = u.agent /\ y.ice = u.ice
          /\ u.up => y.pc = PcState(u.dtls.state, u.ice.state)
      BY <1>3, <2>6, ControllerUpdateFacts
    <2>8. Sessions(y) /\ Reported(y)
      BY <2>6, <2>7 DEF Sessions, Reported, Initialised
    <2>9. Follows(x, y)
      BY <2>6, <2>7, <2>8 DEF Follows
    <2>10. Handshake(y)
      BY <1>1, <2>4, <2>5, <2>6, <2>7 DEF Handshake
    <2>11. Started(y)
      BY <2>4, <2>5, <2>6, <2>7 DEF Started
    <2> QED
      BY <2>4, <2>5, <2>7, <2>9, <2>10, <2>11 DEF y
  <1> QED
    BY <1>2, <1>3 DEF OnReceivingState

(* The three stages of what the channel shows while it becomes d *)
LEMMA ChannelStages ==
    ASSUME NEW b \in Channel, NEW d \in Channel
    PROVE  LET c == [d EXCEPT !.state = b.state, !.receiving = b.receiving]
           IN  /\ c \in Channel /\ c.state = b.state /\ c.receiving = b.receiving
               /\ c.writable = d.writable
               /\ [c EXCEPT !.receiving = d.receiving] = [d EXCEPT !.state = b.state]
               /\ d.receiving = b.receiving => c = [d EXCEPT !.state = b.state]
               /\ [d EXCEPT !.state = b.state] \in Channel
               /\ [d EXCEPT !.state = b.state].state = b.state
               /\ [d EXCEPT !.state = b.state].writable = d.writable
               /\ [[d EXCEPT !.state = b.state] EXCEPT !.state = d.state] = d
               /\ d.state = b.state => [d EXCEPT !.state = b.state] = d
  BY DEF Channel

(* A component of the channel is set in the channel as it is *)
LEMMA ChannelField ==
    ASSUME NEW x \in Objects, NEW v
    PROVE  /\ [x EXCEPT !.ice.receiving = v] = [x EXCEPT !.ice = [x.ice EXCEPT !.receiving = v]]
           /\ [x EXCEPT !.ice.state = v] = [x EXCEPT !.ice = [x.ice EXCEPT !.state = v]]
  BY Components

(* x became y while the channel became c: either way the listeners agree,  *)
(* and without a transport nothing but the agent listens                   *)
Signalled(x, y, c) ==
    /\ y \in Objects /\ Sessions(y) /\ Reported(y)
    /\ y.ice = c /\ y.up = x.up /\ y.lib.others = x.lib.others
    /\ y.dtls.fp = x.dtls.fp /\ StaysEnded(x, y)
    /\ x.up => Handshake(y)
    /\ ~x.up => y.dtls = x.dtls /\ y.srtp = x.srtp

(* All the signals of a channel that becomes d, with the transport or, in  *)
(* the destructor, without it                                              *)
LEMMA IceSignalsFacts ==
    ASSUME NEW x \in Objects, Sessions(x), Reported(x), NEW d \in Channel,
           x.up => Handshake(x) /\ Started(x) /\ (d.writable => x.dtls.fp # NoFp)
    PROVE  LET y == IceSignals(x, d)
           IN  Signalled(x, y, d) /\ (x.up => Started(y))
  <1> DEFINE c0 == [d EXCEPT !.state = x.ice.state, !.receiving = x.ice.receiving]
             c1 == [d EXCEPT !.state = x.ice.state]
             x0 == [x EXCEPT !.ice = c0]
             a1 == AgentUpdate(x0)
             x1 == IF d.writable = x.ice.writable THEN x0
                   ELSE IF x.up THEN OnWritableState(a1) ELSE a1
             z1 == [x1 EXCEPT !.ice.receiving = d.receiving]
             a2 == AgentUpdate(z1)
             x2 == IF d.receiving = x.ice.receiving THEN x1
                   ELSE IF x.up THEN OnReceivingState(a2) ELSE a2
             z2 == [x2 EXCEPT !.ice.state = d.state]
             y == IceSignals(x, d)
  <1>1. x.ice \in Channel
    BY Components
  <1>2. /\ c0 \in Channel /\ c0.state = x.ice.state /\ c0.receiving = x.ice.receiving
        /\ c0.writable = d.writable
        /\ [c0 EXCEPT !.receiving = d.receiving] = c1
        /\ d.receiving = x.ice.receiving => c0 = c1
        /\ c1 \in Channel /\ c1.state = x.ice.state /\ c1.writable = d.writable
        /\ [c1 EXCEPT !.state = d.state] = d
        /\ d.state = x.ice.state => c1 = d
    <2>1. ASSUME NEW b \in Channel, b = x.ice
          PROVE  /\ c0 \in Channel /\ c0.state = b.state /\ c0.receiving = b.receiving
                 /\ c0.writable = d.writable
                 /\ [c0 EXCEPT !.receiving = d.receiving] = c1
                 /\ d.receiving = b.receiving => c0 = c1
                 /\ c1 \in Channel /\ c1.state = b.state /\ c1.writable = d.writable
                 /\ [c1 EXCEPT !.state = d.state] = d
                 /\ d.state = b.state => c1 = d
      <3>1. c1 = [d EXCEPT !.state = b.state]
        BY <2>1
      <3>2. c0 = [d EXCEPT !.state = b.state, !.receiving = b.receiving]
        BY <2>1
      <3> HIDE DEF c0, c1
      <3> QED
        BY <3>1, <3>2, ChannelStages
    <2> HIDE DEF c0, c1
    <2> QED
      BY <1>1, <2>1
  <1>3. y = IF d.state = x.ice.state THEN x2 ELSE AgentUpdate(z2)
    BY DEF IceSignals
  <1> HIDE DEF c0, c1, y
  <1>4. /\ Signalled(x, x0, c0) /\ a1 = x0
        /\ x0.dtls = x.dtls /\ x0.srtp = x.srtp
    <2> HIDE DEF x0
    <2>1. /\ x0 \in Objects /\ Sessions(x0) /\ Reported(x0)
          /\ x0.ice = c0 /\ x0.dtls = x.dtls /\ x0.srtp = x.srtp /\ x0.lib = x.lib
          /\ x0.up = x.up /\ a1 = x0
      BY <1>2, IceAssigned DEF x0
    <2>2. x.up => Handshake(x0)
      BY <1>2, <2>1 DEF Handshake
    <2> QED
      BY <2>1, <2>2 DEF Signalled, StaysEnded
  <1> HIDE DEF x0, a1
  <1>5. Signalled(x, x1, c0) /\ (x.up => Started(x1))
    <2>1. CASE d.writable = x.ice.writable
      <3>1. x1 = x0
        BY <2>1
      <3> HIDE DEF x1
      <3>2. x0.ice.writable = x.ice.writable
        BY <1>2, <1>4, <2>1 DEF Signalled
      <3>3. x.up => Started(x0)
        BY <1>4, <3>2 DEF Started
      <3> QED
        BY <1>4, <3>1, <3>3
    <2>2. CASE d.writable # x.ice.writable /\ x.up
      <3>1. x1 = OnWritableState(x0)
        BY <1>4, <2>2
      <3> HIDE DEF x1
      <3>2. Good(x0)
        BY <1>4, <2>2 DEF Signalled, Good
      <3>3. /\ Follows(x0, x1) /\ Handshake(x1) /\ Started(x1)
            /\ x1.dtls.fp = x0.dtls.fp /\ StaysEnded(x0, x1)
        BY <3>1, <3>2, OnWritableFacts
      <3> QED
        BY <1>4, <2>2, <3>3 DEF Signalled, Follows, StaysEnded
    <2>3. CASE d.writable # x.ice.writable /\ ~x.up
      BY <1>4, <2>3
    <2> QED
      BY <2>1, <2>2, <2>3
  <1> HIDE DEF x1
  <1>6. /\ x1 \in Objects /\ Sessions(x1) /\ Reported(x1) /\ x1.ice = c0
    BY <1>5 DEF Signalled
  <1>7. /\ Signalled(x, z1, c1) /\ a2 = z1
        /\ z1.dtls = x1.dtls /\ z1.srtp = x1.srtp
    <2>1. z1 = [x1 EXCEPT !.ice = c1]
      BY <1>2, <1>6, ChannelField
    <2> HIDE DEF z1
    <2>2. /\ z1 \in Objects /\ Sessions(z1) /\ Reported(z1)
          /\ z1.ice = c1 /\ z1.dtls = x1.dtls /\ z1.srtp = x1.srtp /\ z1.lib = x1.lib
          /\ z1.up = x1.up /\ a2 = z1
      BY <1>2, <1>6, <2>1, IceAssigned
    <2>3. x.up => Handshake(z1)
      BY <1>2, <1>5, <1>6, <2>2 DEF Signalled, Handshake
    <2> QED
      BY <1>5, <2>2, <2>3 DEF Signalled, StaysEnded
  <1> HIDE DEF z1, a2
  <1>8. x.up => Started(z1)
    BY <1>2, <1>5, <1>6, <1>7 DEF Started, Signalled
  <1>9. Signalled(x, x2, c1) /\ (x.up => Started(x2))
    <2>1. CASE d.receiving = x.ice.receiving
      BY <1>2, <1>5, <2>1
    <2>2. CASE d.receiving # x.ice.receiving /\ x.up
      <3>1. x2 = OnReceivingState(z1)
        BY <1>7, <2>2
      <3> HIDE DEF x2
      <3>2. Good(z1) /\ Started(z1)
        BY <1>7, <1>8, <2>2 DEF Signalled, Good
      <3>3. /\ Follows(z1, x2) /\ Handshake(x2) /\ Started(x2)
            /\ x2.dtls.fp = z1.dtls.fp /\ x2.dtls.state = z1.dtls.state
        BY <3>1, <3>2, OnReceivingFacts
      <3> QED
        BY <1>7, <2>2, <3>3 DEF Signalled, Follows, StaysEnded
    <2>3. CASE d.receiving # x.ice.receiving /\ ~x.up
      BY <1>7, <2>3
    <2> QED
      BY <2>1, <2>2, <2>3
  <1> HIDE DEF x2
  <1>10. /\ x2 \in Objects /\ Sessions(x2) /\ Reported(x2) /\ x2.ice = c1
    BY <1>9 DEF Signalled
  <1>11. CASE d.state = x.ice.state
    BY <1>2, <1>3, <1>9, <1>11 DEF y
  <1>12. CASE d.state # x.ice.state
    <2>1. y = AgentUpdate(z2)
      BY <1>3, <1>12
    <2>2. z2 = [x2 EXCEPT !.ice = d]
      BY <1>2, <1>10, ChannelField
    <2> HIDE DEF z2
    <2>3. /\ y \in Objects /\ Sessions(y) /\ Reported(y)
          /\ y.ice = d /\ y.dtls = x2.dtls /\ y.srtp = x2.srtp /\ y.lib = x2.lib /\ y.up = x2.up
      BY <1>2, <1>10, <1>12, <2>1, <2>2, AgentFacts
    <2>4. x.up => Handshake(y)
      BY <1>2, <1>9, <1>10, <2>3 DEF Signalled, Handshake
    <2>5. x.up => Started(y)
      BY <1>2, <1>9, <1>10, <2>3 DEF Started
    <2> QED
      BY <1>9, <2>3, <2>4, <2>5 DEF y, Signalled, StaysEnded
  <1> QED
    BY <1>11, <1>12

-----------------------------------------------------------------------------
(* The invariant                                                           *)

(* While the transport is up, everything holds between handlers, and once  *)
(* the peer's parameters are known, so is its fingerprint                  *)
Up ==
    m.up => Handshake(m) /\ Started(m) /\ (m.ice.remote => m.dtls.fp # NoFp)

MediaInv ==
    /\ TypeOK
    /\ Sessions(m) /\ Reported(m)
    /\ m.up <=> phase \in {"open", "undefined"}
    /\ ~m.up => m.srtp.send = "none"
    /\ Up

(* A transport that has ended stays so in a step that keeps fingerprints   *)
EndedStep == m'.dtls.fp = m.dtls.fp => StaysEnded(m, m')

(* set_local_description establishes the invariant                         *)
LEMMA InitMedia == Init => MediaInv
  <1> SUFFICES ASSUME Init PROVE MediaInv
    OBVIOUS
  <1>1. m.ice \in Channel
    BY DEF Init, Channel
  <1>2. m.dtls \in Dtls
    BY DEF Init, Dtls
  <1>3. m.srtp \in Srtp
    BY DEF Init, Srtp
  <1>4. m.lib \in Lib
    BY BoundAssumption DEF Init, Lib
  <1>5. m = [up |-> m.up, dtls |-> m.dtls, srtp |-> m.srtp, lib |-> m.lib,
             agent |-> m.agent, pc |-> m.pc, ice |-> m.ice]
    BY DEF Init
  <1>6. m.up /\ m.agent = "new" /\ m.pc = "new"
    BY DEF Init
  <1>7. m \in Objects
    <2> DEFINE a == m.up
               b == m.dtls
               c == m.srtp
               e == m.lib
               g == m.ice
    <2>1. a \in BOOLEAN /\ b \in Dtls /\ c \in Srtp /\ e \in Lib /\ g \in Channel
      BY <1>1, <1>2, <1>3, <1>4, <1>6
    <2>2. m = [up |-> a, dtls |-> b, srtp |-> c, lib |-> e, agent |-> "new", pc |-> "new",
               ice |-> g]
      BY <1>5, <1>6
    <2> HIDE DEF a, b, c, e, g
    <2> QED
      BY <2>1, <2>2, Components
  <1>8. TypeOK
    BY <1>7, BoundAssumption DEF Init, TypeOK
  <1>9. Sessions(m) /\ Reported(m)
    BY DEF Init, Sessions, Reported, Initialised, Uses, PcState
  <1>10. Up /\ (m.up <=> phase \in {"open", "undefined"}) /\ (~m.up => m.srtp.send = "none")
    BY FpAssumption DEF Init, Up, Handshake, Started
  <1> QED
    BY <1>8, <1>9, <1>10 DEF MediaInv

(* The channel can be writable only when the peer's parameters are known,  *)
(* hence with a fingerprint                                                *)
LEMMA IceChangesMedia == MediaInv /\ IceChanges => MediaInv' /\ EndedStep
  <1> SUFFICES ASSUME MediaInv, IceChanges PROVE MediaInv' /\ EndedStep
    OBVIOUS
  <1>1. PICK d \in Channel :
           MayBecome(m.ice, d) /\ d.remote = m.ice.remote /\ m' = IceSignals(m, d)
    BY DEF IceChanges
  <1>2. m \in Objects /\ Sessions(m) /\ Reported(m)
    BY DEF MediaInv, TypeOK
  <1>3. m.up => Handshake(m) /\ Started(m) /\ (d.writable => m.dtls.fp # NoFp)
    BY <1>1 DEF MediaInv, Up, MayBecome
  <1>4. Signalled(m, m', d) /\ (m.up => Started(m'))
    BY <1>1, <1>2, <1>3, IceSignalsFacts
  <1>5. UNCHANGED <<phase, answers>>
    BY DEF IceChanges
  <1>6. TypeOK' /\ Sessions(m)' /\ Reported(m)' /\ (m.up <=> phase \in {"open", "undefined"})'
    BY <1>4, <1>5 DEF MediaInv, TypeOK, Signalled
  <1>7. (~m.up => m.srtp.send = "none")'
    BY <1>4 DEF MediaInv, Signalled
  <1>8. Up'
    BY <1>1, <1>4 DEF MediaInv, Signalled, Up
  <1> QED
    BY <1>4, <1>6, <1>7, <1>8 DEF MediaInv, EndedStep, Signalled

(* An answer: first the channel, then the fingerprint                      *)
LEMMA SetRemoteSdpMedia ==
    ASSUME NEW f \in Fps \cup {BadFp}, NEW a \in NewAdapters, MediaInv, SetRemoteSdp(f, a)
    PROVE  MediaInv' /\ EndedStep
  <1>1. PICK d \in Channel :
           MayBecome(m.ice, d) /\ d.remote /\ m' = SetRemoteFingerprint(IceSignals(m, d), f, a)
    BY DEF SetRemoteSdp
  <1> DEFINE x == IceSignals(m, d)
  <1>2. m \in Objects /\ Sessions(m) /\ Reported(m) /\ m.up
    BY DEF MediaInv, TypeOK, SetRemoteSdp
  <1>3. m.up => Handshake(m) /\ Started(m) /\ (d.writable => m.dtls.fp # NoFp)
    BY <1>1 DEF MediaInv, Up, MayBecome
  <1>4. Signalled(m, x, d) /\ (m.up => Started(x))
    BY <1>2, <1>3, IceSignalsFacts
  <1>5. m' = SetRemoteFingerprint(x, f, a)
    BY <1>1
  <1> HIDE DEF x
  <1>6. Good(x) /\ Started(x) /\ x.ice = d /\ x.up /\ x.dtls.fp = m.dtls.fp
    BY <1>2, <1>4 DEF Signalled, Good
  <1>7. /\ Follows(x, m') /\ Handshake(m') /\ Started(m') /\ m'.dtls.fp = f
        /\ x.dtls.fp = f => m' = x
    BY <1>5, <1>6, FingerprintFacts
  <1>8. phase' = "open" /\ answers' = answers + 1 /\ answers < MaxAnswers
    BY DEF SetRemoteSdp
  <1>9. m'.up /\ m' \in Objects /\ Sessions(m)' /\ Reported(m)'
    BY <1>6, <1>7 DEF Follows
  <1>10. TypeOK'
    BY <1>8, <1>9, BoundAssumption DEF TypeOK, MediaInv
  <1>11. f # NoFp
    BY FpAssumption
  <1>12. Up'
    BY <1>7, <1>11 DEF Up
  <1>13. EndedStep
    BY <1>4, <1>6, <1>7 DEF EndedStep, Signalled
  <1> QED
    BY <1>8, <1>9, <1>10, <1>12, <1>13 DEF MediaInv

(* A packet is an early ClientHello, input of the adapter, or dropped      *)
LEMMA OnReadPacketMedia ==
    ASSUME NEW p \in Packets, NEW k \in KeyOutcomes, NEW a \in NewAdapters, MediaInv,
           OnReadPacket(p, k, a)
    PROVE  MediaInv' /\ EndedStep
  <1>1. m \in Objects /\ Sessions(m) /\ Reported(m) /\ m.up /\ m.dtls \in Dtls
    BY Components DEF MediaInv, TypeOK, OnReadPacket
  <1>2. Handshake(m) /\ Started(m) /\ (m.ice.remote => m.dtls.fp # NoFp)
    BY <1>1 DEF MediaInv, Up
  <1>3. phase' = phase /\ answers' = answers /\ phase = "open"
    BY DEF OnReadPacket
  <1>4. SUFFICES Follows(m, m') /\ Handshake(m') /\ Started(m') /\ m'.dtls.fp = m.dtls.fp
                 /\ StaysEnded(m, m')
    <2>1. m' \in Objects /\ Sessions(m)' /\ Reported(m)' /\ m'.up /\ m'.ice = m.ice
      BY <1>1, <1>4 DEF Follows
    <2>2. TypeOK'
      BY <1>3, <2>1 DEF TypeOK, MediaInv
    <2>3. Up'
      BY <1>2, <1>4, <2>1 DEF Up
    <2> QED
      BY <1>3, <1>4, <2>1, <2>2, <2>3 DEF MediaInv, EndedStep
  <1> DEFINE h == IF p.kind = "hello" THEN "good" ELSE "bad"
             x == [m EXCEPT !.dtls.hello = h]
  <1>5. \/ m' = m
        \/ m.dtls.state \in {"connecting", "connected"} /\ m' = AdapterInput(m, p, k)
        \/ m.dtls.state = "new" /\ x.dtls.adapter = "absent" /\ m' = SetupDtls(x, a)
        \/ m.dtls.state = "new" /\ m' = x
    BY DEF OnReadPacket
  <1>6. CASE m' = m
    BY <1>1, <1>2, <1>6 DEF Follows, StaysEnded
  <1>7. CASE m.dtls.state \in {"connecting", "connected"} /\ m' = AdapterInput(m, p, k)
    <2>1. Good(m)
      BY <1>1, <1>2 DEF Good
    <2>2. Follows(m, m') /\ Handshake(m') /\ m'.dtls.state # "new" /\ m'.dtls.fp = m.dtls.fp
      BY <1>7, <2>1, AdapterInputFacts
    <2> QED
      BY <1>7, <2>2 DEF Started, StaysEnded
  <1>8. h \in {"none", "good", "bad"}
    OBVIOUS
  <1>9. Follows(m, x) /\ x.srtp = m.srtp /\ x.dtls = [m.dtls EXCEPT !.hello = h]
    <2> HIDE DEF h
    <2> QED
      BY <1>1, <1>8, HelloAssigned
  <1> HIDE DEF x, h
  <1>10. /\ x.dtls.state = m.dtls.state /\ x.dtls.adapter = m.dtls.adapter
         /\ x.dtls.fp = m.dtls.fp /\ x.dtls.digest = m.dtls.digest
         /\ x.dtls.peer = m.dtls.peer /\ x.dtls.gen = m.dtls.gen
    BY <1>1, <1>9 DEF Dtls
  <1>11. x \in Objects /\ Sessions(x) /\ Reported(x) /\ x.ice = m.ice
    BY <1>9 DEF Follows
  <1>12. CASE m.dtls.state = "new" /\ m' = x
    <2>1. Handshake(x) /\ Started(x)
      BY <1>2, <1>9, <1>10, <1>11, <1>12 DEF Handshake, Started
    <2> QED
      BY <1>9, <1>10, <1>12, <2>1 DEF StaysEnded
  <1>13. CASE m.dtls.state = "new" /\ x.dtls.adapter = "absent" /\ m' = SetupDtls(x, a)
    <2>1. x.dtls.fp = NoFp /\ x.srtp.send = "none" /\ ~x.ice.writable
      BY <1>1, <1>2, <1>9, <1>10, <1>11, <1>13 DEF Handshake, Sessions
    <2>2. /\ Follows(x, m') /\ m'.dtls.fp = x.dtls.fp
          /\ x.dtls.fp # BadFp => Handshake(m') /\ Started(m')
      BY <1>10, <1>11, <1>13, <2>1, SetupFacts
    <2>3. x.dtls.fp # BadFp
      BY <2>1, FpAssumption
    <2>4. Follows(m, m')
      BY <1>9, <2>2 DEF Follows
    <2> QED
      BY <1>10, <1>13, <2>2, <2>3, <2>4 DEF StaysEnded
  <1> QED
    BY <1>5, <1>6, <1>7, <1>12, <1>13

(* Sessions of others come and go: x is what libsrtp's counter makes of    *)
(* the objects, n the number of the others afterwards                      *)
LEMMA OthersMedia ==
    ASSUME MediaInv, UNCHANGED <<phase, answers>>, NEW n \in 0 .. MaxOthers,
           NEW x \in Objects, x.dtls = m.dtls, x.srtp = m.srtp, SameRest(m, x),
           x.lib.count = m.lib.count - m.lib.others + n, Initialised(x),
           m' = [x EXCEPT !.lib.others = n]
    PROVE  MediaInv' /\ EndedStep
  <1> DEFINE l == [x.lib EXCEPT !.others = n]
  <1>1. Sessions(m) /\ Reported(m) /\ m.lib \in Lib /\ x.lib \in Lib
    BY Components DEF MediaInv, TypeOK
  <1>2. m' = [x EXCEPT !.lib = l]
    BY Components
  <1>3. l \in Lib /\ l.count = x.lib.count /\ l.others = n
    BY <1>1 DEF Lib
  <1>4. l.ready = x.lib.ready
    BY <1>1 DEF Lib
  <1> HIDE DEF l
  <1>5. /\ m' \in Objects /\ m'.lib = l /\ m'.dtls = x.dtls /\ m'.srtp = x.srtp
        /\ SameRest(x, m')
    BY <1>2, <1>3, Components DEF SameRest
  <1>6. m'.dtls = m.dtls /\ m'.srtp = m.srtp /\ SameRest(m, m')
    BY <1>5 DEF SameRest
  <1>7. Sessions(m)'
    <2>1. m.lib.count \in Int /\ m.lib.others \in Int
      BY <1>1 DEF Lib
    <2> QED
      BY <1>1, <1>3, <1>4, <1>5, <1>6, <2>1 DEF Sessions, Initialised, Uses
  <1>8. Reported(m)'
    BY <1>1, <1>6 DEF Reported, SameRest
  <1>9. Up'
    BY <1>6 DEF MediaInv, Up, Handshake, Started, SameRest
  <1> QED
    BY <1>5, <1>6, <1>7, <1>8, <1>9
    DEF MediaInv, TypeOK, SameRest, EndedStep, StaysEnded

(* A session of another peer connection starts                             *)
LEMMA OtherSessionStartsMedia == MediaInv /\ OtherSessionStarts => MediaInv' /\ EndedStep
  <1> SUFFICES ASSUME MediaInv, OtherSessionStarts PROVE MediaInv' /\ EndedStep
    OBVIOUS
  <1> DEFINE x == Increment(m, "ok")
             n == x.lib.others + 1
  <1>1. m \in Objects /\ m.lib \in Lib
    BY Components DEF MediaInv, TypeOK
  <1>2. /\ x \in Objects /\ x.dtls = m.dtls /\ x.srtp = m.srtp /\ SameRest(m, x)
        /\ x.lib.count = m.lib.count + 1
        /\ x.lib.others = m.lib.others
        /\ Initialised(x)
    <2>1. UsageGranted(m, "ok") /\ "ok" \in KeyOutcomes
      BY DEF UsageGranted, KeyOutcomes
    <2> QED
      BY <1>1, <2>1, IncrementFacts DEF Initialised
  <1>3. /\ m' = [x EXCEPT !.lib.others = n] /\ m.lib.others < MaxOthers
        /\ UNCHANGED <<phase, answers>>
    BY DEF OtherSessionStarts
  <1> HIDE DEF x
  <1>4. n \in 0 .. MaxOthers /\ x.lib.count = m.lib.count - m.lib.others + n
    BY <1>1, <1>2, <1>3, BoundAssumption DEF Lib
  <1> HIDE DEF n
  <1> QED
    BY <1>2, <1>3, <1>4, OthersMedia

(* A session of another peer connection ends                               *)
LEMMA OtherSessionEndsMedia == MediaInv /\ OtherSessionEnds => MediaInv' /\ EndedStep
  <1> SUFFICES ASSUME MediaInv, OtherSessionEnds PROVE MediaInv' /\ EndedStep
    OBVIOUS
  <1> DEFINE x == Decrement(m)
             n == x.lib.others - 1
  <1>1. m \in Objects /\ m.lib \in Lib
    BY Components DEF MediaInv, TypeOK
  <1>2. /\ x \in Objects /\ x.dtls = m.dtls /\ x.srtp = m.srtp /\ SameRest(m, x)
        /\ x.lib.count = m.lib.count - 1
        /\ x.lib.others = m.lib.others
        /\ x.lib.ready <=> m.lib.count > 1
    BY <1>1, DecrementFacts
  <1>3. /\ m' = [x EXCEPT !.lib.others = n] /\ m.lib.others > 0
        /\ UNCHANGED <<phase, answers>>
    BY DEF OtherSessionEnds
  <1> HIDE DEF x
  <1>4. n \in 0 .. MaxOthers /\ x.lib.count = m.lib.count - m.lib.others + n
    BY <1>1, <1>2, <1>3, BoundAssumption DEF Lib
  <1>5. Initialised(x)
    BY <1>1, <1>2 DEF Initialised, Lib
  <1> HIDE DEF n
  <1> QED
    BY <1>2, <1>3, <1>4, <1>5, OthersMedia

(* ~TransportController gives back what the sessions hold                  *)
LEMMA DestroyTimerMedia == MediaInv /\ DestroyTimer => MediaInv' /\ EndedStep
  <1> SUFFICES ASSUME MediaInv, DestroyTimer PROVE MediaInv' /\ EndedStep
    OBVIOUS
  <1> DEFINE x == ResetParams(m)
             d == [x.dtls EXCEPT !.adapter = "absent"]
  <1>1. m \in Objects /\ Sessions(m) /\ Reported(m) /\ m.lib \in Lib
    BY Components DEF MediaInv, TypeOK
  <1>2. /\ x \in Objects /\ x.dtls = m.dtls
        /\ SameRest(m, x)
        /\ x.srtp.send = "none" /\ x.srtp.recv = "none"
        /\ x.lib.count = m.lib.count - Uses(m.srtp.send) - Uses(m.srtp.recv)
        /\ x.lib.others = m.lib.others
        /\ Initialised(x)
    <2>1. Initialised(m)
      BY <1>1 DEF Sessions
    <2> QED
      BY <1>1, <2>1, ResetParamsFacts
  <1>3. m' = [x EXCEPT !.up = FALSE, !.dtls.adapter = "absent"] /\ phase' = "closing"
        /\ answers' = answers
    BY DEF DestroyTimer
  <1> HIDE DEF x
  <1>4. x.dtls \in Dtls
    BY <1>2, Components
  <1>5. d \in Dtls /\ d.state = m.dtls.state
    BY <1>2, <1>4 DEF Dtls
  <1>6. m' = [x EXCEPT !.up = FALSE, !.dtls = d]
    BY <1>2, <1>3, Components
  <1> HIDE DEF d
  <1>7. /\ m' \in Objects /\ m'.dtls = d /\ m'.srtp = x.srtp /\ m'.lib = x.lib
        /\ m'.agent = x.agent /\ m'.ice = x.ice
    BY <1>2, <1>5, <1>6, Components
  <1>8. ~m'.up
    BY <1>2, <1>6, Components
  <1>9. Sessions(m)'
    <2>1. m.lib.count \in Int /\ m.lib.others \in Int
      BY <1>1 DEF Lib
    <2> QED
      BY <1>1, <1>2, <1>7, <2>1 DEF Sessions, Initialised, Uses
  <1>10. Reported(m)'
    BY <1>1, <1>2, <1>7, <1>8 DEF Reported, SameRest
  <1>11. TypeOK'
    BY <1>3, <1>7 DEF MediaInv, TypeOK
  <1> QED
    BY <1>2, <1>3, <1>5, <1>7, <1>8, <1>9, <1>10, <1>11 DEF MediaInv, Up, EndedStep, StaysEnded

(* Every step keeps the invariant and what has ended *)
LEMMA NextMedia == MediaInv /\ [Next]_vars => MediaInv' /\ EndedStep
  <1> SUFFICES ASSUME MediaInv, [Next]_vars PROVE MediaInv' /\ EndedStep
    OBVIOUS
  <1>1. CASE IceChanges
    BY <1>1, IceChangesMedia
  <1>2. CASE \E f \in Fps \cup {BadFp}, a \in NewAdapters : SetRemoteSdp(f, a)
    BY <1>2, SetRemoteSdpMedia
  <1>3. CASE SetRemoteSdpNoFingerprint
    BY <1>3, BoundAssumption
    DEF SetRemoteSdpNoFingerprint, MediaInv, TypeOK, Up, EndedStep, StaysEnded
  <1>4. CASE \E p \in Packets, k \in KeyOutcomes, a \in NewAdapters : OnReadPacket(p, k, a)
    BY <1>4, OnReadPacketMedia
  <1>5. CASE OtherSessionStarts
    BY <1>5, OtherSessionStartsMedia
  <1>6. CASE OtherSessionEnds
    BY <1>6, OtherSessionEndsMedia
  <1>7. CASE DestroyTimer
    BY <1>7, DestroyTimerMedia
  <1>8. CASE AgentDeleted
    BY <1>8 DEF AgentDeleted, MediaInv, TypeOK, Up, EndedStep, StaysEnded
  <1>9. CASE UNCHANGED vars
    BY <1>9 DEF vars, MediaInv, TypeOK, Up, EndedStep, StaysEnded
  <1> QED
    BY <1>1, <1>2, <1>3, <1>4, <1>5, <1>6, <1>7, <1>8, <1>9 DEF Next

(* The invariant holds whatever the order of answers, packets, changes of  *)
(* the channel, sessions of others and the destroy timer                   *)
THEOREM MediaInvariant == Spec => []MediaInv
  <1>1. MediaInv /\ [Next]_vars => MediaInv'
    BY NextMedia
  <1> QED
    BY <1>1, InitMedia, PTL DEF Spec

(* Media is only protected with keys agreed, in the handshake of the       *)
(* present adapter, with the holder of the certificate that the latest     *)
(* answer names; and everything has its type (set_rtp_params,              *)
(* set_remote_fingerprint)                                                 *)
THEOREM KeysMatch == Spec => []KeysMatchPeer
  <1>1. MediaInv => KeysMatchPeer
    BY DEF MediaInv, KeysMatchPeer, SrtpActive, Sessions, Up, Handshake
  <1> QED
    BY <1>1, MediaInvariant, PTL

(* The handshake has started as soon as the fingerprint is there and the   *)
(* channel is writable, without a cached ClientHello left behind, and      *)
(* never runs without the digest of the answer (_maybe_start_dtls)         *)
THEOREM StartsInTime == Spec => []StartsWhenReady
  <1>1. MediaInv => StartsWhenReady
    BY DEF MediaInv, StartsWhenReady, Up, Handshake, Started
  <1> QED
    BY <1>1, MediaInvariant, PTL

(* The state last signalled to the stream is the one that follows from the *)
(* states of ICE and DTLS (TransportController::_update_state)             *)
THEOREM ReportsState == Spec => []PcStateAccurate
  <1>1. MediaInv => PcStateAccurate
    BY DEF MediaInv, PcStateAccurate, Reported
  <1> QED
    BY <1>1, MediaInvariant, PTL

(* A connected peer connection has its SRTP keys, unless their             *)
(* installation failed or the peer has closed DTLS                         *)
(* (_maybe_setup_dtls_srtp)                                                *)
THEOREM ConnectedIsProtected == Spec => []ConnectedHasKeys
  <1>1. MediaInv => ConnectedHasKeys
    <2> SUFFICES ASSUME MediaInv, phase = "open", m.pc = "connected"
                 PROVE  SrtpActive(m) \/ m.srtp.failed \/ m.dtls.state = "closed"
      BY DEF ConnectedHasKeys
    <2>1. m.up /\ Reported(m) /\ Handshake(m) /\ Sessions(m)
      BY DEF MediaInv, Up
    <2>2. PcState(m.dtls.state, m.ice.state) = "connected"
      BY <2>1 DEF Reported
    <2>3. m.dtls.state \in DtlsStates
      BY Components DEF MediaInv, TypeOK, Dtls, DtlsStates
    <2>4. m.dtls.state \in {"connected", "closed"}
      BY <2>2, <2>3 DEF PcState, DtlsStates
    <2> QED
      BY <2>1, <2>4 DEF Handshake, SrtpActive, Sessions
  <1> QED
    BY <1>1, MediaInvariant, PTL

(* libsrtp's usage count is the number of sessions that use the library,   *)
(* and while it is positive the library is initialised (SrtpSession)       *)
THEOREM LibraryCounted == Spec => []LibsrtpCounted
  <1>1. MediaInv => LibsrtpCounted
    <2> SUFFICES ASSUME MediaInv PROVE LibsrtpCounted
      OBVIOUS
    <2> DEFINE used == {s \in {"send", "recv"} : m.srtp[s] \in {"inited", "keyed"}}
    <2>1. Sessions(m) /\ m.lib \in Lib
      BY Components DEF MediaInv, TypeOK
    <2>2. CASE m.srtp.send = "none"
      <3>1. used = {}
        BY <2>1, <2>2 DEF Sessions
      <3>2. InUse = 0
        BY <3>1, FS_EmptySet DEF InUse
      <3> QED
        BY <2>1, <2>2, <3>2 DEF LibsrtpCounted, Sessions, Uses, Initialised, Lib
    <2>3. CASE m.srtp.send = "keyed"
      <3>1. used = {"send"} \cup {"recv"}
        BY <2>1, <2>3 DEF Sessions
      <3>2. IsFiniteSet({"send"}) /\ Cardinality({"send"}) = 1
        BY FS_Singleton
      <3>3. Cardinality({"send"} \cup {"recv"}) = 2
        BY <3>2, FS_AddElement
      <3>4. InUse = 2
        BY <3>1, <3>3 DEF InUse
      <3> QED
        BY <2>1, <2>3, <3>4 DEF LibsrtpCounted, Sessions, Uses, Initialised, Lib
    <2> QED
      BY <2>1, <2>2, <2>3 DEF Sessions
  <1> QED
    BY <1>1, MediaInvariant, PTL

(* A failed or closed DTLS transport stays so until an answer brings       *)
(* another fingerprint (_on_writable_state, _on_read_packet)               *)
THEOREM EndedForGood == Spec => EndedUntilNewFingerprint
  <1>1. MediaInv /\ [Next]_vars =>
          [m.dtls.state \in {"failed", "closed"} /\ m'.dtls.state # m.dtls.state
             => m'.dtls.fp # m.dtls.fp]_vars
    BY NextMedia DEF EndedStep, StaysEnded
  <1> QED
    BY <1>1, MediaInvariant, PTL DEF Spec, EndedUntilNewFingerprint
=============================================================================
