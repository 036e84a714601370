------------------------------ MODULE MCUdpPort ------------------------------
(* UdpPort with one datagram of each kind the handlers tell apart, built   *)
(* with the codec the peer would use                                       *)
EXTENDS UdpPort

Signed(m, pwd) == Write(AddFingerprint(AddMessageIntegrity(m, pwd)))

Named(u, v) ==
    AddAttribute(NewMessage("request"), Attribute("USERNAME", 2 * UfragLength + 1, <<u, v>>))

WithPriority(m) == AddAttribute(m, Attribute("PRIORITY", 4, <<>>))

Request(u, v, pwd) == Signed(WithPriority(Named(u, v)), pwd)

MCInputs ==
    {Media,
     Signed(NewMessage("response"), PeerPwd),
     Write(AddFingerprint(WithPriority(Named(MyUfrag, "u1")))),    \* not signed
     Signed(WithPriority(NewMessage("request")), MyPwd),           \* no USERNAME
     Request("other", "u1", MyPwd),                                \* for somebody else
     Request(MyUfrag, "u1", PeerPwd),                              \* the wrong password
     Signed(Named(MyUfrag, "u1"), MyPwd),                          \* no PRIORITY
     [Request(MyUfrag, "u1", MyPwd) EXCEPT !.length = 0]}          \* a corrupt header
    \cup {Request(MyUfrag, u, MyPwd) : u \in Ufrags}
=============================================================================
