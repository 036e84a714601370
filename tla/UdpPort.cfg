SPECIFICATION FairSpec
CONSTANTS
    Addrs = {a1, a2}
    Ufrags = {"u1", "u2"}
    NoUser = NoUser
    Media = Media
    MyUfrag = "me"
    MyPwd = "mine"
    PeerPwd = "theirs"
    UfragLength = 4
    MaxRecv = 2
    MaxSends = 2
    Inputs <- MCInputs
    Datagram <- Datagrams
INVARIANTS NoStrandedDatagram SentMessagesVerify RepliesMatch OneUserPerAddress
PROPERTIES ImplementsLossyFifo NoDatagramWaitsForever WriteWatchEnds
