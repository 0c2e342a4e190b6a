CONSTANTS
    SeqMod = 4
    RemotePort = 80
    MaxLocalPort = 1
    None = None
    ClientISN = {0}
    PeerISS = 2
    MaxData = 1
    MaxPeerData = 1
    NetCap = 3
    MaxLoss = 2
    MaxDup = 1
    DupSynReply = "SYN_ACK"
    SlowNetwork = FALSE
SPECIFICATION LiveSpec
PROPERTIES ConnectionEnds GracefulClose
