CONSTANTS
    SeqMod = 5
    RemotePort = 80
    MaxLocalPort = 1
    None = None
    ClientISN = {0}
    PeerISS = 2
    MaxData = 2
    MaxPeerData = 1
    NetCap = 2
    MaxLoss = 1
    MaxDup = 1
    DupSynReply = "SYN_ACK"
    SlowNetwork = TRUE
SPECIFICATION SysSpec
CONSTRAINT SysOneRttSample
INVARIANTS
    
    SeqAgreement
PROPERTIES
    ImplementsConnection
