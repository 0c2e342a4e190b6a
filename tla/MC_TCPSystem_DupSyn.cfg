CONSTANTS
    SeqMod = 4
    RemotePort = 80
    MaxLocalPort = 1
    None = None
    ClientISN = {0}
    PeerISS = 2
    MaxData = 1
    MaxPeerData = 1
    NetCap = 2
    MaxLoss = 1
    MaxDup = 1
    DupSynReply = "ACK"
    SlowNetwork = TRUE
SPECIFICATION SysSpec
CONSTRAINT SysOneRttSample
INVARIANT
    SeqAgreement
