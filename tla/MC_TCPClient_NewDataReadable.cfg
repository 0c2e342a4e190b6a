CONSTANTS
    SeqMod = 2
    RemotePort = 80
    MaxLocalPort = 1
    None = None
    OtherPort = 81
    InFlags = {{"SYN", "ACK"}, {"ACK"}, {"FIN", "ACK"}, {"RST"}, {"SYN"}}
    DataLens = {1}
    Idle = {FALSE}
    ForeignFlags = {{"SYN", "ACK"}, {"ACK"}, {"FIN", "ACK"}, {"RST"}, {"SYN"}}
SPECIFICATION Spec
CONSTRAINT OneRttSample
INVARIANT
    NewDataReadable
