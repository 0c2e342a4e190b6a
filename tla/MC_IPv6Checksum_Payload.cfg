CONSTANTS
    Bytes = {0, 128, 255}
    MaxLen = 3
    Addresses <- MCAddresses
    Proto = 58
    SizeofPacket = 54
SPECIFICATION Spec
INVARIANT PacketChecksumVerifies
