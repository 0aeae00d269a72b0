SPECIFICATION Spec
CONSTANTS
    BadHex = BadHex
    None = None
    Buffers <- MCBuffers
    MaxRecords = 3
INVARIANTS Framed IdentityOfPacket WalksAgree
