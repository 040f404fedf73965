SPECIFICATION Spec
CONSTANTS
    a = a
    b = b
    Tuid = {a, b}
    SenderId <- Endpoints
    MaxSequence = 3
    MaxTransmissions = 5
    KeepAliveMs = 2
    TxLag = 1
    MaxLevel = 2
    BadFrameInterval = {1, 2}
INVARIANTS
    TransmitterTypeOK
    ReceiversKeptAlive
PROPERTIES
    BadFramesSpaced
    StampsInSequence
