SPECIFICATION Spec
CONSTANTS
    Message <- SomeMessages
    CutLength <- SomeCuts
    MAX_UDP_PAYLOAD = 1400
CHECK_DEADLOCK FALSE
INVARIANTS
    CodecTypeOK
    FitsOrFails
    ParsedAsBuilt
    FinderAgrees
