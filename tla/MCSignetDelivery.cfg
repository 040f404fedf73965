SPECIFICATION Spec
CONSTANTS
    a = a
    b = b
    c = c
    console = console
    dimmer = dimmer
    Zeroed = Zeroed
    Sender = {console}
    PinnedTuid = {}
    Tuid = {a, b}
    SenderId <- TwoEndpoints
    SlotCount = 2
    ReclaimAge = 2
    TickMod = 3
    MaxSession = 3
    MaxSequence = 3
    MaxTransmissions = 4
SYMMETRY Devices
INVARIANTS
    TypeOK
    PairsFollowTransmission
    DeliveredInOrderOnce
    LatestServed
