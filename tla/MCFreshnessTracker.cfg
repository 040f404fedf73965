SPECIFICATION TrackerSpec
CONSTANTS
    a = a
    b = b
    c = c
    Zeroed = Zeroed
    Tuid <- CrowdedTuid
    SenderId <- CrowdedSenderId
    SlotCount = 2
    ReclaimAge = 2
    TickMod = 3
    MaxSession = 1
    MaxSequence = 0
SYMMETRY CrowdedSymmetry
INVARIANTS
    TrackerTypeOK
    UniqueTracks
    RecentlyHeardTracked
    QuietTableHasRoom
    KnownSenderServed
PROPERTY KeepsPromise
