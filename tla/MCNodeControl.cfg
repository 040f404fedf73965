SPECIFICATION FairSpec
CONSTANTS
    none = none
    house = house
    padded = padded
    u1 = u1
    u2 = u2
    off = off
    on = on
    invalid = invalid
    LabelValue <- Labels
    NoLabel = none
    Trim <- TrimLabel
    UniverseValue <- Universes
    IdentifyValue = {off, on}
    InvalidValue = invalid
    Packet <- ControlPacket
    UiLabel = {none, house, padded}
    UiUniverse = {u2}
    PacketBudget = 2
    MAX_SET_TIDS_PER_PACKET = 1
    CountMod = 2
INVARIANT TypeOK
PROPERTIES
    
    ForgottenOnlyBlindly
    LabelReachesManager
