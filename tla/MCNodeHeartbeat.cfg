SPECIFICATION Spec
CONSTANTS
    none = none
    house = house
    padded = padded
    u1 = u1
    u2 = u2
    off = off
    on = on
    invalid = invalid
    LabelValue <- Labels
    NoLabel = none
    Trim <- TrimLabel
    UniverseValue <- Universes
    IdentifyValue = {off, on}
    InvalidValue = invalid
    Packet <- HeartbeatPacket
    UiLabel = {house}
    UiUniverse = {}
    PacketBudget = 1
    MAX_SET_TIDS_PER_PACKET = 32
    CountMod = 2
INVARIANT UnknownValueIsStale
