SPECIFICATION Spec
CONSTANTS
    console = console
    manager = manager
    SenderId = {console, manager}
    MaxPair = 2
    SECURITY_EVENT_MIN_INTERVAL_MS = 2
    TickMod = 5
INVARIANTS
    ReceiveTypeOK
    TickIsAge
    FloorIsAuthentic
PROPERTIES
    EventsSpaced
    EventsNotSwallowed
