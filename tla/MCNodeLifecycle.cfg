SPECIFICATION Spec
CONSTANTS
    NODE_LOST_THRESHOLD_MS = 3
    POLL_TIME_MS = 2
    TimerLag = 1
    TickMod = 8
INVARIANTS
    LifecycleTypeOK
    LostMeansSilent
    SilenceIsNoticed
    AnnouncesKeepComing
PROPERTIES
    AnnouncesSpaced
