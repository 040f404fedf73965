SPECIFICATION Spec
CONSTANTS
    RepeatMs = {1, 2}
    JitterMs = {1}
    MaxRepeat = 2
    MaxJitter = 1
    PollerLag = 0
    NODE_LOST_THRESHOLD_MS = 7
    POLL_TIME_MS = 3
    TimerLag = 1
    TickMod = 10
    MaxLost = 1
VIEW View
INVARIANTS
    PollerTypeOK
    RepeatingPolls
    PolledNodeIsNotLost
