\* A browser on a channel that keeps one event, and a user who asks for the
\* last second again and again, with answers of one event.  Two heartbeats.
SPECIFICATION MCSpec
CONSTANTS
    None = None
    Workers = {w1}
    Browsers = {b1}
    Capacity = 1
    EventMax = 2
    MessageMax = 1
    DefaultLimit = 1
    Window = 1
    WordMax = 100
    MaxEvents = 3
    MaxNow = 2
    often = often
    seldom = seldom
    Heartbeats = {often, seldom}
    Every <- MCEvery
    After <- MCAfter
    Age = 4
INVARIANTS TypeOK FollowerMissesNothing TimersWindDown
PROPERTIES StreamCatchesUp Spaced KeepsFiring
