\* A user who asks for what is new since the newest event seen, on a history
\* with more events than an answer gives.
SPECIFICATION Spec
CONSTANTS
    None = None
    Workers = {w1}
    Browsers = {}
    Capacity = 1
    EventMax = 3
    MessageMax = 1
    DefaultLimit = 2
    Window = None
    WordMax = 100
    MaxEvents = 4
    MaxNow = 3
INVARIANTS NothingCut
