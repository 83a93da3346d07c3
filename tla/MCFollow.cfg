\* A user follows the log from the newest event on; two workers exchange
\* messages.
SPECIFICATION Spec
CONSTANTS
    None = None
    Workers = {w1, w2}
    Browsers = {}
    Capacity = 2
    EventMax = 2
    MessageMax = 2
    DefaultLimit = 1
    Window = None
    WordMax = 100
    MaxEvents = 3
    MaxNow = 1
INVARIANTS EventsAnswered MessagesAnswered
