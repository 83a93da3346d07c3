\* Two connections that listen as one worker, another worker, leases that end,
\* acknowledgements and a history of one message.
SPECIFICATION Spec
CONSTANTS
    w1 = w1  w2 = w2  w3 = w3
    alice = alice  bob = bob  r1 = r1  r2 = r2
    c1 = c1  c2 = c2  s1 = s1  s2 = s2  s3 = s3  None = None
    WorkerIds = {w1, w2}
    Names = {alice, bob}
    Roles = {r1, r2}
    Ttls = {0, 1, 2}
    Statuses = {}
    Registrations <- TwoAgents
    Clients = {c1, c2}
    ListensAs <- SameWorker
    NotifyIds = {1, 2, 3}
    MessageHistoryMax = 1
    EventHistoryMax = 0
    StatusHistoryMax = 0
    MaxNow = 1
    MaxMsgs = 2
SYMMETRY ClientSymmetry
INVARIANTS TypeOK AtMostOnce DeliveredInOrder BooksAgree AckByRecipient
PROPERTIES ImplementsMailboxes
