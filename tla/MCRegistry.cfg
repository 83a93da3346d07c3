\* Registrations that collide, supersede each other and expire, with mail and a listener.
SPECIFICATION Spec
CONSTANTS
    w1 = w1  w2 = w2  w3 = w3
    alice = alice  bob = bob  r1 = r1  r2 = r2
    c1 = c1  c2 = c2  s1 = s1  s2 = s2  s3 = s3  None = None
    WorkerIds = {w1, w2}
    Names = {alice, bob}
    Roles = {r1, r2}
    Ttls = {0, 1, 2}
    Statuses = {}
    Registrations <- Colliding
    Clients = {c1}
    ListensAs <- FirstAny
    NotifyIds = {1, 2, 3}
    MessageHistoryMax = 0
    EventHistoryMax = 0
    StatusHistoryMax = 0
    MaxNow = 2
    MaxMsgs = 1
INVARIANTS NoPartialState PromptBelongs NoLostWakeup
PROPERTIES RemovalJustified FreshStart MailOnlyToLive
