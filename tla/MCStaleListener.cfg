\* A worker expires during its own long poll and registers again.
SPECIFICATION Spec
CONSTANTS
    w1 = w1  w2 = w2  w3 = w3
    alice = alice  bob = bob  r1 = r1  r2 = r2
    c1 = c1  c2 = c2  s1 = s1  s2 = s2  s3 = s3  None = None
    WorkerIds = {w1}
    Names = {alice, bob}
    Roles = {r1, r2}
    Ttls = {0, 1, 2}
    Statuses = {}
    Registrations <- OneAgent
    Clients = {c1}
    ListensAs <- FirstOnly
    NotifyIds = {1, 2, 3}
    MessageHistoryMax = 0
    EventHistoryMax = 0
    StatusHistoryMax = 0
    MaxNow = 1
    MaxMsgs = 1
INVARIANTS ListenerWoken
