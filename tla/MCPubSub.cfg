SPECIFICATION Spec
CONSTANTS
    a = a
    b = b
    c = c
    s = s
    m1 = m1
    m2 = m2
    m3 = m3
    Nodes = {a, b, c}
    Subscribers = {s}
    Home <- MCHome
    Messages = {m1, m2, m3}
    Origin <- MCOrigin
    Links <- MCLinks
    Reach <- MCReach
    Capacity = 2
    MaxChanges = 3
INVARIANTS NoGaps BroadcastOnce
PROPERTIES MediatorFollowsDiscovery 
CHECK_DEADLOCK FALSE
