SPECIFICATION Spec
CONSTANTS
    Nodes = {h, m}
    Shards = {s}
    NoNode = NoNode
    Requests = {r1, r2}
    Stops = {i1, i2}
    Hosts = {h}
    MaxArrivals = 2
INVARIANTS
    OnePlace
    BufferHasWakeup
    
CHECK_DEADLOCK FALSE
