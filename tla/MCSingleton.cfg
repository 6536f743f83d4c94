SPECIFICATION Spec
CONSTANTS
    r1 = r1
    Nodes = {1, 2, 3}
    Requests = {r1}
    Clusters <- MCClusters
INVARIANTS OneNode
PROPERTIES  Failover
CHECK_DEADLOCK FALSE
