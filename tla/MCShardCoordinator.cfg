SPECIFICATION Spec
CONSTANTS
    Nodes = {n1, n2, n3}
    Shards = {s1, s2, s3, s4}
    NoNode = NoNode
    MaxEvents = 3
    MaxLog = 4
SYMMETRY Symmetry
INVARIANTS
    OneAssignment
    AssignedToReady
    AllocatedIsJournalled
    FairlyAllocated

    
CHECK_DEADLOCK FALSE
