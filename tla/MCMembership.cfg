SPECIFICATION Spec
CONSTANTS
    p = p
    Self = self
    None = None
    Peers = {p}
    age <- MCAge
    minimum_size = 1
    MaxChanges = 2
INVARIANTS OneHandshakePerNode
PROPERTIES EldestLeads 
CHECK_DEADLOCK FALSE
