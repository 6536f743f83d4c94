SPECIFICATION Spec
CONSTANTS
    NanosPerSecond = 2
    Media = {"session", "client", "journal", "proto"}
    Values <- MCValues
    Inner <- MCInner
    MaxSent = 2
    LaterField <- MCLaterField
INVARIANTS ReadIsWritten 
CHECK_DEADLOCK FALSE
