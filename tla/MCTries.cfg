SPECIFICATION Spec
CONSTANTS
    Nibbles <- MCNibbles
    PathLimit = 3
    MPT_HASH_LENGTH = 32
    Keys <- MCKeys
    Values <- MCValues
    MaxEntries = 4
    MaxUpdates = 4
    MaxCount = 260
    EntrySize = 40
INVARIANTS
    RootIsCanonical
    IndexesFindTheirEntries
CHECK_DEADLOCK FALSE
