\* A second review in a session, after a signature has rewritten the path.
SPECIFICATION Spec
CONSTANTS
    ByteMod = 6
    AmountMod = 8
    Hardened = 100
    MaxInputCount = 2
    MaxMessageLen = 1
    TextLen = 1
    JunkInputs <- MCJunk
    Headers <- MCHeaders
    OutputPayloads <- MCOutputs
    InputPayloads <- MCInputs
    MessagePayloads <- NoPayloads
    PathPayloads <- NoPayloads
INVARIANT
    ReviewedChangeIsAnnounced
