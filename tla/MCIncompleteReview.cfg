\* A review of fewer inputs or outputs than the header announced.
SPECIFICATION Spec
CONSTANTS
    ByteMod = 6
    AmountMod = 8
    Hardened = 100
    MaxInputCount = 2
    MaxMessageLen = 1
    TextLen = 1
    JunkInputs <- MCJunk
    Headers <- MCHeaders
    OutputPayloads <- MCOutputs
    InputPayloads <- MCInputs
    MessagePayloads <- NoPayloads
    PathPayloads <- NoPayloads
INVARIANT
    ReviewedTransactionIsComplete
