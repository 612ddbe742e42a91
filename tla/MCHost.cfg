\* The client of the tests against the application, with restarts, refusals,
\* another program and repeated attempts: at most three inputs.
SPECIFICATION HostSpec
CONSTANTS
    ByteMod = 6
    AmountMod = 8
    Hardened = 100
    MaxInputCount = 3
    MaxMessageLen = 1
    TextLen = 1
    MaxResponses = 5
    JunkInputs <- MCJunk
    Headers <- ClientHeaders
    OutputPayloads <- ClientOutputs
    InputPayloads <- ClientInputs
    MessagePayloads <- OtherMessages
    PathPayloads <- OtherPaths
    Jobs <- MCJobs
INVARIANTS
    SignaturesMatchTheJob
    DoneIsComplete
    NothingIsRefusedMidway
    AttemptInv
PROPERTY
    AttemptEnds
