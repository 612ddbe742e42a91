\* Any host: requests of every kind in any order, restarts, failures; at most
\* two inputs, and payloads on both sides of every check.
SPECIFICATION Spec
CONSTANTS
    ByteMod = 7
    AmountMod = 8
    Hardened = 100
    MaxInputCount = 2
    MaxMessageLen = 5
    TextLen = 5
    JunkInputs <- MCJunk
    Headers <- MCHeaders
    OutputPayloads <- MCOutputs
    InputPayloads <- MCInputs
    MessagePayloads <- MCMessages
    PathPayloads <- MCPaths
INVARIANTS
    TypeOK
    SignatureHasConsent
    SignedPaymentIsShown
    SignedChangeIsOwn
    SignedInputIsReviewed
    SignedFeesAreShown
    LastSignatureCompletesTheSet
    
    ReturnedKeyIsShown
    CountedOutputsAreScripts
    ScreenInv
    ConsentInv
    FeesInv
    CountingInv
PROPERTY
    NoInputSignedTwice
    ImplementsConsent
