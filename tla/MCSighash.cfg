\* The preimages of transactions that differ in one field, statement by
\* statement, with bytes of their real width.
SPECIFICATION SighashSpec
CONSTANTS
    ByteMod = 256
    AmountMod = 65536
    Hardened = 100
    MaxInputCount = 2
    MaxMessageLen = 1
    TextLen = 1
    SighashTxs <- MCTxs
INVARIANTS
    PreimageMatchesClient
    PreimageIsUnambiguous
\* The computation of a hash ends.
CHECK_DEADLOCK FALSE
