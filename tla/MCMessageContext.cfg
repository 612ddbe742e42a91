\* message[] of 4 cells, a hash of 2 and a signature of 3; messages of up to
\* 8 bytes run over all but the last cell of the signature.
SPECIFICATION MsgSpec
CONSTANTS
    Room = 4
    HashLen = 2
    SigLen = 3
    MaxMessageLen = 8
    MaxDataLen = 11
    Accounts = {a1, a2, a3}
INVARIANTS
    SignatureIsOfTheMessage
    PathIsOfTheRequest
