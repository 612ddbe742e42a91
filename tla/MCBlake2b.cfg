\* Blocks of 4 bytes and counter words that wrap at 8: pieces up to three
\* blocks, messages up to eleven.
SPECIFICATION BlakeSpec
CONSTANTS
    BlockBytes = 4
    WordMod = 8
    KeyLens = {2, 3}
    MaxPiece = 13
    MaxMessage = 45
INVARIANTS
    DigestIsOfTheMessage
    ABlockIsHeldBack
    BlakeInv
\* A hash ends when it is delivered.
CHECK_DEADLOCK FALSE
