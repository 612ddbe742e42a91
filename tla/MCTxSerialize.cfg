\* Payloads into slots that earlier payloads have used, and back.
SPECIFICATION SerialSpec
CONSTANTS
    KeyLen = 2
    ByteMod = 8
    MaxInputCount = 2
    ScriptRoom = 7
    Payloads <- MCPayloads
    BufferLens <- MCBufferLens
INVARIANTS
    RoundTrip
