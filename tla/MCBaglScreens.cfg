\* Reviews of the three kinds for two different requests each, every button
\* press, and display functions that fail half-way.
SPECIFICATION UiSpec
CONSTANTS
    Data = {d1, d2}
INVARIANTS
    ApprovalSawEverything
    AnswerGoesToItsRequest
    NoStaleText
