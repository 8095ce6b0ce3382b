SPECIFICATION Spec
CONSTANTS
    Readers = {}
    Writers = {w1, w2, w3}
    ChanCap = 5
    SemMax = 2
    MaxPieces = 0
PROPERTY FunctionExecuted
\* Operations that have all been answered or dropped leave the worker waiting.
CHECK_DEADLOCK FALSE
