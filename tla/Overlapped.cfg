SPECIFICATION Spec
CONSTANTS
    Readers = {r1}
    Writers = {w1, w2}
    ChanCap = 2
    SemMax = 2
    MaxPieces = 2
INVARIANTS OpInv ResultNoticed
PROPERTIES KeepsReadContract Resolves
\* Operations that have all been answered or dropped leave the worker waiting.
CHECK_DEADLOCK FALSE
