SPECIFICATION Spec

CONSTANTS
    MaxCode = 4
    RecvMax = 7
    Frames <- mcFrames
    Packet = 2
    TxRing = 4
    Hello <- mcHello
    Request <- mcRequest
    Probe <- mcProbe
    BoardFrame = 3
    OutRing = 6
    Budgets <- mcBudgets
INVARIANTS EndsAgree NoByteLostOrRepeated FramesHeardInOrder
PROPERTIES EverythingArrives
