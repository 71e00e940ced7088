SPECIFICATION Spec
CONSTANTS
    MaxTx = 2
    LastPart = 1
    SeqWrap = 3
    PreMax = 2
    MaxUp = 3
    Setups <- MCSetups
CHECK_DEADLOCK FALSE
INVARIANTS CaptureInv UnitsInOrder UnitsAreTheirs MicrophoneAgreed
PROPERTIES NoGhostCapture CapturesEnd
