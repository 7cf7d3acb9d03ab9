SPECIFICATION Spec
CONSTANTS
    None = None
    Base = 17
    MAX_BODY_LEN = 8
    Tid <- MCTid
    RingSize = 2
    MaxProbes = 5
    Program <- MCProgram
    Args <- MCArgs
    Given <- MCGiven
\* A capture ends, and with it everything the model describes.
CHECK_DEADLOCK FALSE
INVARIANTS
    ExitNamesItsEntry
    NothingLeftInRing
    SurvivorsReadBack
    DamageNoticed
PROPERTIES
    CaptureEnds
