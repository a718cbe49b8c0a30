SPECIFICATION FairSpec
CONSTANTS
    Containers = {FALSE, TRUE}
    Codes = {0, 259}
    WaitMayFail = FALSE
    None = None
CHECK_DEADLOCK FALSE
INVARIANTS
    TypeOK
    NeverUncapped
    RaisedMeansGone
    HandlesReleased
    OneLives
    ReturncodeIsReal
PROPERTY CallEnds
