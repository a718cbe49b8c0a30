SPECIFICATION CheckerSpec
CONSTANTS
    Users = {u1, u2}
    Launcher = launcher
    Uses = {"direct", "container", "baseline", "probe"}
    None = None
CHECK_DEADLOCK FALSE
INVARIANTS
    TypeOK
    EventsInOrder
    HandleHasOneOwner
    RaisedMeansDead
    ReturnedMeansClean
    VerdictsAreTrue
PROPERTIES
    TerminateAnswers
    CleanedUpInTheEnd
    LaunchEnds
    CheckEnds
