SPECIFICATION FairSpec
CONSTANTS
    Captures = {FALSE, TRUE}
    Breakaways = {FALSE, TRUE}
    Codes = {0, 259}
    None = None
CHECK_DEADLOCK FALSE
INVARIANTS
    TypeOK
    NeverUncapped
    NothingLeftBehind
    OneTarget
    StartedIsAnswered
    ReportedCodeIsReal
    EventOutlivesWatchdog
PROPERTIES
    ParentDeathEndsTarget
    HostFollowsTargetUnlessHeld
