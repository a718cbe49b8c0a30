SPECIFICATION FairSpec
CONSTANTS
    Captures = {TRUE}
    Breakaways = {FALSE, TRUE}
    Codes = {0, 259}
    None = None
CHECK_DEADLOCK FALSE
PROPERTY HostFollowsTarget
