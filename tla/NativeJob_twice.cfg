SPECIFICATION Spec
CONSTANTS
    Containers = {FALSE, TRUE}
    Codes = {0, 259}
    WaitMayFail = FALSE
    None = None
CHECK_DEADLOCK FALSE
INVARIANT RunsOnce
