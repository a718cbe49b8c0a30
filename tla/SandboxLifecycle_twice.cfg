SPECIFICATION Spec
CONSTANTS
    Users = {u1}
    Launcher = launcher
    Uses = {"direct"}
    None = None
CHECK_DEADLOCK FALSE
INVARIANT ResolvedOnce
