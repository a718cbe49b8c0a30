SPECIFICATION SessionSpec
CONSTANTS
    Hosts = {"h1"}
    Sids = {"s", "t"}
    Nodes <- MCNodes
    Kids <- MCKids
    Depth <- MCDepth
    Reparse = {"link"}
    Absent = {}
    Unmarkable = {}
    Rights = {"read"}
    None = None
    Asks <- MCAsks
    Boxes = {"a", "b", "c"}
    Moniker <- MCMoniker
    Files <- MCFiles
    Reverts = {"a", "c"}
    Tidied = {"a", "b"}
INVARIANTS
    SessionTypeOK
    GrantsAreOwed
PROPERTIES
    StartedMeansGranted
    ResetLeavesNoOrphans
    WalkStaysInside
