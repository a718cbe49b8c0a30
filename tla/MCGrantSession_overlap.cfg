SPECIFICATION SessionSpec
CONSTANTS
    Hosts = {"h1", "h2"}
    Sids = {"s", "t"}
    Nodes <- MCNodes
    Kids <- MCKids
    Depth <- MCDepth
    Reparse = {"link"}
    Absent = {}
    Unmarkable = {}
    Rights = {"read"}
    None = None
    Asks <- MCAsks
    Boxes = {"a", "c"}
    Moniker <- PairMoniker
    Files <- PairFiles
    Reverts = {"a", "c"}
    Tidied = {}
CHECK_DEADLOCK FALSE
INVARIANT GrantsAreOwed
