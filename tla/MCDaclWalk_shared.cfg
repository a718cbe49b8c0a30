SPECIFICATION Spec
CONSTANTS
    Hosts = {"h1"}
    Sids = {"s", "t"}
    Nodes <- MCNodes
    Kids <- MCKids
    Depth <- MCDepth
    Reparse = {"link"}
    Absent = {"gone"}
    Unmarkable = {}
    Rights = {"read", "write"}
    None = None
    Asks <- SharedAsks
INVARIANT OkMeansWhole
