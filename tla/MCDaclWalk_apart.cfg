SPECIFICATION FairSpec
CONSTANTS
    Hosts = {"h1", "h2"}
    Sids = {"s", "t"}
    Nodes <- MCNodes
    Kids <- MCKids
    Depth <- MCDepth
    Reparse = {"link"}
    Absent = {"gone"}
    Unmarkable = {}
    Rights = {"read", "write"}
    None = None
    Asks <- ApartAsks
INVARIANTS
    TypeOK
    OkMeansWhole
    RootSpeaksForTree
PROPERTIES
    OthersUntouched
    ImplementsFolderAccess
    EveryCallReturns
