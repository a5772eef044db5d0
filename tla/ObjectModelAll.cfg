\* Every call, a collective close and an endless soft link.
SPECIFICATION Spec
CONSTANTS
    a = a
    b = b
    t1 = t1
    t2 = t2
    Dot = Dot
    Slash = Slash
    Name <- MCName
    Thread <- Threads1
    Paths <- RelPaths
    GroupPaths <- OnePaths
    SoftPaths <- OneSoft
    Calls = {"create_group", "create_dataset", "create_anonymous", "create_virtual", "link_hard", "link_soft", "link_external", "link_exists", "relink", "unlink", "close_collective"}
    MaxObjects = 2
    MaxOrder = 3
    MaxHops = 6
INVARIANT OrdersUnique
PROPERTY ReadOnlyFreezes
CHECK_DEADLOCK FALSE
