\* Two threads create, link and unlink in every interleaving.
SPECIFICATION Spec
CONSTANTS
    a = a
    b = b
    t1 = t1
    t2 = t2
    Dot = Dot
    Slash = Slash
    Name <- MCName
    Thread <- MCThread
    Paths <- RelPaths
    GroupPaths <- MixedPaths
    SoftPaths <- OneSoft
    Calls = {"create_group", "create_dataset", "link_hard", "link_soft", "unlink"}
    MaxObjects = 3
    MaxOrder = 3
    MaxHops = 6
INVARIANTS TypeOK HardTargetsLive RefcountCoversLinks UniqueNames
PROPERTIES ArenaStable CreatedGroupResolves
SYMMETRY Symmetry
CHECK_DEADLOCK FALSE
