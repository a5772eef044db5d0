\* A refused relink has removed the link.
SPECIFICATION Spec
CONSTANTS
    a = a
    b = b
    t1 = t1
    t2 = t2
    Dot = Dot
    Slash = Slash
    Name <- MCName
    Thread <- Threads1
    Paths <- RelPaths
    GroupPaths <- OnePaths
    SoftPaths <- NoPaths
    Calls = {"create_group", "relink"}
    MaxObjects = 2
    MaxOrder = 3
    MaxHops = 6
PROPERTY RelinkKeepsLinks
CHECK_DEADLOCK FALSE
