\* Two threads walk and edit while other programs rewrite the other file.
SPECIFICATION Spec
CONSTANTS
    a = a
    b = b
    here = here
    x = x
    y = y
    n = n
    Dot = dot
    MaxHops = 3
    Thread = {t1, t2}
    Opener = t1
    FileName = {a, b}
    Here = here
    MainFile = a
    Paths <- MCPaths
    Targets <- MCTargets
    Images <- MCImages
    Worlds <- MCWorlds
    NewName = n
    Fill = 0
    MaxLinkDepth = 2
    MaxParseDepth = 1
    MaxCalls = 3
    MaxChanges = 1
INVARIANTS TypeOK QuietCallsExact OneCopyPerThread
PROPERTIES ExternalsFrozen CallsReturn
CHECK_DEADLOCK FALSE
