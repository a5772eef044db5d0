\* Three ranks run every script, processes die and writes fail.
SPECIFICATION Spec
CONSTANTS
    Size = 3
    Buffered = FALSE
    Scripts <- MCScripts
    Faults = TRUE
INVARIANTS CallsMatch SameBytes FileComplete
PROPERTIES OnlyRootWrites EveryoneReturns AllFinish
CHECK_DEADLOCK FALSE
