\* Owners one after the other, a crash at any moment.
SPECIFICATION Spec
CONSTANTS
    o1 = o1
    o2 = o2
    e1 = e1
    e2 = e2
    Owner <- MCOwner
    Edit <- MCEdit
    Modes <- AllModes
    Exclusive = TRUE
    Crashes = TRUE
    MaxGen = 4
    MaxHandles = 2
INVARIANTS TypeOK ImageFresh
PROPERTIES CrashSafe ReadOnlyNeverWrites
SYMMETRY Symmetry
CHECK_DEADLOCK FALSE
