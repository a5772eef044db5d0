\* One thread writes, slices and resizes, another reads; both create
\* an attribute and write it.
SPECIFICATION Spec
CONSTANTS
    wt = wt
    rd = rd
    v1 = v1
    v2 = v2
    z = z
    Thread = {wt, rd}
    Value <- MCValue
    Zero = z
    Shapes <- MCShapes
    Regions <- MCRegions
    Does <- OneWriter
INVARIANTS TypeOK LengthMatchesShape
PROPERTIES ReadOnlyKeepsContents Atomic
