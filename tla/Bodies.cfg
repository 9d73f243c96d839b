SPECIFICATION MCSpec
CONSTANTS
    Bodies <- MCBodies
    MaxNesting <- MCMaxNesting
    LinearSet <- MCLinearSet
    MaxSkipped <- MCMaxSkipped
    InitialDeclared <- MCInitialDeclared
    InitialUndeclared <- MCInitialUndeclared
    MinGrow <- MCMinGrow
    Limits <- MCLimits
    Lengths <- MCLengths
    Sizes <- MCSizes
    Readers = {x1, x2}
    Droppers = {p1}
    MaxGen = 2
    MaxRefs = 2
INVARIANT DecodesAsMeant
INVARIANT WritesBack
INVARIANT ReadsWhole
INVARIANT ReadsOwnBody
PROPERTY ImplementsLease
PROPERTY Recycled
CHECK_DEADLOCK FALSE
