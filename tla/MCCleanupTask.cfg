\* Two records and an interval of three clock units.
SPECIFICATION Spec
CONSTANTS
    Interval = 3
    Proofs = {x, y}
    x = x
    y = y
INVARIANTS
    TypeOK
    NoBurst
    AtMostOneLateSweep
PROPERTIES
    CancelStops
    LapsedIsSwept
