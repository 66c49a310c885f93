SPECIFICATION Spec
CONSTANTS
    p = p
    q = q
    Drivers <- MCDrivers
    NoRecord = NoRecord
SYMMETRY MCSymmetry
INVARIANTS
    StepsAccepted
CHECK_DEADLOCK FALSE
