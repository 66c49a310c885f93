SPECIFICATION Spec
CONSTANTS
    p = p
    q = q
    Drivers <- MCDrivers
    NoRecord = NoRecord
SYMMETRY MCSymmetry
INVARIANTS
    EffectsInOrder
    JournalTrue
    EffectsApproved
    RecoveryTrue
    CatalogueAdmitted
PROPERTY ImplementsStagedEffects
CHECK_DEADLOCK FALSE
