SPECIFICATION Spec
CONSTANTS
    p = p
    q = q
    account = account
    identity = identity
    noIdentity = noIdentity
    noResource = noResource
    EffectCount = 2
    ResourceIds <- MCResourceIds
    Identities <- MCIdentities
    NoIdentity <- noIdentity
    NoResource <- noResource
    MaxResources = 1
    Observations <- MCObservations
    Writers <- MCWriters
    NoWriter = NoWriter
    MaxAhead = 2
SYMMETRY MCSymmetry
INVARIANTS
    LockHeld
    WriteAhead
    EffectsInOrder
    AckedSurvives
    RecoverySound
PROPERTIES
    ImplementsWriteAheadLog
