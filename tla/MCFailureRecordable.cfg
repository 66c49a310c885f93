SPECIFICATION Spec
CONSTANTS
    account = account
    home = home
    root = root
    identity = identity
    otherIdentity = otherIdentity
    noIdentity = noIdentity
    noResource = noResource
    EffectCount = 3
    ResourceIds <- MCResourceIds
    Identities <- MCIdentities
    NoIdentity <- noIdentity
    NoResource <- noResource
    MaxResources = 2
    Observations <- MCObservations
INVARIANTS
    FailureRecordable
\* a complete or incomplete journal has no successor
CHECK_DEADLOCK FALSE
