SPECIFICATION HostSpec
CONSTANTS
    Managed = {trial}
    Strays = {hub}
    Hub = hub
    Trial = trial
    Experiment = trial
    Uuids = {u1, u2}
    NoUuid = none
    MaxEntries = 2
    trial = trial
    hub = hub
    u1 = u1
    u2 = u2
    none = none
INVARIANTS
    HostTypeOK
    ConsistentWasComplete
    IncompleteWasBroken
    ReadyWasIdle
    FreeWasFree
PROPERTIES
    UniquenessHeld
    PlansKeepTrace
