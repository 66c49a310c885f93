SPECIFICATION Spec
CONSTANTS
    Hub = "hub"
    Names <- MCNames
    Cards <- MCNames
    Deletables <- MCDeletables
    Kinds = {"registration", "snapshot"}
    Mandatory = {"registration"}
    Registered = {"registration"}
    Copies = {"snapshot"}
    MaxLifetime = 0
    Considered = {"create", "activate", "snapshot", "destroy", "recover_complete"}
    Initially <- MCInitially
    Windows <- MCWindows
    MaxApprovals = 2
    MaxTime = 2
    MaxSessions = 2
    MaxGeneration = 2
INVARIANTS
    AtMostOnce
    RunningAsApproved
    OneActive
    OffersPlannable
    OffersHonoured
PROPERTIES
    NothingRemains
    BegunInTime
    CleanupEnds
CHECK_DEADLOCK FALSE
