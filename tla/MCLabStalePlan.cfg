SPECIFICATION Spec
CONSTANTS
    daemon = daemon
    console = console
    Processes <- MCOneProcess
    MaxOperations = 4
    MaxGenerations = 2
    MaxSaved = 2
INVARIANTS
    StalePlanRejected
