SPECIFICATION Spec
CONSTANTS
    daemon = daemon
    console = console
    Processes <- MCTwoProcesses
    MaxOperations = 3
    MaxGenerations = 2
    MaxSaved = 2
INVARIANTS
    RegisteredIsWhole
