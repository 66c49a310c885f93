SPECIFICATION ExecutorSpec
CONSTANTS
    daemon = daemon
    Processes <- MCProcesses
    Daemon = daemon
    MaxOperations = 3
    MaxGenerations = 2
    MaxSaved = 2
INVARIANTS
    RegisteredIsWhole
    RemainsReported
PROPERTIES
    PublishedUntouched
    KeepsWhole
    AnswerTrue
    Served
