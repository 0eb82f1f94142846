CONSTANTS
    MaxSessions = 3
    MaxTrainingThreads = 2
SPECIFICATION ShellSpec
INVARIANTS TrainingIsSerialized SessionsAreOwned
PROPERTY CloseFinishes
CHECK_DEADLOCK FALSE
