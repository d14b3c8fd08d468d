SPECIFICATION Spec
CONSTANTS
    Tables = {1, 2}
    MaxTables = 1
    MaxArchive = 2
    MaxCount = 1
    Seconds = {1, 2}
    MaxBackups = 2
    MaxWrites = 1
    MaxTrouble = 2
INVARIANTS VerifiedIsWhole CleanRestoreVerifies OnlyThatBackup
