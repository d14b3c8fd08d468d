\* Two backups of a database in the same second share a directory.
SPECIFICATION Spec
CONSTANTS
    Tables = {1, 2}
    MaxTables = 1
    MaxArchive = 2
    MaxCount = 1
    Seconds = {1, 2}
    MaxBackups = 2
    MaxWrites = 1
    MaxTrouble = 0
INVARIANT CompletedStaysRestorable
