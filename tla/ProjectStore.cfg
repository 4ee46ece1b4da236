SPECIFICATION FairSpec
CONSTANTS
    Thread = {t1, t2}
    Legacy = 1
    Schema = 3
    MaxCalls = 4
    MaxFaults = 2
CHECK_DEADLOCK FALSE
INVARIANTS PackageInvariant BackupIsPreImage CacheIsCurrent ManifestIsReadWhole
PROPERTIES OpenMigrates
