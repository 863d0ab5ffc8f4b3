\* Full-title syncs (RequestSyncDeliveryCache) from one game, through the
\* Boxcat backend (with server failures, 304s and failing host writes, or
\* with the local-data override) and through the NullBackend.
CONSTANTS
    Kinds = {"Normal"}
    Dirs <- MC_Dirs
    Files <- MC_Files
    Versions <- MC_Versions
    Archive <- MC_Archive
    InitCache <- MC_InitCache
    InitServer = "v1"
    DirNames = {}
    Statuses = {0, 200, 304, 406}
    BlockSize = 2
    MaxRuns = 2
    MaxPublish = 1
    LocalSettings = {FALSE, TRUE}
    IOFail = TRUE
    DeleteFail = FALSE
    TornCopy = FALSE
    MaxRestarts = 1
    MaxLaunch = 0
    Backends = {"boxcat", "null"}

SPECIFICATION FairSpec
INVARIANT TypeOK
PROPERTY AbstractSync
PROPERTY SyncRequestCompletes
