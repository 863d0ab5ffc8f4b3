\* Directory syncs of d2, which the cache does not hold yet and which the
\* server stops publishing after one publication.
CONSTANTS
    Kinds = {"Directory"}
    Dirs <- MC_Dirs
    Files <- MC_Files
    Versions <- MC_Versions
    Archive <- MC_Archive
    InitCache <- MC_InitCache
    InitServer = "v1"
    DirNames = {"d2"}
    Statuses = {200}
    BlockSize = 2
    MaxRuns = 2
    MaxPublish = 1
    LocalSettings = {FALSE}
    IOFail = FALSE
    DeleteFail = FALSE
    TornCopy = FALSE
    MaxRestarts = 0
    MaxLaunch = 0
    Backends = {"boxcat"}

SPECIFICATION FairSpec
PROPERTY SyncRequestCompletes
