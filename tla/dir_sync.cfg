\* Directory syncs (RequestSyncDeliveryCacheWithDirectoryName) of a cached
\* directory and of one the cache does not hold yet, across a server
\* publication that drops that directory and an emulator restart, under
\* Boxcat (host writes may fail), its local override and the NullBackend,
\* with one GetLaunchParameter call at any point.
CONSTANTS
    Kinds = {"Directory"}
    Dirs <- MC_Dirs
    Files <- MC_Files
    Versions <- MC_Versions
    Archive <- MC_Archive
    InitCache <- MC_InitCache
    InitServer = "v1"
    DirNames = {"d1", "d2"}
    Statuses = {0, 200, 304, 404}
    BlockSize = 2
    MaxRuns = 2
    MaxPublish = 1
    LocalSettings = {FALSE, TRUE}
    IOFail = TRUE
    DeleteFail = FALSE
    TornCopy = FALSE
    MaxRestarts = 1
    MaxLaunch = 1
    Backends = {"boxcat", "null"}

SPECIFICATION Spec
 
PROPERTY LaunchParamIsCurrent
