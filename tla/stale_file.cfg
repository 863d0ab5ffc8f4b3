\* Directory syncs (RequestSyncDeliveryCacheWithDirectoryName) of the
\* cached directory d1, which holds a file f2 the archive's d1 lacks, when
\* VfsDeleteFileWrap may fail to remove a host file.  The server answers
\* every download and no host write fails.
CONSTANTS
    Kinds = {"Directory"}
    Dirs <- MC_Dirs
    Files <- MC_Files
    Versions <- MC_Versions
    Archive <- MC_Archive
    InitCache <- MC_InitCache
    InitServer = "v1"
    DirNames = {"d1"}
    Statuses = {200}
    BlockSize = 2
    MaxRuns = 1
    MaxPublish = 0
    LocalSettings = {FALSE}
    IOFail = FALSE
    DeleteFail = TRUE
    TornCopy = FALSE
    MaxRestarts = 0
    MaxLaunch = 0
    Backends = {"boxcat"}

SPECIFICATION Spec
PROPERTY SuccessInstallsArchive
