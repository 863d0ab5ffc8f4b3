\* Two full syncs in a row on the same progress record.
CONSTANTS
    Kinds = {"Normal"}
    Dirs <- MC_Dirs
    Files <- MC_Files
    Versions <- MC_Versions
    Archive <- MC_ArchiveOneDir
    InitCache <- MC_InitCache
    InitServer = "v1"
    DirNames = {}
    Statuses = {200}
    BlockSize = 2
    MaxRuns = 2
    MaxPublish = 1
    LocalSettings = {FALSE}
    IOFail = FALSE
    DeleteFail = FALSE
    TornCopy = FALSE
    MaxRestarts = 0
    MaxLaunch = 0
    Backends = {"boxcat"}

SPECIFICATION Spec
INVARIANT ProgressWithinTotal
