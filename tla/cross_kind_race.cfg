\* A full sync and a directory sync requested by the same game.
CONSTANTS
    Kinds = {"Normal", "Directory"}
    Dirs <- MC_Dirs
    Files <- MC_Files
    Versions <- MC_Versions
    Archive <- MC_ArchiveOneDir
    InitCache <- MC_InitCache
    InitServer = "v1"
    DirNames = {"d1"}
    Statuses = {200}
    BlockSize = 2
    MaxRuns = 2
    MaxPublish = 1
    LocalSettings = {FALSE}
    IOFail = FALSE
    DeleteFail = FALSE
    TornCopy = FALSE
    MaxRestarts = 0
    MaxLaunch = 0
    Backends = {"boxcat"}

SPECIFICATION Spec
PROPERTY SuccessInstallsArchive
