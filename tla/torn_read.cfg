\* A full sync that fails, then one that succeeds, with the game copying
\* the progress record while the sync thread writes it.
CONSTANTS
    Kinds = {"Normal"}
    Dirs <- MC_Dirs
    Files <- MC_Files
    Versions <- MC_Versions
    Archive <- MC_Archive
    InitCache <- MC_InitCache
    InitServer = "v1"
    DirNames = {}
    Statuses = {200, 406}
    BlockSize = 2
    MaxRuns = 2
    MaxPublish = 0
    LocalSettings = {FALSE}
    IOFail = FALSE
    DeleteFail = FALSE
    TornCopy = TRUE
    MaxRestarts = 0
    MaxLaunch = 0
    Backends = {"boxcat"}

SPECIFICATION Spec
INVARIANT ReadIsSnapshot
