\* The game driving the storage, file and directory services with every
\* three-byte name buffer, offsets inside and past a file, and Clear under
\* both backends.
CONSTANTS
    NUL = NUL
    NoEntity = NoEntity
    NameLen = 3
    Alnum = {"a"}
    DirArgs <- MC_DirArgs
    FileArgs <- MC_FileArgs
    InitCache <- MC_InitCache
    Offsets = {0, 1, 3}
    BufSizes = {0, 1, 2}
    TitleIds = {0, 1}
    Width = 3
    LocalSettings = {FALSE, TRUE}
    Backends = {"boxcat", "null"}
    ClearFail = TRUE

SPECIFICATION Spec
VIEW MC_View
INVARIANT TypeOK
INVARIANT EnumerationFollowsSnapshot
PROPERTY OpenedEntityIsKept
PROPERTY ValidNamesOpenTheirEntity
