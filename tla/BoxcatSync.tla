----------------------------- MODULE BoxcatSync -----------------------------
(***************************************************************************)
(* Delivery-cache synchronization: the IBcatService requests that start a  *)
(* sync (src/core/hle/service/bcat/module.cpp), the Boxcat and NullBackend *)
(* backends (backend/boxcat.cpp, backend/backend.cpp), the detached thread *)
(* that runs SynchronizeInternal, the shared data.zip file, the title's    *)
(* cache directory, the per-kind progress record with its auto-reset      *)
(* event, and the game that requests a sync and waits on that event.      *)
(*                                                                         *)
(* Every step of a sync thread performs at most one ProgressServiceBackend *)
(* mutation followed by its SignalUpdate, so the game may interleave       *)
(* between any two mutations, as it can in the code.                      *)
(***************************************************************************)
EXTENDS BcatProgress, Naturals, Sequences, FiniteSets, Functions, TLC

CONSTANTS
    Kinds,        \* sync kinds the game uses: subset of {"Normal", "Directory"}
    Dirs,         \* directory names
    Files,        \* file names
    Versions,     \* contents the server publishes over time
    Archive,      \* Archive[v]: the data.zip tree of version v, dir -> file -> size
    InitCache,    \* the title's cache directory when the game starts
    InitServer,   \* the version the server serves at first
    DirNames,     \* names the game passes to RequestSyncDeliveryCacheWithDirectoryName
    Statuses,     \* HTTP statuses the server may answer; 0 is no response at all
    BlockSize,    \* VFS_COPY block size of VfsRawCopyProgress, in size units
    MaxRuns,      \* sync requests per kind
    MaxPublish,   \* server publications
    LocalSettings,\* values Settings::values.bcat_boxcat_local may have
    IOFail,       \* whether writes to the host file system may fail
    DeleteFail,   \* whether VfsDeleteFileWrap may fail to delete a file
    TornCopy,     \* whether GetImpl's copy may overlap a mutation
    MaxRestarts,  \* emulator restarts
    MaxLaunch,    \* GetLaunchParameter calls
    Backends      \* values Settings::values.bcat_backend may name

ASSUME Kinds \subseteq {"Normal", "Directory"}
ASSUME InitServer \in Versions /\ BlockSize \in Nat \ {0}
ASSUME Backends \subseteq {"boxcat", "null"} /\ LocalSettings \subseteq BOOLEAN
ASSUME IOFail \in BOOLEAN /\ DeleteFail \in BOOLEAN /\ TornCopy \in BOOLEAN /\ MaxRestarts \in Nat /\ MaxLaunch \in Nat

VARIABLES
    impl,        \* impl[k]: DeliveryCacheProgressImpl of progress[k]
    signaled,    \* signaled[k]: the auto-reset update event of progress[k]
    held,        \* held[k]: the records progress[k] held while the game copied it
    zip,         \* bcat/<title>/data.zip: "none", "partial" or a version
    cache,       \* the title's BCAT directory: dir -> file -> content
    serverVer,   \* what the server currently serves
    published,   \* publications so far
    threads,     \* one record per accepted request, in request order
    caller,      \* caller[k]: the game's request/wait loop for kind k
    is_syncing,  \* Boxcat::is_syncing
    errorShown,  \* DownloadResults shown through the error applet
    crashed,     \* the emulator dereferenced a null VirtualDir
    restarts,    \* emulator restarts so far
    bin,         \* bcat/<title>/launchparam.bin: "none", "empty", "garbage" or a version
    launches,    \* GetLaunchParameter calls so far
    launchRet,   \* what the last GetLaunchParameter returned
    bcat_backend,      \* the backend CreateBackendFromSettings made
    bcat_boxcat_local  \* Settings::values.bcat_boxcat_local

settings == <<bcat_backend, bcat_boxcat_local>>

launch == <<bin, launches, launchRet>>

vars == <<impl, signaled, held, zip, cache, serverVer, published, threads, caller,
          is_syncing, errorShown, crashed, restarts, bin, launches, launchRet,
          bcat_backend, bcat_boxcat_local>>

(***************************************************************************)
(* File contents.  A file is a sequence of size units, each tagged with   *)
(* the version whose bytes it holds; "old" marks content from before the  *)
(* model starts and "zero" the fill of VfsFile::Resize.                   *)
(***************************************************************************)
Tags == Versions \cup {"old", "zero"}

FileImage(v, d, f) == [i \in 1..Archive[v][d][f] |-> v]

ResizeContent(c, n) ==
    IF n <= Len(c) THEN SubSeq(c, 1, n)
    ELSE c \o [i \in 1..(n - Len(c)) |-> "zero"]

WriteAt(c, off, len, v) ==
    [i \in 1..Len(c) |-> IF off < i /\ i <= off + len THEN v ELSE c[i]]

\* VfsDirectory::GetSize of an archive directory and of a whole archive.
ArchiveDirSize(v, d) == SumFunction(Archive[v][d])
ArchiveSize(v) == SumFunction([d \in DOMAIN Archive[v] |-> ArchiveDirSize(v, d)])

CacheSize ==
    SumFunction([d \in DOMAIN cache |->
                    SumFunction([f \in DOMAIN cache[d] |-> Len(cache[d][f])])])

EmptyDir == [f \in {} |-> <<>>]

\* launchparam.bin: absent, empty, the size of a body but not its bytes
\* ("garbage"), or a version's launch parameter.
BinStates == Versions \cup {"none", "empty", "garbage"}

(***************************************************************************)
(* Boxcat::Client::DownloadInternal: the HTTP status the server answers    *)
(* and the DownloadResult the client maps it to.                          *)
(***************************************************************************)
\* The server answers 304 only to an If-None-Match digest equal to the
\* digest of what it serves; the header is sent only when data.zip exists.
ServerAnswers(z) ==
    {s \in Statuses : s # 304 \/ z = serverVer}

DownloadResultOf(status, typeOk) ==
    CASE status = 0      -> "NoResponse"
      [] status = 304    -> "Success"
      [] status = 301    -> "BadClientVersion"
      [] status = 404    -> "NoMatchTitleId"
      [] status = 406    -> "NoMatchBuildId"
      [] status # 200    -> "GeneralWebError"
      [] ~typeOk         -> "InvalidContentType"
      [] OTHER           -> "Body"

\* HandleDownloadDisplayResult: the results it shows to the user.
Displayed == {"BadClientVersion", "NoMatchBuildId"}

\* A HandleDownloadDisplayResult without its early return: every failure
\* opens the error applet.
ShowErrorUnfiltered(res) == errorShown' = errorShown \cup {res}

\* HandleDownloadDisplayResult(res): the error applet shows the result's
\* message unless the result is one of the silent ones.
ShowError(res) == errorShown' = errorShown \cup ({res} \cap Displayed)

(***************************************************************************)
(* Threads and the game.                                                   *)
(***************************************************************************)
ThreadPcs == {"start", "download", "write", "extract", "delete", "deleting", "nextdir",
              "nextfile", "block", "finish", "done"}

NewThread(k, name, pc, res) ==
    [kind |-> k, name |-> name, pc |-> pc, res |-> res, ver |-> "none",
     tgt |-> FALSE, dirs |-> {}, dir |-> "none", files |-> {},
     file |-> "none", off |-> 0, del |-> {}, before |-> cache]

RunsOf(k) == {t \in DOMAIN threads : threads[t].kind = k}

Running(t) == threads[t].pc # "done"

TypeOK ==
    /\ impl \in [Kinds -> ProgressRecord]
    /\ signaled \in [Kinds -> BOOLEAN]
    /\ held \in [Kinds -> SUBSET ProgressRecord]
    /\ zip \in Versions \cup {"none", "partial"}
    /\ DOMAIN cache \subseteq Dirs
    /\ \A d \in DOMAIN cache : DOMAIN cache[d] \subseteq Files
                                /\ \A f \in DOMAIN cache[d] : cache[d][f] \in Seq(Tags)
    /\ serverVer \in Versions /\ published \in 0..MaxPublish
    /\ \A t \in DOMAIN threads :
          /\ threads[t].kind \in Kinds
          /\ threads[t].pc \in ThreadPcs
          /\ threads[t].res \in Results \cup {"none"}
          /\ threads[t].ver \in Versions \cup {"none"}
    /\ caller \in [Kinds -> [pc: {"idle", "waiting", "reading"},
                             req: Nat, fresh: BOOLEAN, torn: BOOLEAN]]
    /\ is_syncing \in BOOLEAN
    /\ errorShown \subseteq Displayed
    /\ crashed \in BOOLEAN
    /\ restarts \in 0..MaxRestarts
    /\ bin \in BinStates /\ launches \in 0..MaxLaunch
    /\ launchRet \in BinStates \cup {"nullopt"}
    /\ bcat_backend \in Backends /\ bcat_boxcat_local \in BOOLEAN

Init ==
    /\ impl = [k \in Kinds |-> InitialProgress]
    /\ signaled = [k \in Kinds |-> FALSE]
    /\ held = [k \in Kinds |-> {}]
    /\ zip = "none"
    /\ cache = InitCache
    /\ serverVer = InitServer
    /\ published = 0
    /\ threads = <<>>
    /\ caller = [k \in Kinds |-> [pc |-> "idle", req |-> 0, fresh |-> TRUE,
                                  torn |-> FALSE]]
    /\ is_syncing = FALSE
    /\ errorShown = {}
    /\ crashed = FALSE
    /\ restarts = 0
    /\ bin \in BinStates    \* left by earlier sessions, a failed write included
    /\ launches = 0 /\ launchRet = "nullopt"
    /\ bcat_backend \in Backends
    /\ bcat_boxcat_local \in LocalSettings

(***************************************************************************)
(* A ProgressServiceBackend mutator applied to progress[k], followed by    *)
(* its SignalUpdate.                                                       *)
(***************************************************************************)
\* A mutation whose SignalUpdate does not reach the event.
ProgressNoSignal(k, new) ==
    /\ impl' = [impl EXCEPT ![k] = new]
    /\ held' = [held EXCEPT ![k] = IF TornCopy /\ caller[k].pc = "reading" THEN @ \cup {new} ELSE @]
    /\ UNCHANGED signaled

\* The mutation is plain stores to the shared impl: a copy of the record
\* the game is making meanwhile may see any of them.
Progress(k, new) ==
    /\ impl' = [impl EXCEPT ![k] = new]
    /\ held' = [held EXCEPT ![k] = IF TornCopy /\ caller[k].pc = "reading" THEN @ \cup {new} ELSE @]
    /\ signaled' = [signaled EXCEPT ![k] = TRUE]

\* Thread t continues with the fields of its record given in upd.
Step(t, upd) == threads' = [threads EXCEPT ![t] = [f \in DOMAIN @ |->
                                IF f \in DOMAIN upd THEN upd[f] ELSE @[f]]]

\* The thread's error path: FinishDownload(ERROR_GENERAL_BCAT_FAILURE), return.
Fail(t) ==
    /\ Progress(threads[t].kind, FinishDownload(impl[threads[t].kind], "fail"))
    /\ Step(t, [pc |-> "done", res |-> "fail"])

(***************************************************************************)
(* IBcatService::RequestSyncDeliveryCache and ...WithDirectoryName, with   *)
(* Backend::Synchronize / SynchronizeDirectory.  Boxcat sets is_syncing,   *)
(* detaches a thread and returns; NullBackend finishes the progress        *)
(* synchronously.  The game then waits on the progress event.             *)
(***************************************************************************)
RequestSync(k, name) ==
    /\ ~crashed
    /\ caller[k].pc = "idle"
    /\ Cardinality(RunsOf(k)) < MaxRuns
    /\ caller' = [caller EXCEPT ![k] = [pc |-> "waiting", req |-> Len(threads) + 1,
                                        fresh |-> @.fresh, torn |-> @.torn]]
    /\ \/ /\ bcat_backend = "boxcat"
          /\ is_syncing' = TRUE
          /\ threads' = Append(threads, NewThread(k, name, "start", "none"))
          /\ UNCHANGED <<impl, signaled, held>>
       \/ /\ bcat_backend = "null"
          /\ Progress(k, FinishDownload(impl[k], "ok"))
          /\ threads' = Append(threads, NewThread(k, name, "done", "ok"))
          /\ UNCHANGED is_syncing
    /\ UNCHANGED <<zip, cache, serverVer, published, errorShown, crashed, restarts,
                   launch, settings>>

RequestSyncDeliveryCache == RequestSync("Normal", "none")

RequestSyncDeliveryCacheWithDirectoryName ==
    \E name \in DirNames : RequestSync("Directory", name)

(***************************************************************************)
(* SynchronizeInternal, run by the detached thread t.                      *)
(***************************************************************************)
\* Entry: with the local-data override the thread reports the size of the
\* existing tree and finishes; otherwise it announces Connecting.
SyncStart(t) ==
    LET k == threads[t].kind IN
    /\ threads[t].pc = "start"
    /\ \/ /\ bcat_boxcat_local
          /\ Progress(k, SetTotalSize(impl[k], CacheSize))
          /\ Step(t, [pc |-> "finish"])
       \/ /\ ~bcat_boxcat_local
          /\ Progress(k, StartConnecting(impl[k]))
          /\ Step(t, [pc |-> "download"])
    /\ UNCHANGED <<zip, cache, errorShown, crashed>>

\* client.DownloadDataZip() up to the write of the body.  A 200 with the
\* right content type opens data.zip with "wb", truncating it; 304 keeps
\* the existing data.zip; any other answer is a failure: NoMatchBuildId and
\* NoMatchTitleId delete data.zip, HandleDownloadDisplayResult shows some,
\* and the thread finishes with the general failure.
DownloadDataZip(t) ==
    LET k == threads[t].kind IN
    /\ threads[t].pc = "download"
    /\ \E status \in ServerAnswers(zip), typeOk \in BOOLEAN :
        LET res == DownloadResultOf(status, typeOk) IN
        \/ /\ res = "Body"
           /\ zip' = "partial"
           /\ Step(t, [pc |-> "write", ver |-> serverVer])
           /\ UNCHANGED <<impl, signaled, held, errorShown>>
        \/ /\ res = "Success"
           /\ Progress(k, StartProcessingDataList(impl[k]))
           /\ Step(t, [pc |-> "extract"])
           /\ UNCHANGED <<zip, errorShown>>
        \/ /\ res \notin {"Body", "Success"}
           /\ zip' = IF res \in {"NoMatchBuildId", "NoMatchTitleId"} THEN "none" ELSE zip
           /\ ShowError(res)
           /\ Fail(t)
    /\ UNCHANGED <<cache, crashed>>

\* The Resize and WriteBytes of the body into data.zip; a failure is
\* GeneralFSError and leaves the truncated file behind.
WriteDataZip(t) ==
    LET k == threads[t].kind IN
    /\ threads[t].pc = "write"
    /\ \/ /\ zip' = threads[t].ver
          /\ Progress(k, StartProcessingDataList(impl[k]))
          /\ Step(t, [pc |-> "extract"])
       \/ /\ IOFail
          /\ UNCHANGED zip
          /\ Fail(t)
    /\ UNCHANGED <<cache, errorShown, crashed>>

\* Reads data.zip and extracts it (ExtractZIP fails on a missing or
\* truncated file).  A full sync reports the archive size and starts
\* VfsRawCopyDProgress over its subdirectories.  A directory sync takes
\* target_sub and source_sub and calls source_sub->GetSize(), which
\* dereferences null when the archive lacks the directory.
ExtractDataZip(t) ==
    LET th == threads[t]
        k  == th.kind
    IN
    /\ th.pc = "extract"
    /\ \/ /\ zip \notin Versions
          /\ Fail(t)
          /\ UNCHANGED crashed
       \/ /\ zip \in Versions
          /\ k = "Normal"
          /\ Progress(k, SetTotalSize(impl[k], ArchiveSize(zip)))
          /\ Step(t, [pc |-> "nextdir", ver |-> zip, dirs |-> DOMAIN Archive[zip]])
          /\ UNCHANGED crashed
       \/ /\ zip \in Versions
          /\ k = "Directory"
          /\ th.name \in DOMAIN Archive[zip]
          /\ Progress(k, SetTotalSize(impl[k], ArchiveDirSize(zip, th.name)))
          /\ Step(t, [pc |-> "delete", ver |-> zip, tgt |-> th.name \in DOMAIN cache])
          /\ UNCHANGED crashed
       \/ /\ zip \in Versions
          /\ k = "Directory"
          /\ th.name \notin DOMAIN Archive[zip]
          /\ crashed' = TRUE
          /\ UNCHANGED <<impl, signaled, held, threads>>
    /\ UNCHANGED <<zip, cache, errorShown>>

\* Directory sync: target_sub->GetFiles() collects the names of the files
\* target_sub holds now.  It dereferences null when the cache has no such
\* directory; the null checks after the deletion come too late.
DeleteTargetFiles(t) ==
    LET th == threads[t] IN
    /\ th.pc = "delete"
    /\ \/ /\ th.tgt
          /\ Step(t, [pc |-> "deleting", del |-> DOMAIN cache[th.name]])
          /\ UNCHANGED crashed
       \/ /\ ~th.tgt
          /\ crashed' = TRUE
          /\ UNCHANGED threads
    /\ UNCHANGED <<impl, signaled, held, zip, cache, errorShown>>

\* What VfsDeleteFileWrap may do: delete the file, or (a host file that
\* cannot be removed) leave it and return false.
DeleteOutcomes == IF DeleteFail THEN BOOLEAN ELSE {TRUE}

\* One iteration of the loop over filenames, which are in the fixed order
\* GetFiles listed them: VfsDeleteFileWrap(target_sub, filename), whose
\* result is ignored.  A name another thread deleted in
\* the meantime is simply not found.  After the loop target_sub and
\* source_sub are non-null, so VfsRawCopyDProgressSingle starts.
DeleteNextFile(t) ==
    LET th == threads[t] IN
    /\ th.pc = "deleting"
    /\ \/ /\ th.del = {}
          /\ Step(t, [pc |-> "nextfile", dir |-> th.name,
                      files |-> DOMAIN Archive[th.ver][th.name]])
          /\ UNCHANGED cache
       \/ /\ th.del # {}
          /\ LET f == CHOOSE f \in th.del : TRUE IN
             \E deleted \in DeleteOutcomes :
             /\ cache' = IF deleted
                         THEN [cache EXCEPT ![th.name] = Restrict(@, DOMAIN @ \ {f})]
                         ELSE cache
             /\ Step(t, [del |-> th.del \ {f}])
    /\ UNCHANGED <<impl, signaled, held, zip, errorShown, crashed>>

\* VfsRawCopyDProgress: the next subdirectory of the extracted tree is
\* created under the target (an existing one is reused) and copied with
\* VfsRawCopyDProgressSingle; when none is left the copy succeeded and the
\* thread finishes with RESULT_SUCCESS.
CopyNextDirectory(t) ==
    LET th == threads[t]
        k  == th.kind
    IN
    /\ th.pc = "nextdir"
    /\ \/ /\ th.dirs = {}
          /\ Progress(k, FinishDownload(impl[k], "ok"))
          /\ Step(t, [pc |-> "done", res |-> "ok"])
          /\ UNCHANGED cache
       \/ \E d \in th.dirs :
          /\ cache' = IF d \in DOMAIN cache THEN cache
                      ELSE cache @@ (d :> EmptyDir)
          /\ Step(t, [pc |-> "nextfile", dir |-> d, dirs |-> th.dirs \ {d},
                      files |-> DOMAIN Archive[th.ver][d]])
          /\ UNCHANGED <<impl, signaled, held>>
    /\ UNCHANGED <<zip, errorShown, crashed>>

\* VfsRawCopyDProgressSingle: CreateFile for the next file of the source
\* directory (an existing file is opened), then VfsRawCopyProgress's
\* Resize and StartDownloadingFile.  A failed CreateFile (no file) or a
\* failed Resize (the file as it was, or a new empty one) ends the sync.
\* With no file left the directory is committed.
CopyNextFile(t) ==
    LET th == threads[t]
        k  == th.kind
    IN
    /\ th.pc = "nextfile"
    /\ \/ /\ th.files = {}
          /\ Progress(k, CommitDirectory(impl[k]))
          /\ Step(t, [pc |-> IF k = "Directory" THEN "finish" ELSE "nextdir"])
          /\ UNCHANGED cache
       \/ \E f \in th.files :
          LET size == Archive[th.ver][th.dir][f]
              old  == IF f \in DOMAIN cache[th.dir] THEN cache[th.dir][f] ELSE <<>>
          IN
          \/ /\ cache' = [cache EXCEPT ![th.dir] =
                             (f :> ResizeContent(old, size)) @@ @]
             /\ Progress(k, StartDownloadingFile(impl[k], size))
             /\ Step(t, [pc |-> "block", file |-> f, off |-> 0,
                         files |-> th.files \ {f}])
          \/ /\ IOFail
             /\ cache' \in {cache, [cache EXCEPT ![th.dir] = (f :> old) @@ @]}
             /\ Fail(t)
    /\ UNCHANGED <<zip, errorShown, crashed>>

\* VfsRawCopyProgress with the loop bound "i + block_size < size": the
\* last block of every file is skipped.
CopyBlockShortLoop(t) ==
    LET th == threads[t]
        k  == th.kind
        size == Archive[th.ver][th.dir][th.file]
    IN
    /\ th.pc = "block"
    /\ \/ /\ th.off + BlockSize < size
          /\ cache' = [cache EXCEPT ![th.dir][th.file] =
                          WriteAt(@, th.off, BlockSize, th.ver)]
          /\ Progress(k, UpdateFileProgress(impl[k], th.off))
          /\ Step(t, [off |-> th.off + BlockSize])
       \/ /\ th.off + BlockSize >= size
          /\ Progress(k, FinishDownloadingFile(impl[k]))
          /\ Step(t, [pc |-> "nextfile"])
          /\ UNCHANGED cache
    /\ UNCHANGED <<zip, errorShown, crashed>>

\* One iteration of VfsRawCopyProgress's loop: read min(block_size,
\* size - i) units at offset i, write them, report the offset i (not the
\* end of the block).  A short write ends the sync.  After the loop
\* FinishDownloadingFile adds the file to the total.
CopyBlock(t) ==
    LET th == threads[t]
        k  == th.kind
        size == Archive[th.ver][th.dir][th.file]
        read == IF BlockSize < size - th.off THEN BlockSize ELSE size - th.off
    IN
    /\ th.pc = "block"
    /\ \/ /\ th.off < size
          /\ cache' = [cache EXCEPT ![th.dir][th.file] =
                          WriteAt(@, th.off, read, th.ver)]
          /\ Progress(k, UpdateFileProgress(impl[k], th.off))
          /\ Step(t, [off |-> th.off + BlockSize])
       \/ /\ th.off < size
          /\ IOFail
          /\ Fail(t)
          /\ UNCHANGED cache
       \/ /\ th.off >= size
          /\ Progress(k, FinishDownloadingFile(impl[k]))
          /\ Step(t, [pc |-> "nextfile"])
          /\ UNCHANGED cache
    /\ UNCHANGED <<zip, errorShown, crashed>>

\* A directory sync whose single-directory copy returned true.
FinishSync(t) ==
    LET k == threads[t].kind IN
    /\ threads[t].pc = "finish"
    /\ Progress(k, FinishDownload(impl[k], "ok"))
    /\ Step(t, [pc |-> "done", res |-> "ok"])
    /\ UNCHANGED <<zip, cache, errorShown, crashed>>

\* Every thread step; the thread never touches the server, the game's
\* loop or is_syncing.
ThreadStep(t) ==
    /\ ~crashed
    /\ Running(t)
    /\ \/ SyncStart(t)
       \/ DownloadDataZip(t)
       \/ WriteDataZip(t)
       \/ ExtractDataZip(t)
       \/ DeleteTargetFiles(t)
       \/ DeleteNextFile(t)
       \/ CopyNextDirectory(t)
       \/ CopyNextFile(t)
       \/ CopyBlock(t)
       \/ FinishSync(t)
    /\ UNCHANGED <<serverVer, published, caller, is_syncing, restarts, launch, settings>>

(***************************************************************************)
(* The game: after a request it waits on the progress event (auto-reset:  *)
(* a wait consumes the signal), then reads the record with GetImpl; it    *)
(* stops waiting once the status is Done.  fresh records whether that Done *)
(* belonged to the request the game made.                                 *)
(***************************************************************************)
WaitProgressEvent(k) ==
    /\ ~crashed
    /\ caller[k].pc = "waiting"
    /\ signaled[k]
    /\ signaled' = [signaled EXCEPT ![k] = FALSE]
    /\ caller' = [caller EXCEPT ![k].pc = "reading"]
    /\ held' = [held EXCEPT ![k] = IF TornCopy THEN {impl[k]} ELSE {}]
    /\ UNCHANGED <<impl, zip, cache, serverVer, published, threads, is_syncing,
                   errorShown, crashed, restarts, launch, settings>>

\* The records a copy can produce that starts while the record is a and
\* ends when it is b: each field comes from one of the two.
Mixes(a, b) ==
    {[f \in DOMAIN a |-> IF f \in S THEN b[f] ELSE a[f]] : S \in SUBSET DOMAIN a}

\* What GetImpl's copy can return: with TornCopy any mix of the records
\* held since the wake-up, otherwise the record as it is.
Copies(k) ==
    IF TornCopy THEN UNION {Mixes(a, impl[k]) : a \in held[k]} ELSE {impl[k]}

\* ctx.WriteBuffer(&impl, sizeof(DeliveryCacheProgressImpl)) copies the
\* record with no lock against the sync thread's stores.  The game goes
\* idle when the copy it got says Done.
GetImpl(k) ==
    /\ ~crashed
    /\ caller[k].pc = "reading"
    /\ \E view \in Copies(k) :
          caller' = [caller EXCEPT ![k] =
                       IF view.status = "Done"
                       THEN [@ EXCEPT !.pc = "idle", !.fresh = ~Running(caller[k].req),
                                      !.torn = TornCopy /\ view \notin held[k]]
                       ELSE [@ EXCEPT !.pc = "waiting", !.torn = TornCopy /\ view \notin held[k]]]
    /\ held' = [held EXCEPT ![k] = {}]
    /\ UNCHANGED <<impl, signaled, zip, cache, serverVer, published, threads,
                   is_syncing, errorShown, crashed, restarts, launch, settings>>

\* The server publishes new delivery data.
ServerPublish ==
    /\ ~crashed
    /\ published < MaxPublish
    /\ \E v \in Versions \ {serverVer} :
          /\ serverVer' = v
          /\ published' = published + 1
    /\ UNCHANGED <<impl, signaled, held, zip, cache, threads, caller, is_syncing,
                   errorShown, crashed, restarts, launch, settings>>

(***************************************************************************)
(* Boxcat::GetLaunchParameter and NullBackend::GetLaunchParameter, called *)
(* synchronously by the game.  The launch parameter the server serves     *)
(* moves with its delivery data, so it is tagged with serverVer.          *)
(***************************************************************************)
\* The end of DownloadInternal after a 200 of the right type, as pairs of
\* the file it leaves and the result: "wb" truncates, Resize fills the
\* body's size with zeros, WriteBytes copies the body.  The open (file
\* untouched), the Resize (file left empty) or the write (file left
\* zero-filled) may fail with GeneralFSError; its count is checked.
\* A write whose short count is not checked: the zero-filled file is a
\* Success.
LaunchWritesIgnoringShortWrite(v) ==
    {[file |-> v, res |-> "Success"]} \cup
    IF IOFail THEN {[file |-> bin, res |-> "GeneralFSError"],
                    [file |-> "empty", res |-> "GeneralFSError"],
                    [file |-> "garbage", res |-> "Success"]}
    ELSE {}

LaunchWrites(v) ==
    {[file |-> v, res |-> "Success"]} \cup
    IF IOFail THEN {[file |-> f, res |-> "GeneralFSError"] : f \in {bin, "empty", "garbage"}}
    ELSE {}

\* The closing read: a missing or empty file, or a short ReadBytes, is
\* nullopt; otherwise the file's bytes are the parameter.
ReadBin(f) ==
    IF f \in {"none", "empty"} THEN {"nullopt"}
    ELSE {f} \cup (IF IOFail THEN {"nullopt"} ELSE {})

\* Without the local override the client downloads first: a 200 body is
\* written, a 304 keeps the file, any other answer deletes the file on
\* NoMatchBuildId/NoMatchTitleId, goes to HandleDownloadDisplayResult and
\* returns nullopt.  Then launchparam.bin is read back.
BoxcatGetLaunchParameter ==
    /\ bcat_backend = "boxcat"
    /\ \/ /\ bcat_boxcat_local
          /\ launchRet' \in ReadBin(bin)
          /\ UNCHANGED <<bin, errorShown>>
       \/ /\ ~bcat_boxcat_local
          /\ \E status \in ServerAnswers(bin), typeOk \in BOOLEAN :
             LET res == DownloadResultOf(status, typeOk) IN
             \/ /\ res = "Body"
                /\ \E w \in LaunchWrites(serverVer) :
                      /\ bin' = w.file
                      /\ IF w.res = "Success"
                         THEN launchRet' \in ReadBin(w.file) /\ UNCHANGED errorShown
                         ELSE launchRet' = "nullopt" /\ ShowError(w.res)
             \/ /\ res = "Success"
                /\ launchRet' \in ReadBin(bin)
                /\ UNCHANGED <<bin, errorShown>>
             \/ /\ res \notin {"Body", "Success"}
                /\ bin' = IF res \in {"NoMatchBuildId", "NoMatchTitleId"} THEN "none" ELSE bin
                /\ ShowError(res)
                /\ launchRet' = "nullopt"

NullBackendGetLaunchParameter ==
    /\ bcat_backend = "null"
    /\ launchRet' = "nullopt"
    /\ UNCHANGED <<bin, errorShown>>

GetLaunchParameter ==
    /\ ~crashed
    /\ launches < MaxLaunch
    /\ launches' = launches + 1
    /\ BoxcatGetLaunchParameter \/ NullBackendGetLaunchParameter
    /\ UNCHANGED <<impl, signaled, held, zip, cache, serverVer, published, threads,
                   caller, is_syncing, crashed, restarts, settings>>

(***************************************************************************)
(* The emulator process ends (it is closed, or it crashed) and is started *)
(* again with the game.  Only the host files survive: data.zip and the    *)
(* cache directory.  Detached sync threads die with the process wherever  *)
(* they were; the services are built anew.                                *)
(***************************************************************************)
\* Module::Interface's constructor: CreateBackendFromSettings makes a
\* Boxcat or a NullBackend from the settings of the new session, which the
\* user may have changed; Boxcat's is_syncing starts false.
CreateBackendFromSettings ==
    /\ bcat_backend' \in Backends
    /\ bcat_boxcat_local' \in LocalSettings
    /\ is_syncing' = FALSE

\* A thread cut off by the end of the process: it never reports a result.
Killed(th) == IF th.pc = "done" THEN th ELSE [th EXCEPT !.pc = "done"]

Restart ==
    /\ restarts < MaxRestarts
    /\ restarts' = restarts + 1
    /\ impl' = [k \in Kinds |-> InitialProgress]
    /\ signaled' = [k \in Kinds |-> FALSE]
    /\ held' = [k \in Kinds |-> {}]
    /\ threads' = [t \in DOMAIN threads |-> Killed(threads[t])]
    /\ caller' = [k \in Kinds |-> [pc |-> "idle", req |-> 0, fresh |-> TRUE,
                                   torn |-> FALSE]]
    /\ crashed' = FALSE
    /\ CreateBackendFromSettings
    /\ UNCHANGED <<zip, cache, serverVer, published, errorShown, launch>>

\* Nothing is left to do: every request the game makes is answered, or
\* the emulator has crashed.
Quiescent ==
    /\ \/ crashed
       \/ /\ \A k \in Kinds : caller[k].pc = "idle" /\ Cardinality(RunsOf(k)) = MaxRuns
          /\ \A t \in DOMAIN threads : ~Running(t)
    /\ UNCHANGED vars

Next ==
    \/ "Normal" \in Kinds /\ RequestSyncDeliveryCache
    \/ "Directory" \in Kinds /\ RequestSyncDeliveryCacheWithDirectoryName
    \/ \E t \in DOMAIN threads : ThreadStep(t)
    \/ \E k \in Kinds : WaitProgressEvent(k) \/ GetImpl(k)
    \/ ServerPublish
    \/ GetLaunchParameter
    \/ Restart
    \/ Quiescent

\* Detached threads are scheduled by the host OS and the game keeps
\* polling its event; requests and publications need not happen.
Fairness ==
    /\ \A t \in 1..(MaxRuns * Cardinality(Kinds)) :
          WF_vars(t \in DOMAIN threads /\ ThreadStep(t))
    /\ \A k \in Kinds : WF_vars(WaitProgressEvent(k)) /\ WF_vars(GetImpl(k))

Spec == Init /\ [][Next]_vars

FairSpec == Spec /\ Fairness

(***************************************************************************)
(* Properties.                                                             *)
(***************************************************************************)
\* Thread t reports result r to the progress record in this step.
Reports(t, r) == threads[t].res = "none" /\ threads'[t].res = r

\* The cache holds, byte for byte, what thread th's archive puts there: for
\* a full sync every file of the archive (other cached files stay), for a
\* directory sync exactly the files of that directory.
Installed(c, th) ==
    LET v == th.ver IN
    IF th.kind = "Normal"
    THEN \A d \in DOMAIN Archive[v] :
            /\ d \in DOMAIN c
            /\ \A f \in DOMAIN Archive[v][d] :
                  f \in DOMAIN c[d] /\ c[d][f] = FileImage(v, d, f)
    ELSE /\ th.name \in DOMAIN c
         /\ c[th.name] = [f \in DOMAIN Archive[v][th.name] |-> FileImage(v, th.name, f)]

\* When a Boxcat sync thread reports RESULT_SUCCESS (VfsRawCopyDProgress or
\* VfsRawCopyDProgressSingle returned true), the title's cache holds the
\* complete content of the archive it extracted: no file is missing, short,
\* zero-filled or holds another version's bytes.
SuccessInstallsArchive ==
    [][\A t \in DOMAIN threads :
          Reports(t, "ok") /\ threads'[t].ver \in Versions => Installed(cache', threads'[t])
      ]_vars

\* Whenever progress[k] says Done, FinishDownload's accounting holds:
\* total_downloaded_bytes equals total_bytes.  It can only break if a
\* mutator that changes the totals runs while the status is still Done.
DoneTotalsAgree ==
    \A k \in Kinds : impl[k].status = "Done" =>
                        impl[k].totalDownloaded = impl[k].totalBytes

\* Every request the game makes ends: the game, waiting on the progress
\* event, eventually reads a Done status.
SyncRequestCompletes ==
    \A k \in Kinds : caller[k].pc = "waiting" ~> caller[k].pc = "idle"

\* A Done the game reads after its request belongs to that request: the
\* thread it started has finished, so the cache it goes on to read is the
\* synchronized one.
ObservedDoneIsCurrent ==
    \A k \in Kinds : caller[k].fresh

\* While a sync is in progress the bytes it reports as downloaded never
\* exceed the total it announced.
ProgressWithinTotal ==
    \A k \in Kinds : impl[k].status # "Done" =>
                        impl[k].totalDownloaded <= impl[k].totalBytes

\* The status of progress[k] only moves forward through Connecting,
\* ProcessingDataList, Downloading, Committing, Done; only a new run's
\* StartConnecting starts it over.
StatusNeverRegresses ==
    [][\A k \in Kinds :
          \/ StatusRank(impl'[k].status) >= StatusRank(impl[k].status)
          \/ impl'[k].status = "Connecting"
      ]_vars

\* With the local override off, a launch parameter Boxcat::GetLaunchParameter
\* returns is the one the server serves at that moment: a 304 answers only
\* a file whose digest matches, and a body whose write failed, leaving
\* launchparam.bin truncated or zero-filled, is never read back as one.
LaunchParamIsCurrent ==
    [][launches' # launches /\ ~bcat_boxcat_local /\ launchRet' # "nullopt"
          => launchRet' = serverVer]_vars

\* Every record the game gets from GetImpl is one progress[k] actually
\* held while the game copied it: a Done it reads comes with the result and
\* totals of the FinishDownload that wrote it.
ReadIsSnapshot == \A k \in Kinds : ~caller[k].torn

(***************************************************************************)
(* Refinement.  While a sync thread runs, the abstract cache is the cache  *)
(* as the request found it (the copy in progress is not yet a result);    *)
(* the abstract sync of kind k is the last thread of that kind, with the   *)
(* result the progress record holds.                                      *)
(***************************************************************************)
LastRun(k) == CHOOSE t \in RunsOf(k) : \A u \in RunsOf(k) : u <= t

CacheView ==
    IF \E t \in DOMAIN threads : Running(t)
    THEN threads[CHOOSE t \in DOMAIN threads : Running(t)].before
    ELSE cache

SyncView ==
    [k \in Kinds |->
        IF RunsOf(k) = {}
        THEN [state |-> "idle", name |-> "none", result |-> impl[k].result]
        ELSE [state |-> IF Running(LastRun(k)) THEN "running" ELSE "done",
              name |-> threads[LastRun(k)].name, result |-> impl[k].result]]

Abs == INSTANCE BcatSyncAbstract
          WITH aCache <- CacheView, aSync <- SyncView,
               aOffline <- (bcat_backend = "null" \/ bcat_boxcat_local),
               aSession <- restarts

\* The detailed synchronization implements BcatSyncAbstract: a sync's
\* result and the cache it leaves are ones the abstract sync allows.  A
\* success installs an archive whole (merging it, or replacing the named
\* directory), a failure without failing host writes leaves the cache as
\* it was, and no sync ever touches a directory outside its scope.
AbstractSync == Abs!Spec

=============================================================================
