# TLA+ models of the BCAT delivery-cache synchronization

This directory holds TLA+ models of yuzu's BCAT service (`src/src/core/hle/service/bcat/`). BCAT is the
service through which a game asks for its delivery data to be synchronized from a server into a local
cache directory, watches the progress, and then reads the cached files. The models are checked with TLC.
`PROJECT.json` lists:

- the components;
- the runs;
- the mutants that show each passing property can fail;
- the source lines each definition models;
- the findings;
- the hazards.

## 1. The system

### Components and their state

| Component | Source | State | Operations |
|---|---|---|---|
| ProgressServiceBackend | `backend/backend.cpp` | `impl`, a `DeliveryCacheProgressImpl` record (status, result, current and total byte counts, display names), and an auto-reset kernel event | SetTotalSize, StartConnecting, StartProcessingDataList, StartDownloadingFile, UpdateFileProgress, FinishDownloadingFile, CommitDirectory, FinishDownload; each ends with SignalUpdate |
| Boxcat backend | `backend/boxcat.cpp` | `is_syncing`; the per-title `data.zip`; the title's cache directory (through `dir_getter`) | Synchronize, SynchronizeDirectory (each detaches a thread running SynchronizeInternal), Clear, SetPassphrase, GetLaunchParameter, GetStatus |
| Boxcat::Client | `backend/boxcat.cpp` | the HTTP client and the local path | DownloadDataZip, DownloadLaunchParam, which share DownloadInternal |
| Copy routines | `backend/boxcat.cpp` | none of their own | VfsRawCopyProgress (block copy), VfsRawCopyDProgressSingle (one directory), VfsRawCopyDProgress (a tree) |
| NullBackend | `backend/backend.cpp` | none | Synchronize and SynchronizeDirectory each finish the progress synchronously |
| IBcatService | `module.cpp` | one ProgressServiceBackend per sync kind (Normal, Directory) | RequestSyncDeliveryCache, ...WithDirectoryName, SetPassphrase, ClearDeliveryCacheStorage |
| IDeliveryCacheProgressService | `module.cpp` | a reference to `impl` and the event | GetEvent, GetImpl (an unsynchronized copy of `impl`) |
| Storage, file and directory services | `module.cpp` | the entries snapshot and next_read_index; current_file; current_dir | EnumerateDeliveryCacheDirectory, Open/Read/GetSize/GetDigest, Open/Read/GetCount |
| VerifyNameValidInternal | `module.cpp` | none | validates a fixed-size name buffer |
| CreateBackendFromSettings | `module.cpp` | the settings `bcat_backend` and `bcat_boxcat_local` | chooses Boxcat or NullBackend |

The repository also contains unrelated files: `fermi_2d.cpp`, `configure_input_simple.h`, the ring-buffer
test and `virtual_file_util.*`. They are listed in PROJECT.json with the reason each is or is not modelled.

### How the components interact

The game calls a RequestSync handler. The handler passes the kind's progress backend to the configured
backend and returns a progress service.

- Boxcat sets `is_syncing` and detaches a thread, then returns at once.
- The thread connects to the server. When data.zip exists, the request carries its digest.
- If the download succeeds, the thread rewrites data.zip, reads and extracts it, and copies it into the cache:
  - a full sync merges every directory;
  - a directory sync first deletes the target directory's files one by one, ignoring each result, then copies that one directory.
- Every step mutates the progress record and signals the event.
- The game waits on the event and reads the record with GetImpl. When the record says Done, the game reads
  the cache through the storage services.

Two synchronizations can run at once: one of each kind, or a new one after a stale Done. They share
data.zip and the cache directory.

### What is hard

- The interleaving of a sync thread with the game, and of two sync threads with each other, over shared
  files. `is_syncing` is never checked.
- The auto-reset event and the record together. Neither is reset between runs, so a reader can see the
  previous run's Done.
- The order inside a directory sync. Deletion comes before the copy, and null dereferences come before
  the null checks.
- Failure paths at every step: no response, error statuses, a bad content type, a truncated data.zip,
  failed host writes.
- Byte accounting across runs and at block boundaries.
- An emulator exit in the middle of a sync. data.zip and the cache stay on disk, but the progress
  records and the thread do not. The next session must recover from a half-copied cache, even when the
  server answers its If-None-Match with a 304.

### Properties by component

- **Progress record:**
  - during a run the downloaded total never exceeds the total (`progress_not_reset` shows it does).
- **Sync thread:**
  - a success installs its archive, and a directory sync leaves exactly the archive's files in that
    directory (`cross_kind_race` and `stale_file` show how it fails);
  - it implements the abstract sync `BcatSyncAbstract`. A success installs a whole archive. A failure
    leaves the cache as it was, or, when host writes fail, leaves only short or new files that the archive
    names;
  - every request reaches Done;
  - with the local override off, a launch parameter GetLaunchParameter returns is the one the server
    serves. A 304 answers only a matching file, and a failed write's truncated or zero-filled
    launchparam.bin is never read back;
  - a sync cut off by an emulator restart leaves only a partial copy within its own scope. A later
    success still installs the whole archive, 304 included.
- **Game loop:**
  - the Done the game reads belongs to its own request;
  - the record GetImpl copies is one the progress actually held.
- **Façade:**
  - a rejected request answers its error and nothing else;
  - Read never asks for bytes beyond the file;
  - enumeration hands out each snapshot entry exactly once, in order;
  - an open handle is never replaced;
  - an Open whose name buffers satisfy the specification's name rule is never refused, and opens exactly
    the directory or file the names spell, or answers ERROR_FAILED_OPEN_ENTITY when the cache lacks it.
- **VirtualBinaryFile:** an access that reports success moved every byte it claims. A read's bytes all lie
  inside the vector, and a write inserts no further than the vector's end.

## 2. Modules

- **`BcatProgress`**: the progress record type and the eight mutators, as operators from record to record.
- **`BoxcatSync`** (EXTENDS BcatProgress): the composed system. Its variables:
  - `impl[k]` and `signaled[k]`: per kind, the record and the event;
  - `held[k]`: a history variable. It holds the records `impl[k]` has had since the game woke up to copy
    it; it is used only when the constant `TornCopy` is TRUE;
  - `zip`: data.zip, which is "none", "partial" (truncated) or the version it holds;
  - `cache`: directory → file → content;
  - `serverVer` and `published`: what the server serves, and how many times it has published;
  - `threads`: one record per accepted request, holding its pc and the locals the code keeps;
  - `caller[k]`: the game's request/wait/read loop for kind k;
  - `is_syncing`, `errorShown` (the results shown through the error applet) and `crashed`;
  - `restarts`: emulator restarts so far, bounded by `MaxRestarts`;
  - `bin`, `launches` and `launchRet`: launchparam.bin ("none", "empty", "garbage" or a version), the
    GetLaunchParameter calls so far (bounded by `MaxLaunch`), and what the last call returned. Init lets
    `bin` be anything an earlier session can leave;
  - `bcat_backend` and `bcat_boxcat_local`: the settings, chosen in Init and again at each restart.

  File contents are sequences of units. Each unit is tagged with the version whose bytes it holds:
  - "old": content from before the model starts;
  - "zero": the fill of `Resize`.

  With these tags, a short, zero-filled or mixed copy can be told apart from a complete one.

  The actions, one per handler or per step between two progress mutations of the thread:

  | Action | Models |
  |---|---|
  | RequestSyncDeliveryCache, RequestSyncDeliveryCacheWithDirectoryName | the module.cpp handlers together with `Boxcat::Synchronize*` or `NullBackend::Synchronize*` |
  | SyncStart | the local-data override or StartConnecting |
  | DownloadDataZip | the answer to the request and its mapping to a DownloadResult, with every failure path |
  | WriteDataZip | the body written into data.zip |
  | ExtractDataZip | reading and extracting data.zip; SetTotalSize; the null source_sub |
  | DeleteTargetFiles | `target_sub->GetFiles()`, which collects the names to delete; the null target_sub |
  | DeleteNextFile | one iteration of the deletion loop. `VfsDeleteFileWrap` deletes the file or, when the constant `DeleteFail` is TRUE, may leave it (`DeleteOutcomes`). Its result is ignored, as in the code. The files go in the fixed order the listing gave; a restart may fall between two deletions |
  | CopyNextDirectory, CopyNextFile, CopyBlock | VfsRawCopyDProgress, VfsRawCopyDProgressSingle and one iteration of VfsRawCopyProgress |
  | FinishSync | the final FinishDownload of a directory sync |
  | WaitProgressEvent, GetImpl | the game's loop; with `TornCopy`, GetImpl's unsynchronized copy returns any field-wise mix (`Mixes`) of a record held since the wake-up and the current one |
  | ServerPublish | the server publishing new data |
  | GetLaunchParameter | `Boxcat::GetLaunchParameter`: the local override, or DownloadLaunchParam with its write outcomes (`LaunchWrites`), then the read-back (`ReadBin`). Also `NullBackend::GetLaunchParameter`. It is synchronous on the game's thread. Nothing in this tree calls it, so it may happen at any point |
  | Restart | the emulator process ending and starting again. Only `zip` and `cache` survive. Every running thread dies (`Killed`). The services are built anew: zeroed progress records, unsignaled events and a backend from the possibly changed settings (`CreateBackendFromSettings`) |
  | Quiescent | a stutter once all requests are answered or the emulator has crashed |

  Each thread step performs at most one mutation plus its signal, so the game may read between any two
  mutations, just as it can against the real thread.
- **`BcatSyncAbstract`**: what one sync promises the title, with threads, data.zip and the copy hidden.
  - Variables: `aCache` (the cache as finished syncs left it), `aSync[k]` (state, name and result of the
    last sync of kind k), `aOffline` (the backend does not download) and `aSession` (emulator sessions
    ended, mapped from `restarts`). Because of `aSession`, a restart and a sync's own end are different
    steps: without it, a success that left a short copy would pass as a restart.
  - Actions:
    - Start;
    - Immediate, for the NullBackend;
    - Succeed: the archive `Merged` into the cache (full sync) or `Replaced` for the named directory;
      nothing changes when the backend is offline;
    - Fail: the cache is unchanged, or, when host writes fail, a `PartialCopy` that stays within the
      sync's scope;
    - Restart: a running sync ends without a result, leaving the cache as it was or with a `PartialCopy`
      (whether or not host writes fail). The results go back to the zeroed record's, and the backend may
      change.

  `BoxcatSync` defines the refinement mapping, `Abs == INSTANCE BcatSyncAbstract WITH ...`:
  - `CacheView`: the cache as the running thread's request found it (its `before` field), or the cache
    itself when no thread runs;
  - `SyncView`: the last thread of each kind, with the result the progress record holds;
  - `aOffline`: the NullBackend or the local override.

  The property `AbstractSync == Abs!Spec` is checked in `normal_sync` and `dir_sync`. Each of these runs
  has one sync kind, and the game waits for Done before it asks again. Within a session, at most one
  thread of that kind is running. After a restart a killed thread no longer counts. The code itself
  does not enforce this: `is_syncing` is never read, so a game that asks again without waiting would
  start a second thread of the same kind. The model keeps the game's wait-then-ask loop, and `MaxRuns = 2`
  bounds the requests per kind. With two kinds the mapping fails, as `cross_kind_race` shows.
- **`MC_BoxcatSync`**: small archives and cache contents for TLC. Two directories, two files, two
  versions. File sizes are 1 to 3 units and the block size is 2, so one file needs two blocks with a
  short last block.

- **`DeliveryCacheFacade`**: the commands the game sends once the cache is synchronized. Its variables:
  - `entries`, `next_read_index`: one storage service's snapshot of name buffers, and its cursor;
  - `returned`: the name buffers enumeration has handed out so far (an observer variable);
  - `current_file`, `current_dir`: the open slots of one file service and one directory service;
  - `cache`: directory → file → size;
  - `reply`: the results the last command pushed, in order;
  - `lastRead`: the offset and size the last Read passed to ReadBytes;
  - `request`: the name buffers of the last Open, `<<>>` after any other command (an observer variable
    for ValidNamesOpenTheirEntity; the MC module's VIEW leaves it out of the state fingerprint);
  - `crashed`;
  - the two settings.

  The actions:

  | Action | Models |
  |---|---|
  | EnumerateDeliveryCacheDirectory | one page of the storage service's enumeration |
  | FileOpen, FileRead, FileGetSizeOrDigest | the file service's Open, Read, and GetSize/GetDigest |
  | DirOpen, DirReadOrGetCount | the directory service's Open, and Read/GetCount |
  | SetPassphrase | IBcatService::SetPassphrase |
  | ClearDeliveryCacheStorage | the handler, with Boxcat::Clear or NullBackend::Clear |
  | Halted | a stutter once the emulator has crashed |

  Read keeps the u64 arithmetic modulo 2^`Width`, with `Width` = 3, so a wrap shows at offsets up to 3.
  Names are strings, sequences of bytes. What the game passes is a `NameLen`-byte buffer (0x20 scaled
  to 3). `StringFromFixedZeroTerminatedBuffer` decodes it, and `VerifyNameValidInternal` counts its NUL
  and bad bytes and looks at its last byte, as the code does. `NameBuffer` is the zeroed buffer and
  memcpy of the storage service's constructor, which keeps at most `NameLen - 1` bytes of a name.
  `Subdirectory` is root->GetSubdirectory: for the empty name, which a buffer starting with NUL
  decodes to, the host VFS answers, so the model lets it be null or root itself (which holds no
  files).
- **`VirtualBinaryFile`**: `Common::VirtualFileUtil::VirtualBinaryFile`, an in-memory file that is
  a byte vector with a single read/write position. It is unrelated to BCAT but part of this tree.
  - Variables: the vector (reduced to its size), the position, and the last access.
  - Actions: ReadBytes and WriteBytes, which every templated Read*/Write* wrapper reaches with sizeof(T)
    and a count; Resize; ResetReadWritePosition.
  - Init holds both constructors. The default one leaves the position uninitialized, so it is any
    std::size_t.
  - std::size_t is `Width` bits wide, so the wrap of the bounds check shows.
- **`MC_DeliveryCacheFacade`**: a cache of `d1{f1:2, f2:1}` and `d2{f1:1}`, with `d1` = "a",
  `d2` = "-a", `f1` = "a" and `f2` = ".a". The buffers are three bytes over {a, -, ., NUL}: one
  alphanumeric, the extra byte of each kind (which is a bad byte for the other kind) and NUL. The
  directory service's Open gets all 64 of them. The file service's Open gets every directory buffer
  with f1's buffer, d1's buffer with every file buffer, and every pair of valid buffers.

### Open work

All twelve run slots hold findings or the passing runs. The status regression of a full sync
(Committing at boxcat.cpp:161, then Downloading for the next directory) is stated as
`StatusNeverRegresses`, but no run checks it. These findings are also waiting for a slot:

1. the directory Read count (module.cpp:454);
2. the name-rule divergence (module.cpp:63);
3. the long-name round trip (module.cpp:495 and :445).

Fermi2D would then be a module of its own.

## 3. Runs

The sync runs use `MC_BoxcatSync` with block size 2 and the server first serving `v1`. The façade runs use
`MC_DeliveryCacheFacade`, and `vbf_read_bounds` uses `VirtualBinaryFile` directly.

| Run | Expect | Bounds | What it shows |
|---|---|---|---|
| normal_sync | pass | Normal kind, 2 runs, 1 publication, 1 restart, statuses {none, 200, 304, 406}, host writes may fail, backend ∈ {boxcat, null}, local override on or off | TypeOK, AbstractSync (refinement), SyncRequestCompletes |
| dir_sync | pass | Directory kind, 1 restart, host writes may fail, 1 GetLaunchParameter call, names {d1, d2} (d2 is absent from the cache, and the second archive drops it), statuses {none, 200, 304, 404}, backend ∈ {boxcat, null}, local override on or off, deletes succeed | AbstractSync (refinement), LaunchParamIsCurrent |
| torn_read | violation | Normal kind, 2 runs, statuses {200, 406}, `TornCopy` | ReadIsSnapshot fails: the game copies Done together with the result of the earlier record, so a failed sync reads as a success |
| stale_done | violation | Normal kind, 2 runs | ObservedDoneIsCurrent fails: the second request is answered by the first run's Done |
| progress_not_reset | violation | Normal kind, 2 runs | ProgressWithinTotal fails: the downloaded total carries over |
| stale_file | violation | Directory kind, one sync of d1, whose cached f2 the archive lacks; `DeleteFail` | SuccessInstallsArchive fails: VfsDeleteFileWrap leaves f2, its result is ignored, and the sync reports success with f2 still beside the new f1 |
| dir_sync_crash | violation | Directory kind, name d2, absent from the cache and from the second archive, 1 publication | SyncRequestCompletes fails: the null dereference kills the thread. The trace TLC reports is the publication of v2 and then `source_sub->GetSize()` on the missing directory (line 342). A sync under v1 reaches `target_sub->GetFiles()` (line 346) instead; that state is in the same state space |
| cross_kind_race | violation | both kinds at once | SuccessInstallsArchive fails: the two threads corrupt each other's data.zip and cache |
| facade | pass | every command over the two-directory cache, every 3-byte name buffer, offsets {0, 1, 3}, buffers {0, 1, 2}, title ids {0, 1}, both backends and both local settings, Clear may fail | TypeOK, EnumerationFollowsSnapshot, OpenedEntityIsKept, ValidNamesOpenTheirEntity |
| facade_error_continues | violation | as facade | ErrorIsFinal fails: SetPassphrase with title 0, and Read/GetSize/GetDigest with no open file, push an error and continue |
| vbf_read_bounds | violation | `VirtualBinaryFile`: 3-bit size_t, both constructors, sizeof(T) ∈ {1, 2}, counts {1, 2}, sizes up to 4 | AccessIsExact fails. After the default constructor the position is garbage. The trace TLC reports is a WriteBytes at position 1 of an empty vector, which inserts past its end. A position near SIZE_MAX also makes the bounds check's sum wrap for a read. The counts keep sizeof(T) * count below 2^3, because in 64 bits that product wraps only for counts of 2^63 / sizeof(T) or more; every access that fails comes from the uninitialized position |
| read_offset_wraps | violation | as facade | ReadWithinFile fails: a Read at offset 3 of a 2-byte file asks for the whole buffer |

These bounds are enough for the following reasons:

- Two runs per kind is the least that exposes anything carried from one run to the next.
- One publication makes the If-None-Match digest stale, which is what makes a 304 matter.
- Two directories make a full sync commit a directory and then download again.
- A 3-unit file with 2-unit blocks exercises the short last block.
- Every failure status class the client maps is present in one run or another.
- `DeleteFail` is TRUE only in `stale_file`. A failed delete of a file the archive names is harmless, because the copy opens and overwrites it. A failed delete of one it lacks breaks every success, which that run shows; the passing runs therefore keep deletes succeeding.
- One GetLaunchParameter call, from any launchparam.bin an earlier session left, reaches every outcome: a
  304 on a matching file, a failed open, Resize or write, a deletion on 404, and the override. A
  second call multiplies the state space by about five, and its outcomes are those of the first,
  starting from the file the first left.
- One restart is enough to kill a sync at any of its steps and then run a second sync over what it left.
  With two runs per kind, that second sync can be answered with a 304.
- Three-byte name buffers have room for the names of one and two bytes the cache holds. They also fit a
  buffer with no terminator, an all-NUL buffer, a NUL before other bytes, and a byte that only the other
  kind permits. The code's checks count and index over the whole buffer, so no case needs a longer one.

Every passing property has a mutant in PROJECT.json. Each mutant is a plausible bug in a mapped
definition, and TLC finds it under the run's own configuration:

- the error applet shows every result (`ShowErrorUnfiltered`);
- a loop bound that skips the last block (`CopyBlockShortLoop`);
- a session end that leaves the sync thread running (`RestartLeavingThreads`);
- a launch-parameter write whose short count is taken for success (`LaunchWritesIgnoringShortWrite`);
- a mutation that is not signalled (`ProgressNoSignal`);
- Read's size computed signed (`FileReadSigned`);
- an enumeration that does not advance its cursor (`EnumerateWithoutAdvance`);
- a second Open that replaces the open directory (`DirOpenReplacing`);
- a name check that looks for the terminator one byte early (`VerifyNameValidInternalEarlyTerminator`).

### Fairness

`FairSpec` puts weak fairness on each sync thread's steps and on the game's wait and read. Justification:

- The thread is a detached host thread, and the OS schedules it.
- The game's loop polls its event as long as it runs.

There is no fairness on requests, server publications, restarts or GetLaunchParameter calls, because
none of them need happen. Runs with no
liveness property use `Spec`. `TornCopy` is FALSE in every run but `torn_read`: in the other runs GetImpl
reads the record in one step. With torn copies on, the liveness runs grow several-fold, and their
properties do not depend on the fields a torn copy mixes. Quiescent keeps terminated behaviours from counting as deadlocks. Deadlock
checking stays on, so any other stuck state is still reported.

## 4. Not modelled

- **The network transport, TLS, SHA-256, ZIP extraction:** modelled by their results only. Each version's
  archive is a tree of file sizes.
- **A failing open of data.zip for reading:** the model folds it into the extraction failure.
- **The display fields `current_directory` and `current_file`, and SetNeedHLELock:** left out, because no
  property reads them.
- **The lock inside SignalUpdate:** guards only the kernel event.
- **GetStatus:** JSON parsing into display strings.
- **Clear racing a running sync:** the sync thread holds VirtualDir handles into the directories Clear
  deletes. What a write through such a handle does is up to the VFS, which is not in this tree.
- **Emulation stopped without the process ending:** the detached thread keeps a reference to a destroyed
  ProgressServiceBackend. Its writes are undefined behaviour, so there are no outcomes to enumerate. The
  mutant `RestartLeavingThreads` shows what the refinement says of a thread that outlives its session.
- **Buffers that the code accepts and the specification's name rule rejects:** a NUL before other
  bytes, as in "\0a\0". The specification asks for a single trailing run of NULs, and the code only
  counts NULs and checks the last byte. The model accepts such buffers as the code does, and
  ValidNamesOpenTheirEntity checks only the direction that must hold. Showing the converse is a
  spec_code_divergence that would need a violation run of its own, and every run slot holds a finding
  already listed (see the hazard at module.cpp:63).
- **Long names from the server:** the enumeration keeps 31 bytes of a directory name and Directory Read
  keeps 32 bytes of a file name with no room for the NUL. Either name then fails to open. Showing that
  also needs a violation run (hazards at module.cpp:495 and :445).
- **The façade reading while a sync thread rewrites the cache:** what a VirtualFile handle reads after
  another thread deleted and recreated its file is decided by the VFS, so the two modules are not
  composed (hazard at module.cpp:338).
- **Directory Read's rows and its returned count:** the rows need what GetFiles returns through a handle
  whose directory Clear deleted, which the VFS decides. The count pushed is in bytes, not rows; that is
  a hazard at module.cpp:454, and showing it would take a violation run of its own.
- **Fermi2D, the Qt dialog header, the ring-buffer test:** outside the BCAT system. The ring-buffer
  implementation is not in this tree. Fermi2D's one hazard, the unchecked GpuToCpuAddress optional
  at fermi_2d.cpp:43, depends on the GPU memory manager, which is not in this tree either.
