------------------------- MODULE DeliveryCacheFacade -------------------------
(***************************************************************************)
(* The delivery-cache façade of src/core/hle/service/bcat/module.cpp as   *)
(* the game drives it: one IDeliveryCacheStorageService with its          *)
(* enumeration cursor over the directory names it saw when it was made,   *)
(* the IDeliveryCacheFileService and IDeliveryCacheDirectoryService it    *)
(* hands out with their single "currently open" slot, and the two         *)
(* IBcatService commands that take a title id, SetPassphrase and          *)
(* ClearDeliveryCacheStorage (with Boxcat::Clear / NullBackend::Clear).   *)
(*                                                                         *)
(* A file is its size.  Names are strings (sequences of bytes); what the  *)
(* game passes is a fixed-size name buffer of NameLen bytes, decoded and   *)
(* validated byte by byte.  The u64 arithmetic of Read is kept modulo      *)
(* 2^Width.                                                                *)
(***************************************************************************)
EXTENDS Naturals, Sequences, SequencesExt

CONSTANTS
    NameLen,       \* sizeof(DirectoryName) = sizeof(FileName), 0x20 scaled down
    Alnum,         \* the bytes of the game's buffers std::isalnum accepts
    NUL,           \* the byte '\0'
    NoEntity,      \* a null VirtualFile / VirtualDir
    DirArgs,       \* name buffers the game passes to the directory service's Open
    FileArgs,      \* (directory, file) buffer pairs it passes to the file service's Open
    InitCache,     \* the title's cache directory: dir name -> file name -> size
    Offsets,       \* offsets the game passes to Read
    BufSizes,      \* output buffer sizes, in bytes or entries
    TitleIds,      \* title ids the game passes; 0 is the invalid one
    Width,         \* bits of the u64 arithmetic, scaled down
    LocalSettings, \* values Settings::values.bcat_boxcat_local may have
    Backends,      \* values Settings::values.bcat_backend may name
    ClearFail      \* whether DeleteSubdirectoryRecursive may fail

ASSUME NameLen >= 2 /\ NUL \notin Alnum /\ 0 \in TitleIds

VARIABLES
    cache,            \* the title's cache directory
    entries,          \* IDeliveryCacheStorageService::entries
    next_read_index,  \* IDeliveryCacheStorageService::next_read_index
    returned,         \* the names enumeration has handed out so far
    current_file,     \* IDeliveryCacheFileService::current_file
    current_dir,      \* IDeliveryCacheDirectoryService::current_dir
    reply,            \* the results the last command pushed, in order
    lastRead,         \* offset and size the last Read passed to ReadBytes
    request,          \* the name buffers of the last command, <<>> for one without
    crashed,          \* the emulator dereferenced a null VirtualFile
    bcat_backend, bcat_boxcat_local

vars == <<cache, entries, next_read_index, returned, current_file, current_dir,
          reply, lastRead, request, crashed, bcat_backend, bcat_boxcat_local>>

\* The result codes the commands push.
Results == {"Success", "InvalidArgument", "EntityAlreadyOpen", "FailedOpenEntity",
            "NoOpenEntity", "FailedClearCache"}

U64 == 2^Width

NoFile == [dir |-> NoEntity, file |-> NoEntity, size |-> 0]

NoRead == [off |-> 0, len |-> 0]

(***************************************************************************)
(* Names.  A name buffer is a function from 1..NameLen to bytes.           *)
(***************************************************************************)
Buffers(bytes) == [1..NameLen -> bytes]

\* Common::StringFromFixedZeroTerminatedBuffer: the bytes before the first
\* NUL, or the whole buffer when it has none.
StringFromFixedZeroTerminatedBuffer(b) ==
    LET nuls == {i \in 1..NameLen : b[i] = NUL} IN
    IF nuls = {} THEN b ELSE SubSeq(b, 1, Min(nuls) - 1)

\* A zeroed buffer into which the first Min(room, Len(n)) bytes of the name
\* n are copied (the std::memcpy of the storage service's constructor and
\* of the directory service's Read).
NameBuffer(n, room) ==
    [i \in 1..NameLen |-> IF i <= Min({room, Len(n)}) THEN n[i] ELSE NUL]

\* A check of the terminator one byte early, at name[0x1E].
VerifyNameValidInternalEarlyTerminator(b, match_char) ==
    LET null_chars == Cardinality({i \in 1..NameLen : b[i] = NUL})
        bad_chars == Cardinality({i \in 1..NameLen :
                                     b[i] \notin Alnum \cup {"_", match_char, NUL}})
    IN ~(null_chars = NameLen \/ null_chars = 0 \/ bad_chars # 0 \/ b[NameLen - 1] # NUL)

\* VerifyNameValidInternal: it counts the NUL bytes and the bad bytes
\* anywhere in the buffer and looks at the last byte.
VerifyNameValidInternal(b, match_char) ==
    LET null_chars == Cardinality({i \in 1..NameLen : b[i] = NUL})
        bad_chars == Cardinality({i \in 1..NameLen :
                                     b[i] \notin Alnum \cup {"_", match_char, NUL}})
    IN ~(null_chars = NameLen \/ null_chars = 0 \/ bad_chars # 0 \/ b[NameLen] # NUL)

VerifyNameValidDir(b) == VerifyNameValidInternal(b, "-")

VerifyNameValidFile(b) == VerifyNameValidInternal(b, ".")

\* root->GetSubdirectory(name): the cache's subdirectory of that name, or
\* null.  For the empty name the host VFS answers (it is not in this tree):
\* null, or root itself, written <<>>, which holds no files.
Subdirectory(n) ==
    IF n = <<>> THEN {NoEntity, <<>>}
    ELSE IF n \in DOMAIN cache THEN {n} ELSE {NoEntity}

\* The files of an opened directory; root holds only subdirectories.
FilesOf(dir) == IF dir = <<>> THEN {} ELSE DOMAIN cache[dir]

TypeOK ==
    /\ DOMAIN cache \subseteq DOMAIN InitCache
    /\ \A d \in DOMAIN cache : cache[d] = InitCache[d]
    /\ entries \in Seq(Buffers(Alnum \cup {"_", "-", ".", NUL}))
    /\ next_read_index \in 0..Len(entries)
    /\ returned \in Seq(Buffers(Alnum \cup {"_", "-", ".", NUL}))
    /\ current_file \in {NoFile} \cup
           UNION {{[dir |-> d, file |-> f, size |-> InitCache[d][f]] :
                      f \in DOMAIN InitCache[d]} : d \in DOMAIN InitCache}
    /\ current_dir \in {NoEntity, <<>>} \cup DOMAIN InitCache
    /\ reply \in Seq(Results)
    /\ lastRead \in [off: Offsets \cup {0}, len: 0..(U64 - 1)]
    /\ request \in {<<>>} \cup {<<b>> : b \in DirArgs} \cup FileArgs
    /\ crashed \in BOOLEAN

\* The storage service's constructor lists root's subdirectories, in the
\* order the host file system gives them, copying at most
\* sizeof(DirectoryName) - 1 bytes of each name into a zeroed buffer; the
\* file and directory services it creates start with nothing open.
Init ==
    /\ cache = InitCache
    /\ \E order \in SetToSeqs(DOMAIN InitCache) :
          entries = [i \in DOMAIN order |-> NameBuffer(order[i], NameLen - 1)]
    /\ next_read_index = 0
    /\ returned = <<>>
    /\ current_file = NoFile
    /\ current_dir = NoEntity
    /\ reply = <<>>
    /\ lastRead = NoRead
    /\ request = <<>>
    /\ crashed = FALSE
    /\ bcat_backend \in Backends
    /\ bcat_boxcat_local \in LocalSettings

(***************************************************************************)
(* IDeliveryCacheStorageService::EnumerateDeliveryCacheDirectory.          *)
(***************************************************************************)
\* A cursor that is never advanced: every call starts over at the front.
EnumerateWithoutAdvance(buf) ==
    LET size == Min({buf, Len(entries) - next_read_index}) IN
    /\ returned' = returned \o SubSeq(entries, next_read_index + 1, next_read_index + size)
    /\ UNCHANGED next_read_index

Enumerate(buf) ==
    LET size == Min({buf, Len(entries) - next_read_index}) IN
    /\ returned' = returned \o SubSeq(entries, next_read_index + 1, next_read_index + size)
    /\ next_read_index' = next_read_index + size

EnumerateDeliveryCacheDirectory ==
    /\ \E buf \in BufSizes : Enumerate(buf)
    /\ reply' = <<"Success">>
    /\ request' = <<>>
    /\ UNCHANGED <<cache, entries, current_file, current_dir, lastRead, crashed,
                   bcat_backend, bcat_boxcat_local>>

(***************************************************************************)
(* IDeliveryCacheFileService.                                              *)
(***************************************************************************)
\* Open(dir_name_raw, file_name_raw): both buffers are decoded, then
\* validated, then the slot is checked; the slot takes
\* root->GetSubdirectory(dir_name)->GetFile(file_name), and the reply is
\* ERROR_FAILED_OPEN_ENTITY when either is null (root, the empty name's
\* directory, holds no files).
FileOpen(d, f) ==
    LET dir_name == StringFromFixedZeroTerminatedBuffer(d)
        file_name == StringFromFixedZeroTerminatedBuffer(f)
    IN
    /\ \/ /\ ~VerifyNameValidDir(d) \/ ~VerifyNameValidFile(f)
          /\ reply' = <<"InvalidArgument">>
          /\ UNCHANGED current_file
       \/ /\ VerifyNameValidDir(d) /\ VerifyNameValidFile(f)
          /\ current_file # NoFile
          /\ reply' = <<"EntityAlreadyOpen">>
          /\ UNCHANGED current_file
       \/ /\ VerifyNameValidDir(d) /\ VerifyNameValidFile(f)
          /\ current_file = NoFile
          /\ \E dir \in Subdirectory(dir_name) :
                IF dir # NoEntity /\ file_name \in FilesOf(dir)
                THEN /\ current_file' = [dir |-> dir, file |-> file_name,
                                         size |-> cache[dir][file_name]]
                     /\ reply' = <<"Success">>
                ELSE /\ reply' = <<"FailedOpenEntity">>
                     /\ UNCHANGED current_file
    /\ request' = <<d, f>>
    /\ UNCHANGED <<lastRead, crashed>>

\* Read with the size computed in signed arithmetic: an offset past the
\* end gives a negative size.
FileReadSigned(off, buf) ==
    \/ /\ current_file = NoFile
       /\ reply' = <<"NoOpenEntity">>
       /\ crashed' = TRUE
       /\ UNCHANGED lastRead
    \/ /\ current_file # NoFile
       /\ lastRead' = [off |-> off, len |-> Min({current_file.size - off, buf})]
       /\ reply' = <<"Success">>
       /\ UNCHANGED crashed

\* Read(offset): with nothing open the error is pushed and the handler goes
\* on to current_file->GetSize(), a null dereference.  Otherwise the size
\* is min(GetSize() - offset, buffer size) in u64 arithmetic.
FileRead(off, buf) ==
    \/ /\ current_file = NoFile
       /\ reply' = <<"NoOpenEntity">>
       /\ crashed' = TRUE
       /\ UNCHANGED lastRead
    \/ /\ current_file # NoFile
       /\ lastRead' = [off |-> off, len |-> Min({(current_file.size - off) % U64, buf})]
       /\ reply' = <<"Success">>
       /\ UNCHANGED crashed

\* GetSize and GetDigest: the same missing return before the dereference.
FileGetSizeOrDigest ==
    /\ reply' = IF current_file = NoFile THEN <<"NoOpenEntity">> ELSE <<"Success">>
    /\ crashed' = (current_file = NoFile)
    /\ UNCHANGED lastRead

FileService ==
    /\ \/ \E args \in FileArgs : FileOpen(args[1], args[2])
       \/ \E off \in Offsets, buf \in BufSizes :
             FileRead(off, buf) /\ UNCHANGED current_file /\ request' = <<>>
       \/ FileGetSizeOrDigest /\ UNCHANGED current_file /\ request' = <<>>
    /\ UNCHANGED <<cache, entries, next_read_index, returned, current_dir,
                   bcat_backend, bcat_boxcat_local>>

(***************************************************************************)
(* IDeliveryCacheDirectoryService: Open, and Read / GetCount, which return *)
(* early with ERROR_NO_OPEN_ENTITY when nothing is open.                   *)
(***************************************************************************)
\* Open without the check of the slot: a second Open replaces the first.
DirOpenReplacing(b) ==
    LET name == StringFromFixedZeroTerminatedBuffer(b) IN
    \/ /\ ~VerifyNameValidDir(b)
       /\ reply' = <<"InvalidArgument">>
       /\ UNCHANGED current_dir
    \/ /\ VerifyNameValidDir(b)
       /\ \E dir \in Subdirectory(name) :
             /\ current_dir' = dir
             /\ reply' = IF dir = NoEntity THEN <<"FailedOpenEntity">> ELSE <<"Success">>

\* Open(name_raw): decoded, validated, the slot checked, then current_dir
\* takes root->GetSubdirectory(name), null when it is absent.
DirOpen(b) ==
    LET name == StringFromFixedZeroTerminatedBuffer(b) IN
    \/ /\ ~VerifyNameValidDir(b)
       /\ reply' = <<"InvalidArgument">>
       /\ UNCHANGED current_dir
    \/ /\ VerifyNameValidDir(b)
       /\ current_dir # NoEntity
       /\ reply' = <<"EntityAlreadyOpen">>
       /\ UNCHANGED current_dir
    \/ /\ VerifyNameValidDir(b)
       /\ current_dir = NoEntity
       /\ \E dir \in Subdirectory(name) :
             /\ current_dir' = dir
             /\ reply' = IF dir = NoEntity THEN <<"FailedOpenEntity">> ELSE <<"Success">>

DirReadOrGetCount ==
    /\ reply' = IF current_dir = NoEntity THEN <<"NoOpenEntity">> ELSE <<"Success">>
    /\ UNCHANGED current_dir

DirectoryService ==
    /\ \/ \E b \in DirArgs : DirOpen(b) /\ request' = <<b>>
       \/ DirReadOrGetCount /\ request' = <<>>
    /\ UNCHANGED <<cache, entries, next_read_index, returned, current_file, lastRead,
                   crashed, bcat_backend, bcat_boxcat_local>>

(***************************************************************************)
(* IBcatService::SetPassphrase and ClearDeliveryCacheStorage.              *)
(***************************************************************************)
\* A title id of 0 pushes ERROR_INVALID_ARGUMENT but does not return: the
\* size check and backend.SetPassphrase (which only logs) follow.
SetPassphrase ==
    /\ \E tid \in TitleIds, tooLong \in BOOLEAN :
          reply' = (IF tid = 0 THEN <<"InvalidArgument">> ELSE <<>>)
                   \o (IF tooLong THEN <<"InvalidArgument">> ELSE <<"Success">>)
    /\ request' = <<>>
    /\ UNCHANGED <<cache, entries, next_read_index, returned, current_file,
                   current_dir, lastRead, crashed, bcat_backend, bcat_boxcat_local>>

\* Boxcat::Clear deletes every subdirectory of the title's directory and
\* stops at the first DeleteSubdirectoryRecursive that fails, leaving that
\* one and the rest; with the local override, or with NullBackend, it
\* returns true and deletes nothing.
BackendClear ==
    \/ /\ bcat_backend = "null" \/ bcat_boxcat_local
       /\ reply' = <<"Success">>
       /\ UNCHANGED cache
    \/ /\ bcat_backend = "boxcat" /\ ~bcat_boxcat_local
       /\ \E kept \in SUBSET DOMAIN cache :
             /\ kept = {} \/ ClearFail
             /\ cache' = [d \in kept |-> cache[d]]
             /\ reply' = IF kept = {} THEN <<"Success">> ELSE <<"FailedClearCache">>

ClearDeliveryCacheStorage ==
    /\ \E tid \in TitleIds :
          \/ /\ tid = 0
             /\ reply' = <<"InvalidArgument">>
             /\ UNCHANGED cache
          \/ /\ tid # 0
             /\ BackendClear
    /\ request' = <<>>
    /\ UNCHANGED <<entries, next_read_index, returned, current_file, current_dir,
                   lastRead, crashed, bcat_backend, bcat_boxcat_local>>

\* After a null dereference nothing runs any more.
Halted ==
    /\ crashed
    /\ UNCHANGED vars

Next ==
    \/ ~crashed /\ EnumerateDeliveryCacheDirectory
    \/ ~crashed /\ FileService
    \/ ~crashed /\ DirectoryService
    \/ ~crashed /\ SetPassphrase
    \/ ~crashed /\ ClearDeliveryCacheStorage
    \/ Halted

Spec == Init /\ [][Next]_vars

(***************************************************************************)
(* Properties.                                                             *)
(***************************************************************************)
\* EnumerateDeliveryCacheDirectory pages through the snapshot the storage
\* service took: the names handed out over all calls so far are exactly
\* the first next_read_index entries, in order, none twice or skipped.
EnumerationFollowsSnapshot ==
    returned = SubSeq(entries, 1, next_read_index)

\* Open on a file or directory service that already has an entity open
\* fails and keeps the open one: no command replaces or drops the handle in
\* current_file or current_dir.
OpenedEntityIsKept ==
    [][/\ current_file # NoFile => current_file' = current_file
       /\ current_dir # NoEntity => current_dir' = current_dir]_vars

\* The name rule of the specification (section 4.5): a non-empty run of
\* alphanumerics, underscores and the one extra byte the kind permits,
\* then NUL bytes to the end of the buffer.
SpecNameRule(b, extra) ==
    \E n \in 1..(NameLen - 1) :
        /\ \A i \in 1..n : b[i] \in Alnum \cup {"_", extra}
        /\ \A i \in (n + 1)..NameLen : b[i] = NUL

\* The name such a buffer spells: its bytes other than NUL.
SpecName(b) == SelectSeq(b, LAMBDA c : c # NUL)

\* Name validation and lookup in the two Open handlers
\* (VerifyNameValidInternal, StringFromFixedZeroTerminatedBuffer, then
\* GetSubdirectory and GetFile): an Open whose buffers all satisfy the
\* specification's name rule is never refused as an invalid argument, and
\* with its slot free it opens exactly the directory or file the names
\* spell when the cache has it, and answers ERROR_FAILED_OPEN_ENTITY,
\* keeping the slot empty, when it does not.
ValidNamesOpenTheirEntity ==
    [][/\ Len(request') = 1 /\ SpecNameRule(request'[1], "-") =>
           LET name == SpecName(request'[1]) IN
           /\ reply' # <<"InvalidArgument">>
           /\ current_dir = NoEntity =>
                 IF name \in DOMAIN cache
                 THEN current_dir' = name /\ reply' = <<"Success">>
                 ELSE current_dir' = NoEntity /\ reply' = <<"FailedOpenEntity">>
       /\ Len(request') = 2 /\ SpecNameRule(request'[1], "-")
                            /\ SpecNameRule(request'[2], ".") =>
           LET dn == SpecName(request'[1])
               fn == SpecName(request'[2])
           IN
           /\ reply' # <<"InvalidArgument">>
           /\ current_file = NoFile =>
                 IF dn \in DOMAIN cache /\ fn \in DOMAIN cache[dn]
                 THEN /\ current_file' = [dir |-> dn, file |-> fn, size |-> cache[dn][fn]]
                      /\ reply' = <<"Success">>
                 ELSE current_file' = NoFile /\ reply' = <<"FailedOpenEntity">>]_vars

\* A command that rejects a request stops there: the error it pushes is
\* the last thing it pushes, and it does no further work (no null
\* dereference of the missing file).
ErrorIsFinal ==
    /\ ~crashed
    /\ \A i \in DOMAIN reply : reply[i] # "Success" => i = Len(reply)

\* Read clamps the size it reads to what lies between the offset and the
\* end of the open file, and reads nothing at or past the end.
ReadWithinFile ==
    lastRead.len > 0 => lastRead.off + lastRead.len <= current_file.size

====
