------------------------ MODULE MC_DeliveryCacheFacade ------------------------
(***************************************************************************)
(* A title cache of two directories, one with two files.  Name buffers are *)
(* three bytes over one alphanumeric, the two extra bytes and NUL: every   *)
(* buffer for the directory service's Open, and for the file service's    *)
(* Open every directory buffer with a valid file name, every file buffer   *)
(* with a valid directory name, and every pair of valid names.             *)
(***************************************************************************)
EXTENDS DeliveryCacheFacade, TLC

d1 == <<"a">>
d2 == <<"-", "a">>
f1 == <<"a">>
f2 == <<".", "a">>

MC_InitCache == (d1 :> (f1 :> 2 @@ f2 :> 1)) @@ (d2 :> (f1 :> 1))

MC_Bytes == {"a", "-", ".", NUL}

MC_DirArgs == Buffers(MC_Bytes)

MC_FileArgs ==
    LET valid_dirs == {b \in Buffers(MC_Bytes) : VerifyNameValidDir(b)}
        valid_files == {b \in Buffers(MC_Bytes) : VerifyNameValidFile(b)}
    IN (Buffers(MC_Bytes) \X {NameBuffer(f1, NameLen)})
       \cup ({NameBuffer(d1, NameLen)} \X Buffers(MC_Bytes))
       \cup (valid_dirs \X valid_files)

\* request only records the inputs of the last command for
\* ValidNamesOpenTheirEntity; states that differ in it alone are one state.
MC_View == <<cache, entries, next_read_index, returned, current_file, current_dir,
             reply, lastRead, crashed, bcat_backend, bcat_boxcat_local>>

====
