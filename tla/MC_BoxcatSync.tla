---------------------------- MODULE MC_BoxcatSync ----------------------------
(***************************************************************************)
(* Instances of BoxcatSync for TLC: two directories, two files, two       *)
(* server versions.  Sizes are in units of half a copy block, so a file of *)
(* size 3 takes a full block and a partial one.                           *)
(***************************************************************************)
EXTENDS BoxcatSync

MC_Dirs == {"d1", "d2"}
MC_Files == {"f1", "f2"}
MC_Versions == {"v1", "v2"}

\* v1 has two directories; v2 drops d2 and adds a file to d1.
MC_Archive ==
    ("v1" :> (("d1" :> ("f1" :> 3)) @@ ("d2" :> ("f1" :> 1))))
 @@ ("v2" :> ("d1" :> (("f1" :> 2) @@ ("f2" :> 1))))

\* v1 and v2 with a single directory each.
MC_ArchiveOneDir ==
    ("v1" :> ("d1" :> ("f1" :> 3)))
 @@ ("v2" :> ("d1" :> (("f1" :> 1) @@ ("f2" :> 1))))

\* A cache that already holds d1, from an earlier session, with a file f2
\* the first archive does not have.
MC_InitCache == "d1" :> (("f1" :> <<"old", "old">>) @@ ("f2" :> <<"old">>))

=============================================================================
