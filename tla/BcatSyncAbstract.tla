--------------------------- MODULE BcatSyncAbstract ---------------------------
(***************************************************************************)
(* What a delivery-cache synchronization promises the title, with the      *)
(* threads, data.zip, the HTTP exchange and the block copy hidden.  A sync *)
(* of kind k is started, runs, and ends in one step with a result; only    *)
(* that last step may change the title's cache, and only as follows:       *)
(*   - success installs an archive the server published: a full sync       *)
(*     merges every directory of it into the cache, a directory sync       *)
(*     replaces the named directory by the archive's; a backend that does  *)
(*     not download (NullBackend, Boxcat's local override) changes nothing;*)
(*   - failure leaves the cache as it was, unless host writes can fail,    *)
(*     in which case only the files the archive names may be left short   *)
(*     or created, and nothing outside the sync's scope changes.          *)
(* An emulator restart ends every running sync without a result.         *)
(* BoxcatSync implements this specification under the mapping it gives.   *)
(***************************************************************************)
EXTENDS Naturals, Sequences

CONSTANTS Kinds, Versions, Archive, InitCache, DirNames, IOFail

VARIABLES
    aCache,   \* the title's cache directory as the finished syncs left it
    aSync,    \* aSync[k]: state, directory name and result of the last sync of kind k
    aOffline, \* the backend answers without downloading
    aSession  \* emulator sessions ended so far

avars == <<aCache, aSync, aOffline, aSession>>

NamesOf(k) == IF k = "Normal" THEN {"none"} ELSE DirNames

FileImage(v, d, f) == [i \in 1..Archive[v][d][f] |-> v]

\* A full sync's success: every directory and file of archive v is in the
\* cache with v's content; everything else keeps its content.
Merged(c, v) ==
    [d \in DOMAIN c \cup DOMAIN Archive[v] |->
        IF d \notin DOMAIN Archive[v] THEN c[d]
        ELSE LET old == IF d \in DOMAIN c THEN c[d] ELSE [f \in {} |-> <<>>] IN
             [f \in DOMAIN old \cup DOMAIN Archive[v][d] |->
                 IF f \in DOMAIN Archive[v][d] THEN FileImage(v, d, f) ELSE old[f]]]

\* A directory sync's success: directory d holds exactly archive v's files.
Replaced(c, v, d) ==
    [e \in DOMAIN c \cup {d} |->
        IF e = d THEN [f \in DOMAIN Archive[v][d] |-> FileImage(v, d, f)] ELSE c[e]]

LenIn(c, d, f) == IF d \in DOMAIN c /\ f \in DOMAIN c[d] THEN Len(c[d][f]) ELSE 0

\* A failed copy of archive v from c to c2: directories outside the scope
\* are untouched; in the scope, a file the archive does not name keeps its
\* content (a directory sync deletes them all first), and a file it names
\* is absent, or has its old length or the archive's.
PartialCopy(k, name, v, c, c2) ==
    LET scope == IF k = "Normal" THEN DOMAIN Archive[v] ELSE {name} \cap DOMAIN Archive[v]
        old(d, f) == IF k = "Normal" THEN LenIn(c, d, f) ELSE 0
    IN
    /\ DOMAIN c \subseteq DOMAIN c2
    /\ DOMAIN c2 \subseteq DOMAIN c \cup scope
    /\ \A d \in DOMAIN c2 \ scope : c2[d] = c[d]
    /\ \A d \in DOMAIN c2 \cap scope :
          /\ k = "Normal" /\ d \in DOMAIN c => DOMAIN c[d] \subseteq DOMAIN c2[d]
          /\ \A f \in DOMAIN c2[d] :
                IF f \in DOMAIN Archive[v][d]
                THEN Len(c2[d][f]) \in {old(d, f), Archive[v][d][f]}
                ELSE k = "Normal" /\ d \in DOMAIN c /\ f \in DOMAIN c[d]
                     /\ c2[d][f] = c[d][f]

Init ==
    /\ aCache = InitCache
    /\ aSync = [k \in Kinds |-> [state |-> "idle", name |-> "none", result |-> "ok"]]
    /\ aOffline \in BOOLEAN
    /\ aSession = 0

Start(k, name) ==
    /\ aSync[k].state # "running"
    /\ aSync' = [aSync EXCEPT ![k] = [state |-> "running", name |-> name,
                                      result |-> @.result]]
    /\ UNCHANGED <<aCache, aOffline, aSession>>

\* The backend finishes the request before returning it.
Immediate(k, name) ==
    /\ aOffline
    /\ aSync[k].state # "running"
    /\ aSync' = [aSync EXCEPT ![k] = [state |-> "done", name |-> name, result |-> "ok"]]
    /\ UNCHANGED <<aCache, aOffline, aSession>>

Succeed(k) ==
    LET name == aSync[k].name IN
    /\ aSync[k].state = "running"
    /\ aSync' = [aSync EXCEPT ![k].state = "done", ![k].result = "ok"]
    /\ \/ aOffline /\ aCache' = aCache
       \/ \E v \in Versions :
             IF k = "Normal" THEN aCache' = Merged(aCache, v)
             ELSE name \in DOMAIN Archive[v] /\ aCache' = Replaced(aCache, v, name)
    /\ UNCHANGED <<aOffline, aSession>>

Fail(k) ==
    /\ aSync[k].state = "running"
    /\ aSync' = [aSync EXCEPT ![k].state = "done", ![k].result = "fail"]
    /\ \/ aCache' = aCache
       \/ IOFail /\ \E v \in Versions : PartialCopy(k, aSync[k].name, v, aCache, aCache')
    /\ UNCHANGED <<aOffline, aSession>>

\* The emulator ends and starts again.  A sync that was running never
\* reports a result and may leave any partial copy of an archive in its
\* scope, whether or not host writes fail; the title sees fresh progress
\* records (no result yet) and the backend chosen by the new settings.
Restart ==
    /\ \/ aCache' = aCache
       \/ \E k \in Kinds, v \in Versions :
             /\ aSync[k].state = "running"
             /\ PartialCopy(k, aSync[k].name, v, aCache, aCache')
    /\ aSync' = [k \in Kinds |->
                    [aSync[k] EXCEPT !.state = IF @ = "idle" THEN "idle" ELSE "done",
                                     !.result = "ok"]]
    /\ aOffline' \in BOOLEAN
    /\ aSession' = aSession + 1

Next ==
    \/ Restart
    \/ \E k \in Kinds :
        \/ \E name \in NamesOf(k) : Start(k, name) \/ Immediate(k, name)
        \/ Succeed(k)
        \/ Fail(k)

Spec == Init /\ [][Next]_avars

=============================================================================
