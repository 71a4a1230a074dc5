---------------------------- MODULE TrainingCache ----------------------------
(***************************************************************************)
(* The cache of a file of a training source (prepareSmbContent).  Who asks *)
(* for a file that is not in the cache downloads it beside the cache and   *)
(* renames it into place; who finds it there is given what is there.  The  *)
(* temporary file is named after the process, so concurrent requests for   *)
(* the same file have one name between them: smbclient's get truncates     *)
(* what it finds under it and both write.                                  *)
(*                                                                         *)
(* One file.  A name refers to an inode, and an inode stands for the       *)
(* request that created it; it is complete once the request that last      *)
(* truncated it has written all of it.                                     *)
(***************************************************************************)
CONSTANTS
    Fetch,  \* GET items/:id/content requests, each made once
    None    \* no inode under a name

VARIABLES
    cachedPath,     \* the inode in the cache
    temporaryPath,  \* the inode under the .part name
    truncatedBy,    \* for each inode, the request that last truncated it
    complete,       \* the inodes that hold the whole file
    fetch,          \* where each request is, and the inode it writes
    served,         \* the inodes requests were answered with
    crossed         \* history: requests that downloaded while another did

vars == <<cachedPath, temporaryPath, truncatedBy, complete, fetch, served, crossed>>

Place == {"idle", "missed", "downloading", "downloaded", "done"}
Downloading(r) == fetch[r].at \in {"downloading", "downloaded"}
At(r, place) == fetch' = [fetch EXCEPT ![r] = [at |-> place, inode |-> fetch[r].inode]]

Init ==
    /\ cachedPath = None /\ temporaryPath = None
    /\ truncatedBy = [i \in Fetch |-> None]
    /\ complete = {} /\ served = {} /\ crossed = {}
    /\ fetch = [r \in Fetch |-> [at |-> "idle", inode |-> None]]

-----------------------------------------------------------------------------
\* The stat of the cached file.
Hit(r) ==
    /\ fetch[r].at = "idle"
    /\ cachedPath # None
    /\ served' = served \cup {cachedPath}
    /\ At(r, "done")
    /\ UNCHANGED <<cachedPath, temporaryPath, truncatedBy, complete, crossed>>

Miss(r) ==
    /\ fetch[r].at = "idle"
    /\ cachedPath = None
    /\ At(r, "missed")
    /\ UNCHANGED <<cachedPath, temporaryPath, truncatedBy, complete, served, crossed>>

\* smbclient opens the temporary file, creating or truncating it.
Open(r) ==
    LET inode == IF temporaryPath = None THEN r ELSE temporaryPath
        others == {q \in Fetch \ {r} : Downloading(q)}
    IN  /\ fetch[r].at = "missed"
        /\ temporaryPath' = inode
        /\ truncatedBy' = [truncatedBy EXCEPT ![inode] = r]
        /\ complete' = complete \ {inode}
        /\ fetch' = [fetch EXCEPT ![r] = [at |-> "downloading", inode |-> inode]]
        /\ crossed' = IF others = {} THEN crossed ELSE crossed \cup {r} \cup others
        /\ UNCHANGED <<cachedPath, served>>

\* smbclient ends; only the last to truncate has written every byte.
Download(r) ==
    LET inode == fetch[r].inode IN
    /\ fetch[r].at = "downloading"
    /\ complete' = IF truncatedBy[inode] = r THEN complete \cup {inode} ELSE complete
    /\ At(r, "downloaded")
    /\ UNCHANGED <<cachedPath, temporaryPath, truncatedBy, served, crossed>>

\* Fault: the failure is not noticed.
DownloadFailsUnseen(r) ==
    /\ fetch[r].at = "downloading"
    /\ At(r, "downloaded")
    /\ UNCHANGED <<cachedPath, temporaryPath, truncatedBy, complete, served, crossed>>

\* kinit or smbclient fails or times out: the request throws and leaves what
\* it wrote.
DownloadFails(r) ==
    /\ fetch[r].at \in {"missed", "downloading"}
    /\ At(r, "done")
    /\ UNCHANGED <<cachedPath, temporaryPath, truncatedBy, complete, served, crossed>>

\* rename replaces what is in the cache, and throws if the name is gone.
Rename(r) ==
    /\ fetch[r].at = "downloaded"
    /\ IF temporaryPath = None
       THEN UNCHANGED <<cachedPath, served>>
       ELSE cachedPath' = temporaryPath /\ served' = served \cup {temporaryPath}
    /\ temporaryPath' = None
    /\ At(r, "done")
    /\ UNCHANGED <<truncatedBy, complete, crossed>>

-----------------------------------------------------------------------------
Next == \E r \in Fetch :
    Hit(r) \/ Miss(r) \/ Open(r) \/ Download(r) \/ DownloadFails(r) \/ Rename(r)

Spec == Init /\ [][Next]_vars

-----------------------------------------------------------------------------
\* The names, the inodes and the requests have their types.
TypeOK ==
    /\ cachedPath \in Fetch \cup {None} /\ temporaryPath \in Fetch \cup {None}
    /\ truncatedBy \in [Fetch -> Fetch \cup {None}]
    /\ complete \subseteq Fetch /\ served \subseteq Fetch /\ crossed \subseteq Fetch
    /\ fetch \in [Fetch -> [at : Place, inode : Fetch \cup {None}]]

\* What the cache holds, and what anybody was given, is the whole file,
\* through failed downloads and their remains, unless the request that last
\* wrote it met another download of the same file.
ServedIsWhole ==
    \A i \in served \cup ({cachedPath} \ {None}) : i \in complete \/ truncatedBy[i] \in crossed
=============================================================================
