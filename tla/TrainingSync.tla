---------------------------- MODULE TrainingSync ----------------------------
(***************************************************************************)
(* The synchronisation of a training source with its file share            *)
(* (trainings.service.ts).  Each top folder of the share becomes an item   *)
(* that waits for review; a synchronisation lists the share, creates or    *)
(* refreshes one item after the other and then archives the items whose    *)
(* folder it has not seen.  The timer starts it when the interval is over, *)
(* administrators and uploads start it at any time; only the timer looks   *)
(* at runningSourceIds.                                                    *)
(*                                                                         *)
(* One active source.  A folder stands for the group of files that makes   *)
(* an item; slug is a hash of it, so the unique index on slug is what      *)
(* keeps a folder from having two items.                                   *)
(***************************************************************************)
EXTENDS Naturals

CONSTANTS
    Folder,     \* groups of files on the share
    File,       \* their contents, as far as a change can be told
    Scheduled,  \* synchronisations of the timer, each made once
    Manual,     \* synchronisations asked for or after an upload, each made once
    MaxEdits    \* bound: changes of the share and of items by users

VARIABLES
    share,             \* the files of each folder of the share
    items,             \* the table TrainingItem
    due,               \* lastSyncAt is an interval ago
    runningSourceIds,  \* the flag: the source is in the set
    work,              \* the local variables of each synchronisation
    edits,             \* how many changes users have made
    alone              \* history: synchronisations nothing crossed or ended early

vars == <<share, items, due, runningSourceIds, work, edits, alone>>

-----------------------------------------------------------------------------
Sync == Scheduled \cup Manual
Status == {"NEEDS_REVIEW", "DRAFT", "PUBLISHED", "ARCHIVED"}
Item == [status : Status, isActive : BOOLEAN, files : SUBSET File]
NoItem == [status |-> "none"]
Listing == [Folder -> SUBSET File]

Idle == [at |-> "idle"]
Done == [at |-> "done"]
Woken == [at : {"woken"}, due : BOOLEAN]
Started == [at : {"started"}]
Working == [at : {"folders"}, listing : Listing, left : SUBSET Folder]
Writing == [at : {"existing", "missing", "created", "lost"}, listing : Listing,
            left : SUBSET Folder, folder : Folder]

Active(s) == work[s].at \notin {"idle", "woken", "done"}
Seen(listing) == {f \in Folder : listing[f] # {}}

Init ==
    /\ share \in [Folder -> {{}, File}]
    /\ items = [f \in Folder |-> NoItem]
    /\ due = TRUE
    /\ runningSourceIds = FALSE
    /\ work = [s \in Sync |-> Idle]
    /\ edits = 0
    /\ alone = {}

-----------------------------------------------------------------------------
(* Starting.                                                               *)

Starts(s) ==
    /\ work' = [work EXCEPT ![s] = [at |-> "started"]]
    /\ alone' = IF \E t \in Sync : Active(t) THEN {} ELSE {s}

\* The timer reads the sources...
Wake(s) ==
    /\ s \in Scheduled
    /\ work[s] = Idle
    /\ work' = [work EXCEPT ![s] = [at |-> "woken", due |-> due]]
    /\ UNCHANGED <<share, items, due, runningSourceIds, edits, alone>>

\* ...and starts what is due and not running.
RunScheduled(s) ==
    /\ work[s].at = "woken"
    /\ work[s].due /\ ~runningSourceIds
    /\ runningSourceIds' = TRUE
    /\ Starts(s)
    /\ UNCHANGED <<share, items, due, edits>>

Continue(s) ==
    /\ work[s].at = "woken"
    /\ ~work[s].due \/ runningSourceIds
    /\ work' = [work EXCEPT ![s] = Done]
    /\ UNCHANGED <<share, items, due, runningSourceIds, edits, alone>>

RunManual(s) ==
    /\ s \in Manual
    /\ work[s] = Idle
    /\ Starts(s)
    /\ UNCHANGED <<share, items, due, runningSourceIds, edits>>

-----------------------------------------------------------------------------
(* syncSource.                                                             *)

\* The walk over the share, taken at one moment and without its limits of
\* 500 folders and 5000 files (what lies beyond them counts as gone).
List(s) ==
    /\ work[s].at = "started"
    /\ work' = [work EXCEPT ![s] =
           [at |-> "folders", listing |-> share, left |-> Seen(share)]]
    /\ UNCHANGED <<share, items, due, runningSourceIds, edits, alone>>

FindItem(s) ==
    /\ work[s].at = "folders"
    /\ \E f \in work[s].left :
           work' = [work EXCEPT ![s] = [at |-> IF items[f] = NoItem THEN "missing" ELSE "existing",
               listing |-> work[s].listing, left |-> work[s].left \ {f}, folder |-> f]]
    /\ UNCHANGED <<share, items, due, runningSourceIds, edits, alone>>

NextFolder(s) ==
    work' = [work EXCEPT ![s] = [at |-> "folders", listing |-> work[s].listing,
                                 left |-> work[s].left]]

\* Fault: an item that was archived stays inactive.
RefreshItemLazily(s) ==
    LET q == work[s] IN
    /\ q.at = "existing"
    /\ items' = [items EXCEPT ![q.folder] =
           [items[q.folder] EXCEPT !.files = q.listing[q.folder]]]
    /\ NextFolder(s)
    /\ UNCHANGED <<share, due, runningSourceIds, edits, alone>>

\* The status stays: a published item shows its new files at once.
RefreshItem(s) ==
    LET q == work[s] IN
    /\ q.at = "existing"
    /\ items' = [items EXCEPT ![q.folder] =
           [items[q.folder] EXCEPT !.isActive = TRUE, !.files = q.listing[q.folder]]]
    /\ NextFolder(s)
    /\ UNCHANGED <<share, due, runningSourceIds, edits, alone>>

\* The row first, its files in a second statement: their addresses name it.
CreateItem(s) ==
    LET q == work[s] IN
    /\ q.at = "missing"
    /\ items[q.folder] = NoItem
    /\ items' = [items EXCEPT ![q.folder] =
           [status |-> "NEEDS_REVIEW", isActive |-> TRUE, files |-> {}]]
    /\ work' = [work EXCEPT ![s] = [q EXCEPT !.at = "created"]]
    /\ UNCHANGED <<share, due, runningSourceIds, edits, alone>>

FillItem(s) ==
    LET q == work[s] IN
    /\ q.at = "created"
    /\ items' = [items EXCEPT ![q.folder] =
           [items[q.folder] EXCEPT !.files = items[q.folder].files \cup q.listing[q.folder]]]
    /\ NextFolder(s)
    /\ UNCHANGED <<share, due, runningSourceIds, edits, alone>>

Archived(item) == [item EXCEPT !.status = "ARCHIVED", !.isActive = FALSE]

\* The last two statements: archive what was not seen, note the success.
Archive(s) ==
    /\ work[s].at = "folders"
    /\ work[s].left = {}
    /\ items' = [f \in Folder |->
           IF f \in Seen(work[s].listing) \/ items[f] = NoItem THEN items[f]
           ELSE Archived(items[f])]
    /\ due' = FALSE
    /\ runningSourceIds' = (runningSourceIds /\ s \notin Scheduled)
    /\ work' = [work EXCEPT ![s] = Done]
    /\ UNCHANGED <<share, edits, alone>>

\* The share cannot be listed, a statement fails, the item it names is gone,
\* another synchronisation has taken the slug: the source is marked FAILED.  (The
\* death of the API is the same for all at once: what it does not write, the end of
\* the next interval makes up for.)
SyncFails(s) ==
    /\ Active(s)
    /\ due' = FALSE
    /\ runningSourceIds' = (runningSourceIds /\ s \notin Scheduled)
    /\ work' = [work EXCEPT ![s] = Done]
    /\ alone' = alone \ {s}
    /\ UNCHANGED <<share, items, edits>>

-----------------------------------------------------------------------------
(* Everything else.                                                        *)

IntervalPasses ==
    /\ ~due
    /\ due' = TRUE
    /\ UNCHANGED <<share, items, runningSourceIds, work, edits, alone>>

Edit == edits < MaxEdits /\ edits' = edits + 1 /\ alone' = {}

\* updateItem: the reviewer publishes, archives, shows or hides an item.
UpdateItem(f, status, isActive) ==
    /\ items[f] # NoItem
    /\ Edit
    /\ items' = [items EXCEPT ![f] =
           [items[f] EXCEPT !.status = status, !.isActive = isActive]]
    /\ UNCHANGED <<share, due, runningSourceIds, work>>

\* Whoever holds the id of the row has lost it, even if there is another soon.
RemoveItem(f) ==
    /\ items[f] # NoItem
    /\ Edit
    /\ items' = [items EXCEPT ![f] = NoItem]
    /\ work' = [s \in Sync |->
           IF work[s].at \in {"existing", "created"} /\ work[s].folder = f
           THEN [work[s] EXCEPT !.at = "lost"] ELSE work[s]]
    /\ UNCHANGED <<share, due, runningSourceIds>>

ChangeShare(f, files) ==
    /\ share[f] # files
    /\ edits < MaxEdits /\ edits' = edits + 1
    /\ share' = [share EXCEPT ![f] = files]
    /\ UNCHANGED <<items, due, runningSourceIds, work, alone>>

-----------------------------------------------------------------------------
Next ==
    \/ \E s \in Sync :
           \/ Wake(s) \/ RunScheduled(s) \/ Continue(s) \/ RunManual(s)
           \/ List(s) \/ FindItem(s) \/ RefreshItem(s) \/ CreateItem(s)
           \/ FillItem(s) \/ Archive(s) \/ SyncFails(s)
    \/ \E f \in Folder :
           \/ \E st \in {"PUBLISHED", "ARCHIVED"}, b \in BOOLEAN : UpdateItem(f, st, b)
           \/ \E files \in SUBSET File : ChangeShare(f, files)
           \/ RemoveItem(f)
    \/ IntervalPasses

Spec == Init /\ [][Next]_vars

-----------------------------------------------------------------------------
\* The share, the items and the local variables have their types.
TypeOK ==
    /\ share \in Listing
    /\ items \in [Folder -> Item \cup {NoItem}]
    /\ due \in BOOLEAN /\ runningSourceIds \in BOOLEAN
    /\ work \in [Sync -> {Idle, Done} \cup Woken \cup Started \cup Working \cup Writing]
    /\ edits \in 0..MaxEdits
    /\ alone \subseteq Sync

\* A synchronisation that nothing crossed leaves the items as it found the
\* share, whatever crossed or interrupted ones left before: an active item
\* with just these files for each folder, and archived ones for the rest.
SyncMatchesListing ==
    [][\A s \in alone \cap alone' : Active(s) /\ work[s].at = "folders" /\ work'[s] = Done =>
          \A f \in Folder :
              IF work[s].listing[f] # {}
              THEN items'[f] # NoItem /\ items'[f].isActive /\ items'[f].files = work[s].listing[f]
              ELSE items'[f] # NoItem => items'[f].status = "ARCHIVED" /\ ~items'[f].isActive]_vars
=============================================================================
