---------------------------- MODULE BackupCenter ----------------------------
(***************************************************************************)
(* The backup centre (backups/backups.service.ts): manual and automatic    *)
(* backups, retention, deletion and restore.                               *)
(*                                                                         *)
(* Three things are kept apart, because a restore treats them differently: *)
(*   db       the PostgreSQL database: the portal's own data, the settings *)
(*            and the tables backup_job and backup_restore_job;            *)
(*   uploads  the uploads directory;                                       *)
(*   disk     the archives in BACKUP_DIR.                                  *)
(* An archive holds a dump of db taken while its own job was RUNNING.      *)
(*                                                                         *)
(* Workers are requests in flight and the activations of the sixty-second  *)
(* timer.  An action ends where the code awaits.                           *)
(***************************************************************************)
EXTENDS Naturals, FiniteSets

CONSTANTS
    Job,           \* backup_job rows, numbered in the order of createdAt
    Manual,        \* manual backup requests in flight
    Activation,    \* activations of the timer that may be alive at one time
    Remover,       \* delete requests in flight
    Restore,       \* restore requests; each is also its history row
    SourceParts,   \* the parts a backup request may ask for
    RestoreParts,  \* the parts a restore request may ask for
    Switches,      \* updateSettings requests: <<parts switched on, parts switched off>>
    Keep,          \* max(1, retentionCount || 10)
    ToolsFail,     \* whether pg_dump, tar, cp or psql may fail
    NotifyFails,   \* whether notifyBackupResult may throw
    SlowDb,        \* whether getSettings may outlast the timer's period
    Crashes,       \* whether the API may be killed from outside
    MaxWrites      \* bound: changes of the data and of the uploads by users

Part == {"database", "uploads"}

ASSUME JobAssumption == Job \subseteq Nat \ {0} /\ IsFiniteSet(Job)
ASSUME WorkerAssumption ==
    /\ Manual \cap (Activation \cup Remover \cup Restore) = {}
    /\ Activation \cap (Remover \cup Restore) = {} /\ Remover \cap Restore = {}
ASSUME PartAssumption ==
    SourceParts \subseteq (SUBSET Part) \ {{}} /\ RestoreParts \subseteq (SUBSET Part) \ {{}}
ASSUME SwitchAssumption == Switches \subseteq (SUBSET Part) \X (SUBSET Part)
ASSUME KeepAssumption == Keep \in Nat \ {0}
ASSUME FaultAssumption ==
    /\ ToolsFail \in BOOLEAN /\ NotifyFails \in BOOLEAN /\ SlowDb \in BOOLEAN
    /\ Crashes \in BOOLEAN /\ MaxWrites \in Nat

VARIABLES
    db,                 \* the database
    uploads,            \* the content of the uploads directory
    disk,               \* the archive of each job, if there is one
    work,               \* what each worker holds in its local variables
    autoBackupRunning,  \* the flag of the timer
    used,               \* the ids given to jobs so far; none is given twice
    died                \* observation: the API process has died before

vars == <<db, uploads, disk, work, autoBackupRunning, used, died>>

Worker == Manual \cup Activation \cup Remover \cup Restore

NoJob == 0

JobStatus == {"ABSENT", "RUNNING", "SUCCESS", "FAILED", "DELETED"}
JobRow == [status: JobStatus, filed: BOOLEAN, parts: SUBSET Part]
NoRow == [status |-> "ABSENT", filed |-> FALSE, parts |-> {}]

HistoryStatus == {"ABSENT", "RUNNING", "SUCCESS", "FAILED"}
HistoryRow == [status: HistoryStatus, emergency: Job \cup {NoJob}]
NoHistory == [status |-> "ABSENT", emergency |-> NoJob]

\* The portal's own data and the uploads are versions; "lost" is what a psql
\* that stops half-way or a removed directory leaves.
Version == 0..MaxWrites
Content == Version \cup {MaxWrites + 1}
Lost == MaxWrites + 1

Database == [jobs: [Job -> JobRow], history: [Restore -> HistoryRow],
             parts: SUBSET Part, data: Content]

NoDump == [jobs |-> [j \in Job |-> NoRow], history |-> [r \in Restore |-> NoHistory],
           parts |-> {}, data |-> Lost]

\* An archive: what it was asked to hold, the dump and the copy of the uploads.
\* A tar that fails leaves a file that nothing can be extracted from.
Archive == [state: {"none", "partial", "complete"}, dump: Database, uploads: Content]
NoArchive == [state |-> "none", dump |-> NoDump, uploads |-> Lost]

Place == {"idle", "settings", "dump", "copy", "tar", "success", "notify", "failing",
          "report", "retain", "prune", "pruned", "reschedule", "unlink", "delete",
          "emergency", "link", "extract", "clear", "fill", "load", "finish", "abort",
          "done", "failed", "error", "dead"}

Work == [at: Place, job: Job \cup {NoJob}, ok: BOOLEAN, archive: Archive,
         prune: SUBSET Job, source: Job \cup {NoJob}, parts: SUBSET Part]

Idle == [at |-> "idle", job |-> NoJob, ok |-> FALSE, archive |-> NoArchive,
         prune |-> {}, source |-> NoJob, parts |-> {}]

TypeOK ==
    /\ db \in Database
    /\ uploads \in Content
    /\ disk \in [Job -> Archive]
    /\ work \in [Worker -> Work]
    /\ autoBackupRunning \in BOOLEAN
    /\ used \subseteq Job
    /\ died \in BOOLEAN

Init ==
    /\ \E parts \in SourceParts :
           db = [jobs |-> [j \in Job |-> NoRow], history |-> [r \in Restore |-> NoHistory],
                 parts |-> parts, data |-> 0]
    /\ uploads = 0
    /\ disk = [j \in Job |-> NoArchive]
    /\ work = [w \in Worker |-> Idle]
    /\ autoBackupRunning = FALSE
    /\ used = {}
    /\ died = FALSE

At(w, place) == work[w].at = place
Goto(w, place) == work' = [work EXCEPT ![w].at = place]
JobExists(j) == db.jobs[j].status # "ABSENT"

-----------------------------------------------------------------------------
(* Users, administrators and time.                                         *)

WriteData ==
    /\ db.data < MaxWrites
    /\ db' = [db EXCEPT !.data = @ + 1]
    /\ UNCHANGED <<uploads, disk, work, autoBackupRunning, used, died>>

WriteUploads ==
    /\ uploads < MaxWrites
    /\ uploads' = uploads + 1
    /\ UNCHANGED <<db, disk, work, autoBackupRunning, used, died>>

\* updateSettings: each of the two parts may be switched on, off or left out of
\* the request; only a request that switches both off is refused.
UpdateSettings(on, off) ==
    /\ db.data # Lost
    /\ on \cap off = {} /\ off # Part
    /\ db' = [db EXCEPT !.parts = (@ \ off) \cup on]
    /\ UNCHANGED <<uploads, disk, work, autoBackupRunning, used, died>>

-----------------------------------------------------------------------------
(* How a worker's call ends, in success or in an exception.                *)

\* The API process dies and is started again.  A restore leaves its work
\* directory with the extracted archive behind.
Die ==
    /\ work' = [w \in Worker |->
           IF w \notin Restore THEN Idle
           ELSE IF work[w].at \in {"idle", "done", "failed", "error"} THEN work[w]
           ELSE [work[w] EXCEPT !.at = "dead"]]
    /\ autoBackupRunning' = FALSE
    /\ died' = TRUE

\* createManualBackup returns the job's row.
Return(w, ok) ==
    /\ work' = [work EXCEPT ![w] =
           CASE w \in Activation -> [Idle EXCEPT !.at = "retain"]
             [] w \in Restore -> [work[w] EXCEPT !.at = "link", !.ok = ok]
             [] OTHER -> Idle]
    /\ UNCHANGED <<autoBackupRunning, died>>

\* An exception leaves createManualBackup.  A request answers with an error, a
\* restore goes to its catch block; nothing catches what the timer's call
\* throws, and an unhandled rejection ends the Node process.
Throw(w) ==
    IF w \in Activation THEN Die
    ELSE /\ work' = [work EXCEPT ![w] = IF w \in Restore
                                        THEN [@ EXCEPT !.at = "abort"] ELSE Idle]
         /\ UNCHANGED <<autoBackupRunning, died>>

-----------------------------------------------------------------------------
(* createManualBackup and runBackup.                                       *)

\* The parts runBackup is asked for; an emergency backup takes both.
Wanted(w) == IF w \in Restore THEN Part ELSE work[w].parts

\* The row is created RUNNING, with the next id.
CreateJob(w, parts) ==
    \E j \in Job \ used :
        /\ \A k \in Job \ used : j <= k
        /\ used' = used \cup {j}
        /\ db' = [db EXCEPT !.jobs[j] = [status |-> "RUNNING", filed |-> FALSE,
                                        parts |-> parts]]
        /\ work' = [work EXCEPT ![w] = [@ EXCEPT !.at = "dump", !.job = j, !.archive = NoArchive,
               !.parts = IF w \in Restore THEN work[w].parts ELSE parts]]

StartManual(m) ==
    /\ At(m, "idle") /\ db.data # Lost
    /\ \E parts \in SourceParts : CreateJob(m, parts)
    /\ UNCHANGED <<uploads, disk, autoBackupRunning, died>>

\* pg_dump sees one consistent state of the database.
Dump(w) ==
    /\ At(w, "dump")
    /\ work' = [work EXCEPT ![w] = [@ EXCEPT !.at = "copy",
           !.archive.dump = IF "database" \in Wanted(w) THEN db ELSE NoDump]]
    /\ UNCHANGED <<db, uploads, disk, autoBackupRunning, used, died>>

\* A missing uploads directory is passed over without an error.
CopyUploads(w) ==
    /\ At(w, "copy")
    /\ work' = [work EXCEPT ![w] = [@ EXCEPT !.at = "tar",
           !.archive.uploads = IF "uploads" \in Wanted(w) THEN uploads ELSE Lost]]
    /\ UNCHANGED <<db, uploads, disk, autoBackupRunning, used, died>>

Tar(w) ==
    /\ At(w, "tar")
    /\ disk' = [disk EXCEPT ![work[w].job] = [work[w].archive EXCEPT !.state = "complete"]]
    /\ work' = [work EXCEPT ![w] = [@ EXCEPT !.at = "success", !.archive = NoArchive]]
    /\ UNCHANGED <<db, uploads, autoBackupRunning, used, died>>

\* Faults: tar's exit code is not looked at; the exception is swallowed.
ToolFailsUnseen(w) ==
    /\ ToolsFail
    /\ work[w].at \in {"dump", "copy", "tar"}
    /\ work' = [work EXCEPT ![w] = [@ EXCEPT !.at = IF At(w, "tar") THEN "success" ELSE "failing",
                            !.archive = NoArchive]]
    /\ disk' = IF At(w, "tar")
               THEN [disk EXCEPT ![work[w].job].state = "partial"] ELSE disk
    /\ UNCHANGED <<db, uploads, autoBackupRunning, used, died>>

ToolFailsSilently(w) ==
    /\ ToolsFail
    /\ work[w].at \in {"dump", "copy", "tar"}
    /\ Return(w, FALSE)
    /\ UNCHANGED <<db, uploads, disk, used>>

\* pg_dump, cp or tar fails; a tar that fails may leave part of its file.
ToolFails(w) ==
    /\ ToolsFail
    /\ work[w].at \in {"dump", "copy", "tar"}
    /\ work' = [work EXCEPT ![w] = [@ EXCEPT !.at = "failing", !.archive = NoArchive]]
    /\ disk' = IF At(w, "tar")
               THEN [disk EXCEPT ![work[w].job].state = "partial"] ELSE disk
    /\ UNCHANGED <<db, uploads, autoBackupRunning, used, died>>

\* The update throws when the row is gone (a restore has replaced the table).
MarkSuccess(w) ==
    LET j == work[w].job
    IN  /\ At(w, "success")
        /\ IF JobExists(j)
           THEN /\ db' = [db EXCEPT !.jobs[j] = [@ EXCEPT !.status = "SUCCESS", !.filed = TRUE]]
                /\ Goto(w, "notify")
           ELSE Goto(w, "failing") /\ UNCHANGED db
        /\ UNCHANGED <<uploads, disk, autoBackupRunning, used, died>>

\* notifyBackupResult has run or had nobody to write to.
Notify(w) ==
    /\ At(w, "notify")
    /\ Return(w, TRUE)
    /\ UNCHANGED <<db, uploads, disk, used>>

\* It stands inside the try block: what it throws makes the finished backup
\* FAILED.  An emergency backup has no notifyEmail, so nothing is sent for it.
NotifyThrows(w) ==
    /\ NotifyFails /\ At(w, "notify") /\ w \notin Restore
    /\ Goto(w, "failing")
    /\ UNCHANGED <<db, uploads, disk, autoBackupRunning, used, died>>

MarkFailed(w) ==
    LET j == work[w].job
    IN  /\ At(w, "failing")
        /\ IF JobExists(j)
           THEN /\ db' = [db EXCEPT !.jobs[j].status = "FAILED"]
                /\ Goto(w, "report")
                /\ UNCHANGED <<autoBackupRunning, died>>
           ELSE Throw(w) /\ UNCHANGED db
        /\ UNCHANGED <<uploads, disk, used>>

Report(w) ==
    /\ At(w, "report")
    /\ Return(w, FALSE)
    /\ UNCHANGED <<db, uploads, disk, used>>

ReportThrows(w) ==
    /\ NotifyFails /\ At(w, "report") /\ w \notin Restore
    /\ Throw(w)
    /\ UNCHANGED <<db, uploads, disk, used>>

-----------------------------------------------------------------------------
(* runAutoBackupIfDue and applyRetention.                                  *)

\* The timer fires and finds the flag clear; getSettings is on its way.
TimerFires(a) ==
    /\ At(a, "idle") /\ ~autoBackupRunning
    /\ SlowDb \/ \A b \in Activation : ~At(b, "settings")
    /\ Goto(a, "settings")
    /\ UNCHANGED <<db, uploads, disk, autoBackupRunning, used, died>>

\* nextRunAt lies ahead.  Time is not modelled: whether it has passed is left open.
NotDue(a) ==
    /\ At(a, "settings") /\ db.data # Lost
    /\ Goto(a, "idle")
    /\ UNCHANGED <<db, uploads, disk, autoBackupRunning, used, died>>

\* Fault: the flag is never set.
StartAutoUnflagged(a) ==
    /\ At(a, "settings") /\ db.data # Lost /\ db.parts # {}
    /\ CreateJob(a, db.parts)
    /\ UNCHANGED <<uploads, disk, autoBackupRunning, died>>

\* The settings have come and the time has passed: the flag is set now, and not
\* looked at again.
StartAuto(a) ==
    /\ At(a, "settings") /\ db.data # Lost /\ db.parts # {}
    /\ autoBackupRunning' = TRUE
    /\ CreateJob(a, db.parts)
    /\ UNCHANGED <<uploads, disk, died>>

\* Settings without any part: createManualBackup throws.  Tables that are gone:
\* every query throws.  The result is also sent to the addresses after the first.
AutoThrows(a) ==
    /\ \/ At(a, "settings") /\ db.data # Lost /\ db.parts = {}
       \/ At(a, "retain") /\ NotifyFails
       \/ work[a].at \in {"settings", "retain", "reschedule"} /\ db.data = Lost
    /\ Throw(a)
    /\ UNCHANGED <<db, uploads, disk, used>>

Success(j) == db.jobs[j].status = "SUCCESS"

\* Fault: orderBy createdAt asc.
OutdatedAscending ==
    {j \in Job : Success(j) /\ Cardinality({k \in Job : Success(k) /\ k < j}) >= Keep}

\* orderBy createdAt desc, skip Keep
Outdated == {j \in Job : Success(j) /\ Cardinality({k \in Job : Success(k) /\ k > j}) >= Keep}

Retain(a) ==
    /\ At(a, "retain") /\ db.data # Lost
    /\ work' = [work EXCEPT ![a] = [@ EXCEPT !.at = "prune", !.prune = Outdated]]
    /\ UNCHANGED <<db, uploads, disk, autoBackupRunning, used, died>>

Prune(a, j) ==
    /\ At(a, "prune") /\ j \in work[a].prune
    /\ \A k \in work[a].prune : k <= j
    /\ disk' = [disk EXCEPT ![j] = NoArchive]
    /\ work' = [work EXCEPT ![a] = [@ EXCEPT !.at = "pruned", !.job = j,
                                             !.prune = work[a].prune \ {j}]]
    /\ UNCHANGED <<db, uploads, autoBackupRunning, used, died>>

MarkPruned(a) ==
    LET j == work[a].job
    IN  /\ At(a, "pruned")
        /\ IF JobExists(j)
           THEN /\ db' = [db EXCEPT !.jobs[j] = [@ EXCEPT !.status = "DELETED", !.filed = FALSE]]
                /\ Goto(a, "prune")
                /\ UNCHANGED <<autoBackupRunning, died>>
           ELSE Throw(a) /\ UNCHANGED db
        /\ UNCHANGED <<uploads, disk, used>>

PruneDone(a) ==
    /\ At(a, "prune") /\ work[a].prune = {}
    /\ Goto(a, "reschedule")
    /\ UNCHANGED <<db, uploads, disk, autoBackupRunning, used, died>>

\* nextRunAt moves on and the finally block clears the flag.
Reschedule(a) ==
    /\ At(a, "reschedule") /\ db.data # Lost
    /\ work' = [work EXCEPT ![a] = Idle]
    /\ autoBackupRunning' = FALSE
    /\ UNCHANGED <<db, uploads, disk, used, died>>

-----------------------------------------------------------------------------
(* remove                                                                  *)

\* Any row there is, whatever its status; filePath is read here.
Remove(d, j) ==
    /\ At(d, "idle") /\ JobExists(j)
    /\ work' = [work EXCEPT ![d] = [@ EXCEPT !.at = IF db.jobs[j].filed THEN "unlink" ELSE "delete",
                            !.job = j]]
    /\ UNCHANGED <<db, uploads, disk, autoBackupRunning, used, died>>

Unlink(d) ==
    /\ At(d, "unlink")
    /\ disk' = [disk EXCEPT ![work[d].job] = NoArchive]
    /\ Goto(d, "delete")
    /\ UNCHANGED <<db, uploads, autoBackupRunning, used, died>>

\* Fault: only the path is cleared.
DeleteRowKeepsStatus(d) ==
    /\ At(d, "delete")
    /\ db' = IF JobExists(work[d].job) THEN [db EXCEPT !.jobs[work[d].job].filed = FALSE] ELSE db
    /\ work' = [work EXCEPT ![d] = Idle]
    /\ UNCHANGED <<uploads, disk, autoBackupRunning, used, died>>

DeleteRow(d) ==
    LET j == work[d].job
    IN  /\ At(d, "delete")
        /\ db' = IF JobExists(j)
                 THEN [db EXCEPT !.jobs[j] = [@ EXCEPT !.status = "DELETED", !.filed = FALSE]]
                 ELSE db
        /\ work' = [work EXCEPT ![d] = Idle]
        /\ UNCHANGED <<uploads, disk, autoBackupRunning, used, died>>

-----------------------------------------------------------------------------
(* restore                                                                 *)

\* The checks, the stat of the archive and the RUNNING history row.
BeginRestore(r, j, parts) ==
    /\ At(r, "idle") /\ db.data # Lost
    /\ Success(j) /\ db.jobs[j].filed /\ parts \subseteq db.jobs[j].parts
    /\ disk[j].state # "none"
    /\ db' = [db EXCEPT !.history[r] = [status |-> "RUNNING", emergency |-> NoJob]]
    /\ work' = [work EXCEPT ![r] = [@ EXCEPT !.at = "emergency", !.source = j, !.parts = parts]]
    /\ UNCHANGED <<uploads, disk, autoBackupRunning, used, died>>

\* createManualBackup, full, with nobody to notify.
StartEmergency(r) ==
    /\ At(r, "emergency")
    /\ IF db.data # Lost
       THEN CreateJob(r, Part)
       ELSE Goto(r, "abort") /\ UNCHANGED <<db, used>>
    /\ UNCHANGED <<uploads, disk, autoBackupRunning, died>>

HistoryExists(r) == db.history[r].status # "ABSENT"

\* Faults: the emergency backup's status is not looked at; its id is not recorded.
LinkUnchecked(r) ==
    /\ At(r, "link")
    /\ IF HistoryExists(r)
       THEN /\ db' = [db EXCEPT !.history[r].emergency = work[r].job]
            /\ Goto(r, "extract")
       ELSE Goto(r, "abort") /\ UNCHANGED db
    /\ UNCHANGED <<uploads, disk, autoBackupRunning, used, died>>

LinkUnrecorded(r) ==
    /\ At(r, "link")
    /\ Goto(r, IF HistoryExists(r) /\ work[r].ok THEN "extract" ELSE "abort")
    /\ UNCHANGED <<db, uploads, disk, autoBackupRunning, used, died>>

\* emergencyBackupId is recorded, then the emergency backup's status decides.
Link(r) ==
    /\ At(r, "link")
    /\ IF HistoryExists(r)
       THEN /\ db' = [db EXCEPT !.history[r].emergency = work[r].job]
            /\ Goto(r, IF work[r].ok THEN "extract" ELSE "abort")
       ELSE Goto(r, "abort") /\ UNCHANGED db
    /\ UNCHANGED <<uploads, disk, autoBackupRunning, used, died>>

\* tar -x: the file may have been deleted since it was looked for.
Extract(r) ==
    LET archive == disk[work[r].source]
    IN  /\ At(r, "extract")
        /\ work' = [work EXCEPT ![r] = [@ EXCEPT !.archive = archive,
               !.at = IF archive.state # "complete" THEN "abort"
                         ELSE IF "uploads" \in work[r].parts THEN "clear" ELSE "load"]]
        /\ UNCHANGED <<db, uploads, disk, autoBackupRunning, used, died>>

\* restoreUploadsFrom removes the directory; an archive without uploads is
\* refused before that.
Clear(r) ==
    /\ At(r, "clear")
    /\ IF work[r].archive.uploads # Lost
       THEN uploads' = Lost /\ Goto(r, "fill")
       ELSE Goto(r, "abort") /\ UNCHANGED uploads
    /\ UNCHANGED <<db, disk, autoBackupRunning, used, died>>

\* Then it copies the archive's.
Fill(r) ==
    /\ At(r, "fill")
    /\ uploads' = work[r].archive.uploads
    /\ Goto(r, IF "database" \in work[r].parts THEN "load" ELSE "finish")
    /\ UNCHANGED <<db, disk, autoBackupRunning, used, died>>

\* restoreDatabaseFrom: psql puts every table back as the dump has it, those of
\* the backup centre included.
Load(r) ==
    /\ At(r, "load")
    /\ db' = work[r].archive.dump
    /\ Goto(r, "finish")
    /\ UNCHANGED <<uploads, disk, autoBackupRunning, used, died>>

\* tar, cp or psql fails.  psql runs without --single-transaction: it may stop
\* before its first statement or after the tables are dropped.  The finally
\* block removes the work directory.
RestoreToolFails(r) ==
    /\ ToolsFail
    /\ work[r].at \in {"extract", "fill", "load"}
    /\ work' = [work EXCEPT ![r] = [@ EXCEPT !.at = "abort", !.archive = NoArchive]]
    /\ db' \in IF At(r, "load") THEN {db, NoDump} ELSE {db}
    /\ UNCHANGED <<uploads, disk, autoBackupRunning, used, died>>

\* The update throws when the history row is gone.
Finish(r) ==
    /\ At(r, "finish")
    /\ IF HistoryExists(r)
       THEN /\ db' = [db EXCEPT !.history[r].status = "SUCCESS"]
            /\ Goto(r, "done")
       ELSE Goto(r, "abort") /\ UNCHANGED db
    /\ UNCHANGED <<uploads, disk, autoBackupRunning, used, died>>

\* The catch block; its own update may throw, and the request answers with an error.
Abort(r) ==
    /\ At(r, "abort")
    /\ IF HistoryExists(r)
       THEN /\ db' = [db EXCEPT !.history[r].status = "FAILED"]
            /\ Goto(r, "failed")
       ELSE Goto(r, "error") /\ UNCHANGED db
    /\ UNCHANGED <<uploads, disk, autoBackupRunning, used, died>>

-----------------------------------------------------------------------------
Crash ==
    /\ Crashes
    /\ Die
    /\ UNCHANGED <<db, uploads, disk, used>>

Backup(w) ==
    \/ Dump(w) \/ CopyUploads(w) \/ Tar(w) \/ MarkSuccess(w) \/ Notify(w)
    \/ MarkFailed(w) \/ Report(w)

BackupFaults(w) == ToolFails(w) \/ NotifyThrows(w) \/ ReportThrows(w)

AutoStep(a) ==
    \/ Backup(a)
    \/ NotDue(a) \/ StartAuto(a) \/ AutoThrows(a)
    \/ Retain(a) \/ MarkPruned(a) \/ PruneDone(a) \/ Reschedule(a)
    \/ \E j \in Job : Prune(a, j)

RestoreStep(r) ==
    \/ Backup(r)
    \/ StartEmergency(r) \/ Link(r) \/ Extract(r) \/ Clear(r) \/ Fill(r) \/ Load(r)
    \/ Finish(r) \/ Abort(r)

Next ==
    \/ WriteData \/ WriteUploads
    \/ \E s \in Switches : UpdateSettings(s[1], s[2])
    \/ \E m \in Manual : StartManual(m) \/ Backup(m) \/ BackupFaults(m)
    \/ \E a \in Activation : TimerFires(a) \/ AutoStep(a) \/ BackupFaults(a)
    \/ \E d \in Remover : Unlink(d) \/ DeleteRow(d) \/ \E j \in Job : Remove(d, j)
    \/ \E r \in Restore :
           \/ RestoreStep(r) \/ BackupFaults(r) \/ RestoreToolFails(r)
           \/ \E j \in Job, parts \in RestoreParts : BeginRestore(r, j, parts)
    \/ Crash

Spec == Init /\ [][Next]_vars

\* A call that can go on does.  Requests and the timer are not forced.
Fairness ==
    /\ \A w \in Manual : WF_vars(Backup(w))
    /\ \A a \in Activation : WF_vars(AutoStep(a))
    /\ \A r \in Restore : WF_vars(RestoreStep(r))
    /\ \A d \in Remover : WF_vars(Unlink(d) \/ DeleteRow(d))

FairSpec == Spec /\ Fairness

-----------------------------------------------------------------------------
(* Properties.                                                             *)

\* Whatever is running, failing or crashing: an archive that streamBackup would
\* serve (a SUCCESS row with a filePath, its file on disk) is a complete one and
\* holds the dump it was asked for.
DownloadIsComplete ==
    \A j \in Job : Success(j) /\ db.jobs[j].filed /\ disk[j].state # "none" =>
        /\ disk[j].state = "complete"
        /\ "database" \in db.jobs[j].parts => disk[j].dump # NoDump

\* As long as the API has not died and no database is restored, a SUCCESS row has
\* its file, except in the moment between unlink and the update that follows it.
SuccessHasArchive ==
    ~died => \A j \in Job : Success(j) /\ disk[j].state = "none" =>
        \E w \in Activation \cup Remover : work[w].job = j /\ work[w].at \in {"pruned", "delete"}

\* As long as getSettings answers within the timer's period, two automatic
\* backups never run at one time.
OneAutoBackup ==
    Cardinality({a \in Activation : work[a].at \notin {"idle", "settings"}}) <= 1

\* An archive that can be restored is given up only when Keep newer ones can be,
\* however automatic backups, manual ones and retention passes overlap (no
\* deletion by hand, no backup turned FAILED by its notification).
Restorable == {j \in Job : Success(j) /\ disk[j].state = "complete"}

RetentionKeeps ==
    [][\A j \in Restorable : j \notin Restorable' =>
           Cardinality({k \in Restorable : k > j}) >= Keep]_vars

\* When a restore comes to overwrite something, the emergency backup it took is
\* on disk and holds both parts as they were after the restore had begun.
Overwriting(r) == work[r].at \in {"clear", "fill", "load"}

EmergencyOnDisk ==
    \A r \in Restore : Overwriting(r) =>
        /\ work[r].job \notin {NoJob, work[r].source}
        /\ disk[work[r].job].state = "complete"
        /\ db.history[r].emergency = work[r].job
        /\ disk[work[r].job].dump.history[r].status = "RUNNING"
        /\ disk[work[r].job].uploads # Lost

\* When uploads or tables are lost by a restore that failed or was killed
\* half-way, they are still in an archive on disk or in the work directory the
\* restore has extracted its archive to.
Recoverable ==
    LET kept == {disk[j] : j \in {j \in Job : disk[j].state = "complete"}}
                    \cup {work[r].archive : r \in {r \in Restore : work[r].at \in {"fill", "dead"}}}
    IN  /\ uploads = Lost => \E archive \in kept : archive.uploads # Lost
        /\ db.data = Lost => \E archive \in kept : archive.dump.data # Lost

\* A restore that has answered its request is in the restore history with its
\* outcome and its emergency backup, and that backup is a row of the list.
RestoreIsRecorded ==
    \A r \in Restore : work[r].at \in {"done", "failed", "error"} =>
        /\ db.history[r].status \in {"SUCCESS", "FAILED"}
        /\ work[r].job # NoJob => db.history[r].emergency = work[r].job /\ JobExists(work[r].job)

\* That is so for restores of the uploads, which leave the tables alone.
UploadsRestoreIsRecorded ==
    (\A r \in Restore : "database" \notin work[r].parts) => RestoreIsRecorded

\* As long as the API does not die, no job is RUNNING for ever.
EveryBackupEnds ==
    []~died => \A j \in Job : db.jobs[j].status = "RUNNING" ~> db.jobs[j].status # "RUNNING"

=============================================================================
