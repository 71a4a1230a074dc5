-------------------------- MODULE BackupCenterProofs --------------------------
(***************************************************************************)
(* Theorems about BackupCenter.                                            *)
(***************************************************************************)
EXTENDS BackupCenter, FiniteSetTheorems, TLAPS

\* The local variables of one worker are changed, and keep their type.
LEMMA WorkChanges ==
    ASSUME TypeOK, NEW w \in Worker, NEW q \in Work, work' = [work EXCEPT ![w] = q]
    PROVE  work' \in [Worker -> Work] /\ work'[w] = q /\ \A v \in Worker : v # w => work'[v] = work[v]
BY DEF TypeOK

\* Constants that have their types.
LEMMA ConstantsTyped ==
    /\ NoJob \notin Job
    /\ NoDump \in Database /\ NoArchive \in Archive /\ Idle \in Work
    /\ Lost \in Content /\ Version \subseteq Content /\ Lost \notin Version
    /\ MaxWrites \in Nat
<1> USE FaultAssumption, JobAssumption DEF Content, Version, Lost
<1>1. NoJob \notin Job
  BY DEF NoJob
<1>2. Lost \in Content /\ Version \subseteq Content /\ Lost \notin Version /\ MaxWrites \in Nat
  OBVIOUS
<1>3. NoDump \in Database
  BY <1>2 DEF NoDump, Database, NoRow, JobRow, JobStatus, NoHistory, HistoryRow, HistoryStatus
<1>4. NoArchive \in Archive
  BY <1>2, <1>3 DEF NoArchive, Archive
<1>5. Idle \in Work
  BY <1>4 DEF Idle, Work, Place
<1>6. QED
  BY <1>1, <1>2, <1>3, <1>4, <1>5

\* What the type of a worker's variables says of each of them.
LEMMA WorkFields ==
    ASSUME NEW q \in Work
    PROVE  /\ q.at \in Place /\ q.job \in Job \cup {NoJob} /\ q.ok \in BOOLEAN /\ q.archive \in Archive
           /\ q.prune \subseteq Job /\ q.source \in Job \cup {NoJob} /\ q.parts \subseteq Part
BY DEF Work

\* A worker goes to a place.
LEMMA GotoType ==
    ASSUME TypeOK, NEW w \in Worker, NEW at \in Place, Goto(w, at)
    PROVE  /\ work' \in [Worker -> Work]
           /\ work'[w] = [work[w] EXCEPT !.at = at]
           /\ \A v \in Worker : v # w => work'[v] = work[v]
<1>1. [work[w] EXCEPT !.at = at] \in Work
  BY DEF TypeOK, Work
<1>2. work' = [work EXCEPT ![w] = [work[w] EXCEPT !.at = at]]
  BY DEF Goto
<1>3. QED
  BY <1>1, <1>2, WorkChanges

\* All calls end with the process.
LEMMA DieType ==
    ASSUME TypeOK, Die
    PROVE  /\ work' \in [Worker -> Work] /\ autoBackupRunning' = FALSE /\ died' = TRUE
           /\ \A w \in Worker : w \notin Restore => work'[w] = Idle
           /\ \A w \in Restore : IF work[w].at \in {"idle", "done", "failed", "error"}
                                 THEN work'[w] = work[w]
                                 ELSE work'[w] = [work[w] EXCEPT !.at = "dead"]
<1>1. \A w \in Worker : [work[w] EXCEPT !.at = "dead"] \in Work
  BY DEF TypeOK, Work, Place
<1>2. QED
  BY <1>1, ConstantsTyped DEF Die, TypeOK, Worker

\* The call of createManualBackup ends.
LEMMA ReturnType ==
    ASSUME TypeOK, NEW w \in Worker, NEW ok \in BOOLEAN, Return(w, ok)
    PROVE  /\ work' \in [Worker -> Work]
           /\ work'[w] = CASE w \in Activation -> [Idle EXCEPT !.at = "retain"]
                           [] w \in Restore -> [work[w] EXCEPT !.at = "link", !.ok = ok]
                           [] OTHER -> Idle
           /\ \A v \in Worker : v # w => work'[v] = work[v]
           /\ UNCHANGED <<autoBackupRunning, died>>
<1> DEFINE q == CASE w \in Activation -> [Idle EXCEPT !.at = "retain"]
                  [] w \in Restore -> [work[w] EXCEPT !.at = "link", !.ok = ok]
                  [] OTHER -> Idle
<1>1. [Idle EXCEPT !.at = "retain"] \in Work /\ [work[w] EXCEPT !.at = "link", !.ok = ok] \in Work
  BY ZenonT(60), ConstantsTyped DEF TypeOK, Work, Place
<1>2. q \in Work
  BY <1>1, ConstantsTyped, WorkerAssumption
<1>3. work' = [work EXCEPT ![w] = q] /\ UNCHANGED <<autoBackupRunning, died>>
  BY DEF Return
<1>4. QED
  BY <1>2, <1>3, WorkChanges

\* An exception leaves createManualBackup.
LEMMA ThrowType ==
    ASSUME TypeOK, NEW w \in Worker, Throw(w)
    PROVE  \/ w \in Activation /\ Die
           \/ /\ w \notin Activation /\ work' \in [Worker -> Work]
              /\ work'[w] = IF w \in Restore THEN [work[w] EXCEPT !.at = "abort"] ELSE Idle
              /\ \A v \in Worker : v # w => work'[v] = work[v]
              /\ UNCHANGED <<autoBackupRunning, died>>
<1> DEFINE q == IF w \in Restore THEN [work[w] EXCEPT !.at = "abort"] ELSE Idle
<1>1. q \in Work
  BY ConstantsTyped DEF TypeOK, Work, Place
<1>2. CASE w \in Activation
  BY <1>2 DEF Throw
<1>3. CASE w \notin Activation
  <2>1. work' = [work EXCEPT ![w] = q] /\ UNCHANGED <<autoBackupRunning, died>>
    BY <1>3 DEF Throw
  <2>2. QED
    BY <1>1, <1>3, <2>1, WorkChanges
<1>4. QED
  BY <1>2, <1>3

\* A job is created with the next id.
LEMMA CreateType ==
    ASSUME TypeOK, NEW w \in Worker, NEW parts, parts \subseteq Part, CreateJob(w, parts)
    PROVE  \E j \in Job \ used :
               /\ \A k \in Job \ used : j <= k
               /\ used' = used \cup {j} /\ db' \in Database
               /\ db'.jobs[j] = [status |-> "RUNNING", filed |-> FALSE, parts |-> parts]
               /\ \A k \in Job : k # j => db'.jobs[k] = db.jobs[k]
               /\ db'.history = db.history /\ db'.parts = db.parts /\ db'.data = db.data
               /\ work' \in [Worker -> Work]
               /\ work'[w] = [work[w] EXCEPT !.at = "dump", !.job = j, !.archive = NoArchive,
                      !.parts = IF w \in Restore THEN work[w].parts ELSE parts]
               /\ \A v \in Worker : v # w => work'[v] = work[v]
<1>1. PICK j \in Job \ used :
          /\ \A k \in Job \ used : j <= k
          /\ used' = used \cup {j}
          /\ db' = [db EXCEPT !.jobs[j] = [status |-> "RUNNING", filed |-> FALSE, parts |-> parts]]
          /\ work' = [work EXCEPT ![w] = [@ EXCEPT !.at = "dump", !.job = j, !.archive = NoArchive,
                 !.parts = IF w \in Restore THEN work[w].parts ELSE parts]]
  BY DEF CreateJob
<1> DEFINE row == [status |-> "RUNNING", filed |-> FALSE, parts |-> parts]
           q == [work[w] EXCEPT !.at = "dump", !.job = j, !.archive = NoArchive,
                     !.parts = IF w \in Restore THEN work[w].parts ELSE parts]
<1>2. row \in JobRow
  BY DEF JobRow, JobStatus
<1>3. q \in Work
  BY ZenonT(60), ConstantsTyped DEF TypeOK, Work, Place
<1>4. db' = [db EXCEPT !.jobs[j] = row] /\ work' = [work EXCEPT ![w] = q]
  BY <1>1
<1> HIDE DEF row, q
<1>5. /\ work' \in [Worker -> Work] /\ work'[w] = q
      /\ \A v \in Worker : v # w => work'[v] = work[v]
  BY <1>3, <1>4, WorkChanges
<1>6. /\ db' \in Database /\ db'.jobs[j] = row /\ \A k \in Job : k # j => db'.jobs[k] = db.jobs[k]
      /\ db'.history = db.history /\ db'.parts = db.parts /\ db'.data = db.data
  BY <1>2, <1>4 DEF TypeOK, Database
<1>7. QED
  BY <1>1, <1>5, <1>6 DEF row, q

-----------------------------------------------------------------------------
(* What a step may do, as far as these proofs tell steps apart.            *)

Owning == {"dump", "copy", "tar", "success", "notify", "failing", "report"}
Making == {"dump", "copy", "tar", "success"}
Holding == Owning \cup {"pruned", "unlink", "delete", "link", "extract", "clear", "fill", "load",
                       "finish"}

\* Worker w runs a backup; it has not marked it yet.
Owns(w) == work[w].at \in Owning
Makes(w) == work[w].at \in Making

\* What a worker w holds in its variables q, place by place.
Sound(w, q) ==
    /\ q.at \in Holding => q.job \in Job
    /\ w \in Restore =>
           /\ q.at \in {"idle", "emergency"} => q.job = NoJob
           /\ q.at = "idle" => q.parts = {}
           /\ q.at # "idle" => q.source \in Job /\ q.parts \in RestoreParts
           /\ q.at = "load" => "database" \in q.parts

TypeInv == TypeOK /\ \A w \in Worker : Sound(w, work[w])

\* The other workers stand still; w keeps all but its place and its archive.
Others(w) == work' \in [Worker -> Work] /\ \A v \in Worker : v # w => work'[v] = work[v]
Keeps(w) ==
    /\ work'[w].job = work[w].job /\ work'[w].parts = work[w].parts
    /\ work'[w].source = work[w].source /\ work'[w].prune = work[w].prune

\* The places from which a restore no longer gets to the database.
Spent == {"idle", "abort", "finish", "done", "failed", "error", "dead"}

\* What a step that goes on does to the flag of the timer.
Turns(w) ==
    IF w \in Activation
    THEN \/ TimerFires(w)
         \/ work[w].at # "idle" /\ work'[w].at = "idle" /\ autoBackupRunning' \in {autoBackupRunning, FALSE}
         \/ work[w].at \notin {"idle", "settings"} /\ autoBackupRunning' = autoBackupRunning
    ELSE autoBackupRunning' = autoBackupRunning

\* No worker goes on.
Rests ==
    /\ db'.jobs = db.jobs /\ db'.history = db.history
    /\ db = NoDump => db' = NoDump
    /\ db'.data = Lost => db.data = Lost
    /\ uploads' = Lost => uploads = Lost
    /\ UNCHANGED <<disk, used, died, work, autoBackupRunning>>

\* All calls end with the process.
Dies == Die /\ UNCHANGED <<db, uploads, disk, used>>

\* A backup begins.
Creates(w) ==
    /\ w \in Manual \cup Activation \cup Restore
    /\ work[w].at \in {"idle", "settings", "emergency"}
    /\ w \in Restore => work[w].at = "emergency" /\ work'[w].parts = work[w].parts
    /\ work'[w].prune = work[w].prune /\ work'[w].source = work[w].source
    /\ work'[w].at = "dump" /\ work'[w].archive = NoArchive
    /\ \E j \in Job \ used :
           /\ used' = used \cup {j}
           /\ work'[w].job = j
           /\ db'.jobs[j] = [status |-> "RUNNING", filed |-> FALSE, parts |-> Wanted(w)']
           /\ \A k \in Job : k # j => db'.jobs[k] = db.jobs[k]
    /\ db'.history = db.history /\ db'.data = db.data /\ db.data # Lost
    /\ IF w \in Activation THEN work[w].at = "settings" /\ autoBackupRunning' = TRUE
                           ELSE autoBackupRunning' = autoBackupRunning
    /\ Others(w) /\ UNCHANGED <<uploads, disk, died>>

\* The database is dumped, the uploads are copied.
Dumps(w) ==
    /\ work[w].at = "dump" /\ work'[w].at = "copy" /\ Keeps(w)
    /\ work'[w].archive.dump = IF "database" \in Wanted(w) THEN db ELSE NoDump
    /\ Others(w) /\ UNCHANGED <<db, uploads, disk, used, died, autoBackupRunning>>
Copies(w) ==
    /\ work[w].at = "copy" /\ work'[w].at = "tar" /\ Keeps(w)
    /\ work'[w].archive.dump = work[w].archive.dump
    /\ work'[w].archive.uploads = IF "uploads" \in Wanted(w) THEN uploads ELSE Lost
    /\ Others(w) /\ UNCHANGED <<db, uploads, disk, used, died, autoBackupRunning>>

\* The archive is on disk.
Tars(w) ==
    /\ work[w].at = "tar" /\ work'[w].at = "success" /\ Keeps(w)
    /\ work'[w].archive = NoArchive
    /\ disk'[work[w].job] = [work[w].archive EXCEPT !.state = "complete"]
    /\ \A k \in Job : k # work[w].job => disk'[k] = disk[k]
    /\ Others(w) /\ UNCHANGED <<db, uploads, used, died, autoBackupRunning>>

\* A tool fails, and leaves part of an archive or none.
Spoils(w) ==
    /\ work[w].at \in {"dump", "copy", "tar"} /\ work'[w].at = "failing" /\ Keeps(w)
    /\ work'[w].archive = NoArchive
    /\ disk'[work[w].job] \in {disk[work[w].job], [disk[work[w].job] EXCEPT !.state = "partial"]}
    /\ \A k \in Job : k # work[w].job => disk'[k] = disk[k]
    /\ Others(w) /\ UNCHANGED <<db, uploads, used, died, autoBackupRunning>>

\* The backup is marked as finished, or as failed.
Marks(w) ==
    LET j == work[w].job
    IN  /\ JobExists(j) /\ Keeps(w)
        /\ \/ /\ work[w].at = "success" /\ work'[w].at = "notify"
              /\ db'.jobs[j].status = "SUCCESS" /\ db'.jobs[j].filed
           \/ /\ work[w].at = "failing" /\ work'[w].at = "report"
              /\ db'.jobs[j].status = "FAILED" /\ db'.jobs[j].filed = db.jobs[j].filed
        /\ db'.jobs[j].parts = db.jobs[j].parts
        /\ \A k \in Job : k # j => db'.jobs[k] = db.jobs[k]
        /\ db'.history = db.history /\ db'.data = db.data
        /\ work'[w].archive = work[w].archive
        /\ Others(w) /\ UNCHANGED <<uploads, disk, used, died, autoBackupRunning>>

\* A file is removed, and the row of a removed file is marked.
Unlinks(w) ==
    /\ work'[w].job \in Job /\ work'[w].archive = work[w].archive
    /\ work'[w].parts = work[w].parts
    /\ \/ /\ w \in Activation /\ work[w].at = "prune" /\ work'[w].at = "pruned"
          /\ work'[w].job \in work[w].prune /\ work'[w].prune \subseteq work[w].prune
       \/ /\ w \in Remover /\ work[w].at = "unlink" /\ work'[w].at = "delete" /\ Keeps(w)
    /\ disk'[work'[w].job] = NoArchive
    /\ \A k \in Job : k # work'[w].job => disk'[k] = disk[k]
    /\ Others(w) /\ UNCHANGED <<db, uploads, used, died, autoBackupRunning>>
Retires(w) ==
    LET j == work[w].job
    IN  /\ \/ w \in Activation /\ work[w].at = "pruned"
           \/ w \in Remover /\ work[w].at = "delete"
        /\ \A k \in Job : IF k = j /\ JobExists(j)
                          THEN /\ db'.jobs[k].status = "DELETED" /\ ~db'.jobs[k].filed
                               /\ db'.jobs[k].parts = db.jobs[k].parts
                          ELSE db'.jobs[k] = db.jobs[k]
        /\ db'.history = db.history /\ db'.data = db.data
        /\ db = NoDump => db' = NoDump
        /\ work'[w].at \in {"prune", "idle"} /\ work'[w].prune \subseteq work[w].prune
        /\ work'[w].archive.dump \in {work[w].archive.dump, NoDump}
        /\ Others(w) /\ UNCHANGED <<uploads, disk, used, died, autoBackupRunning>>

\* A restore puts the tables back, or psql stops half-way.
Loads(r) ==
    /\ r \in Restore /\ work[r].at = "load"
    /\ db' \in {work[r].archive.dump, NoDump}
    /\ work'[r].at \in {"finish", "abort"} /\ Keeps(r)
    /\ work'[r].archive \in {work[r].archive, NoArchive}
    /\ Others(r) /\ UNCHANGED <<uploads, disk, used, died, autoBackupRunning>>

\* A worker goes on without writing to a job's row or to the disk.
Goes(w) ==
    /\ db'.jobs = db.jobs /\ db'.data = db.data
    /\ \A r \in Restore : r # w => db'.history[r] = db.history[r]
    /\ work[w].at \notin {"pruned", "unlink", "delete"}
    /\ work'[w].at \notin Making \cup {"pruned", "copy"}
    /\ work'[w].at \in Owning =>
           /\ work[w].at \in Owning /\ work'[w].job = work[w].job /\ work'[w].at = "failing"
           /\ \/ work[w].at = "notify" /\ NotifyFails
              \/ work[w].at = "success" /\ ~JobExists(work[w].job)
    /\ work'[w].at = "unlink" => db.jobs[work'[w].job].filed
    /\ work'[w].prune \subseteq work[w].prune \/ work'[w].prune = Outdated
    /\ work'[w].archive.dump \in {work[w].archive.dump, NoDump} \cup {disk[j].dump : j \in Job}
    /\ db = NoDump => db' = NoDump
    /\ w \in Restore /\ work[w].at \in Spent /\ db.data = Lost => work'[w].at \in Spent
    /\ w \in Restore => work'[w].parts = work[w].parts \/ work[w].at = "idle"
    /\ w \notin Restore => uploads' = uploads
    /\ Turns(w) /\ Others(w) /\ UNCHANGED <<disk, used, died>>

\* One worker's variables change, and stay sound.
LEMMA WorkMoves ==
    ASSUME TypeInv, NEW w \in Worker, NEW q \in Work, Sound(w, q), work' = [work EXCEPT ![w] = q]
    PROVE  work'[w] = q /\ Others(w) /\ \A v \in Worker : Sound(v, work'[v])
<1>1. work' \in [Worker -> Work] /\ work'[w] = q /\ \A v \in Worker : v # w => work'[v] = work[v]
  BY WorkChanges DEF TypeInv
<1>2. \A v \in Worker : Sound(v, work'[v])
  BY <1>1 DEF TypeInv
<1>3. QED
  BY <1>1, <1>2 DEF Others

\* The type invariant after a step that leaves the database and the disk typed.
LEMMA StaysTyped ==
    ASSUME TypeInv, db' \in Database, uploads' \in Content, disk' \in [Job -> Archive],
           work' \in [Worker -> Work], autoBackupRunning' \in BOOLEAN, used' \subseteq Job,
           died' \in BOOLEAN, \A v \in Worker : Sound(v, work'[v])
    PROVE  TypeInv'
BY DEF TypeInv, TypeOK

\* The database is dumped.
LEMMA DumpStep ==
    ASSUME TypeInv, NEW w \in Worker, Dump(w)
    PROVE  TypeInv' /\ Dumps(w)
<1> DEFINE dump == IF "database" \in Wanted(w) THEN db ELSE NoDump
           archive == [work[w].archive EXCEPT !.dump = dump]
           q == [work[w] EXCEPT !.at = "copy", !.archive = archive]
<1>1. work[w] \in Work /\ work[w].archive \in Archive /\ Sound(w, work[w]) /\ db \in Database
  BY DEF TypeInv, TypeOK, Work
<1>2. archive \in Archive /\ archive.dump = dump
  BY <1>1, ConstantsTyped DEF Archive
<1>3. q \in Work /\ q.archive = archive /\ q.at = "copy" /\ q.job = work[w].job
      /\ q.parts = work[w].parts /\ q.source = work[w].source /\ q.prune = work[w].prune
  BY <1>1, <1>2 DEF Work, Place
<1>4. work' = [work EXCEPT ![w] = q] /\ UNCHANGED <<db, uploads, disk, autoBackupRunning, used, died>>
  BY DEF Dump
<1>5. work[w].at = "dump"
  BY DEF Dump, At
<1> HIDE DEF q, archive
<1>6. Sound(w, q)
  BY <1>1, <1>3, <1>5 DEF Sound, Owning, Holding
<1>7. work'[w] = q /\ Others(w) /\ \A v \in Worker : Sound(v, work'[v])
  BY <1>3, <1>4, <1>6, WorkMoves
<1>8. TypeInv'
  BY <1>4, <1>7, StaysTyped DEF Others, TypeInv, TypeOK
<1>9. QED
  BY <1>2, <1>3, <1>4, <1>5, <1>7, <1>8 DEF Dumps, Keeps

\* The uploads are copied into the archive.
LEMMA CopyStep ==
    ASSUME TypeInv, NEW w \in Worker, CopyUploads(w)
    PROVE  TypeInv' /\ Copies(w)
<1> DEFINE copy == IF "uploads" \in Wanted(w) THEN uploads ELSE Lost
           archive == [work[w].archive EXCEPT !.uploads = copy]
           q == [work[w] EXCEPT !.at = "tar", !.archive = archive]
<1>1. work[w] \in Work /\ work[w].archive \in Archive /\ Sound(w, work[w]) /\ uploads \in Content
  BY DEF TypeInv, TypeOK, Work
<1>2. archive \in Archive /\ archive.dump = work[w].archive.dump /\ archive.uploads = copy
  BY <1>1, ConstantsTyped DEF Archive
<1>3. q \in Work /\ q.archive = archive /\ q.at = "tar" /\ q.job = work[w].job
      /\ q.parts = work[w].parts /\ q.source = work[w].source /\ q.prune = work[w].prune
  BY <1>1, <1>2 DEF Work, Place
<1>4. work' = [work EXCEPT ![w] = q] /\ UNCHANGED <<db, uploads, disk, autoBackupRunning, used, died>>
  BY DEF CopyUploads
<1>5. work[w].at = "copy"
  BY DEF CopyUploads, At
<1> HIDE DEF q, archive
<1>6. Sound(w, q)
  BY <1>1, <1>3, <1>5 DEF Sound, Owning, Holding
<1>7. work'[w] = q /\ Others(w) /\ \A v \in Worker : Sound(v, work'[v])
  BY <1>3, <1>4, <1>6, WorkMoves
<1>8. TypeInv'
  BY <1>4, <1>7, StaysTyped DEF Others, TypeInv, TypeOK
<1>9. QED
  BY <1>2, <1>3, <1>4, <1>5, <1>7, <1>8 DEF Copies, Keeps

\* The archive is packed.
LEMMA TarStep ==
    ASSUME TypeInv, NEW w \in Worker, Tar(w)
    PROVE  TypeInv' /\ Tars(w)
<1> DEFINE archive == [work[w].archive EXCEPT !.state = "complete"]
           q == [work[w] EXCEPT !.at = "success", !.archive = NoArchive]
<1>1. /\ work[w] \in Work /\ work[w].archive \in Archive /\ Sound(w, work[w])
      /\ disk \in [Job -> Archive]
  BY DEF TypeInv, TypeOK, Work
<1>2. archive \in Archive
  BY <1>1 DEF Archive
<1>3. q \in Work /\ q.archive = NoArchive /\ q.at = "success" /\ q.job = work[w].job
      /\ q.parts = work[w].parts /\ q.source = work[w].source /\ q.prune = work[w].prune
  BY <1>1, ConstantsTyped DEF Work, Place
<1>4. /\ work' = [work EXCEPT ![w] = q] /\ disk' = [disk EXCEPT ![work[w].job] = archive]
      /\ UNCHANGED <<db, uploads, autoBackupRunning, used, died>>
  BY DEF Tar
<1>5. work[w].at = "tar"
  BY DEF Tar, At
<1> HIDE DEF q
<1>6. Sound(w, q) /\ work[w].job \in Job
  BY <1>1, <1>3, <1>5 DEF Sound, Owning, Holding
<1>7. work'[w] = q /\ Others(w) /\ \A v \in Worker : Sound(v, work'[v])
  BY <1>3, <1>4, <1>6, WorkMoves
<1>8. /\ disk' \in [Job -> Archive] /\ disk'[work[w].job] = archive
      /\ \A k \in Job : k # work[w].job => disk'[k] = disk[k]
  BY <1>1, <1>2, <1>4, <1>6
<1>9. TypeInv'
  BY <1>4, <1>7, <1>8, StaysTyped DEF Others, TypeInv, TypeOK
<1>10. QED
  BY <1>3, <1>4, <1>5, <1>7, <1>8, <1>9 DEF Tars, Keeps

\* pg_dump, cp or tar fails.
LEMMA ToolFailsStep ==
    ASSUME TypeInv, NEW w \in Worker, ToolFails(w)
    PROVE  TypeInv' /\ Spoils(w)
<1> DEFINE spoilt == [disk[work[w].job] EXCEPT !.state = "partial"]
           q == [work[w] EXCEPT !.at = "failing", !.archive = NoArchive]
<1>1. work[w] \in Work /\ Sound(w, work[w]) /\ disk \in [Job -> Archive]
  BY DEF TypeInv, TypeOK, Work
<1>2. q \in Work /\ q.archive = NoArchive /\ q.at = "failing" /\ q.job = work[w].job
      /\ q.parts = work[w].parts /\ q.source = work[w].source /\ q.prune = work[w].prune
  BY <1>1, ConstantsTyped DEF Work, Place
<1>3. /\ work' = [work EXCEPT ![w] = q]
      /\ UNCHANGED <<db, uploads, autoBackupRunning, used, died>>
  BY DEF ToolFails
<1>4. work[w].at \in {"dump", "copy", "tar"}
  BY DEF ToolFails
<1> HIDE DEF q
<1>5. Sound(w, q) /\ work[w].job \in Job
  BY <1>1, <1>2, <1>4 DEF Sound, Owning, Holding
<1>6. work'[w] = q /\ Others(w) /\ \A v \in Worker : Sound(v, work'[v])
  BY <1>2, <1>3, <1>5, WorkMoves
<1>7. spoilt \in Archive
  BY <1>1, <1>5 DEF Archive
<1>8. disk' = disk \/ disk' = [disk EXCEPT ![work[w].job] = spoilt]
  BY DEF ToolFails
<1>9. /\ disk' \in [Job -> Archive] /\ disk'[work[w].job] \in {disk[work[w].job], spoilt}
      /\ \A k \in Job : k # work[w].job => disk'[k] = disk[k]
  BY <1>1, <1>5, <1>7, <1>8
<1>10. TypeInv'
  BY <1>3, <1>6, <1>9, StaysTyped DEF Others, TypeInv, TypeOK
<1>11. QED
  BY <1>2, <1>3, <1>4, <1>6, <1>9, <1>10 DEF Spoils, Keeps

\* A worker goes to a place where what it holds is still sound.
LEMMA GotoMoves ==
    ASSUME TypeInv, NEW w \in Worker, NEW at \in Place, Goto(w, at),
           at \in Holding => work[w].job \in Job,
           w \in Restore => /\ at \notin {"idle", "emergency"} /\ work[w].at # "idle"
                            /\ at = "load" => "database" \in work[w].parts
    PROVE  /\ work'[w].at = at /\ work'[w].archive = work[w].archive /\ Keeps(w)
           /\ Others(w) /\ \A v \in Worker : Sound(v, work'[v])
<1> DEFINE q == [work[w] EXCEPT !.at = at]
<1>1. work[w] \in Work /\ Sound(w, work[w])
  BY DEF TypeInv, TypeOK
<1>2. q \in Work /\ q.archive = work[w].archive /\ q.at = at /\ q.job = work[w].job
      /\ q.parts = work[w].parts /\ q.source = work[w].source /\ q.prune = work[w].prune
  BY <1>1 DEF Work
<1>3. work' = [work EXCEPT ![w] = q]
  BY DEF Goto
<1> HIDE DEF q
<1>4. Sound(w, q)
  BY <1>1, <1>2 DEF Sound
<1>5. work'[w] = q /\ Others(w) /\ \A v \in Worker : Sound(v, work'[v])
  BY <1>2, <1>3, <1>4, WorkMoves
<1>6. QED
  BY <1>2, <1>5 DEF Keeps

\* In a database that psql has left half-way there is no row.
LEMMA NothingThere ==
    ASSUME db = NoDump
    PROVE  db.data = Lost /\ (\A j \in Job : ~JobExists(j)) /\ (\A r \in Restore : ~HistoryExists(r))
BY DEF NoDump, JobExists, HistoryExists, NoRow, NoHistory

\* The update to SUCCESS, or its exception when the row is gone.
LEMMA MarkSuccessStep ==
    ASSUME TypeInv, NEW w \in Worker, MarkSuccess(w)
    PROVE  TypeInv' /\ (Marks(w) \/ Goes(w))
<1> DEFINE j == work[w].job
<1>1. work[w] \in Work /\ Sound(w, work[w]) /\ work[w].at = "success" /\ j \in Job
  BY DEF MarkSuccess, At, TypeInv, TypeOK, Sound, Owning, Holding
<1>2. UNCHANGED <<uploads, disk, autoBackupRunning, used, died>>
  BY DEF MarkSuccess
<1>3. ASSUME JobExists(j) PROVE TypeInv' /\ Marks(w)
  <2>1. db' = [db EXCEPT !.jobs[j] = [db.jobs[j] EXCEPT !.status = "SUCCESS", !.filed = TRUE]]
    BY <1>3 DEF MarkSuccess
  <2>2. Goto(w, "notify")
    BY <1>3 DEF MarkSuccess
  <2>3. /\ db' \in Database
        /\ db'.jobs[j].status = "SUCCESS" /\ db'.jobs[j].filed = TRUE
        /\ db'.jobs[j].parts = db.jobs[j].parts
        /\ \A k \in Job : k # j => db'.jobs[k] = db.jobs[k]
        /\ db'.history = db.history /\ db'.data = db.data
    <3> DEFINE row == [db.jobs[j] EXCEPT !.status = "SUCCESS", !.filed = TRUE]
    <3>1. TypeOK /\ db.jobs[j] \in JobRow
      BY <1>1 DEF TypeInv, TypeOK, Database
    <3>2. /\ row \in JobRow /\ row.status = "SUCCESS" /\ row.filed = TRUE
          /\ row.parts = db.jobs[j].parts
      BY <3>1 DEF JobRow, JobStatus
    <3>3. db' = [db EXCEPT !.jobs[j] = row]
      BY <2>1
    <3> HIDE DEF row
    <3>4. QED
      BY <1>1, <3>1, <3>2, <3>3 DEF TypeOK, Database
  <2>4. /\ work'[w].at = "notify" /\ work'[w].archive = work[w].archive /\ Keeps(w)
        /\ Others(w) /\ \A v \in Worker : Sound(v, work'[v])
    BY <1>1, <2>2, GotoMoves DEF Place
  <2>5. TypeInv'
    BY <1>2, <2>3, <2>4, StaysTyped DEF Others, TypeInv, TypeOK
  <2>6. QED
    BY <1>1, <1>2, <1>3, <2>3, <2>4, <2>5 DEF Marks
<1>4. ASSUME ~JobExists(j) PROVE TypeInv' /\ Goes(w)
  <2>1. Goto(w, "failing") /\ db' = db
    BY <1>4 DEF MarkSuccess
  <2>2. /\ work'[w].at = "failing" /\ work'[w].archive = work[w].archive /\ Keeps(w)
        /\ Others(w) /\ \A v \in Worker : Sound(v, work'[v])
    BY <1>1, <2>1, GotoMoves DEF Place
  <2>3. TypeInv'
    BY <1>2, <2>1, <2>2, StaysTyped DEF Others, TypeInv, TypeOK
  <2>4. QED
    BY <1>1, <1>2, <1>4, <2>1, <2>2, <2>3 DEF Goes, Turns, Keeps, Making, Owning, Spent
<1>5. QED
  BY <1>3, <1>4

\* All calls end with the process.
LEMMA DieMoves ==
    ASSUME TypeInv, Die, UNCHANGED <<db, uploads, disk, used>>
    PROVE  TypeInv' /\ Dies
<1>1. TypeOK
  BY DEF TypeInv
<1>2. /\ work' \in [Worker -> Work] /\ autoBackupRunning' = FALSE /\ died' = TRUE
      /\ \A w \in Worker : w \notin Restore => work'[w] = Idle
      /\ \A w \in Restore : IF work[w].at \in {"idle", "done", "failed", "error"}
                            THEN work'[w] = work[w]
                            ELSE work'[w] = [work[w] EXCEPT !.at = "dead"]
  BY <1>1, DieType
<1>3. ASSUME NEW w \in Worker PROVE Sound(w, work'[w])
  <2>1. work[w] \in Work /\ Sound(w, work[w])
    BY DEF TypeInv, TypeOK
  <2>2. CASE w \notin Restore
    BY <1>2, <2>2 DEF Sound, Idle, Holding, Owning
  <2>3. ASSUME w \in Restore, work[w].at \in {"idle", "done", "failed", "error"} PROVE Sound(w, work'[w])
    BY <1>2, <2>1, <2>3
  <2>4. ASSUME w \in Restore, work[w].at \notin {"idle", "done", "failed", "error"}
        PROVE  Sound(w, work'[w])
    <3>1. work'[w] = [work[w] EXCEPT !.at = "dead"]
      BY <1>2, <2>4
    <3>2. /\ work'[w].at = "dead" /\ work'[w].source = work[w].source
          /\ work'[w].parts = work[w].parts
      BY <2>1, <3>1 DEF Work
    <3>3. QED
      BY <2>1, <2>4, <3>2 DEF Sound, Holding, Owning
  <2>5. QED
    BY <2>2, <2>3, <2>4
<1>4. TypeInv'
  BY <1>2, <1>3, StaysTyped DEF TypeInv, TypeOK
<1>5. QED
  BY <1>4 DEF Dies

\* An exception leaves createManualBackup.
LEMMA ThrowMoves ==
    ASSUME TypeInv, NEW w \in Worker, w \in Restore => work[w].at # "idle",
           work[w].at \notin {"pruned", "unlink", "delete"} \/ w \in Activation,
           Throw(w), UNCHANGED <<db, uploads, disk, used>>
    PROVE  TypeInv' /\ (Dies \/ Goes(w))
<1> DEFINE q == IF w \in Restore THEN [work[w] EXCEPT !.at = "abort"] ELSE Idle
<1>1. TypeOK /\ work[w] \in Work /\ Sound(w, work[w]) /\ work[w].prune \subseteq Job
  BY DEF TypeInv, TypeOK, Work
<1>2. CASE w \in Activation
  BY <1>2, DieMoves DEF Throw
<1>3. ASSUME w \notin Activation PROVE TypeInv' /\ Goes(w)
  <2>1. work' = [work EXCEPT ![w] = q] /\ UNCHANGED <<autoBackupRunning, died>>
    BY <1>3 DEF Throw
  <2>2. /\ q \in Work /\ q.at \in {"abort", "idle"} /\ q.prune \subseteq work[w].prune
        /\ q.archive.dump \in {work[w].archive.dump, NoDump}
        /\ w \in Restore => q.at = "abort" /\ q.parts = work[w].parts /\ q.source = work[w].source
    BY <1>1, ConstantsTyped DEF Work, Place, Idle, NoArchive
  <2> HIDE DEF q
  <2>3. Sound(w, q)
    BY <1>1, <2>2 DEF Sound, Holding, Owning
  <2>4. work'[w] = q /\ Others(w) /\ \A v \in Worker : Sound(v, work'[v])
    BY <2>1, <2>2, <2>3, WorkMoves
  <2>5. TypeInv'
    BY <2>1, <2>4, StaysTyped DEF Others, TypeInv, TypeOK
  <2>6. QED
    BY <1>3, <2>1, <2>2, <2>4, <2>5 DEF Goes, Turns, Making, Owning, Spent
<1>4. QED
  BY <1>2, <1>3

\* createManualBackup returns.
LEMMA ReturnMoves ==
    ASSUME TypeInv, NEW w \in Worker, NEW ok \in BOOLEAN, work[w].at \in Owning,
           Return(w, ok), UNCHANGED <<db, uploads, disk, used>>
    PROVE  TypeInv' /\ Goes(w)
<1> DEFINE q == CASE w \in Activation -> [Idle EXCEPT !.at = "retain"]
                  [] w \in Restore -> [work[w] EXCEPT !.at = "link", !.ok = ok]
                  [] OTHER -> Idle
<1>1. TypeOK /\ work[w] \in Work /\ Sound(w, work[w]) /\ work[w].prune \subseteq Job
  BY DEF TypeInv, TypeOK, Work
<1>2. work'[w] = q /\ Others(w) /\ UNCHANGED <<autoBackupRunning, died>>
  BY <1>1, ReturnType DEF Others
<1>3. \/ w \in Restore /\ q = [work[w] EXCEPT !.at = "link", !.ok = ok]
      \/ w \notin Restore /\ q \in {Idle, [Idle EXCEPT !.at = "retain"]}
  BY WorkerAssumption
<1>4. /\ q.at \in {"idle", "retain", "link"} /\ q.prune \subseteq work[w].prune
      /\ q.archive.dump \in {work[w].archive.dump, NoDump}
      /\ w \in Restore => /\ q.at = "link" /\ q.parts = work[w].parts
                          /\ q.source = work[w].source /\ q.job = work[w].job
      /\ w \notin Restore => q.at # "link"
  BY <1>1, <1>3 DEF Work, Idle, NoArchive
<1> HIDE DEF q
<1>5. Sound(w, q)
  BY <1>1, <1>4 DEF Sound, Holding, Owning
<1>6. \A v \in Worker : Sound(v, work'[v])
  BY <1>2, <1>5 DEF Others, TypeInv
<1>7. TypeInv'
  BY <1>2, <1>6, StaysTyped DEF Others, TypeInv, TypeOK
<1>8. QED
  BY <1>2, <1>4, <1>7 DEF Goes, Turns, Making, Owning, Spent

\* The update to FAILED, or its exception when the row is gone.
LEMMA MarkFailedStep ==
    ASSUME TypeInv, NEW w \in Worker, MarkFailed(w)
    PROVE  TypeInv' /\ (Marks(w) \/ Goes(w) \/ Dies)
<1> DEFINE j == work[w].job
<1>1. work[w] \in Work /\ Sound(w, work[w]) /\ work[w].at = "failing" /\ j \in Job
  BY DEF MarkFailed, At, TypeInv, TypeOK, Sound, Owning, Holding
<1>2. UNCHANGED <<uploads, disk, used>>
  BY DEF MarkFailed
<1>3. ASSUME JobExists(j) PROVE TypeInv' /\ Marks(w)
  <2>1. db' = [db EXCEPT !.jobs[j].status = "FAILED"]
    BY <1>3 DEF MarkFailed
  <2>2. Goto(w, "report") /\ UNCHANGED <<autoBackupRunning, died>>
    BY <1>3 DEF MarkFailed
  <2>3. /\ db' \in Database
        /\ db'.jobs[j].status = "FAILED" /\ db'.jobs[j].filed = db.jobs[j].filed
        /\ db'.jobs[j].parts = db.jobs[j].parts
        /\ \A k \in Job : k # j => db'.jobs[k] = db.jobs[k]
        /\ db'.history = db.history /\ db'.data = db.data
    <3> DEFINE row == [db.jobs[j] EXCEPT !.status = "FAILED"]
    <3>1. TypeOK /\ db.jobs[j] \in JobRow
      BY <1>1 DEF TypeInv, TypeOK, Database
    <3>2. /\ row \in JobRow /\ row.status = "FAILED" /\ row.filed = db.jobs[j].filed
          /\ row.parts = db.jobs[j].parts
      BY <3>1 DEF JobRow, JobStatus
    <3>3. db' = [db EXCEPT !.jobs[j] = row]
      BY <2>1
    <3> HIDE DEF row
    <3>4. QED
      BY <1>1, <3>1, <3>2, <3>3 DEF TypeOK, Database
  <2>4. /\ work'[w].at = "report" /\ work'[w].archive = work[w].archive /\ Keeps(w)
        /\ Others(w) /\ \A v \in Worker : Sound(v, work'[v])
    BY <1>1, <2>2, GotoMoves DEF Place
  <2>5. TypeInv'
    BY <1>2, <2>2, <2>3, <2>4, StaysTyped DEF Others, TypeInv, TypeOK
  <2>6. QED
    BY <1>1, <1>2, <1>3, <2>2, <2>3, <2>4, <2>5 DEF Marks
<1>4. ASSUME ~JobExists(j) PROVE TypeInv' /\ (Dies \/ Goes(w))
  <2>1. Throw(w) /\ UNCHANGED <<db, uploads, disk, used>>
    BY <1>2, <1>4 DEF MarkFailed
  <2>2. QED
    BY <1>1, <2>1, ThrowMoves
<1>5. QED
  BY <1>3, <1>4

\* Every step of runBackup, and every fault in it.
Classes(w) ==
    \/ Dumps(w) \/ Copies(w) \/ Tars(w) \/ Spoils(w) \/ Marks(w) \/ Unlinks(w) \/ Retires(w)
    \/ Loads(w) \/ Creates(w) \/ Goes(w) \/ Dies

\* Every step of createManualBackup after the row has been created.
LEMMA BackupMoves ==
    ASSUME TypeInv, NEW w \in Worker, Backup(w) \/ BackupFaults(w)
    PROVE  TypeInv' /\ Classes(w)
<1>1. CASE Dump(w)
  BY <1>1, DumpStep DEF Classes
<1>2. CASE CopyUploads(w)
  BY <1>2, CopyStep DEF Classes
<1>3. CASE Tar(w)
  BY <1>3, TarStep DEF Classes
<1>4. CASE MarkSuccess(w)
  BY <1>4, MarkSuccessStep DEF Classes
<1>5. CASE Notify(w)
  BY <1>5, ReturnMoves DEF Classes, Notify, At, Owning
<1>6. CASE MarkFailed(w)
  BY <1>6, MarkFailedStep DEF Classes
<1>7. CASE Report(w)
  BY <1>7, ReturnMoves DEF Classes, Report, At, Owning
<1>8. CASE ToolFails(w)
  BY <1>8, ToolFailsStep DEF Classes
<1>9. ASSUME NotifyThrows(w) PROVE TypeInv' /\ Goes(w)
  <2>1. /\ Goto(w, "failing") /\ work[w].at = "notify" /\ NotifyFails
        /\ UNCHANGED <<db, uploads, disk, autoBackupRunning, used, died>>
    BY <1>9 DEF NotifyThrows, At
  <2>2. work[w].job \in Job
    BY <2>1 DEF TypeInv, Sound, Holding, Owning
  <2>3. /\ work'[w].at = "failing" /\ work'[w].archive = work[w].archive /\ Keeps(w)
        /\ Others(w) /\ \A v \in Worker : Sound(v, work'[v])
    BY <2>1, <2>2, GotoMoves DEF Place
  <2>4. TypeInv'
    BY <2>1, <2>3, StaysTyped DEF Others, TypeInv, TypeOK
  <2>5. QED
    BY <2>1, <2>3, <2>4 DEF Goes, Turns, Keeps, Making, Owning, Spent
<1>10. ASSUME ReportThrows(w) PROVE TypeInv' /\ (Dies \/ Goes(w))
  BY <1>10, ThrowMoves DEF ReportThrows, At
<1>11. QED
  BY <1>1, <1>2, <1>3, <1>4, <1>5, <1>6, <1>7, <1>8, <1>9, <1>10 DEF Backup, BackupFaults, Classes

\* createManualBackup begins.
LEMMA CreateMoves ==
    ASSUME TypeInv, NEW w \in Manual \cup Activation \cup Restore, NEW parts, parts \subseteq Part,
           CreateJob(w, parts), work[w].at \in {"idle", "settings", "emergency"}, db.data # Lost,
           w \in Restore => work[w].at = "emergency" /\ parts = Part,
           UNCHANGED <<uploads, disk, died>>,
           IF w \in Activation THEN work[w].at = "settings" /\ autoBackupRunning' = TRUE
                              ELSE autoBackupRunning' = autoBackupRunning
    PROVE  TypeInv' /\ Creates(w)
<1>1. TypeOK /\ w \in Worker /\ work[w] \in Work /\ Sound(w, work[w])
  BY DEF TypeInv, TypeOK, Worker
<1>2. PICK j \in Job \ used :
          /\ \A k \in Job \ used : j <= k
          /\ used' = used \cup {j} /\ db' \in Database
          /\ db'.jobs[j] = [status |-> "RUNNING", filed |-> FALSE, parts |-> parts]
          /\ \A k \in Job : k # j => db'.jobs[k] = db.jobs[k]
          /\ db'.history = db.history /\ db'.parts = db.parts /\ db'.data = db.data
          /\ work' \in [Worker -> Work]
          /\ work'[w] = [work[w] EXCEPT !.at = "dump", !.job = j, !.archive = NoArchive,
                 !.parts = IF w \in Restore THEN work[w].parts ELSE parts]
          /\ \A v \in Worker : v # w => work'[v] = work[v]
  BY <1>1, CreateType
<1>3. /\ work'[w].at = "dump" /\ work'[w].job = j /\ work'[w].archive = NoArchive
      /\ work'[w].prune = work[w].prune /\ work'[w].source = work[w].source
      /\ work'[w].parts = IF w \in Restore THEN work[w].parts ELSE parts
  BY <1>1, <1>2 DEF Work
<1>4. Sound(w, work'[w])
  BY <1>1, <1>3 DEF Sound
<1>5. \A v \in Worker : Sound(v, work'[v])
  BY <1>2, <1>4 DEF TypeInv
<1>6. TypeInv'
  BY <1>2, <1>5, StaysTyped DEF TypeInv, TypeOK
<1>7. Wanted(w)' = parts
  BY <1>3 DEF Wanted
<1>8. QED
  BY <1>1, <1>2, <1>3, <1>6, <1>7 DEF Creates, Others

\* The timer's calls other than createManualBackup.
LEMMA AutoMoves ==
    ASSUME TypeInv, NEW a \in Activation,
           \/ TimerFires(a) \/ NotDue(a) \/ StartAuto(a) \/ AutoThrows(a)
           \/ Retain(a) \/ MarkPruned(a) \/ PruneDone(a) \/ Reschedule(a)
           \/ \E j \in Job : Prune(a, j)
    PROVE  TypeInv' /\ Classes(a)
<1>1. /\ a \in Worker /\ a \notin Restore /\ work[a] \in Work /\ Sound(a, work[a]) /\ TypeOK
      /\ work[a].prune \subseteq Job
  BY WorkerAssumption DEF Worker, TypeInv, TypeOK, Work
<1>2. ASSUME NEW at \in {"settings", "idle", "reschedule"}, Goto(a, at),
             work[a].at \notin {"pruned", "unlink", "delete"},
             \/ TimerFires(a)
             \/ work[a].at # "idle" /\ at = "idle"
             \/ work[a].at \notin {"idle", "settings"},
             UNCHANGED <<db, uploads, disk, autoBackupRunning, used, died>>
      PROVE  TypeInv' /\ Goes(a)
  <2>1. /\ work'[a].at = at /\ work'[a].archive = work[a].archive /\ Keeps(a)
        /\ Others(a) /\ \A v \in Worker : Sound(v, work'[v])
    BY <1>1, <1>2, GotoMoves DEF Place, Holding, Owning
  <2>2. TypeInv'
    BY <1>2, <2>1, StaysTyped DEF Others, TypeInv, TypeOK
  <2>3. QED
    BY <1>1, <1>2, <2>1, <2>2 DEF Goes, Turns, Keeps, Making, Owning, Spent
<1>3. CASE TimerFires(a)
  BY <1>2, <1>3 DEF TimerFires, At, Classes
<1>4. CASE NotDue(a)
  BY <1>2, <1>4 DEF NotDue, At, Classes
<1>5. CASE PruneDone(a)
  BY <1>2, <1>5 DEF PruneDone, At, Classes
<1>6. CASE StartAuto(a)
  <2>1. db.parts \subseteq Part
    BY <1>1 DEF TypeOK, Database
  <2>2. /\ CreateJob(a, db.parts) /\ work[a].at = "settings" /\ db.data # Lost
        /\ UNCHANGED <<uploads, disk, died>> /\ autoBackupRunning' = TRUE
    BY <1>6 DEF StartAuto, At
  <2>3. QED
    BY <1>1, <2>1, <2>2, CreateMoves DEF Classes
<1>7. CASE AutoThrows(a)
  BY <1>7, DieMoves DEF AutoThrows, Throw, Classes
<1>8. CASE Retain(a)
  <2> DEFINE q == [work[a] EXCEPT !.at = "prune", !.prune = Outdated]
  <2>1. /\ work[a].at = "retain" /\ work' = [work EXCEPT ![a] = q]
        /\ UNCHANGED <<db, uploads, disk, autoBackupRunning, used, died>>
    BY <1>8 DEF Retain, At
  <2>2. Outdated \subseteq Job
    BY DEF Outdated
  <2>3. q \in Work /\ q.at = "prune" /\ q.prune = Outdated /\ q.archive = work[a].archive
    BY <1>1, <2>2 DEF Work, Place
  <2> HIDE DEF q
  <2>4. Sound(a, q)
    BY <1>1, <2>3 DEF Sound, Holding, Owning
  <2>5. work'[a] = q /\ Others(a) /\ \A v \in Worker : Sound(v, work'[v])
    BY <1>1, <2>1, <2>3, <2>4, WorkMoves
  <2>6. TypeInv'
    BY <2>1, <2>5, StaysTyped DEF Others, TypeInv, TypeOK
  <2>7. Goes(a)
    BY <1>1, <2>1, <2>3, <2>5 DEF Goes, Turns, Making, Owning, Spent
  <2>8. QED
    BY <2>6, <2>7 DEF Classes
<1>9. ASSUME NEW j \in Job, Prune(a, j) PROVE TypeInv' /\ Classes(a)
  <2> DEFINE q == [work[a] EXCEPT !.at = "pruned", !.job = j, !.prune = work[a].prune \ {j}]
  <2>1. /\ work[a].at = "prune" /\ j \in work[a].prune /\ work' = [work EXCEPT ![a] = q]
        /\ disk' = [disk EXCEPT ![j] = NoArchive]
        /\ UNCHANGED <<db, uploads, autoBackupRunning, used, died>>
    BY <1>9 DEF Prune, At
  <2>2. /\ q \in Work /\ q.at = "pruned" /\ q.job = j /\ q.prune \subseteq work[a].prune
        /\ q.archive = work[a].archive /\ q.parts = work[a].parts
    BY <1>1 DEF Work, Place
  <2> HIDE DEF q
  <2>3. Sound(a, q)
    BY <1>1, <2>2 DEF Sound, Holding, Owning
  <2>4. work'[a] = q /\ Others(a) /\ \A v \in Worker : Sound(v, work'[v])
    BY <1>1, <2>1, <2>2, <2>3, WorkMoves
  <2>5. /\ disk' \in [Job -> Archive] /\ disk'[j] = NoArchive
        /\ \A k \in Job : k # j => disk'[k] = disk[k]
    BY <1>1, <2>1, ConstantsTyped DEF TypeOK
  <2>6. TypeInv'
    BY <2>1, <2>4, <2>5, StaysTyped DEF Others, TypeInv, TypeOK
  <2>7. Unlinks(a)
    BY <1>1, <2>1, <2>2, <2>4, <2>5 DEF Unlinks
  <2>8. QED
    BY <2>6, <2>7 DEF Classes
<1>10. CASE MarkPruned(a)
  <2> DEFINE j == work[a].job
  <2>1. /\ work[a].at = "pruned" /\ j \in Job
        /\ UNCHANGED <<uploads, disk, used>>
    BY <1>1, <1>10 DEF MarkPruned, At, Sound, Holding
  <2>2. CASE ~JobExists(j)
    <3>1. Die /\ UNCHANGED <<db, uploads, disk, used>>
      BY <1>10, <2>1, <2>2 DEF MarkPruned, Throw
    <3>2. QED
      BY <3>1, DieMoves DEF Classes
  <2>3. CASE JobExists(j)
    <3> DEFINE row == [db.jobs[j] EXCEPT !.status = "DELETED", !.filed = FALSE]
    <3>1. Goto(a, "prune") /\ UNCHANGED <<autoBackupRunning, died>>
      BY <1>10, <2>3 DEF MarkPruned
    <3>2. db' = [db EXCEPT !.jobs[j] = row]
      BY <1>10, <2>3 DEF MarkPruned
    <3>3. db.jobs[j] \in JobRow
      BY <1>1, <2>1 DEF TypeOK, Database
    <3>4. /\ row \in JobRow /\ row.status = "DELETED" /\ row.filed = FALSE
          /\ row.parts = db.jobs[j].parts
      BY <3>3 DEF JobRow, JobStatus
    <3> HIDE DEF row
    <3>5. /\ db' \in Database /\ db'.jobs[j] = row /\ db'.history = db.history /\ db'.data = db.data
          /\ \A k \in Job : k # j => db'.jobs[k] = db.jobs[k]
      BY <1>1, <2>1, <3>2, <3>4 DEF TypeOK, Database
    <3>6. /\ work'[a].at = "prune" /\ work'[a].archive = work[a].archive /\ Keeps(a)
          /\ Others(a) /\ \A v \in Worker : Sound(v, work'[v])
      BY <1>1, <3>1, GotoMoves DEF Place, Holding, Owning
    <3>7. TypeInv'
      BY <2>1, <3>1, <3>5, <3>6, StaysTyped DEF Others, TypeInv, TypeOK
    <3>8. db # NoDump
      BY <2>1, <2>3, NothingThere
    <3>9. Retires(a)
      BY <1>1, <2>1, <2>3, <3>1, <3>4, <3>5, <3>6, <3>8 DEF Retires, Keeps
    <3>10. QED
      BY <3>7, <3>9 DEF Classes
  <2>4. QED
    BY <2>2, <2>3
<1>11. CASE Reschedule(a)
  <2>1. /\ work[a].at = "reschedule" /\ work' = [work EXCEPT ![a] = Idle] /\ autoBackupRunning' = FALSE
        /\ UNCHANGED <<db, uploads, disk, used, died>>
    BY <1>11 DEF Reschedule, At
  <2>2. /\ Idle \in Work /\ Idle.at = "idle" /\ Idle.prune = {} /\ Idle.archive = NoArchive
        /\ NoArchive.dump = NoDump /\ Idle.parts = {}
    BY ConstantsTyped DEF Idle, NoArchive
  <2>3. Sound(a, Idle)
    BY <1>1, <2>2 DEF Sound, Holding, Owning
  <2>4. work'[a] = Idle /\ Others(a) /\ \A v \in Worker : Sound(v, work'[v])
    BY <1>1, <2>1, <2>2, <2>3, WorkMoves
  <2>5. TypeInv'
    BY <2>1, <2>4, StaysTyped DEF Others, TypeInv, TypeOK
  <2>6. Goes(a)
    BY <1>1, <2>1, <2>2, <2>4 DEF Goes, Turns, Making, Owning, Spent
  <2>7. QED
    BY <2>5, <2>6 DEF Classes
<1>12. QED
  BY <1>3, <1>4, <1>5, <1>6, <1>7, <1>8, <1>9, <1>10, <1>11

\* remove.
LEMMA RemoveMoves ==
    ASSUME TypeInv, NEW d \in Remover, Unlink(d) \/ DeleteRow(d) \/ \E j \in Job : Remove(d, j)
    PROVE  TypeInv' /\ Classes(d)
<1>1. d \in Worker /\ d \notin Restore \cup Activation /\ work[d] \in Work /\ Sound(d, work[d]) /\ TypeOK
  BY WorkerAssumption DEF Worker, TypeInv, TypeOK
<1>2. ASSUME NEW j \in Job, Remove(d, j) PROVE TypeInv' /\ Classes(d)
  <2> DEFINE at == IF db.jobs[j].filed THEN "unlink" ELSE "delete"
             q == [work[d] EXCEPT !.at = at, !.job = j]
  <2>1. /\ work[d].at = "idle" /\ work' = [work EXCEPT ![d] = q]
        /\ UNCHANGED <<db, uploads, disk, autoBackupRunning, used, died>>
    BY <1>2 DEF Remove, At
  <2>2. /\ q \in Work /\ q.at = at /\ q.job = j /\ q.prune = work[d].prune
        /\ q.archive = work[d].archive
    BY <1>1 DEF Work, Place
  <2> HIDE DEF q
  <2>3. Sound(d, q)
    BY <1>1, <2>2 DEF Sound, Holding, Owning
  <2>4. work'[d] = q /\ Others(d) /\ \A v \in Worker : Sound(v, work'[v])
    BY <1>1, <2>1, <2>2, <2>3, WorkMoves
  <2>5. TypeInv'
    BY <2>1, <2>4, StaysTyped DEF Others, TypeInv, TypeOK
  <2>6. Goes(d)
    BY <1>1, <2>1, <2>2, <2>4 DEF Goes, Turns, Making, Owning, Spent
  <2>7. QED
    BY <2>5, <2>6 DEF Classes
<1>3. CASE Unlink(d)
  <2>1. /\ work[d].at = "unlink" /\ Goto(d, "delete")
        /\ disk' = [disk EXCEPT ![work[d].job] = NoArchive]
        /\ UNCHANGED <<db, uploads, autoBackupRunning, used, died>>
    BY <1>3 DEF Unlink, At
  <2>2. work[d].job \in Job
    BY <1>1, <2>1 DEF Sound, Holding
  <2>3. /\ work'[d].at = "delete" /\ work'[d].archive = work[d].archive /\ Keeps(d)
        /\ Others(d) /\ \A v \in Worker : Sound(v, work'[v])
    BY <1>1, <2>1, <2>2, GotoMoves DEF Place
  <2>4. /\ disk' \in [Job -> Archive] /\ disk'[work[d].job] = NoArchive
        /\ \A k \in Job : k # work[d].job => disk'[k] = disk[k]
    BY <1>1, <2>1, <2>2, ConstantsTyped DEF TypeOK
  <2>5. TypeInv'
    BY <2>1, <2>3, <2>4, StaysTyped DEF Others, TypeInv, TypeOK
  <2>6. Unlinks(d)
    BY <2>1, <2>2, <2>3, <2>4 DEF Unlinks, Keeps
  <2>7. QED
    BY <2>5, <2>6 DEF Classes
<1>4. CASE DeleteRow(d)
  <2> DEFINE j == work[d].job
             row == [db.jobs[j] EXCEPT !.status = "DELETED", !.filed = FALSE]
  <2>1. /\ work[d].at = "delete" /\ work' = [work EXCEPT ![d] = Idle]
        /\ db' = IF JobExists(j) THEN [db EXCEPT !.jobs[j] = row] ELSE db
        /\ UNCHANGED <<uploads, disk, autoBackupRunning, used, died>>
    BY <1>4 DEF DeleteRow, At
  <2>2. j \in Job
    BY <1>1, <2>1 DEF Sound, Holding
  <2>3. db.jobs[j] \in JobRow
    BY <1>1, <2>2 DEF TypeOK, Database
  <2>4. /\ row \in JobRow /\ row.status = "DELETED" /\ row.filed = FALSE
        /\ row.parts = db.jobs[j].parts
    BY <2>3 DEF JobRow, JobStatus
  <2> HIDE DEF row
  <2>5. /\ db' \in Database /\ db'.history = db.history /\ db'.data = db.data
        /\ \A k \in Job : IF k = j /\ JobExists(j) THEN db'.jobs[k] = row
                          ELSE db'.jobs[k] = db.jobs[k]
    <3>1. CASE ~JobExists(j)
      BY <1>1, <2>1, <3>1 DEF TypeOK
    <3>2. CASE JobExists(j)
      <4>1. db' = [db EXCEPT !.jobs[j] = row]
        BY <2>1, <3>2
      <4>2. QED
        BY <1>1, <2>2, <2>4, <3>2, <4>1 DEF TypeOK, Database
    <3>3. QED
      BY <3>1, <3>2
  <2>6. /\ Idle \in Work /\ Idle.at = "idle" /\ Idle.prune = {} /\ Idle.archive = NoArchive
        /\ NoArchive.dump = NoDump
    BY ConstantsTyped DEF Idle, NoArchive
  <2>7. Sound(d, Idle)
    BY <1>1, <2>6 DEF Sound, Holding, Owning
  <2>8. work'[d] = Idle /\ Others(d) /\ \A v \in Worker : Sound(v, work'[v])
    BY <1>1, <2>1, <2>6, <2>7, WorkMoves
  <2>9. TypeInv'
    BY <2>1, <2>5, <2>8, StaysTyped DEF Others, TypeInv, TypeOK
  <2>10. db = NoDump => db' = NoDump
    BY <2>1, <2>2, NothingThere
  <2>11. Retires(d)
    BY <2>1, <2>4, <2>5, <2>6, <2>8, <2>10 DEF Retires
  <2>12. QED
    BY <2>9, <2>11 DEF Classes
<1>5. QED
  BY <1>2, <1>3, <1>4

\* restore, up to the extraction of the archive and after it, except for the
\* tables: the step is one of a worker that goes on.
LEMMA RestoreGoes ==
    ASSUME TypeInv, NEW r \in Restore, NEW q \in Work, Sound(r, q), work' = [work EXCEPT ![r] = q],
           work[r].at \notin Holding \ {"link", "extract", "clear", "fill", "load", "finish"},
           q.at \notin Holding \ {"link", "extract", "clear", "fill", "load", "finish"},
           q.prune = work[r].prune,
           q.parts = work[r].parts \/ work[r].at = "idle",
           q.archive.dump \in {work[r].archive.dump, NoDump} \cup {disk[j].dump : j \in Job},
           db' \in Database, db'.jobs = db.jobs, db'.data = db.data,
           \A s \in Restore : s # r => db'.history[s] = db.history[s],
           db = NoDump => db' = NoDump,
           work[r].at \in Spent /\ db.data = Lost => q.at \in Spent,
           uploads' \in Content, UNCHANGED <<disk, used, autoBackupRunning, died>>
    PROVE  TypeInv' /\ Goes(r) /\ work'[r] = q
<1>1. r \in Worker /\ r \notin Activation
  BY WorkerAssumption DEF Worker
<1>2. work'[r] = q /\ Others(r) /\ \A v \in Worker : Sound(v, work'[v])
  BY <1>1, WorkMoves
<1>3. TypeInv'
  BY <1>2, StaysTyped DEF Others, TypeInv, TypeOK
<1>4. Goes(r)
  BY <1>1, <1>2 DEF Goes, Turns, Making, Owning, Holding
<1>5. QED
  BY <1>2, <1>3, <1>4

\* psql has put the tables back, or stopped half-way.
LEMMA LoadMoves ==
    ASSUME TypeInv, NEW r \in Restore,
           Load(r) \/ (RestoreToolFails(r) /\ work[r].at = "load" /\ db' = NoDump)
    PROVE  TypeInv' /\ Loads(r)
<1>1. r \in Worker /\ work[r] \in Work /\ Sound(r, work[r]) /\ TypeOK
  BY DEF Worker, TypeInv, TypeOK
<1>2. ASSUME NEW q \in Work, work[r].at = "load", q.at \in {"finish", "abort"},
             q.job = work[r].job, q.parts = work[r].parts, q.source = work[r].source,
             q.prune = work[r].prune, q.archive \in {work[r].archive, NoArchive},
             work' = [work EXCEPT ![r] = q],
             db' \in {work[r].archive.dump, NoDump},
             UNCHANGED <<uploads, disk, autoBackupRunning, used, died>>
      PROVE  TypeInv' /\ Loads(r)
  <2>1. Sound(r, q)
    BY <1>1, <1>2 DEF Sound, Holding, Owning
  <2>2. work'[r] = q /\ Others(r) /\ \A v \in Worker : Sound(v, work'[v])
    BY <1>1, <1>2, <2>1, WorkMoves
  <2>3. db' \in Database
    BY <1>1, <1>2, ConstantsTyped DEF Work, Archive
  <2>4. TypeInv'
    BY <1>2, <2>2, <2>3, StaysTyped DEF Others, TypeInv, TypeOK
  <2>5. QED
    BY <1>2, <2>2, <2>4 DEF Loads, Keeps
<1>3. CASE Load(r)
  <2> DEFINE q == [work[r] EXCEPT !.at = "finish"]
  <2>1. q \in Work /\ q.at = "finish" /\ q.job = work[r].job /\ q.parts = work[r].parts
        /\ q.source = work[r].source /\ q.prune = work[r].prune /\ q.archive = work[r].archive
    BY <1>1 DEF Work, Place
  <2>2. /\ work[r].at = "load" /\ work' = [work EXCEPT ![r] = q] /\ db' = work[r].archive.dump
        /\ UNCHANGED <<uploads, disk, autoBackupRunning, used, died>>
    BY <1>3 DEF Load, At, Goto
  <2> HIDE DEF q
  <2>3. QED
    BY <1>2, <2>1, <2>2
<1>4. CASE RestoreToolFails(r) /\ work[r].at = "load" /\ db' = NoDump
  <2> DEFINE q == [work[r] EXCEPT !.at = "abort", !.archive = NoArchive]
  <2>1. q \in Work /\ q.at = "abort" /\ q.job = work[r].job /\ q.parts = work[r].parts
        /\ q.source = work[r].source /\ q.prune = work[r].prune /\ q.archive = NoArchive
    BY <1>1, ConstantsTyped DEF Work, Place
  <2>2. /\ work' = [work EXCEPT ![r] = q]
        /\ UNCHANGED <<uploads, disk, autoBackupRunning, used, died>>
    BY <1>4 DEF RestoreToolFails
  <2> HIDE DEF q
  <2>3. QED
    BY <1>2, <1>4, <2>1, <2>2
<1>5. QED
  BY <1>3, <1>4

\* Every step of a restore outside createManualBackup.
LEMMA RestoreMoves ==
    ASSUME TypeInv, NEW r \in Restore,
           \/ StartEmergency(r) \/ Link(r) \/ Extract(r) \/ Clear(r) \/ Fill(r) \/ Load(r)
           \/ Finish(r) \/ Abort(r) \/ RestoreToolFails(r)
           \/ \E j \in Job, parts \in RestoreParts : BeginRestore(r, j, parts)
    PROVE  TypeInv' /\ Classes(r)
<1>1. /\ r \in Worker /\ work[r] \in Work /\ Sound(r, work[r]) /\ TypeOK
      /\ db \in Database /\ uploads \in Content /\ disk \in [Job -> Archive] /\ db.history[r] \in HistoryRow
  BY DEF Worker, TypeInv, TypeOK, Database
<1>2. ASSUME NEW at \in {"extract", "abort", "fill", "load", "finish", "done", "failed", "error"},
             Goto(r, at), work[r].at \in {"emergency", "link", "clear", "fill", "load", "finish", "abort"},
             at \in Holding => work[r].job \in Job,
             at = "load" => "database" \in work[r].parts,
             db' \in Database, db'.jobs = db.jobs, db'.data = db.data,
             \A s \in Restore : s # r => db'.history[s] = db.history[s],
             db = NoDump => db' = NoDump, work[r].at \in Spent => at \in Spent,
             uploads' \in Content, UNCHANGED <<disk, used, autoBackupRunning, died>>
      PROVE  TypeInv' /\ Classes(r)
  <2> DEFINE q == [work[r] EXCEPT !.at = at]
  <2>1. q \in Work /\ q.at = at /\ q.job = work[r].job /\ q.prune = work[r].prune
        /\ q.archive = work[r].archive /\ q.parts = work[r].parts /\ q.source = work[r].source
    BY <1>1 DEF Work, Place
  <2>2. work' = [work EXCEPT ![r] = q]
    BY <1>2 DEF Goto
  <2> HIDE DEF q
  <2>3. Sound(r, q)
    BY <1>1, <1>2, <2>1 DEF Sound
  <2>4. /\ work[r].at \notin Holding \ {"link", "extract", "clear", "fill", "load", "finish"}
        /\ q.at \notin Holding \ {"link", "extract", "clear", "fill", "load", "finish"}
    BY <1>2, <2>1 DEF Holding, Owning
  <2>5. TypeInv' /\ Goes(r)
    BY <1>2, <2>1, <2>2, <2>3, <2>4, RestoreGoes
  <2>6. QED
    BY <2>5 DEF Classes
<1>3. ASSUME NEW j \in Job, NEW parts \in RestoreParts, BeginRestore(r, j, parts)
      PROVE  TypeInv' /\ Classes(r)
  <2> DEFINE q == [work[r] EXCEPT !.at = "emergency", !.source = j, !.parts = parts]
             row == [status |-> "RUNNING", emergency |-> NoJob]
  <2>1. /\ work[r].at = "idle" /\ work' = [work EXCEPT ![r] = q] /\ db.data # Lost
        /\ db' = [db EXCEPT !.history[r] = row]
        /\ UNCHANGED <<uploads, disk, autoBackupRunning, used, died>>
    BY <1>3 DEF BeginRestore, At
  <2>2. parts \subseteq Part
    BY PartAssumption
  <2>3. q \in Work /\ q.at = "emergency" /\ q.job = work[r].job /\ q.prune = work[r].prune
        /\ q.archive = work[r].archive /\ q.parts = parts /\ q.source = j
    BY <1>1, <2>2 DEF Work, Place
  <2>4. row \in HistoryRow
    BY DEF HistoryRow, HistoryStatus
  <2> HIDE DEF q, row
  <2>5. Sound(r, q)
    BY <1>1, <2>1, <2>3 DEF Sound, Holding, Owning
  <2>6. /\ work[r].at \notin Holding \ {"link", "extract", "clear", "fill", "load", "finish"}
        /\ q.at \notin Holding \ {"link", "extract", "clear", "fill", "load", "finish"}
    BY <2>1, <2>3 DEF Holding, Owning
  <2>7. /\ db' \in Database /\ db'.jobs = db.jobs /\ db'.data = db.data
        /\ \A s \in Restore : s # r => db'.history[s] = db.history[s]
    BY <1>1, <2>1, <2>4 DEF Database
  <2>8. db # NoDump /\ uploads' \in Content
    BY <1>1, <2>1, NothingThere
  <2>9. TypeInv' /\ Goes(r)
    BY <2>1, <2>3, <2>5, <2>6, <2>7, <2>8, RestoreGoes
  <2>10. QED
    BY <2>9 DEF Classes
<1>4. CASE StartEmergency(r)
  <2>1. CASE db.data # Lost
    <3>1. /\ CreateJob(r, Part) /\ work[r].at = "emergency"
          /\ UNCHANGED <<uploads, disk, autoBackupRunning, died>>
      BY <1>4, <2>1 DEF StartEmergency, At
    <3>2. r \notin Activation /\ autoBackupRunning' = autoBackupRunning
      BY <3>1, WorkerAssumption
    <3>3. TypeInv' /\ Creates(r)
      BY <2>1, <3>1, <3>2, CreateMoves
    <3>4. QED
      BY <3>3 DEF Classes
  <2>2. CASE db.data = Lost
    <3>1. /\ Goto(r, "abort") /\ work[r].at = "emergency"
          /\ UNCHANGED <<db, uploads, disk, autoBackupRunning, used, died>>
      BY <1>4, <2>2 DEF StartEmergency, At
    <3>2. QED
      BY <1>1, <1>2, <3>1 DEF Holding, Owning, Spent
  <2>3. QED
    BY <2>1, <2>2
<1>5. ASSUME NEW status \in HistoryStatus, NEW e \in Job \cup {NoJob}, HistoryExists(r),
             db' = [db EXCEPT !.history[r] = [status |-> status, emergency |-> e]]
      PROVE  /\ db' \in Database /\ db'.jobs = db.jobs /\ db'.data = db.data /\ db # NoDump
             /\ \A s \in Restore : s # r => db'.history[s] = db.history[s]
  <2> DEFINE row == [status |-> status, emergency |-> e]
  <2>1. row \in HistoryRow
    BY <1>5 DEF HistoryRow
  <2>2. db' = [db EXCEPT !.history[r] = row]
    BY <1>5
  <2> HIDE DEF row
  <2>3. /\ db' \in Database /\ db'.jobs = db.jobs /\ db'.data = db.data
        /\ \A s \in Restore : s # r => db'.history[s] = db.history[s]
    BY <1>1, <2>1, <2>2 DEF Database
  <2>4. db # NoDump
    BY <1>5, NothingThere
  <2>5. QED
    BY <2>3, <2>4
<1>6. CASE Link(r)
  <2>1. /\ work[r].at = "link" /\ work[r].job \in Job
        /\ UNCHANGED <<uploads, disk, autoBackupRunning, used, died>>
    BY <1>1, <1>6 DEF Link, At, Sound, Holding
  <2>2. CASE HistoryExists(r)
    <3>1. PICK at \in {"extract", "abort"} : Goto(r, at)
      BY <1>6, <2>2 DEF Link
    <3>2. db' = [db EXCEPT !.history[r].emergency = work[r].job]
      BY <1>6, <2>2 DEF Link
    <3>3. [db.history[r] EXCEPT !.emergency = work[r].job]
              = [status |-> db.history[r].status, emergency |-> work[r].job]
      BY <1>1 DEF HistoryRow
    <3>4. db' = [db EXCEPT !.history[r] = [status |-> db.history[r].status, emergency |-> work[r].job]]
      BY <3>2, <3>3
    <3>5. db.history[r].status \in HistoryStatus
      BY <1>1 DEF HistoryRow
    <3>6. /\ db' \in Database /\ db'.jobs = db.jobs /\ db'.data = db.data /\ db # NoDump
          /\ \A s \in Restore : s # r => db'.history[s] = db.history[s]
      BY <1>5, <2>1, <2>2, <3>4, <3>5
    <3>7. QED
      BY <1>1, <1>2, <2>1, <3>1, <3>6 DEF Spent
  <2>3. CASE ~HistoryExists(r)
    <3>1. Goto(r, "abort") /\ UNCHANGED db
      BY <1>6, <2>3 DEF Link
    <3>2. QED
      BY <1>1, <1>2, <2>1, <3>1 DEF Spent
  <2>4. QED
    BY <2>2, <2>3
<1>7. CASE Extract(r)
  <2> DEFINE archive == disk[work[r].source]
             at == IF archive.state # "complete" THEN "abort"
                   ELSE IF "uploads" \in work[r].parts THEN "clear" ELSE "load"
             q == [work[r] EXCEPT !.archive = archive, !.at = at]
  <2>1. /\ work[r].at = "extract" /\ work' = [work EXCEPT ![r] = q]
        /\ UNCHANGED <<db, uploads, disk, autoBackupRunning, used, died>>
    BY <1>7 DEF Extract, At
  <2>2. work[r].source \in Job /\ work[r].parts \in RestoreParts /\ work[r].job \in Job
    BY <1>1, <2>1 DEF Sound, Holding
  <2>3. archive \in Archive
    BY <1>1, <2>2
  <2>4. work[r].parts \subseteq Part /\ work[r].parts # {}
    BY <2>2, PartAssumption
  <2>5. at \in {"abort", "clear", "load"} /\ (at = "load" => "database" \in work[r].parts)
    BY <2>4 DEF Part
  <2>6. q \in Work /\ q.at = at /\ q.job = work[r].job /\ q.prune = work[r].prune
        /\ q.archive = archive /\ q.parts = work[r].parts /\ q.source = work[r].source
    BY <1>1, <2>3, <2>5 DEF Work, Place
  <2> HIDE DEF q, at
  <2>7. Sound(r, q)
    BY <2>2, <2>5, <2>6 DEF Sound
  <2>8. /\ work[r].at \notin Holding \ {"link", "extract", "clear", "fill", "load", "finish"}
        /\ q.at \notin Holding \ {"link", "extract", "clear", "fill", "load", "finish"}
    BY <2>1, <2>5, <2>6 DEF Holding, Owning
  <2>9. q.archive.dump \in {work[r].archive.dump, NoDump} \cup {disk[j].dump : j \in Job}
    BY <2>2, <2>6
  <2>10. TypeInv' /\ Goes(r)
    BY <1>1, <2>1, <2>6, <2>7, <2>8, <2>9, RestoreGoes DEF Spent
  <2>11. QED
    BY <2>10 DEF Classes
<1>8. CASE Clear(r)
  <2>1. /\ work[r].at = "clear" /\ work[r].job \in Job /\ uploads' \in Content
        /\ UNCHANGED <<db, disk, autoBackupRunning, used, died>>
    BY <1>1, <1>8, ConstantsTyped DEF Clear, At, Sound, Holding
  <2>2. PICK at \in {"fill", "abort"} : Goto(r, at)
    BY <1>8 DEF Clear
  <2>3. QED
    BY <1>1, <1>2, <2>1, <2>2 DEF Spent
<1>9. CASE Fill(r)
  <2>1. /\ work[r].at = "fill" /\ work[r].job \in Job
        /\ uploads' = work[r].archive.uploads
        /\ UNCHANGED <<db, disk, autoBackupRunning, used, died>>
    BY <1>1, <1>9 DEF Fill, At, Sound, Holding
  <2>2. uploads' \in Content
    BY <1>1, <2>1 DEF Work, Archive
  <2>3. PICK at \in {"load", "finish"} : Goto(r, at) /\ (at = "load" => "database" \in work[r].parts)
    BY <1>9 DEF Fill
  <2>4. QED
    BY <1>1, <1>2, <2>1, <2>2, <2>3 DEF Spent
<1>11. CASE Load(r)
  BY <1>11, LoadMoves DEF Classes
<1>12. CASE RestoreToolFails(r)
  <2>1. CASE work[r].at = "load" /\ db' = NoDump
    BY <1>12, <2>1, LoadMoves DEF Classes
  <2>2. CASE work[r].at # "load" \/ db' = db
    <3> DEFINE q == [work[r] EXCEPT !.at = "abort", !.archive = NoArchive]
    <3>1. q \in Work /\ q.at = "abort" /\ q.job = work[r].job /\ q.parts = work[r].parts
          /\ q.source = work[r].source /\ q.prune = work[r].prune /\ q.archive = NoArchive
      BY <1>1, ConstantsTyped DEF Work, Place
    <3>2. /\ work[r].at \in {"extract", "fill", "load"} /\ work' = [work EXCEPT ![r] = q]
          /\ db' = db /\ UNCHANGED <<uploads, disk, autoBackupRunning, used, died>>
      BY <1>12, <2>2 DEF RestoreToolFails, At
    <3> HIDE DEF q
    <3>3. Sound(r, q)
      BY <1>1, <3>1, <3>2 DEF Sound, Holding, Owning
    <3>4. /\ work[r].at \notin Holding \ {"link", "extract", "clear", "fill", "load", "finish"}
          /\ q.at \notin Holding \ {"link", "extract", "clear", "fill", "load", "finish"}
      BY <3>1, <3>2 DEF Holding, Owning
    <3>5. q.archive.dump = NoDump
      BY <3>1 DEF NoArchive
    <3>6. TypeInv' /\ Goes(r)
      BY <1>1, <3>1, <3>2, <3>3, <3>4, <3>5, RestoreGoes DEF Spent
    <3>7. QED
      BY <3>6 DEF Classes
  <2>3. QED
    BY <1>12, <2>1, <2>2 DEF RestoreToolFails, At
<1>13. ASSUME NEW status \in HistoryStatus, NEW at \in {"done", "failed"}, NEW other \in {"abort", "error"},
              work[r].at \in {"finish", "abort"},
              IF HistoryExists(r)
              THEN /\ db' = [db EXCEPT !.history[r].status = status]
                   /\ Goto(r, at)
              ELSE Goto(r, other) /\ UNCHANGED db,
              UNCHANGED <<uploads, disk, autoBackupRunning, used, died>>
       PROVE  TypeInv' /\ Classes(r)
  <2>1. CASE HistoryExists(r)
    <3>1. [db.history[r] EXCEPT !.status = status]
              = [status |-> status, emergency |-> db.history[r].emergency]
      BY <1>1 DEF HistoryRow
    <3>2. db' = [db EXCEPT !.history[r] = [status |-> status, emergency |-> db.history[r].emergency]]
      BY <1>13, <2>1, <3>1
    <3>3. db.history[r].emergency \in Job \cup {NoJob}
      BY <1>1 DEF HistoryRow
    <3>4. /\ db' \in Database /\ db'.jobs = db.jobs /\ db'.data = db.data /\ db # NoDump
          /\ \A s \in Restore : s # r => db'.history[s] = db.history[s]
      BY <1>5, <2>1, <3>2, <3>3
    <3>5. Goto(r, at)
      BY <1>13, <2>1
    <3>6. QED
      BY <1>1, <1>2, <1>13, <3>4, <3>5 DEF Holding, Owning, Spent
  <2>2. CASE ~HistoryExists(r)
    <3>1. Goto(r, other) /\ UNCHANGED db
      BY <1>13, <2>2
    <3>2. QED
      BY <1>1, <1>2, <1>13, <3>1 DEF Holding, Owning, Spent
  <2>3. QED
    BY <2>1, <2>2
<1>14. CASE Finish(r)
  BY <1>13, <1>14 DEF Finish, At, HistoryStatus
<1>15. CASE Abort(r)
  BY <1>13, <1>15 DEF Abort, At, HistoryStatus
<1>16. QED
  BY <1>3, <1>4, <1>6, <1>7, <1>8, <1>9, <1>11, <1>12, <1>14, <1>15

\* What a request for a restore does.
RestoreActs(r) ==
    \/ RestoreStep(r) \/ BackupFaults(r) \/ RestoreToolFails(r)
    \/ \E j \in Job, parts \in RestoreParts : BeginRestore(r, j, parts)

\* Every step keeps the types, and is one of these.
LEMMA BackupStep ==
    ASSUME TypeInv, [Next]_vars
    PROVE  /\ TypeInv'
           /\ \/ Rests \/ Dies
              \/ \E w \in Worker \ Restore : Classes(w)
              \/ \E r \in Restore : Classes(r) /\ RestoreActs(r)
<1>1. TypeOK /\ db \in Database /\ uploads \in Content
  BY DEF TypeInv, TypeOK
<1>2. ASSUME db' \in Database, uploads' \in Content, db'.jobs = db.jobs, db'.history = db.history,
             db = NoDump => db' = NoDump, db'.data = Lost => db.data = Lost,
             uploads' = Lost => uploads = Lost,
             UNCHANGED <<disk, work, autoBackupRunning, used, died>>
      PROVE  TypeInv' /\ Rests
  <2>1. TypeInv'
    BY <1>2, StaysTyped DEF TypeInv, TypeOK
  <2>2. QED
    BY <1>2, <2>1 DEF Rests
<1>3. CASE WriteData
  <2>1. /\ db.data < MaxWrites /\ db' = [db EXCEPT !.data = db.data + 1]
        /\ UNCHANGED <<uploads, disk, work, autoBackupRunning, used, died>>
    BY <1>3 DEF WriteData
  <2>2. db.data \in Content /\ MaxWrites \in Nat
    BY <1>1, ConstantsTyped DEF Database
  <2>3. db.data + 1 \in Content /\ db.data # Lost /\ db.data + 1 # Lost
    BY <2>1, <2>2 DEF Content, Version, Lost
  <2>4. db' \in Database /\ db'.jobs = db.jobs /\ db'.history = db.history /\ db'.data # Lost
    BY <1>1, <2>1, <2>3 DEF Database
  <2>5. db # NoDump
    BY <2>3, NothingThere
  <2>6. QED
    BY <1>1, <1>2, <2>1, <2>4, <2>5
<1>4. CASE WriteUploads
  <2>1. uploads' \in Content /\ uploads' # Lost
    BY <1>1, <1>4, ConstantsTyped DEF WriteUploads, Content, Version, Lost
  <2>2. QED
    BY <1>1, <1>2, <1>4, <2>1 DEF WriteUploads
<1>5. ASSUME NEW s \in Switches, UpdateSettings(s[1], s[2]) PROVE TypeInv' /\ Rests
  <2>1. s[1] \subseteq Part /\ s[2] \subseteq Part
    BY SwitchAssumption
  <2> DEFINE parts == (db.parts \ s[2]) \cup s[1]
  <2>2. /\ db.data # Lost /\ db' = [db EXCEPT !.parts = parts]
        /\ UNCHANGED <<uploads, disk, work, autoBackupRunning, used, died>>
    BY <1>5 DEF UpdateSettings
  <2>3. parts \subseteq Part
    BY <1>1, <2>1 DEF Database
  <2> HIDE DEF parts
  <2>4. db' \in Database /\ db'.jobs = db.jobs /\ db'.history = db.history
    BY <1>1, <2>2, <2>3 DEF Database
  <2>5. db # NoDump
    BY <2>2, NothingThere
  <2>6. QED
    BY <1>1, <1>2, <2>2, <2>4, <2>5
<1>6. ASSUME NEW m \in Manual, StartManual(m) PROVE TypeInv' /\ Classes(m)
  <2>1. /\ work[m].at = "idle" /\ db.data # Lost
        /\ UNCHANGED <<uploads, disk, autoBackupRunning, died>>
    BY <1>6 DEF StartManual, At
  <2>2. PICK parts \in SourceParts : CreateJob(m, parts)
    BY <1>6 DEF StartManual
  <2>3. parts \subseteq Part /\ m \notin Restore \cup Activation
    BY PartAssumption, WorkerAssumption
  <2>4. TypeInv' /\ Creates(m)
    BY <2>1, <2>2, <2>3, CreateMoves
  <2>5. QED
    BY <2>4 DEF Classes
<1>7. CASE Crash
  BY <1>7, DieMoves DEF Crash
<1>8. CASE UNCHANGED vars
  BY <1>1, <1>2, <1>8 DEF vars
<1>9. ASSUME NEW m \in Manual, StartManual(m) \/ Backup(m) \/ BackupFaults(m)
      PROVE  m \in Worker \ Restore /\ TypeInv' /\ Classes(m)
  BY <1>6, <1>9, BackupMoves, WorkerAssumption DEF Worker
<1>10. ASSUME NEW a \in Activation, TimerFires(a) \/ AutoStep(a) \/ BackupFaults(a)
       PROVE  a \in Worker \ Restore /\ TypeInv' /\ Classes(a)
  BY <1>10, BackupMoves, AutoMoves, WorkerAssumption DEF AutoStep, Worker
<1>11. ASSUME NEW d \in Remover, Unlink(d) \/ DeleteRow(d) \/ \E j \in Job : Remove(d, j)
       PROVE  d \in Worker \ Restore /\ TypeInv' /\ Classes(d)
  BY <1>11, RemoveMoves, WorkerAssumption DEF Worker
<1>12. ASSUME NEW r \in Restore,
              \/ RestoreStep(r) \/ BackupFaults(r) \/ RestoreToolFails(r)
              \/ \E j \in Job, parts \in RestoreParts : BeginRestore(r, j, parts)
       PROVE  TypeInv' /\ Classes(r) /\ RestoreActs(r)
  BY <1>12, BackupMoves, RestoreMoves DEF RestoreStep, RestoreActs, Worker
<1>13. QED
  BY <1>3, <1>4, <1>5, <1>7, <1>8, <1>9, <1>10, <1>11, <1>12 DEF Next

\* The program starts with the types in order.
LEMMA BackupStarts == Init => TypeInv
<1> SUFFICES ASSUME Init PROVE TypeInv
  OBVIOUS
<1>1. /\ NoRow \in JobRow /\ NoHistory \in HistoryRow /\ 0 \in Content /\ Idle \in Work
      /\ NoArchive \in Archive
  BY ConstantsTyped DEF NoRow, JobRow, JobStatus, NoHistory, HistoryRow, HistoryStatus, Content, Version
<1>2. PICK parts \in SourceParts :
          db = [jobs |-> [j \in Job |-> NoRow], history |-> [r \in Restore |-> NoHistory],
                parts |-> parts, data |-> 0]
  BY DEF Init
<1>3. db \in Database
  BY <1>1, <1>2, PartAssumption DEF Database
<1>4. TypeOK
  BY <1>1, <1>3 DEF Init, TypeOK
<1>5. \A w \in Worker : Sound(w, Idle)
  BY DEF Sound, Idle, Holding, Owning
<1>6. QED
  BY <1>4, <1>5 DEF Init, TypeInv

\* TypeOK is an invariant, with what each worker holds at each place.
THEOREM BackupTypes == Spec => []TypeInv
<1>1. TypeInv /\ [Next]_vars => TypeInv'
  BY BackupStep
<1>2. QED
  BY <1>1, BackupStarts, PTL DEF Spec

-----------------------------------------------------------------------------
(* The line of one restore request.                                        *)

\* A step of restore r: where it leads, and what it does to the row of the
\* history, to the uploads and to the disk.
Begins(r) ==
    /\ work[r].at = "idle" /\ work'[r].at = "emergency" /\ work'[r].job = work[r].job
    /\ work'[r].source \in Job /\ Success(work'[r].source)
    /\ db'.history[r] = [status |-> "RUNNING", emergency |-> NoJob]
    /\ UNCHANGED <<uploads, disk>>
Passes(r) ==
    /\ \/ work[r].at = "success" /\ ~JobExists(work[r].job) /\ work'[r].at = "failing"
       \/ work[r].at = "notify" /\ work'[r].at = "link" /\ work'[r].ok
       \/ work[r].at = "report" /\ work'[r].at = "link" /\ ~work'[r].ok
       \/ work[r].at = "emergency" /\ work'[r].at = "abort"
       \/ work[r].at = "failing" /\ ~JobExists(work[r].job) /\ work'[r].at = "abort"
       \/ work[r].at = "link" /\ ~HistoryExists(r) /\ work'[r].at = "abort"
       \/ work[r].at \in {"extract", "clear", "fill", "load"} /\ work'[r].at = "abort"
       \/ work[r].at = "finish" /\ ~HistoryExists(r) /\ work'[r].at = "abort"
       \/ work[r].at = "abort" /\ ~HistoryExists(r) /\ work'[r].at = "error"
    /\ Keeps(r) /\ UNCHANGED <<db, uploads, disk>>
Links(r) ==
    /\ work[r].at = "link" /\ HistoryExists(r)
    /\ work'[r].at = IF work[r].ok THEN "extract" ELSE "abort"
    /\ db'.history[r].status = db.history[r].status /\ db'.history[r].emergency = work[r].job
    /\ Keeps(r) /\ UNCHANGED <<uploads, disk>>
Fetches(r) ==
    /\ work[r].at = "extract" /\ work'[r].at \in {"clear", "load"}
    /\ Keeps(r) /\ UNCHANGED <<db, uploads, disk>>
Fills(r) ==
    /\ \/ work[r].at = "clear" /\ work'[r].at = "fill"
       \/ work[r].at = "fill" /\ work'[r].at \in {"load", "finish"}
    /\ Keeps(r) /\ UNCHANGED <<db, disk>>
Answers(r) ==
    /\ work[r].at \in {"finish", "abort"} /\ HistoryExists(r)
    /\ work'[r].at \in {"done", "failed"}
    /\ db'.history[r].status \in {"SUCCESS", "FAILED"}
    /\ db'.history[r].emergency = db.history[r].emergency
    /\ Keeps(r) /\ UNCHANGED <<uploads, disk>>

Line(r) ==
    \/ Begins(r) \/ Creates(r) \/ Dumps(r) \/ Copies(r) \/ Tars(r) \/ Spoils(r) \/ Marks(r)
    \/ Passes(r) \/ Links(r) \/ Fetches(r) \/ Fills(r) \/ Loads(r) \/ Answers(r)

\* A restore goes to a place.
LEMMA GotoLine ==
    ASSUME TypeInv, NEW r \in Restore, NEW at \in Place, Goto(r, at)
    PROVE  work'[r].at = at /\ Keeps(r)
<1>1. TypeOK /\ work[r] \in Work /\ r \in Worker
  BY DEF TypeInv, TypeOK, Worker
<1>2. work'[r] = [work[r] EXCEPT !.at = at]
  BY <1>1, GotoType
<1>3. QED
  BY <1>1, <1>2 DEF Work, Keeps

\* Every action of a restore is one of the steps of its line.
LEMMA RestoreLine ==
    ASSUME TypeInv, NEW r \in Restore, RestoreActs(r)
    PROVE  Line(r)
<1>1. r \in Worker /\ r \notin Activation /\ work[r] \in Work /\ Sound(r, work[r]) /\ TypeOK
  BY WorkerAssumption DEF Worker, TypeInv, TypeOK
<1>2. CASE Dump(r)
  BY <1>1, <1>2, DumpStep DEF Line
<1>3. CASE CopyUploads(r)
  BY <1>1, <1>3, CopyStep DEF Line
<1>4. CASE Tar(r)
  BY <1>1, <1>4, TarStep DEF Line
<1>5. CASE ToolFails(r)
  BY <1>1, <1>5, ToolFailsStep DEF Line
<1>6. ASSUME NEW at \in Place, Goto(r, at), UNCHANGED <<db, uploads, disk>>,
             \/ work[r].at = "success" /\ ~JobExists(work[r].job) /\ at = "failing"
             \/ work[r].at = "emergency" /\ at = "abort"
             \/ work[r].at = "link" /\ ~HistoryExists(r) /\ at = "abort"
             \/ work[r].at \in {"extract", "clear", "fill"} /\ at = "abort"
             \/ work[r].at = "finish" /\ ~HistoryExists(r) /\ at = "abort"
             \/ work[r].at = "abort" /\ ~HistoryExists(r) /\ at = "error"
      PROVE  Line(r)
  <2>1. work'[r].at = at /\ Keeps(r)
    BY <1>6, GotoLine
  <2>2. Passes(r)
    BY <1>6, <2>1 DEF Passes
  <2>3. QED
    BY <2>2 DEF Line
<1>7. CASE MarkSuccess(r)
  <2>1. CASE JobExists(work[r].job)
    <3>1. work[r].at = "success" /\ Goto(r, "notify")
      BY <1>7, <2>1 DEF MarkSuccess, At
    <3>2. work'[r].at = "notify"
      BY <3>1, GotoLine DEF Place
    <3>3. ~Goes(r)
      BY <3>2 DEF Goes, Owning
    <3>4. QED
      BY <1>1, <1>7, <3>3, MarkSuccessStep DEF Line
  <2>2. CASE ~JobExists(work[r].job)
    <3>1. Goto(r, "failing") /\ work[r].at = "success" /\ UNCHANGED <<db, uploads, disk>>
      BY <1>7, <2>2 DEF MarkSuccess, At
    <3>2. QED
      BY <1>6, <2>2, <3>1 DEF Place
  <2>3. QED
    BY <2>1, <2>2
<1>8. ASSUME NEW ok \in BOOLEAN, Return(r, ok), UNCHANGED <<db, uploads, disk>>,
             (work[r].at = "notify" /\ ok) \/ (work[r].at = "report" /\ ~ok)
      PROVE  Line(r)
  <2>1. work'[r] = [work[r] EXCEPT !.at = "link", !.ok = ok]
    BY <1>1, <1>8, ReturnType
  <2>2. work'[r].at = "link" /\ work'[r].ok = ok /\ Keeps(r)
    BY <1>1, <2>1 DEF Work, Keeps
  <2>3. Passes(r)
    BY <1>8, <2>2 DEF Passes
  <2>4. QED
    BY <2>3 DEF Line
<1>9. CASE Notify(r)
  BY <1>8, <1>9 DEF Notify, At
<1>10. CASE Report(r)
  BY <1>8, <1>10 DEF Report, At
<1>11. CASE MarkFailed(r)
  <2>1. CASE JobExists(work[r].job)
    <3>1. work[r].at = "failing" /\ Goto(r, "report")
      BY <1>11, <2>1 DEF MarkFailed, At
    <3>2. work'[r].at = "report"
      BY <3>1, GotoLine DEF Place
    <3>3. ~Goes(r)
      BY <3>2 DEF Goes, Owning
    <3>4. ~Dies
      <4>1. SUFFICES ASSUME Die PROVE FALSE
        BY DEF Dies
      <4>2. work'[r] = [work[r] EXCEPT !.at = "dead"]
        BY <1>1, <3>1, <4>1, DieType
      <4>3. QED
        BY <1>1, <3>2, <4>2 DEF Work
    <3>5. QED
      BY <1>1, <1>11, <3>3, <3>4, MarkFailedStep DEF Line
  <2>2. CASE ~JobExists(work[r].job)
    <3>1. Throw(r) /\ work[r].at = "failing" /\ UNCHANGED <<db, uploads, disk>>
      BY <1>11, <2>2 DEF MarkFailed, At
    <3>2. work'[r] = [work[r] EXCEPT !.at = "abort"]
      BY <1>1, <3>1, ThrowType
    <3>3. work'[r].at = "abort" /\ Keeps(r)
      BY <1>1, <3>2 DEF Work, Keeps
    <3>4. Passes(r)
      BY <2>2, <3>1, <3>3 DEF Passes
    <3>5. QED
      BY <3>4 DEF Line
  <2>3. QED
    BY <2>1, <2>2
<1>12. ASSUME NEW j \in Job, NEW parts \in RestoreParts, BeginRestore(r, j, parts)
       PROVE  Line(r)
  <2> DEFINE q == [work[r] EXCEPT !.at = "emergency", !.source = j, !.parts = parts]
             row == [status |-> "RUNNING", emergency |-> NoJob]
  <2>1. /\ work[r].at = "idle" /\ work' = [work EXCEPT ![r] = q] /\ Success(j)
        /\ db' = [db EXCEPT !.history[r] = row] /\ UNCHANGED <<uploads, disk>>
    BY <1>12 DEF BeginRestore, At
  <2>2. work'[r] = q /\ q.at = "emergency" /\ q.source = j /\ q.job = work[r].job
    BY <1>1, <2>1 DEF TypeOK, Work
  <2>3. db'.history[r] = row
    BY <1>1, <2>1 DEF TypeOK, Database
  <2>4. Begins(r)
    BY <2>1, <2>2, <2>3 DEF Begins
  <2>5. QED
    BY <2>4 DEF Line
<1>13. CASE StartEmergency(r)
  <2>1. CASE db.data # Lost
    <3>1. /\ CreateJob(r, Part) /\ work[r].at = "emergency"
          /\ UNCHANGED <<uploads, disk, autoBackupRunning, died>>
      BY <1>13, <2>1 DEF StartEmergency, At
    <3>2. r \notin Activation /\ autoBackupRunning' = autoBackupRunning
      BY <1>1, <3>1
    <3>3. Creates(r)
      BY <2>1, <3>1, <3>2, CreateMoves
    <3>4. QED
      BY <3>3 DEF Line
  <2>2. CASE db.data = Lost
    BY <1>6, <1>13, <2>2 DEF StartEmergency, At, Place
  <2>3. QED
    BY <2>1, <2>2
<1>14. CASE Link(r)
  <2>1. CASE HistoryExists(r)
    <3>1. /\ work[r].at = "link" /\ Goto(r, IF work[r].ok THEN "extract" ELSE "abort")
          /\ db' = [db EXCEPT !.history[r].emergency = work[r].job] /\ UNCHANGED <<uploads, disk>>
      BY <1>14, <2>1 DEF Link, At
    <3>2. work'[r].at = (IF work[r].ok THEN "extract" ELSE "abort") /\ Keeps(r)
      BY <3>1, GotoLine DEF Place
    <3>3. /\ db'.history[r].status = db.history[r].status
          /\ db'.history[r].emergency = work[r].job
      BY <1>1, <3>1 DEF TypeOK, Database, HistoryRow
    <3>4. Links(r)
      BY <2>1, <3>1, <3>2, <3>3 DEF Links
    <3>5. QED
      BY <3>4 DEF Line
  <2>2. CASE ~HistoryExists(r)
    BY <1>6, <1>14, <2>2 DEF Link, At, Place
  <2>3. QED
    BY <2>1, <2>2
<1>15. CASE Extract(r)
  <2> DEFINE archive == disk[work[r].source]
             at == IF archive.state # "complete" THEN "abort"
                   ELSE IF "uploads" \in work[r].parts THEN "clear" ELSE "load"
             q == [work[r] EXCEPT !.archive = archive, !.at = at]
  <2>1. /\ work[r].at = "extract" /\ work' = [work EXCEPT ![r] = q]
        /\ UNCHANGED <<db, uploads, disk>>
    BY <1>15 DEF Extract, At
  <2>2. at \in {"abort", "clear", "load"}
    OBVIOUS
  <2>3. /\ work'[r] = q /\ q.at = at /\ q.job = work[r].job /\ q.parts = work[r].parts
        /\ q.source = work[r].source /\ q.prune = work[r].prune
    BY <1>1, <2>1 DEF TypeOK, Work
  <2> HIDE DEF q, at
  <2>4. CASE at = "abort"
    <3>1. Passes(r)
      BY <2>1, <2>3, <2>4 DEF Passes, Keeps
    <3>2. QED
      BY <3>1 DEF Line
  <2>5. CASE at # "abort"
    <3>1. Fetches(r)
      BY <2>1, <2>2, <2>3, <2>5 DEF Fetches, Keeps
    <3>2. QED
      BY <3>1 DEF Line
  <2>6. QED
    BY <2>4, <2>5
<1>16. CASE Clear(r)
  <2>1. work[r].at = "clear" /\ UNCHANGED <<db, disk>>
    BY <1>16 DEF Clear, At
  <2>2. CASE work[r].archive.uploads # Lost
    <3>1. Goto(r, "fill")
      BY <1>16, <2>2 DEF Clear
    <3>2. Fills(r)
      BY <2>1, <3>1, GotoLine DEF Fills, Place
    <3>3. QED
      BY <3>2 DEF Line
  <2>3. CASE work[r].archive.uploads = Lost
    BY <1>6, <1>16, <2>1, <2>3 DEF Clear, Place
  <2>4. QED
    BY <2>2, <2>3
<1>17. CASE Fill(r)
  <2>1. work[r].at = "fill" /\ UNCHANGED <<db, disk>>
    BY <1>17 DEF Fill, At
  <2>2. PICK at \in {"load", "finish"} : Goto(r, at)
    BY <1>17 DEF Fill
  <2>3. Fills(r)
    BY <2>1, <2>2, GotoLine DEF Fills, Place
  <2>4. QED
    BY <2>3 DEF Line
<1>18. CASE Load(r)
  BY <1>18, LoadMoves DEF Line
<1>19. CASE RestoreToolFails(r)
  <2>1. CASE work[r].at = "load" /\ db' = NoDump
    BY <1>19, <2>1, LoadMoves DEF Line
  <2>2. CASE work[r].at # "load" \/ db' = db
    <3>1. /\ work[r].at \in {"extract", "fill", "load"}
          /\ work' = [work EXCEPT ![r] = [work[r] EXCEPT !.at = "abort", !.archive = NoArchive]]
          /\ UNCHANGED <<db, uploads, disk>>
      BY <1>19, <2>2 DEF RestoreToolFails, At
    <3>2. work'[r].at = "abort" /\ Keeps(r)
      BY <1>1, <3>1 DEF TypeOK, Work, Keeps
    <3>3. Passes(r)
      BY <3>1, <3>2 DEF Passes
    <3>4. QED
      BY <3>3 DEF Line
  <2>3. QED
    BY <1>19, <2>1, <2>2 DEF RestoreToolFails, At
<1>20. ASSUME NEW status \in {"SUCCESS", "FAILED"}, NEW at \in {"done", "failed"},
              NEW other \in {"abort", "error"},
              \/ work[r].at = "finish" /\ other = "abort"
              \/ work[r].at = "abort" /\ other = "error",
              IF HistoryExists(r)
              THEN /\ db' = [db EXCEPT !.history[r].status = status]
                   /\ Goto(r, at)
              ELSE Goto(r, other) /\ UNCHANGED db,
              UNCHANGED <<uploads, disk>>
       PROVE  Line(r)
  <2>1. CASE HistoryExists(r)
    <3>1. /\ work[r].at \in {"finish", "abort"} /\ Goto(r, at)
          /\ db' = [db EXCEPT !.history[r].status = status]
      BY <1>20, <2>1
    <3>2. work'[r].at = at /\ Keeps(r)
      BY <3>1, GotoLine DEF Place
    <3>3. /\ db'.history[r].status = status
          /\ db'.history[r].emergency = db.history[r].emergency
      BY <1>1, <3>1 DEF TypeOK, Database, HistoryRow
    <3>4. Answers(r)
      BY <1>20, <2>1, <3>1, <3>2, <3>3 DEF Answers
    <3>5. QED
      BY <3>4 DEF Line
  <2>2. CASE ~HistoryExists(r)
    BY <1>6, <1>20, <2>2 DEF Place
  <2>3. QED
    BY <2>1, <2>2
<1>21. CASE Finish(r)
  BY <1>20, <1>21 DEF Finish, At
<1>22. CASE Abort(r)
  BY <1>20, <1>22 DEF Abort, At
<1>23. CASE NotifyThrows(r) \/ ReportThrows(r)
  BY <1>23 DEF NotifyThrows, ReportThrows
<1>24. QED
  BY <1>2, <1>3, <1>4, <1>5, <1>7, <1>9, <1>10, <1>11, <1>12, <1>13, <1>14, <1>15, <1>16, <1>17,
     <1>18, <1>19, <1>21, <1>22, <1>23
  DEF RestoreActs, RestoreStep, Backup, BackupFaults

-----------------------------------------------------------------------------
(* A restore of the uploads is recorded.                                   *)

NoTables == \A r \in Restore : "database" \notin work[r].parts

\* What the tables hold for restore r, place by place, from its history row to
\* the link to the emergency backup.
Chronicle(r) ==
    /\ work[r].at \in Owning \cup {"emergency", "link", "extract", "clear", "fill", "load",
                                   "finish", "abort"} => HistoryExists(r)
    /\ work[r].at \in Owning \cup {"link"} => JobExists(work[r].job)
    /\ work[r].at \in {"extract", "clear", "fill", "load", "finish", "abort", "done", "failed"} =>
           (work[r].job # NoJob =>
                db.history[r].emergency = work[r].job /\ JobExists(work[r].job))
    /\ work[r].at \in {"done", "failed"} => db.history[r].status \in {"SUCCESS", "FAILED"}
    /\ work[r].at # "error"

ChronicleInv == NoTables => \A r \in Restore : Chronicle(r)

\* A step that another worker takes leaves what restore s has in the tables, as
\* long as it puts no dump in their place.
LEMMA StandsStill ==
    ASSUME TypeInv, NEW w \in Worker, Classes(w), ~Loads(w), ~Dies, NEW s \in Restore, s # w
    PROVE  work'[s] = work[s] /\ db'.history[s] = db.history[s]
<1>1. s \in Worker
  BY DEF Worker
<1>2. QED
  BY <1>1 DEF Classes, Dumps, Copies, Tars, Spoils, Marks, Unlinks, Retires, Creates, Goes, Others

\* No row goes away, as long as no dump is put in the place of the tables.
LEMMA RowsStay ==
    ASSUME TypeInv, Rests \/ Dies \/ \E w \in Worker : Classes(w) /\ ~Loads(w), NEW k \in Job,
           JobExists(k)
    PROVE  JobExists(k)'
<1>1. CASE Rests \/ Dies
  BY <1>1 DEF Rests, Dies, JobExists
<1>2. ASSUME NEW w \in Worker, Classes(w), ~Loads(w) PROVE JobExists(k)'
  <2>1. CASE Dies \/ Dumps(w) \/ Copies(w) \/ Tars(w) \/ Spoils(w) \/ Unlinks(w) \/ Goes(w)
    BY <2>1 DEF Dies, Dumps, Copies, Tars, Spoils, Unlinks, Goes, JobExists
  <2>2. CASE Marks(w)
    BY <2>2 DEF Marks, JobExists
  <2>3. CASE Retires(w)
    BY <2>3 DEF Retires, JobExists
  <2>4. CASE Creates(w)
    BY <2>4 DEF Creates, JobExists
  <2>5. QED
    BY <1>2, <2>1, <2>2, <2>3, <2>4 DEF Classes
<1>3. QED
  BY <1>1, <1>2

\* The parts a restore is asked for stay what they are.
LEMMA PartsStay ==
    ASSUME TypeInv, [Next]_vars, NEW s \in Restore, "database" \in work[s].parts
    PROVE  "database" \in work'[s].parts
<1>1. s \in Worker /\ work[s] \in Work /\ Sound(s, work[s]) /\ TypeOK /\ work[s].at # "idle"
      /\ s \notin Activation /\ s \notin Remover
  BY WorkerAssumption DEF Worker, TypeInv, TypeOK, Sound
<1>2. CASE Rests
  BY <1>2 DEF Rests
<1>3. CASE Dies
  <2>1. work'[s] = work[s] \/ work'[s] = [work[s] EXCEPT !.at = "dead"]
    BY <1>1, <1>3, DieType DEF Dies
  <2>2. QED
    BY <1>1, <2>1 DEF Work
<1>4. ASSUME NEW w \in Worker, Classes(w), ~Dies PROVE work'[s].parts = work[s].parts
  <2>1. CASE w # s
    BY <1>1, <1>4, <2>1
    DEF Classes, Dumps, Copies, Tars, Spoils, Marks, Unlinks, Retires, Loads, Creates, Goes, Others
  <2>2. CASE w = s
    BY <1>1, <1>4, <2>2
    DEF Classes, Dumps, Copies, Tars, Spoils, Marks, Unlinks, Retires, Loads, Creates, Goes, Keeps
  <2>3. QED
    BY <2>1, <2>2
<1>5. QED
  BY <1>2, <1>3, <1>4, BackupStep DEF Worker

\* Restores of the uploads keep what the tables hold for each of them.
LEMMA ChronicleStep ==
    ASSUME TypeInv, ChronicleInv, [Next]_vars
    PROVE  ChronicleInv'
<1> SUFFICES ASSUME NoTables', NEW s \in Restore PROVE Chronicle(s)'
  BY DEF ChronicleInv
<1>1. NoTables
  BY PartsStay DEF NoTables
<1>2. /\ Chronicle(s) /\ s \in Worker /\ work[s] \in Work /\ Sound(s, work[s]) /\ TypeOK
      /\ "database" \notin work[s].parts
  BY <1>1 DEF ChronicleInv, Worker, TypeInv, TypeOK, NoTables
<1>3. \A w \in Worker : ~Loads(w)
  BY <1>1 DEF Loads, TypeInv, Sound, NoTables
<1>4. Rests \/ Dies \/ (\E w \in Worker : Classes(w) /\ ~Loads(w))
  BY <1>3, BackupStep DEF Worker
<1>5. \A k \in Job : JobExists(k) => db'.jobs[k].status # "ABSENT"
  BY <1>4, RowsStay DEF JobExists
<1>6. work[s].job \in Job \cup {NoJob}
  BY <1>2, WorkFields
<1>7. ASSUME work'[s] = work[s], db'.history[s] = db.history[s] PROVE Chronicle(s)'
  BY <1>2, <1>5, <1>6, <1>7, ConstantsTyped DEF Chronicle, HistoryExists, JobExists, Sound, Holding
<1>8. CASE Rests
  BY <1>7, <1>8 DEF Rests
<1>9. CASE Dies
  <2>1. work'[s] = work[s] \/ work'[s] = [work[s] EXCEPT !.at = "dead"]
    BY <1>2, <1>9, DieType DEF Dies
  <2>2. work'[s] = work[s] \/ work'[s].at = "dead"
    BY <1>2, <2>1 DEF Work
  <2>3. db' = db
    BY <1>9 DEF Dies
  <2>4. CASE work'[s] = work[s]
    BY <1>7, <2>3, <2>4
  <2>5. CASE work'[s].at = "dead"
    BY <2>5 DEF Chronicle, Owning
  <2>6. QED
    BY <2>2, <2>4, <2>5
<1>10. ASSUME NEW w \in Worker, Classes(w), ~Dies, w # s PROVE Chronicle(s)'
  BY <1>3, <1>7, <1>10, StandsStill
<1>11. ASSUME RestoreActs(s) PROVE Chronicle(s)'
  <2>1. Line(s)
    BY <1>11, RestoreLine
  <2>2. CASE Begins(s)
    BY <1>2, <2>2 DEF Begins, Chronicle, Sound, Owning, HistoryExists
  <2>3. CASE Creates(s)
    <3>1. /\ work'[s].at = "dump" /\ JobExists(work[s].job)' /\ db'.history[s] = db.history[s]
      BY <2>3 DEF Creates, JobExists
    <3>2. work[s].at = "emergency"
      BY <2>3 DEF Creates
    <3>3. QED
      BY <1>2, <3>1, <3>2 DEF Chronicle, Owning, HistoryExists
  <2>4. CASE Dumps(s) \/ Copies(s) \/ Tars(s) \/ Spoils(s) \/ Marks(s)
    <3>1. /\ work[s].at \in Owning /\ work'[s].at \in Owning /\ work'[s].job = work[s].job
          /\ db'.history[s] = db.history[s]
      BY <2>4 DEF Dumps, Copies, Tars, Spoils, Marks, Keeps, Owning
    <3>2. work[s].job \in Job
      BY <1>2, <3>1 DEF Sound, Holding
    <3>3. HistoryExists(s) /\ JobExists(work[s].job)
      BY <1>2, <3>1 DEF Chronicle
    <3>4. HistoryExists(s)' /\ JobExists(work[s].job)'
      BY <1>5, <3>1, <3>2, <3>3 DEF HistoryExists, JobExists
    <3>5. QED
      BY <3>1, <3>4 DEF Chronicle, Owning
  <2>5. CASE Passes(s)
    BY <1>2, <2>5 DEF Passes, Keeps, Chronicle, Sound, Owning, HistoryExists, JobExists
  <2>6. CASE Links(s)
    <3>1. work[s].job \in Job /\ JobExists(work[s].job)
      BY <1>2, <2>6 DEF Links, Sound, Holding, Chronicle
    <3>2. JobExists(work[s].job)' /\ HistoryExists(s)'
      BY <1>5, <2>6, <3>1 DEF Links, Keeps, HistoryExists, JobExists
    <3>3. QED
      BY <2>6, <3>2 DEF Links, Keeps, Chronicle, Owning
  <2>7. CASE Fetches(s)
    BY <1>2, <2>7 DEF Fetches, Keeps, Chronicle, Owning, HistoryExists, JobExists
  <2>8. CASE Fills(s)
    BY <1>2, <2>8 DEF Fills, Keeps, Chronicle, Owning, HistoryExists, JobExists
  <2>9. CASE Answers(s)
    <3>1. /\ work[s].at \in {"finish", "abort"} /\ work'[s].at \in {"done", "failed"}
          /\ db'.history[s].emergency = db.history[s].emergency
          /\ db'.history[s].status \in {"SUCCESS", "FAILED"} /\ work'[s].job = work[s].job
      BY <2>9 DEF Answers, Keeps
    <3>2. work[s].job # NoJob =>
              /\ db'.history[s].emergency = work'[s].job
              /\ JobExists(work[s].job)'
      BY <1>2, <1>5, <1>6, <3>1 DEF Chronicle, JobExists
    <3>3. QED
      BY <3>1, <3>2 DEF Chronicle, Owning, HistoryExists
  <2>10. QED
    BY <1>3, <1>2, <2>1, <2>2, <2>3, <2>4, <2>5, <2>6, <2>7, <2>8, <2>9 DEF Line
<1>12. QED
  BY <1>8, <1>9, <1>10, <1>11, BackupStep DEF Worker

\* UploadsRestoreIsRecorded holds for any number of jobs, of restores and of
\* other workers, with every fault and crash: the row of the history outlives
\* what a restore does, because nothing but a dump put in the place of the
\* tables takes rows away.
THEOREM UploadsRestoreIsRecordedHolds == Spec => []UploadsRestoreIsRecorded
<1>1. Init => ChronicleInv
  BY DEF Init, ChronicleInv, Chronicle, Idle, Owning, Worker
<1>2. TypeInv /\ ChronicleInv /\ [Next]_vars => ChronicleInv'
  BY ChronicleStep
<1>3. ChronicleInv => UploadsRestoreIsRecorded
  BY DEF ChronicleInv, NoTables, Chronicle, UploadsRestoreIsRecorded, RestoreIsRecorded
<1>4. QED
  BY <1>1, <1>2, <1>3, BackupTypes, PTL DEF Spec

-----------------------------------------------------------------------------
(* The timer.                                                              *)

\* While the flag is clear no activation is past its settings, and there is
\* never more than one.
FlagInv ==
    /\ \A a, b \in Activation : work[a].at # "idle" /\ work[b].at # "idle" => a = b
    /\ ~autoBackupRunning => \A a \in Activation : work[a].at \in {"idle", "settings"}

\* Every step keeps the flag in line with the activation that runs.
LEMMA FlagStep ==
    ASSUME TypeInv, FlagInv, [Next]_vars, ~SlowDb
    PROVE  FlagInv'
<1>1. \A a \in Activation : a \in Worker /\ a \notin Restore
  BY WorkerAssumption DEF Worker
<1>2. CASE Rests
  BY <1>2 DEF Rests, FlagInv
<1>3. CASE Dies
  <2>1. \A a \in Activation : work'[a] = Idle
    BY <1>1, <1>3, DieType DEF Dies, TypeInv
  <2>2. Idle.at = "idle"
    BY DEF Idle
  <2>3. \A a \in Activation : work'[a].at = "idle"
    BY <2>1, <2>2
  <2>4. QED
    BY <2>3 DEF FlagInv
<1>4. ASSUME NEW w \in Worker, Classes(w), ~Dies PROVE FlagInv'
  <2>1. \A v \in Worker : v # w => work'[v] = work[v]
    BY <1>4
    DEF Classes, Dumps, Copies, Tars, Spoils, Marks, Unlinks, Retires, Loads, Creates, Goes, Others
  <2>2. CASE w \notin Activation
    <3>1. autoBackupRunning' = autoBackupRunning
      BY <1>4, <2>2
      DEF Classes, Dumps, Copies, Tars, Spoils, Marks, Unlinks, Retires, Loads, Creates, Goes, Turns
    <3>2. \A a \in Activation : work'[a] = work[a]
      BY <1>1, <2>1, <2>2
    <3>3. QED
      BY <3>1, <3>2 DEF FlagInv
  <2>3. ASSUME w \in Activation, TimerFires(w) PROVE FlagInv'
    <3>1. /\ ~autoBackupRunning /\ \A b \in Activation : work[b].at # "settings"
          /\ autoBackupRunning' = autoBackupRunning
          /\ Goto(w, "settings")
      BY <2>3 DEF TimerFires, At
    <3>2. \A b \in Activation : work[b].at = "idle"
      BY <3>1 DEF FlagInv
    <3>3. work'[w].at = "settings"
      <4>1. TypeOK /\ work[w] \in Work
        BY DEF TypeInv, TypeOK
      <4>2. work'[w] = [work[w] EXCEPT !.at = "settings"]
        BY <3>1, <4>1, GotoType DEF Place
      <4>3. QED
        BY <4>1, <4>2 DEF Work
    <3>4. \A b \in Activation : b # w => work'[b].at = "idle"
      BY <1>1, <2>1, <3>2
    <3>5. QED
      BY <3>1, <3>3, <3>4 DEF FlagInv
  <2>4. ASSUME w \in Activation, ~TimerFires(w) PROVE FlagInv'
    <3>1. /\ work[w].at # "idle"
          /\ \/ work'[w].at = "idle" /\ autoBackupRunning' \in {autoBackupRunning, FALSE}
             \/ work[w].at = "settings" /\ autoBackupRunning' = TRUE
             \/ work[w].at \notin {"idle", "settings"} /\ autoBackupRunning' = autoBackupRunning
      <4>1. w \notin Restore /\ w \notin Remover
        BY <2>4, WorkerAssumption
      <4>2. CASE Goes(w)
        BY <2>4, <4>2 DEF Goes, Turns
      <4>3. CASE Creates(w)
        BY <2>4, <4>3 DEF Creates
      <4>4. CASE Loads(w)
        BY <4>1, <4>4 DEF Loads
      <4>5. CASE Dumps(w) \/ Copies(w) \/ Tars(w) \/ Spoils(w) \/ Marks(w) \/ Unlinks(w) \/ Retires(w)
        BY <4>1, <4>5 DEF Dumps, Copies, Tars, Spoils, Marks, Unlinks, Retires
      <4>6. QED
        BY <1>4, <4>2, <4>3, <4>4, <4>5 DEF Classes
    <3>2. \A b \in Activation : b # w => work[b].at = "idle" /\ work'[b] = work[b]
      BY <1>1, <2>1, <2>4, <3>1 DEF FlagInv
    <3>3. ~autoBackupRunning => work[w].at \in {"idle", "settings"}
      BY <2>4 DEF FlagInv
    <3>4. ASSUME ~autoBackupRunning' PROVE work'[w].at \in {"idle", "settings"}
      <4>1. CASE work'[w].at = "idle"
        BY <4>1
      <4>2. CASE work[w].at = "settings" /\ autoBackupRunning' = TRUE
        BY <3>4, <4>2
      <4>3. CASE work[w].at \notin {"idle", "settings"} /\ autoBackupRunning' = autoBackupRunning
        BY <3>3, <3>4, <4>3, Zenon
      <4>4. QED
        BY <3>1, <4>1, <4>2, <4>3
    <3>5. QED
      BY <3>2, <3>4 DEF FlagInv
  <2>5. QED
    BY <2>2, <2>3, <2>4
<1>5. QED
  BY <1>2, <1>3, <1>4, BackupStep DEF Worker

\* OneAutoBackup holds however many activations of the timer are alive and
\* whatever fails or dies, as long as getSettings answers within the period: the
\* flag is set in the step that reads the settings.
THEOREM OneAutoBackupHolds ==
    ASSUME ~SlowDb
    PROVE  Spec => []OneAutoBackup
<1>1. Init => FlagInv
  BY DEF Init, FlagInv, Idle, Worker
<1>2. TypeInv /\ FlagInv /\ [Next]_vars => FlagInv'
  BY FlagStep
<1>3. FlagInv => OneAutoBackup
  <2> SUFFICES ASSUME FlagInv PROVE OneAutoBackup
    OBVIOUS
  <2> DEFINE busy == {a \in Activation : work[a].at \notin {"idle", "settings"}}
  <2>1. CASE busy = {}
    BY <2>1, FS_EmptySet DEF OneAutoBackup
  <2>2. ASSUME NEW a \in busy PROVE OneAutoBackup
    <3>1. busy = {a}
      BY <2>2 DEF FlagInv
    <3>2. Cardinality({a}) = 1
      BY FS_Singleton
    <3>3. QED
      BY <3>1, <3>2 DEF OneAutoBackup
  <2>3. QED
    BY <2>1, <2>2
<1>4. QED
  BY <1>1, <1>2, <1>3, BackupTypes, PTL DEF Spec

-----------------------------------------------------------------------------
(* Jobs and the dumps that hold rows of them.                              *)

\* Every dump there is, and the database itself.
Snapshots == {db} \cup {disk[j].dump : j \in Job} \cup {work[w].archive.dump : w \in Worker}

\* In the rows of a snapshot, a job whose archive is being made is not finished,
\* and is to hold the parts its worker puts into it.
RowsOK(rows) ==
    \A k \in Job : rows[k].status # "ABSENT" =>
        /\ k \in used
        /\ \A w \in Worker : Makes(w) /\ work[w].job = k =>
               rows[k].status # "SUCCESS" /\ rows[k].parts = Wanted(w)

JobInv ==
    /\ \A w \in Worker : Owns(w) => work[w].job \in used
    /\ \A v, w \in Worker : Owns(v) /\ Owns(w) /\ work[v].job = work[w].job => v = w
    /\ \A x \in Snapshots : RowsOK(x.jobs)

\* A step of one worker is a step of that worker alone.
LEMMA OneMoves ==
    ASSUME TypeInv, NEW w \in Worker, Classes(w), ~Dies
    PROVE  Others(w)
BY DEF Classes, Dumps, Copies, Tars, Spoils, Marks, Unlinks, Retires, Loads, Creates, Goes

\* After the process has died no backup is run.
LEMMA NobodyOwns ==
    ASSUME TypeInv, Dies, NEW w \in Worker
    PROVE  /\ work'[w].at \notin Holding \cup {"prune"}
           /\ work'[w].archive.dump \in {work[w].archive.dump, NoDump}
           /\ work'[w].prune \subseteq work[w].prune
           /\ w \in Restore /\ work[w].at \in Spent => work'[w].at \in Spent
           /\ work'[w].at # "emergency"
<1>1. TypeOK /\ work[w] \in Work
  BY DEF TypeInv, TypeOK
<1>2. \/ work'[w] = Idle
      \/ work'[w] = work[w] /\ work[w].at \in {"idle", "done", "failed", "error"}
      \/ work'[w] = [work[w] EXCEPT !.at = "dead"]
  BY <1>1, DieType DEF Dies
<1>3. CASE work'[w] = Idle
  BY <1>3 DEF Idle, NoArchive, Holding, Owning, Spent
<1>4. CASE work'[w] = work[w] /\ work[w].at \in {"idle", "done", "failed", "error"}
  BY <1>4 DEF Holding, Owning
<1>5. CASE work'[w] = [work[w] EXCEPT !.at = "dead"]
  BY <1>1, <1>5 DEF Work, Holding, Owning, Spent
<1>6. QED
  BY <1>2, <1>3, <1>4, <1>5

\* A worker that runs a backup has begun it in this step or has run it before,
\* with the same job and the same parts.
LEMMA OwnerGoesOn ==
    ASSUME TypeInv, [Next]_vars, NEW w \in Worker, Owns(w)'
    PROVE  \/ Creates(w)
           \/ /\ Owns(w) /\ work'[w].job = work[w].job
              /\ Makes(w)' => Makes(w) /\ Wanted(w)' = Wanted(w)
<1>1. CASE Rests
  BY <1>1 DEF Rests, Owns, Makes, Wanted
<1>2. CASE Dies
  BY <1>2, NobodyOwns DEF Owns, Holding
<1>3. ASSUME NEW v \in Worker, Classes(v), ~Dies
      PROVE  \/ Creates(w)
             \/ /\ Owns(w) /\ work'[w].job = work[w].job
                /\ Makes(w)' => Makes(w) /\ Wanted(w)' = Wanted(w)
  <2>1. CASE v # w
    <3>1. work'[w] = work[w]
      BY <1>3, <2>1, OneMoves DEF Others
    <3>2. QED
      BY <3>1 DEF Owns, Makes, Wanted
  <2>2. CASE v = w
    <3>1. CASE Dumps(w) \/ Copies(w) \/ Tars(w) \/ Spoils(w) \/ Marks(w)
      BY <3>1 DEF Dumps, Copies, Tars, Spoils, Marks, Keeps, Owns, Owning, Makes, Making, Wanted
    <3>2. CASE Unlinks(w) \/ Retires(w) \/ Loads(w)
      BY <3>2 DEF Unlinks, Retires, Loads, Owns, Owning
    <3>3. CASE Goes(w)
      BY <3>3 DEF Goes, Owns, Makes, Making, Owning
    <3>4. QED
      BY <1>3, <2>2, <3>1, <3>2, <3>3 DEF Classes
  <2>3. QED
    BY <2>1, <2>2
<1>4. QED
  BY <1>1, <1>2, <1>3, BackupStep DEF Worker

\* Ids only get used up.
LEMMA UsedGrows ==
    ASSUME TypeInv, [Next]_vars
    PROVE  used \subseteq used'
BY ZenonT(60), BackupStep DEF Rests, Dies, Classes, Dumps, Copies, Tars, Spoils, Marks, Unlinks, Retires, Loads,
   Creates, Goes

\* No dump is new but the ones taken of the database.
LEMMA SnapshotsStep ==
    ASSUME TypeInv, [Next]_vars, NEW x \in Snapshots'
    PROVE  x \in Snapshots \cup {NoDump, db'}
<1>1. \/ x = db'
      \/ \E j \in Job : x = disk'[j].dump
      \/ \E w \in Worker : x = work'[w].archive.dump
  BY DEF Snapshots
<1>2. \A j \in Job : disk[j].dump \in Snapshots
  BY DEF Snapshots
<1>3. \A w \in Worker : work[w].archive.dump \in Snapshots
  BY DEF Snapshots
<1>4. db \in Snapshots
  BY DEF Snapshots
<1>5. NoArchive.dump = NoDump
  BY DEF NoArchive
<1>6. CASE Rests
  BY <1>1, <1>2, <1>3, <1>6 DEF Rests
<1>7. CASE Dies
  BY <1>1, <1>2, <1>3, <1>7, NobodyOwns DEF Dies
<1>8. ASSUME NEW w \in Worker, Classes(w), ~Dies PROVE x \in Snapshots \cup {NoDump, db'}
  <2>1. \A v \in Worker : v # w => work'[v] = work[v]
    BY <1>8, OneMoves DEF Others
  <2>2. ASSUME disk' = disk, work'[w].archive.dump \in Snapshots \cup {NoDump}
        PROVE  x \in Snapshots \cup {NoDump, db'}
    BY <1>1, <1>2, <1>3, <2>1, <2>2
  <2>3. CASE Dumps(w)
    BY <1>4, <2>2, <2>3 DEF Dumps
  <2>4. CASE Copies(w)
    BY <1>3, <2>2, <2>4 DEF Copies
  <2>5. CASE Marks(w)
    BY <1>3, <2>2, <2>5 DEF Marks
  <2>6. CASE Retires(w)
    BY <1>3, <2>2, <2>6 DEF Retires
  <2>7. CASE Loads(w)
    BY <1>3, <1>5, <2>2, <2>7 DEF Loads
  <2>8. CASE Creates(w)
    BY <1>5, <2>2, <2>8 DEF Creates
  <2>9. CASE Goes(w)
    BY <1>2, <1>3, <2>2, <2>9 DEF Goes
  <2>10. ASSUME NEW k \in Job, \A j \in Job : j # k => disk'[j] = disk[j],
                disk'[k].dump \in Snapshots \cup {NoDump},
                work'[w].archive.dump \in Snapshots \cup {NoDump}
         PROVE  x \in Snapshots \cup {NoDump, db'}
    BY <1>1, <1>2, <1>3, <2>1, <2>10
  <2>11. TypeOK /\ Sound(w, work[w]) /\ work[w] \in Work /\ disk \in [Job -> Archive]
    BY DEF TypeInv, TypeOK
  <2>12. CASE Tars(w)
    <3>1. work[w].job \in Job
      BY <2>11, <2>12 DEF Tars, Sound, Holding, Owning
    <3>2. disk'[work[w].job].dump = work[w].archive.dump
      BY <2>11, <2>12 DEF Tars, Work, Archive
    <3>3. QED
      BY <1>3, <1>5, <2>10, <2>12, <3>1, <3>2 DEF Tars
  <2>13. CASE Spoils(w)
    <3>1. work[w].job \in Job
      BY <2>11, <2>13 DEF Spoils, Sound, Holding, Owning
    <3>2. disk'[work[w].job].dump = disk[work[w].job].dump
      BY <2>11, <2>13, <3>1 DEF Spoils, Archive
    <3>3. QED
      BY <1>2, <1>5, <2>10, <2>13, <3>1, <3>2 DEF Spoils
  <2>14. CASE Unlinks(w)
    BY <1>3, <1>5, <2>10, <2>14 DEF Unlinks
  <2>15. QED
    BY <1>8, <2>3, <2>4, <2>5, <2>6, <2>7, <2>8, <2>9, <2>12, <2>13, <2>14 DEF Classes
<1>9. QED
  BY <1>6, <1>7, <1>8, BackupStep DEF Worker

\* Every step keeps jobs apart and the snapshots behind their makers.
LEMMA JobStep ==
    ASSUME TypeInv, JobInv, [Next]_vars
    PROVE  JobInv'
<1>1. used \subseteq used'
  BY UsedGrows
<1>2. \A w \in Worker : Creates(w) => \E j \in Job \ used : work'[w].job = j /\ used' = used \cup {j}
  BY DEF Creates
<1>3. ASSUME NEW w \in Worker, Owns(w)' PROVE work'[w].job \in used'
  BY <1>1, <1>2, <1>3, OwnerGoesOn DEF JobInv
<1>4. ASSUME NEW v \in Worker, NEW w \in Worker, Owns(v)', Owns(w)', work'[v].job = work'[w].job
      PROVE  v = w
  <2>1. CASE Creates(v)
    <3>1. work'[v].job \notin used /\ Others(v)
      BY <1>2, <2>1 DEF Creates
    <3>2. CASE w # v
      <4>1. work'[w] = work[w]
        BY <3>1, <3>2 DEF Others
      <4>2. Owns(w) /\ work[w].job \in used
        BY <1>4, <4>1 DEF Owns, JobInv
      <4>3. QED
        BY <1>4, <3>1, <4>1, <4>2
    <3>3. QED
      BY <3>2
  <2>2. CASE Creates(w)
    <3>1. work'[w].job \notin used /\ Others(w)
      BY <1>2, <2>2 DEF Creates
    <3>2. CASE w # v
      <4>1. work'[v] = work[v]
        BY <3>1, <3>2 DEF Others
      <4>2. Owns(v) /\ work[v].job \in used
        BY <1>4, <4>1 DEF Owns, JobInv
      <4>3. QED
        BY <1>4, <3>1, <4>1, <4>2
    <3>3. QED
      BY <3>2
  <2>3. CASE ~Creates(v) /\ ~Creates(w)
    BY <1>4, <2>3, OwnerGoesOn DEF JobInv
  <2>4. QED
    BY <2>1, <2>2, <2>3
<1>5. \A w \in Worker : Makes(w)' => Owns(w)'
  BY DEF Makes, Making, Owns, Owning
<1>6. ASSUME NEW rows, RowsOK(rows) PROVE RowsOK(rows)'
  <2> SUFFICES ASSUME NEW k \in Job, rows[k].status # "ABSENT", NEW w \in Worker, Makes(w)',
                      work'[w].job = k
               PROVE  rows[k].status # "SUCCESS" /\ rows[k].parts = Wanted(w)'
    BY <1>1, <1>6 DEF RowsOK
  <2>1. k \in used
    BY <1>6 DEF RowsOK
  <2>2. ~Creates(w)
    BY <1>2, <2>1
  <2>3. Makes(w) /\ work[w].job = k /\ Wanted(w)' = Wanted(w)
    BY <1>5, <2>2, OwnerGoesOn
  <2>4. QED
    BY <1>6, <2>3 DEF RowsOK
<1>7. RowsOK(NoDump.jobs)
  BY DEF RowsOK, NoDump, NoRow
<1>8. RowsOK(db.jobs) /\ \A w \in Worker : RowsOK(work[w].archive.dump.jobs)
  BY DEF JobInv, Snapshots
<1>9. \A k \in Job : \A w \in Worker : Makes(w)' /\ work'[w].job = k =>
          (~Creates(w) => Makes(w) /\ Owns(w) /\ work[w].job = k /\ Wanted(w)' = Wanted(w))
  BY <1>5, OwnerGoesOn
<1>10. ASSUME NEW rows, rows = db'.jobs PROVE RowsOK(rows)'
  <2>1. CASE db'.jobs = db.jobs
    BY <1>6, <1>8, <1>10, <2>1
  <2>2. ASSUME NEW w \in Worker, Loads(w) PROVE RowsOK(rows)'
    <3>1. rows = work[w].archive.dump.jobs \/ rows = NoDump.jobs
      BY <1>10, <2>2 DEF Loads
    <3>2. RowsOK(rows)
      BY <1>7, <1>8, <3>1
    <3>3. QED
      BY <1>6, <3>2
  <2>3. ASSUME NEW w \in Worker, Creates(w) PROVE RowsOK(rows)'
    <3>1. PICK j \in Job \ used :
              /\ used' = used \cup {j}
              /\ work'[w].job = j
              /\ db'.jobs[j] = [status |-> "RUNNING", filed |-> FALSE, parts |-> Wanted(w)']
              /\ \A k \in Job : k # j => db'.jobs[k] = db.jobs[k]
      BY <2>3 DEF Creates
    <3>2. SUFFICES ASSUME NEW k \in Job, rows[k].status # "ABSENT"
                   PROVE  /\ k \in used'
                          /\ \A v \in Worker : Makes(v)' /\ work'[v].job = k =>
                                 rows[k].status # "SUCCESS" /\ rows[k].parts = Wanted(v)'
      BY DEF RowsOK
    <3>3. CASE k # j
      <4>1. rows[k] = db.jobs[k] /\ RowsOK(db.jobs)
        BY <1>8, <1>10, <3>1, <3>3
      <4>2. k \in used
        BY <3>2, <4>1 DEF RowsOK
      <4>3. ASSUME NEW v \in Worker, Makes(v)', work'[v].job = k
            PROVE  rows[k].status # "SUCCESS" /\ rows[k].parts = Wanted(v)'
        <5>1. ~Creates(v)
          BY <1>2, <4>2, <4>3
        <5>2. Makes(v) /\ work[v].job = k /\ Wanted(v)' = Wanted(v)
          BY <1>9, <4>3, <5>1
        <5>3. QED
          BY <3>2, <4>1, <5>2 DEF RowsOK
      <4>4. QED
        BY <1>1, <4>2, <4>3
    <3>4. CASE k = j
      <4>1. rows[k].status = "RUNNING" /\ rows[k].parts = Wanted(w)'
        BY <1>10, <3>1, <3>4
      <4>2. ASSUME NEW v \in Worker, Makes(v)', work'[v].job = k PROVE v = w
        BY <1>4, <1>5, <2>3, <3>1, <3>4, <4>2 DEF Creates, Owns, Owning
      <4>3. QED
        BY <3>1, <3>4, <4>1, <4>2
    <3>5. QED
      BY <3>3, <3>4
  <2>4. ASSUME NEW w \in Worker, NEW j \in Job, ~Creates(w), Others(w), used' = used,
               \A k \in Job : k # j => db'.jobs[k] = db.jobs[k],
               db.jobs[j].status # "ABSENT", rows[j].parts = db.jobs[j].parts,
               \/ rows[j].status = "DELETED"
               \/ Owns(w) /\ work[w].job = j /\ ~Makes(w)'
        PROVE  RowsOK(rows)'
    <3>1. SUFFICES ASSUME NEW k \in Job, rows[k].status # "ABSENT"
                   PROVE  /\ k \in used'
                          /\ \A v \in Worker : Makes(v)' /\ work'[v].job = k =>
                                 rows[k].status # "SUCCESS" /\ rows[k].parts = Wanted(v)'
      BY DEF RowsOK
    <3>2. db.jobs[k].status # "ABSENT" /\ rows[k].parts = db.jobs[k].parts
      BY <1>10, <2>4, <3>1
    <3>3. k \in used'
      BY <1>8, <2>4, <3>2 DEF RowsOK
    <3>4. ASSUME NEW v \in Worker, Makes(v)', work'[v].job = k
          PROVE  rows[k].status # "SUCCESS" /\ rows[k].parts = Wanted(v)'
      <4>1. k \in used
        BY <2>4, <3>3
      <4>2. ~Creates(v)
        BY <1>2, <3>4, <4>1
      <4>3. Makes(v) /\ Owns(v) /\ work[v].job = k /\ Wanted(v)' = Wanted(v)
        BY <1>9, <3>4, <4>2
      <4>4. db.jobs[k].status # "SUCCESS" /\ db.jobs[k].parts = Wanted(v)
        BY <1>8, <3>2, <4>3 DEF RowsOK
      <4>5. k = j => rows[k].status = "DELETED"
        <5>1. ASSUME k = j, Owns(w), work[w].job = j, ~Makes(w)' PROVE FALSE
          <6>1. v = w
            BY <4>3, <5>1 DEF JobInv
          <6>2. QED
            BY <3>4, <5>1, <6>1
        <5>2. QED
          BY <2>4, <5>1
      <4>6. QED
        BY <1>10, <2>4, <3>2, <4>3, <4>4, <4>5
    <3>5. QED
      BY <3>3, <3>4
  <2>5. ASSUME NEW w \in Worker, Marks(w) PROVE RowsOK(rows)'
    <3> DEFINE j == work[w].job
    <3>1. j \in Job
      BY <2>5 DEF Marks, TypeInv, Sound, Holding, Owning
    <3>2. /\ Owns(w) /\ ~Makes(w)' /\ ~Creates(w) /\ Others(w) /\ used' = used
          /\ db.jobs[j].status # "ABSENT" /\ db'.jobs[j].parts = db.jobs[j].parts
          /\ \A k \in Job : k # j => db'.jobs[k] = db.jobs[k]
      BY <2>5 DEF Marks, Creates, Owns, Owning, Makes, Making, JobExists
    <3> HIDE DEF j
    <3>3. QED
      BY <1>10, <2>4, <3>1, <3>2 DEF j
  <2>6. ASSUME NEW w \in Worker, Retires(w) PROVE RowsOK(rows)'
    <3> DEFINE j == work[w].job
    <3>1. j \in Job
      BY <2>6 DEF Retires, TypeInv, Sound, Holding
    <3>2. CASE ~JobExists(j)
      <4>1. \A k \in Job : db'.jobs[k] = db.jobs[k]
        BY <2>6, <3>2 DEF Retires
      <4>2. RowsOK(rows)
        BY <1>8, <1>10, <4>1 DEF RowsOK
      <4>3. QED
        BY <1>6, <4>2
    <3>3. CASE JobExists(j)
      <4>1. /\ ~Creates(w) /\ Others(w) /\ used' = used
            /\ db.jobs[j].status # "ABSENT" /\ db'.jobs[j].parts = db.jobs[j].parts
            /\ db'.jobs[j].status = "DELETED"
            /\ \A k \in Job : k # j => db'.jobs[k] = db.jobs[k]
        BY <2>6, <3>1, <3>3 DEF Retires, Creates, JobExists
      <4> HIDE DEF j
      <4>2. QED
        BY <1>10, <2>4, <3>1, <4>1
    <3>4. QED
      BY <3>2, <3>3
  <2>7. Rests \/ Dies => db'.jobs = db.jobs
    BY DEF Rests, Dies
  <2>8. \A w \in Worker : Dumps(w) \/ Copies(w) \/ Tars(w) \/ Spoils(w) \/ Unlinks(w) \/ Goes(w) =>
            db'.jobs = db.jobs
    BY DEF Dumps, Copies, Tars, Spoils, Unlinks, Goes
  <2>9. QED
    BY <2>1, <2>2, <2>3, <2>5, <2>6, <2>7, <2>8, BackupStep DEF Classes, Worker
<1>11. ASSUME NEW x \in Snapshots' PROVE RowsOK(x.jobs)'
  <2>1. CASE x = db'
    BY <1>10, <2>1
  <2>2. CASE x \in Snapshots \cup {NoDump}
    <3>1. RowsOK(x.jobs)
      BY <1>7, <2>2 DEF JobInv
    <3>2. QED
      BY <1>6, <3>1
  <2>3. QED
    BY <2>1, <2>2, SnapshotsStep
<1>12. QED
  BY <1>3, <1>4, <1>11 DEF JobInv

\* No two backups share a job or an archive, and no dump that is ever put back
\* calls a job finished whose archive is still being made.
THEOREM BackupJobs == Spec => []JobInv
<1>1. Init => JobInv
  <2> SUFFICES ASSUME Init PROVE JobInv
    OBVIOUS
  <2>1. \A w \in Worker : ~Owns(w) /\ ~Makes(w)
    BY DEF Init, Idle, Owns, Owning, Makes, Making
  <2>2. \A x \in Snapshots : \A k \in Job : x.jobs[k].status = "ABSENT"
    BY DEF Init, Snapshots, NoArchive, NoDump, Idle, NoRow
  <2>3. QED
    BY <2>1, <2>2 DEF JobInv, RowsOK
<1>2. TypeInv /\ JobInv /\ [Next]_vars => JobInv'
  BY JobStep
<1>3. QED
  BY <1>1, <1>2, BackupTypes, PTL DEF Spec

-----------------------------------------------------------------------------
(* What can be downloaded is complete.                                     *)

\* The archive of job k is gone, or it is complete and holds the dump it was
\* asked for.
Sealed(k, parts) ==
    /\ disk[k].state \in {"none", "complete"}
    /\ disk[k].state = "complete" /\ "database" \in parts => disk[k].dump # NoDump

\* No snapshot calls a job finished whose archive is not sealed.  A worker may
\* make an archive without its dump only when the tables have been lost; then
\* its job has no row, and nothing puts the tables back any more.
SealedInv ==
    /\ \A x \in Snapshots : \A k \in Job :
           x.jobs[k].status = "SUCCESS" => Sealed(k, x.jobs[k].parts)
    /\ db.data = Lost => \A r \in Restore : work[r].at \in Spent
    /\ db # NoDump => \A w \in Worker :
           /\ work[w].at \in {"copy", "tar"} /\ "database" \in Wanted(w) =>
                  work[w].archive.dump # NoDump
           /\ work[w].at = "success" => Sealed(work[w].job, Wanted(w))

\* A database that is lost stays lost, unless a restore gets to it.
LEMMA NothingStays ==
    ASSUME TypeInv, [Next]_vars, db.data = Lost, \A r \in Restore : work[r].at \in Spent
    PROVE  /\ db = NoDump => db' = NoDump
           /\ \A r \in Restore : work'[r].at \in Spent
<1>1. \A r \in Restore : r \in Worker /\ r \notin Activation /\ r \notin Remover
  BY WorkerAssumption DEF Worker
<1>2. db = NoDump => \A j \in Job : ~JobExists(j)
  BY NothingThere
<1>3. CASE Rests
  BY <1>3 DEF Rests
<1>4. CASE Dies
  BY <1>1, <1>4, NobodyOwns DEF Dies
<1>5. ASSUME NEW w \in Worker, Classes(w), ~Dies
      PROVE  /\ db = NoDump => db' = NoDump
             /\ \A r \in Restore : work'[r].at \in Spent
  <2>1. ASSUME NEW r \in Restore, r # w PROVE work'[r].at \in Spent
    BY <1>1, <1>5, <2>1, OneMoves DEF Others
  <2>2. ~Loads(w) /\ ~Creates(w)
    BY DEF Loads, Creates, Spent
  <2>3. ASSUME w \in Restore PROVE work'[w].at \in Spent
    <3>1. work[w].at \in Spent
      BY <2>3
    <3>2. ~(Dumps(w) \/ Copies(w) \/ Tars(w) \/ Spoils(w) \/ Marks(w) \/ Unlinks(w) \/ Retires(w))
      BY <1>1, <2>3, <3>1 DEF Dumps, Copies, Tars, Spoils, Marks, Unlinks, Retires, Spent
    <3>3. Goes(w)
      BY <1>5, <2>2, <3>2 DEF Classes
    <3>4. QED
      BY <2>3, <3>1, <3>3 DEF Goes
  <2>4. ASSUME db = NoDump PROVE db' = NoDump
    <3>1. ~Marks(w)
      BY <1>2, <2>4 DEF Marks, TypeInv, Sound, Holding, Owning
    <3>2. QED
      BY <1>5, <2>2, <2>4, <3>1 DEF Classes, Dumps, Copies, Tars, Spoils, Unlinks, Retires, Goes
  <2>5. QED
    BY <2>1, <2>3, <2>4
<1>6. QED
  BY <1>3, <1>4, <1>5, BackupStep DEF Worker

\* An archive changes where its own backup is at work, or where it is removed.
LEMMA DiskStep ==
    ASSUME TypeInv, [Next]_vars, NEW k \in Job, disk'[k] # disk[k]
    PROVE  \E w \in Worker :
               \/ (Tars(w) \/ Spoils(w)) /\ Makes(w) /\ work[w].job = k
               \/ Unlinks(w) /\ work'[w].job = k /\ disk'[k] = NoArchive
<1>1. ~Rests /\ ~Dies
  BY DEF Rests, Dies
<1>2. PICK w \in Worker : Classes(w)
  BY <1>1, BackupStep DEF Worker
<1>3. CASE Tars(w) \/ Spoils(w)
  BY <1>3 DEF Tars, Spoils, Makes, Making
<1>4. CASE Unlinks(w)
  BY <1>4 DEF Unlinks
<1>5. QED
  BY <1>1, <1>2, <1>3, <1>4 DEF Classes, Dumps, Copies, Marks, Retires, Loads, Creates, Goes

\* A row that has just become SUCCESS was marked by its worker or restored.
LEMMA SuccessStep ==
    ASSUME TypeInv, [Next]_vars, NEW k \in Job, db'.jobs[k].status = "SUCCESS"
    PROVE  \/ db'.jobs[k] = db.jobs[k]
           \/ \E w \in Worker : Loads(w)
           \/ \E w \in Worker : /\ Marks(w) /\ work[w].at = "success" /\ work[w].job = k
                                /\ db'.jobs[k].parts = db.jobs[k].parts /\ JobExists(k)
                                /\ db'.jobs[k].filed
<1>1. CASE Rests \/ Dies
  BY <1>1 DEF Rests, Dies
<1>2. ASSUME NEW w \in Worker, Classes(w), ~Loads(w)
      PROVE  \/ db'.jobs[k] = db.jobs[k]
             \/ /\ Marks(w) /\ work[w].at = "success" /\ work[w].job = k
                /\ db'.jobs[k].parts = db.jobs[k].parts /\ JobExists(k)
                /\ db'.jobs[k].filed
  <2>1. CASE Marks(w)
    BY <2>1 DEF Marks
  <2>2. CASE Retires(w)
    BY <2>2 DEF Retires
  <2>3. CASE Creates(w)
    BY <2>3 DEF Creates
  <2>4. CASE Dies \/ Dumps(w) \/ Copies(w) \/ Tars(w) \/ Spoils(w) \/ Unlinks(w) \/ Goes(w)
    BY <2>4 DEF Dies, Dumps, Copies, Tars, Spoils, Unlinks, Goes
  <2>5. QED
    BY <1>2, <2>1, <2>2, <2>3, <2>4 DEF Classes
<1>3. QED
  BY <1>1, <1>2, BackupStep DEF Worker

\* A worker comes to its archive's copy, tar or end from the step before.
LEMMA MakerStep ==
    ASSUME TypeInv, [Next]_vars, NEW w \in Worker
    PROVE  /\ work'[w].at \in {"copy", "tar"} =>
                  work'[w] = work[w] \/ Dumps(w) \/ Copies(w)
           /\ work'[w].at = "success" => work'[w] = work[w] \/ Tars(w)
<1>1. CASE Rests
  BY <1>1 DEF Rests
<1>2. CASE Dies
  BY <1>2, NobodyOwns DEF Holding, Owning
<1>3. ASSUME NEW v \in Worker, Classes(v), ~Dies, v # w PROVE work'[w] = work[w]
  BY <1>3, OneMoves DEF Others
<1>4. ASSUME Classes(w), ~Dies, work'[w].at \in {"copy", "tar", "success"}
      PROVE  Dumps(w) \/ Copies(w) \/ Tars(w)
  BY <1>4 DEF Classes, Spoils, Marks, Unlinks, Retires, Loads, Creates, Goes, Making
<1>5. ASSUME Classes(w), ~Dies
      PROVE  /\ work'[w].at \in {"copy", "tar"} => Dumps(w) \/ Copies(w)
             /\ work'[w].at = "success" => Tars(w)
  BY <1>4, <1>5 DEF Dumps, Copies, Tars
<1>6. QED
  BY <1>1, <1>2, <1>3, <1>5, BackupStep DEF Worker

\* Every step keeps finished jobs sealed, in the tables and in every dump.
LEMMA SealedStep ==
    ASSUME TypeInv, JobInv, SealedInv, [Next]_vars, \A r, s \in Restore : r = s
    PROVE  SealedInv'
<1>1. TypeInv'
  BY BackupStep
<1>2. TypeOK /\ disk \in [Job -> Archive] /\ work \in [Worker -> Work]
  BY DEF TypeInv, TypeOK
<1>3. db.data = Lost => \A r \in Restore : work[r].at \in Spent
  BY DEF SealedInv
<1>4. db' # NoDump => db # NoDump
  BY <1>3, NothingStays, NothingThere
<1>5. ASSUME NEW k \in Job, NEW parts, Sealed(k, parts), \A w \in Worker : ~(Makes(w) /\ work[w].job = k)
      PROVE  Sealed(k, parts)'
  <2>1. CASE disk'[k] = disk[k]
    BY <1>5, <2>1 DEF Sealed
  <2>2. CASE disk'[k] = NoArchive
    BY <2>2 DEF Sealed, NoArchive
  <2>3. QED
    BY <1>5, <2>1, <2>2, DiskStep
<1>6. ASSUME NEW rows, RowsOK(rows), NEW k \in Job, rows[k].status = "SUCCESS", Sealed(k, rows[k].parts)
      PROVE  Sealed(k, rows[k].parts)'
  BY <1>5, <1>6 DEF RowsOK
<1>7. ASSUME NEW x \in Snapshots \cup {NoDump}, NEW k \in Job, x.jobs[k].status = "SUCCESS"
      PROVE  Sealed(k, x.jobs[k].parts)'
  <2>1. x \in Snapshots
    BY <1>7 DEF NoDump, NoRow
  <2>2. RowsOK(x.jobs) /\ Sealed(k, x.jobs[k].parts)
    BY <1>7, <2>1 DEF JobInv, SealedInv
  <2>3. QED
    BY <1>6, <1>7, <2>2
<1>8. ASSUME NEW k \in Job, NEW row, row = db'.jobs[k], row.status = "SUCCESS"
      PROVE  Sealed(k, row.parts)'
  <2>1. CASE row = db.jobs[k]
    BY <1>7, <1>8, <2>1 DEF Snapshots
  <2>2. ASSUME NEW w \in Worker, Loads(w) PROVE Sealed(k, row.parts)'
    <3>1. PICK x \in Snapshots \cup {NoDump} : x = db'
      BY <2>2 DEF Loads, Snapshots
    <3>2. QED
      BY <1>7, <1>8, <3>1
  <2>3. ASSUME NEW w \in Worker, Marks(w), work[w].at = "success", work[w].job = k,
               row.parts = db.jobs[k].parts, JobExists(k)
        PROVE  Sealed(k, row.parts)'
    <3>1. db # NoDump
      BY <2>3, NothingThere
    <3>2. Sealed(k, Wanted(w))
      BY <2>3, <3>1 DEF SealedInv
    <3>3. row.parts = Wanted(w)
      BY <2>3 DEF JobInv, Snapshots, RowsOK, Makes, Making, JobExists
    <3>4. disk' = disk
      BY <2>3 DEF Marks
    <3>5. QED
      BY <3>2, <3>3, <3>4 DEF Sealed
  <2>4. QED
    BY <1>8, <2>1, <2>2, <2>3, SuccessStep
<1>9. ASSUME NEW x \in Snapshots', NEW k \in Job, x.jobs[k].status = "SUCCESS"
      PROVE  Sealed(k, x.jobs[k].parts)'
  BY <1>7, <1>8, <1>9, SnapshotsStep
<1>10. ASSUME db'.data = Lost, NEW r \in Restore PROVE work'[r].at \in Spent
  <2>1. CASE db.data = Lost
    BY <1>3, <2>1, NothingStays
  <2>2. ASSUME NEW w \in Worker, Loads(w) PROVE work'[r].at \in Spent
    BY <2>2 DEF Loads, Spent
  <2>3. CASE db.data # Lost /\ \A w \in Worker : ~Loads(w)
    BY ZenonT(60), <1>10, <2>3, BackupStep
    DEF Rests, Dies, Classes, Dumps, Copies, Tars, Spoils, Marks, Unlinks, Retires, Creates, Goes, Worker
  <2>4. QED
    BY <2>1, <2>2, <2>3
<1>11. ASSUME db' # NoDump, NEW w \in Worker, work'[w].at \in {"copy", "tar"},
              "database" \in Wanted(w)'
       PROVE  work'[w].archive.dump # NoDump
  <2>1. CASE work'[w] = work[w]
    BY <1>4, <1>11, <2>1 DEF SealedInv, Wanted
  <2>2. CASE Dumps(w)
    <3>1. Wanted(w)' = Wanted(w)
      BY <2>2 DEF Dumps, Keeps, Wanted
    <3>2. QED
      BY <1>4, <1>11, <2>2, <3>1 DEF Dumps
  <2>3. CASE Copies(w)
    <3>1. Wanted(w)' = Wanted(w)
      BY <2>3 DEF Copies, Keeps, Wanted
    <3>2. QED
      BY <1>4, <1>11, <2>3, <3>1 DEF Copies, SealedInv
  <2>4. QED
    BY <1>11, <2>1, <2>2, <2>3, MakerStep
<1>12. ASSUME db' # NoDump, NEW w \in Worker, work'[w].at = "success",
              NEW k, k = work'[w].job, NEW parts, parts = Wanted(w)'
       PROVE  Sealed(k, parts)'
  <2>1. CASE Tars(w)
    <3>1. /\ k = work[w].job /\ parts = Wanted(w) /\ k \in Job
          /\ disk'[k] = [work[w].archive EXCEPT !.state = "complete"]
      BY <1>12, <2>1 DEF Tars, Keeps, Wanted, TypeInv, Sound, Holding, Owning
    <3>2. disk'[k].state = "complete" /\ disk'[k].dump = work[w].archive.dump
      BY <1>2, <3>1 DEF Work, Archive
    <3>3. "database" \in parts => work[w].archive.dump # NoDump
      BY <1>4, <1>12, <2>1, <3>1 DEF Tars, SealedInv
    <3>4. QED
      BY <3>2, <3>3 DEF Sealed
  <2>2. CASE work'[w] = work[w]
    <3>1. work[w].at = "success" /\ k = work[w].job /\ parts = Wanted(w) /\ k \in Job
      BY <1>12, <2>2 DEF Wanted, TypeInv, Sound, Holding, Owning
    <3>2. Sealed(k, parts)
      BY <1>4, <1>12, <3>1 DEF SealedInv
    <3>3. CASE disk'[k] = disk[k] \/ disk'[k] = NoArchive
      BY <3>2, <3>3 DEF Sealed, NoArchive
    <3>4. ASSUME NEW v \in Worker, Tars(v) \/ Spoils(v), Makes(v), work[v].job = k PROVE FALSE
      <4>1. v = w
        BY <3>1, <3>4 DEF JobInv, Owns, Owning, Makes, Making
      <4>2. QED
        BY <3>1, <3>4, <4>1 DEF Tars, Spoils
    <3>5. QED
      BY <3>1, <3>3, <3>4, DiskStep
  <2>3. QED
    BY <1>12, <2>1, <2>2, MakerStep
<1>13. QED
  BY <1>9, <1>10, <1>11, <1>12 DEF SealedInv

\* DownloadIsComplete holds for any number of jobs, requests and activations and
\* with every fault and crash, as long as no two restores are under way: what is
\* marked SUCCESS has been packed by its own worker, nobody else writes that
\* file, and no dump put back can claim an archive that is still being made.
THEOREM DownloadIsCompleteHolds ==
    ASSUME \A r, s \in Restore : r = s
    PROVE  Spec => []DownloadIsComplete
<1>1. Init => SealedInv
  <2> SUFFICES ASSUME Init PROVE SealedInv
    OBVIOUS
  <2>1. \A x \in Snapshots : \A k \in Job : x.jobs[k].status = "ABSENT"
    BY DEF Init, Snapshots, NoArchive, NoDump, Idle, NoRow
  <2>2. \A w \in Worker : work[w].at = "idle"
    BY DEF Init, Idle
  <2>3. QED
    BY <2>1, <2>2 DEF SealedInv, Spent, Worker
<1>2. TypeInv /\ JobInv /\ SealedInv /\ [Next]_vars => SealedInv'
  BY SealedStep
<1>3. SealedInv => DownloadIsComplete
  BY DEF SealedInv, Snapshots, Sealed, DownloadIsComplete, Success
<1>4. QED
  BY <1>1, <1>2, <1>3, BackupTypes, BackupJobs, PTL DEF Spec

-----------------------------------------------------------------------------
(* The archives of finished backups, as long as no database is restored.   *)

\* Job j has been finished once: its path is in its row, or a worker has read it
\* there to remove the archive.
Retired(j) ==
    \/ db.jobs[j].filed
    \/ \E w \in Worker : \/ j \in work[w].prune
                         \/ work[w].at \in {"pruned", "unlink"} /\ work[w].job = j

RetiredInv ==
    /\ \A j \in Job : Retired(j) =>
           j \in used /\ \A w \in Worker : Makes(w) => work[w].job # j
    /\ \A w \in Worker : work[w].at = "success" => disk[work[w].job].state = "complete"
    /\ \A j \in Job : Success(j) => db.jobs[j].filed

UploadsOnly == \A parts \in RestoreParts : "database" \notin parts

\* Restores of the uploads never put tables back.
LEMMA NoLoads ==
    ASSUME TypeInv, UploadsOnly, NEW w \in Worker
    PROVE  ~Loads(w)
BY DEF Loads, TypeInv, Sound, UploadsOnly

\* A job is retired by the step that marks it.
LEMMA RetiredStep ==
    ASSUME TypeInv, UploadsOnly, [Next]_vars, \A j \in Job : Success(j) => db.jobs[j].filed,
           NEW j \in Job, Retired(j)'
    PROVE  Retired(j) \/ \E w \in Worker : Marks(w) /\ work[w].at = "success" /\ work[w].job = j
<1>1. CASE Rests
  BY <1>1 DEF Rests, Retired
<1>2. CASE Dies
  BY <1>2, NobodyOwns DEF Dies, Retired, Holding
<1>3. ASSUME NEW w \in Worker, Classes(w), ~Dies
      PROVE  Retired(j) \/ (Marks(w) /\ work[w].at = "success" /\ work[w].job = j)
  <2>1. \A v \in Worker : v # w => work'[v] = work[v]
    BY <1>3, OneMoves DEF Others
  <2>2. ASSUME db'.jobs[j].filed PROVE db.jobs[j].filed \/ (Marks(w) /\ work[w].at = "success" /\ work[w].job = j)
    <3>1. CASE Marks(w)
      BY <2>2, <3>1 DEF Marks
    <3>2. CASE Retires(w)
      BY <2>2, <3>2 DEF Retires
    <3>3. CASE Creates(w)
      BY <2>2, <3>3 DEF Creates
    <3>4. CASE Dumps(w) \/ Copies(w) \/ Tars(w) \/ Spoils(w) \/ Unlinks(w) \/ Goes(w)
      BY <2>2, <3>4 DEF Dumps, Copies, Tars, Spoils, Unlinks, Goes
    <3>5. QED
      BY <1>3, <3>1, <3>2, <3>3, <3>4, NoLoads DEF Classes
  <2>3. ASSUME j \in work'[w].prune PROVE Retired(j)
    <3>1. work'[w].prune \subseteq work[w].prune \/ work'[w].prune = Outdated
      BY <1>3, NoLoads
      DEF Classes, Dumps, Copies, Tars, Spoils, Marks, Unlinks, Retires, Creates, Goes, Keeps
    <3>2. \A k \in Outdated : db.jobs[k].filed
      BY DEF Outdated
    <3>3. QED
      BY <2>3, <3>1, <3>2 DEF Retired
  <2>4. ASSUME work'[w].at \in {"pruned", "unlink"}, work'[w].job = j PROVE Retired(j)
    <3>1. Unlinks(w) \/ Goes(w)
      BY <1>3, <2>4, NoLoads DEF Classes, Dumps, Copies, Tars, Spoils, Marks, Retires, Creates
    <3>2. CASE Unlinks(w)
      BY <2>4, <3>2 DEF Unlinks, Retired
    <3>3. CASE Goes(w)
      BY <2>4, <3>3 DEF Goes, Retired
    <3>4. QED
      BY <3>1, <3>2, <3>3
  <2>5. QED
    BY <2>1, <2>2, <2>3, <2>4 DEF Retired
<1>4. QED
  BY <1>1, <1>2, <1>3, BackupStep DEF Worker

\* Every step keeps the retired jobs apart from those being made.
LEMMA RetiredInvStep ==
    ASSUME TypeInv, JobInv, RetiredInv, UploadsOnly, [Next]_vars
    PROVE  RetiredInv'
<1>1. used \subseteq used'
  BY UsedGrows
<1>2. ASSUME NEW j \in Job, Retired(j)' PROVE j \in used
  <2>1. CASE Retired(j)
    BY <2>1 DEF RetiredInv
  <2>2. ASSUME NEW w \in Worker, Marks(w), work[w].at = "success", work[w].job = j PROVE j \in used
    BY <2>2 DEF JobInv, Owns, Owning
  <2>3. QED
    BY <1>2, <2>1, <2>2, RetiredStep DEF RetiredInv
<1>3. ASSUME NEW j \in Job, Retired(j)', NEW w \in Worker, Makes(w)', work'[w].job = j PROVE FALSE
  <2>1. j \in used
    BY <1>2, <1>3
  <2>2. ~Creates(w)
    BY <1>3, <2>1 DEF Creates
  <2>3. Makes(w) /\ Owns(w) /\ work[w].job = j
    BY <1>3, <2>2, OwnerGoesOn DEF Owns, Owning, Makes, Making
  <2>4. CASE Retired(j)
    BY <2>3, <2>4 DEF RetiredInv
  <2>5. ASSUME NEW v \in Worker, Marks(v), work[v].at = "success", work[v].job = j PROVE FALSE
    <3>1. v = w
      BY <2>3, <2>5 DEF JobInv, Owns, Owning
    <3>2. QED
      BY <1>3, <2>5, <3>1 DEF Marks, Makes, Making
  <2>6. QED
    BY <1>3, <2>4, <2>5, RetiredStep DEF RetiredInv
<1>4. ASSUME NEW w \in Worker, work'[w].at = "success" PROVE disk'[work'[w].job].state = "complete"
  <2>1. CASE Tars(w)
    <3>1. /\ work'[w].job = work[w].job
          /\ disk'[work[w].job] = [work[w].archive EXCEPT !.state = "complete"]
      BY <2>1 DEF Tars, Keeps
    <3>2. QED
      BY <3>1 DEF TypeInv, TypeOK, Work, Archive
  <2>2. CASE work'[w] = work[w]
    <3> DEFINE k == work[w].job
    <3>1. /\ Makes(w) /\ Owns(w) /\ k \in Job /\ disk[k].state = "complete"
          /\ work[w].at = "success" /\ work'[w].job = k
      BY <1>4, <2>2 DEF RetiredInv, TypeInv, Sound, Holding, Owning, Makes, Making, Owns
    <3> HIDE DEF k
    <3>2. ASSUME NEW v \in Worker, Tars(v) \/ Spoils(v), Makes(v), work[v].job = k PROVE FALSE
      <4>1. v = w
        BY <3>1, <3>2 DEF JobInv, Owns, Owning, Makes, Making, k
      <4>2. QED
        BY <3>1, <3>2, <4>1 DEF Tars, Spoils
    <3>3. ASSUME NEW v \in Worker, Unlinks(v), work'[v].job = k PROVE FALSE
      <4>1. Retired(k)
        BY <3>3 DEF Unlinks, Keeps, Retired
      <4>2. QED
        BY <3>1, <4>1 DEF RetiredInv, k
    <3>4. disk'[k] = disk[k]
      BY <3>1, <3>2, <3>3, DiskStep
    <3>5. QED
      BY <3>1, <3>4
  <2>3. QED
    BY <1>4, <2>1, <2>2, MakerStep
<1>5. ASSUME NEW j \in Job, db'.jobs[j].status = "SUCCESS" PROVE db'.jobs[j].filed
  BY <1>5, SuccessStep, NoLoads DEF RetiredInv, Success
<1>6. QED
  BY <1>1, <1>2, <1>3, <1>4, <1>5 DEF RetiredInv, Success

\* The archive of a finished backup is complete when it is marked, and no other
\* worker makes one under its name again.
THEOREM BackupRetires ==
    ASSUME UploadsOnly
    PROVE  Spec => []RetiredInv
<1>1. Init => RetiredInv
  <2> SUFFICES ASSUME Init PROVE RetiredInv
    OBVIOUS
  <2>1. \A w \in Worker : work[w].at = "idle" /\ work[w].prune = {}
    BY DEF Init, Idle
  <2>2. \A j \in Job : ~db.jobs[j].filed /\ ~Success(j)
    BY DEF Init, NoRow, Success
  <2>3. QED
    BY <2>1, <2>2 DEF RetiredInv, Retired
<1>2. TypeInv /\ JobInv /\ RetiredInv /\ [Next]_vars => RetiredInv'
  BY RetiredInvStep
<1>3. QED
  BY <1>1, <1>2, BackupTypes, BackupJobs, PTL DEF Spec

\* SuccessHasArchive holds for any number of jobs and of workers of each kind, as
\* long as no restore takes in a database: between the removal of a file and the
\* update of its row the worker that removes it is there.
THEOREM SuccessHasArchiveHolds ==
    ASSUME \A parts \in RestoreParts : "database" \notin parts
    PROVE  Spec => []SuccessHasArchive
<1>1. UploadsOnly
  BY DEF UploadsOnly
<1>2. Init => SuccessHasArchive
  BY DEF Init, SuccessHasArchive, Success, NoRow
<1>3. ASSUME TypeInv, JobInv, RetiredInv, SuccessHasArchive, [Next]_vars PROVE SuccessHasArchive'
  <2> SUFFICES ASSUME ~died', NEW j \in Job, Success(j)', disk'[j].state = "none"
               PROVE  \E w \in Activation \cup Remover : work'[w].job = j /\ work'[w].at \in {"pruned", "delete"}
    BY DEF SuccessHasArchive
  <2>1. ~died /\ ~Dies
    <3>1. CASE Dies
      BY <1>3, <3>1, DieType DEF Dies, TypeInv
    <3>2. ~Dies => UNCHANGED died
      BY ZenonT(60), <1>3, BackupStep
      DEF Rests, Classes, Dumps, Copies, Tars, Spoils, Marks, Unlinks, Retires, Loads, Creates, Goes
    <3>3. QED
      BY <3>1, <3>2
  <2>2. db'.jobs[j].status = "SUCCESS"
    BY DEF Success
  <2>3. ASSUME NEW w \in Worker, Marks(w), work[w].at = "success", work[w].job = j PROVE FALSE
    BY <1>3, <2>3 DEF Marks, RetiredInv
  <2>4. db'.jobs[j] = db.jobs[j] /\ Success(j)
    BY <1>1, <1>3, <2>2, <2>3, SuccessStep, NoLoads DEF Success
  <2>5. CASE disk[j].state = "none"
    <3>1. PICK w \in Activation \cup Remover : work[w].job = j /\ work[w].at \in {"pruned", "delete"}
      BY <2>1, <2>4, <2>5, <1>3 DEF SuccessHasArchive
    <3>2. w \in Worker
      BY DEF Worker
    <3>3. CASE work'[w] = work[w]
      BY <3>1, <3>3
    <3>4. ASSUME NEW v \in Worker, Classes(v), v # w PROVE work'[w] = work[w]
      BY <1>3, <2>1, <3>2, <3>4, OneMoves DEF Others
    <3>5. ASSUME Classes(w) PROVE FALSE
      <4>1. Retires(w)
        BY <2>1, <3>1, <3>5
        DEF Classes, Dumps, Copies, Tars, Spoils, Marks, Unlinks, Loads, Creates, Goes
      <4>2. db'.jobs[j].status = "DELETED"
        BY <2>4, <3>1, <4>1 DEF Retires, JobExists, Success
      <4>3. QED
        BY <2>2, <4>2
    <3>6. QED
      BY <1>3, <2>1, <3>2, <3>3, <3>4, <3>5, BackupStep DEF Rests, Worker
  <2>6. CASE disk[j].state # "none"
    <3>1. PICK w \in Worker : \/ (Tars(w) \/ Spoils(w)) /\ Makes(w) /\ work[w].job = j
                              \/ Unlinks(w) /\ work'[w].job = j /\ disk'[j] = NoArchive
      BY <1>3, <2>6, DiskStep
    <3>2. ~(Makes(w) /\ work[w].job = j)
      BY <1>3, <2>4 DEF JobInv, Snapshots, RowsOK, Success
    <3>3. QED
      BY <3>1, <3>2 DEF Unlinks
  <2>7. QED
    BY <2>5, <2>6
<1>4. QED
  BY <1>1, <1>2, <1>3, BackupTypes, BackupJobs, BackupRetires, PTL DEF Spec

-----------------------------------------------------------------------------
(* Retention.                                                              *)

\* Keep archives newer than that of j can be restored.
Newer(j) == {k \in Restorable : k > j}
Enough(j) == Cardinality(Newer(j)) >= Keep

\* What is on its way out is not needed any more.
EnoughInv ==
    /\ \A w \in Worker : \A j \in work[w].prune : Enough(j)
    /\ \A j \in Job : Success(j) /\ disk[j].state # "complete" => Enough(j)
    /\ \A w \in Worker : work[w].at = "failing" => ~Success(work[w].job)
    /\ \A w \in Worker : work[w].at = "pruned" => disk[work[w].job].state # "complete"

\* More newer archives are also enough.
LEMMA MoreIsEnough ==
    ASSUME NEW S \in SUBSET Job, NEW T \in SUBSET Job, S \subseteq T, Cardinality(S) >= Keep
    PROVE  Cardinality(T) >= Keep
<1>1. IsFiniteSet(T)
  BY JobAssumption, FS_Subset
<1>2. IsFiniteSet(S) /\ Cardinality(S) <= Cardinality(T)
  BY <1>1, FS_Subset
<1>3. Cardinality(S) \in Nat /\ Cardinality(T) \in Nat
  BY <1>1, <1>2, FS_CardinalityType
<1>4. QED
  BY <1>2, <1>3, KeepAssumption

\* An archive is given up only by a retention pass that has it on its list.
LEMMA GivenUp ==
    ASSUME TypeInv, JobInv, RetiredInv, EnoughInv, [Next]_vars, UploadsOnly, Remover = {},
           NEW j \in Restorable, j \notin Restorable'
    PROVE  Enough(j) /\ \A k \in Restorable : k # j => k \in Restorable'
<1>1. j \in Job /\ Success(j) /\ disk[j].state = "complete"
  BY DEF Restorable
<1>2. \A w \in Worker : Makes(w) => ~Success(work[w].job)
  BY DEF JobInv, Snapshots, RowsOK, Success, TypeInv, Sound, Holding, Owning, Makes, Making
<1>3. ASSUME NEW k \in Job, Success(k), disk[k].state = "complete" PROVE db'.jobs[k].status = "SUCCESS"
  <2>1. CASE Rests \/ Dies
    BY <1>3, <2>1 DEF Rests, Dies, Success
  <2>2. ASSUME NEW w \in Worker, Classes(w), ~Dies PROVE db'.jobs[k].status = "SUCCESS"
    <3>1. CASE Marks(w)
      <4>1. CASE k = work[w].job
        BY <1>3, <3>1, <4>1 DEF Marks, EnoughInv
      <4>2. CASE k # work[w].job
        BY <1>3, <3>1, <4>2 DEF Marks, Success
      <4>3. QED
        BY <4>1, <4>2
    <3>2. CASE Retires(w)
      <4>1. work[w].job # k
        BY <1>3, <3>2 DEF Retires, EnoughInv
      <4>2. QED
        BY <1>3, <3>2, <4>1 DEF Retires, Success
    <3>3. CASE Creates(w)
      <4>1. k \in used
        BY <1>3 DEF JobInv, Snapshots, RowsOK, Success
      <4>2. QED
        BY <1>3, <3>3, <4>1 DEF Creates, Success
    <3>4. CASE Dumps(w) \/ Copies(w) \/ Tars(w) \/ Spoils(w) \/ Unlinks(w) \/ Goes(w)
      BY <1>3, <3>4 DEF Dumps, Copies, Tars, Spoils, Unlinks, Goes, Success
    <3>5. QED
      BY <2>2, <3>1, <3>2, <3>3, <3>4, NoLoads DEF Classes
  <2>3. QED
    BY <2>1, <2>2, BackupStep DEF Worker
<1>4. disk'[j] # disk[j]
  BY <1>1, <1>3 DEF Restorable, Success
<1>5. PICK w \in Worker : \/ (Tars(w) \/ Spoils(w)) /\ Makes(w) /\ work[w].job = j
                          \/ Unlinks(w) /\ work'[w].job = j /\ disk'[j] = NoArchive
  BY <1>1, <1>4, DiskStep
<1>6. Unlinks(w) /\ work'[w].job = j
  BY <1>1, <1>2, <1>5
<1>7. j \in work[w].prune
  BY <1>6 DEF Unlinks
<1>8. ASSUME NEW k \in Restorable, k # j PROVE k \in Restorable'
  BY <1>3, <1>6, <1>8 DEF Restorable, Unlinks, Success
<1>9. QED
  BY <1>7, <1>8 DEF EnoughInv

\* Enough newer archives stay enough: one that is given up has enough newer ones
\* itself.
LEMMA EnoughStays ==
    ASSUME TypeInv, JobInv, RetiredInv, EnoughInv, [Next]_vars, UploadsOnly, Remover = {},
           NEW j \in Job, Enough(j)
    PROVE  Enough(j)'
<1>1. Newer(j) \in SUBSET Job /\ Newer(j)' \in SUBSET Job
  BY DEF Newer, Restorable
<1>2. CASE Newer(j) \subseteq Newer(j)'
  BY <1>1, <1>2, MoreIsEnough DEF Enough
<1>3. ASSUME NEW k \in Newer(j), k \notin Newer(j)' PROVE Enough(j)'
  <2>1. k \in Restorable /\ k \notin Restorable' /\ k \in Nat /\ j \in Nat /\ k > j
    BY <1>3, JobAssumption DEF Newer, Restorable
  <2>2. Enough(k) /\ \A i \in Restorable : i # k => i \in Restorable'
    BY <2>1, GivenUp
  <2>3. Newer(k) \subseteq Newer(j)'
    <3>1. SUFFICES ASSUME NEW i \in Restorable, i > k PROVE i \in Restorable' /\ i > j
      BY DEF Newer
    <3>2. i \in Nat
      BY JobAssumption DEF Restorable
    <3>3. QED
      BY <2>1, <2>2, <3>1, <3>2
  <2>4. Newer(k) \in SUBSET Job
    BY DEF Newer, Restorable
  <2>5. QED
    BY <1>1, <2>2, <2>3, <2>4, MoreIsEnough DEF Enough
<1>4. QED
  BY <1>2, <1>3

\* What a retention pass selects is not needed.
LEMMA OutdatedIsEnough ==
    ASSUME EnoughInv, NEW j \in Outdated
    PROVE  Enough(j)
<1> DEFINE newer == {k \in Job : Success(k) /\ k > j}
<1>1. j \in Job /\ Cardinality(newer) >= Keep
  BY DEF Outdated
<1>2. Newer(j) \in SUBSET Job /\ newer \in SUBSET Job
  BY DEF Newer, Restorable
<1>3. CASE newer \subseteq Newer(j)
  BY <1>1, <1>2, <1>3, MoreIsEnough DEF Enough
<1>4. ASSUME NEW k \in newer, k \notin Newer(j) PROVE Enough(j)
  <2>1. k \in Job /\ k > j /\ Enough(k)
    BY <1>4 DEF EnoughInv, Newer, Restorable
  <2>2. Newer(k) \in SUBSET Job /\ Newer(k) \subseteq Newer(j)
    <3>1. \A i \in Restorable : i \in Nat
      BY JobAssumption DEF Restorable
    <3>2. k \in Nat /\ j \in Nat
      BY <1>1, <2>1, JobAssumption
    <3>3. ASSUME NEW i \in Restorable, i > k PROVE i > j
      BY <2>1, <3>1, <3>2, <3>3
    <3>4. QED
      BY <3>3 DEF Newer, Restorable
  <2>3. QED
    BY <1>2, <2>1, <2>2, MoreIsEnough DEF Enough
<1>5. QED
  BY <1>3, <1>4

\* Every step keeps enough restorable jobs above each outdated one.
LEMMA EnoughInvStep ==
    ASSUME TypeInv, JobInv, RetiredInv, EnoughInv, [Next]_vars, UploadsOnly, Remover = {}, ~NotifyFails
    PROVE  EnoughInv'
<1>1. TypeInv /\ TypeInv' /\ \A w \in Worker : work[w].prune \subseteq Job
  BY BackupStep DEF TypeInv, TypeOK, Work
<1>2. \A w \in Worker : Makes(w) => ~Success(work[w].job)
  BY DEF JobInv, Snapshots, RowsOK, Success, TypeInv, Sound, Holding, Owning, Makes, Making
<1>3. ASSUME NEW w \in Worker, NEW j \in work'[w].prune PROVE j \in Job /\ Enough(j)
  <2>1. j \in work[w].prune \/ j \in Outdated
    <3>1. CASE Rests
      BY <1>3, <3>1 DEF Rests
    <3>2. CASE Dies
      BY <1>3, <3>2, NobodyOwns
    <3>3. ASSUME NEW v \in Worker, Classes(v), ~Dies, v # w PROVE work'[w] = work[w]
      BY <3>3, OneMoves DEF Others
    <3>4. ASSUME Classes(w), ~Dies PROVE work'[w].prune \subseteq work[w].prune \/ work'[w].prune = Outdated
      BY <3>4, NoLoads
      DEF Classes, Dumps, Copies, Tars, Spoils, Marks, Unlinks, Retires, Creates, Goes, Keeps
    <3>5. QED
      BY <1>3, <3>1, <3>2, <3>3, <3>4, BackupStep DEF Worker
  <2>2. QED
    BY <1>1, <2>1, OutdatedIsEnough DEF EnoughInv, Outdated
<1>4. ASSUME NEW j \in Job, db'.jobs[j].status = "SUCCESS", disk'[j].state # "complete" PROVE Enough(j)
  <2>1. ASSUME NEW w \in Worker, Marks(w), work[w].at = "success", work[w].job = j PROVE FALSE
    BY <1>4, <2>1 DEF Marks, RetiredInv
  <2>2. Success(j)
    BY <1>4, <2>1, SuccessStep, NoLoads DEF Success
  <2>3. CASE disk[j].state # "complete"
    BY <2>2, <2>3 DEF EnoughInv
  <2>4. CASE disk[j].state = "complete"
    BY <1>4, <2>2, <2>4, GivenUp DEF Restorable
  <2>5. QED
    BY <2>3, <2>4
<1>5. ASSUME NEW w \in Worker, work'[w].at = "failing", NEW j, j = work'[w].job
      PROVE  db'.jobs[j].status # "SUCCESS"
  <2>1. j \in Job
    BY <1>1, <1>5 DEF TypeInv, Sound, Holding, Owning
  <2>2. CASE work'[w] = work[w]
    <3>1. Owns(w) /\ work[w].job = j /\ ~Success(j)
      BY <1>5, <2>2 DEF EnoughInv, Owns, Owning
    <3>2. ASSUME NEW v \in Worker, Marks(v), work[v].at = "success", work[v].job = j PROVE FALSE
      <4>1. v = w
        BY <3>1, <3>2 DEF JobInv, Owns, Owning
      <4>2. QED
        BY <1>5, <2>2, <3>2, <4>1
    <3>3. QED
      BY <2>1, <3>1, <3>2, SuccessStep, NoLoads DEF Success
  <2>3. CASE Spoils(w)
    BY <1>2, <1>5, <2>3 DEF Spoils, Keeps, Makes, Making, Success
  <2>4. CASE Goes(w)
    BY <1>5, <2>4 DEF Goes, Owning, JobExists
  <2>5. ASSUME Classes(w), ~Dies PROVE Spoils(w) \/ Goes(w)
    BY <1>5, <2>5, NoLoads DEF Classes, Dumps, Copies, Tars, Marks, Unlinks, Retires, Creates
  <2>6. ASSUME NEW v \in Worker, Classes(v), ~Dies, v # w PROVE work'[w] = work[w]
    BY <2>6, OneMoves DEF Others
  <2>7. ~Dies
    BY <1>5, NobodyOwns DEF Holding, Owning
  <2>8. QED
    BY <2>2, <2>3, <2>4, <2>5, <2>6, <2>7, BackupStep DEF Rests, Worker
<1>6. ASSUME NEW w \in Worker, work'[w].at = "pruned", NEW j, j = work'[w].job
      PROVE  disk'[j].state # "complete"
  <2>1. CASE Unlinks(w)
    BY <1>6, <2>1 DEF Unlinks, NoArchive
  <2>2. CASE work'[w] = work[w]
    <3>1. j \in Job /\ Retired(j) /\ disk[j].state # "complete"
      BY <1>6, <2>2 DEF Retired, EnoughInv, TypeInv, Sound, Holding
    <3>2. \A v \in Worker : Makes(v) => work[v].job # j
      BY <3>1 DEF RetiredInv
    <3>3. CASE disk'[j] = disk[j] \/ disk'[j] = NoArchive
      BY <3>1, <3>3 DEF NoArchive
    <3>4. QED
      BY <3>1, <3>2, <3>3, DiskStep
  <2>3. ASSUME Classes(w), ~Dies PROVE Unlinks(w)
    BY <1>6, <2>3, NoLoads
    DEF Classes, Dumps, Copies, Tars, Spoils, Marks, Retires, Creates, Goes
  <2>4. ASSUME NEW v \in Worker, Classes(v), ~Dies, v # w PROVE work'[w] = work[w]
    BY <2>4, OneMoves DEF Others
  <2>5. ~Dies
    BY <1>6, NobodyOwns DEF Holding
  <2>6. QED
    BY <2>1, <2>2, <2>3, <2>4, <2>5, BackupStep DEF Rests, Worker
<1>7. \A j \in Job : Enough(j) => Enough(j)'
  BY EnoughStays
<1>8. \A w \in Worker : \A j \in work'[w].prune : Enough(j)'
  BY <1>3, <1>7
<1>9. \A j \in Job : db'.jobs[j].status = "SUCCESS" /\ disk'[j].state # "complete" => Enough(j)'
  BY <1>4, <1>7
<1>10. QED
  BY <1>5, <1>6, <1>8, <1>9 DEF EnoughInv, Success

\* RetentionKeeps holds for every number of backups, of overlapping automatic
\* and manual ones and of retention passes, wherever one of them fails or dies:
\* a pass that works with an old list may remove what another has selected too,
\* and yet Keep newer archives stay.
THEOREM RetentionKeepsHolds ==
    ASSUME Remover = {}, ~NotifyFails, \A parts \in RestoreParts : "database" \notin parts
    PROVE  Spec => RetentionKeeps
<1>1. UploadsOnly
  BY DEF UploadsOnly
<1>2. Init => EnoughInv
  <2> SUFFICES ASSUME Init PROVE EnoughInv
    OBVIOUS
  <2>1. \A w \in Worker : work[w].at = "idle" /\ work[w].prune = {}
    BY DEF Init, Idle
  <2>2. \A j \in Job : ~Success(j)
    BY DEF Init, NoRow, Success
  <2>3. QED
    BY <2>1, <2>2 DEF EnoughInv
<1>3. TypeInv /\ JobInv /\ RetiredInv /\ EnoughInv /\ [Next]_vars => EnoughInv'
  BY <1>1, EnoughInvStep
<1>4. TypeInv /\ JobInv /\ RetiredInv /\ EnoughInv /\ [Next]_vars =>
          [\A j \in Restorable : j \notin Restorable' =>
               Cardinality({k \in Restorable : k > j}) >= Keep]_vars
  BY <1>1, GivenUp DEF Enough, Newer
<1>5. QED
  BY <1>1, <1>2, <1>3, <1>4, BackupTypes, BackupJobs, BackupRetires, PTL DEF Spec, RetentionKeeps

-----------------------------------------------------------------------------
(* The emergency backup is there when something is overwritten.            *)

\* Where a restore still has to overwrite something, and where its emergency
\* backup has been packed.
Ahead(r) == work[r].at \in Owning \cup {"emergency", "link", "extract", "clear", "fill", "load"}
Packed(r) ==
    \/ work[r].at \in {"success", "notify", "extract", "clear", "fill", "load"}
    \/ (work[r].at = "link" /\ work[r].ok)

\* The archive of job j can bring back what restore r overwrites.
Rescues(j, r) ==
    /\ disk[j].state = "complete" /\ disk[j].uploads # Lost
    /\ disk[j].dump.history[r].status = "RUNNING"

\* What has been done for restore r, place by place, from its first check to the
\* last thing it overwrites.  Nobody else works on its emergency backup.
Safe(r) ==
    /\ work[r].at \in Owning \cup {"idle", "emergency", "link", "extract", "clear"} => uploads # Lost
    /\ Ahead(r) => (db.history[r].status = "RUNNING" /\ work[r].source \in used)
    /\ Ahead(r) /\ work[r].at # "emergency" =>
           /\ work[r].job \in used \ {work[r].source}
           /\ \A w \in Worker : Owns(w) /\ work[w].job = work[r].job => w = r
    /\ work[r].at \in {"copy", "tar"} => work[r].archive.dump.history[r].status = "RUNNING"
    /\ work[r].at = "tar" => work[r].archive.uploads # Lost
    /\ Packed(r) => Rescues(work[r].job, r)
    /\ work[r].at \in {"extract", "clear", "fill", "load"} => db.history[r].emergency = work[r].job

SafeInv == \A r \in Restore : Safe(r)

\* As long as nobody removes archives, the packed emergency backup stays as it is.
LEMMA PackedStays ==
    ASSUME TypeInv, [Next]_vars, Activation = {}, Remover = {},
           NEW r \in Restore, Safe(r), Packed(r)
    PROVE  disk'[work[r].job] = disk[work[r].job]
<1>1. /\ work[r].at \notin {"dump", "copy", "tar", "emergency"} /\ Ahead(r)
      /\ work[r].job \in Job
  BY DEF Packed, Ahead, Owning, TypeInv, Sound, Holding, Worker
<1>2. \A w \in Worker : ~Unlinks(w)
  BY DEF Unlinks
<1>3. ASSUME NEW w \in Worker, Tars(w) \/ Spoils(w), work[w].job = work[r].job PROVE FALSE
  <2>1. Owns(w) /\ work[w].at \in {"dump", "copy", "tar"}
    BY <1>3 DEF Tars, Spoils, Owns, Owning
  <2>2. w = r
    BY <1>1, <1>3, <2>1 DEF Safe
  <2>3. QED
    BY <1>1, <2>1, <2>2
<1>4. QED
  BY <1>1, <1>2, <1>3, DiskStep

\* Nobody else comes to work on the job of a restore's emergency backup.
LEMMA OnlyOwner ==
    ASSUME TypeInv, [Next]_vars, NEW r \in Restore, Safe(r), Ahead(r), work[r].at # "emergency",
           NEW w \in Worker, Owns(w)', work'[w].job = work[r].job
    PROVE  w = r
<1>1. work[r].job \in used
  BY DEF Safe
<1>2. ~Creates(w)
  BY <1>1 DEF Creates
<1>3. Owns(w) /\ work[w].job = work[r].job
  BY <1>2, OwnerGoesOn
<1>4. QED
  BY <1>3 DEF Safe

\* A step that leaves restore r where it is leaves it safe.
LEMMA BystanderIsSafe ==
    ASSUME TypeInv, [Next]_vars, Activation = {}, Remover = {},
           NEW r \in Restore, Safe(r), work'[r] = work[r], db'.history[r] = db.history[r],
           uploads' = Lost => uploads = Lost
    PROVE  Safe(r)'
<1>1. used \subseteq used'
  BY UsedGrows
<1>2. Ahead(r)' = Ahead(r) /\ Packed(r)' = Packed(r)
  BY DEF Ahead, Packed
<1>3. ASSUME Ahead(r), work[r].at # "emergency", NEW w \in Worker, Owns(w)',
             work'[w].job = work'[r].job
      PROVE  w = r
  BY <1>3, OnlyOwner
<1>4. ASSUME Packed(r) PROVE Rescues(work[r].job, r)'
  BY <1>4, PackedStays DEF Safe, Rescues
<1>5. QED
  BY <1>1, <1>2, <1>3, <1>4 DEF Safe

\* A restore's own step leaves it safe.
LEMMA OwnStepIsSafe ==
    ASSUME TypeInv, JobInv, [Next]_vars, Activation = {}, Remover = {},
           NEW r \in Restore, Safe(r), Line(r), Others(r)
    PROVE  Safe(r)'
<1>1. r \in Worker /\ work[r] \in Work /\ Sound(r, work[r]) /\ used \subseteq used' /\ TypeOK
      /\ work[r].archive \in Archive
  BY UsedGrows DEF Worker, TypeInv, TypeOK, Work
<1>2. Wanted(r) = {"database", "uploads"}
  BY DEF Wanted, Part
<1>3. ASSUME Ahead(r), work[r].at # "emergency", Keeps(r), db'.history[r].status = db.history[r].status
      PROVE  /\ db'.history[r].status = "RUNNING" /\ work'[r].source \in used'
             /\ work'[r].job \in used' \ {work'[r].source}
             /\ \A w \in Worker : Owns(w)' /\ work'[w].job = work'[r].job => w = r
  BY <1>1, <1>3, OnlyOwner DEF Safe, Keeps
<1>4. ASSUME Packed(r), Keeps(r), NEW j, j = work'[r].job PROVE Rescues(j, r)'
  BY <1>4, PackedStays DEF Safe, Rescues, Keeps
<1>5. CASE Begins(r)
  <2>1. work'[r].source \in used
    BY <1>5 DEF Begins, Success, JobInv, RowsOK, Snapshots
  <2>2. QED
    BY <1>1, <1>5, <2>1 DEF Begins, Safe, Ahead, Packed, Owning
<1>6. CASE Creates(r)
  <2>1. /\ work[r].at = "emergency" /\ work'[r].at = "dump" /\ work'[r].source = work[r].source
        /\ db'.history = db.history /\ uploads' = uploads
    BY <1>1, <1>6 DEF Creates
  <2>2. work'[r].job \in used' \ used
    BY <1>6 DEF Creates
  <2>3. ASSUME NEW w \in Worker, Owns(w)', work'[w].job = work'[r].job, w # r PROVE FALSE
    <3>1. work'[w] = work[w]
      BY <2>3 DEF Others
    <3>2. work[w].job \in used
      BY <2>3, <3>1 DEF Owns, JobInv
    <3>3. QED
      BY <2>2, <2>3, <3>1, <3>2
  <2>4. QED
    BY <1>1, <2>1, <2>2, <2>3 DEF Safe, Ahead, Packed, Owning
<1>7. CASE Dumps(r)
  <2>1. /\ work[r].at = "dump" /\ work'[r].at = "copy" /\ Keeps(r) /\ UNCHANGED <<db, uploads>>
        /\ work'[r].archive.dump = db
    BY <1>2, <1>7 DEF Dumps
  <2>2. Ahead(r)
    BY <2>1 DEF Ahead, Owning
  <2>3. QED
    BY <1>3, <2>1, <2>2 DEF Safe, Ahead, Packed, Owning
<1>8. CASE Copies(r)
  <2>1. /\ work[r].at = "copy" /\ work'[r].at = "tar" /\ Keeps(r) /\ UNCHANGED <<db, uploads>>
        /\ work'[r].archive.dump = work[r].archive.dump /\ work'[r].archive.uploads = uploads
    BY <1>2, <1>8 DEF Copies
  <2>2. Ahead(r)
    BY <2>1 DEF Ahead, Owning
  <2>3. QED
    BY <1>3, <2>1, <2>2 DEF Safe, Ahead, Packed, Owning
<1>9. CASE Tars(r)
  <2>1. /\ work[r].at = "tar" /\ work'[r].at = "success" /\ Keeps(r) /\ UNCHANGED <<db, uploads>>
        /\ disk'[work[r].job] = [work[r].archive EXCEPT !.state = "complete"]
    BY <1>9 DEF Tars
  <2>2. Ahead(r)
    BY <2>1 DEF Ahead, Owning
  <2>3. /\ disk'[work[r].job].state = "complete"
        /\ disk'[work[r].job].dump = work[r].archive.dump
        /\ disk'[work[r].job].uploads = work[r].archive.uploads
    BY <1>1, <2>1 DEF Archive
  <2>4. ASSUME NEW j, j = work'[r].job PROVE Rescues(j, r)'
    <3>1. work[r].archive.dump.history[r].status = "RUNNING" /\ work[r].archive.uploads # Lost
      BY <2>1 DEF Safe
    <3>2. j = work[r].job
      BY <2>1, <2>4 DEF Keeps
    <3>3. QED
      BY <2>3, <3>1, <3>2 DEF Rescues
  <2>5. QED
    BY <1>3, <2>1, <2>2, <2>4 DEF Safe, Ahead, Packed, Owning
<1>10. CASE Spoils(r)
  <2>1. /\ work[r].at \in {"dump", "copy", "tar"} /\ work'[r].at = "failing" /\ Keeps(r)
        /\ UNCHANGED <<db, uploads>>
    BY <1>10 DEF Spoils
  <2>2. Ahead(r) /\ work[r].at # "emergency"
    BY <2>1 DEF Ahead, Owning
  <2>3. QED
    BY <1>3, <2>1, <2>2 DEF Safe, Ahead, Packed, Owning
<1>11. CASE Marks(r)
  <2>1. /\ \/ work[r].at = "success" /\ work'[r].at = "notify"
           \/ work[r].at = "failing" /\ work'[r].at = "report"
        /\ Keeps(r) /\ db'.history = db.history /\ UNCHANGED uploads
    BY <1>11 DEF Marks
  <2>2. Ahead(r) /\ work[r].at # "emergency" /\ (work[r].at = "success" => Packed(r))
    BY <2>1 DEF Ahead, Owning, Packed
  <2>3. QED
    BY <1>3, <1>4, <2>1, <2>2 DEF Safe, Ahead, Packed, Owning
<1>12. CASE Passes(r)
  <2>1. Keeps(r) /\ UNCHANGED <<db, uploads, disk>>
    BY <1>12 DEF Passes
  <2>2. CASE work'[r].at \in {"abort", "error"}
    BY <2>2 DEF Safe, Ahead, Packed, Owning
  <2>3. CASE work'[r].at \in {"failing", "link"}
    <3>1. /\ work[r].at \in {"success", "notify", "report"}
          /\ work'[r].at = "link" /\ work'[r].ok => work[r].at = "notify"
      BY <1>12, <2>3 DEF Passes
    <3>2. Ahead(r) /\ work[r].at # "emergency" /\ (Packed(r)' => Packed(r))
      BY <2>3, <3>1 DEF Ahead, Owning, Packed
    <3>3. QED
      BY <1>3, <1>4, <2>1, <2>3, <3>1, <3>2 DEF Safe, Ahead, Owning
  <2>4. QED
    BY <1>12, <2>2, <2>3 DEF Passes
<1>13. CASE Links(r)
  <2>1. /\ work[r].at = "link" /\ Keeps(r) /\ UNCHANGED <<uploads, disk>>
        /\ work'[r].at = IF work[r].ok THEN "extract" ELSE "abort"
        /\ db'.history[r].status = db.history[r].status /\ db'.history[r].emergency = work'[r].job
    BY <1>13 DEF Links, Keeps
  <2>2. CASE work[r].ok
    <3>1. Ahead(r) /\ Packed(r) /\ work'[r].at = "extract"
      BY <2>1, <2>2 DEF Ahead, Packed
    <3>2. QED
      BY <1>3, <1>4, <2>1, <3>1 DEF Safe, Ahead, Packed, Owning
  <2>3. CASE ~work[r].ok
    BY <2>1, <2>3 DEF Safe, Ahead, Packed, Owning
  <2>4. QED
    BY <2>2, <2>3
<1>14. CASE Fetches(r)
  <2>1. /\ work[r].at = "extract" /\ work'[r].at \in {"clear", "load"} /\ Keeps(r)
        /\ UNCHANGED <<db, uploads>>
    BY <1>14 DEF Fetches
  <2>2. Ahead(r) /\ Packed(r) /\ work[r].at # "emergency"
    BY <2>1 DEF Ahead, Packed
  <2>3. QED
    BY <1>3, <1>4, <2>1, <2>2 DEF Safe, Ahead, Packed, Owning, Keeps
<1>15. CASE Fills(r)
  <2>1. /\ work[r].at \in {"clear", "fill"} /\ work'[r].at \in {"fill", "load", "finish"} /\ Keeps(r)
        /\ UNCHANGED db
    BY <1>15 DEF Fills
  <2>2. Ahead(r) /\ Packed(r) /\ work[r].at # "emergency"
    BY <2>1 DEF Ahead, Packed
  <2>3. QED
    BY <1>3, <1>4, <2>1, <2>2 DEF Safe, Ahead, Packed, Owning, Keeps
<1>16. CASE Loads(r) \/ Answers(r)
  <2>1. work'[r].at \in {"finish", "abort", "done", "failed"}
    BY <1>16 DEF Loads, Answers
  <2>2. QED
    BY <2>1 DEF Safe, Ahead, Packed, Owning
<1>17. QED
  BY <1>5, <1>6, <1>7, <1>8, <1>9, <1>10, <1>11, <1>12, <1>13, <1>14, <1>15, <1>16 DEF Line

\* The invariant is kept as long as nobody removes archives and no second
\* restore overwrites the uploads in between.
LEMMA SafeStep ==
    ASSUME TypeInv, JobInv, SafeInv, [Next]_vars,
           Activation = {}, Remover = {}, \A r, s \in Restore : r = s
    PROVE  SafeInv'
<1> SUFFICES ASSUME NEW r \in Restore PROVE Safe(r)'
  BY DEF SafeInv
<1>1. Safe(r) /\ r \in Worker /\ work[r] \in Work /\ TypeOK
  BY DEF SafeInv, Worker, TypeInv, TypeOK
<1>2. CASE Rests
  BY <1>1, <1>2, BystanderIsSafe DEF Rests
<1>3. CASE Dies
  <2>1. work'[r] = work[r] \/ work'[r] = [work[r] EXCEPT !.at = "dead"]
    BY <1>1, <1>3, DieType DEF Dies
  <2>2. CASE work'[r] = work[r]
    BY <1>1, <1>3, <2>2, BystanderIsSafe DEF Dies
  <2>3. CASE work'[r] = [work[r] EXCEPT !.at = "dead"]
    <3>1. work'[r].at = "dead"
      BY <1>1, <2>3 DEF Work
    <3>2. QED
      BY <3>1 DEF Safe, Ahead, Packed, Owning
  <2>4. QED
    BY <2>1, <2>2, <2>3
<1>4. ASSUME NEW w \in Worker \ Restore, Classes(w), ~Dies PROVE Safe(r)'
  <2>1. w # r /\ ~Loads(w)
    BY <1>4 DEF Loads
  <2>2. work'[r] = work[r] /\ db'.history[r] = db.history[r]
    BY <1>4, <2>1, StandsStill
  <2>3. uploads' = uploads
    BY <1>4, <2>1
    DEF Classes, Dumps, Copies, Tars, Spoils, Marks, Unlinks, Retires, Creates, Goes
  <2>4. QED
    BY <1>1, <2>2, <2>3, BystanderIsSafe
<1>5. ASSUME NEW s \in Restore, Classes(s), RestoreActs(s), ~Dies PROVE Safe(r)'
  <2>1. s = r
    OBVIOUS
  <2>2. Line(r) /\ Others(r)
    BY <1>1, <1>5, <2>1, RestoreLine, OneMoves
  <2>3. QED
    BY <1>1, <2>2, OwnStepIsSafe
<1>6. QED
  BY <1>2, <1>3, <1>4, <1>5, BackupStep

\* EmergencyOnDisk holds for any number of jobs and of manual backups, with every
\* fault and crash, as long as nobody removes archives meanwhile and no two
\* restores are under way: whatever is about to be overwritten is in the archive
\* the restore has recorded as its emergency backup.
THEOREM EmergencyOnDiskHolds ==
    ASSUME Activation = {}, Remover = {}, \A r, s \in Restore : r = s
    PROVE  Spec => []EmergencyOnDisk
<1>1. Init => SafeInv
  BY ConstantsTyped DEF Init, SafeInv, Safe, Idle, Ahead, Packed, Owning, Worker, Lost
<1>2. TypeInv /\ JobInv /\ SafeInv /\ [Next]_vars => SafeInv'
  BY SafeStep
<1>3. TypeInv /\ SafeInv => EmergencyOnDisk
  <2> SUFFICES ASSUME TypeInv, SafeInv, NEW r \in Restore, Overwriting(r)
               PROVE  /\ work[r].job \notin {NoJob, work[r].source}
                      /\ disk[work[r].job].state = "complete"
                      /\ db.history[r].emergency = work[r].job
                      /\ disk[work[r].job].dump.history[r].status = "RUNNING"
                      /\ disk[work[r].job].uploads # Lost
    BY DEF EmergencyOnDisk
  <2>1. Safe(r) /\ Ahead(r) /\ Packed(r) /\ work[r].at \in {"extract", "clear", "fill", "load"}
    BY DEF SafeInv, Overwriting, Ahead, Packed
  <2>2. work[r].job \in used \ {work[r].source} /\ used \subseteq Job
    BY <2>1 DEF Safe, TypeInv, TypeOK
  <2>3. QED
    BY <2>1, <2>2, ConstantsTyped DEF Safe, Rescues
<1>4. QED
  BY <1>1, <1>2, <1>3, BackupTypes, BackupJobs, PTL DEF Spec

===============================================================================
