# Formal models of the AGTPS portal

TLA+ modules, TLC configurations and TLAPS proofs about `apps/api`, the NestJS
service of the portal, and about what the pages of `apps/web` keep between requests.
Paths below are relative to the repository; the models follow the code, and where a
guide says something else, the section *Findings* says so.

The service is one Node.js process. Its state is a PostgreSQL database behind
Prisma, directories on disk, and a few flags in memory. There is no parallelism
inside the process, but every `await` lets another request, another activation of
a timer or the death of the process come in between. So the models split every
handler at its awaits: one action is what runs from one await to the next, together
with the effect of the call that is awaited. The same holds for a tab of the browser.

## 1. Inventory

| Component (under `apps/api/src`) | State | Operations | Hard behaviour | What makes it correct |
|---|---|---|---|---|
| E-mail queue (`notifications`) | rows of `notification_email_queue`, SMTP servers, flag `emailQueueProcessing` | `queueEmail`, `processEmailQueue(Safely)`, `sendQueuedEmail`, `cancelQueuedEmail`, SMTP on/off | a timer, two administrators' requests and the backup centre walk through the same rows; crashes and database errors between the awaits; relays whose answer is lost | no message twice, none given up early or reported wrongly, every one settled |
| Backup centre (`backups`) | `backup_job`, `backup_restore_job`, `backup_setting`, archives, uploads, flag `autoBackupRunning` | manual and automatic backup, retention, `remove`, `restore`, download | long multi-step jobs beside each other; a restore replaces the tables it records itself in; partial failure of `pg_dump`, `tar`, `cp`, `psql` | archives offered are complete, retention never eats the last good one, a restore can be undone and is recorded |
| Backup schedule (`backups`) | `nextRunAt` and the settings | `calculateNextRunAt`, `updateSettings`, start and end of an automatic backup | calendar arithmetic, late and long runs, edits during a run | no slot skipped, none repeated |
| Event dispatch (`notifications`, `announcements`, `meetings`) | announcements, meetings with participants, rules, portal notifications | save and delete, `dispatchEvent` | the dispatch follows the transaction that saves; those to the participants run beside each other; one fails, the rule changes, the row goes | who is to know of an event is told once through each channel of its rule |
| SMTP servers (`notifications`) | servers, primary mark | create, update, delete | two requests that each make their server the primary one | one primary, and never none by accident |
| Web push and workspace (`notifications`, `workspace`) | tasks, their notifications with `sentAt`, subscriptions | save, delete, `syncTaskNotification`, `sendReadyPushNotifications` each minute | look-up then upsert; no guard against overlapping passes; a save resets `sentAt` beside the sender; subscriptions that are gone | a task has one notification, about the task as it is; a revision is pushed to a browser once |
| Polls and surveys (`poll-surveys`) | surveys, questions, responses | create, clone, edit, delete, draft, submit | edits beside submissions; drafts after submissions; answers that cascade | a submitted answer is complete, and what it answered to is not changed |
| Direct communication (`direct-communication`) | managers, conversations, messages | open, reply, close, archive, edit managers | a reply beside a close or another reply; the single CEO | a closed conversation takes late replies only; what was written shows as unread |
| Trainings (`trainings`) | sources, items, file cache, `runningSourceIds` | scheduled and manual synchronisation, reviews, download | two synchronisations of one source; two downloads into one temporary file; interrupted ones | items mirror the source, cached files are whole |
| Directory (`directory`) | directory users, groups, memberships, `scheduledSyncRunning` | scheduled and manual synchronisation, profile changes | flag set after an await; no transaction | what is gone is deactivated, what is there is not; a row stays its account's |
| Authentication (`auth`) | users, people of the directory, links | login, provisioning, the guards' look-up, profile | first login twice at a time; a user is linked one way and looked up another | a first login is not refused for good; the guards find the right person |
| System health (`system-statuses`) | status, `nextCheckAt`, `isChecking` | scheduled and manual check, edit | values read before a slow check and written after it; a pass takes ten and may be abandoned | what is due is checked, a status set by hand stays |
| File shares (`file-shares`) | shares, grants, memberships | edit, list, download | rights merged from three sources, read one after the other while all are edited | an answer was right at some moment of the request |
| Web session (`apps/web`) | token and user in the storage, query cache of each tab, requests under way | login, logout, page changes, the profile form | a cache that outlives the login; late answers; several tabs | nobody's form is saved to another's account |
| Date field (`apps/web`) | a Gregorian date | choice of a Jalali year, month, day | leap years, both ways of the conversion on every choice | the field shows and holds what was chosen |
| Users, roles, content, settings, uploads, audit log | rows | create, read, update, delete | none beyond the database's constraints | constraints of the schema |
| Pages, deployment, schema | | | | not modelled: presentation, scripts, declarations |

How they interact. `dispatchEvent` and the backup centre put rows into the e-mail
queue; the backup centre also calls `processEmailQueue(5)` itself, ignoring the
flag. Announcements, meetings and workspace call `dispatchEvent`; workspace rows
become notifications that the push sender sends. Authentication and the file shares
read what the directory synchronisation writes; a profile change is written by
`auth` to Active Directory, to the portal's user and to the directory user. A
database restore replaces the tables of all of them at once. Where components share
state, one module has both sides: the push sender is with the tasks whose column
`sentAt` it writes, the profile request with the synchronisation it crosses, the
memberships with the requests that read them.

## 2. Modules

| Module | What it is |
|---|---|
| `EmailOutbox` | what the queue promises about one message: an abstract state machine of its fate |
| `EmailQueue` | the queue: rows, workers, relays, crashes; the refinement mapping to `EmailOutbox`; its properties |
| `BackupCenter` | backups, retention, deletion, restore over database, uploads and archives |
| `BackupSchedule` | `calculateNextRunAt` and the timer over a calendar given as constants |
| `EventDispatch` | announcements, meetings and the dispatch of their events |
| `WorkspaceNotices` | tasks, their notifications and the web push sender |
| `SmtpServers` | the primary server |
| `PollSurvey` | surveys, drafts and responses |
| `DirectCommunication` | managers, conversations, replies |
| `TrainingSync`, `TrainingCache` | a training source and its share; one file of it in the cache |
| `DirectorySync` | Active Directory, its copy, and profile changes |
| `PortalAccounts` | portal users and the people of the directory they belong to |
| `SystemHealth` | the scheduler of checks, with fairness |
| `FileShareAccess` | grants and the decision of a request |
| `BrowserSession` | the session, the caches of the tabs and the profile form |
| `DatePicker` | the Jalali calendar's arithmetic and the field over it |
| `EmailQueueMC`, `BackupCenterMC`, `BackupScheduleMC`, `SystemHealthMC` | instances for TLC |
| `ServicesMC` | polls, direct communication, training synchronisation, accounts and dispatch in one instance |
| `PlatformMC` | the backup schedule with cache, workspace, SMTP servers, directory, shares, session and date field |
| `EmailQueueProofs`, `BackupCenterProofs`, `SystemHealthProofs` | the theorems about these components with their TLAPS proofs |
| `ServicesProofs` | those about the components of `ServicesMC`, and about the system it composes |
| `PlatformProofs` | those about SMTP servers, training cache, file shares and session, as instances of `PlatformMC` |
| `DirectorySyncProofs`, `WorkspaceNoticesProofs` | those about these two, which build on `PlatformProofs` |
| `CalendarProofs` | those about the backup schedule and the date field, which also build on it |

`ServicesMC` and `PlatformMC` each hold components that share no state. A variable
`focus`, which no step changes, says which of them a behaviour is about; the others
rest. So an instance explores the sum of its components' states and not their
product, and no interleaving is lost that could matter to a property, since each
property is about one of them.

Definitions that start with the comment *Fault:* are not the code. Each is a
version of the definition it is named after with one plausible mistake; the
properties have been checked to notice it (`mutants` in `PROJECT.json`).

### 2.1 EmailQueue

State and code (`notifications.service.ts`):

| Variable | Code |
|---|---|
| `queue[e]` | the row: `status`, `retryCount`, `maxRetry`, `priority`; `due` says whether `scheduledAt` is null or has passed. Rows are numbered by `createdAt` |
| `active` | servers with `isActive` |
| `processing` | `emailQueueProcessing` |
| `work[w]` | the local variables of one call of `processEmailQueue` or `sendQueuedEmail`: the rows left in its snapshot, the row it is on, the `retryCount` it has read, the servers it has left to try, and the await it stands at |
| `copies`, `rounds`, `faults` | observations: what the relays took, how often all of them refused, how many crashes and rejected database calls there were |
| `requests` | bound on the requests |

A *Ticker* is an activation of the sixty-second timer (`processEmailQueueSafely`),
a *Caller* a request of an administrator or of the backup centre. The test and the
setting of the flag are one action (`Tick`), because there is no await between
them; the `finally` block is in `Stop`. `NoServer` ends the whole pass, as the
exception does. `MarkSent` is apart from `Accept`, because the SENT update is a
call of its own whose rejection the catch block does not see. `cancelQueuedEmail`
looks at no status, and neither does `sendQueuedEmail`.

Left out: which server comes first (any order), the text of messages and errors,
`sentAt`, `lastError`, the audit and delivery logs, writes of which no step reads
anything back. A `createdAt` tie cannot occur in the model.

### 2.2 BackupCenter

| Variable | Code |
|---|---|
| `db` | the database: `backup_job`, `backup_restore_job`, the parts in `backup_setting`, and the version of everything else |
| `uploads`, `disk` | the uploads directory; the archive of each job |
| `work[w]` | the local variables of a request or of an activation of the timer, with the await it stands at; for a restore also its work directory |
| `autoBackupRunning` | the flag of that name |
| `used` | ids given to jobs, so that a restored table does not bring an id back to life for another job |
| `died` | observation: the API process has died before |

An archive holds the database as it was when `pg_dump` read it, with the row of its
own job RUNNING, and `Load` puts exactly that back. So the model shows what a
restore does to the backup centre's own tables. `createManualBackup` is written once
and run by manual requests, by the timer and by a restore for its emergency
backup; `Return` and `Throw` say what its end means to each of them. Nothing
catches what `runAutoBackupIfDue` throws in the timer; the process does not install
a handler for unhandled rejections, so Node ends it (`Die`), with all that it was
doing. Docker starts it again.

Left out: time (whether `nextRunAt` has passed is open: `NotDue` and `StartAuto` are
both possible; section 2.3 has the time), `autoEnabled` (it only keeps the timer from
starting), the sizes and paths of files, mail addresses (whether a notification
throws is a constant).

### 2.3 BackupSchedule

`now`, `settings`, `nextRunAt` and the backup under way with the settings it has
read at its start. Instants are minutes. The calendar (minutes in an hour, hours in
a day, days in a week, days of each month) is given by constants, so that TLC can
check a small calendar of the same shape; `NextMonth` is what JavaScript's
`setMonth` does: it keeps the day of the month and spills into the month after when
the next one is too short. Daylight saving and the seconds, which the code sets to
zero, are left out.

### 2.4 EventDispatch

| Variable | Code |
|---|---|
| `events[x]` | the row of an announcement (`isPublished`) or of a meeting with its participants |
| `rule` | the row of `notification_rule`, one for the three event keys: `isActive`, `portalEnabled`, `emailEnabled`, or none |
| `notices`, `mails` | portal notifications and rows of the e-mail queue, counted by event, save and recipient |
| `work[r]` | a request: what `update` has read (`update`), the look-up of addresses before the dispatch (`lookup`), then for each recipient how far its `dispatchEvent` is (`dispatch`) |
| `told` | observation: the latest save that was to tell somebody, by which channels, and whether the rule or a failure got in its way |

A participant has an address (`Person`), is known by the directory only
(`PortalOnly`), or cannot be told at all (`Unreached`). An announcement is told to
everyone. `NewlyPublished` compares what `update` read with what it writes, so that
two updates that cross may both announce or neither. The portal's notification of a
meeting refers to its row, and is refused when that is gone; no e-mail follows
then. The guards of the dispatch's steps are the switches of the rule as read at
its start. From a queued e-mail on, `EmailQueue` takes over.

### 2.5 WorkspaceNotices

`tasks`, `notices` (id, task, `sentAt`) and `subscriptions` are the tables of one
owner. Each save of a task is a *revision*; a notification carries the revision
whose title and time it has, and `reached` says of which revisions the time has come.
`saves[w]` is a request between its statements: the task is written, the
notification is looked up, upserted by id. `passes[p]` is an activation of the
sender: its batch, the notification it is at and the subscriptions not yet answered.
What `Promise.allSettled` gathers is taken apart into deliveries, refusals and
subscriptions that are gone; deleting one that is gone already throws, nothing
catches it, and the process ends (`Throw`). `raced`, `overlapped`, `crossed`,
`settled` and `pushes` are observations. A task created as done is notified of all
the same, as in the code.

### 2.6 SmtpServers

`servers`, `primary` and the requests. `ClearPrimary` and `Write` are the two
statements of `createSmtpServer` and `updateSmtpServer`; `Fail` may come before either.

### 2.7 PollSurvey

A survey's row with its questions, the responses, and for each request what it has
read. `submitResponse` reads the survey (`BeginSubmit`), reads the participant's
earlier response (`CheckSubmit`), and writes in a transaction (`CommitSubmit`);
`update` reads and tests the lock, then writes in a transaction. Questions are
required or optional; replacing them makes a new *edition*, and the answers to the
old one cascade away. An answer's foreign key makes the transaction fail when its
question is gone. As in the code, drafts and scheduled surveys take responses.

### 2.8 DirectCommunication

The steps of `createConversationReply` are its four awaits: the conversation is
read, the user's role in it, the message is written, the conversation is updated.
The last one sets OPEN and the read flag whatever the conversation says by then.
`validateManagerDto` and the write of a manager are two steps. `unseen`, `disturbed`
and `late` are observations.

### 2.9 TrainingSync and TrainingCache

`syncSource` lists the share, then looks each folder's item up and refreshes or
creates it, then archives the rest. `runningSourceIds` and `due` are what the timer
looks at; a manual synchronisation looks at neither. `alone` says which
synchronisations nothing has crossed. The death of the API is not an action of its
own: it leaves what failures of all synchronisations leave.

`TrainingCache` has one file under two names, the cached and the temporary one, each
naming an inode, as `rename` moves inodes and `smbclient` writes to the one it opened.

### 2.10 DirectorySync

Active Directory (`accounts`, `members`) changes beside the synchronisations. A
synchronisation is: the search, per account a look-up by GUID or name and a save,
per group its memberships deleted and created anew, and at last the deactivation of
what was not listed. `profiles` are the requests of `updateProfile` between Active
Directory and the directory user's row.

### 2.11 PortalAccounts

Users by name, the person each is linked to, and people as the synchronisation
writes them. A login finds the linked user, or else a free name, a free address, and
creates (`FindLinked`, `FindUsername`, `FindEmail`, `CreateUser`), with the unique
indexes deciding. The guards' look-up by name or address is in `GuardsFindPerson`.
A user's name is a pair of a person's name and whether the domain was added to it,
`<<name, "bare">>` or `<<name, "@domain">>`; an address made up for a person without
one or with a taken one is a pair of the person and its form.

### 2.12 SystemHealth

The systems in the order of `nextCheckAt` (`schedule`) and how many of them are due.
PostgreSQL sorts systems that were never checked last, where `take: 10` cuts them off.
A pass is `Tick`, then `Visit` and `Answer` for each system; one that was deleted
meanwhile throws and ends the pass (`Finish`). What a check finds is left open.

### 2.13 FileShareAccess

Shares with their grants, people in the directory, memberships, managers. A request
is three reads: the permissions with its token, the share, the directory user with
the groups; `ResolveAccess` is the code's merge, `Entitled` says independently of it
who has the right at a moment.

### 2.14 BrowserSession

| Variable | Code |
|---|---|
| `token`, `stored` | `access_token` and `user` in the storage, which all tabs share (`lib/auth.ts`) |
| `page[t]`, `cache[t]` | the page of a tab; the data of the query `["auth", "me"]` in its memory, and whether they are younger than `staleTime` |
| `calls` | requests of a tab: the guard's and the query's `getMe`, and the form's save with the data it sends |
| `accounts` | whose data each account holds |

A logout and a login go from page to page without a load, so that the cache outlives
them; a load drops it, and so does 401 in `lib/api.ts`, which clears whatever session is
stored by then. A save whose tab has loaded another page may still reach the account
(`Left`, `WriteUnanswered`); its answer reaches nobody. The cookie is written together with the storage and left out.

### 2.15 DatePicker

`jalCal`, `g2d`, `d2g`, `j2d` and `d2j` with JavaScript's division toward zero, and
the three choices of the field. The property compares with both calendars by their
rules: the Gregorian leap years, and eight leap years in each 33 for the Jalali
calendar. Between 1300 and 1500, the years the field offers, both rules for Jalali
leap years agree in every year.

## 3. Runs

| Run | Instance | Shows |
|---|---|---|
| `email_timer` | 2 rows, 2 relays, timer only, 2 faults, priorities {1,2}, `maxRetry` {0,2} | `TypeOK`, `AtMostOneCopy`, `RoundsWithinLimit`, `FailedMeansUndelivered`, `ImplementsOutbox` |
| `email_overlap` | 2 rows, 1 relay, the timer and a request, 1 fault, lost answers, fairness | `SentMeansAccepted`, `NotFailedEarly`, `SendingIsHeld`, `EveryMailSettles` |
| `email_crash` | 1 row, 1 relay, 1 crash | `AutomaticProcessing` is violated |
| `backup_ops` | 2 jobs, a manual request, 2 activations, a deletion, changing settings, failing tools and mails, deaths, fairness | `OneAutoBackup`, `SuccessHasArchive`, `EveryBackupEnds` |
| `backup_keep` | 4 jobs, 2 of them kept, 2 overlapping activations, a manual request, crashes | `RetentionKeeps` |
| `backup_restore` | 3 jobs, a manual request, a restore of either part or both, users' changes, failing tools and mails, crashes | `DownloadIsComplete`, `EmergencyOnDisk`, `UploadsRestoreIsRecorded` |
| `restore_history` | 2 jobs, a manual request, a full restore, nothing fails | `RestoreIsRecorded` is violated |
| `restore_pruned` | 3 jobs, a manual request, the timer, a restore of the uploads, failing tools | `Recoverable` is violated |
| `schedule_month_end` | monthly on day 5, punctual, no edits | `NextRunIsNextSlot` is violated |
| `services`: polls | 2 surveys, 2 participants, 2 submissions, 1 edit, 2 editions of questions, deadlines, removals, clones | `SubmittedIsComplete`, `SensitiveFieldsHold` |
| `services`: talk | 2 managers, 1 conversation, 2 people, 2 replies, 2 saves, 1 change of status | `OneCeo`, `UnreadShows`, `ShutTakesLateRepliesOnly` |
| `services`: training | 2 folders, 2 activations of the timer, 1 manual synchronisation, 2 changes of the share or of items, failures | `SyncMatchesListing` |
| `services`: portal | 2 people, 1 local account with a name a person may have, 2 logins, 2 changes of people or users | `LoginSucceeds`, `GuardsFindPerson` |
| `services`: dispatch | 1 announcement or 1 meeting with up to 3 participants, 2 requests, 3 saves, 1 change of the rule, 1 failure or crash | `ToldOnce` |
| `platform`: schedule | 7 settings, months of 3 to 5 days, backups up to 13 minutes late (a day has 12) and 6 long (an hour has 4), edits at any time | `SlotsRunOnce` |
| `platform`: cache | 1 file, 3 requests, failing downloads | `ServedIsWhole` |
| `platform`: workspace | 2 tasks, 2 saves, 2 passes of the sender, 1 browser, 1 crash | `NoticeFollowsTask`, `PushedOnce`, `SentWasSettled` |
| `platform`: smtp | 3 servers, 2 requests, failures | `OnePrimary` |
| `platform`: directory | 2 accounts, 2 names, 1 group, 2 synchronisations, 1 profile change, 2 changes in Active Directory, failures | `MirrorsDirectory`, `IdentityIsStable`, `SteadyStaysActive` |
| `platform`: shares | 1 share, 2 people, 1 group, 1 request, 3 edits of shares, roles, people or memberships | `DecisionWasRight` |
| `platform`: session | 2 users, 2 tabs, 2 logins, 2 requests under way | `FormIsOwn` |
| `platform`: picker | the first and last year offered, a leap year five years after the one before, one whose last day is today; every month and day | `PickerShowsPick` |
| `system_health` | 3 systems where a pass takes 2, 1 manual check, 4 edits or crashes, fairness | `ManualStatusStays`, `DueIsChecked`, `NewIsChecked` |

### What each property is for

* `ImplementsOutbox`, `AtMostOneCopy`, `FailedMeansUndelivered` (timer alone, no
  lost answers): the flag, the snapshot and the order of the updates together keep
  a message from being sent twice, from being sent after it was given up, withdrawn
  or lost, and from being reported FAILED when it went out; whatever is cancelled,
  crashes or is rejected in between. With requests beside the timer these do not
  hold: a request sends a row that the timer's worker is just sending. That
  is why they are stated for the timer alone, and what remains true with requests
  is stated on its own:
* `SentMeansAccepted`, `NotFailedEarly`, `SendingIsHeld`: with any overlap, SENT is
  never invented, counts may be lost but not invented, and until something fails a
  row in SENDING has a worker.
* `EveryMailSettles`: no message waits for ever if some server is active from
  some time on and there is no fault. `AutomaticProcessing` is the same without the
  condition on faults, which is what the guide promises.
* `OneAutoBackup`: `autoBackupRunning` does its work provided that `getSettings` takes
  less than the sixty seconds between two activations (`SlowDb = FALSE`); the
  flag is tested before that await and set after it. With `SlowDb = TRUE` TLC finds
  two automatic backups at a time, and `backup_keep` checks retention under just that.
* `RetentionKeeps`: two retention passes and manual backups together never give up
  a restorable archive that is among the newest `Keep`. Without deletions by hand
  (they are meant to give archives up) and without failing notifications: those turn
  a finished backup FAILED (`createManualBackup` awaits the mail inside its
  try block), and a FAILED backup cannot be restored.
* `EmergencyOnDisk`: everything the interface says about the emergency backup, at the
  very moment it is needed. It is checked without deletions and retention during the
  restore; both can delete the emergency backup and nothing in the code prevents it.
* `SlotsRunOnce` names the two conditions under which the code does skip a slot:
  the backup ended outside the hour, day or month of its slot (a daily backup that
  crosses midnight skips the new day's, because the successor is forced from the
  time of its end), or its settings were edited while it ran (the value computed
  from the old ones overwrites the new). `Fits` excludes the days 29 to 31 of monthly
  backups, which `schedule_month_end` shows. A weekly backup's period is its day. What
  holds without a condition is that a finished backup is not run for again.
* `ToldOnce`: through overlapping saves, each with dispatches to several recipients
  beside each other, each who is to know has exactly one portal notification and
  one e-mail of the save that concerns them; one that the rule switches off has none.
* `NoticeFollowsTask`, `PushedOnce`, `SentWasSettled`: saving resets the very column
  the sender marks. The three say what remains of "one push per revision" while
  saves, deletions, subscriptions and passes come in any order.
* `OnePrimary` tells the loss of the mark by a failure or a user from one by the
  code itself.
* `SubmittedIsComplete` relates answers to the questions as they are at any later
  time; `SensitiveFieldsHold` says that nobody's submitted answers are to
  questions, anonymity or voting rules that were changed afterwards.
* `UnreadShows` and `ShutTakesLateRepliesOnly` follow a reply over its four awaits;
  `OneCeo` a manager's row over any edits.
* `SyncMatchesListing` and `MirrorsDirectory` compare a synchronisation's result with
  what it listed, from every state that earlier ones, failed or crossed, can have
  left. `IdentityIsStable` and `SteadyStaysActive` hold for crossing ones too.
* `LoginSucceeds` is about people who are renamed, lose and get addresses, and log in
  for the first time in that state: the names and addresses that earlier logins left
  must not stop them. `GuardsFindPerson` says what the guards' look-up by name or
  address is good for: it finds the person of everybody who has kept the name, whose
  name nobody else and no local account has, and whose address was never another's.
  It tests how users are named and given addresses when they are provisioned, and how
  that lasts; for the people it leaves out the look-up does go wrong.
* `DecisionWasRight`: the reads of a request are not of one moment, and still its
  answer is one that some moment of the request justified. The three reads can only
  be combined because the share and the permissions did not change (`crossed`)
  while people and memberships, read last and at once, may.
* `DueIsChecked`, `NewIsChecked`: no system waits for ever behind the others; a new one
  can, as long as ten old ones are due at each pass, and only then.
* `FormIsOwn`: the token, the stored user, the caches and late answers agree on whose
  data a form holds, unless somebody logs in while a tab still has another's.
* `PickerShowsPick`: three conversions on each choice, over leap years at both ends.

Several properties except what *crosses*: two requests that both read before either
writes. The code has nothing against these crossings. Without the exception TLC finds
each of the properties violated; with it they say what remains true beside the
race: one request after another, with failures and crashes between two steps and,
where the exception is about single requests or rows, what a crossing leaves for those
that come after it. The exceptions are observations, which no action reads.

They are of two kinds. Most are about the row, the request or the person that crossed,
and the property still holds for the others: `crossed` of the surveys, downloads, file
shares, logins, tasks, synchronisations and health checks, `raced`, `disturbed`, `late`
and `alone`. Some are flags after which a property says nothing more: `crossed` of
`DirectCommunication` (`OneCeo`) and of `SmtpServers`, `overlapped` (`PushedOnce`),
`reused` of `DirectorySync` (`IdentityIsStable`) and `mixed` of `BrowserSession`
(`FormIsOwn`). The last two are not about crossings at all: a name may pass from one
account to another, and a user may log in after another, one step after the other.
Where a document of the repository claims more than a property with its exception,
section 5 says so.

The `TypeOK` of the components in `ServicesMC` and `PlatformMC`, of `SystemHealth`
and of the backup modules have been checked as invariants of the same instances.
They are not in the configurations, where every invariant costs time on each state.
Most of them are proved as the first part of an inductive invariant (section 4);
that of `SystemHealth` is model-checked in part (its rows and checks are proved, its
timetable is not).

### Bounds, and why they are enough

Two rows are enough for one worker to leave a batch in the middle, for priorities to
matter and for a snapshot smaller than the queue (`TimerLimit = 1`); two servers for
a refusal followed by an acceptance; two activations for a second one to come while
the first is alive, and a timer worker with a request for two walks to overlap at every
pair of awaits (for three and more the safety properties are proved, section 4).
`maxRetry` 0 and 2 are the edge and
the smallest value with a retry. Two faults let a second one hit what the first left.
Four jobs with two kept are the least with two archives to prune and two to keep; three
jobs let a restore have its source, its emergency backup and a backup beside
it. `MaxWrites = 1` tells an archive taken before a change from one taken after.
The schedule's clock runs 100 minutes, eight days over two months and into the third;
the calendar has short months beside long ones. The field's years are the first and the
last of the list, a leap year that comes five years after the one before, and the year of
which today is the last day (for all years the property is proved, section 4).

In `services` and `platform`, two requests of a kind are what it takes for two to
cross; where a third matters (a crossing and what comes after it) there are three:
synchronisations of a source, downloads of a file, SMTP servers. Three saves of an
event let an announcement be published, withdrawn and published again, or a meeting
be saved beside the dispatches of two earlier saves. Two folders, accounts or
managers are the least with one that is there and one that is not.

`ServicesMC` and `PlatformMC` have the constants of each component apart, so that the
theorems are about sets of any sizes. In the `.cfg` files components that are not
explored together are given equal sets of ids, people, requests and names, and these sets
are symmetric: no definition tells their members apart.

A run without deadlock check is one in which all requests have been made.

### Fairness

`EmailQueue`: weak fairness of each worker's own steps (the event loop goes on with a
resolved promise, `sendMail` has timeouts and so always answers one way or
the other), of the timer as a whole (`setInterval`) and of time passing. Nothing
forces a relay to accept, an administrator to act, a fault to happen. A
server that is switched off now and then for ever may abort every pass at the wrong
moment, so `EveryMailSettles` asks for one that is active from some time on.
`BackupCenter`: weak fairness of each call's own steps, tools included (each
ends, with success or not); the timer and requests are not forced.
`SystemHealth`: weak fairness of the timer, of the pass's own steps (each check has a
timeout) and of time; edits and crashes are bounded and not forced.
The other modules state safety only.

## 4. Proofs

Every theorem is about all values of the constants that satisfy the assumptions of the
modules: any number of rows, requests, workers, people, files, edits and faults. What a
theorem assumes beyond that is in the tables. Each was checked by TLC before.

A component of `PlatformMC` or `ServicesMC` has two theorems. One is about the component
by itself (`Smtp!Spec => []Smtp!OnePrimary`). The other is about the system that the run
checks (`PlatformSpec => []OnePrimary`): a step of the system is a step of the component
or leaves it alone (`PlatformStep`, `ServicesStep`), and where the component rests unless
`focus` is on it, its invariant is proved under that condition (`PortalInFocus`).

### Theorems

E-mail queue (`EmailQueueProofs`):

| Theorem | Assumes | Statement |
|---|---|---|
| `TypeCorrect` | | `Spec => []TypeOK` |
| `SentIsAccepted` | | `Spec => []SentMeansAccepted` |
| `FailedIsEarned` | | `Spec => []NotFailedEarly` |
| `SendingHasWorker` | | `Spec => []SendingIsHeld` |
| `TimerSendsOnce` | `Caller = {}`, `~AnswersLost` | `Spec => []AtMostOneCopy` |
| `FailedIsUndelivered` | same | `Spec => []FailedMeansUndelivered` |
| `RoundsAreBounded` | same | `Spec => []RoundsWithinLimit` |
| `QueueImplementsOutbox` | same | `Spec => ImplementsOutbox` |

Backup centre (`BackupCenterProofs`):

| Theorem | Assumes | Statement |
|---|---|---|
| `BackupTypes`, `BackupJobs` | | `Spec => []TypeInv`, `Spec => []JobInv` |
| `OneAutoBackupHolds` | `~SlowDb` | `Spec => []OneAutoBackup` |
| `UploadsRestoreIsRecordedHolds` | | `Spec => []UploadsRestoreIsRecorded` |
| `SuccessHasArchiveHolds` | no restore of the database | `Spec => []SuccessHasArchive` |
| `DownloadIsCompleteHolds` | one restore at most | `Spec => []DownloadIsComplete` |
| `RetentionKeepsHolds` | no deletion by hand, no failing notification, no restore of the database | `Spec => RetentionKeeps` |
| `EmergencyOnDiskHolds` | no automatic backup, no deletion, one restore at most | `Spec => []EmergencyOnDisk` |

Other components, each without assumptions:

| Component | Theorem about the component | Theorem about the system | Property |
|---|---|---|---|
| SMTP servers | `SmtpOnePrimary` | `OnePrimaryHolds` | `OnePrimary` |
| Training cache | `CacheServesWhole` | `ServedIsWholeHolds` | `ServedIsWhole` |
| File shares | `SharesDecideRight` | `DecisionWasRightHolds` | `DecisionWasRight` |
| Web session | `SessionFormIsOwn` | `FormIsOwnHolds` | `FormIsOwn` |
| Directory | `DirectorySteadyStaysActive` | `SteadyStaysActiveHolds` | `SteadyStaysActive` |
| | `DirectoryIdentityIsStable` | `IdentityIsStableHolds` | `IdentityIsStable` |
| | `DirectoryMirrors` | `MirrorsDirectoryHolds` | `MirrorsDirectory` |
| Workspace, push | `NoticesFollowTasks` | `NoticeFollowsTaskHolds` | `NoticeFollowsTask` |
| | `NoticesArePushedOnce` | `PushedOnceHolds` | `PushedOnce` |
| | `SentNoticesWereSettled` | `SentWasSettledHolds` | `SentWasSettled` |
| Polls | `PollSubmittedIsComplete` | `SubmittedIsCompleteHolds` | `SubmittedIsComplete` |
| | `PollSensitiveFieldsHold` | `SensitiveFieldsStay` | `SensitiveFieldsHold` |
| Direct communication | `TalkOneCeo` | `OneCeoHolds` | `OneCeo` |
| | `TalkUnreadShows` | `UnreadShowsHolds` | `UnreadShows` |
| | `TalkShutTakesLateRepliesOnly` | `ShutTakesLateRepliesOnlyHolds` | `ShutTakesLateRepliesOnly` |
| Training source | `TrainingSyncMatchesListing` | `SyncMatchesListingHolds` | `SyncMatchesListing` |
| Portal accounts | `PortalLoginSucceeds` | `LoginSucceedsHolds` | `LoginSucceeds` |
| | `PortalGuardsFindPerson` | `GuardsFindPersonHolds` | `GuardsFindPerson` |
| Event dispatch | `DispatchToldOnce` | `ToldOnceHolds` | `ToldOnce` |
| Backup schedule | `ScheduleSlotsRunOnce` | `SlotsRunOnceHolds` | `SlotsRunOnce` |
| Date field | `PickerCorrect` | `PickerShowsPickHolds` | `PickerShowsPick` |
| System health | `ManualStatusHolds` | | `ManualStatusStays` |

`RoundTrip` (`CalendarProofs`) is about the conversions without the field: each of the
73,414 dates of the Jalali calendar from 1300 to 1500 becomes a date of the Gregorian
calendar, the same day by the rules of both, and comes back as it was.

### What they assume

The assumptions of a theorem are conditions the property needs. With a Caller, or with
a relay that takes a message and whose answer is lost, TLC finds duplicates at once. With
`SlowDb` the flag is tested an activation too early. A database restore brings rows back
whose archives are gone, so that SUCCESS says nothing of the disk and nothing of what
retention may give up (`SuccessHasArchive`, `RetentionKeeps`); with two restores at a time
one may load the tables that the other has just lost. What `RetentionKeeps` and
`EmergencyOnDisk` leave out is told with the properties in section 3, and the runs that
check them leave out the same.

The constants' own assumptions are their types and what makes the values of one
distinct from those of another: ids of database tables are not shared between kinds
(`WorkerAssumption`, `EventAssumption`), an absent value is none of the values
(`NothingAssumption`), a field left out of a request is none of the field's values
(`KeepAssumption`, `SurveyAssumption`), requests pass the validation of their DTO
(`DtoAssumption`, `SurveyAssumption`, `EventAssumption`), bounds are numbers. The bounds
on edits, saves and faults are arbitrary, so a theorem is about every number of them.

The calendar of the backup schedule is any with months of one day or more in which a month
is left for `setMonth` to spill into (`CalendarReach`): the list of months is finite, the
calendar of JavaScript is not, and the clock stops before the list ends. Nothing relates the
lengths of months; a month may be much shorter than the one before. The date field's
years are those of its list and today is a day of the years 1922 to 2121
(`PickerAssumption`), all of whose days have a Jalali date of those years.

### The arguments

None of the properties is inductive. What the invariants add:

*E-mail queue.*

* `SentInv` adds that a worker about to write SENT has seen its message accepted.
* `CountInv` adds that the count a worker has read is covered by rounds that took
  place; so is that count plus one, once its own round has ended.
* `SendingInv` puts the worker that holds a row in SENDING at one of the two awaits
  at which it will still write the row; being in a batch would not be inductive.
* `TimerInv` is why the flag works: a worker that is awake implies the flag and is the
  only one (`OneAwake`); what it has ahead was waiting when it took its snapshot and
  only a cancellation has touched it since (`BatchInv`, `RelayInv`); and a row with
  a copy is at `settle` or has left the waiting states for ever (`CopyInv`).
* `RoundsInv` relates the rounds of a row to its count, and to the count its one worker
  holds.
* `OutboxInv` adds `HeldInv` (a row in SENDING that nobody holds is lost). From it
  `FateFacts` says in terms of the row what each fate is, `StepMoves` what one
  step can do to each row, and `FateStep` that these moves are transitions of
  `EmailOutbox`. A crash maps to a step in which several messages are lost.

*Backup centre.* `BackupStep` first sorts the actions into a
dozen classes (a worker dumps, copies, marks, retires a job, loads, goes on, dies ...),
and each invariant is proved for the classes.

* `TypeInv` adds to the types what each place of a worker says of its variables.
* `JobInv`: two workers never make one job, and no snapshot of the database, not one in
  an archive either, calls a job finished that is still being made. It is about all
  snapshots because a restore makes any of them the database.
* `FlagInv`: while the flag is clear no activation is past its look at the settings.
* `SealedInv`: no snapshot calls a job finished whose archive is neither gone nor
  complete. When the tables are lost in the middle of a restore this may fail for a
  backup that runs, but then nothing puts the tables back any more.
* `RetiredInv`: a job whose path was ever written is made by nobody; so its archive can
  only go. `EnoughInv`: whatever a worker is to prune has `Keep` newer archives that
  can be restored, and will have (`OutdatedIsEnough`), although the worker's list was read
  long ago and other workers prune as well.
* `ChronicleInv` and `SafeInv` say for each await of a restore what the history, the
  emergency job and its archive hold by then, and that no other worker touches them.

*`PlatformMC`.*

* SMTP (`SmtpInv`): unless requests crossed, one request at a time is for the primary
  server, and once it has cleared the marks there is none but its own.
* Cache (`CacheInv`): an inode under the temporary name has been given to nobody, and a
  download that is by itself was the last to truncate it.
* Shares (`SharesInv`): what a request has read is so still, unless crossed.
  `ResolveIsRight` shows that the code's merge of the three sources of rights, reduced to
  what it grants, is what `Entitled` says.
* Session (`SessionInv`): unless mixed, the storage, the caches of all tabs and all
  requests a tab waits for are of the one who logged in last; a save on its way, its tab
  there or not, sends its session's own data.
* Directory: a steady account is in every list that decides about it (`SteadyInv`); as long
  as no name is reused, a row under an account's name is the account's, in the tables, in
  the lists and in what a synchronisation has found (`IdentityInv`); a synchronisation that
  nothing crossed has mirrored the accounts it is through with and filled the groups it
  is through with (`MirrorInv` with `Progress`).
* Workspace: a revision belongs to one save until its notification is written, and to
  one notification from then on, in the table and in what the passes hold
  (`RevisionInv`). On it rest `NoticeInv` (the only save of a task found all there was to
  find), `SettledInv` and `PushInv` (what a pass has still to send was not pushed, and what
  was pushed is marked or is being sent).

*`ServicesMC`.*

* Polls (`PollInv`): what a submission has read of the questions is true as long as the
  edition is the same, and an update that has passed the test of the lock is harmless
  to whoever has submitted without crossing it. That nobody holds an edition yet to come
  makes editions tell questions apart.
* Direct communication (`TalkInv`): no save under way will make a second CEO; while a
  manager's reply stands between its two writes, an employee's message crosses it; whoever
  may still write to a conversation that is shut was under way when it was closed.
* Training (`SyncInv`): a synchronisation that nothing crossed is alone, and has mirrored
  the folders it is through with, from whatever items it found.
* Accounts (`PortalInv`): names and addresses of people, users and logins are tied by the
  history of who had them; with it, what a login has looked up stays free unless
  crossed, for both forms of a name.
* Dispatch (`DispatchInv`): one request at most tells of the latest save of an event, all
  its audience is among the recipients it has set out with, and how much each of them
  has been told fits the stage of its dispatch (`StageHolds`); when no request does, all
  have been told. Nothing is of a save yet to come (`SavesArePast`), so a new save starts
  with nothing told. Steps are one of four kinds for each event: it rests, is told of anew,
  goes on, ends.

*System health* (`HealthInv`): a check under way is of a system that is checked
automatically, unless the system was edited since the check read it.

*Calendars* (`CalendarProofs`). Both components add up the days of many months or years.
The library's induction takes an operator as a parameter, which no prover instantiates;
`SetInduction` says the same of a set, and follows from < being well-founded. By it a
recursive function has the values its definition names (`MonthStartDef`, `LeapJDef`),
months do not overlap, and counts of leap years grow as the years do.

* Backup schedule: each of the four frequencies has a candidate and a successor, both slots,
  with no slot between them and the present (`Advances`, shown frequency by frequency);
  `calculateNextRunAt` takes the first of the two that lies ahead, or the
  successor when it is forced. For monthly backups the day `setMonth` spills to lies in a
  later month, and in the next one if every month has the day.
* Date field: `jalCal`, `g2d`, `d2g` and `j2d` are brought into closed forms.
  By induction over the years their arithmetic counts the leap years of the two rules
  (`NowruzCount`, `MarchCount`), so that Nowruz is always on 20, 21 or 22 March
  (`NowruzInMarch`); hence `d2j` starts from the right of two years. `PickerInv`
  says that the field holds what was asked for, cut to the month's length.

The proof that a step keeps an invariant has one step per action. Proofs have also
corrected the models: the type of a poll's update did not admit fields left out, and
the counters of `EventDispatch` were typed with a bound that holds for two requests only.

### Only model-checked

* Liveness (`EveryMailSettles`, `EveryBackupEnds`, `DueIsChecked`, `NewIsChecked`): liveness
  under fairness is beyond TLAPS.
* The types of `SystemHealth`'s timetable: `SelectSeq`, with which a system leaves it and
  those due are taken from it, is a name to tlapm, with neither a definition nor a theorem.
* The properties of the runs that expect a violation.

A convention of the modules: an `EXCEPT` that changes two fields of one element is
written `![w] = [@ EXCEPT !.a = ..., !.b = ...]` with the old values spelt out, as
tlapm 1.4.5 does not translate two paths under one index, nor an inner `@`, as
TLC does.

## 5. Findings

1. *A crash leaves a message SENDING for ever* (`email_crash`;
   `notifications.service.ts:513`). An administrator can still send the row by hand.
2. *A restore of the database erases its own record* (`restore_history`;
   `backups.service.ts:706`): the dump holds `backup_restore_job` and `backup_job` as
   they were when it was taken. The restore has happened, the request answers with
   an error, and neither the restore nor its emergency backup is in the lists.
3. *A failed restore of the uploads, then an automatic backup, then retention*
   (`restore_pruned`; `backups.service.ts:697`, `:479`, `:562`): a backup of a directory
   that is missing is SUCCESS and pushes out the archives that held the uploads.
4. *A monthly backup on one of the last days skips short months*
   (`schedule_month_end`; `backups.service.ts:639`).

For each of these a run has TLC find the trace. Three more are what a property of
`services` or `platform` excludes; TLC finds them when the exception is taken out of it:

5. *A row of the directory passes to another account* (`IdentityIsStable` without
   `reused`; `directory-sync.service.ts:148`): the synchronisation looks for a row by GUID
   or by user name and writes the GUID of the account it has listed. An account is
   synchronised, gives up its name or is removed, another takes the name, and the next
   synchronisation makes the first one's row, with the portal user linked to it, the
   second's. Nothing crosses. The technical documentation (line 139) speaks of stable
   `objectGUID` identities.
6. *A closed conversation takes a reply and is open again* (`ShutTakesLateRepliesOnly`
   without `late`; `direct-communication.service.ts:298`), if the reply read it
   before it was closed. The technical documentation (line 62) says that no new reply is
   recorded for ARCHIVED and CLOSED conversations.
7. *There may be two CEOs* (`OneCeo` without `crossed`;
   `direct-communication.service.ts:848`), if each of two saves looks for another CEO before
   either is written. The technical documentation (line 91) allows one record with
   `isCeo=true`, and the code's own message says the same.

Met on the way, and built into the statements of the properties as their conditions:
settings may come to name no part, one legal request at a time, and the automatic
backup then throws out of the timer (`AutoThrows`); a daily backup that crosses
midnight, and settings saved during a backup, skip slots (`SlotsRunOnce`); a
notification that throws makes a finished backup FAILED (`NotifyThrows`); an
overlapping request sends a message twice (the timer-only properties).

In the services and in the web, likewise conditions of properties:

* Two saves of one task, two passes of the sender, two primary servers, two
  downloads of a file, an edit of a survey beside a submission, a publication beside
  another save: each goes wrong when both read before either writes.
* A subscription that two passes delete ends the API (`Throw`).
* A failed dispatch is never taken up again; a meeting that is saved without its
  participants tells nobody, and its earlier e-mails stay when it is deleted. Invitations
  go out whether or not the meeting is published.
* A new system waits while ten others are due at each pass.
* An update of a Kerberos share that leaves the mode out may give it grants, which
  are in force as soon as the mode changes.
* After a logout and a login in one tab, the profile form may show and save the data
  of the user before, for up to a minute; a late 401 of an older token clears the
  newer session; a late `getMe` stores the earlier user. There is no run for it
  because `FormIsOwn` without its exception shows it at once.

Met and not modelled: files added to the folder of a *published* training item are
shown without a review (`trainings.service.ts:605`, against
`docs/portal-user-admin-guide-fa.md:388`), and a cached file is never refreshed when
the share's changes (`:731`); marking a notification to everyone as read marks it for
everyone (`notifications.service.ts:662`); the date field takes the day in UTC for
today (`PersianDateInput.tsx:27`); a rescheduled announcement keeps the time of its
first notification; `jwt.strategy.ts` accepts the token of a user who is gone.

## 6. Plan

Done, in the order of importance: the e-mail queue with its abstract specification,
the backup centre, the backup schedule, the services, the web session and the date
field as models with their runs; then the proofs of section 4, which have every safety
property of the runs that are to pass. What is left is beyond the provers: the four
liveness properties, and the types of `SystemHealth`'s timetable.

The modules have no recursive operators, so that they can be proved about.
`DatePicker` and `BackupSchedule` use recursive functions only.

## 7. Not modelled

Rendering of templates, encryption, tokens, SMB and LDAP transfers, file uploads and
plain create/read/update/delete modules: input and output, or single statements
whose consistency the database's constraints carry. The pages of the web interface show
what the API answers and send what their forms hold; they are most of the repository's
lines and have, beyond the session and the date field, no state whose order could go
wrong. In the modelled services: who may read what in the queries, the progress of
training viewers (`upsertProgress`), the counters and the history of health checks,
the reminders of meetings, notes, units and managers of the directory, the limits of a
listing (500 folders, 5000 files) and of the sender's batch (25). `PROJECT.json` lists
each component with what is left out and why.
