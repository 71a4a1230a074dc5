----------------------------- MODULE PlatformMC -----------------------------
(***************************************************************************)
(* For TLC, in one instance and one at a time as in ServicesMC: the timer  *)
(* of the automatic backup (BackupScheduleMC, which this module extends),  *)
(* Active Directory and the file shares it opens, what a browser is told   *)
(* and served, the list of SMTP servers, and of the web pages the session  *)
(* and the date field.                                                     *)
(***************************************************************************)
EXTENDS BackupScheduleMC, FiniteSets, TLC

CONSTANTS
    Fetch,                                    \* TrainingCache
    Task, Save, Pass, Endpoint, MaxRevision,  \* WorkspaceNotices
    Crashes,
    Server, SmtpRequest, Keep,                \* SmtpServers
    Account, Name, Uid, Sync, Profile,        \* DirectorySync
    MaxChange,
    Share, Person, ShareRequest, Dto,         \* FileShareAccess
    MaxEdits,
    Group,                                    \* groups of the directory
    Tab, User, MaxLogins, MaxCalls,           \* BrowserSession
    Years, Today,                             \* DatePicker
    None                                      \* nothing

ASSUME NothingAssumption == None \notin Fetch \cup Name \cup Uid \cup Nat
ASSUME KeepAssumption == Keep \notin BOOLEAN
ASSUME PlatformBoundAssumption == MaxRevision \in Nat /\ MaxChange \in Nat /\ MaxEdits \in Nat

Symmetry == UNION {Permutations(S) : S \in {Task, Account, Save, Name}}

VARIABLE focus

VARIABLES cachedPath, temporaryPath, truncatedBy, complete, fetch, served, fetchCrossed

Cache == INSTANCE TrainingCache WITH crossed <- fetchCrossed

VARIABLES tasks, notices, subscriptions, reached, taskSaves, passes, revision,
          pushes, settled, tasksCrossed, raced, overlapped, senderDied

Notices == INSTANCE WorkspaceNotices WITH
    NoNoticeId <- None, saves <- taskSaves, crossed <- tasksCrossed, died <- senderDied

VARIABLES servers, primary, serverRequests, serversCrossed, marked, unmarked

Smtp == INSTANCE SmtpServers WITH
    Request <- SmtpRequest, requests <- serverRequests, crossed <- serversCrossed

VARIABLES accounts, members, rows, joined, directoryWork, profiles,
          directoryChanges, steady, reused, directoryCrossed

Directory == INSTANCE DirectorySync WITH
    work <- directoryWork, changes <- directoryChanges, crossed <- directoryCrossed

VARIABLES shares, present, groupMembers, shareManagers, shareRequests, grantEdits,
          entitled, lacking, sharesCrossed

MC_Unset == [authMode |-> Keep, allowDownload |-> Keep, isActive |-> Keep, accesses |-> Keep]
\* Grants to the group or to the users, a mode with an access list of its own,
\* and a share that is taken out of use.
MC_Dto == {[MC_Unset EXCEPT !.authMode = "SERVICE_ACCOUNT",
                            !.accesses = [x \in Person \cup Group |->
                                IF x \in Group THEN {"read"} ELSE {"download"}]],
           [MC_Unset EXCEPT !.accesses = [x \in Person \cup Group |->
                                IF x \in Group THEN {"read", "download"} ELSE {}]],
           [MC_Unset EXCEPT !.authMode = "KERBEROS"],
           [MC_Unset EXCEPT !.authMode = "SHARED_ACCOUNT", !.allowDownload = FALSE],
           [MC_Unset EXCEPT !.isActive = FALSE]}

Shares == INSTANCE FileShareAccess WITH
    Request <- ShareRequest, active <- present, members <- groupMembers,
    managers <- shareManagers, requests <- shareRequests, edits <- grantEdits,
    crossed <- sharesCrossed

\* The dtos are valid (file-share.dto.ts), a field of one may be undefined.
ASSUME DtoAssumption ==
    Dto \subseteq [authMode : Shares!Mode \cup {Keep}, allowDownload : BOOLEAN \cup {Keep},
                  isActive : BOOLEAN \cup {Keep}, accesses : Shares!Grants \cup {Keep}]

VARIABLES sessions, token, stored, page, cache, calls, holders, mixed

Session == INSTANCE BrowserSession WITH accounts <- holders

VARIABLES value, chosen

\* The field offers the years 1300 to 1500.  Platform.cfg has the first and the last of
\* them, of which the first is a leap year, a leap year five years after the one before,
\* and one whose last day is today.
ASSUME PickerAssumption ==
    /\ Years \subseteq 1300..1500
    /\ Today \in (1922..2121) \X (1..12) \X (1..31)
    /\ None \notin Int \X Int \X Int

MC_Today == <<2025, 3, 20>>

Picker == INSTANCE DatePicker WITH Empty <- None

scheduleVars == vars
cacheVars == <<cachedPath, temporaryPath, truncatedBy, complete, fetch, served, fetchCrossed>>
noticesVars == <<tasks, notices, subscriptions, reached, taskSaves, passes, revision,
              pushes, settled, tasksCrossed, raced, overlapped, senderDied>>
smtpVars == <<servers, primary, serverRequests, serversCrossed, marked, unmarked>>
directoryVars == <<accounts, members, rows, joined, directoryWork, profiles,
              directoryChanges, steady, reused, directoryCrossed>>
sharesVars == <<shares, present, groupMembers, shareManagers, shareRequests, grantEdits,
                entitled, lacking, sharesCrossed>>
sessionVars == <<sessions, token, stored, page, cache, calls, holders, mixed>>
pickerVars == <<value, chosen>>
platformVars == <<focus, scheduleVars, cacheVars, noticesVars, smtpVars, directoryVars,
                    sharesVars, sessionVars, pickerVars>>

-----------------------------------------------------------------------------
PlatformInit ==
    /\ focus \in {"schedule", "cache", "workspace", "smtp", "directory", "shares",
                  "session", "picker"}
    /\ Init /\ (focus # "schedule" => settings = CHOOSE s \in Settings : TRUE)
    /\ IF focus = "cache" THEN Cache!Init
       ELSE /\ cachedPath = None /\ temporaryPath = None /\ truncatedBy = None
            /\ complete = None /\ fetch = None /\ served = None /\ fetchCrossed = None
    /\ IF focus = "workspace" THEN Notices!Init
       ELSE /\ tasks = None /\ notices = None /\ subscriptions = None /\ reached = None
            /\ taskSaves = None /\ passes = None /\ revision = None /\ pushes = None
            /\ settled = None /\ tasksCrossed = None /\ raced = None
            /\ overlapped = None /\ senderDied = None
    /\ IF focus = "smtp" THEN Smtp!Init
       ELSE /\ servers = None /\ primary = None /\ serverRequests = None
            /\ serversCrossed = None /\ marked = None /\ unmarked = None
    /\ Directory!Init /\ (focus # "directory" => \A a \in Account : accounts[a].name = None)
    /\ IF focus = "shares" THEN Shares!Init
       ELSE /\ shares = None /\ present = None /\ groupMembers = None
            /\ shareManagers = None /\ shareRequests = None /\ grantEdits = None
            /\ entitled = None /\ lacking = None /\ sharesCrossed = None
    /\ IF focus = "session" THEN Session!Init
       ELSE /\ sessions = None /\ token = None /\ stored = None
            /\ page = None /\ cache = None /\ calls = None /\ holders = None
            /\ mixed = None
    /\ IF focus = "picker" THEN Picker!Init ELSE value = None /\ chosen = None

Schedules ==
    /\ focus = "schedule" /\ Next
    /\ UNCHANGED <<focus, cacheVars, noticesVars, smtpVars, directoryVars, sharesVars,
                   sessionVars, pickerVars>>

Caches ==
    /\ focus = "cache" /\ Cache!Next
    /\ UNCHANGED <<focus, scheduleVars, noticesVars, smtpVars, directoryVars,
                   sharesVars, sessionVars, pickerVars>>

Workspaces ==
    /\ focus = "workspace" /\ Notices!Next
    /\ UNCHANGED <<focus, scheduleVars, cacheVars, smtpVars, directoryVars, sharesVars,
                   sessionVars, pickerVars>>

SmtpAdministration ==
    /\ focus = "smtp" /\ Smtp!Next
    /\ UNCHANGED <<focus, scheduleVars, cacheVars, noticesVars, directoryVars,
                   sharesVars, sessionVars, pickerVars>>

Directories ==
    /\ focus = "directory" /\ Directory!Next
    /\ UNCHANGED <<focus, scheduleVars, cacheVars, noticesVars, smtpVars, sharesVars,
                   sessionVars, pickerVars>>

FileShares ==
    /\ focus = "shares" /\ Shares!Next
    /\ UNCHANGED <<focus, scheduleVars, cacheVars, noticesVars, smtpVars, directoryVars,
                   sessionVars, pickerVars>>

Sessions ==
    /\ focus = "session" /\ Session!Next
    /\ UNCHANGED <<focus, scheduleVars, cacheVars, noticesVars, smtpVars, directoryVars,
                   sharesVars, pickerVars>>

DateField ==
    /\ focus = "picker" /\ Picker!Next
    /\ UNCHANGED <<focus, scheduleVars, cacheVars, noticesVars, smtpVars, directoryVars,
                   sharesVars, sessionVars>>

PlatformNext == \/ Schedules \/ Caches \/ Workspaces \/ SmtpAdministration
                \/ Directories \/ FileShares \/ Sessions \/ DateField

PlatformSpec == PlatformInit /\ [][PlatformNext]_platformVars

-----------------------------------------------------------------------------
\* The cache holds and serves whole files (TrainingCache).
ServedIsWhole == focus = "cache" => Cache!ServedIsWhole

\* A task has one notification, about the task as it is (WorkspaceNotices).
NoticeFollowsTask == focus = "workspace" => Notices!NoticeFollowsTask
\* A revision is pushed to a browser once (WorkspaceNotices).
PushedOnce == focus = "workspace" => Notices!PushedOnce
\* What is marked as sent was settled in this revision (WorkspaceNotices).
SentWasSettled == focus = "workspace" => Notices!SentWasSettled

\* There is one primary server, and it is not lost (SmtpServers).
OnePrimary == focus = "smtp" => Smtp!OnePrimary

\* An undisturbed synchronisation mirrors Active Directory (DirectorySync).
MirrorsDirectory == Directory!MirrorsDirectory
\* A row never passes from one account to another (DirectorySync).
IdentityIsStable == Directory!IdentityIsStable
\* An account that was always there is never deactivated (DirectorySync).
SteadyStaysActive == Directory!SteadyStaysActive

\* What a request for a share was answered was right (FileShareAccess).
DecisionWasRight == focus = "shares" => Shares!DecisionWasRight

\* A profile form is saved to the account it came from (BrowserSession).
FormIsOwn == focus = "session" => Session!FormIsOwn

\* The date field holds and shows what was chosen (DatePicker).
PickerShowsPick == focus = "picker" => Picker!PickerShowsPick
=============================================================================
