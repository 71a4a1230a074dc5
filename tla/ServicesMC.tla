----------------------------- MODULE ServicesMC -----------------------------
(***************************************************************************)
(* Five services of the API for TLC, in one instance.  They share no       *)
(* variable, so that what one does is independent of the others: a         *)
(* behaviour runs the one in focus and leaves the others at rest, in one   *)
(* initial state or without any (None), and the instance has the sum of    *)
(* their states, not the product.                                          *)
(*                                                                         *)
(* Each component has constants of its own.  In Services.cfg sets of one   *)
(* kind have the same values, and those that stand for ids of rows, for    *)
(* people and for requests are symmetric.                                  *)
(***************************************************************************)
EXTENDS Naturals, Sequences, FiniteSets, TLC

CONSTANTS
    Survey, Voter, Submission, Editor,        \* PollSurvey
    Kind, First, Update, MaxEdition,
    Person,                                   \* people, of the next and of PortalAccounts
    Manager, Conversation, Reply, Save,       \* DirectCommunication
    MaxStatus,
    Folder, File, Scheduled, Manual,          \* TrainingSync
    MaxShareEdits,
    Name, Local, Login, MaxChange,            \* PortalAccounts
    Announcement, Meeting, Invited,           \* EventDispatch
    PortalOnly, Unreached, Everyone, Request,
    Rules, Lists, MaxSaves, MaxTurns, MaxFaults,
    Keep,                                     \* a field left undefined
    None                                      \* nothing

ASSUME KeepAssumption == Keep \notin BOOLEAN
ASSUME ServiceBoundAssumption ==
    /\ MaxEdition \in Nat /\ MaxStatus \in Nat /\ MaxShareEdits \in Nat /\ MaxChange \in Nat
    /\ MaxSaves \in Nat /\ MaxTurns \in Nat /\ MaxFaults \in Nat

Symmetry == UNION {Permutations(S) : S \in {Survey, Person, Save}}

VARIABLE focus

VARIABLES surveys, responses, submissions, surveyEdits, edition, surveyCrossed

\* A running survey with a required question, public or anonymous.
MC_First == [status : {"RUNNING"}, anonymous : {FALSE}, allowVoteEditing : BOOLEAN,
             overdue : {FALSE}, edition : {0}, questions : {{"required"}}]

MC_None == [status |-> Keep, anonymous |-> Keep, allowVoteEditing |-> Keep,
            overdue |-> Keep, questions |-> Keep]
MC_Update == {[MC_None EXCEPT !.status = "CLOSED"],
              [MC_None EXCEPT !.status = "RUNNING", !.overdue = FALSE],
              [MC_None EXCEPT !.anonymous = TRUE],
              [MC_None EXCEPT !.allowVoteEditing = TRUE],
              [MC_None EXCEPT !.questions = {"required"}, !.anonymous = FALSE]}

Poll == INSTANCE PollSurvey WITH
    Participant <- Voter, Change <- Update,
    edits <- surveyEdits, crossed <- surveyCrossed

\* What surveys are created as and the updates asked for are valid.
ASSUME SurveyAssumption ==
    /\ First \subseteq Poll!Row /\ Update \subseteq Poll!Dto
    /\ \A field \in Poll!Status \cup SUBSET Kind : field # Keep

VARIABLES managers, conversations, replies, managerSaves, statusChanges,
          unseen, disturbed, late, managersCrossed

Talk == INSTANCE DirectCommunication WITH
    Nobody <- None,
    saves <- managerSaves, changes <- statusChanges, crossed <- managersCrossed

VARIABLES share, items, due, runningSourceIds, syncWork, shareEdits, alone

Training == INSTANCE TrainingSync WITH
    MaxEdits <- MaxShareEdits,
    work <- syncWork, edits <- shareEdits

VARIABLES people, users, logins, accountChanges, named, mailed, loginsCrossed

Portal == INSTANCE PortalAccounts WITH
    changes <- accountChanges, reached <- mailed, crossed <- loginsCrossed

ASSUME NothingAssumption == None \notin Person \cup Name \cup Portal!Address

VARIABLES events, rule, notices, mails, dispatching, saves, turns, faults, told

MC_Rule(portal) == [isActive |-> TRUE, portalEnabled |-> portal, emailEnabled |-> TRUE]
MC_Rules == {MC_Rule(p) : p \in BOOLEAN}
\* Those who cannot be told, or everybody.
MC_Lists == {Unreached, Invited \cup PortalOnly \cup Unreached}

Dispatch == INSTANCE EventDispatch WITH
    Person <- Invited, work <- dispatching

\* Ids are not used again, and not for an event of the other kind; the rule and the
\* lists of participants are valid.
ASSUME EventAssumption ==
    /\ Announcement \cap Meeting = {}
    /\ Rules \subseteq Dispatch!RuleRow /\ Lists \subseteq SUBSET Dispatch!Participant

pollVars == <<surveys, responses, submissions, surveyEdits, edition, surveyCrossed>>
talkVars == <<managers, conversations, replies, managerSaves, statusChanges,
              unseen, disturbed, late, managersCrossed>>
trainingVars == <<share, items, due, runningSourceIds, syncWork, shareEdits, alone>>
portalVars == <<people, users, logins, accountChanges, named, mailed, loginsCrossed>>
dispatchVars == <<events, rule, notices, mails, dispatching, saves, turns, faults, told>>
vars == <<focus, pollVars, talkVars, trainingVars, portalVars, dispatchVars>>

-----------------------------------------------------------------------------
Init ==
    /\ focus \in {"polls", "talk", "training", "portal", "dispatch"}
    /\ Poll!Init
    /\ Talk!Init
    /\ Training!Init /\ (focus # "training" => share = [f \in Folder |-> {}])
    /\ IF focus = "portal" THEN Portal!Init
       ELSE /\ people = None /\ users = None /\ logins = None /\ accountChanges = None
            /\ named = None /\ mailed = None /\ loginsCrossed = None
    /\ IF focus = "dispatch"
       THEN /\ Dispatch!Init
            /\ \E e \in Dispatch!Event : \* One of them is saved.
                   \A d \in Dispatch!Event :
                       events[d].state = IF d = e THEN "none" ELSE "removed"
            /\ rule # MC_Rule(FALSE)
       ELSE /\ events = None /\ rule = None /\ notices = None /\ mails = None
            /\ dispatching = None /\ saves = None /\ turns = None /\ faults = None
            /\ told = None

Polls ==
    /\ focus = "polls" /\ Poll!Next
    /\ UNCHANGED <<focus, talkVars, trainingVars, portalVars, dispatchVars>>

Talks ==
    /\ focus = "talk" /\ Talk!Next
    /\ UNCHANGED <<focus, pollVars, trainingVars, portalVars, dispatchVars>>

Trainings ==
    /\ focus = "training" /\ Training!Next
    /\ UNCHANGED <<focus, pollVars, talkVars, portalVars, dispatchVars>>

Accounts ==
    /\ focus = "portal" /\ Portal!Next
    /\ UNCHANGED <<focus, pollVars, talkVars, trainingVars, dispatchVars>>

Dispatches ==
    /\ focus = "dispatch" /\ Dispatch!Next
    /\ UNCHANGED <<focus, pollVars, talkVars, trainingVars, portalVars>>

Next == Polls \/ Talks \/ Trainings \/ Accounts \/ Dispatches

Spec == Init /\ [][Next]_vars

-----------------------------------------------------------------------------
\* A submitted response answers every required question (PollSurvey).
SubmittedIsComplete == Poll!SubmittedIsComplete
\* What participants answered to is not changed under them (PollSurvey).
SensitiveFieldsHold == Poll!SensitiveFieldsHold

\* There are never two CEOs among the managers (DirectCommunication).
OneCeo == Talk!OneCeo
\* What an employee wrote shows as unread (DirectCommunication).
UnreadShows == Talk!UnreadShows
\* A closed conversation takes late replies only (DirectCommunication).
ShutTakesLateRepliesOnly == Talk!ShutTakesLateRepliesOnly

\* An undisturbed synchronisation mirrors the share (TrainingSync).
SyncMatchesListing == Training!SyncMatchesListing

\* A first login is stopped only by what crosses it (PortalAccounts).
LoginSucceeds == focus = "portal" => Portal!LoginSucceeds
\* The guards find the person a user is linked to (PortalAccounts).
GuardsFindPerson == focus = "portal" => Portal!GuardsFindPerson

\* Who is to know of an event is told of it once (EventDispatch).
ToldOnce == focus = "dispatch" => Dispatch!ToldOnce
=============================================================================
