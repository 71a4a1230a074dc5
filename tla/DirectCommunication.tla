------------------------ MODULE DirectCommunication ------------------------
(***************************************************************************)
(* Messages between employees and managers (direct-communication.service). *)
(* An employee opens a conversation with an active manager, both reply,    *)
(* and the manager or an administrator closes, archives or reopens it.  A  *)
(* reply reads the conversation, checks, writes the message and only then  *)
(* updates the conversation; saving a manager validates first and writes   *)
(* later.  Nothing holds what was read.                                    *)
(*                                                                         *)
(* A text is abstracted to who wrote it.  Whether it has a forbidden word  *)
(* is left open (a reply may be refused at that point); the list of words  *)
(* and the encryption of what is stored are data.                          *)
(***************************************************************************)
EXTENDS Naturals, Sequences

CONSTANTS
    Person,        \* portal users
    Keep,          \* an isCeo the request leaves undefined
    Nobody,        \* no user: an anonymous sender, a manager without account
    Manager,       \* the ids of managers
    Conversation,  \* the ids of conversations
    Reply,         \* POST my/conversations/:id/replies requests, each made once
    Save,          \* POST and PUT managers requests, each made once
    MaxStatus      \* bound: how many status changes are asked for

VARIABLES
    managers,       \* the table DirectCommunicationManager
    conversations,  \* the table DirectCommunicationConversation, with messages
    replies,        \* what each reply in progress has read
    saves,          \* the validated dto of each save in progress
    changes,        \* how many status changes were asked for
    unseen,         \* history: an employee wrote since the manager last acted
    disturbed,      \* history: replies crossed or one ended between its writes
    late,           \* history: replies under way when the conversation closed
    crossed         \* history: two saves that set isCeo were under way at once

vars == <<managers, conversations, replies, saves, changes,
          unseen, disturbed, late, crossed>>

-----------------------------------------------------------------------------
Status == {"OPEN", "CLOSED", "ARCHIVED"}
Shut == {"CLOSED", "ARCHIVED"}
ManagerRow == [isActive : BOOLEAN, isCeo : BOOLEAN, portalUser : Person \cup {Nobody}]
ManagerDto == [isActive : BOOLEAN, isCeo : BOOLEAN \cup {Keep}, portalUser : Person \cup {Nobody}]
NoManager == [isActive |-> FALSE, isCeo |-> FALSE, portalUser |-> "none"]
Message == [senderType : {"EMPLOYEE", "MANAGER"}, sender : Person \cup {Nobody}]
Talk == [manager : Manager, mode : {"NORMAL", "ANONYMOUS"}, status : Status,
         sender : Person \cup {Nobody}, isReadByManager : BOOLEAN,
         messages : Seq(Message)]
NoTalk == [status |-> "none"]

Idle == [at |-> "idle"]
Done == [at |-> "done"]
Replying == [at : {"read", "checked", "written"}, of : Conversation, by : Person,
             isManager : BOOLEAN]
Saving == [at : {"validated"}, of : Manager, creates : BOOLEAN, dto : ManagerDto]

Init ==
    /\ managers = [m \in Manager |-> NoManager]
    /\ conversations = [c \in Conversation |-> NoTalk]
    /\ replies = [r \in Reply |-> Idle]
    /\ saves = [v \in Save |-> Idle]
    /\ changes = 0
    /\ unseen = {} /\ disturbed = {} /\ crossed = FALSE
    /\ late = [c \in Conversation |-> {}]

-----------------------------------------------------------------------------
(* Managers.                                                               *)

TalksUnchanged == UNCHANGED <<conversations, replies, changes, unseen, disturbed, late>>

\* Fault: a deactivated CEO does not count.
OtherCeoActive(m) == \E n \in Manager \ {m} : managers[n].isCeo /\ managers[n].isActive

OtherCeo(m) == \E n \in Manager \ {m} : managers[n].isCeo

\* createManager and updateManager up to the write: validateManagerDto.
ValidateManager(v, m, dto) ==
    /\ saves[v] = Idle
    /\ managers[m] = NoManager => \A w \in Save : saves[w].at = "validated" => saves[w].of # m
    /\ dto.isCeo = TRUE => ~OtherCeo(m)
    /\ saves' = [saves EXCEPT ![v] = [at |-> "validated", of |-> m,
                    creates |-> managers[m] = NoManager, dto |-> dto]]
    /\ crossed' = (crossed \/ (dto.isCeo = TRUE /\
            \E w \in Save : saves[w].at = "validated" /\ saves[w].dto.isCeo = TRUE))
    /\ TalksUnchanged /\ UNCHANGED managers

\* The write.  An update whose manager is gone throws.
WriteManager(v) ==
    LET q == saves[v]
        isCeo == IF q.dto.isCeo = Keep THEN managers[q.of].isCeo ELSE q.dto.isCeo
    IN  /\ q.at = "validated"
        /\ managers' = IF q.creates \/ managers[q.of] # NoManager
                       THEN [managers EXCEPT ![q.of] = [q.dto EXCEPT !.isCeo = isCeo]]
                       ELSE managers
        /\ saves' = [saves EXCEPT ![v] = Done]
        /\ TalksUnchanged /\ UNCHANGED crossed

\* A manager with conversations may not be deleted (ON DELETE RESTRICT).
RemoveManager(m) ==
    /\ managers[m] # NoManager
    /\ \A c \in Conversation : conversations[c] # NoTalk => conversations[c].manager # m
    /\ managers' = [managers EXCEPT ![m] = NoManager]
    /\ TalksUnchanged /\ UNCHANGED <<saves, crossed>>

-----------------------------------------------------------------------------
(* Conversations.                                                          *)

ManagersUnchanged == UNCHANGED <<managers, saves, crossed>>

\* createConversation.  The manager is read and the text checked first; that
\* the manager is deactivated before the row is there changes nothing below.
CreateConversation(c, m, p, mode) ==
    LET sender == IF mode = "ANONYMOUS" THEN Nobody ELSE p IN
    /\ conversations[c] = NoTalk
    /\ managers[m].isActive
    /\ conversations' = [conversations EXCEPT ![c] =
           [manager |-> m, mode |-> mode, status |-> "OPEN", sender |-> sender,
            isReadByManager |-> FALSE,
            messages |-> <<[senderType |-> "EMPLOYEE", sender |-> sender]>>]]
    /\ unseen' = unseen \cup {c}
    /\ ManagersUnchanged /\ UNCHANGED <<replies, changes, disturbed, late>>

Held(c, places) == {r \in Reply : replies[r].at \in places /\ replies[r].of = c}

\* updateConversationStatus, by an administrator or, after a check that the
\* conversation is theirs, by the manager.
UpdateConversationStatus(c, status) ==
    /\ conversations[c] # NoTalk
    /\ changes < MaxStatus
    /\ changes' = changes + 1
    /\ conversations' = [conversations EXCEPT ![c] =
           [conversations[c] EXCEPT !.status = status,
               !.isReadByManager = status # "OPEN" \/ conversations[c].isReadByManager]]
    /\ unseen' = IF status = "OPEN" THEN unseen ELSE unseen \ {c}
    /\ late' = [late EXCEPT ![c] =
           IF status = "OPEN" THEN {}
           ELSE IF conversations[c].status = "OPEN" THEN Held(c, {"read", "checked", "written"})
           ELSE late[c]]
    /\ ManagersUnchanged /\ UNCHANGED <<replies, disturbed>>

\* findManagerIdsForUser
IsManager(p, m) == managers[m].isActive /\ managers[m].portalUser = p

\* Fault: an archived conversation takes replies.
ReadConversationArchived(r, c, p) ==
    /\ replies[r] = Idle
    /\ conversations[c] # NoTalk
    /\ conversations[c].status # "CLOSED"
    /\ replies' = [replies EXCEPT ![r] =
           [at |-> "read", of |-> c, by |-> p, isManager |-> FALSE]]
    /\ ManagersUnchanged /\ UNCHANGED <<conversations, changes, unseen, disturbed, late>>

\* createConversationReply reads the conversation...
ReadConversation(r, c, p) ==
    /\ replies[r] = Idle
    /\ conversations[c] # NoTalk
    /\ conversations[c].status \notin Shut
    /\ replies' = [replies EXCEPT ![r] =
           [at |-> "read", of |-> c, by |-> p, isManager |-> FALSE]]
    /\ ManagersUnchanged /\ UNCHANGED <<conversations, changes, unseen, disturbed, late>>

\* ...then what the user is to it...
CheckAccess(r) ==
    LET q == replies[r]
        isManager == IsManager(q.by, conversations[q.of].manager)
    IN  /\ q.at = "read"
        /\ isManager \/ conversations[q.of].sender = q.by
        /\ replies' = [replies EXCEPT ![r] =
               [at |-> "checked", of |-> q.of, by |-> q.by, isManager |-> isManager]]
        /\ ManagersUnchanged /\ UNCHANGED <<conversations, changes, unseen, disturbed, late>>

\* ...refuses strangers and forbidden words...
RefuseReply(r) ==
    /\ replies[r].at \in {"read", "checked"}
    /\ replies' = [replies EXCEPT ![r] = Done]
    /\ ManagersUnchanged /\ UNCHANGED <<conversations, changes, unseen, disturbed, late>>

\* ...writes the message...
WriteMessage(r) ==
    LET q == replies[r]
        type == IF q.isManager THEN "MANAGER" ELSE "EMPLOYEE"
        talk == conversations[q.of]
    IN  /\ q.at = "checked"
        /\ conversations' = [conversations EXCEPT ![q.of] = [talk EXCEPT !.messages =
               Append(talk.messages, [senderType |-> type, sender |-> q.by])]]
        /\ replies' = [replies EXCEPT ![r] = [q EXCEPT !.at = "written"]]
        /\ unseen' = IF q.isManager THEN unseen \ {q.of} ELSE unseen \cup {q.of}
        /\ disturbed' = IF Held(q.of, {"written"}) = {} THEN disturbed
                        ELSE disturbed \cup {q.of}
        /\ ManagersUnchanged /\ UNCHANGED <<changes, late>>

\* Fault: the reply does not make the conversation unread.
TouchConversationRead(r) ==
    LET q == replies[r] IN
    /\ q.at = "written"
    /\ conversations' = [conversations EXCEPT ![q.of] = [conversations[q.of] EXCEPT
           !.status = "OPEN"]]
    /\ replies' = [replies EXCEPT ![r] = Done]
    /\ late' = [late EXCEPT ![q.of] = {}]
    /\ ManagersUnchanged /\ UNCHANGED <<changes, unseen, disturbed>>

\* ...and updates the conversation, whatever its status is by now.
TouchConversation(r) ==
    LET q == replies[r] IN
    /\ q.at = "written"
    /\ conversations' = [conversations EXCEPT ![q.of] = [conversations[q.of] EXCEPT
           !.status = "OPEN", !.isReadByManager = q.isManager]]
    /\ replies' = [replies EXCEPT ![r] = Done]
    /\ late' = [late EXCEPT ![q.of] = {}]
    /\ ManagersUnchanged /\ UNCHANGED <<changes, unseen, disturbed>>

\* The API dies or the database refuses between the two writes.
LoseReply(r) ==
    /\ replies[r].at = "written"
    /\ replies' = [replies EXCEPT ![r] = Done]
    /\ disturbed' = disturbed \cup {replies[r].of}
    /\ ManagersUnchanged /\ UNCHANGED <<conversations, changes, unseen, late>>

-----------------------------------------------------------------------------
Next ==
    \/ \E v \in Save : WriteManager(v)
    \/ \E v \in Save, m \in Manager, dto \in ManagerDto : ValidateManager(v, m, dto)
    \/ \E m \in Manager : RemoveManager(m)
    \/ \E c \in Conversation, m \in Manager, p \in Person, mode \in {"NORMAL", "ANONYMOUS"} :
           CreateConversation(c, m, p, mode)
    \/ \E c \in Conversation, s \in Status : UpdateConversationStatus(c, s)
    \/ \E r \in Reply :
           \/ \E c \in Conversation, p \in Person : ReadConversation(r, c, p)
           \/ CheckAccess(r) \/ RefuseReply(r) \/ WriteMessage(r)
           \/ TouchConversation(r) \/ LoseReply(r)

Spec == Init /\ [][Next]_vars

-----------------------------------------------------------------------------
\* Rows and the local variables of requests have their types.
TypeOK ==
    /\ managers \in [Manager -> ManagerRow \cup {NoManager}]
    /\ conversations \in [Conversation -> Talk \cup {NoTalk}]
    /\ replies \in [Reply -> {Idle, Done} \cup Replying]
    /\ saves \in [Save -> {Idle, Done} \cup Saving]
    /\ changes \in 0..MaxStatus
    /\ unseen \subseteq Conversation /\ disturbed \subseteq Conversation
    /\ late \in [Conversation -> SUBSET Reply]
    /\ crossed \in BOOLEAN

\* "Only one CEO account can be defined" (validateManagerDto): through any
\* creations, edits and deletions there are not two, unless two requests
\* that name a CEO were validated before either was written.
OneCeo == crossed \/ \A m, n \in Manager : managers[m].isCeo /\ managers[n].isCeo => m = n

\* What an employee wrote since the manager last answered or changed the
\* status shows as unread, unless replies crossed or one lost its second write.
UnreadShows ==
    \A c \in unseen :
        conversations[c].isReadByManager => c \in disturbed \/ Held(c, {"written"}) # {}

\* A closed or archived conversation gets messages only from replies that
\* were already under way when it was closed.
ShutTakesLateRepliesOnly ==
    [][\A c \in Conversation :
          conversations[c].status \in Shut /\ conversations'[c].messages # conversations[c].messages =>
              \E r \in late[c] : replies[r] # replies'[r]]_vars
=============================================================================
