----------------------------- MODULE PollSurvey -----------------------------
(***************************************************************************)
(* Polls and surveys (poll-surveys.service.ts).  Administrators create,    *)
(* edit, clone and delete surveys; participants, identified by the hash    *)
(* of a key, save drafts and submit responses.  Both update and            *)
(* submitResponse check what they have read and write in a transaction     *)
(* that looks at nothing again, so each is a request with several steps    *)
(* and everybody else moves between them.                                  *)
(*                                                                         *)
(* Questions are abstracted to their kind, required or optional, and the   *)
(* edition they belong to: replacing the questions of a survey makes new   *)
(* rows, and the answers to the old ones go with them (ON DELETE CASCADE). *)
(* Of the fields locked after participation began, anonymous,              *)
(* allowVoteEditing and the questions are kept; type,                      *)
(* allowMultipleSelection and participantVisibility are treated alike.     *)
(***************************************************************************)
EXTENDS Naturals, FiniteSets

CONSTANTS
    Survey,       \* the ids of surveys
    Participant,  \* the keys participants send
    Submission,   \* POST :id/responses requests, each made once
    Editor,       \* PUT :id requests, each made once
    Kind,         \* of the kinds "required" and "optional", those that occur
    First,        \* what surveys are created as, a set of members of Row
    Keep,         \* a field an update leaves undefined
    Change,       \* the updates editors ask for, a set of members of Dto
    MaxEdition    \* bound: how many times questions are written

VARIABLES
    surveys,      \* the table PollSurvey with its questions
    responses,    \* the table PollSurveyResponse with its answers
    submissions,  \* what each submitResponse in progress has read
    edits,        \* what each update in progress has read
    edition,      \* the last edition of questions written
    crossed       \* history: whose submission and an update crossed

vars == <<surveys, responses, submissions, edits, edition, crossed>>

-----------------------------------------------------------------------------
Status == {"DRAFT", "SCHEDULED", "RUNNING", "CLOSED", "ARCHIVED"}
Row == [status : Status, anonymous : BOOLEAN, allowVoteEditing : BOOLEAN,
        overdue : BOOLEAN, edition : 0..MaxEdition, questions : SUBSET Kind]
NoSurvey == [status |-> "none"]
Response == [status : {"DRAFT", "SUBMITTED"}, named : BOOLEAN, answers : SUBSET Kind]
NoResponse == [status |-> "none"]

Dto == [status : Status \cup {Keep}, anonymous : BOOLEAN \cup {Keep},
        allowVoteEditing : BOOLEAN \cup {Keep}, overdue : {FALSE, Keep},
        questions : (SUBSET Kind) \cup {Keep}]

Idle == [at |-> "idle"]
Done == [at |-> "done"]
Reading == [at : {"item"}, of : Survey, by : Participant, anonymous : BOOLEAN,
            allowVoteEditing : BOOLEAN, edition : 0..MaxEdition, questions : SUBSET Kind]
Checked == [at : {"checked"}, of : Survey, by : Participant, anonymous : BOOLEAN,
            edition : 0..MaxEdition, status : {"DRAFT", "SUBMITTED"}, answers : SUBSET Kind]
Editing == [at : {"checked"}, of : Survey, dto : Change]

Exists(s) == surveys[s] # NoSurvey
Submitted(s, p) == responses[s][p].status = "SUBMITTED"
HasSubmittedResponses(s) == \E p \in Participant : Submitted(s, p)

Init ==
    /\ surveys = [s \in Survey |-> NoSurvey]
    /\ responses = [s \in Survey |-> [p \in Participant |-> NoResponse]]
    /\ submissions = [r \in Submission |-> Idle]
    /\ edits = [e \in Editor |-> Idle]
    /\ edition = 0
    /\ crossed = [s \in Survey |-> {}]

-----------------------------------------------------------------------------
(* Administration.                                                         *)

\* An id that no request in progress knows.
Fresh(s) ==
    /\ surveys[s] = NoSurvey
    /\ \A r \in Submission : submissions[r].at \in {"item", "checked"} => submissions[r].of # s
    /\ \A e \in Editor : edits[e].at = "checked" => edits[e].of # s

Create(s) ==
    /\ Fresh(s)
    /\ edition < MaxEdition
    /\ edition' = edition + 1
    /\ \E first \in First :
           surveys' = [surveys EXCEPT ![s] = [first EXCEPT !.edition = edition + 1]]
    /\ crossed' = [crossed EXCEPT ![s] = {}]
    /\ UNCHANGED <<responses, submissions, edits>>

\* A copy is a draft without deadline, and its questions are new rows.
Clone(s, t) ==
    /\ Exists(s) /\ Fresh(t)
    /\ edition < MaxEdition
    /\ edition' = edition + 1
    /\ surveys' = [surveys EXCEPT ![t] =
           [surveys[s] EXCEPT !.status = "DRAFT", !.overdue = FALSE, !.edition = edition + 1]]
    /\ crossed' = [crossed EXCEPT ![t] = {}]
    /\ UNCHANGED <<responses, submissions, edits>>

\* The responses go with the survey (ON DELETE CASCADE).
Remove(s) ==
    /\ Exists(s)
    /\ surveys' = [surveys EXCEPT ![s] = NoSurvey]
    /\ responses' = [responses EXCEPT ![s] = [p \in Participant |-> NoResponse]]
    /\ UNCHANGED <<submissions, edits, edition, crossed>>

DeadlinePasses(s) ==
    /\ Exists(s)
    /\ ~surveys[s].overdue
    /\ surveys' = [surveys EXCEPT ![s] = [surveys[s] EXCEPT !.overdue = TRUE]]
    /\ UNCHANGED <<responses, submissions, edits, edition, crossed>>

\* Fault: the switch for editing votes is forgotten among the locked fields.
LockedFieldsFewer(s, dto) ==
    {f \in {"anonymous"} : dto[f] \notin {Keep, surveys[s][f]}}
        \cup (IF dto.questions = Keep THEN {} ELSE {"questions"})

\* The fields of the dto that differ from the row while they must not.
LockedFields(s, dto) ==
    {f \in {"anonymous", "allowVoteEditing"} : dto[f] \notin {Keep, surveys[s][f]}}
        \cup (IF dto.questions = Keep THEN {} ELSE {"questions"})

\* update up to its transaction: the survey is read and the lock tested.
BeginUpdate(e, s, dto) ==
    /\ edits[e] = Idle
    /\ Exists(s)
    /\ HasSubmittedResponses(s) => LockedFields(s, dto) = {}
    /\ edits' = [edits EXCEPT ![e] = [at |-> "checked", of |-> s, dto |-> dto]]
    /\ UNCHANGED <<surveys, responses, submissions, edition, crossed>>

Value(dto, f, old) == IF dto[f] = Keep THEN old ELSE dto[f]

\* The transaction of update.  New questions take the answers with them.
CommitUpdate(e) ==
    LET s == edits[e].of
        dto == edits[e].dto
        row == surveys[s]
        replaces == dto.questions # Keep
    IN  /\ edits[e].at = "checked"
        /\ Exists(s)
        /\ replaces => edition < MaxEdition
        /\ edition' = IF replaces THEN edition + 1 ELSE edition
        /\ surveys' = [surveys EXCEPT ![s] =
               [status |-> Value(dto, "status", row.status),
                anonymous |-> Value(dto, "anonymous", row.anonymous),
                allowVoteEditing |-> Value(dto, "allowVoteEditing", row.allowVoteEditing),
                overdue |-> Value(dto, "overdue", row.overdue),
                edition |-> IF replaces THEN edition + 1 ELSE row.edition,
                questions |-> Value(dto, "questions", row.questions)]]
        /\ responses' = IF replaces
               THEN [responses EXCEPT ![s] = [p \in Participant |->
                       IF responses[s][p] = NoResponse THEN NoResponse
                       ELSE [responses[s][p] EXCEPT !.answers = {}]]]
               ELSE responses
        /\ edits' = [edits EXCEPT ![e] = Done]
        /\ UNCHANGED <<submissions, crossed>>

\* The survey is gone: the transaction is rolled back.
UpdateFails(e) ==
    /\ edits[e].at = "checked"
    /\ ~Exists(edits[e].of)
    /\ edits' = [edits EXCEPT ![e] = Done]
    /\ UNCHANGED <<surveys, responses, submissions, edition, crossed>>

-----------------------------------------------------------------------------
(* Responses.                                                              *)

\* submitResponse reads the survey.  It refuses closed and archived ones
\* only: a draft takes responses.
BeginSubmit(r, s, p) ==
    /\ submissions[r] = Idle
    /\ Exists(s)
    /\ surveys[s].status \notin {"CLOSED", "ARCHIVED"}
    /\ ~surveys[s].overdue
    /\ submissions' = [submissions EXCEPT ![r] =
           [at |-> "item", of |-> s, by |-> p, anonymous |-> surveys[s].anonymous,
            allowVoteEditing |-> surveys[s].allowVoteEditing,
            edition |-> surveys[s].edition, questions |-> surveys[s].questions]]
    /\ UNCHANGED <<surveys, responses, edits, edition, crossed>>

Refused(r) ==
    /\ Submitted(submissions[r].of, submissions[r].by)
    /\ ~submissions[r].allowVoteEditing

\* The participant's earlier response is read.
CheckSubmit(r) ==
    LET q == submissions[r] IN
    /\ q.at = "item"
    /\ ~Refused(r)
    /\ \E st \in {"DRAFT", "SUBMITTED"}, as \in SUBSET q.questions :
           /\ st = "SUBMITTED" => q.questions \cap {"required"} \subseteq as
           /\ submissions' = [submissions EXCEPT ![r] =
                  [at |-> "checked", of |-> q.of, by |-> q.by, anonymous |-> q.anonymous,
                   edition |-> q.edition, status |-> st, answers |-> as]]
    /\ UNCHANGED <<surveys, responses, edits, edition, crossed>>

RefuseSubmit(r) ==
    /\ submissions[r].at = "item"
    /\ Refused(r)
    /\ submissions' = [submissions EXCEPT ![r] = Done]
    /\ UNCHANGED <<surveys, responses, edits, edition, crossed>>

\* An answer refers to a question by a foreign key.
Answerable(q) ==
    /\ Exists(q.of)
    /\ q.answers # {} => surveys[q.of].edition = q.edition

\* The transaction of submitResponse: upsert, delete and create the answers.
CommitSubmit(r) ==
    LET q == submissions[r] IN
    /\ q.at = "checked"
    /\ Answerable(q)
    /\ responses' = [responses EXCEPT ![q.of] = [responses[q.of] EXCEPT ![q.by] =
           [status |-> q.status, named |-> ~q.anonymous, answers |-> q.answers]]]
    /\ crossed' = [crossed EXCEPT ![q.of] =
           IF \/ \E e \in Editor : edits[e].at = "checked" /\ edits[e].of = q.of
              \/ surveys[q.of].edition # q.edition
           THEN crossed[q.of] \cup {q.by}
           ELSE crossed[q.of]]
    /\ submissions' = [submissions EXCEPT ![r] = Done]
    /\ UNCHANGED <<surveys, edits, edition>>

\* Fault: without the transaction the response is there and its answers not.
SubmitFailsHalfway(r) ==
    LET q == submissions[r] IN
    /\ q.at = "checked"
    /\ ~Answerable(q)
    /\ responses' = IF ~Exists(q.of) THEN responses ELSE
           [responses EXCEPT ![q.of] = [responses[q.of] EXCEPT ![q.by] =
               [status |-> q.status, named |-> ~q.anonymous, answers |-> {}]]]
    /\ submissions' = [submissions EXCEPT ![r] = Done]
    /\ UNCHANGED <<surveys, edits, edition, crossed>>

\* The survey or the questions are gone: the transaction is rolled back.
SubmitFails(r) ==
    /\ submissions[r].at = "checked"
    /\ ~Answerable(submissions[r])
    /\ submissions' = [submissions EXCEPT ![r] = Done]
    /\ UNCHANGED <<surveys, responses, edits, edition, crossed>>

-----------------------------------------------------------------------------
Next ==
    \/ \E s \in Survey : Create(s) \/ Remove(s) \/ DeadlinePasses(s)
    \/ \E s, t \in Survey : Clone(s, t)
    \/ \E e \in Editor :
           \/ \E s \in Survey, dto \in Change : BeginUpdate(e, s, dto)
           \/ CommitUpdate(e)
           \/ UpdateFails(e)
    \/ \E r \in Submission :
           \/ \E s \in Survey, p \in Participant : BeginSubmit(r, s, p)
           \/ CheckSubmit(r) \/ RefuseSubmit(r) \/ CommitSubmit(r) \/ SubmitFails(r)

Spec == Init /\ [][Next]_vars

-----------------------------------------------------------------------------
\* Rows, responses and the local variables of requests have their types.
TypeOK ==
    /\ surveys \in [Survey -> Row \cup {NoSurvey}]
    /\ responses \in [Survey -> [Participant -> Response \cup {NoResponse}]]
    /\ submissions \in [Submission -> {Idle, Done} \cup Reading \cup Checked]
    /\ edits \in [Editor -> {Idle, Done} \cup Editing]
    /\ edition \in 0..MaxEdition
    /\ crossed \in [Survey -> SUBSET Participant]
    /\ Change \subseteq Dto /\ First \subseteq Row

\* A submitted response answers every required question the survey has,
\* through edits of the questions, failed transactions and drafts, unless its
\* request and an update crossed.
SubmittedIsComplete ==
    \A s \in Survey : \A p \in Participant \ crossed[s] :
        Submitted(s, p) =>
            surveys[s].questions \cap {"required"} \subseteq responses[s][p].answers

\* "Sensitive fields cannot be changed after participation starts": while a
\* response is and stays submitted, and did not cross an update, the
\* survey's anonymity, its vote editing and its questions are what they were.
SensitiveFieldsHold ==
    [][\A s \in Survey :
          (\E p \in Participant \ crossed[s] : Submitted(s, p) /\ Submitted(s, p)') =>
              /\ surveys'[s].anonymous = surveys[s].anonymous
              /\ surveys'[s].allowVoteEditing = surveys[s].allowVoteEditing
              /\ surveys'[s].edition = surveys[s].edition]_vars
=============================================================================
