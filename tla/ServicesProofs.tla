---------------------------- MODULE ServicesProofs ----------------------------
(***************************************************************************)
(* Theorems about the components of ServicesMC, each about the component   *)
(* by itself and, as a corollary, about the instance that TLC checks.      *)
(***************************************************************************)
EXTENDS ServicesMC, TLAPS

\* A behaviour of the instance runs the component in focus and no other.
LEMMA ServicesStep ==
    [Next]_vars =>
        /\ focus' = focus
        /\ [Poll!Next]_(Poll!vars)
        /\ [Talk!Next]_(Talk!vars)
        /\ [Training!Next]_(Training!vars)
        /\ focus = "portal" => [Portal!Next]_(Portal!vars)
        /\ focus = "dispatch" => [Dispatch!Next]_(Dispatch!vars)
BY DEF Next, vars, Polls, Talks, Trainings, Accounts, Dispatches, pollVars, talkVars,
       trainingVars, portalVars, dispatchVars,
       Poll!vars, Talk!vars, Training!vars, Portal!vars, Dispatch!vars

\* It runs these three or leaves them alone.
LEMMA ServicesRun == Spec => Poll!Spec /\ Talk!Spec /\ Training!Spec
<1>1. Init => Poll!Init /\ Talk!Init /\ Training!Init
  BY DEF Init
<1>2. [Next]_vars =>
          [Poll!Next]_(Poll!vars) /\ [Talk!Next]_(Talk!vars) /\ [Training!Next]_(Training!vars)
  BY ServicesStep
<1>3. QED
  BY <1>1, <1>2, PTL DEF Spec, Poll!Spec, Talk!Spec, Training!Spec

-----------------------------------------------------------------------------
(* PollSurvey.                                                             *)

\* A survey that is gone has no submitted response.
GoneIsEmpty == \A s \in Survey, p \in Voter : ~Poll!Exists(s) => ~Poll!Submitted(s, p)

\* Nobody holds questions of an edition yet to come.
EditionsPast ==
    /\ \A s \in Survey : Poll!Exists(s) => surveys[s].edition <= edition
    /\ \A r \in Submission : submissions[r].at \in {"item", "checked"} => submissions[r].edition <= edition

\* The survey a submission has read is there with the same questions.
SameQuestions(q) == Poll!Exists(q.of) /\ surveys[q.of].edition = q.edition

\* As long as the questions are the same, what a submission has read of them is
\* true and the answers it has checked suffice.
ReadingsHold ==
    \A r \in Submission :
        LET q == submissions[r] IN
        /\ q.at = "item" /\ SameQuestions(q) => q.questions = surveys[q.of].questions
        /\ q.at = "checked" /\ SameQuestions(q) /\ q.status = "SUBMITTED" =>
               surveys[q.of].questions \cap {"required"} \subseteq q.answers

\* An update that leaves the sensitive fields of a survey as they are.
Harmless(s, dto) ==
    /\ dto.anonymous \in {Keep, surveys[s].anonymous}
    /\ dto.allowVoteEditing \in {Keep, surveys[s].allowVoteEditing}
    /\ dto.questions = Keep

\* An update under way is harmless to whoever submitted without crossing it.
UpdatesHarmless ==
    \A e \in Editor :
        LET q == surveyEdits[e] IN
        q.at = "checked" =>
            \A p \in Voter \ surveyCrossed[q.of] : Poll!Submitted(q.of, p) => Harmless(q.of, q.dto)

PollInv ==
    /\ Poll!TypeOK /\ GoneIsEmpty /\ EditionsPast /\ ReadingsHold /\ UpdatesHarmless
    /\ Poll!SubmittedIsComplete

\* A field of an update is of the field's type or undefined.
LEMMA PollDto ==
    ASSUME NEW dto \in Update
    PROVE  /\ dto.status \in Poll!Status \cup {Keep} /\ dto.anonymous \in BOOLEAN \cup {Keep}
           /\ dto.allowVoteEditing \in BOOLEAN \cup {Keep} /\ dto.overdue \in {FALSE, Keep}
           /\ dto.questions \in (SUBSET Kind) \cup {Keep}
BY SurveyAssumption DEF Poll!Dto

\* LockedFields finds nothing in a harmless update.
LEMMA PollLock ==
    ASSUME NEW s \in Survey, NEW dto \in Update
    PROVE  Poll!LockedFields(s, dto) = {} <=> Harmless(s, dto)
<1>1. dto["anonymous"] = dto.anonymous /\ surveys[s]["anonymous"] = surveys[s].anonymous
  OBVIOUS
<1>2. dto["allowVoteEditing"] = dto.allowVoteEditing
      /\ surveys[s]["allowVoteEditing"] = surveys[s].allowVoteEditing
  OBVIOUS
<1>3. QED
  BY <1>1, <1>2 DEF Poll!LockedFields, Harmless

\* What an update makes of a survey.
LEMMA PollUpdated ==
    ASSUME Poll!TypeOK, NEW e \in Editor, Poll!CommitUpdate(e),
           NEW s, s = surveyEdits[e].of, NEW dto, dto = surveyEdits[e].dto
    PROVE  /\ s \in Survey /\ dto \in Update /\ surveys[s] \in Poll!Row
           /\ surveys'[s] \in Poll!Row /\ surveys' = [surveys EXCEPT ![s] = surveys'[s]]
           /\ Harmless(s, dto) =>
                  /\ surveys'[s].anonymous = surveys[s].anonymous
                  /\ surveys'[s].allowVoteEditing = surveys[s].allowVoteEditing
                  /\ surveys'[s].edition = surveys[s].edition
                  /\ surveys'[s].questions = surveys[s].questions
                  /\ edition' = edition /\ responses' = responses
           /\ dto.questions = Keep => /\ surveys'[s].edition = surveys[s].edition
                                      /\ surveys'[s].questions = surveys[s].questions
                                      /\ edition' = edition /\ responses' = responses
           /\ dto.questions # Keep =>
                  surveys'[s].edition = edition + 1 /\ edition' = edition + 1 /\ edition < MaxEdition
<1>1. s \in Survey /\ dto \in Update /\ surveys[s] \in Poll!Row
  BY DEF Poll!TypeOK, Poll!Editing, Poll!Idle, Poll!Done, Poll!CommitUpdate, Poll!Exists
<1> DEFINE row == [status |-> IF dto.status = Keep THEN surveys[s].status ELSE dto.status,
                   anonymous |-> IF dto.anonymous = Keep THEN surveys[s].anonymous ELSE dto.anonymous,
                   allowVoteEditing |-> IF dto.allowVoteEditing = Keep THEN surveys[s].allowVoteEditing
                                        ELSE dto.allowVoteEditing,
                   overdue |-> IF dto.overdue = Keep THEN surveys[s].overdue ELSE dto.overdue,
                   edition |-> IF dto.questions # Keep THEN edition + 1 ELSE surveys[s].edition,
                   questions |-> IF dto.questions = Keep THEN surveys[s].questions ELSE dto.questions]
<1>2. surveys' = [surveys EXCEPT ![s] = row]
  BY DEF Poll!CommitUpdate, Poll!Value
<1>3. edition \in 0..MaxEdition /\ (dto.questions # Keep => edition < MaxEdition)
  BY DEF Poll!TypeOK, Poll!CommitUpdate
<1>4. row \in Poll!Row
  <2>1. /\ dto.status \in Poll!Status \cup {Keep} /\ dto.anonymous \in BOOLEAN \cup {Keep}
        /\ dto.allowVoteEditing \in BOOLEAN \cup {Keep} /\ dto.overdue \in {FALSE, Keep}
        /\ dto.questions \in (SUBSET Kind) \cup {Keep}
    BY <1>1, PollDto
  <2>2. /\ surveys[s].status \in Poll!Status /\ surveys[s].anonymous \in BOOLEAN
        /\ surveys[s].allowVoteEditing \in BOOLEAN /\ surveys[s].overdue \in BOOLEAN
        /\ surveys[s].edition \in 0..MaxEdition /\ surveys[s].questions \in SUBSET Kind
    BY <1>1 DEF Poll!Row
  <2>3. row.edition \in 0..MaxEdition
    BY <1>3, <2>2, ServiceBoundAssumption
  <2>4. row.status \in Poll!Status /\ row.questions \in SUBSET Kind
    BY <2>1, <2>2
  <2>5. row.anonymous \in BOOLEAN /\ row.allowVoteEditing \in BOOLEAN /\ row.overdue \in BOOLEAN
    BY <2>1, <2>2
  <2>6. QED
    BY <2>3, <2>4, <2>5 DEF Poll!Row
<1>5. surveys'[s] = row /\ surveys' = [surveys EXCEPT ![s] = surveys'[s]]
  BY <1>1, <1>2 DEF Poll!TypeOK
<1>6. /\ edition' = IF dto.questions # Keep THEN edition + 1 ELSE edition
      /\ dto.questions = Keep => responses' = responses
  BY DEF Poll!CommitUpdate
<1>7. /\ row.anonymous = IF dto.anonymous = Keep THEN surveys[s].anonymous ELSE dto.anonymous
      /\ row.allowVoteEditing = IF dto.allowVoteEditing = Keep THEN surveys[s].allowVoteEditing
                                 ELSE dto.allowVoteEditing
      /\ row.edition = IF dto.questions # Keep THEN edition + 1 ELSE surveys[s].edition
      /\ row.questions = IF dto.questions = Keep THEN surveys[s].questions ELSE dto.questions
  OBVIOUS
<1> HIDE DEF row
<1>8. Harmless(s, dto) =>
          /\ surveys'[s].anonymous = surveys[s].anonymous
          /\ surveys'[s].allowVoteEditing = surveys[s].allowVoteEditing
          /\ dto.questions = Keep
  BY <1>5, <1>7 DEF Harmless
<1>9. QED
  BY <1>1, <1>3, <1>4, <1>5, <1>6, <1>7, <1>8

\* An update keeps the responses, apart from answers to the questions it replaces.
LEMMA PollResponsesKept ==
    ASSUME Poll!TypeOK, NEW e \in Editor, Poll!CommitUpdate(e)
    PROVE  /\ responses' \in [Survey -> [Voter -> Poll!Response \cup {Poll!NoResponse}]]
           /\ \A s \in Survey, p \in Voter :
                  /\ responses'[s][p].status = responses[s][p].status
                  /\ s # surveyEdits[e].of => responses'[s] = responses[s]
<1>1. PICK s : s = surveyEdits[e].of
  OBVIOUS
<1>2. s \in Survey /\ responses \in [Survey -> [Voter -> Poll!Response \cup {Poll!NoResponse}]]
  BY <1>1, PollUpdated DEF Poll!TypeOK
<1> DEFINE kept == [p \in Voter |-> IF responses[s][p] = Poll!NoResponse THEN Poll!NoResponse
                                    ELSE [responses[s][p] EXCEPT !.answers = {}]]
<1>3. \A x \in Poll!Response : /\ [x EXCEPT !.answers = {}] \in Poll!Response
                              /\ [x EXCEPT !.answers = {}].status = x.status
  BY DEF Poll!Response
<1>4. \A p \in Voter : responses[s][p] \in Poll!Response \cup {Poll!NoResponse}
  BY <1>2
<1>5. /\ kept \in [Voter -> Poll!Response \cup {Poll!NoResponse}]
      /\ \A p \in Voter : kept[p].status = responses[s][p].status
  BY <1>3, <1>4
<1>6. responses' = responses \/ responses' = [responses EXCEPT ![s] = kept]
  BY <1>1 DEF Poll!CommitUpdate
<1> HIDE DEF kept
<1>7. QED
  BY <1>1, <1>2, <1>5, <1>6

\* Every step of PollSurvey keeps the types.
LEMMA PollType ==
    ASSUME Poll!TypeOK, [Poll!Next]_(Poll!vars)
    PROVE  Poll!TypeOK'
<1>t. /\ surveys \in [Survey -> Poll!Row \cup {Poll!NoSurvey}]
      /\ responses \in [Survey -> [Voter -> Poll!Response \cup {Poll!NoResponse}]]
      /\ submissions \in [Submission -> {Poll!Idle, Poll!Done} \cup Poll!Reading \cup Poll!Checked]
      /\ surveyEdits \in [Editor -> {Poll!Idle, Poll!Done} \cup Poll!Editing]
      /\ edition \in 0..MaxEdition
      /\ surveyCrossed \in [Survey -> SUBSET Voter]
  BY DEF Poll!TypeOK
<1>a. Update \subseteq Poll!Dto /\ First \subseteq Poll!Row
  BY SurveyAssumption
<1>b. ASSUME NEW row \in Poll!Row, edition < MaxEdition
      PROVE  [row EXCEPT !.edition = edition + 1] \in Poll!Row /\ edition + 1 \in 0..MaxEdition
  BY <1>b, <1>t, ServiceBoundAssumption DEF Poll!Row
<1>1. ASSUME NEW s \in Survey, Poll!Create(s) PROVE Poll!TypeOK'
  BY <1>1, <1>a, <1>b, <1>t DEF Poll!Create, Poll!TypeOK
<1>2. ASSUME NEW s \in Survey, NEW t \in Survey, Poll!Clone(s, t) PROVE Poll!TypeOK'
  <2>1. surveys[s] \in Poll!Row /\ edition < MaxEdition /\ edition' = edition + 1
    BY <1>2, <1>t DEF Poll!Clone, Poll!Exists
  <2>2. [surveys[s] EXCEPT !.status = "DRAFT", !.overdue = FALSE, !.edition = edition + 1] \in Poll!Row
    BY <2>1, <1>b DEF Poll!Row, Poll!Status
  <2>3. QED
    BY <1>2, <1>a, <1>b, <1>t, <2>1, <2>2 DEF Poll!Clone, Poll!TypeOK
<1>3. ASSUME NEW s \in Survey, Poll!Remove(s) PROVE Poll!TypeOK'
  BY <1>3, <1>a, <1>t DEF Poll!Remove, Poll!TypeOK
<1>4. ASSUME NEW s \in Survey, Poll!DeadlinePasses(s) PROVE Poll!TypeOK'
  <2>1. [surveys[s] EXCEPT !.overdue = TRUE] \in Poll!Row
    BY <1>4, <1>t DEF Poll!DeadlinePasses, Poll!Exists, Poll!Row
  <2>2. QED
    BY <1>4, <1>a, <1>t, <2>1 DEF Poll!DeadlinePasses, Poll!TypeOK
<1>5. ASSUME NEW e \in Editor, NEW s \in Survey, NEW dto \in Update, Poll!BeginUpdate(e, s, dto)
      PROVE  Poll!TypeOK'
  BY <1>5, <1>a, <1>t DEF Poll!BeginUpdate, Poll!TypeOK, Poll!Editing
<1>6. ASSUME NEW e \in Editor, Poll!CommitUpdate(e) PROVE Poll!TypeOK'
  <2> SUFFICES ASSUME NEW s, s = surveyEdits[e].of, NEW dto, dto = surveyEdits[e].dto
               PROVE  Poll!TypeOK'
    OBVIOUS
  <2>1. /\ s \in Survey /\ surveys'[s] \in Poll!Row /\ surveys' = [surveys EXCEPT ![s] = surveys'[s]]
        /\ edition' = edition \/ (edition' = edition + 1 /\ edition < MaxEdition)
    BY <1>6, PollUpdated
  <2>2. surveys' \in [Survey -> Poll!Row \cup {Poll!NoSurvey}]
    BY <1>t, <2>1
  <2>3. surveyEdits' = [surveyEdits EXCEPT ![e] = Poll!Done] /\ UNCHANGED <<submissions, surveyCrossed>>
    BY <1>6 DEF Poll!CommitUpdate
  <2>4. edition' \in 0..MaxEdition
    BY <1>t, <2>1, ServiceBoundAssumption
  <2>5. responses' \in [Survey -> [Voter -> Poll!Response \cup {Poll!NoResponse}]]
    BY <1>6, PollResponsesKept
  <2>6. QED
    BY <1>a, <1>t, <2>2, <2>3, <2>4, <2>5 DEF Poll!TypeOK
<1>7. ASSUME NEW e \in Editor, Poll!UpdateFails(e) PROVE Poll!TypeOK'
  BY <1>7, <1>a, <1>t DEF Poll!UpdateFails, Poll!TypeOK
<1>8. ASSUME NEW r \in Submission, NEW s \in Survey, NEW p \in Voter, Poll!BeginSubmit(r, s, p)
      PROVE  Poll!TypeOK'
  <2>1. surveys[s] \in Poll!Row
    BY <1>8, <1>t DEF Poll!BeginSubmit, Poll!Exists
  <2>2. [at |-> "item", of |-> s, by |-> p, anonymous |-> surveys[s].anonymous,
         allowVoteEditing |-> surveys[s].allowVoteEditing,
         edition |-> surveys[s].edition, questions |-> surveys[s].questions] \in Poll!Reading
    BY <2>1 DEF Poll!Row, Poll!Reading
  <2>3. QED
    BY <1>8, <1>a, <1>t, <2>2 DEF Poll!BeginSubmit, Poll!TypeOK
<1>9. ASSUME NEW r \in Submission, Poll!CheckSubmit(r) PROVE Poll!TypeOK'
  <2>1. submissions[r] \in Poll!Reading
    BY <1>9, <1>t DEF Poll!CheckSubmit, Poll!Idle, Poll!Done, Poll!Checked
  <2>2. PICK st \in {"DRAFT", "SUBMITTED"}, as \in SUBSET submissions[r].questions :
            submissions' = [submissions EXCEPT ![r] =
                [at |-> "checked", of |-> submissions[r].of, by |-> submissions[r].by,
                 anonymous |-> submissions[r].anonymous, edition |-> submissions[r].edition,
                 status |-> st, answers |-> as]]
    BY <1>9 DEF Poll!CheckSubmit
  <2>3. [at |-> "checked", of |-> submissions[r].of, by |-> submissions[r].by,
         anonymous |-> submissions[r].anonymous, edition |-> submissions[r].edition,
         status |-> st, answers |-> as] \in Poll!Checked
    BY <2>1 DEF Poll!Reading, Poll!Checked
  <2>4. QED
    BY <1>9, <1>a, <1>t, <2>2, <2>3 DEF Poll!CheckSubmit, Poll!TypeOK
<1>10. ASSUME NEW r \in Submission, Poll!RefuseSubmit(r) \/ Poll!SubmitFails(r) PROVE Poll!TypeOK'
  BY <1>10, <1>a, <1>t DEF Poll!RefuseSubmit, Poll!SubmitFails, Poll!TypeOK
<1>11. ASSUME NEW r \in Submission, Poll!CommitSubmit(r) PROVE Poll!TypeOK'
  <2> DEFINE q == submissions[r]
  <2>1. q \in Poll!Checked
    BY <1>11, <1>t DEF Poll!CommitSubmit, Poll!Idle, Poll!Done, Poll!Reading
  <2>2. /\ q.of \in Survey /\ q.by \in Voter
        /\ [status |-> q.status, named |-> ~q.anonymous, answers |-> q.answers] \in Poll!Response
    BY <2>1 DEF Poll!Checked, Poll!Response
  <2> HIDE DEF q
  <2>3. /\ responses' = [responses EXCEPT ![q.of] = [responses[q.of] EXCEPT ![q.by] =
               [status |-> q.status, named |-> ~q.anonymous, answers |-> q.answers]]]
        /\ surveyCrossed' \in {surveyCrossed,
               [surveyCrossed EXCEPT ![q.of] = surveyCrossed[q.of] \cup {q.by}]}
        /\ submissions' = [submissions EXCEPT ![r] = Poll!Done]
        /\ UNCHANGED <<surveys, surveyEdits, edition>>
    BY <1>11, <1>t DEF Poll!CommitSubmit, q
  <2>4. surveyCrossed' \in [Survey -> SUBSET Voter]
    BY <1>t, <2>2, <2>3
  <2>5. responses' \in [Survey -> [Voter -> Poll!Response \cup {Poll!NoResponse}]]
    BY <1>t, <2>2, <2>3
  <2>6. QED
    BY <1>a, <1>t, <2>3, <2>4, <2>5 DEF Poll!TypeOK
<1>12. CASE UNCHANGED Poll!vars
  BY <1>12 DEF Poll!vars, Poll!TypeOK
<1>13. QED
  BY <1>1, <1>2, <1>3, <1>4, <1>5, <1>6, <1>7, <1>8, <1>9, <1>10, <1>11, <1>12 DEF Poll!Next

\* A new survey keeps the invariant: nobody holds anything of it.
LEMMA PollNew ==
    ASSUME PollInv, Poll!TypeOK', NEW s \in Survey, Poll!Fresh(s), NEW row \in Poll!Row,
           row.edition = edition + 1, edition' = edition + 1,
           surveys' = [surveys EXCEPT ![s] = row],
           surveyCrossed' = [surveyCrossed EXCEPT ![s] = {}],
           UNCHANGED <<responses, submissions, surveyEdits>>
    PROVE  PollInv'
<1>i. /\ Poll!TypeOK /\ GoneIsEmpty /\ EditionsPast /\ ReadingsHold /\ UpdatesHarmless
      /\ Poll!SubmittedIsComplete
  BY DEF PollInv
<1>t. /\ surveys \in [Survey -> Poll!Row \cup {Poll!NoSurvey}] /\ surveyCrossed \in [Survey -> SUBSET Voter]
      /\ edition \in Nat
      /\ submissions \in [Submission -> {Poll!Idle, Poll!Done} \cup Poll!Reading \cup Poll!Checked]
      /\ surveyEdits \in [Editor -> {Poll!Idle, Poll!Done} \cup Poll!Editing]
  BY <1>i, ServiceBoundAssumption DEF Poll!TypeOK
<1>1. /\ surveys[s] = Poll!NoSurvey /\ \A p \in Voter : ~Poll!Submitted(s, p)
      /\ \A r \in Submission : submissions[r].at \in {"item", "checked"} =>
             submissions[r].of # s /\ submissions[r].of \in Survey /\ submissions[r].edition \in Nat
      /\ \A e \in Editor : surveyEdits[e].at = "checked" =>
             surveyEdits[e].of # s /\ surveyEdits[e].of \in Survey
  <2>1. \A r \in Submission : submissions[r].at \in {"item", "checked"} =>
             submissions[r].of \in Survey /\ submissions[r].edition \in Nat
    BY <1>t, ServiceBoundAssumption DEF Poll!Idle, Poll!Done, Poll!Reading, Poll!Checked
  <2>2. \A e \in Editor : surveyEdits[e].at = "checked" => surveyEdits[e].of \in Survey
    BY <1>t DEF Poll!Idle, Poll!Done, Poll!Editing
  <2>3. QED
    BY <1>i, <2>1, <2>2 DEF Poll!Fresh, GoneIsEmpty, Poll!Exists
<1>2. /\ surveys'[s] = row /\ \A t \in Survey \ {s} : surveys'[t] = surveys[t]
      /\ \A t \in Survey \ {s} : surveyCrossed'[t] = surveyCrossed[t]
  BY <1>t
<1>3. row # Poll!NoSurvey
  BY DEF Poll!Row, Poll!NoSurvey
<1>4. GoneIsEmpty'
  BY <1>i, <1>1, <1>2, <1>3 DEF GoneIsEmpty, Poll!Exists, Poll!Submitted
<1>5. EditionsPast'
  <2>1. \A t \in Survey : Poll!Exists(t)' => surveys'[t].edition <= edition'
    <3>1. ASSUME NEW t \in Survey \ {s}, surveys[t] # Poll!NoSurvey
          PROVE  surveys[t].edition <= edition + 1
      <4>1. surveys[t].edition \in Nat
        BY <1>t, <3>1, ServiceBoundAssumption DEF Poll!Row
      <4>2. QED
        BY <1>i, <1>t, <3>1, <4>1 DEF EditionsPast, Poll!Exists
    <3>2. QED
      BY <1>t, <1>2, <3>1 DEF Poll!Exists
  <2>2. \A r \in Submission : submissions[r].at \in {"item", "checked"} =>
            submissions[r].edition <= edition + 1
    BY <1>i, <1>t, <1>1 DEF EditionsPast
  <2>3. QED
    BY <2>1, <2>2 DEF EditionsPast
<1>6. ReadingsHold'
  BY <1>i, <1>1, <1>2 DEF ReadingsHold, SameQuestions, Poll!Exists
<1>7. UpdatesHarmless'
  BY <1>i, <1>1, <1>2 DEF UpdatesHarmless, Harmless, Poll!Submitted
<1>8. Poll!SubmittedIsComplete'
  BY <1>i, <1>1, <1>2 DEF Poll!SubmittedIsComplete, Poll!Submitted
<1>9. QED
  BY <1>4, <1>5, <1>6, <1>7, <1>8 DEF PollInv

\* A step that changes no survey but takes it away or lets its deadline pass, makes
\* no response but takes them away, and gives requests nothing to hold.
LEMMA PollQuiet ==
    ASSUME PollInv, Poll!TypeOK', UNCHANGED <<edition, surveyCrossed>>,
           \A s \in Survey :
               \/ /\ surveys'[s] = Poll!NoSurvey
                  /\ \A p \in Voter : responses'[s][p] = Poll!NoResponse
               \/ /\ surveys'[s] # Poll!NoSurvey /\ surveys[s] # Poll!NoSurvey
                  /\ surveys'[s].edition = surveys[s].edition
                  /\ surveys'[s].questions = surveys[s].questions
                  /\ surveys'[s].anonymous = surveys[s].anonymous
                  /\ surveys'[s].allowVoteEditing = surveys[s].allowVoteEditing
                  /\ responses'[s] = responses[s]
               \/ surveys'[s] = surveys[s] /\ responses'[s] = responses[s],
           \A r \in Submission : submissions'[r].at \in {"item", "checked"} =>
               submissions'[r] = submissions[r],
           \A e \in Editor : surveyEdits'[e].at = "checked" => surveyEdits'[e] = surveyEdits[e]
    PROVE  PollInv'
<1>i. /\ Poll!TypeOK /\ GoneIsEmpty /\ EditionsPast /\ ReadingsHold /\ UpdatesHarmless
      /\ Poll!SubmittedIsComplete
  BY DEF PollInv
<1>1. /\ \A r \in Submission : submissions[r].at \in {"item", "checked"} => submissions[r].of \in Survey
      /\ \A e \in Editor : surveyEdits[e].at = "checked" => surveyEdits[e].of \in Survey
  <2>1. /\ submissions \in [Submission -> {Poll!Idle, Poll!Done} \cup Poll!Reading \cup Poll!Checked]
        /\ surveyEdits \in [Editor -> {Poll!Idle, Poll!Done} \cup Poll!Editing]
    BY <1>i DEF Poll!TypeOK
  <2>2. QED
    BY <2>1 DEF Poll!Idle, Poll!Done, Poll!Reading, Poll!Checked, Poll!Editing
<1>2. \A s \in Survey, p \in Voter : Poll!Submitted(s, p)' =>
          /\ Poll!Submitted(s, p) /\ responses'[s][p] = responses[s][p]
          /\ surveys'[s] = surveys[s] \/
                /\ surveys'[s] # Poll!NoSurvey /\ surveys[s] # Poll!NoSurvey
                /\ surveys'[s].questions = surveys[s].questions
                /\ surveys'[s].anonymous = surveys[s].anonymous
                /\ surveys'[s].allowVoteEditing = surveys[s].allowVoteEditing
  BY DEF Poll!Submitted, Poll!NoResponse
<1>3. GoneIsEmpty'
  BY <1>i, <1>2 DEF GoneIsEmpty, Poll!Exists
<1>4. EditionsPast'
  BY <1>i DEF EditionsPast, Poll!Exists
<1>5. ReadingsHold'
  BY <1>i, <1>1 DEF ReadingsHold, SameQuestions, Poll!Exists
<1>6. UpdatesHarmless'
  BY <1>i, <1>1, <1>2 DEF UpdatesHarmless, Harmless
<1>7. Poll!SubmittedIsComplete'
  BY <1>i, <1>2 DEF Poll!SubmittedIsComplete
<1>8. QED
  BY <1>3, <1>4, <1>5, <1>6, <1>7 DEF PollInv

\* An update keeps the invariant: if it is not harmless, nobody has submitted
\* without crossing it.
LEMMA PollCommitUpdate ==
    ASSUME PollInv, Poll!TypeOK', NEW e \in Editor, Poll!CommitUpdate(e)
    PROVE  /\ PollInv'
           /\ \A s \in Survey : \A p \in Voter \ surveyCrossed[s] : Poll!Submitted(s, p) =>
                  /\ surveys'[s].anonymous = surveys[s].anonymous
                  /\ surveys'[s].allowVoteEditing = surveys[s].allowVoteEditing
                  /\ surveys'[s].edition = surveys[s].edition
<1>i. /\ Poll!TypeOK /\ GoneIsEmpty /\ EditionsPast /\ ReadingsHold /\ UpdatesHarmless
      /\ Poll!SubmittedIsComplete
  BY DEF PollInv
<1>t. /\ surveys \in [Survey -> Poll!Row \cup {Poll!NoSurvey}]
      /\ edition \in Nat
      /\ submissions \in [Submission -> {Poll!Idle, Poll!Done} \cup Poll!Reading \cup Poll!Checked]
      /\ surveyEdits \in [Editor -> {Poll!Idle, Poll!Done} \cup Poll!Editing]
  BY <1>i, ServiceBoundAssumption DEF Poll!TypeOK
<1> SUFFICES ASSUME NEW s, s = surveyEdits[e].of, NEW dto, dto = surveyEdits[e].dto
             PROVE  /\ PollInv'
                    /\ \A z \in Survey : \A p \in Voter \ surveyCrossed[z] : Poll!Submitted(z, p) =>
                           /\ surveys'[z].anonymous = surveys[z].anonymous
                           /\ surveys'[z].allowVoteEditing = surveys[z].allowVoteEditing
                           /\ surveys'[z].edition = surveys[z].edition
  OBVIOUS
<1>1. /\ s \in Survey /\ dto \in Update /\ surveys[s] \in Poll!Row
      /\ surveys'[s] \in Poll!Row /\ surveys' = [surveys EXCEPT ![s] = surveys'[s]]
      /\ Harmless(s, dto) =>
             /\ surveys'[s].anonymous = surveys[s].anonymous
             /\ surveys'[s].allowVoteEditing = surveys[s].allowVoteEditing
             /\ surveys'[s].edition = surveys[s].edition
             /\ surveys'[s].questions = surveys[s].questions
             /\ edition' = edition /\ responses' = responses
      /\ dto.questions = Keep => /\ surveys'[s].edition = surveys[s].edition
                                 /\ surveys'[s].questions = surveys[s].questions
                                 /\ edition' = edition /\ responses' = responses
      /\ dto.questions # Keep => surveys'[s].edition = edition + 1 /\ edition' = edition + 1
  BY <1>i, PollUpdated
<1>2. \A z \in Survey, p \in Voter :
          /\ responses'[z][p].status = responses[z][p].status
          /\ z # s => responses'[z] = responses[z]
  BY <1>i, PollResponsesKept
<1>3. /\ surveyEdits' = [surveyEdits EXCEPT ![e] = Poll!Done] /\ UNCHANGED <<submissions, surveyCrossed>>
      /\ surveyEdits[e].at = "checked" /\ surveys[s] # Poll!NoSurvey
  BY DEF Poll!CommitUpdate, Poll!Exists
<1>4. \A p \in Voter \ surveyCrossed[s] : Poll!Submitted(s, p) => Harmless(s, dto)
  BY <1>i, <1>3 DEF UpdatesHarmless
<1>5. \A z \in Survey : /\ z # s => surveys'[z] = surveys[z]
                        /\ Poll!Exists(z)' <=> Poll!Exists(z)
  <2>1. surveys'[s] # Poll!NoSurvey /\ surveys[s] # Poll!NoSurvey
    BY <1>1 DEF Poll!Row, Poll!NoSurvey
  <2>2. QED
    BY <1>t, <1>1, <2>1 DEF Poll!Exists
<1>6. \A z \in Survey, p \in Voter : Poll!Submitted(z, p)' <=> Poll!Submitted(z, p)
  BY <1>2 DEF Poll!Submitted
<1>7. GoneIsEmpty'
  BY <1>i, <1>5, <1>6 DEF GoneIsEmpty
<1>8. /\ edition' >= edition /\ edition' \in Nat
      /\ \A z \in Survey : surveys[z] # Poll!NoSurvey => surveys[z].edition \in Nat
      /\ \A r \in Submission : submissions[r].at \in {"item", "checked"} =>
             submissions[r].edition \in Nat /\ submissions[r].of \in Survey
  <2>1. edition' >= edition /\ edition' \in Nat
    BY <1>t, <1>1
  <2>2. \A z \in Survey : surveys[z] # Poll!NoSurvey => surveys[z].edition \in Nat
    BY <1>t, ServiceBoundAssumption DEF Poll!Row
  <2>3. \A r \in Submission : submissions[r].at \in {"item", "checked"} =>
             submissions[r].edition \in Nat /\ submissions[r].of \in Survey
    BY <1>t, ServiceBoundAssumption DEF Poll!Idle, Poll!Done, Poll!Reading, Poll!Checked
  <2>4. QED
    BY <2>1, <2>2, <2>3
<1>9. EditionsPast'
  <2>1. \A z \in Survey : Poll!Exists(z)' => surveys'[z].edition <= edition'
    <3>1. ASSUME NEW z \in Survey, z # s, Poll!Exists(z)' PROVE surveys'[z].edition <= edition'
      BY <1>i, <1>t, <1>5, <1>8, <3>1 DEF EditionsPast, Poll!Exists
    <3>2. surveys'[s].edition <= edition'
      BY <1>i, <1>t, <1>1, <1>3, <1>8 DEF EditionsPast, Poll!Exists
    <3>3. QED
      BY <3>1, <3>2
  <2>2. \A r \in Submission : submissions[r].at \in {"item", "checked"} =>
            submissions[r].edition <= edition'
    BY <1>i, <1>t, <1>8 DEF EditionsPast
  <2>3. QED
    BY <1>3, <2>1, <2>2 DEF EditionsPast
\* Whoever holds questions of the survey holds others, or those it keeps.
<1>10. ReadingsHold'
  <2>1. ASSUME NEW r \in Submission, submissions[r].at \in {"item", "checked"},
               SameQuestions(submissions[r])'
        PROVE  /\ SameQuestions(submissions[r])
               /\ surveys'[submissions[r].of].questions = surveys[submissions[r].of].questions
    <3>1. submissions[r].edition \in Nat /\ submissions[r].edition <= edition
          /\ submissions[r].of \in Survey
      BY <1>i, <1>8, <2>1 DEF EditionsPast
    <3>2. surveys'[submissions[r].of].edition = submissions[r].edition
          /\ Poll!Exists(submissions[r].of)
      BY <1>3, <1>5, <2>1, <3>1 DEF SameQuestions
    <3>3. submissions[r].of = s => dto.questions = Keep
      BY <1>t, <1>1, <3>1, <3>2
    <3>4. QED
      BY <1>1, <1>5, <3>1, <3>2, <3>3 DEF SameQuestions
  <2>2. QED
    BY <1>i, <1>3, <2>1 DEF ReadingsHold
<1>11. UpdatesHarmless'
  <2>0. ASSUME NEW d \in Editor, surveyEdits'[d].at = "checked"
        PROVE  surveyEdits'[d] = surveyEdits[d] /\ surveyEdits[d].of \in Survey
    BY <1>t, <1>3, <2>0 DEF Poll!Idle, Poll!Done, Poll!Editing
  <2>1. ASSUME NEW d \in Editor, surveyEdits'[d].at = "checked",
               NEW p \in Voter \ surveyCrossed[surveyEdits[d].of],
               Poll!Submitted(surveyEdits[d].of, p)'
        PROVE  Harmless(surveyEdits[d].of, surveyEdits[d].dto)'
    <3>1. surveyEdits'[d] = surveyEdits[d] /\ surveyEdits[d].of \in Survey
      BY <2>0, <2>1
    <3>2. Harmless(surveyEdits[d].of, surveyEdits[d].dto) /\ Poll!Submitted(surveyEdits[d].of, p)
      BY <1>i, <1>6, <2>1, <3>1 DEF UpdatesHarmless
    <3>3. surveys'[surveyEdits[d].of].anonymous = surveys[surveyEdits[d].of].anonymous
          /\ surveys'[surveyEdits[d].of].allowVoteEditing = surveys[surveyEdits[d].of].allowVoteEditing
      BY <1>1, <1>4, <1>5, <2>1, <3>1, <3>2
    <3>4. QED
      BY <3>1, <3>2, <3>3 DEF Harmless
  <2>2. QED
    BY <1>3, <2>0, <2>1 DEF UpdatesHarmless
<1>12. Poll!SubmittedIsComplete'
  <2>1. ASSUME NEW z \in Survey, NEW p \in Voter \ surveyCrossed[z], Poll!Submitted(z, p)'
        PROVE  surveys'[z].questions = surveys[z].questions /\ responses'[z] = responses[z]
    BY <1>1, <1>2, <1>4, <1>5, <1>6, <2>1
  <2>2. QED
    BY <1>i, <1>3, <1>6, <2>1 DEF Poll!SubmittedIsComplete
<1>13. \A z \in Survey : \A p \in Voter \ surveyCrossed[z] : Poll!Submitted(z, p) =>
           /\ surveys'[z].anonymous = surveys[z].anonymous
           /\ surveys'[z].allowVoteEditing = surveys[z].allowVoteEditing
           /\ surveys'[z].edition = surveys[z].edition
  BY <1>1, <1>4, <1>5
<1>14. QED
  BY <1>7, <1>9, <1>10, <1>11, <1>12, <1>13 DEF PollInv

\* A submission keeps the invariant.
LEMMA PollSubmit ==
    ASSUME PollInv, Poll!TypeOK', NEW r \in Submission,
           \/ \E s \in Survey, p \in Voter : Poll!BeginSubmit(r, s, p)
           \/ Poll!CheckSubmit(r)
           \/ Poll!CommitSubmit(r)
    PROVE  PollInv'
<1>i. /\ Poll!TypeOK /\ GoneIsEmpty /\ EditionsPast /\ ReadingsHold /\ UpdatesHarmless
      /\ Poll!SubmittedIsComplete
  BY DEF PollInv
<1>t. /\ surveys \in [Survey -> Poll!Row \cup {Poll!NoSurvey}]
      /\ responses \in [Survey -> [Voter -> Poll!Response \cup {Poll!NoResponse}]]
      /\ edition \in Nat
      /\ submissions \in [Submission -> {Poll!Idle, Poll!Done} \cup Poll!Reading \cup Poll!Checked]
      /\ surveyEdits \in [Editor -> {Poll!Idle, Poll!Done} \cup Poll!Editing]
      /\ surveyCrossed \in [Survey -> SUBSET Voter]
  BY <1>i, ServiceBoundAssumption DEF Poll!TypeOK
\* What this request holds is new, or its own.
<1>h. ASSUME NEW q, submissions' = [submissions EXCEPT ![r] = q],
             q.edition <= edition,
             q.at = "item" /\ SameQuestions(q) => q.questions = surveys[q.of].questions,
             q.at = "checked" /\ SameQuestions(q) /\ q.status = "SUBMITTED" =>
                 surveys[q.of].questions \cap {"required"} \subseteq q.answers,
             UNCHANGED <<surveys, responses, surveyEdits, edition, surveyCrossed>>
      PROVE  PollInv'
  <2>1. submissions'[r] = q /\ \A o \in Submission \ {r} : submissions'[o] = submissions[o]
    BY <1>t, <1>h
  <2>2. GoneIsEmpty' /\ UpdatesHarmless' /\ Poll!SubmittedIsComplete'
    BY <1>i, <1>h DEF GoneIsEmpty, UpdatesHarmless, Poll!SubmittedIsComplete, Poll!Exists,
                      Poll!Submitted, Harmless
  <2>3. EditionsPast'
    <3>1. ASSUME NEW o \in Submission, submissions'[o].at \in {"item", "checked"}
          PROVE  submissions'[o].edition <= edition
      BY <1>i, <1>h, <2>1, <3>1 DEF EditionsPast
    <3>2. QED
      BY <1>i, <1>h, <3>1 DEF EditionsPast, Poll!Exists
  <2>4. ReadingsHold'
    <3>1. ASSUME NEW o \in Submission
          PROVE  LET x == submissions'[o] IN
                 /\ x.at = "item" /\ SameQuestions(x) => x.questions = surveys[x.of].questions
                 /\ x.at = "checked" /\ SameQuestions(x) /\ x.status = "SUBMITTED" =>
                        surveys[x.of].questions \cap {"required"} \subseteq x.answers
      BY <1>i, <1>h, <2>1 DEF ReadingsHold
    <3>2. QED
      BY <1>h, <3>1 DEF ReadingsHold, SameQuestions, Poll!Exists
  <2>5. QED
    BY <2>2, <2>3, <2>4 DEF PollInv
<1>1. ASSUME NEW s \in Survey, NEW p \in Voter, Poll!BeginSubmit(r, s, p) PROVE PollInv'
  <2> DEFINE q == [at |-> "item", of |-> s, by |-> p, anonymous |-> surveys[s].anonymous,
                   allowVoteEditing |-> surveys[s].allowVoteEditing,
                   edition |-> surveys[s].edition, questions |-> surveys[s].questions]
  <2>1. /\ submissions' = [submissions EXCEPT ![r] = q] /\ Poll!Exists(s)
        /\ UNCHANGED <<surveys, responses, surveyEdits, edition, surveyCrossed>>
    BY <1>1 DEF Poll!BeginSubmit
  <2>2. q.edition <= edition
    BY <1>i, <2>1 DEF EditionsPast
  <2>3. q.at = "item" /\ q.of = s /\ q.questions = surveys[s].questions
    OBVIOUS
  <2> HIDE DEF q
  <2>4. QED
    BY <1>h, <2>1, <2>2, <2>3
<1>2. ASSUME Poll!CheckSubmit(r) PROVE PollInv'
  <2>1. submissions[r] \in Poll!Reading
    BY <1>2, <1>t DEF Poll!CheckSubmit, Poll!Idle, Poll!Done, Poll!Checked
  <2>2. PICK st \in {"DRAFT", "SUBMITTED"}, as \in SUBSET submissions[r].questions :
            /\ st = "SUBMITTED" => submissions[r].questions \cap {"required"} \subseteq as
            /\ submissions' = [submissions EXCEPT ![r] =
                [at |-> "checked", of |-> submissions[r].of, by |-> submissions[r].by,
                 anonymous |-> submissions[r].anonymous, edition |-> submissions[r].edition,
                 status |-> st, answers |-> as]]
    BY <1>2 DEF Poll!CheckSubmit
  <2> DEFINE q == [at |-> "checked", of |-> submissions[r].of, by |-> submissions[r].by,
                   anonymous |-> submissions[r].anonymous, edition |-> submissions[r].edition,
                   status |-> st, answers |-> as]
  <2>3. /\ q.at = "checked" /\ q.of = submissions[r].of /\ q.edition = submissions[r].edition
        /\ q.status = st /\ q.answers = as /\ submissions' = [submissions EXCEPT ![r] = q]
    BY <2>2
  <2> HIDE DEF q
  <2>4. submissions[r].at = "item" /\ UNCHANGED <<surveys, responses, surveyEdits, edition, surveyCrossed>>
    BY <1>2 DEF Poll!CheckSubmit
  <2>5. q.edition <= edition
    BY <1>i, <2>3, <2>4 DEF EditionsPast
  <2>6. SameQuestions(q) => submissions[r].questions = surveys[q.of].questions
    BY <1>i, <2>3, <2>4 DEF ReadingsHold, SameQuestions
  <2>7. QED
    BY <1>h, <2>2, <2>3, <2>4, <2>5, <2>6
<1>3. ASSUME Poll!CommitSubmit(r) PROVE PollInv'
  <2> SUFFICES ASSUME NEW q, q = submissions[r] PROVE PollInv'
    OBVIOUS
  <2>1. q \in Poll!Checked
    BY <1>3, <1>t DEF Poll!CommitSubmit, Poll!Idle, Poll!Done, Poll!Reading
  <2>2. /\ q.of \in Survey /\ q.by \in Voter /\ q.at = "checked" /\ Poll!Exists(q.of)
        /\ q.answers # {} => surveys[q.of].edition = q.edition
    BY <1>3, <2>1 DEF Poll!Checked, Poll!CommitSubmit, Poll!Answerable
  <2> DEFINE new == [status |-> q.status, named |-> ~q.anonymous, answers |-> q.answers]
             crosses == \/ \E e \in Editor : surveyEdits[e].at = "checked" /\ surveyEdits[e].of = q.of
                        \/ surveys[q.of].edition # q.edition
  <2>3. /\ responses' = [responses EXCEPT ![q.of] = [responses[q.of] EXCEPT ![q.by] = new]]
        /\ surveyCrossed' = [surveyCrossed EXCEPT ![q.of] =
               IF crosses THEN surveyCrossed[q.of] \cup {q.by} ELSE surveyCrossed[q.of]]
        /\ submissions' = [submissions EXCEPT ![r] = Poll!Done]
        /\ UNCHANGED <<surveys, surveyEdits, edition>>
    BY <1>3 DEF Poll!CommitSubmit
  <2>4. /\ \A s \in Survey, p \in Voter :
               (s # q.of \/ p # q.by) => responses'[s][p] = responses[s][p]
        /\ responses'[q.of][q.by] = new
    <3> HIDE DEF new, crosses
    <3>1. QED
      BY <1>t, <2>2, <2>3
  <2>5. /\ \A s \in Survey : surveyCrossed[s] \subseteq surveyCrossed'[s]
        /\ crosses => q.by \in surveyCrossed'[q.of]
    <3> HIDE DEF new, crosses
    <3>1. QED
      BY <1>t, <2>2, <2>3
  <2>6. GoneIsEmpty'
    BY <1>i, <2>2, <2>3, <2>4 DEF GoneIsEmpty, Poll!Exists, Poll!Submitted
  <2>7. \A o \in Submission : submissions'[o].at \in {"item", "checked"} => submissions'[o] = submissions[o]
    BY <1>t, <2>3 DEF Poll!Done
  <2>8. EditionsPast' /\ ReadingsHold'
    BY <1>i, <2>3, <2>7 DEF EditionsPast, ReadingsHold, SameQuestions, Poll!Exists
  <2>9. UpdatesHarmless'
    <3>1. ASSUME NEW e \in Editor, surveyEdits[e].at = "checked",
                 NEW p \in Voter \ surveyCrossed'[surveyEdits[e].of],
                 Poll!Submitted(surveyEdits[e].of, p)'
          PROVE  Harmless(surveyEdits[e].of, surveyEdits[e].dto)
      <4>1. surveyEdits[e].of \in Survey
        BY <1>t, <3>1 DEF Poll!Idle, Poll!Done, Poll!Editing
      <4>2. surveyEdits[e].of # q.of \/ p # q.by
        BY <2>5, <3>1
      <4>3. Poll!Submitted(surveyEdits[e].of, p)
        BY <2>3, <2>4, <3>1, <4>1, <4>2 DEF Poll!Submitted
      <4>4. QED
        BY <1>i, <2>5, <3>1, <4>1, <4>3 DEF UpdatesHarmless
    <3>2. QED
      BY <2>3, <3>1 DEF UpdatesHarmless, Harmless
  <2>10. Poll!SubmittedIsComplete'
    <3>1. ASSUME NEW s \in Survey, NEW p \in Voter \ surveyCrossed'[s], Poll!Submitted(s, p)'
          PROVE  surveys[s].questions \cap {"required"} \subseteq responses'[s][p].answers
      <4>1. CASE s = q.of /\ p = q.by
        <5>1. SameQuestions(q) /\ q.status = "SUBMITTED" /\ responses'[s][p].answers = q.answers
          BY <2>2, <2>4, <2>5, <3>1, <4>1 DEF SameQuestions, Poll!Submitted
        <5>2. QED
          BY <1>i, <2>2, <4>1, <5>1 DEF ReadingsHold
      <4>2. CASE ~(s = q.of /\ p = q.by)
        BY <1>i, <2>4, <2>5, <3>1, <4>2 DEF Poll!SubmittedIsComplete, Poll!Submitted
      <4>3. QED
        BY <4>1, <4>2
    <3>2. QED
      BY <2>3, <3>1 DEF Poll!SubmittedIsComplete
  <2>11. QED
    BY <2>6, <2>8, <2>9, <2>10 DEF PollInv
<1>4. QED
  BY <1>1, <1>2, <1>3

\* Every step of PollSurvey keeps the invariant, and what was answered to.
LEMMA PollInvStep ==
    ASSUME PollInv, [Poll!Next]_(Poll!vars)
    PROVE  /\ PollInv'
           /\ \A s \in Survey :
                 (\E p \in Voter \ surveyCrossed[s] : Poll!Submitted(s, p) /\ Poll!Submitted(s, p)') =>
                     /\ surveys'[s].anonymous = surveys[s].anonymous
                     /\ surveys'[s].allowVoteEditing = surveys[s].allowVoteEditing
                     /\ surveys'[s].edition = surveys[s].edition
<1>i. /\ Poll!TypeOK /\ GoneIsEmpty /\ EditionsPast /\ ReadingsHold /\ UpdatesHarmless
      /\ Poll!SubmittedIsComplete
  BY DEF PollInv
<1>t. Poll!TypeOK'
  BY <1>i, PollType
<1>b. /\ surveys \in [Survey -> Poll!Row \cup {Poll!NoSurvey}]
      /\ responses \in [Survey -> [Voter -> Poll!Response \cup {Poll!NoResponse}]]
      /\ submissions \in [Submission -> {Poll!Idle, Poll!Done} \cup Poll!Reading \cup Poll!Checked]
      /\ surveyEdits \in [Editor -> {Poll!Idle, Poll!Done} \cup Poll!Editing]
  BY <1>i DEF Poll!TypeOK
<1> DEFINE Holds ==
        \A s \in Survey :
           (\E p \in Voter \ surveyCrossed[s] : Poll!Submitted(s, p) /\ Poll!Submitted(s, p)') =>
               /\ surveys'[s].anonymous = surveys[s].anonymous
               /\ surveys'[s].allowVoteEditing = surveys[s].allowVoteEditing
               /\ surveys'[s].edition = surveys[s].edition
<1> SUFFICES PollInv' /\ Holds
  OBVIOUS
<1>1. ASSUME NEW s \in Survey, Poll!Create(s) PROVE PollInv' /\ Holds
  <2>1. PICK first \in First : surveys' = [surveys EXCEPT ![s] = [first EXCEPT !.edition = edition + 1]]
    BY <1>1 DEF Poll!Create
  <2>2. /\ [first EXCEPT !.edition = edition + 1] \in Poll!Row
        /\ [first EXCEPT !.edition = edition + 1].edition = edition + 1
    <3>1. edition + 1 \in 0..MaxEdition
      BY <1>1, <1>i, ServiceBoundAssumption DEF Poll!Create, Poll!TypeOK
    <3>2. QED
      BY <3>1, SurveyAssumption DEF Poll!Row
  <2>3. Poll!Fresh(s) /\ edition' = edition + 1 /\ surveyCrossed' = [surveyCrossed EXCEPT ![s] = {}]
        /\ UNCHANGED <<responses, submissions, surveyEdits>>
    BY <1>1 DEF Poll!Create
  <2>4. PollInv'
    <3> HIDE DEF Holds
    <3>1. QED
      BY <1>t, <2>1, <2>2, <2>3, PollNew
  <2>5. Holds
    BY <1>i, <1>b, <2>1, <2>3 DEF Poll!Fresh, GoneIsEmpty, Poll!Exists
  <2>6. QED
    BY <2>4, <2>5
<1>2. ASSUME NEW z \in Survey, NEW s \in Survey, Poll!Clone(z, s) PROVE PollInv' /\ Holds
  <2> DEFINE row == [surveys[z] EXCEPT !.status = "DRAFT", !.overdue = FALSE, !.edition = edition + 1]
  <2>1. surveys' = [surveys EXCEPT ![s] = row] /\ surveys[z] \in Poll!Row
    BY <1>2, <1>b DEF Poll!Clone, Poll!Exists
  <2>2. row \in Poll!Row /\ row.edition = edition + 1
    <3>1. edition + 1 \in 0..MaxEdition
      BY <1>2, <1>i, ServiceBoundAssumption DEF Poll!Clone, Poll!TypeOK
    <3>2. QED
      BY <2>1, <3>1 DEF Poll!Row, Poll!Status
  <2>3. Poll!Fresh(s) /\ edition' = edition + 1 /\ surveyCrossed' = [surveyCrossed EXCEPT ![s] = {}]
        /\ UNCHANGED <<responses, submissions, surveyEdits>>
    BY <1>2 DEF Poll!Clone
  <2> HIDE DEF row
  <2>4. PollInv'
    BY <1>t, <2>1, <2>2, <2>3, PollNew
  <2>5. Holds
    BY <1>i, <1>b, <2>1, <2>3 DEF Poll!Fresh, GoneIsEmpty, Poll!Exists
  <2>6. QED
    BY <2>4, <2>5
\* The steps that only take away.
<1>q. ASSUME UNCHANGED <<edition, surveyCrossed>>,
             \A s \in Survey :
                 \/ /\ surveys'[s] = Poll!NoSurvey
                    /\ \A p \in Voter : responses'[s][p] = Poll!NoResponse
                 \/ /\ surveys'[s] # Poll!NoSurvey /\ surveys[s] # Poll!NoSurvey
                    /\ surveys'[s].edition = surveys[s].edition
                    /\ surveys'[s].questions = surveys[s].questions
                    /\ surveys'[s].anonymous = surveys[s].anonymous
                    /\ surveys'[s].allowVoteEditing = surveys[s].allowVoteEditing
                    /\ responses'[s] = responses[s]
                 \/ surveys'[s] = surveys[s] /\ responses'[s] = responses[s],
             \A r \in Submission : submissions'[r].at \in {"item", "checked"} =>
                 submissions'[r] = submissions[r],
             \A e \in Editor : surveyEdits'[e].at = "checked" => surveyEdits'[e] = surveyEdits[e]
      PROVE  PollInv' /\ Holds
  <2>1. PollInv'
    BY <1>t, <1>q, PollQuiet
  <2>2. Holds
    BY <1>q DEF Poll!Submitted, Poll!NoResponse
  <2>3. QED
    BY <2>1, <2>2
<1>3. ASSUME NEW s \in Survey, Poll!Remove(s) PROVE PollInv' /\ Holds
  <2>1. /\ surveys' = [surveys EXCEPT ![s] = Poll!NoSurvey]
        /\ responses' = [responses EXCEPT ![s] = [p \in Voter |-> Poll!NoResponse]]
        /\ UNCHANGED <<submissions, surveyEdits, edition, surveyCrossed>>
    BY <1>3 DEF Poll!Remove
  <2>2. \A z \in Survey :
            \/ surveys'[z] = Poll!NoSurvey /\ \A p \in Voter : responses'[z][p] = Poll!NoResponse
            \/ surveys'[z] = surveys[z] /\ responses'[z] = responses[z]
    BY <1>b, <2>1
  <2> HIDE DEF Holds
  <2>3. QED
    BY <1>q, <2>1, <2>2
<1>4. ASSUME NEW s \in Survey, Poll!DeadlinePasses(s) PROVE PollInv' /\ Holds
  <2>1. /\ surveys' = [surveys EXCEPT ![s] = [surveys[s] EXCEPT !.overdue = TRUE]]
        /\ UNCHANGED <<responses, submissions, surveyEdits, edition, surveyCrossed>>
        /\ surveys[s] \in Poll!Row
    BY <1>4, <1>b DEF Poll!DeadlinePasses, Poll!Exists
  <2>2. \A z \in Survey :
            \/ /\ surveys'[z] # Poll!NoSurvey /\ surveys[z] # Poll!NoSurvey
               /\ surveys'[z].edition = surveys[z].edition
               /\ surveys'[z].questions = surveys[z].questions
               /\ surveys'[z].anonymous = surveys[z].anonymous
               /\ surveys'[z].allowVoteEditing = surveys[z].allowVoteEditing
               /\ responses'[z] = responses[z]
            \/ surveys'[z] = surveys[z] /\ responses'[z] = responses[z]
    BY <1>b, <2>1 DEF Poll!Row, Poll!NoSurvey
  <2> HIDE DEF Holds
  <2>3. QED
    BY <1>q, <2>1, <2>2
<1>5. ASSUME NEW e \in Editor, NEW s \in Survey, NEW dto \in Update, Poll!BeginUpdate(e, s, dto)
      PROVE  PollInv' /\ Holds
  <2>1. /\ surveyEdits' = [surveyEdits EXCEPT ![e] = [at |-> "checked", of |-> s, dto |-> dto]]
        /\ UNCHANGED <<surveys, responses, submissions, edition, surveyCrossed>>
        /\ Poll!HasSubmittedResponses(s) => Poll!LockedFields(s, dto) = {}
    BY <1>5 DEF Poll!BeginUpdate
  <2>2. \A p \in Voter : Poll!Submitted(s, p) => Harmless(s, dto)
    BY <2>1, PollLock DEF Poll!HasSubmittedResponses
  <2>3. UpdatesHarmless'
    BY <1>i, <1>b, <2>1, <2>2 DEF UpdatesHarmless, Harmless, Poll!Submitted
  <2>4. GoneIsEmpty' /\ EditionsPast' /\ ReadingsHold' /\ Poll!SubmittedIsComplete'
    BY <1>i, <2>1 DEF GoneIsEmpty, EditionsPast, ReadingsHold, SameQuestions, Poll!Exists,
                      Poll!Submitted, Poll!SubmittedIsComplete
  <2>5. Holds
    BY <2>1
  <2>6. QED
    BY <1>t, <2>3, <2>4, <2>5 DEF PollInv
<1>6. ASSUME NEW e \in Editor, Poll!CommitUpdate(e) PROVE PollInv' /\ Holds
  BY <1>6, <1>t, PollCommitUpdate
<1>7. ASSUME NEW e \in Editor, Poll!UpdateFails(e) PROVE PollInv' /\ Holds
  <2>1. UNCHANGED <<surveys, responses, submissions, edition, surveyCrossed>>
        /\ surveyEdits' = [surveyEdits EXCEPT ![e] = Poll!Done]
    BY <1>7 DEF Poll!UpdateFails
  <2>2. \A d \in Editor : surveyEdits'[d].at = "checked" => surveyEdits'[d] = surveyEdits[d]
    BY <1>b, <2>1 DEF Poll!Done
  <2> HIDE DEF Holds
  <2>3. QED
    BY <1>q, <2>1, <2>2
<1>8. ASSUME NEW r \in Submission,
             \/ \E s \in Survey, p \in Voter : Poll!BeginSubmit(r, s, p)
             \/ Poll!CheckSubmit(r)
             \/ Poll!CommitSubmit(r)
      PROVE  PollInv' /\ Holds
  <2>1. PollInv'
    BY <1>8, <1>t, PollSubmit
  <2>2. UNCHANGED surveys
    BY <1>8 DEF Poll!BeginSubmit, Poll!CheckSubmit, Poll!CommitSubmit
  <2>3. QED
    BY <2>1, <2>2
<1>9. ASSUME NEW r \in Submission, Poll!RefuseSubmit(r) \/ Poll!SubmitFails(r) PROVE PollInv' /\ Holds
  <2>1. UNCHANGED <<surveys, responses, surveyEdits, edition, surveyCrossed>>
        /\ submissions' = [submissions EXCEPT ![r] = Poll!Done]
    BY <1>9 DEF Poll!RefuseSubmit, Poll!SubmitFails
  <2>2. \A o \in Submission : submissions'[o].at \in {"item", "checked"} => submissions'[o] = submissions[o]
    BY <1>b, <2>1 DEF Poll!Done
  <2> HIDE DEF Holds
  <2>3. QED
    BY <1>q, <2>1, <2>2
<1>10. CASE UNCHANGED Poll!vars
  <2>1. UNCHANGED <<surveys, responses, submissions, surveyEdits, edition, surveyCrossed>>
    BY <1>10 DEF Poll!vars
  <2> HIDE DEF Holds
  <2>2. QED
    BY <1>q, <2>1
<1> HIDE DEF Holds
<1>11. QED
  BY <1>1, <1>2, <1>3, <1>4, <1>5, <1>6, <1>7, <1>8, <1>9, <1>10 DEF Poll!Next

\* It holds before there is a survey.
LEMMA PollStart ==
    ASSUME Poll!Init
    PROVE  PollInv
<1> USE DEF Poll!Init, Poll!NoSurvey, Poll!NoResponse, Poll!Idle
<1>1. Poll!TypeOK
  BY SurveyAssumption, ServiceBoundAssumption DEF Poll!TypeOK
<1>2. GoneIsEmpty /\ EditionsPast /\ ReadingsHold /\ UpdatesHarmless /\ Poll!SubmittedIsComplete
  BY DEF GoneIsEmpty, EditionsPast, ReadingsHold, UpdatesHarmless, Poll!SubmittedIsComplete,
         Poll!Submitted, Poll!Exists
<1>3. QED
  BY <1>1, <1>2 DEF PollInv

\* A submitted response answers every required question the survey has, unless its
\* request and an update of the survey crossed (PollSurvey.SubmittedIsComplete).
THEOREM PollSubmittedIsComplete == Poll!Spec => []Poll!SubmittedIsComplete
<1>1. Poll!Init => PollInv
  BY PollStart
<1>2. PollInv /\ [Poll!Next]_(Poll!vars) => PollInv'
  BY PollInvStep
<1>3. PollInv => Poll!SubmittedIsComplete
  BY DEF PollInv
<1>4. QED
  BY <1>1, <1>2, <1>3, PTL DEF Poll!Spec

\* While somebody's response to a survey is and stays submitted, and did not cross an
\* update, what the survey promised them stays (PollSurvey.SensitiveFieldsHold).
THEOREM PollSensitiveFieldsHold == Poll!Spec => SensitiveFieldsHold
<1>1. Poll!Init => PollInv
  BY PollStart
<1>2. PollInv /\ [Poll!Next]_(Poll!vars) => PollInv'
  BY PollInvStep
<1>3. PollInv /\ [Poll!Next]_(Poll!vars) =>
        [\A s \in Survey :
            (\E p \in Voter \ surveyCrossed[s] : Poll!Submitted(s, p) /\ Poll!Submitted(s, p)') =>
                /\ surveys'[s].anonymous = surveys[s].anonymous
                /\ surveys'[s].allowVoteEditing = surveys[s].allowVoteEditing
                /\ surveys'[s].edition = surveys[s].edition]_(Poll!vars)
  BY PollInvStep
<1>4. QED
  BY <1>1, <1>2, <1>3, PTL DEF Poll!Spec, SensitiveFieldsHold, Poll!SensitiveFieldsHold

\* In the system ServicesMC composes, submitted responses are complete.
COROLLARY SubmittedIsCompleteHolds == Spec => []SubmittedIsComplete
BY PollSubmittedIsComplete, ServicesRun, PTL DEF SubmittedIsComplete

\* In the system ServicesMC composes, what a survey promised its participants stays.
COROLLARY SensitiveFieldsStay == Spec => SensitiveFieldsHold
BY PollSensitiveFieldsHold, ServicesRun, PTL

-----------------------------------------------------------------------------
(* DirectCommunication.                                                    *)

\* A reply under way is to a conversation that is there.
RepliesHaveTalk ==
    \A r \in Reply : replies[r].at \in {"read", "checked", "written"} =>
        conversations[replies[r].of] # Talk!NoTalk

TalkTyped == Talk!TypeOK /\ RepliesHaveTalk

\* Every step of DirectCommunication keeps the types.
LEMMA TalkType ==
    ASSUME TalkTyped, [Talk!Next]_(Talk!vars)
    PROVE  TalkTyped'
<1>h. RepliesHaveTalk /\ Talk!TypeOK
  BY DEF TalkTyped
<1>t. /\ managers \in [Manager -> Talk!ManagerRow \cup {Talk!NoManager}]
      /\ conversations \in [Conversation -> Talk!Talk \cup {Talk!NoTalk}]
      /\ replies \in [Reply -> {Talk!Idle, Talk!Done} \cup Talk!Replying]
      /\ managerSaves \in [Save -> {Talk!Idle, Talk!Done} \cup Talk!Saving]
      /\ statusChanges \in 0..MaxStatus
      /\ unseen \subseteq Conversation /\ disturbed \subseteq Conversation
      /\ late \in [Conversation -> SUBSET Reply]
      /\ managersCrossed \in BOOLEAN
  BY <1>h DEF Talk!TypeOK
\* Conversations stay.
<1>k. ASSUME Talk!TypeOK',
             \A c \in Conversation : conversations[c] # Talk!NoTalk => conversations'[c] # Talk!NoTalk,
             \A r \in Reply : replies'[r].at \in {"read", "checked", "written"} =>
                 /\ replies'[r].of \in Conversation
                 /\ \/ conversations[replies'[r].of] # Talk!NoTalk
                    \/ replies[r].at \in {"read", "checked", "written"} /\ replies'[r].of = replies[r].of
      PROVE  TalkTyped'
  BY <1>k, <1>h DEF TalkTyped, RepliesHaveTalk
<1>o. \A r \in Reply : replies[r].at \in {"read", "checked", "written"} =>
          replies[r] \in Talk!Replying /\ replies[r].of \in Conversation
  BY <1>t DEF Talk!Idle, Talk!Done, Talk!Replying
<1>x. \A x \in Talk!Talk : x # Talk!NoTalk
  BY DEF Talk!Talk, Talk!Status, Talk!NoTalk
<1> USE DEF Talk!TalksUnchanged, Talk!ManagersUnchanged
<1>1. ASSUME NEW v \in Save, Talk!WriteManager(v) PROVE TalkTyped'
  <2> SUFFICES ASSUME NEW q, q = managerSaves[v] PROVE TalkTyped'
    OBVIOUS
  <2>1. q \in Talk!Saving
    BY <1>1, <1>t DEF Talk!WriteManager, Talk!Idle, Talk!Done
  <2> DEFINE isCeo == IF q.dto.isCeo = Keep THEN managers[q.of].isCeo ELSE q.dto.isCeo
  <2>2. q.dto \in Talk!ManagerDto /\ q.of \in Manager
    BY <2>1 DEF Talk!Saving
  <2>3. isCeo \in BOOLEAN
    <3>1. q.dto.isCeo \in BOOLEAN \cup {Keep}
      BY <2>2 DEF Talk!ManagerDto
    <3>2. managers[q.of] \in Talk!ManagerRow \cup {Talk!NoManager}
      BY <1>t, <2>2
    <3>3. managers[q.of].isCeo \in BOOLEAN
      <4>1. \A row \in Talk!ManagerRow : row.isCeo \in BOOLEAN
        BY DEF Talk!ManagerRow
      <4>2. Talk!NoManager.isCeo \in BOOLEAN
        BY DEF Talk!NoManager
      <4>3. QED
        BY <3>2, <4>1, <4>2, Zenon
    <3>4. CASE q.dto.isCeo = Keep
      BY <3>3, <3>4
    <3>5. CASE q.dto.isCeo # Keep
      BY <3>1, <3>5
    <3>6. QED
      BY <3>4, <3>5
  <2>4. [q.dto EXCEPT !.isCeo = isCeo] \in Talk!ManagerRow
    BY <2>2, <2>3 DEF Talk!ManagerDto, Talk!ManagerRow
  <2>5. /\ managers' \in {managers, [managers EXCEPT ![q.of] = [q.dto EXCEPT !.isCeo = isCeo]]}
        /\ managerSaves' = [managerSaves EXCEPT ![v] = Talk!Done]
        /\ UNCHANGED <<conversations, replies, statusChanges, unseen, disturbed, late, managersCrossed>>
    BY <1>1 DEF Talk!WriteManager
  <2> HIDE DEF isCeo
  <2>6. managers' \in [Manager -> Talk!ManagerRow \cup {Talk!NoManager}]
    BY <1>t, <2>4, <2>5
  <2>7. Talk!TypeOK'
    BY <1>t, <2>5, <2>6 DEF Talk!TypeOK
  <2>8. QED
    BY <1>k, <1>o, <2>5, <2>7
<1>2. ASSUME NEW v \in Save, NEW m \in Manager, NEW dto \in Talk!ManagerDto, Talk!ValidateManager(v, m, dto)
      PROVE  TalkTyped'
  <2>1. [at |-> "validated", of |-> m, creates |-> managers[m] = Talk!NoManager, dto |-> dto] \in Talk!Saving
    BY DEF Talk!Saving
  <2>2. /\ managerSaves' = [managerSaves EXCEPT ![v] =
               [at |-> "validated", of |-> m, creates |-> managers[m] = Talk!NoManager, dto |-> dto]]
        /\ managersCrossed' \in BOOLEAN
        /\ UNCHANGED <<managers, conversations, replies, statusChanges, unseen, disturbed, late>>
    BY <1>2 DEF Talk!ValidateManager
  <2>3. Talk!TypeOK'
    BY <1>t, <2>1, <2>2 DEF Talk!TypeOK
  <2>4. QED
    BY <1>k, <1>o, <2>2, <2>3
<1>3. ASSUME NEW m \in Manager, Talk!RemoveManager(m) PROVE TalkTyped'
  <2>1. Talk!TypeOK' /\ UNCHANGED <<replies, conversations>>
    BY <1>3, <1>t DEF Talk!RemoveManager, Talk!TypeOK
  <2>2. QED
    BY <1>k, <1>o, <2>1
<1>4. ASSUME NEW c \in Conversation, NEW m \in Manager, NEW p \in Person,
             NEW mode \in {"NORMAL", "ANONYMOUS"}, Talk!CreateConversation(c, m, p, mode)
      PROVE  TalkTyped'
  <2> DEFINE sender == IF mode = "ANONYMOUS" THEN None ELSE p
             message == [senderType |-> "EMPLOYEE", sender |-> sender]
             talk == [manager |-> m, mode |-> mode, status |-> "OPEN", sender |-> sender,
                      isReadByManager |-> FALSE, messages |-> <<message>>]
  <2>1. sender \in Person \cup {None} /\ message \in Talk!Message
    BY DEF Talk!Message
  <2>2. talk \in Talk!Talk
    <3> HIDE DEF sender, message
    <3>1. <<message>> \in Seq(Talk!Message)
      BY <2>1
    <3>2. QED
      BY <2>1, <3>1 DEF Talk!Talk, Talk!Status
  <2>3. /\ conversations' = [conversations EXCEPT ![c] = talk] /\ unseen' = unseen \cup {c}
        /\ UNCHANGED <<managers, managerSaves, managersCrossed, replies, statusChanges, disturbed, late>>
    BY <1>4 DEF Talk!CreateConversation
  <2> HIDE DEF talk
  <2>4. Talk!TypeOK'
    BY <1>t, <2>2, <2>3 DEF Talk!TypeOK
  <2>5. QED
    BY <1>k, <1>o, <1>t, <1>x, <2>2, <2>3, <2>4
<1>5. ASSUME NEW c \in Conversation, NEW s \in Talk!Status, Talk!UpdateConversationStatus(c, s)
      PROVE  TalkTyped'
  <2> DEFINE talk == [conversations[c] EXCEPT !.status = s,
                         !.isReadByManager = s # "OPEN" \/ conversations[c].isReadByManager]
  <2>1. conversations[c] \in Talk!Talk
    BY <1>5, <1>t DEF Talk!UpdateConversationStatus
  <2>2. talk \in Talk!Talk
    BY <2>1 DEF Talk!Talk
  <2>3. /\ conversations' = [conversations EXCEPT ![c] = talk]
        /\ UNCHANGED <<managers, managerSaves, managersCrossed, replies, disturbed>>
        /\ unseen' \subseteq unseen /\ statusChanges' \in 0..MaxStatus
    BY <1>5, <1>t, ServiceBoundAssumption DEF Talk!UpdateConversationStatus
  <2>4. late' \in [Conversation -> SUBSET Reply]
    BY <1>5, <1>t DEF Talk!UpdateConversationStatus, Talk!Held
  <2> HIDE DEF talk
  <2>5. Talk!TypeOK'
    BY <1>t, <2>2, <2>3, <2>4 DEF Talk!TypeOK
  <2>6. QED
    BY <1>k, <1>o, <1>t, <1>x, <2>2, <2>3, <2>5
<1>6. ASSUME NEW r \in Reply, NEW c \in Conversation, NEW p \in Person, Talk!ReadConversation(r, c, p)
      PROVE  TalkTyped'
  <2> DEFINE new == [at |-> "read", of |-> c, by |-> p, isManager |-> FALSE]
  <2>1. /\ replies' = [replies EXCEPT ![r] = new] /\ conversations[c] # Talk!NoTalk
        /\ UNCHANGED <<managers, managerSaves, managersCrossed, conversations, statusChanges, unseen,
                       disturbed, late>>
    BY <1>6 DEF Talk!ReadConversation
  <2>2. new \in Talk!Replying /\ new.of = c
    BY DEF Talk!Replying
  <2> HIDE DEF new
  <2>3. Talk!TypeOK'
    BY <1>t, <2>1, <2>2 DEF Talk!TypeOK
  <2>4. QED
    BY <1>k, <1>o, <1>t, <2>1, <2>2, <2>3
<1>7. ASSUME NEW r \in Reply, Talk!CheckAccess(r) PROVE TalkTyped'
  <2> DEFINE new == [at |-> "checked", of |-> replies[r].of, by |-> replies[r].by,
                     isManager |-> Talk!IsManager(replies[r].by, conversations[replies[r].of].manager)]
  <2>1. replies[r] \in Talk!Replying /\ replies[r].at = "read"
    BY <1>7, <1>t DEF Talk!CheckAccess, Talk!Idle, Talk!Done
  <2>2. Talk!IsManager(replies[r].by, conversations[replies[r].of].manager) \in BOOLEAN
    BY DEF Talk!IsManager
  <2>3. new \in Talk!Replying /\ new.of = replies[r].of
    BY <2>1, <2>2 DEF Talk!Replying
  <2>4. /\ replies' = [replies EXCEPT ![r] = new]
        /\ UNCHANGED <<managers, managerSaves, managersCrossed, conversations, statusChanges, unseen,
                       disturbed, late>>
    BY <1>7 DEF Talk!CheckAccess
  <2> HIDE DEF new
  <2>5. Talk!TypeOK'
    BY <1>t, <2>3, <2>4 DEF Talk!TypeOK
  <2>6. QED
    BY <1>k, <1>o, <1>t, <2>1, <2>3, <2>4, <2>5
<1>8. ASSUME NEW r \in Reply, Talk!RefuseReply(r) \/ Talk!LoseReply(r) PROVE TalkTyped'
  <2>1. /\ replies' = [replies EXCEPT ![r] = Talk!Done] /\ disturbed' \subseteq Conversation
        /\ UNCHANGED <<managers, managerSaves, managersCrossed, conversations, statusChanges, unseen, late>>
    BY <1>8, <1>o, <1>t DEF Talk!RefuseReply, Talk!LoseReply
  <2>2. Talk!TypeOK'
    BY <1>t, <2>1 DEF Talk!TypeOK
  <2>3. QED
    BY <1>k, <1>o, <1>t, <2>1, <2>2 DEF Talk!Done
<1>9. ASSUME NEW r \in Reply, Talk!WriteMessage(r) PROVE TalkTyped'
  <2> SUFFICES ASSUME NEW q, q = replies[r] PROVE TalkTyped'
    OBVIOUS
  <2>1. q \in Talk!Replying
    BY <1>9, <1>t DEF Talk!WriteMessage, Talk!Idle, Talk!Done
  <2>2. /\ q.of \in Conversation /\ q.by \in Person /\ [q EXCEPT !.at = "written"] \in Talk!Replying
        /\ [q EXCEPT !.at = "written"].of = q.of
    BY <2>1 DEF Talk!Replying
  <2> DEFINE type == IF q.isManager THEN "MANAGER" ELSE "EMPLOYEE"
             message == [senderType |-> type, sender |-> q.by]
             talk == [conversations[q.of] EXCEPT !.messages = Append(conversations[q.of].messages, message)]
  <2>3. /\ conversations' = [conversations EXCEPT ![q.of] = talk]
        /\ replies' = [replies EXCEPT ![r] = [q EXCEPT !.at = "written"]]
        /\ unseen' \subseteq unseen \cup {q.of} /\ disturbed' \subseteq disturbed \cup {q.of}
        /\ UNCHANGED <<managers, managerSaves, managersCrossed, statusChanges, late>>
    BY <1>9 DEF Talk!WriteMessage
  <2>4. talk \in Talk!Talk
    <3>1. message \in Talk!Message
      BY <2>2 DEF Talk!Message
    <3>2. conversations[q.of] \in Talk!Talk
      BY <1>9, <1>h, <1>t, <2>2 DEF RepliesHaveTalk, Talk!WriteMessage
    <3> HIDE DEF message
    <3>3. Append(conversations[q.of].messages, message) \in Seq(Talk!Message)
      BY <3>1, <3>2 DEF Talk!Talk
    <3>4. QED
      BY <3>2, <3>3 DEF Talk!Talk
  <2> HIDE DEF talk
  <2>5. Talk!TypeOK'
    BY <1>t, <2>2, <2>3, <2>4 DEF Talk!TypeOK
  <2>6. QED
    BY <1>9, <1>k, <1>o, <1>t, <1>x, <2>2, <2>3, <2>4, <2>5 DEF Talk!WriteMessage
<1>10. ASSUME NEW r \in Reply, Talk!TouchConversation(r) PROVE TalkTyped'
  <2> SUFFICES ASSUME NEW q, q = replies[r] PROVE TalkTyped'
    OBVIOUS
  <2>1. q \in Talk!Replying
    BY <1>10, <1>t DEF Talk!TouchConversation, Talk!Idle, Talk!Done
  <2> DEFINE talk == [conversations[q.of] EXCEPT !.status = "OPEN", !.isReadByManager = q.isManager]
  <2>2. /\ conversations' = [conversations EXCEPT ![q.of] = talk]
        /\ replies' = [replies EXCEPT ![r] = Talk!Done] /\ late' = [late EXCEPT ![q.of] = {}]
        /\ UNCHANGED <<managers, managerSaves, managersCrossed, statusChanges, unseen, disturbed>>
    BY <1>10 DEF Talk!TouchConversation
  <2>3. q.of \in Conversation /\ q.isManager \in BOOLEAN
    BY <2>1 DEF Talk!Replying
  <2>4. talk \in Talk!Talk
    <3>1. conversations[q.of] \in Talk!Talk
      BY <1>10, <1>h, <1>t, <2>3 DEF RepliesHaveTalk, Talk!TouchConversation
    <3>2. QED
      BY <2>3, <3>1 DEF Talk!Talk, Talk!Status
  <2> HIDE DEF talk
  <2>5. Talk!TypeOK'
    BY <1>t, <2>2, <2>3, <2>4 DEF Talk!TypeOK
  <2>6. QED
    BY <1>k, <1>o, <1>t, <1>x, <2>2, <2>3, <2>4, <2>5 DEF Talk!Done
<1>11. CASE UNCHANGED Talk!vars
  BY <1>11, <1>h DEF Talk!vars, TalkTyped, Talk!TypeOK, RepliesHaveTalk
<1>12. QED
  BY <1>1, <1>2, <1>3, <1>4, <1>5, <1>6, <1>7, <1>8, <1>9, <1>10, <1>11 DEF Talk!Next

\* What every step leaves alone of the managers, of the conversations, or of both.
LEMMA TalkFrames ==
    [Talk!Next]_(Talk!vars) =>
        \/ UNCHANGED <<managers, managerSaves, managersCrossed>>
        \/ /\ UNCHANGED <<conversations, replies, statusChanges, unseen, disturbed, late>>
           /\ \/ \E v \in Save : Talk!WriteManager(v)
              \/ \E v \in Save, m \in Manager, dto \in Talk!ManagerDto : Talk!ValidateManager(v, m, dto)
              \/ \E m \in Manager : Talk!RemoveManager(m)
<1>1. ASSUME \/ \E v \in Save : Talk!WriteManager(v)
             \/ \E v \in Save, m \in Manager, dto \in Talk!ManagerDto : Talk!ValidateManager(v, m, dto)
             \/ \E m \in Manager : Talk!RemoveManager(m)
      PROVE  UNCHANGED <<conversations, replies, statusChanges, unseen, disturbed, late>>
  BY <1>1 DEF Talk!WriteManager, Talk!ValidateManager, Talk!RemoveManager, Talk!TalksUnchanged
<1>2. ASSUME NEW c \in Conversation,
             \/ \E m \in Manager, p \in Person, mode \in {"NORMAL", "ANONYMOUS"} :
                    Talk!CreateConversation(c, m, p, mode)
             \/ \E s \in Talk!Status : Talk!UpdateConversationStatus(c, s)
      PROVE  UNCHANGED <<managers, managerSaves, managersCrossed>>
  <2>1. CASE \E m \in Manager, p \in Person, mode \in {"NORMAL", "ANONYMOUS"} :
                 Talk!CreateConversation(c, m, p, mode)
    BY <2>1 DEF Talk!CreateConversation, Talk!ManagersUnchanged
  <2>2. CASE \E s \in Talk!Status : Talk!UpdateConversationStatus(c, s)
    BY <2>2 DEF Talk!UpdateConversationStatus, Talk!ManagersUnchanged
  <2>3. QED
    BY <1>2, <2>1, <2>2
<1>3. ASSUME NEW r \in Reply,
             \/ \E c \in Conversation, p \in Person : Talk!ReadConversation(r, c, p)
             \/ Talk!CheckAccess(r) \/ Talk!RefuseReply(r) \/ Talk!WriteMessage(r)
             \/ Talk!TouchConversation(r) \/ Talk!LoseReply(r)
      PROVE  UNCHANGED <<managers, managerSaves, managersCrossed>>
  BY <1>3 DEF Talk!ReadConversation, Talk!CheckAccess, Talk!RefuseReply, Talk!WriteMessage,
              Talk!TouchConversation, Talk!LoseReply, Talk!ManagersUnchanged
<1>4. CASE UNCHANGED Talk!vars
  BY <1>4 DEF Talk!vars
<1>5. QED
  BY <1>1, <1>2, <1>3, <1>4 DEF Talk!Next

\* A save that is to make its manager the CEO.
NamesCeo(v) == managerSaves[v].at = "validated" /\ managerSaves[v].dto.isCeo = TRUE

\* There is one CEO and no save under way will make another.
CeoInv ==
    \/ managersCrossed
    \/ /\ Talk!OneCeo
       /\ \A v \in Save : NamesCeo(v) => ~Talk!OtherCeo(managerSaves[v].of)
       /\ \A v, w \in Save : NamesCeo(v) /\ NamesCeo(w) => v = w

\* Every step of DirectCommunication preserves it.
LEMMA CeoStep ==
    ASSUME TalkTyped, CeoInv, [Talk!Next]_(Talk!vars)
    PROVE  CeoInv'
<1>t. /\ managers \in [Manager -> Talk!ManagerRow \cup {Talk!NoManager}]
      /\ managerSaves \in [Save -> {Talk!Idle, Talk!Done} \cup Talk!Saving]
      /\ managersCrossed \in BOOLEAN
  BY DEF TalkTyped, Talk!TypeOK
<1>c. managersCrossed \/
          /\ \A m, n \in Manager : managers[m].isCeo /\ managers[n].isCeo => m = n
          /\ \A v \in Save : NamesCeo(v) => ~Talk!OtherCeo(managerSaves[v].of)
          /\ \A v, w \in Save : NamesCeo(v) /\ NamesCeo(w) => v = w
  BY DEF CeoInv, Talk!OneCeo
<1>1. CASE UNCHANGED <<managers, managerSaves, managersCrossed>>
  BY <1>1 DEF CeoInv, Talk!OneCeo, Talk!OtherCeo, NamesCeo
<1>2. ASSUME NEW v \in Save, Talk!WriteManager(v) PROVE CeoInv'
  <2> SUFFICES ASSUME NEW q, q = managerSaves[v] PROVE CeoInv'
    OBVIOUS
  <2> DEFINE isCeo == IF q.dto.isCeo = Keep THEN managers[q.of].isCeo ELSE q.dto.isCeo
  <2>1. q \in Talk!Saving /\ q.at = "validated"
    BY <1>2, <1>t DEF Talk!WriteManager, Talk!Idle, Talk!Done
  <2>2. q.of \in Manager /\ q.dto \in Talk!ManagerDto /\ q.dto.isCeo \in BOOLEAN \cup {Keep}
    BY <2>1 DEF Talk!Saving, Talk!ManagerDto
  <2>3. /\ managers' \in {managers, [managers EXCEPT ![q.of] = [q.dto EXCEPT !.isCeo = isCeo]]}
        /\ managerSaves' = [managerSaves EXCEPT ![v] = Talk!Done]
        /\ managersCrossed' = managersCrossed
    BY <1>2 DEF Talk!WriteManager
  <2>4. [q.dto EXCEPT !.isCeo = isCeo].isCeo = isCeo
    BY <2>2 DEF Talk!ManagerDto
  <2>5. isCeo => managers[q.of].isCeo \/ NamesCeo(v)
    <3>1. CASE q.dto.isCeo = Keep
      BY <3>1
    <3>2. CASE q.dto.isCeo # Keep
      BY <2>1, <2>2, <3>2 DEF NamesCeo
    <3>3. QED
      BY <3>1, <3>2
  <2> HIDE DEF isCeo
  \* Nobody is the CEO who was not, but for the one the save names.
  <2>6. \A m \in Manager : managers'[m].isCeo => managers[m].isCeo \/ (m = q.of /\ NamesCeo(v))
    BY <1>t, <2>2, <2>3, <2>4, <2>5
  <2>7. \A w \in Save : NamesCeo(w)' => NamesCeo(w) /\ w # v /\ managerSaves'[w] = managerSaves[w]
    BY <1>t, <2>3 DEF NamesCeo, Talk!Done
  <2>8. CASE ~managersCrossed
    <3>1. \A m, n \in Manager : managers'[m].isCeo /\ managers'[n].isCeo => m = n
      BY <1>c, <2>6, <2>8 DEF Talk!OtherCeo
    <3>2. \A w \in Save : NamesCeo(w)' => ~Talk!OtherCeo(managerSaves[w].of) /\ ~NamesCeo(v)
      BY <1>c, <2>7, <2>8
    <3>3. \A w \in Save : NamesCeo(w)' => ~Talk!OtherCeo(managerSaves[w].of)'
      BY <2>6, <2>7, <3>2 DEF Talk!OtherCeo
    <3>4. \A u, w \in Save : NamesCeo(u)' /\ NamesCeo(w)' => u = w
      BY <1>c, <2>7, <2>8
    <3>5. QED
      BY <3>1, <3>3, <3>4 DEF CeoInv, Talk!OneCeo
  <2>9. QED
    BY <1>t, <2>3, <2>8 DEF CeoInv
<1>3. ASSUME NEW v \in Save, NEW m \in Manager, NEW dto \in Talk!ManagerDto, Talk!ValidateManager(v, m, dto)
      PROVE  CeoInv'
  <2> DEFINE new == [at |-> "validated", of |-> m, creates |-> managers[m] = Talk!NoManager, dto |-> dto]
  <2>1. /\ managerSaves' = [managerSaves EXCEPT ![v] = new] /\ managers' = managers
        /\ dto.isCeo = TRUE => ~Talk!OtherCeo(m)
        /\ managersCrossed' = (managersCrossed \/ (dto.isCeo = TRUE /\ \E w \in Save : NamesCeo(w)))
    BY <1>3 DEF Talk!ValidateManager, NamesCeo
  <2>2. new.of = m /\ new.dto = dto
    OBVIOUS
  <2> HIDE DEF new
  <2>3. \A w \in Save \ {v} : managerSaves'[w] = managerSaves[w]
    BY <1>t, <2>1
  <2>4. managerSaves'[v].of = m /\ managerSaves'[v].dto = dto
    BY <1>t, <2>1, <2>2
  <2>5. \A w \in Save : NamesCeo(w)' =>
            (w # v /\ NamesCeo(w) /\ managerSaves'[w] = managerSaves[w]) \/ (w = v /\ dto.isCeo = TRUE)
    BY <2>3, <2>4 DEF NamesCeo
  <2>6. CASE ~managersCrossed'
    <3>1. ~managersCrossed /\ (dto.isCeo = TRUE => \A w \in Save : ~NamesCeo(w))
      BY <1>t, <2>1, <2>6
    <3>2. \A w \in Save : NamesCeo(w)' => ~Talk!OtherCeo(managerSaves[w].of)'
      BY <1>c, <2>1, <2>4, <2>5, <3>1 DEF Talk!OtherCeo
    <3>3. \A u, w \in Save : NamesCeo(u)' /\ NamesCeo(w)' => u = w
      BY <1>c, <2>5, <3>1
    <3>4. QED
      BY <1>c, <2>1, <3>1, <3>2, <3>3 DEF CeoInv, Talk!OneCeo
  <2>7. QED
    BY <2>6 DEF CeoInv
<1>4. ASSUME NEW m \in Manager, Talk!RemoveManager(m) PROVE CeoInv'
  <2>1. /\ managers' = [managers EXCEPT ![m] = Talk!NoManager]
        /\ managerSaves' = managerSaves /\ managersCrossed' = managersCrossed
    BY <1>4 DEF Talk!RemoveManager
  <2>2. \A n \in Manager : managers'[n].isCeo => managers[n].isCeo
    BY <1>t, <2>1 DEF Talk!NoManager
  <2>3. CASE ~managersCrossed
    <3>1. \A v \in Save : NamesCeo(v)' => ~Talk!OtherCeo(managerSaves[v].of)'
      BY <1>c, <2>1, <2>2, <2>3 DEF Talk!OtherCeo, NamesCeo
    <3>2. QED
      BY <1>c, <2>1, <2>2, <2>3, <3>1 DEF CeoInv, Talk!OneCeo, NamesCeo
  <2>4. QED
    BY <1>t, <2>1, <2>3 DEF CeoInv
<1>5. QED
  BY <1>1, <1>2, <1>3, <1>4, TalkFrames

\* While the message of a manager's reply is written and the conversation is not yet
\* updated, an employee writes to it only by crossing the reply.
AnswersSeen ==
    \A r \in Reply : replies[r].at = "written" /\ replies[r].isManager /\ replies[r].of \in unseen =>
        replies[r].of \in disturbed

\* Whoever may still write to a conversation that is shut was under way when it closed.
WritersLate ==
    \A c \in Conversation : conversations[c].status \in Talk!Shut =>
        Talk!Held(c, {"read", "checked"}) \subseteq late[c]

TalkInv == TalkTyped /\ CeoInv /\ Talk!UnreadShows /\ AnswersSeen /\ WritersLate

\* Every step of DirectCommunication preserves it, and only a reply that was under way
\* when a conversation was closed adds a message to it.
LEMMA TalkInvStep ==
    ASSUME TalkInv, [Talk!Next]_(Talk!vars)
    PROVE  /\ TalkInv'
           /\ \A c \in Conversation :
                  conversations[c].status \in Talk!Shut /\ conversations'[c].messages # conversations[c].messages =>
                      \E r \in late[c] : replies[r] # replies'[r]
<1> DEFINE LateOnly ==
        \A c \in Conversation :
            conversations[c].status \in Talk!Shut /\ conversations'[c].messages # conversations[c].messages =>
                \E r \in late[c] : replies[r] # replies'[r]
           Goal == Talk!UnreadShows' /\ AnswersSeen' /\ WritersLate' /\ LateOnly
<1>h. Talk!UnreadShows /\ AnswersSeen /\ WritersLate /\ RepliesHaveTalk
  BY DEF TalkInv, TalkTyped
<1>t. /\ conversations \in [Conversation -> Talk!Talk \cup {Talk!NoTalk}]
      /\ replies \in [Reply -> {Talk!Idle, Talk!Done} \cup Talk!Replying]
      /\ unseen \subseteq Conversation /\ disturbed \subseteq Conversation
      /\ late \in [Conversation -> SUBSET Reply]
  BY DEF TalkInv, TalkTyped, Talk!TypeOK
<1>n. \A x \in Talk!Talk : x # Talk!NoTalk
  BY DEF Talk!Talk, Talk!Status, Talk!NoTalk
<1>r. \A r \in Reply : replies[r].at \in {"read", "checked", "written"} =>
          replies[r] \in Talk!Replying /\ replies[r].of \in Conversation /\ replies[r].isManager \in BOOLEAN
  BY <1>t DEF Talk!Idle, Talk!Done, Talk!Replying
<1>1. ASSUME UNCHANGED <<conversations, replies, statusChanges, unseen, disturbed, late>> PROVE Goal
  BY <1>1, <1>h DEF Talk!UnreadShows, AnswersSeen, WritersLate, Talk!Held
<1>2. ASSUME NEW c \in Conversation, NEW m \in Manager, NEW p \in Person,
             NEW mode \in {"NORMAL", "ANONYMOUS"}, Talk!CreateConversation(c, m, p, mode)
      PROVE  Goal
  <2>1. /\ conversations[c] = Talk!NoTalk /\ unseen' = unseen \cup {c}
        /\ conversations'[c].status = "OPEN" /\ conversations'[c].isReadByManager = FALSE
        /\ \A d \in Conversation \ {c} : conversations'[d] = conversations[d]
        /\ UNCHANGED <<replies, disturbed, late>>
    BY <1>2, <1>t DEF Talk!CreateConversation
  <2>2. \A r \in Reply : replies[r].at \in {"read", "checked", "written"} => replies[r].of # c
    BY <1>h, <2>1 DEF RepliesHaveTalk
  <2>3. Talk!UnreadShows'
    BY <1>h, <1>t, <2>1 DEF Talk!UnreadShows, Talk!Held
  <2>4. AnswersSeen'
    BY <1>h, <2>1, <2>2 DEF AnswersSeen
  <2>5. WritersLate' /\ LateOnly
    BY <1>h, <2>1 DEF WritersLate, Talk!Held, Talk!Shut, Talk!NoTalk
  <2>6. QED
    BY <2>3, <2>4, <2>5
<1>3. ASSUME NEW c \in Conversation, NEW s \in Talk!Status, Talk!UpdateConversationStatus(c, s) PROVE Goal
  <2>1. conversations[c] \in Talk!Talk
    BY <1>3, <1>t DEF Talk!UpdateConversationStatus
  <2>2. /\ conversations'[c].status = s
        /\ conversations'[c].isReadByManager = (s # "OPEN" \/ conversations[c].isReadByManager)
        /\ conversations'[c].messages = conversations[c].messages
        /\ \A d \in Conversation \ {c} : conversations'[d] = conversations[d]
    BY <1>3, <1>t, <2>1 DEF Talk!UpdateConversationStatus, Talk!Talk
  <2>3. /\ unseen' = IF s = "OPEN" THEN unseen ELSE unseen \ {c}
        /\ UNCHANGED <<replies, disturbed>>
        /\ \A d \in Conversation \ {c} : late'[d] = late[d]
        /\ s \in Talk!Shut /\ conversations[c].status = "OPEN" =>
               late'[c] = Talk!Held(c, {"read", "checked", "written"})
        /\ s \in Talk!Shut /\ conversations[c].status \in Talk!Shut => late'[c] = late[c]
    BY <1>3, <1>t DEF Talk!UpdateConversationStatus, Talk!Shut
  <2>4. Talk!UnreadShows'
    <3>1. c \in unseen' /\ conversations'[c].isReadByManager => conversations[c].isReadByManager
      BY <2>2, <2>3
    <3>2. \A d \in Conversation : Talk!Held(d, {"written"})' = Talk!Held(d, {"written"})
      BY <2>3 DEF Talk!Held
    <3>3. unseen' \subseteq unseen /\ disturbed' = disturbed
      BY <2>3
    <3>4. QED
      BY <1>h, <1>t, <2>2, <3>1, <3>2, <3>3 DEF Talk!UnreadShows
  <2>5. AnswersSeen'
    BY <1>h, <2>3 DEF AnswersSeen
  <2>6. conversations[c].status \in {"OPEN"} \cup Talk!Shut
    BY <2>1 DEF Talk!Talk, Talk!Status, Talk!Shut
  <2>7. WritersLate'
    BY <1>h, <2>2, <2>3, <2>6 DEF WritersLate, Talk!Held
  <2>8. LateOnly
    BY <2>2
  <2>9. QED
    BY <2>4, <2>5, <2>7, <2>8
<1>4. ASSUME NEW r \in Reply, NEW c \in Conversation, NEW p \in Person, Talk!ReadConversation(r, c, p)
      PROVE  Goal
  <2>1. /\ replies'[r].at = "read" /\ replies'[r].of = c /\ conversations[c].status \notin Talk!Shut
        /\ \A o \in Reply \ {r} : replies'[o] = replies[o]
        /\ replies[r].at = "idle"
        /\ UNCHANGED <<conversations, unseen, disturbed, late>>
    BY <1>4, <1>t DEF Talk!ReadConversation, Talk!Idle
  <2>2. Talk!UnreadShows'
    BY <1>h, <2>1 DEF Talk!UnreadShows, Talk!Held
  <2>3. QED
    BY <1>h, <2>1, <2>2 DEF AnswersSeen, WritersLate, Talk!Held
<1>5. ASSUME NEW r \in Reply, Talk!CheckAccess(r) PROVE Goal
  <2>1. /\ replies[r].at = "read" /\ replies'[r].at = "checked" /\ replies'[r].of = replies[r].of
        /\ \A o \in Reply \ {r} : replies'[o] = replies[o]
        /\ UNCHANGED <<conversations, unseen, disturbed, late>>
    BY <1>5, <1>t DEF Talk!CheckAccess
  <2>2. Talk!UnreadShows'
    BY <1>h, <2>1 DEF Talk!UnreadShows, Talk!Held
  <2>3. QED
    BY <1>h, <2>1, <2>2 DEF AnswersSeen, WritersLate, Talk!Held
<1>6. ASSUME NEW r \in Reply, Talk!RefuseReply(r) \/ Talk!LoseReply(r) PROVE Goal
  <2>1. /\ replies'[r].at = "done"
        /\ replies[r].at = "written" => disturbed' = disturbed \cup {replies[r].of}
        /\ disturbed \subseteq disturbed'
        /\ \A o \in Reply \ {r} : replies'[o] = replies[o]
        /\ UNCHANGED <<conversations, unseen, late>>
    BY <1>6, <1>t DEF Talk!RefuseReply, Talk!LoseReply, Talk!Done
  <2>2. Talk!UnreadShows'
    BY <1>h, <2>1 DEF Talk!UnreadShows, Talk!Held
  <2>3. QED
    BY <1>h, <2>1, <2>2 DEF AnswersSeen, WritersLate, Talk!Held
<1>7. ASSUME NEW r \in Reply, Talk!WriteMessage(r) PROVE Goal
  <2> SUFFICES ASSUME NEW c, c = replies[r].of PROVE Goal
    OBVIOUS
  <2>1. replies[r].at = "checked" /\ replies[r] \in Talk!Replying /\ c \in Conversation
    BY <1>7, <1>r DEF Talk!WriteMessage
  <2>2. conversations[c] \in Talk!Talk
    BY <1>h, <1>t, <2>1 DEF RepliesHaveTalk
  <2>3. /\ conversations'[c].status = conversations[c].status
        /\ conversations'[c].isReadByManager = conversations[c].isReadByManager
        /\ \A d \in Conversation \ {c} : conversations'[d] = conversations[d]
    BY <1>7, <1>t, <2>1, <2>2 DEF Talk!WriteMessage, Talk!Talk
  <2>4. /\ replies'[r].at = "written" /\ replies'[r].of = c /\ replies'[r].isManager = replies[r].isManager
        /\ \A o \in Reply \ {r} : replies'[o] = replies[o]
    BY <1>7, <1>t, <2>1 DEF Talk!WriteMessage, Talk!Replying
  <2>5. /\ unseen' = IF replies[r].isManager THEN unseen \ {c} ELSE unseen \cup {c}
        /\ disturbed' = IF Talk!Held(c, {"written"}) = {} THEN disturbed ELSE disturbed \cup {c}
        /\ late' = late
    BY <1>7 DEF Talk!WriteMessage
  <2>6. Talk!UnreadShows'
    <3>1. \A d \in Conversation : Talk!Held(d, {"written"}) \subseteq Talk!Held(d, {"written"})'
      BY <2>1, <2>4 DEF Talk!Held
    <3>2. r \in Talk!Held(c, {"written"})'
      BY <2>4 DEF Talk!Held
    <3>3. unseen' \subseteq unseen \cup {c} /\ disturbed \subseteq disturbed'
      BY <2>5
    <3>4. QED
      BY <1>h, <1>t, <2>3, <3>1, <3>2, <3>3 DEF Talk!UnreadShows
  <2>7. AnswersSeen'
    BY <1>h, <2>4, <2>5 DEF AnswersSeen, Talk!Held
  <2>8. WritersLate'
    BY <1>h, <2>1, <2>3, <2>4, <2>5 DEF WritersLate, Talk!Held
  <2>9. LateOnly
    <3>1. conversations[c].status \in Talk!Shut => r \in late[c]
      BY <1>h, <2>1 DEF WritersLate, Talk!Held
    <3>2. replies'[r] # replies[r]
      BY <2>1, <2>4
    <3>3. QED
      BY <2>3, <3>1, <3>2
  <2>10. QED
    BY <2>6, <2>7, <2>8, <2>9
<1>8. ASSUME NEW r \in Reply, Talk!TouchConversation(r) PROVE Goal
  <2> SUFFICES ASSUME NEW c, c = replies[r].of PROVE Goal
    OBVIOUS
  <2>1. replies[r].at = "written" /\ replies[r] \in Talk!Replying /\ c \in Conversation
    BY <1>8, <1>r DEF Talk!TouchConversation
  <2>2. conversations[c] \in Talk!Talk
    BY <1>h, <1>t, <2>1 DEF RepliesHaveTalk
  <2>3. /\ conversations'[c].status = "OPEN"
        /\ conversations'[c].isReadByManager = replies[r].isManager
        /\ conversations'[c].messages = conversations[c].messages
        /\ \A d \in Conversation \ {c} : conversations'[d] = conversations[d]
    BY <1>8, <1>t, <2>1, <2>2 DEF Talk!TouchConversation, Talk!Talk
  <2>4. /\ replies'[r].at = "done" /\ \A o \in Reply \ {r} : replies'[o] = replies[o]
        /\ \A d \in Conversation \ {c} : late'[d] = late[d]
        /\ UNCHANGED <<unseen, disturbed>>
    BY <1>8, <1>t, <2>1 DEF Talk!TouchConversation, Talk!Done
  <2>5. Talk!UnreadShows'
    <3>1. c \in unseen /\ replies[r].isManager => c \in disturbed
      BY <1>h, <2>1 DEF AnswersSeen
    <3>2. \A d \in Conversation \ {c} : Talk!Held(d, {"written"}) \subseteq Talk!Held(d, {"written"})'
      BY <2>4 DEF Talk!Held
    <3>3. QED
      BY <1>h, <1>t, <2>3, <2>4, <3>1, <3>2 DEF Talk!UnreadShows
  <2>6. AnswersSeen'
    BY <1>h, <2>4 DEF AnswersSeen
  <2>7. WritersLate' /\ LateOnly
    BY <1>h, <2>3, <2>4 DEF WritersLate, Talk!Held, Talk!Shut
  <2>8. QED
    BY <2>5, <2>6, <2>7
<1>9. TalkTyped' /\ CeoInv'
  BY TalkType, CeoStep DEF TalkInv
<1>10. Goal
  <2>1. CASE UNCHANGED Talk!vars
    BY <1>1, <2>1 DEF Talk!vars
  <2>2. CASE \/ \E v \in Save : Talk!WriteManager(v)
             \/ \E v \in Save, m \in Manager, dto \in Talk!ManagerDto : Talk!ValidateManager(v, m, dto)
             \/ \E m \in Manager : Talk!RemoveManager(m)
    BY <1>1, <2>2 DEF Talk!WriteManager, Talk!ValidateManager, Talk!RemoveManager, Talk!TalksUnchanged
  <2> HIDE DEF Goal
  <2>3. QED
    BY <1>2, <1>3, <1>4, <1>5, <1>6, <1>7, <1>8, <2>1, <2>2 DEF Talk!Next
<1>11. QED
  BY <1>9, <1>10 DEF TalkInv

\* It holds before there is a conversation.
LEMMA TalkStart ==
    ASSUME Talk!Init
    PROVE  TalkInv
<1> USE DEF Talk!Init, Talk!NoTalk, Talk!NoManager, Talk!Idle
<1>1. Talk!TypeOK
  <2>1. statusChanges \in 0..MaxStatus
    BY ServiceBoundAssumption
  <2>2. /\ managers \in [Manager -> Talk!ManagerRow \cup {Talk!NoManager}]
        /\ conversations \in [Conversation -> Talk!Talk \cup {Talk!NoTalk}]
    OBVIOUS
  <2>3. /\ replies \in [Reply -> {Talk!Idle, Talk!Done} \cup Talk!Replying]
        /\ managerSaves \in [Save -> {Talk!Idle, Talk!Done} \cup Talk!Saving]
    OBVIOUS
  <2>4. /\ unseen = {} /\ disturbed = {} /\ managersCrossed = FALSE
        /\ late \in [Conversation -> SUBSET Reply]
    OBVIOUS
  <2>5. QED
    BY <2>1, <2>2, <2>3, <2>4 DEF Talk!TypeOK
<1>2. RepliesHaveTalk /\ Talk!UnreadShows /\ AnswersSeen /\ WritersLate
  BY DEF RepliesHaveTalk, Talk!UnreadShows, AnswersSeen, WritersLate, Talk!Shut
<1>3. CeoInv
  BY DEF CeoInv, Talk!OneCeo, NamesCeo
<1>4. QED
  BY <1>1, <1>2, <1>3 DEF TalkInv, TalkTyped

\* Two managers are both the CEO only after two saves that name one were under way at
\* once (DirectCommunication.OneCeo).
THEOREM TalkOneCeo == Talk!Spec => []Talk!OneCeo
<1>1. Talk!Init => TalkInv
  BY TalkStart
<1>2. TalkInv /\ [Talk!Next]_(Talk!vars) => TalkInv'
  BY TalkInvStep
<1>3. TalkInv => Talk!OneCeo
  BY DEF TalkInv, CeoInv, Talk!OneCeo
<1>4. QED
  BY <1>1, <1>2, <1>3, PTL DEF Talk!Spec

\* What an employee wrote shows as unread until the manager acts, unless replies
\* crossed or one lost its second write (DirectCommunication.UnreadShows).
THEOREM TalkUnreadShows == Talk!Spec => []Talk!UnreadShows
<1>1. Talk!Init => TalkInv
  BY TalkStart
<1>2. TalkInv /\ [Talk!Next]_(Talk!vars) => TalkInv'
  BY TalkInvStep
<1>3. TalkInv => Talk!UnreadShows
  BY DEF TalkInv
<1>4. QED
  BY <1>1, <1>2, <1>3, PTL DEF Talk!Spec

\* A closed or archived conversation gets messages only from replies that were already
\* under way when it was closed (DirectCommunication.ShutTakesLateRepliesOnly).
THEOREM TalkShutTakesLateRepliesOnly == Talk!Spec => ShutTakesLateRepliesOnly
<1>1. Talk!Init => TalkInv
  BY TalkStart
<1>2. TalkInv /\ [Talk!Next]_(Talk!vars) => TalkInv'
  BY TalkInvStep
<1>3. TalkInv /\ [Talk!Next]_(Talk!vars) =>
        [\A c \in Conversation :
            conversations[c].status \in Talk!Shut /\ conversations'[c].messages # conversations[c].messages =>
                \E r \in late[c] : replies[r] # replies'[r]]_(Talk!vars)
  BY TalkInvStep
<1>4. QED
  BY <1>1, <1>2, <1>3, PTL DEF Talk!Spec, ShutTakesLateRepliesOnly, Talk!ShutTakesLateRepliesOnly

\* In the system ServicesMC composes, there is one CEO.
COROLLARY OneCeoHolds == Spec => []OneCeo
BY TalkOneCeo, ServicesRun, PTL DEF OneCeo

\* In the system ServicesMC composes, what employees write shows as unread.
COROLLARY UnreadShowsHolds == Spec => []UnreadShows
BY TalkUnreadShows, ServicesRun, PTL DEF UnreadShows

\* In the system ServicesMC composes, closed conversations take late replies only.
COROLLARY ShutTakesLateRepliesOnlyHolds == Spec => ShutTakesLateRepliesOnly
BY TalkShutTakesLateRepliesOnly, ServicesRun, PTL

-----------------------------------------------------------------------------
(* TrainingSync.                                                           *)

\* These folders have an active item with just the files the listing gives them.
Mirrored(q, folders) ==
    \A f \in folders :
        items[f] # Training!NoItem /\ items[f].isActive /\ items[f].files = q.listing[f]

\* What a synchronisation that nothing crossed has done so far: the folders it is through
\* with mirror the share, and of the one in hand it knows whether there is an item.
Through(q) ==
    /\ q.at # "lost"
    /\ q.at = "folders" =>
           /\ q.left \subseteq Training!Seen(q.listing)
           /\ Mirrored(q, Training!Seen(q.listing) \ q.left)
    /\ q.at \in {"existing", "missing", "created"} =>
           /\ q.left \subseteq Training!Seen(q.listing)
           /\ q.folder \in Training!Seen(q.listing) \ q.left
           /\ Mirrored(q, Training!Seen(q.listing) \ (q.left \cup {q.folder}))
           /\ q.at = "missing" <=> items[q.folder] = Training!NoItem
           /\ q.at = "created" => items[q.folder].isActive /\ items[q.folder].files = {}

\* Nothing else is under way beside it.
AloneInv ==
    \A s \in alone : Training!Active(s) =>
        Through(syncWork[s]) /\ \A t \in Training!Sync : Training!Active(t) => t = s

\* The item a synchronisation is to write is there, or it has lost it.
HeldIsThere ==
    \A s \in Training!Sync : syncWork[s].at \in {"existing", "created"} =>
        items[syncWork[s].folder] # Training!NoItem

SyncInv == Training!TypeOK /\ HeldIsThere /\ AloneInv

\* Every step of TrainingSync preserves it, and the step that archives what a
\* synchronisation did not see ends one whose listing the items then mirror.
LEMMA SyncInvStep ==
    ASSUME SyncInv, [Training!Next]_(Training!vars)
    PROVE  /\ SyncInv'
           /\ \A s \in alone \cap alone' :
                  Training!Active(s) /\ syncWork[s].at = "folders" /\ syncWork'[s] = Training!Done =>
                      \A f \in Folder :
                          IF syncWork[s].listing[f] # {}
                          THEN /\ items'[f] # Training!NoItem /\ items'[f].isActive
                               /\ items'[f].files = syncWork[s].listing[f]
                          ELSE items'[f] # Training!NoItem =>
                                   items'[f].status = "ARCHIVED" /\ ~items'[f].isActive
<1> DEFINE Mirrors(s) ==
        \A f \in Folder :
            IF syncWork[s].listing[f] # {}
            THEN /\ items'[f] # Training!NoItem /\ items'[f].isActive
                 /\ items'[f].files = syncWork[s].listing[f]
            ELSE items'[f] # Training!NoItem => items'[f].status = "ARCHIVED" /\ ~items'[f].isActive
           Ends(s) == Training!Active(s) /\ syncWork[s].at = "folders" /\ syncWork'[s] = Training!Done
           Goal == SyncInv' /\ \A s \in alone \cap alone' : Ends(s) => Mirrors(s)
           SyncState == {Training!Idle, Training!Done} \cup Training!Woken \cup Training!Started
                         \cup Training!Working \cup Training!Writing
<1>t. /\ share \in Training!Listing
      /\ items \in [Folder -> Training!Item \cup {Training!NoItem}]
      /\ due \in BOOLEAN /\ runningSourceIds \in BOOLEAN
      /\ syncWork \in [Training!Sync -> SyncState]
      /\ shareEdits \in 0..MaxShareEdits
      /\ alone \subseteq Training!Sync
  BY DEF SyncInv, Training!TypeOK
<1>a. HeldIsThere /\ AloneInv
  BY DEF SyncInv
<1>i. \A x \in Training!Item : x # Training!NoItem
  BY DEF Training!Item, Training!Status, Training!NoItem
\* Where a synchronisation is tells what it holds.
<1>w. \A s \in Training!Sync :
          /\ syncWork[s].at = "woken" => syncWork[s] \in Training!Woken
          /\ syncWork[s].at = "folders" => syncWork[s] \in Training!Working
          /\ syncWork[s].at \in {"existing", "missing", "created", "lost"} => syncWork[s] \in Training!Writing
  BY <1>t DEF Training!Idle, Training!Done, Training!Woken, Training!Started, Training!Working,
              Training!Writing
\* A synchronisation is where it was, or no other is under way and it is through with more.
<1>k. ASSUME NEW s \in Training!Sync, NEW new \in SyncState,
             syncWork' = [syncWork EXCEPT ![s] = new],
             share' \in Training!Listing, due' \in BOOLEAN, runningSourceIds' \in BOOLEAN,
             items' \in [Folder -> Training!Item \cup {Training!NoItem}],
             \A f \in Folder : items[f] # Training!NoItem => items'[f] # Training!NoItem,
             new.at \in {"existing", "created"} => items'[new.folder] # Training!NoItem,
             shareEdits' = shareEdits,
             new.at \notin {"idle", "woken", "done"} => Training!Active(s),
             alone' \subseteq alone,
             ~Training!Active(s) => items' = items,
             s \in alone' /\ Training!Active(s) /\ new.at # "done" => Through(new)',
             s \in alone' /\ Ends(s) => Mirrors(s)
      PROVE  Goal
  <2>1. Training!TypeOK'
    BY <1>t, <1>k DEF Training!TypeOK
  <2>2. \A o \in Training!Sync \ {s} : syncWork'[o] = syncWork[o] /\ (Training!Active(o)' <=> Training!Active(o))
    BY <1>t, <1>k DEF Training!Active
  <2>3. syncWork'[s] = new /\ (Training!Active(s)' => Training!Active(s) /\ new.at # "done")
    BY <1>t, <1>k DEF Training!Active
  <2>4. AloneInv'
    <3> SUFFICES ASSUME NEW o \in alone', Training!Active(o)'
                 PROVE  Through(syncWork[o])' /\ \A u \in Training!Sync : Training!Active(u)' => u = o
      BY DEF AloneInv
    <3>1. o \in alone /\ o \in Training!Sync /\ Training!Active(o)
      BY <1>k, <1>t, <2>2, <2>3
    <3>2. Through(syncWork[o]) /\ \A u \in Training!Sync : Training!Active(u) => u = o
      BY <1>a, <3>1 DEF AloneInv
    <3>3. \A u \in Training!Sync : Training!Active(u)' => u = o
      BY <2>2, <2>3, <3>2
    <3>4. CASE o = s
      BY <1>k, <2>3, <3>1, <3>3, <3>4
    <3>5. CASE o # s
      <4>1. items' = items
        BY <1>k, <3>2, <3>5
      <4>2. syncWork'[o] = syncWork[o]
        BY <2>2, <3>1, <3>5
      <4>3. Through(syncWork[o])'
        BY <3>2, <4>1, <4>2 DEF Through, Mirrored
      <4>4. QED
        BY <3>3, <4>3
    <3>6. QED
      BY <3>4, <3>5
  <2>5. \A o \in alone \cap alone' : Ends(o) => Mirrors(o)
    <3> SUFFICES ASSUME NEW o \in alone \cap alone', Ends(o) PROVE Mirrors(o)
      OBVIOUS
    <3>1. o = s
      BY <1>t, <2>2 DEF Training!Done
    <3>2. QED
      BY <1>k, <3>1
  <2>6. HeldIsThere'
    BY <1>a, <1>k, <1>w, <2>2, <2>3 DEF HeldIsThere, Training!Writing
  <2>7. QED
    BY <2>1, <2>4, <2>5, <2>6 DEF SyncInv
\* A step that takes a synchronisation on and writes nothing.
<1>n. ASSUME NEW s \in Training!Sync, NEW new \in SyncState,
             syncWork' = [syncWork EXCEPT ![s] = new], new.at # "done", Training!Active(s),
             UNCHANGED <<share, items, due, runningSourceIds, shareEdits, alone>>,
             new.at \in {"existing", "created"} => items[new.folder] # Training!NoItem,
             s \in alone => Through(new)'
      PROVE  Goal
  <2>1. syncWork'[s] # Training!Done
    BY <1>t, <1>n DEF Training!Done
  <2>2. /\ share' \in Training!Listing /\ items' \in [Folder -> Training!Item \cup {Training!NoItem}]
        /\ shareEdits' = shareEdits /\ alone' \subseteq alone
    BY <1>t, <1>n
  <2>3. due' \in BOOLEAN
    BY <1>t, <1>n
  <2>4. runningSourceIds' \in BOOLEAN
    BY <1>t, <1>n
  <2> HIDE DEF Goal, SyncState, Mirrors
  <2>5. QED
    BY <1>k, <1>n, <2>1, <2>2, <2>3, <2>4

\* A step that writes the item of the folder in hand and goes on to the next.
<1>m. ASSUME NEW s \in Training!Sync, NEW q, q = syncWork[s], NEW new, NEW item \in Training!Item,
             q.at \in {"existing", "created"}, q \in Training!Writing,
             new = [at |-> "folders", listing |-> q.listing, left |-> q.left],
             syncWork' = [syncWork EXCEPT ![s] = new], items' = [items EXCEPT ![q.folder] = item],
             UNCHANGED <<share, due, runningSourceIds, shareEdits, alone>>,
             s \in alone => item.isActive = TRUE /\ item.files = q.listing[q.folder]
      PROVE  Goal
  <2>1. q.folder \in Folder /\ q.listing \in Training!Listing /\ q.left \subseteq Folder
    BY <1>m DEF Training!Writing
  <2>2. new \in SyncState /\ new.at = "folders"
    BY <1>m, <2>1 DEF Training!Working
  <2>3. Training!Active(s)
    BY <1>m DEF Training!Active
  <2>4. /\ share' \in Training!Listing /\ items' \in [Folder -> Training!Item \cup {Training!NoItem}]
        /\ shareEdits' = shareEdits /\ alone' = alone
    BY <1>m, <1>t, <2>1
  <2>5. due' \in BOOLEAN
    BY <1>m, <1>t
  <2>6. runningSourceIds' \in BOOLEAN
    BY <1>m, <1>t
  <2>7. \A f \in Folder : items[f] # Training!NoItem => items'[f] # Training!NoItem
    BY <1>m, <1>t, <1>i
  <2>8. ASSUME s \in alone PROVE Through(new)'
    <3>1. Through(q)
      BY <1>a, <1>m, <2>3, <2>8 DEF AloneInv
    <3>2. /\ q.left \subseteq Training!Seen(q.listing) /\ q.folder \in Training!Seen(q.listing) \ q.left
          /\ Mirrored(q, Training!Seen(q.listing) \ (q.left \cup {q.folder}))
      BY <1>m, <3>1 DEF Through
    <3>3. items'[q.folder] = item /\ item # Training!NoItem
      BY <1>m, <1>t, <1>i, <2>1
    <3>4. \A f \in Folder \ {q.folder} : items'[f] = items[f]
      BY <1>m, <1>t
    <3>5. new.listing = q.listing /\ new.left = q.left
      BY <1>m
    <3>6. Mirrored(new, Training!Seen(new.listing) \ new.left)'
      BY <1>m, <2>8, <3>2, <3>3, <3>4, <3>5 DEF Mirrored, Training!Seen
    <3>7. QED
      BY <2>2, <3>2, <3>5, <3>6 DEF Through
  <2>9. ~Ends(s)
    BY <1>m
  <2> HIDE DEF Goal, SyncState, Mirrors, Ends
  <2>10. QED
    BY <1>k, <1>m, <2>2, <2>3, <2>4, <2>5, <2>6, <2>7, <2>8, <2>9
<1>1. ASSUME NEW s \in Training!Sync, Training!Wake(s) \/ Training!Continue(s) PROVE Goal
  <2>1. \E new \in SyncState : new.at \in {"woken", "done"} /\ syncWork' = [syncWork EXCEPT ![s] = new]
    <3>1. [at |-> "woken", due |-> due] \in Training!Woken
      BY <1>t DEF Training!Woken
    <3>2. Training!Done.at = "done"
      BY DEF Training!Done
    <3>3. CASE Training!Wake(s)
      BY <3>1, <3>3 DEF Training!Wake
    <3>4. CASE Training!Continue(s)
      BY <3>2, <3>4 DEF Training!Continue
    <3>5. QED
      BY <1>1, <3>3, <3>4
  <2>2. PICK new \in SyncState : new.at \in {"woken", "done"} /\ syncWork' = [syncWork EXCEPT ![s] = new]
    BY <2>1
  <2>3. UNCHANGED <<share, items, due, runningSourceIds, shareEdits, alone>> /\ ~Training!Active(s)
    BY <1>1 DEF Training!Wake, Training!Continue, Training!Idle, Training!Active
  <2> HIDE DEF Goal, SyncState
  <2>4. QED
    BY <1>k, <1>t, <2>2, <2>3
<1>2. ASSUME NEW s \in Training!Sync, Training!RunScheduled(s) \/ Training!RunManual(s) PROVE Goal
  <2>1. /\ syncWork' = [syncWork EXCEPT ![s] = [at |-> "started"]]
        /\ alone' = IF \E t \in Training!Sync : Training!Active(t) THEN {} ELSE {s}
        /\ UNCHANGED <<share, items, due, shareEdits>>
        /\ runningSourceIds' = TRUE \/ UNCHANGED runningSourceIds
    <3>1. CASE Training!RunScheduled(s)
      BY <3>1 DEF Training!RunScheduled, Training!Starts
    <3>2. CASE Training!RunManual(s)
      BY <3>2 DEF Training!RunManual, Training!Starts
    <3>3. QED
      BY <1>2, <3>1, <3>2
  <2>2. [at |-> "started"] \in SyncState
    BY DEF Training!Started
  <2> HIDE DEF SyncState
  <2>3. alone' \subseteq Training!Sync
    BY <2>1
  <2>4. syncWork' \in [Training!Sync -> SyncState]
    BY <1>t, <2>1, <2>2
  <2>5. Training!TypeOK'
    <3>1. runningSourceIds' \in BOOLEAN
      BY <1>t, <2>1
    <3>2. QED
      BY <1>t, <2>1, <2>3, <2>4, <3>1 DEF Training!TypeOK, SyncState
  <2>6. AloneInv'
    <3> SUFFICES ASSUME NEW o \in alone'
                 PROVE  Through(syncWork[o])' /\ \A u \in Training!Sync : Training!Active(u)' => u = o
      BY DEF AloneInv
    <3>1. o = s /\ \A u \in Training!Sync : ~Training!Active(u)
      BY <2>1
    <3>2. syncWork'[s].at = "started"
      BY <1>t, <2>1
    <3>3. Through(syncWork[o])'
      BY <3>1, <3>2 DEF Through
    <3>4. \A u \in Training!Sync \ {s} : ~Training!Active(u)'
      BY <1>t, <2>1, <3>1 DEF Training!Active
    <3>5. QED
      BY <3>1, <3>3, <3>4
  <2>7. \A o \in alone \cap alone' : ~Ends(o)
    <3>1. \A o \in alone' : syncWork'[o] # Training!Done
      BY <1>t, <2>1 DEF Training!Done
    <3>2. QED
      BY <3>1
  <2>8. HeldIsThere'
    BY <1>a, <1>t, <2>1 DEF HeldIsThere
  <2>9. QED
    BY <2>5, <2>6, <2>7, <2>8 DEF SyncInv
<1>3. ASSUME NEW s \in Training!Sync, Training!List(s) PROVE Goal
  <2> SUFFICES ASSUME NEW new,
                      new = [at |-> "folders", listing |-> share, left |-> Training!Seen(share)]
               PROVE  Goal
    OBVIOUS
  <2>1. /\ syncWork' = [syncWork EXCEPT ![s] = new] /\ syncWork[s].at = "started"
        /\ UNCHANGED <<share, items, due, runningSourceIds, shareEdits, alone>>
    BY <1>3 DEF Training!List
  <2>2. new \in SyncState
    BY <1>t DEF Training!Working, Training!Seen
  <2>3. new.at = "folders" /\ Through(new)'
    BY <2>1 DEF Through, Mirrored
  <2> HIDE DEF Goal, SyncState
  <2>4. QED
    BY <1>n, <2>1, <2>2, <2>3 DEF Training!Active
<1>4. ASSUME NEW s \in Training!Sync, Training!FindItem(s) PROVE Goal
  <2> SUFFICES ASSUME NEW q, q = syncWork[s] PROVE Goal
    OBVIOUS
  <2>1. PICK f \in q.left : syncWork' = [syncWork EXCEPT ![s] =
            [at |-> IF items[f] = Training!NoItem THEN "missing" ELSE "existing",
             listing |-> q.listing, left |-> q.left \ {f}, folder |-> f]]
    BY <1>4 DEF Training!FindItem
  <2>2. /\ q.at = "folders" /\ q \in Training!Working
        /\ UNCHANGED <<share, items, due, runningSourceIds, shareEdits, alone>>
    BY <1>4, <1>w DEF Training!FindItem
  <2>3. q.left \subseteq Folder /\ q.listing \in Training!Listing
    BY <2>2 DEF Training!Working
  <2> SUFFICES ASSUME NEW new,
                      new = [at |-> IF items[f] = Training!NoItem THEN "missing" ELSE "existing",
                             listing |-> q.listing, left |-> q.left \ {f}, folder |-> f]
               PROVE  Goal
    OBVIOUS
  <2>4. /\ new \in SyncState /\ new.at \in {"missing", "existing"}
        /\ new.at = "missing" <=> items[f] = Training!NoItem
        /\ new.listing = q.listing /\ new.left = q.left \ {f} /\ new.folder = f
    BY <2>3 DEF Training!Writing
  <2>5. syncWork' = [syncWork EXCEPT ![s] = new]
    BY <2>1
  <2> HIDE DEF Goal, SyncState
  <2>6. Training!Active(s)
    BY <2>2 DEF Training!Active
  <2>7. ASSUME s \in alone PROVE Through(new)'
    <3>1. Through(q)
      BY <1>a, <2>6, <2>7 DEF AloneInv
    <3>2. /\ q.left \subseteq Training!Seen(q.listing)
          /\ Mirrored(q, Training!Seen(q.listing) \ q.left)
      BY <2>2, <3>1 DEF Through
    <3>3. new.left \subseteq Training!Seen(new.listing) /\ new.folder \in Training!Seen(new.listing) \ new.left
      BY <2>1, <2>4, <3>2
    <3>4. Mirrored(new, Training!Seen(new.listing) \ (new.left \cup {new.folder}))'
      BY <2>1, <2>2, <2>4, <3>2 DEF Mirrored, Training!Seen
    <3>5. QED
      BY <2>2, <2>4, <3>3, <3>4 DEF Through
  <2>8. QED
    BY <1>n, <2>2, <2>4, <2>5, <2>6, <2>7
<1>5. ASSUME NEW s \in Training!Sync, Training!RefreshItem(s) PROVE Goal
  <2> SUFFICES ASSUME NEW q, q = syncWork[s] PROVE Goal
    OBVIOUS
  <2> SUFFICES ASSUME NEW new, new = [at |-> "folders", listing |-> q.listing, left |-> q.left],
                      NEW item, item = [items[q.folder] EXCEPT !.isActive = TRUE, !.files = q.listing[q.folder]]
               PROVE  Goal
    OBVIOUS
  <2>1. /\ q.at = "existing" /\ q \in Training!Writing /\ items[q.folder] # Training!NoItem
        /\ syncWork' = [syncWork EXCEPT ![s] = new] /\ items' = [items EXCEPT ![q.folder] = item]
        /\ UNCHANGED <<share, due, runningSourceIds, shareEdits, alone>>
    BY <1>5, <1>a, <1>w DEF Training!RefreshItem, Training!NextFolder, HeldIsThere
  <2>2. q.folder \in Folder /\ q.listing[q.folder] \subseteq File
    BY <2>1 DEF Training!Writing, Training!Listing
  <2>3. item \in Training!Item /\ item.isActive = TRUE /\ item.files = q.listing[q.folder]
    <3>1. items[q.folder] \in Training!Item
      BY <1>t, <2>1, <2>2
    <3>2. item.isActive = TRUE /\ item.files = q.listing[q.folder]
      BY <3>1 DEF Training!Item
    <3>3. item \in Training!Item
      BY <2>2, <3>1 DEF Training!Item
    <3>4. QED
      BY <3>2, <3>3
  <2> HIDE DEF Goal
  <2>4. QED
    BY <1>m, <2>1, <2>3
<1>6. ASSUME NEW s \in Training!Sync, Training!FillItem(s) PROVE Goal
  <2> SUFFICES ASSUME NEW q, q = syncWork[s] PROVE Goal
    OBVIOUS
  <2> SUFFICES ASSUME NEW new, new = [at |-> "folders", listing |-> q.listing, left |-> q.left],
                      NEW item, item = [items[q.folder] EXCEPT !.files =
                                            items[q.folder].files \cup q.listing[q.folder]]
               PROVE  Goal
    OBVIOUS
  <2>1. /\ q.at = "created" /\ q \in Training!Writing /\ items[q.folder] # Training!NoItem
        /\ syncWork' = [syncWork EXCEPT ![s] = new] /\ items' = [items EXCEPT ![q.folder] = item]
        /\ UNCHANGED <<share, due, runningSourceIds, shareEdits, alone>>
    BY <1>6, <1>a, <1>w DEF Training!FillItem, Training!NextFolder, HeldIsThere
  <2>2. q.folder \in Folder /\ q.listing[q.folder] \subseteq File
    BY <2>1 DEF Training!Writing, Training!Listing
  <2>3. /\ item \in Training!Item /\ item.isActive = items[q.folder].isActive
        /\ item.files = items[q.folder].files \cup q.listing[q.folder]
    <3>1. items[q.folder] \in Training!Item
      BY <1>t, <2>1, <2>2
    <3>2. QED
      BY <2>2, <3>1 DEF Training!Item
  <2>4. Training!Active(s)
    BY <2>1 DEF Training!Active
  <2>5. s \in alone => item.isActive = TRUE /\ item.files = q.listing[q.folder]
    <3> SUFFICES ASSUME s \in alone PROVE item.isActive = TRUE /\ item.files = q.listing[q.folder]
      OBVIOUS
    <3>1. Through(q)
      BY <1>a, <2>4 DEF AloneInv
    <3>2. items[q.folder].isActive /\ items[q.folder].files = {}
      BY <2>1, <3>1 DEF Through
    <3>3. items[q.folder].isActive \in BOOLEAN
      BY <1>t, <2>1, <2>2 DEF Training!Item
    <3>4. QED
      BY <2>3, <3>2, <3>3
  <2>6. q.at \in {"existing", "created"} /\ item \in Training!Item
    BY <2>1, <2>3
  <2> HIDE DEF Goal
  <2>7. QED
    BY <1>m, <2>1, <2>5, <2>6, Zenon
<1>7. ASSUME NEW s \in Training!Sync, Training!CreateItem(s) PROVE Goal
  <2> SUFFICES ASSUME NEW q, q = syncWork[s] PROVE Goal
    OBVIOUS
  <2> SUFFICES ASSUME NEW new, new = [q EXCEPT !.at = "created"],
                      NEW item, item = [status |-> "NEEDS_REVIEW", isActive |-> TRUE, files |-> {}]
               PROVE  Goal
    OBVIOUS
  <2>1. /\ q.at = "missing" /\ q \in Training!Writing /\ items[q.folder] = Training!NoItem
        /\ syncWork' = [syncWork EXCEPT ![s] = new] /\ items' = [items EXCEPT ![q.folder] = item]
        /\ UNCHANGED <<share, due, runningSourceIds, shareEdits, alone>>
    BY <1>7, <1>w DEF Training!CreateItem
  <2>2. /\ q.folder \in Folder /\ new \in SyncState /\ new.at = "created"
        /\ new.folder = q.folder /\ new.listing = q.listing /\ new.left = q.left
    BY <2>1 DEF Training!Writing
  <2>3. item \in Training!Item /\ item.isActive = TRUE /\ item.files = {}
    BY DEF Training!Item, Training!Status
  <2>4. items'[q.folder] = item /\ item # Training!NoItem
    BY <1>t, <1>i, <2>1, <2>2, <2>3
  <2>5. \A f \in Folder \ {q.folder} : items'[f] = items[f]
    BY <1>t, <2>1
  <2>6. Training!Active(s) /\ ~Ends(s)
    BY <2>1 DEF Training!Active
  <2>7. ASSUME s \in alone PROVE Through(new)'
    <3>1. Through(q)
      BY <1>a, <2>1, <2>6, <2>7 DEF AloneInv
    <3>2. /\ q.left \subseteq Training!Seen(q.listing) /\ q.folder \in Training!Seen(q.listing) \ q.left
          /\ Mirrored(q, Training!Seen(q.listing) \ (q.left \cup {q.folder}))
      BY <2>1, <3>1 DEF Through
    <3>3. Mirrored(new, Training!Seen(new.listing) \ (new.left \cup {new.folder}))'
      BY <2>2, <2>5, <3>2 DEF Mirrored, Training!Seen
    <3>4. QED
      BY <2>2, <2>3, <2>4, <3>2, <3>3 DEF Through
  <2>8. /\ share' \in Training!Listing /\ items' \in [Folder -> Training!Item \cup {Training!NoItem}]
        /\ shareEdits' = shareEdits /\ alone' = alone
        /\ \A f \in Folder : items[f] # Training!NoItem => items'[f] # Training!NoItem
    BY <1>t, <2>1, <2>2, <2>3, <2>4, <2>5
  <2>9. due' \in BOOLEAN
    BY <1>t, <2>1
  <2>10. runningSourceIds' \in BOOLEAN
    BY <1>t, <2>1
  <2> HIDE DEF Goal, SyncState, Mirrors, Ends
  <2>11. QED
    BY <1>k, <2>1, <2>2, <2>4, <2>6, <2>7, <2>8, <2>9, <2>10
<1>8. ASSUME NEW s \in Training!Sync, Training!Archive(s) PROVE Goal
  <2> SUFFICES ASSUME NEW q, q = syncWork[s] PROVE Goal
    OBVIOUS
  <2>1. /\ q.at = "folders" /\ q.left = {} /\ due' = FALSE
        /\ syncWork' = [syncWork EXCEPT ![s] = Training!Done]
        /\ runningSourceIds' = (runningSourceIds /\ s \notin Scheduled)
        /\ items' = [f \in Folder |->
               IF f \in Training!Seen(q.listing) \/ items[f] = Training!NoItem THEN items[f]
               ELSE Training!Archived(items[f])]
        /\ UNCHANGED <<share, shareEdits, alone>>
    BY <1>8 DEF Training!Archive
  \* An item stays as it was or is archived.
  <2>2. ASSUME NEW f \in Folder
        PROVE  /\ items'[f] \in Training!Item \cup {Training!NoItem}
               /\ items[f] # Training!NoItem => items'[f] # Training!NoItem
               /\ f \in Training!Seen(q.listing) => items'[f] = items[f]
               /\ f \notin Training!Seen(q.listing) /\ items'[f] # Training!NoItem =>
                      items'[f].status = "ARCHIVED" /\ items'[f].isActive = FALSE
    <3>1. CASE f \in Training!Seen(q.listing) \/ items[f] = Training!NoItem
      BY <1>t, <2>1, <3>1
    <3>2. CASE ~(f \in Training!Seen(q.listing) \/ items[f] = Training!NoItem)
      <4>1. items[f] \in Training!Item
        BY <1>t, <3>2
      <4>2. \A item \in Training!Item :
                /\ Training!Archived(item) \in Training!Item
                /\ Training!Archived(item).status = "ARCHIVED" /\ Training!Archived(item).isActive = FALSE
        BY DEF Training!Item, Training!Status, Training!Archived
      <4>3. items'[f] = Training!Archived(items[f])
        BY <2>1, <3>2
      <4>4. QED
        BY <1>i, <3>2, <4>1, <4>2, <4>3
    <3>3. QED
      BY <3>1, <3>2
  <2>3. items' \in [Folder -> Training!Item \cup {Training!NoItem}]
    <3>1. DOMAIN items' = Folder /\ items' = [f \in Folder |-> items'[f]]
      BY <2>1
    <3>2. QED
      BY <2>2, <3>1
  <2>4. Training!Active(s)
    BY <2>1 DEF Training!Active
  <2>5. s \in alone' => Mirrors(s)
    <3> SUFFICES ASSUME s \in alone PROVE Mirrors(s)
      BY <2>1
    <3>1. Through(q)
      BY <1>a, <2>4 DEF AloneInv
    <3>2. Mirrored(q, Training!Seen(q.listing))
      BY <2>1, <3>1 DEF Through
    <3> SUFFICES ASSUME NEW f \in Folder
                 PROVE  IF q.listing[f] # {}
                        THEN /\ items'[f] # Training!NoItem /\ items'[f].isActive
                             /\ items'[f].files = q.listing[f]
                        ELSE items'[f] # Training!NoItem =>
                                 items'[f].status = "ARCHIVED" /\ ~items'[f].isActive
      OBVIOUS
    <3>3. CASE q.listing[f] # {}
      <4>1. f \in Training!Seen(q.listing)
        BY <3>3 DEF Training!Seen
      <4>2. QED
        BY <2>2, <3>2, <3>3, <4>1 DEF Mirrored
    <3>4. CASE q.listing[f] = {}
      BY <2>2, <3>4 DEF Training!Seen
    <3>5. QED
      BY <3>3, <3>4
  <2>6. /\ share' \in Training!Listing /\ shareEdits' = shareEdits /\ alone' = alone
        /\ Training!Done.at = "done" /\ due' = FALSE
    BY <1>t, <2>1 DEF Training!Done
  <2>7. runningSourceIds' \in BOOLEAN
    BY <2>1
  <2> HIDE DEF Goal, Mirrors, Ends
  <2>8. QED
    BY <1>k, <2>1, <2>2, <2>3, <2>4, <2>5, <2>6, <2>7
<1>9. ASSUME NEW s \in Training!Sync, Training!SyncFails(s) PROVE Goal
  <2>1. /\ Training!Active(s) /\ due' = FALSE /\ alone' = alone \ {s}
        /\ syncWork' = [syncWork EXCEPT ![s] = Training!Done]
        /\ runningSourceIds' = (runningSourceIds /\ s \notin Scheduled)
        /\ UNCHANGED <<share, items, shareEdits>>
    BY <1>9 DEF Training!SyncFails
  <2>2. runningSourceIds' \in BOOLEAN
    BY <2>1
  <2>3. /\ share' \in Training!Listing /\ items' \in [Folder -> Training!Item \cup {Training!NoItem}]
        /\ Training!Done.at = "done" /\ s \notin alone'
    BY <1>t, <2>1 DEF Training!Done
  <2> HIDE DEF Goal, Mirrors, Ends
  <2>4. QED
    BY <1>k, <2>1, <2>2, <2>3
<1>10. ASSUME Training!IntervalPasses \/ (\E f \in Folder, files \in SUBSET File : Training!ChangeShare(f, files))
                  \/ UNCHANGED Training!vars
       PROVE  Goal
  <2>1. /\ UNCHANGED <<items, runningSourceIds, syncWork, alone>>
        /\ due' = TRUE \/ due' = due
    <3>1. CASE Training!IntervalPasses
      BY <3>1 DEF Training!IntervalPasses
    <3>2. CASE \E f \in Folder, files \in SUBSET File : Training!ChangeShare(f, files)
      BY <3>2 DEF Training!ChangeShare
    <3>3. CASE UNCHANGED Training!vars
      BY <3>3 DEF Training!vars
    <3>4. QED
      BY <1>10, <3>1, <3>2, <3>3
  <2>2. share' \in Training!Listing /\ shareEdits' \in 0..MaxShareEdits
    <3>1. CASE Training!IntervalPasses
      BY <1>t, <3>1 DEF Training!IntervalPasses
    <3>2. CASE \E f \in Folder, files \in SUBSET File : Training!ChangeShare(f, files)
      BY <1>t, <3>2, ServiceBoundAssumption DEF Training!ChangeShare, Training!Listing
    <3>3. CASE UNCHANGED Training!vars
      BY <1>t, <3>3 DEF Training!vars
    <3>4. QED
      BY <1>10, <3>1, <3>2, <3>3
  <2>3. due' \in BOOLEAN
    BY <1>t, <2>1
  <2>4. Training!TypeOK'
    BY <1>t, <2>1, <2>2, <2>3 DEF Training!TypeOK
  <2>5. HeldIsThere' /\ AloneInv'
    BY <1>a, <2>1 DEF HeldIsThere, AloneInv, Training!Active, Through, Mirrored
  <2>6. \A s \in alone : ~Ends(s)
    BY <2>1 DEF Training!Done
  <2>7. QED
    BY <2>4, <2>5, <2>6 DEF SyncInv
<1>11. ASSUME NEW f \in Folder, NEW st \in {"PUBLISHED", "ARCHIVED"}, NEW b \in BOOLEAN,
              Training!UpdateItem(f, st, b)
       PROVE  Goal
  <2> SUFFICES ASSUME NEW new, new = [items[f] EXCEPT !.status = st, !.isActive = b] PROVE Goal
    OBVIOUS
  <2>1. /\ items[f] # Training!NoItem /\ items' = [items EXCEPT ![f] = new]
        /\ shareEdits < MaxShareEdits /\ shareEdits' = shareEdits + 1 /\ alone' = {}
        /\ UNCHANGED <<share, due, runningSourceIds, syncWork>>
    BY <1>11 DEF Training!UpdateItem, Training!Edit
  <2>2. new \in Training!Item
    <3>1. items[f] \in Training!Item
      BY <1>t, <2>1
    <3>2. QED
      BY <3>1 DEF Training!Item, Training!Status
  <2>3. items' \in [Folder -> Training!Item \cup {Training!NoItem}] /\ shareEdits' \in 0..MaxShareEdits
    BY <1>t, <2>1, <2>2, ServiceBoundAssumption
  <2>4. due' \in BOOLEAN
    BY <1>t, <2>1
  <2>5. runningSourceIds' \in BOOLEAN
    BY <1>t, <2>1
  <2>6. Training!TypeOK'
    BY <1>t, <2>1, <2>3, <2>4, <2>5 DEF Training!TypeOK
  <2>7. \A g \in Folder : items[g] # Training!NoItem => items'[g] # Training!NoItem
    BY <1>i, <1>t, <2>1, <2>2
  <2>8. HeldIsThere'
    BY <1>a, <1>w, <2>1, <2>7 DEF HeldIsThere, Training!Writing
  <2>9. QED
    BY <2>1, <2>6, <2>8 DEF SyncInv, AloneInv
<1>12. ASSUME NEW f \in Folder, Training!RemoveItem(f) PROVE Goal
  <2>1. /\ items' = [items EXCEPT ![f] = Training!NoItem]
        /\ syncWork' = [s \in Training!Sync |->
               IF syncWork[s].at \in {"existing", "created"} /\ syncWork[s].folder = f
               THEN [syncWork[s] EXCEPT !.at = "lost"] ELSE syncWork[s]]
        /\ shareEdits < MaxShareEdits /\ shareEdits' = shareEdits + 1 /\ alone' = {}
        /\ UNCHANGED <<share, due, runningSourceIds>>
    BY <1>12 DEF Training!RemoveItem, Training!Edit
  <2>2. items' \in [Folder -> Training!Item \cup {Training!NoItem}] /\ shareEdits' \in 0..MaxShareEdits
    BY <1>t, <2>1, ServiceBoundAssumption
  <2>3. \A s \in Training!Sync :
            /\ syncWork'[s] \in SyncState
            /\ syncWork'[s].at \in {"existing", "created"} =>
                   syncWork'[s] = syncWork[s] /\ syncWork[s].folder # f
    <3> SUFFICES ASSUME NEW s \in Training!Sync, NEW q, q = syncWork[s]
                 PROVE  /\ syncWork'[s] \in SyncState
                        /\ syncWork'[s].at \in {"existing", "created"} =>
                               syncWork'[s] = q /\ q.folder # f
      OBVIOUS
    <3>1. CASE q.at \in {"existing", "created"} /\ q.folder = f
      <4>1. [q EXCEPT !.at = "lost"] \in Training!Writing /\ [q EXCEPT !.at = "lost"].at = "lost"
        BY <1>w, <3>1 DEF Training!Writing
      <4>2. syncWork'[s] = [q EXCEPT !.at = "lost"]
        BY <2>1, <3>1
      <4>3. QED
        BY <4>1, <4>2
    <3>2. CASE ~(q.at \in {"existing", "created"} /\ q.folder = f)
      <4>1. syncWork'[s] = q
        BY <2>1, <3>2
      <4>2. QED
        BY <1>t, <3>2, <4>1
    <3>3. QED
      BY <3>1, <3>2
  <2> HIDE DEF SyncState
  <2>4. syncWork' \in [Training!Sync -> SyncState]
    <3>1. syncWork' = [s \in Training!Sync |-> syncWork'[s]]
      BY <2>1
    <3>2. QED
      BY <2>3, <3>1
  <2>5. due' \in BOOLEAN
    BY <1>t, <2>1
  <2>6. runningSourceIds' \in BOOLEAN
    BY <1>t, <2>1
  <2>7. Training!TypeOK'
    BY <1>t, <2>1, <2>2, <2>4, <2>5, <2>6 DEF Training!TypeOK, SyncState
  <2>8. HeldIsThere'
    <3> SUFFICES ASSUME NEW s \in Training!Sync, syncWork'[s].at \in {"existing", "created"}
                 PROVE  items'[syncWork'[s].folder] # Training!NoItem
      BY DEF HeldIsThere
    <3>1. syncWork'[s] = syncWork[s] /\ syncWork[s].folder # f
      BY <2>3
    <3>2. syncWork[s].folder \in Folder
      BY <1>w, <3>1 DEF Training!Writing
    <3>3. items[syncWork[s].folder] # Training!NoItem
      BY <1>a, <3>1 DEF HeldIsThere
    <3>4. QED
      BY <1>t, <2>1, <3>1, <3>2, <3>3
  <2>9. QED
    BY <2>1, <2>7, <2>8 DEF SyncInv, AloneInv
<1>13. Goal
  <2> HIDE DEF Goal
  <2>1. CASE UNCHANGED Training!vars
    BY <1>10, <2>1
  <2>2. ASSUME NEW s \in Training!Sync,
               \/ Training!Wake(s) \/ Training!RunScheduled(s) \/ Training!Continue(s)
               \/ Training!RunManual(s) \/ Training!List(s) \/ Training!FindItem(s)
               \/ Training!RefreshItem(s) \/ Training!CreateItem(s) \/ Training!FillItem(s)
               \/ Training!Archive(s) \/ Training!SyncFails(s)
        PROVE  Goal
    BY <1>1, <1>2, <1>3, <1>4, <1>5, <1>6, <1>7, <1>8, <1>9, <2>2
  <2>3. QED
    BY <1>10, <1>11, <1>12, <2>1, <2>2 DEF Training!Next
<1>14. QED
  BY <1>13

\* It holds before the first synchronisation.
LEMMA SyncStart ==
    ASSUME Training!Init
    PROVE  SyncInv
<1>1. /\ share \in Training!Listing /\ items \in [Folder -> Training!Item \cup {Training!NoItem}]
      /\ syncWork \in [Training!Sync -> {Training!Idle}] /\ alone = {} /\ due = TRUE
      /\ runningSourceIds = FALSE /\ shareEdits \in 0..MaxShareEdits
  BY ServiceBoundAssumption DEF Training!Init, Training!Listing
<1>2. Training!TypeOK
  BY <1>1 DEF Training!TypeOK
<1>3. HeldIsThere /\ AloneInv
  BY <1>1 DEF HeldIsThere, AloneInv, Training!Idle
<1>4. QED
  BY <1>2, <1>3 DEF SyncInv

\* A synchronisation that nothing crossed leaves the items as it found the share
\* (TrainingSync.SyncMatchesListing).
THEOREM TrainingSyncMatchesListing == Training!Spec => SyncMatchesListing
<1>1. Training!Init => SyncInv
  BY SyncStart
<1>2. SyncInv /\ [Training!Next]_(Training!vars) => SyncInv'
  BY SyncInvStep
<1>3. SyncInv /\ [Training!Next]_(Training!vars) =>
        [\A s \in alone \cap alone' :
            Training!Active(s) /\ syncWork[s].at = "folders" /\ syncWork'[s] = Training!Done =>
                \A f \in Folder :
                    IF syncWork[s].listing[f] # {}
                    THEN items'[f] # Training!NoItem /\ items'[f].isActive /\
                             items'[f].files = syncWork[s].listing[f]
                    ELSE items'[f] # Training!NoItem =>
                             items'[f].status = "ARCHIVED" /\ ~items'[f].isActive]_(Training!vars)
  BY SyncInvStep
<1>4. QED
  BY <1>1, <1>2, <1>3, PTL DEF Training!Spec, SyncMatchesListing, Training!SyncMatchesListing

\* In the system ServicesMC composes, an undisturbed synchronisation mirrors the share.
COROLLARY SyncMatchesListingHolds == Spec => SyncMatchesListing
BY TrainingSyncMatchesListing, ServicesRun, PTL

-----------------------------------------------------------------------------
(* PortalAccounts.                                                         *)

\* The histories have the names and addresses of people; whoever had a name has one.
HistoriesHold ==
    \A p \in Person :
        /\ people[p].name # None => <<p, people[p].name>> \in named
        /\ people[p].mail # None => <<p, people[p].mail>> \in mailed
        /\ \A n \in Name : <<p, n>> \in named => people[p].name # None

\* A user has a name of its person's or a local account's, with the domain only where
\* another had the name; a made-up address is that of the user's person.
UsersOwn ==
    /\ \A n \in Name : \A u \in {<<n, "bare">>, <<n, "@domain">>} :
           users[u] # Portal!NoUser /\ users[u].person # None => <<users[u].person, n>> \in named
    /\ \A n \in Name : users[<<n, "bare">>] # Portal!NoUser =>
           users[<<n, "bare">>].person # None \/ n \in Local
    /\ \A n \in Name : users[<<n, "@domain">>] # Portal!NoUser =>
           users[<<n, "@domain">>].person # None /\ (n \in Local \/ Portal!Reused(n))
    /\ \A u \in Portal!Username : users[u] # Portal!NoUser =>
           \A p \in Person : users[u].email = <<p, "ad-@domain">> => users[u].person = p

\* So it is with the name and the address a login is about to give.
LoginOwns(q) ==
    /\ q.at \in {"found", "unlinked", "named"} => <<q.of, q.name>> \in named
    /\ q.at \in {"named", "addressed"} =>
           \E n \in Name :
               /\ <<q.of, n>> \in named
               /\ \/ q.username = <<n, "bare">>
                  \/ /\ q.username = <<n, "@domain">>
                     /\ n \in Local \/ Portal!Reused(n) \/ Portal!UsersOf(q.of) # {}
    /\ q.at = "addressed" => \A p \in Person : q.email = <<p, "ad-@domain">> => q.of = p

\* What a login that nothing crossed has looked up is free.
LookupsHold(q) ==
    /\ q.at \in {"unlinked", "named", "addressed"} => Portal!UsersOf(q.of) = {}
    /\ q.at \in {"named", "addressed"} =>
           users[q.username] = Portal!NoUser \/ \E n \in Name : Portal!Reused(n)
    /\ q.at = "addressed" => Portal!UsersAt(q.email) = {}

PortalInv ==
    /\ Portal!TypeOK /\ HistoriesHold /\ UsersOwn
    /\ \A l \in Login : LoginOwns(logins[l])
    /\ \A l \in Login \ loginsCrossed : LookupsHold(logins[l])
    /\ Portal!LoginSucceeds

\* User names are names, plain or with the domain, and no address is a made-up one.
LEMMA PortalNames ==
    /\ \A u \in Portal!Username : \E n \in Name : u \in {<<n, "bare">>, <<n, "@domain">>}
    /\ \A n \in Name : <<n, "bare">> \in Portal!Username /\ <<n, "@domain">> \in Portal!Username
    /\ \A m \in Portal!Mail : \A p \in Person : m # <<p, "ad-@domain">>
    /\ \A n \in Name : <<n, "@domain">> \in Portal!Mail
    /\ \A p \in Person : <<p, "ad-@domain">> \in Portal!Address
    /\ Portal!Mail \subseteq Portal!Address
    /\ None \notin Person /\ None \notin Name /\ None \notin Portal!Address
<1>1. \A u \in Portal!Username : \E n \in Name : u \in {<<n, "bare">>, <<n, "@domain">>}
  BY DEF Portal!Username, Portal!Mail
<1>2. \A n \in Name : <<n, "bare">> \in Portal!Username /\ <<n, "@domain">> \in Portal!Username
  BY DEF Portal!Username, Portal!Mail
<1>3. \A m \in Portal!Mail : \A p \in Person : m # <<p, "ad-@domain">>
  BY DEF Portal!Mail
<1>4. /\ \A n \in Name : <<n, "@domain">> \in Portal!Mail
      /\ \A p \in Person : <<p, "ad-@domain">> \in Portal!Address
      /\ Portal!Mail \subseteq Portal!Address
  BY DEF Portal!Mail, Portal!Address
<1>5. QED
  BY <1>1, <1>2, <1>3, <1>4, NothingAssumption

\* Writing rows of people, none of whom loses the name, keeps the histories right.
LEMMA PortalPeople ==
    ASSUME Portal!TypeOK, HistoriesHold, NEW rows \in [Person -> Portal!PersonRow],
           Portal!WritePeople(rows), \A p \in Person : people[p].name # None => rows[p].name # None
    PROVE  /\ HistoriesHold' /\ named \subseteq named'
           /\ named' \subseteq Person \X Name /\ mailed' \subseteq Person \X Portal!Mail
<1>1. /\ people' = rows /\ named' = named \cup Portal!NamesOf(rows)
      /\ mailed' = mailed \cup Portal!MailsOf(rows)
  BY DEF Portal!WritePeople
<1>2. \A p \in Person : rows[p].name \in Name \cup {None} /\ rows[p].mail \in Portal!Mail \cup {None}
  BY DEF Portal!PersonRow
<1>3. /\ \A p \in Person : rows[p].name # None => <<p, rows[p].name>> \in Portal!NamesOf(rows)
      /\ \A p \in Person : rows[p].mail # None => <<p, rows[p].mail>> \in Portal!MailsOf(rows)
  BY DEF Portal!NamesOf, Portal!MailsOf
<1>4. \A p \in Person, n \in Name : <<p, n>> \in Portal!NamesOf(rows) => rows[p].name # None
  BY DEF Portal!NamesOf
<1>5. Portal!NamesOf(rows) \subseteq Person \X Name /\ Portal!MailsOf(rows) \subseteq Person \X Portal!Mail
  BY <1>2 DEF Portal!NamesOf, Portal!MailsOf
<1>6. named \subseteq Person \X Name /\ mailed \subseteq Person \X Portal!Mail
  BY DEF Portal!TypeOK
<1>7. HistoriesHold'
  BY <1>1, <1>3, <1>4 DEF HistoriesHold
<1>8. QED
  BY <1>1, <1>5, <1>6, <1>7

\* What is written of people and of the addresses of users changes nothing that a login
\* goes by: the names and links of users stay, and a login it crosses counts as crossed.
LEMMA PortalFrame ==
    ASSUME PortalInv, Portal!TypeOK', HistoriesHold', named \subseteq named', logins' = logins,
           loginsCrossed \subseteq loginsCrossed',
           \A u \in Portal!Username :
               /\ users'[u] = Portal!NoUser <=> users[u] = Portal!NoUser
               /\ users'[u].person = users[u].person
               /\ users'[u].email = users[u].email \/ users'[u].email \in Portal!Mail,
           users' = users \/ \A l \in Login : Portal!Provisioning(l) => l \in loginsCrossed'
    PROVE  PortalInv'
<1>i. /\ UsersOwn /\ \A l \in Login : LoginOwns(logins[l])
      /\ \A l \in Login \ loginsCrossed : LookupsHold(logins[l])
      /\ Portal!LoginSucceeds
  BY DEF PortalInv
<1>1. \A n : Portal!Reused(n) => Portal!Reused(n)'
  BY DEF Portal!Reused
<1>2. \A p : Portal!UsersOf(p)' = Portal!UsersOf(p)
  BY DEF Portal!UsersOf
<1>3. UsersOwn'
  <2>1. ASSUME NEW n \in Name, NEW u \in {<<n, "bare">>, <<n, "@domain">>},
               users'[u] # Portal!NoUser
        PROVE  users[u] # Portal!NoUser /\ users'[u].person = users[u].person
    BY <2>1, PortalNames
  <2>2. ASSUME NEW u \in Portal!Username, users'[u] # Portal!NoUser,
               NEW p \in Person, users'[u].email = <<p, "ad-@domain">>
        PROVE  users'[u].person = p
    BY <1>i, <2>2, PortalNames DEF UsersOwn
  <2>3. Portal!NoUser' = Portal!NoUser
    BY DEF Portal!NoUser
  <2>4. QED
    BY <1>i, <1>1, <2>1, <2>2, <2>3 DEF UsersOwn
<1>4. ASSUME NEW l \in Login PROVE LoginOwns(logins[l])'
  <2> SUFFICES ASSUME NEW q, q = logins[l] PROVE LoginOwns(q)'
    OBVIOUS
  <2>1. LoginOwns(q)
    BY <1>i
  <2>2. Portal!UsersOf(q.of)' = Portal!UsersOf(q.of)
    BY <1>2
  <2>3. QED
    BY <1>1, <2>1, <2>2 DEF LoginOwns
<1>5. ASSUME NEW l \in Login \ loginsCrossed' PROVE LookupsHold(logins[l])'
  <2> SUFFICES ASSUME NEW q, q = logins[l] PROVE LookupsHold(q)'
    OBVIOUS
  <2>1. LookupsHold(q)
    BY <1>i, <1>5
  <2>2. CASE users' = users
    <3>1. Portal!UsersOf(q.of)' = Portal!UsersOf(q.of) /\ Portal!UsersAt(q.email)' = Portal!UsersAt(q.email)
      BY <2>2 DEF Portal!UsersOf, Portal!UsersAt
    <3>2. QED
      BY <1>1, <2>1, <2>2, <3>1 DEF LookupsHold
  <2>3. CASE users' # users
    BY <1>5, <2>3 DEF LookupsHold, Portal!Provisioning
  <2>4. QED
    BY <2>2, <2>3
<1>6. Portal!LoginSucceeds'
  BY <1>i, <1>1 DEF Portal!LoginSucceeds
<1>7. QED
  BY <1>3, <1>4, <1>5, <1>6 DEF PortalInv

\* Every step of PortalAccounts preserves it.
LEMMA PortalInvStep ==
    ASSUME PortalInv, [Portal!Next]_(Portal!vars)
    PROVE  PortalInv'
<1> DEFINE LoginState == {Portal!Idle, Portal!Stopped} \cup Portal!Found \cup Portal!Naming
                             \cup Portal!Addressed \cup Portal!Over
<1>i. /\ Portal!TypeOK /\ HistoriesHold /\ UsersOwn /\ \A l \in Login : LoginOwns(logins[l])
      /\ \A l \in Login \ loginsCrossed : LookupsHold(logins[l])
      /\ Portal!LoginSucceeds
  BY DEF PortalInv
<1>t. /\ people \in [Person -> Portal!PersonRow]
      /\ users \in [Portal!Username -> Portal!UserRow \cup {Portal!NoUser}]
      /\ logins \in [Login -> LoginState]
      /\ accountChanges \in 0..MaxChange
      /\ named \subseteq Person \X Name /\ mailed \subseteq Person \X Portal!Mail
      /\ loginsCrossed \subseteq Login
  BY <1>i DEF Portal!TypeOK
\* Where a login is tells what it holds.
<1>l. \A l \in Login :
          /\ logins[l].at \in {"found", "unlinked"} => logins[l] \in Portal!Found
          /\ logins[l].at = "named" => logins[l] \in Portal!Naming
          /\ logins[l].at = "addressed" => logins[l] \in Portal!Addressed
  BY <1>t DEF Portal!Idle, Portal!Stopped, Portal!Found, Portal!Naming, Portal!Addressed, Portal!Over
<1>u. \A x \in Portal!UserRow : x # Portal!NoUser
  BY PortalNames DEF Portal!UserRow, Portal!NoUser
\* A step that writes people only.
<1>p. ASSUME NEW rows \in [Person -> Portal!PersonRow], Portal!WritePeople(rows),
             \A p \in Person : people[p].name # None => rows[p].name # None,
             accountChanges' \in 0..MaxChange, UNCHANGED <<users, logins, loginsCrossed>>
      PROVE  PortalInv'
  <2>1. /\ HistoriesHold' /\ named \subseteq named'
        /\ named' \subseteq Person \X Name /\ mailed' \subseteq Person \X Portal!Mail
    BY <1>i, <1>p, PortalPeople
  <2>2. people' = rows
    BY <1>p DEF Portal!WritePeople
  <2>3. Portal!TypeOK'
    BY <1>t, <1>p, <2>1, <2>2 DEF Portal!TypeOK
  <2>4. QED
    BY <1>p, <2>1, <2>3, PortalFrame
\* A step of a login that writes neither people nor users.
<1>n. ASSUME NEW l \in Login, NEW new \in LoginState, Portal!Goes(l, new), Portal!TablesUnchanged,
             LoginOwns(new), l \notin loginsCrossed => LookupsHold(new),
             l \notin loginsCrossed /\ new.at = "stopped" => \E n \in Name : Portal!Reused(n)
      PROVE  PortalInv'
  <2>1. /\ logins' = [logins EXCEPT ![l] = new]
        /\ UNCHANGED <<people, users, accountChanges, named, mailed, loginsCrossed>>
    BY <1>n DEF Portal!Goes, Portal!TablesUnchanged
  <2>2. Portal!TypeOK'
    BY <1>t, <1>n, <2>1 DEF Portal!TypeOK
  <2>3. HistoriesHold' /\ UsersOwn'
    BY <1>i, <2>1 DEF HistoriesHold, UsersOwn, Portal!Reused
  <2>4. \A o \in Login : logins'[o] = IF o = l THEN new ELSE logins[o]
    BY <1>t, <2>1
  <2>5. ASSUME NEW q PROVE (LoginOwns(q) => LoginOwns(q)') /\ (LookupsHold(q) => LookupsHold(q)')
    <3>1. Portal!UsersOf(q.of)' = Portal!UsersOf(q.of) /\ Portal!UsersAt(q.email)' = Portal!UsersAt(q.email)
      BY <2>1 DEF Portal!UsersOf, Portal!UsersAt
    <3>2. \A n : Portal!Reused(n)' <=> Portal!Reused(n)
      BY <2>1 DEF Portal!Reused
    <3>3. Portal!NoUser' = Portal!NoUser
      BY DEF Portal!NoUser
    <3>4. LoginOwns(q) => LoginOwns(q)'
      BY <2>1, <3>1, <3>2 DEF LoginOwns
    <3>5. LookupsHold(q) => LookupsHold(q)'
      BY <2>1, <3>1, <3>2, <3>3 DEF LookupsHold
    <3>6. QED
      BY <3>4, <3>5
  <2>6. ASSUME NEW o \in Login PROVE LoginOwns(logins[o])'
    <3> SUFFICES ASSUME NEW q, q = logins'[o] PROVE LoginOwns(q)'
      OBVIOUS
    <3>1. LoginOwns(q)
      BY <1>i, <1>n, <2>4
    <3>2. QED
      BY <2>5, <3>1
  <2>7. ASSUME NEW o \in Login \ loginsCrossed' PROVE LookupsHold(logins[o])'
    <3> SUFFICES ASSUME NEW q, q = logins'[o] PROVE LookupsHold(q)'
      OBVIOUS
    <3>1. LookupsHold(q)
      BY <1>i, <1>n, <2>1, <2>4, <2>7
    <3>2. QED
      BY <2>5, <3>1
  <2>8. Portal!LoginSucceeds'
    BY <1>i, <1>n, <2>1, <2>4 DEF Portal!LoginSucceeds, Portal!Reused
  <2>9. QED
    BY <2>2, <2>3, <2>6, <2>7, <2>8 DEF PortalInv
<1>1. ASSUME NEW p \in Person, NEW n \in Name, NEW m \in Portal!Mail \cup {None},
             Portal!SavePerson(p, n, m)
      PROVE  PortalInv'
  <2> SUFFICES ASSUME NEW rows, rows = [people EXCEPT ![p] = [name |-> n, mail |-> m, isActive |-> TRUE]]
               PROVE  PortalInv'
    OBVIOUS
  <2>1. Portal!WritePeople(rows) /\ UNCHANGED <<users, logins, loginsCrossed>>
    BY <1>1 DEF Portal!SavePerson
  <2>2. accountChanges' \in 0..MaxChange
    BY <1>1, <1>t, ServiceBoundAssumption DEF Portal!SavePerson, Portal!Change
  <2>3. rows \in [Person -> Portal!PersonRow]
    BY <1>t DEF Portal!PersonRow
  <2>4. \A o \in Person : people[o].name # None => rows[o].name # None
    BY <1>t, PortalNames
  <2>5. QED
    BY <1>p, <2>1, <2>2, <2>3, <2>4
<1>2. ASSUME NEW p \in Person, Portal!DeactivatePerson(p) PROVE PortalInv'
  <2> SUFFICES ASSUME NEW row, row = [people[p] EXCEPT !.isActive = FALSE],
                      NEW rows, rows = [people EXCEPT ![p] = row]
               PROVE  PortalInv'
    OBVIOUS
  <2>1. Portal!WritePeople(rows) /\ UNCHANGED <<users, logins, loginsCrossed>>
    BY <1>2, <1>t DEF Portal!DeactivatePerson
  <2>2. accountChanges' \in 0..MaxChange
    BY <1>2, <1>t, ServiceBoundAssumption DEF Portal!DeactivatePerson, Portal!Change
  <2>3. row \in Portal!PersonRow /\ row.name = people[p].name
    BY <1>t DEF Portal!PersonRow
  <2>4. rows \in [Person -> Portal!PersonRow] /\ \A o \in Person : rows[o].name = people[o].name
    BY <1>t, <2>3
  <2>5. QED
    BY <1>p, <2>1, <2>2, <2>4
<1>3. ASSUME NEW u \in Portal!Username, NEW m \in Portal!Mail \cup {users[u].email}, NEW a \in BOOLEAN,
             Portal!UpdateUserProfile(u, m, a)
      PROVE  PortalInv'
  <2> SUFFICES ASSUME NEW row, row = [users[u] EXCEPT !.email = m, !.isActive = a] PROVE PortalInv'
    OBVIOUS
  <2>1. /\ users[u] # Portal!NoUser /\ users' = [users EXCEPT ![u] = row]
        /\ loginsCrossed' = loginsCrossed \cup {l \in Login : Portal!Provisioning(l)}
        /\ UNCHANGED <<people, logins, named, mailed>>
    BY <1>3 DEF Portal!UpdateUserProfile, Portal!WriteUsers
  <2>2. accountChanges' \in 0..MaxChange
    BY <1>3, <1>t, ServiceBoundAssumption DEF Portal!UpdateUserProfile, Portal!Change
  <2>3. /\ row \in Portal!UserRow /\ row.person = users[u].person /\ row.email = m
        /\ row # Portal!NoUser
    <3>1. users[u] \in Portal!UserRow
      BY <1>t, <2>1
    <3>2. m \in Portal!Address
      BY <3>1, PortalNames DEF Portal!UserRow
    <3>3. row \in Portal!UserRow /\ row.person = users[u].person /\ row.email = m
      BY <3>1, <3>2 DEF Portal!UserRow
    <3>4. QED
      BY <1>u, <3>3
  <2>4. Portal!TypeOK'
    BY <1>t, <2>1, <2>2, <2>3 DEF Portal!TypeOK
  <2>5. \A v \in Portal!Username :
            /\ users'[v] = Portal!NoUser <=> users[v] = Portal!NoUser
            /\ users'[v].person = users[v].person
            /\ users'[v].email = users[v].email \/ users'[v].email \in Portal!Mail
    BY <1>t, <2>1, <2>3
  <2>6. HistoriesHold'
    BY <1>i, <2>1 DEF HistoriesHold
  <2>7. QED
    BY <2>1, <2>4, <2>5, <2>6, PortalFrame
<1>4. ASSUME NEW u \in Portal!Username, NEW m \in Portal!Mail \cup {None}, Portal!UpdateProfile(u, m)
      PROVE  PortalInv'
  <2> SUFFICES ASSUME NEW p, p = users[u].person,
                      NEW email, email = (IF m = None THEN users[u].email ELSE m),
                      NEW row, row = [users[u] EXCEPT !.email = email],
                      NEW mine, mine = [people[p] EXCEPT !.mail = m],
                      NEW rows, rows = [people EXCEPT ![p] = mine]
               PROVE  PortalInv'
    OBVIOUS
  <2>1. /\ p # None /\ users' = [users EXCEPT ![u] = row] /\ logins' = logins
        /\ loginsCrossed' = loginsCrossed \cup {l \in Login : Portal!Provisioning(l)}
        /\ Portal!WritePeople(rows) \/ UNCHANGED <<people, named, mailed>>
    BY <1>4 DEF Portal!UpdateProfile, Portal!WriteUsers
  <2>2. accountChanges' \in 0..MaxChange
    BY <1>4, <1>t, ServiceBoundAssumption DEF Portal!UpdateProfile, Portal!Change
  <2>3. users[u] # Portal!NoUser /\ users[u] \in Portal!UserRow /\ p \in Person
    BY <1>t, <2>1 DEF Portal!UserRow, Portal!NoUser
  <2>4. /\ row \in Portal!UserRow /\ row.person = users[u].person
        /\ row.email = users[u].email \/ row.email \in Portal!Mail
        /\ row # Portal!NoUser
    <3>1. email = users[u].email \/ email \in Portal!Mail
      OBVIOUS
    <3>2. email \in Portal!Address
      BY <2>3, <3>1, PortalNames DEF Portal!UserRow
    <3>3. row \in Portal!UserRow /\ row.person = users[u].person /\ row.email = email
      BY <2>3, <3>2 DEF Portal!UserRow
    <3>4. QED
      BY <1>u, <3>1, <3>3
  <2>5. users' \in [Portal!Username -> Portal!UserRow \cup {Portal!NoUser}]
    BY <1>t, <2>1, <2>4
  <2>6. \A v \in Portal!Username :
            /\ users'[v] = Portal!NoUser <=> users[v] = Portal!NoUser
            /\ users'[v].person = users[v].person
            /\ users'[v].email = users[v].email \/ users'[v].email \in Portal!Mail
    BY <1>t, <2>1, <2>3, <2>4
  <2>7. /\ HistoriesHold' /\ named \subseteq named' /\ people' \in [Person -> Portal!PersonRow]
        /\ named' \subseteq Person \X Name /\ mailed' \subseteq Person \X Portal!Mail
    <3>1. CASE UNCHANGED <<people, named, mailed>>
      BY <1>i, <1>t, <3>1 DEF HistoriesHold
    <3>2. CASE Portal!WritePeople(rows)
      <4>1. mine \in Portal!PersonRow /\ mine.name = people[p].name
        BY <1>t, <2>3 DEF Portal!PersonRow
      <4>2. rows \in [Person -> Portal!PersonRow] /\ \A o \in Person : rows[o].name = people[o].name
        BY <1>t, <4>1
      <4>3. people' = rows
        BY <3>2 DEF Portal!WritePeople
      <4>4. QED
        BY <1>i, <3>2, <4>2, <4>3, PortalPeople
    <3>3. QED
      BY <2>1, <3>1, <3>2
  <2>8. Portal!TypeOK'
    BY <1>t, <2>1, <2>2, <2>5, <2>7 DEF Portal!TypeOK
  <2>9. QED
    BY <2>1, <2>6, <2>7, <2>8, PortalFrame
<1>5. ASSUME NEW l \in Login, NEW p \in Person, Portal!Authenticate(l, p) PROVE PortalInv'
  <2> SUFFICES ASSUME NEW new, new = [at |-> "found", of |-> p, name |-> people[p].name, mail |-> people[p].mail]
               PROVE  PortalInv'
    OBVIOUS
  <2>1. people[p].name # None /\ Portal!Goes(l, new) /\ Portal!TablesUnchanged
    BY <1>5 DEF Portal!Authenticate
  <2>2. new \in Portal!Found
    BY <1>t, <2>1 DEF Portal!PersonRow, Portal!Found
  <2>3. LoginOwns(new) /\ LookupsHold(new)
    BY <1>i, <2>1 DEF LoginOwns, LookupsHold, HistoriesHold
  <2>4. new \in LoginState /\ new.at = "found"
    BY <2>2
  <2> HIDE DEF LoginState
  <2>5. QED
    BY <1>n, <2>1, <2>3, <2>4
<1>6. ASSUME NEW l \in Login, Portal!FindLinked(l) PROVE PortalInv'
  <2> SUFFICES ASSUME NEW q, q = logins[l] PROVE PortalInv'
    OBVIOUS
  <2>1. q.at = "found" /\ q \in Portal!Found /\ LoginOwns(q)
    BY <1>6, <1>i, <1>l DEF Portal!FindLinked
  <2>2. CASE Portal!UsersOf(q.of) = {} /\ Portal!Goes(l, [q EXCEPT !.at = "unlinked"])
    <3> SUFFICES ASSUME NEW new, new = [q EXCEPT !.at = "unlinked"] PROVE PortalInv'
      OBVIOUS
    <3>1. /\ new \in LoginState /\ new.at = "unlinked"
          /\ new.of = q.of /\ new.name = q.name
      BY <2>1 DEF Portal!Found
    <3>2. LoginOwns(new) /\ LookupsHold(new)
      BY <2>1, <2>2, <3>1 DEF LoginOwns, LookupsHold
    <3>3. Portal!Goes(l, new) /\ Portal!TablesUnchanged
      BY <1>6, <2>2 DEF Portal!FindLinked
    <3> HIDE DEF LoginState
    <3>4. QED
      BY <1>n, <3>1, <3>2, <3>3
  <2>3. ASSUME NEW u \in Portal!UsersOf(q.of),
               Portal!Goes(l, IF users[u].isActive THEN [at |-> "done", of |-> q.of, username |-> u]
                              ELSE Portal!Idle)
        PROVE  PortalInv'
    <3> SUFFICES ASSUME NEW new, new = (IF users[u].isActive THEN [at |-> "done", of |-> q.of, username |-> u]
                                        ELSE Portal!Idle)
                 PROVE  PortalInv'
      OBVIOUS
    <3>1. new \in LoginState /\ new.at \in {"done", "idle"}
      BY <2>1 DEF Portal!Found, Portal!Over, Portal!UsersOf, Portal!Idle
    <3>2. LoginOwns(new) /\ LookupsHold(new)
      BY <3>1 DEF LoginOwns, LookupsHold
    <3>3. Portal!Goes(l, new) /\ Portal!TablesUnchanged
      BY <1>6, <2>3 DEF Portal!FindLinked
    <3> HIDE DEF LoginState
    <3>4. QED
      BY <1>n, <3>1, <3>2, <3>3
  <2>4. QED
    BY <1>6, <2>2, <2>3 DEF Portal!FindLinked
<1>7. ASSUME NEW l \in Login, Portal!FindUsername(l) PROVE PortalInv'
  <2> SUFFICES ASSUME NEW q, q = logins[l], NEW username, username = Portal!PortalUsername(q.name),
                      NEW new, new = [at |-> "named", of |-> q.of, name |-> q.name, mail |-> q.mail,
                                      username |-> username]
               PROVE  PortalInv'
    OBVIOUS
  <2>1. /\ q.at = "unlinked" /\ q \in Portal!Found /\ LoginOwns(q)
        /\ Portal!Goes(l, new) /\ Portal!TablesUnchanged
    BY <1>7, <1>i, <1>l DEF Portal!FindUsername
  <2>2. q.of \in Person /\ q.name \in Name /\ q.mail \in Portal!Mail \cup {None} /\ <<q.of, q.name>> \in named
    BY <2>1 DEF Portal!Found, LoginOwns
  <2>3. \/ username = <<q.name, "bare">> /\ users[username] = Portal!NoUser
        \/ username = <<q.name, "@domain">> /\ users[<<q.name, "bare">>] # Portal!NoUser
    BY DEF Portal!PortalUsername
  <2>4. username \in Portal!Username
    BY <2>2, <2>3, PortalNames
  \* Whoever has the name of the person is a local account, the person's user or reused it.
  <2>5. ASSUME NEW u \in {<<q.name, "bare">>, <<q.name, "@domain">>}, users[u] # Portal!NoUser,
               users[u].person # None
        PROVE  Portal!UsersOf(q.of) # {} \/ Portal!Reused(q.name)
    <3>1. u \in Portal!Username /\ <<users[u].person, q.name>> \in named
      BY <1>i, <2>2, <2>5, PortalNames DEF UsersOwn
    <3>2. users[u].person \in Person
      BY <1>t, <3>1
    <3>3. QED
      BY <2>2, <2>5, <3>1, <3>2 DEF Portal!UsersOf, Portal!Reused
  <2>6. new \in LoginState /\ new.at = "named"
    BY <2>2, <2>4 DEF Portal!Naming
  <2>7. LoginOwns(new)
    <3>1. users[<<q.name, "bare">>] # Portal!NoUser =>
              q.name \in Local \/ Portal!Reused(q.name) \/ Portal!UsersOf(q.of) # {}
      BY <1>i, <2>2, <2>5 DEF UsersOwn
    <3>2. QED
      BY <2>2, <2>3, <3>1 DEF LoginOwns
  <2>8. ASSUME l \notin loginsCrossed PROVE LookupsHold(new)
    <3>1. Portal!UsersOf(q.of) = {}
      BY <1>i, <2>1, <2>8 DEF LookupsHold
    <3>2. users[<<q.name, "@domain">>] # Portal!NoUser => Portal!Reused(q.name)
      BY <1>i, <2>2, <2>5, <3>1 DEF UsersOwn
    <3>3. users[username] = Portal!NoUser \/ \E n \in Name : Portal!Reused(n)
      BY <2>2, <2>3, <3>2
    <3>4. QED
      BY <3>1, <3>3 DEF LookupsHold
  <2> HIDE DEF LoginState
  <2>9. QED
    BY <1>n, <2>1, <2>6, <2>7, <2>8
<1>8. ASSUME NEW l \in Login, Portal!FindEmail(l) PROVE PortalInv'
  <2> SUFFICES ASSUME NEW q, q = logins[l], NEW email, email = Portal!PortalEmail(q.of, q.name, q.mail),
                      NEW new, new = [at |-> "addressed", of |-> q.of, username |-> q.username, email |-> email]
               PROVE  PortalInv'
    OBVIOUS
  <2>1. /\ q.at = "named" /\ q \in Portal!Naming /\ LoginOwns(q)
        /\ Portal!Goes(l, new) /\ Portal!TablesUnchanged
    BY <1>8, <1>i, <1>l DEF Portal!FindEmail
  <2>2. /\ q.of \in Person /\ q.name \in Name /\ q.mail \in Portal!Mail \cup {None}
        /\ q.username \in Portal!Username
    BY <2>1 DEF Portal!Naming
  <2>3. Portal!DesiredEmail(q.name, q.mail) \in Portal!Mail
    BY <2>2, PortalNames DEF Portal!DesiredEmail
  <2>4. \/ email \in Portal!Mail /\ Portal!UsersAt(email) = {}
        \/ email = <<q.of, "ad-@domain">>
    BY <2>3 DEF Portal!PortalEmail
  <2>5. new \in LoginState /\ new.at = "addressed"
    BY <2>2, <2>4, PortalNames DEF Portal!Addressed
  <2>6. LoginOwns(new)
    <3>1. \A p \in Person : email = <<p, "ad-@domain">> => q.of = p
      BY <2>4, PortalNames
    <3>2. QED
      BY <2>1, <3>1 DEF LoginOwns
  <2>7. ASSUME l \notin loginsCrossed PROVE LookupsHold(new)
    <3>1. LookupsHold(q)
      BY <1>i, <2>7
    <3>2. Portal!UsersOf(q.of) = {}
      BY <2>1, <3>1 DEF LookupsHold
    <3>3. Portal!UsersAt(email) = {}
      <4>1. CASE email = <<q.of, "ad-@domain">>
        BY <1>i, <2>2, <3>2, <4>1 DEF UsersOwn, Portal!UsersAt, Portal!UsersOf
      <4>2. QED
        BY <2>4, <4>1
    <3>4. QED
      BY <2>1, <3>1, <3>2, <3>3 DEF LookupsHold
  <2> HIDE DEF LoginState
  <2>8. QED
    BY <1>n, <2>1, <2>5, <2>6, <2>7
<1>9. ASSUME NEW l \in Login, Portal!CreateFails(l) PROVE PortalInv'
  <2>1. /\ logins[l].at = "addressed" /\ Portal!Goes(l, Portal!Stopped) /\ Portal!TablesUnchanged
        /\ \/ users[logins[l].username] # Portal!NoUser \/ Portal!UsersAt(logins[l].email) # {}
           \/ Portal!UsersOf(logins[l].of) # {}
    BY <1>9 DEF Portal!CreateFails
  <2>2. l \notin loginsCrossed => \E n \in Name : Portal!Reused(n)
    BY <1>i, <2>1 DEF LookupsHold
  <2>3. Portal!Stopped \in LoginState /\ LoginOwns(Portal!Stopped) /\ LookupsHold(Portal!Stopped)
    BY DEF Portal!Stopped, LoginOwns, LookupsHold
  <2> HIDE DEF LoginState
  <2>4. QED
    BY <1>n, <2>1, <2>2, <2>3
<1>10. ASSUME NEW l \in Login, Portal!CreateUser(l) PROVE PortalInv'
  <2> SUFFICES ASSUME NEW q, q = logins[l],
                      NEW row, row = [email |-> q.email, person |-> q.of, isActive |-> TRUE],
                      NEW new, new = [at |-> "done", of |-> q.of, username |-> q.username]
               PROVE  PortalInv'
    OBVIOUS
  <2>1. /\ q.at = "addressed" /\ q \in Portal!Addressed /\ LoginOwns(q)
        /\ users[q.username] = Portal!NoUser /\ Portal!UsersOf(q.of) = {}
        /\ users' = [users EXCEPT ![q.username] = row]
        /\ loginsCrossed' = loginsCrossed \cup {o \in Login \ {l} : Portal!Provisioning(o)}
        /\ logins' = [logins EXCEPT ![l] = new]
        /\ UNCHANGED <<people, accountChanges, named, mailed>>
    BY <1>10, <1>i, <1>l DEF Portal!CreateUser, Portal!WriteUsers, Portal!Goes
  <2>2. q.of \in Person /\ q.username \in Portal!Username /\ q.email \in Portal!Address
    BY <2>1 DEF Portal!Addressed
  <2>3. row \in Portal!UserRow /\ new \in Portal!Over /\ new.at = "done" /\ q.of # None /\ row # Portal!NoUser
    BY <1>u, <2>2, PortalNames DEF Portal!UserRow, Portal!Over
  <2>4. Portal!TypeOK'
    BY <1>t, <2>1, <2>2, <2>3 DEF Portal!TypeOK
  <2>5. HistoriesHold'
    BY <1>i, <2>1 DEF HistoriesHold
  <2>6. \A n : Portal!Reused(n)' <=> Portal!Reused(n)
    BY <2>1 DEF Portal!Reused
  <2>7. \A u \in Portal!Username : users'[u] = IF u = q.username THEN row ELSE users[u]
    BY <1>t, <2>1
  <2>8. Portal!NoUser' = Portal!NoUser
    BY DEF Portal!NoUser
  <2>9. PICK n \in Name :
            /\ <<q.of, n>> \in named
            /\ \/ q.username = <<n, "bare">>
               \/ q.username = <<n, "@domain">> /\ (n \in Local \/ Portal!Reused(n))
    BY <2>1 DEF LoginOwns
  <2>10. UsersOwn'
    <3>1. ASSUME NEW m \in Name, NEW u \in {<<m, "bare">>, <<m, "@domain">>},
                 users'[u] # Portal!NoUser, users'[u].person # None
          PROVE  <<users'[u].person, m>> \in named'
      <4>1. u \in Portal!Username
        BY PortalNames
      <4>2. CASE u = q.username
        BY <2>1, <2>7, <2>9, <4>1, <4>2
      <4>3. CASE u # q.username
        <5>1. users'[u] = users[u]
          BY <2>7, <4>1, <4>3
        <5>2. <<users[u].person, m>> \in named
          BY <1>i, <3>1, <5>1 DEF UsersOwn
        <5>3. QED
          BY <2>1, <5>1, <5>2
      <4>4. QED
        BY <4>2, <4>3
    <3>2. ASSUME NEW m \in Name, users'[<<m, "bare">>] # Portal!NoUser
          PROVE  users'[<<m, "bare">>].person # None \/ m \in Local
      <4>1. <<m, "bare">> \in Portal!Username
        BY PortalNames
      <4>2. CASE <<m, "bare">> = q.username
        BY <2>3, <2>7, <4>1, <4>2
      <4>3. CASE <<m, "bare">> # q.username
        BY <1>i, <2>7, <3>2, <4>1, <4>3 DEF UsersOwn
      <4>4. QED
        BY <4>2, <4>3
    <3>3. ASSUME NEW m \in Name, users'[<<m, "@domain">>] # Portal!NoUser
          PROVE  users'[<<m, "@domain">>].person # None /\ (m \in Local \/ Portal!Reused(m))
      <4>1. <<m, "@domain">> \in Portal!Username
        BY PortalNames
      <4>2. CASE <<m, "@domain">> = q.username
        BY <2>3, <2>7, <2>9, <4>1, <4>2
      <4>3. CASE <<m, "@domain">> # q.username
        BY <1>i, <2>7, <3>3, <4>1, <4>3 DEF UsersOwn
      <4>4. QED
        BY <4>2, <4>3
    <3>4. ASSUME NEW u \in Portal!Username, users'[u] # Portal!NoUser,
                 NEW p \in Person, users'[u].email = <<p, "ad-@domain">>
          PROVE  users'[u].person = p
      BY <1>i, <2>1, <2>7, <3>4 DEF UsersOwn, LoginOwns
    <3>5. QED
      BY <2>6, <2>8, <3>1, <3>2, <3>3, <3>4 DEF UsersOwn
  <2>11. \A o \in Login : logins'[o] = IF o = l THEN new ELSE logins[o]
    BY <1>t, <2>1
  <2>12. ASSUME NEW p PROVE Portal!UsersOf(p) \subseteq Portal!UsersOf(p)'
    BY <2>1, <2>7 DEF Portal!UsersOf
  <2>13. ASSUME NEW o \in Login PROVE LoginOwns(logins[o])'
    <3> SUFFICES ASSUME NEW k, k = logins'[o] PROVE LoginOwns(k)'
      OBVIOUS
    <3>1. CASE o = l
      BY <2>3, <2>11, <3>1 DEF LoginOwns
    <3>2. CASE o # l
      <4>1. LoginOwns(k)
        BY <1>i, <2>11, <3>2
      <4>2. Portal!UsersOf(k.of) # {} => Portal!UsersOf(k.of)' # {}
        BY <2>12
      <4>3. QED
        BY <2>1, <2>6, <4>1, <4>2 DEF LoginOwns
    <3>3. QED
      BY <3>1, <3>2
  <2>14. ASSUME NEW o \in Login \ loginsCrossed' PROVE LookupsHold(logins[o])'
    <3>1. logins'[o].at \notin {"unlinked", "named", "addressed"}
      BY <2>1, <2>3, <2>11, <2>14 DEF Portal!Provisioning
    <3>2. QED
      BY <3>1 DEF LookupsHold
  <2>15. Portal!LoginSucceeds'
    BY <1>i, <2>1, <2>3, <2>6, <2>11 DEF Portal!LoginSucceeds
  <2>16. QED
    BY <2>4, <2>5, <2>10, <2>13, <2>14, <2>15 DEF PortalInv
<1>11. CASE UNCHANGED Portal!vars
  <2>1. UNCHANGED <<people, users, logins, accountChanges, named, mailed, loginsCrossed>>
    BY <1>11 DEF Portal!vars
  <2>2. Portal!TypeOK' /\ HistoriesHold'
    BY <1>i, <2>1 DEF Portal!TypeOK, HistoriesHold
  <2>3. QED
    BY <2>1, <2>2, PortalFrame
<1>12. ASSUME NEW l \in Login,
              \/ \E p \in Person : Portal!Authenticate(l, p)
              \/ Portal!FindLinked(l) \/ Portal!FindUsername(l) \/ Portal!FindEmail(l)
              \/ Portal!CreateUser(l) \/ Portal!CreateFails(l)
       PROVE  PortalInv'
  BY <1>5, <1>6, <1>7, <1>8, <1>9, <1>10, <1>12
<1>13. QED
  BY <1>1, <1>2, <1>3, <1>4, <1>11, <1>12 DEF Portal!Next

\* It holds before the first login.
LEMMA PortalStart ==
    ASSUME Portal!Init
    PROVE  PortalInv
<1>1. /\ people \in [Person -> [name : Name \cup {None}, mail : Portal!Mail \cup {None}, isActive : {TRUE}]]
      /\ logins = [l \in Login |-> Portal!Idle] /\ accountChanges = 0
      /\ named = Portal!NamesOf(people) /\ mailed = Portal!MailsOf(people) /\ loginsCrossed = {}
  BY DEF Portal!Init
<1>2. PICK mail \in [Local -> Portal!Mail] :
          users = [u \in Portal!Username |->
              IF u[1] \in Local /\ u[2] = "bare"
              THEN [email |-> mail[u[1]], person |-> None, isActive |-> TRUE] ELSE Portal!NoUser]
  BY DEF Portal!Init
<1>3. people \in [Person -> Portal!PersonRow]
  BY <1>1 DEF Portal!PersonRow
<1>4. ASSUME NEW n \in Name
      PROVE  /\ users[<<n, "bare">>] =
                     IF n \in Local THEN [email |-> mail[n], person |-> None, isActive |-> TRUE]
                     ELSE Portal!NoUser
             /\ users[<<n, "@domain">>] = Portal!NoUser
  BY <1>2, PortalNames
\* Each user is a local account's.
<1>5. ASSUME NEW u \in Portal!Username, users[u] # Portal!NoUser
      PROVE  /\ users[u] \in Portal!UserRow /\ users[u].person = None
             /\ users[u].email \in Portal!Mail
             /\ \E n \in Local : u = <<n, "bare">>
  <2>1. PICK n \in Name : u \in {<<n, "bare">>, <<n, "@domain">>}
    BY PortalNames
  <2>2. u = <<n, "bare">> /\ n \in Local
    BY <1>4, <1>5, <2>1
  <2>3. users[u] = [email |-> mail[n], person |-> None, isActive |-> TRUE]
    BY <1>4, <2>1, <2>2
  <2>4. mail[n] \in Portal!Mail /\ mail[n] \in Portal!Address
    BY <2>2, PortalNames
  <2>5. QED
    BY <2>2, <2>3, <2>4 DEF Portal!UserRow
<1>6. Portal!TypeOK
  <2>1. users \in [Portal!Username -> Portal!UserRow \cup {Portal!NoUser}]
    BY <1>2, <1>5
  <2>2. named \subseteq Person \X Name /\ mailed \subseteq Person \X Portal!Mail
    BY <1>1, <1>3 DEF Portal!NamesOf, Portal!MailsOf, Portal!PersonRow
  <2>3. QED
    BY <1>1, <1>3, <2>1, <2>2, ServiceBoundAssumption DEF Portal!TypeOK
<1>7. HistoriesHold
  BY <1>1, PortalNames DEF HistoriesHold, Portal!NamesOf, Portal!MailsOf
<1>8. UsersOwn
  <2>1. ASSUME NEW n \in Name, NEW u \in {<<n, "bare">>, <<n, "@domain">>}, users[u] # Portal!NoUser
        PROVE  users[u].person = None
    BY <1>5, <2>1, PortalNames
  <2>2. ASSUME NEW n \in Name, users[<<n, "bare">>] # Portal!NoUser PROVE n \in Local
    BY <1>4, <2>2
  <2>3. ASSUME NEW n \in Name PROVE users[<<n, "@domain">>] = Portal!NoUser
    BY <1>4
  <2>4. ASSUME NEW u \in Portal!Username, users[u] # Portal!NoUser, NEW p \in Person
        PROVE  users[u].email # <<p, "ad-@domain">>
    BY <1>5, <2>4, PortalNames
  <2>5. QED
    BY <2>1, <2>2, <2>3, <2>4 DEF UsersOwn
<1>9. \A l \in Login : LoginOwns(logins[l]) /\ LookupsHold(logins[l])
  BY <1>1 DEF LoginOwns, LookupsHold, Portal!Idle
<1>10. Portal!LoginSucceeds
  BY <1>1 DEF Portal!LoginSucceeds, Portal!Idle
<1>11. QED
  BY <1>6, <1>7, <1>8, <1>9, <1>10 DEF PortalInv

\* Where the invariant holds, the guards find the person of a user.
LEMMA PortalGuards ==
    ASSUME PortalInv
    PROVE  Portal!GuardsFindPerson
<1>i. Portal!TypeOK /\ HistoriesHold /\ UsersOwn
  BY DEF PortalInv
<1> SUFFICES ASSUME NEW u \in Portal!Username, NEW p, p = users[u].person, NEW n, n = people[p].name,
                    p # None, people[p].isActive,
                    \A o \in Name \ {n} : <<p, o>> \notin named,
                    n \notin Local, ~Portal!Reused(n),
                    \A q \in Person \ {p} : <<q, users[u].email>> \notin mailed
             PROVE  {q \in Person : people[q].isActive /\ people[q].name # None
                        /\ (u = <<people[q].name, "bare">> \/ people[q].mail = users[u].email)} = {p}
  BY DEF Portal!GuardsFindPerson
<1>t. /\ people \in [Person -> Portal!PersonRow]
      /\ users \in [Portal!Username -> Portal!UserRow \cup {Portal!NoUser}]
  BY <1>i DEF Portal!TypeOK
<1>1. users[u] \in Portal!UserRow /\ users[u] # Portal!NoUser /\ p \in Person
  BY <1>t, PortalNames DEF Portal!UserRow, Portal!NoUser
<1>2. users[u].email # None
  BY <1>1, PortalNames DEF Portal!UserRow
\* The user has the one name its person has and had.
<1>3. PICK m \in Name : u \in {<<m, "bare">>, <<m, "@domain">>}
  BY PortalNames
<1>4. <<p, m>> \in named
  BY <1>i, <1>1, <1>3 DEF UsersOwn
<1>5. m = n /\ n \in Name /\ n # None
  BY <1>3, <1>4, PortalNames
<1>6. u = <<n, "bare">>
  BY <1>i, <1>1, <1>3, <1>5 DEF UsersOwn
\* Nobody else has it, nor the address.
<1>7. ASSUME NEW q \in Person, people[q].name # None,
             u = <<people[q].name, "bare">> \/ people[q].mail = users[u].email
      PROVE  q = p
  <2>1. <<q, people[q].name>> \in named /\ (people[q].mail # None => <<q, people[q].mail>> \in mailed)
    BY <1>i, <1>7 DEF HistoriesHold
  <2>2. CASE u = <<people[q].name, "bare">>
    <3>1. people[q].name = n
      <4>1. people[q].name \in Name
        BY <1>7, <1>t DEF Portal!PersonRow
      <4>2. \A a, b \in Name : <<a, "bare">> = <<b, "bare">> => a = b
        OBVIOUS
      <4>3. QED
        BY <1>5, <1>6, <2>2, <4>1, <4>2
    <3>2. QED
      BY <1>1, <1>4, <1>5, <2>1, <3>1 DEF Portal!Reused
  <2>3. CASE people[q].mail = users[u].email
    BY <1>2, <2>1, <2>3
  <2>4. QED
    BY <1>7, <2>2, <2>3
<1>8. people[p].name # None /\ u = <<people[p].name, "bare">>
  BY <1>5, <1>6
<1>9. \A q \in Person : (people[q].isActive /\ people[q].name # None
          /\ (u = <<people[q].name, "bare">> \/ people[q].mail = users[u].email)) <=> q = p
  <2>1. ASSUME NEW q \in Person,
               people[q].isActive /\ people[q].name # None
                   /\ (u = <<people[q].name, "bare">> \/ people[q].mail = users[u].email)
        PROVE  q = p
    BY <1>7, <2>1
  <2>2. ASSUME NEW q \in Person, q = p
        PROVE  people[q].isActive /\ people[q].name # None
                   /\ (u = <<people[q].name, "bare">> \/ people[q].mail = users[u].email)
    BY <1>8, <2>2, Zenon
  <2>3. QED
    BY <2>1, <2>2
<1>10. QED
  BY <1>1, <1>9, Zenon

\* Unless a name passed from one person to another, a unique index stops a first login
\* only when another login or an edit wrote a user between its lookups and its create
\* (PortalAccounts.LoginSucceeds).
THEOREM PortalLoginSucceeds == Portal!Spec => []Portal!LoginSucceeds
<1>1. Portal!Init => PortalInv
  BY PortalStart
<1>2. PortalInv /\ [Portal!Next]_(Portal!vars) => PortalInv'
  BY PortalInvStep
<1>3. PortalInv => Portal!LoginSucceeds
  BY DEF PortalInv
<1>4. QED
  BY <1>1, <1>2, <1>3, PTL DEF Portal!Spec

\* For the user of an active person the guards find this person and nobody else, but for
\* renamed people, shared names and taken addresses (PortalAccounts.GuardsFindPerson).
THEOREM PortalGuardsFindPerson == Portal!Spec => []Portal!GuardsFindPerson
<1>1. Portal!Init => PortalInv
  BY PortalStart
<1>2. PortalInv /\ [Portal!Next]_(Portal!vars) => PortalInv'
  BY PortalInvStep
<1>3. PortalInv => Portal!GuardsFindPerson
  BY PortalGuards
<1>4. QED
  BY <1>1, <1>2, <1>3, PTL DEF Portal!Spec

\* In the system ServicesMC composes, the accounts are as they are by themselves.
LEMMA PortalInFocus == Spec => [](focus = "portal" => PortalInv)
<1>1. Init => (focus = "portal" => PortalInv)
  BY PortalStart DEF Init
<1>2. (focus = "portal" => PortalInv) /\ [Next]_vars => (focus = "portal" => PortalInv)'
  BY ServicesStep, PortalInvStep
<1>3. QED
  BY <1>1, <1>2, PTL DEF Spec

\* In the system ServicesMC composes, first logins are stopped only by what crosses them.
COROLLARY LoginSucceedsHolds == Spec => []LoginSucceeds
<1>1. (focus = "portal" => PortalInv) => LoginSucceeds
  BY DEF PortalInv, LoginSucceeds
<1>2. QED
  BY <1>1, PortalInFocus, PTL

\* In the system ServicesMC composes, the guards find the person a user is linked to.
COROLLARY GuardsFindPersonHolds == Spec => []GuardsFindPerson
<1>1. (focus = "portal" => PortalInv) => GuardsFindPerson
  BY PortalGuards DEF GuardsFindPerson
<1>2. QED
  BY <1>1, PortalInFocus, PTL

-----------------------------------------------------------------------------
(* EventDispatch.                                                          *)

\* The recipients of an event, and how far the dispatches to some of them are.
Recipient == Dispatch!Reached \cup {Everyone}
Stages == UNION {[S -> Dispatch!Stage] : S \in SUBSET Recipient}
DispatchPlace == {"idle", "update", "lookup", "dispatch"}
DispatchWork == [at : DispatchPlace, event : Dispatch!Event \cup {None}, current : BOOLEAN,
                 save : 0..MaxSaves, stage : Stages]

\* The types, and that a request knows the kind of its event.
DispatchTyped ==
    /\ Dispatch!TypeOK
    /\ \A x \in Meeting : ~events[x].published
    /\ \A x \in Announcement : events[x].people = {}
    /\ dispatching \in [Request -> DispatchWork]
    /\ \A r \in Request :
           /\ dispatching[r].at = "update" => dispatching[r].event \in Announcement
           /\ dispatching[r].at \in {"lookup", "dispatch"} => dispatching[r].event \in Dispatch!Event
           /\ dispatching[r].at \in {"idle", "update"} => DOMAIN dispatching[r].stage = {}

\* Nothing is of a save yet to come.
SavesArePast ==
    /\ \A x \in Dispatch!Event : told[x].save <= saves
    /\ \A r \in Request : dispatching[r].save <= saves
    /\ \A k \in Dispatch!Key : k[2] > saves => notices[k] = 0 /\ mails[k] = 0

\* Request r tells of the latest save of x.
Carries(r, x) ==
    /\ dispatching[r].at \in {"lookup", "dispatch"}
    /\ dispatching[r].event = x /\ dispatching[r].save = told[x].save

\* What p is to be told of x, through the portal and by e-mail.
ToPortal(x) == IF "portal" \in told[x].channels THEN 1 ELSE 0
ToMail(x, p) == IF "email" \in told[x].channels /\ p \in Invited THEN 1 ELSE 0

\* So many notifications and e-mails have gone to p about the latest save of x.
Sent(x, p, n, m) == notices[<<x, told[x].save, p>>] = n /\ mails[<<x, told[x].save, p>>] = m

\* How far a request with the local variables w has come with p.
StageHolds(w, x, p) ==
    /\ w.at = "lookup" => w.stage[p] = "rule"
    /\ w.stage[p] \in {"rule", "portal", "both"} => Sent(x, p, 0, 0)
    /\ w.stage[p] = "portal" => ToPortal(x) = 1 /\ ToMail(x, p) = 0
    /\ w.stage[p] = "both" => ToPortal(x) = 1 /\ ToMail(x, p) = 1
    /\ w.stage[p] = "email" => Sent(x, p, ToPortal(x), 0) /\ ToMail(x, p) = 1
    /\ w.stage[p] = "done" => Sent(x, p, ToPortal(x), ToMail(x, p))
    /\ w.stage[p] # "failed"

\* One request at most tells of the latest save of x, to all who are to know of it
\* and with the rule as it was; when it is over they have been told.
Told(x) ==
    /\ told[x].save = 0 => Dispatch!Audience(x) = {}
    /\ \A q, r \in Request : Carries(q, x) /\ Carries(r, x) => q = r
    /\ \A r \in Request : Carries(r, x) =>
           /\ told[x].channels = Dispatch!Channels(rule)
           /\ Dispatch!Audience(x) \subseteq DOMAIN dispatching[r].stage
           /\ \A p \in Dispatch!Audience(x) : StageHolds(dispatching[r], x, p)
    /\ (\A r \in Request : ~Carries(r, x)) =>
           \A p \in Dispatch!Audience(x) : Sent(x, p, ToPortal(x), ToMail(x, p))

DispatchInv ==
    /\ DispatchTyped /\ SavesArePast
    /\ \A x \in Dispatch!Event : ~told[x].disturbed => Told(x)

\* One stage of a dispatch moves on.
LEMMA StageMoves ==
    ASSUME NEW s \in Stages, NEW p \in DOMAIN s, NEW v \in Dispatch!Stage
    PROVE  /\ [s EXCEPT ![p] = v] \in Stages /\ DOMAIN [s EXCEPT ![p] = v] = DOMAIN s
           /\ \A q \in DOMAIN s : [s EXCEPT ![p] = v][q] = IF q = p THEN v ELSE s[q]
<1>1. PICK S \in SUBSET Recipient : s \in [S -> Dispatch!Stage]
  BY DEF Stages
<1>2. [s EXCEPT ![p] = v] \in [S -> Dispatch!Stage]
  BY <1>1
<1>3. QED
  BY <1>1, <1>2 DEF Stages

LEMMA StagesStart ==
    /\ <<>> \in Stages /\ DOMAIN <<>> = {}
    /\ \A S \in SUBSET Recipient : [p \in S |-> "rule"] \in Stages
    /\ \A s \in Stages : DOMAIN s \subseteq Recipient /\ \A p \in DOMAIN s : s[p] \in Dispatch!Stage
<1>1. <<>> = [p \in {} |-> "rule"]
  OBVIOUS
<1>2. \A S \in SUBSET Recipient : [p \in S |-> "rule"] \in Stages
  <2>1. ASSUME NEW S \in SUBSET Recipient PROVE [p \in S |-> "rule"] \in [S -> Dispatch!Stage]
    BY DEF Dispatch!Stage
  <2>2. QED
    BY <2>1 DEF Stages
<1>3. [p \in {} |-> "rule"] \in Stages
  BY <1>2
<1>4. \A s \in Stages : DOMAIN s \subseteq Recipient /\ \A p \in DOMAIN s : s[p] \in Dispatch!Stage
  BY DEF Stages
<1>5. QED
  BY <1>1, <1>2, <1>3, <1>4

\* Every step of EventDispatch keeps the types.
LEMMA DispatchType ==
    ASSUME DispatchTyped, [Dispatch!Next]_(Dispatch!vars)
    PROVE  DispatchTyped'
<1> USE EventAssumption, ServiceBoundAssumption DEF DispatchTyped
<1> DEFINE Frame == /\ \A x \in Meeting : ~events[x].published
                    /\ \A x \in Announcement : events[x].people = {}
           Known == /\ dispatching \in [Request -> DispatchWork]
                    /\ \A r \in Request :
                        /\ dispatching[r].at = "update" => dispatching[r].event \in Announcement
                        /\ dispatching[r].at \in {"lookup", "dispatch"} => dispatching[r].event \in Dispatch!Event
                        /\ dispatching[r].at \in {"idle", "update"} => DOMAIN dispatching[r].stage = {}
\* Of the local variables only those of one request change.
<1>w. ASSUME NEW r \in Request, NEW w \in DispatchWork, dispatching' = [dispatching EXCEPT ![r] = w],
             w.at = "update" => w.event \in Announcement,
             w.at \in {"lookup", "dispatch"} => w.event \in Dispatch!Event,
             w.at \in {"idle", "update"} => DOMAIN w.stage = {}
      PROVE  Known'
  BY <1>w
<1>i. /\ Dispatch!Idle \in DispatchWork /\ Dispatch!Idle.at = "idle" /\ DOMAIN Dispatch!Idle.stage = {}
  BY StagesStart DEF Dispatch!Idle, DispatchWork, DispatchPlace
<1>d. ASSUME NEW r \in Request, NEW x \in Dispatch!Event, NEW n \in 0..MaxSaves, NEW S \in SUBSET Recipient,
             NEW at \in {"lookup", "dispatch"},
             dispatching' = [dispatching EXCEPT ![r] = [at |-> at, event |-> x, current |-> FALSE, save |-> n,
                                                        stage |-> [p \in S |-> "rule"]]]
      PROVE  Known'
  <2>1. [at |-> at, event |-> x, current |-> FALSE, save |-> n, stage |-> [p \in S |-> "rule"]] \in DispatchWork
    BY StagesStart DEF DispatchWork, DispatchPlace
  <2>2. QED
    BY <2>1, <1>w, <1>d
<1>k. Known'
      /\ (\A r \in Request : dispatching'[r].at = "dispatch" =>
              \A p \in DOMAIN dispatching'[r].stage : dispatching'[r].stage[p] \in Dispatch!Stage)
      => \A r \in Request : dispatching'[r].at \in DispatchPlace
  BY DEF DispatchWork
<1>s. Known' => \A r \in Request : \A p \in DOMAIN dispatching'[r].stage : dispatching'[r].stage[p] \in Dispatch!Stage
  BY StagesStart DEF DispatchWork
<1>t. ASSUME Known', Frame', events' \in [Dispatch!Event -> Dispatch!Row], rule' \in Dispatch!RuleRow \cup {None},
             notices' \in [Dispatch!Key -> Nat], mails' \in [Dispatch!Key -> Nat],
             saves' \in 0..MaxSaves, turns' \in 0..MaxTurns, faults' \in 0..MaxFaults,
             told' \in [Dispatch!Event -> [save : 0..MaxSaves, channels : SUBSET Dispatch!Channel, disturbed : BOOLEAN]]
      PROVE  DispatchTyped'
  BY <1>t, <1>s, <1>k DEF Dispatch!TypeOK, DispatchPlace
<1>r. Known /\ Frame /\ Dispatch!TypeOK
  BY DEF DispatchPlace
<1>1. ASSUME NEW row \in Rules, Dispatch!UpdateRule(row)
      PROVE  DispatchTyped'
  <2>1. \A x \in Dispatch!Event : told'[x] = told[x] \/ told'[x] = [told[x] EXCEPT !.disturbed = TRUE]
    BY <1>1 DEF Dispatch!UpdateRule, Dispatch!DisturbsUnderWay
  <2>2. told' \in [Dispatch!Event -> [save : 0..MaxSaves, channels : SUBSET Dispatch!Channel, disturbed : BOOLEAN]]
    <3>1. told \in [Dispatch!Event -> [save : 0..MaxSaves, channels : SUBSET Dispatch!Channel, disturbed : BOOLEAN]]
      BY <1>r DEF Dispatch!TypeOK
    <3>2. \A x \in Dispatch!Event : [told[x] EXCEPT !.disturbed = TRUE]
              \in [save : 0..MaxSaves, channels : SUBSET Dispatch!Channel, disturbed : BOOLEAN]
      BY <3>1
    <3>3. \A x \in Dispatch!Event :
              told'[x] \in [save : 0..MaxSaves, channels : SUBSET Dispatch!Channel, disturbed : BOOLEAN]
      BY <2>1, <3>1, <3>2
    <3>4. DOMAIN told' = Dispatch!Event /\ told' = [x \in DOMAIN told' |-> told'[x]]
      BY <1>1 DEF Dispatch!UpdateRule, Dispatch!DisturbsUnderWay
    <3>5. QED
      BY <3>3, <3>4
  <2>3. Known' /\ Frame'
    BY <1>1, <1>r DEF Dispatch!UpdateRule
  <2>4. rule' \in Dispatch!RuleRow \cup {None} /\ turns' \in 0..MaxTurns
    BY <1>1, <1>r DEF Dispatch!UpdateRule, Dispatch!TypeOK
  <2>5. QED
    BY <2>2, <2>3, <2>4, <1>t, <1>1, <1>r DEF Dispatch!UpdateRule, Dispatch!TypeOK
<1>2. ASSUME NEW x \in Dispatch!Event, Dispatch!Remove(x)
      PROVE  DispatchTyped'
  <2>1. Known' /\ Frame'
    BY <1>2, <1>r DEF Dispatch!Remove, Dispatch!TypeOK, Dispatch!Row
  <2>2. events' \in [Dispatch!Event -> Dispatch!Row]
    BY <1>2, <1>r DEF Dispatch!Remove, Dispatch!TypeOK, Dispatch!Row
  <2>3. notices' \in [Dispatch!Key -> Nat]
    BY <1>2, <1>r DEF Dispatch!Remove, Dispatch!TypeOK
  <2>4. QED
    BY <2>1, <2>2, <2>3, <1>t, <1>2, <1>r DEF Dispatch!Remove, Dispatch!TypeOK
\* A save that tells writes the event with its next number.
<1>v. ASSUME NEW x \in Dispatch!Event, Dispatch!Tells(x), saves < MaxSaves, saves' = saves + 1
      PROVE  /\ saves' \in 0..MaxSaves
             /\ told' \in [Dispatch!Event -> [save : 0..MaxSaves, channels : SUBSET Dispatch!Channel, disturbed : BOOLEAN]]
  <2>1. saves' \in 0..MaxSaves
    BY <1>v, <1>r DEF Dispatch!TypeOK
  <2>2. Dispatch!Channels(rule) \in SUBSET Dispatch!Channel
    BY DEF Dispatch!Channels, Dispatch!Channel
  <2>3. QED
    BY <1>v, <1>r, <2>1, <2>2 DEF Dispatch!Tells, Dispatch!TypeOK
<1>3. ASSUME NEW r \in Request, NEW x \in Announcement, NEW published \in BOOLEAN,
             Dispatch!CreateAnnouncement(r, x, published)
      PROVE  DispatchTyped'
  <2>1. x \in Dispatch!Event /\ x \notin Meeting /\ saves' \in 0..MaxSaves
    BY <1>3, <1>r DEF Dispatch!CreateAnnouncement, Dispatch!TypeOK, Dispatch!Event
  <2>2. events' \in [Dispatch!Event -> Dispatch!Row] /\ Frame'
    BY <1>3, <1>r, <2>1 DEF Dispatch!CreateAnnouncement, Dispatch!TypeOK, Dispatch!Row
  <2>3. Known'
    <3>1. CASE published
      BY <3>1, <1>3, <1>d, <2>1 DEF Dispatch!CreateAnnouncement, Dispatch!Dispatch, Recipient
    <3>2. CASE ~published
      BY <3>2, <1>3, <1>r DEF Dispatch!CreateAnnouncement
    <3>3. QED
      BY <3>1, <3>2
  <2>4. told' \in [Dispatch!Event -> [save : 0..MaxSaves, channels : SUBSET Dispatch!Channel, disturbed : BOOLEAN]]
    BY <1>3, <1>r, <1>v, <2>1 DEF Dispatch!CreateAnnouncement, Dispatch!TypeOK
  <2>5. QED
    BY <2>1, <2>2, <2>3, <2>4, <1>t, <1>3, <1>r DEF Dispatch!CreateAnnouncement, Dispatch!TypeOK
<1>4. ASSUME NEW r \in Request, NEW x \in Announcement, Dispatch!BeginUpdate(r, x)
      PROVE  DispatchTyped'
  <2> DEFINE w == [at |-> "update", event |-> x, current |-> events[x].published, save |-> 0, stage |-> <<>>]
  <2>1. x \in Dispatch!Event
    BY DEF Dispatch!Event
  <2>2. events[x].published \in BOOLEAN /\ 0 \in 0..MaxSaves
    BY <2>1, <1>r DEF Dispatch!TypeOK, Dispatch!Row
  <2>3. w \in DispatchWork /\ w.at = "update" /\ w.event = x /\ DOMAIN w.stage = {}
    BY <2>1, <2>2, StagesStart DEF DispatchWork, DispatchPlace
  <2>4. dispatching' = [dispatching EXCEPT ![r] = w]
    BY <1>4 DEF Dispatch!BeginUpdate
  <2> HIDE DEF w
  <2>5. Known'
    BY <2>3, <2>4, <1>w
  <2>6. QED
    BY <2>5, <1>t, <1>4, <1>r DEF Dispatch!BeginUpdate, Dispatch!TypeOK
<1>5. ASSUME NEW r \in Request, NEW dto \in BOOLEAN \cup {Keep}, Dispatch!UpdateAnnouncement(r, dto)
      PROVE  DispatchTyped'
  <2> DEFINE x == dispatching[r].event
             published == IF dto = Keep THEN events[x].published ELSE dto
  <2>1. x \in Announcement /\ x \in Dispatch!Event /\ x \notin Meeting
    BY <1>5, <1>r DEF Dispatch!UpdateAnnouncement, Dispatch!Event
  <2>2. published \in BOOLEAN
    BY <2>1, <1>r DEF Dispatch!TypeOK, Dispatch!Row
  <2>3. events' \in [Dispatch!Event -> Dispatch!Row] /\ Frame' /\ saves' \in 0..MaxSaves
    <3>1. events' = events \/ events' = [events EXCEPT ![x].published = published]
      BY <1>5 DEF Dispatch!UpdateAnnouncement
    <3> HIDE DEF x, published
    <3>2. saves' \in 0..MaxSaves
      BY <1>5, <1>r DEF Dispatch!UpdateAnnouncement, Dispatch!TypeOK
    <3>3. CASE events' = events
      BY <3>2, <3>3, <1>r DEF Dispatch!TypeOK
    <3>4. CASE events' = [events EXCEPT ![x].published = published]
      <4>1. events \in [Dispatch!Event -> Dispatch!Row]
        BY <1>r DEF Dispatch!TypeOK
      <4>2. [events[x] EXCEPT !.published = published] \in Dispatch!Row
            /\ [events[x] EXCEPT !.published = published].people = events[x].people
        BY <4>1, <2>1, <2>2 DEF Dispatch!Row
      <4>3. events' \in [Dispatch!Event -> Dispatch!Row]
        BY <3>4, <4>1, <4>2
      <4>4. \A y \in Dispatch!Event : y = x \/ events'[y] = events[y]
        BY <3>4, <4>1
      <4>5. events'[x].people = events[x].people
        BY <3>4, <4>1, <4>2, <2>1
      <4>6. Announcement \subseteq Dispatch!Event /\ Meeting \subseteq Dispatch!Event
        BY DEF Dispatch!Event
      <4>7. QED
        BY <1>r, <2>1, <3>2, <4>3, <4>4, <4>5, <4>6
    <3>5. QED
      BY <3>1, <3>3, <3>4
  <2>4. Known'
    <3>1. CASE dispatching' = [dispatching EXCEPT ![r] = Dispatch!Idle]
      BY <3>1, <1>w, <1>i
    <3>2. CASE \E n \in 0..MaxSaves : Dispatch!Dispatch(r, x, n, {Everyone})
      <4>1. PICK n \in 0..MaxSaves : Dispatch!Dispatch(r, x, n, {Everyone})
        BY <3>2
      <4> HIDE DEF x
      <4>2. QED
        BY <4>1, <1>d, <2>1 DEF Dispatch!Dispatch, Recipient
    <3>3. told[x].save \in 0..MaxSaves
      BY <2>1, <1>r DEF Dispatch!TypeOK
    <3>4. QED
      BY <1>5, <2>3, <3>1, <3>2, <3>3 DEF Dispatch!UpdateAnnouncement
  <2>5. told' \in [Dispatch!Event -> [save : 0..MaxSaves, channels : SUBSET Dispatch!Channel, disturbed : BOOLEAN]]
    <3>1. told' = told \/ Dispatch!Disturbs(x) \/ (Dispatch!Tells(x) /\ saves < MaxSaves /\ saves' = saves + 1)
      BY <1>5 DEF Dispatch!UpdateAnnouncement
    <3>2. CASE Dispatch!Disturbs(x)
      BY <3>2, <1>r, <2>1 DEF Dispatch!Disturbs, Dispatch!TypeOK
    <3>3. QED
      BY <3>1, <3>2, <1>v, <1>r, <2>1 DEF Dispatch!TypeOK
  <2>6. QED
    BY <2>3, <2>4, <2>5, <1>t, <1>5, <1>r DEF Dispatch!UpdateAnnouncement, Dispatch!TypeOK
\* The dispatch to the participants of a meeting.
<1>m. ASSUME NEW r \in Request, NEW x \in Dispatch!Event, NEW list, Dispatch!ToMeeting(r, x, list),
             saves' \in 0..MaxSaves
      PROVE  Known'
  <2>1. CASE dispatching' = [dispatching EXCEPT ![r] = Dispatch!Idle]
    BY <2>1, <1>w, <1>i
  <2>2. CASE ~(dispatching' = [dispatching EXCEPT ![r] = Dispatch!Idle])
    <3>1. dispatching' = [dispatching EXCEPT ![r] = [at |-> "lookup", event |-> x, current |-> FALSE,
                              save |-> saves', stage |-> [p \in Dispatch!Clean(list) |-> "rule"]]]
      BY <1>m, <2>2 DEF Dispatch!ToMeeting
    <3>2. Dispatch!Clean(list) \in SUBSET Recipient
      BY DEF Dispatch!Clean, Recipient
    <3>3. QED
      BY <3>1, <3>2, <1>m, <1>d
  <2>3. QED
    BY <2>1, <2>2
<1>6. ASSUME NEW r \in Request, NEW x \in Meeting, NEW list \in Lists, Dispatch!CreateMeeting(r, x, list)
      PROVE  DispatchTyped'
  <2>1. x \in Dispatch!Event /\ x \notin Announcement /\ saves < MaxSaves /\ saves' = saves + 1
    BY <1>6 DEF Dispatch!CreateMeeting, Dispatch!Event
  <2>2. events' \in [Dispatch!Event -> Dispatch!Row] /\ Frame'
    BY <1>6, <1>r, <2>1 DEF Dispatch!CreateMeeting, Dispatch!TypeOK, Dispatch!Row
  <2>3. QED
    BY <2>1, <2>2, <1>v, <1>m, <1>t, <1>6, <1>r DEF Dispatch!CreateMeeting, Dispatch!TypeOK
<1>7. ASSUME NEW r \in Request, NEW x \in Meeting, NEW list \in Lists \cup {Keep},
             Dispatch!UpdateMeeting(r, x, list)
      PROVE  DispatchTyped'
  <2>1. x \in Dispatch!Event /\ x \notin Announcement /\ saves < MaxSaves /\ saves' = saves + 1
    BY <1>7 DEF Dispatch!UpdateMeeting, Dispatch!Event
  <2>2. saves' \in 0..MaxSaves
    BY <2>1, <1>r DEF Dispatch!TypeOK
  <2>3. CASE list = Keep
    BY <2>2, <2>3, <1>t, <1>7, <1>r DEF Dispatch!UpdateMeeting, Dispatch!TypeOK
  <2>4. CASE list # Keep
    <3>1. list \in SUBSET Dispatch!Participant
      BY <2>4
    <3>2. events' = [events EXCEPT ![x].people = list] /\ events \in [Dispatch!Event -> Dispatch!Row]
      BY <1>7, <1>r, <2>4 DEF Dispatch!UpdateMeeting, Dispatch!TypeOK
    <3>3. events' \in [Dispatch!Event -> Dispatch!Row] /\ Frame'
      BY <1>r, <2>1, <3>1, <3>2 DEF Dispatch!Row
    <3>4. QED
      BY <2>1, <2>2, <2>4, <3>3, <1>v, <1>m, <1>t, <1>7, <1>r DEF Dispatch!UpdateMeeting, Dispatch!TypeOK
  <2>5. QED
    BY <2>3, <2>4
\* A dispatch goes on.
<1>g. ASSUME NEW r \in Request, dispatching[r].at = "dispatch", NEW p \in DOMAIN dispatching[r].stage,
             NEW v \in Dispatch!Stage, dispatching' = [dispatching EXCEPT ![r].stage[p] = v]
      PROVE  Known'
  <2> DEFINE s == [dispatching[r].stage EXCEPT ![p] = v]
             w == [dispatching[r] EXCEPT !.stage = s]
  <2>1. s \in Stages
    BY <1>g, <1>r, StageMoves DEF DispatchWork
  <2>2. dispatching' = [dispatching EXCEPT ![r] = w]
    BY <1>g
  <2> HIDE DEF s
  <2>3. w \in DispatchWork /\ w.at = "dispatch" /\ w.event = dispatching[r].event
    BY <2>1, <1>g, <1>r DEF DispatchWork
  <2> HIDE DEF w
  <2>4. QED
    BY <2>2, <2>3, <1>g, <1>w, <1>r
<1>c. ASSUME NEW count \in [Dispatch!Key -> Nat], NEW key
      PROVE  [count EXCEPT ![key] = @ + 1] \in [Dispatch!Key -> Nat]
  <2>1. CASE key \in Dispatch!Key
    <3>1. count[key] + 1 \in Nat
      BY <2>1
    <3>2. QED
      BY <2>1, <3>1
  <2>2. CASE key \notin Dispatch!Key
    BY <2>2
  <2>3. QED
    BY <2>1, <2>2
<1>8. ASSUME NEW r \in Request, Dispatch!LookUp(r)
      PROVE  DispatchTyped'
  <2>1. Known'
    BY <1>8, <1>r DEF Dispatch!LookUp, DispatchWork, DispatchPlace
  <2>2. QED
    BY <2>1, <1>t, <1>8, <1>r DEF Dispatch!LookUp, Dispatch!TypeOK
<1>9. ASSUME NEW r \in Request, Dispatch!Finish(r)
      PROVE  DispatchTyped'
  <2>1. Known'
    BY <1>9, <1>w, <1>i DEF Dispatch!Finish
  <2>2. QED
    BY <2>1, <1>t, <1>9, <1>r DEF Dispatch!Finish, Dispatch!TypeOK
<1>10. ASSUME NEW r \in Request, NEW p \in DOMAIN dispatching[r].stage, Dispatch!ReadRule(r, p)
       PROVE  DispatchTyped'
  <2>1. Dispatch!Ahead(p) \in Dispatch!Stage
    BY DEF Dispatch!Ahead, Dispatch!Stage
  <2>2. Known'
    BY <1>10, <1>g, <2>1 DEF Dispatch!ReadRule
  <2>3. QED
    BY <2>2, <1>t, <1>10, <1>r DEF Dispatch!ReadRule, Dispatch!TypeOK
<1>11. ASSUME NEW r \in Request, NEW p \in DOMAIN dispatching[r].stage, Dispatch!CreatePortalNotification(r, p)
       PROVE  DispatchTyped'
  <2>1. PICK v \in {"failed", "email", "done"} :
            dispatching[r].at = "dispatch" /\ dispatching' = [dispatching EXCEPT ![r].stage[p] = v]
    BY <1>11 DEF Dispatch!CreatePortalNotification
  <2>2. Known'
    BY <1>g, <2>1 DEF Dispatch!Stage
  <2>3. notices' \in [Dispatch!Key -> Nat]
    BY <1>11, <1>r, <1>c DEF Dispatch!CreatePortalNotification, Dispatch!TypeOK
  <2>4. QED
    BY <2>2, <2>3, <1>t, <1>11, <1>r DEF Dispatch!CreatePortalNotification, Dispatch!TypeOK
<1>12. ASSUME NEW r \in Request, NEW p \in DOMAIN dispatching[r].stage, Dispatch!QueueEmail(r, p)
       PROVE  DispatchTyped'
  <2>1. Known'
    BY <1>12, <1>g DEF Dispatch!QueueEmail, Dispatch!Stage
  <2>2. mails' \in [Dispatch!Key -> Nat]
    BY <1>12, <1>r, <1>c DEF Dispatch!QueueEmail, Dispatch!TypeOK
  <2>3. QED
    BY <2>1, <2>2, <1>t, <1>12, <1>r DEF Dispatch!QueueEmail, Dispatch!TypeOK
<1>13. ASSUME NEW r \in Request, NEW p \in DOMAIN dispatching[r].stage, Dispatch!DispatchFails(r, p)
       PROVE  DispatchTyped'
  <2>1. Known'
    BY <1>13, <1>g DEF Dispatch!DispatchFails, Dispatch!Stage
  <2>2. told' \in [Dispatch!Event -> [save : 0..MaxSaves, channels : SUBSET Dispatch!Channel, disturbed : BOOLEAN]]
    BY <1>13, <1>r DEF Dispatch!DispatchFails, Dispatch!Disturbs, Dispatch!TypeOK
  <2>3. faults' \in 0..MaxFaults
    BY <1>13, <1>r DEF Dispatch!DispatchFails, Dispatch!TypeOK
  <2>4. QED
    BY <2>1, <2>2, <2>3, <1>t, <1>13, <1>r DEF Dispatch!DispatchFails, Dispatch!TypeOK
<1>14. CASE Dispatch!Crash
  <2>1. \A x \in Dispatch!Event : told'[x] = told[x] \/ told'[x] = [told[x] EXCEPT !.disturbed = TRUE]
    BY <1>14 DEF Dispatch!Crash, Dispatch!DisturbsUnderWay
  <2>2. told' \in [Dispatch!Event -> [save : 0..MaxSaves, channels : SUBSET Dispatch!Channel, disturbed : BOOLEAN]]
    <3>1. told \in [Dispatch!Event -> [save : 0..MaxSaves, channels : SUBSET Dispatch!Channel, disturbed : BOOLEAN]]
      BY <1>r DEF Dispatch!TypeOK
    <3>2. \A x \in Dispatch!Event : [told[x] EXCEPT !.disturbed = TRUE]
              \in [save : 0..MaxSaves, channels : SUBSET Dispatch!Channel, disturbed : BOOLEAN]
      BY <3>1
    <3>3. \A x \in Dispatch!Event :
              told'[x] \in [save : 0..MaxSaves, channels : SUBSET Dispatch!Channel, disturbed : BOOLEAN]
      BY <2>1, <3>1, <3>2
    <3>4. DOMAIN told' = Dispatch!Event /\ told' = [x \in DOMAIN told' |-> told'[x]]
      BY <1>14 DEF Dispatch!Crash, Dispatch!DisturbsUnderWay
    <3>5. QED
      BY <3>3, <3>4
  <2>3. Known' /\ faults' \in 0..MaxFaults
    BY <1>14, <1>i, <1>r DEF Dispatch!Crash, Dispatch!TypeOK
  <2>4. QED
    BY <2>2, <2>3, <1>t, <1>14, <1>r DEF Dispatch!Crash, Dispatch!TypeOK
<1>15. CASE UNCHANGED Dispatch!vars
  BY <1>15, <1>t, <1>r DEF Dispatch!vars, Dispatch!TypeOK
<1>16. QED
  BY <1>1, <1>2, <1>3, <1>4, <1>5, <1>6, <1>7, <1>8, <1>9, <1>10, <1>11, <1>12, <1>13, <1>14, <1>15
  DEF Dispatch!Next

\* What steps have in common, as to saves: of the numbers in use, only the next
\* save is new.
LEMMA SavesAdvance ==
    ASSUME DispatchTyped, DispatchTyped', SavesArePast, saves' \in {saves, saves + 1},
           \A x \in Dispatch!Event : told'[x].save \in {told[x].save, saves'},
           \A r \in Request : \/ dispatching'[r].save \in {0, dispatching[r].save, saves'}
                              \/ \E x \in Dispatch!Event : dispatching'[r].save = told[x].save,
           \A k \in Dispatch!Key :
               \/ notices'[k] = notices[k] \/ notices'[k] = 0
               \/ \E r \in Request : k[2] = dispatching[r].save,
           \A k \in Dispatch!Key : mails'[k] = mails[k] \/ \E r \in Request : k[2] = dispatching[r].save
    PROVE  SavesArePast'
<1>1. saves \in Nat /\ saves' \in Nat
  BY ServiceBoundAssumption DEF DispatchTyped, Dispatch!TypeOK
<1>2. \A x \in Dispatch!Event : told[x].save \in Nat
  BY ServiceBoundAssumption DEF DispatchTyped, Dispatch!TypeOK
<1>3. \A r \in Request : dispatching[r].save \in Nat
  BY ServiceBoundAssumption DEF DispatchTyped, DispatchWork
<1>4. saves <= saves'
  BY <1>1
<1>5. \A x \in Dispatch!Event : told'[x].save <= saves'
  BY <1>1, <1>2 DEF SavesArePast
<1>6. \A r \in Request : dispatching'[r].save <= saves'
  BY <1>1, <1>2, <1>3 DEF SavesArePast
<1>7. ASSUME NEW k \in Dispatch!Key, k[2] > saves' PROVE notices'[k] = 0 /\ mails'[k] = 0
  <2>1. k[2] \in Nat
    BY ServiceBoundAssumption DEF Dispatch!Key
  <2>2. k[2] > saves /\ \A r \in Request : k[2] # dispatching[r].save
    BY <1>1, <1>3, <1>7, <2>1 DEF SavesArePast
  <2>3. QED
    BY <2>2 DEF SavesArePast
<1>8. QED
  BY <1>5, <1>6, <1>7 DEF SavesArePast

\* Nothing happens to what has been told of x, or there is less to tell.
Rests(x) ==
    /\ told'[x] = told[x]
    /\ Dispatch!Audience(x)' \subseteq Dispatch!Audience(x)
    /\ \A p \in Dispatch!Audience(x)' :
           /\ notices'[<<x, told[x].save, p>>] = notices[<<x, told[x].save, p>>]
           /\ mails'[<<x, told[x].save, p>>] = mails[<<x, told[x].save, p>>]
    /\ \A r \in Request : dispatching'[r] = dispatching[r] \/ (~Carries(r, x) /\ ~Carries(r, x)')
    /\ rule' = rule \/ \A r \in Request : ~Carries(r, x)

LEMMA RestKeepsTold ==
    ASSUME NEW x \in Dispatch!Event, Rests(x), Told(x)
    PROVE  Told(x)'
<1>1. \A r \in Request : Carries(r, x)' <=> Carries(r, x)
  BY DEF Rests, Carries
<1>2. \A p \in Dispatch!Audience(x)' : \A n, m : Sent(x, p, n, m)' <=> Sent(x, p, n, m)
  BY DEF Rests, Sent
<1>3. ToPortal(x)' = ToPortal(x) /\ \A p : ToMail(x, p)' = ToMail(x, p)
  BY DEF Rests, ToPortal, ToMail
<1>4. told'[x].save = 0 => Dispatch!Audience(x)' = {}
  BY DEF Rests, Told
<1>5. \A q, r \in Request : Carries(q, x)' /\ Carries(r, x)' => q = r
  BY <1>1 DEF Told
<1>6. ASSUME NEW r \in Request, Carries(r, x)
      PROVE  /\ told'[x].channels = Dispatch!Channels(rule)'
             /\ Dispatch!Audience(x)' \subseteq DOMAIN dispatching'[r].stage
             /\ \A p \in Dispatch!Audience(x)' : StageHolds(dispatching[r], x, p)'
  <2>1. dispatching'[r] = dispatching[r] /\ rule' = rule /\ told'[x] = told[x]
        /\ Dispatch!Audience(x)' \subseteq Dispatch!Audience(x)
    BY <1>6 DEF Rests
  <2>2. told[x].channels = Dispatch!Channels(rule) /\ Dispatch!Channels(rule)' = Dispatch!Channels(rule)
    BY <1>6, <2>1 DEF Told, Dispatch!Channels
  <2>3. ASSUME NEW p \in Dispatch!Audience(x)' PROVE StageHolds(dispatching[r], x, p)'
    <3>1. StageHolds(dispatching[r], x, p)
      BY <1>6, <2>1 DEF Told
    <3>2. QED
      BY <1>2, <1>3, <2>1, <3>1 DEF StageHolds
  <2>4. QED
    BY <1>6, <2>1, <2>2, <2>3 DEF Told
<1>7. (\A r \in Request : ~Carries(r, x)') =>
          \A p \in Dispatch!Audience(x)' : Sent(x, p, ToPortal(x), ToMail(x, p))'
  <2>1. (\A r \in Request : ~Carries(r, x)) =>
            \A p \in Dispatch!Audience(x) : Sent(x, p, ToPortal(x), ToMail(x, p))
    BY DEF Told
  <2>2. QED
    BY <1>1, <1>3, <2>1 DEF Rests, Sent
<1>8. QED
  BY <1>1, <1>4, <1>5, <1>6, <1>7 DEF Told

\* A save tells of x anew: request r is to tell those who are to know, if there are any.
Anew(x, r) ==
    /\ saves < MaxSaves /\ saves' = saves + 1
    /\ told'[x].save = saves' /\ told'[x].channels = Dispatch!Channels(rule)
    /\ UNCHANGED <<rule, notices, mails>>
    /\ \A q \in Request \ {r} : dispatching'[q] = dispatching[q]
    /\ \/ /\ dispatching'[r].at \in {"lookup", "dispatch"}
          /\ dispatching'[r].event = x /\ dispatching'[r].save = saves'
          /\ Dispatch!Audience(x)' \subseteq DOMAIN dispatching'[r].stage
          /\ \A p \in Dispatch!Audience(x)' : dispatching'[r].stage[p] = "rule"
       \/ dispatching'[r].at = "idle" /\ Dispatch!Audience(x)' = {}

LEMMA AnewTells ==
    ASSUME DispatchTyped, DispatchTyped', SavesArePast,
           NEW x \in Dispatch!Event, NEW r \in Request, Anew(x, r)
    PROVE  Told(x)'
<1>1. saves \in Nat /\ saves' \in 1..MaxSaves /\ saves < saves' /\ told'[x].save = saves'
  BY ServiceBoundAssumption DEF DispatchTyped, Dispatch!TypeOK, Anew
<1>2. \A q \in Request \ {r} : ~Carries(q, x)'
  <2>1. \A q \in Request : dispatching[q].save \in Nat /\ dispatching[q].save <= saves
    BY ServiceBoundAssumption DEF DispatchTyped, DispatchWork, SavesArePast
  <2>2. QED
    BY <1>1, <2>1 DEF Anew, Carries
<1>3. Dispatch!Audience(x)' \subseteq Recipient
  BY DEF Dispatch!Audience, Recipient
<1>4. ASSUME NEW p \in Dispatch!Audience(x)' PROVE Sent(x, p, 0, 0)'
  <2>1. <<x, saves', p>> \in Dispatch!Key /\ <<x, saves', p>>[2] = saves'
    BY <1>1, <1>3, <1>4 DEF Dispatch!Key, Recipient
  <2>2. notices[<<x, saves', p>>] = 0 /\ mails[<<x, saves', p>>] = 0
    BY <1>1, <2>1 DEF SavesArePast
  <2>3. QED
    BY <1>1, <2>2 DEF Sent, Anew
<1>5. CASE dispatching'[r].at = "idle"
  BY <1>1, <1>2, <1>5 DEF Anew, Told, Carries
<1>6. CASE dispatching'[r].at # "idle"
  <2>1. /\ Carries(r, x)' /\ Dispatch!Audience(x)' \subseteq DOMAIN dispatching'[r].stage
        /\ \A p \in Dispatch!Audience(x)' : dispatching'[r].stage[p] = "rule"
    BY <1>1, <1>6 DEF Anew, Carries
  <2>2. told'[x].channels = Dispatch!Channels(rule)'
    BY DEF Anew, Dispatch!Channels
  <2>3. ASSUME NEW p \in Dispatch!Audience(x)' PROVE StageHolds(dispatching[r], x, p)'
    BY <1>4, <2>1, <2>3 DEF StageHolds
  <2>4. QED
    BY <1>1, <1>2, <2>1, <2>2, <2>3 DEF Told
<1>7. QED
  BY <1>5, <1>6

\* Request r goes on telling of x.
Goes(x, r) ==
    /\ told'[x] = told[x] /\ UNCHANGED <<events, rule>>
    /\ \A q \in Request \ {r} : dispatching'[q] = dispatching[q]
    /\ Carries(r, x) /\ Carries(r, x)'
    /\ DOMAIN dispatching'[r].stage = DOMAIN dispatching[r].stage
    /\ \A p \in Dispatch!Audience(x) : StageHolds(dispatching[r], x, p)'

LEMMA GoingKeepsTold ==
    ASSUME NEW x \in Dispatch!Event, NEW r \in Request, Goes(x, r), Told(x)
    PROVE  Told(x)'
<1>1. \A q \in Request : Carries(q, x)' <=> Carries(q, x)
  BY DEF Goes, Carries
<1>2. Dispatch!Audience(x)' = Dispatch!Audience(x) /\ Dispatch!Channels(rule)' = Dispatch!Channels(rule)
  BY DEF Goes, Dispatch!Audience, Dispatch!Channels
<1>3. \A q \in Request : Carries(q, x)' => q = r
  BY <1>1 DEF Goes, Told
<1>4. QED
  BY <1>1, <1>2, <1>3 DEF Goes, Told

\* Request r has told all.
Ends(x, r) ==
    /\ told'[x] = told[x] /\ UNCHANGED <<events, rule, notices, mails>>
    /\ \A q \in Request \ {r} : dispatching'[q] = dispatching[q]
    /\ Carries(r, x) /\ ~Carries(r, x)'
    /\ \A p \in DOMAIN dispatching[r].stage : dispatching[r].stage[p] \in {"done", "failed"}

LEMMA EndingKeepsTold ==
    ASSUME NEW x \in Dispatch!Event, NEW r \in Request, Ends(x, r), Told(x)
    PROVE  Told(x)'
<1>1. \A q \in Request : ~Carries(q, x)'
  BY DEF Ends, Carries, Told
<1>2. Dispatch!Audience(x)' = Dispatch!Audience(x)
  BY DEF Ends, Dispatch!Audience
<1>3. \A p \in Dispatch!Audience(x) : Sent(x, p, ToPortal(x), ToMail(x, p))
  BY DEF Ends, Told, StageHolds
<1>4. \A p \in Dispatch!Audience(x) : Sent(x, p, ToPortal(x), ToMail(x, p))'
  BY <1>3 DEF Ends, Sent, ToPortal, ToMail
<1>5. told'[x].save = 0 => Dispatch!Audience(x)' = {}
  BY <1>2 DEF Ends, Told
<1>6. QED
  BY <1>1, <1>2, <1>4, <1>5 DEF Told

\* Every step of EventDispatch preserves the invariant.
LEMMA DispatchInvStep ==
    ASSUME DispatchInv, [Dispatch!Next]_(Dispatch!vars)
    PROVE  DispatchInv'
<1> DEFINE Holds(x) == ~told[x].disturbed => Told(x)
<1>t. DispatchTyped /\ DispatchTyped' /\ SavesArePast /\ \A x \in Dispatch!Event : Holds(x)
  BY DispatchType DEF DispatchInv
<1>n. /\ told \in [Dispatch!Event -> [save : 0..MaxSaves, channels : SUBSET Dispatch!Channel, disturbed : BOOLEAN]]
      /\ dispatching \in [Request -> DispatchWork]
      /\ events \in [Dispatch!Event -> Dispatch!Row]
  BY <1>t DEF DispatchTyped, Dispatch!TypeOK
<1>r. ASSUME NEW x \in Dispatch!Event, Rests(x) PROVE Holds(x)'
  BY <1>r, <1>t, RestKeepsTold DEF Rests
<1>q. ASSUME SavesArePast', \A x \in Dispatch!Event : Holds(x)' PROVE DispatchInv'
  BY <1>q, <1>t DEF DispatchInv
<1>1. ASSUME NEW row \in Rules, Dispatch!UpdateRule(row)
      PROVE  DispatchInv'
  <2>1. UNCHANGED <<events, notices, mails, dispatching, saves>>
        /\ \A x \in Dispatch!Event :
               told'[x] = IF Dispatch!UnderWay(x) THEN [told[x] EXCEPT !.disturbed = TRUE] ELSE told[x]
    BY <1>1 DEF Dispatch!UpdateRule, Dispatch!DisturbsUnderWay
  <2>2. \A x \in Dispatch!Event : told'[x].save = told[x].save
    BY <2>1, <1>n
  <2>3. SavesArePast'
    BY <2>1, <2>2, <1>t, SavesAdvance
  <2>4. ASSUME NEW x \in Dispatch!Event PROVE Holds(x)'
    <3>1. CASE Dispatch!UnderWay(x)
      BY <2>1, <3>1, <1>n
    <3>2. CASE ~Dispatch!UnderWay(x)
      <4>1. told'[x] = told[x] /\ \A r \in Request : ~Carries(r, x)
        BY <2>1, <3>2 DEF Dispatch!UnderWay, Carries
      <4>2. Rests(x)
        BY <2>1, <4>1 DEF Rests, Dispatch!Audience
      <4>3. QED
        BY <4>2, <1>r
    <3>3. QED
      BY <3>1, <3>2
  <2>5. QED
    BY <2>3, <2>4, <1>q
<1>2. ASSUME NEW y \in Dispatch!Event, Dispatch!Remove(y)
      PROVE  DispatchInv'
  <2>1. UNCHANGED <<rule, mails, dispatching, saves, told>>
        /\ \A k \in Dispatch!Key : notices'[k] = IF k[1] = y /\ y \in Meeting THEN 0 ELSE notices[k]
    BY <1>2 DEF Dispatch!Remove
  <2>2. SavesArePast'
    BY <2>1, <1>t, SavesAdvance
  <2>3. Dispatch!Audience(y)' = {} /\ \A x \in Dispatch!Event \ {y} : events'[x] = events[x]
    BY <1>2, <1>n DEF Dispatch!Remove, Dispatch!Audience, Dispatch!Row
  <2>4. ASSUME NEW x \in Dispatch!Event PROVE Holds(x)'
    <3>1. CASE x = y
      <4>1. Rests(x)
        BY <2>1, <2>3, <3>1 DEF Rests
      <4>2. QED
        BY <4>1, <1>r
    <3>2. CASE x # y
      <4>1. Dispatch!Audience(x)' = Dispatch!Audience(x)
        BY <2>3, <3>2 DEF Dispatch!Audience
      <4>2. CASE Dispatch!Audience(x) = {} \/ told[x].save = 0
        <5>1. CASE Dispatch!Audience(x) = {}
          <6>1. Rests(x)
            BY <2>1, <4>1, <5>1 DEF Rests
          <6>2. QED
            BY <6>1, <1>r
        <5>2. CASE Dispatch!Audience(x) # {}
          BY <2>1, <4>2, <5>2, <1>t DEF Told
        <5>3. QED
          BY <5>1, <5>2
      <4>3. CASE told[x].save # 0
        <5>1. told[x].save \in 1..MaxSaves
          BY <1>n, <4>3, ServiceBoundAssumption
        <5>2. \A p \in Dispatch!Audience(x) :
                  <<x, told[x].save, p>> \in Dispatch!Key /\ <<x, told[x].save, p>>[1] = x
          BY <5>1 DEF Dispatch!Key, Dispatch!Audience
        <5>3. Rests(x)
          BY <2>1, <3>2, <4>1, <5>2 DEF Rests
        <5>4. QED
          BY <5>3, <1>r
      <4>4. QED
        BY <4>2, <4>3
    <3>3. QED
      BY <3>1, <3>2
  <2>5. QED
    BY <2>2, <2>4, <1>q
\* Events that request r has nothing to do with rest.
<1>o. ASSUME NEW r \in Request, NEW x \in Dispatch!Event, ~Carries(r, x), ~Carries(r, x)',
             told'[x] = told[x], events'[x] = events[x] \/ Dispatch!Audience(x)' \subseteq Dispatch!Audience(x),
             UNCHANGED <<rule, notices, mails>>, \A q \in Request \ {r} : dispatching'[q] = dispatching[q]
      PROVE  Holds(x)'
  <2>1. Dispatch!Audience(x)' \subseteq Dispatch!Audience(x)
    BY <1>o DEF Dispatch!Audience
  <2>2. Rests(x)
    BY <1>o, <2>1 DEF Rests
  <2>3. QED
    BY <2>2, <1>r
\* A save of y that tells: of y anew, and of no other event.
<1>s. ASSUME NEW r \in Request, NEW y \in Dispatch!Event, Dispatch!Tells(y), dispatching[r].at \in {"idle", "update"},
             saves < MaxSaves, saves' = saves + 1, UNCHANGED <<rule, notices, mails>>,
             \A q \in Request \ {r} : dispatching'[q] = dispatching[q],
             \A x \in Dispatch!Event \ {y} : events'[x] = events[x],
             dispatching'[r].save \in {0, saves'},
             \/ /\ dispatching'[r].at \in {"lookup", "dispatch"}
                /\ dispatching'[r].event = y /\ dispatching'[r].save = saves'
                /\ Dispatch!Audience(y)' \subseteq DOMAIN dispatching'[r].stage
                /\ \A p \in Dispatch!Audience(y)' : dispatching'[r].stage[p] = "rule"
             \/ dispatching'[r].at = "idle" /\ Dispatch!Audience(y)' = {}
      PROVE  DispatchInv'
  <2>1. /\ told'[y].save = saves' /\ told'[y].channels = Dispatch!Channels(rule)
        /\ \A x \in Dispatch!Event \ {y} : told'[x] = told[x]
    BY <1>s, <1>n DEF Dispatch!Tells
  <2>2. SavesArePast'
    BY <1>s, <2>1, <1>t, SavesAdvance
  <2>3. Anew(y, r)
    BY <1>s, <2>1 DEF Anew
  <2>4. ASSUME NEW x \in Dispatch!Event PROVE Holds(x)'
    <3>1. CASE x = y
      BY <2>3, <3>1, <1>t, AnewTells
    <3>2. CASE x # y
      <4>1. ~Carries(r, x) /\ ~Carries(r, x)'
        BY <1>s, <3>2 DEF Carries
      <4>2. QED
        BY <4>1, <3>2, <2>1, <1>s, <1>o
    <3>3. QED
      BY <3>1, <3>2
  <2>5. QED
    BY <2>2, <2>4, <1>q
<1>3. ASSUME NEW r \in Request, NEW y \in Announcement, NEW published \in BOOLEAN,
             Dispatch!CreateAnnouncement(r, y, published)
      PROVE  DispatchInv'
  <2>1. y \in Dispatch!Event /\ dispatching[r].at = "idle" /\ saves < MaxSaves /\ saves' = saves + 1
        /\ UNCHANGED <<rule, notices, mails>>
    BY <1>3 DEF Dispatch!CreateAnnouncement, Dispatch!Event, Dispatch!Idle
  <2>2. /\ \A x \in Dispatch!Event \ {y} : events'[x] = events[x]
        /\ Dispatch!Audience(y)' = IF published THEN {Everyone} ELSE {}
    BY <1>3, <1>n, <2>1 DEF Dispatch!CreateAnnouncement, Dispatch!Audience
  <2>3. CASE published
    <3>1. dispatching' = [dispatching EXCEPT ![r] = [at |-> "dispatch", event |-> y, current |-> FALSE,
                              save |-> saves', stage |-> [p \in {Everyone} |-> "rule"]]]
      BY <1>3, <2>3 DEF Dispatch!CreateAnnouncement, Dispatch!Dispatch
    <3>2. /\ dispatching'[r].at = "dispatch" /\ dispatching'[r].event = y /\ dispatching'[r].save = saves'
          /\ dispatching'[r].stage = [p \in {Everyone} |-> "rule"]
          /\ \A q \in Request \ {r} : dispatching'[q] = dispatching[q]
      BY <3>1, <1>n
    <3>3. Dispatch!Tells(y)
      BY <1>3, <2>3 DEF Dispatch!CreateAnnouncement
    <3>4. QED
      BY <2>1, <2>2, <2>3, <3>2, <3>3, <1>s
  <2>4. CASE ~published
    <3>1. UNCHANGED <<dispatching, told>>
      BY <1>3, <2>4 DEF Dispatch!CreateAnnouncement
    <3>2. SavesArePast'
      BY <2>1, <3>1, <1>t, SavesAdvance
    <3>3. ~\E x \in Dispatch!Event : Carries(r, x) \/ Carries(r, x)'
      BY <2>1, <3>1 DEF Carries
    <3>4. ASSUME NEW x \in Dispatch!Event PROVE Holds(x)'
      <4>1. events'[x] = events[x] \/ Dispatch!Audience(x)' \subseteq Dispatch!Audience(x)
        BY <2>2, <2>4
      <4>2. QED
        BY <4>1, <3>1, <3>3, <2>1, <1>o
    <3>5. QED
      BY <3>2, <3>4, <1>q
  <2>5. QED
    BY <2>3, <2>4
\* Nothing is told, and request r neither begins nor ends a dispatch.
<1>u. ASSUME NEW r \in Request, dispatching[r].at \in {"idle", "update"}, dispatching'[r].at \in {"idle", "update"},
             dispatching'[r].save = 0, saves' \in {saves, saves + 1}, UNCHANGED <<rule, notices, mails, told>>,
             \A q \in Request \ {r} : dispatching'[q] = dispatching[q],
             \A x \in Dispatch!Event : events'[x] = events[x] \/ Dispatch!Audience(x)' \subseteq Dispatch!Audience(x)
      PROVE  DispatchInv'
  <2>1. SavesArePast'
    BY <1>u, <1>t, SavesAdvance
  <2>2. \A x \in Dispatch!Event : ~Carries(r, x) /\ ~Carries(r, x)'
    BY <1>u DEF Carries
  <2>3. \A x \in Dispatch!Event : Holds(x)'
    BY <1>u, <2>2, <1>o
  <2>4. QED
    BY <2>1, <2>3, <1>q
<1>4. ASSUME NEW r \in Request, NEW y \in Announcement, Dispatch!BeginUpdate(r, y)
      PROVE  DispatchInv'
  <2>1. /\ dispatching[r].at = "idle" /\ dispatching'[r].at = "update" /\ dispatching'[r].save = 0
        /\ UNCHANGED <<events, rule, notices, mails, told, saves>>
        /\ \A q \in Request \ {r} : dispatching'[q] = dispatching[q]
    BY <1>4, <1>n DEF Dispatch!BeginUpdate, Dispatch!Idle
  <2>2. QED
    BY <2>1, <1>u
<1>5. ASSUME NEW r \in Request, NEW dto \in BOOLEAN \cup {Keep}, Dispatch!UpdateAnnouncement(r, dto)
      PROVE  DispatchInv'
  <2> DEFINE old == events[dispatching[r].event].published
             new == IF dto = Keep THEN old ELSE dto
             fresh == Dispatch!NewlyPublished(dispatching[r].current, new)
             stale == dispatching[r].current # old
  <2>0. PICK y \in Announcement : y = dispatching[r].event
    BY <1>5, <1>t DEF Dispatch!UpdateAnnouncement, DispatchTyped
  <2>1. /\ y \in Dispatch!Event /\ dispatching[r].at = "update" /\ UNCHANGED <<rule, notices, mails>>
        /\ old \in BOOLEAN /\ new \in BOOLEAN /\ dispatching[r].current \in BOOLEAN /\ events[y].people = {}
    BY <1>5, <1>n, <1>t, <2>0 DEF Dispatch!UpdateAnnouncement, Dispatch!Event, Dispatch!Row, DispatchWork, DispatchTyped
  <2>2. CASE events[y].state = "removed"
    <3>1. /\ dispatching'[r] = Dispatch!Idle /\ UNCHANGED <<events, saves, told>>
          /\ \A q \in Request \ {r} : dispatching'[q] = dispatching[q]
      BY <1>5, <1>n, <2>0, <2>2 DEF Dispatch!UpdateAnnouncement
    <3>2. QED
      BY <2>1, <3>1, <1>u DEF Dispatch!Idle
  <2>3. CASE events[y].state # "removed"
    <3>1. /\ saves < MaxSaves /\ saves' = saves + 1
          /\ events' = [events EXCEPT ![y].published = new]
          /\ IF fresh THEN Dispatch!Dispatch(r, y, IF old THEN told[y].save ELSE saves', {Everyone})
             ELSE dispatching' = [dispatching EXCEPT ![r] = Dispatch!Idle]
          /\ IF stale THEN Dispatch!Disturbs(y) ELSE IF ~old /\ new THEN Dispatch!Tells(y) ELSE UNCHANGED told
      BY <1>5, <2>0, <2>3 DEF Dispatch!UpdateAnnouncement
    <3>2. fresh <=> ~dispatching[r].current /\ new
      BY DEF Dispatch!NewlyPublished
    <3>3. /\ \A x \in Dispatch!Event \ {y} : events'[x] = events[x]
          /\ events'[y].published = new /\ events'[y].people = {} /\ events'[y].state = events[y].state
      BY <3>1, <2>1, <1>n DEF Dispatch!Row
    <3>4. /\ Dispatch!Audience(y)' \subseteq {Everyone} /\ (~new => Dispatch!Audience(y)' = {})
          /\ (new = old => Dispatch!Audience(y)' = Dispatch!Audience(y))
      BY <3>3, <2>0, <2>1 DEF Dispatch!Audience
    <3>5. \A q \in Request \ {r} : dispatching'[q] = dispatching[q]
      BY <3>1, <1>n DEF Dispatch!Dispatch
    <3> HIDE DEF new, old, fresh, stale
    <3>a. CASE stale
      <4>1. told'[y] = [told[y] EXCEPT !.disturbed = TRUE] /\ \A x \in Dispatch!Event \ {y} : told'[x] = told[x]
        BY <3>1, <3>a, <2>1, <1>n DEF Dispatch!Disturbs
      <4>2. told'[y].disturbed /\ \A x \in Dispatch!Event : told'[x].save = told[x].save
        BY <4>1, <2>1, <1>n
      <4>3. dispatching'[r].save \in {0, saves', told[y].save}
        BY <3>1, <1>n DEF Dispatch!Dispatch, Dispatch!Idle
      <4>4. \A q \in Request : \/ dispatching'[q].save \in {0, dispatching[q].save, saves'}
                               \/ \E x \in Dispatch!Event : dispatching'[q].save = told[x].save
        BY <2>1, <3>5, <4>3
      <4>5. SavesArePast'
        BY <2>1, <3>1, <4>2, <4>4, <1>t, SavesAdvance
      <4>6. ASSUME NEW x \in Dispatch!Event PROVE Holds(x)'
        <5>1. CASE x = y
          BY <4>2, <5>1
        <5>2. CASE x # y
          <6>1. dispatching'[r].event = y \/ dispatching'[r].at = "idle"
            BY <3>1, <1>n DEF Dispatch!Dispatch, Dispatch!Idle
          <6>2. ~Carries(r, x) /\ ~Carries(r, x)'
            BY <5>2, <2>1, <6>1 DEF Carries
          <6>3. QED
            BY <6>2, <5>2, <2>1, <3>3, <3>5, <4>1, <1>o
        <5>3. QED
          BY <5>1, <5>2
      <4>7. QED
        BY <4>5, <4>6, <1>q
    <3>6. CASE fresh
      <4>1. /\ dispatching'[r].at = "dispatch" /\ dispatching'[r].event = y
            /\ dispatching'[r].save = IF old THEN told[y].save ELSE saves'
            /\ dispatching'[r].stage = [p \in {Everyone} |-> "rule"]
        BY <3>1, <3>6, <1>n DEF Dispatch!Dispatch
      <4>2. CASE ~stale
        <5>1. ~old /\ new
          BY <4>2, <3>2, <3>6 DEF stale
        <5>2. Dispatch!Tells(y)
          BY <3>1, <4>2, <5>1
        <5>3. dispatching'[r].save = saves'
          BY <4>1, <5>1
        <5>4. Dispatch!Audience(y)' \subseteq DOMAIN dispatching'[r].stage
              /\ \A p \in Dispatch!Audience(y)' : dispatching'[r].stage[p] = "rule"
          BY <3>4, <4>1
        <5>5. QED
          BY <2>1, <3>1, <3>3, <3>5, <4>1, <5>2, <5>3, <5>4, <1>s
      <4>3. QED
        BY <4>2, <3>a
    <3>7. CASE ~fresh
      <4>1. dispatching'[r] = Dispatch!Idle
        BY <3>1, <3>7, <1>n
      <4>2. CASE ~stale
        <5>1. ~(~old /\ new) /\ (new = old \/ ~new)
          BY <2>1, <3>2, <3>7, <4>2 DEF stale
        <5>2. told' = told
          BY <3>1, <4>2, <5>1
        <5>3. \A x \in Dispatch!Event : events'[x] = events[x] \/ Dispatch!Audience(x)' \subseteq Dispatch!Audience(x)
          BY <3>3, <3>4, <5>1
        <5>4. QED
          BY <2>1, <3>1, <3>5, <4>1, <5>2, <5>3, <1>u DEF Dispatch!Idle
      <4>3. QED
        BY <4>2, <3>a
    <3>8. QED
      BY <3>6, <3>7
  <2>4. QED
    BY <2>2, <2>3
\* The dispatch to the participants of a meeting.
<1>m. ASSUME NEW r \in Request, NEW y \in Meeting, NEW list, Dispatch!ToMeeting(r, y, list), Dispatch!Tells(y),
             dispatching[r].at = "idle", saves < MaxSaves, saves' = saves + 1, UNCHANGED <<rule, notices, mails>>,
             \A x \in Dispatch!Event \ {y} : events'[x] = events[x],
             events'[y].people = list, ~events'[y].published
      PROVE  DispatchInv'
  <2>1. y \in Dispatch!Event /\ Dispatch!Audience(y)' \subseteq Dispatch!Clean(list)
    BY <1>m DEF Dispatch!Event, Dispatch!Audience, Dispatch!Clean
  <2>2. CASE Dispatch!Clean(list) = {}
    <3>1. dispatching'[r] = Dispatch!Idle /\ \A q \in Request \ {r} : dispatching'[q] = dispatching[q]
      BY <1>m, <1>n, <2>2 DEF Dispatch!ToMeeting
    <3>2. QED
      BY <1>m, <2>1, <2>2, <3>1, <1>s DEF Dispatch!Idle
  <2>3. CASE Dispatch!Clean(list) # {}
    <3>1. /\ dispatching'[r].at = "lookup" /\ dispatching'[r].event = y /\ dispatching'[r].save = saves'
          /\ dispatching'[r].stage = [p \in Dispatch!Clean(list) |-> "rule"]
          /\ \A q \in Request \ {r} : dispatching'[q] = dispatching[q]
      BY <1>m, <1>n, <2>3 DEF Dispatch!ToMeeting
    <3>2. Dispatch!Audience(y)' \subseteq DOMAIN dispatching'[r].stage
          /\ \A p \in Dispatch!Audience(y)' : dispatching'[r].stage[p] = "rule"
      BY <2>1, <3>1
    <3>3. QED
      BY <1>m, <2>1, <3>1, <3>2, <1>s
  <2>4. QED
    BY <2>2, <2>3
<1>6. ASSUME NEW r \in Request, NEW y \in Meeting, NEW list \in Lists, Dispatch!CreateMeeting(r, y, list)
      PROVE  DispatchInv'
  <2>1. /\ \A x \in Dispatch!Event \ {y} : events'[x] = events[x]
        /\ events'[y].people = list /\ ~events'[y].published
    BY <1>6, <1>n DEF Dispatch!CreateMeeting, Dispatch!Event
  <2>2. QED
    BY <1>6, <2>1, <1>m DEF Dispatch!CreateMeeting, Dispatch!Idle
<1>7. ASSUME NEW r \in Request, NEW y \in Meeting, NEW list \in Lists \cup {Keep},
             Dispatch!UpdateMeeting(r, y, list)
      PROVE  DispatchInv'
  <2>1. CASE list = Keep
    <3>1. /\ UNCHANGED <<events, dispatching, told, rule, notices, mails>> /\ saves' = saves + 1
          /\ dispatching[r] = Dispatch!Idle
      BY <1>7, <2>1 DEF Dispatch!UpdateMeeting
    <3>2. QED
      BY <3>1, <1>u DEF Dispatch!Idle
  <2>2. CASE list # Keep
    <3>1. events' = [events EXCEPT ![y].people = list]
      BY <1>7, <2>2 DEF Dispatch!UpdateMeeting
    <3>2. /\ \A x \in Dispatch!Event \ {y} : events'[x] = events[x]
          /\ events'[y].people = list /\ ~events'[y].published
      BY <3>1, <1>n, <1>t DEF Dispatch!Event, Dispatch!Row, DispatchTyped
    <3>3. QED
      BY <1>7, <2>2, <3>2, <1>m DEF Dispatch!UpdateMeeting, Dispatch!Idle
  <2>3. QED
    BY <2>1, <2>2
\* A dispatch goes on with one recipient: it is enough that what has been told fits
\* the new stage of that one.
<1>g. ASSUME NEW r \in Request, dispatching[r].at = "dispatch", NEW p \in DOMAIN dispatching[r].stage,
             NEW v \in Dispatch!Stage, dispatching' = [dispatching EXCEPT ![r].stage[p] = v],
             UNCHANGED <<events, rule, saves, told>>,
             \A k \in Dispatch!Key : \/ k = <<dispatching[r].event, dispatching[r].save, p>>
                                     \/ notices'[k] = notices[k] /\ mails'[k] = mails[k],
             \A x \in Dispatch!Event : Carries(r, x) /\ Told(x) /\ p \in Dispatch!Audience(x) =>
                                           StageHolds(dispatching[r], x, p)'
      PROVE  DispatchInv'
  <2> DEFINE s == [dispatching[r].stage EXCEPT ![p] = v]
  <2>1. DOMAIN s = DOMAIN dispatching[r].stage
        /\ \A q \in DOMAIN s : s[q] = IF q = p THEN v ELSE dispatching[r].stage[q]
    BY StageMoves, <1>g, <1>n DEF DispatchWork
  <2>2. dispatching'[r] = [dispatching[r] EXCEPT !.stage = s]
        /\ \A q \in Request \ {r} : dispatching'[q] = dispatching[q]
    BY <1>g, <1>n
  <2> HIDE DEF s
  <2>3. /\ dispatching'[r].at = "dispatch" /\ dispatching'[r].event = dispatching[r].event
        /\ dispatching'[r].save = dispatching[r].save /\ dispatching'[r].stage = s
    BY <2>2, <1>g, <1>n DEF DispatchWork
  <2>4. SavesArePast'
    <3>1. \A q \in Request : dispatching'[q].save = dispatching[q].save
      BY <2>2, <2>3
    <3>2. \A k \in Dispatch!Key : \/ k[2] = dispatching[r].save
                                  \/ notices'[k] = notices[k] /\ mails'[k] = mails[k]
      BY <1>g
    <3>3. \A x \in Dispatch!Event : told'[x].save = told[x].save
      BY <1>g
    <3>4. QED
      BY <3>1, <3>2, <3>3, <1>g, <1>t, SavesAdvance
  <2>5. ASSUME NEW x \in Dispatch!Event, Told(x) PROVE Told(x)'
    \* The entries for the others are as they were.
    <3>1. ASSUME NEW q \in Dispatch!Audience(x), ~Carries(r, x) \/ q # p
          PROVE  /\ notices'[<<x, told[x].save, q>>] = notices[<<x, told[x].save, q>>]
                 /\ mails'[<<x, told[x].save, q>>] = mails[<<x, told[x].save, q>>]
      <4>1. told[x].save \in 1..MaxSaves
        BY <1>n, <2>5, ServiceBoundAssumption DEF Told
      <4>2. <<x, told[x].save, q>> \in Dispatch!Key
        BY <4>1 DEF Dispatch!Key, Dispatch!Audience
      <4>3. <<x, told[x].save, q>> # <<dispatching[r].event, dispatching[r].save, p>>
        BY <3>1, <1>g DEF Carries
      <4>4. QED
        BY <4>2, <4>3, <1>g
    <3>2. CASE Carries(r, x)
      <4>1. Carries(r, x)'
        BY <2>3, <3>2, <1>g DEF Carries
      <4>2. ASSUME NEW q \in Dispatch!Audience(x) PROVE StageHolds(dispatching[r], x, q)'
        <5>1. CASE q = p
          BY <5>1, <3>2, <2>5, <1>g
        <5>2. CASE q # p
          <6>1. StageHolds(dispatching[r], x, q) /\ q \in DOMAIN s
            BY <3>2, <2>5, <2>1 DEF Told
          <6>2. dispatching'[r].stage[q] = dispatching[r].stage[q] /\ told'[x] = told[x]
            BY <6>1, <5>2, <2>1, <2>3, <1>g
          <6>3. ToPortal(x)' = ToPortal(x) /\ ToMail(x, q)' = ToMail(x, q)
                /\ \A n, m : Sent(x, q, n, m)' <=> Sent(x, q, n, m)
            BY <3>1, <5>2, <6>2 DEF ToPortal, ToMail, Sent
          <6>4. QED
            BY <6>1, <6>2, <6>3, <2>3 DEF StageHolds
        <5>3. QED
          BY <5>1, <5>2
      <4>3. Goes(x, r)
        BY <4>1, <4>2, <3>2, <2>1, <2>2, <2>3, <1>g DEF Goes
      <4>4. QED
        BY <4>3, <2>5, GoingKeepsTold
    <3>3. CASE ~Carries(r, x)
      <4>1. ~Carries(r, x)' /\ told'[x] = told[x] /\ Dispatch!Audience(x)' = Dispatch!Audience(x)
        BY <2>3, <3>3, <1>g DEF Carries, Dispatch!Audience
      <4>2. Rests(x)
        BY <4>1, <3>1, <3>3, <2>2, <1>g DEF Rests
      <4>3. QED
        BY <4>2, <2>5, RestKeepsTold
    <3>4. QED
      BY <3>2, <3>3
  <2>6. \A x \in Dispatch!Event : Holds(x)'
    BY <2>5, <1>t, <1>g
  <2>7. QED
    BY <2>4, <2>6, <1>q
\* Who is to know of what a request carries has entries of their own.
<1>k. ASSUME NEW r \in Request, NEW x \in Dispatch!Event, Carries(r, x), Told(x), NEW p \in Dispatch!Audience(x)
      PROVE  /\ <<dispatching[r].event, dispatching[r].save, p>> = <<x, told[x].save, p>>
             /\ <<x, told[x].save, p>> \in Dispatch!Key
             /\ told[x].channels = Dispatch!Channels(rule) /\ StageHolds(dispatching[r], x, p)
  <2>1. told[x].save \in 1..MaxSaves
    BY <1>n, <1>k, ServiceBoundAssumption DEF Told
  <2>2. <<x, told[x].save, p>> \in Dispatch!Key
    BY <2>1 DEF Dispatch!Key, Dispatch!Audience
  <2>3. QED
    BY <2>2, <1>k DEF Told, Carries
<1>8. ASSUME NEW r \in Request, Dispatch!LookUp(r)
      PROVE  DispatchInv'
  <2>1. /\ dispatching[r].at = "lookup" /\ UNCHANGED <<events, rule, notices, mails, saves, told>>
        /\ dispatching'[r] = [dispatching[r] EXCEPT !.at = "dispatch"]
        /\ \A q \in Request \ {r} : dispatching'[q] = dispatching[q]
    BY <1>8, <1>n DEF Dispatch!LookUp
  <2>2. /\ dispatching'[r].at = "dispatch" /\ dispatching'[r].event = dispatching[r].event
        /\ dispatching'[r].save = dispatching[r].save /\ dispatching'[r].stage = dispatching[r].stage
    BY <2>1, <1>n DEF DispatchWork
  <2>3. \A q \in Request : dispatching'[q].save = dispatching[q].save
    BY <2>1, <2>2
  <2>4. SavesArePast'
    BY <2>1, <2>3, <1>t, SavesAdvance
  <2>5. ASSUME NEW x \in Dispatch!Event PROVE Holds(x)'
    <3>1. CASE Carries(r, x) /\ Told(x)
      <4>1. Carries(r, x)'
        BY <2>1, <2>2, <3>1 DEF Carries
      <4>2. ASSUME NEW p \in Dispatch!Audience(x) PROVE StageHolds(dispatching[r], x, p)'
        <5>1. StageHolds(dispatching[r], x, p)
          BY <3>1 DEF Told
        <5>2. QED
          BY <5>1, <2>1, <2>2 DEF StageHolds, Sent, ToPortal, ToMail
      <4>3. Goes(x, r)
        BY <4>1, <4>2, <3>1, <2>1, <2>2 DEF Goes
      <4>4. QED
        BY <4>3, <3>1, GoingKeepsTold
    <3>2. CASE ~Carries(r, x)
      <4>1. ~Carries(r, x)'
        BY <2>1, <2>2, <3>2 DEF Carries
      <4>2. QED
        BY <4>1, <3>2, <2>1, <1>o
    <3>3. QED
      BY <3>1, <3>2, <2>1, <1>t
  <2>6. QED
    BY <2>4, <2>5, <1>q
<1>9. ASSUME NEW r \in Request, Dispatch!Finish(r)
      PROVE  DispatchInv'
  <2>1. /\ \A p \in DOMAIN dispatching[r].stage : dispatching[r].stage[p] \in {"done", "failed"}
        /\ UNCHANGED <<events, rule, notices, mails, saves, told>>
        /\ dispatching'[r] = Dispatch!Idle
        /\ \A q \in Request \ {r} : dispatching'[q] = dispatching[q]
    BY <1>9, <1>n DEF Dispatch!Finish
  <2>2. dispatching'[r].at = "idle" /\ dispatching'[r].save = 0
    BY <2>1 DEF Dispatch!Idle
  <2>3. \A q \in Request : dispatching'[q].save \in {0, dispatching[q].save}
    BY <2>1, <2>2
  <2>4. SavesArePast'
    BY <2>1, <2>3, <1>t, SavesAdvance
  <2>5. ASSUME NEW x \in Dispatch!Event PROVE Holds(x)'
    <3>1. ~Carries(r, x)'
      BY <2>2 DEF Carries
    <3>2. CASE Carries(r, x) /\ Told(x)
      <4>1. Ends(x, r)
        BY <3>1, <3>2, <2>1 DEF Ends
      <4>2. QED
        BY <4>1, <3>2, EndingKeepsTold
    <3>3. CASE ~Carries(r, x)
      BY <3>1, <3>3, <2>1, <1>o
    <3>4. QED
      BY <3>2, <3>3, <2>1, <1>t
  <2>6. QED
    BY <2>4, <2>5, <1>q
<1>10. ASSUME NEW r \in Request, NEW p \in DOMAIN dispatching[r].stage, Dispatch!ReadRule(r, p)
       PROVE  DispatchInv'
  <2>1. /\ dispatching[r].at = "dispatch" /\ dispatching[r].stage[p] = "rule"
        /\ dispatching' = [dispatching EXCEPT ![r].stage[p] = Dispatch!Ahead(p)]
        /\ UNCHANGED <<events, rule, notices, mails, saves, told>>
    BY <1>10 DEF Dispatch!ReadRule
  <2>2. Dispatch!Ahead(p) \in Dispatch!Stage
    BY DEF Dispatch!Ahead, Dispatch!Stage
  <2>3. dispatching'[r].stage[p] = Dispatch!Ahead(p) /\ dispatching'[r].at = "dispatch"
    BY <2>1, <1>n DEF DispatchWork
  <2>4. ASSUME NEW x \in Dispatch!Event, Carries(r, x), Told(x), p \in Dispatch!Audience(x)
        PROVE  StageHolds(dispatching[r], x, p)'
    <3>1. Sent(x, p, 0, 0) /\ told[x].channels = Dispatch!Channels(rule)
      BY <2>1, <2>4, <1>k DEF StageHolds
    <3>2. Sent(x, p, 0, 0)' /\ told'[x].channels = Dispatch!Channels(rule)
      BY <3>1, <2>1 DEF Sent
    <3>3. QED
      BY <2>3, <3>2 DEF StageHolds, Dispatch!Ahead, ToPortal, ToMail, Sent
  <2>5. QED
    BY <2>1, <2>2, <2>4, <1>g
<1>11. ASSUME NEW r \in Request, NEW p \in DOMAIN dispatching[r].stage, Dispatch!CreatePortalNotification(r, p)
       PROVE  DispatchInv'
  <2> DEFINE accepted == dispatching[r].event \in Announcement \/ events[dispatching[r].event].state = "kept"
             key == <<dispatching[r].event, dispatching[r].save, p>>
             next == IF ~accepted THEN "failed" ELSE IF dispatching[r].stage[p] = "both" THEN "email" ELSE "done"
  <2>1. /\ dispatching[r].at = "dispatch" /\ dispatching[r].stage[p] \in {"portal", "both"}
        /\ notices' = IF accepted THEN [notices EXCEPT ![key] = @ + 1] ELSE notices
        /\ dispatching' = [dispatching EXCEPT ![r].stage[p] = next]
        /\ UNCHANGED <<events, rule, mails, saves, told>>
    BY <1>11 DEF Dispatch!CreatePortalNotification
  <2>2. next \in Dispatch!Stage
    BY DEF Dispatch!Stage
  <2>3. dispatching'[r].stage[p] = next /\ dispatching'[r].at = "dispatch"
    BY <2>1, <1>n DEF DispatchWork
  <2>4. notices \in [Dispatch!Key -> Nat]
    BY <1>t DEF DispatchTyped, Dispatch!TypeOK
  <2>5. \A k \in Dispatch!Key : k = key \/ (notices'[k] = notices[k] /\ mails'[k] = mails[k])
    BY <2>1, <2>4
  <2>6. ASSUME NEW x \in Dispatch!Event, Carries(r, x), Told(x), p \in Dispatch!Audience(x)
        PROVE  StageHolds(dispatching[r], x, p)'
    <3>1. accepted /\ dispatching[r].event = x
      BY <2>6 DEF Carries, Dispatch!Audience
    <3>2. key = <<x, told[x].save, p>> /\ key \in Dispatch!Key /\ StageHolds(dispatching[r], x, p)
      BY <2>6, <1>k
    <3>3. Sent(x, p, 0, 0) /\ ToPortal(x) = 1 /\ ToMail(x, p) = IF dispatching[r].stage[p] = "both" THEN 1 ELSE 0
      BY <2>1, <3>2 DEF StageHolds
    <3>4. Sent(x, p, 1, 0)' /\ ToPortal(x)' = 1 /\ ToMail(x, p)' = ToMail(x, p)
      BY <2>1, <2>4, <3>1, <3>2, <3>3 DEF Sent, ToPortal, ToMail
    <3>5. QED
      BY <2>1, <2>3, <3>1, <3>3, <3>4 DEF StageHolds
  <2> HIDE DEF accepted, key, next
  <2>7. QED
    BY <2>1, <2>2, <2>5, <2>6, <1>g DEF key
<1>12. ASSUME NEW r \in Request, NEW p \in DOMAIN dispatching[r].stage, Dispatch!QueueEmail(r, p)
       PROVE  DispatchInv'
  <2> DEFINE key == <<dispatching[r].event, dispatching[r].save, p>>
  <2>1. /\ dispatching[r].at = "dispatch" /\ dispatching[r].stage[p] = "email"
        /\ mails' = [mails EXCEPT ![key] = @ + 1]
        /\ dispatching' = [dispatching EXCEPT ![r].stage[p] = "done"]
        /\ UNCHANGED <<events, rule, notices, saves, told>>
    BY <1>12 DEF Dispatch!QueueEmail
  <2>2. "done" \in Dispatch!Stage
    BY DEF Dispatch!Stage
  <2>3. dispatching'[r].stage[p] = "done" /\ dispatching'[r].at = "dispatch"
    BY <2>1, <1>n DEF DispatchWork
  <2>4. mails \in [Dispatch!Key -> Nat]
    BY <1>t DEF DispatchTyped, Dispatch!TypeOK
  <2>5. \A k \in Dispatch!Key : k = key \/ (notices'[k] = notices[k] /\ mails'[k] = mails[k])
    BY <2>1, <2>4
  <2>6. ASSUME NEW x \in Dispatch!Event, Carries(r, x), Told(x), p \in Dispatch!Audience(x)
        PROVE  StageHolds(dispatching[r], x, p)'
    <3>1. key = <<x, told[x].save, p>> /\ key \in Dispatch!Key /\ StageHolds(dispatching[r], x, p)
      BY <2>6, <1>k
    <3>2. Sent(x, p, ToPortal(x), 0) /\ ToMail(x, p) = 1
      BY <2>1, <3>1 DEF StageHolds
    <3>3. Sent(x, p, ToPortal(x), 1)' /\ ToMail(x, p)' = 1
      BY <2>1, <2>4, <3>1, <3>2 DEF Sent, ToPortal, ToMail
    <3>4. QED
      BY <2>3, <3>3 DEF StageHolds
  <2> HIDE DEF key
  <2>7. QED
    BY <2>1, <2>2, <2>5, <2>6, <1>g DEF key
<1>13. ASSUME NEW r \in Request, NEW p \in DOMAIN dispatching[r].stage, Dispatch!DispatchFails(r, p)
       PROVE  DispatchInv'
  <2> DEFINE y == dispatching[r].event
  <2>1. /\ dispatching[r].at = "dispatch" /\ UNCHANGED <<events, rule, notices, mails, saves>>
        /\ dispatching' = [dispatching EXCEPT ![r].stage[p] = "failed"] /\ Dispatch!Disturbs(y)
    BY <1>13 DEF Dispatch!DispatchFails
  <2>2. /\ dispatching'[r].event = y /\ dispatching'[r].save = dispatching[r].save
        /\ \A q \in Request \ {r} : dispatching'[q] = dispatching[q]
    BY <2>1, <1>n DEF DispatchWork
  <2>3. y \in Dispatch!Event
    BY <2>1, <1>t DEF DispatchTyped
  <2>4. told'[y].disturbed /\ told'[y].save = told[y].save /\ \A x \in Dispatch!Event \ {y} : told'[x] = told[x]
    BY <2>1, <2>3, <1>n DEF Dispatch!Disturbs
  <2> HIDE DEF y
  <2>5. SavesArePast'
    <3>1. \A x \in Dispatch!Event : told'[x].save = told[x].save
      BY <2>4
    <3>2. \A q \in Request : dispatching'[q].save = dispatching[q].save
      BY <2>2
    <3>3. QED
      BY <2>1, <3>1, <3>2, <1>t, SavesAdvance
  <2>6. ASSUME NEW x \in Dispatch!Event PROVE Holds(x)'
    <3>1. CASE x = y
      BY <3>1, <2>4
    <3>2. CASE x # y
      <4>1. ~Carries(r, x) /\ ~Carries(r, x)'
        BY <3>2, <2>2 DEF Carries, y
      <4>2. QED
        BY <4>1, <3>2, <2>1, <2>2, <2>4, <1>o
    <3>3. QED
      BY <3>1, <3>2
  <2>7. QED
    BY <2>5, <2>6, <1>q
<1>14. CASE Dispatch!Crash
  <2>1. /\ UNCHANGED <<events, rule, notices, mails, saves>>
        /\ \A r \in Request : dispatching'[r] = Dispatch!Idle
        /\ \A x \in Dispatch!Event :
               told'[x] = IF Dispatch!UnderWay(x) THEN [told[x] EXCEPT !.disturbed = TRUE] ELSE told[x]
    BY <1>14 DEF Dispatch!Crash, Dispatch!DisturbsUnderWay
  <2>2. \A r \in Request : dispatching'[r].at = "idle" /\ dispatching'[r].save = 0
    BY <2>1 DEF Dispatch!Idle
  <2>3. \A x \in Dispatch!Event : told'[x].save = told[x].save
    BY <2>1, <1>n
  <2>4. SavesArePast'
    BY <2>1, <2>2, <2>3, <1>t, SavesAdvance
  <2>5. ASSUME NEW x \in Dispatch!Event PROVE Holds(x)'
    <3>1. CASE Dispatch!UnderWay(x)
      BY <2>1, <3>1, <1>n
    <3>2. CASE ~Dispatch!UnderWay(x)
      <4>1. told'[x] = told[x] /\ \A r \in Request : ~Carries(r, x) /\ ~Carries(r, x)'
        BY <2>1, <2>2, <3>2 DEF Dispatch!UnderWay, Carries
      <4>2. Rests(x)
        BY <2>1, <4>1 DEF Rests, Dispatch!Audience
      <4>3. QED
        BY <4>2, <1>r
    <3>3. QED
      BY <3>1, <3>2
  <2>6. QED
    BY <2>4, <2>5, <1>q
<1>15. CASE UNCHANGED Dispatch!vars
  <2>1. UNCHANGED <<events, rule, notices, mails, dispatching, saves, told>>
    BY <1>15 DEF Dispatch!vars
  <2>2. SavesArePast'
    BY <2>1, <1>t DEF SavesArePast
  <2>3. ASSUME NEW x \in Dispatch!Event PROVE Holds(x)'
    <3>1. Rests(x)
      BY <2>1 DEF Rests, Dispatch!Audience
    <3>2. QED
      BY <3>1, <1>r
  <2>4. QED
    BY <2>2, <2>3, <1>q
<1>16. QED
  <2>1. CASE \E r \in Request, x \in Announcement :
                 Dispatch!BeginUpdate(r, x) \/ \E published \in BOOLEAN : Dispatch!CreateAnnouncement(r, x, published)
    BY <2>1, <1>3, <1>4
  <2>2. CASE \E r \in Request, x \in Meeting :
                 \/ \E list \in Lists : Dispatch!CreateMeeting(r, x, list)
                 \/ \E list \in Lists \cup {Keep} : Dispatch!UpdateMeeting(r, x, list)
    BY <2>2, <1>6, <1>7
  <2>3. CASE \E r \in Request, dto \in BOOLEAN \cup {Keep} : Dispatch!UpdateAnnouncement(r, dto)
    BY <2>3, <1>5
  <2>4. CASE \E r \in Request : \E p \in DOMAIN dispatching[r].stage :
                 \/ Dispatch!ReadRule(r, p) \/ Dispatch!CreatePortalNotification(r, p) \/ Dispatch!QueueEmail(r, p)
                 \/ Dispatch!DispatchFails(r, p)
    BY <2>4, <1>10, <1>11, <1>12, <1>13
  <2>5. QED
    BY <1>1, <1>2, <1>8, <1>9, <1>14, <1>15, <2>1, <2>2, <2>3, <2>4 DEF Dispatch!Next

LEMMA DispatchStart == Dispatch!Init => DispatchInv
<1> SUFFICES ASSUME Dispatch!Init PROVE DispatchInv
  OBVIOUS
<1>1. /\ events \in [Dispatch!Event -> Dispatch!Row]
      /\ \A x \in Dispatch!Event : ~events[x].published /\ events[x].people = {} /\ events[x].state # "kept"
  <2> DEFINE none == Dispatch!NoRow
             gone == [Dispatch!NoRow EXCEPT !.state = "removed"]
  <2>1. none \in Dispatch!Row /\ ~none.published /\ none.people = {} /\ none.state # "kept"
    BY DEF Dispatch!NoRow, Dispatch!Row
  <2>2. gone \in Dispatch!Row /\ ~gone.published /\ gone.people = {} /\ gone.state # "kept"
    BY DEF Dispatch!NoRow, Dispatch!Row
  <2>3. events \in [Dispatch!Event -> {none, gone}]
    BY DEF Dispatch!Init
  <2> HIDE DEF none, gone
  <2>4. QED
    BY <2>1, <2>2, <2>3
<1>2. /\ \A r \in Request : dispatching[r] = Dispatch!Idle
      /\ \A x \in Dispatch!Event : told[x] = Dispatch!Nothing
      /\ notices = [k \in Dispatch!Key |-> 0] /\ mails = [k \in Dispatch!Key |-> 0]
      /\ rule \in Rules \cup {None} /\ saves = 0 /\ turns = 0 /\ faults = 0
      /\ told = [x \in Dispatch!Event |-> Dispatch!Nothing]
      /\ dispatching = [r \in Request |-> Dispatch!Idle]
  BY DEF Dispatch!Init
<1>3. /\ Dispatch!Idle \in DispatchWork /\ Dispatch!Idle.at = "idle" /\ Dispatch!Idle.save = 0
      /\ DOMAIN Dispatch!Idle.stage = {}
  BY StagesStart, ServiceBoundAssumption DEF Dispatch!Idle, DispatchWork, DispatchPlace
<1>4. Dispatch!Nothing \in [save : 0..MaxSaves, channels : SUBSET Dispatch!Channel, disturbed : BOOLEAN]
      /\ Dispatch!Nothing.save = 0
  BY ServiceBoundAssumption DEF Dispatch!Nothing
<1>5. Dispatch!TypeOK
  BY <1>1, <1>2, <1>3, <1>4, EventAssumption, ServiceBoundAssumption DEF Dispatch!TypeOK
<1>6. DispatchTyped
  BY <1>1, <1>2, <1>3, <1>5 DEF DispatchTyped, Dispatch!Event
<1>7. SavesArePast
  BY <1>2, <1>3, <1>4 DEF SavesArePast
<1>8. \A x \in Dispatch!Event : Told(x)
  BY <1>1, <1>2, <1>3 DEF Told, Carries, Dispatch!Audience
<1>9. QED
  BY <1>6, <1>7, <1>8 DEF DispatchInv

LEMMA DispatchImplies == DispatchInv => Dispatch!ToldOnce
<1> SUFFICES ASSUME DispatchInv, NEW x \in Dispatch!Event, ~told[x].disturbed,
                    \A r \in Request : dispatching[r].event # x \/ dispatching[r].save # told[x].save,
                    NEW p \in Dispatch!Audience(x)
             PROVE  /\ told[x].save > 0
                    /\ notices[<<x, told[x].save, p>>] = ToPortal(x)
                    /\ mails[<<x, told[x].save, p>>] = ToMail(x, p)
  BY DEF Dispatch!ToldOnce, ToPortal, ToMail
<1>1. Told(x) /\ \A r \in Request : ~Carries(r, x)
  BY DEF DispatchInv, Carries
<1>2. told[x].save \in Nat /\ told[x].save # 0
  BY <1>1, ServiceBoundAssumption DEF Told, DispatchInv, DispatchTyped, Dispatch!TypeOK
<1>3. QED
  BY <1>1, <1>2 DEF Told, Sent

\* Who is to know of an event is told of it exactly once through each channel of
\* its rule, however many saves overlap, as long as the rule holds, no call fails
\* and nobody publishes an announcement between the reading and the writing of
\* another save of it.
THEOREM DispatchToldOnce == Dispatch!Spec => []Dispatch!ToldOnce
<1>1. DispatchInv /\ [Dispatch!Next]_(Dispatch!vars) => DispatchInv'
  BY DispatchInvStep
<1>2. QED
  BY DispatchStart, DispatchImplies, <1>1, PTL DEF Dispatch!Spec

\* In the system ServicesMC composes, the dispatches are as they are by themselves.
LEMMA DispatchInFocus == Spec => [](focus = "dispatch" => DispatchInv)
<1>1. Init => (focus = "dispatch" => DispatchInv)
  BY DispatchStart DEF Init
<1>2. (focus = "dispatch" => DispatchInv) /\ [Next]_vars => (focus = "dispatch" => DispatchInv)'
  BY ServicesStep, DispatchInvStep
<1>3. QED
  BY <1>1, <1>2, PTL DEF Spec

\* In the system ServicesMC composes, those who are to know of an event are told of
\* it once (EventDispatch.ToldOnce).
COROLLARY ToldOnceHolds == Spec => []ToldOnce
<1>1. (focus = "dispatch" => DispatchInv) => ToldOnce
  BY DispatchImplies DEF ToldOnce
<1>2. QED
  BY <1>1, DispatchInFocus, PTL

=============================================================================
