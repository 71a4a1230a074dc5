------------------------ MODULE WorkspaceNoticesProofs ------------------------
(***************************************************************************)
(* Theorems about WorkspaceNotices, which PlatformMC calls Notices: a task *)
(* has one notification about the task as it is, a revision is pushed to a *)
(* browser once, and what is marked as sent was settled.                   *)
(***************************************************************************)
EXTENDS PlatformProofs

\* A save is under way, and its revision.
Pending(w) == taskSaves[w].at \notin {"idle", "done"}
RevOf(w) == taskSaves[w].row.rev
Stored(n) == notices[n] # Notices!NoNotice
\* Activation p of the sender has h still to send, or is sending it.
Holds(p, h) ==
    \/ passes[p].at \in {"batch", "sending"} /\ h \in passes[p].left
    \/ passes[p].at = "sending" /\ h = passes[p].now

\* Nothing is of a revision yet to come.
RevisionsArePast ==
    /\ \A n \in Notices!Notice : Stored(n) => n <= revision /\ notices[n].rev <= revision
    /\ \A w \in Save : Pending(w) => RevOf(w) <= revision
    /\ \A w \in Save : taskSaves[w].at = "found" /\ taskSaves[w].id # None =>
           taskSaves[w].id <= revision
    /\ \A p \in Pass, h \in Notices!Held : Holds(p, h) => h.id <= revision /\ h.rev <= revision
    /\ \A x \in pushes : x.rev <= revision

\* Until a save has written its notification its revision is its own: no other
\* save has it, no notification, nothing an activation holds or has pushed.
RevisionIsOwn ==
    \A w \in Save : Pending(w) =>
        /\ \A v \in Save : Pending(v) /\ RevOf(v) = RevOf(w) => v = w
        /\ \A v \in Save : taskSaves[v].at = "found" => taskSaves[v].id # RevOf(w)
        /\ ~Stored(RevOf(w))
        /\ \A n \in Notices!Notice : Stored(n) => notices[n].rev # RevOf(w)
        /\ \A p \in Pass, h \in Notices!Held : Holds(p, h) => h.id # RevOf(w) /\ h.rev # RevOf(w)
        /\ \A x \in pushes : x.rev # RevOf(w)

\* A revision is in one notification.
RevisionHasOneNotice ==
    /\ \A n, m \in Notices!Notice : Stored(n) /\ Stored(m) /\ notices[n].rev = notices[m].rev => n = m
    /\ \A p \in Pass, h \in Notices!Held, n \in Notices!Notice :
           Holds(p, h) /\ Stored(n) /\ notices[n].rev = h.rev => n = h.id
    /\ \A p, o \in Pass, h, k \in Notices!Held :
           Holds(p, h) /\ Holds(o, k) /\ h.rev = k.rev => h.id = k.id

\* What a save found, if it is still there, is the notification of its task.
FoundIsOfTask ==
    \A w \in Save :
        taskSaves[w].at = "found" /\ taskSaves[w].id # None /\ Stored(taskSaves[w].id) =>
            notices[taskSaves[w].id].taskId = taskSaves[w].of

RevisionInv ==
    /\ Notices!TypeOK
    /\ RevisionsArePast
    /\ RevisionIsOwn
    /\ RevisionHasOneNotice
    /\ FoundIsOfTask

\* A task that is gone has no notification.
NoticesGoWithTask ==
    \A t \in Task : tasks[t] = Notices!NoTask => Notices!NoticesOf(t) = {}

\* There is one save of a task, it wrote the task, and what it found is all
\* there is; when it is over, the notification is about the task.
TaskSettles(t) ==
    /\ \A w, v \in Notices!SavingTask(t) : w = v
    /\ tasks[t] # Notices!NoTask =>
        /\ \A n, m \in Notices!NoticesOf(t) : n = m
        /\ Notices!SavingTask(t) = {} =>
               \A n \in Notices!NoticesOf(t) : tasks[t].dueDate /\ notices[n].rev = tasks[t].rev
        /\ \A w \in Notices!SavingTask(t) :
               /\ tasks[t] = taskSaves[w].row
               /\ taskSaves[w].at = "created" =>
                      taskSaves[w].row.dueDate /\ Notices!NoticesOf(t) = {}
               /\ taskSaves[w].at = "found" =>
                      taskSaves[w].row.dueDate /\ Notices!NoticesOf(t) \subseteq {taskSaves[w].id}

NoticeInv ==
    /\ RevisionInv
    /\ NoticesGoWithTask
    /\ ~senderDied => \A t \in Task \ tasksCrossed : TaskSettles(t)

\* What an activation holds is as it was read, unless it was saved meanwhile,
\* and what it sends is settled.
HeldIsAsRead ==
    /\ \A p \in Pass, h \in Notices!Held :
           Holds(p, h) /\ h.id \notin raced /\ Stored(h.id) => notices[h.id].rev = h.rev
    /\ \A p \in Pass : passes[p].at = "sending" => passes[p].now.rev \in settled

SettledInv ==
    /\ RevisionInv
    /\ HeldIsAsRead
    /\ Notices!SentWasSettled

\* An activation holds a notification once, and no other does.
HeldOnce ==
    /\ \A p, o \in Pass, h, k \in Notices!Held :
           Holds(p, h) /\ Holds(o, k) /\ h.id = k.id => p = o /\ h = k
    /\ \A p \in Pass : passes[p].at = "sending" => passes[p].now \notin passes[p].left

\* What is still to send was not pushed, and what was pushed is marked or is
\* being sent.
PushedIsSending ==
    /\ \A p \in Pass : passes[p].at \in {"batch", "sending"} =>
           \A h \in passes[p].left, x \in pushes : x.rev # h.rev
    /\ \A p \in Pass : passes[p].at = "sending" =>
           \A x \in pushes : x.rev = passes[p].now.rev => x.to \notin passes[p].to
    /\ \A n \in Notices!Notice, x \in pushes :
           Stored(n) /\ ~notices[n].sentAt /\ notices[n].rev = x.rev =>
               \E p \in Pass : passes[p].at = "sending" /\ passes[p].now = [id |-> n, rev |-> x.rev]

PushInv ==
    /\ RevisionInv
    /\ overlapped = {} /\ ~senderDied => HeldOnce /\ PushedIsSending
    /\ Notices!PushedOnce

-----------------------------------------------------------------------------
\* The type invariant holds in every state.
LEMMA NoticesType ==
    ASSUME Notices!TypeOK, [Notices!Next]_(Notices!vars)
    PROVE  Notices!TypeOK'
<1> USE PlatformBoundAssumption DEF Notices!TypeOK, Notices!SenderUnchanged, Notices!SavesUnchanged,
        Notices!Revision, Notices!Notice, Notices!Idle, Notices!Done
<1>1. ASSUME NEW w \in Save, NEW t \in Task, NEW dueDate \in BOOLEAN, NEW isDone \in BOOLEAN,
             Notices!WriteTask(w, t, dueDate, isDone)
      PROVE  Notices!TypeOK'
  <2> DEFINE row == [rev |-> revision + 1, dueDate |-> dueDate, isDone |-> isDone]
             creates == tasks[t] = Notices!NoTask
  <2>1. row \in Notices!TaskRow /\ revision' \in 0..MaxRevision
    BY <1>1 DEF Notices!WriteTask, Notices!TaskRow
  <2>2. [at |-> IF creates THEN "created" ELSE "updated", of |-> t, row |-> row] \in Notices!Saving
    BY <2>1 DEF Notices!Saving
  <2>3. tasks' \in [Task -> Notices!TaskRow \cup {Notices!NoTask}]
    BY <1>1, <2>1 DEF Notices!WriteTask
  <2>4. taskSaves' \in [Save -> {Notices!Idle, Notices!Done} \cup Notices!Saving \cup Notices!Found]
    BY <1>1, <2>2 DEF Notices!WriteTask
  <2>5. QED
    BY <1>1, <2>1, <2>3, <2>4 DEF Notices!WriteTask
<1> USE DEF Notices!Saving, Notices!Found, Notices!TaskRow
<1>p. ASSUME NEW q, q \in Notices!Saving \/ q \in Notices!Found, NEW n \in Notices!Notice,
             NEW sent \in BOOLEAN, Notices!Noticed(q, n, sent)
      PROVE  notices' \in [Notices!Notice -> Notices!NoticeRow \cup {Notices!NoNotice}]
  BY <1>p DEF Notices!Noticed, Notices!NoticeRow
<1>2. ASSUME NEW w \in Save, Notices!Dispatch(w) PROVE Notices!TypeOK'
  <2>1. taskSaves[w] \in Notices!Saving
    BY <1>2 DEF Notices!Dispatch
  <2>2. notices' \in [Notices!Notice -> Notices!NoticeRow \cup {Notices!NoNotice}]
    BY <1>2, <1>p, <2>1 DEF Notices!Dispatch
  <2>3. QED
    BY <1>2, <2>2 DEF Notices!Dispatch
<1>3. ASSUME NEW w \in Save, Notices!DeleteNotices(w) PROVE Notices!TypeOK'
  BY <1>3 DEF Notices!DeleteNotices
<1>4. ASSUME NEW w \in Save, Notices!FindNotice(w) PROVE Notices!TypeOK'
  <2>1. taskSaves[w] \in Notices!Saving
    BY <1>4 DEF Notices!FindNotice
  <2>2. QED
    BY <1>4, <2>1 DEF Notices!FindNotice, Notices!NoticesOf
<1>5. ASSUME NEW w \in Save, Notices!UpsertNotice(w) PROVE Notices!TypeOK'
  <2> DEFINE q == taskSaves[w]
             exists == q.id # None /\ notices[q.id] # Notices!NoNotice
  <2>1. q \in Notices!Found
    BY <1>5 DEF Notices!UpsertNotice
  <2>2. (IF exists THEN q.id ELSE q.row.rev) \in Notices!Notice
    BY <2>1
  <2>3. notices' \in [Notices!Notice -> Notices!NoticeRow \cup {Notices!NoNotice}]
    BY <1>5, <1>p, <2>1, <2>2 DEF Notices!UpsertNotice
  <2>4. QED
    BY <1>5, <2>1, <2>3 DEF Notices!UpsertNotice
<1>6. ASSUME NEW w \in Save, Notices!SaveFails(w) PROVE Notices!TypeOK'
  BY <1>6 DEF Notices!SaveFails
<1>7. ASSUME NEW t \in Task, Notices!RemoveTask(t) PROVE Notices!TypeOK'
  BY <1>7 DEF Notices!RemoveTask
<1>8. ASSUME NEW r \in Notices!Revision, Notices!TimePasses(r) PROVE Notices!TypeOK'
  BY <1>8 DEF Notices!TimePasses
<1> USE DEF Notices!Batch, Notices!Sending, Notices!Held
<1>9. ASSUME NEW p \in Pass, Notices!TakeBatch(p) PROVE Notices!TypeOK'
  BY ZenonT(60), <1>9 DEF Notices!TakeBatch, Notices!Ready
<1>10. ASSUME NEW p \in Pass, NEW h \in Notices!Held, Notices!StartSending(p, h) PROVE Notices!TypeOK'
  <2> DEFINE sending == [at |-> "sending", left |-> passes[p].left \ {h}, now |-> h, to |-> subscriptions]
  <2>1. passes[p] \in Notices!Batch
    BY <1>10 DEF Notices!StartSending
  <2>2. sending \in Notices!Sending
    BY <2>1
  <2>3. passes' = [passes EXCEPT ![p] = sending] /\ settled' = settled \cup {h.rev}
    BY <1>10 DEF Notices!StartSending
  <2>4. passes' \in [Pass -> {Notices!Idle, Notices!Done} \cup Notices!Batch \cup Notices!Sending]
    BY <2>2, <2>3
  <2>5. QED
    BY <1>10, <2>3, <2>4 DEF Notices!StartSending
<1>11. ASSUME NEW p \in Pass, NEW e \in Endpoint, Notices!Answered(p, e)
       PROVE  /\ passes[p] \in Notices!Sending
              /\ passes' \in [Pass -> {Notices!Idle, Notices!Done} \cup Notices!Batch \cup Notices!Sending]
  <2>1. passes[p] \in Notices!Sending
    BY <1>11 DEF Notices!Answered
  <2>2. [passes[p] EXCEPT !.to = passes[p].to \ {e}] \in Notices!Sending
    BY <2>1
  <2>3. QED
    BY <1>11, <2>1, <2>2 DEF Notices!Answered
<1>12. ASSUME NEW p \in Pass, NEW e \in Endpoint,
              Notices!Deliver(p, e) \/ Notices!Refuse(p, e) \/ Notices!Expire(p, e)
       PROVE  Notices!TypeOK'
  <2>1. CASE Notices!Deliver(p, e)
    <3> DEFINE again == \E x \in pushes : x.rev = passes[p].now.rev /\ x.to = e
    <3>1. Notices!Answered(p, e) /\ pushes' = pushes \cup {[rev |-> passes[p].now.rev, to |-> e, again |-> again]}
      BY <2>1 DEF Notices!Deliver
    <3>2. passes[p].now.rev \in Notices!Revision /\ again \in BOOLEAN
      BY <1>11, <3>1
    <3> HIDE DEF again
    <3>3. pushes' \subseteq [rev : Notices!Revision, to : Endpoint, again : BOOLEAN]
      BY <3>1, <3>2
    <3>4. QED
      BY <1>11, <2>1, <3>1, <3>3 DEF Notices!Deliver
  <2>2. CASE Notices!Refuse(p, e)
    BY <1>11, <2>2 DEF Notices!Refuse
  <2>3. CASE Notices!Expire(p, e)
    BY <1>11, <2>3 DEF Notices!Expire
  <2>4. QED
    BY <1>12, <2>1, <2>2, <2>3
<1>13. ASSUME NEW p \in Pass, Notices!MarkSent(p) PROVE Notices!TypeOK'
  <2>1. passes[p] \in Notices!Sending /\ passes[p].now.id \in Notices!Notice
    BY <1>13 DEF Notices!MarkSent
  <2>2. notices' \in [Notices!Notice -> Notices!NoticeRow \cup {Notices!NoNotice}]
    <3>1. notices[passes[p].now.id] \in Notices!NoticeRow
      BY <1>13, <2>1 DEF Notices!MarkSent
    <3>2. [notices[passes[p].now.id] EXCEPT !.sentAt = TRUE] \in Notices!NoticeRow
      BY <3>1 DEF Notices!NoticeRow
    <3>3. QED
      BY <1>13, <2>1, <3>2 DEF Notices!MarkSent
  <2>3. QED
    BY <1>13, <2>1, <2>2 DEF Notices!MarkSent
<1>14. ASSUME Notices!AllDie PROVE Notices!TypeOK'
  BY <1>14 DEF Notices!AllDie
<1>15. ASSUME NEW e \in Endpoint, Notices!Subscribe(e) PROVE Notices!TypeOK'
  BY <1>15 DEF Notices!Subscribe
<1>16. CASE UNCHANGED Notices!vars
  BY <1>16 DEF Notices!vars
<1>17. QED
  BY SMTT(40), <1>1, <1>2, <1>3, <1>4, <1>5, <1>6, <1>7, <1>8, <1>9, <1>10, <1>12, <1>13, <1>14, <1>15, <1>16
     DEF Notices!Next, Notices!Throw, Notices!Crash

-----------------------------------------------------------------------------
(* What a step may do, as far as these proofs tell steps apart.            *)

\* The notification a save writes: the one it found, if that is still there.
Target(w) ==
    LET q == taskSaves[w] IN
    IF q.at = "found" /\ q.id # None /\ Stored(q.id) THEN q.id ELSE q.row.rev

\* A save writes its notification and is over.
Writes(w) ==
    /\ taskSaves[w].at \in {"created", "found"} /\ tasks[taskSaves[w].of] # Notices!NoTask
    /\ \E sent \in BOOLEAN :
           /\ Notices!Noticed(taskSaves[w], Target(w), sent)
           /\ sent => RevOf(w) \in settled'
    /\ settled \subseteq settled' /\ raced \subseteq raced'
    /\ \A p \in Pass, h \in Notices!Held :
           Holds(p, h) /\ Stored(Target(w)) /\ h.id = Target(w) => h.id \in raced'
    /\ taskSaves' = [taskSaves EXCEPT ![w] = Notices!Done]
    /\ UNCHANGED <<tasks, passes, pushes, revision, tasksCrossed, overlapped, senderDied>>

\* Notifications are deleted if any, saves go on to what they find, or end, and
\* the sender does not act.
Shrinks ==
    /\ \A n \in Notices!Notice : notices'[n] = notices[n] \/ notices'[n] = Notices!NoNotice
    /\ \A w \in Save :
           \/ taskSaves'[w] = taskSaves[w]
           \/ taskSaves'[w] = Notices!Done
           \/ /\ Pending(w) /\ taskSaves'[w].at = "found"
              /\ taskSaves'[w].row = taskSaves[w].row /\ taskSaves'[w].of = taskSaves[w].of
              /\ taskSaves'[w].id # None =>
                     /\ taskSaves'[w].id \in Notices!NoticesOf(taskSaves[w].of)
                     /\ notices' = notices
    /\ UNCHANGED <<passes, pushes, revision, settled, raced, overlapped, senderDied>>

\* A push is refused, or the browser is gone.
Fails(p, e) ==
    /\ Notices!Answered(p, e)
    /\ UNCHANGED <<tasks, notices, taskSaves, pushes, revision, tasksCrossed, settled, raced,
                   overlapped, senderDied>>

\* createTask writes the notification, unless the rule keeps it back.
LEMMA DispatchWrites ==
    ASSUME Notices!TypeOK, RevisionIsOwn, NEW w \in Save, Notices!Dispatch(w), ~UNCHANGED notices
    PROVE  Writes(w)
<1> USE DEF Notices!TypeOK, Notices!SenderUnchanged
<1>1. Pending(w) /\ Target(w) = RevOf(w) /\ taskSaves[w].at = "created"
  BY DEF Notices!Dispatch, Pending, Target, RevOf
<1>2. ~Stored(RevOf(w))
  BY <1>1 DEF RevisionIsOwn
<1>3. tasks[taskSaves[w].of] # Notices!NoTask /\ Notices!Noticed(taskSaves[w], RevOf(w), FALSE)
  BY DEF Notices!Dispatch, RevOf
<1>4. QED
  BY <1>1, <1>2, <1>3 DEF Notices!Dispatch, Writes

\* syncTaskNotification writes the notification it found, or a new one.
LEMMA UpsertWrites ==
    ASSUME Notices!TypeOK, RevisionIsOwn, NEW w \in Save, Notices!UpsertNotice(w)
    PROVE  Writes(w)
<1> DEFINE q == taskSaves[w]
           exists == q.id # None /\ notices[q.id] # Notices!NoNotice
<1> USE DEF Notices!TypeOK, Notices!SenderUnchanged
<1>1. q \in Notices!Found /\ q.at = "found" /\ q.row.isDone \in BOOLEAN
  BY DEF Notices!UpsertNotice, Notices!Found, Notices!Saving, Notices!TaskRow, Notices!Idle, Notices!Done
<1>2. Target(w) = IF exists THEN q.id ELSE q.row.rev
  BY <1>1 DEF Target, Stored
<1>3. Notices!Noticed(q, Target(w), q.row.isDone)
  BY <1>2 DEF Notices!UpsertNotice
<1>4. q.row.isDone => RevOf(w) \in settled'
  BY DEF Notices!UpsertNotice, RevOf
<1>5. ASSUME NEW p \in Pass, NEW h \in Notices!Held,
             Holds(p, h), Stored(Target(w)), h.id = Target(w)
      PROVE  h.id \in raced'
  <2>1. exists
    BY <1>1, <1>2, <1>5 DEF RevisionIsOwn, Pending, RevOf
  <2>2. p \in Notices!Holding(q.id)
    BY <1>2, <1>5, <2>1 DEF Holds, Notices!Holding
  <2>3. QED
    BY <1>2, <1>5, <2>1, <2>2 DEF Notices!UpsertNotice
<1>6. settled \subseteq settled' /\ raced \subseteq raced'
  BY DEF Notices!UpsertNotice
<1>7. QED
  BY <1>1, <1>3, <1>4, <1>5, <1>6 DEF Notices!UpsertNotice, Writes

\* Every step is one of these.
LEMMA NoticesStep ==
    ASSUME Notices!TypeOK, RevisionIsOwn, [Notices!Next]_(Notices!vars)
    PROVE  \/ \E w \in Save, t \in Task, dueDate, isDone \in BOOLEAN :
                  Notices!WriteTask(w, t, dueDate, isDone)
           \/ \E w \in Save : Writes(w)
           \/ Shrinks
           \/ \E p \in Pass :
                  \/ Notices!TakeBatch(p) \/ Notices!MarkSent(p)
                  \/ \E h \in Notices!Held : Notices!StartSending(p, h)
                  \/ \E e \in Endpoint : Notices!Deliver(p, e) \/ Fails(p, e)
           \/ Notices!AllDie
<1> DEFINE Goal ==
           \/ \E w \in Save, t \in Task, dueDate, isDone \in BOOLEAN :
                  Notices!WriteTask(w, t, dueDate, isDone)
           \/ \E w \in Save : Writes(w)
           \/ Shrinks
           \/ \E p \in Pass :
                  \/ Notices!TakeBatch(p) \/ Notices!MarkSent(p)
                  \/ \E h \in Notices!Held : Notices!StartSending(p, h)
                  \/ \E e \in Endpoint : Notices!Deliver(p, e) \/ Fails(p, e)
           \/ Notices!AllDie
<1> USE DEF Notices!TypeOK, Notices!SenderUnchanged
<1>1. ASSUME NEW w \in Save, Notices!Dispatch(w) PROVE Writes(w) \/ Shrinks
  <2>1. CASE UNCHANGED notices
    BY <1>1, <2>1 DEF Notices!Dispatch, Shrinks
  <2>2. QED
    BY <1>1, <2>1, DispatchWrites
<1>2. ASSUME NEW w \in Save, Notices!DeleteNotices(w) PROVE Shrinks
  BY <1>2 DEF Notices!DeleteNotices, Shrinks
<1>3. ASSUME NEW w \in Save, Notices!FindNotice(w) PROVE Shrinks
  BY <1>3 DEF Notices!FindNotice, Shrinks, Pending
<1>4. ASSUME NEW w \in Save, Notices!UpsertNotice(w) PROVE Writes(w)
  BY <1>4, UpsertWrites
<1>5. ASSUME NEW w \in Save, Notices!SaveFails(w) PROVE Shrinks
  BY <1>5 DEF Notices!SaveFails, Shrinks
<1>6. ASSUME NEW t \in Task, Notices!RemoveTask(t) PROVE Shrinks
  BY <1>6 DEF Notices!RemoveTask, Shrinks
<1> USE DEF Notices!SavesUnchanged
<1>7. ASSUME NEW r \in Notices!Revision, Notices!TimePasses(r) PROVE Shrinks
  BY <1>7 DEF Notices!TimePasses, Shrinks
<1>8. ASSUME NEW e \in Endpoint, Notices!Subscribe(e) PROVE Shrinks
  BY <1>8 DEF Notices!Subscribe, Shrinks
<1>9. ASSUME NEW p \in Pass, NEW e \in Endpoint, Notices!Refuse(p, e) \/ Notices!Expire(p, e)
      PROVE  Fails(p, e)
  BY <1>9 DEF Notices!Refuse, Notices!Expire, Fails
<1>10. ASSUME UNCHANGED Notices!vars PROVE Shrinks
  BY <1>10 DEF Notices!vars, Shrinks
<1>11. Notices!Next => Goal
  BY <1>1, <1>2, <1>3, <1>4, <1>5, <1>6, <1>7, <1>8, <1>9
     DEF Notices!Next, Notices!Throw, Notices!Crash
<1>12. QED
  BY <1>10, <1>11

\* What is held is a notification in a revision.
LEMMA HeldType ==
    ASSUME Notices!TypeOK, NEW p \in Pass, NEW h, Holds(p, h)
    PROVE  h \in Notices!Held
BY DEF Notices!TypeOK, Holds, Notices!Batch, Notices!Sending, Notices!Idle, Notices!Done

\* A save under way has a task, a row and a revision.
LEMMA PendingType ==
    ASSUME Notices!TypeOK, NEW w \in Save, Pending(w)
    PROVE  /\ taskSaves[w] \in Notices!Saving \/ taskSaves[w] \in Notices!Found
           /\ taskSaves[w].of \in Task /\ taskSaves[w].row \in Notices!TaskRow
           /\ RevOf(w) \in Notices!Notice
           /\ taskSaves[w].at \in {"created", "updated", "found"}
           /\ taskSaves[w].at = "found" => taskSaves[w].id \in Notices!Notice \cup {None}
BY DEF Notices!TypeOK, Pending, RevOf, Notices!Saving, Notices!Found, Notices!TaskRow,
       Notices!Idle, Notices!Done, Notices!Notice

\* Where the sender goes on, it holds nothing it did not hold.
LEMMA SenderDrops ==
    ASSUME Notices!TypeOK,
           \/ \E p \in Pass :
                  \/ Notices!MarkSent(p)
                  \/ \E h \in Notices!Held : Notices!StartSending(p, h)
                  \/ \E e \in Endpoint : Notices!Deliver(p, e) \/ Fails(p, e)
           \/ Notices!AllDie
    PROVE  \A o \in Pass : \A k : Holds(o, k)' => Holds(o, k)
<1> USE DEF Notices!TypeOK, Holds
<1>1. ASSUME NEW p \in Pass, Notices!MarkSent(p) PROVE \A o \in Pass : \A k : Holds(o, k)' => Holds(o, k)
  BY <1>1 DEF Notices!MarkSent, Notices!Done
<1>2. ASSUME NEW p \in Pass, NEW h \in Notices!Held, Notices!StartSending(p, h)
      PROVE  \A o \in Pass : \A k : Holds(o, k)' => Holds(o, k)
  BY <1>2 DEF Notices!StartSending
<1>3. ASSUME NEW p \in Pass, NEW e \in Endpoint, Notices!Answered(p, e)
      PROVE  \A o \in Pass : \A k : Holds(o, k)' => Holds(o, k)
  <2>1. passes[p] \in Notices!Sending
    BY <1>3 DEF Notices!Answered, Notices!Batch, Notices!Idle, Notices!Done
  <2>2. QED
    BY <1>3, <2>1 DEF Notices!Answered, Notices!Sending
<1>4. ASSUME Notices!AllDie PROVE \A o \in Pass : \A k : Holds(o, k)' => Holds(o, k)
  BY <1>4 DEF Notices!AllDie, Notices!Idle, Notices!Done
<1>5. QED
  BY <1>1, <1>2, <1>3, <1>4 DEF Notices!Deliver, Fails

\* Revisions stay their own.
LEMMA RevisionsStay ==
    ASSUME RevisionInv, [Notices!Next]_(Notices!vars)
    PROVE  RevisionInv'
<1> DEFINE Goal == RevisionsArePast' /\ RevisionIsOwn' /\ RevisionHasOneNotice' /\ FoundIsOfTask'
<1> USE PlatformBoundAssumption DEF RevisionInv
<1>0. Notices!TypeOK'
  BY NoticesType
<1>t. /\ revision \in Nat
      /\ \A n \in Notices!Notice : n \in Nat
      /\ \A n \in Notices!Notice : Stored(n) => notices[n] \in Notices!NoticeRow /\ notices[n].rev \in Nat
      /\ \A h \in Notices!Held : h.id \in Notices!Notice /\ h.rev \in Nat
      /\ \A x \in pushes : x.rev \in Nat
  BY DEF Notices!TypeOK, Notices!Notice, Notices!Revision, Notices!NoticeRow, Notices!Held, Stored
<1>1. ASSUME Shrinks PROVE Goal
  <2>1. ASSUME NEW n \in Notices!Notice, Stored(n)' PROVE Stored(n) /\ notices'[n] = notices[n]
    BY <1>1, <2>1 DEF Shrinks, Stored
  <2>2. ASSUME NEW w \in Save, Pending(w)' PROVE Pending(w) /\ RevOf(w)' = RevOf(w)
    BY <1>1, <2>2 DEF Shrinks, Pending, RevOf, Notices!Done
  <2>3. \A p \in Pass : \A h : Holds(p, h)' <=> Holds(p, h)
    BY <1>1 DEF Shrinks, Holds
  <2>4. ASSUME NEW w \in Save, taskSaves'[w].at = "found"
        PROVE  \/ taskSaves'[w] = taskSaves[w]
               \/ /\ taskSaves'[w].of = taskSaves[w].of /\ Pending(w)
                  /\ taskSaves'[w].id # None =>
                         /\ taskSaves'[w].id \in Notices!NoticesOf(taskSaves[w].of)
                         /\ notices' = notices
    BY <1>1, <2>4 DEF Shrinks, Notices!Done
  <2>5. UNCHANGED <<revision, pushes>>
    BY <1>1 DEF Shrinks
  <2>6. ASSUME NEW w \in Save, taskSaves'[w].at = "found", taskSaves'[w].id # None,
               taskSaves'[w] # taskSaves[w]
        PROVE  /\ taskSaves'[w].id \in Notices!Notice
               /\ Stored(taskSaves'[w].id)
               /\ notices' = notices
               /\ notices[taskSaves'[w].id].taskId = taskSaves'[w].of
    BY <2>4, <2>6 DEF Notices!NoticesOf, Stored
  <2>7. RevisionsArePast'
    BY <2>1, <2>2, <2>3, <2>5, <2>6, <1>t DEF RevisionsArePast
  <2>8. RevisionIsOwn'
    <3>1. ASSUME NEW w \in Save, Pending(w)', NEW r, r = RevOf(w)
          PROVE  /\ \A v \in Save : Pending(v)' /\ RevOf(v)' = r => v = w
                 /\ \A v \in Save : taskSaves'[v].at = "found" => taskSaves'[v].id # r
                 /\ ~Stored(r)'
                 /\ \A n \in Notices!Notice : Stored(n)' => notices'[n].rev # r
                 /\ \A p \in Pass, h \in Notices!Held : Holds(p, h)' => h.id # r /\ h.rev # r
                 /\ \A x \in pushes' : x.rev # r
      <4>1. Pending(w) /\ r \in Notices!Notice /\ ~Stored(r)
        BY <2>2, <3>1, PendingType DEF RevisionIsOwn
      <4>2. ASSUME NEW v \in Save, taskSaves'[v].at = "found" PROVE taskSaves'[v].id # r
        <5>1. CASE taskSaves'[v] = taskSaves[v]
          BY <3>1, <4>1, <4>2, <5>1 DEF RevisionIsOwn
        <5>2. CASE taskSaves'[v] # taskSaves[v]
          <6>1. r # None
            BY <4>1, <1>t, NothingAssumption
          <6>2. QED
            BY <2>6, <4>1, <4>2, <5>2, <6>1
        <5>3. QED
          BY <5>1, <5>2
      <4>3. QED
        BY <2>1, <2>2, <2>3, <2>5, <3>1, <4>1, <4>2 DEF RevisionIsOwn
    <3>2. ASSUME NEW w \in Save, Pending(w)'
          PROVE  ~Stored(RevOf(w))' /\ RevOf(w)' = RevOf(w)
      BY <2>2, <3>1, <3>2 DEF Stored
    <3>3. QED
      BY <3>1, <3>2 DEF RevisionIsOwn
  <2>9. RevisionHasOneNotice'
    BY <2>1, <2>3 DEF RevisionHasOneNotice
  <2>10. FoundIsOfTask'
    <3>1. ASSUME NEW w \in Save, taskSaves'[w].at = "found", taskSaves'[w].id # None,
                 NEW i, i = taskSaves'[w].id, Stored(i)'
          PROVE  notices'[i].taskId = taskSaves'[w].of
      <4>1. CASE taskSaves'[w] # taskSaves[w]
        BY <2>6, <3>1, <4>1
      <4>2. CASE taskSaves'[w] = taskSaves[w]
        <5>1. i \in Notices!Notice
          BY <3>1, <4>2, PendingType DEF Pending
        <5>2. Stored(i) /\ notices'[i] = notices[i]
          BY <2>1, <3>1, <5>1
        <5>3. QED
          BY <3>1, <4>2, <5>2 DEF FoundIsOfTask
      <4>3. QED
        BY <4>1, <4>2
    <3>2. QED
      BY <3>1 DEF FoundIsOfTask, Stored
  <2>11. QED
    BY <2>7, <2>8, <2>9, <2>10
<1>2. ASSUME NEW w \in Save, Writes(w), NEW n, n = Target(w), NEW r, r = RevOf(w) PROVE Goal
  <2>1. /\ n \in Notices!Notice /\ r \in Notices!Notice /\ r # 0
        /\ Pending(w) /\ taskSaves[w].of \in Task /\ taskSaves[w].at \in {"created", "found"}
    <3>1. Pending(w) /\ taskSaves[w].at \in {"created", "found"}
      BY <1>2 DEF Writes, Pending
    <3>2. QED
      BY <1>2, <3>1, PendingType DEF Target, RevOf, Notices!Notice, Notices!Revision
  <2>2. /\ Stored(n)' /\ notices'[n].rev = r /\ notices'[n].taskId = taskSaves[w].of
        /\ \A m \in Notices!Notice : m # n => notices'[m] = notices[m]
    BY <1>2, <2>1 DEF Writes, Notices!Noticed, RevOf, Stored, Notices!NoNotice, Notices!TypeOK
  <2>3. \/ n = r
        \/ taskSaves[w].at = "found" /\ n = taskSaves[w].id /\ n # None /\ Stored(n)
    BY <1>2, <2>1 DEF Target, RevOf
  <2>4. ASSUME NEW v \in Save, Pending(v)'
        PROVE  /\ v # w /\ Pending(v) /\ taskSaves'[v] = taskSaves[v]
               /\ RevOf(v)' = RevOf(v) /\ RevOf(v) # r /\ RevOf(v) # n
    <3>1. v # w /\ Pending(v) /\ taskSaves'[v] = taskSaves[v] /\ RevOf(v)' = RevOf(v)
      BY <1>2, <2>4 DEF Writes, Pending, RevOf, Notices!Done, Notices!TypeOK
    <3>2. QED
      BY <1>2, <2>1, <2>3, <3>1 DEF RevisionIsOwn
  <2>5. \A p \in Pass : \A h : Holds(p, h)' <=> Holds(p, h)
    BY <1>2 DEF Writes, Holds
  <2>6. UNCHANGED <<revision, pushes>>
    BY <1>2 DEF Writes
  <2>7. /\ ~Stored(r)
        /\ \A m \in Notices!Notice : Stored(m) => notices[m].rev # r
        /\ \A p \in Pass, h \in Notices!Held : Holds(p, h) => h.id # r /\ h.rev # r
        /\ \A x \in pushes : x.rev # r
        /\ \A v \in Save : taskSaves[v].at = "found" => taskSaves[v].id # r
        /\ r <= revision
    BY <1>2, <2>1 DEF RevisionIsOwn, RevisionsArePast
  <2>8. n <= revision
    BY <2>1, <2>3, <2>7 DEF RevisionsArePast
  <2>9. ASSUME NEW m \in Notices!Notice, Stored(m)', m # n
        PROVE  Stored(m) /\ notices'[m] = notices[m]
    BY <2>2, <2>9 DEF Stored
  <2>10. ASSUME NEW v \in Save, taskSaves'[v].at = "found"
         PROVE  v # w /\ taskSaves'[v] = taskSaves[v] /\ taskSaves[v].at = "found"
    <3>1. Pending(v)'
      BY <2>10 DEF Pending
    <3>2. QED
      BY <2>4, <2>10, <3>1
  <2>11. RevisionsArePast'
    BY <2>2, <2>4, <2>5, <2>6, <2>7, <2>8, <2>9, <2>10, <1>t DEF RevisionsArePast
  <2>12. RevisionIsOwn'
    <3>1. ASSUME NEW v \in Save, Pending(v)'
          PROVE  /\ ~Stored(RevOf(v))'
                 /\ \A m \in Notices!Notice : Stored(m)' => notices'[m].rev # RevOf(v)'
      <4>1. RevOf(v) \in Notices!Notice
        BY <2>4, <3>1, PendingType
      <4>2. ~Stored(RevOf(v))'
        BY <2>2, <2>4, <3>1, <4>1 DEF RevisionIsOwn, Stored
      <4>3. ASSUME NEW m \in Notices!Notice, Stored(m)' PROVE notices'[m].rev # RevOf(v)
        BY <2>2, <2>4, <2>9, <3>1, <4>3 DEF RevisionIsOwn
      <4>4. QED
        BY <2>4, <3>1, <4>2, <4>3
    <3>2. ASSUME NEW v \in Save, Pending(v)'
          PROVE  /\ \A u \in Save : Pending(u)' /\ RevOf(u)' = RevOf(v)' => u = v
                 /\ \A u \in Save : taskSaves'[u].at = "found" => taskSaves'[u].id # RevOf(v)'
                 /\ \A p \in Pass, h \in Notices!Held :
                        Holds(p, h)' => h.id # RevOf(v)' /\ h.rev # RevOf(v)'
                 /\ \A x \in pushes' : x.rev # RevOf(v)'
      BY <2>4, <2>5, <2>6, <2>10, <3>2 DEF RevisionIsOwn
    <3>3. QED
      BY <3>1, <3>2 DEF RevisionIsOwn
  <2>13. RevisionHasOneNotice'
    <3>1. \A m, k \in Notices!Notice : Stored(m)' /\ Stored(k)' /\ notices'[m].rev = notices'[k].rev => m = k
      BY <2>2, <2>7, <2>9 DEF RevisionHasOneNotice
    <3>2. \A p \in Pass, h \in Notices!Held, m \in Notices!Notice :
              Holds(p, h)' /\ Stored(m)' /\ notices'[m].rev = h.rev => m = h.id
      BY <2>2, <2>5, <2>7, <2>9 DEF RevisionHasOneNotice
    <3>3. QED
      BY <2>5, <3>1, <3>2 DEF RevisionHasOneNotice
  <2>14. FoundIsOfTask'
    <3>1. ASSUME NEW v \in Save, taskSaves'[v].at = "found", taskSaves'[v].id # None,
                 NEW i, i = taskSaves[v].id, Stored(i)'
          PROVE  notices'[i].taskId = taskSaves'[v].of
      <4>1. i \in Notices!Notice /\ i # r /\ taskSaves'[v] = taskSaves[v] /\ taskSaves[v].at = "found"
        BY <2>7, <2>10, <3>1, PendingType DEF Pending
      <4>2. CASE i = n
        <5>1. taskSaves[w].at = "found" /\ n = taskSaves[w].id /\ n # None /\ Stored(n)
          BY <2>3, <4>1, <4>2
        <5>2. notices[n].taskId = taskSaves[w].of /\ notices[n].taskId = taskSaves[v].of
          BY <3>1, <4>1, <4>2, <5>1 DEF FoundIsOfTask
        <5>3. QED
          BY <2>2, <4>1, <4>2, <5>2
      <4>3. CASE i # n
        BY <2>9, <3>1, <4>1, <4>3 DEF FoundIsOfTask
      <4>4. QED
        BY <4>2, <4>3
    <3>2. QED
      BY <2>10, <3>1 DEF FoundIsOfTask, Stored
  <2>15. QED
    BY <2>11, <2>12, <2>13, <2>14
<1>3. ASSUME NEW w \in Save, NEW t \in Task, NEW dueDate \in BOOLEAN, NEW isDone \in BOOLEAN,
             Notices!WriteTask(w, t, dueDate, isDone)
      PROVE  Goal
  <2>1. /\ revision' = revision + 1
        /\ UNCHANGED <<notices, passes, pushes>>
        /\ Pending(w)' => RevOf(w)' = revision + 1
        /\ taskSaves'[w].at # "found"
        /\ \A v \in Save : v # w => taskSaves'[v] = taskSaves[v]
    BY <1>3 DEF Notices!WriteTask, Notices!SenderUnchanged, Pending, RevOf, Notices!TypeOK, Notices!Done
  <2>2. ASSUME NEW v \in Save, v # w
        PROVE  (Pending(v)' <=> Pending(v)) /\ RevOf(v)' = RevOf(v)
    BY <2>1, <2>2 DEF Pending, RevOf
  <2>3. \A m : (Stored(m)' <=> Stored(m)) /\ notices'[m] = notices[m]
    BY <2>1 DEF Stored
  <2>4. \A p \in Pass : \A h : Holds(p, h)' <=> Holds(p, h)
    BY <2>1 DEF Holds
  <2>5. ASSUME NEW v \in Save, Pending(v)
        PROVE  /\ RevOf(v) \in Nat /\ RevOf(v) \in Notices!Notice
               /\ taskSaves[v].at = "found" /\ taskSaves[v].id # None => taskSaves[v].id \in Nat
    BY <2>5, PendingType, <1>t
  <2>6. ASSUME NEW v \in Save, taskSaves'[v].at = "found"
        PROVE  /\ v # w /\ taskSaves'[v] = taskSaves[v] /\ Pending(v)
               /\ taskSaves[v].at = "found"
               /\ taskSaves[v].id # None => taskSaves[v].id \in Nat
    BY <2>1, <2>5, <2>6 DEF Pending
  <2>7. RevisionsArePast'
    BY <2>1, <2>2, <2>3, <2>4, <2>5, <2>6, <1>t DEF RevisionsArePast
  <2>8. RevisionIsOwn'
    <3>1. ASSUME Pending(w)'
          PROVE  /\ \A v \in Save : Pending(v)' /\ RevOf(v)' = RevOf(w)' => v = w
                 /\ \A v \in Save : taskSaves'[v].at = "found" => taskSaves'[v].id # RevOf(w)'
                 /\ ~Stored(RevOf(w))'
                 /\ \A n \in Notices!Notice : Stored(n)' => notices'[n].rev # RevOf(w)'
                 /\ \A p \in Pass, h \in Notices!Held :
                        Holds(p, h)' => h.id # RevOf(w)' /\ h.rev # RevOf(w)'
                 /\ \A x \in pushes' : x.rev # RevOf(w)'
      <4>1. \A v \in Save : Pending(v)' /\ RevOf(v)' = RevOf(w)' => v = w
        BY <2>1, <2>2, <2>5, <3>1, <1>t DEF RevisionsArePast
      <4>2. \A v \in Save : taskSaves'[v].at = "found" => taskSaves'[v].id # RevOf(w)'
        <5>1. revision + 1 # None
          BY NothingAssumption, <1>t
        <5>2. QED
          BY <2>1, <2>6, <3>1, <5>1, <1>t DEF RevisionsArePast
      <4>3. RevOf(w)' \in Notices!Notice
        BY <1>0, <3>1 DEF Notices!TypeOK, Pending, RevOf, Notices!Saving, Notices!Found, Notices!TaskRow,
                          Notices!Idle, Notices!Done, Notices!Notice
      <4>4. ~Stored(RevOf(w))'
        BY <2>1, <2>3, <3>1, <4>3, <1>t DEF RevisionsArePast, Stored
      <4>5. QED
        BY <2>1, <2>3, <2>4, <3>1, <4>1, <4>2, <4>4, <1>t DEF RevisionsArePast
    <3>2. ASSUME NEW v \in Save, Pending(v)', v # w
          PROVE  /\ \A u \in Save : Pending(u)' /\ RevOf(u)' = RevOf(v)' => u = v
                 /\ \A u \in Save : taskSaves'[u].at = "found" => taskSaves'[u].id # RevOf(v)'
                 /\ ~Stored(RevOf(v))'
                 /\ \A n \in Notices!Notice : Stored(n)' => notices'[n].rev # RevOf(v)'
                 /\ \A p \in Pass, h \in Notices!Held :
                        Holds(p, h)' => h.id # RevOf(v)' /\ h.rev # RevOf(v)'
                 /\ \A x \in pushes' : x.rev # RevOf(v)'
      <4>1. Pending(v) /\ RevOf(v)' = RevOf(v) /\ RevOf(v) <= revision /\ RevOf(v) \in Nat
        BY <2>2, <2>5, <3>2 DEF RevisionsArePast
      <4>2. \A u \in Save : Pending(u)' /\ RevOf(u)' = RevOf(v)' => u = v
        <5>1. \A u \in Save : Pending(u)' /\ RevOf(u)' = RevOf(v) => u # w
          BY <2>1, <4>1, <1>t
        <5>2. QED
          BY <2>2, <4>1, <5>1 DEF RevisionIsOwn
      <4>3. ~Stored(RevOf(v))'
        BY <2>1, <4>1 DEF RevisionIsOwn, Stored
      <4>4. QED
        BY <2>1, <2>3, <2>4, <2>6, <4>1, <4>2, <4>3 DEF RevisionIsOwn
    <3>3. QED
      BY <3>1, <3>2 DEF RevisionIsOwn
  <2>9. RevisionHasOneNotice'
    BY <2>3, <2>4 DEF RevisionHasOneNotice
  <2>10. FoundIsOfTask'
    BY <2>1, <2>6 DEF FoundIsOfTask, Stored
  <2>11. QED
    BY <2>7, <2>8, <2>9, <2>10
<1>s. ASSUME UNCHANGED revision,
             \A n \in Notices!Notice : /\ Stored(n)' <=> Stored(n)
                                       /\ notices'[n].rev = notices[n].rev
                                       /\ notices'[n].taskId = notices[n].taskId,
             \A w \in Save : Pending(w)' => Pending(w) /\ taskSaves'[w] = taskSaves[w],
             \A p \in Pass, h \in Notices!Held :
                 Holds(p, h)' => Holds(p, h) \/ (Stored(h.id) /\ notices[h.id].rev = h.rev),
             \A x \in pushes' : x \in pushes
                                \/ \E p \in Pass, h \in Notices!Held : Holds(p, h) /\ x.rev = h.rev
      PROVE  Goal
  <2>1. ASSUME NEW w \in Save, Pending(w)'
        PROVE  Pending(w) /\ RevOf(w)' = RevOf(w) /\ RevOf(w) \in Notices!Notice
    BY <1>s, <2>1, PendingType DEF RevOf
  <2>2. ASSUME NEW w \in Save, taskSaves'[w].at = "found"
        PROVE  taskSaves'[w] = taskSaves[w] /\ taskSaves[w].at = "found" /\ Pending(w)
    <3>1. Pending(w)'
      BY <2>2 DEF Pending
    <3>2. QED
      BY <1>s, <2>2, <3>1
  <2>3. RevisionsArePast'
    BY <1>s, <2>1, <2>2, <1>t DEF RevisionsArePast
  <2>4. RevisionIsOwn'
    <3>1. ASSUME NEW w \in Save, Pending(w)'
          PROVE  /\ \A v \in Save : Pending(v)' /\ RevOf(v)' = RevOf(w)' => v = w
                 /\ \A v \in Save : taskSaves'[v].at = "found" => taskSaves'[v].id # RevOf(w)'
      BY <2>1, <2>2, <3>1 DEF RevisionIsOwn
    <3>2. ASSUME NEW w \in Save, Pending(w)', NEW r, r = RevOf(w)
          PROVE  /\ ~Stored(r)'
                 /\ \A n \in Notices!Notice : Stored(n)' => notices'[n].rev # r
                 /\ \A p \in Pass, h \in Notices!Held : Holds(p, h)' => h.id # r /\ h.rev # r
                 /\ \A x \in pushes' : x.rev # r
      BY <1>s, <2>1, <3>2, <1>t DEF RevisionIsOwn
    <3>3. ASSUME NEW w \in Save, Pending(w)'
          PROVE  ~Stored(RevOf(w))'
      BY <2>1, <3>2, <3>3 DEF Stored
    <3>4. QED
      BY <2>1, <3>1, <3>2, <3>3 DEF RevisionIsOwn
  <2>5. RevisionHasOneNotice'
    <3>1. \A n, m \in Notices!Notice : Stored(n)' /\ Stored(m)' /\ notices'[n].rev = notices'[m].rev => n = m
      BY <1>s DEF RevisionHasOneNotice
    <3>2. \A p \in Pass, h \in Notices!Held, n \in Notices!Notice :
              Holds(p, h)' /\ Stored(n)' /\ notices'[n].rev = h.rev => n = h.id
      BY <1>s, <1>t DEF RevisionHasOneNotice
    <3>3. \A p, o \in Pass, h, k \in Notices!Held :
              Holds(p, h)' /\ Holds(o, k)' /\ h.rev = k.rev => h.id = k.id
      BY <1>s, <1>t DEF RevisionHasOneNotice
    <3>4. QED
      BY <3>1, <3>2, <3>3 DEF RevisionHasOneNotice
  <2>6. FoundIsOfTask'
    <3>1. ASSUME NEW w \in Save, taskSaves'[w].at = "found", taskSaves'[w].id # None,
                 NEW i, i = taskSaves[w].id, Stored(i)'
          PROVE  notices'[i].taskId = taskSaves'[w].of
      <4>1. i \in Notices!Notice
        BY <2>2, <3>1, PendingType
      <4>2. QED
        BY <1>s, <2>2, <3>1, <4>1 DEF FoundIsOfTask
    <3>2. QED
      BY <2>2, <3>1 DEF FoundIsOfTask, Stored
  <2>7. QED
    BY <2>3, <2>4, <2>5, <2>6
<1>4. ASSUME NEW p \in Pass, Notices!TakeBatch(p) PROVE Goal
  <2>1. UNCHANGED <<revision, notices, taskSaves, pushes>>
    BY <1>4 DEF Notices!TakeBatch, Notices!SavesUnchanged
  <2>2. ASSUME NEW o \in Pass, NEW h \in Notices!Held, Holds(o, h)'
        PROVE  Holds(o, h) \/ (Stored(h.id) /\ notices[h.id].rev = h.rev)
    <3>1. CASE o # p
      <4>1. passes'[o] = passes[o]
        BY <1>4, <3>1 DEF Notices!TakeBatch, Notices!TypeOK
      <4>2. QED
        BY <2>2, <4>1 DEF Holds
    <3>2. CASE o = p
      <4>1. h \in Notices!Ready
        BY <1>4, <2>2, <3>2 DEF Notices!TakeBatch, Holds, Notices!TypeOK, Notices!Done
      <4>2. QED
        BY <4>1 DEF Notices!Ready, Stored
    <3>3. QED
      BY <3>1, <3>2
  <2>3. QED
    BY <1>s, <2>1, <2>2 DEF Stored, Pending
<1>5. ASSUME NEW p \in Pass, Notices!MarkSent(p) PROVE Goal
  <2>1. UNCHANGED <<revision, taskSaves, pushes>>
    BY <1>5 DEF Notices!MarkSent, Notices!SavesUnchanged
  <2>2. ASSUME NEW n \in Notices!Notice
        PROVE  /\ Stored(n)' <=> Stored(n)
               /\ notices'[n].rev = notices[n].rev
               /\ notices'[n].taskId = notices[n].taskId
    <3>1. CASE n = passes[p].now.id
      <4>1. notices[n] \in Notices!NoticeRow /\ notices'[n] = [notices[n] EXCEPT !.sentAt = TRUE]
        BY <1>5, <3>1 DEF Notices!MarkSent, Notices!TypeOK
      <4>2. notices[n].rev # 0
        BY <4>1 DEF Notices!NoticeRow, Notices!Revision
      <4>3. QED
        BY <4>1, <4>2 DEF Stored, Notices!NoticeRow, Notices!NoNotice
    <3>2. CASE n # passes[p].now.id
      BY <1>5, <3>2 DEF Notices!MarkSent, Notices!TypeOK, Stored
    <3>3. QED
      BY <3>1, <3>2
  <2>3. \A o \in Pass : \A h : Holds(o, h)' => Holds(o, h)
    BY <1>5, SenderDrops
  <2>4. QED
    BY <1>s, <2>1, <2>2, <2>3 DEF Pending
<1>6. ASSUME NEW p \in Pass, NEW h \in Notices!Held, Notices!StartSending(p, h) PROVE Goal
  <2>1. UNCHANGED <<revision, notices, taskSaves, pushes>>
    BY <1>6 DEF Notices!StartSending, Notices!SavesUnchanged
  <2>2. \A o \in Pass : \A k : Holds(o, k)' => Holds(o, k)
    BY <1>6, SenderDrops
  <2>3. QED
    BY <1>s, <2>1, <2>2 DEF Stored, Pending
<1>7. ASSUME NEW p \in Pass, NEW e \in Endpoint, Notices!Deliver(p, e) \/ Fails(p, e) PROVE Goal
  <2>1. UNCHANGED <<revision, notices, taskSaves>>
    BY <1>7 DEF Notices!Deliver, Fails, Notices!SavesUnchanged
  <2>2. \A o \in Pass : \A k : Holds(o, k)' => Holds(o, k)
    BY <1>7, SenderDrops
  <2>3. Holds(p, passes[p].now) /\ passes[p].now \in Notices!Held
    <3>1. Holds(p, passes[p].now)
      BY <1>7 DEF Notices!Deliver, Fails, Notices!Answered, Holds
    <3>2. QED
      BY <3>1, HeldType
  <2>4. \A x \in pushes' : x \in pushes \/ x.rev = passes[p].now.rev
    BY <1>7 DEF Notices!Deliver, Fails
  <2>5. QED
    BY <1>s, <2>1, <2>2, <2>3, <2>4 DEF Stored, Pending
<1>8. ASSUME Notices!AllDie PROVE Goal
  <2>1. UNCHANGED <<revision, notices, pushes>>
    BY <1>8 DEF Notices!AllDie
  <2>2. \A o \in Pass : \A k : Holds(o, k)' => Holds(o, k)
    BY <1>8, SenderDrops
  <2>3. \A w \in Save : ~Pending(w)'
    BY <1>8 DEF Notices!AllDie, Pending, Notices!Idle, Notices!Done
  <2>4. QED
    BY <1>s, <2>1, <2>2, <2>3 DEF Stored
<1>9. \A w \in Save : Writes(w) => Goal
  BY <1>2
<1>10. QED
  BY <1>0, <1>1, <1>3, <1>4, <1>5, <1>6, <1>7, <1>8, <1>9, NoticesStep

\* What a save that writes does to the table, r being its revision and n the
\* notification it writes.
LEMMA WritesNotice ==
    ASSUME RevisionInv, NEW w \in Save, Writes(w), NEW n, n = Target(w), NEW r, r = RevOf(w)
    PROVE  /\ n \in Notices!Notice /\ r \in Notices!Notice /\ r # 0
           /\ Pending(w) /\ taskSaves[w].of \in Task /\ taskSaves[w].at \in {"created", "found"}
           /\ Stored(n)' /\ notices'[n].rev = r /\ notices'[n].taskId = taskSaves[w].of
           /\ notices'[n].sentAt => r \in settled'
           /\ \A m \in Notices!Notice : m # n => notices'[m] = notices[m]
           /\ \/ n = r /\ ~Stored(r)
              \/ taskSaves[w].at = "found" /\ n = taskSaves[w].id /\ n # None /\ Stored(n)
<1> USE DEF RevisionInv
<1>1. Pending(w) /\ taskSaves[w].at \in {"created", "found"}
  BY DEF Writes, Pending
<1>2. /\ n \in Notices!Notice /\ r \in Notices!Notice /\ r # 0 /\ taskSaves[w].of \in Task
  BY <1>1, PendingType DEF Target, RevOf, Notices!Notice, Notices!Revision
<1>3. /\ Stored(n)' /\ notices'[n].rev = r /\ notices'[n].taskId = taskSaves[w].of
      /\ notices'[n].sentAt => r \in settled'
      /\ \A m \in Notices!Notice : m # n => notices'[m] = notices[m]
  BY <1>2 DEF Writes, Notices!Noticed, RevOf, Stored, Notices!NoNotice, Notices!TypeOK
<1>4. ~Stored(r)
  BY <1>1 DEF RevisionIsOwn
<1>5. QED
  BY <1>1, <1>2, <1>3, <1>4 DEF Target, RevOf

\* Marking a notification as sent changes nothing else.
LEMMA MarksSent ==
    ASSUME RevisionInv, NEW p \in Pass, Notices!MarkSent(p), NEW k, k = passes[p].now
    PROVE  /\ k \in Notices!Held /\ Holds(p, k)
           /\ Stored(k.id) /\ Stored(k.id)' /\ notices'[k.id].sentAt
           /\ notices'[k.id].rev = notices[k.id].rev
           /\ notices'[k.id].taskId = notices[k.id].taskId
           /\ \A m \in Notices!Notice : m # k.id => notices'[m] = notices[m]
<1> USE DEF RevisionInv
<1>1. Holds(p, k)
  BY DEF Notices!MarkSent, Holds
<1>2. k \in Notices!Held /\ k.id \in Notices!Notice
  BY <1>1, HeldType DEF Notices!Held
<1>3. /\ notices[k.id] \in Notices!NoticeRow
      /\ notices'[k.id] = [notices[k.id] EXCEPT !.sentAt = TRUE]
      /\ \A m \in Notices!Notice : m # k.id => notices'[m] = notices[m]
  BY <1>2 DEF Notices!MarkSent, Notices!TypeOK
<1>4. notices[k.id].rev # 0
  BY <1>3 DEF Notices!NoticeRow, Notices!Revision
<1>5. QED
  BY <1>1, <1>2, <1>3, <1>4 DEF Stored, Notices!NoticeRow, Notices!NoNotice

\* The batch of an activation is what is ready; the others keep theirs.
LEMMA BatchIsReady ==
    ASSUME Notices!TypeOK, NEW p \in Pass, Notices!TakeBatch(p)
    PROVE  /\ \A o \in Pass : o # p => passes'[o] = passes[o]
           /\ passes'[p].at \in {"batch", "done"}
           /\ \A o \in Pass : \A h : Holds(o, h)' => Holds(o, h) \/ (o = p /\ h \in Notices!Ready)
           /\ \A h : ~Holds(p, h)
<1>1. /\ \A o \in Pass : o # p => passes'[o] = passes[o]
      /\ passes'[p] = IF Notices!Ready = {} THEN Notices!Done ELSE [at |-> "batch", left |-> Notices!Ready]
      /\ passes[p] = Notices!Idle
  BY DEF Notices!TakeBatch, Notices!TypeOK
<1>2. ASSUME NEW o \in Pass, NEW h, Holds(o, h)' PROVE Holds(o, h) \/ (o = p /\ h \in Notices!Ready)
  BY <1>1, <1>2 DEF Holds, Notices!Done
<1>3. QED
  BY <1>1, <1>2 DEF Holds, Notices!Done, Notices!Idle

\* What is held stays as it was read, and what is marked was settled.
LEMMA SettledStays ==
    ASSUME SettledInv, [Notices!Next]_(Notices!vars)
    PROVE  SettledInv'
<1> DEFINE Goal == HeldIsAsRead' /\ Notices!SentWasSettled'
<1> USE DEF SettledInv, RevisionInv
<1>0. RevisionInv'
  BY RevisionsStay
<1>t. /\ Notices!TypeOK /\ Notices!TypeOK'
      /\ \A h \in Notices!Held : h.id \in Notices!Notice
  BY <1>0 DEF Notices!Held
<1>1. ASSUME Shrinks PROVE Goal
  <2>1. ASSUME NEW n \in Notices!Notice, Stored(n)' PROVE Stored(n) /\ notices'[n] = notices[n]
    BY <1>1, <2>1 DEF Shrinks, Stored
  <2>2. \A p \in Pass : \A h : Holds(p, h)' <=> Holds(p, h)
    BY <1>1 DEF Shrinks, Holds
  <2>3. UNCHANGED <<passes, settled, raced>>
    BY <1>1 DEF Shrinks
  <2>4. HeldIsAsRead'
    BY <2>1, <2>2, <2>3, <1>t DEF HeldIsAsRead
  <2>5. Notices!SentWasSettled'
    BY <2>1, <2>3 DEF Notices!SentWasSettled, Stored
  <2>6. QED
    BY <2>4, <2>5
<1>2. ASSUME NEW w \in Save, Writes(w), NEW n, n = Target(w), NEW r, r = RevOf(w) PROVE Goal
  <2>1. /\ n \in Notices!Notice /\ Pending(w)
        /\ notices'[n].rev = r
        /\ notices'[n].sentAt => r \in settled'
        /\ \A m \in Notices!Notice : m # n => notices'[m] = notices[m]
        /\ n = r \/ Stored(n)
    BY <1>2, WritesNotice
  <2>2. /\ \A p \in Pass : \A h : Holds(p, h)' <=> Holds(p, h)
        /\ passes' = passes /\ settled \subseteq settled' /\ raced \subseteq raced'
    BY <1>2 DEF Writes, Holds
  <2>3. ASSUME NEW p \in Pass, NEW h \in Notices!Held, Holds(p, h), h.id \notin raced' PROVE h.id # n
    <3>1. CASE Stored(n)
      BY <1>2, <2>3, <3>1 DEF Writes
    <3>2. CASE n = r
      BY <1>2, <2>1, <2>3, <3>2 DEF RevisionIsOwn
    <3>3. QED
      BY <2>1, <3>1, <3>2
  <2>4. HeldIsAsRead'
    BY <2>1, <2>2, <2>3, <1>t DEF HeldIsAsRead, Stored
  <2>5. Notices!SentWasSettled'
    BY <2>1, <2>2 DEF Notices!SentWasSettled
  <2>6. QED
    BY <2>4, <2>5
<1>3. ASSUME NEW w \in Save, NEW t \in Task, NEW dueDate \in BOOLEAN, NEW isDone \in BOOLEAN,
             Notices!WriteTask(w, t, dueDate, isDone)
      PROVE  Goal
  <2>1. UNCHANGED <<notices, passes, raced, settled>>
    BY <1>3 DEF Notices!WriteTask, Notices!SenderUnchanged
  <2>2. QED
    BY <2>1 DEF HeldIsAsRead, Holds, Stored, Notices!SentWasSettled
<1>4. ASSUME NEW p \in Pass, Notices!TakeBatch(p) PROVE Goal
  <2>1. UNCHANGED <<notices, raced, settled>>
    BY <1>4 DEF Notices!TakeBatch, Notices!SavesUnchanged
  <2>2. /\ \A o \in Pass : o # p => passes'[o] = passes[o]
        /\ passes'[p].at \in {"batch", "done"}
        /\ \A o \in Pass : \A h : Holds(o, h)' => Holds(o, h) \/ (o = p /\ h \in Notices!Ready)
    BY <1>4, <1>t, BatchIsReady
  <2>3. \A h \in Notices!Ready : notices[h.id].rev = h.rev
    BY DEF Notices!Ready
  <2>4. \A o \in Pass, h \in Notices!Held :
            Holds(o, h)' /\ h.id \notin raced /\ Stored(h.id) => notices[h.id].rev = h.rev
    BY <2>2, <2>3 DEF HeldIsAsRead
  <2>5. HeldIsAsRead'
    BY <2>1, <2>2, <2>4 DEF HeldIsAsRead, Stored
  <2>6. QED
    BY <2>1, <2>5 DEF Notices!SentWasSettled
<1>5. ASSUME NEW p \in Pass, Notices!MarkSent(p), NEW k, k = passes[p].now PROVE Goal
  <2>1. UNCHANGED <<raced, settled>> /\ passes[p].at = "sending"
    BY <1>5 DEF Notices!MarkSent, Notices!SavesUnchanged
  <2>2. /\ k \in Notices!Held /\ Holds(p, k)
        /\ Stored(k.id) /\ notices'[k.id].rev = notices[k.id].rev
        /\ \A m \in Notices!Notice : m # k.id => notices'[m] = notices[m]
    BY <1>5, MarksSent
  <2>3. \A o \in Pass : \A h : Holds(o, h)' => Holds(o, h)
    BY <1>5, <1>t, SenderDrops
  <2>4. /\ \A o \in Pass : o # p => passes'[o] = passes[o]
        /\ passes'[p].at # "sending"
    BY <1>5, <1>t DEF Notices!MarkSent, Notices!TypeOK, Notices!Done
  <2>5. \A m \in Notices!Notice : notices'[m].rev = notices[m].rev /\ (Stored(m)' => Stored(m))
    BY <2>2 DEF Stored
  <2>6. HeldIsAsRead'
    BY <2>1, <2>3, <2>4, <2>5, <1>t DEF HeldIsAsRead
  <2>7. ASSUME k.id \notin raced PROVE notices'[k.id].rev \in settled
    BY <1>5, <2>1, <2>2, <2>7 DEF HeldIsAsRead
  <2>8. Notices!SentWasSettled'
    <3>1. ASSUME NEW n \in Notices!Notice \ raced, notices'[n] # Notices!NoNotice, notices'[n].sentAt
          PROVE  notices'[n].rev \in settled
      BY <2>2, <2>7, <3>1 DEF Notices!SentWasSettled
    <3>2. QED
      BY <2>1, <3>1 DEF Notices!SentWasSettled
  <2>9. QED
    BY <2>6, <2>8
<1>6. ASSUME NEW p \in Pass, NEW h \in Notices!Held, Notices!StartSending(p, h) PROVE Goal
  <2>1. UNCHANGED <<notices, raced>> /\ settled' = settled \cup {h.rev}
    BY <1>6 DEF Notices!StartSending, Notices!SavesUnchanged
  <2>2. \A o \in Pass : \A k : Holds(o, k)' => Holds(o, k)
    BY <1>6, <1>t, SenderDrops
  <2>3. /\ \A o \in Pass : o # p => passes'[o] = passes[o]
        /\ passes'[p].now = h
    BY <1>6, <1>t DEF Notices!StartSending, Notices!TypeOK
  <2>4. HeldIsAsRead'
    BY <2>1, <2>2, <2>3 DEF HeldIsAsRead, Stored
  <2>5. QED
    BY <2>1, <2>4 DEF Notices!SentWasSettled
<1>7. ASSUME NEW p \in Pass, NEW e \in Endpoint, Notices!Deliver(p, e) \/ Fails(p, e) PROVE Goal
  <2>1. UNCHANGED <<notices, raced, settled>> /\ Notices!Answered(p, e)
    BY <1>7 DEF Notices!Deliver, Fails, Notices!SavesUnchanged
  <2>2. \A o \in Pass : \A k : Holds(o, k)' => Holds(o, k)
    BY <1>7, <1>t, SenderDrops
  <2>3. \A o \in Pass : passes'[o].at = passes[o].at /\ (passes[o].at = "sending" => passes'[o].now = passes[o].now)
    <3>1. passes[p] \in Notices!Sending
      BY <2>1, <1>t DEF Notices!Answered, Notices!TypeOK, Notices!Batch, Notices!Idle, Notices!Done
    <3>2. QED
      BY <2>1, <3>1, <1>t DEF Notices!Answered, Notices!TypeOK, Notices!Sending
  <2>4. HeldIsAsRead'
    BY <2>1, <2>2, <2>3 DEF HeldIsAsRead, Stored
  <2>5. QED
    BY <2>1, <2>4 DEF Notices!SentWasSettled
<1>8. ASSUME Notices!AllDie PROVE Goal
  <2>1. UNCHANGED <<notices, raced, settled>>
    BY <1>8 DEF Notices!AllDie
  <2>2. \A o \in Pass : passes'[o].at \in {"idle", "done"}
    BY <1>8 DEF Notices!AllDie, Notices!Idle, Notices!Done
  <2>3. \A o \in Pass : \A k : ~Holds(o, k)'
    BY <2>2 DEF Holds
  <2>4. HeldIsAsRead'
    BY <2>2, <2>3 DEF HeldIsAsRead
  <2>5. QED
    BY <2>1, <2>4 DEF Notices!SentWasSettled
<1>9. /\ \A w \in Save : Writes(w) => Goal
      /\ \A p \in Pass : Notices!MarkSent(p) => Goal
  BY <1>2, <1>5
<1>10. QED
  BY <1>0, <1>t, <1>1, <1>3, <1>4, <1>6, <1>7, <1>8, <1>9, NoticesStep

\* While no two activations held a notification and the API lives, a revision
\* is pushed once.
LEMMA PushesStay ==
    ASSUME PushInv, [Notices!Next]_(Notices!vars)
    PROVE  PushInv'
<1> DEFINE Quiet == overlapped = {} /\ ~senderDied
           Good == HeldOnce' /\ PushedIsSending' /\ (\A x \in pushes' : ~x.again)
<1> USE DEF PushInv, RevisionInv
<1>0. RevisionInv'
  BY RevisionsStay
<1>t. /\ Notices!TypeOK
      /\ \A h \in Notices!Held : h.id \in Notices!Notice
      /\ \A p \in Pass : passes[p].at \in {"batch", "sending"} => passes[p].left \subseteq Notices!Held
      /\ \A p \in Pass : passes[p].at = "sending" => passes[p].now \in Notices!Held
  BY DEF Notices!TypeOK, Notices!Held, Notices!Batch, Notices!Sending, Notices!Idle, Notices!Done
<1>q. Quiet => HeldOnce /\ PushedIsSending /\ (\A x \in pushes : ~x.again)
  BY DEF Notices!PushedOnce
<1>1. ASSUME Shrinks, Quiet' PROVE Good
  <2>1. UNCHANGED <<passes, pushes>> /\ Quiet
    BY <1>1 DEF Shrinks
  <2>2. HeldOnce'
    BY <1>q, <2>1 DEF HeldOnce, Holds
  <2>3. \A n \in Notices!Notice : Stored(n)' => Stored(n) /\ notices'[n] = notices[n]
    BY <1>1 DEF Shrinks, Stored
  <2>4. PushedIsSending'
    BY <1>q, <2>1, <2>3 DEF PushedIsSending
  <2>5. QED
    BY <1>q, <2>1, <2>2, <2>4
<1>2. ASSUME NEW w \in Save, Writes(w), Quiet', NEW n, n = Target(w), NEW r, r = RevOf(w) PROVE Good
  <2>1. UNCHANGED <<passes, pushes>> /\ Quiet
    BY <1>2 DEF Writes
  <2>2. HeldOnce'
    BY <1>q, <2>1 DEF HeldOnce, Holds
  <2>3. /\ notices'[n].rev = r /\ Pending(w)
        /\ \A m \in Notices!Notice : m # n => notices'[m] = notices[m]
    BY <1>2, WritesNotice
  <2>4. \A x \in pushes : x.rev # r
    BY <1>2, <2>3 DEF RevisionIsOwn
  <2>5. PushedIsSending'
    BY <1>q, <2>1, <2>3, <2>4 DEF PushedIsSending, Stored
  <2>6. QED
    BY <1>q, <2>1, <2>2, <2>5
<1>3. ASSUME NEW w \in Save, NEW t \in Task, NEW dueDate \in BOOLEAN, NEW isDone \in BOOLEAN,
             Notices!WriteTask(w, t, dueDate, isDone), Quiet'
      PROVE  Good
  <2>1. UNCHANGED <<notices, passes, pushes>> /\ Quiet
    BY <1>3 DEF Notices!WriteTask, Notices!SenderUnchanged
  <2>2. QED
    BY <1>q, <2>1 DEF HeldOnce, PushedIsSending, Holds, Stored
<1>4. ASSUME NEW p \in Pass, Notices!TakeBatch(p), Quiet' PROVE Good
  <2>1. /\ UNCHANGED <<notices, pushes>> /\ Quiet
        /\ \A n \in {h.id : h \in Notices!Ready} : Notices!Holding(n) = {}
    BY <1>4 DEF Notices!TakeBatch, Notices!SavesUnchanged
  <2>2. /\ \A o \in Pass : o # p => passes'[o] = passes[o]
        /\ passes'[p].at \in {"batch", "done"}
        /\ \A o \in Pass : \A h : Holds(o, h)' => Holds(o, h) \/ (o = p /\ h \in Notices!Ready)
        /\ \A h : ~Holds(p, h)
    BY <1>4, <1>t, BatchIsReady
  <2>3. ASSUME NEW h \in Notices!Ready, NEW o \in Pass, NEW k, Holds(o, k) PROVE k.id # h.id
    BY <2>1, <2>3 DEF Notices!Holding, Holds
  <2>4. ASSUME NEW h \in Notices!Ready
        PROVE  /\ h \in Notices!Held /\ h.id \in Notices!Notice
               /\ Stored(h.id) /\ ~notices[h.id].sentAt /\ notices[h.id].rev = h.rev
    BY <1>t DEF Notices!Ready, Stored
  <2>5. ASSUME NEW h \in Notices!Ready, NEW k \in Notices!Ready, h.id = k.id PROVE h = k
    BY <2>4, <2>5 DEF Notices!Held
  <2>6. HeldOnce'
    <3>1. ASSUME NEW o \in Pass, NEW u \in Pass, NEW h \in Notices!Held, NEW k \in Notices!Held,
                 Holds(o, h)', Holds(u, k)', h.id = k.id
          PROVE  o = u /\ h = k
      <4>1. CASE Holds(o, h) /\ Holds(u, k)
        BY <1>q, <2>1, <3>1, <4>1 DEF HeldOnce
      <4>2. CASE ~Holds(o, h)
        BY <2>2, <2>3, <2>5, <3>1, <4>2
      <4>3. CASE ~Holds(u, k)
        BY <2>2, <2>3, <2>5, <3>1, <4>3
      <4>4. QED
        BY <4>1, <4>2, <4>3
    <3>2. \A o \in Pass : passes'[o].at = "sending" => passes'[o].now \notin passes'[o].left
      BY <1>q, <2>1, <2>2 DEF HeldOnce
    <3>3. QED
      BY <3>1, <3>2 DEF HeldOnce
  <2>7. ASSUME NEW h \in Notices!Ready, NEW x \in pushes PROVE x.rev # h.rev
    <3>1. SUFFICES ASSUME x.rev = h.rev PROVE FALSE
      OBVIOUS
    <3>2. PICK o \in Pass : passes[o].at = "sending" /\ passes[o].now = [id |-> h.id, rev |-> x.rev]
      BY <1>q, <2>1, <2>4, <3>1 DEF PushedIsSending
    <3>3. Holds(o, passes[o].now) /\ passes[o].now.id = h.id
      BY <3>2 DEF Holds
    <3>4. QED
      BY <2>3, <3>3
  <2>8. PushedIsSending'
    <3>1. ASSUME NEW o \in Pass, passes'[o].at \in {"batch", "sending"}, NEW h \in passes'[o].left,
                 NEW x \in pushes
          PROVE  x.rev # h.rev
      <4>1. Holds(o, h)'
        BY <3>1 DEF Holds
      <4>2. CASE o = p
        BY <2>2, <2>7, <4>1, <4>2
      <4>3. CASE o # p
        BY <1>q, <2>1, <2>2, <3>1, <4>3 DEF PushedIsSending
      <4>4. QED
        BY <4>2, <4>3
    <3>2. \A o \in Pass : passes'[o].at = "sending" =>
              \A x \in pushes : x.rev = passes'[o].now.rev => x.to \notin passes'[o].to
      BY <1>q, <2>1, <2>2 DEF PushedIsSending
    <3>3. ASSUME NEW n \in Notices!Notice, NEW x \in pushes,
                 Stored(n), ~notices[n].sentAt, notices[n].rev = x.rev
          PROVE  \E o \in Pass : passes'[o].at = "sending" /\ passes'[o].now = [id |-> n, rev |-> x.rev]
      <4>1. PICK o \in Pass : passes[o].at = "sending" /\ passes[o].now = [id |-> n, rev |-> x.rev]
        BY <1>q, <2>1, <3>3 DEF PushedIsSending
      <4>2. o # p
        BY <2>2, <4>1 DEF Holds
      <4>3. QED
        BY <2>2, <4>1, <4>2
    <3>4. QED
      BY <2>1, <3>1, <3>2, <3>3 DEF PushedIsSending, Stored
  <2>9. QED
    BY <1>q, <2>1, <2>6, <2>8
<1>5. ASSUME NEW p \in Pass, Notices!MarkSent(p), Quiet', NEW k, k = passes[p].now PROVE Good
  <2>1. UNCHANGED pushes /\ Quiet /\ passes[p].at = "sending"
    BY <1>5 DEF Notices!MarkSent
  <2>2. /\ k \in Notices!Held /\ notices'[k.id].sentAt
        /\ \A m \in Notices!Notice : m # k.id => notices'[m] = notices[m]
    BY <1>5, MarksSent
  <2>3. \A o \in Pass : \A h : Holds(o, h)' => Holds(o, h)
    BY <1>5, <1>t, SenderDrops
  <2>4. /\ \A o \in Pass : o # p => passes'[o] = passes[o]
        /\ passes'[p].at \in {"batch", "done"}
        /\ passes'[p].at = "batch" => passes'[p].left = passes[p].left
    BY <1>5, <1>t DEF Notices!MarkSent, Notices!TypeOK, Notices!Done
  <2>5. HeldOnce'
    BY <1>q, <2>1, <2>3, <2>4 DEF HeldOnce
  <2>6. PushedIsSending'
    <3>1. \A o \in Pass : passes'[o].at \in {"batch", "sending"} =>
              \A h \in passes'[o].left, x \in pushes : x.rev # h.rev
      BY <1>q, <2>1, <2>4 DEF PushedIsSending
    <3>2. \A o \in Pass : passes'[o].at = "sending" =>
              \A x \in pushes : x.rev = passes'[o].now.rev => x.to \notin passes'[o].to
      BY <1>q, <2>1, <2>4 DEF PushedIsSending
    <3>3. ASSUME NEW n \in Notices!Notice, NEW x \in pushes,
                 Stored(n)', ~notices'[n].sentAt, notices'[n].rev = x.rev
          PROVE  \E o \in Pass : passes'[o].at = "sending" /\ passes'[o].now = [id |-> n, rev |-> x.rev]
      <4>1. n # k.id /\ Stored(n) /\ notices'[n] = notices[n]
        BY <2>2, <3>3 DEF Stored
      <4>2. PICK o \in Pass : passes[o].at = "sending" /\ passes[o].now = [id |-> n, rev |-> x.rev]
        BY <1>q, <2>1, <3>3, <4>1 DEF PushedIsSending
      <4>3. o # p
        BY <1>5, <4>1, <4>2
      <4>4. QED
        BY <2>4, <4>2, <4>3
    <3>4. QED
      BY <2>1, <3>1, <3>2, <3>3 DEF PushedIsSending
  <2>7. QED
    BY <1>q, <2>1, <2>5, <2>6
<1>6. ASSUME NEW p \in Pass, NEW h \in Notices!Held, Notices!StartSending(p, h), Quiet' PROVE Good
  <2>1. /\ UNCHANGED <<notices, pushes>> /\ Quiet
        /\ passes[p].at = "batch" /\ h \in passes[p].left
    BY <1>6 DEF Notices!StartSending, Notices!SavesUnchanged
  <2>2. \A o \in Pass : \A k : Holds(o, k)' => Holds(o, k)
    BY <1>6, <1>t, SenderDrops
  <2>3. /\ \A o \in Pass : o # p => passes'[o] = passes[o]
        /\ passes'[p].now = h /\ passes'[p].left = passes[p].left \ {h}
    BY <1>6, <1>t DEF Notices!StartSending, Notices!TypeOK
  <2>4. HeldOnce'
    BY <1>q, <2>1, <2>2, <2>3 DEF HeldOnce
  <2>5. PushedIsSending'
    <3>1. \A o \in Pass : passes'[o].at \in {"batch", "sending"} =>
              \A k \in passes'[o].left, x \in pushes : x.rev # k.rev
      BY <1>q, <2>1, <2>3 DEF PushedIsSending
    <3>2. \A o \in Pass : passes'[o].at = "sending" =>
              \A x \in pushes : x.rev = passes'[o].now.rev => x.to \notin passes'[o].to
      BY <1>q, <2>1, <2>3 DEF PushedIsSending
    <3>3. \A o \in Pass : passes[o].at = "sending" => passes'[o] = passes[o]
      BY <2>1, <2>3
    <3>4. QED
      BY <1>q, <2>1, <3>1, <3>2, <3>3 DEF PushedIsSending, Stored
  <2>6. QED
    BY <1>q, <2>1, <2>4, <2>5
<1>a. ASSUME NEW p \in Pass, NEW e \in Endpoint, Notices!Answered(p, e)
      PROVE  /\ \A o \in Pass : o # p => passes'[o] = passes[o]
             /\ passes[p].at = "sending" /\ e \in passes[p].to /\ passes'[p].at = "sending"
             /\ passes'[p].now = passes[p].now /\ passes'[p].left = passes[p].left
             /\ passes'[p].to = passes[p].to \ {e}
             /\ \A o \in Pass : \A k : Holds(o, k)' => Holds(o, k)
  <2>1. passes[p] \in Notices!Sending
    BY <1>a, <1>t DEF Notices!Answered, Notices!TypeOK, Notices!Batch, Notices!Idle, Notices!Done
  <2>2. /\ \A o \in Pass : o # p => passes'[o] = passes[o]
        /\ passes[p].at = "sending" /\ e \in passes[p].to /\ passes'[p].at = "sending"
        /\ passes'[p].now = passes[p].now /\ passes'[p].left = passes[p].left
        /\ passes'[p].to = passes[p].to \ {e}
    BY <1>a, <2>1, <1>t DEF Notices!Answered, Notices!TypeOK, Notices!Sending
  <2>3. QED
    BY <2>2 DEF Holds
<1>7. ASSUME NEW p \in Pass, NEW e \in Endpoint, Fails(p, e), Quiet' PROVE Good
  <2>1. UNCHANGED <<notices, pushes>> /\ Quiet /\ Notices!Answered(p, e)
    BY <1>7 DEF Fails
  <2>2. HeldOnce'
    BY <1>a, <1>q, <2>1 DEF HeldOnce
  <2>3. PushedIsSending'
    <3>1. \A o \in Pass : passes'[o].at \in {"batch", "sending"} =>
              \A k \in passes'[o].left, x \in pushes : x.rev # k.rev
      BY <1>a, <1>q, <2>1 DEF PushedIsSending
    <3>2. \A o \in Pass : passes'[o].at = "sending" =>
              \A x \in pushes : x.rev = passes'[o].now.rev => x.to \notin passes'[o].to
      BY <1>a, <1>q, <2>1 DEF PushedIsSending
    <3>3. \A o \in Pass : passes[o].at = "sending" => passes'[o].at = "sending" /\ passes'[o].now = passes[o].now
      BY <1>a, <2>1
    <3>4. QED
      BY <1>q, <2>1, <3>1, <3>2, <3>3 DEF PushedIsSending, Stored
  <2>4. QED
    BY <1>q, <2>1, <2>2, <2>3
<1>8. ASSUME NEW p \in Pass, NEW e \in Endpoint, Notices!Deliver(p, e), Quiet',
             NEW k, k = passes[p].now
      PROVE  Good
  <2>1. UNCHANGED notices /\ Quiet /\ Notices!Answered(p, e)
    BY <1>8 DEF Notices!Deliver, Notices!SavesUnchanged
  <2>2. HeldOnce'
    BY <1>a, <1>q, <2>1 DEF HeldOnce
  <2>3. Holds(p, k) /\ k \in Notices!Held /\ k \notin passes[p].left
    BY <1>a, <1>8, <1>q, <1>t, <2>1 DEF HeldOnce, Holds
  <2>4. \A x \in pushes : x.rev = k.rev => x.to # e
    BY <1>a, <1>8, <1>q, <2>1 DEF PushedIsSending
  <2>5. pushes' = pushes \cup {[rev |-> k.rev, to |-> e, again |-> FALSE]}
    BY <1>8, <2>4 DEF Notices!Deliver
  <2>6. ASSUME NEW o \in Pass, NEW h \in Notices!Held, Holds(o, h), h.rev = k.rev PROVE o = p /\ h = k
    BY <1>q, <2>1, <2>3, <2>6 DEF RevisionHasOneNotice, HeldOnce
  <2>7. PushedIsSending'
    <3>1. ASSUME NEW o \in Pass, passes'[o].at \in {"batch", "sending"}, NEW h \in passes'[o].left,
                 NEW x \in pushes'
          PROVE  x.rev # h.rev
      <4>1. passes[o].at \in {"batch", "sending"} /\ h \in passes[o].left
        BY <1>a, <2>1, <3>1
      <4>2. Holds(o, h) /\ h \in Notices!Held
        BY <4>1, <1>t DEF Holds
      <4>3. h.rev # k.rev
        BY <2>3, <2>6, <4>1, <4>2
      <4>4. QED
        BY <1>q, <2>1, <2>5, <4>1, <4>3 DEF PushedIsSending
    <3>2. ASSUME NEW o \in Pass, passes'[o].at = "sending", NEW x \in pushes', x.rev = passes'[o].now.rev
          PROVE  x.to \notin passes'[o].to
      <4>1. passes[o].at = "sending" /\ passes'[o].now = passes[o].now /\ passes'[o].to \subseteq passes[o].to
        BY <1>a, <2>1, <3>2
      <4>2. CASE x \in pushes
        BY <1>q, <2>1, <3>2, <4>1, <4>2 DEF PushedIsSending
      <4>3. CASE x \notin pushes
        <5>1. x.rev = k.rev /\ x.to = e
          BY <2>5, <4>3
        <5>2. Holds(o, passes[o].now) /\ passes[o].now \in Notices!Held
          BY <4>1, <1>t DEF Holds
        <5>3. o = p
          BY <2>6, <3>2, <4>1, <5>1, <5>2
        <5>4. QED
          BY <1>a, <2>1, <5>1, <5>3
      <4>4. QED
        BY <4>2, <4>3
    <3>3. ASSUME NEW n \in Notices!Notice, NEW x \in pushes',
                 Stored(n), ~notices[n].sentAt, notices[n].rev = x.rev
          PROVE  \E o \in Pass : passes'[o].at = "sending" /\ passes'[o].now = [id |-> n, rev |-> x.rev]
      <4>1. CASE x \in pushes
        <5>1. PICK o \in Pass : passes[o].at = "sending" /\ passes[o].now = [id |-> n, rev |-> x.rev]
          BY <1>q, <2>1, <3>3, <4>1 DEF PushedIsSending
        <5>2. QED
          BY <1>a, <2>1, <5>1
      <4>2. CASE x \notin pushes
        <5>1. x.rev = k.rev
          BY <2>5, <4>2
        <5>2. n = k.id
          BY <2>3, <3>3, <5>1 DEF RevisionHasOneNotice
        <5>3. k = [id |-> n, rev |-> x.rev]
          BY <2>3, <5>1, <5>2 DEF Notices!Held
        <5>4. QED
          BY <1>a, <1>8, <2>1, <5>3
      <4>3. QED
        BY <4>1, <4>2
    <3>4. QED
      BY <2>1, <3>1, <3>2, <3>3 DEF PushedIsSending, Stored
  <2>8. QED
    BY <1>q, <2>1, <2>2, <2>5, <2>7
<1>9. /\ \A w \in Save : Writes(w) /\ Quiet' => Good
      /\ \A p \in Pass : Notices!MarkSent(p) /\ Quiet' => Good
      /\ \A p \in Pass, e \in Endpoint : Notices!Deliver(p, e) /\ Quiet' => Good
  BY <1>2, <1>5, <1>8
<1>10. Notices!AllDie => ~Quiet'
  BY DEF Notices!AllDie
<1>11. Quiet' => Good
  <2> HIDE DEF Quiet, Good
  <2>1. QED
    BY <1>t, <1>1, <1>3, <1>4, <1>6, <1>7, <1>9, <1>10, NoticesStep
<1>12. QED
  BY <1>0, <1>11 DEF Notices!PushedOnce

\* The notification of a task follows it.
LEMMA NoticesFollow ==
    ASSUME NoticeInv, [Notices!Next]_(Notices!vars)
    PROVE  NoticeInv'
<1> DEFINE Gone(t) == tasks[t] = Notices!NoTask => Notices!NoticesOf(t) = {}
           Steady == tasksCrossed \subseteq tasksCrossed' /\ (senderDied => senderDied')
           Good == /\ \A t \in Task : Gone(t)'
                   /\ ~senderDied' => \A t \in Task \ tasksCrossed' : TaskSettles(t)'
<1> USE DEF NoticeInv, RevisionInv
<1>0. RevisionInv'
  BY RevisionsStay
<1>t. Notices!TypeOK /\ Notices!TypeOK'
  BY <1>0
<1>g. ASSUME NEW t \in Task PROVE Gone(t)
  BY DEF NoticesGoWithTask
\* What a step does not touch stays as it is.
<1>f. ASSUME NEW t \in Task, tasks'[t] = tasks[t],
             Notices!SavingTask(t)' = Notices!SavingTask(t),
             \A w \in Notices!SavingTask(t) : taskSaves'[w] = taskSaves[w],
             Notices!NoticesOf(t)' = Notices!NoticesOf(t),
             \A n \in Notices!NoticesOf(t) : notices'[n].rev = notices[n].rev
      PROVE  Gone(t)' /\ (TaskSettles(t) => TaskSettles(t)')
  BY <1>f, <1>g DEF TaskSettles
<1>n. ASSUME NEW t \in Task, \A n \in Notices!NoticesOf(t) : notices'[n] = notices[n],
             \A n \in Notices!Notice : n \notin Notices!NoticesOf(t) =>
                 notices'[n] = notices[n] \/ notices'[n] = Notices!NoNotice \/ notices'[n].taskId # t
      PROVE  Notices!NoticesOf(t)' = Notices!NoticesOf(t)
  BY <1>n DEF Notices!NoticesOf
<1>s. ASSUME NEW t \in Task, NEW w \in Save, Pending(w) \/ taskSaves[w] = Notices!Idle,
             Pending(w) => taskSaves[w].of # t, Pending(w)' => taskSaves'[w].of # t,
             \A v \in Save : v # w => taskSaves'[v] = taskSaves[v]
      PROVE  /\ Notices!SavingTask(t)' = Notices!SavingTask(t)
             /\ \A v \in Notices!SavingTask(t) : taskSaves'[v] = taskSaves[v]
  BY <1>s DEF Notices!SavingTask, Pending
<1>1. ASSUME NEW w \in Save, NEW t \in Task, NEW dueDate \in BOOLEAN, NEW isDone \in BOOLEAN,
             Notices!WriteTask(w, t, dueDate, isDone)
      PROVE  Good
  <2> DEFINE row == [rev |-> revision + 1, dueDate |-> dueDate, isDone |-> isDone]
             creates == tasks[t] = Notices!NoTask
             written == [at |-> IF creates THEN "created" ELSE "updated", of |-> t, row |-> row]
  <2>1. /\ UNCHANGED <<notices, senderDied>> /\ taskSaves[w] = Notices!Idle
        /\ tasks'[t] = row /\ \A u \in Task : u # t => tasks'[u] = tasks[u]
        /\ taskSaves'[w] = IF creates /\ ~dueDate THEN Notices!Done ELSE written
        /\ \A v \in Save : v # w => taskSaves'[v] = taskSaves[v]
        /\ tasksCrossed \subseteq tasksCrossed'
        /\ Notices!SavingTask(t) # {} => t \in tasksCrossed'
    BY <1>1, <1>t DEF Notices!WriteTask, Notices!SenderUnchanged, Notices!TypeOK
  <2>2. row # Notices!NoTask
    BY <1>t DEF Notices!NoTask, Notices!TypeOK
  <2>3. \A u \in Task : Notices!NoticesOf(u)' = Notices!NoticesOf(u)
    BY <2>1 DEF Notices!NoticesOf
  <2>4. ASSUME NEW u \in Task, u # t PROVE Gone(u)' /\ (TaskSettles(u) => TaskSettles(u)')
    <3>1. /\ Notices!SavingTask(u)' = Notices!SavingTask(u)
          /\ \A v \in Notices!SavingTask(u) : taskSaves'[v] = taskSaves[v]
      BY <1>s, <2>1, <2>4 DEF Pending, Notices!Idle, Notices!Done
    <3>2. QED
      BY <1>f, <2>1, <2>3, <2>4, <3>1
  <2>5. Gone(t)'
    BY <2>1, <2>2
  <2>6. ASSUME ~senderDied, t \notin tasksCrossed' PROVE TaskSettles(t)'
    <3>1. Notices!SavingTask(t) = {} /\ TaskSettles(t)
      BY <2>1, <2>6
    <3>2. Notices!SavingTask(t)' = IF creates /\ ~dueDate THEN {} ELSE {w}
      BY <2>1, <3>1 DEF Notices!SavingTask, Notices!Done
    <3>3. CASE creates
      <4>1. Notices!NoticesOf(t)' = {}
        BY <1>g, <2>3, <3>3
      <4>2. QED
        BY <2>1, <3>2, <3>3, <4>1 DEF TaskSettles
    <3>4. CASE ~creates
      <4>1. Notices!SavingTask(t)' = {w} /\ taskSaves'[w] = written /\ written.at = "updated"
        BY <2>1, <3>2, <3>4
      <4>2. QED
        BY <2>1, <2>3, <3>1, <3>4, <4>1 DEF TaskSettles
    <3>5. QED
      BY <3>3, <3>4
  <2>7. QED
    BY <2>1, <2>4, <2>5, <2>6
<1>2. ASSUME NEW w \in Save, Writes(w), NEW n, n = Target(w), NEW r, r = RevOf(w),
             NEW t, t = taskSaves[w].of
      PROVE  Good
  <2>1. /\ n \in Notices!Notice /\ Pending(w) /\ t \in Task
        /\ taskSaves[w].at \in {"created", "found"}
        /\ Stored(n)' /\ notices'[n].rev = r /\ notices'[n].taskId = t
        /\ \A m \in Notices!Notice : m # n => notices'[m] = notices[m]
        /\ \/ n = r /\ ~Stored(r)
           \/ taskSaves[w].at = "found" /\ n = taskSaves[w].id /\ n # None /\ Stored(n)
    BY <1>2, WritesNotice
  <2>2. /\ UNCHANGED <<tasks, tasksCrossed, senderDied>> /\ tasks[t] # Notices!NoTask
        /\ taskSaves'[w] = Notices!Done /\ \A v \in Save : v # w => taskSaves'[v] = taskSaves[v]
    BY <1>2, <1>t DEF Writes, Notices!TypeOK
  <2>3. Stored(n) => notices[n].taskId = t
    BY <1>2, <2>1 DEF FoundIsOfTask
  <2>4. ASSUME NEW u \in Task, u # t PROVE Gone(u)' /\ (TaskSettles(u) => TaskSettles(u)')
    <3>1. n \notin Notices!NoticesOf(u)
      BY <2>3, <2>4 DEF Notices!NoticesOf, Stored
    <3>2. \A m \in Notices!NoticesOf(u) : notices'[m] = notices[m]
      BY <2>1, <3>1 DEF Notices!NoticesOf
    <3>3. Notices!NoticesOf(u)' = Notices!NoticesOf(u)
      BY <1>n, <2>1, <2>4, <3>2
    <3>4. /\ Notices!SavingTask(u)' = Notices!SavingTask(u)
          /\ \A v \in Notices!SavingTask(u) : taskSaves'[v] = taskSaves[v]
      BY <1>2, <1>s, <2>1, <2>2, <2>4 DEF Pending, Notices!Done
    <3>5. QED
      BY <1>f, <2>2, <3>2, <3>3, <3>4
  <2>5. ASSUME ~senderDied, t \notin tasksCrossed PROVE TaskSettles(t)'
    <3>1. TaskSettles(t) /\ w \in Notices!SavingTask(t)
      BY <1>2, <2>1, <2>5 DEF Notices!SavingTask, Pending
    <3>2. Notices!SavingTask(t)' = {}
      BY <2>2, <3>1 DEF TaskSettles, Notices!SavingTask, Notices!Done
    <3>3. /\ tasks[t] = taskSaves[w].row /\ taskSaves[w].row.dueDate
          /\ taskSaves[w].at = "created" => Notices!NoticesOf(t) = {}
          /\ taskSaves[w].at = "found" => Notices!NoticesOf(t) \subseteq {taskSaves[w].id}
      BY <2>1, <2>2, <3>1 DEF TaskSettles
    <3>4. Notices!NoticesOf(t) \subseteq {n}
      <4>1. CASE taskSaves[w].at = "created"
        BY <3>3, <4>1
      <4>2. ASSUME taskSaves[w].at = "found", NEW m \in Notices!NoticesOf(t) PROVE m = n
        <5>1. m = taskSaves[w].id /\ m \in Notices!Notice /\ Stored(m)
          BY <3>3, <4>2 DEF Notices!NoticesOf, Stored
        <5>2. m # None
          BY <5>1, NothingAssumption DEF Notices!Notice, Notices!Revision
        <5>3. QED
          BY <1>2, <4>2, <5>1, <5>2 DEF Target
      <4>3. QED
        BY <2>1, <4>1, <4>2
    <3>5. Notices!NoticesOf(t)' = {n}
      <4>1. n \in Notices!NoticesOf(t)'
        BY <2>1 DEF Notices!NoticesOf, Stored
      <4>2. ASSUME NEW m \in Notices!NoticesOf(t)', m # n PROVE m \in Notices!NoticesOf(t)
        BY <2>1, <4>2 DEF Notices!NoticesOf
      <4>3. QED
        BY <3>4, <4>1, <4>2
    <3>6. QED
      BY <1>2, <2>1, <2>2, <3>2, <3>3, <3>5 DEF TaskSettles, RevOf
  <2>6. QED
    BY <2>1, <2>2, <2>4, <2>5
\* A save that ends without writing.
<1>3. ASSUME NEW w \in Save, Notices!Dispatch(w), UNCHANGED notices, NEW t, t = taskSaves[w].of
      PROVE  Good
  <2>1. /\ UNCHANGED <<tasks, tasksCrossed, senderDied>> /\ taskSaves[w].at = "created"
        /\ taskSaves'[w] = Notices!Done /\ \A v \in Save : v # w => taskSaves'[v] = taskSaves[v]
    BY <1>3, <1>t DEF Notices!Dispatch, Notices!SenderUnchanged, Notices!TypeOK
  <2>2. Pending(w) /\ t \in Task
    BY <1>3, <1>t, <2>1, PendingType DEF Pending
  <2>3. \A u \in Task : Notices!NoticesOf(u)' = Notices!NoticesOf(u)
    BY <1>3 DEF Notices!NoticesOf
  <2>4. ASSUME NEW u \in Task, u # t PROVE Gone(u)' /\ (TaskSettles(u) => TaskSettles(u)')
    <3>1. /\ Notices!SavingTask(u)' = Notices!SavingTask(u)
          /\ \A v \in Notices!SavingTask(u) : taskSaves'[v] = taskSaves[v]
      BY <1>3, <1>s, <2>1, <2>2, <2>4 DEF Pending, Notices!Done
    <3>2. QED
      BY <1>3, <1>f, <2>1, <2>3, <3>1
  <2>5. Gone(t)'
    BY <1>g, <2>1, <2>2, <2>3
  <2>6. ASSUME ~senderDied, t \notin tasksCrossed PROVE TaskSettles(t)'
    <3>1. TaskSettles(t) /\ w \in Notices!SavingTask(t)
      BY <1>3, <2>2, <2>6 DEF Notices!SavingTask, Pending
    <3>2. Notices!SavingTask(t)' = {}
      BY <2>1, <3>1 DEF TaskSettles, Notices!SavingTask, Notices!Done
    <3>3. tasks[t] # Notices!NoTask => Notices!NoticesOf(t)' = {}
      BY <2>1, <2>2, <2>3, <3>1 DEF TaskSettles
    <3>4. QED
      BY <2>1, <3>2, <3>3 DEF TaskSettles
  <2>7. QED
    BY <2>1, <2>2, <2>4, <2>5, <2>6
<1>4. ASSUME NEW w \in Save, Notices!DeleteNotices(w), NEW t, t = taskSaves[w].of PROVE Good
  <2>1. /\ UNCHANGED <<tasks, tasksCrossed, senderDied>> /\ taskSaves[w].at = "updated"
        /\ taskSaves'[w] = Notices!Done /\ \A v \in Save : v # w => taskSaves'[v] = taskSaves[v]
        /\ \A n \in Notices!Notice :
               notices'[n] = IF n \in Notices!NoticesOf(t) THEN Notices!NoNotice ELSE notices[n]
    BY <1>4, <1>t DEF Notices!DeleteNotices, Notices!SenderUnchanged, Notices!TypeOK
  <2>2. Pending(w) /\ t \in Task
    BY <1>4, <1>t, <2>1, PendingType DEF Pending
  <2>3. Notices!NoticesOf(t)' = {}
    BY <2>1 DEF Notices!NoticesOf
  <2>4. ASSUME NEW u \in Task, u # t PROVE Gone(u)' /\ (TaskSettles(u) => TaskSettles(u)')
    <3>1. \A n \in Notices!NoticesOf(u) : n \notin Notices!NoticesOf(t) /\ notices'[n] = notices[n]
      BY <2>1, <2>4 DEF Notices!NoticesOf
    <3>2. Notices!NoticesOf(u)' = Notices!NoticesOf(u)
      BY <1>n, <2>1, <3>1
    <3>3. /\ Notices!SavingTask(u)' = Notices!SavingTask(u)
          /\ \A v \in Notices!SavingTask(u) : taskSaves'[v] = taskSaves[v]
      BY <1>4, <1>s, <2>1, <2>2, <2>4 DEF Pending, Notices!Done
    <3>4. QED
      BY <1>f, <2>1, <3>1, <3>2, <3>3
  <2>5. ASSUME ~senderDied, t \notin tasksCrossed PROVE TaskSettles(t)'
    <3>1. TaskSettles(t) /\ w \in Notices!SavingTask(t)
      BY <1>4, <2>2, <2>5 DEF Notices!SavingTask, Pending
    <3>2. Notices!SavingTask(t)' = {}
      BY <2>1, <3>1 DEF TaskSettles, Notices!SavingTask, Notices!Done
    <3>3. QED
      BY <2>3, <3>2 DEF TaskSettles
  <2>6. QED
    BY <2>1, <2>2, <2>3, <2>4, <2>5
<1>5. ASSUME NEW w \in Save, Notices!FindNotice(w), NEW t, t = taskSaves[w].of PROVE Good
  <2>1. PICK id : /\ id \in IF Notices!NoticesOf(t) = {} THEN {None} ELSE Notices!NoticesOf(t)
                  /\ taskSaves' = [taskSaves EXCEPT ![w] =
                         [at |-> "found", of |-> t, row |-> taskSaves[w].row, id |-> id]]
    BY <1>5 DEF Notices!FindNotice
  <2>2. /\ UNCHANGED <<tasks, notices, tasksCrossed, senderDied>>
        /\ taskSaves[w].at = "updated" /\ taskSaves[w].row.dueDate
    BY <1>5 DEF Notices!FindNotice, Notices!SenderUnchanged
  <2>3. /\ taskSaves'[w] = [at |-> "found", of |-> t, row |-> taskSaves[w].row, id |-> id]
        /\ \A v \in Save : v # w => taskSaves'[v] = taskSaves[v]
    BY <2>1, <1>t DEF Notices!TypeOK
  <2>4. Pending(w) /\ t \in Task
    BY <1>5, <1>t, <2>2, PendingType DEF Pending
  <2>5. \A u \in Task : Notices!NoticesOf(u)' = Notices!NoticesOf(u)
    BY <2>2 DEF Notices!NoticesOf
  <2>6. ASSUME NEW u \in Task, u # t PROVE Gone(u)' /\ (TaskSettles(u) => TaskSettles(u)')
    <3>1. /\ Notices!SavingTask(u)' = Notices!SavingTask(u)
          /\ \A v \in Notices!SavingTask(u) : taskSaves'[v] = taskSaves[v]
      BY <1>5, <1>s, <2>3, <2>4, <2>6
    <3>2. QED
      BY <1>f, <2>2, <2>5, <3>1
  <2>7. Gone(t)'
    BY <1>g, <2>2, <2>4, <2>5
  <2>8. ASSUME ~senderDied, t \notin tasksCrossed PROVE TaskSettles(t)'
    <3>1. TaskSettles(t) /\ w \in Notices!SavingTask(t)
      BY <1>5, <2>4, <2>8 DEF Notices!SavingTask, Pending
    <3>2. Notices!SavingTask(t)' = {w}
      BY <2>3, <3>1 DEF TaskSettles, Notices!SavingTask
    <3>3. tasks[t] # Notices!NoTask => Notices!NoticesOf(t) \subseteq {id}
      BY <2>1, <3>1 DEF TaskSettles
    <3>4. QED
      BY <2>2, <2>3, <2>4, <2>5, <3>1, <3>2, <3>3 DEF TaskSettles
  <2>9. QED
    BY <2>2, <2>4, <2>6, <2>7, <2>8
<1>6. ASSUME NEW w \in Save, Notices!SaveFails(w), NEW t, t = taskSaves[w].of PROVE Good
  <2>1. /\ UNCHANGED <<tasks, notices, tasksCrossed, senderDied>> /\ taskSaves[w].at = "found"
        /\ tasks[t] = Notices!NoTask
        /\ taskSaves'[w] = Notices!Done /\ \A v \in Save : v # w => taskSaves'[v] = taskSaves[v]
    BY <1>6, <1>t DEF Notices!SaveFails, Notices!SenderUnchanged, Notices!TypeOK
  <2>2. Pending(w) /\ t \in Task
    BY <1>6, <1>t, <2>1, PendingType DEF Pending
  <2>3. \A u \in Task : Notices!NoticesOf(u)' = Notices!NoticesOf(u)
    BY <2>1 DEF Notices!NoticesOf
  <2>4. ASSUME NEW u \in Task, u # t PROVE Gone(u)' /\ (TaskSettles(u) => TaskSettles(u)')
    <3>1. /\ Notices!SavingTask(u)' = Notices!SavingTask(u)
          /\ \A v \in Notices!SavingTask(u) : taskSaves'[v] = taskSaves[v]
      BY <1>6, <1>s, <2>1, <2>2, <2>4 DEF Pending, Notices!Done
    <3>2. QED
      BY <1>f, <2>1, <2>3, <3>1
  <2>5. Gone(t)'
    BY <1>g, <2>1, <2>2, <2>3
  <2>6. TaskSettles(t) => TaskSettles(t)'
    <3>1. Notices!SavingTask(t)' \subseteq Notices!SavingTask(t)
      BY <2>1 DEF Notices!SavingTask, Notices!Done
    <3>2. QED
      BY <2>1, <3>1 DEF TaskSettles
  <2>7. QED
    BY <2>1, <2>2, <2>4, <2>5, <2>6
<1>7. ASSUME NEW t \in Task, Notices!RemoveTask(t) PROVE Good
  <2>1. /\ UNCHANGED <<taskSaves, tasksCrossed, senderDied>>
        /\ tasks'[t] = Notices!NoTask /\ \A u \in Task : u # t => tasks'[u] = tasks[u]
        /\ \A n \in Notices!Notice :
               notices'[n] = IF n \in Notices!NoticesOf(t) THEN Notices!NoNotice ELSE notices[n]
    BY <1>7, <1>t DEF Notices!RemoveTask, Notices!SenderUnchanged, Notices!TypeOK
  <2>2. \A u \in Task : Notices!SavingTask(u)' = Notices!SavingTask(u)
    BY <2>1 DEF Notices!SavingTask
  <2>3. Notices!NoticesOf(t)' = {}
    BY <2>1 DEF Notices!NoticesOf
  <2>4. ASSUME NEW u \in Task, u # t PROVE Gone(u)' /\ (TaskSettles(u) => TaskSettles(u)')
    <3>1. \A n \in Notices!NoticesOf(u) : n \notin Notices!NoticesOf(t) /\ notices'[n] = notices[n]
      BY <2>1, <2>4 DEF Notices!NoticesOf
    <3>2. Notices!NoticesOf(u)' = Notices!NoticesOf(u)
      BY <1>n, <2>1, <3>1
    <3>3. QED
      BY <1>f, <2>1, <2>2, <2>4, <3>1, <3>2
  <2>5. TaskSettles(t) => TaskSettles(t)'
    BY <2>1, <2>2, <2>3 DEF TaskSettles
  <2>6. QED
    BY <2>1, <2>3, <2>4, <2>5
\* The sender changes no more than what is marked as sent.
<1>8. ASSUME UNCHANGED <<tasks, taskSaves, tasksCrossed, senderDied>>,
             \A n \in Notices!Notice : /\ Stored(n)' <=> Stored(n)
                                       /\ notices'[n].rev = notices[n].rev
                                       /\ notices'[n].taskId = notices[n].taskId
      PROVE  Good
  <2>1. ASSUME NEW u \in Task PROVE Gone(u)' /\ (TaskSettles(u) => TaskSettles(u)')
    <3>1. Notices!NoticesOf(u)' = Notices!NoticesOf(u)
      BY <1>8 DEF Notices!NoticesOf, Stored
    <3>2. Notices!SavingTask(u)' = Notices!SavingTask(u)
      BY <1>8 DEF Notices!SavingTask
    <3>3. \A n \in Notices!NoticesOf(u) : notices'[n].rev = notices[n].rev
      BY <1>8 DEF Notices!NoticesOf
    <3>4. QED
      BY <1>8, <1>f, <3>1, <3>2, <3>3
  <2>2. QED
    BY <1>8, <2>1
<1>9. ASSUME UNCHANGED <<tasks, taskSaves, tasksCrossed, senderDied, notices>> PROVE Good
  BY <1>8, <1>9 DEF Stored
<1>10. ASSUME NEW p \in Pass, Notices!MarkSent(p) PROVE Good
  <2>1. UNCHANGED <<tasks, taskSaves, tasksCrossed, senderDied>>
    BY <1>10 DEF Notices!MarkSent, Notices!SavesUnchanged
  <2>2. ASSUME NEW k, k = passes[p].now
        PROVE  \A n \in Notices!Notice : /\ Stored(n)' <=> Stored(n)
                                         /\ notices'[n].rev = notices[n].rev
                                         /\ notices'[n].taskId = notices[n].taskId
    BY <1>10, <2>2, MarksSent DEF Stored
  <2>3. QED
    BY <1>8, <2>1, <2>2
<1>11. ASSUME Notices!AllDie PROVE Good
  <2>1. UNCHANGED <<tasks, notices>> /\ senderDied'
    BY <1>11 DEF Notices!AllDie
  <2>2. QED
    BY <1>g, <2>1 DEF Notices!NoticesOf
<1>12. /\ \A w \in Save : Writes(w) => Good
       /\ \A w \in Save : Notices!Dispatch(w) /\ UNCHANGED notices => Good
       /\ \A w \in Save : Notices!DeleteNotices(w) => Good
       /\ \A w \in Save : Notices!FindNotice(w) => Good
       /\ \A w \in Save : Notices!SaveFails(w) => Good
  BY <1>2, <1>3, <1>4, <1>5, <1>6
<1>13. ASSUME NEW w \in Save,
              \/ Notices!Dispatch(w) \/ Notices!DeleteNotices(w) \/ Notices!FindNotice(w)
              \/ Notices!UpsertNotice(w) \/ Notices!SaveFails(w)
       PROVE  Good
  BY <1>12, <1>13, DispatchWrites, UpsertWrites
<1>14. ASSUME \/ \E r \in Notices!Revision : Notices!TimePasses(r)
              \/ \E p \in Pass :
                     \/ Notices!TakeBatch(p)
                     \/ \E h \in Notices!Held : Notices!StartSending(p, h)
                     \/ \E e \in Endpoint :
                            Notices!Deliver(p, e) \/ Notices!Refuse(p, e) \/ Notices!Expire(p, e)
              \/ \E e \in Endpoint : Notices!Subscribe(e)
              \/ UNCHANGED Notices!vars
       PROVE  Good
  <2>1. UNCHANGED <<tasks, taskSaves, tasksCrossed, senderDied, notices>>
    BY <1>14 DEF Notices!TimePasses, Notices!TakeBatch, Notices!StartSending, Notices!Deliver,
                 Notices!Refuse, Notices!Expire, Notices!Subscribe, Notices!SavesUnchanged, Notices!vars
  <2>2. QED
    BY <1>9, <2>1
<1>15. Good
  <2> HIDE DEF Good
  <2>1. QED
    BY <1>1, <1>7, <1>10, <1>11, <1>13, <1>14 DEF Notices!Next, Notices!Throw, Notices!Crash
<1>16. QED
  BY <1>0, <1>15 DEF NoticesGoWithTask

-----------------------------------------------------------------------------
\* Nothing is under way to begin with.
LEMMA NoticesStart ==
    ASSUME Notices!Init
    PROVE  RevisionInv /\ NoticeInv /\ SettledInv /\ PushInv
<1> USE PlatformBoundAssumption
<1>1. /\ \A n \in Notices!Notice : ~Stored(n)
      /\ \A w \in Save : taskSaves[w].at = "idle"
      /\ \A p \in Pass : passes[p].at = "idle"
      /\ \A t \in Task : Notices!NoticesOf(t) = {} /\ Notices!SavingTask(t) = {}
      /\ pushes = {}
  BY DEF Notices!Init, Stored, Notices!Idle, Notices!NoticesOf, Notices!SavingTask
<1>2. Notices!TypeOK
  <2>1. /\ tasks \in [Task -> Notices!TaskRow \cup {Notices!NoTask}]
        /\ notices \in [Notices!Notice -> Notices!NoticeRow \cup {Notices!NoNotice}]
    BY DEF Notices!Init
  <2>2. /\ taskSaves \in [Save -> {Notices!Idle, Notices!Done} \cup Notices!Saving \cup Notices!Found]
        /\ passes \in [Pass -> {Notices!Idle, Notices!Done} \cup Notices!Batch \cup Notices!Sending]
    BY DEF Notices!Init
  <2>3. /\ subscriptions \subseteq Endpoint /\ reached = {} /\ revision = 0 /\ pushes = {}
        /\ settled = {} /\ tasksCrossed = {} /\ raced = {} /\ overlapped = {} /\ senderDied = FALSE
    BY DEF Notices!Init
  <2>4. revision \in 0..MaxRevision
    BY <2>3
  <2>5. senderDied \in BOOLEAN
    BY <2>3
  <2>6. QED
    BY <2>1, <2>2, <2>3, <2>4, <2>5 DEF Notices!TypeOK
<1>3. \A p \in Pass : \A h : ~Holds(p, h)
  BY <1>1 DEF Holds
<1>4. \A w \in Save : ~Pending(w)
  BY <1>1 DEF Pending
<1>5. RevisionInv
  BY <1>1, <1>2, <1>3, <1>4
     DEF RevisionInv, RevisionsArePast, RevisionIsOwn, RevisionHasOneNotice, FoundIsOfTask
<1>6. NoticeInv
  BY <1>1, <1>5 DEF NoticeInv, NoticesGoWithTask, TaskSettles
<1>7. SettledInv
  BY <1>1, <1>3, <1>5 DEF SettledInv, HeldIsAsRead, Notices!SentWasSettled, Stored
<1>8. PushInv
  BY <1>1, <1>3, <1>5 DEF PushInv, HeldOnce, PushedIsSending, Notices!PushedOnce
<1>9. QED
  BY <1>5, <1>6, <1>7, <1>8

\* When no save of a task is under way, it has at most one notification, and
\* that is about the task as it is (WorkspaceNotices.NoticeFollowsTask).
THEOREM NoticesFollowTasks == Notices!Spec => []Notices!NoticeFollowsTask
<1>1. NoticeInv => Notices!NoticeFollowsTask
  BY DEF NoticeInv, TaskSettles, Notices!NoticeFollowsTask
<1>2. QED
  BY <1>1, NoticesStart, NoticesFollow, PTL DEF Notices!Spec

\* A revision of a task is pushed to a browser at most once, while no two
\* activations held its notification (WorkspaceNotices.PushedOnce).
THEOREM NoticesArePushedOnce == Notices!Spec => []Notices!PushedOnce
<1>1. PushInv => Notices!PushedOnce
  BY DEF PushInv
<1>2. QED
  BY <1>1, NoticesStart, PushesStay, PTL DEF Notices!Spec

\* What is marked as sent went through an activation in this very revision or
\* was saved as done (WorkspaceNotices.SentWasSettled).
THEOREM SentNoticesWereSettled == Notices!Spec => []Notices!SentWasSettled
<1>1. SettledInv => Notices!SentWasSettled
  BY DEF SettledInv
<1>2. QED
  BY <1>1, NoticesStart, SettledStays, PTL DEF Notices!Spec

\* The table and the local variables of saves and activations have their types,
\* and a revision is in one notification (WorkspaceNotices).
THEOREM NoticesHaveRevisions == Notices!Spec => []RevisionInv
BY NoticesStart, RevisionsStay, PTL DEF Notices!Spec

-----------------------------------------------------------------------------
(* The same of the system that PlatformMC checks.                          *)

\* Where the focus is on the workspace, notifications follow their tasks.
THEOREM NoticeFollowsTaskHolds == PlatformSpec => []NoticeFollowsTask
<1>1. PlatformInit /\ focus = "workspace" => Notices!Init
  BY DEF PlatformInit
<1>2. (focus # "workspace" => NoticeFollowsTask) /\ (Notices!NoticeFollowsTask => NoticeFollowsTask)
  BY DEF NoticeFollowsTask
<1>3. focus # "workspace" /\ [PlatformNext]_platformVars => (focus # "workspace")'
  BY PlatformStep
<1>4. focus = "workspace" /\ [PlatformNext]_platformVars
      => (focus = "workspace")' /\ [Notices!Next]_(Notices!vars)
  BY PlatformStep
<1>5. focus = "workspace" \/ focus # "workspace"
  OBVIOUS
<1>6. QED
  BY <1>1, <1>2, <1>3, <1>4, <1>5, NoticesFollowTasks, PTL DEF PlatformSpec, Notices!Spec

\* Where the focus is on the workspace, a revision is pushed once.
THEOREM PushedOnceHolds == PlatformSpec => []PushedOnce
<1>1. PlatformInit /\ focus = "workspace" => Notices!Init
  BY DEF PlatformInit
<1>2. (focus # "workspace" => PushedOnce) /\ (Notices!PushedOnce => PushedOnce)
  BY DEF PushedOnce
<1>3. focus # "workspace" /\ [PlatformNext]_platformVars => (focus # "workspace")'
  BY PlatformStep
<1>4. focus = "workspace" /\ [PlatformNext]_platformVars
      => (focus = "workspace")' /\ [Notices!Next]_(Notices!vars)
  BY PlatformStep
<1>5. focus = "workspace" \/ focus # "workspace"
  OBVIOUS
<1>6. QED
  BY <1>1, <1>2, <1>3, <1>4, <1>5, NoticesArePushedOnce, PTL DEF PlatformSpec, Notices!Spec

\* Where the focus is on the workspace, what is marked as sent was settled.
THEOREM SentWasSettledHolds == PlatformSpec => []SentWasSettled
<1>1. PlatformInit /\ focus = "workspace" => Notices!Init
  BY DEF PlatformInit
<1>2. (focus # "workspace" => SentWasSettled) /\ (Notices!SentWasSettled => SentWasSettled)
  BY DEF SentWasSettled
<1>3. focus # "workspace" /\ [PlatformNext]_platformVars => (focus # "workspace")'
  BY PlatformStep
<1>4. focus = "workspace" /\ [PlatformNext]_platformVars
      => (focus = "workspace")' /\ [Notices!Next]_(Notices!vars)
  BY PlatformStep
<1>5. focus = "workspace" \/ focus # "workspace"
  OBVIOUS
<1>6. QED
  BY <1>1, <1>2, <1>3, <1>4, <1>5, SentNoticesWereSettled, PTL DEF PlatformSpec, Notices!Spec

=============================================================================
