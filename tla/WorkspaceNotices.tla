-------------------------- MODULE WorkspaceNotices --------------------------
(***************************************************************************)
(* Tasks of the workspace, their notifications and the web push sender     *)
(* (workspace.service.ts, notifications.service.ts).  Saving a task writes *)
(* the task first and then its notification, which it looks up and upserts *)
(* by id; the sender takes the due notifications that have not been sent,  *)
(* pushes each to the owner's subscriptions and marks it.  Nothing keeps   *)
(* saves apart, nor activations of the sender, and the two share the       *)
(* column sentAt.                                                          *)
(*                                                                         *)
(* One owner.  Every save of a task is a revision; a notification carries  *)
(* the revision it was written for (title, time).  Reminders are tasks     *)
(* that always have a time.  The batch of 25 is taken as large enough.     *)
(***************************************************************************)
EXTENDS Naturals

CONSTANTS
    Task,         \* the ids of tasks
    NoNoticeId,   \* nothing found
    Save,         \* POST tasks and PUT tasks/:id requests, each made once
    Pass,         \* activations of the sender
    Endpoint,     \* the owner's browsers
    MaxRevision,  \* bound: how many times tasks are saved
    Crashes       \* the API may die and restart, once

VARIABLES
    tasks,          \* the table PortalTask
    notices,        \* the table PortalNotification
    subscriptions,  \* the table PushSubscription
    reached,        \* revisions whose scheduledAt has passed
    saves,          \* the local variables of each save
    passes,         \* the local variables of each activation
    revision,       \* the last revision
    pushes,         \* history: pushes delivered, [rev, to, again]
    settled,        \* history: revisions a pass went through, or saved as done
    crossed,        \* history: tasks of which two saves were under way at once
    raced,          \* history: notifications written while a pass held them
    overlapped,     \* history: notifications two passes held at once
    died            \* the API has died

vars == <<tasks, notices, subscriptions, reached, saves, passes, revision,
          pushes, settled, crossed, raced, overlapped, died>>

-----------------------------------------------------------------------------
Revision == 1..MaxRevision
Notice == Revision  \* a notification's id is the revision that created it
TaskRow == [rev : Revision, dueDate : BOOLEAN, isDone : BOOLEAN]
NoTask == [rev |-> 0]
NoticeRow == [taskId : Task, rev : Revision, sentAt : BOOLEAN]
NoNotice == [rev |-> 0]
Held == [id : Notice, rev : Revision]

Idle == [at |-> "idle"]
Done == [at |-> "done"]
Saving == [at : {"created", "updated"}, of : Task, row : TaskRow]
Found == [at : {"found"}, of : Task, row : TaskRow, id : Notice \cup {NoNoticeId}]
Batch == [at : {"batch"}, left : SUBSET Held]
Sending == [at : {"sending"}, left : SUBSET Held, now : Held, to : SUBSET Endpoint]

SavingTask(t) == {w \in Save : saves[w].at \notin {"idle", "done"} /\ saves[w].of = t}
Holding(n) == {p \in Pass :
    \/ passes[p].at \in {"batch", "sending"} /\ \E h \in passes[p].left : h.id = n
    \/ passes[p].at = "sending" /\ passes[p].now.id = n}
NoticesOf(t) == {n \in Notice : notices[n] # NoNotice /\ notices[n].taskId = t}

Init ==
    /\ tasks = [t \in Task |-> NoTask]
    /\ notices = [n \in Notice |-> NoNotice]
    /\ subscriptions \in SUBSET Endpoint
    /\ reached = {}
    /\ saves = [w \in Save |-> Idle]
    /\ passes = [p \in Pass |-> Idle]
    /\ revision = 0
    /\ pushes = {} /\ settled = {} /\ crossed = {} /\ raced = {} /\ overlapped = {}
    /\ died = FALSE

-----------------------------------------------------------------------------
(* Saving a task.                                                          *)

SenderUnchanged == UNCHANGED <<subscriptions, reached, passes, pushes, overlapped, died>>

\* The first statement of createTask and updateTask.
WriteTask(w, t, dueDate, isDone) ==
    LET row == [rev |-> revision + 1, dueDate |-> dueDate, isDone |-> isDone]
        creates == tasks[t] = NoTask
    IN  /\ saves[w] = Idle
        /\ revision < MaxRevision
        /\ creates => SavingTask(t) = {}
        /\ revision' = revision + 1
        /\ tasks' = [tasks EXCEPT ![t] = row]
        /\ saves' = [saves EXCEPT ![w] =
               IF creates /\ ~dueDate THEN Done
               ELSE [at |-> IF creates THEN "created" ELSE "updated", of |-> t, row |-> row]]
        /\ crossed' = IF SavingTask(t) = {} THEN crossed ELSE crossed \cup {t}
        /\ SenderUnchanged /\ UNCHANGED <<notices, raced, settled>>

Noticed(q, n, sent) ==
    notices' = [notices EXCEPT ![n] =
        [taskId |-> q.of, rev |-> q.row.rev, sentAt |-> sent]]

\* createTask goes on to dispatchEvent.  The rule of workspace.task may keep
\* the portal's notification back; a task that is gone throws.
Dispatch(w) ==
    LET q == saves[w] IN
    /\ q.at = "created"
    /\ \/ tasks[q.of] # NoTask /\ Noticed(q, q.row.rev, FALSE)
       \/ UNCHANGED notices
    /\ saves' = [saves EXCEPT ![w] = Done]
    /\ SenderUnchanged /\ UNCHANGED <<tasks, revision, crossed, raced, settled>>

\* Fault: a notification that was sent is kept.
DeleteNoticesUnsent(w) ==
    LET q == saves[w] IN
    /\ q.at = "updated" /\ ~q.row.dueDate
    /\ notices' = [n \in Notice |->
           IF n \in NoticesOf(q.of) /\ ~notices[n].sentAt THEN NoNotice ELSE notices[n]]
    /\ saves' = [saves EXCEPT ![w] = Done]
    /\ SenderUnchanged /\ UNCHANGED <<tasks, revision, crossed, raced, settled>>

\* syncTaskNotification: without a date there is nothing to notify of...
DeleteNotices(w) ==
    LET q == saves[w] IN
    /\ q.at = "updated" /\ ~q.row.dueDate
    /\ notices' = [n \in Notice |-> IF n \in NoticesOf(q.of) THEN NoNotice ELSE notices[n]]
    /\ saves' = [saves EXCEPT ![w] = Done]
    /\ SenderUnchanged /\ UNCHANGED <<tasks, revision, crossed, raced, settled>>

\* ...and with one, the notification is looked up...
FindNotice(w) ==
    LET q == saves[w] IN
    /\ q.at = "updated" /\ q.row.dueDate
    /\ \E id \in IF NoticesOf(q.of) = {} THEN {NoNoticeId} ELSE NoticesOf(q.of) :
           saves' = [saves EXCEPT ![w] = [at |-> "found", of |-> q.of, row |-> q.row, id |-> id]]
    /\ SenderUnchanged /\ UNCHANGED <<tasks, notices, revision, crossed, raced, settled>>

\* Fault: what was sent stays sent when the task is moved.
UpsertNoticeSent(w) ==
    LET q == saves[w]
        exists == q.id # NoNoticeId /\ notices[q.id] # NoNotice
    IN  /\ q.at = "found"
        /\ tasks[q.of] # NoTask
        /\ IF exists THEN Noticed(q, q.id, q.row.isDone \/ notices[q.id].sentAt)
           ELSE Noticed(q, q.row.rev, q.row.isDone)
        /\ raced' = IF exists /\ Holding(q.id) # {} THEN raced \cup {q.id} ELSE raced
        /\ settled' = IF q.row.isDone THEN settled \cup {q.row.rev} ELSE settled
        /\ saves' = [saves EXCEPT ![w] = Done]
        /\ SenderUnchanged /\ UNCHANGED <<tasks, revision, crossed>>

\* ...and upserted: a row that is gone by now is created again.
UpsertNotice(w) ==
    LET q == saves[w]
        exists == q.id # NoNoticeId /\ notices[q.id] # NoNotice
    IN  /\ q.at = "found"
        /\ tasks[q.of] # NoTask
        /\ Noticed(q, IF exists THEN q.id ELSE q.row.rev, q.row.isDone)
        /\ raced' = IF exists /\ Holding(q.id) # {} THEN raced \cup {q.id} ELSE raced
        /\ settled' = IF q.row.isDone THEN settled \cup {q.row.rev} ELSE settled
        /\ saves' = [saves EXCEPT ![w] = Done]
        /\ SenderUnchanged /\ UNCHANGED <<tasks, revision, crossed>>

\* The task is gone: the foreign key refuses the notification.
SaveFails(w) ==
    /\ saves[w].at = "found"
    /\ tasks[saves[w].of] = NoTask
    /\ saves' = [saves EXCEPT ![w] = Done]
    /\ SenderUnchanged /\ UNCHANGED <<tasks, notices, revision, crossed, raced, settled>>

\* The notifications go with the task (ON DELETE CASCADE).
RemoveTask(t) ==
    /\ tasks[t] # NoTask
    /\ tasks' = [tasks EXCEPT ![t] = NoTask]
    /\ notices' = [n \in Notice |-> IF n \in NoticesOf(t) THEN NoNotice ELSE notices[n]]
    /\ SenderUnchanged /\ UNCHANGED <<saves, revision, crossed, raced, settled>>

-----------------------------------------------------------------------------
(* sendReadyPushNotifications.                                             *)

SavesUnchanged == UNCHANGED <<tasks, saves, revision, crossed, raced>>

TimePasses(r) ==
    /\ r \notin reached /\ r <= revision
    /\ reached' = reached \cup {r}
    /\ SavesUnchanged
    /\ UNCHANGED <<notices, subscriptions, passes, pushes, settled, overlapped, died>>

Ready == {h \in Held : /\ notices[h.id] # NoNotice /\ notices[h.id].rev = h.rev
                       /\ ~notices[h.id].sentAt /\ h.rev \in reached}

\* The query of an activation.
TakeBatch(p) ==
    /\ passes[p] = Idle
    /\ passes' = [passes EXCEPT ![p] = IF Ready = {} THEN Done ELSE [at |-> "batch", left |-> Ready]]
    /\ overlapped' = overlapped \cup {n \in {h.id : h \in Ready} : Holding(n) # {}}
    /\ SavesUnchanged
    /\ UNCHANGED <<notices, subscriptions, reached, pushes, settled, died>>

\* The subscriptions of the recipient, and all sends at once.
StartSending(p, h) ==
    /\ passes[p].at = "batch" /\ h \in passes[p].left
    /\ passes' = [passes EXCEPT ![p] =
           [at |-> "sending", left |-> passes[p].left \ {h}, now |-> h, to |-> subscriptions]]
    /\ settled' = settled \cup {h.rev}
    /\ SavesUnchanged
    /\ UNCHANGED <<notices, subscriptions, reached, pushes, overlapped, died>>

Answered(p, e) ==
    /\ passes[p].at = "sending" /\ e \in passes[p].to
    /\ passes' = [passes EXCEPT ![p] = [passes[p] EXCEPT !.to = passes[p].to \ {e}]]

Deliver(p, e) ==
    LET rev == passes[p].now.rev IN
    /\ Answered(p, e)
    /\ pushes' = pushes \cup {[rev |-> rev, to |-> e,
                               again |-> \E x \in pushes : x.rev = rev /\ x.to = e]}
    /\ SavesUnchanged
    /\ UNCHANGED <<notices, subscriptions, reached, settled, overlapped, died>>

\* The push service refuses: that is logged.
Refuse(p, e) ==
    /\ Answered(p, e)
    /\ SavesUnchanged
    /\ UNCHANGED <<notices, subscriptions, reached, pushes, settled, overlapped, died>>

\* The browser is gone (404, 410): its subscription is deleted.
Expire(p, e) ==
    /\ Answered(p, e)
    /\ e \in subscriptions
    /\ subscriptions' = subscriptions \ {e}
    /\ SavesUnchanged
    /\ UNCHANGED <<notices, reached, pushes, settled, overlapped, died>>

\* Fault: the notification stays as it is until the pass is over.
MarkSentLate(p) ==
    LET now == passes[p].now IN
    /\ passes[p].at = "sending" /\ passes[p].to = {}
    /\ notices[now.id] # NoNotice
    /\ notices' = IF passes[p].left # {} THEN notices
                  ELSE [notices EXCEPT ![now.id] = [notices[now.id] EXCEPT !.sentAt = TRUE]]
    /\ passes' = [passes EXCEPT ![p] = IF passes[p].left = {} THEN Done
                                       ELSE [at |-> "batch", left |-> passes[p].left]]
    /\ SavesUnchanged
    /\ UNCHANGED <<subscriptions, reached, pushes, settled, overlapped, died>>

\* The row is marked, whatever it says by now.
MarkSent(p) ==
    LET now == passes[p].now IN
    /\ passes[p].at = "sending" /\ passes[p].to = {}
    /\ notices[now.id] # NoNotice
    /\ notices' = [notices EXCEPT ![now.id] = [notices[now.id] EXCEPT !.sentAt = TRUE]]
    /\ passes' = [passes EXCEPT ![p] = IF passes[p].left = {} THEN Done
                                       ELSE [at |-> "batch", left |-> passes[p].left]]
    /\ SavesUnchanged
    /\ UNCHANGED <<subscriptions, reached, pushes, settled, overlapped, died>>

\* Requests and activations end with the process.
AllDie ==
    /\ died' = TRUE
    /\ saves' = [w \in Save |-> IF saves[w] = Idle THEN Idle ELSE Done]
    /\ passes' = [p \in Pass |-> IF passes[p] = Idle THEN Idle ELSE Done]
    /\ UNCHANGED <<tasks, notices, subscriptions, reached, revision, pushes, settled,
                   crossed, raced, overlapped>>

\* A notification or a subscription that is gone makes the pass throw, which
\* nothing catches: the rejection ends the process.
Throw(p) ==
    /\ passes[p].at = "sending"
    /\ \/ passes[p].to = {} /\ notices[passes[p].now.id] = NoNotice
       \/ passes[p].to \ subscriptions # {}
    /\ AllDie

Crash == Crashes /\ ~died /\ AllDie

Subscribe(e) ==
    /\ subscriptions' \in {subscriptions \cup {e}, subscriptions \ {e}} \ {subscriptions}
    /\ SavesUnchanged
    /\ UNCHANGED <<notices, reached, passes, pushes, settled, overlapped, died>>

-----------------------------------------------------------------------------
Next ==
    \/ \E w \in Save :
           \/ \E t \in Task, dueDate, isDone \in BOOLEAN : WriteTask(w, t, dueDate, isDone)
           \/ Dispatch(w) \/ DeleteNotices(w) \/ FindNotice(w) \/ UpsertNotice(w) \/ SaveFails(w)
    \/ \E t \in Task : RemoveTask(t)
    \/ \E r \in Revision : TimePasses(r)
    \/ \E p \in Pass :
           \/ TakeBatch(p) \/ MarkSent(p) \/ Throw(p)
           \/ \E h \in Held : StartSending(p, h)
           \/ \E e \in Endpoint : Deliver(p, e) \/ Refuse(p, e) \/ Expire(p, e)
    \/ \E e \in Endpoint : Subscribe(e)
    \/ Crash

Spec == Init /\ [][Next]_vars

-----------------------------------------------------------------------------
\* The tables and the local variables have their types.
TypeOK ==
    /\ tasks \in [Task -> TaskRow \cup {NoTask}]
    /\ notices \in [Notice -> NoticeRow \cup {NoNotice}]
    /\ subscriptions \subseteq Endpoint /\ reached \subseteq Revision
    /\ saves \in [Save -> {Idle, Done} \cup Saving \cup Found]
    /\ passes \in [Pass -> {Idle, Done} \cup Batch \cup Sending]
    /\ revision \in 0..MaxRevision
    /\ pushes \subseteq [rev : Revision, to : Endpoint, again : BOOLEAN]
    /\ settled \subseteq Revision /\ crossed \subseteq Task
    /\ raced \subseteq Notice /\ overlapped \subseteq Notice /\ died \in BOOLEAN

\* When no save is under way, a task has at most one notification, and that
\* is about the task as it is; a task without date has none.  Unless saves of
\* the task crossed or one died midway.
NoticeFollowsTask ==
    \A t \in Task \ crossed : tasks[t] # NoTask /\ SavingTask(t) = {} /\ ~died =>
        /\ \A n, m \in NoticesOf(t) : n = m
        /\ \A n \in NoticesOf(t) : tasks[t].dueDate /\ notices[n].rev = tasks[t].rev

\* A revision of a task is pushed to a browser at most once, whatever is
\* saved, deleted and subscribed in between, unless two activations held its
\* notification at once or the API died before it was marked.
PushedOnce ==
    overlapped = {} /\ ~died => \A x \in pushes : ~x.again

\* What is marked as sent went through a pass in this very revision or was
\* saved as done, unless it was saved while a pass held it.
SentWasSettled ==
    \A n \in Notice \ raced : notices[n] # NoNotice /\ notices[n].sentAt =>
        notices[n].rev \in settled
=============================================================================
