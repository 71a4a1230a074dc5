----------------------------- MODULE EmailQueue -----------------------------
(***************************************************************************)
(* The e-mail queue of the notification centre                             *)
(* (notifications/notifications.service.ts).                               *)
(*                                                                         *)
(* Messages are rows of notification_email_queue.  Workers take a snapshot *)
(* of the rows that are due, walk through it, and for each row read the    *)
(* row again, read the active SMTP servers, mark the row SENDING, offer    *)
(* the message to one server after another and record the outcome.  Every  *)
(* await of the code ends an action: between two of them any other         *)
(* worker, a request of an administrator or a crash may come.              *)
(*                                                                         *)
(* A Ticker is a worker started by the sixty-second timer; it respects the *)
(* emailQueueProcessing flag.  A Caller is a worker started by an HTTP     *)
(* request or by the backup centre; it ignores the flag.                   *)
(***************************************************************************)
EXTENDS Naturals, FiniteSets

CONSTANTS
    Email,          \* the rows, numbered in the order of their createdAt
    Server,         \* the configured SMTP servers
    Ticker,         \* the timer's activations that may be alive at one time
    Caller,         \* the requests that may be alive at one time
    Priorities,     \* values of the priority column
    RetryLimits,    \* values of the maxRetry column
    TimerLimit,     \* processEmailQueue(limit = 25)
    BackupLimit,    \* processEmailQueue(5), the backup centre's call
    MaxRequests,    \* bound: requests that start a Caller
    MaxFaults,      \* bound: crashes of the API and rejected database calls
    AnswersLost     \* whether a relay may take a message and its answer be lost

ASSUME EmailAssumption == Email \subseteq Nat \ {0} /\ IsFiniteSet(Email)
ASSUME WorkerAssumption == Ticker \cap Caller = {}
ASSUME ColumnAssumption == Priorities \subseteq Nat /\ RetryLimits \subseteq Nat
ASSUME LimitAssumption == TimerLimit \in Nat \ {0} /\ BackupLimit \in Nat \ {0}
ASSUME BoundAssumption == MaxRequests \in Nat /\ MaxFaults \in Nat
ASSUME AnswerAssumption == AnswersLost \in BOOLEAN

VARIABLES
    queue,       \* the table: one row per message
    active,      \* the SMTP servers with isActive = true
    processing,  \* emailQueueProcessing
    work,        \* what each worker holds in its local variables
    copies,      \* observation: copies of each message the relays accepted
    rounds,      \* observation: rounds in which every server tried refused it
    requests,    \* requests made so far
    faults       \* crashes and rejected database calls so far

vars == <<queue, active, processing, work, copies, rounds, requests, faults>>

Worker == Ticker \cup Caller

NoEmail == 0

\* NotificationQueueStatus; "ABSENT" is a row not created yet.
Waiting == {"PENDING", "RETRY"}
Settled == {"SENT", "FAILED", "CANCELLED"}
Status == {"ABSENT", "SENDING"} \cup Waiting \cup Settled

Row == [status: Status, retryCount: Nat, maxRetry: Nat, priority: Nat, due: BOOLEAN]

NoRow == [status |-> "ABSENT", retryCount |-> 0, maxRetry |-> 0,
          priority |-> 0, due |-> FALSE]

\* Where a worker awaits: "loop" is the for-loop's next row, "servers" the list
\* of servers, "mark" the SENDING update, "relay" sendMail, "settle" the SENT
\* update.
Place == {"idle", "loop", "servers", "mark", "relay", "settle"}

Work == [at: Place, batch: SUBSET Email, email: Email \cup {NoEmail},
         retryCount: Nat, servers: SUBSET Server]

Idle == [at |-> "idle", batch |-> {}, email |-> NoEmail,
         retryCount |-> 0, servers |-> {}]

Exists(e) == queue[e].status # "ABSENT"

TypeOK ==
    /\ queue \in [Email -> Row]
    /\ active \subseteq Server
    /\ processing \in BOOLEAN
    /\ work \in [Worker -> Work]
    /\ copies \in [Email -> Nat]
    /\ rounds \in [Email -> Nat]
    /\ requests \in 0..MaxRequests
    /\ faults \in 0..MaxFaults

Init ==
    /\ queue = [e \in Email |-> NoRow]
    /\ active = Server
    /\ processing = FALSE
    /\ work = [w \in Worker |-> Idle]
    /\ copies = [e \in Email |-> 0]
    /\ rounds = [e \in Email |-> 0]
    /\ requests = 0
    /\ faults = 0

-----------------------------------------------------------------------------
(* The rows and the servers, as requests change them.                      *)

\* queueEmail: a new PENDING row, for now or for a later scheduledAt.
QueueEmail(e) ==
    /\ ~Exists(e)
    /\ \A f \in Email : f < e => Exists(f)
    /\ \E p \in Priorities, m \in RetryLimits, d \in BOOLEAN :
           queue' = [queue EXCEPT ![e] = [status |-> "PENDING", retryCount |-> 0,
                                          maxRetry |-> m, priority |-> p, due |-> d]]
    /\ UNCHANGED <<active, processing, work, copies, rounds, requests, faults>>

\* scheduledAt passes.
BecomeDue(e) ==
    /\ Exists(e) /\ ~queue[e].due
    /\ queue' = [queue EXCEPT ![e].due = TRUE]
    /\ UNCHANGED <<active, processing, work, copies, rounds, requests, faults>>

\* Fault: the status is written with the other spelling.
CancelMisspelt(e) ==
    /\ Exists(e)
    /\ queue' = [queue EXCEPT ![e].status = "CANCELED"]
    /\ UNCHANGED <<active, processing, work, copies, rounds, requests, faults>>

\* cancelQueuedEmail looks at no status: any row becomes CANCELLED.
CancelQueuedEmail(e) ==
    /\ Exists(e)
    /\ queue' = [queue EXCEPT ![e].status = "CANCELLED"]
    /\ UNCHANGED <<active, processing, work, copies, rounds, requests, faults>>

\* An administrator enables or disables a server.
ToggleServer(s) ==
    /\ active' = IF s \in active THEN active \ {s} ELSE active \cup {s}
    /\ UNCHANGED <<queue, processing, work, copies, rounds, requests, faults>>

-----------------------------------------------------------------------------
(* Starting a worker.                                                      *)

Due == {e \in Email : queue[e].status \in Waiting /\ queue[e].due}

\* orderBy priority, createdAt
Before(e, f) ==
    \/ queue[e].priority < queue[f].priority
    \/ queue[e].priority = queue[f].priority /\ e < f

Snapshot(limit) ==
    {e \in Due : Cardinality({f \in Due : Before(f, e)}) < limit}

Start(w, batch) ==
    /\ work[w].at = "idle"
    /\ work' = [work EXCEPT ![w] = [Idle EXCEPT !.at = "loop", !.batch = batch]]
    /\ UNCHANGED <<queue, active, copies, rounds, faults>>

\* Fault: the timer's handler forgets the emailQueueProcessing test.
TickUnguarded(t) ==
    /\ processing' = TRUE
    /\ Start(t, Snapshot(TimerLimit))
    /\ UNCHANGED requests

\* The timer fires: processEmailQueueSafely tests and sets the flag with no
\* await in between.
Tick(t) ==
    /\ ~processing
    /\ processing' = TRUE
    /\ Start(t, Snapshot(TimerLimit))
    /\ UNCHANGED requests

Request(c, batch) ==
    /\ requests < MaxRequests
    /\ requests' = requests + 1
    /\ Start(c, batch)
    /\ UNCHANGED processing

\* POST admin/email-queue/process, and the backup centre after its own mail.
ProcessEmailQueue(c) ==
    \E limit \in {TimerLimit, BackupLimit} : Request(c, Snapshot(limit))

\* POST admin/email-queue/:id/send: sendQueuedEmail on any row there is.
SendOne(c, e) == Exists(e) /\ Request(c, {e})

-----------------------------------------------------------------------------
(* One worker's walk through its batch.                                    *)

\* Fault: no finally block.
StopKeepsFlag(w) ==
    /\ work' = [work EXCEPT ![w] = Idle]
    /\ processing' = IF w \in Ticker /\ work[w].at = "loop" THEN FALSE ELSE processing

\* A worker ends: its local variables go, and a timer's worker runs the
\* finally block that clears the flag.
Stop(w) ==
    /\ work' = [work EXCEPT ![w] = Idle]
    /\ processing' = IF w \in Ticker THEN FALSE ELSE processing

Finish(w) ==
    /\ work[w].at = "loop" /\ work[w].batch = {}
    /\ Stop(w)
    /\ UNCHANGED <<queue, active, copies, rounds, requests, faults>>

\* sendQueuedEmail reads the row again, whatever its status is by now, and
\* keeps its retryCount.
ReadRow(w, e) ==
    /\ work[w].at = "loop" /\ e \in work[w].batch
    /\ \A f \in work[w].batch : f # e => Before(e, f)
    /\ work' = [work EXCEPT ![w] = [@ EXCEPT !.at = "servers",
                                             !.email = e,
                                             !.batch = work[w].batch \ {e},
                                             !.retryCount = queue[e].retryCount]]
    /\ UNCHANGED <<queue, active, processing, copies, rounds, requests, faults>>

\* getActiveSmtpServers
ReadServers(w) ==
    /\ work[w].at = "servers" /\ active # {}
    /\ work' = [work EXCEPT ![w] = [@ EXCEPT !.at = "mark", !.servers = active]]
    /\ UNCHANGED <<queue, active, processing, copies, rounds, requests, faults>>

\* Fault: the row is marked SENDING before the servers are looked up.
NoServerAfterMark(w) ==
    /\ work[w].at = "servers" /\ active = {}
    /\ Stop(w)
    /\ queue' = [queue EXCEPT ![work[w].email].status = "SENDING"]
    /\ UNCHANGED <<active, copies, rounds, requests, faults>>

\* No active server: the exception ends the worker, the rest of its batch with it.
NoServer(w) ==
    /\ work[w].at = "servers" /\ active = {}
    /\ Stop(w)
    /\ UNCHANGED <<queue, active, copies, rounds, requests, faults>>

MarkSending(w) ==
    /\ work[w].at = "mark"
    /\ queue' = [queue EXCEPT ![work[w].email].status = "SENDING"]
    /\ work' = [work EXCEPT ![w].at = "relay"]
    /\ UNCHANGED <<active, processing, copies, rounds, requests, faults>>

\* The servers are tried in order; which one comes first is left open.
Accept(w, s) ==
    /\ work[w].at = "relay" /\ s \in work[w].servers
    /\ copies' = [copies EXCEPT ![work[w].email] = @ + 1]
    /\ work' = [work EXCEPT ![w] = [@ EXCEPT !.at = "settle", !.servers = work[w].servers \ {s}]]
    /\ UNCHANGED <<queue, active, processing, rounds, requests, faults>>

\* Fault: the first answer of any kind ends the loop with SENT.
RefuseSettles(w, s) ==
    /\ work[w].at = "relay" /\ s \in work[w].servers
    /\ work' = [work EXCEPT ![w] = [@ EXCEPT !.at = "settle", !.servers = work[w].servers \ {s}]]
    /\ UNCHANGED <<queue, active, processing, copies, rounds, requests, faults>>

Refuse(w, s) ==
    /\ work[w].at = "relay" /\ s \in work[w].servers
    /\ work' = [work EXCEPT ![w].servers = @ \ {s}]
    /\ UNCHANGED <<queue, active, processing, copies, rounds, requests, faults>>

\* The server took the message and the connection timed out before its answer
\* came: sendMail rejects, and the worker goes on as if it had been refused.
LoseAnswer(w, s) ==
    /\ AnswersLost
    /\ work[w].at = "relay" /\ s \in work[w].servers
    /\ copies' = [copies EXCEPT ![work[w].email] = @ + 1]
    /\ work' = [work EXCEPT ![w].servers = @ \ {s}]
    /\ UNCHANGED <<queue, active, processing, rounds, requests, faults>>

\* The worker goes on with the next row of its batch.
NextRow(w) ==
    work' = [work EXCEPT ![w] = [Idle EXCEPT !.at = "loop", !.batch = work[w].batch]]

MarkSent(w) ==
    /\ work[w].at = "settle"
    /\ queue' = [queue EXCEPT ![work[w].email].status = "SENT"]
    /\ NextRow(w)
    /\ UNCHANGED <<active, processing, copies, rounds, requests, faults>>

\* Faults: the limit compared with <= instead of <, or with the next count.
MarkRefusedOneMore(w) ==
    LET e == work[w].email
        retryCount == work[w].retryCount + 1
    IN  /\ work[w].at = "relay" /\ work[w].servers = {}
        /\ queue' = [queue EXCEPT ![e] = [@ EXCEPT
               !.status = IF retryCount <= queue[e].maxRetry THEN "RETRY" ELSE "FAILED",
               !.retryCount = retryCount]]
        /\ rounds' = [rounds EXCEPT ![e] = @ + 1]
        /\ NextRow(w)
        /\ UNCHANGED <<active, processing, copies, requests, faults>>

MarkRefusedOneLess(w) ==
    LET e == work[w].email
        retryCount == work[w].retryCount + 1
    IN  /\ work[w].at = "relay" /\ work[w].servers = {}
        /\ queue' = [queue EXCEPT ![e] = [@ EXCEPT
               !.status = IF retryCount + 1 < queue[e].maxRetry THEN "RETRY" ELSE "FAILED",
               !.retryCount = retryCount]]
        /\ rounds' = [rounds EXCEPT ![e] = @ + 1]
        /\ NextRow(w)
        /\ UNCHANGED <<active, processing, copies, requests, faults>>

\* Every server refused.  The count written is the one read at the start plus
\* one, whatever the row says by now.
MarkRefused(w) ==
    LET e == work[w].email
        retryCount == work[w].retryCount + 1
    IN  /\ work[w].at = "relay" /\ work[w].servers = {}
        /\ queue' = [queue EXCEPT ![e] = [@ EXCEPT
               !.status = IF retryCount < queue[e].maxRetry THEN "RETRY" ELSE "FAILED",
               !.retryCount = retryCount]]
        /\ rounds' = [rounds EXCEPT ![e] = @ + 1]
        /\ NextRow(w)
        /\ UNCHANGED <<active, processing, copies, requests, faults>>

\* Fault: the SENT update is awaited in the try block, and its rejection is
\* taken for the relay's.
DbErrorCaught(w) ==
    /\ faults < MaxFaults
    /\ faults' = faults + 1
    /\ work[w].at = "settle"
    /\ work' = [work EXCEPT ![w].at = "relay"]
    /\ UNCHANGED <<queue, active, processing, copies, rounds, requests>>

\* A database call is rejected.  Nothing here catches it, the SENT update
\* included (it is returned from the try block without an await).
DbError(w) ==
    /\ faults < MaxFaults
    /\ faults' = faults + 1
    /\ \/ work[w].at \in {"servers", "mark", "settle"}
       \/ work[w].at = "loop" /\ work[w].batch # {}
       \/ work[w].at = "relay" /\ work[w].servers = {}
    /\ Stop(w)
    /\ UNCHANGED <<queue, active, copies, rounds, requests>>

\* Fault: the restart puts the rows found in SENDING back to RETRY.
CrashRequeues ==
    /\ faults < MaxFaults
    /\ faults' = faults + 1
    /\ work' = [w \in Worker |-> Idle]
    /\ processing' = FALSE
    /\ queue' = [e \in Email |-> IF queue[e].status = "SENDING"
                               THEN [queue[e] EXCEPT !.status = "RETRY"] ELSE queue[e]]
    /\ UNCHANGED <<active, copies, rounds, requests>>

\* The API process dies and restarts: onModuleInit restores nothing.
Crash ==
    /\ faults < MaxFaults
    /\ faults' = faults + 1
    /\ work' = [w \in Worker |-> Idle]
    /\ processing' = FALSE
    /\ UNCHANGED <<queue, active, copies, rounds, requests>>

Step(w) ==
    \/ Finish(w) \/ ReadServers(w) \/ NoServer(w) \/ MarkSending(w)
    \/ MarkSent(w) \/ MarkRefused(w)
    \/ \E e \in Email : ReadRow(w, e)
    \/ \E s \in Server : Accept(w, s) \/ Refuse(w, s)

Next ==
    \/ \E e \in Email : QueueEmail(e) \/ BecomeDue(e) \/ CancelQueuedEmail(e)
    \/ \E s \in Server : ToggleServer(s)
    \/ \E t \in Ticker : Tick(t)
    \/ \E c \in Caller : ProcessEmailQueue(c) \/ \E e \in Email : SendOne(c, e)
    \/ \E w \in Worker : Step(w) \/ DbError(w) \/ \E s \in Server : LoseAnswer(w, s)
    \/ Crash

Spec == Init /\ [][Next]_vars

\* What the event loop and the timer guarantee: an await that can go on does,
\* the timer goes off again and again, and time passes.  Requests,
\* administrators, crashes and what a server answers are not forced.
Fairness ==
    /\ \A w \in Worker : WF_vars(Step(w))
    /\ WF_vars(\E t \in Ticker : Tick(t))
    /\ \A e \in Email : WF_vars(BecomeDue(e))

FairSpec == Spec /\ Fairness

-----------------------------------------------------------------------------
(* Properties.                                                             *)

\* A worker is on the message or has it ahead in its batch.
Held(e) == \E w \in Worker : e \in work[w].batch \/ work[w].email = e

\* Whoever sends, however the workers overlap: a row says SENT only if some
\* relay took a copy (the SENT update follows an accepted sendMail).
SentMeansAccepted == \A e \in Email : queue[e].status = "SENT" => copies[e] > 0

\* The retry counter never claims more rounds than took place: workers that
\* overlap may lose counts (sendQueuedEmail writes the count it read plus one)
\* but never invent them, so no message is FAILED early.
NotFailedEarly ==
    \A e \in Email :
        /\ queue[e].retryCount <= rounds[e]
        /\ queue[e].status = "FAILED" => rounds[e] >= queue[e].maxRetry

\* As long as no call fails half-way, a row marked SENDING has a worker that
\* will settle it: the query for waiting rows never looks at SENDING, so a row
\* nobody holds would stay there for good.
SendingIsHeld ==
    faults = 0 => \A e \in Email : queue[e].status = "SENDING" => Held(e)

\* With the timer alone, the emailQueueProcessing flag keeps a message from
\* going out twice, through cancellations, crashes and database errors.
AtMostOneCopy == \A e \in Email : copies[e] <= 1

\* With the timer alone, a message gets the rounds its maxRetry allows and no
\* more (one, when maxRetry is 0: the count is compared after the attempt).
RoundsWithinLimit ==
    \A e \in Email : rounds[e] <= IF queue[e].maxRetry = 0 THEN 1 ELSE queue[e].maxRetry

\* With the timer alone, a row the administrator sees as FAILED was not
\* delivered, so sending it again by hand makes no duplicate.
FailedMeansUndelivered ==
    \A e \in Email : queue[e].status = "FAILED" => copies[e] = 0

\* The guide's automatic processing of the queue: with a server active from some
\* time on, every message queued ends SENT, FAILED or CANCELLED for good.
AutomaticProcessing ==
    <>[](active # {}) =>
        \A e \in Email : Exists(e) ~> [](queue[e].status \in Settled)

\* That is what happens as long as the API does not crash and no database call is
\* rejected, whatever the administrators' requests send, repeat or cancel.
EveryMailSettles == [](faults = 0) => AutomaticProcessing

\* What each message has come to, as EmailOutbox sees it.  A message that is
\* cancelled while a worker has it is still waiting: the worker decides.
Fate(e) ==
    CASE ~Exists(e) -> "none"
      [] Exists(e) /\ copies[e] > 0 ->
             IF copies[e] = 1 /\ queue[e].status \in {"SENDING", "SENT", "CANCELLED"}
             THEN "delivered" ELSE "broken"
      [] Exists(e) /\ copies[e] = 0 ->
             IF Held(e) \/ queue[e].status \in Waiting THEN "waiting"
             ELSE CASE queue[e].status = "SENDING" -> "lost"
                    [] queue[e].status = "FAILED" -> "abandoned"
                    [] queue[e].status = "CANCELLED" -> "withdrawn"
                    [] queue[e].status = "SENT" -> "broken"

Outbox == INSTANCE EmailOutbox WITH fate <- [e \in Email |-> Fate(e)]

\* With the timer alone, the queue implements EmailOutbox.
ImplementsOutbox == Outbox!Spec

=============================================================================
