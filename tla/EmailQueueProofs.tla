-------------------------- MODULE EmailQueueProofs --------------------------
(***************************************************************************)
(* Theorems about EmailQueue, for every number of messages, servers and    *)
(* workers and every bound.                                                *)
(***************************************************************************)
EXTENDS EmailQueue, TLAPS

-----------------------------------------------------------------------------
(* Type correctness.                                                       *)

\* The local variables of a worker that does nothing, and of one that has just
\* taken a batch or has just done with a row.
LEMMA IdleType == Idle \in Work
BY DEF Idle, Work, Place

\* A worker that has fetched its batch holds typed variables.
LEMMA LoopType ==
    ASSUME NEW batch \in SUBSET Email
    PROVE  [Idle EXCEPT !.at = "loop", !.batch = batch] \in Work
BY DEF Idle, Work, Place

\* The query for due rows returns rows of the table.
LEMMA SnapshotType == \A limit : Snapshot(limit) \in SUBSET Email
BY DEF Snapshot, Due

\* A row not created yet has the type of a row.
LEMMA NoRowType == NoRow \in Row
BY DEF NoRow, Row, Status, Waiting, Settled

\* A worker that starts keeps the types.
LEMMA StartType ==
    ASSUME TypeOK, NEW w \in Worker, NEW batch \in SUBSET Email, Start(w, batch)
    PROVE  work' \in [Worker -> Work]
BY LoopType DEF Start, TypeOK

\* What the workers write into the table are rows.
LEMMA StatusType ==
    ASSUME TypeOK, NEW e, NEW status \in Status
    PROVE  [queue EXCEPT ![e].status = status] \in [Email -> Row]
BY DEF TypeOK, Row

\* The table keeps its type when a row is refused or tried again.
LEMMA RefusedRowType ==
    ASSUME TypeOK, NEW e, NEW status \in Status, NEW n \in Nat
    PROVE  [queue EXCEPT ![e] = [@ EXCEPT !.status = status, !.retryCount = n]] \in [Email -> Row]
<1>1. ASSUME e \in Email
      PROVE  [queue[e] EXCEPT !.status = status, !.retryCount = n] \in Row
  BY <1>1 DEF TypeOK, Row
<1>2. QED
  BY <1>1 DEF TypeOK

\* One more copy, or one more round, is a number.
LEMMA CounterType ==
    ASSUME NEW f \in [Email -> Nat], NEW e
    PROVE  [f EXCEPT ![e] = @ + 1] \in [Email -> Nat]
<1>1. ASSUME e \in Email PROVE f[e] + 1 \in Nat
  BY <1>1
<1>2. QED
  BY <1>1

\* What the workers write into their local variables.
LEMMA WorkType ==
    ASSUME TypeOK, NEW w \in Worker, NEW next \in Work, work' = [work EXCEPT ![w] = next]
    PROVE  work' \in [Worker -> Work]
BY DEF TypeOK

\* A worker that takes up the next row of its batch holds typed variables.
LEMMA LoopWorkType ==
    ASSUME TypeOK, NEW w \in Worker, NextRow(w)
    PROVE  work' \in [Worker -> Work]
<1>1. work[w].batch \in SUBSET Email
  BY DEF TypeOK, Work
<1>2. QED
  BY <1>1, LoopType DEF NextRow, TypeOK

\* A worker that moves on, with or without its servers, holds typed variables.
LEMMA PlaceWorkType ==
    ASSUME TypeOK, NEW w \in Worker, NEW place \in Place, NEW servers \in SUBSET Server
    PROVE  /\ [work EXCEPT ![w].at = place] \in [Worker -> Work]
           /\ [work EXCEPT ![w] = [@ EXCEPT !.at = place, !.servers = servers]]
                  \in [Worker -> Work]
<1>1. /\ [work[w] EXCEPT !.at = place] \in Work
      /\ [work[w] EXCEPT !.at = place, !.servers = servers] \in Work
  BY DEF TypeOK, Work
<1>2. QED
  BY <1>1 DEF TypeOK

\* The columns of the table and the local variables of the workers keep their
\* types: no status outside the enum, no message outside the table in a batch.
THEOREM TypeCorrect == Spec => []TypeOK
<1>1. Init => TypeOK
  <2> SUFFICES ASSUME Init PROVE TypeOK
    OBVIOUS
  <2>1. queue \in [Email -> Row] /\ work \in [Worker -> Work]
    BY IdleType, NoRowType DEF Init
  <2>2. copies \in [Email -> Nat] /\ rounds \in [Email -> Nat]
    BY DEF Init
  <2>3. active \subseteq Server /\ processing \in BOOLEAN
    BY DEF Init
  <2>4. requests \in 0..MaxRequests /\ faults \in 0..MaxFaults
    BY BoundAssumption DEF Init
  <2>5. QED
    BY <2>1, <2>2, <2>3, <2>4 DEF TypeOK
<1>2. TypeOK /\ [Next]_vars => TypeOK'
  <2> SUFFICES ASSUME TypeOK, [Next]_vars PROVE TypeOK'
    OBVIOUS
  <2> USE DEF TypeOK
  <2>1. ASSUME NEW e \in Email, QueueEmail(e) PROVE TypeOK'
    BY <2>1, ColumnAssumption DEF QueueEmail, Row, Status, Waiting
  <2>2. ASSUME NEW e \in Email, BecomeDue(e) PROVE TypeOK'
    BY <2>2 DEF BecomeDue, Row
  <2>3. ASSUME NEW e \in Email, CancelQueuedEmail(e) PROVE TypeOK'
    BY <2>3 DEF CancelQueuedEmail, Row, Status, Settled
  <2>4. ASSUME NEW s \in Server, ToggleServer(s) PROVE TypeOK'
    BY <2>4 DEF ToggleServer
  <2>5. ASSUME NEW t \in Ticker, Tick(t) PROVE TypeOK'
    <3>1. t \in Worker /\ Start(t, Snapshot(TimerLimit))
      BY <2>5 DEF Tick, Worker
    <3>2. work' \in [Worker -> Work]
      BY <3>1, SnapshotType, StartType
    <3>3. QED
      BY <2>5, <3>2 DEF Tick, Start
  <2>6. ASSUME NEW c \in Caller, ProcessEmailQueue(c) PROVE TypeOK'
    <3>1. PICK limit : Request(c, Snapshot(limit))
      BY <2>6 DEF ProcessEmailQueue
    <3>2. work' \in [Worker -> Work]
      BY <3>1, SnapshotType, StartType DEF Request, Worker
    <3>3. QED
      BY <3>1, <3>2, BoundAssumption DEF Request, Start
  <2>7. ASSUME NEW c \in Caller, NEW e \in Email, SendOne(c, e) PROVE TypeOK'
    <3>1. work' \in [Worker -> Work]
      BY <2>7, StartType DEF SendOne, Request, Worker
    <3>2. QED
      BY <2>7, <3>1, BoundAssumption DEF SendOne, Request, Start
  <2>8. ASSUME NEW w \in Worker, Finish(w) PROVE TypeOK'
    BY <2>8, IdleType DEF Finish, Stop
  <2>9. ASSUME NEW w \in Worker, ReadServers(w) PROVE TypeOK'
    BY <2>9, PlaceWorkType DEF ReadServers, Place
  <2>10. ASSUME NEW w \in Worker, NoServer(w) PROVE TypeOK'
    BY <2>10, IdleType DEF NoServer, Stop
  <2>11. ASSUME NEW w \in Worker, MarkSending(w) PROVE TypeOK'
    BY <2>11, PlaceWorkType, StatusType DEF MarkSending, Place, Status
  <2>12. ASSUME NEW w \in Worker, MarkSent(w) PROVE TypeOK'
    BY <2>12, LoopWorkType, StatusType DEF MarkSent, Status, Settled
  <2>13. ASSUME NEW w \in Worker, MarkRefused(w) PROVE TypeOK'
    <3> DEFINE n == work[w].retryCount + 1
               e == work[w].email
    <3>1. n \in Nat
      BY DEF Work
    <3>2. (IF n < queue[e].maxRetry THEN "RETRY" ELSE "FAILED") \in Status
      BY DEF Status, Waiting, Settled
    <3>3. queue' \in [Email -> Row]
      BY <2>13, <3>1, <3>2, RefusedRowType DEF MarkRefused
    <3>4. work' \in [Worker -> Work]
      BY <2>13, LoopWorkType DEF MarkRefused
    <3>5. rounds' \in [Email -> Nat]
      BY <2>13, CounterType DEF MarkRefused
    <3>6. QED
      BY <2>13, <3>3, <3>4, <3>5 DEF MarkRefused
  <2>14. ASSUME NEW w \in Worker, NEW e \in Email, ReadRow(w, e) PROVE TypeOK'
    <3>1. queue[e].retryCount \in Nat
      BY DEF Row
    <3> DEFINE next == [work[w] EXCEPT !.at = "servers", !.email = e, !.batch = work[w].batch \ {e},
                                       !.retryCount = queue[e].retryCount]
    <3>2. next \in Work
      BY <3>1 DEF Work, Place
    <3>3. work' \in [Worker -> Work]
      <4>1. work' = [work EXCEPT ![w] = next]
        BY <2>14 DEF ReadRow
      <4> HIDE DEF next
      <4>2. QED
        BY <3>2, <4>1, WorkType
    <3>4. QED
      BY <2>14, <3>3 DEF ReadRow
  <2>15. ASSUME NEW w \in Worker, NEW s \in Server, Accept(w, s) PROVE TypeOK'
    <3>1. work' \in [Worker -> Work]
      <4> DEFINE next == [work[w] EXCEPT !.at = "settle", !.servers = work[w].servers \ {s}]
      <4>1. next \in Work
        BY DEF Work, Place
      <4>2. work' = [work EXCEPT ![w] = next]
        BY <2>15 DEF Accept
      <4> HIDE DEF next
      <4>3. QED
        BY <4>1, <4>2, WorkType
    <3>2. copies' \in [Email -> Nat]
      BY <2>15, CounterType DEF Accept
    <3>3. QED
      BY <2>15, <3>1, <3>2 DEF Accept
  <2>16. ASSUME NEW w \in Worker, NEW s \in Server, Refuse(w, s) PROVE TypeOK'
    BY <2>16 DEF Refuse, Work
  <2>17. ASSUME NEW w \in Worker, NEW s \in Server, LoseAnswer(w, s) PROVE TypeOK'
    <3>1. work' \in [Worker -> Work]
      BY SMTT(40), <2>17 DEF LoseAnswer, Work
    <3>2. copies' \in [Email -> Nat]
      BY <2>17, CounterType DEF LoseAnswer
    <3>3. QED
      BY <2>17, <3>1, <3>2 DEF LoseAnswer
  <2>18. ASSUME NEW w \in Worker, DbError(w) PROVE TypeOK'
    <3>1. work' \in [Worker -> Work] /\ processing' \in BOOLEAN
      BY <2>18, IdleType DEF DbError, Stop
    <3>2. faults' \in 0..MaxFaults
      BY <2>18, BoundAssumption DEF DbError
    <3>3. QED
      BY <2>18, <3>1, <3>2 DEF DbError
  <2>19. CASE Crash
    <3>1. work' \in [Worker -> Work]
      BY <2>19, IdleType DEF Crash
    <3>2. faults' \in 0..MaxFaults
      BY <2>19, BoundAssumption DEF Crash
    <3>3. QED
      BY <2>19, <3>1, <3>2 DEF Crash
  <2>20. CASE UNCHANGED vars
    BY <2>20 DEF vars
  <2>21. QED
    BY <2>1, <2>2, <2>3, <2>4, <2>5, <2>6, <2>7, <2>8, <2>9, <2>10, <2>11, <2>12, <2>13,
       <2>14, <2>15, <2>16, <2>17, <2>18, <2>19, <2>20 DEF Next, Step
<1>3. QED
  BY <1>1, <1>2, PTL DEF Spec

-----------------------------------------------------------------------------
(* Whoever sends: SENT and FAILED are never written without a reason.      *)

\* A worker that is on a row.
Busy == {"servers", "mark", "relay", "settle"}

\* Why SENT is true: a worker about to write it has seen its relay accept.
SentInv ==
    /\ \A w \in Worker : work[w].at \in Busy => work[w].email \in Email
    /\ \A w \in Worker : work[w].at = "settle" => copies[work[w].email] > 0
    /\ SentMeansAccepted

\* Every step keeps it: copies never sink, and only MarkSent writes SENT.
LEMMA SentStep == TypeOK /\ SentInv /\ [Next]_vars => SentInv'
<1> SUFFICES ASSUME TypeOK, SentInv, [Next]_vars PROVE SentInv'
  OBVIOUS
<1> USE DEF TypeOK, SentInv, SentMeansAccepted, Busy, Worker, Work, Row, Exists
<1>1. ASSUME NEW e \in Email, QueueEmail(e) PROVE SentInv'
  BY <1>1 DEF QueueEmail
<1>2. ASSUME NEW e \in Email, BecomeDue(e) PROVE SentInv'
  BY <1>2 DEF BecomeDue
<1>3. ASSUME NEW e \in Email, CancelQueuedEmail(e) PROVE SentInv'
  BY <1>3 DEF CancelQueuedEmail
<1>4. ASSUME NEW s \in Server, ToggleServer(s) PROVE SentInv'
  BY <1>4 DEF ToggleServer
<1>5. ASSUME NEW t \in Ticker, Tick(t) PROVE SentInv'
  BY <1>5 DEF Tick, Start, Idle
<1>6. ASSUME NEW c \in Caller, ProcessEmailQueue(c) PROVE SentInv'
  BY <1>6 DEF ProcessEmailQueue, Request, Start, Idle
<1>7. ASSUME NEW c \in Caller, NEW e \in Email, SendOne(c, e) PROVE SentInv'
  BY <1>7 DEF SendOne, Request, Start, Idle
<1>8. ASSUME NEW w \in Worker, Finish(w) PROVE SentInv'
  BY <1>8 DEF Finish, Stop, Idle
<1>9. ASSUME NEW w \in Worker, ReadServers(w) PROVE SentInv'
  BY <1>9 DEF ReadServers
<1>10. ASSUME NEW w \in Worker, NoServer(w) PROVE SentInv'
  BY <1>10 DEF NoServer, Stop, Idle
<1>11. ASSUME NEW w \in Worker, MarkSending(w) PROVE SentInv'
  BY <1>11 DEF MarkSending
<1>12. ASSUME NEW w \in Worker, MarkSent(w) PROVE SentInv'
  BY <1>12 DEF MarkSent, NextRow, Idle
<1>13. ASSUME NEW w \in Worker, MarkRefused(w) PROVE SentInv'
  BY <1>13 DEF MarkRefused, NextRow, Idle
<1>14. ASSUME NEW w \in Worker, NEW e \in Email, ReadRow(w, e) PROVE SentInv'
  BY <1>14 DEF ReadRow
<1>15. ASSUME NEW w \in Worker, NEW s \in Server, Accept(w, s) PROVE SentInv'
  BY <1>15 DEF Accept
<1>16. ASSUME NEW w \in Worker, NEW s \in Server, Refuse(w, s) PROVE SentInv'
  BY <1>16 DEF Refuse
<1>17. ASSUME NEW w \in Worker, NEW s \in Server, LoseAnswer(w, s) PROVE SentInv'
  BY <1>17 DEF LoseAnswer
<1>18. ASSUME NEW w \in Worker, DbError(w) PROVE SentInv'
  BY <1>18 DEF DbError, Stop, Idle
<1>19. CASE Crash
  BY <1>19 DEF Crash, Idle
<1>20. CASE UNCHANGED vars
  BY <1>20 DEF vars
<1>21. QED
  BY <1>1, <1>2, <1>3, <1>4, <1>5, <1>6, <1>7, <1>8, <1>9, <1>10, <1>11, <1>12, <1>13,
     <1>14, <1>15, <1>16, <1>17, <1>18, <1>19, <1>20
     DEF Next, Step

\* For any number of overlapping workers, cancellations, crashes and lost
\* answers: a row says SENT only if some relay took a copy.
THEOREM SentIsAccepted == Spec => []SentMeansAccepted
<1>1. Init => SentInv
  BY DEF Init, SentInv, SentMeansAccepted, Busy, Idle, NoRow
<1>2. SentInv => SentMeansAccepted
  BY DEF SentInv
<1>3. QED
  BY <1>1, <1>2, SentStep, TypeCorrect, PTL DEF Spec

\* Why the counter claims no round that did not take place: neither the row nor
\* a worker that has read it does, so the count a worker writes, the one it read
\* plus one, is covered by its own round.
CountInv ==
    /\ \A w \in Worker :
           work[w].at \in Busy => /\ work[w].email \in Email
                                  /\ work[w].retryCount <= rounds[work[w].email]
    /\ NotFailedEarly

\* Every step keeps it: rounds never sink, and only MarkRefused writes the count.
LEMMA CountStep == TypeOK /\ CountInv /\ [Next]_vars => CountInv'
<1> SUFFICES ASSUME TypeOK, CountInv, [Next]_vars PROVE CountInv'
  OBVIOUS
<1> USE DEF TypeOK, CountInv, NotFailedEarly, Busy, Worker, Work, Row, Exists
<1>1. ASSUME NEW e \in Email, QueueEmail(e) PROVE CountInv'
  BY <1>1 DEF QueueEmail
<1>2. ASSUME NEW e \in Email, BecomeDue(e) PROVE CountInv'
  BY <1>2 DEF BecomeDue
<1>3. ASSUME NEW e \in Email, CancelQueuedEmail(e) PROVE CountInv'
  BY <1>3 DEF CancelQueuedEmail
<1>4. ASSUME NEW s \in Server, ToggleServer(s) PROVE CountInv'
  BY <1>4 DEF ToggleServer
<1>5. ASSUME NEW t \in Ticker, Tick(t) PROVE CountInv'
  BY <1>5 DEF Tick, Start, Idle
<1>6. ASSUME NEW c \in Caller, ProcessEmailQueue(c) PROVE CountInv'
  BY <1>6 DEF ProcessEmailQueue, Request, Start, Idle
<1>7. ASSUME NEW c \in Caller, NEW e \in Email, SendOne(c, e) PROVE CountInv'
  BY <1>7 DEF SendOne, Request, Start, Idle
<1>8. ASSUME NEW w \in Worker, Finish(w) PROVE CountInv'
  BY <1>8 DEF Finish, Stop, Idle
<1>9. ASSUME NEW w \in Worker, ReadServers(w) PROVE CountInv'
  BY <1>9 DEF ReadServers
<1>10. ASSUME NEW w \in Worker, NoServer(w) PROVE CountInv'
  BY <1>10 DEF NoServer, Stop, Idle
<1>11. ASSUME NEW w \in Worker, MarkSending(w) PROVE CountInv'
  BY <1>11 DEF MarkSending
<1>12. ASSUME NEW w \in Worker, MarkSent(w) PROVE CountInv'
  BY <1>12 DEF MarkSent, NextRow, Idle
<1>13. ASSUME NEW w \in Worker, MarkRefused(w) PROVE CountInv'
  BY <1>13 DEF MarkRefused, NextRow, Idle
<1>14. ASSUME NEW w \in Worker, NEW e \in Email, ReadRow(w, e) PROVE CountInv'
  BY <1>14 DEF ReadRow
<1>15. ASSUME NEW w \in Worker, NEW s \in Server, Accept(w, s) PROVE CountInv'
  BY <1>15 DEF Accept
<1>16. ASSUME NEW w \in Worker, NEW s \in Server, Refuse(w, s) PROVE CountInv'
  BY <1>16 DEF Refuse
<1>17. ASSUME NEW w \in Worker, NEW s \in Server, LoseAnswer(w, s) PROVE CountInv'
  BY <1>17 DEF LoseAnswer
<1>18. ASSUME NEW w \in Worker, DbError(w) PROVE CountInv'
  BY <1>18 DEF DbError, Stop, Idle
<1>19. CASE Crash
  BY <1>19 DEF Crash, Idle
<1>20. CASE UNCHANGED vars
  BY <1>20 DEF vars
<1>21. QED
  BY <1>1, <1>2, <1>3, <1>4, <1>5, <1>6, <1>7, <1>8, <1>9, <1>10, <1>11, <1>12, <1>13,
     <1>14, <1>15, <1>16, <1>17, <1>18, <1>19, <1>20
     DEF Next, Step

\* For any number of overlapping workers: no message is FAILED before its rounds
\* have taken place.
THEOREM FailedIsEarned == Spec => []NotFailedEarly
<1>1. Init => CountInv
  BY DEF Init, CountInv, NotFailedEarly, Busy, Idle, NoRow
<1>2. CountInv => NotFailedEarly
  BY DEF CountInv
<1>3. QED
  BY <1>1, <1>2, CountStep, TypeCorrect, PTL DEF Spec

-----------------------------------------------------------------------------
(* Whoever sends: a row in SENDING has a worker, until the first fault.     *)

\* Why a row in SENDING is held: the worker that marked it, or another that has
\* marked it since, has not settled it yet.
SendingInv ==
    faults = 0 =>
        \A e \in Email : queue[e].status = "SENDING" =>
            \E w \in Worker : work[w].at \in {"relay", "settle"} /\ work[w].email = e

\* Every step keeps it: whoever leaves the relay writes another status, or a
\* fault has occurred.
LEMMA SendingStep == TypeOK /\ SendingInv /\ [Next]_vars => SendingInv'
<1> SUFFICES ASSUME TypeOK, SendingInv, [Next]_vars PROVE SendingInv'
  OBVIOUS
<1> USE DEF TypeOK, SendingInv, Worker, Work, Row, Exists
<1>1. ASSUME NEW e \in Email, QueueEmail(e) PROVE SendingInv'
  BY <1>1 DEF QueueEmail
<1>2. ASSUME NEW e \in Email, BecomeDue(e) PROVE SendingInv'
  BY <1>2 DEF BecomeDue
<1>3. ASSUME NEW e \in Email, CancelQueuedEmail(e) PROVE SendingInv'
  BY <1>3 DEF CancelQueuedEmail
<1>4. ASSUME NEW s \in Server, ToggleServer(s) PROVE SendingInv'
  BY <1>4 DEF ToggleServer
<1>5. ASSUME NEW t \in Ticker, Tick(t) PROVE SendingInv'
  BY <1>5 DEF Tick, Start, Idle
<1>6. ASSUME NEW c \in Caller, ProcessEmailQueue(c) PROVE SendingInv'
  BY <1>6 DEF ProcessEmailQueue, Request, Start, Idle
<1>7. ASSUME NEW c \in Caller, NEW e \in Email, SendOne(c, e) PROVE SendingInv'
  BY <1>7 DEF SendOne, Request, Start, Idle
<1>8. ASSUME NEW w \in Worker, Finish(w) PROVE SendingInv'
  BY <1>8 DEF Finish, Stop, Idle
<1>9. ASSUME NEW w \in Worker, ReadServers(w) PROVE SendingInv'
  BY <1>9 DEF ReadServers
<1>10. ASSUME NEW w \in Worker, NoServer(w) PROVE SendingInv'
  BY <1>10 DEF NoServer, Stop, Idle
<1>11. ASSUME NEW w \in Worker, MarkSending(w) PROVE SendingInv'
  BY <1>11 DEF MarkSending
<1>12. ASSUME NEW w \in Worker, MarkSent(w) PROVE SendingInv'
  BY <1>12 DEF MarkSent, NextRow, Idle
<1>13. ASSUME NEW w \in Worker, MarkRefused(w) PROVE SendingInv'
  BY <1>13 DEF MarkRefused, NextRow, Idle
<1>14. ASSUME NEW w \in Worker, NEW e \in Email, ReadRow(w, e) PROVE SendingInv'
  BY <1>14 DEF ReadRow
<1>15. ASSUME NEW w \in Worker, NEW s \in Server, Accept(w, s) PROVE SendingInv'
  BY <1>15 DEF Accept
<1>16. ASSUME NEW w \in Worker, NEW s \in Server, Refuse(w, s) PROVE SendingInv'
  BY <1>16 DEF Refuse
<1>17. ASSUME NEW w \in Worker, NEW s \in Server, LoseAnswer(w, s) PROVE SendingInv'
  BY <1>17 DEF LoseAnswer
<1>18. ASSUME NEW w \in Worker, DbError(w) PROVE SendingInv'
  BY <1>18, BoundAssumption DEF DbError, Stop, Idle
<1>19. CASE Crash
  BY <1>19, BoundAssumption DEF Crash, Idle
<1>20. CASE UNCHANGED vars
  BY <1>20 DEF vars
<1>21. QED
  BY <1>1, <1>2, <1>3, <1>4, <1>5, <1>6, <1>7, <1>8, <1>9, <1>10, <1>11, <1>12, <1>13,
     <1>14, <1>15, <1>16, <1>17, <1>18, <1>19, <1>20
     DEF Next, Step

\* For any number of overlapping workers, requests and cancellations: until the
\* first crash or rejected database call, a row in SENDING has a worker on it.
THEOREM SendingHasWorker == Spec => []SendingIsHeld
<1>1. Init => SendingInv
  BY DEF Init, SendingInv, NoRow
<1>2. SendingInv => SendingIsHeld
  BY DEF SendingInv, SendingIsHeld, Held
<1>3. QED
  BY <1>1, <1>2, SendingStep, TypeCorrect, PTL DEF Spec

-----------------------------------------------------------------------------
(* The timer alone: one worker at a time.                                  *)

\* The flag and the workers: at most one worker is awake, and only while the
\* flag is set.
OneAwake ==
    /\ \A w \in Worker : work[w].at # "idle" => processing
    /\ \A v, w \in Worker : work[v].at # "idle" /\ work[w].at # "idle" => v = w

\* A batch is not walked twice: the row a worker is on is no longer in it, and a
\* worker that sleeps has none.
BatchInv ==
    \A w \in Worker :
        /\ work[w].at = "idle" => work[w].batch = {}
        /\ work[w].at \in Busy => work[w].email \in Email \ work[w].batch

\* While a worker offers a message, or is to write SENT, nobody else writes the
\* row except to cancel it.
RelayInv ==
    \A w \in Worker :
        work[w].at \in {"relay", "settle"} =>
            queue[work[w].email].status \in {"SENDING", "CANCELLED"}

Unsent == {"ABSENT", "PENDING", "RETRY", "FAILED"}

\* What has gone out: nothing of a row that is still ahead of a worker or says
\* it was not sent, one copy of any other.
CopyInv ==
    /\ \A e \in Email : copies[e] <= 1 /\ (queue[e].status \in Unsent => copies[e] = 0)
    /\ \A w \in Worker :
           /\ \A e \in work[w].batch : copies[e] = 0
           /\ work[w].at \in {"servers", "mark", "relay"} => copies[work[w].email] = 0

TimerInv == OneAwake /\ BatchInv /\ RelayInv /\ CopyInv

\* The query returns waiting rows only.
LEMMA SnapshotDue ==
    \A limit : Snapshot(limit) \subseteq {e \in Email : queue[e].status \in Waiting}
BY DEF Snapshot, Due

\* Every step of the timer's workers, of the administrators and of the failures
\* keeps it.
LEMMA TimerStep ==
    ASSUME Caller = {}, ~AnswersLost, TypeOK, TimerInv, [Next]_vars
    PROVE  TimerInv'
<1> USE DEF TypeOK, TimerInv, OneAwake, BatchInv, RelayInv, CopyInv, Unsent, Busy, Waiting,
            Worker, Work, Row, Exists
<1>1. ASSUME NEW e \in Email, QueueEmail(e) PROVE TimerInv'
  BY <1>1 DEF QueueEmail
<1>2. ASSUME NEW e \in Email, BecomeDue(e) PROVE TimerInv'
  BY <1>2 DEF BecomeDue
<1>3. ASSUME NEW e \in Email, CancelQueuedEmail(e) PROVE TimerInv'
  BY <1>3 DEF CancelQueuedEmail
<1>4. ASSUME NEW s \in Server, ToggleServer(s) PROVE TimerInv'
  BY <1>4 DEF ToggleServer
<1>5. ASSUME NEW t \in Ticker, Tick(t) PROVE TimerInv'
  BY <1>5, SnapshotDue DEF Tick, Start, Idle
<1>6. ASSUME NEW w \in Worker, Finish(w) PROVE TimerInv'
  BY <1>6 DEF Finish, Stop, Idle
<1>7. ASSUME NEW w \in Worker, ReadServers(w) PROVE TimerInv'
  BY <1>7 DEF ReadServers
<1>8. ASSUME NEW w \in Worker, NoServer(w) PROVE TimerInv'
  BY <1>8 DEF NoServer, Stop, Idle
<1>9. ASSUME NEW w \in Worker, MarkSending(w) PROVE TimerInv'
  BY <1>9 DEF MarkSending
<1>10. ASSUME NEW w \in Worker, MarkSent(w) PROVE TimerInv'
  BY <1>10 DEF MarkSent, NextRow, Idle
<1>11. ASSUME NEW w \in Worker, MarkRefused(w) PROVE TimerInv'
  BY <1>11 DEF MarkRefused, NextRow, Idle
<1>12. ASSUME NEW w \in Worker, NEW e \in Email, ReadRow(w, e) PROVE TimerInv'
  BY <1>12 DEF ReadRow
<1>13. ASSUME NEW w \in Worker, NEW s \in Server, Accept(w, s) PROVE TimerInv'
  BY <1>13 DEF Accept
<1>14. ASSUME NEW w \in Worker, NEW s \in Server, Refuse(w, s) PROVE TimerInv'
  BY <1>14 DEF Refuse
<1>15. ASSUME NEW w \in Worker, DbError(w) PROVE TimerInv'
  BY <1>15 DEF DbError, Stop, Idle
<1>16. CASE Crash
  BY <1>16 DEF Crash, Idle
<1>17. CASE UNCHANGED vars
  BY <1>17 DEF vars
<1>18. QED
  BY <1>1, <1>2, <1>3, <1>4, <1>5, <1>6, <1>7, <1>8, <1>9, <1>10, <1>11,
     <1>12, <1>13, <1>14, <1>15, <1>16, <1>17
     DEF Next, Step, LoseAnswer

\* It holds of an empty table.
LEMMA TimerInit == Init => TimerInv
BY DEF Init, TimerInv, OneAwake, BatchInv, RelayInv, CopyInv, Busy, Idle, NoRow

\* With the timer alone, no lost answers, any number of messages, servers, crashes
\* and database errors: no message goes out twice.
THEOREM TimerSendsOnce ==
    ASSUME Caller = {}, ~AnswersLost
    PROVE  Spec => []AtMostOneCopy
<1>1. Init => TimerInv
  BY TimerInit
<1>2. TypeOK /\ TimerInv /\ [Next]_vars => TimerInv'
  BY TimerStep
<1>3. TimerInv => AtMostOneCopy
  BY DEF TimerInv, CopyInv, AtMostOneCopy
<1>4. QED
  BY <1>1, <1>2, <1>3, TypeCorrect, PTL DEF Spec

\* Under the same assumptions, a row shown as FAILED was not delivered.
THEOREM FailedIsUndelivered ==
    ASSUME Caller = {}, ~AnswersLost
    PROVE  Spec => []FailedMeansUndelivered
<1>1. Init => TimerInv
  BY TimerInit
<1>2. TypeOK /\ TimerInv /\ [Next]_vars => TimerInv'
  BY TimerStep
<1>3. TimerInv => FailedMeansUndelivered
  BY DEF TimerInv, CopyInv, FailedMeansUndelivered, Unsent
<1>4. QED
  BY <1>1, <1>2, <1>3, TypeCorrect, PTL DEF Spec

\* Why no message gets more rounds than maxRetry allows: the row's counter is
\* the number of its rounds, a worker on the row has read that number, and a row
\* that still waits, or is ahead of a worker, has a round left.
RoundLeft(e) == rounds[e] = 0 \/ rounds[e] < queue[e].maxRetry

RoundsInv ==
    /\ TimerInv
    /\ \A e \in Email :
           /\ queue[e].retryCount = rounds[e]
           /\ queue[e].status = "ABSENT" => rounds[e] = 0
           /\ queue[e].status \in Waiting => RoundLeft(e)
    /\ \A w \in Worker :
           /\ \A e \in work[w].batch : RoundLeft(e)
           /\ work[w].at \in Busy => work[w].retryCount = rounds[work[w].email]
           /\ work[w].at \in {"servers", "mark", "relay"} => RoundLeft(work[w].email)
    /\ RoundsWithinLimit

\* Every step of the timer's workers, of the administrators and of the failures
\* keeps it.
LEMMA RoundsStep ==
    ASSUME Caller = {}, ~AnswersLost, TypeOK, RoundsInv, [Next]_vars
    PROVE  RoundsInv'
<1> TimerInv'
  BY TimerStep DEF RoundsInv
<1> USE DEF TypeOK, RoundsInv, TimerInv, OneAwake, BatchInv, RelayInv, RoundLeft,
            RoundsWithinLimit, Busy, Waiting, Worker, Work, Row, Exists
<1>1. ASSUME NEW e \in Email, QueueEmail(e) PROVE RoundsInv'
  <2>1. /\ rounds[e] = 0 /\ queue'[e].status = "PENDING" /\ queue'[e].retryCount = 0
        /\ queue'[e].maxRetry \in Nat
    BY <1>1, ColumnAssumption DEF QueueEmail
  <2>2. /\ \A f \in Email : f # e => queue'[f] = queue[f]
        /\ rounds' = rounds /\ work' = work
    BY <1>1 DEF QueueEmail
  <2>3. \A f \in Email : RoundLeft(f) => RoundLeft(f)'
    BY <2>1, <2>2
  <2>4. RoundsWithinLimit'
    BY <2>1, <2>2
  <2>5. QED
    BY <2>1, <2>2, <2>3, <2>4
<1>2. ASSUME NEW e \in Email, BecomeDue(e) PROVE RoundsInv'
  BY <1>2 DEF BecomeDue
<1>3. ASSUME NEW e \in Email, CancelQueuedEmail(e) PROVE RoundsInv'
  BY <1>3 DEF CancelQueuedEmail
<1>4. ASSUME NEW s \in Server, ToggleServer(s) PROVE RoundsInv'
  BY <1>4 DEF ToggleServer
<1>5. ASSUME NEW t \in Ticker, Tick(t) PROVE RoundsInv'
  BY <1>5, SnapshotDue DEF Tick, Start, Idle
<1>6. ASSUME NEW w \in Worker, Finish(w) PROVE RoundsInv'
  BY <1>6 DEF Finish, Stop, Idle
<1>7. ASSUME NEW w \in Worker, ReadServers(w) PROVE RoundsInv'
  BY <1>7 DEF ReadServers
<1>8. ASSUME NEW w \in Worker, NoServer(w) PROVE RoundsInv'
  BY <1>8 DEF NoServer, Stop, Idle
<1>9. ASSUME NEW w \in Worker, MarkSending(w) PROVE RoundsInv'
  BY <1>9 DEF MarkSending
<1>10. ASSUME NEW w \in Worker, MarkSent(w) PROVE RoundsInv'
  BY <1>10 DEF MarkSent, NextRow, Idle
<1>11. ASSUME NEW w \in Worker, MarkRefused(w) PROVE RoundsInv'
  BY <1>11 DEF MarkRefused, NextRow, Idle
<1>12. ASSUME NEW w \in Worker, NEW e \in Email, ReadRow(w, e) PROVE RoundsInv'
  BY <1>12 DEF ReadRow
<1>13. ASSUME NEW w \in Worker, NEW s \in Server, Accept(w, s) PROVE RoundsInv'
  BY <1>13 DEF Accept
<1>14. ASSUME NEW w \in Worker, NEW s \in Server, Refuse(w, s) PROVE RoundsInv'
  BY <1>14 DEF Refuse
<1>15. ASSUME NEW w \in Worker, DbError(w) PROVE RoundsInv'
  BY <1>15 DEF DbError, Stop, Idle
<1>16. CASE Crash
  BY <1>16 DEF Crash, Idle
<1>17. CASE UNCHANGED vars
  BY <1>17 DEF vars
<1>18. QED
  BY <1>1, <1>2, <1>3, <1>4, <1>5, <1>6, <1>7, <1>8, <1>9, <1>10, <1>11,
     <1>12, <1>13, <1>14, <1>15, <1>16, <1>17
     DEF Next, Step, LoseAnswer

\* With the timer alone, a message gets at most the rounds its maxRetry allows.
THEOREM RoundsAreBounded ==
    ASSUME Caller = {}, ~AnswersLost
    PROVE  Spec => []RoundsWithinLimit
<1>1. Init => RoundsInv
  BY TimerInit DEF Init, RoundsInv, RoundLeft, RoundsWithinLimit, Busy, Idle, NoRow
<1>2. TypeOK /\ RoundsInv /\ [Next]_vars => RoundsInv'
  BY RoundsStep
<1>3. RoundsInv => RoundsWithinLimit
  BY DEF RoundsInv
<1>4. QED
  BY <1>1, <1>2, <1>3, TypeCorrect, PTL DEF Spec

-----------------------------------------------------------------------------
(* The timer alone: EmailQueue implements EmailOutbox.                     *)

\* A worker holds rows of the table only, and none between two rows.
HeldInv ==
    /\ \A w \in Worker : work[w].at \notin Busy => work[w].email = NoEmail
    /\ \A e \in Email : Held(e) => Exists(e)

OutboxInv == TimerInv /\ SentInv /\ HeldInv

\* Every step keeps the invariant of the refinement.
LEMMA OutboxStep ==
    ASSUME Caller = {}, ~AnswersLost, TypeOK, OutboxInv, [Next]_vars
    PROVE  OutboxInv'
<1>1. TimerInv' /\ SentInv'
  BY TimerStep, SentStep DEF OutboxInv
<1>2. HeldInv'
  <2> USE EmailAssumption DEF TypeOK, OutboxInv, HeldInv, Held, NoEmail, SentInv, Busy, Waiting,
                              Worker, Work, Row, Exists
  <2>1. ASSUME NEW e \in Email, QueueEmail(e) PROVE HeldInv'
    BY <2>1 DEF QueueEmail
  <2>2. ASSUME NEW e \in Email, BecomeDue(e) PROVE HeldInv'
    BY <2>2 DEF BecomeDue
  <2>3. ASSUME NEW e \in Email, CancelQueuedEmail(e) PROVE HeldInv'
    BY <2>3 DEF CancelQueuedEmail
  <2>4. ASSUME NEW s \in Server, ToggleServer(s) PROVE HeldInv'
    BY <2>4 DEF ToggleServer
  <2>5. ASSUME NEW t \in Ticker, Tick(t) PROVE HeldInv'
    BY <2>5, SnapshotDue DEF Tick, Start, Idle
  <2>6. ASSUME NEW w \in Worker, Finish(w) PROVE HeldInv'
    BY <2>6 DEF Finish, Stop, Idle
  <2>7. ASSUME NEW w \in Worker, ReadServers(w) PROVE HeldInv'
    BY <2>7 DEF ReadServers
  <2>8. ASSUME NEW w \in Worker, NoServer(w) PROVE HeldInv'
    BY <2>8 DEF NoServer, Stop, Idle
  <2>9. ASSUME NEW w \in Worker, MarkSending(w) PROVE HeldInv'
    BY <2>9 DEF MarkSending
  <2>10. ASSUME NEW w \in Worker, MarkSent(w) PROVE HeldInv'
    BY <2>10 DEF MarkSent, NextRow, Idle
  <2>11. ASSUME NEW w \in Worker, MarkRefused(w) PROVE HeldInv'
    BY <2>11 DEF MarkRefused, NextRow, Idle
  <2>12. ASSUME NEW w \in Worker, NEW e \in Email, ReadRow(w, e) PROVE HeldInv'
    BY <2>12 DEF ReadRow
  <2>13. ASSUME NEW w \in Worker, NEW s \in Server, Accept(w, s) PROVE HeldInv'
    BY <2>13 DEF Accept
  <2>14. ASSUME NEW w \in Worker, NEW s \in Server, Refuse(w, s) PROVE HeldInv'
    BY <2>14 DEF Refuse
  <2>15. ASSUME NEW w \in Worker, DbError(w) PROVE HeldInv'
    BY <2>15 DEF DbError, Stop, Idle
  <2>16. CASE Crash
    BY <2>16 DEF Crash, Idle
  <2>17. CASE UNCHANGED vars
    BY <2>17 DEF vars
  <2>18. QED
    BY <2>1, <2>2, <2>3, <2>4, <2>5, <2>6, <2>7, <2>8, <2>9, <2>10, <2>11,
       <2>12, <2>13, <2>14, <2>15, <2>16, <2>17
       DEF Next, Step, LoseAnswer
<1>3. QED
  BY <1>1, <1>2 DEF OutboxInv

\* What one step may do to a row x: it stays in the table; a copy goes out only
\* while a worker holds it, one at a time; a row nobody holds and nobody waits
\* for is only ever cancelled; a new row is PENDING.
Moves(x) ==
    /\ Exists(x) => Exists(x)'
    /\ ~Exists(x) => ~Held(x)' /\ queue'[x].status \in {"ABSENT", "PENDING"}
    /\ copies'[x] = copies[x] \/ (Held(x) /\ copies'[x] = copies[x] + 1)
    /\ Exists(x) /\ ~Held(x) /\ queue[x].status \notin Waiting =>
           ~Held(x)' /\ queue'[x].status \in {queue[x].status, "CANCELLED"}

\* Every step moves a row as Moves says.
LEMMA StepMoves ==
    ASSUME Caller = {}, ~AnswersLost, TypeOK, OutboxInv, [Next]_vars, NEW x \in Email
    PROVE  Moves(x)
<1> USE EmailAssumption DEF TypeOK, OutboxInv, HeldInv, Held, NoEmail, SentInv, Busy, Waiting,
                            Worker, Work, Row, Exists, Moves
<1>1. ASSUME NEW e \in Email, QueueEmail(e) PROVE Moves(x)
  BY <1>1 DEF QueueEmail
<1>2. ASSUME NEW e \in Email, BecomeDue(e) PROVE Moves(x)
  BY <1>2 DEF BecomeDue
<1>3. ASSUME NEW e \in Email, CancelQueuedEmail(e) PROVE Moves(x)
  BY <1>3 DEF CancelQueuedEmail
<1>4. ASSUME NEW s \in Server, ToggleServer(s) PROVE Moves(x)
  BY <1>4 DEF ToggleServer
<1>5. ASSUME NEW t \in Ticker, Tick(t) PROVE Moves(x)
  BY <1>5, SnapshotDue DEF Tick, Start, Idle
<1>6. ASSUME NEW w \in Worker, Finish(w) PROVE Moves(x)
  BY <1>6 DEF Finish, Stop, Idle
<1>7. ASSUME NEW w \in Worker, ReadServers(w) PROVE Moves(x)
  BY <1>7 DEF ReadServers
<1>8. ASSUME NEW w \in Worker, NoServer(w) PROVE Moves(x)
  BY <1>8 DEF NoServer, Stop, Idle
<1>9. ASSUME NEW w \in Worker, MarkSending(w) PROVE Moves(x)
  BY <1>9 DEF MarkSending
<1>10. ASSUME NEW w \in Worker, MarkSent(w) PROVE Moves(x)
  BY <1>10 DEF MarkSent, NextRow, Idle
<1>11. ASSUME NEW w \in Worker, MarkRefused(w) PROVE Moves(x)
  BY <1>11 DEF MarkRefused, NextRow, Idle
<1>12. ASSUME NEW w \in Worker, NEW e \in Email, ReadRow(w, e) PROVE Moves(x)
  BY <1>12 DEF ReadRow
<1>13. ASSUME NEW w \in Worker, NEW s \in Server, Accept(w, s) PROVE Moves(x)
  BY <1>13 DEF Accept
<1>14. ASSUME NEW w \in Worker, NEW s \in Server, Refuse(w, s) PROVE Moves(x)
  BY <1>14 DEF Refuse
<1>15. ASSUME NEW w \in Worker, DbError(w) PROVE Moves(x)
  BY <1>15 DEF DbError, Stop, Idle
<1>16. CASE Crash
  BY <1>16 DEF Crash, Idle
<1>17. CASE UNCHANGED vars
  BY <1>17 DEF vars
<1>18. QED
  BY <1>1, <1>2, <1>3, <1>4, <1>5, <1>6, <1>7, <1>8, <1>9, <1>10, <1>11,
     <1>12, <1>13, <1>14, <1>15, <1>16, <1>17
     DEF Next, Step, LoseAnswer

\* What Fate says of a row, the cases ruled out by the invariant left out.
FateFacts(x) ==
    /\ ~Exists(x) => ~Held(x) /\ Fate(x) = "none"
    /\ copies[x] > 0 => Exists(x) /\ copies[x] = 1 /\ Fate(x) = "delivered"
    /\ Exists(x) /\ copies[x] = 0 =>
           /\ Held(x) \/ queue[x].status \in Waiting => Fate(x) = "waiting"
           /\ ~Held(x) /\ queue[x].status \notin Waiting =>
                  /\ queue[x].status \in {"SENDING", "FAILED", "CANCELLED"}
                  /\ queue[x].status = "SENDING" => Fate(x) = "lost"
                  /\ queue[x].status = "FAILED" => Fate(x) = "abandoned"
                  /\ queue[x].status = "CANCELLED" => Fate(x) = "withdrawn"

\* What the fate of a message says of its row.
LEMMA FateOf == TypeOK /\ OutboxInv => \A x \in Email : FateFacts(x)
<1> SUFFICES ASSUME TypeOK, OutboxInv, NEW x \in Email PROVE FateFacts(x)
  OBVIOUS
<1>1. /\ copies[x] \in Nat /\ copies[x] <= 1
      /\ copies[x] > 0 => queue[x].status \in {"SENDING", "SENT", "CANCELLED"}
  BY DEF TypeOK, OutboxInv, TimerInv, CopyInv, Row, Status, Waiting, Settled, Unsent
<1>2. /\ queue[x].status \in Status
      /\ queue[x].status = "SENT" => copies[x] > 0
  BY DEF TypeOK, OutboxInv, SentInv, SentMeansAccepted, Row
<1>3. ~Exists(x) => ~Held(x) /\ Fate(x) = "none"
  BY DEF Fate, OutboxInv, HeldInv
<1>4. ASSUME copies[x] > 0 PROVE Exists(x) /\ copies[x] = 1 /\ Fate(x) = "delivered"
  BY <1>1, <1>4 DEF Fate, Exists
<1>5. ASSUME Exists(x), copies[x] = 0, Held(x) \/ queue[x].status \in Waiting
      PROVE  Fate(x) = "waiting"
  BY <1>5 DEF Fate
<1>6. ASSUME Exists(x), copies[x] = 0, ~Held(x), queue[x].status \notin Waiting
      PROVE  /\ queue[x].status \in {"SENDING", "FAILED", "CANCELLED"}
             /\ queue[x].status = "SENDING" => Fate(x) = "lost"
             /\ queue[x].status = "FAILED" => Fate(x) = "abandoned"
             /\ queue[x].status = "CANCELLED" => Fate(x) = "withdrawn"
  BY <1>2, <1>6 DEF Fate, Exists, Status, Settled
<1>7. QED
  BY <1>3, <1>4, <1>5, <1>6 DEF FateFacts

\* Before and after a step: the row's fate stays or makes a transition the
\* outbox allows.
LEMMA FateStep ==
    ASSUME TypeOK, TypeOK', NEW x \in Email, Moves(x), FateFacts(x), FateFacts(x)'
    PROVE  /\ Fate(x) \in Outbox!Fate /\ Fate(x)' \in Outbox!Fate
           /\ Fate(x)' # Fate(x) => <<Fate(x), Fate(x)'>> \in Outbox!Allowed
<1> USE DEF Moves, FateFacts, Outbox!Fate, Outbox!Allowed
<1>1. copies[x] \in Nat /\ copies'[x] \in Nat
  BY DEF TypeOK
<1>2. CASE ~Exists(x)
  <2>1. Fate(x)' \in {"none", "waiting"}
    BY <1>1, <1>2 DEF Exists, Waiting
  <2>2. QED
    BY <1>2, <2>1
<1>3. CASE copies[x] > 0
  BY <1>1, <1>3
<1>4. CASE Exists(x) /\ copies[x] = 0 /\ (Held(x) \/ queue[x].status \in Waiting)
  <2>1. Fate(x)' \in {"waiting", "delivered", "lost", "abandoned", "withdrawn"}
    BY <1>1, <1>4
  <2>2. QED
    BY <1>4, <2>1
<1>5. CASE Exists(x) /\ copies[x] = 0 /\ ~Held(x) /\ queue[x].status \notin Waiting
  <2>1. /\ Exists(x)' /\ copies'[x] = 0 /\ ~Held(x)'
        /\ queue'[x].status \in {queue[x].status, "CANCELLED"}
    BY <1>5
  <2>2. queue'[x].status \notin Waiting
    BY <1>5, <2>1 DEF Waiting
  <2>3. QED
    BY <1>5, <2>1, <2>2
<1>6. QED
  BY <1>1, <1>2, <1>3, <1>4, <1>5

\* With the timer alone and no lost answers, every behaviour of the queue is one
\* EmailOutbox allows: a message goes out at most once, and never after it was
\* withdrawn, given up or lost.
THEOREM QueueImplementsOutbox ==
    ASSUME Caller = {}, ~AnswersLost
    PROVE  Spec => ImplementsOutbox
<1>1. Init => OutboxInv
  <2>1. Init => SentInv /\ HeldInv
    BY EmailAssumption
       DEF Init, SentInv, SentMeansAccepted, HeldInv, Held, NoEmail, Busy, Idle, NoRow
  <2>2. QED
    BY <2>1, TimerInit DEF OutboxInv
<1>2. TypeOK /\ OutboxInv /\ [Next]_vars => OutboxInv'
  BY OutboxStep
<1>3. Init => Outbox!Init
  BY DEF Init, Outbox!Init, Fate, Exists, NoRow
<1>4. TypeOK /\ OutboxInv => \A x \in Email : FateFacts(x)
  BY FateOf
<1>5. TypeOK' /\ OutboxInv' => (\A x \in Email : FateFacts(x))'
  BY <1>4, PTL
<1>6. TypeOK /\ TypeOK' /\ OutboxInv /\ OutboxInv' /\ [Next]_vars
          => [Outbox!Next]_[e \in Email |-> Fate(e)]
  <2> SUFFICES ASSUME TypeOK, TypeOK', OutboxInv, OutboxInv', [Next]_vars
               PROVE  Outbox!Next
    OBVIOUS
  <2>1. ASSUME NEW x \in Email
        PROVE  /\ Fate(x)' \in Outbox!Fate
               /\ Fate(x)' # Fate(x) => <<Fate(x), Fate(x)'>> \in Outbox!Allowed
    BY <1>4, <1>5, <2>1, StepMoves, FateStep
  <2>2. QED
    BY <2>1 DEF Outbox!Next
<1>7. QED
  BY <1>1, <1>2, <1>3, <1>6, TypeCorrect, PTL DEF Spec, ImplementsOutbox, Outbox!Spec

=============================================================================
