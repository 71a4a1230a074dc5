---------------------------- MODULE SystemHealth ----------------------------
(***************************************************************************)
(* The health checks of systems (system-statuses.service.ts).  Every       *)
(* thirty seconds the scheduler takes the systems that are due, at most    *)
(* ten, and checks them one after the other; an administrator may check    *)
(* any at any time.  A check reads the row, waits for the system and       *)
(* writes status and nextCheckAt, whatever the row says by then.           *)
(*                                                                         *)
(* Time is the order of nextCheckAt and how much of it has passed.  A      *)
(* system that was never checked has no nextCheckAt: it is due, and comes  *)
(* after the others in the scheduler's query (ascending order puts NULL    *)
(* last).  What a check finds out is left open.                            *)
(***************************************************************************)
EXTENDS Naturals, Sequences, FiniteSets, SequencesExt

CONSTANTS
    System,   \* the ids of systems
    Manual,   \* POST :id/check requests, each made once
    Take,     \* how many systems one pass takes (10)
    MaxEdits  \* bound: how many times administrators create, edit or delete

VARIABLES
    systems,     \* the table SystemStatus
    schedule,    \* the systems with a nextCheckAt, in its order
    due,         \* how many of them have one that has passed
    isChecking,  \* the flag of that name
    pass,        \* what the scheduler's pass has left, and its check
    checks,      \* the local variables of manual checks
    edits,       \* how many edits were made
    crossed      \* history: systems edited while a check of them was under way

vars == <<systems, schedule, due, isChecking, pass, checks, edits, crossed>>

-----------------------------------------------------------------------------
Row == [automatic : BOOLEAN, isActive : BOOLEAN, status : {"set by hand", "checked"}]
None == [automatic |-> FALSE, isActive |-> FALSE]
Idle == [at |-> "idle"]
Done == [at |-> "done"]

Exists(s) == systems[s] # None
Scheduled == ToSet(schedule)
Eligible(s) == systems[s].automatic /\ systems[s].isActive
IsDue(s) == s \in ToSet(SubSeq(schedule, 1, due))
NeverChecked(s) == Exists(s) /\ s \notin Scheduled
Listed(s) == \E i \in DOMAIN pass.batch : pass.batch[i] = s
Probing(s) == \/ pass.at = "probing" /\ Head(pass.batch) = s
              \/ \E c \in Manual : checks[c].at = "probing" /\ checks[c].of = s

Init ==
    /\ systems = [s \in System |-> None]
    /\ schedule = << >>
    /\ due = 0
    /\ isChecking = FALSE
    /\ pass = [at |-> "over", batch |-> << >>]
    /\ checks = [c \in Manual |-> Idle]
    /\ edits = 0
    /\ crossed = {}

-----------------------------------------------------------------------------
(* Administration.                                                         *)

Edit == edits < MaxEdits /\ edits' = edits + 1

CreateSystem(s, automatic, isActive) ==
    /\ ~Exists(s) /\ ~Probing(s) /\ ~Listed(s)   \* a new id
    /\ Edit
    /\ systems' = [systems EXCEPT ![s] =
           [automatic |-> automatic, isActive |-> isActive, status |-> "set by hand"]]
    /\ crossed' = crossed \ {s}
    /\ UNCHANGED <<schedule, due, isChecking, pass, checks>>

\* A new interval or target counts from the next check on.
UpdateSystem(s, automatic, isActive, status) ==
    /\ Exists(s)
    /\ Edit
    /\ systems' = [systems EXCEPT ![s] =
           [automatic |-> automatic, isActive |-> isActive, status |-> status]]
    /\ status \in {systems[s].status, "set by hand"}
    /\ crossed' = IF Probing(s) THEN crossed \cup {s} ELSE crossed
    /\ UNCHANGED <<schedule, due, isChecking, pass, checks>>

Without(s) == SelectSeq(schedule, LAMBDA x : x # s)
DueWithout(s) == IF IsDue(s) THEN due - 1 ELSE due

RemoveSystem(s) ==
    /\ Exists(s)
    /\ Edit
    /\ systems' = [systems EXCEPT ![s] = None]
    /\ schedule' = Without(s)
    /\ due' = DueWithout(s)
    /\ UNCHANGED <<isChecking, pass, checks, crossed>>

TimePasses ==
    /\ due < Len(schedule)
    /\ due' = due + 1
    /\ UNCHANGED <<systems, schedule, isChecking, pass, checks, edits, crossed>>

-----------------------------------------------------------------------------
(* runHealthCheck.                                                         *)

\* The row is written.  The interval is at least thirty seconds: the system
\* comes after all that are due.
WriteResult(s) ==
    /\ systems' = [systems EXCEPT ![s] = [systems[s] EXCEPT !.status = "checked"]]
    /\ \E i \in DueWithout(s)..Len(Without(s)) :
           schedule' = InsertAt(Without(s), i + 1, s)
    /\ due' = DueWithout(s)
    /\ UNCHANGED <<edits, crossed>>

NothingWritten == UNCHANGED <<systems, schedule, due, edits, crossed>>

\* Fault: whatever the type of the system is.
BeginCheckAnyway(c, s) ==
    /\ checks[c] = Idle
    /\ Exists(s)
    /\ checks' = [checks EXCEPT ![c] = [at |-> "probing", of |-> s]]
    /\ NothingWritten /\ UNCHANGED <<isChecking, pass>>

\* A manual check, begun and ended.  A system set to MANUAL is let be; one
\* that is gone ends the request with an error.
BeginCheck(c, s) ==
    /\ checks[c] = Idle
    /\ Exists(s)
    /\ checks' = [checks EXCEPT ![c] =
           IF systems[s].automatic THEN [at |-> "probing", of |-> s] ELSE Done]
    /\ NothingWritten /\ UNCHANGED <<isChecking, pass>>

EndCheck(c) ==
    /\ checks[c].at = "probing"
    /\ IF Exists(checks[c].of) THEN WriteResult(checks[c].of) ELSE NothingWritten
    /\ checks' = [checks EXCEPT ![c] = Done]
    /\ UNCHANGED <<isChecking, pass>>

-----------------------------------------------------------------------------
(* checkDueSystems.                                                        *)

\* Fault: a column that is NULL is not before now.
DueSystemsWithDate ==
    LET old == SelectSeq(SubSeq(schedule, 1, due), Eligible)
    IN  {SubSeq(old, 1, IF Len(old) < Take THEN Len(old) ELSE Take)}

\* The query: the oldest first, those never checked last and in any order.
DueSystems ==
    LET old == SelectSeq(SubSeq(schedule, 1, due), Eligible)
        new == {s \in System : NeverChecked(s) /\ Eligible(s)}
    IN  {SubSeq(old \o tail, 1, IF Len(old \o tail) < Take THEN Len(old \o tail) ELSE Take) :
            tail \in SetToSeqs(new)}

Tick ==
    /\ ~isChecking
    /\ \E batch \in DueSystems :
           IF batch = << >> THEN UNCHANGED <<isChecking, pass>>
           ELSE isChecking' = TRUE /\ pass' = [at |-> "next", batch |-> batch]
    /\ NothingWritten /\ UNCHANGED checks

\* Fault: only a pass that came to its end lets the next one in.
FinishAtEnd == isChecking' = (pass.batch # << >>) /\ pass' = [at |-> "over", batch |-> << >>]

\* The finally block, after the last system or the first exception.
Finish == isChecking' = FALSE /\ pass' = [at |-> "over", batch |-> << >>]

Continue(batch) == IF batch = << >> THEN Finish
                   ELSE pass' = [at |-> "next", batch |-> batch] /\ UNCHANGED isChecking

\* The next system's row is read.
Visit ==
    LET s == Head(pass.batch) IN
    /\ pass.at = "next"
    /\ IF ~Exists(s) THEN Finish
       ELSE IF systems[s].automatic
            THEN pass' = [at |-> "probing", batch |-> pass.batch] /\ UNCHANGED isChecking
            ELSE Continue(Tail(pass.batch))
    /\ NothingWritten /\ UNCHANGED checks

\* The system has answered or not.
Answer ==
    LET s == Head(pass.batch) IN
    /\ pass.at = "probing"
    /\ IF Exists(s) THEN WriteResult(s) /\ Continue(Tail(pass.batch))
       ELSE NothingWritten /\ Finish
    /\ UNCHANGED checks

\* The API dies and is started again.
Crash ==
    /\ Edit
    /\ Finish
    /\ checks' = [c \in Manual |-> IF checks[c] = Idle THEN Idle ELSE Done]
    /\ UNCHANGED <<systems, schedule, due, crossed>>

-----------------------------------------------------------------------------
Next ==
    \/ \E s \in System, a, b \in BOOLEAN : CreateSystem(s, a, b)
    \/ \E s \in System, a, b \in BOOLEAN, st \in {"set by hand", "checked"} : UpdateSystem(s, a, b, st)
    \/ \E s \in System : RemoveSystem(s)
    \/ TimePasses
    \/ \E c \in Manual, s \in System : BeginCheck(c, s)
    \/ \E c \in Manual : EndCheck(c)
    \/ Tick \/ Visit \/ Answer \/ Crash

\* The timer goes off, every check ends (each has a timeout), time passes.
Fairness ==
    /\ WF_vars(Tick) /\ WF_vars(Visit) /\ WF_vars(Answer)
    /\ WF_vars(TimePasses)

Spec == Init /\ [][Next]_vars /\ Fairness

-----------------------------------------------------------------------------
\* Rows, schedule and local variables have their types; a system is at one
\* place of the schedule.
TypeOK ==
    /\ systems \in [System -> Row \cup {None}]
    /\ schedule \in Seq(System) /\ IsInjective(schedule)
    /\ \A s \in Scheduled : Exists(s)
    /\ due \in 0..Len(schedule)
    /\ isChecking \in BOOLEAN
    /\ pass.at \in {"next", "probing", "over"} /\ pass.batch \in Seq(System)
    /\ checks \in [Manual -> {Idle, Done} \cup [at : {"probing"}, of : System]]
    /\ edits \in 0..MaxEdits /\ crossed \subseteq System

\* The status an administrator gives to a system that is not checked
\* automatically stays, unless it was edited while a check was under way.
ManualStatusStays ==
    [][\A s \in System \ crossed :
          Exists(s) /\ ~systems[s].automatic /\ systems'[s] # None /\ systems[s].status = "set by hand" =>
              systems'[s].status = "set by hand"]_vars

\* A system that is due gets its check, although a pass takes only so many,
\* is abandoned when a system on it was deleted, and may die.
DueIsChecked == \A s \in System : (IsDue(s) /\ Eligible(s)) ~> (~IsDue(s) \/ ~Eligible(s))

\* A system that was never checked gets its first check, unless those that
\* have been checked before fill pass after pass for ever.
OldDue == {s \in System : IsDue(s) /\ Eligible(s)}
NewIsChecked ==
    \A s \in System :
        <>[](NeverChecked(s) /\ Eligible(s)) => []<>(Cardinality(OldDue) >= Take)
=============================================================================
