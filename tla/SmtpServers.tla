----------------------------- MODULE SmtpServers -----------------------------
(***************************************************************************)
(* The primary SMTP server (notifications.service.ts).  A request that     *)
(* makes a server the primary one first takes the mark from the others and *)
(* then writes its own row; the two statements are not in a transaction.   *)
(* Whether a server is active, and the order of relays, are in EmailQueue. *)
(***************************************************************************)
EXTENDS Naturals

CONSTANTS
    Server,   \* the ids of servers
    Request,  \* POST and PUT smtp-servers requests, each made once
    Keep      \* an isPrimary the request leaves undefined

VARIABLES
    servers,   \* the rows of NotificationSmtpServer
    primary,   \* those with isPrimary
    requests,  \* what each request in progress is about to write
    crossed,   \* history: two requests for a primary were under way at once
    marked,    \* history: there has been a primary server
    unmarked   \* history: the mark was given up by a user or lost by a failure

vars == <<servers, primary, requests, crossed, marked, unmarked>>

-----------------------------------------------------------------------------
Idle == [at |-> "idle"]
Done == [at |-> "done"]
Working == [at : {"begun", "cleared"}, of : Server, creates : BOOLEAN,
            isPrimary : BOOLEAN \cup {Keep}]

Pending == {r \in Request : requests[r].at \in {"begun", "cleared"}}
Replacing == {r \in Pending : requests[r].at = "cleared" /\ requests[r].isPrimary = TRUE}

Init ==
    /\ servers = {} /\ primary = {}
    /\ requests = [r \in Request |-> Idle]
    /\ crossed = FALSE /\ marked = FALSE /\ unmarked = FALSE

-----------------------------------------------------------------------------
\* A creation takes an id nobody has; an update looks its server up.
Begin(r, s, isPrimary) ==
    /\ requests[r] = Idle
    /\ s \in servers \/ \A q \in Pending : requests[q].of # s
    /\ requests' = [requests EXCEPT ![r] =
           [at |-> IF isPrimary = TRUE THEN "begun" ELSE "cleared",
            of |-> s, creates |-> s \notin servers, isPrimary |-> isPrimary]]
    /\ crossed' = (crossed \/ (isPrimary = TRUE /\
                       \E q \in Pending : requests[q].isPrimary = TRUE))
    /\ UNCHANGED <<servers, primary, marked, unmarked>>

\* Fault: a new server takes no mark away.
ClearOnUpdate(r) ==
    LET q == requests[r] IN
    /\ q.at = "begun"
    /\ primary' = IF q.creates THEN primary ELSE primary \cap {q.of}
    /\ requests' = [requests EXCEPT ![r] = [q EXCEPT !.at = "cleared"]]
    /\ UNCHANGED <<servers, crossed, marked, unmarked>>

\* clearPrimarySmtpServer
ClearPrimary(r) ==
    LET q == requests[r] IN
    /\ q.at = "begun"
    /\ primary' = primary \cap {q.of}
    /\ requests' = [requests EXCEPT ![r] = [q EXCEPT !.at = "cleared"]]
    /\ UNCHANGED <<servers, crossed, marked, unmarked>>

\* The row.  Without isPrimary an update keeps the mark, and a new server
\* gets the column's default, FALSE.
Write(r) ==
    LET q == requests[r] IN
    /\ q.at = "cleared"
    /\ q.creates \/ q.of \in servers
    /\ servers' = servers \cup {q.of}
    /\ primary' = IF q.isPrimary = Keep THEN primary
                  ELSE IF q.isPrimary THEN primary \cup {q.of}
                  ELSE primary \ {q.of}
    /\ requests' = [requests EXCEPT ![r] = Done]
    /\ marked' = (marked \/ primary' # {})
    /\ unmarked' = (unmarked \/ (q.isPrimary = FALSE /\ q.of \in primary))
    /\ UNCHANGED crossed

\* The server is gone, the database refuses, or the API dies.
Fail(r) ==
    /\ r \in Pending
    /\ requests' = [requests EXCEPT ![r] = Done]
    /\ unmarked' = (unmarked \/ r \in Replacing)
    /\ UNCHANGED <<servers, primary, crossed, marked>>

DeleteSmtpServer(s) ==
    /\ s \in servers
    /\ servers' = servers \ {s} /\ primary' = primary \ {s}
    /\ unmarked' = (unmarked \/ s \in primary)
    /\ UNCHANGED <<requests, crossed, marked>>

-----------------------------------------------------------------------------
Next ==
    \/ \E r \in Request, s \in Server, p \in BOOLEAN \cup {Keep} : Begin(r, s, p)
    \/ \E r \in Request : ClearPrimary(r) \/ Write(r) \/ Fail(r)
    \/ \E s \in Server : DeleteSmtpServer(s)

Spec == Init /\ [][Next]_vars

-----------------------------------------------------------------------------
\* The rows and the requests have their types.
TypeOK ==
    /\ primary \subseteq servers /\ servers \subseteq Server
    /\ requests \in [Request -> {Idle, Done} \cup Working]
    /\ crossed \in BOOLEAN /\ marked \in BOOLEAN /\ unmarked \in BOOLEAN

\* There is at most one primary server, unless two requests for one crossed.
\* Once there was one, there is one whenever no request is about to write it,
\* unless a user gave the mark up or such a request failed.
OnePrimary ==
    /\ crossed \/ \A s, t \in primary : s = t
    /\ primary = {} /\ marked => unmarked \/ Replacing # {}
=============================================================================
