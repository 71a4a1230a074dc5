---------------------------- MODULE EventDispatch ----------------------------
(***************************************************************************)
(* Who is told of announcements and meetings: announcements.service.ts and *)
(* meetings.service.ts, which save a row and then dispatch an event, and   *)
(* dispatchEvent of notifications.service.ts, which reads the event's rule *)
(* and creates a portal notification and an e-mail as the rule says.       *)
(*                                                                         *)
(* The dispatch is not part of the transaction that saves the row, and the *)
(* dispatches to the participants of a meeting run beside each other.      *)
(***************************************************************************)
EXTENDS Naturals, FiniteSets

CONSTANTS
    Announcement, Meeting, \* their ids, which are not used again
    Person,     \* participants with an address, their own or the directory's
    PortalOnly, \* participants from the directory without an address
    Unreached,  \* participants of whom only the portal's user is known
    Everyone,   \* recipient of what has no recipient
    Request,    \* requests of administrators
    Rules,      \* what the rule's row may become
    Lists,      \* lists of participants the form may send
    Keep,       \* a field the request leaves out
    None,       \* no rule, no event
    MaxSaves,   \* bound: requests that save
    MaxTurns,   \* bound: changes of the rule
    MaxFaults   \* bound: rejected calls and deaths of the API

Event == Announcement \cup Meeting
Reached == Person \cup PortalOnly
Participant == Reached \cup Unreached
Channel == {"portal", "email"}

VARIABLES
    events,   \* announcement and meeting rows
    rule,     \* its row in notification_rule, which stands for those of the three keys
    notices,  \* portal notifications by event, save and recipient, counted
    mails,    \* rows of the e-mail queue, likewise
    work,     \* the requests under way
    saves,    \* bound, and the number of the latest save
    turns, faults,  \* bounds
    told      \* observation: the latest save of an event that was to tell somebody

vars == <<events, rule, notices, mails, work, saves, turns, faults, told>>

\* Meetings have participants, announcements are published or not.
Row == [state : {"none", "kept", "removed"}, published : BOOLEAN, people : SUBSET Participant]
NoRow == [state |-> "none", published |-> FALSE, people |-> {}]
RuleRow == [isActive : BOOLEAN, portalEnabled : BOOLEAN, emailEnabled : BOOLEAN]

Idle == [at |-> "idle", event |-> None, current |-> FALSE, save |-> 0, stage |-> <<>>]
Nothing == [save |-> 0, channels |-> {}, disturbed |-> FALSE]

Key == Event \X (1..MaxSaves) \X (Reached \cup {Everyone})
Stage == {"rule", "portal", "both", "email", "done", "failed"}

TypeOK ==
    /\ events \in [Event -> Row] /\ rule \in RuleRow \cup {None}
    /\ notices \in [Key -> Nat] /\ mails \in [Key -> Nat]
    /\ \A r \in Request : work[r].at \in {"idle", "update", "lookup", "dispatch"}
    /\ \A r \in Request : work[r].at = "dispatch" =>
           \A p \in DOMAIN work[r].stage : work[r].stage[p] \in Stage
    /\ saves \in 0..MaxSaves /\ turns \in 0..MaxTurns /\ faults \in 0..MaxFaults
    /\ told \in [Event -> [save : 0..MaxSaves, channels : SUBSET Channel, disturbed : BOOLEAN]]

Init ==
    /\ events \in [Event -> {NoRow, [NoRow EXCEPT !.state = "removed"]}]
    /\ rule \in Rules \cup {None}
    /\ notices = [k \in Key |-> 0] /\ mails = [k \in Key |-> 0]
    /\ work = [r \in Request |-> Idle]
    /\ saves = 0 /\ turns = 0 /\ faults = 0
    /\ told = [x \in Event |-> Nothing]

-----------------------------------------------------------------------------
\* Without a rule the portal is told and no e-mail is sent.
Channels(row) ==
    IF row = None THEN {"portal"}
    ELSE {c \in Channel : row.isActive /\ (c = "portal" => row.portalEnabled)
                                       /\ (c = "email" => row.emailEnabled)}

\* Fault: any save of a published announcement announces it.
NewlyPublishedAlways(current, published) == published

\* An announcement is announced when the save finds it unpublished and leaves it
\* published.
NewlyPublished(current, published) == ~current /\ published

\* The participants who can be told; the filter on directoryUserId and email.
Clean(people) == people \cap Reached

\* A save that tells somebody, with the rule as it is now.
Tells(x) == told' = [told EXCEPT ![x] =
    [save |-> saves', channels |-> Channels(rule), disturbed |-> FALSE]]

Disturbs(x) == told' = [told EXCEPT ![x].disturbed = TRUE]

UnderWay(x) == \E r \in Request : work[r].event = x
DisturbsUnderWay == told' = [x \in Event |->
    IF UnderWay(x) THEN [told[x] EXCEPT !.disturbed = TRUE] ELSE told[x]]

Dispatch(r, x, n, people) ==
    work' = [work EXCEPT ![r] = [at |-> "dispatch", event |-> x, current |-> FALSE, save |-> n,
                                 stage |-> [p \in people |-> "rule"]]]

\* Participants are looked up before the dispatches begin.
ToMeeting(r, x, people) ==
    IF Clean(people) = {} THEN work' = [work EXCEPT ![r] = Idle]
    ELSE work' = [work EXCEPT ![r] = [at |-> "lookup", event |-> x, current |-> FALSE,
                                      save |-> saves', stage |-> [p \in Clean(people) |-> "rule"]]]

-----------------------------------------------------------------------------
\* PUT admin/rules/:id, or the rule is seeded.
UpdateRule(row) ==
    /\ turns < MaxTurns /\ rule' = row /\ turns' = turns + 1
    /\ DisturbsUnderWay
    /\ UNCHANGED <<events, notices, mails, work, saves, faults>>

CreateAnnouncement(r, x, published) ==
    /\ work[r] = Idle /\ events[x].state = "none" /\ saves < MaxSaves
    /\ saves' = saves + 1
    /\ events' = [events EXCEPT ![x] =
           [state |-> "kept", published |-> published, people |-> {}]]
    /\ IF published THEN Dispatch(r, x, saves', {Everyone}) /\ Tells(x)
                    ELSE UNCHANGED <<work, told>>
    /\ UNCHANGED <<rule, notices, mails, turns, faults>>

\* update reads the announcement, and writes it after that.
BeginUpdate(r, x) ==
    /\ work[r] = Idle /\ events[x].state = "kept" /\ saves < MaxSaves
    /\ work' = [work EXCEPT ![r] = [at |-> "update", event |-> x, current |-> events[x].published,
                                    save |-> 0, stage |-> <<>>]]
    /\ UNCHANGED <<events, rule, notices, mails, saves, turns, faults, told>>

\* The row may be gone: the update throws.
UpdateAnnouncement(r, dto) ==
    LET x == work[r].event
        published == IF dto = Keep THEN events[x].published ELSE dto
        stale == work[r].current # events[x].published
    IN  /\ work[r].at = "update" /\ saves < MaxSaves
        /\ IF events[x].state = "removed"
           THEN work' = [work EXCEPT ![r] = Idle] /\ UNCHANGED <<events, saves, told>>
           ELSE /\ events' = [events EXCEPT ![x].published = published]
                /\ saves' = saves + 1
                /\ IF NewlyPublished(work[r].current, published)
                   THEN \* A save that publishes nothing new tells again of the latest one.
                        Dispatch(r, x, IF events[x].published THEN told[x].save ELSE saves',
                                 {Everyone})
                   ELSE work' = [work EXCEPT ![r] = Idle]
                /\ IF stale THEN Disturbs(x)
                   ELSE IF ~events[x].published /\ published THEN Tells(x)
                   ELSE UNCHANGED told
        /\ UNCHANGED <<rule, notices, mails, turns, faults>>

CreateMeeting(r, x, people) ==
    /\ work[r] = Idle /\ events[x].state = "none" /\ saves < MaxSaves
    /\ saves' = saves + 1
    /\ events' = [events EXCEPT ![x] =
           [state |-> "kept", published |-> FALSE, people |-> people]]
    /\ ToMeeting(r, x, people) /\ Tells(x)
    /\ UNCHANGED <<rule, notices, mails, turns, faults>>

\* The participants are replaced in the statement that updates the meeting.  An
\* update that leaves them out tells nobody.
UpdateMeeting(r, x, people) ==
    /\ work[r] = Idle /\ events[x].state = "kept" /\ saves < MaxSaves
    /\ saves' = saves + 1
    /\ IF people = Keep THEN UNCHANGED <<events, work, told>>
       ELSE /\ events' = [events EXCEPT ![x].people = people]
            /\ ToMeeting(r, x, people) /\ Tells(x)
    /\ UNCHANGED <<rule, notices, mails, turns, faults>>

\* The notifications of a meeting go with it; those of an announcement have no
\* reference to it.
Remove(x) ==
    /\ events[x].state = "kept"
    /\ events' = [events EXCEPT ![x].state = "removed"]
    /\ notices' = [k \in Key |-> IF k[1] = x /\ x \in Meeting THEN 0 ELSE notices[k]]
    /\ UNCHANGED <<rule, mails, work, saves, turns, faults, told>>

-----------------------------------------------------------------------------
\* The addresses and the meeting are read, for the texts; Promise.all starts.
LookUp(r) ==
    /\ work[r].at = "lookup"
    /\ work' = [work EXCEPT ![r].at = "dispatch"]
    /\ UNCHANGED <<events, rule, notices, mails, saves, turns, faults, told>>

\* What dispatchEvent has ahead for a recipient, by the rule it has read.
Ahead(p) ==
    LET mailed == "email" \in Channels(rule) /\ p \in Person
    IN  CASE "portal" \in Channels(rule) -> IF mailed THEN "both" ELSE "portal"
          [] "portal" \notin Channels(rule) -> IF mailed THEN "email" ELSE "done"

ReadRule(r, p) ==
    /\ work[r].at = "dispatch" /\ work[r].stage[p] = "rule"
    /\ work' = [work EXCEPT ![r].stage[p] = Ahead(p)]
    /\ UNCHANGED <<events, rule, notices, mails, saves, turns, faults, told>>

\* The reference to a meeting that is gone is refused, and no e-mail follows.
CreatePortalNotification(r, p) ==
    LET w == work[r]
        accepted == w.event \in Announcement \/ events[w.event].state = "kept"
    IN  /\ w.at = "dispatch" /\ w.stage[p] \in {"portal", "both"}
        /\ notices' = IF accepted THEN [notices EXCEPT ![<<w.event, w.save, p>>] = @ + 1]
                                  ELSE notices
        /\ work' = [work EXCEPT ![r].stage[p] =
               IF ~accepted THEN "failed" ELSE IF w.stage[p] = "both" THEN "email" ELSE "done"]
        /\ UNCHANGED <<events, rule, mails, saves, turns, faults, told>>

\* The template is found and filled in, and the row is created.
QueueEmail(r, p) ==
    LET w == work[r]
    IN  /\ w.at = "dispatch" /\ w.stage[p] = "email"
        /\ mails' = [mails EXCEPT ![<<w.event, w.save, p>>] = @ + 1]
        /\ work' = [work EXCEPT ![r].stage[p] = "done"]
        /\ UNCHANGED <<events, rule, notices, saves, turns, faults, told>>

\* One dispatch ends with an error: the request does too, the others go on.
DispatchFails(r, p) ==
    /\ faults < MaxFaults /\ faults' = faults + 1
    /\ work[r].at = "dispatch" /\ work[r].stage[p] \notin {"done", "failed"}
    /\ work' = [work EXCEPT ![r].stage[p] = "failed"]
    /\ Disturbs(work[r].event)
    /\ UNCHANGED <<events, rule, notices, mails, saves, turns>>

Finish(r) ==
    /\ work[r].at = "dispatch"
    /\ \A p \in DOMAIN work[r].stage : work[r].stage[p] \in {"done", "failed"}
    /\ work' = [work EXCEPT ![r] = Idle]
    /\ UNCHANGED <<events, rule, notices, mails, saves, turns, faults, told>>

\* The API dies, or a look-up is rejected: nothing takes up what was to be told.
Crash ==
    /\ faults < MaxFaults /\ faults' = faults + 1
    /\ \E r \in Request : work[r] # Idle
    /\ work' = [r \in Request |-> Idle]
    /\ DisturbsUnderWay
    /\ UNCHANGED <<events, rule, notices, mails, saves, turns>>

Next ==
    \/ \E row \in Rules : UpdateRule(row)
    \/ \E x \in Event : Remove(x)
    \/ \E r \in Request, x \in Announcement :
           BeginUpdate(r, x) \/ \E published \in BOOLEAN : CreateAnnouncement(r, x, published)
    \/ \E r \in Request, x \in Meeting :
           \/ \E people \in Lists : CreateMeeting(r, x, people)
           \/ \E people \in Lists \cup {Keep} : UpdateMeeting(r, x, people)
    \/ \E r \in Request :
           \/ LookUp(r) \/ Finish(r)
           \/ \E dto \in BOOLEAN \cup {Keep} : UpdateAnnouncement(r, dto)
           \/ \E p \in DOMAIN work[r].stage :
                  \/ ReadRule(r, p) \/ CreatePortalNotification(r, p) \/ QueueEmail(r, p)
                  \/ DispatchFails(r, p)
    \/ Crash

Spec == Init /\ [][Next]_vars

-----------------------------------------------------------------------------
\* Those an event as it stands is to be known to.
Audience(x) ==
    IF events[x].state # "kept" THEN {}
    ELSE (events[x].people \cap Reached) \cup (IF events[x].published THEN {Everyone} ELSE {})

\* Once the request that saved it is over, everyone who is to know of an event as
\* it stands has been told of it exactly once through each of the channels of its
\* rule: the participants a meeting lists of the save that listed them, however
\* many saves overlap, everybody of an announcement's publication.  Three things
\* are excepted, and the code has nothing against them: the rule is changed or a
\* call fails while the dispatch is under way, and an announcement is published or
\* withdrawn between the reading and the writing of another save of it.
ToldOnce ==
    \A x \in Event :
        LET t == told[x]
        IN  ~t.disturbed /\ (\A r \in Request : work[r].event # x \/ work[r].save # t.save) =>
                \A p \in Audience(x) :
                    /\ t.save > 0
                    /\ notices[<<x, t.save, p>>] = IF "portal" \in t.channels THEN 1 ELSE 0
                    /\ mails[<<x, t.save, p>>] =
                           IF "email" \in t.channels /\ p \in Person THEN 1 ELSE 0
=============================================================================
