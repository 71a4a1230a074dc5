---------------------------- MODULE BrowserSession ----------------------------
(***************************************************************************)
(* Whom the portal's pages take the user for: the session in the browser's *)
(* storage (lib/auth.ts, lib/api.ts), which all tabs share, the query      *)
(* ["auth", "me"] of useAuthUser.ts in the cache of each tab, and the      *)
(* profile form that is filled from the one and saved with the other.      *)
(*                                                                         *)
(* A user stands for the data of an account.  A logout and a login go from *)
(* page to page without a load, so that the cache of the tab outlives them.*)
(***************************************************************************)
EXTENDS Naturals, Sequences, FiniteSets

CONSTANTS
    Tab,        \* tabs of one browser
    User,       \* people who log in on it
    None,       \* no user, nothing in a cache
    MaxLogins,  \* bound: logins
    MaxCalls    \* bound: requests under way

VARIABLES
    sessions,  \* whose the token of each login is
    token,     \* access_token in the storage and the cookie, 0 when there is none
    stored,    \* the user in the storage
    page,      \* the page of each tab
    cache,     \* the query's data in each tab
    calls,     \* requests on their way to the API or back
    accounts,  \* whose data the account of each user holds
    mixed      \* observation: somebody logged in while a tab still held another

vars == <<sessions, token, stored, page, cache, calls, accounts, mixed>>

Page == {"login", "home", "guard", "admin"}
Data == [of : User, fresh : BOOLEAN]
Call == [tab : Tab, kind : {"guard", "me", "save"}, session : 1..MaxLogins,
         form : User \cup {None}, live : BOOLEAN]

TypeOK ==
    /\ sessions \in Seq(User) /\ Len(sessions) <= MaxLogins
    /\ token \in {0} \cup DOMAIN sessions
    /\ stored \in User \cup {None} /\ page \in [Tab -> Page]
    /\ cache \in [Tab -> Data \cup {None}]
    /\ calls \subseteq Call /\ Cardinality(calls) <= MaxCalls
    /\ accounts \in [User -> User] /\ mixed \in BOOLEAN

Init ==
    /\ sessions = <<>> /\ token = 0 /\ stored = None
    /\ page = [t \in Tab |-> "login"] /\ cache = [t \in Tab |-> None]
    /\ calls = {} /\ accounts = [u \in User |-> u] /\ mixed = FALSE

-----------------------------------------------------------------------------
\* The home page and the pages behind the guard hold the form.
Uses(p) == p \in {"home", "admin"}

Requested(t, kind, form) ==
    [tab |-> t, kind |-> kind, session |-> token', form |-> form, live |-> TRUE]

Fetching(t, these) == \E c \in these : c.tab = t /\ c.kind = "me" /\ c.live

\* useQuery on a page with the form: the data of the cache, or the stored user who
\* counts as fetched now; no data or old data are fetched, once.  A request without
\* a token is refused and changes nothing.
UseAuthUser(t, data, these) ==
    LET shown == IF data = None /\ stored' # None THEN [of |-> stored', fresh |-> TRUE]
                 ELSE data
        wanting == shown = None \/ ~shown.fresh
    IN  /\ cache' = [cache EXCEPT ![t] = shown]
        /\ calls' = these \cup (IF wanting /\ token' # 0 /\ ~Fetching(t, these)
                                THEN {Requested(t, "me", None)} ELSE {})

\* A tab comes to a page, with what is left of its cache and of its requests.  The
\* guard asks for the user before the page is shown, and again for the next one;
\* without a token it goes to the login page, and the login page goes home with one.
Arrive(t, p, data, these) ==
    LET there == IF p = "admin" /\ token' = 0 THEN "login"
                 ELSE IF p = "login" /\ token' # 0 THEN "home" ELSE p
        asked == IF there = "admin" THEN {Requested(t, "guard", None)} ELSE {}
    IN  \/ /\ there = "admin" /\ page[t] # "admin"
           /\ page' = [page EXCEPT ![t] = "guard"]
           /\ cache' = [cache EXCEPT ![t] = data] /\ calls' = these \cup asked
        \/ /\ there = "admin" => page[t] = "admin"
           /\ page' = [page EXCEPT ![t] = there]
           /\ IF Uses(there) THEN UseAuthUser(t, data, these \cup asked)
              ELSE cache' = [cache EXCEPT ![t] = data] /\ calls' = these

\* A save whose tab has loaded another page: the API may still write it, and nobody
\* waits for the answer.
Left(c) == c.kind = "save" /\ ~c.live

\* A load drops what the tab has in memory, but does not call a save back.
Loads(t) ==
    {c \in calls : c.tab # t} \cup
    {[c EXCEPT !.live = FALSE] : c \in {d \in calls : d.tab = t /\ d.kind = "save"}}

\* clearAuthSession, clearBrowserAuthSession
ClearSession == token' = 0 /\ stored' = None

-----------------------------------------------------------------------------
\* Fault: the token is stored without its user.
LoginTokenOnly(t, u, p) ==
    /\ page[t] = "login" /\ Len(sessions) < MaxLogins
    /\ sessions' = Append(sessions, u)
    /\ token' = Len(sessions') /\ UNCHANGED stored
    /\ mixed' = (mixed \/ (\E s \in Tab : cache[s] # None /\ cache[s].of # u)
                       \/ (\E c \in calls : ~Left(c) /\ sessions[c.session] # u))
    /\ Arrive(t, p, cache[t], calls)
    /\ UNCHANGED accounts

\* setAuthSession, then the page the user came for, without a load.
Login(t, u, p) ==
    /\ page[t] = "login" /\ Len(sessions) < MaxLogins
    /\ sessions' = Append(sessions, u)
    /\ token' = Len(sessions') /\ stored' = u
    /\ mixed' = (mixed \/ (\E s \in Tab : cache[s] # None /\ cache[s].of # u)
                       \/ (\E c \in calls : ~Left(c) /\ sessions[c.session] # u))
    /\ Arrive(t, p, cache[t], calls)
    /\ UNCHANGED accounts

\* A link, or a load of a page.
Open(t, p) ==
    /\ UNCHANGED <<sessions, token, stored, accounts, mixed>>
    /\ \/ page[t] # "guard" /\ Arrive(t, p, cache[t], calls)
       \/ Arrive(t, p, None, Loads(t))

\* The portal's button leaves the tab where it is.
LogoutFromPortal(t) ==
    /\ page[t] = "home" /\ token # 0 /\ ClearSession
    /\ UNCHANGED <<sessions, page, cache, calls, accounts, mixed>>

LogoutFromAdmin(t) ==
    /\ page[t] = "admin" /\ ClearSession
    /\ page' = [page EXCEPT ![t] = "login"]
    /\ UNCHANGED <<sessions, cache, calls, accounts, mixed>>

\* useUpdateProfile with the form, which has the fields of the user in the cache.
SaveProfile(t) ==
    /\ Uses(page[t]) /\ cache[t] # None /\ token # 0
    /\ UNCHANGED token
    /\ calls' = calls \cup {Requested(t, "save", cache[t].of)}
    /\ UNCHANGED <<sessions, stored, page, cache, accounts, mixed>>

-----------------------------------------------------------------------------
\* The user the API answers with is stored, and cached unless the query was
\* cancelled meanwhile; the answer to the guard is stored only.
AnswerMe(c) ==
    /\ c.kind = "me" /\ stored' = sessions[c.session]
    /\ cache' = IF c.live THEN [cache EXCEPT ![c.tab] = [of |-> stored', fresh |-> TRUE]]
                ELSE cache
    /\ calls' = calls \ {c}
    /\ UNCHANGED <<sessions, token, page, accounts, mixed>>

\* getMe ends, in an answer or not, and the page is shown.
AnswerGuard(c, ok) ==
    /\ c.kind = "guard" /\ UNCHANGED token
    /\ stored' = IF ok THEN sessions[c.session] ELSE stored
    /\ IF page[c.tab] = "guard"
       THEN page' = [page EXCEPT ![c.tab] = "admin"]
            /\ UseAuthUser(c.tab, cache[c.tab], calls \ {c})
       ELSE calls' = calls \ {c} /\ UNCHANGED <<page, cache>>
    /\ UNCHANGED <<sessions, accounts, mixed>>

\* The account is written; its user is stored and cached, and the query is
\* invalidated: a fetch under way is cancelled for a new one if a page uses it.
AnswerSave(c) ==
    LET u == sessions[c.session]
        others == {IF d.tab = c.tab /\ d.kind = "me" THEN [d EXCEPT !.live = FALSE] ELSE d :
                       d \in calls \ {c}}
    IN  /\ c.kind = "save" /\ c.live /\ UNCHANGED token
        /\ accounts' = [accounts EXCEPT ![u] = c.form]
        /\ stored' = u
        /\ cache' = [cache EXCEPT ![c.tab] = [of |-> u, fresh |-> FALSE]]
        /\ calls' = IF Uses(page[c.tab]) /\ token # 0
                    THEN others \cup {Requested(c.tab, "me", None)} ELSE others
        /\ UNCHANGED <<sessions, page, mixed>>

\* The account is written and the answer reaches nobody: the tab has left, or the
\* connection breaks and the form shows an error.
WriteUnanswered(c) ==
    /\ c.kind = "save" /\ calls' = calls \ {c}
    /\ accounts' = [accounts EXCEPT ![sessions[c.session]] = c.form]
    /\ UNCHANGED <<sessions, token, stored, page, cache, mixed>>

\* 401 to a request with a token, which may have expired at any time: whatever
\* session is stored now is cleared, and the tab loads the login page.
Refuse(c) ==
    /\ ~Left(c) /\ ClearSession
    /\ page' = [page EXCEPT ![c.tab] = "login"]
    /\ cache' = [cache EXCEPT ![c.tab] = None] /\ calls' = Loads(c.tab)
    /\ UNCHANGED <<sessions, accounts, mixed>>

\* Another error, or none: the form says so, the query keeps its data.
FailCall(c) ==
    /\ c.kind # "guard" /\ calls' = calls \ {c}
    /\ UNCHANGED <<sessions, token, stored, page, cache, accounts, mixed>>

-----------------------------------------------------------------------------
\* The page with the form is drawn again and the query takes the stored user.
Redraw(t) ==
    /\ Uses(page[t]) /\ cache[t] = None /\ stored # None
    /\ cache' = [cache EXCEPT ![t] = [of |-> stored, fresh |-> TRUE]]
    /\ UNCHANGED <<sessions, token, stored, page, calls, accounts, mixed>>

\* staleTime is over.
Age(t) ==
    /\ cache[t] # None /\ cache[t].fresh
    /\ cache' = [cache EXCEPT ![t].fresh = FALSE]
    /\ UNCHANGED <<sessions, token, stored, page, calls, accounts, mixed>>

\* Data no page uses are dropped in the end.
Collect(t) ==
    /\ cache[t] # None /\ ~Uses(page[t]) /\ ~Fetching(t, calls)
    /\ cache' = [cache EXCEPT ![t] = None]
    /\ UNCHANGED <<sessions, token, stored, page, calls, accounts, mixed>>

Next ==
    /\ \/ \E t \in Tab :
              \/ \E u \in User, p \in {"home", "admin"} : Login(t, u, p)
              \/ \E p \in {"login", "home", "admin"} : Open(t, p)
              \/ LogoutFromPortal(t) \/ LogoutFromAdmin(t) \/ SaveProfile(t)
              \/ Redraw(t) \/ Age(t) \/ Collect(t)
       \/ \E c \in calls : \/ AnswerMe(c) \/ AnswerSave(c) \/ WriteUnanswered(c)
                           \/ Refuse(c) \/ FailCall(c)
                           \/ \E ok \in BOOLEAN : AnswerGuard(c, ok)
    /\ Cardinality(calls') <= MaxCalls

Spec == Init /\ [][Next]_vars

-----------------------------------------------------------------------------
\* Nobody's data are saved to the account of another, as long as nobody logs in
\* while a tab still has data or a request of somebody else: the storage, the
\* caches of the tabs and the answers that are late then agree on the user.  The
\* code has nothing against the exception: a logout keeps the cache, and a login
\* within its 60 seconds is shown, and saves, the form of the previous user.
FormIsOwn == ~mixed => \A u \in User : accounts[u] = u
=============================================================================
