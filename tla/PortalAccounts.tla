--------------------------- MODULE PortalAccounts ---------------------------
(***************************************************************************)
(* The portal's users and the people of the directory they belong to       *)
(* (active-directory-auth.service.ts, users.service.ts, jwt.strategy.ts).  *)
(* The first login of a person provisions a user in four statements; the   *)
(* synchronisation renames people and changes their addresses, users and   *)
(* administrators change those of users.  The login finds a person's user  *)
(* by its link, the guards find a user's person by name or address.        *)
(*                                                                         *)
(* Names and addresses are lower-case; the address of a person has the     *)
(* form <<name, "@domain">>, a user name this or <<name, "bare">>.  Users  *)
(* are never deleted, nor are people of Active Directory.                  *)
(***************************************************************************)
EXTENDS Naturals

CONSTANTS
    Person,    \* directory users of Active Directory
    Name,      \* their user names, and those of local accounts
    Local,     \* the names of local accounts, seeded with the database
    Login,     \* logins through Active Directory or Windows
    None,      \* no name, no address, no person
    MaxChange  \* bound: how many times people and users are changed

VARIABLES
    people,    \* the table DirectoryUser
    users,     \* the table User, by user name
    logins,    \* the local variables of authenticate and provisionPortalUser
    changes,   \* how many times people and users were changed
    named,     \* history: the names people had
    reached,   \* history: the addresses people had
    crossed    \* history: logins during which another wrote a user

vars == <<people, users, logins, changes, named, reached, crossed>>

-----------------------------------------------------------------------------
Mail == {<<n, "@domain">> : n \in Name}
Username == {<<n, "bare">> : n \in Name} \cup Mail
Address == Mail \cup {<<p, "ad-@domain">> : p \in Person}

PersonRow == [name : Name \cup {None}, mail : Mail \cup {None}, isActive : BOOLEAN]  \* None: no row yet
UserRow == [email : Address, person : Person \cup {None}, isActive : BOOLEAN]
NoUser == [email |-> None, person |-> None, isActive |-> FALSE]

Idle == [at |-> "idle"]
Stopped == [at |-> "stopped"]
Found == [at : {"found", "unlinked"}, of : Person, name : Name, mail : Mail \cup {None}]
Naming == [at : {"named"}, of : Person, name : Name, mail : Mail \cup {None}, username : Username]
Addressed == [at : {"addressed"}, of : Person, username : Username, email : Address]
Over == [at : {"done"}, of : Person, username : Username]

Provisioning(l) == logins[l].at \in {"unlinked", "named", "addressed"}
UsersOf(p) == {u \in Username : users[u] # NoUser /\ users[u].person = p}
UsersAt(email) == {u \in Username : users[u] # NoUser /\ users[u].email = email}

NamesOf(rows) == {<<p, rows[p].name>> : p \in {q \in Person : rows[q].name # None}}
MailsOf(rows) == {<<p, rows[p].mail>> : p \in {q \in Person : rows[q].mail # None}}

Init ==
    /\ people \in [Person -> [name : Name \cup {None}, mail : Mail \cup {None}, isActive : {TRUE}]]
    /\ \A p, q \in Person : p # q /\ people[p].name # None => people[p].name # people[q].name
    /\ \A p \in Person : people[p].name = None => people[p].mail = None
    /\ \E mail \in [Local -> Mail] :
           /\ \A n, o \in Local : n # o => mail[n] # mail[o]
           /\ users = [u \in Username |->
                  IF u[1] \in Local /\ u[2] = "bare"
                  THEN [email |-> mail[u[1]], person |-> None, isActive |-> TRUE] ELSE NoUser]
    /\ logins = [l \in Login |-> Idle]
    /\ changes = 0
    /\ named = NamesOf(people) /\ reached = MailsOf(people)
    /\ crossed = {}

-----------------------------------------------------------------------------
(* Changes of people and of users.                                         *)

Change == changes < MaxChange /\ changes' = changes + 1
WritePeople(rows) ==
    /\ people' = rows
    /\ named' = named \cup NamesOf(rows) /\ reached' = reached \cup MailsOf(rows)
WriteUsers(rows, writers) ==
    /\ users' = rows
    /\ crossed' = crossed \cup {l \in Login \ writers : Provisioning(l)}

\* The synchronisation writes a person it listed...
SavePerson(p, name, mail) ==
    /\ Change
    /\ \A q \in Person \ {p} : people[q].name # name
    /\ WritePeople([people EXCEPT ![p] = [name |-> name, mail |-> mail, isActive |-> TRUE]])
    /\ UNCHANGED <<users, logins, crossed>>

\* ...and one it did not.
DeactivatePerson(p) ==
    /\ people[p].isActive /\ people[p].name # None
    /\ Change
    /\ WritePeople([people EXCEPT ![p].isActive = FALSE])
    /\ UNCHANGED <<users, logins, crossed>>

\* An administrator changes the address of a user or whether it is active.
UpdateUserProfile(u, email, isActive) ==
    /\ users[u] # NoUser
    /\ email # users[u].email \/ isActive # users[u].isActive
    /\ Change
    /\ UsersAt(email) \subseteq {u}
    /\ WriteUsers([users EXCEPT ![u] =
           [users[u] EXCEPT !.email = email, !.isActive = isActive]], {})
    /\ UNCHANGED <<people, logins, named, reached>>

\* Users of the directory change their own address, with that of their person
\* after it unless the API dies in between; clearing it leaves the user's.  (For
\* users of local accounts this is the same write as the administrator's.)
UpdateProfile(u, mail) ==
    LET p == users[u].person IN
    /\ p # None
    /\ Change
    /\ UsersAt(mail) \subseteq {u}
    /\ WriteUsers([users EXCEPT ![u].email = IF mail = None THEN users[u].email ELSE mail], {})
    /\ \/ WritePeople([people EXCEPT ![p].mail = mail])
       \/ UNCHANGED <<people, named, reached>>
    /\ UNCHANGED logins

-----------------------------------------------------------------------------
(* Logins.                                                                 *)

Goes(l, q) == logins' = [logins EXCEPT ![l] = q]
TablesUnchanged == UNCHANGED <<people, users, changes, named, reached, crossed>>

\* authenticate: an active person, whom Active Directory accepts.  A login that
\* is refused, here or below, writes nothing and may be tried again.
Authenticate(l, p) ==
    /\ logins[l] = Idle
    /\ people[p].name # None /\ people[p].isActive
    /\ Goes(l, [at |-> "found", of |-> p, name |-> people[p].name, mail |-> people[p].mail])
    /\ TablesUnchanged

FindLinked(l) ==
    LET q == logins[l] IN
    /\ q.at = "found"
    /\ \/ UsersOf(q.of) = {} /\ Goes(l, [q EXCEPT !.at = "unlinked"])
       \/ \E u \in UsersOf(q.of) :
              Goes(l, IF users[u].isActive THEN [at |-> "done", of |-> q.of, username |-> u]
                      ELSE Idle)
    /\ TablesUnchanged

\* Fault: the name always carries the domain.
PortalUsernameQualified(name) == <<name, "@domain">>

PortalUsername(name) == IF users[<<name, "bare">>] # NoUser THEN <<name, "@domain">> ELSE <<name, "bare">>

FindUsername(l) ==
    LET q == logins[l] IN
    /\ q.at = "unlinked"
    /\ Goes(l, [at |-> "named", of |-> q.of, name |-> q.name, mail |-> q.mail,
                username |-> PortalUsername(q.name)])
    /\ TablesUnchanged

DesiredEmail(name, mail) == IF mail = None THEN <<name, "@domain">> ELSE mail

\* Fault: only an address of the person's own is looked up.
PortalEmailUnlessMade(p, name, mail) ==
    IF mail # None /\ UsersAt(mail) # {} THEN <<p, "ad-@domain">> ELSE DesiredEmail(name, mail)

PortalEmail(p, name, mail) ==
    IF UsersAt(DesiredEmail(name, mail)) # {} THEN <<p, "ad-@domain">> ELSE DesiredEmail(name, mail)

FindEmail(l) ==
    LET q == logins[l] IN
    /\ q.at = "named"
    /\ Goes(l, [at |-> "addressed", of |-> q.of, username |-> q.username,
                email |-> PortalEmail(q.of, q.name, q.mail)])
    /\ TablesUnchanged

\* Names, addresses and links are unique among users.
CreateUser(l) ==
    LET q == logins[l] IN
    /\ q.at = "addressed"
    /\ users[q.username] = NoUser /\ UsersAt(q.email) = {} /\ UsersOf(q.of) = {}
    /\ WriteUsers([users EXCEPT ![q.username] =
           [email |-> q.email, person |-> q.of, isActive |-> TRUE]], {l})
    /\ Goes(l, [at |-> "done", of |-> q.of, username |-> q.username])
    /\ UNCHANGED <<people, changes, named, reached>>

CreateFails(l) ==
    LET q == logins[l] IN
    /\ q.at = "addressed"
    /\ users[q.username] # NoUser \/ UsersAt(q.email) # {} \/ UsersOf(q.of) # {}
    /\ Goes(l, Stopped)
    /\ TablesUnchanged

-----------------------------------------------------------------------------
Next ==
    \/ \E p \in Person :
           \/ \E n \in Name, m \in Mail \cup {None} : SavePerson(p, n, m)
           \/ DeactivatePerson(p)
    \/ \E u \in Username :
           \/ \E m \in Mail \cup {users[u].email}, a \in BOOLEAN : UpdateUserProfile(u, m, a)
           \/ \E m \in Mail \cup {None} : UpdateProfile(u, m)
    \/ \E l \in Login :
           \/ \E p \in Person : Authenticate(l, p)
           \/ FindLinked(l) \/ FindUsername(l) \/ FindEmail(l) \/ CreateUser(l) \/ CreateFails(l)

Spec == Init /\ [][Next]_vars

-----------------------------------------------------------------------------
\* People, users and the local variables of logins have their types.
TypeOK ==
    /\ people \in [Person -> PersonRow]
    /\ users \in [Username -> UserRow \cup {NoUser}]
    /\ logins \in [Login -> {Idle, Stopped} \cup Found \cup Naming \cup Addressed \cup Over]
    /\ changes \in 0..MaxChange
    /\ named \subseteq Person \X Name /\ reached \subseteq Person \X Mail
    /\ crossed \subseteq Login

\* A name belonged to two people, one after the other.
Reused(name) == \E p, q \in Person : p # q /\ {<<p, name>>, <<q, name>>} \subseteq named

\* A first login is stopped by a unique index only when a user was written
\* between its lookups and its create: whoever has which names and addresses,
\* and whatever earlier logins, crossings and changes of address left behind,
\* the next attempt succeeds.  Unless a name passed from one person to another.
LoginSucceeds ==
    \A l \in Login \ crossed : logins[l].at = "stopped" => \E n \in Name : Reused(n)

\* The guards take a user for the person its profile shows: for the user of an
\* active person, name and address find that person and nobody else.  Unless
\* the person was renamed, or the name is also another's or a local account's,
\* or the user's address was ever another person's.
GuardsFindPerson ==
    \A u \in Username :
        LET p == users[u].person IN
        /\ p # None
        /\ people[p].isActive
        /\ \A n \in Name \ {people[p].name} : <<p, n>> \notin named
        /\ people[p].name \notin Local /\ ~Reused(people[p].name)
        /\ \A q \in Person \ {p} : <<q, users[u].email>> \notin reached
        => {q \in Person : people[q].isActive /\ people[q].name # None
                           /\ (u = <<people[q].name, "bare">> \/ people[q].mail = users[u].email)} = {p}
=============================================================================
