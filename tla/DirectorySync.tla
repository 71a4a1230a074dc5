---------------------------- MODULE DirectorySync ----------------------------
(***************************************************************************)
(* The synchronisation of the portal's directory with Active Directory     *)
(* (directory-sync.service.ts), beside changes of contact data by users    *)
(* (auth.service.ts, updateProfile).  A synchronisation lists the accounts *)
(* and groups once and then writes row by row, without a transaction:      *)
(* accounts, memberships, and at last it deactivates what was not listed.  *)
(* The timer's flag keeps only the timer's from one another, so here any   *)
(* two may cross, fail or die anywhere.                                    *)
(*                                                                         *)
(* Groups have their rows; they are saved as accounts are, and what is     *)
(* kept of them is who is a member.  The profile has one field, the        *)
(* address.                                                                *)
(***************************************************************************)
EXTENDS Naturals

CONSTANTS
    Account,   \* objectGUIDs
    Name,      \* sAMAccountNames
    Uid,       \* the ids of directory users
    Group,     \* groups, with their rows
    None,      \* no name, no account
    Sync,      \* synchronisations, scheduled or asked for, each made once
    Profile,   \* PUT profile requests of directory users, each made once
    MaxChange  \* bound: how many changes are made in Active Directory

VARIABLES
    accounts,  \* Active Directory: name and address of each enabled account
    members,   \* Active Directory: the members of each group
    rows,      \* the table DirectoryUser
    joined,    \* the table DirectoryGroupMember
    work,      \* the local variables of each synchronisation
    profiles,  \* the local variables of each profile request
    changes,   \* how many changes were made in Active Directory
    steady,    \* history: accounts whose existence and name never changed
    reused,    \* history: a name passed from one account to another
    crossed    \* history: synchronisations that met another or a profile request

vars == <<accounts, members, rows, joined, work, profiles, changes, steady, reused, crossed>>

-----------------------------------------------------------------------------
Entry == [name : Name \cup {None}, mail : {0, 1}]  \* None: disabled, deleted or not yet there
UserRow == [name : Name, mail : {0, 1}, externalId : Account, isActive : BOOLEAN]
NoRow == [name |-> None, mail |-> 0]
Listing == [accounts : [Account -> Entry], members : [Group -> SUBSET Account]]

Ids == [Account -> Uid \cup {None}]

Idle == [at |-> "idle"]
Done == [at |-> "done"]
Failed == [at |-> "failed"]
Started == [at : {"started"}]
Users == [at : {"users"}, list : Listing, ids : Ids, left : SUBSET Account]
Saving == [at : {"found"}, list : Listing, ids : Ids, left : SUBSET Account,
           account : Account, row : Uid \cup {None}]
Groups == [at : {"groups"}, list : Listing, ids : Ids, left : SUBSET Group]
Joining == [at : {"emptied"}, list : Listing, ids : Ids, left : SUBSET Group, group : Group]
Last == [at : {"last"}, list : Listing]
Editing == [at : {"checked", "written"}, account : Account, row : Uid, mail : {0, 1}]

Active(s) == work[s].at \notin {"idle", "done", "failed"}
Working(r) == profiles[r].at \notin {"idle", "done"}
Exists(a) == accounts[a].name # None
Listed(list) == {a \in Account : list.accounts[a].name # None}
RowsOf(a) == {i \in Uid : rows[i] # NoRow /\ rows[i].externalId = a}
RowsNamed(name) == {i \in Uid : rows[i] # NoRow /\ rows[i].name = name}

Init ==
    /\ accounts \in [Account -> [name : Name \cup {None}, mail : {0}]]
    /\ \A a, b \in Account : a # b /\ Exists(a) => accounts[a].name # accounts[b].name
    /\ members = [g \in Group |-> {a \in Account : Exists(a)}]
    /\ rows = [i \in Uid |-> NoRow]
    /\ joined = [g \in Group |-> {}]
    /\ work = [s \in Sync |-> Idle]
    /\ profiles = [r \in Profile |-> Idle]
    /\ changes = 0
    /\ steady = {a \in Account : Exists(a)}
    /\ reused = FALSE
    /\ crossed = {}

-----------------------------------------------------------------------------
(* Active Directory.                                                       *)

SyncUnchanged == UNCHANGED <<rows, joined, work, profiles, crossed>>

\* An account is created, renamed, disabled or enabled; names are unique.
ChangeAccount(a, name) ==
    /\ changes < MaxChange
    /\ name # accounts[a].name
    /\ name # None => \A b \in Account : accounts[b].name # name
    /\ changes' = changes + 1
    /\ accounts' = [accounts EXCEPT ![a] = [name |-> name, mail |-> accounts[a].mail]]
    /\ steady' = steady \ {a}
    /\ reused' = \/ reused
                 \/ \E i \in RowsNamed(name) : rows[i].externalId # a
                 \/ \E s \in Sync : Active(s)
    /\ UNCHANGED members
    /\ SyncUnchanged

ChangeMember(a, g) ==
    /\ changes < MaxChange
    /\ Exists(a)
    /\ changes' = changes + 1
    /\ members' = [members EXCEPT ![g] =
           IF a \in members[g] THEN members[g] \ {a} ELSE members[g] \cup {a}]
    /\ UNCHANGED <<accounts, steady, reused>> /\ SyncUnchanged

-----------------------------------------------------------------------------
(* sync and persist.                                                       *)

OutsideUnchanged == UNCHANGED <<accounts, members, profiles, changes, steady, reused>>
NoIds == [a \in Account |-> None]
Goes(s, w) == work' = [work EXCEPT ![s] = w]

Start(s) ==
    /\ work[s] = Idle
    /\ Goes(s, [at |-> "started"])
    /\ LET others == {t \in Sync : Active(t)} IN
       crossed' = IF others = {} /\ \A r \in Profile : ~Working(r) THEN crossed
                  ELSE crossed \cup others \cup {s}
    /\ OutsideUnchanged /\ UNCHANGED <<rows, joined>>

\* Fault: a search that breaks off after some pages counts as complete.
SearchPartly(s) ==
    /\ work[s].at = "started"
    /\ \E found \in SUBSET {a \in Account : Exists(a)} :
           Goes(s, [at |-> "users", ids |-> NoIds, left |-> found,
                    list |-> [accounts |-> [a \in Account |-> IF a \in found THEN accounts[a]
                                                ELSE [name |-> None, mail |-> 0]],
                              members |-> members]])
    /\ OutsideUnchanged /\ UNCHANGED <<rows, joined, crossed>>

\* The two searches, which see one state of the directory.
Search(s) ==
    /\ work[s].at = "started"
    /\ Goes(s, [at |-> "users", list |-> [accounts |-> accounts, members |-> members],
                ids |-> NoIds, left |-> {a \in Account : Exists(a)}])
    /\ OutsideUnchanged /\ UNCHANGED <<rows, joined, crossed>>

\* Fault: accounts are told apart by their addresses.
MatchesAddress(a, entry) == RowsOf(a) \cup {i \in Uid : rows[i] # NoRow /\ rows[i].mail = entry.mail}

\* A row is this account's by its GUID or, failing that or not, its name.
Matches(a, entry) == RowsOf(a) \cup RowsNamed(entry.name)

FindUser(s) ==
    LET q == work[s] IN
    /\ q.at = "users"
    /\ \E a \in q.left :
         LET found == Matches(a, q.list.accounts[a]) IN
         \E i \in IF found = {} THEN {None} ELSE found :
            Goes(s, [at |-> "found", list |-> q.list, ids |-> q.ids, left |-> q.left \ {a},
                     account |-> a, row |-> i])
    /\ OutsideUnchanged /\ UNCHANGED <<rows, joined, crossed>>

\* Fault: the id of a row that was just created is not kept.
SaveUserWithoutId(s) ==
    LET q == work[s]
        entry == q.list.accounts[q.account]
        free == {i \in Uid : rows[i] = NoRow}
    IN  /\ q.at = "found"
        /\ \E i \in IF q.row # None THEN {q.row} ELSE free :
               /\ RowsNamed(entry.name) \cup RowsOf(q.account) \subseteq {i}
               /\ rows' = [rows EXCEPT ![i] = [name |-> entry.name, mail |-> entry.mail,
                                               externalId |-> q.account, isActive |-> TRUE]]
               /\ Goes(s, [at |-> "users", list |-> q.list, left |-> q.left,
                           ids |-> [q.ids EXCEPT ![q.account] = q.row]])
        /\ OutsideUnchanged /\ UNCHANGED <<joined, crossed>>

\* Update or create; names and GUIDs are unique among the rows.
SaveUser(s) ==
    LET q == work[s]
        entry == q.list.accounts[q.account]
        free == {i \in Uid : rows[i] = NoRow}
    IN  /\ q.at = "found"
        /\ \E i \in IF q.row # None THEN {q.row} ELSE free :
               /\ RowsNamed(entry.name) \cup RowsOf(q.account) \subseteq {i}
               /\ rows' = [rows EXCEPT ![i] = [name |-> entry.name, mail |-> entry.mail,
                                               externalId |-> q.account, isActive |-> TRUE]]
               /\ Goes(s, [at |-> "users", list |-> q.list, left |-> q.left,
                           ids |-> [q.ids EXCEPT ![q.account] = i]])
        /\ OutsideUnchanged /\ UNCHANGED <<joined, crossed>>

UsersSaved(s) ==
    /\ work[s].at = "users" /\ work[s].left = {}
    /\ Goes(s, [at |-> "groups", list |-> work[s].list, ids |-> work[s].ids, left |-> Group])
    /\ OutsideUnchanged /\ UNCHANGED <<rows, joined, crossed>>

EmptyGroup(s, g) ==
    LET q == work[s] IN
    /\ q.at = "groups" /\ g \in q.left
    /\ joined' = [joined EXCEPT ![g] = {}]
    /\ Goes(s, [at |-> "emptied", list |-> q.list, ids |-> q.ids, left |-> q.left \ {g}, group |-> g])
    /\ OutsideUnchanged /\ UNCHANGED <<rows, crossed>>

\* createMany with skipDuplicates: what is there stays.
FillGroup(s) ==
    LET q == work[s]
        ids == {q.ids[a] : a \in q.list.members[q.group] \cap Listed(q.list)}
    IN  /\ q.at = "emptied"
        /\ joined' = [joined EXCEPT ![q.group] = joined[q.group] \cup ids]
        /\ Goes(s, [at |-> "groups", list |-> q.list, ids |-> q.ids, left |-> q.left])
        /\ OutsideUnchanged /\ UNCHANGED <<rows, crossed>>

GroupsFilled(s) ==
    /\ work[s].at = "groups" /\ work[s].left = {}
    /\ Goes(s, [at |-> "last", list |-> work[s].list])
    /\ OutsideUnchanged /\ UNCHANGED <<rows, joined, crossed>>

\* An empty listing deactivates nobody.
DeactivateUsers(s) ==
    LET listed == Listed(work[s].list) IN
    /\ work[s].at = "last"
    /\ rows' = [i \in Uid |->
           IF rows[i] = NoRow \/ listed = {} \/ rows[i].externalId \in listed THEN rows[i]
           ELSE [rows[i] EXCEPT !.isActive = FALSE]]
    /\ Goes(s, Done)
    /\ OutsideUnchanged /\ UNCHANGED <<joined, crossed>>

\* A unique index (a name may also be an internal user's), the directory, the
\* database, or the death of the API.
SyncFails(s) ==
    /\ Active(s)
    /\ Goes(s, Failed)
    /\ OutsideUnchanged /\ UNCHANGED <<rows, joined, crossed>>

-----------------------------------------------------------------------------
(* updateProfile: Active Directory, the portal's user, the directory user.  *)

ProfilesUnchanged == UNCHANGED <<members, joined, work, changes, steady, reused>>
Steps(r, p) == profiles' = [profiles EXCEPT ![r] = p]

ReadProfile(r, i, mail) ==
    /\ profiles[r] = Idle
    /\ rows[i] # NoRow
    /\ Steps(r, [at |-> "checked", account |-> rows[i].externalId, row |-> i, mail |-> mail])
    /\ crossed' = crossed \cup {s \in Sync : Active(s)}
    /\ UNCHANGED <<accounts, rows>> /\ ProfilesUnchanged

UpdateContact(r) ==
    LET p == profiles[r] IN
    /\ p.at = "checked"
    /\ Exists(p.account)
    /\ accounts' = [accounts EXCEPT ![p.account] = [accounts[p.account] EXCEPT !.mail = p.mail]]
    /\ Steps(r, [p EXCEPT !.at = "written"])
    /\ UNCHANGED <<rows, crossed>> /\ ProfilesUnchanged

\* The write of the portal's user, which no synchronisation looks at, is part
\* of this step (PortalAccounts is about it).
UpdateDirectoryUser(r) ==
    LET p == profiles[r] IN
    /\ p.at = "written"
    /\ rows' = [rows EXCEPT ![p.row] = [rows[p.row] EXCEPT !.mail = p.mail]]
    /\ Steps(r, Done)
    /\ UNCHANGED <<accounts, crossed>> /\ ProfilesUnchanged

\* Active Directory refuses, the address is another user's, the API dies.
ProfileFails(r) ==
    /\ Working(r)
    /\ Steps(r, Done)
    /\ UNCHANGED <<accounts, rows, crossed>> /\ ProfilesUnchanged

-----------------------------------------------------------------------------
Next ==
    \/ \E a \in Account, n \in Name \cup {None} : ChangeAccount(a, n)
    \/ \E a \in Account, g \in Group : ChangeMember(a, g)
    \/ \E s \in Sync :
           \/ Start(s) \/ Search(s) \/ FindUser(s) \/ SaveUser(s) \/ UsersSaved(s)
           \/ \E g \in Group : EmptyGroup(s, g)
           \/ FillGroup(s) \/ GroupsFilled(s) \/ DeactivateUsers(s) \/ SyncFails(s)
    \/ \E r \in Profile :
           \/ \E i \in Uid, mail \in {0, 1} : ReadProfile(r, i, mail)
           \/ UpdateContact(r) \/ UpdateDirectoryUser(r) \/ ProfileFails(r)

Spec == Init /\ [][Next]_vars

-----------------------------------------------------------------------------
\* The directories, the tables and the local variables have their types.
TypeOK ==
    /\ accounts \in [Account -> Entry]
    /\ members \in [Group -> SUBSET Account]
    /\ rows \in [Uid -> UserRow \cup {NoRow}]
    /\ joined \in [Group -> SUBSET Uid]
    /\ work \in [Sync -> {Idle, Done, Failed} \cup Started \cup Users \cup Saving \cup Groups
                         \cup Joining \cup Last]
    /\ profiles \in [Profile -> {Idle, Done} \cup Editing]
    /\ changes \in 0..MaxChange
    /\ steady \subseteq Account
    /\ reused \in BOOLEAN /\ crossed \subseteq Sync

\* A synchronisation that nothing crossed leaves the portal's directory as
\* it found Active Directory, whatever failed or crossed ones left before:
\* every listed account has one row, active, with its name and address, no
\* other row is active, and groups have just the listed members.
MirrorsDirectory ==
    [][\A s \in Sync \ crossed :
          work[s].at = "last" /\ work'[s] = Done /\ Listed(work[s].list) # {} =>
              LET list == work[s].list
                  rowsOf(a) == {i \in Uid : rows'[i] # NoRow /\ rows'[i].externalId = a}
              IN  /\ \A a \in Listed(list) : \E i \in Uid :
                         /\ rowsOf(a) = {i} /\ rows'[i].isActive
                         /\ rows'[i].name = list.accounts[a].name
                         /\ rows'[i].mail = list.accounts[a].mail
                  /\ \A i \in Uid : rows'[i] # NoRow /\ rows'[i].isActive =>
                         rows'[i].externalId \in Listed(list)
                  /\ \A g \in Group : joined'[g] = UNION {rowsOf(a) : a \in list.members[g] \cap Listed(list)}]_vars

\* "Stable objectGUID identities" (technical documentation): a row, to which
\* roles, groups and history belong, never passes from one account to
\* another, unless a name did, or names changed during a synchronisation.
IdentityIsStable ==
    [][\A i \in Uid : rows[i] # NoRow =>
          rows'[i].externalId = rows[i].externalId \/ reused]_vars

\* An account that has always been in Active Directory, enabled and under one
\* name, is never deactivated, whatever crosses, fails or dies.
SteadyStaysActive ==
    \A i \in Uid : rows[i] # NoRow /\ rows[i].externalId \in steady => rows[i].isActive
=============================================================================
