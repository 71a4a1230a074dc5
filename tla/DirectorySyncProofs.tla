-------------------------- MODULE DirectorySyncProofs --------------------------
(***************************************************************************)
(* Theorems about DirectorySync, which PlatformMC calls Directory: rows    *)
(* keep their accounts, accounts that were always there stay active, and   *)
(* an undisturbed synchronisation mirrors Active Directory.                *)
(***************************************************************************)
EXTENDS PlatformProofs

\* What is left to save is listed, and what was saved has an id.
ListsAreKept ==
    \A s \in Sync :
        LET q == directoryWork[s] IN
        /\ q.at = "users" =>
               /\ q.left \subseteq Directory!Listed(q.list)
               /\ \A a \in Directory!Listed(q.list) \ q.left : q.ids[a] \in Uid
        /\ q.at = "found" =>
               /\ q.left \subseteq Directory!Listed(q.list) /\ q.account \in Directory!Listed(q.list)
               /\ \A a \in Directory!Listed(q.list) \ q.left : a = q.account \/ q.ids[a] \in Uid
        /\ q.at \in {"groups", "emptied"} =>
               \A a \in Directory!Listed(q.list) : q.ids[a] \in Uid

\* The row of a profile request stays.
ProfileHasRow == \A r \in Profile : Directory!Working(r) => rows[profiles[r].row] # Directory!NoRow

DirectoryTyped == Directory!TypeOK /\ ListsAreKept /\ ProfileHasRow

\* Every step of DirectorySync keeps the types.
LEMMA DirectoryType ==
    ASSUME DirectoryTyped, [Directory!Next]_(Directory!vars)
    PROVE  DirectoryTyped'
<1>i. Directory!TypeOK /\ ListsAreKept /\ ProfileHasRow
  BY DEF DirectoryTyped
<1> USE <1>i DEF Directory!TypeOK, Directory!Idle, Directory!Done, Directory!Failed
<1>a. ASSUME UNCHANGED <<directoryWork, profiles, rows>>, Directory!TypeOK' PROVE DirectoryTyped'
  BY <1>a DEF DirectoryTyped, ListsAreKept, ProfileHasRow, Directory!Working
<1>1. ASSUME NEW a \in Account, NEW n \in Name \cup {None}, Directory!ChangeAccount(a, n)
      PROVE  DirectoryTyped'
  BY <1>1, <1>a, PlatformBoundAssumption DEF Directory!ChangeAccount, Directory!SyncUnchanged, Directory!Entry
<1>2. ASSUME NEW a \in Account, NEW g \in Group, Directory!ChangeMember(a, g) PROVE DirectoryTyped'
  BY <1>2, <1>a, PlatformBoundAssumption DEF Directory!ChangeMember, Directory!SyncUnchanged
<1> DEFINE Work == {Directory!Idle, Directory!Done, Directory!Failed} \cup Directory!Started
                   \cup Directory!Users \cup Directory!Saving \cup Directory!Groups
                   \cup Directory!Joining \cup Directory!Last
\* A step of one synchronisation.
<1>s. ASSUME NEW s \in Sync, NEW w \in Work, Directory!Goes(s, w), Directory!OutsideUnchanged,
             rows' \in [Uid -> Directory!UserRow \cup {Directory!NoRow}],
             \A i \in Uid : rows[i] # Directory!NoRow => rows'[i] # Directory!NoRow,
             joined' \in [Group -> SUBSET Uid], directoryCrossed' \subseteq Sync,
             w.at = "users" =>
               /\ w.left \subseteq Directory!Listed(w.list)
               /\ \A a \in Directory!Listed(w.list) \ w.left : w.ids[a] \in Uid,
             w.at = "found" =>
               /\ w.left \subseteq Directory!Listed(w.list) /\ w.account \in Directory!Listed(w.list)
               /\ \A a \in Directory!Listed(w.list) \ w.left : a = w.account \/ w.ids[a] \in Uid,
             w.at \in {"groups", "emptied"} =>
               \A a \in Directory!Listed(w.list) : w.ids[a] \in Uid
      PROVE  DirectoryTyped'
  <2>1. directoryWork' = [directoryWork EXCEPT ![s] = w]
    BY <1>s DEF Directory!Goes
  <2>2. Directory!TypeOK'
    BY <1>s, <2>1 DEF Directory!OutsideUnchanged
  <2>3. ListsAreKept'
    <3> HIDE DEF Directory!TypeOK
    <3>1. DOMAIN directoryWork = Sync
      BY DEF Directory!TypeOK
    <3>2. ASSUME NEW t \in Sync, t # s PROVE directoryWork'[t] = directoryWork[t]
      BY <2>1, <3>1, <3>2
    <3>3. directoryWork'[s] = w
      BY <2>1, <3>1
    <3>4. QED
      BY SMTT(40), <1>s, <3>2, <3>3 DEF ListsAreKept, Directory!Listed
  <2>4. ProfileHasRow'
    BY <1>s DEF Directory!OutsideUnchanged, ProfileHasRow, Directory!Working, Directory!Editing
  <2>5. QED
    BY <2>2, <2>3, <2>4 DEF DirectoryTyped
<1> HIDE DEF Work
<1>3. ASSUME NEW s \in Sync, Directory!Start(s) PROVE DirectoryTyped'
  <2>1. [at |-> "started"] \in Work
    BY DEF Work, Directory!Started
  <2>2. QED
    BY <1>3, <1>s, <2>1 DEF Directory!Start, Directory!Active
<1>4. ASSUME NEW s \in Sync, Directory!Search(s) PROVE DirectoryTyped'
  <2> DEFINE w == [at |-> "users", list |-> [accounts |-> accounts, members |-> members],
                   ids |-> Directory!NoIds, left |-> {a \in Account : Directory!Exists(a)}]
  <2>1. w \in Work
    BY DEF Work, Directory!Users, Directory!Listing, Directory!Ids, Directory!NoIds
  <2>2. w.left = Directory!Listed(w.list)
    BY DEF Directory!Exists, Directory!Listed
  <2>3. QED
    BY <1>4, <1>s, <2>1, <2>2 DEF Directory!Search
<1>5. ASSUME NEW s \in Sync, Directory!FindUser(s) PROVE DirectoryTyped'
  <2> DEFINE q == directoryWork[s]
  <2>1. PICK a \in q.left, i \in Uid \cup {None} :
            Directory!Goes(s, [at |-> "found", list |-> q.list, ids |-> q.ids, left |-> q.left \ {a},
                               account |-> a, row |-> i])
    BY <1>5 DEF Directory!FindUser, Directory!Matches, Directory!RowsOf, Directory!RowsNamed
  <2> DEFINE w == [at |-> "found", list |-> q.list, ids |-> q.ids, left |-> q.left \ {a},
                   account |-> a, row |-> i]
  <2>2. q.at = "users" /\ q \in Directory!Users
    BY <1>5 DEF Directory!FindUser, Directory!Started, Directory!Users, Directory!Saving,
                Directory!Groups, Directory!Joining, Directory!Last
  <2>3. w \in Work
    BY <2>2 DEF Work, Directory!Users, Directory!Saving
  <2>4. /\ w.left \subseteq Directory!Listed(w.list) /\ w.account \in Directory!Listed(w.list)
        /\ \A b \in Directory!Listed(w.list) \ w.left : b = w.account \/ w.ids[b] \in Uid
    BY <2>2 DEF ListsAreKept
  <2>5. QED
    BY <1>5, <1>s, <2>1, <2>3, <2>4 DEF Directory!FindUser
<1>6. ASSUME NEW s \in Sync, Directory!SaveUser(s) PROVE DirectoryTyped'
  <2> DEFINE q == directoryWork[s]
             entry == q.list.accounts[q.account]
             row == [name |-> entry.name, mail |-> entry.mail, externalId |-> q.account, isActive |-> TRUE]
  <2>2. q.at = "found" /\ q \in Directory!Saving /\ q.account \in Directory!Listed(q.list)
    BY <1>6 DEF Directory!SaveUser, Directory!Started, Directory!Users, Directory!Saving,
                Directory!Groups, Directory!Joining, Directory!Last, ListsAreKept
  <2>1. PICK i \in Uid :
            /\ rows' = [rows EXCEPT ![i] = row]
            /\ Directory!Goes(s, [at |-> "users", list |-> q.list, left |-> q.left,
                                  ids |-> [q.ids EXCEPT ![q.account] = i]])
    BY <1>6, <2>2 DEF Directory!SaveUser, Directory!Saving
  <2> DEFINE w == [at |-> "users", list |-> q.list, left |-> q.left,
                   ids |-> [q.ids EXCEPT ![q.account] = i]]
  <2>3. w \in Work
    BY <2>2 DEF Work, Directory!Users, Directory!Saving, Directory!Ids
  <2>4. /\ w.left \subseteq Directory!Listed(w.list)
        /\ \A a \in Directory!Listed(w.list) \ w.left : w.ids[a] \in Uid
    BY <2>2 DEF ListsAreKept, Directory!Saving, Directory!Ids, Directory!Listed
  <2>5. row \in Directory!UserRow /\ row # Directory!NoRow
    BY <2>2 DEF Directory!Saving, Directory!Listing, Directory!Entry, Directory!Listed,
                Directory!UserRow, Directory!NoRow
  <2>6. /\ rows' \in [Uid -> Directory!UserRow \cup {Directory!NoRow}]
        /\ \A j \in Uid : rows[j] # Directory!NoRow => rows'[j] # Directory!NoRow
    BY <2>1, <2>5
  <2>7. QED
    BY <1>6, <1>s, <2>1, <2>3, <2>4, <2>6 DEF Directory!SaveUser
<1>7. ASSUME NEW s \in Sync, Directory!UsersSaved(s) PROVE DirectoryTyped'
  <2> DEFINE q == directoryWork[s]
             w == [at |-> "groups", list |-> q.list, ids |-> q.ids, left |-> Group]
  <2>1. q.at = "users" /\ q.left = {} /\ q \in Directory!Users
    BY <1>7 DEF Directory!UsersSaved, Directory!Started, Directory!Users, Directory!Saving,
                Directory!Groups, Directory!Joining, Directory!Last
  <2>2. w \in Work
    BY <2>1 DEF Work, Directory!Users, Directory!Groups
  <2>3. \A a \in Directory!Listed(w.list) : w.ids[a] \in Uid
    BY <2>1 DEF ListsAreKept
  <2>4. QED
    BY <1>7, <1>s, <2>2, <2>3 DEF Directory!UsersSaved
<1>8. ASSUME NEW s \in Sync, NEW g \in Group, Directory!EmptyGroup(s, g) PROVE DirectoryTyped'
  <2> DEFINE q == directoryWork[s]
             w == [at |-> "emptied", list |-> q.list, ids |-> q.ids, left |-> q.left \ {g}, group |-> g]
  <2>1. q.at = "groups" /\ q \in Directory!Groups
    BY <1>8 DEF Directory!EmptyGroup, Directory!Started, Directory!Users, Directory!Saving,
                Directory!Groups, Directory!Joining, Directory!Last
  <2>2. w \in Work
    BY <2>1 DEF Work, Directory!Groups, Directory!Joining
  <2>3. \A a \in Directory!Listed(w.list) : w.ids[a] \in Uid
    BY <2>1 DEF ListsAreKept
  <2>4. QED
    BY <1>8, <1>s, <2>2, <2>3 DEF Directory!EmptyGroup
<1>9. ASSUME NEW s \in Sync, Directory!FillGroup(s) PROVE DirectoryTyped'
  <2> DEFINE q == directoryWork[s]
             w == [at |-> "groups", list |-> q.list, ids |-> q.ids, left |-> q.left]
             ids == {q.ids[a] : a \in q.list.members[q.group] \cap Directory!Listed(q.list)}
  <2>1. q.at = "emptied" /\ q \in Directory!Joining
    BY <1>9 DEF Directory!FillGroup, Directory!Started, Directory!Users, Directory!Saving,
                Directory!Groups, Directory!Joining, Directory!Last
  <2>2. w \in Work
    BY <2>1 DEF Work, Directory!Groups, Directory!Joining
  <2>3. \A a \in Directory!Listed(w.list) : w.ids[a] \in Uid
    BY <2>1 DEF ListsAreKept
  <2>4. ids \subseteq Uid
    BY <2>3
  <2>5. joined' = [joined EXCEPT ![q.group] = joined[q.group] \cup ids] /\ q.group \in Group
    BY <1>9, <2>1 DEF Directory!FillGroup, Directory!Joining
  <2>6. joined' \in [Group -> SUBSET Uid]
    <3> HIDE DEF ids
    <3>1. QED
      BY <2>4, <2>5
  <2>7. QED
    BY <1>9, <1>s, <2>2, <2>3, <2>6 DEF Directory!FillGroup
<1>10. ASSUME NEW s \in Sync, Directory!GroupsFilled(s) PROVE DirectoryTyped'
  <2> DEFINE q == directoryWork[s]
             w == [at |-> "last", list |-> q.list]
  <2>1. q.at = "groups" /\ q \in Directory!Groups
    BY <1>10 DEF Directory!GroupsFilled, Directory!Started, Directory!Users, Directory!Saving,
                 Directory!Groups, Directory!Joining, Directory!Last
  <2>2. w \in Work
    BY <2>1 DEF Work, Directory!Groups, Directory!Last
  <2>3. QED
    BY <1>10, <1>s, <2>2 DEF Directory!GroupsFilled
<1>11. ASSUME NEW s \in Sync, Directory!DeactivateUsers(s) PROVE DirectoryTyped'
  <2>1. /\ rows' \in [Uid -> Directory!UserRow \cup {Directory!NoRow}]
        /\ \A j \in Uid : rows[j] # Directory!NoRow => rows'[j] # Directory!NoRow
    BY <1>11 DEF Directory!DeactivateUsers, Directory!UserRow, Directory!NoRow
  <2>2. Directory!Done \in Work
    BY DEF Work
  <2>3. QED
    BY <1>11, <1>s, <2>1, <2>2 DEF Directory!DeactivateUsers
<1>12. ASSUME NEW s \in Sync, Directory!SyncFails(s) PROVE DirectoryTyped'
  <2>1. Directory!Failed \in Work
    BY DEF Work
  <2>2. QED
    BY <1>12, <1>s, <2>1 DEF Directory!SyncFails
<1> USE DEF Directory!ProfilesUnchanged, Directory!Steps, Directory!Editing
<1>13. ASSUME NEW r \in Profile, NEW i \in Uid, NEW mail \in {0, 1}, Directory!ReadProfile(r, i, mail)
       PROVE  DirectoryTyped'
  <2>1. Directory!TypeOK'
    BY <1>13 DEF Directory!ReadProfile, Directory!UserRow
  <2>2. ListsAreKept' /\ ProfileHasRow'
    BY <1>13 DEF Directory!ReadProfile, ListsAreKept, ProfileHasRow, Directory!Working
  <2>3. QED
    BY <2>1, <2>2 DEF DirectoryTyped
<1>14. ASSUME NEW r \in Profile, Directory!UpdateContact(r) PROVE DirectoryTyped'
  <2> DEFINE p == profiles[r]
             entry == [accounts[p.account] EXCEPT !.mail = p.mail]
  <2>a. p \in Directory!Editing /\ [p EXCEPT !.at = "written"] \in Directory!Editing
    BY <1>14 DEF Directory!UpdateContact, Directory!Editing
  <2>b. entry \in Directory!Entry
    BY <2>a DEF Directory!Entry, Directory!Editing
  <2>c. /\ accounts' = [accounts EXCEPT ![p.account] = entry]
        /\ profiles' = [profiles EXCEPT ![r] = [p EXCEPT !.at = "written"]]
        /\ UNCHANGED <<members, rows, joined, directoryWork, directoryChanges, steady, reused, directoryCrossed>>
    BY <1>14 DEF Directory!UpdateContact, Directory!Steps, Directory!ProfilesUnchanged
  <2>d. p.account \in Account
    BY <2>a DEF Directory!Editing
  <2>1. Directory!TypeOK'
    <3> HIDE DEF p, entry
    <3>1. accounts' \in [Account -> Directory!Entry]
      BY <2>b, <2>c, <2>d
    <3>2. profiles' \in [Profile -> {Directory!Idle, Directory!Done} \cup Directory!Editing]
      BY <2>a, <2>c DEF p
    <3>3. QED
      BY <2>c, <3>1, <3>2
  <2>2. ListsAreKept' /\ ProfileHasRow'
    BY <1>14 DEF Directory!UpdateContact, ListsAreKept, ProfileHasRow, Directory!Working
  <2>3. QED
    BY <2>1, <2>2 DEF DirectoryTyped
<1>15. ASSUME NEW r \in Profile, Directory!UpdateDirectoryUser(r) PROVE DirectoryTyped'
  <2> DEFINE p == profiles[r]
             row == [rows[p.row] EXCEPT !.mail = p.mail]
  <2>1. p \in Directory!Editing /\ rows[p.row] # Directory!NoRow
    BY <1>15 DEF Directory!UpdateDirectoryUser, ProfileHasRow, Directory!Working
  <2>2. row \in Directory!UserRow /\ row # Directory!NoRow
    BY <2>1 DEF Directory!UserRow, Directory!NoRow
  <2>3. Directory!TypeOK'
    BY <1>15, <2>1, <2>2 DEF Directory!UpdateDirectoryUser
  <2>4. ListsAreKept' /\ ProfileHasRow'
    BY <1>15, <2>1, <2>2 DEF Directory!UpdateDirectoryUser, ListsAreKept, ProfileHasRow, Directory!Working
  <2>5. QED
    BY <2>3, <2>4 DEF DirectoryTyped
<1>16. ASSUME NEW r \in Profile, Directory!ProfileFails(r) PROVE DirectoryTyped'
  <2>1. Directory!TypeOK'
    BY <1>16 DEF Directory!ProfileFails
  <2>2. ListsAreKept' /\ ProfileHasRow'
    BY <1>16 DEF Directory!ProfileFails, ListsAreKept, ProfileHasRow, Directory!Working
  <2>3. QED
    BY <2>1, <2>2 DEF DirectoryTyped
<1>17. CASE UNCHANGED Directory!vars
  BY <1>17, <1>a DEF Directory!vars
<1>18. QED
  BY <1>1, <1>2, <1>3, <1>4, <1>5, <1>6, <1>7, <1>8, <1>9, <1>10, <1>11, <1>12, <1>13,
     <1>14, <1>15, <1>16, <1>17 DEF Directory!Next

\* The initial states of DirectorySync have their types.
LEMMA DirectoryStarts == Directory!Init => DirectoryTyped
<1> SUFFICES ASSUME Directory!Init PROVE DirectoryTyped
  OBVIOUS
<1>1. Directory!TypeOK
  <2>1. /\ accounts \in [Account -> Directory!Entry] /\ members \in [Group -> SUBSET Account]
        /\ steady \subseteq Account /\ reused \in BOOLEAN /\ directoryCrossed \subseteq Sync
    BY DEF Directory!Init, Directory!Entry
  <2>2. /\ rows \in [Uid -> Directory!UserRow \cup {Directory!NoRow}]
        /\ joined \in [Group -> SUBSET Uid] /\ directoryChanges \in 0..MaxChange
    BY PlatformBoundAssumption DEF Directory!Init
  <2>3. /\ directoryWork \in [Sync -> {Directory!Idle}] /\ profiles \in [Profile -> {Directory!Idle}]
    BY DEF Directory!Init
  <2>4. QED
    BY <2>1, <2>2, <2>3 DEF Directory!TypeOK
<1>2. ListsAreKept /\ ProfileHasRow
  BY DEF Directory!Init, ListsAreKept, ProfileHasRow, Directory!Working, Directory!Idle
<1>3. QED
  BY <1>1, <1>2 DEF DirectoryTyped

-----------------------------------------------------------------------------
(* Rows, accounts and lists.                                               *)

\* The synchronisations that have listed the directory.
HasList(w) == w.at \in {"users", "found", "groups", "emptied", "last"}

\* A step that touches neither accounts nor rows and makes no list.
Quiet ==
    /\ UNCHANGED <<accounts, rows, steady, reused>>
    /\ \A s \in Sync : LET q == directoryWork[s] w == directoryWork'[s] IN
           \/ w = q
           \/ w.at \in {"started", "done", "failed"}
           \/ w.at \in {"groups", "emptied", "last"} /\ HasList(q) /\ w.list = q.list

\* Every step is quiet, or one of the few that write a row or a list.
LEMMA QuietSteps ==
    ASSUME DirectoryTyped, [Directory!Next]_(Directory!vars)
    PROVE  \/ Quiet
           \/ \E a \in Account, n \in Name \cup {None} : Directory!ChangeAccount(a, n)
           \/ \E s \in Sync : \/ Directory!Search(s) \/ Directory!FindUser(s)
                              \/ Directory!SaveUser(s) \/ Directory!DeactivateUsers(s)
           \/ \E r \in Profile : Directory!UpdateContact(r) \/ Directory!UpdateDirectoryUser(r)
<1>w. DOMAIN directoryWork = Sync
  BY DEF DirectoryTyped, Directory!TypeOK
<1> USE <1>w DEF Quiet, HasList, Directory!SyncUnchanged, Directory!OutsideUnchanged, Directory!Goes,
            Directory!ProfilesUnchanged, Directory!Idle, Directory!Done, Directory!Failed
<1>1. ASSUME NEW a \in Account, NEW g \in Group, Directory!ChangeMember(a, g) PROVE Quiet
  BY <1>1 DEF Directory!ChangeMember
<1>2. ASSUME NEW s \in Sync, Directory!Start(s) PROVE Quiet
  BY <1>2 DEF Directory!Start
<1>3. ASSUME NEW s \in Sync, Directory!UsersSaved(s) PROVE Quiet
  BY <1>3 DEF Directory!UsersSaved
<1>4. ASSUME NEW s \in Sync, NEW g \in Group, Directory!EmptyGroup(s, g) PROVE Quiet
  BY <1>4 DEF Directory!EmptyGroup
<1>5. ASSUME NEW s \in Sync, Directory!FillGroup(s) PROVE Quiet
  BY <1>5 DEF Directory!FillGroup
<1>6. ASSUME NEW s \in Sync, Directory!GroupsFilled(s) PROVE Quiet
  BY <1>6 DEF Directory!GroupsFilled
<1>7. ASSUME NEW s \in Sync, Directory!SyncFails(s) PROVE Quiet
  BY <1>7 DEF Directory!SyncFails
<1>8. ASSUME NEW r \in Profile, NEW i \in Uid, NEW mail \in {0, 1}, Directory!ReadProfile(r, i, mail)
      PROVE  Quiet
  BY <1>8 DEF Directory!ReadProfile
<1>9. ASSUME NEW r \in Profile, Directory!ProfileFails(r) PROVE Quiet
  BY <1>9 DEF Directory!ProfileFails
<1>10. CASE UNCHANGED Directory!vars
  BY <1>10 DEF Directory!vars
<1>11. QED
  BY <1>1, <1>2, <1>3, <1>4, <1>5, <1>6, <1>7, <1>8, <1>9, <1>10 DEF Directory!Next

\* Accounts that were always there are there, and in every list.
SteadyListed ==
    /\ \A a \in steady : Directory!Exists(a)
    /\ \A s \in Sync : HasList(directoryWork[s]) => steady \subseteq Directory!Listed(directoryWork[s].list)

SteadyInv == DirectoryTyped /\ SteadyListed /\ SteadyStaysActive

\* Every step keeps steady accounts in the lists that decide about them.
LEMMA SteadyInvStep ==
    ASSUME SteadyInv, [Directory!Next]_(Directory!vars)
    PROVE  SteadyInv'
<1>i. DirectoryTyped /\ SteadyListed /\ Directory!SteadyStaysActive
  BY DEF SteadyInv, SteadyStaysActive
<1>t. DirectoryTyped'
  BY <1>i, DirectoryType
<1>d. /\ directoryWork \in [Sync -> {Directory!Idle, Directory!Done, Directory!Failed} \cup Directory!Started
                   \cup Directory!Users \cup Directory!Saving \cup Directory!Groups
                   \cup Directory!Joining \cup Directory!Last]
      /\ steady \subseteq Account /\ accounts \in [Account -> Directory!Entry]
      /\ rows \in [Uid -> Directory!UserRow \cup {Directory!NoRow}]
  BY <1>i DEF DirectoryTyped, Directory!TypeOK
<1> SUFFICES SteadyListed' /\ Directory!SteadyStaysActive'
  BY <1>t DEF SteadyInv, SteadyStaysActive
<1> USE DEF Directory!Exists, Directory!Listed, Directory!OutsideUnchanged, Directory!Goes,
            Directory!ProfilesUnchanged
<1>1. CASE Quiet
  BY <1>i, <1>1 DEF Quiet, HasList, SteadyListed, Directory!SteadyStaysActive
<1>2. ASSUME NEW a \in Account, NEW n \in Name \cup {None}, Directory!ChangeAccount(a, n)
      PROVE  SteadyListed' /\ Directory!SteadyStaysActive'
  BY <1>i, <1>d, <1>2 DEF Directory!ChangeAccount, Directory!SyncUnchanged, SteadyListed, HasList,
                          Directory!SteadyStaysActive
<1>3. ASSUME NEW s \in Sync, Directory!Search(s) PROVE SteadyListed' /\ Directory!SteadyStaysActive'
  BY <1>i, <1>d, <1>3 DEF Directory!Search, SteadyListed, HasList, Directory!SteadyStaysActive
<1>4. ASSUME NEW s \in Sync, Directory!FindUser(s) PROVE SteadyListed' /\ Directory!SteadyStaysActive'
  BY <1>i, <1>d, <1>4 DEF Directory!FindUser, SteadyListed, HasList, Directory!SteadyStaysActive
<1>5. ASSUME NEW s \in Sync, Directory!SaveUser(s) PROVE SteadyListed' /\ Directory!SteadyStaysActive'
  <2>1. SteadyListed'
    BY <1>i, <1>d, <1>5 DEF Directory!SaveUser, SteadyListed, HasList
  <2>2. Directory!SteadyStaysActive'
    BY <1>i, <1>d, <1>5 DEF Directory!SaveUser, Directory!SteadyStaysActive
  <2>3. QED
    BY <2>1, <2>2
<1>6. ASSUME NEW s \in Sync, Directory!DeactivateUsers(s)
      PROVE  SteadyListed' /\ Directory!SteadyStaysActive'
  <2>1. SteadyListed'
    BY <1>i, <1>d, <1>6 DEF Directory!DeactivateUsers, SteadyListed, HasList, Directory!Done
  <2>2. steady \subseteq Directory!Listed(directoryWork[s].list)
    BY <1>i, <1>6 DEF Directory!DeactivateUsers, SteadyListed, HasList
  <2>3. Directory!SteadyStaysActive'
    <3> HIDE DEF Directory!Listed
    <3>1. ASSUME NEW i \in Uid, rows'[i] # Directory!NoRow, rows'[i].externalId \in steady
          PROVE  rows'[i] = rows[i]
      BY <1>d, <1>6, <2>2, <3>1 DEF Directory!DeactivateUsers, Directory!UserRow
    <3>2. steady' = steady
      BY <1>6 DEF Directory!DeactivateUsers
    <3>3. QED
      BY <1>i, <3>1, <3>2 DEF Directory!SteadyStaysActive
  <2>4. QED
    BY <2>1, <2>3
<1>7. ASSUME NEW r \in Profile, Directory!UpdateContact(r)
      PROVE  SteadyListed' /\ Directory!SteadyStaysActive'
  BY <1>i, <1>d, <1>7 DEF Directory!UpdateContact, SteadyListed, HasList, Directory!SteadyStaysActive,
                          Directory!Entry
<1>8. ASSUME NEW r \in Profile, Directory!UpdateDirectoryUser(r)
      PROVE  SteadyListed' /\ Directory!SteadyStaysActive'
  <2>1. SteadyListed'
    BY <1>i, <1>d, <1>8 DEF Directory!UpdateDirectoryUser, SteadyListed
  <2>2. rows[profiles[r].row] # Directory!NoRow
    BY <1>i, <1>8 DEF Directory!UpdateDirectoryUser, DirectoryTyped, ProfileHasRow, Directory!Working
  <2>3. Directory!SteadyStaysActive'
    BY <1>i, <1>d, <1>8, <2>2 DEF Directory!UpdateDirectoryUser, Directory!SteadyStaysActive,
                                  Directory!UserRow
  <2>4. QED
    BY <2>1, <2>3
<1>9. QED
  BY <1>i, <1>1, <1>2, <1>3, <1>4, <1>5, <1>6, <1>7, <1>8, QuietSteps

\* An account that has always been in Active Directory is never deactivated,
\* whatever crosses, fails or dies (DirectorySync.SteadyStaysActive).
THEOREM DirectorySteadyStaysActive == Directory!Spec => []SteadyStaysActive
<1>1. Directory!Init => SteadyInv
  <2> SUFFICES ASSUME Directory!Init PROVE SteadyInv
    OBVIOUS
  <2>1. SteadyListed /\ Directory!SteadyStaysActive
    BY DEF Directory!Init, SteadyListed, HasList, Directory!SteadyStaysActive, Directory!Idle
  <2>2. QED
    BY <2>1, DirectoryStarts DEF SteadyInv, SteadyStaysActive
<1>2. SteadyInv /\ [Directory!Next]_(Directory!vars) => SteadyInv'
  BY SteadyInvStep
<1>3. SteadyInv => SteadyStaysActive
  BY DEF SteadyInv
<1>4. QED
  BY <1>1, <1>2, <1>3, PTL DEF Directory!Spec

\* The instance that TLC checks runs the directory or leaves it alone.
LEMMA PlatformRunsDirectory == PlatformSpec => Directory!Spec
<1>1. PlatformInit => Directory!Init
  BY DEF PlatformInit
<1>2. [PlatformNext]_platformVars => [Directory!Next]_(Directory!vars)
  BY PlatformStep
<1>3. QED
  BY <1>1, <1>2, PTL DEF PlatformSpec, Directory!Spec

\* In the system PlatformMC composes, an account that has always been in Active
\* Directory stays active.
COROLLARY SteadyStaysActiveHolds == PlatformSpec => []SteadyStaysActive
BY DirectorySteadyStaysActive, PlatformRunsDirectory, PTL

-----------------------------------------------------------------------------
(* Identities.                                                             *)

NamesApart == \A a, b \in Account : Directory!Exists(a) /\ accounts[a].name = accounts[b].name => a = b

\* A row under the name of an account is the account's.
NameTellsAccount ==
    \A i \in Uid, a \in Account :
        rows[i] # Directory!NoRow /\ rows[i].name = accounts[a].name => rows[i].externalId = a

\* The lists have the names of now.
ListsHaveNames ==
    \A s \in Sync : HasList(directoryWork[s]) =>
        \A a \in Account : directoryWork[s].list.accounts[a].name = accounts[a].name

\* The row a synchronisation found is the account's.
FoundIsOwn ==
    \A s \in Sync : LET q == directoryWork[s] IN
        q.at = "found" /\ q.row # None =>
            rows[q.row] # Directory!NoRow /\ rows[q.row].externalId = q.account

IdentityInv ==
    /\ DirectoryTyped /\ NamesApart
    /\ ~reused => NameTellsAccount /\ ListsHaveNames /\ FoundIsOwn

\* As long as no name passed on, no step but ChangeAccount says one did, and rows
\* keep their accounts.
LEMMA IdentityInvStep ==
    ASSUME IdentityInv, [Directory!Next]_(Directory!vars)
    PROVE  /\ IdentityInv'
           /\ \A i \in Uid : rows[i] # Directory!NoRow =>
                  rows'[i].externalId = rows[i].externalId \/ reused
<1>i. DirectoryTyped /\ NamesApart /\ (~reused => NameTellsAccount /\ ListsHaveNames /\ FoundIsOwn)
  BY DEF IdentityInv
<1>t. DirectoryTyped'
  BY <1>i, DirectoryType
<1>d. /\ directoryWork \in [Sync -> {Directory!Idle, Directory!Done, Directory!Failed} \cup Directory!Started
                   \cup Directory!Users \cup Directory!Saving \cup Directory!Groups
                   \cup Directory!Joining \cup Directory!Last]
      /\ accounts \in [Account -> Directory!Entry]
      /\ rows \in [Uid -> Directory!UserRow \cup {Directory!NoRow}] /\ reused \in BOOLEAN
  BY <1>i DEF DirectoryTyped, Directory!TypeOK
<1> DEFINE Kept == \A i \in Uid : rows[i] # Directory!NoRow => rows'[i].externalId = rows[i].externalId
           Goal == NamesApart' /\ (~reused' => ~reused /\ NameTellsAccount' /\ ListsHaveNames' /\ FoundIsOwn')
                   /\ (~reused => Kept)
<1> SUFFICES Goal
  BY <1>t DEF IdentityInv
<1>n. \A i \in Uid : rows[i] # Directory!NoRow => rows[i] \in Directory!UserRow /\ rows[i].name # None
  BY <1>d, NothingAssumption DEF Directory!UserRow
<1> USE DEF Directory!Exists, Directory!OutsideUnchanged, Directory!Goes, Directory!ProfilesUnchanged
<1>1. CASE Quiet
  <2>1. FoundIsOwn => FoundIsOwn'
    BY <1>1 DEF Quiet, FoundIsOwn
  <2>2. ListsHaveNames => ListsHaveNames'
    BY <1>1 DEF Quiet, ListsHaveNames, HasList
  <2>3. NamesApart' /\ (NameTellsAccount => NameTellsAccount') /\ Kept /\ reused' = reused
    BY <1>1, <1>i DEF Quiet, NamesApart, NameTellsAccount
  <2>4. QED
    BY <1>i, <2>1, <2>2, <2>3
<1>2. ASSUME NEW a \in Account, NEW n \in Name \cup {None}, Directory!ChangeAccount(a, n) PROVE Goal
  <2>1. /\ accounts' = [accounts EXCEPT ![a] = [name |-> n, mail |-> accounts[a].mail]]
        /\ UNCHANGED <<rows, directoryWork>> /\ (n # None => \A b \in Account : accounts[b].name # n)
        /\ reused' = (reused \/ (\E i \in Directory!RowsNamed(n) : rows[i].externalId # a)
                             \/ (\E s \in Sync : Directory!Active(s)))
    BY <1>2 DEF Directory!ChangeAccount, Directory!SyncUnchanged
  <2>2. NamesApart'
    BY <1>d, <1>i, <2>1 DEF NamesApart
  <2>3. ASSUME ~reused'
        PROVE  ~reused /\ NameTellsAccount' /\ ListsHaveNames' /\ FoundIsOwn'
    <3>1. /\ ~reused /\ \A i \in Directory!RowsNamed(n) : rows[i].externalId = a
          /\ \A s \in Sync : directoryWork[s].at \in {"idle", "done", "failed"}
      BY <2>1, <2>3 DEF Directory!Active
    <3>2. NameTellsAccount'
      BY <1>d, <1>i, <1>n, <2>1, <3>1 DEF NameTellsAccount, Directory!RowsNamed
    <3>3. ListsHaveNames' /\ FoundIsOwn'
      BY <2>1, <3>1 DEF ListsHaveNames, FoundIsOwn, HasList
    <3>4. QED
      BY <3>1, <3>2, <3>3
  <2>4. QED
    BY <2>1, <2>2, <2>3
<1>3. ASSUME NEW s \in Sync, Directory!Search(s) PROVE Goal
  <2>1. UNCHANGED <<accounts, rows, reused>>
    BY <1>3 DEF Directory!Search
  <2>2. FoundIsOwn => FoundIsOwn'
    BY <1>3, <1>d DEF Directory!Search, FoundIsOwn
  <2>3. ListsHaveNames => ListsHaveNames'
    BY <1>3, <1>d DEF Directory!Search, ListsHaveNames, HasList
  <2>4. NamesApart' /\ (NameTellsAccount => NameTellsAccount') /\ Kept
    BY <1>i, <2>1 DEF NamesApart, NameTellsAccount
  <2>5. QED
    BY <1>i, <2>1, <2>2, <2>3, <2>4
<1>4. ASSUME NEW s \in Sync, Directory!FindUser(s) PROVE Goal
  <2> DEFINE q == directoryWork[s]
  <2>1. UNCHANGED <<accounts, rows, reused>> /\ q.at = "users" /\ q \in Directory!Users
    BY <1>4, <1>d DEF Directory!FindUser, Directory!Started, Directory!Users, Directory!Saving,
                Directory!Groups, Directory!Joining, Directory!Last, Directory!Idle, Directory!Done,
                Directory!Failed
  <2>a. PICK a \in q.left : \E i \in Directory!Matches(a, q.list.accounts[a]) \cup {None} :
            directoryWork' = [directoryWork EXCEPT ![s] =
                [at |-> "found", list |-> q.list, ids |-> q.ids, left |-> q.left \ {a},
                 account |-> a, row |-> i]]
    BY <1>4 DEF Directory!FindUser
  <2>2. PICK i \in Directory!Matches(a, q.list.accounts[a]) \cup {None} :
            directoryWork' = [directoryWork EXCEPT ![s] =
                [at |-> "found", list |-> q.list, ids |-> q.ids, left |-> q.left \ {a},
                 account |-> a, row |-> i]]
    BY <2>a
  <2>3. a \in Account /\ a \in Directory!Listed(q.list)
    BY <1>i, <2>1 DEF Directory!Users, DirectoryTyped, ListsAreKept
  <2>4. ASSUME NameTellsAccount, ListsHaveNames, FoundIsOwn, i # None
        PROVE  rows[i] # Directory!NoRow /\ rows[i].externalId = a
    BY <1>i, <2>1, <2>2, <2>3, <2>4 DEF Directory!Matches, Directory!RowsOf, Directory!RowsNamed,
                     NameTellsAccount, ListsHaveNames, HasList
  <2>5. NameTellsAccount /\ ListsHaveNames /\ FoundIsOwn => FoundIsOwn'
    BY <1>d, <2>1, <2>2, <2>4 DEF FoundIsOwn
  <2>6. ListsHaveNames => ListsHaveNames'
    BY <1>d, <2>1, <2>2 DEF ListsHaveNames, HasList
  <2>7. NamesApart' /\ (NameTellsAccount => NameTellsAccount') /\ Kept
    BY <1>i, <2>1 DEF NamesApart, NameTellsAccount
  <2>8. QED
    BY <1>i, <2>1, <2>5, <2>6, <2>7
<1>5. ASSUME NEW s \in Sync, Directory!SaveUser(s) PROVE Goal
  <2> DEFINE q == directoryWork[s]
             entry == q.list.accounts[q.account]
  <2>1. UNCHANGED <<accounts, reused>> /\ q.at = "found" /\ q \in Directory!Saving
        /\ q.account \in Directory!Listed(q.list)
    BY <1>5, <1>d, <1>i DEF Directory!SaveUser, Directory!Started, Directory!Users, Directory!Saving,
                Directory!Groups, Directory!Joining, Directory!Last, Directory!Idle, Directory!Done,
                Directory!Failed, DirectoryTyped, ListsAreKept
  <2>2. PICK i \in Uid :
            /\ IF q.row # None THEN i = q.row ELSE rows[i] = Directory!NoRow
            /\ rows' = [rows EXCEPT ![i] = [name |-> entry.name, mail |-> entry.mail,
                                            externalId |-> q.account, isActive |-> TRUE]]
            /\ directoryWork' = [directoryWork EXCEPT ![s] =
                   [at |-> "users", list |-> q.list, left |-> q.left,
                    ids |-> [q.ids EXCEPT ![q.account] = i]]]
    BY <1>5, <2>1 DEF Directory!SaveUser, Directory!Saving
  <2>3. ASSUME NameTellsAccount, ListsHaveNames, FoundIsOwn
        PROVE  NameTellsAccount' /\ ListsHaveNames' /\ FoundIsOwn' /\ Kept
    <3>1. rows[i] # Directory!NoRow => rows[i].externalId = q.account
      BY <2>1, <2>2, <2>3 DEF FoundIsOwn
    <3>2. Kept
      BY <1>d, <2>2, <3>1
    <3>3. entry.name = accounts[q.account].name /\ q.account \in Account /\ Directory!Exists(q.account)
      BY <2>1, <2>3 DEF ListsHaveNames, HasList, Directory!Listed
    <3>4. NameTellsAccount'
      BY <1>d, <1>i, <2>1, <2>2, <2>3, <3>3 DEF NameTellsAccount, NamesApart
    <3>5. ListsHaveNames'
      BY <1>d, <2>1, <2>2, <2>3 DEF ListsHaveNames, HasList
    <3>6. FoundIsOwn'
      <4>1. ASSUME NEW t \in Sync, t # s, directoryWork[t].at = "found", directoryWork[t].row # None
            PROVE  LET p == directoryWork[t]
                   IN  rows'[p.row] # Directory!NoRow /\ rows'[p.row].externalId = p.account
        <5>1. rows[directoryWork[t].row] # Directory!NoRow
              /\ rows[directoryWork[t].row].externalId = directoryWork[t].account
          BY <2>3, <4>1 DEF FoundIsOwn
        <5>2. rows'[i].externalId = q.account /\ rows'[i] # Directory!NoRow
          BY <1>d, <2>2, <1>t DEF Directory!NoRow
        <5>3. QED
          BY <1>d, <2>2, <3>1, <5>1, <5>2
      <4>2. QED
        BY <1>d, <2>2, <4>1 DEF FoundIsOwn
    <3>7. QED
      BY <3>2, <3>4, <3>5, <3>6
  <2>4. NamesApart'
    BY <1>i, <2>1 DEF NamesApart
  <2>5. QED
    BY <1>i, <2>1, <2>3, <2>4
<1>6. ASSUME NEW s \in Sync, Directory!DeactivateUsers(s) PROVE Goal
  <2>1. UNCHANGED <<accounts, reused>> /\ directoryWork' = [directoryWork EXCEPT ![s] = Directory!Done]
    BY <1>6 DEF Directory!DeactivateUsers
  <2>2. \A i \in Uid : /\ rows'[i] = Directory!NoRow <=> rows[i] = Directory!NoRow
                       /\ rows[i] # Directory!NoRow => /\ rows'[i].name = rows[i].name
                                                       /\ rows'[i].externalId = rows[i].externalId
    BY <1>6, <1>d DEF Directory!DeactivateUsers, Directory!UserRow, Directory!NoRow
  <2>3. NamesApart' /\ Kept /\ (NameTellsAccount => NameTellsAccount')
    BY <1>i, <2>1, <2>2 DEF Directory!NoRow, NamesApart, NameTellsAccount
  <2>4. ListsHaveNames => ListsHaveNames'
    BY <1>d, <2>1 DEF ListsHaveNames, HasList, Directory!Done
  <2>5. FoundIsOwn => FoundIsOwn'
    <3>1. ASSUME NEW t \in Sync, directoryWork'[t].at = "found", directoryWork'[t].row # None
          PROVE  directoryWork'[t] = directoryWork[t] /\ directoryWork[t].row \in Uid
      BY <1>d, <2>1, <3>1 DEF Directory!Done, Directory!Started, Directory!Users, Directory!Saving,
                Directory!Groups, Directory!Joining, Directory!Last, Directory!Idle, Directory!Failed
    <3>2. QED
      BY <2>2, <3>1 DEF Directory!NoRow, FoundIsOwn
  <2>6. QED
    BY <1>i, <2>1, <2>3, <2>4, <2>5
<1>7. ASSUME NEW r \in Profile, Directory!UpdateContact(r) PROVE Goal
  <2>1. /\ UNCHANGED <<rows, reused, directoryWork>> /\ DOMAIN accounts' = Account
        /\ \A a \in Account : accounts'[a].name = accounts[a].name
    BY <1>7, <1>d DEF Directory!UpdateContact, Directory!Entry
  <2>2. NamesApart' /\ Kept /\ (NameTellsAccount => NameTellsAccount')
    BY <1>i, <2>1 DEF NamesApart, NameTellsAccount
  <2>3. (ListsHaveNames => ListsHaveNames') /\ (FoundIsOwn => FoundIsOwn')
    BY <2>1 DEF ListsHaveNames, FoundIsOwn
  <2>4. QED
    BY <1>i, <2>1, <2>2, <2>3
<1>8. ASSUME NEW r \in Profile, Directory!UpdateDirectoryUser(r) PROVE Goal
  <2>1. UNCHANGED <<accounts, reused, directoryWork>> /\ rows[profiles[r].row] # Directory!NoRow
        /\ rows' = [rows EXCEPT ![profiles[r].row] = [rows[profiles[r].row] EXCEPT !.mail = profiles[r].mail]]
    BY <1>8, <1>i DEF Directory!UpdateDirectoryUser, DirectoryTyped, ProfileHasRow, Directory!Working
  <2>2. \A i \in Uid : /\ rows'[i] = Directory!NoRow <=> rows[i] = Directory!NoRow
                       /\ rows[i] # Directory!NoRow => /\ rows'[i].name = rows[i].name
                                                       /\ rows'[i].externalId = rows[i].externalId
    BY <1>d, <2>1 DEF Directory!UserRow, Directory!NoRow
  <2>3. NamesApart' /\ Kept /\ (NameTellsAccount => NameTellsAccount')
    BY <1>i, <2>1, <2>2 DEF Directory!NoRow, NamesApart, NameTellsAccount
  <2>4. ListsHaveNames => ListsHaveNames'
    BY <2>1 DEF ListsHaveNames
  <2>5. FoundIsOwn => FoundIsOwn'
    <3>1. ASSUME NEW t \in Sync, directoryWork[t].at = "found", directoryWork[t].row # None
          PROVE  directoryWork[t].row \in Uid
      BY <1>d, <3>1 DEF Directory!Done, Directory!Started, Directory!Users, Directory!Saving,
                Directory!Groups, Directory!Joining, Directory!Last, Directory!Idle, Directory!Failed
    <3>2. QED
      BY <2>1, <2>2, <3>1 DEF Directory!NoRow, FoundIsOwn
  <2>6. QED
    BY <1>i, <2>1, <2>3, <2>4, <2>5
<1>9. QED
  BY <1>i, <1>1, <1>2, <1>3, <1>4, <1>5, <1>6, <1>7, <1>8, QuietSteps

\* A row of the directory never passes from one account to another, unless a name
\* did or names changed during a synchronisation (DirectorySync.IdentityIsStable).
THEOREM DirectoryIdentityIsStable == Directory!Spec => IdentityIsStable
<1>1. Directory!Init => IdentityInv
  <2> SUFFICES ASSUME Directory!Init PROVE IdentityInv
    OBVIOUS
  <2>1. NamesApart /\ NameTellsAccount /\ ListsHaveNames /\ FoundIsOwn
    BY DEF Directory!Init, NamesApart, NameTellsAccount, ListsHaveNames, FoundIsOwn, HasList, Directory!Idle
  <2>2. QED
    BY <2>1, DirectoryStarts DEF IdentityInv
<1>2. IdentityInv /\ [Directory!Next]_(Directory!vars) => IdentityInv'
  BY IdentityInvStep
<1>3. IdentityInv /\ [Directory!Next]_(Directory!vars) =>
        [\A i \in Uid : rows[i] # Directory!NoRow =>
             rows'[i].externalId = rows[i].externalId \/ reused]_(Directory!vars)
  BY IdentityInvStep
<1>4. QED
  BY <1>1, <1>2, <1>3, PTL DEF Directory!Spec, IdentityIsStable, Directory!IdentityIsStable

\* In the system PlatformMC composes, a row of the directory stays its account's.
COROLLARY IdentityIsStableHolds == PlatformSpec => IdentityIsStable
BY DirectoryIdentityIsStable, PlatformRunsDirectory, PTL

-----------------------------------------------------------------------------
(* The mirror.                                                             *)

\* A synchronisation that nothing crossed is alone.
RunsAlone ==
    \A s \in Sync \ directoryCrossed : Directory!Active(s) =>
        /\ \A t \in Sync \ {s} : ~Directory!Active(t)
        /\ \A r \in Profile : ~Directory!Working(r)

\* The names of a list are apart.
ListsApart ==
    \A s \in Sync : HasList(directoryWork[s]) =>
        \A a, b \in Directory!Listed(directoryWork[s].list) :
            directoryWork[s].list.accounts[a].name = directoryWork[s].list.accounts[b].name => a = b

\* The row of an account is the only one of it, and as the list says.
Mirrored(list, a, i) ==
    /\ Directory!RowsOf(a) = {i}
    /\ rows[i].isActive /\ rows[i].name = list.accounts[a].name /\ rows[i].mail = list.accounts[a].mail

IdsOf(q, g) == {q.ids[a] : a \in q.list.members[g] \cap Directory!Listed(q.list)}
Rows(list, g) == UNION {Directory!RowsOf(a) : a \in list.members[g] \cap Directory!Listed(list)}

\* How far a synchronisation has come.
Progress(q) ==
    /\ q.at = "users" =>
           \A a \in Directory!Listed(q.list) \ q.left : Mirrored(q.list, a, q.ids[a])
    /\ q.at = "found" =>
           /\ \A a \in Directory!Listed(q.list) \ q.left : a = q.account \/ Mirrored(q.list, a, q.ids[a])
           /\ q.row # None => q.row \in Directory!Matches(q.account, q.list.accounts[q.account])
    /\ q.at = "groups" =>
           /\ \A a \in Directory!Listed(q.list) : Mirrored(q.list, a, q.ids[a])
           /\ \A g \in Group \ q.left : joined[g] = IdsOf(q, g)
    /\ q.at = "emptied" =>
           /\ \A a \in Directory!Listed(q.list) : Mirrored(q.list, a, q.ids[a])
           /\ \A g \in Group \ q.left : joined[g] = IF g = q.group THEN {} ELSE IdsOf(q, g)
    /\ q.at = "last" =>
           /\ \A a \in Directory!Listed(q.list) : \E i \in Uid : Mirrored(q.list, a, i)
           /\ \A g \in Group : joined[g] = Rows(q.list, g)

MirrorInv ==
    /\ IdentityInv /\ ListsApart /\ RunsAlone
    /\ \A s \in Sync \ directoryCrossed : \A q : q = directoryWork[s] => Progress(q)

\* What a step of a synchronisation is.
Persists(s) ==
    \/ Directory!Search(s) \/ Directory!FindUser(s) \/ Directory!SaveUser(s) \/ Directory!UsersSaved(s)
    \/ \E g \in Group : Directory!EmptyGroup(s, g)
    \/ Directory!FillGroup(s) \/ Directory!GroupsFilled(s) \/ Directory!DeactivateUsers(s)

\* Next to a synchronisation that nothing crosses, nothing touches its tables.
LEMMA AloneSteps ==
    ASSUME DirectoryTyped, RunsAlone, [Directory!Next]_(Directory!vars)
    PROVE  /\ RunsAlone'
           /\ \A s \in Sync \ directoryCrossed' :
                  \/ directoryWork'[s].at \in {"idle", "started", "done", "failed"}
                  \/ UNCHANGED <<rows, joined>> /\ directoryWork'[s] = directoryWork[s]
                  \/ Persists(s)
<1>w. DOMAIN directoryWork = Sync /\ DOMAIN profiles = Profile
  BY DEF DirectoryTyped, Directory!TypeOK
<1> USE <1>w DEF RunsAlone, Directory!Active, Directory!Working, Directory!SyncUnchanged,
            Directory!OutsideUnchanged, Directory!Goes, Directory!ProfilesUnchanged, Directory!Steps,
            Directory!Idle, Directory!Done, Directory!Failed
<1> DEFINE Rest == \A s \in Sync \ directoryCrossed' :
                       \/ directoryWork'[s].at \in {"idle", "started", "done", "failed"}
                       \/ UNCHANGED <<rows, joined>> /\ directoryWork'[s] = directoryWork[s]
                       \/ Persists(s)
           Goal == RunsAlone' /\ Rest
<1>1. ASSUME NEW a \in Account, NEW n \in Name \cup {None}, Directory!ChangeAccount(a, n) PROVE Goal
  BY <1>1 DEF Directory!ChangeAccount
<1>2. ASSUME NEW a \in Account, NEW g \in Group, Directory!ChangeMember(a, g) PROVE Goal
  BY <1>2 DEF Directory!ChangeMember
<1>3. ASSUME NEW s \in Sync, Directory!Start(s) PROVE Goal
  BY <1>3 DEF Directory!Start
<1>4. ASSUME NEW s \in Sync, Persists(s) PROVE Goal
  <2>1. /\ Directory!Active(s) /\ UNCHANGED <<profiles, directoryCrossed>>
        /\ \E w : directoryWork' = [directoryWork EXCEPT ![s] = w]
    BY <1>4 DEF Persists, Directory!Search, Directory!FindUser, Directory!SaveUser, Directory!UsersSaved,
       Directory!EmptyGroup, Directory!FillGroup, Directory!GroupsFilled, Directory!DeactivateUsers
  <2>2. QED
    BY <1>4, <2>1
<1>5. ASSUME NEW s \in Sync, Directory!SyncFails(s) PROVE Goal
  BY <1>5 DEF Directory!SyncFails
<1>6. ASSUME NEW r \in Profile, NEW i \in Uid, NEW mail \in {0, 1}, Directory!ReadProfile(r, i, mail)
      PROVE  Goal
  BY <1>6 DEF Directory!ReadProfile
<1>7. ASSUME NEW r \in Profile, Directory!UpdateContact(r) PROVE Goal
  BY <1>7 DEF Directory!UpdateContact
<1>8. ASSUME NEW r \in Profile, Directory!UpdateDirectoryUser(r) PROVE Goal
  BY <1>8 DEF Directory!UpdateDirectoryUser
<1>9. ASSUME NEW r \in Profile, Directory!ProfileFails(r) PROVE Goal
  BY <1>9 DEF Directory!ProfileFails
<1>10. CASE UNCHANGED Directory!vars
  BY <1>10 DEF Directory!vars
<1>11. QED
  BY <1>1, <1>2, <1>3, <1>4, <1>5, <1>6, <1>7, <1>8, <1>9, <1>10 DEF Directory!Next, Persists

\* Every step keeps the lists of two synchronisations apart.
LEMMA ListsApartStep ==
    ASSUME IdentityInv, ListsApart, [Directory!Next]_(Directory!vars)
    PROVE  ListsApart'
<1>i. DirectoryTyped /\ NamesApart
  BY DEF IdentityInv
<1>w. DOMAIN directoryWork = Sync
  BY <1>i DEF DirectoryTyped, Directory!TypeOK
<1> USE <1>i, <1>w DEF ListsApart, HasList, Directory!Listed, Directory!OutsideUnchanged, Directory!Goes,
            Directory!ProfilesUnchanged, Directory!SyncUnchanged
<1>1. CASE Quiet
  BY <1>1 DEF Quiet
<1>2. ASSUME NEW a \in Account, NEW n \in Name \cup {None}, Directory!ChangeAccount(a, n) PROVE ListsApart'
  BY <1>2 DEF Directory!ChangeAccount
<1>3. ASSUME NEW s \in Sync, Directory!Search(s) PROVE ListsApart'
  BY <1>3 DEF Directory!Search, NamesApart, Directory!Exists
<1>4. ASSUME NEW s \in Sync, Directory!FindUser(s) PROVE ListsApart'
  BY <1>4 DEF Directory!FindUser
<1>5. ASSUME NEW s \in Sync, Directory!SaveUser(s) PROVE ListsApart'
  BY SMTT(40), <1>5 DEF Directory!SaveUser
<1>6. ASSUME NEW s \in Sync, Directory!DeactivateUsers(s) PROVE ListsApart'
  BY <1>6 DEF Directory!DeactivateUsers, Directory!Done
<1>7. ASSUME NEW r \in Profile, Directory!UpdateContact(r) \/ Directory!UpdateDirectoryUser(r)
      PROVE  ListsApart'
  BY <1>7 DEF Directory!UpdateContact, Directory!UpdateDirectoryUser
<1>8. QED
  BY <1>1, <1>2, <1>3, <1>4, <1>5, <1>6, <1>7, QuietSteps

\* A step of a synchronisation that nothing crosses brings it on.
LEMMA ProgressStep ==
    ASSUME MirrorInv, NEW s \in Sync, s \notin directoryCrossed, Persists(s),
           NEW q, q = directoryWork[s], NEW w, w = directoryWork'[s]
    PROVE  Progress(w)'
<1>i. DirectoryTyped /\ ListsApart /\ Progress(q)
  BY DEF MirrorInv, IdentityInv
<1>d. /\ directoryWork \in [Sync -> {Directory!Idle, Directory!Done, Directory!Failed} \cup Directory!Started
                   \cup Directory!Users \cup Directory!Saving \cup Directory!Groups
                   \cup Directory!Joining \cup Directory!Last]
      /\ rows \in [Uid -> Directory!UserRow \cup {Directory!NoRow}]
      /\ joined \in [Group -> SUBSET Uid]
  BY <1>i DEF DirectoryTyped, Directory!TypeOK
<1> USE DEF Directory!OutsideUnchanged, Directory!Goes
\* Without a change of rows, what was mirrored is.
<1>r. ASSUME UNCHANGED rows, NEW list, NEW a, NEW i, Mirrored(list, a, i) PROVE Mirrored(list, a, i)'
  BY <1>r DEF Mirrored, Directory!RowsOf
<1>1. CASE Directory!Search(s)
  <2>1. w.at = "users" /\ w.left = Directory!Listed(w.list)
    BY <1>1, <1>d DEF Directory!Search, Directory!Exists, Directory!Listed
  <2>2. QED
    BY <2>1 DEF Progress
<1>2. CASE Directory!FindUser(s)
  <2>1. PICK a \in q.left : \E i \in Directory!Matches(a, q.list.accounts[a]) \cup {None} :
            w = [at |-> "found", list |-> q.list, ids |-> q.ids, left |-> q.left \ {a},
                 account |-> a, row |-> i]
    BY ZenonT(60), <1>2, <1>d DEF Directory!FindUser
  <2>2. UNCHANGED rows /\ q.at = "users"
    BY <1>2 DEF Directory!FindUser
  <2>3. \A b \in Directory!Listed(q.list) \ q.left : Mirrored(q.list, b, q.ids[b])'
    BY <1>i, <1>r, <2>2 DEF Progress
  <2>4. \A b, e : Directory!Matches(b, e)' = Directory!Matches(b, e)
    BY <2>2 DEF Directory!Matches, Directory!RowsOf, Directory!RowsNamed
  <2>5. QED
    BY <2>1, <2>3, <2>4 DEF Progress
<1>3. CASE Directory!SaveUser(s)
  <2> DEFINE entry == q.list.accounts[q.account]
             row == [name |-> entry.name, mail |-> entry.mail, externalId |-> q.account, isActive |-> TRUE]
  <2>1. q.at = "found" /\ q \in Directory!Saving /\ q.account \in Directory!Listed(q.list)
    BY <1>3, <1>d, <1>i DEF Directory!SaveUser, Directory!Started, Directory!Users, Directory!Saving,
                Directory!Groups, Directory!Joining, Directory!Last, Directory!Idle, Directory!Done,
                Directory!Failed, DirectoryTyped, ListsAreKept
  <2>2. PICK i \in Uid :
            /\ IF q.row # None THEN i = q.row ELSE rows[i] = Directory!NoRow
            /\ Directory!RowsNamed(entry.name) \cup Directory!RowsOf(q.account) \subseteq {i}
            /\ rows' = [rows EXCEPT ![i] = row]
            /\ w = [at |-> "users", list |-> q.list, left |-> q.left,
                    ids |-> [q.ids EXCEPT ![q.account] = i]]
    BY ZenonT(60), <1>3, <1>d, <2>1 DEF Directory!SaveUser, Directory!Saving
  <2>3. row # Directory!NoRow
    BY DEF Directory!NoRow
  <2>4. Mirrored(q.list, q.account, i)'
    BY <1>d, <2>2, <2>3 DEF Mirrored, Directory!RowsOf
  <2>5. ASSUME NEW a \in Directory!Listed(q.list) \ q.left, a # q.account
        PROVE  Mirrored(q.list, a, q.ids[a])'
    <3>1. Mirrored(q.list, a, q.ids[a])
      BY <1>i, <2>1, <2>5 DEF Progress
    <3>2. i # q.ids[a]
      <4>1. rows[q.ids[a]] # Directory!NoRow /\ rows[q.ids[a]].externalId = a
            /\ rows[q.ids[a]].name = q.list.accounts[a].name
        BY <3>1 DEF Mirrored, Directory!RowsOf
      <4>2. a = q.account \/ q.list.accounts[a].name # entry.name
        BY <1>i, <2>1, <2>5 DEF ListsApart, HasList
      <4>3. q.row # None => q.row \in Directory!RowsOf(q.account) \cup Directory!RowsNamed(entry.name)
        BY <1>i, <2>1 DEF Progress, Directory!Matches
      <4>4. QED
        BY <2>2, <2>5, <4>1, <4>2, <4>3 DEF Directory!RowsOf, Directory!RowsNamed
    <3>3. Directory!RowsOf(a)' = Directory!RowsOf(a)
      BY <1>d, <2>2, <2>5, <3>1, <3>2 DEF Mirrored, Directory!RowsOf
    <3>4. q.ids[a] \in Uid
      BY <3>1 DEF Mirrored, Directory!RowsOf
    <3>5. QED
      BY <1>d, <2>2, <3>1, <3>2, <3>3, <3>4 DEF Mirrored
  <2>6. \A a \in Directory!Listed(q.list) \ q.left :
            w.ids[a] = IF a = q.account THEN i ELSE q.ids[a]
    BY <2>1, <2>2 DEF Directory!Saving, Directory!Ids, Directory!Listed
  <2>7. QED
    BY <2>2, <2>4, <2>5, <2>6 DEF Progress
<1>4. CASE Directory!UsersSaved(s)
  <2>1. w = [at |-> "groups", list |-> q.list, ids |-> q.ids, left |-> Group]
        /\ UNCHANGED rows /\ q.at = "users" /\ q.left = {}
    BY <1>4, <1>d DEF Directory!UsersSaved
  <2>2. \A b \in Directory!Listed(q.list) : Mirrored(q.list, b, q.ids[b])'
    BY <1>i, <1>r, <2>1 DEF Progress
  <2>3. QED
    BY <2>1, <2>2 DEF Progress
<1>5. ASSUME NEW g \in Group, Directory!EmptyGroup(s, g) PROVE Progress(w)'
  <2>1. /\ w = [at |-> "emptied", list |-> q.list, ids |-> q.ids, left |-> q.left \ {g}, group |-> g]
        /\ UNCHANGED rows /\ q.at = "groups" /\ joined' = [joined EXCEPT ![g] = {}]
    BY <1>5, <1>d DEF Directory!EmptyGroup
  <2>2. \A b \in Directory!Listed(q.list) : Mirrored(q.list, b, q.ids[b])'
    BY <1>i, <1>r, <2>1 DEF Progress
  <2>3. \A h \in Group \ w.left : joined'[h] = IF h = g THEN {} ELSE IdsOf(w, h)
    <3>1. \A h : IdsOf(w, h) = IdsOf(q, h)
      BY <2>1 DEF IdsOf
    <3>2. \A h \in Group \ q.left : joined[h] = IdsOf(q, h)
      BY <1>i, <2>1 DEF Progress
    <3>3. \A h \in Group \ w.left : h # g => h \in Group \ q.left
      BY <2>1
    <3>4. ASSUME NEW h \in Group \ w.left PROVE joined'[h] = IF h = g THEN {} ELSE IdsOf(w, h)
      BY <1>d, <2>1, <3>1, <3>2, <3>3
    <3>5. QED
      BY <3>4
  <2>4. QED
    BY <2>1, <2>2, <2>3 DEF Progress, IdsOf
<1>6. CASE Directory!FillGroup(s)
  <2>1. /\ w = [at |-> "groups", list |-> q.list, ids |-> q.ids, left |-> q.left]
        /\ UNCHANGED rows /\ q.at = "emptied" /\ q \in Directory!Joining
        /\ joined' = [joined EXCEPT ![q.group] = joined[q.group] \cup IdsOf(q, q.group)]
    BY <1>6, <1>d DEF Directory!FillGroup, Directory!Started, Directory!Users, Directory!Saving,
                Directory!Groups, Directory!Joining, Directory!Last, Directory!Idle, Directory!Done,
                Directory!Failed, IdsOf
  <2>2. \A b \in Directory!Listed(q.list) : Mirrored(q.list, b, q.ids[b])'
    BY <1>i, <1>r, <2>1 DEF Progress
  <2>3. \A h \in Group \ w.left : joined'[h] = IdsOf(q, h)
    BY <1>d, <1>i, <2>1 DEF Progress
  <2>4. QED
    BY <2>1, <2>2, <2>3 DEF Progress, IdsOf
<1>7. CASE Directory!GroupsFilled(s)
  <2>1. w = [at |-> "last", list |-> q.list]
        /\ UNCHANGED <<rows, joined>> /\ q.at = "groups" /\ q.left = {} /\ q \in Directory!Groups
    BY <1>7, <1>d DEF Directory!GroupsFilled, Directory!Started, Directory!Users, Directory!Saving,
                Directory!Groups, Directory!Joining, Directory!Last, Directory!Idle, Directory!Done,
                Directory!Failed
  <2>2. \A b \in Directory!Listed(q.list) : q.ids[b] \in Uid /\ Mirrored(q.list, b, q.ids[b])
    BY <1>i, <2>1 DEF Progress, DirectoryTyped, ListsAreKept
  <2>3. \A b \in Directory!Listed(q.list) : q.ids[b] \in Uid /\ Mirrored(q.list, b, q.ids[b])'
    BY <1>r, <2>1, <2>2
  <2>4. \A g \in Group : joined[g] = Rows(q.list, g)
    <3>1. \A g \in Group : joined[g] = IdsOf(q, g)
      BY <1>i, <2>1 DEF Progress
    <3>2. \A b \in Directory!Listed(q.list) : Directory!RowsOf(b) = {q.ids[b]}
      BY <2>2 DEF Mirrored
    <3>3. ASSUME NEW g \in Group PROVE Rows(q.list, g) = IdsOf(q, g)
      BY <3>2 DEF Rows, IdsOf
    <3>4. QED
      BY <3>1, <3>3
  <2>5. \A g \in Group : joined'[g] = Rows(q.list, g)'
    BY <2>1, <2>4 DEF Rows, Directory!RowsOf
  <2>6. QED
    BY <2>1, <2>3, <2>5 DEF Progress
<1>8. CASE Directory!DeactivateUsers(s)
  <2>1. w = Directory!Done
    BY <1>8, <1>d DEF Directory!DeactivateUsers
  <2>2. QED
    BY <2>1 DEF Progress, Directory!Done
<1>9. QED
  BY <1>1, <1>2, <1>3, <1>4, <1>5, <1>6, <1>7, <1>8 DEF Persists

\* Every step keeps the portal in line with what a lone synchronisation has read.
LEMMA MirrorInvStep ==
    ASSUME MirrorInv, [Directory!Next]_(Directory!vars)
    PROVE  MirrorInv'
<1>i. IdentityInv /\ DirectoryTyped /\ ListsApart /\ RunsAlone
  BY DEF MirrorInv, IdentityInv
<1>1. IdentityInv' /\ ListsApart' /\ RunsAlone'
  BY <1>i, IdentityInvStep, ListsApartStep, AloneSteps
<1>2. directoryCrossed \subseteq directoryCrossed'
  <2>1. Quiet => directoryCrossed \subseteq directoryCrossed'
    BY DEF Directory!Next, Directory!vars, Directory!ChangeAccount, Directory!ChangeMember, Directory!SyncUnchanged,
       Directory!Start, Directory!Search, Directory!FindUser, Directory!SaveUser, Directory!UsersSaved,
       Directory!EmptyGroup, Directory!FillGroup, Directory!GroupsFilled, Directory!DeactivateUsers,
       Directory!SyncFails, Directory!ReadProfile, Directory!UpdateContact, Directory!UpdateDirectoryUser,
       Directory!ProfileFails
  <2>2. QED
    BY <1>i, <2>1, QuietSteps DEF Directory!ChangeAccount, Directory!SyncUnchanged, Directory!Search,
       Directory!FindUser, Directory!SaveUser, Directory!DeactivateUsers, Directory!UpdateContact,
       Directory!UpdateDirectoryUser
<1>3. ASSUME NEW s \in Sync, s \notin directoryCrossed', NEW w, w = directoryWork'[s]
      PROVE  Progress(w)'
  <2>1. PICK q : q = directoryWork[s]
    OBVIOUS
  <2>2. Progress(q)
    BY <1>2, <1>3, <2>1 DEF MirrorInv
  <2>3. CASE w.at \in {"idle", "started", "done", "failed"}
    BY <2>3 DEF Progress
  <2>4. CASE UNCHANGED <<rows, joined>> /\ w = q
    <3>1. \A list, a, i : Mirrored(list, a, i)' <=> Mirrored(list, a, i)
      BY <2>4 DEF Mirrored, Directory!RowsOf
    <3>2. \A a, e : Directory!Matches(a, e)' = Directory!Matches(a, e)
      BY <2>4 DEF Directory!Matches, Directory!RowsOf, Directory!RowsNamed
    <3>3. \A list, g : Rows(list, g)' = Rows(list, g)
      BY <2>4 DEF Rows, Directory!RowsOf
    <3>4. QED
      BY <2>2, <2>4, <3>1, <3>2, <3>3 DEF Progress
  <2>5. CASE Persists(s)
    BY <1>2, <1>3, <2>1, <2>5, ProgressStep
  <2>6. QED
    BY <1>i, <1>3, <2>1, <2>3, <2>4, <2>5, AloneSteps
<1>4. QED
  BY <1>1, <1>3 DEF MirrorInv

\* What the last step of a synchronisation leaves when nothing crossed it.
LEMMA LastStepMirrors ==
    ASSUME MirrorInv, NEW s \in Sync \ directoryCrossed, Directory!DeactivateUsers(s),
           NEW list, list = directoryWork[s].list, Directory!Listed(list) # {}
    PROVE  /\ \A a \in Directory!Listed(list) : \E i \in Uid : Mirrored(list, a, i)'
           /\ \A i \in Uid : rows'[i] # Directory!NoRow /\ rows'[i].isActive =>
                  rows'[i].externalId \in Directory!Listed(list)
           /\ \A g \in Group : joined'[g] = Rows(list, g)'
<1> DEFINE listed == Directory!Listed(list)
<1>1. /\ directoryWork[s].at = "last" /\ joined' = joined
      /\ rows' = [i \in Uid |->
             IF rows[i] = Directory!NoRow \/ listed = {} \/ rows[i].externalId \in listed THEN rows[i]
             ELSE [rows[i] EXCEPT !.isActive = FALSE]]
  BY DEF Directory!DeactivateUsers, Directory!OutsideUnchanged
<1>2. /\ \A a \in listed : \E i \in Uid : Mirrored(list, a, i)
      /\ \A g \in Group : joined[g] = Rows(list, g)
  BY <1>1 DEF MirrorInv, Progress
<1>d. rows \in [Uid -> Directory!UserRow \cup {Directory!NoRow}]
  BY DEF MirrorInv, IdentityInv, DirectoryTyped, Directory!TypeOK
<1> HIDE DEF listed
<1>3. \A i \in Uid : rows[i] # Directory!NoRow =>
          /\ rows'[i] # Directory!NoRow /\ rows'[i].externalId = rows[i].externalId
          /\ rows[i].externalId \in listed => rows'[i] = rows[i]
          /\ rows'[i].isActive => rows[i].externalId \in listed
  BY <1>1, <1>d DEF Directory!UserRow, Directory!NoRow, listed
<1>4. \A i \in Uid : rows[i] = Directory!NoRow => rows'[i] = Directory!NoRow
  BY <1>1
<1>5. \A a : Directory!RowsOf(a)' = Directory!RowsOf(a)
  BY <1>3, <1>4 DEF Directory!RowsOf
<1>6. ASSUME NEW a \in listed, NEW i \in Uid, Mirrored(list, a, i) PROVE Mirrored(list, a, i)'
  <2>1. rows'[i] = rows[i]
    BY <1>3, <1>6 DEF Mirrored, Directory!RowsOf
  <2>2. QED
    BY <1>5, <1>6, <2>1 DEF Mirrored
<1>7. \A g \in Group : Rows(list, g)' = Rows(list, g)
  BY <1>5 DEF Rows
<1>8. QED
  BY <1>1, <1>2, <1>3, <1>4, <1>6, <1>7 DEF listed

\* Only its last step ends a synchronisation with success.
LEMMA EndsByDeactivating ==
    ASSUME DirectoryTyped, [Directory!Next]_(Directory!vars), NEW s \in Sync,
           directoryWork[s].at = "last", directoryWork'[s] = Directory!Done
    PROVE  Directory!DeactivateUsers(s)
<1>w. DOMAIN directoryWork = Sync /\ directoryWork'[s].at = "done" /\ directoryWork'[s] # directoryWork[s]
  BY DEF DirectoryTyped, Directory!TypeOK, Directory!Done
<1> USE <1>w DEF Directory!Goes, Directory!Done, Directory!Failed
<1>1. ~UNCHANGED directoryWork
  BY <1>w
<1>2. PICK t \in Sync : \/ Directory!Start(t) \/ Persists(t) \/ Directory!SyncFails(t)
  BY <1>1 DEF Directory!Next, Directory!vars, Persists, Directory!ChangeAccount, Directory!ChangeMember,
              Directory!SyncUnchanged, Directory!ReadProfile, Directory!UpdateContact,
              Directory!UpdateDirectoryUser, Directory!ProfileFails, Directory!ProfilesUnchanged
<1>3. t = s
  BY <1>2 DEF Directory!Start, Persists, Directory!Search, Directory!FindUser, Directory!SaveUser,
              Directory!UsersSaved, Directory!EmptyGroup, Directory!FillGroup, Directory!GroupsFilled,
              Directory!DeactivateUsers, Directory!SyncFails
<1>4. QED
  BY SMTT(120), <1>2, <1>3 DEF Directory!Start, Persists, Directory!Search, Directory!FindUser, Directory!SaveUser,
              Directory!UsersSaved, Directory!EmptyGroup, Directory!FillGroup, Directory!GroupsFilled,
              Directory!SyncFails, Directory!Idle

\* A synchronisation that nothing crossed leaves the portal's directory as it found
\* Active Directory (DirectorySync.MirrorsDirectory).
THEOREM DirectoryMirrors == Directory!Spec => MirrorsDirectory
<1> DEFINE Mirrors ==
        \A s \in Sync \ directoryCrossed :
          directoryWork[s].at = "last" /\ directoryWork'[s] = Directory!Done
          /\ Directory!Listed(directoryWork[s].list) # {} =>
              LET list == directoryWork[s].list
                  rowsOf(a) == {i \in Uid : rows'[i] # Directory!NoRow /\ rows'[i].externalId = a}
              IN  /\ \A a \in Directory!Listed(list) : \E i \in Uid :
                         /\ rowsOf(a) = {i} /\ rows'[i].isActive
                         /\ rows'[i].name = list.accounts[a].name
                         /\ rows'[i].mail = list.accounts[a].mail
                  /\ \A i \in Uid : rows'[i] # Directory!NoRow /\ rows'[i].isActive =>
                         rows'[i].externalId \in Directory!Listed(list)
                  /\ \A g \in Group : joined'[g] = UNION {rowsOf(a) : a \in list.members[g] \cap Directory!Listed(list)}
<1>1. Directory!Init => MirrorInv
  <2> SUFFICES ASSUME Directory!Init PROVE MirrorInv
    OBVIOUS
  <2>1. IdentityInv
    <3>1. NamesApart /\ NameTellsAccount /\ ListsHaveNames /\ FoundIsOwn
      BY DEF Directory!Init, NamesApart, NameTellsAccount, ListsHaveNames, FoundIsOwn, HasList, Directory!Idle
    <3>2. QED
      BY <3>1, DirectoryStarts DEF IdentityInv
  <2>2. ListsApart /\ RunsAlone /\ \A s \in Sync : Progress(directoryWork[s])
    BY DEF Directory!Init, ListsApart, RunsAlone, Progress, HasList, Directory!Idle, Directory!Active
  <2>3. QED
    BY <2>1, <2>2 DEF MirrorInv
<1>2. MirrorInv /\ [Directory!Next]_(Directory!vars) => MirrorInv'
  BY MirrorInvStep
<1>3. MirrorInv /\ [Directory!Next]_(Directory!vars) => [Mirrors]_(Directory!vars)
  <2> SUFFICES ASSUME MirrorInv, [Directory!Next]_(Directory!vars), NEW s \in Sync \ directoryCrossed,
                      directoryWork[s].at = "last", directoryWork'[s] = Directory!Done,
                      NEW list, list = directoryWork[s].list, Directory!Listed(list) # {}
               PROVE  LET rowsOf(a) == {i \in Uid : rows'[i] # Directory!NoRow /\ rows'[i].externalId = a}
                      IN  /\ \A a \in Directory!Listed(list) : \E i \in Uid :
                                 /\ rowsOf(a) = {i} /\ rows'[i].isActive
                                 /\ rows'[i].name = list.accounts[a].name
                                 /\ rows'[i].mail = list.accounts[a].mail
                          /\ \A i \in Uid : rows'[i] # Directory!NoRow /\ rows'[i].isActive =>
                                 rows'[i].externalId \in Directory!Listed(list)
                          /\ \A g \in Group : joined'[g] =
                                 UNION {rowsOf(a) : a \in list.members[g] \cap Directory!Listed(list)}
    OBVIOUS
  <2>1. Directory!DeactivateUsers(s)
    BY EndsByDeactivating DEF MirrorInv, IdentityInv
  <2>2. /\ \A a \in Directory!Listed(list) : \E i \in Uid : Mirrored(list, a, i)'
        /\ \A i \in Uid : rows'[i] # Directory!NoRow /\ rows'[i].isActive =>
               rows'[i].externalId \in Directory!Listed(list)
        /\ \A g \in Group : joined'[g] = Rows(list, g)'
    BY <2>1, LastStepMirrors
  <2>3. QED
    BY <2>2 DEF Mirrored, Rows, Directory!RowsOf
<1>4. QED
  BY <1>1, <1>2, <1>3, PTL DEF Directory!Spec, MirrorsDirectory, Directory!MirrorsDirectory, Mirrors

\* In the system PlatformMC composes, an uncrossed synchronisation leaves the
\* portal's directory as it found Active Directory.
COROLLARY MirrorsDirectoryHolds == PlatformSpec => MirrorsDirectory
BY DirectoryMirrors, PlatformRunsDirectory, PTL

=============================================================================
