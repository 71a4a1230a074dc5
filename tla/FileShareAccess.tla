-------------------------- MODULE FileShareAccess --------------------------
(***************************************************************************)
(* Who may list and download from a file share (file-shares.service.ts).   *)
(* Administrators edit shares and their grants, roles give and take the    *)
(* permission to manage, the directory's synchronisation writes users and  *)
(* memberships; a request reads the three at three moments: the user's     *)
(* permissions when its token is validated, the share with its grants, and *)
(* the directory user with the groups.                                     *)
(*                                                                         *)
(* Of the four rights there are two, read and download; nothing asks for   *)
(* the other two.  A portal user and the directory user of the same name   *)
(* are one Person here (PortalAccounts is about how they find each other). *)
(***************************************************************************)
EXTENDS Naturals

CONSTANTS
    Share,     \* the ids of shares
    Person,    \* portal users, with their rows in the directory
    Group,     \* groups of the directory
    Request,   \* GET :id/items and GET :id/file requests, each made once
    Keep,      \* a field the dto leaves undefined
    Dto,       \* the dtos administrators send
    MaxEdits   \* bound: how many changes are made to shares, roles and groups

VARIABLES
    shares,    \* the table SmbShare with the grants
    active,    \* directory users with isActive
    members,   \* the table DirectoryGroupMember
    managers,  \* who has the permission file-shares.manage
    requests,  \* the local variables of requests
    edits,     \* how many changes were made
    entitled,  \* history: requests that at some moment were entitled
    lacking,   \* history: requests that at some moment were not
    crossed    \* history: whose share or permissions changed while they were read

vars == <<shares, active, members, managers, requests, edits, entitled, lacking, crossed>>

-----------------------------------------------------------------------------
Right == {"read", "download"}
Mode == {"KERBEROS", "SHARED_ACCOUNT", "SERVICE_ACCOUNT"}
Grants == [Person \cup Group -> SUBSET Right]
NoGrants == [x \in Person \cup Group |-> {}]
Row == [authMode : Mode, allowDownload : BOOLEAN, isActive : BOOLEAN, accesses : Grants]
NoShare == [authMode |-> "none"]

Idle == [at |-> "idle"]
Started == [at : {"validated"}, of : Share, by : Person, kind : Right, manages : BOOLEAN]
Reading == [at : {"share"}, of : Share, by : Person, kind : Right, manages : BOOLEAN, share : Row]
Allowed == [at : {"allowed"}, of : Share, by : Person, kind : Right]
Over == {[at |-> "served"], [at |-> "denied"], [at |-> "failed"]}
Deciding(r) == requests[r].at \in {"validated", "share"}

Init ==
    /\ shares = [s \in Share |-> NoShare]
    /\ active \in SUBSET Person
    /\ members \in [Group -> SUBSET Person]
    /\ managers \in SUBSET Person
    /\ requests = [r \in Request |-> Idle]
    /\ edits = 0
    /\ entitled = {} /\ lacking = {} /\ crossed = {}

-----------------------------------------------------------------------------
(* Administration.                                                         *)

Edit == edits < MaxEdits /\ edits' = edits + 1
Crosses(x) == crossed' = crossed \cup {r \in Request : Deciding(r) /\ x \in {requests[r].of, requests[r].by}}

Value(given, old) == IF given = Keep THEN old ELSE given

\* toShareData: a save that names a mode with an access list of its own drops
\* the grants and, for Kerberos, the switches; one that names no mode does not.
ToShareData(dto, old) ==
    [authMode |-> Value(dto.authMode, old.authMode),
     allowDownload |-> dto.authMode = "KERBEROS" \/ Value(dto.allowDownload, old.allowDownload),
     isActive |-> Value(dto.isActive, old.isActive),
     accesses |-> IF dto.authMode \in {"KERBEROS", "SHARED_ACCOUNT"} THEN NoGrants
                  ELSE Value(dto.accesses, old.accesses)]

Create(s, dto) ==
    LET default == [authMode |-> "KERBEROS", allowDownload |-> TRUE, isActive |-> TRUE,
                    accesses |-> NoGrants]
    IN  /\ shares[s] = NoShare
        /\ \A r \in Request : requests[r].at \in {"validated", "share", "allowed"} => requests[r].of # s
        /\ Edit
        /\ shares' = [shares EXCEPT ![s] = ToShareData(dto, default)]
        /\ UNCHANGED <<active, members, managers, requests, crossed>>

Update(s, dto) ==
    /\ shares[s] # NoShare
    /\ Edit
    /\ shares' = [shares EXCEPT ![s] = ToShareData(dto, shares[s])]
    /\ Crosses(s)
    /\ UNCHANGED <<active, members, managers, requests>>

Remove(s) ==
    /\ shares[s] # NoShare
    /\ Edit
    /\ shares' = [shares EXCEPT ![s] = NoShare]
    /\ Crosses(s)
    /\ UNCHANGED <<active, members, managers, requests>>

\* A role with the permission is given to a person or one of their groups,
\* or taken away.
ChangeRole(p) ==
    /\ Edit
    /\ managers' = (managers \ {p}) \cup ({p} \ managers)
    /\ Crosses(p)
    /\ UNCHANGED <<shares, active, members, requests>>

\* The synchronisation writes a directory user...
SaveUser(p) ==
    /\ Edit
    /\ active' = (active \ {p}) \cup ({p} \ active)
    /\ UNCHANGED <<shares, members, managers, requests, crossed>>

\* ...or a membership.
SaveMember(p, g) ==
    /\ Edit
    /\ members' = [members EXCEPT ![g] = (members[g] \ {p}) \cup ({p} \ members[g])]
    /\ UNCHANGED <<shares, active, managers, requests, crossed>>

-----------------------------------------------------------------------------
(* Requests.                                                               *)

AdministrationUnchanged == UNCHANGED <<shares, active, members, managers, edits, crossed>>

\* The guards read the user's permissions.
Validate(r, s, p, kind) ==
    /\ requests[r] = Idle
    /\ shares[s] # NoShare
    /\ requests' = [requests EXCEPT ![r] =
           [at |-> "validated", of |-> s, by |-> p, kind |-> kind, manages |-> p \in managers]]
    /\ AdministrationUnchanged

\* getShareWithAccess reads an active share with its grants.
ReadShare(r) ==
    LET q == requests[r] IN
    /\ q.at = "validated"
    /\ requests' = [requests EXCEPT ![r] =
           IF shares[q.of] # NoShare /\ shares[q.of].isActive
           THEN [at |-> "share", of |-> q.of, by |-> q.by, kind |-> q.kind,
                 manages |-> q.manages, share |-> shares[q.of]]
           ELSE [at |-> "denied"]]
    /\ AdministrationUnchanged

\* mergeAccess over the grants of the directory user and of the groups.
MergedAccess(share, p) ==
    share.accesses[p] \cup UNION {share.accesses[g] : g \in {h \in Group : p \in members[h]}}

\* Fault: somebody who left the directory keeps the grants.
ResolveAccessOfAll(share, p, manages) ==
    CASE manages -> Right
      [] share.authMode = "SHARED_ACCOUNT" -> {"read"} \cup {x \in {"download"} : share.allowDownload}
      [] share.authMode = "KERBEROS" -> Right
      [] share.authMode = "SERVICE_ACCOUNT" -> MergedAccess(share, p)

\* resolveAccessForShares, with the directory user read at this moment.
ResolveAccess(share, p, manages) ==
    CASE manages -> Right
      [] ~manages /\ share.authMode = "SHARED_ACCOUNT" ->
             {"read"} \cup {x \in {"download"} : share.allowDownload}
      [] ~manages /\ share.authMode = "KERBEROS" /\ p \in active -> Right
      [] ~manages /\ share.authMode = "SERVICE_ACCOUNT" /\ p \in active -> MergedAccess(share, p)
      [] OTHER -> {}

\* listItems asks for read; streamFile for both, and for the share's switch.
Decide(r) ==
    LET q == requests[r]
        access == ResolveAccess(q.share, q.by, q.manages)
    IN  /\ q.at = "share"
        /\ requests' = [requests EXCEPT ![r] =
               IF {"read", q.kind} \subseteq access /\ (q.kind = "download" => q.share.allowDownload)
               THEN [at |-> "allowed", of |-> q.of, by |-> q.by, kind |-> q.kind]
               ELSE [at |-> "denied"]]
        /\ AdministrationUnchanged

\* The transfer.  It fails when the server refuses or the share's row is gone
\* before the audit row that refers to it is written.
Transfer(r) ==
    /\ requests[r].at = "allowed"
    /\ \/ shares[requests[r].of] # NoShare
          /\ requests' = [requests EXCEPT ![r] = [at |-> "served"]]
       \/ requests' = [requests EXCEPT ![r] = [at |-> "failed"]]
    /\ AdministrationUnchanged

-----------------------------------------------------------------------------
\* Who is entitled at this moment: the share is active and open to the kind
\* of request, and the person manages shares, or the share is open to all, or
\* the person is in the directory and has the rights (for Kerberos, the
\* server knows them).
Entitled(s, p, kind) ==
    LET share == shares[s] IN
    /\ share # NoShare
    /\ share.isActive
    /\ kind = "download" => share.allowDownload
    /\ \/ p \in managers
       \/ share.authMode = "SHARED_ACCOUNT"
       \/ p \in active /\ share.authMode = "KERBEROS"
       \/ /\ p \in active /\ share.authMode = "SERVICE_ACCOUNT"
          /\ \A right \in {"read", kind} :
                 \/ right \in share.accesses[p]
                 \/ \E g \in Group : p \in members[g] /\ right \in share.accesses[g]

Step ==
    \/ \E s \in Share :
           \/ \E dto \in Dto : Create(s, dto) \/ Update(s, dto)
           \/ Remove(s)
    \/ \E p \in Person : ChangeRole(p) \/ SaveUser(p) \/ (\E g \in Group : SaveMember(p, g))
    \/ \E r \in Request :
           \/ \E s \in Share, p \in Person, kind \in Right : Validate(r, s, p, kind)
           \/ ReadShare(r) \/ Decide(r) \/ Transfer(r)

\* The history follows every step: a request in the state it was decided in
\* belongs to the moment before the step.
Next ==
    /\ Step
    /\ LET now(r) == Entitled(requests[r].of, requests[r].by, requests[r].kind)
           open == {r \in Request : Deciding(r)}
       IN  /\ entitled' = entitled \cup {r \in open : now(r)}
           /\ lacking' = lacking \cup {r \in open : ~now(r)}

Spec == Init /\ [][Next]_vars

-----------------------------------------------------------------------------
\* Shares, grants and the local variables of requests have their types.
TypeOK ==
    /\ shares \in [Share -> Row \cup {NoShare}]
    /\ active \subseteq Person /\ managers \subseteq Person
    /\ members \in [Group -> SUBSET Person]
    /\ requests \in [Request -> {Idle} \cup Started \cup Reading \cup Allowed \cup Over]
    /\ edits \in 0..MaxEdits
    /\ entitled \subseteq Request /\ lacking \subseteq Request /\ crossed \subseteq Request

\* What a request is answered was right at some moment while it was decided,
\* although it reads permissions, share and directory one after the other:
\* who is let in was entitled, who is turned away was not, unless the share
\* or the person's permissions changed between those reads.
DecisionWasRight ==
    \A r \in Request \ crossed :
        /\ requests[r].at \in {"allowed", "served"} => r \in entitled
        /\ requests[r].at = "denied" => r \in lacking
=============================================================================
