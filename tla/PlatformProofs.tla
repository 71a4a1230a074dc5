---------------------------- MODULE PlatformProofs ----------------------------
(***************************************************************************)
(* Theorems about the components of PlatformMC, each about the component   *)
(* by itself and, as a corollary, about the instance that TLC checks.      *)
(***************************************************************************)
EXTENDS PlatformMC, TLAPS

\* A behaviour of the instance runs the component in focus and no other.
LEMMA PlatformStep ==
    [PlatformNext]_platformVars =>
        /\ focus' = focus
        /\ focus = "cache" => [Cache!Next]_(Cache!vars)
        /\ focus = "workspace" => [Notices!Next]_(Notices!vars)
        /\ focus = "smtp" => [Smtp!Next]_(Smtp!vars)
        /\ [Directory!Next]_(Directory!vars)
        /\ focus = "shares" => [Shares!Next]_(Shares!vars)
        /\ focus = "session" => [Session!Next]_(Session!vars)
        /\ focus = "picker" => [Picker!Next]_(Picker!vars)
BY DEF PlatformNext, platformVars, Schedules, Caches, Workspaces, SmtpAdministration,
       Directories, FileShares, Sessions, DateField, cacheVars, noticesVars, smtpVars,
       directoryVars, sharesVars, sessionVars, pickerVars,
       Cache!vars, Notices!vars, Smtp!vars, Directory!vars, Shares!vars, Session!vars,
       Picker!vars

-----------------------------------------------------------------------------
(* SmtpServers.                                                            *)

\* A request between its statements: only requests for a primary have
\* anything to clear.
BegunClears == \A r \in SmtpRequest : serverRequests[r].at = "begun" => serverRequests[r].isPrimary = TRUE

\* Unless requests for a primary crossed, there is one at a time, and once it
\* has cleared the marks there is none but its own.
Alone ==
    serversCrossed \/
        /\ \A q, r \in Smtp!Pending :
               serverRequests[q].isPrimary = TRUE /\ serverRequests[r].isPrimary = TRUE => q = r
        /\ \A r \in Smtp!Replacing : primary \subseteq {serverRequests[r].of}
        /\ \A s, t \in primary : s = t

MarkKept == primary = {} /\ marked => unmarked \/ Smtp!Replacing # {}

SmtpInv == Smtp!TypeOK /\ BegunClears /\ Alone /\ MarkKept

\* Every step of SmtpServers keeps the types.
LEMMA SmtpType ==
    ASSUME Smtp!TypeOK, [Smtp!Next]_(Smtp!vars)
    PROVE  Smtp!TypeOK'
<1> USE DEF Smtp!TypeOK, Smtp!Idle, Smtp!Done, Smtp!Working
<1>1. ASSUME NEW r \in SmtpRequest, NEW s \in Server, NEW p \in BOOLEAN \cup {Keep},
             Smtp!Begin(r, s, p)
      PROVE  Smtp!TypeOK'
  BY <1>1 DEF Smtp!Begin
<1>2. ASSUME NEW r \in SmtpRequest, Smtp!ClearPrimary(r) PROVE Smtp!TypeOK'
  BY <1>2 DEF Smtp!ClearPrimary
<1>3. ASSUME NEW r \in SmtpRequest, Smtp!Write(r) PROVE Smtp!TypeOK'
  BY <1>3 DEF Smtp!Write
<1>4. ASSUME NEW r \in SmtpRequest, Smtp!Fail(r) PROVE Smtp!TypeOK'
  BY <1>4 DEF Smtp!Fail
<1>5. ASSUME NEW s \in Server, Smtp!DeleteSmtpServer(s) PROVE Smtp!TypeOK'
  BY <1>5 DEF Smtp!DeleteSmtpServer
<1>6. CASE UNCHANGED Smtp!vars
  BY <1>6 DEF Smtp!vars
<1>7. QED
  BY <1>1, <1>2, <1>3, <1>4, <1>5, <1>6 DEF Smtp!Next

\* Every step of SmtpServers keeps the invariant.
LEMMA SmtpInvStep ==
    ASSUME SmtpInv, [Smtp!Next]_(Smtp!vars)
    PROVE  SmtpInv'
<1>t. Smtp!TypeOK /\ Smtp!TypeOK'
  BY SmtpType DEF SmtpInv
<1>i. /\ BegunClears /\ Alone /\ MarkKept
      /\ primary \subseteq servers /\ servers \subseteq Server
      /\ serverRequests \in [SmtpRequest -> {Smtp!Idle, Smtp!Done} \cup Smtp!Working]
      /\ serversCrossed \in BOOLEAN /\ marked \in BOOLEAN /\ unmarked \in BOOLEAN
  BY <1>t DEF SmtpInv, Smtp!TypeOK
<1> USE DEF Smtp!Pending, Smtp!Replacing, Smtp!Idle, Smtp!Done, Smtp!Working
<1>1. ASSUME NEW r \in SmtpRequest, NEW s \in Server, NEW p \in BOOLEAN \cup {Keep},
             Smtp!Begin(r, s, p)
      PROVE  (BegunClears /\ Alone /\ MarkKept)'
  <2>1. BegunClears'
    BY <1>1, <1>i DEF Smtp!Begin, BegunClears
  <2>2. Smtp!Replacing' = Smtp!Replacing
    <3>1. CASE p = TRUE
      BY <1>1, <1>i, <3>1 DEF Smtp!Begin
    <3>2. CASE p # TRUE
      BY <1>1, <1>i, <3>2 DEF Smtp!Begin
    <3>3. QED
      BY <3>1, <3>2
  <2>3. MarkKept'
    BY <1>1, <1>i, <2>2 DEF Smtp!Begin, MarkKept
  <2>4. Alone'
    <3>1. CASE serversCrossed'
      BY <3>1 DEF Alone
    <3>2. CASE ~serversCrossed'
      BY ZenonT(60), <1>1, <1>i, <3>2 DEF Smtp!Begin, Alone
    <3>3. QED
      BY <3>1, <3>2
  <2>5. QED
    BY <2>1, <2>3, <2>4
<1>2. ASSUME NEW r \in SmtpRequest, Smtp!ClearPrimary(r)
      PROVE  (BegunClears /\ Alone /\ MarkKept)'
  BY <1>2, <1>i DEF Smtp!ClearPrimary, BegunClears, Alone, MarkKept
<1>3. ASSUME NEW r \in SmtpRequest, Smtp!Write(r)
      PROVE  (BegunClears /\ Alone /\ MarkKept)'
  <2>1. BegunClears'
    BY <1>3, <1>i DEF Smtp!Write, BegunClears
  <2>2. serverRequests[r].isPrimary \in {TRUE, FALSE, Keep}
    <3>1. serverRequests[r] \in Smtp!Working
      BY <1>3, <1>i DEF Smtp!Write
    <3>2. QED
      BY <3>1
  <2>3. CASE serverRequests[r].isPrimary = TRUE
    <3>1. primary' = primary \cup {serverRequests[r].of}
      BY <1>3, <2>3, KeepAssumption DEF Smtp!Write
    <3>2. QED
      BY <1>3, <1>i, <2>1, <2>3, <3>1 DEF Smtp!Write, Alone, MarkKept
  <2>4. CASE serverRequests[r].isPrimary = Keep
    <3>1. primary' = primary /\ serverRequests[r].isPrimary # TRUE
      BY <1>3, <2>4, KeepAssumption DEF Smtp!Write
    <3>2. QED
      BY ZenonT(60), <1>3, <1>i, <2>1, <3>1 DEF Smtp!Write, Alone, MarkKept
  <2>5. CASE serverRequests[r].isPrimary = FALSE
    <3>1. primary' = primary \ {serverRequests[r].of} /\ serverRequests[r].isPrimary # TRUE
      BY <1>3, <2>5, KeepAssumption DEF Smtp!Write
    <3>2. QED
      BY <1>3, <1>i, <2>1, <2>5, <3>1 DEF Smtp!Write, Alone, MarkKept
  <2>6. QED
    BY <2>2, <2>3, <2>4, <2>5
<1>4. ASSUME NEW r \in SmtpRequest, Smtp!Fail(r)
      PROVE  (BegunClears /\ Alone /\ MarkKept)'
  BY <1>4, <1>i DEF Smtp!Fail, BegunClears, Alone, MarkKept
<1>5. ASSUME NEW s \in Server, Smtp!DeleteSmtpServer(s)
      PROVE  (BegunClears /\ Alone /\ MarkKept)'
  <2>1. BegunClears' /\ Alone'
    BY <1>5, <1>i DEF Smtp!DeleteSmtpServer, BegunClears, Alone
  <2>2. MarkKept'
    <3>1. CASE s \in primary
      BY <1>5, <1>i, <3>1 DEF Smtp!DeleteSmtpServer, MarkKept
    <3>2. CASE s \notin primary
      BY <1>5, <1>i, <3>2 DEF Smtp!DeleteSmtpServer, MarkKept
    <3>3. QED
      BY <3>1, <3>2
  <2>3. QED
    BY <2>1, <2>2
<1>6. ASSUME UNCHANGED Smtp!vars
      PROVE  (BegunClears /\ Alone /\ MarkKept)'
  <2>1. BegunClears' /\ Alone'
    BY <1>6, <1>i DEF Smtp!vars, BegunClears, Alone
  <2>2. MarkKept'
    BY <1>6, <1>i DEF Smtp!vars, MarkKept
  <2>3. QED
    BY <2>1, <2>2
<1>7. QED
  BY <1>t, <1>1, <1>2, <1>3, <1>4, <1>5, <1>6 DEF Smtp!Next, SmtpInv

\* There is at most one primary SMTP server unless two requests for one crossed
\* between their two statements, and it is not lost (SmtpServers.OnePrimary).
THEOREM SmtpOnePrimary == Smtp!Spec => []Smtp!OnePrimary
<1>1. ASSUME Smtp!Init PROVE SmtpInv
  <2>1. Smtp!TypeOK
    BY <1>1 DEF Smtp!Init, Smtp!TypeOK
  <2>2. BegunClears /\ Alone
    BY <1>1 DEF Smtp!Init, BegunClears, Alone, Smtp!Idle, Smtp!Pending, Smtp!Replacing
  <2>3. MarkKept
    BY <1>1 DEF Smtp!Init, MarkKept
  <2>4. QED
    BY <2>1, <2>2, <2>3 DEF SmtpInv
<1>2. SmtpInv /\ [Smtp!Next]_(Smtp!vars) => SmtpInv'
  BY SmtpInvStep
<1>3. SmtpInv => Smtp!OnePrimary
  BY DEF SmtpInv, Alone, MarkKept, Smtp!OnePrimary
<1>4. QED
  BY <1>1, <1>2, <1>3, PTL DEF Smtp!Spec

\* In the system PlatformMC composes, one SMTP server at most is the primary one,
\* and the mark is not lost by accident.
COROLLARY OnePrimaryHolds == PlatformSpec => []OnePrimary
<1>1. PlatformInit /\ focus = "smtp" => Smtp!Init
  BY DEF PlatformInit
<1>2. (focus # "smtp" => OnePrimary) /\ (Smtp!OnePrimary => OnePrimary)
  BY DEF OnePrimary
<1>3. focus # "smtp" /\ [PlatformNext]_platformVars => (focus # "smtp")'
  BY PlatformStep
<1>4. focus = "smtp" /\ [PlatformNext]_platformVars
          => (focus = "smtp")' /\ [Smtp!Next]_(Smtp!vars)
  BY PlatformStep
<1>5. focus = "smtp" \/ focus # "smtp"
  OBVIOUS
<1>6. QED
  BY <1>1, <1>2, <1>3, <1>4, <1>5, SmtpOnePrimary, PTL DEF PlatformSpec, Smtp!Spec

-----------------------------------------------------------------------------
(* TrainingCache.                                                          *)

\* A request that has not downloaded has created no inode yet.
FreshInode ==
    \A r \in Fetch : fetch[r].at \in {"idle", "missed"} =>
        r \notin served /\ r # cachedPath /\ r # temporaryPath

\* What is under the .part name has been given to nobody.
TemporaryIsPrivate == temporaryPath \notin served /\ (temporaryPath # None => temporaryPath # cachedPath)

\* Downloads under way at once are all in crossed, and one that is by itself was
\* the last to truncate what is under the .part name.
Downloads ==
    /\ \A q, r \in Fetch : q # r /\ Cache!Downloading(q) /\ Cache!Downloading(r) => r \in fetchCrossed
    /\ \A r \in Fetch : Cache!Downloading(r) =>
           /\ fetch[r].inode \in Fetch
           /\ temporaryPath # None => truncatedBy[temporaryPath] \in fetchCrossed \cup {r}
           /\ r \notin fetchCrossed =>
                  /\ fetch[r].inode = temporaryPath /\ truncatedBy[temporaryPath] = r
                  /\ fetch[r].at = "downloaded" => temporaryPath \in complete

CacheInv == Cache!TypeOK /\ FreshInode /\ TemporaryIsPrivate /\ Downloads /\ Cache!ServedIsWhole

\* Every step of TrainingCache keeps the types.
LEMMA CacheType ==
    ASSUME Cache!TypeOK, Downloads, [Cache!Next]_(Cache!vars)
    PROVE  Cache!TypeOK'
<1> USE DEF Cache!TypeOK, Cache!Place, Cache!At
<1>1. ASSUME NEW r \in Fetch, Cache!Hit(r) PROVE Cache!TypeOK'
  BY <1>1 DEF Cache!Hit
<1>2. ASSUME NEW r \in Fetch, Cache!Miss(r) PROVE Cache!TypeOK'
  BY <1>2 DEF Cache!Miss
<1>3. ASSUME NEW r \in Fetch, Cache!Open(r) PROVE Cache!TypeOK'
  BY <1>3 DEF Cache!Open
<1>4. ASSUME NEW r \in Fetch, Cache!Download(r) PROVE Cache!TypeOK'
  BY <1>4 DEF Cache!Download, Downloads, Cache!Downloading
<1>5. ASSUME NEW r \in Fetch, Cache!DownloadFails(r) PROVE Cache!TypeOK'
  BY <1>5 DEF Cache!DownloadFails
<1>6. ASSUME NEW r \in Fetch, Cache!Rename(r) PROVE Cache!TypeOK'
  BY <1>6 DEF Cache!Rename
<1>7. CASE UNCHANGED Cache!vars
  BY <1>7 DEF Cache!vars
<1>8. QED
  BY <1>1, <1>2, <1>3, <1>4, <1>5, <1>6, <1>7 DEF Cache!Next

\* Every step of TrainingCache keeps the invariant.
LEMMA CacheInvStep ==
    ASSUME CacheInv, [Cache!Next]_(Cache!vars)
    PROVE  CacheInv'
<1>t. Cache!TypeOK /\ Cache!TypeOK'
  BY CacheType DEF CacheInv
<1>i. FreshInode /\ TemporaryIsPrivate /\ Downloads /\ Cache!ServedIsWhole
  BY DEF CacheInv
<1> DEFINE Goal == (FreshInode /\ TemporaryIsPrivate /\ Downloads /\ Cache!ServedIsWhole)'
<1> USE <1>t, <1>i, NothingAssumption DEF Cache!TypeOK, Cache!Place, Cache!At, Cache!Downloading
<1>1. ASSUME NEW r \in Fetch, Cache!Hit(r) PROVE Goal
  BY <1>1 DEF Cache!Hit, FreshInode, TemporaryIsPrivate, Downloads, Cache!ServedIsWhole
<1>2. ASSUME NEW r \in Fetch, Cache!Miss(r) PROVE Goal
  BY <1>2 DEF Cache!Miss, FreshInode, TemporaryIsPrivate, Downloads, Cache!ServedIsWhole
<1>3. ASSUME NEW r \in Fetch, Cache!Open(r) PROVE Goal
  <2>1. FreshInode' /\ TemporaryIsPrivate'
    BY <1>3 DEF Cache!Open, FreshInode, TemporaryIsPrivate
  <2>2. Downloads'
    BY <1>3 DEF Cache!Open, FreshInode, TemporaryIsPrivate, Downloads
  <2>3. Cache!ServedIsWhole'
    BY <1>3 DEF Cache!Open, FreshInode, TemporaryIsPrivate, Cache!ServedIsWhole
  <2>4. QED
    BY <2>1, <2>2, <2>3
<1>4. ASSUME NEW r \in Fetch, Cache!Download(r) PROVE Goal
  <2>1. FreshInode' /\ TemporaryIsPrivate'
    BY <1>4 DEF Cache!Download, FreshInode, TemporaryIsPrivate
  <2>2. Downloads'
    BY <1>4 DEF Cache!Download, Downloads
  <2>3. Cache!ServedIsWhole'
    BY <1>4 DEF Cache!Download, Cache!ServedIsWhole
  <2>4. QED
    BY <2>1, <2>2, <2>3
<1>5. ASSUME NEW r \in Fetch, Cache!DownloadFails(r) PROVE Goal
  BY <1>5 DEF Cache!DownloadFails, FreshInode, TemporaryIsPrivate, Downloads, Cache!ServedIsWhole
<1>6. ASSUME NEW r \in Fetch, Cache!Rename(r) PROVE Goal
  <2>1. FreshInode' /\ TemporaryIsPrivate'
    BY <1>6 DEF Cache!Rename, FreshInode, TemporaryIsPrivate
  <2>2. Downloads'
    BY <1>6 DEF Cache!Rename, Downloads
  <2>3. temporaryPath # None => temporaryPath \in complete \/ truncatedBy[temporaryPath] \in fetchCrossed
    <3>1. temporaryPath # None => truncatedBy[temporaryPath] \in fetchCrossed \cup {r}
      BY <1>6 DEF Cache!Rename, Downloads
    <3>2. r \notin fetchCrossed => temporaryPath \in complete
      BY <1>6 DEF Cache!Rename, Downloads
    <3>3. QED
      BY <3>1, <3>2
  <2>4. Cache!ServedIsWhole'
    BY <1>6, <2>3 DEF Cache!Rename, Cache!ServedIsWhole
  <2>5. QED
    BY <2>1, <2>2, <2>4
<1>7. ASSUME UNCHANGED Cache!vars PROVE Goal
  BY <1>7 DEF Cache!vars, FreshInode, TemporaryIsPrivate, Downloads, Cache!ServedIsWhole
<1>8. QED
  BY <1>1, <1>2, <1>3, <1>4, <1>5, <1>6, <1>7 DEF Cache!Next, CacheInv

\* What the training cache holds and serves is a whole file, unless its download
\* met another of the same file (TrainingCache.ServedIsWhole).
THEOREM CacheServesWhole == Cache!Spec => []Cache!ServedIsWhole
<1>1. Cache!Init => CacheInv
  BY NothingAssumption DEF Cache!Init, CacheInv, Cache!TypeOK, Cache!Place, FreshInode, TemporaryIsPrivate,
         Downloads, Cache!Downloading, Cache!ServedIsWhole
<1>2. CacheInv /\ [Cache!Next]_(Cache!vars) => CacheInv'
  BY CacheInvStep
<1>3. CacheInv => Cache!ServedIsWhole
  BY DEF CacheInv
<1>4. QED
  BY <1>1, <1>2, <1>3, PTL DEF Cache!Spec

\* In the system PlatformMC composes, what the training cache serves is whole.
COROLLARY ServedIsWholeHolds == PlatformSpec => []ServedIsWhole
<1>1. PlatformInit /\ focus = "cache" => Cache!Init
  BY DEF PlatformInit
<1>2. (focus # "cache" => ServedIsWhole) /\ (Cache!ServedIsWhole => ServedIsWhole)
  BY DEF ServedIsWhole
<1>3. focus # "cache" /\ [PlatformNext]_platformVars => (focus # "cache")'
  BY PlatformStep
<1>4. focus = "cache" /\ [PlatformNext]_platformVars
          => (focus = "cache")' /\ [Cache!Next]_(Cache!vars)
  BY PlatformStep
<1>5. focus = "cache" \/ focus # "cache"
  OBVIOUS
<1>6. QED
  BY <1>1, <1>2, <1>3, <1>4, <1>5, CacheServesWhole, PTL DEF PlatformSpec, Cache!Spec

-----------------------------------------------------------------------------
(* FileShareAccess.                                                        *)

\* What a request that is being decided has read of the permissions and of the
\* share is so still, unless the two were changed meanwhile.
ReadsHold ==
    \A r \in ShareRequest \ sharesCrossed :
        /\ Shares!Deciding(r) => shareRequests[r].manages = (shareRequests[r].by \in shareManagers)
        /\ shareRequests[r].at = "share" => shareRequests[r].share = shares[shareRequests[r].of]

\* A share that was read was there and active.
ReadIsActive ==
    \A r \in ShareRequest : shareRequests[r].at = "share" =>
        shareRequests[r].share # Shares!NoShare /\ shareRequests[r].share.isActive

SharesInv == Shares!TypeOK /\ ReadsHold /\ ReadIsActive /\ Shares!DecisionWasRight

\* Every step of FileShareAccess keeps the types.
LEMMA SharesType ==
    ASSUME Shares!TypeOK, [Shares!Next]_(Shares!vars)
    PROVE  Shares!TypeOK'
<1> USE PlatformBoundAssumption DEF Shares!TypeOK, Shares!Edit, Shares!Crosses
<1>h. entitled' \subseteq ShareRequest /\ lacking' \subseteq ShareRequest
  BY DEF Shares!Next, Shares!vars
<1>d. ASSUME NEW dto \in Dto, NEW old \in Shares!Row PROVE Shares!ToShareData(dto, old) \in Shares!Row
  <2>1. dto \in [authMode : Shares!Mode \cup {Keep}, allowDownload : BOOLEAN \cup {Keep},
               isActive : BOOLEAN \cup {Keep}, accesses : Shares!Grants \cup {Keep}]
    BY DtoAssumption
  <2>2. Shares!NoGrants \in Shares!Grants
    BY DEF Shares!NoGrants, Shares!Grants
  <2>3. QED
    BY <2>1, <2>2 DEF Shares!ToShareData, Shares!Row, Shares!Value
<1>1. ASSUME NEW s \in Share, NEW dto \in Dto, Shares!Create(s, dto) PROVE Shares!TypeOK'
  <2>1. [authMode |-> "KERBEROS", allowDownload |-> TRUE, isActive |-> TRUE,
         accesses |-> Shares!NoGrants] \in Shares!Row
    BY DEF Shares!Row, Shares!Mode, Shares!NoGrants, Shares!Grants
  <2>2. QED
    BY <1>1, <1>h, <1>d, <2>1 DEF Shares!Create
<1>2. ASSUME NEW s \in Share, NEW dto \in Dto, Shares!Update(s, dto) PROVE Shares!TypeOK'
  BY <1>2, <1>h, <1>d DEF Shares!Update
<1>3. ASSUME NEW s \in Share, Shares!Remove(s) PROVE Shares!TypeOK'
  BY <1>3, <1>h DEF Shares!Remove
<1>4. ASSUME NEW p \in Person, Shares!ChangeRole(p) PROVE Shares!TypeOK'
  BY <1>4, <1>h DEF Shares!ChangeRole
<1>5. ASSUME NEW p \in Person, Shares!SaveUser(p) PROVE Shares!TypeOK'
  BY <1>5, <1>h DEF Shares!SaveUser
<1>6. ASSUME NEW p \in Person, NEW g \in Group, Shares!SaveMember(p, g) PROVE Shares!TypeOK'
  BY <1>6, <1>h DEF Shares!SaveMember
<1> USE DEF Shares!AdministrationUnchanged, Shares!Idle, Shares!Started, Shares!Reading,
            Shares!Allowed, Shares!Over
<1>7. ASSUME NEW r \in ShareRequest, NEW s \in Share, NEW p \in Person, NEW kind \in Shares!Right,
             Shares!Validate(r, s, p, kind)
      PROVE  Shares!TypeOK'
  BY <1>7, <1>h DEF Shares!Validate
<1>8. ASSUME NEW r \in ShareRequest, Shares!ReadShare(r) PROVE Shares!TypeOK'
  <2>1. shareRequests[r] \in Shares!Started
    BY <1>8 DEF Shares!ReadShare
  <2>2. QED
    BY <1>8, <1>h, <2>1 DEF Shares!ReadShare
<1>9. ASSUME NEW r \in ShareRequest, Shares!Decide(r) PROVE Shares!TypeOK'
  <2>1. shareRequests[r] \in Shares!Reading
    BY <1>9 DEF Shares!Decide
  <2>2. QED
    BY <1>9, <1>h, <2>1 DEF Shares!Decide
<1>10. ASSUME NEW r \in ShareRequest, Shares!Transfer(r) PROVE Shares!TypeOK'
  BY <1>10, <1>h DEF Shares!Transfer
<1>11. CASE UNCHANGED Shares!vars
  BY <1>11 DEF Shares!vars
<1>12. QED
  BY <1>1, <1>2, <1>3, <1>4, <1>5, <1>6, <1>7, <1>8, <1>9, <1>10, <1>11
     DEF Shares!Next, Shares!Step

\* ResolveAccess lets in who is entitled and nobody else, when what it was given
\* holds at this moment.
LEMMA ResolveIsRight ==
    ASSUME NEW s \in Share, NEW p \in Person, NEW kind \in Shares!Right,
           shares[s] \in Shares!Row, shares[s] # Shares!NoShare, shares[s].isActive
    PROVE  Shares!Entitled(s, p, kind) <=>
               /\ {"read", kind} \subseteq Shares!ResolveAccess(shares[s], p, p \in shareManagers)
               /\ kind = "download" => shares[s].allowDownload
<1> USE DEF Shares!Entitled, Shares!ResolveAccess, Shares!Right
<1>1. CASE p \in shareManagers
  BY <1>1
<1>2. CASE p \notin shareManagers /\ shares[s].authMode = "SHARED_ACCOUNT"
  BY <1>2
<1>3. CASE p \notin shareManagers /\ shares[s].authMode = "KERBEROS"
  BY <1>3
<1>4. CASE p \notin shareManagers /\ shares[s].authMode = "SERVICE_ACCOUNT"
  BY <1>4 DEF Shares!MergedAccess
<1>5. QED
  BY <1>1, <1>2, <1>3, <1>4 DEF Shares!Row, Shares!Mode

\* Every step of FileShareAccess keeps the invariant.
LEMMA SharesInvStep ==
    ASSUME SharesInv, [Shares!Next]_(Shares!vars)
    PROVE  SharesInv'
<1>t. Shares!TypeOK /\ Shares!TypeOK'
  BY SharesType DEF SharesInv
<1>i. ReadsHold /\ ReadIsActive /\ Shares!DecisionWasRight
  BY DEF SharesInv
<1>h. /\ entitled \subseteq entitled' /\ lacking \subseteq lacking'
      /\ ~UNCHANGED Shares!vars => \A r \in ShareRequest : Shares!Deciding(r) =>
             LET q == shareRequests[r]
             IN  IF Shares!Entitled(q.of, q.by, q.kind) THEN r \in entitled' ELSE r \in lacking'
  BY DEF Shares!Next, Shares!vars
<1> DEFINE Goal == (ReadsHold /\ ReadIsActive /\ Shares!DecisionWasRight)'
<1>a. ASSUME UNCHANGED shareRequests, sharesCrossed \subseteq sharesCrossed',
             \A r \in ShareRequest : Shares!Deciding(r) /\ r \notin sharesCrossed' =>
                 /\ shares'[shareRequests[r].of] = shares[shareRequests[r].of]
                 /\ (shareRequests[r].by \in shareManagers') = (shareRequests[r].by \in shareManagers)
      PROVE  Goal
  BY <1>a, <1>i, <1>h DEF ReadsHold, ReadIsActive, Shares!DecisionWasRight, Shares!Deciding
<1> USE DEF Shares!Deciding
<1>1. ASSUME NEW s \in Share, NEW dto \in Dto, Shares!Create(s, dto) PROVE Goal
  BY <1>1, <1>a, <1>t DEF Shares!Create, Shares!TypeOK
<1>2. ASSUME NEW s \in Share, NEW dto \in Dto, Shares!Update(s, dto) PROVE Goal
  BY <1>2, <1>a, <1>t DEF Shares!Update, Shares!Crosses, Shares!TypeOK
<1>3. ASSUME NEW s \in Share, Shares!Remove(s) PROVE Goal
  BY <1>3, <1>a, <1>t DEF Shares!Remove, Shares!Crosses, Shares!TypeOK
<1>4. ASSUME NEW p \in Person, Shares!ChangeRole(p) PROVE Goal
  BY <1>4, <1>a, <1>t DEF Shares!ChangeRole, Shares!Crosses, Shares!TypeOK
<1>5. ASSUME NEW p \in Person, Shares!SaveUser(p) PROVE Goal
  BY <1>5, <1>a DEF Shares!SaveUser
<1>6. ASSUME NEW p \in Person, NEW g \in Group, Shares!SaveMember(p, g) PROVE Goal
  BY <1>6, <1>a DEF Shares!SaveMember
<1> USE DEF Shares!AdministrationUnchanged
<1>7. ASSUME NEW r \in ShareRequest, NEW s \in Share, NEW p \in Person, NEW kind \in Shares!Right,
             Shares!Validate(r, s, p, kind)
      PROVE  Goal
  <2>1. ReadsHold' /\ ReadIsActive'
    BY <1>7, <1>i, <1>t DEF Shares!Validate, ReadsHold, ReadIsActive, Shares!TypeOK
  <2>2. Shares!DecisionWasRight'
    BY <1>7, <1>i, <1>h, <1>t DEF Shares!Validate, Shares!DecisionWasRight, Shares!TypeOK
  <2>3. QED
    BY <2>1, <2>2
<1>8. ASSUME NEW r \in ShareRequest, Shares!ReadShare(r) PROVE Goal
  <2>1. ReadsHold' /\ ReadIsActive'
    BY <1>8, <1>i, <1>t DEF Shares!ReadShare, ReadsHold, ReadIsActive, Shares!TypeOK
  <2>2. shareRequests'[r].at = "denied" =>
            ~Shares!Entitled(shareRequests[r].of, shareRequests[r].by, shareRequests[r].kind)
    BY <1>8, <1>t DEF Shares!ReadShare, Shares!Entitled, Shares!TypeOK
  <2>3. Shares!DecisionWasRight'
    BY <1>8, <1>i, <1>h, <1>t, <2>2 DEF Shares!ReadShare, Shares!DecisionWasRight, Shares!TypeOK, Shares!vars
  <2>4. QED
    BY <2>1, <2>3
<1>9. ASSUME NEW r \in ShareRequest, Shares!Decide(r) PROVE Goal
  <2> DEFINE q == shareRequests[r]
             may == Shares!Entitled(q.of, q.by, q.kind)
  <2>1. ReadsHold' /\ ReadIsActive'
    BY <1>9, <1>i, <1>t DEF Shares!Decide, ReadsHold, ReadIsActive, Shares!TypeOK
  <2>2. q \in Shares!Reading
    BY <1>9, <1>t DEF Shares!Decide, Shares!TypeOK, Shares!Idle, Shares!Started, Shares!Reading,
                      Shares!Allowed, Shares!Over
  <2>3. ASSUME r \notin sharesCrossed
        PROVE  IF may THEN shareRequests'[r].at = "allowed" ELSE shareRequests'[r].at = "denied"
    <3>1. /\ q.of \in Share /\ q.by \in Person /\ q.kind \in Shares!Right
          /\ q.manages = (q.by \in shareManagers) /\ q.share = shares[q.of]
          /\ shares[q.of] \in Shares!Row /\ shares[q.of] # Shares!NoShare /\ shares[q.of].isActive
      BY <1>9, <1>i, <2>2, <2>3 DEF Shares!Decide, Shares!Reading, ReadsHold, ReadIsActive
    <3>2. may <=> /\ {"read", q.kind} \subseteq Shares!ResolveAccess(q.share, q.by, q.manages)
                  /\ q.kind = "download" => q.share.allowDownload
      BY <3>1, ResolveIsRight
    <3>3. QED
      BY <1>9, <1>t, <3>2 DEF Shares!Decide, Shares!TypeOK
  <2>4. Shares!DecisionWasRight'
    BY <1>9, <1>i, <1>h, <1>t, <2>3 DEF Shares!Decide, Shares!DecisionWasRight, Shares!TypeOK, Shares!vars
  <2>5. QED
    BY <2>1, <2>4
<1>10. ASSUME NEW r \in ShareRequest, Shares!Transfer(r) PROVE Goal
  <2>1. ReadsHold' /\ ReadIsActive'
    BY <1>10, <1>i, <1>t DEF Shares!Transfer, ReadsHold, ReadIsActive, Shares!TypeOK
  <2>2. Shares!DecisionWasRight'
    BY <1>10, <1>i, <1>h, <1>t DEF Shares!Transfer, Shares!DecisionWasRight, Shares!TypeOK
  <2>3. QED
    BY <2>1, <2>2
<1>11. ASSUME UNCHANGED Shares!vars PROVE Goal
  BY <1>11, <1>a DEF Shares!vars
<1>12. QED
  BY <1>t, <1>1, <1>2, <1>3, <1>4, <1>5, <1>6, <1>7, <1>8, <1>9, <1>10, <1>11
     DEF Shares!Next, Shares!Step, SharesInv

\* Who is let in to a file share was entitled while the request was decided, and
\* who is turned away was not (FileShareAccess.DecisionWasRight).
THEOREM SharesDecideRight == Shares!Spec => []Shares!DecisionWasRight
<1>1. ASSUME Shares!Init PROVE SharesInv
  <2>1. Shares!TypeOK
    BY <1>1, PlatformBoundAssumption DEF Shares!Init, Shares!TypeOK
  <2>2. ReadsHold /\ ReadIsActive /\ Shares!DecisionWasRight
    BY <1>1 DEF Shares!Init, ReadsHold, ReadIsActive, Shares!DecisionWasRight, Shares!Deciding, Shares!Idle
  <2>3. QED
    BY <2>1, <2>2 DEF SharesInv
<1>2. SharesInv /\ [Shares!Next]_(Shares!vars) => SharesInv'
  BY SharesInvStep
<1>3. SharesInv => Shares!DecisionWasRight
  BY DEF SharesInv
<1>4. QED
  BY <1>1, <1>2, <1>3, PTL DEF Shares!Spec

\* In the system PlatformMC composes, the answer to a request for a share was right
\* at some moment of it.
COROLLARY DecisionWasRightHolds == PlatformSpec => []DecisionWasRight
<1>1. PlatformInit /\ focus = "shares" => Shares!Init
  BY DEF PlatformInit
<1>2. (focus # "shares" => DecisionWasRight) /\ (Shares!DecisionWasRight => DecisionWasRight)
  BY DEF DecisionWasRight
<1>3. focus # "shares" /\ [PlatformNext]_platformVars => (focus # "shares")'
  BY PlatformStep
<1>4. focus = "shares" /\ [PlatformNext]_platformVars
          => (focus = "shares")' /\ [Shares!Next]_(Shares!vars)
  BY PlatformStep
<1>5. focus = "shares" \/ focus # "shares"
  OBVIOUS
<1>6. QED
  BY <1>1, <1>2, <1>3, <1>4, <1>5, SharesDecideRight, PTL DEF PlatformSpec, Shares!Spec

-----------------------------------------------------------------------------
(* BrowserSession.                                                         *)

\* The requests of the logins so far.
CallOf(n) == [tab : Tab, kind : {"guard", "me", "save"}, session : 1..n,
              form : User \cup {None}, live : BOOLEAN]

\* The types of what a tab holds; requests refer to logins there were.
SessionTyped ==
    /\ sessions \in Seq(User) /\ token \in 0..Len(sessions) /\ stored \in User \cup {None}
    /\ page \in [Tab -> Session!Page] /\ cache \in [Tab -> Session!Data \cup {None}]
    /\ calls \subseteq CallOf(Len(sessions))
    /\ holders \in [User -> User \cup {None}]

\* Who logged in last.
Latest == IF sessions = <<>> THEN None ELSE sessions[Len(sessions)]

HeldFor(data, u) == data = None \/ data.of = u
AskedFor(c, ss, u) ==
    /\ Session!Left(c) \/ ss[c.session] = u
    /\ c.kind = "save" => c.form = ss[c.session]

\* Storage, caches and requests agree on the user.
Agreed ==
    /\ token # 0 => sessions[token] = Latest
    /\ stored \in {None, Latest}
    /\ \A t \in Tab : HeldFor(cache[t], Latest)
    /\ \A c \in calls : AskedFor(c, sessions, Latest)

SessionInv == SessionTyped /\ (~mixed => Agreed) /\ Session!FormIsOwn

\* What a load leaves under way was under way for the same session with the same form.
LEMMA LoadsKeep ==
    ASSUME SessionTyped, NEW t \in Tab, NEW u
    PROVE  /\ Session!Loads(t) \subseteq CallOf(Len(sessions))
           /\ (\A c \in calls : AskedFor(c, sessions, u))
                  => \A c \in Session!Loads(t) : AskedFor(c, sessions, u)
<1>1. ASSUME NEW c \in Session!Loads(t)
      PROVE  c \in calls \/ \E d \in calls : d.kind = "save" /\ c = [d EXCEPT !.live = FALSE]
  BY DEF Session!Loads
<1>2. ASSUME NEW d \in calls, d.kind = "save"
      PROVE  /\ [d EXCEPT !.live = FALSE] \in CallOf(Len(sessions))
             /\ AskedFor(d, sessions, u) => AskedFor([d EXCEPT !.live = FALSE], sessions, u)
  BY <1>2 DEF SessionTyped, CallOf, AskedFor, Session!Left
<1>3. QED
  BY <1>1, <1>2 DEF SessionTyped

\* What a tab holds and asks for when it has come to a page.
LEMMA QueryRuns ==
    ASSUME SessionTyped, NEW t \in Tab, NEW data \in Session!Data \cup {None}, NEW u,
           NEW these, these \subseteq CallOf(Len(sessions')),
           token' \in 0..Len(sessions'), stored' \in User \cup {None},
           Session!UseAuthUser(t, data, these)
    PROVE  /\ cache' \in [Tab -> Session!Data \cup {None}]
           /\ calls' \subseteq CallOf(Len(sessions'))
           /\ /\ token' # 0 => sessions'[token'] = u
              /\ stored' \in {None, u} /\ HeldFor(data, u)
              /\ \A s \in Tab \ {t} : HeldFor(cache[s], u)
              /\ \A c \in these : AskedFor(c, sessions', u)
              => /\ \A s \in Tab : HeldFor(cache'[s], u)
                 /\ \A c \in calls' : AskedFor(c, sessions', u)
<1> DEFINE shown == IF data = None /\ stored' # None THEN [of |-> stored', fresh |-> TRUE] ELSE data
           me == Session!Requested(t, "me", None)
<1>1. cache' = [cache EXCEPT ![t] = shown]
  BY DEF Session!UseAuthUser
<1>2. shown \in Session!Data \cup {None} /\ (HeldFor(data, u) /\ stored' \in {None, u} => HeldFor(shown, u))
  BY DEF Session!Data, HeldFor
<1>3. calls' = these \/ (token' # 0 /\ calls' = these \cup {me})
  BY DEF Session!UseAuthUser
<1>4. token' # 0 => /\ me \in CallOf(Len(sessions'))
                    /\ sessions'[token'] = u => AskedFor(me, sessions', u)
  BY DEF Session!Requested, CallOf, AskedFor, Session!Left
<1>5. QED
  BY <1>1, <1>2, <1>3, <1>4 DEF SessionTyped

\* A tab that arrives at a page keeps its type.
LEMMA TabArrives ==
    ASSUME SessionTyped, NEW t \in Tab, NEW p \in {"login", "home", "admin"},
           NEW data \in Session!Data \cup {None}, NEW u,
           NEW these, these \subseteq CallOf(Len(sessions')),
           token' \in 0..Len(sessions'), stored' \in User \cup {None},
           Session!Arrive(t, p, data, these)
    PROVE  /\ page' \in [Tab -> Session!Page]
           /\ cache' \in [Tab -> Session!Data \cup {None}]
           /\ calls' \subseteq CallOf(Len(sessions'))
           /\ /\ token' # 0 => sessions'[token'] = u
              /\ stored' \in {None, u} /\ HeldFor(data, u)
              /\ \A s \in Tab \ {t} : HeldFor(cache[s], u)
              /\ \A c \in these : AskedFor(c, sessions', u)
              => /\ \A s \in Tab : HeldFor(cache'[s], u)
                 /\ \A c \in calls' : AskedFor(c, sessions', u)
<1> DEFINE there == IF p = "admin" /\ token' = 0 THEN "login"
                    ELSE IF p = "login" /\ token' # 0 THEN "home" ELSE p
           guard == Session!Requested(t, "guard", None)
           asked == IF there = "admin" THEN {guard} ELSE {}
           Agree(them) == /\ token' # 0 => sessions'[token'] = u
                          /\ stored' \in {None, u} /\ HeldFor(data, u)
                          /\ \A s \in Tab \ {t} : HeldFor(cache[s], u)
                          /\ \A c \in them : AskedFor(c, sessions', u)
<1>1. there \in {"login", "home", "admin"} /\ (there = "admin" => token' # 0)
  OBVIOUS
<1>2. there = "admin" => /\ guard \in CallOf(Len(sessions'))
                         /\ Agree(these) => AskedFor(guard, sessions', u)
  BY DEF Session!Requested, CallOf, AskedFor, Session!Left
<1>3. these \cup asked \subseteq CallOf(Len(sessions')) /\ (Agree(these) => Agree(these \cup asked))
  BY <1>2
<1>4. page' \in [Tab -> Session!Page]
  BY <1>1 DEF Session!Arrive, Session!Page, SessionTyped
<1>5. CASE cache' = [cache EXCEPT ![t] = data] /\ calls' \in {these, these \cup asked}
  BY <1>3, <1>4, <1>5 DEF SessionTyped
<1>6. CASE Session!UseAuthUser(t, data, these \cup asked)
  <2> HIDE DEF asked
  <2>1. QED
    BY <1>3, <1>4, <1>6, QueryRuns
<1>7. QED
  BY <1>5, <1>6 DEF Session!Arrive

\* Every step of BrowserSession keeps the invariant.
LEMMA SessionInvStep ==
    ASSUME SessionInv, [Session!Next]_(Session!vars)
    PROVE  SessionInv'
<1>i. SessionTyped /\ (~mixed => Agreed) /\ Session!FormIsOwn
  BY DEF SessionInv
<1>l. calls \subseteq CallOf(Len(sessions)) /\ Len(sessions) \in Nat
  BY <1>i DEF SessionTyped
<1>1. ASSUME NEW t \in Tab, NEW u \in User, NEW p \in {"home", "admin"}, Session!Login(t, u, p)
      PROVE  SessionInv'
  <2>1. /\ sessions' \in Seq(User) /\ Len(sessions') = Len(sessions) + 1
        /\ token' = Len(sessions') /\ sessions'[token'] = u /\ Latest' = u
        /\ \A n \in 1..Len(sessions) : sessions'[n] = sessions[n]
    BY <1>1, <1>i, <1>l DEF Session!Login, SessionTyped, Latest
  <2>2. calls \subseteq CallOf(Len(sessions'))
    BY <1>l, <2>1 DEF CallOf
  <2>3. stored' = u /\ UNCHANGED holders /\ Session!Arrive(t, p, cache[t], calls)
    BY <1>1 DEF Session!Login
  <2>a. cache[t] \in Session!Data \cup {None} /\ token' \in 0..Len(sessions')
        /\ stored' \in User \cup {None}
    BY <1>i, <1>l, <2>1, <2>3 DEF SessionTyped
  <2>4. SessionTyped'
    <3>1. /\ page' \in [Tab -> Session!Page] /\ cache' \in [Tab -> Session!Data \cup {None}]
          /\ calls' \subseteq CallOf(Len(sessions'))
      BY <1>i, <2>2, <2>3, <2>a, TabArrives
    <3>2. QED
      BY <1>i, <2>1, <2>3, <2>a, <3>1 DEF SessionTyped
  <2>5. ASSUME ~mixed' PROVE Agreed'
    <3>1. /\ ~mixed /\ \A s \in Tab : HeldFor(cache[s], u)
          /\ \A c \in calls : Session!Left(c) \/ sessions[c.session] = u
      BY <1>1, <2>5 DEF Session!Login, HeldFor
    <3>2. \A c \in calls : AskedFor(c, sessions', u)
      BY <1>i, <1>l, <2>1, <3>1 DEF Agreed, AskedFor, CallOf
    <3>3. /\ token' # 0 => sessions'[token'] = u
          /\ stored' \in {None, u} /\ HeldFor(cache[t], u)
          /\ \A s \in Tab \ {t} : HeldFor(cache[s], u)
      BY <2>1, <2>3, <3>1
    <3>4. /\ \A s \in Tab : HeldFor(cache'[s], u)
          /\ \A c \in calls' : AskedFor(c, sessions', u)
      BY <1>i, <2>2, <2>3, <2>a, <3>2, <3>3, TabArrives
    <3>5. QED
      BY <2>1, <2>3, <3>4 DEF Agreed
  <2>6. Session!FormIsOwn'
    BY <1>1, <1>i DEF Session!Login, Session!FormIsOwn
  <2>7. QED
    BY <2>4, <2>5, <2>6 DEF SessionInv
\* No other step logs anybody in.
<1>s. ASSUME UNCHANGED sessions, SessionTyped', mixed' = mixed,
             Agreed => Agreed', Session!FormIsOwn'
      PROVE  SessionInv'
  BY <1>s, <1>i DEF SessionInv
<1>2. ASSUME NEW t \in Tab, NEW p \in {"login", "home", "admin"}, Session!Open(t, p)
      PROVE  SessionInv'
  <2>1. UNCHANGED <<sessions, token, stored, holders, mixed>> /\ Latest' = Latest
    BY <1>2 DEF Session!Open, Latest
  <2>2. PICK data \in {cache[t], None}, these \in {calls, Session!Loads(t)} :
            Session!Arrive(t, p, data, these)
    BY <1>2 DEF Session!Open
  <2>3. /\ these \subseteq CallOf(Len(sessions)) /\ data \in Session!Data \cup {None}
        /\ Agreed => \A c \in these : AskedFor(c, sessions, Latest)
    BY <1>i, <1>l, <2>2, LoadsKeep DEF SessionTyped, Agreed
  <2>a. these \subseteq CallOf(Len(sessions')) /\ token' \in 0..Len(sessions')
        /\ stored' \in User \cup {None}
    BY <1>i, <1>l, <2>1, <2>3 DEF SessionTyped
  <2>4. SessionTyped'
    <3>1. /\ page' \in [Tab -> Session!Page] /\ cache' \in [Tab -> Session!Data \cup {None}]
          /\ calls' \subseteq CallOf(Len(sessions'))
      BY <1>i, <2>2, <2>3, <2>a, TabArrives
    <3>2. QED
      BY <1>i, <2>1, <2>a, <3>1 DEF SessionTyped
  <2>5. Agreed => Agreed'
    <3> SUFFICES ASSUME Agreed PROVE Agreed'
      OBVIOUS
    <3>1. /\ token' # 0 => sessions'[token'] = Latest
          /\ stored' \in {None, Latest} /\ HeldFor(data, Latest)
          /\ \A s \in Tab \ {t} : HeldFor(cache[s], Latest)
          /\ \A c \in these : AskedFor(c, sessions', Latest)
      BY <2>1, <2>2, <2>3 DEF Agreed, HeldFor
    <3>2. /\ \A s \in Tab : HeldFor(cache'[s], Latest)
          /\ \A c \in calls' : AskedFor(c, sessions', Latest)
      <4>1. /\ /\ token' # 0 => sessions'[token'] = Latest
               /\ stored' \in {None, Latest} /\ HeldFor(data, Latest)
               /\ \A s \in Tab \ {t} : HeldFor(cache[s], Latest)
               /\ \A c \in these : AskedFor(c, sessions', Latest)
            => /\ \A s \in Tab : HeldFor(cache'[s], Latest)
               /\ \A c \in calls' : AskedFor(c, sessions', Latest)
        BY SMTT(40), <1>i, <2>2, <2>3, <2>a, TabArrives
      <4>2. QED
        BY <3>1, <4>1
    <3>3. QED
      BY <2>1, <3>1, <3>2 DEF Agreed
  <2>6. QED
    BY <1>s, <1>i, <2>1, <2>4, <2>5 DEF Session!FormIsOwn
<1> USE DEF SessionTyped
<1>3. ASSUME NEW t \in Tab, Session!LogoutFromPortal(t) \/ Session!LogoutFromAdmin(t)
      PROVE  SessionInv'
  BY <1>3, <1>s, <1>i DEF Session!LogoutFromPortal, Session!LogoutFromAdmin, Session!ClearSession,
                          Agreed, Latest, Session!FormIsOwn, Session!Page
<1>4. ASSUME NEW t \in Tab, Session!SaveProfile(t) PROVE SessionInv'
  <2> DEFINE save == Session!Requested(t, "save", cache[t].of)
  <2>1. calls' = calls \cup {save} /\ UNCHANGED <<sessions, token, stored, page, cache, holders, mixed>>
        /\ cache[t] # None /\ token # 0
    BY <1>4 DEF Session!SaveProfile
  <2>2. save \in CallOf(Len(sessions)) /\ save.session = token /\ save.form = cache[t].of
    BY <1>i, <2>1 DEF Session!Requested, CallOf, Session!Data
  <2>3. SessionTyped' /\ Latest' = Latest
    BY <1>i, <2>1, <2>2 DEF Latest
  <2>4. Agreed => Agreed'
    BY <1>i, <2>1, <2>2, <2>3 DEF Agreed, AskedFor, HeldFor
  <2>5. QED
    BY <1>s, <1>i, <2>1, <2>3, <2>4 DEF Session!FormIsOwn
<1>5. ASSUME NEW t \in Tab, Session!Redraw(t) \/ Session!Age(t) \/ Session!Collect(t)
      PROVE  SessionInv'
  <2>1. PICK data \in Session!Data \cup {None} :
            /\ cache' = [cache EXCEPT ![t] = data]
            /\ HeldFor(cache[t], Latest) /\ stored \in {None, Latest} => HeldFor(data, Latest)
    BY ZenonT(60), <1>5, <1>i DEF Session!Redraw, Session!Age, Session!Collect, Session!Data, HeldFor
  <2>2. UNCHANGED <<sessions, token, stored, page, calls, holders, mixed>> /\ Latest' = Latest
    BY <1>5 DEF Session!Redraw, Session!Age, Session!Collect, Latest
  <2>3. SessionTyped' /\ (Agreed => Agreed')
    BY <1>i, <2>1, <2>2 DEF Agreed
  <2>4. QED
    BY <1>s, <1>i, <2>2, <2>3 DEF Session!FormIsOwn
<1>6. ASSUME NEW c \in calls, Session!AnswerMe(c) PROVE SessionInv'
  <2>1. /\ UNCHANGED <<sessions, token, page, holders, mixed>> /\ Latest' = Latest
        /\ calls' = calls \ {c} /\ stored' = sessions[c.session] /\ ~Session!Left(c)
        /\ cache' = cache \/ cache' = [cache EXCEPT ![c.tab] = [of |-> stored', fresh |-> TRUE]]
    BY <1>6 DEF Session!AnswerMe, Session!Left, Latest
  <2>2. stored' \in User /\ c.tab \in Tab
    BY <1>i, <1>l, <2>1 DEF CallOf
  <2>3. SessionTyped'
    <3>1. [of |-> stored', fresh |-> TRUE] \in Session!Data \cup {None}
      BY <2>2 DEF Session!Data
    <3>2. cache' \in [Tab -> Session!Data \cup {None}]
      BY <1>i, <2>1, <2>2, <3>1
    <3>3. QED
      BY <1>i, <2>1, <2>2, <3>2
  <2>5. Agreed => Agreed'
    BY <1>i, <2>1, <2>2 DEF Agreed, AskedFor, HeldFor
  <2>6. QED
    BY <1>s, <1>i, <2>1, <2>3, <2>5 DEF Session!FormIsOwn
<1>7. ASSUME NEW c \in calls, NEW ok \in BOOLEAN, Session!AnswerGuard(c, ok) PROVE SessionInv'
  <2>1. /\ UNCHANGED <<sessions, token, holders, mixed>> /\ Latest' = Latest
        /\ stored' = (IF ok THEN sessions[c.session] ELSE stored) /\ ~Session!Left(c)
    BY <1>7 DEF Session!AnswerGuard, Session!Left, Latest
  <2>2. /\ stored' \in User \cup {None} /\ c.tab \in Tab
        /\ Agreed => stored' \in {None, Latest}
    BY <1>i, <1>l, <2>1 DEF CallOf, Agreed, AskedFor
  <2>3. CASE page' = page /\ cache' = cache /\ calls' = calls \ {c}
    <3>1. SessionTyped' /\ (Agreed => Agreed')
      BY <1>i, <2>1, <2>2, <2>3 DEF Agreed
    <3>2. QED
      BY <1>s, <1>i, <2>1, <3>1 DEF Session!FormIsOwn
  <2>4. CASE /\ page' = [page EXCEPT ![c.tab] = "admin"]
             /\ Session!UseAuthUser(c.tab, cache[c.tab], calls \ {c})
    <3>1. calls \ {c} \subseteq CallOf(Len(sessions')) /\ cache[c.tab] \in Session!Data \cup {None}
          /\ token' \in 0..Len(sessions')
      BY <1>i, <2>1, <2>2
    <3>2. SessionTyped'
      BY <1>i, <2>1, <2>2, <2>4, <3>1, QueryRuns DEF Session!Page
    <3>3. ASSUME Agreed PROVE Agreed'
      <4>1. /\ token' # 0 => sessions'[token'] = Latest
            /\ stored' \in {None, Latest} /\ HeldFor(cache[c.tab], Latest)
            /\ \A s \in Tab \ {c.tab} : HeldFor(cache[s], Latest)
            /\ \A d \in calls \ {c} : AskedFor(d, sessions', Latest)
        BY <3>3, <2>1, <2>2 DEF Agreed
      <4>2. /\ \A s \in Tab : HeldFor(cache'[s], Latest)
            /\ \A d \in calls' : AskedFor(d, sessions', Latest)
        BY <1>i, <2>2, <2>4, <3>1, <4>1, QueryRuns
      <4>3. QED
        BY <2>1, <4>1, <4>2 DEF Agreed
    <3>4. QED
      BY <1>s, <1>i, <2>1, <3>2, <3>3 DEF Session!FormIsOwn
  <2>5. QED
    BY <1>7, <2>3, <2>4 DEF Session!AnswerGuard
<1>8. ASSUME NEW c \in calls, Session!AnswerSave(c) PROVE SessionInv'
  <2> DEFINE u == sessions[c.session]
             me == Session!Requested(c.tab, "me", None)
             others == {IF d.tab = c.tab /\ d.kind = "me" THEN [d EXCEPT !.live = FALSE] ELSE d :
                            d \in calls \ {c}}
  <2>1. /\ UNCHANGED <<sessions, token, page, mixed>> /\ Latest' = Latest
        /\ c.kind = "save" /\ ~Session!Left(c) /\ (token # 0 => ~Session!Left(me))
        /\ holders' = [holders EXCEPT ![u] = c.form] /\ stored' = u
        /\ cache' = [cache EXCEPT ![c.tab] = [of |-> u, fresh |-> FALSE]]
        /\ calls' = others \/ (token # 0 /\ calls' = others \cup {me})
    BY <1>8 DEF Session!AnswerSave, Latest, Session!Left, Session!Requested
  <2>2. c \in CallOf(Len(sessions)) /\ u \in User /\ c.tab \in Tab
    BY <1>i, <1>l DEF CallOf
  <2>3. token # 0 => me \in CallOf(Len(sessions)) /\ me.session = token /\ me.kind = "me"
    BY <1>i, <2>1, <2>2 DEF Session!Requested, CallOf
  <2>4. /\ others \subseteq CallOf(Len(sessions))
        /\ \A o \in others : \E d \in calls :
              /\ o.session = d.session /\ o.kind = d.kind /\ o.form = d.form
              /\ Session!Left(o) <=> Session!Left(d)
    BY <1>l DEF CallOf, Session!Left
  <2>5. Agreed => Agreed'
    <3> HIDE DEF others, me
    <3>1. QED
      BY <1>i, <2>1, <2>2, <2>3, <2>4 DEF Agreed, AskedFor, HeldFor
  <2>6. SessionTyped'
    <3>1. calls' \subseteq CallOf(Len(sessions))
      BY <2>1, <2>3, <2>4
    <3>2. c.form \in User \cup {None} /\ [of |-> u, fresh |-> FALSE] \in Session!Data
      BY <2>2 DEF CallOf, Session!Data
    <3>3. QED
      BY <1>i, <2>1, <2>2, <3>1, <3>2
  <2>7. Session!FormIsOwn'
    <3>1. ~mixed => c.form = u
      BY <1>i, <2>1 DEF Agreed, AskedFor
    <3>2. QED
      BY <1>i, <2>1, <2>2, <3>1 DEF Session!FormIsOwn
  <2>8. QED
    BY <1>s, <2>1, <2>5, <2>6, <2>7
<1>9. ASSUME NEW c \in calls, Session!Refuse(c) PROVE SessionInv'
  <2>1. /\ UNCHANGED <<sessions, holders, mixed>> /\ Latest' = Latest
        /\ token' = 0 /\ stored' = None /\ calls' = Session!Loads(c.tab) /\ c.tab \in Tab
        /\ page' = [page EXCEPT ![c.tab] = "login"] /\ cache' = [cache EXCEPT ![c.tab] = None]
    BY <1>9, <1>l DEF Session!Refuse, Session!ClearSession, CallOf, Latest
  <2>l. /\ calls' \subseteq CallOf(Len(sessions))
        /\ Agreed => \A d \in calls' : AskedFor(d, sessions, Latest)
    BY <1>i, <2>1, LoadsKeep DEF Agreed
  <2>2. SessionTyped'
    <3>1. page' \in [Tab -> Session!Page] /\ cache' \in [Tab -> Session!Data \cup {None}]
      BY <1>i, <2>1 DEF Session!Page
    <3>2. token' \in 0..Len(sessions) /\ stored' \in User \cup {None}
      BY <1>l, <2>1
    <3>3. QED
      BY <1>i, <2>1, <2>l, <3>1, <3>2
  <2>3. Agreed => Agreed'
    BY <1>i, <2>1, <2>l DEF Agreed, HeldFor
  <2>4. QED
    BY <1>s, <1>i, <2>1, <2>2, <2>3 DEF Session!FormIsOwn
<1>10. ASSUME NEW c \in calls, Session!FailCall(c) PROVE SessionInv'
  <2>1. /\ UNCHANGED <<sessions, token, stored, page, cache, holders, mixed>> /\ Latest' = Latest
        /\ calls' = calls \ {c}
    BY <1>10 DEF Session!FailCall, Latest
  <2>2. SessionTyped' /\ (Agreed => Agreed')
    BY <1>i, <2>1 DEF Agreed
  <2>3. QED
    BY <1>s, <1>i, <2>1, <2>2 DEF Session!FormIsOwn
<1>w. ASSUME NEW c \in calls, Session!WriteUnanswered(c) PROVE SessionInv'
  <2>1. /\ UNCHANGED <<sessions, token, stored, page, cache, mixed>> /\ Latest' = Latest
        /\ calls' = calls \ {c} /\ c.kind = "save"
        /\ holders' = [holders EXCEPT ![sessions[c.session]] = c.form]
    BY <1>w DEF Session!WriteUnanswered, Latest
  <2>2. /\ c.form \in User \cup {None} /\ sessions[c.session] \in User
        /\ ~mixed => c.form = sessions[c.session]
    BY <1>i, <1>l, <2>1 DEF CallOf, Agreed, AskedFor
  <2>3. SessionTyped' /\ (Agreed => Agreed')
    BY <1>i, <2>1, <2>2 DEF Agreed
  <2>4. Session!FormIsOwn'
    BY <1>i, <2>1, <2>2 DEF Session!FormIsOwn
  <2>5. QED
    BY <1>s, <2>1, <2>3, <2>4
<1>11. ASSUME UNCHANGED Session!vars PROVE SessionInv'
  BY <1>11, <1>s, <1>i DEF Session!vars, Agreed, Latest, Session!FormIsOwn
<1>12. QED
  BY <1>1, <1>2, <1>3, <1>4, <1>5, <1>6, <1>7, <1>8, <1>9, <1>10, <1>w, <1>11 DEF Session!Next

\* A profile form is saved to the account it came from, as long as nobody logs in
\* while a tab still has data or a request of somebody else (BrowserSession.FormIsOwn).
THEOREM SessionFormIsOwn == Session!Spec => []Session!FormIsOwn
<1>1. ASSUME Session!Init PROVE SessionInv
  <2>1. SessionTyped
    BY <1>1 DEF Session!Init, SessionTyped, Session!Page
  <2>2. Agreed /\ Session!FormIsOwn
    BY <1>1 DEF Session!Init, Agreed, Latest, HeldFor, Session!FormIsOwn
  <2>3. QED
    BY <2>1, <2>2 DEF SessionInv
<1>2. SessionInv /\ [Session!Next]_(Session!vars) => SessionInv'
  BY SessionInvStep
<1>3. SessionInv => Session!FormIsOwn
  BY DEF SessionInv
<1>4. QED
  BY <1>1, <1>2, <1>3, PTL DEF Session!Spec

\* In the system PlatformMC composes, a profile form is saved to its own account.
COROLLARY FormIsOwnHolds == PlatformSpec => []FormIsOwn
<1>1. PlatformInit /\ focus = "session" => Session!Init
  BY DEF PlatformInit
<1>2. (focus # "session" => FormIsOwn) /\ (Session!FormIsOwn => FormIsOwn)
  BY DEF FormIsOwn
<1>3. focus # "session" /\ [PlatformNext]_platformVars => (focus # "session")'
  BY PlatformStep
<1>4. focus = "session" /\ [PlatformNext]_platformVars
          => (focus = "session")' /\ [Session!Next]_(Session!vars)
  BY PlatformStep
<1>5. focus = "session" \/ focus # "session"
  OBVIOUS
<1>6. QED
  BY <1>1, <1>2, <1>3, <1>4, <1>5, SessionFormIsOwn, PTL DEF PlatformSpec, Session!Spec

=============================================================================
