-------------------------- MODULE SystemHealthProofs --------------------------
(***************************************************************************)
(* A theorem about SystemHealth: what an administrator has said of a       *)
(* system that is not checked automatically stays.                         *)
(***************************************************************************)
EXTENDS SystemHealth, TLAPS

\* Rows and manual checks have their types.
HealthTyped ==
    /\ systems \in [System -> Row \cup {None}]
    /\ checks \in [Manual -> {Idle, Done} \cup [at : {"probing"}, of : System]]

\* A check under way is of a system that is checked automatically, unless the
\* system was edited since the check read it.
ProbedIsAutomatic ==
    \A s \in System \ crossed : Exists(s) /\ Probing(s) => systems[s].automatic

HealthInv == HealthTyped /\ ProbedIsAutomatic

\* The answer of a check changes the status of its system and nothing else of the rows.
LEMMA ResultIsStatus ==
    ASSUME HealthTyped, NEW s, Exists(s), WriteResult(s)
    PROVE  /\ systems' \in [System -> Row \cup {None}]
           /\ crossed' = crossed
           /\ \A t \in System : systems'[t].automatic = systems[t].automatic
           /\ \A t \in System \ {s} : systems'[t] = systems[t]
<1>1. systems' = [systems EXCEPT ![s] = [systems[s] EXCEPT !.status = "checked"]] /\ crossed' = crossed
  BY DEF WriteResult
<1>2. ASSUME s \in System
      PROVE  /\ systems[s] \in Row
             /\ [systems[s] EXCEPT !.status = "checked"] \in Row
             /\ [systems[s] EXCEPT !.status = "checked"].automatic = systems[s].automatic
  BY <1>2 DEF HealthTyped, Exists, Row
<1>3. CASE s \in System
  BY <1>1, <1>2, <1>3 DEF HealthTyped, Exists
<1>4. CASE s \notin System
  BY <1>1, <1>4 DEF HealthTyped, Exists
<1>5. QED
  BY <1>3, <1>4

\* Every step preserves it, and changes the status set by hand of a system that is
\* not checked automatically only if a check and an edit of the system crossed.
LEMMA HealthInvStep ==
    ASSUME HealthInv, [Next]_vars
    PROVE  /\ HealthInv'
           /\ \A s \in System \ crossed :
                  Exists(s) /\ ~systems[s].automatic /\ systems'[s] # None
                  /\ systems[s].status = "set by hand" => systems'[s].status = "set by hand"
<1> DEFINE Kept == \A s \in System \ crossed :
                       Exists(s) /\ ~systems[s].automatic /\ systems'[s] # None
                       /\ systems[s].status = "set by hand" => systems'[s].status = "set by hand"
<1>1. ASSUME NEW s \in System, NEW a \in BOOLEAN, NEW b \in BOOLEAN, CreateSystem(s, a, b)
      PROVE  HealthInv' /\ Kept
  <2>1. HealthTyped'
    BY <1>1 DEF HealthInv, HealthTyped, CreateSystem, Row
  <2>2. \A t \in System : Probing(t)' <=> Probing(t)
    BY <1>1 DEF CreateSystem, Probing
  <2>3. \A t \in System \ {s} : systems'[t] = systems[t]
    BY <1>1 DEF HealthInv, HealthTyped, CreateSystem
  <2>4. ~Probing(s) /\ ~Exists(s) /\ crossed' = crossed \ {s}
    BY <1>1 DEF CreateSystem
  <2>5. QED
    BY <2>1, <2>2, <2>3, <2>4 DEF HealthInv, ProbedIsAutomatic, Exists
<1>2. ASSUME NEW s \in System, NEW a \in BOOLEAN, NEW b \in BOOLEAN, NEW st \in {"set by hand", "checked"},
             UpdateSystem(s, a, b, st)
      PROVE  HealthInv' /\ Kept
  <2>1. HealthTyped'
    BY <1>2 DEF HealthInv, HealthTyped, UpdateSystem, Row
  <2>2. \A t \in System : Probing(t)' <=> Probing(t)
    BY <1>2 DEF UpdateSystem, Probing
  <2>3. (\A t \in System \ {s} : systems'[t] = systems[t])
        /\ systems'[s].status \in {systems[s].status, "set by hand"}
    BY <1>2 DEF HealthInv, HealthTyped, UpdateSystem
  <2>4. crossed' = IF Probing(s) THEN crossed \cup {s} ELSE crossed
    BY <1>2 DEF UpdateSystem
  <2>5. QED
    BY <2>1, <2>2, <2>3, <2>4 DEF HealthInv, ProbedIsAutomatic, Exists
<1>3. ASSUME NEW s \in System, RemoveSystem(s)
      PROVE  HealthInv' /\ Kept
  <2>1. HealthTyped'
    BY <1>3 DEF HealthInv, HealthTyped, RemoveSystem
  <2>2. \A t \in System : Probing(t)' <=> Probing(t)
    BY <1>3 DEF RemoveSystem, Probing
  <2>3. (\A t \in System \ {s} : systems'[t] = systems[t]) /\ systems'[s] = None /\ crossed' = crossed
    BY <1>3 DEF HealthInv, HealthTyped, RemoveSystem
  <2>4. QED
    BY <2>1, <2>2, <2>3 DEF HealthInv, ProbedIsAutomatic, Exists
<1>4. ASSUME NEW c \in Manual, NEW s \in System, BeginCheck(c, s)
      PROVE  HealthInv' /\ Kept
  <2>1. HealthTyped'
    BY <1>4 DEF HealthInv, HealthTyped, BeginCheck, NothingWritten
  <2>2. \A t \in System : Probing(t)' => Probing(t) \/ (t = s /\ systems[s].automatic)
    BY <1>4 DEF HealthInv, HealthTyped, BeginCheck, Probing, Done
  <2>3. systems' = systems /\ crossed' = crossed
    BY <1>4 DEF BeginCheck, NothingWritten
  <2>4. QED
    BY <2>1, <2>2, <2>3 DEF HealthInv, ProbedIsAutomatic, Exists
\* A check ends: its system was probed, and no system is probed that was not.
<1>5. ASSUME NEW s, Exists(s) => s \notin System \/ Probing(s),
             (Exists(s) /\ WriteResult(s)) \/ NothingWritten,
             \A t \in System : Probing(t)' => Probing(t),
             checks' \in [Manual -> {Idle, Done} \cup [at : {"probing"}, of : System]]
      PROVE  HealthInv' /\ Kept
  <2>1. CASE Exists(s) /\ WriteResult(s)
    <3>1. /\ systems' \in [System -> Row \cup {None}] /\ crossed' = crossed
          /\ \A t \in System : systems'[t].automatic = systems[t].automatic
          /\ \A t \in System \ {s} : systems'[t] = systems[t]
      BY <2>1, ResultIsStatus DEF HealthInv
    <3>2. HealthTyped'
      BY <3>1, <1>5 DEF HealthTyped
    <3>3. QED
      BY <2>1, <3>1, <3>2, <1>5 DEF HealthInv, ProbedIsAutomatic, Exists
  <2>2. CASE NothingWritten
    <3>1. systems' = systems /\ crossed' = crossed
      BY <2>2 DEF NothingWritten
    <3>2. QED
      BY <3>1, <1>5 DEF HealthInv, HealthTyped, ProbedIsAutomatic, Exists
  <2>3. QED
    BY <2>1, <2>2, <1>5
<1>6. ASSUME NEW c \in Manual, EndCheck(c)
      PROVE  HealthInv' /\ Kept
  <2>1. Probing(checks[c].of)
    BY <1>6 DEF EndCheck, Probing
  <2>2. checks' \in [Manual -> {Idle, Done} \cup [at : {"probing"}, of : System]]
    BY <1>6 DEF HealthInv, HealthTyped, EndCheck
  <2>3. \A t \in System : Probing(t)' => Probing(t)
    BY <1>6 DEF HealthInv, HealthTyped, EndCheck, Probing, Done
  <2>4. (Exists(checks[c].of) /\ WriteResult(checks[c].of)) \/ NothingWritten
    BY <1>6 DEF EndCheck
  <2>5. QED
    BY <1>5, <2>1, <2>2, <2>3, <2>4
<1>7. CASE Tick
  <2>1. \A t \in System : Probing(t)' => Probing(t)
    BY <1>7 DEF Tick, Probing
  <2>2. systems' = systems /\ crossed' = crossed /\ checks' = checks
    BY <1>7 DEF Tick, NothingWritten
  <2>3. QED
    BY <2>1, <2>2 DEF HealthInv, HealthTyped, ProbedIsAutomatic, Exists
<1>8. CASE Visit
  <2>1. \A t \in System : Probing(t)' => Probing(t) \/ systems[t].automatic
    BY <1>8 DEF Visit, Probing, Continue, Finish
  <2>2. systems' = systems /\ crossed' = crossed /\ checks' = checks
    BY <1>8 DEF Visit, NothingWritten
  <2>3. QED
    BY <2>1, <2>2 DEF HealthInv, HealthTyped, ProbedIsAutomatic, Exists
<1>9. CASE Answer
  <2>1. Probing(Head(pass.batch)) /\ checks' = checks
    BY <1>9 DEF Answer, Probing
  <2>2. \A t \in System : Probing(t)' => Probing(t)
    BY <1>9 DEF Answer, Probing, Continue, Finish
  <2>3. (Exists(Head(pass.batch)) /\ WriteResult(Head(pass.batch))) \/ NothingWritten
    BY <1>9 DEF Answer
  <2>4. QED
    BY <1>5, <2>1, <2>2, <2>3 DEF HealthInv, HealthTyped
<1>10. CASE Crash
  <2>1. checks' \in [Manual -> {Idle, Done} \cup [at : {"probing"}, of : System]]
    BY <1>10 DEF Crash
  <2>2. \A t \in System : ~Probing(t)'
    BY <1>10 DEF Crash, Finish, Probing, Idle, Done
  <2>3. systems' = systems /\ crossed' = crossed
    BY <1>10 DEF Crash
  <2>4. QED
    BY <2>1, <2>2, <2>3 DEF HealthInv, HealthTyped, ProbedIsAutomatic, Exists
<1>11. CASE TimePasses \/ UNCHANGED vars
  <2>1. systems' = systems /\ crossed' = crossed /\ checks' = checks /\ pass' = pass
    BY <1>11 DEF TimePasses, vars
  <2>2. QED
    BY <2>1 DEF HealthInv, HealthTyped, ProbedIsAutomatic, Exists, Probing
<1>12. QED
  BY <1>1, <1>2, <1>3, <1>4, <1>6, <1>7, <1>8, <1>9, <1>10, <1>11 DEF Next

\* The status an administrator gives to a system that is not checked automatically
\* stays, whatever checks and passes are under way, abandoned or lost with the process.
THEOREM ManualStatusHolds == Spec => ManualStatusStays
<1>1. Init => HealthInv
  BY DEF Init, HealthInv, HealthTyped, ProbedIsAutomatic, Exists
<1>2. HealthInv /\ [Next]_vars => HealthInv'
  BY HealthInvStep
<1>3. HealthInv /\ [Next]_vars =>
        [\A s \in System \ crossed :
            Exists(s) /\ ~systems[s].automatic /\ systems'[s] # None /\ systems[s].status = "set by hand" =>
                systems'[s].status = "set by hand"]_vars
  BY HealthInvStep
<1>4. QED
  BY <1>1, <1>2, <1>3, PTL DEF Spec, ManualStatusStays

=============================================================================
