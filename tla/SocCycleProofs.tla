--------------------------- MODULE SocCycleProofs ---------------------------
(***************************************************************************)
(* Proofs about SocCycle, for every number of processes, requests, IPs,    *)
(* incidents and failures.                                                 *)
(***************************************************************************)
EXTENDS SocCycle, FiniteSetTheorems, TLAPS

LEMMA ConstantTypes ==
  /\ SomeIP \in IPs
  /\ Never \in Times /\ Never < 0
  /\ 0 \in Times /\ 0 \in 0 .. MaxTime /\ 1 \in Severities
  /\ 0 .. MaxTime \subseteq Times
BY BoundsAssumption DEF SomeIP, Never, Times, Severities

\* Between a check of a stage and its commit, one incident is in hand.
InHandOK ==
  \A p \in Procs :
    pc[p] \in {"chat", "send", "mark", "ban", "record"} => found[p] \in Ids

LEMMA InHandStep == TypeOK /\ InHandOK /\ [Next]_vars => InHandOK'
<1> SUFFICES ASSUME TypeOK, InHandOK, [Next]_vars PROVE InHandOK'
  OBVIOUS
<1>1. CASE Tick \/ People \/ UNCHANGED vars
  <2>1. UNCHANGED <<pc, found>>
    BY <1>1 DEF Tick, People, SetEstado, ManualBegin, ManualStore, ManualGivesUp,
                AdminLogin, cycle, vars
  <2> QED BY <2>1 DEF InHandOK
<1>2. ASSUME NEW p \in Procs,
             \/ \E attackers \in SUBSET IPs : BeginCycle(p, attackers)
             \/ DetectDone(p) \/ AnalysisDone(p) \/ EndCycle(p)
             \/ AlertsDone(p) \/ LoginsUnread(p)
      PROVE  InHandOK'
  <2>1. /\ pc' \in {[pc EXCEPT ![p] = s] : s \in {"detect", "analyze", "alert", "idle", "soar"}}
        /\ found' = found
    BY <1>2 DEF BeginCycle, DetectDone, AnalysisDone, EndCycle, AlertsDone, LoginsUnread, GoTo
  <2> QED BY <2>1 DEF InHandOK, TypeOK
<1>6. ASSUME NEW p \in Procs, NEW i \in Ids, CheckFails(p, i) PROVE InHandOK'
  BY <1>6 DEF CheckFails, InHandOK
<1>3. ASSUME NEW p \in Procs, NEW i \in Ids,
             Analyze(p, i) \/ AlertCheck(p, i) \/ SoarCheck(p, i)
      PROVE  InHandOK'
  <2>1. \/ /\ pc' \in {[pc EXCEPT ![p] = s] : s \in {"chat", "send", "ban"}}
           /\ found' = [found EXCEPT ![p] = i]
        \/ UNCHANGED <<pc, found>>
    BY <1>3 DEF Analyze, AlertCheck, SoarCheck, GoTo
  <2> QED BY <2>1 DEF InHandOK, TypeOK
<1>4. ASSUME NEW p \in Procs, AlertLeaves(p) \/ Ban(p) PROVE InHandOK'
  <2>1. /\ pc[p] \in {"send", "ban"}
        /\ pc' \in {[pc EXCEPT ![p] = s] : s \in {"mark", "record"}}
        /\ found' = found
    BY <1>4 DEF AlertLeaves, Ban, GoTo
  <2> QED BY <2>1 DEF InHandOK, TypeOK
<1>5. ASSUME NEW p \in Procs,
             \/ \E ip \in IPs : Dedupe(p, ip)
             \/ \E level \in Severities : Update(p, level) \/ Create(p, level)
             \/ ChatDone(p) \/ AlertFails(p) \/ MarkAlerted(p) \/ BanFails(p)
             \/ RecordBlock(p) \/ CommitFails(p) \/ SoarDone(p) \/ CycleFails(p)
             \/ SoarUnavailable(p) \/ Crash(p)
      PROVE  InHandOK'
  <2>1. pc' \in {[pc EXCEPT ![p] = s] : s \in {"write", "detect", "analyze",
                   "alert", "soar", "unlock", "idle"}}
    <3>1. CASE \/ \E ip \in IPs : Dedupe(p, ip)
               \/ \E level \in Severities : Update(p, level) \/ Create(p, level)
               \/ ChatDone(p) \/ AlertFails(p) \/ MarkAlerted(p)
      BY <3>1 DEF Dedupe, Update, Create, ChatDone, AlertFails, MarkAlerted, GoTo
    <3>2. CASE \/ BanFails(p) \/ RecordBlock(p) \/ CommitFails(p) \/ SoarDone(p) \/ CycleFails(p)
               \/ SoarUnavailable(p) \/ Crash(p)
      BY <3>2 DEF BanFails, RecordBlock, CommitFails, SoarDone, CycleFails, SoarUnavailable, Crash, GoTo
    <3> QED BY <1>5, <3>1, <3>2
  <2>2. \A q \in Procs \ {p} : found'[q] = found[q]
    <3>1. found' = found \/ \E x \in Ids \cup {0} : found' = [found EXCEPT ![p] = x]
      <4>1. CASE \E ip \in IPs : Dedupe(p, ip)
        <5>1. PICK ip \in IPs : Dedupe(p, ip)
          BY <4>1
        <5>2. Recent(ip, now[p]) \subseteq Ids
          BY DEF Recent, TypeOK
        <5>3. \E f \in Recent(ip, now[p]) \cup {0} : found' = [found EXCEPT ![p] = f]
          BY <5>1, Zenon DEF Dedupe
        <5> QED BY <5>2, <5>3
      <4>3. CASE \/ \E level \in Severities : Update(p, level) \/ Create(p, level)
                 \/ ChatDone(p) \/ AlertFails(p) \/ MarkAlerted(p)
        BY <4>3 DEF Update, Create, ChatDone, AlertFails, MarkAlerted
      <4>2. CASE \/ BanFails(p) \/ RecordBlock(p) \/ CommitFails(p) \/ SoarDone(p) \/ CycleFails(p)
                 \/ SoarUnavailable(p) \/ Crash(p)
        BY <4>2 DEF BanFails, RecordBlock, CommitFails, SoarDone, CycleFails, SoarUnavailable, Crash, DropLocals
      <4> QED BY <1>5, <4>1, <4>2, <4>3
    <3> QED BY <3>1 DEF TypeOK
  <2>3. pc'[p] \notin {"chat", "send", "mark", "ban", "record"} /\ \A q \in Procs \ {p} : pc'[q] = pc[q]
    BY <2>1 DEF TypeOK
  <2> QED BY <2>2, <2>3 DEF InHandOK
<1> QED BY <1>1, <1>2, <1>3, <1>4, <1>5, <1>6 DEF Next, Step, Trouble

\* A stage picks an incident for its call, or passes it over.
LEMMA PickTyped ==
  ASSUME TypeOK, NEW p \in Procs, NEW i \in Ids, NEW s \in {"chat", "send", "ban"},
         \/ found' = [found EXCEPT ![p] = i] /\ pc' = [pc EXCEPT ![p] = s]
         \/ UNCHANGED <<pc, found>>
  PROVE  pc' \in [Procs -> Steps] /\ found' \in [Procs -> Ids \cup {0}]
<1>1. pc \in [Procs -> Steps] /\ found \in [Procs -> Ids \cup {0}] /\ s \in Steps
  BY DEF TypeOK, Steps
<1> QED BY <1>1

\* Every action of the model keeps the variables in their types.
LEMMA TypeStep == TypeOK /\ InHandOK /\ [Next]_vars => TypeOK'
<1> SUFFICES ASSUME TypeOK, InHandOK, [Next]_vars PROVE TypeOK'
  OBVIOUS
<1> USE ConstantTypes, NoProcAssumption, BoundsAssumption
    DEF TypeOK, table, cycle, history, bounds, GoTo, DropLocals, Release,
        Take, Steps
<1>0. \A p \in Procs : Undecided(p) \subseteq Ids
  BY DEF Undecided, InHandOK
<1>1. CASE Tick
  <2>1. clock' \in 0 .. MaxTime
    BY <1>1 DEF Tick
  <2> QED BY <1>1, <2>1 DEF Tick
<1>2. ASSUME NEW i \in Ids, NEW nuevo \in BOOLEAN, SetEstado(i, nuevo) PROVE TypeOK'
  <2>1. open' \in SUBSET Ids
    BY <1>2, Zenon DEF SetEstado
  <2> QED BY <1>2, <2>1 DEF SetEstado
<1>3. ASSUME NEW r \in Requests, NEW i \in Ids, NEW worse \in BOOLEAN,
             ManualBegin(r, i, worse)
      PROVE  TypeOK'
  <2> DEFINE level == IF worse THEN BumpSeverity(sev[i]) ELSE sev[i]
  <2>1. BumpSeverity(sev[i]) \in Severities /\ sev[i] \in Severities
    BY DEF BumpSeverity, Severities
  <2>2. level \in Severities
    <3>1. CASE worse
      BY <2>1, <3>1
    <3>2. CASE ~worse
      BY <2>1, <3>2
    <3> QED BY <3>1, <3>2
  <2>3. sev' \in [Ids -> Severities] /\ raised' \in SUBSET Ids
    <3> HIDE DEF level
    <3>1. SetSeverity(i, level)
      BY <1>3 DEF ManualBegin, level
    <3> QED BY <2>2, <3>1 DEF SetSeverity
  <2>4. /\ manual' = [manual EXCEPT ![r] = IF Unanalysed(i) THEN i ELSE 0]
        /\ manuals' = manuals + 1
        /\ UNCHANGED <<clock, lock, count, ipOf, open, windowEnd, alertedAt,
                       blockedAt, analyses, audit, cycle, touched, delivered,
                       sentAt, bannedAt, spam, reban, dropped, fails, crashes,
                       reviews, logins, quota>>
    BY <1>3 DEF ManualBegin
  <2> QED BY <2>3, <2>4
<1>4. ASSUME NEW r \in Requests, ManualStore(r) PROVE TypeOK'
  <2>1. analyses' \in [Ids -> Nat]
    BY <1>4 DEF ManualStore
  <2> QED BY <1>4, <2>1 DEF ManualStore
<1>5. ASSUME NEW r \in Requests, ManualGivesUp(r) PROVE TypeOK'
  BY <1>5 DEF ManualGivesUp
<1>6. ASSUME NEW ip \in IPs, NEW action \in {"auth.login", "auth.mfa_ok"},
             AdminLogin(ip, action)
      PROVE  TypeOK'
  <2>1. audit' \in SUBSET Logins
    BY <1>6 DEF AdminLogin, Logins
  <2> QED BY <1>6, <2>1 DEF AdminLogin
<1>7. ASSUME NEW p \in Procs, NEW attackers \in SUBSET IPs, BeginCycle(p, attackers)
      PROVE  TypeOK'
  BY <1>7 DEF BeginCycle, Acquire
<1>8. ASSUME NEW p \in Procs, NEW ip \in IPs, Dedupe(p, ip) PROVE TypeOK'
  <2>1. PICK f \in Recent(ip, now[p]) \cup {0} : found' = [found EXCEPT ![p] = f]
    BY <1>8 DEF Dedupe
  <2>2. f \in Ids \cup {0}
    BY DEF Recent
  <2> QED BY <1>8, <2>1, <2>2 DEF Dedupe
<1>9. ASSUME NEW p \in Procs, NEW level \in Severities, Update(p, level)
      PROVE  TypeOK'
  <2> DEFINE i == found[p]
  <2>1. i \in Ids
    BY <1>9 DEF Update
  <2>2. sev' \in [Ids -> Severities] /\ raised' \in SUBSET Ids
    BY <1>9, <2>1 DEF Update, SetSeverity
  <2> QED BY <1>9, <2>1, <2>2 DEF Update
<1>10. ASSUME NEW p \in Procs, NEW level \in Severities, Create(p, level)
       PROVE  TypeOK'
  <2>1. count + 1 \in Ids /\ count' \in 0 .. MaxInc
    BY <1>10 DEF Create, Ids
  <2> QED BY <1>10, <2>1 DEF Create
<1>11. ASSUME NEW p \in Procs, DetectDone(p) PROVE TypeOK'
  <2>1. PICK some \in SUBSET created[p] : work' = [work EXCEPT ![p] = some]
    BY <1>11 DEF DetectDone
  <2> QED BY <1>11, <2>1 DEF DetectDone
<1>12. ASSUME NEW p \in Procs, NEW i \in Ids, Analyze(p, i) PROVE TypeOK'
  <2>1. pc' \in [Procs -> Steps] /\ found' \in [Procs -> Ids \cup {0}]
    <3>1. \/ found' = [found EXCEPT ![p] = i] /\ pc' = [pc EXCEPT ![p] = "chat"]
          \/ UNCHANGED <<pc, found>>
      BY <1>12 DEF Analyze
    <3> QED BY <3>1, PickTyped
  <2>2. work' \in [Procs -> SUBSET Ids]
    BY <1>12 DEF Analyze
  <2>3. UNCHANGED <<clock, lock, table, audit, now, todo, cand, created, adminIps, blind, manual, history, bounds>>
    BY <1>12 DEF Analyze
  <2> QED BY <2>1, <2>2, <2>3
<1>13. ASSUME NEW p \in Procs, ChatDone(p) PROVE TypeOK'
  <2>1. analyses' \in [Ids -> Nat]
    BY <1>13 DEF ChatDone
  <2> QED BY <1>13, <2>1 DEF ChatDone
<1>14. ASSUME NEW p \in Procs, AnalysisDone(p) PROVE TypeOK'
  BY <1>14 DEF AnalysisDone
<1>15. ASSUME NEW p \in Procs, NEW i \in Ids, AlertCheck(p, i) PROVE TypeOK'
  <2>1. pc' \in [Procs -> Steps] /\ found' \in [Procs -> Ids \cup {0}]
    <3>1. \/ found' = [found EXCEPT ![p] = i] /\ pc' = [pc EXCEPT ![p] = "send"]
          \/ UNCHANGED <<pc, found>>
      BY <1>15 DEF AlertCheck
    <3> QED BY <3>1, PickTyped
  <2>2. work' \in [Procs -> SUBSET Ids]
    BY <1>15 DEF AlertCheck
  <2>3. UNCHANGED <<clock, lock, table, audit, now, todo, cand, created, adminIps, blind, manual, history, bounds>>
    BY <1>15 DEF AlertCheck
  <2> QED BY <2>1, <2>2, <2>3
<1>16. ASSUME NEW p \in Procs, AlertLeaves(p) PROVE TypeOK'
  <2>1. spam' \in BOOLEAN
    BY <1>16, Zenon DEF AlertLeaves
  <2>2. sentAt' \in [IPs -> Times]
    BY <1>16 DEF AlertLeaves
  <2>3. delivered' \in SUBSET Ids
    BY <1>16 DEF AlertLeaves, InHandOK
  <2> QED BY <1>16, <2>1, <2>2, <2>3 DEF AlertLeaves
<1>17. ASSUME NEW p \in Procs, AlertFails(p) PROVE TypeOK'
  BY <1>17 DEF AlertFails
<1>18. ASSUME NEW p \in Procs, MarkAlerted(p) PROVE TypeOK'
  BY <1>18 DEF MarkAlerted
<1>19. ASSUME NEW p \in Procs, AlertsDone(p) PROVE TypeOK'
  <2>1. RecentAdminIPs(clock) \subseteq IPs
    BY DEF RecentAdminIPs, Logins
  <2> QED BY <1>19, <2>1 DEF AlertsDone, ToBlock
<1>20. ASSUME NEW p \in Procs, NEW i \in Ids, SoarCheck(p, i) PROVE TypeOK'
  <2>1. pc' \in [Procs -> Steps] /\ found' \in [Procs -> Ids \cup {0}]
    <3>1. \/ found' = [found EXCEPT ![p] = i] /\ pc' = [pc EXCEPT ![p] = "ban"]
          \/ UNCHANGED <<pc, found>>
      BY <1>20 DEF SoarCheck
    <3> QED BY <3>1, PickTyped
  <2>2. work' \in [Procs -> SUBSET Ids]
    BY <1>20 DEF SoarCheck
  <2>3. UNCHANGED <<clock, lock, table, audit, now, todo, cand, created, adminIps, blind, manual, history, bounds>>
    BY <1>20 DEF SoarCheck
  <2> QED BY <2>1, <2>2, <2>3
<1>21. ASSUME NEW p \in Procs, Ban(p) PROVE TypeOK'
  <2>1. reban' \in BOOLEAN
    BY <1>21, Zenon DEF Ban
  <2>2. bannedAt' \in [IPs -> Times]
    BY <1>21 DEF Ban
  <2> QED BY <1>21, <2>1, <2>2 DEF Ban
<1>22. ASSUME NEW p \in Procs, BanFails(p) PROVE TypeOK'
  <2>1. dropped' \in SUBSET Ids
    BY <1>22 DEF BanFails, Drop, InHandOK
  <2> QED BY <1>22, <2>1 DEF BanFails, Drop
<1>23. ASSUME NEW p \in Procs, RecordBlock(p) PROVE TypeOK'
  BY <1>23 DEF RecordBlock
<1>24. ASSUME NEW p \in Procs, CommitFails(p) PROVE TypeOK'
  BY <1>24 DEF CommitFails
<1>25. ASSUME NEW p \in Procs, SoarDone(p) PROVE TypeOK'
  BY <1>25 DEF SoarDone
<1>26. ASSUME NEW p \in Procs, CycleFails(p) PROVE TypeOK'
  <2>1. Undecided(p) \subseteq Ids
    BY <1>0
  <2> QED BY <1>26, <2>1 DEF CycleFails, Drop
<1>27. ASSUME NEW p \in Procs, SoarUnavailable(p) PROVE TypeOK'
  <2>1. Undecided(p) \subseteq Ids
    BY <1>0
  <2> QED BY <1>27, <2>1 DEF SoarUnavailable, Drop
<1>28. ASSUME NEW p \in Procs, EndCycle(p) PROVE TypeOK'
  BY <1>28 DEF EndCycle
<1>29. ASSUME NEW p \in Procs, Crash(p) PROVE TypeOK'
  <2>1. Undecided(p) \subseteq Ids
    BY <1>0
  <2> QED BY <1>29, <2>1 DEF Crash, Drop
<1>34. ASSUME NEW p \in Procs, NEW i \in Ids, CheckFails(p, i) PROVE TypeOK'
  <2>1. dropped' \in SUBSET Ids
    BY <1>34 DEF CheckFails, Drop
  <2>2. UNCHANGED <<touched, delivered, sentAt, bannedAt, spam, reban, raised>>
    BY <1>34 DEF CheckFails, Drop
  <2> QED BY <1>34, <2>1, <2>2 DEF CheckFails
<1>35. ASSUME NEW p \in Procs, LoginsUnread(p) PROVE TypeOK'
  BY <1>35 DEF LoginsUnread, ToBlock
<1>30. CASE UNCHANGED vars
  BY <1>30 DEF vars
<1> HIDE ConstantTypes, NoProcAssumption, BoundsAssumption
    DEF TypeOK, table, cycle, history, bounds, GoTo, DropLocals, Release,
        Take, Steps
<1>31. CASE People
  BY <1>2, <1>3, <1>4, <1>5, <1>6, <1>31 DEF People
<1>32. ASSUME NEW p \in Procs, Step(p) PROVE TypeOK'
  BY <1>8, <1>9, <1>10, <1>11, <1>12, <1>13, <1>14, <1>15, <1>16, <1>17, <1>18,
     <1>19, <1>20, <1>21, <1>23, <1>25, <1>28, <1>32 DEF Step
<1>33. ASSUME NEW p \in Procs, Trouble(p) PROVE TypeOK'
  BY <1>22, <1>24, <1>26, <1>27, <1>29, <1>33, <1>34, <1>35 DEF Trouble
<1> QED
  BY <1>1, <1>7, <1>30, <1>31, <1>32, <1>33 DEF Next

LEMMA SocInitTypes == Init => TypeOK /\ InHandOK
<1> SUFFICES ASSUME Init PROVE TypeOK /\ InHandOK
  OBVIOUS
<1>1. /\ clock \in 0 .. MaxTime /\ lock \in Procs \cup {NoProc}
      /\ count \in 0 .. MaxInc /\ open \in SUBSET Ids
      /\ fails \in Nat /\ crashes \in Nat /\ reviews \in Nat
      /\ manuals \in Nat /\ logins \in Nat
      /\ touched \in SUBSET Ids /\ delivered \in SUBSET Ids
      /\ raised \in SUBSET Ids /\ dropped \in SUBSET Ids /\ blind \in SUBSET Procs
      /\ audit \in SUBSET Logins /\ quota \in Quotas
  BY BoundsAssumption DEF Init
<1>5. spam \in BOOLEAN /\ reban \in BOOLEAN
  BY Zenon DEF Init
<1>2. /\ ipOf \in [Ids -> IPs] /\ sev \in [Ids -> Severities]
      /\ windowEnd \in [Ids -> Times] /\ alertedAt \in [Ids -> Times]
      /\ blockedAt \in [Ids -> Times] /\ analyses \in [Ids -> Nat]
      /\ sentAt \in [IPs -> Times] /\ bannedAt \in [IPs -> Times]
  <2>1. ipOf \in [Ids -> IPs] /\ sev \in [Ids -> Severities]
    BY ConstantTypes DEF Init
  <2>2. windowEnd \in [Ids -> Times] /\ alertedAt \in [Ids -> Times]
        /\ blockedAt \in [Ids -> Times] /\ analyses \in [Ids -> Nat]
    BY ConstantTypes DEF Init
  <2>3. /\ sentAt \in [IPs -> Times] /\ bannedAt \in [IPs -> Times]
    BY ConstantTypes DEF Init
  <2> QED BY <2>1, <2>2, <2>3
<1>3. /\ pc \in [Procs -> Steps] /\ now \in [Procs -> 0 .. MaxTime]
      /\ todo \in [Procs -> SUBSET IPs] /\ cand \in [Procs -> IPs]
      /\ found \in [Procs -> Ids \cup {0}]
      /\ created \in [Procs -> SUBSET Ids] /\ work \in [Procs -> SUBSET Ids]
      /\ adminIps \in [Procs -> SUBSET IPs]
      /\ manual \in [Requests -> Ids \cup {0}]
  BY ConstantTypes DEF Init, Steps
<1>4. InHandOK
  BY DEF Init, InHandOK
<1> QED BY <1>1, <1>2, <1>3, <1>4, <1>5 DEF TypeOK

\* The rows, locals and histories of services.py, alerts.py and soar.py keep
\* their types.
THEOREM SocTypeCorrect == Spec => []TypeOK
<1> QED BY SocInitTypes, TypeStep, InHandStep, PTL DEF Spec
-----------------------------------------------------------------------------
(* No duplicate incident, under the advisory lock.                         *)

Working == Steps \ {"idle", "unlock"}

\* Only the holder of the lock is anywhere but at rest.
OnlyHolder == \A p \in Procs : pc[p] # "idle" => lock = p

\* Rows are numbered from 1, and no window ends after the cycle at work began,
\* whose start is not in the future.
InOrder ==
  /\ open \subseteq 1 .. count
  /\ \A i \in Ids : windowEnd[i] <= clock
  /\ \A p \in Procs :
       /\ now[p] <= clock
       /\ pc[p] \in Working => \A i \in Ids : windowEnd[i] <= now[p]

\* What the dedupe query established still holds when its answer is used: every
\* other untouched incident of the IP lies beyond the lookback, unless the
\* incident that was found has been touched by an operator meanwhile.
Deduped(p) ==
  pc[p] = "write" =>
    /\ found[p] # 0 => found[p] \in 1 .. count /\ ipOf[found[p]] = cand[p]
    /\ \A i \in open \ touched :
         (ipOf[i] = cand[p] /\ i # found[p])
           => \/ found[p] # 0 /\ found[p] \in touched
              \/ now[p] > windowEnd[i] + Lookback

DedupeInv ==
  /\ OnlyHolder
  /\ InOrder
  /\ \A p \in Procs : Deduped(p)
  /\ OneOpenIncident

\* Windows and clocks are numbers.
LEMMA TimeTypes == TypeOK => /\ clock \in Int
                             /\ \A i \in Ids : windowEnd[i] \in Int
                             /\ \A p \in Procs : now[p] \in Int
BY BoundsAssumption DEF TypeOK, Times, Never

LEMMA BasicTypes == TypeOK => /\ clock \in Nat /\ count \in Nat
                              /\ now \in [Procs -> Nat] /\ pc \in [Procs -> Steps]
BY BoundsAssumption DEF TypeOK

\* The rows of the table do not change, operators only touch more of them, and
\* no process comes to the write step: the invariant is kept.
LEMMA DedupeKept ==
  ASSUME TypeOK, TypeOK', DedupeInv, count' = count, ipOf' = ipOf,
         windowEnd' = windowEnd, clock' >= clock,
         open' \subseteq 1 .. count, touched \subseteq touched',
         open' \ touched' \subseteq open \ touched,
         OnlyHolder',
         \A p \in Procs : now'[p] <= clock',
         \A p \in Procs : pc'[p] \in Working => pc[p] \in Working /\ now'[p] >= now[p],
         \A p \in Procs : pc'[p] = "write" =>
           pc[p] = "write" /\ found'[p] = found[p] /\ cand'[p] = cand[p]
                          /\ now'[p] = now[p]
  PROVE  DedupeInv'
<1> USE TimeTypes
<1>0. clock' \in Int /\ \A p \in Procs : now'[p] \in Int
  BY BoundsAssumption DEF TypeOK
<1>1. InOrder'
  <2>1. \A i \in Ids : windowEnd'[i] <= clock'
    BY <1>0 DEF DedupeInv, InOrder
  <2>2. \A p \in Procs : pc'[p] \in Working => \A i \in Ids : windowEnd'[i] <= now'[p]
    BY <1>0 DEF DedupeInv, InOrder
  <2> QED BY <2>1, <2>2 DEF InOrder
<1>2. ASSUME NEW p \in Procs PROVE Deduped(p)'
  BY <1>2 DEF DedupeInv, Deduped
<1>3. OneOpenIncident'
  BY DEF DedupeInv, OneOpenIncident
<1> QED BY <1>1, <1>2, <1>3 DEF DedupeInv

\* Nobody else is in a cycle while p is.
LEMMA Alone ==
  ASSUME OnlyHolder, NEW p \in Procs, pc[p] # "idle", NEW q \in Procs, q # p
  PROVE  pc[q] = "idle"
BY DEF OnlyHolder

LEMMA DedupeStep ==
  ASSUME Dialect = "postgresql", TypeOK, TypeOK', DedupeInv, [Next]_vars
  PROVE  DedupeInv'
<1> USE TimeTypes, NoProcAssumption, BoundsAssumption
<1>1. CASE Tick
  <2>1. /\ clock' = clock + 1
        /\ UNCHANGED <<lock, table, cycle, touched>>
    BY <1>1 DEF Tick, history
  <2>2. OnlyHolder'
    BY <2>1 DEF DedupeInv, OnlyHolder, cycle
  <2> QED BY <2>1, <2>2, DedupeKept DEF DedupeInv, InOrder, table, cycle
<1>2. ASSUME NEW i \in Ids, NEW nuevo \in BOOLEAN, SetEstado(i, nuevo)
      PROVE  DedupeInv'
  <2>1. /\ touched' = touched \cup {i} /\ i <= count
        /\ open' \subseteq open \cup {i}
        /\ UNCHANGED <<clock, lock, count, ipOf, windowEnd, cycle>>
    BY <1>2, Zenon DEF SetEstado
  <2>2. OnlyHolder'
    BY <2>1 DEF DedupeInv, OnlyHolder, cycle
  <2>3. open' \subseteq 1 .. count
    <3>1. i \in 1 .. count
      <4>1. i \in Int /\ i >= 1 /\ i <= count /\ count \in Int
        BY <2>1, BasicTypes DEF Ids
      <4> QED BY <4>1
    <3> QED BY <2>1, <3>1 DEF DedupeInv, InOrder
  <2>4. open' \ touched' \subseteq open \ touched /\ touched \subseteq touched'
    BY <2>1
  <2>5. /\ UNCHANGED <<pc, now, found, cand>>
        /\ \A p \in Procs : now[p] <= clock /\ now[p] >= now[p]
    BY <2>1, BasicTypes DEF DedupeInv, InOrder, cycle
  <2>6. clock' >= clock
    BY <2>1, BasicTypes
  <2> QED BY <2>1, <2>2, <2>3, <2>4, <2>5, <2>6, DedupeKept
<1>3. CASE \/ \E r \in Requests : \/ ManualStore(r) \/ ManualGivesUp(r)
                                 \/ \E i \in Ids, worse \in BOOLEAN :
                                      ManualBegin(r, i, worse)
           \/ \E ip \in IPs, action \in {"auth.login", "auth.mfa_ok"} : AdminLogin(ip, action)
           \/ UNCHANGED vars
  <2>1. UNCHANGED <<clock, lock, count, ipOf, open, windowEnd, cycle, touched>>
    BY <1>3 DEF ManualStore, ManualGivesUp, ManualBegin, AdminLogin, vars, table,
                history
  <2>2. OnlyHolder'
    BY <2>1 DEF DedupeInv, OnlyHolder, cycle
  <2> QED BY <2>1, <2>2, DedupeKept DEF DedupeInv, InOrder, cycle
<1>4. ASSUME NEW p \in Procs, NEW attackers \in SUBSET IPs, BeginCycle(p, attackers)
      PROVE  DedupeInv'
  <2>1. /\ lock = NoProc /\ lock' = p
        /\ pc' = [pc EXCEPT ![p] = "detect"] /\ now' = [now EXCEPT ![p] = clock]
        /\ UNCHANGED <<clock, table, found, cand, touched>>
    BY <1>4 DEF BeginCycle, Acquire, GoTo, history
  <2>2. \A q \in Procs : pc[q] = "idle"
    BY <2>1 DEF DedupeInv, OnlyHolder
  <2>3. OnlyHolder'
    BY <2>1, <2>2 DEF OnlyHolder, TypeOK
  <2>4. InOrder'
    BY <2>1, <2>2 DEF DedupeInv, InOrder, TypeOK, table, Working
  <2>5. ASSUME NEW q \in Procs PROVE Deduped(q)'
    BY <2>1, <2>2 DEF Deduped, TypeOK
  <2>6. OneOpenIncident'
    BY <2>1 DEF DedupeInv, OneOpenIncident, table
  <2> QED BY <2>3, <2>4, <2>5, <2>6 DEF DedupeInv
<1>5. ASSUME NEW p \in Procs, NEW ip \in IPs, Dedupe(p, ip) PROVE DedupeInv'
  <2> DEFINE recent == Recent(ip, now[p])
  <2>1. PICK f \in recent \cup {0} :
          /\ f = 0 <=> recent = {}
          /\ \A i \in recent : windowEnd[i] <= windowEnd[f]
          /\ found' = [found EXCEPT ![p] = f]
    BY <1>5 DEF Dedupe
  <2>2. /\ pc[p] = "detect" /\ pc' = [pc EXCEPT ![p] = "write"]
        /\ cand' = [cand EXCEPT ![p] = ip]
        /\ UNCHANGED <<clock, lock, table, now, touched>>
    BY <1>5 DEF Dedupe, GoTo, history
  <2>3. OnlyHolder'
    BY <2>2 DEF DedupeInv, OnlyHolder, TypeOK
  <2>4. InOrder'
    BY <2>2 DEF DedupeInv, InOrder, TypeOK, table, Working, Steps
  <2>5. open \subseteq Ids /\ open \subseteq 1 .. count
    BY DEF TypeOK, DedupeInv, InOrder
  <2>6. f # 0 => f \in 1 .. count /\ ipOf[f] = ip /\ f \in open
    BY <2>1, <2>5 DEF Recent
  <2>7. ASSUME NEW i \in open \ touched, ipOf[i] = ip, i # f
        PROVE  \/ f # 0 /\ f \in touched
               \/ now[p] > windowEnd[i] + Lookback
    <3>1. i \in Ids /\ windowEnd[i] \in Int /\ now[p] \in Int
      BY <2>5
    <3>2. CASE i \notin recent
      BY <2>7, <3>1, <3>2 DEF Recent
    <3>3. CASE i \in recent /\ f \notin touched
      <4>1. f \in open \ touched /\ f \in Ids /\ windowEnd[f] \in Int
        BY <2>1, <2>5, <2>6, <3>3
      <4>2. windowEnd[i] <= windowEnd[f]
        BY <2>1, <3>3
      <4>3. windowEnd[f] - windowEnd[i] > Lookback
        <5>1. f # 0
          BY <4>1 DEF Ids
        <5>2. ipOf[i] = ipOf[f] /\ i # f
          BY <2>6, <2>7, <5>1
        <5> QED BY <2>7, <4>1, <4>2, <5>2 DEF DedupeInv, OneOpenIncident
      <4>4. windowEnd[f] <= now[p]
        BY <2>2, <4>1 DEF DedupeInv, InOrder, Working, Steps
      <4> QED BY <3>1, <4>1, <4>3, <4>4
    <3> QED BY <2>1, <3>2, <3>3
  <2>8. ASSUME NEW q \in Procs PROVE Deduped(q)'
    <3>1. CASE q = p
      BY <2>1, <2>2, <2>6, <2>7, <3>1 DEF Deduped, TypeOK, table
    <3>2. CASE q # p
      <4>1. pc'[q] = "idle"
        BY <2>2, <3>2, Alone DEF DedupeInv, TypeOK
      <4> QED BY <4>1 DEF Deduped
    <3> QED BY <3>1, <3>2
  <2>9. OneOpenIncident'
    BY <2>2 DEF DedupeInv, OneOpenIncident, table
  <2> QED BY <2>3, <2>4, <2>8, <2>9 DEF DedupeInv
<1>6. ASSUME NEW p \in Procs, NEW level \in Severities, Update(p, level)
      PROVE  DedupeInv'
  <2> DEFINE f == found[p]
  <2>1. /\ pc[p] = "write" /\ f # 0 /\ f \in Ids
        /\ pc' = [pc EXCEPT ![p] = "detect"]
        /\ windowEnd' = [windowEnd EXCEPT ![f] = now[p]]
        /\ UNCHANGED <<clock, lock, count, ipOf, open, now, touched>>
    BY <1>6 DEF Update, GoTo, TypeOK
  <2>2. OnlyHolder'
    BY <2>1 DEF DedupeInv, OnlyHolder, TypeOK
  <2>3. \A i \in Ids : windowEnd[i] <= now[p] /\ now[p] <= clock
    BY <2>1 DEF DedupeInv, InOrder, Working, Steps
  <2>4. \A q \in Procs : q # p => pc'[q] = "idle"
    BY <2>1, Alone DEF DedupeInv, TypeOK
  <2>5. InOrder'
    BY <2>1, <2>3, <2>4 DEF DedupeInv, InOrder, TypeOK, Working
  <2>6. ASSUME NEW q \in Procs PROVE Deduped(q)'
    BY <2>1, <2>4 DEF Deduped, TypeOK
  <2>7. ASSUME NEW i \in open \ touched, ipOf[i] = ipOf[f], i # f, f \notin touched
        PROVE  now[p] > windowEnd[i] + Lookback
    BY <2>1, <2>7 DEF DedupeInv, Deduped
  <2>8. OneOpenIncident'
    <3> SUFFICES ASSUME NEW i \in open \ touched, NEW j \in open \ touched,
                        ipOf[i] = ipOf[j], windowEnd'[i] <= windowEnd'[j], i # j
                 PROVE  windowEnd'[j] - windowEnd'[i] > Lookback
      BY <2>1 DEF OneOpenIncident
    <3>1. i \in Ids /\ j \in Ids
      BY DEF TypeOK
    <3>2. CASE i # f /\ j # f
      BY <2>1, <3>1, <3>2 DEF DedupeInv, OneOpenIncident, TypeOK
    <3>3. CASE j = f
      BY <2>1, <2>7, <3>1, <3>3 DEF TypeOK
    <3>4. CASE i = f
      <4>1. now[p] > windowEnd[j] + Lookback
        BY <2>7, <3>4
      <4>2. windowEnd'[i] = now[p] /\ windowEnd'[j] = windowEnd[j]
        BY <2>1, <3>1, <3>4 DEF TypeOK
      <4> QED BY <3>1, <4>1, <4>2
    <3> QED BY <3>2, <3>3, <3>4
  <2> QED BY <2>2, <2>5, <2>6, <2>8 DEF DedupeInv
<1>7. ASSUME NEW p \in Procs, NEW level \in Severities, Create(p, level)
      PROVE  DedupeInv'
  <2> DEFINE n == count + 1
  <2>1. /\ pc[p] = "write" /\ found[p] = 0 /\ count < MaxInc /\ count' = n
        /\ pc' = [pc EXCEPT ![p] = "detect"]
        /\ ipOf' = [ipOf EXCEPT ![n] = cand[p]]
        /\ open' = open \cup {n}
        /\ windowEnd' = [windowEnd EXCEPT ![n] = now[p]]
        /\ UNCHANGED <<clock, lock, now, touched>>
    BY <1>7 DEF Create, GoTo, history
  <2>2. n \in Ids /\ n \notin open /\ open \subseteq Ids
    <3>1. open \subseteq 1 .. count /\ count \in Nat /\ MaxInc \in Nat /\ open \subseteq Ids
      BY BoundsAssumption DEF DedupeInv, InOrder, TypeOK
    <3> QED BY <2>1, <3>1 DEF Ids
  <2>3. OnlyHolder'
    BY <2>1 DEF DedupeInv, OnlyHolder, TypeOK
  <2>4. \A i \in Ids : windowEnd[i] <= now[p] /\ now[p] <= clock
    BY <2>1 DEF DedupeInv, InOrder, Working, Steps
  <2>5. \A q \in Procs : q # p => pc'[q] = "idle"
    BY <2>1, Alone DEF DedupeInv, TypeOK
  <2>6. InOrder'
    <3>1. open' \subseteq 1 .. count'
      <4>1. n \in 1 .. n /\ 1 .. count \subseteq 1 .. n
        BY BasicTypes
      <4> QED BY <2>1, <4>1 DEF DedupeInv, InOrder
    <3> QED BY <2>1, <2>2, <2>4, <2>5, <3>1 DEF DedupeInv, InOrder, TypeOK, Working
  <2>7. ASSUME NEW q \in Procs PROVE Deduped(q)'
    BY <2>1, <2>5 DEF Deduped, TypeOK
  <2>8. ASSUME NEW i \in open \ touched, ipOf[i] = cand[p]
        PROVE  now[p] > windowEnd[i] + Lookback
    <3>1. i # found[p]
      BY <2>1, <2>2 DEF Ids
    <3> QED BY <2>1, <2>8, <3>1 DEF DedupeInv, Deduped
  <2>9. OneOpenIncident'
    <3> SUFFICES ASSUME NEW i \in (open \cup {n}) \ touched,
                        NEW j \in (open \cup {n}) \ touched,
                        ipOf'[i] = ipOf'[j], windowEnd'[i] <= windowEnd'[j], i # j
                 PROVE  windowEnd'[j] - windowEnd'[i] > Lookback
      BY <2>1 DEF OneOpenIncident
    <3>1. i \in Ids /\ j \in Ids
      BY <2>2
    <3>2. CASE i # n /\ j # n
      BY <2>1, <3>1, <3>2 DEF DedupeInv, OneOpenIncident, TypeOK
    <3>3. CASE j = n
      <4>1. ipOf[i] = cand[p] /\ windowEnd'[i] = windowEnd[i] /\ windowEnd'[j] = now[p]
        BY <2>1, <2>2, <3>1, <3>3 DEF TypeOK
      <4>2. i \in open \ touched
        BY <3>3
      <4>3. now[p] > windowEnd[i] + Lookback
        BY <2>8, <4>1, <4>2
      <4>4. now[p] \in Int /\ windowEnd[i] \in Int /\ Lookback \in Nat
        BY <3>1
      <4> QED BY ONLY <4>1, <4>3, <4>4, windowEnd'[i] <= windowEnd'[j]
    <3>4. CASE i = n
      <4>1. ipOf[j] = cand[p] /\ windowEnd'[j] = windowEnd[j] /\ windowEnd'[i] = now[p]
        BY <2>1, <2>2, <3>1, <3>4 DEF TypeOK
      <4>2. j \in open \ touched
        BY <3>4
      <4>3. now[p] > windowEnd[j] + Lookback
        BY <2>8, <4>1, <4>2
      <4>4. now[p] \in Int /\ windowEnd[j] \in Int /\ Lookback \in Nat
        BY <3>1
      <4> QED BY ONLY <4>1, <4>3, <4>4, windowEnd'[i] <= windowEnd'[j]
    <3> QED BY <3>2, <3>3, <3>4
  <2> QED BY <2>3, <2>6, <2>7, <2>9 DEF DedupeInv
<1>8. ASSUME NEW p \in Procs,
             \/ DetectDone(p) \/ ChatDone(p) \/ AnalysisDone(p) \/ AlertLeaves(p)
             \/ AlertFails(p) \/ MarkAlerted(p) \/ AlertsDone(p) \/ Ban(p)
             \/ LoginsUnread(p) \/ BanFails(p) \/ RecordBlock(p) \/ CommitFails(p)
             \/ \E i \in Ids : \/ Analyze(p, i) \/ AlertCheck(p, i)
                              \/ SoarCheck(p, i) \/ CheckFails(p, i)
      PROVE  DedupeInv'
  <2>1. /\ pc[p] \in Working \ {"write"}
        /\ \E s \in Steps \ {"idle", "write"} : pc' = [pc EXCEPT ![p] = s]
        /\ now' = now \/ now' = [now EXCEPT ![p] = clock]
        /\ \A q \in Procs \ {p} : found'[q] = found[q] /\ cand'[q] = cand[q]
        /\ UNCHANGED <<clock, lock, count, ipOf, open, windowEnd, touched>>
    <3>1. CASE DetectDone(p) \/ ChatDone(p) \/ AnalysisDone(p)
      BY <3>1 DEF DetectDone, ChatDone, AnalysisDone, GoTo, TypeOK, Working, Steps, table, history
    <3>4. CASE AlertLeaves(p) \/ AlertFails(p)
      BY <3>4 DEF AlertLeaves, AlertFails, GoTo, TypeOK, Working, Steps, table, history
    <3>2. CASE MarkAlerted(p) \/ AlertsDone(p) \/ Ban(p) \/ BanFails(p) \/ RecordBlock(p)
      BY <3>2 DEF MarkAlerted, AlertsDone, Ban, BanFails, Drop, RecordBlock, GoTo, TypeOK, Working,
         Steps, table, history
    <3>3. CASE CommitFails(p) \/ \E i \in Ids : Analyze(p, i) \/ AlertCheck(p, i) \/ SoarCheck(p, i)
      BY <3>3 DEF CommitFails, Analyze, AlertCheck, SoarCheck, GoTo, TypeOK, Working, Steps, table, history
    <3>5. CASE LoginsUnread(p) \/ \E i \in Ids : CheckFails(p, i)
      BY <3>5 DEF LoginsUnread, CheckFails, Drop, GoTo, TypeOK, Working, Steps, table, history
    <3> QED BY <1>8, <3>1, <3>2, <3>3, <3>4, <3>5
  <2>2. OnlyHolder'
    BY <2>1 DEF DedupeInv, OnlyHolder, TypeOK, Working
  <2>3. \A q \in Procs : now'[q] <= clock' /\ now'[q] >= now[q]
    <3>1. \A q \in Procs : now[q] <= clock
      BY DEF DedupeInv, InOrder
    <3> QED BY <2>1, <3>1, BasicTypes
  <2>4. \A q \in Procs : pc'[q] = "write" => q # p
    BY <2>1 DEF TypeOK
  <2>5. \A q \in Procs \ {p} : pc'[q] = pc[q] /\ now'[q] = now[q]
    BY <2>1 DEF TypeOK
  <2>6. \A q \in Procs : pc'[q] \in Working => pc[q] \in Working
    BY <2>1, <2>5
  <2> QED BY <2>1, <2>2, <2>3, <2>4, <2>5, <2>6, DedupeKept DEF DedupeInv, InOrder
<1>9. ASSUME NEW p \in Procs,
             \/ SoarDone(p) \/ CycleFails(p) \/ SoarUnavailable(p)
             \/ EndCycle(p) \/ Crash(p)
      PROVE  DedupeInv'
  <2>1. /\ pc[p] # "idle"
        /\ \/ pc' = [pc EXCEPT ![p] = "unlock"] /\ lock' = lock
           \/ pc' = [pc EXCEPT ![p] = "idle"] /\ Release(p)
        /\ now' = now \/ now' = [now EXCEPT ![p] = 0]
        /\ \A q \in Procs \ {p} : found'[q] = found[q] /\ cand'[q] = cand[q]
        /\ UNCHANGED <<clock, count, ipOf, open, windowEnd, touched>>
    BY <1>9 DEF SoarDone, CycleFails, SoarUnavailable, EndCycle, Crash, GoTo,
       Drop, DropLocals, TypeOK, table, history
  <2>2. OnlyHolder'
    <3>1. \A q \in Procs \ {p} : pc'[q] = "idle"
      BY <2>1, Alone, BasicTypes DEF DedupeInv
    <3>2. lock = p
      BY <2>1 DEF DedupeInv, OnlyHolder
    <3>3. pc'[p] # "idle" => lock' = lock
      BY <2>1, BasicTypes
    <3> QED BY <3>1, <3>2, <3>3 DEF OnlyHolder
  <2>3. \A q \in Procs : now'[q] <= clock'
    <3>1. \A q \in Procs : now[q] <= clock
      BY DEF DedupeInv, InOrder
    <3> QED BY <2>1, <3>1, BasicTypes
  <2>4. \A q \in Procs : pc'[q] \in Working =>
          pc[q] \in Working /\ now'[q] = now[q] /\ q # p /\ pc'[q] = pc[q]
    BY <2>1 DEF TypeOK, Working
  <2> QED BY <2>1, <2>2, <2>3, <2>4, DedupeKept DEF DedupeInv, InOrder, Working, Steps
<1> QED
  BY <1>1, <1>2, <1>3, <1>4, <1>5, <1>6, <1>7, <1>8, <1>9
     DEF Next, People, Step, Trouble

LEMMA DedupeInit == Init => DedupeInv
<1> SUFFICES ASSUME Init PROVE DedupeInv
  OBVIOUS
<1>1. \A p \in Procs : pc[p] = "idle" /\ now[p] = 0
  BY DEF Init
<1>2. clock = 0 /\ open = {} /\ \A i \in Ids : windowEnd[i] < 0
  BY ConstantTypes DEF Init
<1>3. InOrder
  <2>1. \A i \in Ids : windowEnd[i] \in Int
    BY SocInitTypes, TimeTypes
  <2> QED BY <1>1, <1>2, <2>1 DEF InOrder, Working
<1>4. OnlyHolder /\ \A p \in Procs : Deduped(p)
  BY <1>1 DEF OnlyHolder, Deduped
<1>5. OneOpenIncident
  BY <1>2 DEF OneOpenIncident
<1> QED BY <1>3, <1>4, <1>5 DEF DedupeInv

\* run_detection_cycle under pg_try_advisory_lock never opens a second incident
\* for an IP whose untouched one ended within DEDUPE_LOOKBACK, whatever crashes,
\* fails or is reviewed.
THEOREM SocNoDuplicate ==
  ASSUME Dialect = "postgresql"
  PROVE  Spec => []OneOpenIncident
<1>1. Init => TypeOK /\ InHandOK
  BY SocInitTypes
<1>2. Init => DedupeInv
  BY DedupeInit
<1>3. DedupeInv => OneOpenIncident
  BY DEF DedupeInv
<1> QED BY <1>1, <1>2, <1>3, TypeStep, InHandStep, DedupeStep, PTL DEF Spec
-----------------------------------------------------------------------------
(* The cycle implements the book of incidents, under the advisory lock.    *)

LEMMA BookInit == Init => Book!Init
BY ConstantTypes DEF Init, Book!Init

\* Every step of the cycle is a step of the book or leaves it alone.
LEMMA BookStep ==
  ASSUME TypeOK, DedupeInv, [Next]_vars
  PROVE  [Book!Next]_(Book!vars)
<1> USE TimeTypes, BoundsAssumption
<1>1. ASSUME NEW i \in Ids, NEW nuevo \in BOOLEAN, SetEstado(i, nuevo)
      PROVE  Book!Review(i)
  <2>1. i \in 1 .. count
    BY <1>1, BasicTypes DEF SetEstado, Ids
  <2> QED BY <1>1, <2>1 DEF SetEstado, Book!Review
<1>2. ASSUME NEW p \in Procs, NEW level \in Severities, Update(p, level)
      PROVE  Book!Refresh(found[p], now[p])
  <2> DEFINE f == found[p]
  <2>1. pc[p] = "write" /\ f # 0
    BY <1>2 DEF Update
  <2>2. f \in 1 .. count /\ ipOf[f] = cand[p]
    BY <2>1 DEF DedupeInv, Deduped
  <2>3. Book!InOrder(now[p])
    BY <2>1 DEF DedupeInv, InOrder, Book!InOrder, Working, Steps
  <2>4. f \in touched \/ Book!Current(ipOf[f], now[p]) \subseteq {f}
    <3> SUFFICES ASSUME f \notin touched, NEW i \in Book!Current(ipOf[f], now[p])
                 PROVE  i = f
      OBVIOUS
    <3>1. i \in open \ touched /\ ipOf[i] = cand[p] /\ windowEnd[i] >= now[p] - Lookback
      BY <2>2 DEF Book!Current
    <3>2. i \in Ids
      BY <3>1 DEF TypeOK
    <3>3. i = f \/ now[p] > windowEnd[i] + Lookback
      BY <2>1, <3>1 DEF DedupeInv, Deduped
    <3> QED BY <3>1, <3>2, <3>3
  <2> QED BY <1>2, <2>2, <2>3, <2>4 DEF Update, Book!Refresh
<1>3. ASSUME NEW p \in Procs, NEW level \in Severities, Create(p, level)
      PROVE  Book!Raise(cand[p], now[p])
  <2>1. pc[p] = "write" /\ found[p] = 0 /\ count < MaxInc
    BY <1>3 DEF Create
  <2>2. count + 1 \in Ids
    BY <2>1, BasicTypes DEF Ids
  <2>3. Book!InOrder(now[p])
    BY <2>1 DEF DedupeInv, InOrder, Book!InOrder, Working, Steps
  <2>4. Book!Current(cand[p], now[p]) = {}
    <3> SUFFICES ASSUME NEW i \in Book!Current(cand[p], now[p]) PROVE FALSE
      OBVIOUS
    <3>1. i \in open \ touched /\ ipOf[i] = cand[p] /\ windowEnd[i] >= now[p] - Lookback
      BY DEF Book!Current
    <3>2. i \in Ids /\ i # 0
      BY <3>1 DEF TypeOK, Ids
    <3>3. now[p] > windowEnd[i] + Lookback
      BY <2>1, <3>1, <3>2 DEF DedupeInv, Deduped
    <3> QED BY <3>1, <3>2, <3>3
  <2> QED BY <1>3, <2>2, <2>3, <2>4 DEF Create, Book!Raise, history
<1>4. CASE \E i \in Ids, nuevo \in BOOLEAN : SetEstado(i, nuevo)
  BY <1>1, <1>4 DEF Book!Next
<1>5. CASE \E p \in Procs, level \in Severities : Update(p, level)
  <2>1. PICK p \in Procs, level \in Severities : Update(p, level)
    BY <1>5
  <2>2. found[p] \in Ids /\ now[p] \in 0 .. MaxTime
    BY <2>1 DEF Update, TypeOK
  <2> QED BY <1>2, <2>1, <2>2 DEF Book!Next
<1>6. CASE \E p \in Procs, level \in Severities : Create(p, level)
  <2>1. PICK p \in Procs, level \in Severities : Create(p, level)
    BY <1>6
  <2>2. cand[p] \in IPs /\ now[p] \in 0 .. MaxTime
    BY <2>1 DEF TypeOK
  <2> QED BY <1>3, <2>1, <2>2 DEF Book!Next
<1>7. CASE \/ Tick
           \/ \E r \in Requests : \/ ManualStore(r) \/ ManualGivesUp(r)
                                  \/ \E i \in Ids, worse \in BOOLEAN :
                                       ManualBegin(r, i, worse)
           \/ \E ip \in IPs, action \in {"auth.login", "auth.mfa_ok"} : AdminLogin(ip, action)
           \/ UNCHANGED vars
  <2>1. UNCHANGED <<count, ipOf, windowEnd, open, touched>>
    BY <1>7 DEF Tick, ManualStore, ManualGivesUp, ManualBegin, AdminLogin, vars,
       table, history
  <2> QED BY <2>1 DEF Book!vars
<1>8. ASSUME NEW p \in Procs,
             \/ \E attackers \in SUBSET IPs : BeginCycle(p, attackers)
             \/ \E ip \in IPs : Dedupe(p, ip)
             \/ DetectDone(p) \/ ChatDone(p) \/ AnalysisDone(p) \/ AlertLeaves(p)
             \/ AlertFails(p) \/ MarkAlerted(p) \/ AlertsDone(p) \/ Ban(p)
             \/ BanFails(p) \/ RecordBlock(p) \/ CommitFails(p) \/ LoginsUnread(p)
             \/ SoarDone(p) \/ CycleFails(p) \/ SoarUnavailable(p)
             \/ EndCycle(p) \/ Crash(p)
             \/ \E i \in Ids : \/ Analyze(p, i) \/ AlertCheck(p, i)
                              \/ SoarCheck(p, i) \/ CheckFails(p, i)
      PROVE  UNCHANGED Book!vars
  <2>1. UNCHANGED <<count, ipOf, windowEnd, open, touched>>
    BY <1>8 DEF BeginCycle, Dedupe, DetectDone, ChatDone, AnalysisDone, AlertLeaves,
       AlertFails, MarkAlerted, AlertsDone, Ban, BanFails, RecordBlock, CommitFails,
       SoarDone, CycleFails, SoarUnavailable, LoginsUnread, CheckFails, EndCycle, Crash,
       Analyze, AlertCheck, SoarCheck, Drop, table, history
  <2> QED BY <2>1 DEF Book!vars
<1> QED BY <1>4, <1>5, <1>6, <1>7, <1>8 DEF Next, People, Step, Trouble

\* Query and write of run_detection_cycle, moments apart and among reviews,
\* crashes and other processes, are always one step of IncidentBook: an attack
\* raises an incident only when none is current, and moves only the current one.
THEOREM SocImplementsBook ==
  ASSUME Dialect = "postgresql"
  PROVE  Spec => ImplementsBook
<1>1. Init => TypeOK /\ InHandOK /\ DedupeInv
  BY SocInitTypes, DedupeInit
<1> QED BY <1>1, BookInit, TypeStep, InHandStep, DedupeStep, BookStep, PTL
        DEF Spec, ImplementsBook, Book!Spec

-----------------------------------------------------------------------------
(***************************************************************************)
(* Proofs about the stages of SocCycle, alerts.py and soar.py: what their  *)
(* guards establish, for every number of processes, IPs, incidents and     *)
(* failures.  What needs the advisory lock says so.                        *)
(***************************************************************************)

\* Never lies before every moment the stages compare it with.
LEMMA NeverLow ==
  /\ Never \in Int
  /\ \A t \in Times : t \in Int /\ Never <= t /\ (t # Never => t >= 0)
  /\ \A t \in 0 .. MaxTime : /\ t \in Int /\ t # Never /\ Never < t
                             /\ Never < t - Cooldown
                             /\ Never < t - BlockLookback
                             /\ Never < t - LoginWindow
BY BoundsAssumption DEF Never, Times
-----------------------------------------------------------------------------
(* Rows and locals, with or without the lock.                              *)

Detecting == {"detect", "write", "analyze", "chat"}
Alerting  == {"alert", "send", "mark"}
Blocking  == {"soar", "ban", "record"}

\* What a cycle has created is in the table, a stage works on nothing else, the
\* incident in its hand is one it has taken off its list, and a thread at rest
\* has created nothing.
InTable(p) ==
  /\ created[p] \subseteq 1 .. count
  /\ work[p] \subseteq created[p]
  /\ pc[p] \in {"chat", "send", "mark", "ban", "record"} =>
       found[p] \in created[p] \ work[p]
  /\ pc[p] \in {"idle", "unlock"} => created[p] = {}

\* Nothing is dated in the future.
Dated ==
  /\ \A p \in Procs : now[p] <= clock
  /\ \A ip \in IPs : sentAt[ip] <= clock /\ bannedAt[ip] <= clock

\* A row that is not inserted yet carries no mark; a mark stands for something
\* that happened, and so does the one a stage is about to commit.
MarksStand ==
  /\ \A i \in Ids \ 1 .. count : alertedAt[i] = Never /\ blockedAt[i] = Never
  /\ \A i \in Ids : /\ alertedAt[i] # Never => i \in delivered
                    /\ blockedAt[i] # Never => Blocked(ipOf[i])
  /\ \A p \in Procs : /\ pc[p] = "mark" => found[p] \in delivered
                      /\ pc[p] = "record" => Blocked(ipOf[found[p]])

RowInv == Dated /\ MarksStand /\ \A p \in Procs : InTable(p)

\* A process the step does not concern keeps its locals.
Untouched(q) == UNCHANGED <<pc[q], now[q], found[q], created[q], work[q]>>

LEMMA InTableKept ==
  ASSUME TypeOK, NEW q \in Procs, InTable(q), Untouched(q), count' \in Nat,
         count <= count'
  PROVE  InTable(q)'
<1>1. 1 .. count \subseteq 1 .. count'
  BY BasicTypes
<1> QED BY <1>1 DEF InTable, Untouched

\* The columns and histories that MarksStand relates, but for the calls of the
\* stages themselves.
MarksKept ==
  UNCHANGED <<count, ipOf, alertedAt, blockedAt, delivered, sentAt, bannedAt>>

\* A step of one process that leaves the marks alone.
LEMMA RowKept ==
  ASSUME TypeOK, TypeOK', RowInv, NEW p \in Procs, MarksKept, clock' = clock,
         \A q \in Procs \ {p} : Untouched(q),
         now'[p] <= clock, InTable(p)', pc'[p] \notin {"mark", "record"}
  PROVE  RowInv'
<1>1. Dated'
  BY BasicTypes DEF RowInv, Dated, MarksKept, Untouched
<1>2. MarksStand'
  BY DEF RowInv, MarksStand, MarksKept, Untouched, Blocked
<1>3. \A q \in Procs \ {p} : InTable(q)'
  BY BasicTypes, InTableKept DEF RowInv, MarksKept
<1> QED BY <1>1, <1>2, <1>3 DEF RowInv

LEMMA RowStep ==
  ASSUME TypeOK, TypeOK', InHandOK, RowInv, [Next]_vars PROVE RowInv'
<1> USE DEF table, cycle, history, bounds, GoTo, DropLocals, Take
<1>0. /\ clock \in 0 .. MaxTime /\ clock \in Int /\ count \in Nat
      /\ \A p \in Procs : now[p] \in 0 .. MaxTime /\ now[p] <= clock /\ InTable(p)
      /\ \A ip \in IPs : sentAt[ip] \in Int /\ bannedAt[ip] \in Int
      /\ \A i \in Ids : ipOf[i] \in IPs
      /\ \A p \in Procs : pc[p] \in {"chat", "send", "mark", "ban", "record"} =>
           found[p] \in Ids /\ found[p] \in 1 .. count
  BY NeverLow, BoundsAssumption DEF TypeOK, RowInv, Dated, InHandOK, InTable
<1>1. CASE Tick \/ People \/ UNCHANGED vars
  <2>1. /\ MarksKept /\ (\A q \in Procs : Untouched(q))
        /\ clock' \in Int /\ clock <= clock'
    BY <1>0, <1>1
       DEF Tick, People, SetEstado, ManualBegin, ManualStore, ManualGivesUp,
           AdminLogin, vars, MarksKept, Untouched
  <2>2. Dated'
    BY <1>0, <2>1 DEF RowInv, Dated, MarksKept, Untouched
  <2>3. MarksStand'
    BY <2>1 DEF RowInv, MarksStand, MarksKept, Untouched, Blocked
  <2>4. \A q \in Procs : InTable(q)'
    BY <1>0, <2>1, InTableKept DEF MarksKept
  <2> QED BY <2>2, <2>3, <2>4 DEF RowInv
<1>2. ASSUME NEW p \in Procs,
             \/ \E attackers \in SUBSET IPs : BeginCycle(p, attackers)
             \/ \E ip \in IPs : Dedupe(p, ip)
             \/ \E level \in Severities : Update(p, level)
             \/ DetectDone(p) \/ ChatDone(p) \/ AnalysisDone(p) \/ AlertFails(p)
             \/ AlertsDone(p) \/ LoginsUnread(p) \/ BanFails(p) \/ CommitFails(p)
      PROVE  RowInv'
  <2>1. /\ MarksKept /\ clock' = clock /\ created' = created
        /\ \A q \in Procs \ {p} : Untouched(q)
        /\ now'[p] = now[p] \/ now'[p] = clock
        /\ pc'[p] \in {"detect", "write", "analyze", "alert", "soar"}
    <3>1. CASE \/ \E attackers \in SUBSET IPs : BeginCycle(p, attackers)
               \/ \E ip \in IPs : Dedupe(p, ip)
               \/ \E level \in Severities : Update(p, level)
               \/ DetectDone(p) \/ ChatDone(p)
      BY <3>1 DEF BeginCycle, Dedupe, Update, DetectDone, ChatDone, MarksKept, Untouched, TypeOK
    <3>2. CASE \/ AnalysisDone(p) \/ AlertFails(p) \/ AlertsDone(p) \/ LoginsUnread(p)
               \/ BanFails(p) \/ CommitFails(p)
      BY <3>2 DEF AnalysisDone, AlertFails, AlertsDone, LoginsUnread, BanFails, CommitFails,
         Drop, MarksKept, Untouched, TypeOK
    <3> QED BY <1>2, <3>1, <3>2
  <2>2. work'[p] \subseteq created[p]
    <3>1. work'[p] \subseteq work[p] \cup created[p]
      <4>1. CASE \/ \E attackers \in SUBSET IPs : BeginCycle(p, attackers)
                 \/ \E ip \in IPs : Dedupe(p, ip)
                 \/ \E level \in Severities : Update(p, level)
                 \/ DetectDone(p) \/ ChatDone(p)
        <5>1. work' = work \/ \E x \in SUBSET created[p] : work' = [work EXCEPT ![p] = x]
          BY <4>1 DEF BeginCycle, Dedupe, Update, DetectDone, ChatDone
        <5> QED BY <5>1 DEF TypeOK
      <4>2. CASE \/ AnalysisDone(p) \/ AlertFails(p) \/ AlertsDone(p) \/ LoginsUnread(p)
                 \/ BanFails(p) \/ CommitFails(p)
        <5>1. work' = work \/ \E x \in SUBSET created[p] : work' = [work EXCEPT ![p] = x]
          BY <4>2 DEF AnalysisDone, AlertFails, AlertsDone, LoginsUnread, BanFails,
             CommitFails, ToBlock
        <5> QED BY <5>1 DEF TypeOK
      <4> QED BY <1>2, <4>1, <4>2
    <3> QED BY <1>0, <3>1 DEF InTable
  <2>3. InTable(p)'
    BY <1>0, <2>1, <2>2 DEF InTable, MarksKept
  <2> QED BY <1>0, <2>1, <2>3, RowKept
<1>3. ASSUME NEW p \in Procs, NEW i \in Ids,
             Analyze(p, i) \/ AlertCheck(p, i) \/ SoarCheck(p, i) \/ CheckFails(p, i)
      PROVE  RowInv'
  <2>1. /\ MarksKept /\ clock' = clock /\ created' = created /\ now' = now
        /\ \A q \in Procs \ {p} : Untouched(q)
        /\ i \in work[p] /\ work'[p] = work[p] \ {i}
        /\ \/ pc'[p] \in {"chat", "send", "ban"} /\ found'[p] = i
           \/ pc'[p] \in {"analyze", "alert", "soar"}
    <3>1. CASE Analyze(p, i) \/ AlertCheck(p, i) \/ SoarCheck(p, i)
      BY <3>1 DEF Analyze, AlertCheck, SoarCheck, IsNext, MarksKept, Untouched, TypeOK
    <3>2. CASE CheckFails(p, i)
      BY <3>2 DEF CheckFails, Drop, IsNext, MarksKept, Untouched, TypeOK
    <3> QED BY <1>3, <3>1, <3>2
  <2>2. InTable(p)'
    BY <1>0, <2>1 DEF InTable, MarksKept
  <2> QED BY <1>0, <2>1, <2>2, RowKept
<1>4. ASSUME NEW p \in Procs,
             \/ SoarDone(p) \/ CycleFails(p) \/ SoarUnavailable(p)
             \/ EndCycle(p) \/ Crash(p)
      PROVE  RowInv'
  <2>1. /\ MarksKept /\ clock' = clock
        /\ \A q \in Procs \ {p} : Untouched(q)
        /\ pc'[p] \in {"unlock", "idle"}
        /\ \/ now'[p] = 0 /\ created'[p] = {} /\ work'[p] = {}
           \/ /\ pc[p] = "unlock" /\ now'[p] = now[p]
              /\ created'[p] = created[p] /\ work'[p] = work[p]
    BY <1>4 DEF SoarDone, CycleFails, SoarUnavailable, EndCycle, Crash,
       Drop, MarksKept, Untouched, TypeOK
  <2>2. InTable(p)'
    BY <1>0, <2>1 DEF InTable, MarksKept
  <2> QED BY <1>0, <2>1, <2>2, RowKept
<1>5. ASSUME NEW p \in Procs, NEW level \in Severities, Create(p, level)
      PROVE  RowInv'
  <2>1. PICK n \in Ids : n = count + 1
    BY <1>0, <1>5, BoundsAssumption DEF Create, Ids
  <2>2. /\ count' = n /\ clock' = clock /\ now' = now /\ work' = work
        /\ ipOf' = [ipOf EXCEPT ![n] = cand[p]]
        /\ created'[p] = created[p] \cup {n} /\ pc'[p] = "detect"
        /\ UNCHANGED <<alertedAt, blockedAt, delivered, sentAt, bannedAt>>
        /\ \A q \in Procs \ {p} : Untouched(q)
    BY <1>5, <2>1 DEF Create, Untouched, TypeOK
  <2>3. Dated'
    BY <2>2 DEF RowInv, Dated
  <2>4. MarksStand'
    <3>1. n \notin 1 .. count /\ 1 .. n = 1 .. count \cup {n}
      BY <1>0, <2>1
    <3>2. alertedAt[n] = Never /\ blockedAt[n] = Never
      BY <3>1 DEF RowInv, MarksStand
    <3>3. \A i \in Ids : i # n => ipOf'[i] = ipOf[i]
      BY <2>2 DEF TypeOK
    <3>4. ASSUME NEW q \in Procs
          PROVE  /\ pc'[q] = "mark" => found'[q] \in delivered'
                 /\ pc'[q] = "record" => Blocked(ipOf[found[q]])'
      <4>1. CASE q = p
        BY <2>2, <4>1
      <4>2. CASE q # p
        <5>1. pc'[q] = pc[q] /\ found'[q] = found[q]
          BY <2>2, <4>2 DEF Untouched
        <5>2. pc[q] = "record" => found[q] \in Ids /\ found[q] # n
          BY <1>0, <3>1
        <5> QED BY <2>2, <3>3, <5>1, <5>2 DEF RowInv, MarksStand, Blocked
      <4> QED BY <4>1, <4>2
    <3>5. ASSUME NEW i \in Ids PROVE /\ alertedAt'[i] # Never => i \in delivered'
                                     /\ blockedAt'[i] # Never => Blocked(ipOf[i])'
      BY <2>2, <3>2, <3>3 DEF RowInv, MarksStand, Blocked
    <3>6. \A i \in Ids \ 1 .. count' : alertedAt'[i] = Never /\ blockedAt'[i] = Never
      BY <2>2, <3>1 DEF RowInv, MarksStand
    <3> QED BY <3>4, <3>5, <3>6 DEF MarksStand
  <2>5. ASSUME NEW q \in Procs PROVE InTable(q)'
    <3>1. CASE q = p
      <4>1. 1 .. count \subseteq 1 .. n /\ n \in 1 .. n
        BY <1>0, <2>1
      <4> QED BY <1>0, <2>2, <3>1, <4>1 DEF InTable
    <3>2. CASE q # p
      BY <1>0, <2>1, <2>2, <3>2, InTableKept
    <3> QED BY <3>1, <3>2
  <2> QED BY <2>3, <2>4, <2>5 DEF RowInv
<1>6. ASSUME NEW p \in Procs,
             AlertLeaves(p) \/ MarkAlerted(p) \/ Ban(p) \/ RecordBlock(p)
      PROVE  RowInv'
  <2>1. /\ count' = count /\ ipOf' = ipOf /\ clock' = clock /\ now' = now
        /\ created' = created /\ work' = work
        /\ \A q \in Procs \ {p} : Untouched(q)
        /\ found[p] \in 1 .. count /\ found[p] \in Ids
    BY <1>0, <1>6 DEF AlertLeaves, MarkAlerted, Ban, RecordBlock, Untouched, TypeOK
  <2>2. \/ pc[p] = "send" /\ pc'[p] = "mark" /\ found'[p] = found[p]
        \/ pc[p] = "ban" /\ pc'[p] = "record" /\ found'[p] = found[p]
        \/ pc'[p] \in {"alert", "soar"}
    <3>1. /\ \E s \in Steps : pc' = [pc EXCEPT ![p] = s]
          /\ \/ pc[p] = "send" /\ found' = found /\ pc' = [pc EXCEPT ![p] = "mark"]
             \/ pc[p] = "ban" /\ found' = found /\ pc' = [pc EXCEPT ![p] = "record"]
             \/ pc' = [pc EXCEPT ![p] = "alert"] \/ pc' = [pc EXCEPT ![p] = "soar"]
      BY <1>6 DEF AlertLeaves, MarkAlerted, Ban, RecordBlock, Steps
    <3> QED BY <3>1 DEF TypeOK
  <2>3. \A q \in Procs : InTable(q)'
    <3>1. InTable(p)'
      BY <1>0, <2>1, <2>2 DEF InTable
    <3> QED BY <1>0, <2>1, <3>1, InTableKept
  <2>4. Dated'
    <3>1. /\ \/ sentAt' = sentAt
             \/ sentAt' = [sentAt EXCEPT ![ipOf[found[p]]] = clock]
          /\ \/ bannedAt' = bannedAt
             \/ bannedAt' = [bannedAt EXCEPT ![ipOf[found[p]]] = now[p]]
      BY <1>6 DEF AlertLeaves, MarkAlerted, Ban, RecordBlock
    <3>2. ASSUME NEW ip \in IPs PROVE sentAt'[ip] <= clock /\ bannedAt'[ip] <= clock
      <4>1. sentAt'[ip] = sentAt[ip] \/ sentAt'[ip] = clock
        BY <3>1 DEF TypeOK
      <4>2. bannedAt'[ip] = bannedAt[ip] \/ bannedAt'[ip] = now[p]
        BY <3>1 DEF TypeOK
      <4> QED BY <1>0, <4>1, <4>2 DEF RowInv, Dated
    <3> QED BY <1>0, <2>1, <3>2 DEF Dated
  <2>5. MarksStand'
    <3>1. CASE AlertLeaves(p)
      <4>1. /\ delivered' = delivered \cup {found[p]} /\ found' = found
            /\ pc' = [pc EXCEPT ![p] = "mark"]
            /\ UNCHANGED <<alertedAt, blockedAt, bannedAt>>
        BY <3>1 DEF AlertLeaves
      <4> QED BY <2>1, <4>1 DEF RowInv, MarksStand, Blocked, TypeOK
    <3>2. CASE MarkAlerted(p)
      <4>1. /\ alertedAt' = [alertedAt EXCEPT ![found[p]] = clock]
            /\ found[p] \in delivered /\ pc'[p] = "alert"
            /\ UNCHANGED <<delivered, blockedAt, bannedAt>>
        BY <3>2 DEF MarkAlerted, RowInv, MarksStand, TypeOK
      <4>2. MarksStand /\ alertedAt \in [Ids -> Times]
        BY DEF RowInv, TypeOK
      <4>3. \A ip : Blocked(ip)' = Blocked(ip)
        BY <4>1 DEF Blocked
      <4>4. \A i \in Ids : alertedAt'[i] = alertedAt[i] \/ i = found[p]
        BY <4>1, <4>2
      <4>5. \A q \in Procs : pc'[q] \in {"mark", "record"} => pc'[q] = pc[q] /\ found'[q] = found[q]
        BY <2>1, <4>1 DEF Untouched
      <4> QED BY <2>1, <4>1, <4>2, <4>3, <4>4, <4>5 DEF MarksStand
    <3>3. CASE Ban(p)
      <4>1. /\ bannedAt' = [bannedAt EXCEPT ![ipOf[found[p]]] = now[p]]
            /\ found' = found /\ pc' = [pc EXCEPT ![p] = "record"]
            /\ UNCHANGED <<delivered, alertedAt, blockedAt>>
        BY <3>3 DEF Ban
      <4>2. now[p] # Never
        BY <1>0, NeverLow
      <4>3. \A ip \in IPs : Blocked(ip) => Blocked(ip)'
        BY <4>1, <4>2 DEF Blocked, TypeOK
      <4>4. Blocked(ipOf[found[p]])'
        BY <1>0, <2>1, <4>1, <4>2 DEF Blocked, TypeOK
      <4>5. \A q \in Procs : q # p => pc'[q] = pc[q]
        BY <4>1 DEF TypeOK
      <4>6. pc'[p] = "record"
        BY <4>1 DEF TypeOK
      <4>7. \A q \in Procs : pc[q] = "record" => ipOf[found[q]] \in IPs
        BY <1>0
      <4> QED BY <1>0, <2>1, <4>1, <4>3, <4>4, <4>5, <4>6, <4>7 DEF RowInv, MarksStand
    <3>4. CASE RecordBlock(p)
      <4>1. /\ blockedAt' = [blockedAt EXCEPT ![found[p]] = now[p]]
            /\ Blocked(ipOf[found[p]]) /\ pc'[p] = "soar"
            /\ UNCHANGED <<delivered, alertedAt, bannedAt>>
        BY <3>4 DEF RecordBlock, RowInv, MarksStand, TypeOK
      <4>2. MarksStand /\ blockedAt \in [Ids -> Times]
        BY DEF RowInv, TypeOK
      <4>3. \A ip : Blocked(ip)' = Blocked(ip)
        BY <4>1 DEF Blocked
      <4>4. \A i \in Ids : blockedAt'[i] = blockedAt[i] \/ i = found[p]
        BY <4>1, <4>2
      <4>5. \A q \in Procs : pc'[q] \in {"mark", "record"} => pc'[q] = pc[q] /\ found'[q] = found[q]
        BY <2>1, <4>1 DEF Untouched
      <4> QED BY <2>1, <4>1, <4>2, <4>3, <4>4, <4>5 DEF MarksStand
    <3> QED BY <1>6, <3>1, <3>2, <3>3, <3>4
  <2> QED BY <2>3, <2>4, <2>5 DEF RowInv
<1>7. CASE \E p \in Procs : Step(p)
  BY <1>2, <1>3, <1>4, <1>5, <1>6, <1>7 DEF Step
<1>8. CASE \E p \in Procs : Trouble(p)
  BY <1>2, <1>3, <1>4, <1>8 DEF Trouble
<1> QED BY <1>1, <1>2, <1>7, <1>8 DEF Next

LEMMA RowInit == Init => RowInv
<1> SUFFICES ASSUME Init PROVE RowInv
  OBVIOUS
<1>1. Dated
  BY ConstantTypes, NeverLow DEF Init, Dated
<1> QED BY <1>1 DEF Init, RowInv, MarksStand, InTable
-----------------------------------------------------------------------------
(* The stages, under the advisory lock.                                    *)

\* An incident a stage has still to look at carries no mark of that stage.
Unmarked(p) ==
  /\ pc[p] \in Detecting => \A i \in created[p] : alertedAt[i] = Never
  /\ pc[p] \in Alerting => \A i \in work[p] : alertedAt[i] = Never
  /\ pc[p] \in {"send", "mark"} => alertedAt[found[p]] = Never
  /\ pc[p] \in Detecting \cup Alerting => \A i \in created[p] : blockedAt[i] = Never
  /\ pc[p] \in Blocking => \A i \in work[p] : blockedAt[i] = Never
  /\ pc[p] \in {"ban", "record"} => blockedAt[found[p]] = Never

\* What the guard of a stage established is still true when the call it guards
\* is made.
StillClear(p) ==
  /\ pc[p] = "send" => \A j \in Ids :
       ipOf[j] = ipOf[found[p]] => alertedAt[j] < clock - Cooldown
  /\ pc[p] = "ban" => \A j \in Ids :
       ipOf[j] = ipOf[found[p]] => blockedAt[j] < now[p] - BlockLookback
  /\ pc[p] \in Blocking => \A ip \in IPs : bannedAt[ip] <= now[p]
  /\ pc[p] = "record" => bannedAt[ipOf[found[p]]] = now[p]

StageInv ==
  /\ \A p \in Procs : Unmarked(p) /\ StillClear(p)
  /\ \A i \in Ids : blockedAt[i] # Never => bannedAt[ipOf[i]] >= blockedAt[i]

\* As long as nothing failed, every alert and every ban is on record with its
\* IP, or about to be.
AlertOnRecord(ip) ==
  \/ sentAt[ip] = Never
  \/ \E j \in 1 .. count : ipOf[j] = ip /\ alertedAt[j] >= sentAt[ip]
  \/ \E p \in Procs : pc[p] = "mark" /\ ipOf[found[p]] = ip

BanOnRecord(ip) ==
  \/ bannedAt[ip] = Never
  \/ \E j \in 1 .. count : ipOf[j] = ip /\ blockedAt[j] >= bannedAt[ip]
  \/ \E p \in Procs : pc[p] = "record" /\ ipOf[found[p]] = ip

QuietInv ==
  fails + crashes = 0 =>
    /\ ~spam /\ ~reban
    /\ \A ip \in IPs : AlertOnRecord(ip) /\ BanOnRecord(ip)

\* A stage at rest has nothing to keep.
LEMMA StageIdle ==
  ASSUME NEW q \in Procs, pc'[q] \in {"idle", "unlock"}
  PROVE  Unmarked(q)' /\ StillClear(q)'
BY DEF Unmarked, StillClear, Detecting, Alerting, Blocking

LEMMA StageStep ==
  ASSUME Dialect = "postgresql", TypeOK, TypeOK', RowInv, OnlyHolder, StageInv,
         [Next]_vars
  PROVE  StageInv'
<1> USE DEF table, cycle, history, bounds, GoTo, DropLocals, Take
<1> DEFINE Covered == \A i \in Ids : blockedAt[i] # Never => bannedAt[ipOf[i]] >= blockedAt[i]
<1>0. /\ clock \in 0 .. MaxTime /\ count \in Nat
      /\ \A p \in Procs : now[p] \in 0 .. MaxTime /\ now[p] <= clock /\ InTable(p)
      /\ \A ip \in IPs : bannedAt[ip] \in Int /\ bannedAt[ip] <= clock
      /\ \A i \in Ids : /\ ipOf[i] \in IPs
                        /\ alertedAt[i] \in Int /\ blockedAt[i] \in Int
      /\ \A i \in Ids \ 1 .. count : alertedAt[i] = Never /\ blockedAt[i] = Never
      /\ \A p \in Procs : created[p] \subseteq Ids /\ work[p] \subseteq Ids
      /\ Never \in Int /\ Lookback \in Nat /\ Cooldown \in Nat /\ BlockLookback \in Nat
      /\ Covered /\ \A p \in Procs : Unmarked(p) /\ StillClear(p)
  BY NeverLow, BoundsAssumption DEF TypeOK, RowInv, Dated, MarksStand, StageInv
<1> HIDE DEF Covered
<1>1. ASSUME NEW p \in Procs, pc[p] # "idle", \A q \in Procs \ {p} : pc'[q] = pc[q],
             Unmarked(p)', StillClear(p)', Covered'
      PROVE  StageInv'
  <2>1. \A q \in Procs \ {p} : pc'[q] = "idle"
    BY <1>1, Alone
  <2> QED BY <1>1, <2>1, StageIdle DEF StageInv, Covered
<1>2. ASSUME UNCHANGED <<ipOf, blockedAt, bannedAt>> PROVE Covered'
  BY <1>0, <1>2 DEF Covered
<1>3. CASE Tick \/ People \/ UNCHANGED vars
  <2>1. /\ UNCHANGED <<pc, now, found, created, work, ipOf, alertedAt, blockedAt, bannedAt>>
        /\ clock' \in Int /\ clock <= clock'
    BY <1>0, <1>3
       DEF Tick, People, SetEstado, ManualBegin, ManualStore, ManualGivesUp,
           AdminLogin, vars
  <2>2. ASSUME NEW q \in Procs PROVE Unmarked(q)'
    BY <1>0, <2>1 DEF Unmarked
  <2>3. ASSUME NEW q \in Procs PROVE StillClear(q)'
    BY <1>0, <2>1 DEF StillClear
  <2> QED BY <1>2, <2>1, <2>2, <2>3 DEF StageInv, Covered
<1>4. ASSUME NEW p \in Procs, NEW attackers \in SUBSET IPs, BeginCycle(p, attackers)
      PROVE  StageInv'
  <2>1. /\ pc[p] = "idle" /\ lock = NoProc /\ pc' = [pc EXCEPT ![p] = "detect"]
        /\ UNCHANGED <<created, ipOf, blockedAt, bannedAt>>
    BY <1>4 DEF BeginCycle, Acquire
  <2>2. \A q \in Procs : pc[q] = "idle"
    BY <2>1, NoProcAssumption DEF OnlyHolder
  <2>3. \A q \in Procs \ {p} : Unmarked(q)' /\ StillClear(q)'
    <3>1. \A q \in Procs \ {p} : pc'[q] = "idle"
      BY <2>1, <2>2 DEF TypeOK
    <3> QED BY <3>1, StageIdle
  <2>4. created'[p] = {} /\ pc'[p] = "detect"
    BY <1>0, <2>1 DEF InTable, TypeOK
  <2>5. Unmarked(p)' /\ StillClear(p)'
    BY <2>4 DEF Unmarked, StillClear, Detecting, Alerting, Blocking
  <2> QED BY <1>2, <2>1, <2>3, <2>5 DEF StageInv, Covered
<1>5. ASSUME NEW p \in Procs,
             \/ \E ip \in IPs : Dedupe(p, ip)
             \/ \E level \in Severities : Update(p, level)
             \/ \E i \in Ids : Analyze(p, i)
             \/ DetectDone(p) \/ ChatDone(p)
      PROVE  StageInv'
  <2>1. /\ pc[p] \in Detecting /\ pc'[p] \in Detecting
        /\ \A q \in Procs \ {p} : pc'[q] = pc[q]
        /\ UNCHANGED <<created, ipOf, alertedAt, blockedAt, bannedAt>>
    BY <1>5 DEF Dedupe, Update, Analyze, DetectDone, ChatDone, Detecting, TypeOK
  <2>2. Unmarked(p)' /\ StillClear(p)'
    BY <1>0, <2>1 DEF Unmarked, StillClear, Detecting, Alerting, Blocking
  <2>3. pc[p] # "idle"
    BY <2>1 DEF Detecting
  <2> QED BY <1>1, <1>2, <2>1, <2>2, <2>3
<1>6. ASSUME NEW p \in Procs, NEW level \in Severities, Create(p, level)
      PROVE  StageInv'
  <2>1. PICK n \in Ids : n = count + 1
    BY <1>0, <1>6, BoundsAssumption DEF Create, Ids
  <2>2. /\ pc[p] = "write" /\ pc'[p] = "detect"
        /\ \A q \in Procs \ {p} : pc'[q] = pc[q]
        /\ created'[p] = created[p] \cup {n}
        /\ \A i \in Ids : i # n => ipOf'[i] = ipOf[i]
        /\ UNCHANGED <<alertedAt, blockedAt, bannedAt>>
    BY <1>6, <2>1 DEF Create, TypeOK
  <2>3. alertedAt[n] = Never /\ blockedAt[n] = Never
    <3>1. n \notin 1 .. count
      BY <1>0, <2>1
    <3> QED BY <1>0, <3>1
  <2>4. Unmarked(p)' /\ StillClear(p)'
    BY <1>0, <2>2, <2>3 DEF Unmarked, StillClear, Detecting, Alerting, Blocking
  <2>5. Covered'
    BY <1>0, <2>2, <2>3 DEF Covered
  <2> QED BY <1>1, <2>2, <2>4, <2>5
<1>7. ASSUME NEW p \in Procs, AnalysisDone(p) \/ AlertFails(p) PROVE StageInv'
  <2>1. /\ pc[p] \in {"analyze", "send"} /\ pc'[p] = "alert" /\ created' = created
        /\ work'[p] = IF pc[p] = "send" THEN work[p] ELSE created[p]
        /\ \A q \in Procs \ {p} : pc'[q] = pc[q]
        /\ UNCHANGED <<ipOf, alertedAt, blockedAt, bannedAt>>
    BY <1>7 DEF AnalysisDone, AlertFails, TypeOK
  <2>2. Unmarked(p)' /\ StillClear(p)'
    BY <1>0, <2>1 DEF Unmarked, StillClear, Detecting, Alerting, Blocking
  <2> QED BY <1>1, <1>2, <2>1, <2>2
<1>8. ASSUME NEW p \in Procs, NEW i \in Ids, AlertCheck(p, i) PROVE StageInv'
  <2>1. /\ pc[p] = "alert" /\ i \in work[p] /\ work'[p] = work[p] \ {i}
        /\ \/ pc'[p] = "send" /\ found'[p] = i /\ ~InCooldown(i)
           \/ pc'[p] = "alert"
        /\ \A q \in Procs \ {p} : pc'[q] = pc[q]
        /\ UNCHANGED <<clock, created, ipOf, alertedAt, blockedAt, bannedAt>>
    BY <1>8 DEF AlertCheck, IsNext, TypeOK
  <2>2. alertedAt[i] = Never
    BY <1>0, <2>1 DEF Unmarked, Alerting
  <2>3. Unmarked(p)'
    BY <1>0, <2>1, <2>2 DEF Unmarked, Detecting, Alerting, Blocking
  <2>4. ASSUME pc'[p] = "send", NEW j \in Ids, ipOf[j] = ipOf[i]
        PROVE  alertedAt[j] < clock - Cooldown
    <3>1. Never < clock - Cooldown
      BY <1>0, NeverLow
    <3>2. CASE j = i \/ j \notin 1 .. count
      BY <1>0, <2>2, <3>1, <3>2
    <3>3. CASE j \in 1 .. count \ {i}
      BY <1>0, <2>1, <2>4, <3>3 DEF InCooldown
    <3> QED BY <3>2, <3>3
  <2>5. StillClear(p)'
    BY <2>1, <2>4 DEF StillClear, Blocking
  <2> QED BY <1>1, <1>2, <2>1, <2>3, <2>5
<1>9. ASSUME NEW p \in Procs, AlertLeaves(p) PROVE StageInv'
  <2>1. /\ pc[p] = "send" /\ pc'[p] = "mark" /\ found' = found
        /\ \A q \in Procs \ {p} : pc'[q] = pc[q]
        /\ UNCHANGED <<created, work, ipOf, alertedAt, blockedAt, bannedAt>>
    BY <1>9 DEF AlertLeaves, TypeOK
  <2>2. Unmarked(p)' /\ StillClear(p)'
    BY <1>0, <2>1 DEF Unmarked, StillClear, Detecting, Alerting, Blocking
  <2> QED BY <1>1, <1>2, <2>1, <2>2
<1>10. ASSUME NEW p \in Procs, MarkAlerted(p) PROVE StageInv'
  <2>1. /\ pc[p] = "mark" /\ pc'[p] = "alert"
        /\ alertedAt' = [alertedAt EXCEPT ![found[p]] = clock]
        /\ \A q \in Procs \ {p} : pc'[q] = pc[q]
        /\ UNCHANGED <<created, work, ipOf, blockedAt, bannedAt>>
    BY <1>10 DEF MarkAlerted, TypeOK
  <2>2. found[p] \notin work[p]
    BY <1>0, <2>1 DEF InTable
  <2>3. \A i \in work[p] : alertedAt'[i] = alertedAt[i]
    BY <1>0, <2>1, <2>2 DEF TypeOK
  <2>4. Unmarked(p)' /\ StillClear(p)'
    BY <1>0, <2>1, <2>3 DEF Unmarked, StillClear, Detecting, Alerting, Blocking
  <2> QED BY <1>1, <1>2, <2>1, <2>4
<1>11. ASSUME NEW p \in Procs, AlertsDone(p) \/ LoginsUnread(p) PROVE StageInv'
  <2>1. /\ pc[p] = "alert" /\ pc'[p] = "soar" /\ now'[p] = clock
        /\ work'[p] = created[p]
        /\ \A q \in Procs \ {p} : pc'[q] = pc[q]
        /\ UNCHANGED <<created, ipOf, alertedAt, blockedAt, bannedAt>>
    BY <1>11 DEF AlertsDone, LoginsUnread, ToBlock, TypeOK
  <2>2. Unmarked(p)' /\ StillClear(p)'
    BY <1>0, <2>1 DEF Unmarked, StillClear, Detecting, Alerting, Blocking
  <2> QED BY <1>1, <1>2, <2>1, <2>2
<1>12. ASSUME NEW p \in Procs, NEW i \in Ids, SoarCheck(p, i) PROVE StageInv'
  <2>1. /\ pc[p] = "soar" /\ i \in work[p] /\ work'[p] = work[p] \ {i}
        /\ \/ pc'[p] = "ban" /\ found'[p] = i /\ ~AlreadyBlocked(i, now[p])
           \/ pc'[p] = "soar"
        /\ \A q \in Procs \ {p} : pc'[q] = pc[q]
        /\ UNCHANGED <<now, created, ipOf, alertedAt, blockedAt, bannedAt>>
    BY <1>12 DEF SoarCheck, IsNext, TypeOK
  <2>2. blockedAt[i] = Never
    BY <1>0, <2>1 DEF Unmarked, Blocking
  <2>3. Unmarked(p)'
    BY <1>0, <2>1, <2>2 DEF Unmarked, Detecting, Alerting, Blocking
  <2>4. ASSUME pc'[p] = "ban", NEW j \in Ids, ipOf[j] = ipOf[i]
        PROVE  blockedAt[j] < now[p] - BlockLookback
    <3>1. Never < now[p] - BlockLookback
      BY <1>0, NeverLow
    <3>2. CASE j = i \/ j \notin 1 .. count
      BY <1>0, <2>2, <3>1, <3>2
    <3>3. CASE j \in 1 .. count \ {i}
      BY <1>0, <2>1, <2>4, <3>3 DEF AlreadyBlocked
    <3> QED BY <3>2, <3>3
  <2>5. StillClear(p)'
    BY <1>0, <2>1, <2>4 DEF StillClear, Blocking
  <2> QED BY <1>1, <1>2, <2>1, <2>3, <2>5
<1>13. ASSUME NEW p \in Procs, Ban(p) PROVE StageInv'
  <2>1. /\ pc[p] = "ban" /\ pc'[p] = "record" /\ found' = found /\ now' = now
        /\ bannedAt' = [bannedAt EXCEPT ![ipOf[found[p]]] = now[p]]
        /\ \A q \in Procs \ {p} : pc'[q] = pc[q]
        /\ UNCHANGED <<created, work, ipOf, alertedAt, blockedAt>>
        /\ found[p] \in Ids
    BY <1>0, <1>13 DEF Ban, InTable, TypeOK
  <2>2. /\ bannedAt'[ipOf[found[p]]] = now[p]
        /\ \A ip \in IPs : bannedAt[ip] <= bannedAt'[ip] /\ bannedAt'[ip] <= now[p]
                           /\ bannedAt'[ip] \in Int
    <3>1. \A ip \in IPs : bannedAt[ip] <= now[p]
      BY <1>0, <2>1 DEF StillClear, Blocking
    <3> QED BY <1>0, <2>1, <3>1 DEF TypeOK
  <2>3. Unmarked(p)' /\ StillClear(p)'
    BY <1>0, <2>1, <2>2 DEF Unmarked, StillClear, Detecting, Alerting, Blocking
  <2>4. Covered'
    BY <1>0, <2>1, <2>2 DEF Covered
  <2> QED BY <1>1, <2>1, <2>3, <2>4
<1>14. ASSUME NEW p \in Procs, RecordBlock(p) PROVE StageInv'
  <2>1. /\ pc[p] = "record" /\ pc'[p] = "soar" /\ now' = now
        /\ blockedAt' = [blockedAt EXCEPT ![found[p]] = now[p]]
        /\ \A q \in Procs \ {p} : pc'[q] = pc[q]
        /\ UNCHANGED <<created, work, ipOf, alertedAt, bannedAt>>
        /\ found[p] \notin work[p]
        /\ bannedAt[ipOf[found[p]]] = now[p]
        /\ \A ip \in IPs : bannedAt[ip] <= now[p]
    BY <1>0, <1>14 DEF RecordBlock, InTable, StillClear, Blocking, TypeOK
  <2>2. \A i \in work[p] : blockedAt'[i] = blockedAt[i]
    BY <1>0, <2>1 DEF TypeOK
  <2>3. Unmarked(p)' /\ StillClear(p)'
    BY <1>0, <2>1, <2>2 DEF Unmarked, StillClear, Detecting, Alerting, Blocking
  <2>4. Covered'
    BY <1>0, <2>1 DEF Covered, TypeOK
  <2> QED BY <1>1, <2>1, <2>3, <2>4
<1>15. ASSUME NEW p \in Procs, BanFails(p) \/ CommitFails(p) PROVE StageInv'
  <2>1. /\ \/ pc[p] = "mark" /\ pc'[p] = "alert"
           \/ pc[p] \in {"ban", "record"} /\ pc'[p] = "soar"
        /\ \A q \in Procs \ {p} : pc'[q] = pc[q]
        /\ UNCHANGED <<now, created, work, ipOf, alertedAt, blockedAt, bannedAt>>
    BY <1>15 DEF BanFails, CommitFails, Drop, TypeOK
  <2>2. Unmarked(p)' /\ StillClear(p)'
    BY <1>0, <2>1 DEF Unmarked, StillClear, Detecting, Alerting, Blocking
  <2>3. pc[p] # "idle"
    BY <2>1
  <2> QED BY <1>1, <1>2, <2>1, <2>2, <2>3
<1>16. ASSUME NEW p \in Procs,
              \/ SoarDone(p) \/ CycleFails(p) \/ SoarUnavailable(p)
              \/ EndCycle(p) \/ Crash(p)
       PROVE  StageInv'
  <2>1. /\ pc[p] # "idle" /\ pc'[p] \in {"unlock", "idle"}
        /\ \A q \in Procs \ {p} : pc'[q] = pc[q]
        /\ UNCHANGED <<ipOf, blockedAt, bannedAt>>
    BY <1>16 DEF SoarDone, CycleFails, SoarUnavailable, EndCycle, Crash, Drop, TypeOK
  <2> QED BY <1>1, <1>2, <2>1, StageIdle
<1>19. ASSUME NEW p \in Procs, NEW i \in Ids, CheckFails(p, i) PROVE StageInv'
  <2>1. /\ pc[p] \in {"alert", "soar"} /\ work'[p] = work[p] \ {i}
        /\ UNCHANGED <<pc, now, created, ipOf, alertedAt, blockedAt, bannedAt>>
    BY <1>19 DEF CheckFails, Drop, TypeOK
  <2>2. Unmarked(p)' /\ StillClear(p)'
    BY <1>0, <2>1 DEF Unmarked, StillClear, Detecting, Alerting, Blocking
  <2>3. pc[p] # "idle"
    BY <2>1
  <2> QED BY <1>1, <1>2, <2>1, <2>2, <2>3
<1>17. CASE \E p \in Procs : Step(p)
  BY <1>5, <1>6, <1>7, <1>8, <1>9, <1>10, <1>11, <1>12, <1>13, <1>14, <1>16,
     <1>17 DEF Step
<1>18. CASE \E p \in Procs : Trouble(p)
  BY <1>11, <1>15, <1>16, <1>18, <1>19 DEF Trouble
<1> QED BY <1>3, <1>4, <1>17, <1>18 DEF Next

LEMMA StageInit == Init => StageInv
BY DEF Init, StageInv, Unmarked, StillClear, Detecting, Alerting, Blocking

\* alerted_at says that a channel took the message and blocked_at that a ban
\* took effect, then or later, whichever stage failed or process died.
THEOREM SocMarksAreTrue ==
  ASSUME Dialect = "postgresql" PROVE Spec => []MarksAreTrue
<1>1. Init => TypeOK /\ InHandOK /\ DedupeInv
  BY SocInitTypes, DedupeInit
<1>2. TypeOK /\ TypeOK' /\ RowInv /\ DedupeInv /\ StageInv /\ [Next]_vars => StageInv'
  BY StageStep DEF DedupeInv
<1>3. RowInv /\ StageInv => MarksAreTrue
  BY DEF RowInv, MarksStand, StageInv, MarksAreTrue
<1> QED BY <1>1, <1>2, <1>3, RowInit, StageInit, TypeStep, InHandStep, DedupeStep,
           RowStep, PTL DEF Spec

\* Steps that leave the records and the announcements alone, and no process
\* leaves the two steps at which a record is due.
LEMMA QuietKept ==
  ASSUME TypeOK, TypeOK', QuietInv, count <= count',
         \A j \in 1 .. count : /\ ipOf'[j] = ipOf[j]
                               /\ alertedAt'[j] = alertedAt[j]
                               /\ blockedAt'[j] = blockedAt[j],
         UNCHANGED <<sentAt, bannedAt, spam, reban>>,
         fails' + crashes' = 0 =>
           /\ fails + crashes = 0
           /\ \A q \in Procs : pc[q] \in {"mark", "record"} =>
                pc'[q] = pc[q] /\ found'[q] = found[q] /\ ipOf'[found[q]] = ipOf[found[q]]
  PROVE  QuietInv'
<1> SUFFICES ASSUME fails' + crashes' = 0 PROVE QuietInv'
  BY DEF QuietInv
<1>1. 1 .. count \subseteq 1 .. count'
  BY BoundsAssumption DEF TypeOK
<1>2. \A ip \in IPs : AlertOnRecord(ip)'
  BY <1>1 DEF QuietInv, AlertOnRecord
<1>3. \A ip \in IPs : BanOnRecord(ip)'
  BY <1>1 DEF QuietInv, BanOnRecord
<1>4. ~spam' /\ ~reban'
  BY DEF QuietInv
<1> QED BY <1>2, <1>3, <1>4 DEF QuietInv

LEMMA QuietStep ==
  ASSUME Dialect = "postgresql", TypeOK, TypeOK', RowInv, OnlyHolder, StageInv,
         QuietInv, [Next]_vars
  PROVE  QuietInv'
<1> USE DEF table, cycle, history, bounds, GoTo, DropLocals, Take
<1>a. 1 .. count \subseteq Ids
  BY BoundsAssumption DEF TypeOK, Ids
<1>b. ASSUME NEW p \in Procs, pc[p] \in {"send", "mark", "ban", "record"}
      PROVE  found[p] \in Ids /\ found[p] \in 1 .. count
  BY <1>a, <1>b DEF RowInv, InTable
<1>c. /\ clock \in 0 .. MaxTime /\ count \in Nat /\ fails \in Nat /\ crashes \in Nat
      /\ \A p \in Procs : now[p] \in 0 .. MaxTime
      /\ \A i \in Ids : ipOf[i] \in IPs
      /\ Cooldown \in Nat /\ BlockLookback \in Nat
  BY BoundsAssumption DEF TypeOK
<1>d. /\ \A ip \in IPs : /\ sentAt[ip] \in Int /\ sentAt[ip] <= clock
                         /\ bannedAt[ip] \in Int
      /\ \A i \in Ids : alertedAt[i] \in Int /\ blockedAt[i] \in Int
  BY NeverLow DEF TypeOK, RowInv, Dated
<1>e. /\ Never \in Int
      /\ \A t \in 0 .. MaxTime : Never < t - Cooldown /\ Never < t - BlockLookback
  BY NeverLow
<1>1. CASE Tick \/ People \/ UNCHANGED vars
  <2>1. UNCHANGED <<count, ipOf, alertedAt, blockedAt, sentAt, bannedAt, spam,
                    reban, pc, found, fails, crashes>>
    BY <1>1 DEF Tick, People, SetEstado, ManualBegin, ManualStore, ManualGivesUp,
                AdminLogin, vars
  <2> QED BY <1>a, <1>b, <1>c, <1>d, <1>e, <2>1, QuietKept
<1>2. ASSUME NEW p \in Procs,
             \/ \E attackers \in SUBSET IPs : BeginCycle(p, attackers)
             \/ \E ip \in IPs : Dedupe(p, ip)
             \/ \E level \in Severities : Update(p, level)
             \/ \E i \in Ids : Analyze(p, i) \/ AlertCheck(p, i) \/ SoarCheck(p, i)
             \/ DetectDone(p) \/ ChatDone(p) \/ AnalysisDone(p) \/ AlertFails(p)
             \/ AlertsDone(p) \/ SoarDone(p) \/ EndCycle(p)
      PROVE  QuietInv'
  <2>1. /\ UNCHANGED <<count, ipOf, alertedAt, blockedAt, sentAt, bannedAt, spam,
                       reban, fails, crashes>>
        /\ pc[p] \notin {"mark", "record"}
        /\ \A q \in Procs \ {p} : pc'[q] = pc[q] /\ found'[q] = found[q]
    <3>1. CASE \/ \E attackers \in SUBSET IPs : BeginCycle(p, attackers)
               \/ \E ip \in IPs : Dedupe(p, ip)
               \/ \E level \in Severities : Update(p, level)
      BY <3>1 DEF BeginCycle, Dedupe, Update, TypeOK
    <3>2. CASE \E i \in Ids : Analyze(p, i) \/ AlertCheck(p, i) \/ SoarCheck(p, i)
      BY <3>2 DEF Analyze, AlertCheck, SoarCheck, TypeOK
    <3>3. CASE \/ DetectDone(p) \/ ChatDone(p) \/ AnalysisDone(p) \/ AlertFails(p)
               \/ AlertsDone(p) \/ SoarDone(p) \/ EndCycle(p)
      BY <3>3 DEF DetectDone, ChatDone, AnalysisDone, AlertFails, AlertsDone, SoarDone, EndCycle, TypeOK
    <3> QED BY <1>2, <3>1, <3>2, <3>3
  <2> QED BY <1>a, <1>b, <1>c, <1>d, <1>e, <2>1, QuietKept
<1>3. ASSUME NEW p \in Procs, NEW level \in Severities, Create(p, level)
      PROVE  QuietInv'
  <2>1. PICK n \in Ids : n = count + 1
    BY <1>a, <1>b, <1>c, <1>d, <1>e, <1>3, BoundsAssumption DEF Create, Ids
  <2>2. /\ count' = n /\ pc[p] = "write"
        /\ UNCHANGED <<alertedAt, blockedAt, sentAt, bannedAt, spam, reban,
                       found, fails, crashes>>
        /\ \A q \in Procs \ {p} : pc'[q] = pc[q]
        /\ \A i \in Ids : i # n => ipOf'[i] = ipOf[i]
    BY <1>3, <2>1 DEF Create, TypeOK
  <2>3. count <= count' /\ n \notin 1 .. count
    BY <1>a, <1>b, <1>c, <1>d, <1>e, <2>1, <2>2
  <2>4. \A j \in 1 .. count : ipOf'[j] = ipOf[j]
    BY <1>a, <1>b, <1>c, <1>d, <1>e, <2>2, <2>3
  <2>5. \A q \in Procs : pc[q] \in {"mark", "record"} =>
          pc'[q] = pc[q] /\ ipOf'[found[q]] = ipOf[found[q]]
    BY <1>a, <1>b, <1>c, <1>d, <1>e, <2>2, <2>4
  <2> QED BY <2>2, <2>3, <2>4, <2>5, QuietKept
<1>4. ASSUME NEW p \in Procs,
             AlertLeaves(p) \/ MarkAlerted(p) \/ Ban(p) \/ RecordBlock(p)
      PROVE  QuietInv'
  <2> SUFFICES ASSUME fails' + crashes' = 0 PROVE QuietInv'
    BY DEF QuietInv
  <2>1. /\ UNCHANGED <<count, ipOf, fails, crashes>>
        /\ pc[p] # "idle" /\ found[p] \in 1 .. count /\ found[p] \in Ids
        /\ \A q \in Procs \ {p} : pc'[q] = pc[q] /\ found'[q] = found[q]
    BY <1>a, <1>b, <1>c, <1>d, <1>e, <1>4 DEF AlertLeaves, MarkAlerted, Ban, RecordBlock, TypeOK
  <2>2. /\ ~spam /\ ~reban
        /\ \A x \in IPs : AlertOnRecord(x) /\ BanOnRecord(x)
    BY <2>1 DEF QuietInv
  <2>3. \A q \in Procs \ {p} : pc[q] = "idle"
    BY <2>1, Alone
  <2>4. PICK ip \in IPs : ip = ipOf[found[p]]
    BY <1>a, <1>b, <1>c, <1>d, <1>e, <2>1
  <2>5. CASE AlertLeaves(p)
    <3>1. /\ pc[p] = "send" /\ pc'[p] = "mark" /\ found' = found
          /\ sentAt' = [sentAt EXCEPT ![ip] = clock]
          /\ spam' = (spam \/ sentAt[ip] >= clock - Cooldown)
          /\ UNCHANGED <<alertedAt, blockedAt, bannedAt, reban>>
      BY <2>4, <2>5 DEF AlertLeaves, TypeOK
    <3>2. sentAt[ip] < clock - Cooldown
      <4>1. CASE sentAt[ip] = Never
        BY <1>a, <1>b, <1>c, <1>d, <1>e, <4>1
      <4>2. CASE \E j \in 1 .. count : ipOf[j] = ip /\ alertedAt[j] >= sentAt[ip]
        <5>1. \A j \in Ids : ipOf[j] = ip => alertedAt[j] < clock - Cooldown
          BY <2>4, <3>1 DEF StageInv, StillClear
        <5> QED BY <1>a, <1>b, <1>c, <1>d, <1>e, <4>2, <5>1
      <4> QED BY <2>2, <2>3, <3>1, <4>1, <4>2 DEF AlertOnRecord
    <3>3. ~(sentAt[ip] >= clock - Cooldown)
      BY <1>a, <1>b, <1>c, <1>d, <1>e, <3>2
    <3>4. ~spam'
      BY <2>2, <3>1, <3>3, Zenon
    <3>5. ASSUME NEW x \in IPs PROVE AlertOnRecord(x)'
      <4>1. CASE x = ip
        BY <2>1, <2>4, <3>1, <4>1 DEF AlertOnRecord
      <4>2. CASE x # ip
        <5>1. sentAt'[x] = sentAt[x]
          BY <3>1, <4>2 DEF TypeOK
        <5>2. \A q \in Procs : pc[q] # "mark"
          BY <2>3, <3>1
        <5> QED BY <2>1, <2>2, <3>1, <5>1, <5>2 DEF AlertOnRecord
      <4> QED BY <4>1, <4>2
    <3>6. ASSUME NEW x \in IPs PROVE BanOnRecord(x)'
      <4>1. \A q \in Procs : pc[q] # "record"
        BY <2>3, <3>1
      <4> QED BY <2>1, <2>2, <3>1, <4>1 DEF BanOnRecord
    <3> QED BY <2>2, <3>1, <3>4, <3>5, <3>6 DEF QuietInv
  <2>6. CASE MarkAlerted(p)
    <3>1. /\ pc[p] = "mark"
          /\ alertedAt' = [alertedAt EXCEPT ![found[p]] = clock]
          /\ UNCHANGED <<blockedAt, bannedAt, sentAt, spam, reban>>
      BY <2>6 DEF MarkAlerted
    <3>2. alertedAt'[found[p]] = clock /\ \A j \in Ids : alertedAt'[j] >= alertedAt[j]
      <4>1. alertedAt[found[p]] = Never /\ Never <= clock
        BY <1>a, <1>b, <1>c, <1>d, <1>e, <3>1, NeverLow DEF StageInv, Unmarked
      <4> QED BY <1>a, <1>b, <1>c, <1>d, <1>e, <2>1, <3>1, <4>1 DEF TypeOK
    <3>3. \A j \in Ids : alertedAt'[j] \in Int
      BY <1>a, <1>b, <1>c, <1>d, <1>e, <3>1 DEF TypeOK
    <3>4. ASSUME NEW x \in IPs PROVE AlertOnRecord(x)'
      <4>1. CASE x = ip
        BY <1>a, <1>b, <1>c, <1>d, <1>e, <2>1, <2>4, <3>1, <3>2, <4>1 DEF AlertOnRecord
      <4>2. CASE x # ip
        <5>1. \/ sentAt[x] = Never
              \/ \E j \in 1 .. count : ipOf[j] = x /\ alertedAt[j] >= sentAt[x]
          BY <2>2, <2>3, <2>4, <4>2 DEF AlertOnRecord
        <5> QED BY <1>a, <1>b, <1>c, <1>d, <1>e, <2>1, <3>1, <3>2, <3>3, <5>1 DEF AlertOnRecord
      <4> QED BY <4>1, <4>2
    <3>5. ASSUME NEW x \in IPs PROVE BanOnRecord(x)'
      <4>1. \A q \in Procs : pc[q] # "record"
        BY <2>3, <3>1
      <4> QED BY <2>1, <2>2, <3>1, <4>1 DEF BanOnRecord
    <3> QED BY <2>2, <3>1, <3>4, <3>5 DEF QuietInv
  <2>7. CASE Ban(p)
    <3>1. /\ pc[p] = "ban" /\ pc'[p] = "record" /\ found' = found
          /\ bannedAt' = [bannedAt EXCEPT ![ip] = now[p]]
          /\ reban' = (reban \/ bannedAt[ip] >= now[p] - BlockLookback)
          /\ UNCHANGED <<alertedAt, blockedAt, sentAt, spam>>
      BY <2>4, <2>7 DEF Ban, TypeOK
    <3>2. bannedAt[ip] < now[p] - BlockLookback
      <4>1. CASE bannedAt[ip] = Never
        BY <1>a, <1>b, <1>c, <1>d, <1>e, <4>1
      <4>2. CASE \E j \in 1 .. count : ipOf[j] = ip /\ blockedAt[j] >= bannedAt[ip]
        <5>1. \A j \in Ids : ipOf[j] = ip => blockedAt[j] < now[p] - BlockLookback
          BY <2>4, <3>1 DEF StageInv, StillClear
        <5>2. now[p] \in Int
          BY <1>a, <1>b, <1>c, <1>d, <1>e
        <5> QED BY <1>a, <1>b, <1>c, <1>d, <1>e, <4>2, <5>1, <5>2
      <4> QED BY <2>2, <2>3, <3>1, <4>1, <4>2 DEF BanOnRecord
    <3>3. ~(bannedAt[ip] >= now[p] - BlockLookback)
      BY <1>a, <1>b, <1>c, <1>d, <1>e, <3>2
    <3>4. ~reban'
      BY <2>2, <3>1, <3>3, Zenon
    <3>5. ASSUME NEW x \in IPs PROVE BanOnRecord(x)'
      <4>1. CASE x = ip
        BY <2>1, <2>4, <3>1, <4>1 DEF BanOnRecord
      <4>2. CASE x # ip
        <5>1. bannedAt'[x] = bannedAt[x]
          BY <3>1, <4>2 DEF TypeOK
        <5>2. \A q \in Procs : pc[q] # "record"
          BY <2>3, <3>1
        <5> QED BY <2>1, <2>2, <3>1, <5>1, <5>2 DEF BanOnRecord
      <4> QED BY <4>1, <4>2
    <3>6. ASSUME NEW x \in IPs PROVE AlertOnRecord(x)'
      <4>1. \A q \in Procs : pc[q] # "mark"
        BY <2>3, <3>1
      <4> QED BY <2>1, <2>2, <3>1, <4>1 DEF AlertOnRecord
    <3> QED BY <2>2, <3>1, <3>4, <3>5, <3>6 DEF QuietInv
  <2>8. CASE RecordBlock(p)
    <3>1. /\ pc[p] = "record"
          /\ blockedAt' = [blockedAt EXCEPT ![found[p]] = now[p]]
          /\ UNCHANGED <<alertedAt, bannedAt, sentAt, spam, reban>>
          /\ bannedAt[ip] = now[p]
      BY <2>4, <2>8 DEF RecordBlock, StageInv, StillClear
    <3>2. blockedAt'[found[p]] = now[p] /\ \A j \in Ids : blockedAt'[j] >= blockedAt[j]
      <4>1. blockedAt[found[p]] = Never /\ Never <= now[p]
        BY <1>a, <1>b, <1>c, <1>d, <1>e, <3>1, NeverLow DEF StageInv, Unmarked
      <4> QED BY <1>a, <1>b, <1>c, <1>d, <1>e, <2>1, <3>1, <4>1 DEF TypeOK
    <3>3. \A j \in Ids : blockedAt'[j] \in Int
      BY <1>a, <1>b, <1>c, <1>d, <1>e, <3>1 DEF TypeOK
    <3>4. ASSUME NEW x \in IPs PROVE BanOnRecord(x)'
      <4>1. CASE x = ip
        BY <1>a, <1>b, <1>c, <1>d, <1>e, <2>1, <2>4, <3>1, <3>2, <4>1 DEF BanOnRecord
      <4>2. CASE x # ip
        <5>1. \/ bannedAt[x] = Never
              \/ \E j \in 1 .. count : ipOf[j] = x /\ blockedAt[j] >= bannedAt[x]
          BY <2>2, <2>3, <2>4, <4>2 DEF BanOnRecord
        <5> QED BY <1>a, <1>b, <1>c, <1>d, <1>e, <2>1, <3>1, <3>2, <3>3, <5>1 DEF BanOnRecord
      <4> QED BY <4>1, <4>2
    <3>5. ASSUME NEW x \in IPs PROVE AlertOnRecord(x)'
      <4>1. \A q \in Procs : pc[q] # "mark"
        BY <2>3, <3>1
      <4> QED BY <2>1, <2>2, <3>1, <4>1 DEF AlertOnRecord
    <3> QED BY <2>2, <3>1, <3>4, <3>5 DEF QuietInv
  <2> QED BY <1>4, <2>5, <2>6, <2>7, <2>8
\* What counts as trouble is excused from now on.
<1>5. ASSUME NEW p \in Procs, Trouble(p) PROVE QuietInv'
  <2>1. fails' + crashes' # 0
    <3>1. \/ fails' = fails + 1 /\ crashes' = crashes
          \/ fails' = fails /\ crashes' = crashes + 1
      BY <1>5 DEF Trouble, BanFails, CommitFails, CycleFails, SoarUnavailable, CheckFails,
                  LoginsUnread, Crash
    <3> QED BY <1>c, <3>1
  <2> QED BY <2>1 DEF QuietInv
<1>6. CASE \E p \in Procs : Step(p)
  BY <1>2, <1>3, <1>4, <1>6 DEF Step
<1> QED BY <1>1, <1>2, <1>5, <1>6 DEF Next

LEMMA QuietInit == Init => QuietInv
BY DEF Init, QuietInv, AlertOnRecord, BanOnRecord

\* Everything the stages rest on, under the advisory lock.
LEMMA StagesAlways ==
  ASSUME Dialect = "postgresql" PROVE Spec => [](TypeOK /\ QuietInv)
<1>1. Init => TypeOK /\ InHandOK /\ DedupeInv
  BY SocInitTypes, DedupeInit
<1>2. TypeOK /\ TypeOK' /\ RowInv /\ DedupeInv /\ StageInv /\ [Next]_vars => StageInv'
  BY StageStep DEF DedupeInv
<1>3. TypeOK /\ TypeOK' /\ RowInv /\ DedupeInv /\ StageInv /\ QuietInv /\ [Next]_vars
        => QuietInv'
  BY QuietStep DEF DedupeInv
<1> QED BY <1>1, <1>2, <1>3, RowInit, StageInit, QuietInit, TypeStep, InHandStep,
           DedupeStep, RowStep, PTL DEF Spec

\* notify_incidents announces no IP twice within the cooldown, and
\* maybe_block_incidents bans none twice within its lookback, unless a call or
\* a commit failed or a process died: the check, the call and the commit of a
\* stage are apart, and what one cycle leaves the next one finds.
THEOREM SocSpamNeedsTrouble ==
  ASSUME Dialect = "postgresql" PROVE Spec => []SpamNeedsTrouble
<1>1. TypeOK /\ QuietInv => SpamNeedsTrouble
  BY DEF TypeOK, QuietInv, SpamNeedsTrouble
<1> QED BY <1>1, StagesAlways, PTL

\* The same for the anti-repetition guard of _evaluate_and_block.
THEOREM SocRebanNeedsTrouble ==
  ASSUME Dialect = "postgresql" PROVE Spec => []RebanNeedsTrouble
<1>1. TypeOK /\ QuietInv => RebanNeedsTrouble
  BY DEF TypeOK, QuietInv, RebanNeedsTrouble
<1> QED BY <1>1, StagesAlways, PTL
-----------------------------------------------------------------------------
(* Severe incidents and administrators, with or without the lock.          *)

\* An incident that needs a block has one, or its IP is excused.
Handled(i) ==
  BornSevere(i) => Blocked(ipOf[i]) \/ ipOf[i] \in Unbannable \/ Audited(ipOf[i])

AdminsAudited == \A p \in Procs : \A ip \in adminIps[p] : Audited(ip)

\* Whoever no cycle has in hand is handled, and so is what the block stage is
\* through with, but for the one it is about to ban and those it dropped.
SevereInv ==
  /\ \A i \in 1 .. count \ dropped : InHand(i) \/ Handled(i)
  /\ \A p \in Procs : pc[p] \in Blocking =>
       \A i \in created[p] \ work[p] :
         i \in dropped \/ Handled(i) \/ (pc[p] = "ban" /\ i = found[p])

\* A row of audit_log stays.
LEMMA AuditKept == ASSUME [Next]_vars PROVE audit \subseteq audit'
<1> USE DEF table, cycle, history, bounds, DropLocals
<1>1. CASE Tick \/ People \/ UNCHANGED vars
  BY <1>1 DEF Tick, People, SetEstado, ManualBegin, ManualStore, ManualGivesUp, AdminLogin, vars
<1>2. ASSUME NEW p \in Procs, NEW attackers \in SUBSET IPs, BeginCycle(p, attackers) PROVE audit' = audit
  BY <1>2 DEF BeginCycle
<1>3. ASSUME NEW p \in Procs, Step(p) PROVE audit' = audit
  BY <1>3 DEF Step, Dedupe, Update, Create, DetectDone, Analyze, ChatDone, AnalysisDone, AlertCheck,
     AlertLeaves, AlertFails, MarkAlerted, AlertsDone, SoarCheck, Ban, RecordBlock, SoarDone, EndCycle
<1>4. ASSUME NEW p \in Procs, Trouble(p) PROVE audit' = audit
  BY <1>4 DEF Trouble, SoarUnavailable, BanFails, CommitFails, CycleFails, LoginsUnread, CheckFails, Crash
<1> QED BY <1>1, <1>2, <1>3, <1>4 DEF Next

\* Who was protected because of a login is still on record with one.
LEMMA AdminsStep ==
  ASSUME TypeOK, TypeOK', AdminsAudited, [Next]_vars PROVE AdminsAudited'
<1> USE DEF table, cycle, history, bounds, DropLocals
<1>1. \A ip : Audited(ip) => Audited(ip)'
  BY AuditKept DEF Audited
<1>2. ASSUME NEW p \in Procs, AlertsDone(p) PROVE AdminsAudited'
  <2>1. adminIps' = [adminIps EXCEPT ![p] = RecentAdminIPs(clock)]
    BY <1>2 DEF AlertsDone
  <2>2. \A ip \in RecentAdminIPs(clock) : Audited(ip)
    BY DEF RecentAdminIPs, Audited
  <2>3. \A q \in Procs : \A ip \in adminIps'[q] : Audited(ip)
    BY <2>1, <2>2 DEF AdminsAudited, TypeOK
  <2> QED BY <1>1, <2>3 DEF AdminsAudited
<1>3. ASSUME \A q \in Procs : adminIps'[q] \subseteq adminIps[q]
      PROVE  AdminsAudited'
  BY <1>1, <1>3 DEF AdminsAudited, TypeOK
<1>4. CASE Tick \/ People \/ UNCHANGED vars
  <2>1. adminIps' = adminIps
    BY <1>4 DEF Tick, People, SetEstado, ManualBegin, ManualStore, ManualGivesUp,
                AdminLogin, vars
  <2> QED BY <1>3, <2>1
<1>5. ASSUME NEW p \in Procs,
             \/ \E attackers \in SUBSET IPs : BeginCycle(p, attackers)
             \/ \E ip \in IPs : Dedupe(p, ip)
             \/ \E level \in Severities : Update(p, level) \/ Create(p, level)
             \/ \E i \in Ids : Analyze(p, i) \/ AlertCheck(p, i) \/ SoarCheck(p, i)
             \/ DetectDone(p) \/ ChatDone(p) \/ AnalysisDone(p) \/ AlertLeaves(p)
             \/ AlertFails(p) \/ MarkAlerted(p) \/ Ban(p) \/ RecordBlock(p)
             \/ SoarDone(p) \/ EndCycle(p) \/ Trouble(p)
      PROVE  AdminsAudited'
  <2>1. adminIps' = adminIps \/ adminIps' = [adminIps EXCEPT ![p] = {}]
    BY <1>5 DEF BeginCycle, Dedupe, Update, Create, DetectDone, Analyze, ChatDone,
       AnalysisDone, AlertCheck, AlertLeaves, AlertFails, MarkAlerted, SoarCheck,
       Ban, RecordBlock, SoarDone, EndCycle, Trouble, BanFails, CommitFails,
       CycleFails, SoarUnavailable, LoginsUnread, CheckFails, Crash
  <2> QED BY <1>3, <2>1 DEF TypeOK
<1> QED BY <1>2, <1>4, <1>5 DEF Next, Step

\* Severities only rise and what rises is noted; bans and audit rows stay.
LEMMA HandledStep ==
  ASSUME TypeOK, TypeOK', InHandOK, RowInv, [Next]_vars, NEW i \in 1 .. count,
         Handled(i)
  PROVE  Handled(i)'
<1> USE DEF table, cycle, history, bounds, DropLocals
<1>a. i \in Ids /\ count \in Nat
  BY BoundsAssumption DEF TypeOK, Ids
<1>b. clock # Never /\ \A p \in Procs : now[p] # Never
  BY NeverLow DEF TypeOK
<1>c. ipOf[i] \in IPs /\ MaxSev \in Int /\ Threshold \in Int /\ \A j \in Ids : sev[j] \in Int
  BY <1>a, BoundsAssumption DEF TypeOK, Severities
<1>0. /\ i \in Ids /\ ipOf[i] \in IPs /\ count \in Nat /\ clock # Never
      /\ \A p \in Procs : now[p] # Never
      /\ Threshold \in Int /\ MaxSev \in Int
      /\ \A j \in Ids : sev[j] \in Int
  BY <1>a, <1>b, <1>c
<1>1. ASSUME sev' = sev, raised' = raised, ipOf'[i] = ipOf[i],
             \/ bannedAt' = bannedAt
             \/ \E ip \in IPs, p \in Procs : bannedAt' = [bannedAt EXCEPT ![ip] = now[p]]
      PROVE  Handled(i)'
  <2>1. Audited(ipOf[i]) => Audited(ipOf[i])'
    BY <1>1, AuditKept DEF Audited
  <2>2. bannedAt[ipOf[i]] # Never => bannedAt'[ipOf[i]] # Never
    BY <1>0, <1>1 DEF TypeOK
  <2> QED BY <1>1, <2>1, <2>2 DEF Handled, BornSevere, Blocked
<1>2. ASSUME NEW j \in Ids, NEW level \in Int, SetSeverity(j, level), level >= sev[j],
             ipOf' = ipOf, audit' = audit, bannedAt' = bannedAt
      PROVE  Handled(i)'
  <2>1. sev'[i] >= Threshold /\ i \notin raised'
          => sev[i] >= Threshold /\ i \notin raised
    BY <1>0, <1>2 DEF SetSeverity, TypeOK
  <2> QED BY <1>2, <2>1 DEF Handled, BornSevere, Blocked, Audited
<1>3. ASSUME NEW r \in Requests, NEW j \in Ids, NEW worse \in BOOLEAN,
             ManualBegin(r, j, worse)
      PROVE  Handled(i)'
  <2>1. PICK level \in Int : /\ SetSeverity(j, level)
                             /\ level >= sev[j]
    <3>1. /\ BumpSeverity(sev[j]) \in Int /\ BumpSeverity(sev[j]) >= sev[j]
          /\ sev[j] \in Int /\ sev[j] >= sev[j]
      BY <1>0 DEF BumpSeverity
    <3>2. SetSeverity(j, BumpSeverity(sev[j])) \/ SetSeverity(j, sev[j])
      <4>1. CASE worse
        BY <1>3, <4>1 DEF ManualBegin
      <4>2. CASE ~worse
        BY <1>3, <4>2 DEF ManualBegin
      <4> QED BY <4>1, <4>2
    <3> QED BY <3>1, <3>2
  <2> QED BY <1>2, <1>3, <2>1 DEF ManualBegin
<1>4. ASSUME NEW p \in Procs, NEW level \in Severities, Update(p, level)
      PROVE  Handled(i)'
  <2>1. found[p] \in Ids
    BY <1>4 DEF Update, TypeOK
  <2>2. PICK top \in Int : SetSeverity(found[p], top) /\ top >= sev[found[p]]
    <3>0. level \in Int
      BY BoundsAssumption DEF Severities
    <3>1. level \in Int /\ sev[found[p]] \in Int
      BY <1>c, <2>1, <3>0
    <3>2. SetSeverity(found[p], IF level > sev[found[p]] THEN level ELSE sev[found[p]])
      BY <1>4 DEF Update
    <3> QED BY <3>1, <3>2
  <2> QED BY <1>2, <1>4, <2>1, <2>2 DEF Update
<1>5. ASSUME NEW p \in Procs, NEW level \in Severities, Create(p, level)
      PROVE  Handled(i)'
  <2>1. i # count + 1
    BY <1>0
  <2>2. ipOf'[i] = ipOf[i] /\ sev'[i] = sev[i]
    BY <1>0, <1>5, <2>1 DEF Create, TypeOK
  <2> QED BY <1>5, <2>2 DEF Create, Handled, BornSevere, Blocked, Audited
<1>6. ASSUME NEW p \in Procs, Ban(p) PROVE Handled(i)'
  <2>1. ipOf[found[p]] \in IPs
    BY <1>6 DEF Ban, InHandOK, TypeOK
  <2> QED BY <1>1, <1>6, <2>1 DEF Ban
<1>7. CASE \/ Tick \/ UNCHANGED vars
           \/ \E j \in Ids, nuevo \in BOOLEAN : SetEstado(j, nuevo)
           \/ \E r \in Requests : ManualStore(r) \/ ManualGivesUp(r)
           \/ \E ip \in IPs, action \in {"auth.login", "auth.mfa_ok"} : AdminLogin(ip, action)
  BY <1>1, <1>7 DEF Tick, SetEstado, ManualStore, ManualGivesUp, AdminLogin, vars
<1>8. ASSUME NEW p \in Procs,
             \/ \E attackers \in SUBSET IPs : BeginCycle(p, attackers)
             \/ \E ip \in IPs : Dedupe(p, ip)
             \/ \E j \in Ids : Analyze(p, j) \/ AlertCheck(p, j) \/ SoarCheck(p, j)
             \/ DetectDone(p) \/ ChatDone(p) \/ AnalysisDone(p) \/ AlertLeaves(p)
             \/ AlertFails(p) \/ MarkAlerted(p) \/ AlertsDone(p) \/ RecordBlock(p)
             \/ SoarDone(p) \/ EndCycle(p) \/ Trouble(p)
      PROVE  Handled(i)'
  <2>1. UNCHANGED <<sev, raised, ipOf, bannedAt>>
    BY <1>8 DEF BeginCycle, Dedupe, DetectDone, Analyze, ChatDone, AnalysisDone,
       AlertCheck, AlertLeaves, AlertFails, MarkAlerted, AlertsDone, SoarCheck,
       RecordBlock, SoarDone, EndCycle, Trouble, BanFails, CommitFails,
       CycleFails, SoarUnavailable, LoginsUnread, CheckFails, Drop, Crash
  <2> QED BY <1>1, <2>1
<1> QED
  BY <1>3, <1>4, <1>5, <1>6, <1>7, <1>8 DEF Next, People, Step

LEMMA SevereStep ==
  ASSUME TypeOK, TypeOK', InHandOK, RowInv, AdminsAudited, SevereInv, [Next]_vars
  PROVE  SevereInv'
<1> USE DEF table, cycle, history, bounds, GoTo, DropLocals, Take
<1> DEFINE Ready(q) == pc[q] \in Blocking =>
                         \A i \in created[q] \ work[q] :
                           i \in dropped \/ Handled(i) \/ (pc[q] = "ban" /\ i = found[q])
<1> DEFINE Settled == \A i \in 1 .. count \ dropped : InHand(i) \/ Handled(i)
<1>0. /\ \A i \in 1 .. count : Handled(i) => Handled(i)'
      /\ \A q \in Procs : InTable(q) /\ created[q] \subseteq 1 .. count
      /\ count \in Nat /\ 1 .. count \subseteq Ids
  <2>1. \A i \in 1 .. count : Handled(i) => Handled(i)'
    BY HandledStep
  <2>2. \A q \in Procs : InTable(q) /\ created[q] \subseteq 1 .. count
    BY DEF RowInv, InTable
  <2>3. count \in Nat /\ 1 .. count \subseteq Ids
    BY BoundsAssumption DEF TypeOK, Ids
  <2> QED BY <2>1, <2>2, <2>3
<1>3. Settled /\ \A q \in Procs : Ready(q)
  BY DEF SevereInv
<1>4. ASSUME NEW q \in Procs, Untouched(q), dropped \subseteq dropped' PROVE Ready(q)'
  BY <1>0, <1>3, <1>4 DEF Untouched
<1>5. ASSUME created' = created, count' = count, dropped \subseteq dropped'
      PROVE  Settled'
  BY <1>0, <1>3, <1>5 DEF InHand
<1>6. CASE Tick \/ People \/ UNCHANGED vars
  <2>1. UNCHANGED <<pc, now, found, created, work, count, dropped>>
    BY <1>6 DEF Tick, People, SetEstado, ManualBegin, ManualStore, ManualGivesUp,
                AdminLogin, vars
  <2> QED BY <1>4, <1>5, <2>1 DEF SevereInv, Untouched
<1>7. ASSUME NEW p \in Procs,
             \/ \E attackers \in SUBSET IPs : BeginCycle(p, attackers)
             \/ \E ip \in IPs : Dedupe(p, ip)
             \/ \E level \in Severities : Update(p, level)
             \/ \E i \in Ids : Analyze(p, i) \/ AlertCheck(p, i)
             \/ DetectDone(p) \/ ChatDone(p) \/ AnalysisDone(p) \/ AlertLeaves(p)
             \/ AlertFails(p) \/ MarkAlerted(p) \/ AlertsDone(p) \/ LoginsUnread(p)
             \/ EndCycle(p)
      PROVE  SevereInv'
  <2>1. /\ UNCHANGED <<created, count, dropped>>
        /\ \A q \in Procs \ {p} : Untouched(q)
        /\ pc'[p] \notin Blocking \/ (pc'[p] = "soar" /\ work'[p] = created[p])
    <3>1. CASE \/ \E attackers \in SUBSET IPs : BeginCycle(p, attackers)
               \/ \E ip \in IPs : Dedupe(p, ip)
               \/ \E level \in Severities : Update(p, level)
               \/ \E i \in Ids : Analyze(p, i) \/ AlertCheck(p, i)
      BY <3>1 DEF BeginCycle, Dedupe, Update, Analyze, AlertCheck, Untouched, Blocking, TypeOK
    <3>2. CASE DetectDone(p) \/ ChatDone(p) \/ AnalysisDone(p) \/ AlertLeaves(p)
      BY <3>2 DEF DetectDone, ChatDone, AnalysisDone, AlertLeaves, Untouched, Blocking, TypeOK
    <3>3. CASE AlertFails(p) \/ MarkAlerted(p) \/ AlertsDone(p) \/ LoginsUnread(p) \/ EndCycle(p)
      BY <3>3 DEF AlertFails, MarkAlerted, AlertsDone, LoginsUnread, EndCycle, ToBlock, Untouched,
         Blocking, TypeOK
    <3> QED BY <1>7, <3>1, <3>2, <3>3
  <2>2. Ready(p)'
    BY <2>1
  <2> QED BY <1>4, <1>5, <2>1, <2>2 DEF SevereInv
<1>8. ASSUME NEW p \in Procs, NEW level \in Severities, Create(p, level)
      PROVE  SevereInv'
  <2>1. /\ count' = count + 1 /\ pc'[p] = "detect" /\ dropped' = dropped
        /\ created'[p] = created[p] \cup {count + 1}
        /\ \A q \in Procs \ {p} : Untouched(q) /\ created'[q] = created[q]
    BY <1>8 DEF Create, Untouched, TypeOK
  <2>2. ASSUME NEW i \in 1 .. count' \ dropped' PROVE InHand(i)' \/ Handled(i)'
    <3>1. CASE i = count + 1
      BY <2>1, <3>1 DEF InHand
    <3>2. CASE i \in 1 .. count
      BY <1>0, <1>3, <2>1, <3>2 DEF InHand
    <3> QED BY <1>0, <2>1, <3>1, <3>2
  <2>3. Ready(p)'
    BY <2>1 DEF Blocking
  <2> QED BY <1>4, <2>1, <2>2, <2>3 DEF SevereInv
<1>9. ASSUME NEW p \in Procs, NEW i \in Ids, SoarCheck(p, i) PROVE SevereInv'
  <2>1. /\ pc[p] = "soar" /\ i \in work[p] /\ work'[p] = work[p] \ {i}
        /\ UNCHANGED <<created, count, ipOf, sev, raised, dropped, bannedAt>>
        /\ \A q \in Procs \ {p} : Untouched(q)
        /\ \/ pc'[p] = "ban" /\ found'[p] = i
           \/ /\ pc'[p] = "soar"
              /\ \/ ~(sev[i] >= Threshold)
                 \/ ipOf[i] \in Unbannable
                 \/ ipOf[i] \in adminIps[p]
                 \/ AlreadyBlocked(i, now[p])
    <3>1. pc[p] = "soar" /\ i \in work[p] /\ work' = [work EXCEPT ![p] = @ \ {i}]
          /\ UNCHANGED <<created, count, ipOf, sev, raised, dropped, bannedAt, now>>
      BY <1>9 DEF SoarCheck, IsNext
    <3>2. \/ pc' = [pc EXCEPT ![p] = "ban"] /\ found' = [found EXCEPT ![p] = i]
          \/ /\ UNCHANGED <<pc, found>>
             /\ \/ ~(sev[i] >= Threshold)
                \/ ipOf[i] \in Unbannable
                \/ ipOf[i] \in adminIps[p]
                \/ AlreadyBlocked(i, now[p])
      BY <1>9 DEF SoarCheck
    <3>3. pc \in [Procs -> Steps] /\ found \in [Procs -> Ids \cup {0}] /\ work \in [Procs -> SUBSET Ids]
      BY DEF TypeOK
    <3> QED BY <3>1, <3>2, <3>3 DEF Untouched
  <2>2. i \in 1 .. count
    BY <1>0, <2>1 DEF InTable
  <2>3. pc'[p] = "soar" => Handled(i)
    <3>1. CASE AlreadyBlocked(i, now[p])
      <4>1. PICK j \in 1 .. count : ipOf[j] = ipOf[i] /\ blockedAt[j] >= now[p] - BlockLookback
        BY <3>1 DEF AlreadyBlocked
      <4>2. Never < now[p] - BlockLookback /\ now[p] \in Int /\ Never \in Int
        BY NeverLow DEF TypeOK
      <4>3. blockedAt[j] # Never
        BY <4>1, <4>2, BoundsAssumption
      <4> QED BY <1>0, <4>1, <4>3 DEF RowInv, MarksStand, Handled
    <3>2. CASE ipOf[i] \in adminIps[p]
      BY <3>2 DEF AdminsAudited, Handled
    <3> QED BY <2>1, <3>1, <3>2 DEF Handled, BornSevere
  <2>4. Ready(p)'
    <3>1. \A j \in created[p] \ work[p] : j \in dropped \/ Handled(j)
      BY <1>3, <2>1 DEF Blocking
    <3> QED BY <1>0, <2>1, <2>2, <2>3, <3>1
  <2> QED BY <1>4, <1>5, <2>1, <2>4 DEF SevereInv
<1>10. ASSUME NEW p \in Procs, Ban(p) PROVE SevereInv'
  <2>1. /\ pc[p] = "ban" /\ pc'[p] = "record" /\ found[p] \in Ids
        /\ UNCHANGED <<created, work, count, ipOf, dropped>>
        /\ bannedAt' = [bannedAt EXCEPT ![ipOf[found[p]]] = now[p]]
        /\ \A q \in Procs \ {p} : Untouched(q)
    BY <1>10 DEF Ban, InHandOK, Untouched, TypeOK
  <2>2. Handled(found[p])'
    <3>1. now[p] # Never /\ ipOf[found[p]] \in IPs
      BY <2>1, NeverLow DEF TypeOK
    <3>2. found' = found
      BY <1>10 DEF Ban
    <3> QED BY <2>1, <3>1, <3>2 DEF Handled, Blocked, TypeOK
  <2>3. Ready(p)'
    <3>1. \A j \in created[p] \ work[p] : j \in dropped \/ Handled(j) \/ j = found[p]
      BY <1>3, <2>1 DEF Blocking
    <3>2. found' = found
      BY <1>10 DEF Ban
    <3> QED BY <1>0, <2>1, <2>2, <3>1, <3>2
  <2> QED BY <1>4, <1>5, <2>1, <2>3 DEF SevereInv
<1>11. ASSUME NEW p \in Procs, RecordBlock(p) \/ CommitFails(p) PROVE SevereInv'
  <2>1. /\ \/ pc[p] = "record" /\ pc'[p] = "soar"
           \/ pc[p] = "mark" /\ pc'[p] = "alert"
        /\ UNCHANGED <<created, work, count, dropped>>
        /\ \A q \in Procs \ {p} : Untouched(q)
    BY <1>11 DEF RecordBlock, CommitFails, Untouched, TypeOK
  <2>2. Ready(p)'
    <3>1. pc[p] = "record" => \A j \in created[p] \ work[p] : j \in dropped \/ Handled(j)
      BY <1>3, <2>1 DEF Blocking
    <3> QED BY <1>0, <2>1, <3>1 DEF Blocking
  <2> QED BY <1>4, <1>5, <2>1, <2>2 DEF SevereInv
\* The cycle is over, and what it did not decide is noted.
<1>12. ASSUME NEW p \in Procs,
              \/ SoarDone(p) \/ CycleFails(p) \/ SoarUnavailable(p) \/ Crash(p)
       PROVE  SevereInv'
  <2>1. /\ pc'[p] \in {"unlock", "idle"} /\ count' = count
        /\ \A q \in Procs \ {p} : Untouched(q) /\ created'[q] = created[q]
    BY <1>12 DEF SoarDone, CycleFails, SoarUnavailable, Crash, Drop, Untouched, TypeOK
  <2>2. /\ dropped \subseteq dropped'
        /\ dropped' = dropped \cup Undecided(p) \/ (pc[p] = "soar" /\ work[p] = {})
    BY <1>12 DEF SoarDone, CycleFails, SoarUnavailable, Crash, Drop
  <2>3. \A j \in created[p] : j \in dropped' \/ Handled(j)
    <3>1. CASE pc[p] \in Blocking
      BY <1>3, <2>2, <3>1 DEF Undecided, Blocking
    <3>2. CASE pc[p] \notin Blocking
      BY <2>2, <3>2 DEF Undecided, Blocking
    <3> QED BY <3>1, <3>2
  <2>4. ASSUME NEW i \in 1 .. count' \ dropped' PROVE InHand(i)' \/ Handled(i)'
    BY <1>0, <1>3, <2>1, <2>2, <2>3, <2>4 DEF InHand
  <2>5. Ready(p)'
    BY <2>1 DEF Blocking
  <2> QED BY <1>4, <2>1, <2>2, <2>4, <2>5 DEF SevereInv
\* One incident fails: the others go on.
<1>13. ASSUME NEW p \in Procs, BanFails(p) \/ \E i \in Ids : CheckFails(p, i)
       PROVE  SevereInv'
  <2>1. PICK i \in Ids :
          /\ \/ /\ pc[p] = "ban" /\ i = found[p] /\ work' = work
                /\ pc' = [pc EXCEPT ![p] = "soar"] /\ dropped' = dropped \cup {i}
             \/ /\ pc[p] \in {"alert", "soar"} /\ pc' = pc
                /\ work' = [work EXCEPT ![p] = @ \ {i}]
                /\ dropped' = IF pc[p] = "soar" THEN dropped \cup {i} ELSE dropped
          /\ UNCHANGED <<created, count>>
          /\ \A q \in Procs \ {p} : Untouched(q)
    <3>1. CASE BanFails(p)
      BY <3>1 DEF BanFails, Drop, InHandOK, Untouched, TypeOK
    <3>2. CASE \E i \in Ids : CheckFails(p, i)
      BY <3>2 DEF CheckFails, Drop, Untouched, TypeOK
    <3> QED BY <1>13, <3>1, <3>2
  <2>2. Ready(p)'
    <3>1. pc[p] \in Blocking =>
            \A j \in created[p] \ work[p] :
              j \in dropped \/ Handled(j) \/ (pc[p] = "ban" /\ j = found[p])
      BY <1>3
    <3>2. pc'[p] \in Blocking =>
            \A j \in created[p] \ work'[p] : j \in dropped' \/ Handled(j)
      BY <2>1, <3>1 DEF Blocking, TypeOK
    <3> QED BY <1>0, <2>1, <3>2
  <2> QED BY <1>4, <1>5, <2>1, <2>2 DEF SevereInv
<1>14. CASE \E p \in Procs : Step(p) \/ Trouble(p)
  BY <1>7, <1>8, <1>9, <1>10, <1>11, <1>12, <1>13, <1>14 DEF Step, Trouble
<1> QED BY <1>6, <1>7, <1>14 DEF Next

LEMMA SevereInit == Init => AdminsAudited /\ SevereInv
BY DEF Init, AdminsAudited, SevereInv, Blocking

\* Every incident run_detection_cycle creates at or above the threshold reaches
\* maybe_block_incidents and leaves it with its IP banned or refused by a guard,
\* for any number of concurrent cycles, lock or no lock, whatever fails for the
\* others: only an error or a death on its own way to the ban excuses it.
THEOREM SocSevereIsBlocked == Spec => []SevereIsBlocked
<1>1. SevereInv => SevereIsBlocked
  BY DEF SevereInv, SevereIsBlocked, Handled
<1> QED BY <1>1, SocInitTypes, RowInit, SevereInit, TypeStep, InHandStep, RowStep,
           AdminsStep, SevereStep, PTL DEF Spec
-----------------------------------------------------------------------------
(* Administrators and the ban.                                             *)

\* The logins without a second factor, in the window before a moment.
LoginsBefore(t) ==
  {l \in audit : l.action = "auth.login" /\ l.at >= t - LoginWindow /\ l.at < t}

\* Whoever logged in like that before the stage began is protected, unless the
\* query raised, and what is to be banned is not protected.
AdminInv ==
  /\ \A p \in Procs \ blind : pc[p] \in Blocking =>
       \A l \in LoginsBefore(now[p]) : l.ip \in adminIps[p]
  /\ \A p \in Procs : pc[p] = "ban" => ipOf[found[p]] \notin adminIps[p]

\* A step that bans an IP bans none with such a login.
SparesAdmins ==
  \A p \in Procs \ blind : (pc[p] = "ban" /\ pc'[p] = "record") =>
    \A l \in audit :
      (l.ip = ipOf[found[p]] /\ l.at \in now[p] - LoginWindow .. now[p] - 1)
        => l.action = "auth.mfa_ok"

LEMMA AdminSpares == ASSUME TypeOK, AdminInv PROVE SparesAdmins
<1> SUFFICES ASSUME NEW p \in Procs \ blind, pc[p] = "ban", NEW l \in audit,
                    l.ip = ipOf[found[p]],
                    l.at \in now[p] - LoginWindow .. now[p] - 1
             PROVE  l.action = "auth.mfa_ok"
  BY DEF SparesAdmins
<1>1. now[p] \in Int /\ LoginWindow \in Int /\ MaxTime \in Int
  BY BoundsAssumption DEF TypeOK
<1>2. l.at \in Int /\ l.at >= now[p] - LoginWindow /\ l.at < now[p]
  BY <1>1
<1>3. l.action \in {"auth.login", "auth.mfa_ok"}
  BY DEF TypeOK, Logins
<1>4. l.ip \notin adminIps[p]
  BY DEF AdminInv
<1>5. l \notin LoginsBefore(now[p])
  BY <1>4 DEF AdminInv, Blocking
<1> QED BY <1>2, <1>3, <1>5 DEF LoginsBefore

LEMMA AdminStep ==
  ASSUME TypeOK, TypeOK', RowInv, AdminInv, [Next]_vars
  PROVE  AdminInv'
<1> USE DEF table, cycle, history, bounds, GoTo, DropLocals, Take
<1> DEFINE Spared(q) ==
             /\ pc[q] \in Blocking =>
                  q \in blind \/ \A l \in LoginsBefore(now[q]) : l.ip \in adminIps[q]
             /\ pc[q] = "ban" => ipOf[found[q]] \notin adminIps[q]
<1>0. /\ \A q \in Procs : Spared(q)
      /\ clock \in Int /\ LoginWindow \in Nat
      /\ \A q \in Procs : now[q] \in Int /\ now[q] <= clock /\ InTable(q)
  BY NeverLow, BoundsAssumption DEF TypeOK, AdminInv, RowInv, Dated
<1>1. ASSUME \A q \in Procs : Spared(q)' PROVE AdminInv'
  BY <1>1 DEF AdminInv
<1>2. ASSUME NEW ip \in IPs, NEW action \in {"auth.login", "auth.mfa_ok"},
             AdminLogin(ip, action)
      PROVE  AdminInv'
  <2>1. /\ audit' = audit \cup {[ip |-> ip, at |-> clock, action |-> action]}
        /\ UNCHANGED <<pc, now, found, ipOf, adminIps, blind>>
    BY <1>2 DEF AdminLogin
  <2>2. ASSUME NEW q \in Procs PROVE LoginsBefore(now[q])' = LoginsBefore(now[q])
    <3>1. clock >= now[q]
      BY <1>0
    <3>2. ~([ip |-> ip, at |-> clock, action |-> action].at < now[q])
      BY <1>0, <3>1
    <3> QED BY <2>1, <3>2 DEF LoginsBefore
  <2> QED BY <1>0, <1>1, <2>1, <2>2
<1>3. ASSUME \/ Tick \/ UNCHANGED vars
             \/ \E i \in Ids, nuevo \in BOOLEAN : SetEstado(i, nuevo)
             \/ \E r \in Requests, i \in Ids, worse \in BOOLEAN : ManualBegin(r, i, worse)
             \/ \E r \in Requests : ManualStore(r) \/ ManualGivesUp(r)
      PROVE  AdminInv'
  <2>1. UNCHANGED <<pc, now, found, ipOf, adminIps, audit, blind>>
    BY <1>3 DEF Tick, SetEstado, ManualBegin, ManualStore, ManualGivesUp, vars
  <2>2. ASSUME NEW q \in Procs PROVE Spared(q)'
    BY <1>0, <2>1 DEF LoginsBefore
  <2> QED BY <1>1, <2>2
<1>4. ASSUME NEW p \in Procs, NEW level \in Severities, Create(p, level) PROVE AdminInv'
  <2>1. /\ pc'[p] = "detect" /\ \A q \in Procs \ {p} : pc'[q] = pc[q]
        /\ UNCHANGED <<now, found, adminIps, audit, blind>>
        /\ \A i \in Ids : i # count + 1 => ipOf'[i] = ipOf[i]
    BY <1>4 DEF Create, TypeOK
  <2>2. ASSUME NEW q \in Procs \ {p}, pc[q] = "ban" PROVE ipOf'[found[q]] = ipOf[found[q]]
    <3>1. found[q] \in 1 .. count
      BY <1>0, <2>2 DEF InTable
    <3>2. count \in Nat /\ count <= MaxInc /\ MaxInc \in Nat
      BY BoundsAssumption DEF TypeOK
    <3>3. found[q] \in Ids /\ found[q] # count + 1
      BY <3>1, <3>2 DEF Ids
    <3> QED BY <2>1, <3>3
  <2>3. ASSUME NEW q \in Procs PROVE Spared(q)'
    BY <1>0, <2>1, <2>2 DEF Blocking, LoginsBefore
  <2> QED BY <1>0, <1>1, <2>1, <2>3
<1>5. ASSUME NEW p \in Procs, AlertsDone(p) \/ LoginsUnread(p) PROVE AdminInv'
  <2>1. /\ pc'[p] = "soar" /\ now'[p] = clock
        /\ adminIps'[p] = RecentAdminIPs(clock) \/ p \in blind'
        /\ UNCHANGED <<ipOf, audit>> /\ blind \subseteq blind'
        /\ \A q \in Procs \ {p} : UNCHANGED <<pc[q], now[q], found[q], adminIps[q]>>
    BY <1>5 DEF AlertsDone, LoginsUnread, TypeOK
  <2>2. Spared(p)'
    BY <1>0, <2>1 DEF RecentAdminIPs, LoginsBefore
  <2>3. \A q \in Procs \ {p} : Spared(q)'
    BY <1>0, <2>1 DEF Blocking, LoginsBefore
  <2> QED BY <1>1, <2>2, <2>3
<1>6. ASSUME NEW p \in Procs, NEW i \in Ids, SoarCheck(p, i) PROVE AdminInv'
  <2>1. /\ pc[p] = "soar"
        /\ \/ pc'[p] = "soar"
           \/ pc'[p] = "ban" /\ found'[p] = i /\ ipOf[i] \notin adminIps[p]
        /\ UNCHANGED <<now, adminIps, ipOf, audit, blind>>
        /\ \A q \in Procs \ {p} : UNCHANGED <<pc[q], found[q]>>
    BY <1>6 DEF SoarCheck, TypeOK
  <2>2. ASSUME NEW q \in Procs PROVE Spared(q)'
    BY <1>0, <2>1 DEF Blocking, LoginsBefore
  <2> QED BY <1>0, <1>1, <2>1, <2>2
<1>7. ASSUME NEW p \in Procs, Ban(p) PROVE AdminInv'
  <2>1. /\ pc[p] = "ban" /\ pc'[p] = "record"
        /\ UNCHANGED <<now, found, adminIps, ipOf, audit, blind>>
        /\ \A q \in Procs \ {p} : pc'[q] = pc[q]
    BY <1>7 DEF Ban, TypeOK
  <2>2. ASSUME NEW q \in Procs PROVE Spared(q)'
    BY <1>0, <2>1 DEF Blocking, LoginsBefore
  <2> QED BY <1>1, <2>2
<1>8. ASSUME NEW p \in Procs,
             \/ \E attackers \in SUBSET IPs : BeginCycle(p, attackers)
             \/ \E ip \in IPs : Dedupe(p, ip)
             \/ \E level \in Severities : Update(p, level)
             \/ \E i \in Ids : Analyze(p, i) \/ AlertCheck(p, i)
             \/ DetectDone(p) \/ ChatDone(p) \/ AnalysisDone(p) \/ AlertLeaves(p)
             \/ AlertFails(p) \/ MarkAlerted(p) \/ SoarDone(p) \/ EndCycle(p)
      PROVE  AdminInv'
  <2>1. /\ pc'[p] \notin Blocking
        /\ UNCHANGED <<ipOf, audit>> /\ blind \ {p} \subseteq blind'
        /\ \A q \in Procs \ {p} : UNCHANGED <<pc[q], now[q], found[q], adminIps[q]>>
    <3>1. CASE \/ \E attackers \in SUBSET IPs : BeginCycle(p, attackers)
               \/ \E ip \in IPs : Dedupe(p, ip)
               \/ \E level \in Severities : Update(p, level)
               \/ \E i \in Ids : Analyze(p, i) \/ AlertCheck(p, i)
      BY <3>1 DEF BeginCycle, Dedupe, Update, Analyze, AlertCheck, Blocking, TypeOK
    <3>2. CASE DetectDone(p) \/ ChatDone(p) \/ AnalysisDone(p) \/ AlertLeaves(p)
      BY <3>2 DEF DetectDone, ChatDone, AnalysisDone, AlertLeaves, Blocking, TypeOK
    <3>3. CASE AlertFails(p) \/ MarkAlerted(p) \/ SoarDone(p) \/ EndCycle(p)
      BY <3>3 DEF AlertFails, MarkAlerted, SoarDone, EndCycle, Blocking, TypeOK
    <3> QED BY <1>8, <3>1, <3>2, <3>3
  <2>2. ASSUME NEW q \in Procs PROVE Spared(q)'
    BY <1>0, <2>1 DEF Blocking, LoginsBefore
  <2> QED BY <1>0, <1>1, <2>1, <2>2
<1>9. ASSUME NEW p \in Procs,
             \/ RecordBlock(p) \/ BanFails(p) \/ CommitFails(p) \/ CycleFails(p)
             \/ SoarUnavailable(p) \/ Crash(p) \/ \E i \in Ids : CheckFails(p, i)
      PROVE  AdminInv'
  <2>1. /\ \/ pc'[p] \notin Blocking
           \/ /\ pc[p] \in Blocking /\ pc'[p] = "soar"
              /\ UNCHANGED <<now, adminIps, blind>>
        /\ UNCHANGED <<ipOf, audit>> /\ blind \ {p} \subseteq blind'
        /\ \A q \in Procs \ {p} : UNCHANGED <<pc[q], now[q], found[q], adminIps[q]>>
    <3>1. CASE RecordBlock(p) \/ BanFails(p) \/ CommitFails(p)
      BY <3>1 DEF RecordBlock, BanFails, CommitFails, Drop, Blocking, TypeOK
    <3>2. CASE CycleFails(p) \/ SoarUnavailable(p) \/ Crash(p)
      BY <3>2 DEF CycleFails, SoarUnavailable, Crash, Drop, Blocking, TypeOK
    <3>3. CASE \E i \in Ids : CheckFails(p, i)
      BY <3>3 DEF CheckFails, Drop, Blocking, TypeOK
    <3> QED BY <1>9, <3>1, <3>2, <3>3
  <2>2. ASSUME NEW q \in Procs PROVE Spared(q)'
    BY <1>0, <2>1 DEF Blocking, LoginsBefore
  <2> QED BY <1>1, <2>2
<1>10. CASE \E p \in Procs : Step(p)
  BY <1>4, <1>5, <1>6, <1>7, <1>8, <1>9, <1>10 DEF Step
<1>11. CASE People
  BY <1>2, <1>3, <1>11 DEF People
<1>12. CASE \E p \in Procs : Trouble(p)
  BY <1>5, <1>9, <1>12 DEF Trouble
<1> QED BY <1>3, <1>8, <1>10, <1>11, <1>12 DEF Next

\* Guard 3b of _evaluate_and_block, applied several incidents and calls after
\* the logins were read: no ban of SOAR falls on an IP an administrator logged
\* in from, in the window before the block stage began, but for logins with a
\* second factor, which are audited as another action, and for a process whose
\* query of the logins raised.
THEOREM SocAdminNeverBanned == Spec => AdminNeverBanned
<1>1. Init => AdminInv
  BY DEF Init, AdminInv, Blocking
<1>2. TypeOK /\ AdminInv => SparesAdmins
  BY AdminSpares
<1> QED BY <1>1, <1>2, SocInitTypes, RowInit, TypeStep, InHandStep, RowStep, AdminStep,
           PTL DEF Spec, AdminNeverBanned, SparesAdmins
-----------------------------------------------------------------------------
(* Analyses, with or without the lock.                                     *)

\* No incident is among those two cycles have created.
Disjoint == \A p, q \in Procs : p # q => created[p] \cap created[q] = {}

LEMMA DisjointStep ==
  ASSUME TypeOK, TypeOK', RowInv, Disjoint, [Next]_vars PROVE Disjoint'
<1> USE DEF table, cycle, history, bounds, GoTo, DropLocals
<1>1. ASSUME NEW p \in Procs, NEW level \in Severities, Create(p, level)
      PROVE  Disjoint'
  <2>1. created' = [created EXCEPT ![p] = @ \cup {count + 1}]
    BY <1>1 DEF Create
  <2>2. \A q \in Procs : count + 1 \notin created[q]
    BY BasicTypes DEF RowInv, InTable
  <2>3. \A q \in Procs : created'[q] = IF q = p THEN created[p] \cup {count + 1} ELSE created[q]
    BY <2>1 DEF TypeOK
  <2> QED BY <2>2, <2>3 DEF Disjoint
<1>2. ASSUME \/ created' = created
             \/ \E p \in Procs : created' = [created EXCEPT ![p] = {}]
      PROVE  Disjoint'
  <2>1. \A q \in Procs : created'[q] \subseteq created[q]
    BY <1>2 DEF TypeOK
  <2> QED BY <2>1 DEF Disjoint
<1>3. CASE Tick \/ People \/ UNCHANGED vars
  BY <1>2, <1>3 DEF Tick, People, SetEstado, ManualBegin, ManualStore,
     ManualGivesUp, AdminLogin, vars
<1>4. ASSUME NEW p \in Procs,
             \/ \E attackers \in SUBSET IPs : BeginCycle(p, attackers)
             \/ \E ip \in IPs : Dedupe(p, ip)
             \/ \E level \in Severities : Update(p, level)
             \/ \E i \in Ids : \/ Analyze(p, i) \/ AlertCheck(p, i)
                              \/ SoarCheck(p, i) \/ CheckFails(p, i)
             \/ DetectDone(p) \/ ChatDone(p) \/ AnalysisDone(p) \/ AlertLeaves(p)
             \/ AlertFails(p) \/ MarkAlerted(p) \/ AlertsDone(p) \/ Ban(p)
             \/ RecordBlock(p) \/ EndCycle(p) \/ BanFails(p) \/ CommitFails(p)
             \/ LoginsUnread(p)
      PROVE  Disjoint'
  <2>1. created' = created
    BY <1>4 DEF BeginCycle, Dedupe, Update, Analyze, AlertCheck, SoarCheck,
       DetectDone, ChatDone, AnalysisDone, AlertLeaves, AlertFails, MarkAlerted,
       AlertsDone, Ban, RecordBlock, EndCycle, BanFails, CommitFails,
       LoginsUnread, CheckFails
  <2> QED BY <1>2, <2>1
<1>5. ASSUME NEW p \in Procs,
             SoarDone(p) \/ CycleFails(p) \/ SoarUnavailable(p) \/ Crash(p)
      PROVE  Disjoint'
  <2>1. created' = [created EXCEPT ![p] = {}]
    BY <1>5 DEF SoarDone, CycleFails, SoarUnavailable, Crash
  <2> QED BY <1>2, <2>1
<1> QED BY <1>1, <1>3, <1>4, <1>5 DEF Next, Step, Trouble

\* The requests that wait for the LLM about an incident, and the cycle that
\* does.
Asking(i)   == {r \in Requests : manual[r] = i}
Chatting(i) == \E p \in Procs : pc[p] = "chat" /\ found[p] = i

\* Whoever waits may add one more analysis.
Budget(i) ==
  analyses[i] + Cardinality(Asking(i)) + (IF Chatting(i) THEN 1 ELSE 0)
    <= 1 + Cardinality(Requests)

BudgetInv == \A i \in Ids : Budget(i)

LEMMA Served ==
  ASSUME NEW S \in SUBSET Requests
  PROVE  /\ IsFiniteSet(S) /\ Cardinality(S) \in Nat /\ Cardinality(Requests) \in Nat
         /\ Cardinality(S) <= Cardinality(Requests)
         /\ \A r \in S : Cardinality(S \ {r}) = Cardinality(S) - 1
<1>1. IsFiniteSet(S) /\ Cardinality(S) <= Cardinality(Requests)
  BY FS_Subset, RequestsAssumption
<1>2. Cardinality(S) \in Nat /\ Cardinality(Requests) \in Nat
  BY <1>1, FS_CardinalityType, RequestsAssumption
<1>3. \A r \in S : Cardinality(S \ {r}) = Cardinality(S) - 1
  BY <1>1, FS_RemoveElement
<1> QED BY <1>1, <1>2, <1>3

LEMMA AskingServed ==
  \A i : /\ Cardinality(Asking(i)) \in Nat /\ Cardinality(Requests) \in Nat
         /\ Cardinality(Asking(i)) <= Cardinality(Requests)
<1>1. \A i : Asking(i) \in SUBSET Requests
  BY DEF Asking
<1> QED BY <1>1, Served

\* A step that adds no analysis and lets nobody new wait.
LEMMA BudgetKept ==
  ASSUME TypeOK, BudgetInv, UNCHANGED <<analyses, manual>>,
         \A q \in Procs : pc'[q] = "chat" => pc[q] = "chat" /\ found'[q] = found[q]
  PROVE  BudgetInv'
<1> SUFFICES ASSUME NEW i \in Ids PROVE Budget(i)'
  BY DEF BudgetInv
<1>1. Asking(i)' = Asking(i) /\ analyses'[i] = analyses[i]
  BY DEF Asking
<1>2. Chatting(i)' => Chatting(i)
  BY DEF Chatting
<1>3. analyses[i] \in Nat /\ Budget(i)
  BY DEF TypeOK, BudgetInv
<1>4. Cardinality(Asking(i)) \in Nat /\ Cardinality(Requests) \in Nat
  BY AskingServed
<1> QED BY <1>1, <1>2, <1>3, <1>4 DEF Budget

\* A request asks about an incident without analysis, or ends.
LEMMA AskKept ==
  ASSUME TypeOK, BudgetInv, NEW r \in Requests, NEW i \in Ids, manual[r] = 0,
         analyses[i] = 0, manual' = [manual EXCEPT ![r] = i],
         UNCHANGED <<analyses, pc, found>>
  PROVE  BudgetInv'
<1> SUFFICES ASSUME NEW j \in Ids PROVE Budget(j)'
  BY DEF BudgetInv
<1>1. Chatting(j)' <=> Chatting(j)
  BY DEF Chatting
<1>2. CASE j = i
  <2>1. Asking(j)' \in SUBSET Requests
    BY DEF Asking
  <2>2. /\ Cardinality(Asking(j)') \in Nat /\ Cardinality(Requests) \in Nat
        /\ Cardinality(Asking(j)') <= Cardinality(Requests)
    BY <2>1, Served
  <2> QED BY <1>2, <2>2 DEF Budget
<1>3. CASE j # i
  <2>1. j # 0
    BY BoundsAssumption DEF Ids
  <2>2. Asking(j)' = Asking(j)
    BY <1>3, <2>1 DEF Asking, TypeOK
  <2> QED BY <1>1, <2>2 DEF BudgetInv, Budget
<1> QED BY <1>2, <1>3

LEMMA AnswerKept ==
  ASSUME TypeOK, BudgetInv, NEW r \in Requests, manual[r] # 0,
         manual' = [manual EXCEPT ![r] = 0], UNCHANGED <<pc, found>>,
         \/ analyses' = analyses
         \/ analyses' = [analyses EXCEPT ![manual[r]] = @ + 1]
  PROVE  BudgetInv'
<1> SUFFICES ASSUME NEW j \in Ids PROVE Budget(j)'
  BY DEF BudgetInv
<1>1. Chatting(j)' <=> Chatting(j)
  BY DEF Chatting
<1>2. /\ j # 0 /\ manual[r] \in Ids /\ analyses[j] \in Nat /\ Budget(j)
  BY BoundsAssumption DEF TypeOK, Ids, BudgetInv
<1>3. Cardinality(Asking(j)) \in Nat /\ Cardinality(Requests) \in Nat
  BY AskingServed
<1>4. CASE j = manual[r]
  <2>1. Asking(j) \in SUBSET Requests /\ r \in Asking(j)
    BY <1>4 DEF Asking
  <2>2. Asking(j)' = Asking(j) \ {r}
    BY <1>2 DEF Asking, TypeOK
  <2>3. Cardinality(Asking(j)') = Cardinality(Asking(j)) - 1
    BY <2>1, <2>2, Served
  <2>4. analyses'[j] = analyses[j] \/ analyses'[j] = analyses[j] + 1
    BY <1>2, <1>4 DEF TypeOK
  <2> QED BY <1>1, <1>2, <1>3, <2>3, <2>4 DEF Budget
<1>5. CASE j # manual[r]
  <2>1. Asking(j)' = Asking(j)
    BY <1>2, <1>5 DEF Asking, TypeOK
  <2>2. analyses'[j] = analyses[j]
    BY <1>2, <1>5 DEF TypeOK
  <2> QED BY <1>1, <1>2, <2>1, <2>2 DEF Budget
<1> QED BY <1>4, <1>5

\* A cycle begins to wait for the LLM about an incident without analysis.
LEMMA AnalyzeKept ==
  ASSUME TypeOK, TypeOK', BudgetInv, NEW p \in Procs, NEW i \in Ids, Analyze(p, i)
  PROVE  BudgetInv'
<1>1. CASE UNCHANGED <<pc, found>>
  BY <1>1, BudgetKept DEF Analyze, table
<1>2. CASE ~UNCHANGED <<pc, found>>
  <2>1. /\ pc[p] = "analyze" /\ analyses[i] = 0 /\ UNCHANGED <<analyses, manual>>
        /\ found' = [found EXCEPT ![p] = i] /\ pc' = [pc EXCEPT ![p] = "chat"]
    BY <1>2 DEF Analyze, Unanalysed, GoTo, table
  <2> SUFFICES ASSUME NEW j \in Ids PROVE Budget(j)'
    BY DEF BudgetInv
  <2>2. Asking(j)' = Asking(j)
    BY <2>1 DEF Asking
  <2>3. /\ Cardinality(Asking(j)) \in Nat /\ Cardinality(Requests) \in Nat
        /\ Cardinality(Asking(j)) <= Cardinality(Requests)
    BY AskingServed
  <2>4. CASE j = i
    BY <2>1, <2>2, <2>3, <2>4 DEF Budget
  <2>5. CASE j # i
    <3>1. Chatting(j)' => Chatting(j)
      BY <2>1, <2>5 DEF Chatting, TypeOK
    <3>2. analyses[j] \in Nat /\ Budget(j)
      BY DEF TypeOK, BudgetInv
    <3> QED BY <2>1, <2>2, <2>3, <3>1, <3>2 DEF Budget
  <2> QED BY <2>4, <2>5
<1> QED BY <1>1, <1>2

\* The LLM has answered a cycle, which was the only one to wait.
LEMMA ChatKept ==
  ASSUME TypeOK, TypeOK', RowInv, Disjoint, BudgetInv, NEW p \in Procs, ChatDone(p)
  PROVE  BudgetInv'
<1>1. /\ pc[p] = "chat" /\ manual' = manual
      /\ found' = [found EXCEPT ![p] = 0] /\ pc' = [pc EXCEPT ![p] = "analyze"]
      /\ analyses' = analyses \/ analyses' = [analyses EXCEPT ![found[p]] = @ + 1]
  BY DEF ChatDone, GoTo
<1>2. \A q \in Procs : pc[q] = "chat" => found[q] \in created[q]
  BY DEF RowInv, InTable
<1> SUFFICES ASSUME NEW j \in Ids PROVE Budget(j)'
  BY DEF BudgetInv
<1>3. Asking(j)' = Asking(j)
  BY <1>1 DEF Asking
<1>4. Cardinality(Asking(j)) \in Nat /\ Cardinality(Requests) \in Nat
  BY AskingServed
<1>5. analyses[j] \in Nat /\ Budget(j)
  BY DEF TypeOK, BudgetInv
<1>6. CASE j = found[p]
  <2>1. Chatting(j)
    BY <1>1, <1>6 DEF Chatting
  <2>2. ASSUME NEW q \in Procs, pc'[q] = "chat", found'[q] = j PROVE FALSE
    <3>1. q # p /\ pc[q] = "chat" /\ found[q] = j
      BY <1>1, <2>2 DEF TypeOK
    <3> QED BY <1>1, <1>2, <1>6, <3>1 DEF Disjoint
  <2>3. ~Chatting(j)'
    BY <2>2 DEF Chatting
  <2>4. analyses'[j] = analyses[j] \/ analyses'[j] = analyses[j] + 1
    BY <1>1, <1>6 DEF TypeOK
  <2> QED BY <1>3, <1>4, <1>5, <2>1, <2>3, <2>4 DEF Budget
<1>7. CASE j # found[p]
  <2>1. Chatting(j)' => Chatting(j)
    BY <1>1 DEF Chatting, TypeOK
  <2>2. analyses'[j] = analyses[j]
    BY <1>1, <1>7 DEF TypeOK
  <2> QED BY <1>3, <1>4, <1>5, <2>1, <2>2 DEF Budget
<1> QED BY <1>6, <1>7

LEMMA BudgetStep ==
  ASSUME TypeOK, TypeOK', RowInv, Disjoint, BudgetInv, [Next]_vars
  PROVE  BudgetInv'
<1> USE DEF table, cycle, history, bounds
<1>1. ASSUME NEW r \in Requests, NEW i \in Ids, NEW worse \in BOOLEAN,
             ManualBegin(r, i, worse)
      PROVE  BudgetInv'
  <2>1. /\ manual[r] = 0 /\ UNCHANGED <<analyses, pc, found>>
        /\ manual' = [manual EXCEPT ![r] = IF analyses[i] = 0 THEN i ELSE 0]
    BY <1>1 DEF ManualBegin, Unanalysed
  <2>2. CASE analyses[i] = 0
    BY <2>1, <2>2, AskKept
  <2>3. CASE analyses[i] # 0
    <3>1. manual' = manual
      BY <2>1, <2>3 DEF TypeOK
    <3> QED BY <2>1, <3>1, BudgetKept
  <2> QED BY <2>2, <2>3
<1>2. ASSUME NEW r \in Requests, ManualStore(r) \/ ManualGivesUp(r) PROVE BudgetInv'
  BY <1>2, AnswerKept DEF ManualStore, ManualGivesUp
<1>3. CASE \/ Tick \/ UNCHANGED vars
           \/ \E i \in Ids, nuevo \in BOOLEAN : SetEstado(i, nuevo)
           \/ \E ip \in IPs, action \in {"auth.login", "auth.mfa_ok"} : AdminLogin(ip, action)
  BY <1>3, BudgetKept DEF Tick, SetEstado, AdminLogin, vars
<1>4. ASSUME NEW p \in Procs, UNCHANGED <<analyses, manual>>,
             NEW s \in Steps \ {"chat"}, pc' = [pc EXCEPT ![p] = s],
             found' = found \/ \E f \in Ids \cup {0} : found' = [found EXCEPT ![p] = f]
      PROVE  BudgetInv'
  <2>1. \A q \in Procs : pc'[q] = "chat" => pc[q] = "chat" /\ found'[q] = found[q]
    BY <1>4 DEF TypeOK
  <2> QED BY <1>4, <2>1, BudgetKept
<1> USE DEF GoTo, DropLocals, Steps
<1>5. ASSUME NEW p \in Procs, NEW ip \in IPs, Dedupe(p, ip) PROVE BudgetInv'
  <2>1. \E f \in Ids \cup {0} : found' = [found EXCEPT ![p] = f]
    <3>1. PICK f \in Recent(ip, now[p]) \cup {0} : found' = [found EXCEPT ![p] = f]
      BY <1>5 DEF Dedupe
    <3>2. f \in Ids \cup {0}
      BY DEF Recent, TypeOK
    <3> QED BY <3>1, <3>2
  <2> QED BY <1>4, <1>5, <2>1 DEF Dedupe
<1>6. ASSUME NEW p \in Procs,
             \/ \E attackers \in SUBSET IPs : BeginCycle(p, attackers)
             \/ \E level \in Severities : Update(p, level) \/ Create(p, level)
             \/ DetectDone(p) \/ AnalysisDone(p) \/ AlertsDone(p) \/ SoarDone(p)
             \/ EndCycle(p)
      PROVE  BudgetInv'
  <2>1. /\ UNCHANGED <<analyses, manual>>
        /\ \E s \in {"detect", "analyze", "alert", "soar", "unlock", "idle"} :
             pc' = [pc EXCEPT ![p] = s]
        /\ found' = found \/ found' = [found EXCEPT ![p] = 0]
    BY <1>6 DEF BeginCycle, Update, Create, DetectDone, AnalysisDone, AlertsDone,
       SoarDone, EndCycle
  <2> QED BY <1>4, <2>1
<1>7. ASSUME NEW p \in Procs,
             \/ AlertLeaves(p) \/ AlertFails(p) \/ MarkAlerted(p) \/ Ban(p)
             \/ RecordBlock(p) \/ BanFails(p) \/ CommitFails(p) \/ CycleFails(p)
             \/ SoarUnavailable(p) \/ LoginsUnread(p) \/ Crash(p)
      PROVE  BudgetInv'
  <2>1. /\ UNCHANGED <<analyses, manual>>
        /\ \E s \in {"alert", "mark", "record", "soar", "unlock", "idle"} :
             pc' = [pc EXCEPT ![p] = s]
        /\ found' = found \/ found' = [found EXCEPT ![p] = 0]
    BY <1>7 DEF AlertLeaves, AlertFails, MarkAlerted, Ban, RecordBlock,
       BanFails, CommitFails, CycleFails, SoarUnavailable, LoginsUnread, Crash
  <2> QED BY <1>4, <2>1
<1>8. ASSUME NEW p \in Procs, NEW i \in Ids, AlertCheck(p, i) \/ SoarCheck(p, i)
      PROVE  BudgetInv'
  <2>1. UNCHANGED <<analyses, manual>>
    BY <1>8 DEF AlertCheck, SoarCheck
  <2>2. \/ UNCHANGED <<pc, found>>
        \/ /\ \E s \in {"send", "ban"} : pc' = [pc EXCEPT ![p] = s]
           /\ found' = [found EXCEPT ![p] = i]
    BY <1>8 DEF AlertCheck, SoarCheck
  <2> QED BY <1>4, <2>1, <2>2, BudgetKept
<1>9. ASSUME NEW p \in Procs, NEW i \in Ids, CheckFails(p, i) PROVE BudgetInv'
  BY <1>9, BudgetKept DEF CheckFails
<1> QED
  BY <1>1, <1>2, <1>3, <1>5, <1>6, <1>7, <1>8, <1>9, AnalyzeKept, ChatKept
     DEF Next, People, Step, Trouble

\* With or without the lock, and however often people ask, an incident has at
\* most one analysis of a cycle and one per request served at once.
THEOREM SocAnalysisBudget == Spec => []AnalysisBudget
<1>1. Init => Disjoint /\ BudgetInv
  <2> SUFFICES ASSUME Init PROVE Disjoint /\ BudgetInv
    OBVIOUS
  <2>1. \A i \in Ids : ~Chatting(i) /\ analyses[i] = 0
    BY DEF Init, Chatting
  <2>2. \A i \in Ids : Budget(i)
    BY <2>1, AskingServed DEF Budget
  <2> QED BY <2>2 DEF Init, Disjoint, BudgetInv
<1>2. TypeOK /\ BudgetInv => AnalysisBudget
  <2> SUFFICES ASSUME TypeOK, BudgetInv, NEW i \in Ids
               PROVE  analyses[i] <= 1 + Cardinality(Requests)
    BY DEF AnalysisBudget
  <2>1. analyses[i] \in Nat /\ Budget(i)
    BY DEF TypeOK, BudgetInv
  <2> QED BY <2>1, AskingServed DEF Budget
<1> QED BY <1>1, <1>2, SocInitTypes, RowInit, TypeStep, InHandStep, RowStep,
           DisjointStep, BudgetStep, PTL DEF Spec
=============================================================================
