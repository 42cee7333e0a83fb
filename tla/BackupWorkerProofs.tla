-------------------------- MODULE BackupWorkerProofs --------------------------
(***************************************************************************)
(* Proofs about BackupWorker, for every number of processes, days, forms   *)
(* and failures.  What needs the advisory lock says so.                    *)
(***************************************************************************)
EXTENDS BackupWorker, FiniteSetTheorems, TLAPS

Steps == {"idle", "due", "locked", "start", "dump", "zip", "glob", "list", "unlink", "stat",
          "persist_run", "persist_status", "unlock"}
Results    == {"ok", "error", "broken"}
Outcomes   == {"none", "ok", "error"}
Retentions == {c.retention : c \in Forms \cup {FirstConfig}}
Settings   == [enabled : BOOLEAN, hour : Hours, retention : Retentions]
Endings   == {<<>>, <<"retention">>, <<"hour", "retention">>, Keys}
Locals     == [at : Times, hour : Hours, name : Times, keep : Retentions \cup {1},
               seen : SUBSET Times, outcome : Outcomes]
Dumps      == [config : Settings, last_run : Times \cup {Never}, last_status : Outcomes]
Histories  == [attempts : [Days -> Nat], lost : [Days -> Nat], ended : [Days -> Outcomes],
               half : BOOLEAN, made : [Times -> Nat], deleted : SUBSET Times,
               unpruned : SUBSET Times, namers : [Times -> SUBSET Procs]]

SettingsOK ==
  /\ now \in Times
  /\ config \in Settings /\ submitted \in Settings /\ form \in Endings
  /\ last_run \in Times \cup {Never} /\ last_status \in Outcomes

JobsOK ==
  /\ lock \in Procs \cup {Never}
  /\ create_lock \in [Procs -> Jobs \cup {Never}]
  /\ pc \in [Jobs -> Steps] /\ local \in [Jobs -> Locals] /\ severed \subseteq Jobs
  /\ \A j \in Jobs : pc[j] \in {"list", "unlink"} => local[j].keep \in Retentions
  /\ \A j \in Jobs : pc[j] \in {"due", "locked", "persist_run", "persist_status", "unlock"} => j \in Scheduled

\* A dump that a restore may still bring back has the rows of app_config.
FilesOK ==
  /\ DOMAIN zips \subseteq Times /\ DOMAIN parts \subseteq Times
  /\ \A n \in DOMAIN parts : parts[n].writers \subseteq Jobs /\ parts[n].since \in Times
  /\ spent.restore < MaxOf.restore =>
       /\ \A n \in DOMAIN zips : zips[n].dump \in Dumps
       /\ \A n \in DOMAIN parts : parts[n].dump \in Dumps
  /\ restoring.by \in Procs \cup {Never}
  /\ restoring.step \in {"none", "validate", "terminate", "load"}
  /\ restoring = [step |-> restoring.step, by |-> restoring.by, from |-> restoring.from]
  /\ restoring.step # "none" => restoring.from.dump \in Dumps

TypeOK ==
  /\ SettingsOK /\ JobsOK /\ FilesOK
  /\ spent \in [Kinds -> Nat] /\ hist \in Histories

LEMMA Constants ==
  /\ Retentions \subseteq Nat \ {0} /\ FirstConfig \in Settings /\ Forms \subseteq Settings
  /\ \A t \in Times : Day(t) \in Days /\ Day(t) \in Nat /\ Hour(t) \in Hours /\ t \in Nat
  /\ \A j \in Jobs : Process(j) \in Procs /\ Process(j) # Never
  /\ Never \notin Times /\ Never \notin Jobs /\ 0 \in Hours /\ 0 \in Times
  /\ \A p \in Procs : <<p, "scheduled">> \in Scheduled /\ Process(<<p, "scheduled">>) = p
  /\ Scheduled \subseteq Jobs /\ Manual = Jobs \ Scheduled
<1> USE ConstantsAssumption, FormsAssumption
<1>1. Retentions \subseteq Nat \ {0} /\ FirstConfig \in Settings /\ Forms \subseteq Settings
  BY DEF Retentions, Settings, Configs
<1>2. \A t \in Times : Day(t) \in Days /\ Day(t) \in Nat /\ Hour(t) \in Hours /\ t \in Nat
  BY DEF Times, Days, Day, Hour, Hours
<1>3. \A j \in Jobs : Process(j) \in Procs /\ Process(j) # Never
  BY DEF Jobs, Scheduled, Manual, Process
<1>4. Never \notin Times /\ Never \notin Jobs /\ 0 \in Hours /\ 0 \in Times
  BY DEF Times, Hours, Jobs, Scheduled, Manual
<1>5. \A p \in Procs : <<p, "scheduled">> \in Scheduled /\ Process(<<p, "scheduled">>) = p
  BY DEF Scheduled, Process
<1>6. Scheduled \subseteq Jobs /\ Manual = Jobs \ Scheduled
  BY DEF Jobs, Scheduled, Manual
<1> QED BY <1>1, <1>2, <1>3, <1>4, <1>5, <1>6

LEMMA Spends ==
  ASSUME NEW k \in Kinds, Spend(k)
  PROVE  /\ spent' = [spent EXCEPT ![k] = @ + 1]
         /\ spent \in [Kinds -> Nat] =>
              /\ spent' \in [Kinds -> Nat] /\ spent'[k] = spent[k] + 1
              /\ \A m \in Kinds \ {k} : spent'[m] = spent[m]
         /\ spent[k] < MaxOf[k]
<1>1. spent' = [spent EXCEPT ![k] = @ + 1] /\ spent[k] < MaxOf[k]
  BY Zenon DEF Spend
<1>2. CASE spent \in [Kinds -> Nat]
  BY <1>1, <1>2
<1> QED BY <1>1, <1>2

\* What create_backup leaves behind.
LEMMA Leaves ==
  ASSUME JobsOK, NEW j \in Jobs, NEW result \in Results, Leave(j, result)
  PROVE  /\ create_lock' = [create_lock EXCEPT ![Process(j)] = Never]
         /\ create_lock' \in [Procs -> Jobs \cup {Never}]
         /\ severed' = severed \ {j}
         /\ local' \in [Jobs -> Locals] /\ pc' \in [Jobs -> Steps]
         /\ \A i \in Jobs \ {j} : pc'[i] = pc[i] /\ local'[i] = local[i]
         /\ pc'[j] = IF j \notin Scheduled THEN "idle"
                     ELSE IF result = "broken" THEN "unlock" ELSE "persist_run"
         /\ j \in Scheduled /\ result # "broken" =>
              local'[j].at = local[j].at /\ local'[j].outcome = result
<1>1. Leave(j, result) /\ pc \in [Jobs -> Steps] /\ local \in [Jobs -> Locals]
  BY DEF JobsOK
<1>2. NoLocals \in Locals
  BY Constants DEF NoLocals, Locals, Outcomes
<1>3. j \in Manual <=> j \notin Scheduled
  BY Constants
<1>4. result # "broken" => /\ [NoLocals EXCEPT !.at = local[j].at, !.outcome = result] \in Locals
                           /\ [NoLocals EXCEPT !.at = local[j].at, !.outcome = result].at = local[j].at
                           /\ [NoLocals EXCEPT !.at = local[j].at, !.outcome = result].outcome = result
  <2>1. local[j].at \in Times
    BY <1>1 DEF Locals
  <2> QED BY <1>2, <2>1 DEF Locals, Results, Outcomes, NoLocals
<1>5. /\ local' \in [Jobs -> Locals] 
      /\ \A i \in Jobs \ {j} : local'[i] = local[i]
      /\ j \in Scheduled /\ result # "broken" =>
              local'[j].at = local[j].at /\ local'[j].outcome = result
  BY <1>1, <1>2, <1>4 DEF Leave
<1>6. /\ pc' \in [Jobs -> Steps]
      /\ \A i \in Jobs \ {j} : pc'[i] = pc[i]
      /\ pc'[j] = IF j \notin Scheduled THEN "idle"
                  ELSE IF result = "broken" THEN "unlock" ELSE "persist_run"
  BY <1>1, <1>3 DEF Leave, Steps
<1>7. create_lock' = [create_lock EXCEPT ![Process(j)] = Never] /\ severed' = severed \ {j}
  BY <1>1 DEF Leave
<1>8. create_lock' \in [Procs -> Jobs \cup {Never}]
  BY <1>7 DEF JobsOK
<1> QED BY <1>5, <1>6, <1>7, <1>8

\* ... and what of it goes into the history, h before and g after.
IsNoted(h, g, j, result, leftover) ==
  LET d == Day(local[j].at)
  IN  /\ g \in Histories
      /\ g.attempts = h.attempts /\ g.half = h.half /\ g.made = h.made
      /\ g.deleted = h.deleted /\ g.namers = h.namers
      /\ g.unpruned = h.unpruned \cup leftover
      /\ g.lost = IF j \in Scheduled /\ result = "broken"
                  THEN [h.lost EXCEPT ![d] = h.lost[d] + 1] ELSE h.lost
      /\ g.ended = IF j \in Scheduled /\ result # "broken"
                   THEN [h.ended EXCEPT ![d] = result] ELSE h.ended

LEMMA Notes ==
  ASSUME JobsOK, NEW h \in Histories, NEW j \in Jobs, NEW result \in Results,
         NEW leftover \in SUBSET Times
  PROVE  IsNoted(h, Noted(h, j, result, leftover), j, result, leftover)
<1> DEFINE d == Day(local[j].at)
           g == [h EXCEPT !.unpruned = @ \cup leftover]
           lost == [h.lost EXCEPT ![d] = h.lost[d] + 1]
           ended == [h.ended EXCEPT ![d] = result]
<1>1. local[j].at \in Times
  BY DEF JobsOK, Locals
<1>2. d \in Days
  BY <1>1, Constants
<1>3. h.lost \in [Days -> Nat] /\ h.ended \in [Days -> Outcomes]
  BY DEF Histories
<1>4. lost \in [Days -> Nat]
  <2> HIDE DEF d
  <2>1. h.lost[d] + 1 \in Nat
    BY <1>2, <1>3
  <2> QED BY <1>3, <2>1
<1>5. result # "broken" => ended \in [Days -> Outcomes]
  <2> HIDE DEF d
  <2> QED BY <1>3 DEF Results, Outcomes
<1>6. g \in Histories
  BY DEF Histories
<1>7. Noted(h, j, result, leftover) =
        IF j \notin Scheduled THEN g
        ELSE IF result = "broken" THEN [g EXCEPT !.lost = lost] ELSE [g EXCEPT !.ended = ended]
  <2>1. j \in Manual <=> j \notin Scheduled
    BY Constants
  <2>2. g.lost = h.lost /\ g.ended = h.ended
    BY DEF Histories
  <2> QED BY <2>1, <2>2 DEF Noted
<1> HIDE DEF lost, ended
<1>8. /\ g.attempts = h.attempts /\ g.half = h.half /\ g.made = h.made /\ g.deleted = h.deleted
      /\ g.namers = h.namers /\ g.unpruned = h.unpruned \cup leftover
      /\ g.lost = h.lost /\ g.ended = h.ended
  BY DEF Histories
<1> HIDE DEF g
<1>9. CASE j \notin Scheduled
  BY <1>6, <1>7, <1>8, <1>9 DEF IsNoted
<1>10. CASE j \in Scheduled /\ result = "broken"
  <2>1. Noted(h, j, result, leftover) = [g EXCEPT !.lost = lost]
    BY <1>7, <1>10
  <2>2. [g EXCEPT !.lost = lost] \in Histories
    BY <1>4, <1>6 DEF Histories
  <2> QED BY <1>6, <1>8, <1>10, <2>1, <2>2 DEF Histories, lost, IsNoted
<1>11. CASE j \in Scheduled /\ result # "broken"
  <2>1. Noted(h, j, result, leftover) = [g EXCEPT !.ended = ended]
    BY <1>7, <1>11
  <2>2. [g EXCEPT !.ended = ended] \in Histories
    BY <1>5, <1>6, <1>11 DEF Histories
  <2> QED BY <1>6, <1>8, <1>11, <2>1, <2>2 DEF Histories, ended, IsNoted
<1> QED BY <1>9, <1>10, <1>11

IsCounted(h, g, j) ==
  LET d == Day(local[j].at)
  IN  /\ g \in Histories
      /\ g.lost = h.lost /\ g.ended = h.ended /\ g.half = h.half /\ g.made = h.made
      /\ g.deleted = h.deleted /\ g.namers = h.namers /\ g.unpruned = h.unpruned
      /\ g.attempts = IF j \in Scheduled
                      THEN [h.attempts EXCEPT ![d] = h.attempts[d] + 1] ELSE h.attempts

LEMMA Counts ==
  ASSUME JobsOK, NEW h \in Histories, NEW j \in Jobs
  PROVE  IsCounted(h, Counted(h, j), j)
<1> DEFINE d == Day(local[j].at)
           attempts == [h.attempts EXCEPT ![d] = h.attempts[d] + 1]
<1>1. local[j].at \in Times
  BY DEF JobsOK, Locals
<1>2. d \in Days
  BY <1>1, Constants
<1>3. h.attempts \in [Days -> Nat]
  BY DEF Histories
<1>4. attempts \in [Days -> Nat]
  <2> HIDE DEF d
  <2>1. h.attempts[d] + 1 \in Nat
    BY <1>2, <1>3
  <2> QED BY <1>3, <2>1
<1>5. Counted(h, j) = IF j \in Scheduled THEN [h EXCEPT !.attempts = attempts] ELSE h
  BY DEF Counted
<1> HIDE DEF attempts
<1> QED BY <1>4, <1>5 DEF Histories, attempts, IsCounted

\* A job whose connection is gone ...
LEMMA BreakFields ==
  ASSUME JobsOK, hist \in Histories, NEW j \in Jobs, Break(j)
  PROVE  LET d == Day(local[j].at)
         IN  /\ hist' \in Histories
             /\ hist'.attempts = hist.attempts /\ hist'.made = hist.made
             /\ hist'.deleted = hist.deleted /\ hist'.namers = hist.namers
             /\ hist'.ended = hist.ended
             /\ hist'.unpruned = hist.unpruned \cup (IF pc[j] = "glob" THEN {local[j].name} ELSE {})
             /\ hist'.lost = IF j \in Scheduled /\ pc[j] \in {"glob", "persist_run"}
                             THEN [hist.lost EXCEPT ![d] = hist.lost[d] + 1] ELSE hist.lost
             /\ hist'.half = (hist.half \/ pc[j] = "persist_status")
<1> DEFINE d == Day(local[j].at)
           lost == [hist.lost EXCEPT ![d] = hist.lost[d] + 1]
<1>1. local[j].at \in Times /\ local[j].name \in Times
  BY DEF JobsOK, Locals
<1>2. d \in Days
  BY <1>1, Constants
<1>3. hist.lost \in [Days -> Nat]
  BY DEF Histories
<1>4. lost \in [Days -> Nat]
  <2> HIDE DEF d
  <2>1. hist.lost[d] + 1 \in Nat
    BY <1>2, <1>3
  <2> QED BY <1>3, <2>1
<1>5. CASE pc[j] \in {"due", "locked", "start"}
  <2>1. hist' = hist
    BY <1>5 DEF Break
  <2> QED BY <1>5, <2>1 DEF Histories
<1>6. CASE pc[j] = "glob"
  <2>1. hist' = Noted(hist, j, "broken", {local[j].name})
    BY <1>6 DEF Break
  <2>2. {local[j].name} \in SUBSET Times /\ "broken" \in Results
    BY <1>1 DEF Results
  <2>3. IsNoted(hist, hist', j, "broken", {local[j].name})
    BY <2>1, <2>2, Notes
  <2>4. hist'.half = (hist.half \/ pc[j] = "persist_status")
    <3>1. hist.half \in BOOLEAN /\ pc[j] # "persist_status"
      BY <1>6 DEF Histories
    <3> QED BY Zenon, <2>3, <3>1 DEF IsNoted
  <2> QED BY <1>6, <2>3, <2>4 DEF IsNoted
<1>7. CASE pc[j] = "persist_run"
  <2>1. hist' = [hist EXCEPT !.lost = lost]
    BY <1>7 DEF Break
  <2>2. j \in Scheduled
    BY <1>7 DEF JobsOK
  <2> HIDE DEF lost
  <2> QED BY <1>4, <1>7, <2>1, <2>2 DEF Histories, lost
<1>8. CASE pc[j] = "persist_status"
  <2>1. hist' = [hist EXCEPT !.half = TRUE]
    BY <1>8 DEF Break
  <2> QED BY <1>8, <2>1 DEF Histories
<1> QED BY <1>5, <1>6, <1>7, <1>8 DEF Break

\* ... and a process that dies.
Begun == {"dump", "zip", "glob", "list", "unlink", "stat", "persist_run"}

LEMMA CrashFields ==
  ASSUME JobsOK, hist \in Histories, NEW p \in Procs, Crash(p)
  PROVE  LET s == <<p, "scheduled">>
             d == Day(local[s].at)
         IN  /\ hist' \in Histories
             /\ hist'.attempts = hist.attempts /\ hist'.made = hist.made
             /\ hist'.deleted = hist.deleted /\ hist'.namers = hist.namers
             /\ hist'.ended = hist.ended
             /\ hist'.unpruned = hist.unpruned \cup
                  {local[j].name : j \in {i \in OfProcess(p) : pc[i] \in {"glob", "list", "unlink"}}}
             /\ hist'.lost = IF pc[s] \in Begun
                             THEN [hist.lost EXCEPT ![d] = hist.lost[d] + 1] ELSE hist.lost
             /\ hist'.half = (hist.half \/ pc[s] = "persist_status")
<1> DEFINE s == <<p, "scheduled">>
           d == Day(local[s].at)
           lost == [hist.lost EXCEPT ![d] = IF pc[s] \in Begun THEN hist.lost[d] + 1 ELSE hist.lost[d]]
           late == {local[j].name : j \in {i \in OfProcess(p) : pc[i] \in {"glob", "list", "unlink"}}}
           half == hist.half \/ pc[s] = "persist_status"
<1>1. local[s].at \in Times /\ \A j \in Jobs : local[j].name \in Times
  BY Constants DEF JobsOK, Locals
<1>2. d \in Days
  BY <1>1, Constants
<1>3. hist.lost \in [Days -> Nat] /\ hist.half \in BOOLEAN
  BY DEF Histories
<1>4. lost \in [Days -> Nat]
  <2> HIDE DEF d
  <2>1. hist.lost[d] + 1 \in Nat /\ hist.lost[d] \in Nat
    BY <1>2, <1>3
  <2> QED BY <1>3, <2>1
<1>5. late \subseteq Times
  BY <1>1 DEF OfProcess
<1>6. half \in BOOLEAN
  BY Zenon, <1>3
<1>7. hist' = [hist EXCEPT !.lost = lost, !.half = half, !.unpruned = @ \cup late]
  BY DEF Crash, Begun
<1>8. lost = IF pc[s] \in Begun THEN [hist.lost EXCEPT ![d] = hist.lost[d] + 1] ELSE hist.lost
  BY <1>3
<1> HIDE DEF lost, late, half
<1>9. /\ hist' \in Histories /\ hist'.lost = lost /\ hist'.half = half
      /\ hist'.unpruned = hist.unpruned \cup late
      /\ hist'.attempts = hist.attempts /\ hist'.made = hist.made
      /\ hist'.deleted = hist.deleted /\ hist'.namers = hist.namers
      /\ hist'.ended = hist.ended
  BY <1>4, <1>5, <1>6, <1>7 DEF Histories
<1> QED BY <1>8, <1>9 DEF late, half

LEMMA TypeInit == Init => TypeOK
<1> SUFFICES ASSUME Init PROVE TypeOK
  OBVIOUS
<1> USE Constants
<1>1. SettingsOK
  BY DEF Init, SettingsOK, Endings, Outcomes
<1>2. NoLocals \in Locals
  BY DEF NoLocals, Locals, Outcomes
<1>3. JobsOK
  BY <1>2 DEF Init, JobsOK, Steps
<1>4. DOMAIN zips = {} /\ DOMAIN parts = {}
  BY DEF Init
<1>5. FilesOK
  BY <1>4 DEF Init, FilesOK, NoRestore
<1>6. hist \in Histories
  BY DEF Init, Histories, Outcomes
<1>7. spent \in [Kinds -> Nat]
  BY DEF Init
<1> QED BY <1>1, <1>3, <1>5, <1>6, <1>7 DEF TypeOK

LEMMA StoreKeyTyped ==
  ASSUME SettingsOK, StoreKey PROVE config' \in Settings /\ form' \in Endings
<1>1. CASE form = Keys
  <2>1. Head(form) = "enabled" /\ Tail(form) = <<"hour", "retention">>
    BY <1>1 DEF Keys
  <2>2. config' = [config EXCEPT !.enabled = submitted.enabled]
    BY <2>1 DEF StoreKey
  <2> QED BY <2>1, <2>2 DEF SettingsOK, StoreKey, Settings, Endings
<1>2. CASE form = <<"hour", "retention">>
  <2>1. Head(form) = "hour" /\ Tail(form) = <<"retention">>
    BY <1>2
  <2>2. config' = [config EXCEPT !.hour = submitted.hour]
    BY <2>1 DEF StoreKey
  <2> QED BY <2>1, <2>2 DEF SettingsOK, StoreKey, Settings, Endings
<1>3. CASE form = <<"retention">>
  <2>1. Head(form) = "retention" /\ Tail(form) = <<>>
    BY <1>3
  <2>2. config' = [config EXCEPT !.retention = submitted.retention]
    BY <2>1 DEF StoreKey
  <2> QED BY <2>1, <2>2 DEF SettingsOK, StoreKey, Settings, Endings
<1> QED BY <1>1, <1>2, <1>3 DEF SettingsOK, Endings, StoreKey

\* A step that moves one job and gives it new locals.
LEMMA MoveTyped ==
  ASSUME JobsOK, NEW j \in Jobs, NEW step \in Steps, NEW x \in Locals,
         pc' = [pc EXCEPT ![j] = step], local' = [local EXCEPT ![j] = x],
         lock' \in Procs \cup {Never}, create_lock' \in [Procs -> Jobs \cup {Never}],
         severed' \subseteq severed,
         step \in {"list", "unlink"} => x.keep \in Retentions,
         step \in {"due", "locked", "persist_run", "persist_status", "unlock"} => j \in Scheduled
  PROVE  JobsOK'
BY DEF JobsOK

\* The archives and the restore are left alone, or an archive goes.
LEMMA FilesFrame ==
  ASSUME FilesOK, spent \in [Kinds -> Nat], spent' \in [Kinds -> Nat], UNCHANGED restoring,
         DOMAIN zips' \subseteq DOMAIN zips, \A n \in DOMAIN zips' : zips'[n] = zips[n],
         DOMAIN parts' \subseteq DOMAIN parts, \A n \in DOMAIN parts' : parts'[n] = parts[n],
         spent'.restore >= spent.restore
  PROVE  FilesOK'
<1>1. MaxOf.restore \in Nat /\ spent.restore \in Nat /\ spent'.restore \in Nat
  BY BoundsAssumption DEF Kinds
<1>2. spent'.restore < MaxOf.restore => spent.restore < MaxOf.restore
  BY <1>1
<1> QED BY <1>2 DEF FilesOK

\* What is spent stays spent.
LEMMA SpentStep ==
  ASSUME TypeOK, [Next]_vars
  PROVE  /\ spent' \in [Kinds -> Nat] /\ \A k \in Kinds : spent'[k] >= spent[k]
         /\ ~(\E p \in WebProcs : AskRestore(p)) => spent'.restore = spent.restore
<1>0. spent \in [Kinds -> Nat] /\ \A k \in Kinds : spent[k] >= spent[k]
  <2>1. spent \in [Kinds -> Nat]
    BY DEF TypeOK
  <2> QED BY <2>1
<1>1. \/ spent' = spent
      \/ \E k \in Kinds \ {"restore"} : Spend(k)
      \/ Spend("restore") /\ \E p \in WebProcs : AskRestore(p)
  <2> DEFINE Unspent == spent' = spent \/ \E k \in Kinds \ {"restore"} : Spend(k)
  <2>1. ASSUME NEW j \in Jobs, Tick(j) \/ TryLock(j) \/ Recheck(j) \/ RunNow(j) \/ Begin(j) \/ NoPassword(j)
                              \/ OpenPart(j) \/ DumpFails(j) \/ Fault(j)
        PROVE  Unspent
    BY <2>1 DEF Tick, TryLock, Recheck, RunNow, Begin, NoPassword, OpenPart, DumpFails, Fault, Kinds
  <2>2. ASSUME NEW j \in Jobs, ZipFails(j) \/ Replace(j) \/ Glob(j) \/ List(j) \/ ListFails(j) \/ Unlink(j)
                              \/ Finish(j) \/ PersistRun(j) \/ PersistStatus(j) \/ Unlock(j) \/ Break(j)
        PROVE  Unspent
    BY <2>2 DEF ZipFails, Replace, Glob, List, ListFails, Unlink, Finish, PersistRun, PersistStatus, Unlock,
                Break, Kinds
  <2>3. ASSUME Advance \/ Submit \/ StoreKey \/ Delete \/ UNCHANGED vars PROVE Unspent
    BY <2>3 DEF Advance, Submit, StoreKey, Delete, vars, Kinds
  <2>4. ASSUME Validate \/ Terminate \/ Load \/ LoadFails PROVE Unspent
    BY <2>4 DEF Validate, Terminate, Load, LoadFails, Kinds
  <2>5. ASSUME NEW p \in Procs, Crash(p) PROVE Unspent
    BY <2>5 DEF Crash, Kinds
  <2>6. ASSUME NEW p \in WebProcs, AskRestore(p) PROVE Spend("restore")
    BY <2>6 DEF AskRestore
  <2> HIDE DEF Unspent
  <2>7. ASSUME NEW j \in Jobs, RunNow(j) \/ Thread(j) PROVE Unspent
    BY <2>1, <2>2, <2>7 DEF Thread
  <2>8. Unspent \/ (Spend("restore") /\ \E p \in WebProcs : AskRestore(p))
    BY <2>3, <2>4, <2>5, <2>6, <2>7 DEF Next
  <2> QED BY <2>8 DEF Unspent
<1>2. ASSUME NEW k \in Kinds, Spend(k)
      PROVE  spent' \in [Kinds -> Nat] /\ \A m \in Kinds : spent'[m] >= spent[m]
  <2>1. /\ spent' \in [Kinds -> Nat] /\ spent'[k] = spent[k] + 1
        /\ \A m \in Kinds \ {k} : spent'[m] = spent[m]
    BY <1>0, <1>2, Spends
  <2>2. \A m \in Kinds : spent[m] \in Nat
    BY <1>0
  <2> QED BY <2>1, <2>2
<1>3. ASSUME NEW k \in Kinds \ {"restore"}, Spend(k) PROVE spent'.restore = spent.restore
  BY <1>0, <1>3, Spends DEF Kinds
<1> QED BY <1>0, <1>1, <1>2, <1>3 DEF Kinds

\* A dump taken while the bounds leave a restore has the rows.
LEMMA DatabaseTyped ==
  ASSUME SettingsOK, spent.restore < MaxOf.restore PROVE Database \in Dumps
BY DEF SettingsOK, Database, Dumps

LEMMA TypeStep == TypeOK /\ [Next]_vars => TypeOK'
<1> SUFFICES ASSUME TypeOK, [Next]_vars PROVE TypeOK'
  OBVIOUS
<1> USE DEF settings, record, files, restore
<1>0. /\ SettingsOK /\ JobsOK /\ FilesOK /\ hist \in Histories
      /\ spent \in [Kinds -> Nat] /\ spent' \in [Kinds -> Nat]
      /\ spent'.restore >= spent.restore
  BY SpentStep DEF TypeOK, Kinds
<1>1. NoLocals \in Locals /\ local \in [Jobs -> Locals] /\ pc \in [Jobs -> Steps]
  BY <1>0, Constants DEF NoLocals, Locals, Outcomes, JobsOK
<1>2. UNCHANGED <<now, settings, record>> => SettingsOK'
  BY <1>0 DEF SettingsOK
<1>3. UNCHANGED <<lock, create_lock, pc, local, severed>> => JobsOK'
  BY <1>0 DEF JobsOK
<1>4. UNCHANGED <<zips, parts, restoring>> => FilesOK'
  BY <1>0, FilesFrame
<1>5. ASSUME SettingsOK', JobsOK', FilesOK', hist' \in Histories PROVE TypeOK'
  BY <1>0, <1>5 DEF TypeOK
<1>6. ASSUME Advance PROVE TypeOK'
  <2>1. now' \in Times
    BY <1>0, <1>6, ConstantsAssumption DEF Advance, SettingsOK, Times
  <2> QED BY <1>0, <1>3, <1>4, <1>5, <1>6, <2>1 DEF Advance, SettingsOK
<1>7. ASSUME Submit PROVE TypeOK'
  <2>1. submitted' \in Settings /\ form' \in Endings
    BY <1>7, Constants DEF Submit, Endings
  <2> QED BY <1>0, <1>3, <1>4, <1>5, <1>7, <2>1 DEF Submit, SettingsOK
<1>8. ASSUME StoreKey PROVE TypeOK'
  BY <1>0, <1>3, <1>4, <1>5, <1>8, StoreKeyTyped DEF StoreKey, SettingsOK
<1>9. ASSUME Delete PROVE TypeOK'
  <2>1. PICK n \in DOMAIN zips : /\ zips' = Without(zips, {n})
                                 /\ hist' = [hist EXCEPT !.deleted = @ \cup {n}]
    BY <1>9 DEF Delete
  <2>2. n \in Times
    BY <1>0 DEF FilesOK
  <2>3. hist' \in Histories
    BY <1>0, <2>1, <2>2 DEF Histories
  <2>4. FilesOK'
    <3>1. DOMAIN zips' \subseteq DOMAIN zips /\ \A m \in DOMAIN zips' : zips'[m] = zips[m]
      BY <2>1 DEF Without
    <3>2. UNCHANGED <<parts, restoring>>
      BY <1>9 DEF Delete
    <3> QED BY <1>0, <3>1, <3>2, FilesFrame
  <2> QED BY <1>2, <1>3, <1>5, <1>9, <2>3, <2>4 DEF Delete
<1>10. ASSUME NEW j \in Jobs, Tick(j) PROVE TypeOK'
  <2>1. [local[j] EXCEPT !.at = now, !.hour = config.hour] \in Locals
    BY <1>0, <1>1 DEF SettingsOK, Settings, Locals
  <2>2. local' = [local EXCEPT ![j] = [local[j] EXCEPT !.at = now, !.hour = config.hour]]
    BY <1>10 DEF Tick
  <2>3. JobsOK'
    <3>1. lock' \in Procs \cup {Never} /\ create_lock' \in [Procs -> Jobs \cup {Never}]
      BY <1>0, <1>10 DEF Tick, JobsOK
    <3> QED BY <1>0, <1>10, <2>1, <2>2, <3>1, MoveTyped DEF Tick, Steps
  <2> QED BY <1>0, <1>2, <1>4, <1>5, <1>10, <2>3 DEF Tick
<1>11. ASSUME NEW j \in Jobs,
              TryLock(j) \/ Recheck(j) \/ RunNow(j) \/ List(j) \/ PersistRun(j)
              \/ PersistStatus(j) \/ Unlock(j)
       PROVE  TypeOK'
  <2>1. PICK step \in Steps, x \in {local[j], NoLocals} :
          /\ pc' = [pc EXCEPT ![j] = step] /\ local' = [local EXCEPT ![j] = x]
          /\ step = "unlink" => pc[j] = "list" /\ x = local[j]
          /\ step # "list"
          /\ step \in {"due", "locked", "persist_run", "persist_status", "unlock"} =>
               pc[j] \in {"due", "locked", "persist_run", "persist_status", "unlock"}
    <3>1. local = [local EXCEPT ![j] = local[j]]
      BY <1>1
    <3>2. CASE TryLock(j)
      <4>1. CASE Dialect = "postgresql"
        <5>1. CASE lock = Never
          BY <3>1, <3>2, <4>1, <5>1 DEF TryLock, Steps
        <5>2. CASE lock # Never
          BY <3>1, <3>2, <4>1, <5>2 DEF TryLock, Steps
        <5> QED BY <5>1, <5>2
      <4>2. CASE Dialect # "postgresql"
        BY <3>1, <3>2, <4>2 DEF TryLock, Steps
      <4> QED BY <4>1, <4>2
    <3>3. CASE Recheck(j)
      BY <3>1, <3>3 DEF Recheck, Steps
    <3>4. CASE RunNow(j) \/ List(j) \/ PersistRun(j) \/ PersistStatus(j) \/ Unlock(j)
      BY <3>1, <3>4 DEF RunNow, List, PersistRun, PersistStatus, Unlock, Steps
    <3> QED BY <1>11, <3>2, <3>3, <3>4
  <2>2. /\ lock' \in Procs \cup {Never} /\ create_lock' \in [Procs -> Jobs \cup {Never}]
        /\ severed' \subseteq severed /\ UNCHANGED <<zips, parts, restoring>>
    BY <1>0, <1>11, Constants DEF TryLock, Recheck, RunNow, List, PersistRun, PersistStatus,
       Unlock, JobsOK
  <2>3. JobsOK'
    <3>1. /\ x \in Locals
          /\ step \in {"list", "unlink"} => x.keep \in Retentions
          /\ step \in {"due", "locked", "persist_run", "persist_status", "unlock"} => j \in Scheduled
      BY <1>0, <1>1, <2>1 DEF JobsOK
    <3> QED BY <1>0, <2>1, <2>2, <3>1, MoveTyped
  <2>4. hist' \in Histories
    BY <1>0, <1>11 DEF TryLock, Recheck, RunNow, List, PersistRun, PersistStatus, Unlock,
       Histories
  <2>5. SettingsOK'
    <3>1. last_run' \in Times \cup {Never} /\ last_status' \in Outcomes
      BY <1>0, <1>1, <1>11 DEF TryLock, Recheck, RunNow, List, PersistRun, PersistStatus,
         Unlock, SettingsOK, Locals
    <3> QED BY <1>0, <1>11, <3>1 DEF TryLock, Recheck, RunNow, List, PersistRun,
               PersistStatus, Unlock, SettingsOK
  <2> QED BY <1>4, <1>5, <2>2, <2>3, <2>4, <2>5
<1>12. ASSUME NEW j \in Jobs, NEW result \in Results, NEW leftover \in SUBSET Times,
              NEW h \in Histories, Leave(j, result),
              hist' = Noted(h, j, result, leftover),
              UNCHANGED <<now, settings, restoring, record, lock, zips>>,
              parts' = parts \/ parts' = Without(parts, {local[j].name})
                \/ parts' = Without(parts, Orphans)
       PROVE  TypeOK'
  <2>1. hist' \in Histories
    BY <1>0, <1>12, Notes DEF IsNoted
  <2>2. JobsOK'
    BY <1>0, <1>12, Leaves DEF JobsOK
  <2>3. FilesOK'
    <3>1. DOMAIN parts' \subseteq DOMAIN parts /\ \A n \in DOMAIN parts' : parts'[n] = parts[n]
      BY <1>12 DEF Without
    <3> QED BY <1>0, <1>12, <3>1, FilesFrame
  <2> QED BY <1>2, <1>5, <1>12, <2>1, <2>2, <2>3
<1>13. ASSUME NEW j \in Jobs,
              \/ NoPassword(j) \/ DumpFails(j) \/ Fault(j) \/ ZipFails(j) \/ ListFails(j)
              \/ Finish(j)
       PROVE  TypeOK'
  <2>1. Counted(hist, j) \in Histories
    BY <1>0, Counts DEF IsCounted
  <2>2. {local[j].name} \in SUBSET Times /\ {} \in SUBSET Times
    BY <1>1 DEF Locals
  <2>3. \E result \in Results, leftover \in SUBSET Times, h \in Histories :
          Leave(j, result) /\ hist' = Noted(h, j, result, leftover)
    BY <1>0, <1>13, <2>1, <2>2 DEF NoPassword, DumpFails, Fault, ZipFails, ListFails, Finish,
       Results
  <2>4. /\ UNCHANGED <<now, settings, restoring, record, lock, zips>>
        /\ parts' = parts \/ parts' = Without(parts, {local[j].name})
    BY <1>13 DEF NoPassword, DumpFails, Fault, ZipFails, ListFails, Finish
  <2> QED BY <1>12, <2>3, <2>4
<1>14. ASSUME NEW j \in Jobs, Begin(j) PROVE TypeOK'
  <2>1. now \in Times /\ [local[j] EXCEPT !.name = now] \in Locals
    BY <1>0, <1>1 DEF SettingsOK, Locals
  <2>2. local' = [local EXCEPT ![j] = [local[j] EXCEPT !.name = now]]
    BY <1>14 DEF Begin
  <2>3. lock' \in Procs \cup {Never} /\ create_lock' \in [Procs -> Jobs \cup {Never}]
    BY <1>0, <1>14 DEF Begin, JobsOK
  <2>4. JobsOK'
    BY <1>0, <1>14, <2>1, <2>2, <2>3, MoveTyped DEF Begin, Steps
  <2>5. hist' \in Histories
    <3>1. Counted(hist, j) \in Histories
      BY <1>0, Counts DEF IsCounted
    <3>2. Process(j) \in Procs
      BY Constants
    <3>3. hist' = [Counted(hist, j) EXCEPT !.namers[now] = @ \cup {Process(j)}]
      BY <1>14 DEF Begin
    <3> HIDE DEF Histories
    <3>4. Counted(hist, j).namers \in [Times -> SUBSET Procs]
      BY <3>1 DEF Histories
    <3> QED BY <2>1, <3>1, <3>2, <3>3, <3>4 DEF Histories
  <2> QED BY <1>2, <1>4, <1>5, <1>14, <2>4, <2>5 DEF Begin
<1>15. ASSUME NEW j \in Jobs, OpenPart(j) PROVE TypeOK'
  <2> DEFINE n == local[j].name
             others == IF n \in DOMAIN parts THEN {i \in parts[n].writers : pc[i] = "zip"} ELSE {}
             part == [since |-> now, writers |-> {j} \cup others, dump |-> Database]
  <2>1. n \in Times /\ now \in Times /\ others \subseteq Jobs
    BY <1>0, <1>1 DEF Locals, SettingsOK, FilesOK
  <2>2. parts' = With(parts, n, part) /\ UNCHANGED <<zips, restoring, spent>>
    BY <1>15 DEF OpenPart
  <2>3. FilesOK'
    <3>1. /\ DOMAIN parts' = DOMAIN parts \cup {n} /\ parts'[n] = part
          /\ \A m \in DOMAIN parts \ {n} : parts'[m] = parts[m]
      BY <2>2 DEF With
    <3>2. part.writers \subseteq Jobs /\ part.since \in Times
      BY <2>1
    <3>3. spent.restore < MaxOf.restore => part.dump \in Dumps
      BY <1>0, DatabaseTyped
    <3> HIDE DEF part, n
    <3>4. FilesOK
      BY <1>0
    <3>5. /\ DOMAIN parts' \subseteq Times
          /\ \A m \in DOMAIN parts' : parts'[m].writers \subseteq Jobs /\ parts'[m].since \in Times
      BY <2>1, <3>1, <3>2, <3>4 DEF FilesOK
    <3>6. spent.restore < MaxOf.restore => \A m \in DOMAIN parts' : parts'[m].dump \in Dumps
      BY <3>1, <3>3, <3>4 DEF FilesOK
    <3> QED BY <2>2, <3>4, <3>5, <3>6 DEF FilesOK
  <2>4. JobsOK'
    BY <1>0, <1>15 DEF OpenPart, JobsOK, Steps
  <2> QED BY <1>0, <1>2, <1>5, <1>15, <2>3, <2>4 DEF OpenPart
<1>16. ASSUME NEW j \in Jobs, Replace(j) PROVE TypeOK'
  <2> DEFINE n == local[j].name
             zip == [state |-> IF parts[n].writers = {j} THEN "whole" ELSE "torn",
                     dump |-> parts[n].dump]
  <2>1. n \in Times /\ n \in DOMAIN parts
    BY <1>1, <1>16 DEF Locals, Replace
  <2>2. /\ zips' = With(zips, n, zip) /\ parts' = Without(parts, {n})
        /\ UNCHANGED <<restoring, spent>>
    BY <1>16 DEF Replace
  <2>3. FilesOK'
    <3>1. /\ DOMAIN zips' = DOMAIN zips \cup {n} /\ zips'[n] = zip
          /\ \A m \in DOMAIN zips \ {n} : zips'[m] = zips[m]
      BY <2>2 DEF With
    <3>2. DOMAIN parts' \subseteq DOMAIN parts /\ \A m \in DOMAIN parts' : parts'[m] = parts[m]
      BY <2>2 DEF Without
    <3>3. zip.dump = parts[n].dump
      OBVIOUS
    <3> HIDE DEF zip, n
    <3>4. FilesOK
      BY <1>0
    <3>5. /\ DOMAIN zips' \subseteq Times /\ DOMAIN parts' \subseteq Times
          /\ \A m \in DOMAIN parts' : parts'[m].writers \subseteq Jobs /\ parts'[m].since \in Times
      BY <2>1, <3>1, <3>2, <3>4 DEF FilesOK
    <3>6. spent.restore < MaxOf.restore => /\ \A m \in DOMAIN zips' : zips'[m].dump \in Dumps
                                          /\ \A m \in DOMAIN parts' : parts'[m].dump \in Dumps
      BY <2>1, <3>1, <3>2, <3>3, <3>4 DEF FilesOK
    <3> QED BY <2>2, <3>4, <3>5, <3>6 DEF FilesOK
  <2>4. JobsOK'
    BY <1>0, <1>16 DEF Replace, JobsOK, Steps
  <2>5. hist' \in Histories
    <3>1. hist.made \in [Times -> Nat] /\ hist.made[n] \in Nat
      BY <1>0, <2>1 DEF Histories
    <3>2. [hist.made EXCEPT ![n] = hist.made[n] + 1] \in [Times -> Nat]
      <4> HIDE DEF n
      <4>1. hist.made[n] + 1 \in Nat
        BY <3>1
      <4> QED BY <3>1, <4>1
    <3>3. hist' = [hist EXCEPT !.made = [hist.made EXCEPT ![n] = hist.made[n] + 1]]
      BY <1>16 DEF Replace
    <3> QED BY <1>0, <3>2, <3>3 DEF Histories
  <2> QED BY <1>2, <1>5, <1>16, <2>3, <2>4, <2>5 DEF Replace
<1>17. ASSUME NEW j \in Jobs, Glob(j) PROVE TypeOK'
  <2> DEFINE x == [local[j] EXCEPT !.keep = config.retention, !.seen = DOMAIN zips]
  <2>1. config.retention \in Retentions /\ DOMAIN zips \subseteq Times
    BY <1>0 DEF SettingsOK, Settings, FilesOK
  <2>2. x \in Locals /\ x.keep \in Retentions
    BY <1>1, <2>1 DEF Locals
  <2>3. local' = [local EXCEPT ![j] = x] /\ pc' = [pc EXCEPT ![j] = "list"]
    BY <1>17 DEF Glob
  <2>4. JobsOK'
    <3>1. /\ lock' \in Procs \cup {Never} /\ create_lock' \in [Procs -> Jobs \cup {Never}]
          /\ severed' = severed
      BY <1>0, <1>17 DEF Glob, JobsOK
    <3> HIDE DEF x
    <3> QED BY <1>0, <2>2, <2>3, <3>1, MoveTyped DEF Steps
  <2> QED BY <1>0, <1>2, <1>4, <1>5, <1>17, <2>4 DEF Glob
<1>18. ASSUME NEW j \in Jobs, Unlink(j) PROVE TypeOK'
  <2>1. FilesOK'
    <3>1. /\ DOMAIN zips' \subseteq DOMAIN zips /\ \A m \in DOMAIN zips' : zips'[m] = zips[m]
          /\ DOMAIN parts' \subseteq DOMAIN parts /\ \A m \in DOMAIN parts' : parts'[m] = parts[m]
          /\ UNCHANGED restoring
      BY <1>18 DEF Unlink, Without
    <3> QED BY <1>0, <3>1, FilesFrame
  <2>2. JobsOK'
    BY <1>0, <1>18 DEF Unlink, JobsOK, Steps
  <2>3. hist' \in Histories
    BY <1>0, <1>18 DEF Unlink, Histories
  <2> QED BY <1>2, <1>5, <1>18, <2>1, <2>2, <2>3 DEF Unlink
<1>19. ASSUME NEW p \in WebProcs, AskRestore(p) PROVE TypeOK'
  <2>1. PICK n \in DOMAIN zips : restoring' = [step |-> "validate", by |-> p, from |-> zips[n]]
    BY <1>19 DEF AskRestore
  <2>2. spent.restore < MaxOf.restore /\ p \in Procs
    BY <1>19, Spends, ConstantsAssumption DEF AskRestore, Kinds
  <2>3. zips[n].dump \in Dumps
    BY <1>0, <2>2 DEF FilesOK
  <2>4. restoring'.from = zips[n] /\ restoring'.step = "validate" /\ restoring'.by = p
    BY <2>1
  <2>5. MaxOf.restore \in Nat /\ spent.restore \in Nat /\ spent'.restore \in Nat
    BY <1>0, BoundsAssumption DEF Kinds
  <2>6. FilesOK'
    BY <1>0, <1>19, <2>1, <2>2, <2>3, <2>4, <2>5 DEF FilesOK, AskRestore
  <2> QED BY <1>0, <1>2, <1>3, <1>5, <1>19, <2>6 DEF AskRestore
<1>20. ASSUME Validate PROVE TypeOK'
  <2>1. \/ restoring' = [restoring EXCEPT !.step = "terminate"] /\ restoring.step # "none"
        \/ restoring' = NoRestore
    BY <1>20 DEF Validate
  <2>2. UNCHANGED <<zips, parts, spent>>
    BY <1>20 DEF Validate
  <2>3. FilesOK'
    <3>1. CASE restoring' = NoRestore
      BY <1>0, <2>2, <3>1 DEF FilesOK, NoRestore
    <3>2. CASE restoring' = [restoring EXCEPT !.step = "terminate"] /\ restoring.step # "none"
      <4>1. /\ restoring'.step = "terminate" /\ restoring'.by = restoring.by
            /\ restoring'.from = restoring.from
            /\ restoring' = [step |-> "terminate", by |-> restoring.by, from |-> restoring.from]
        BY <1>0, <3>2 DEF FilesOK
      <4> QED BY <1>0, <2>2, <3>2, <4>1 DEF FilesOK
    <3> QED BY <2>1, <3>1, <3>2
  <2> QED BY <1>0, <1>2, <1>3, <1>5, <1>20, <2>3 DEF Validate
<1>21. ASSUME Terminate PROVE TypeOK'
  <2>1. /\ restoring' = [restoring EXCEPT !.step = "load"] /\ restoring.step = "terminate"
        /\ UNCHANGED <<zips, parts, spent, now, config, submitted, record, create_lock, pc,
                       local, hist>>
    BY <1>21 DEF Terminate
  <2>2. FilesOK'
    <3>1. /\ restoring'.step = "load" /\ restoring'.by = restoring.by
          /\ restoring'.from = restoring.from
          /\ restoring' = [step |-> "load", by |-> restoring.by, from |-> restoring.from]
      BY <1>0, <2>1 DEF FilesOK
    <3> QED BY <1>0, <2>1, <3>1 DEF FilesOK
  <2>3. lock' \in Procs \cup {Never} /\ severed' \subseteq Jobs /\ form' \in Endings
    <3>1. CASE Dialect = "postgresql"
      BY <1>0, <1>21, <3>1 DEF Terminate, JobsOK, SettingsOK, Endings, OfProcess
    <3>2. CASE Dialect # "postgresql"
      BY <1>0, <1>21, <3>2 DEF Terminate, JobsOK, SettingsOK
    <3> QED BY <3>1, <3>2
  <2>4. JobsOK'
    BY <1>0, <2>1, <2>3 DEF JobsOK
  <2>5. SettingsOK'
    BY <1>0, <2>1, <2>3 DEF SettingsOK
  <2> QED BY <1>0, <1>5, <2>1, <2>2, <2>4, <2>5
<1>22. ASSUME Load \/ LoadFails PROVE TypeOK'
  <2>1. config' \in Settings /\ last_run' \in Times \cup {Never} /\ last_status' \in Outcomes
    <3>1. CASE Load
      <4>1. restoring.from.dump \in Dumps
        BY <1>0, <3>1 DEF Load, FilesOK
      <4> QED BY <3>1, <4>1 DEF Load, Dumps
    <3>2. CASE LoadFails
      <4>1. [FirstConfig EXCEPT !.enabled = FALSE] \in Settings
        BY Constants DEF Settings
      <4> QED BY <1>0, <3>2, <4>1 DEF LoadFails, SettingsOK, Outcomes
    <3> QED BY <1>22, <3>1, <3>2
  <2>2. /\ restoring' = NoRestore
        /\ UNCHANGED <<now, form, submitted, lock, create_lock, pc, local, files, severed, spent, hist>>
    BY <1>22 DEF Load, LoadFails
  <2>3. SettingsOK'
    BY <1>0, <2>1, <2>2 DEF SettingsOK
  <2>4. FilesOK'
    BY <1>0, <2>2 DEF FilesOK, NoRestore
  <2> QED BY <1>0, <1>3, <1>5, <2>2, <2>3, <2>4
<1>23. ASSUME NEW j \in Jobs, Break(j) PROVE TypeOK'
  <2>1. PICK step \in Steps : /\ pc' = [pc EXCEPT ![j] = step] /\ step \in {"unlock", "idle"}
                              /\ step = "unlock" => j \in Scheduled
    <3>1. CASE j \in Scheduled /\ pc[j] # "due"
      BY <1>23, <3>1 DEF Break, Steps
    <3>2. CASE ~(j \in Scheduled /\ pc[j] # "due")
      BY <1>1, <1>23, <3>2 DEF Break, Steps
    <3> QED BY <3>1, <3>2
  <2>2. local' = [local EXCEPT ![j] = NoLocals] /\ severed' = severed \ {j} /\ lock' = lock
    BY <1>23 DEF Break
  <2>3. create_lock' \in [Procs -> Jobs \cup {Never}]
    BY <1>0, <1>23 DEF Break, JobsOK
  <2>4. JobsOK'
    BY <1>0, <1>1, <2>1, <2>2, <2>3, MoveTyped DEF JobsOK
  <2>5. hist' \in Histories
    BY <1>0, <1>23, BreakFields
  <2> QED BY <1>2, <1>4, <1>5, <1>23, <2>4, <2>5 DEF Break
<1>24. ASSUME NEW p \in Procs, Crash(p) PROVE TypeOK'
  <2>1. /\ pc' = [j \in Jobs |-> IF j \in OfProcess(p) THEN "idle" ELSE pc[j]]
        /\ local' = [j \in Jobs |-> IF j \in OfProcess(p) THEN NoLocals ELSE local[j]]
        /\ create_lock' = [create_lock EXCEPT ![p] = Never]
        /\ severed' = severed \ OfProcess(p)
        /\ lock' \in {Never, lock}
        /\ UNCHANGED <<now, settings, record, files>>
    BY <1>24 DEF Crash
  <2>2. JobsOK'
    <3>1. /\ pc' \in [Jobs -> Steps] /\ local' \in [Jobs -> Locals]
          /\ \A j \in Jobs : /\ pc'[j] # "idle" => pc'[j] = pc[j] /\ local'[j] = local[j]
      BY <1>1, <2>1 DEF Steps
    <3>2. create_lock' \in [Procs -> Jobs \cup {Never}]
      BY <1>0, <2>1 DEF JobsOK
    <3> QED BY <1>0, <2>1, <3>1, <3>2 DEF JobsOK
  <2>3. FilesOK'
    <3>1. restoring' \in {NoRestore, restoring} /\ UNCHANGED <<zips, parts>>
      BY <1>24 DEF Crash
    <3>2. CASE restoring' = restoring
      BY <1>0, <3>1, <3>2, FilesFrame
    <3>3. CASE restoring' = NoRestore
      <4>1. MaxOf.restore \in Nat /\ spent.restore \in Nat /\ spent'.restore \in Nat
        BY <1>0, BoundsAssumption DEF Kinds
      <4> QED BY <1>0, <3>1, <3>3, <4>1 DEF FilesOK, NoRestore
    <3> QED BY <3>1, <3>2, <3>3
  <2>4. hist' \in Histories
    BY <1>0, <1>24, CrashFields
  <2> QED BY <1>2, <1>5, <2>1, <2>2, <2>3, <2>4
<1>25. CASE UNCHANGED vars
  BY <1>0, <1>2, <1>3, <1>4, <1>5, <1>25 DEF vars
<1>26. CASE \E j \in Jobs : RunNow(j) \/ Thread(j)
  BY <1>10, <1>11, <1>13, <1>14, <1>15, <1>16, <1>17, <1>18, <1>23, <1>26 DEF Thread
<1> QED BY <1>6, <1>7, <1>8, <1>9, <1>19, <1>20, <1>21, <1>22, <1>24, <1>25, <1>26 DEF Next

\* Settings, record, archives, jobs and restores keep their types in every
\* reachable state.
THEOREM BackupTypeCorrect == Spec => []TypeOK
BY TypeInit, TypeStep, PTL DEF Spec

-----------------------------------------------------------------------------
(* What the exits of create_backup have in common.                         *)

Exit(j) == NoPassword(j) \/ DumpFails(j) \/ Fault(j) \/ ZipFails(j) \/ ListFails(j) \/ Finish(j)

InCreate == {"dump", "zip", "glob", "list", "unlink", "stat"}
InPrune  == {"glob", "list", "unlink"}

IsExit(j, result, leftover) ==
  LET d == Day(local[j].at)
  IN  /\ Leave(j, result)
      /\ pc[j] \in InCreate \/ (pc[j] = "start" /\ create_lock[Process(j)] = Never /\ result = "error")
      /\ leftover = IF pc[j] \in InPrune THEN {local[j].name} ELSE {}
      /\ hist' \in Histories
      /\ hist'.half = hist.half /\ hist'.made = hist.made
      /\ hist'.deleted = hist.deleted /\ hist'.namers = hist.namers
      /\ hist'.unpruned = hist.unpruned \cup leftover
      /\ hist'.attempts = IF j \in Scheduled /\ pc[j] = "start"
                          THEN [hist.attempts EXCEPT ![d] = hist.attempts[d] + 1]
                          ELSE hist.attempts
      /\ hist'.lost = IF j \in Scheduled /\ result = "broken"
                      THEN [hist.lost EXCEPT ![d] = hist.lost[d] + 1] ELSE hist.lost
      /\ hist'.ended = IF j \in Scheduled /\ result # "broken"
                       THEN [hist.ended EXCEPT ![d] = result] ELSE hist.ended
      /\ UNCHANGED <<now, config, form, submitted, restoring, last_run, last_status, lock, zips>>
      /\ parts' = parts \/ (pc[j] = "zip" /\ parts' = Without(parts, {local[j].name}))

LEMMA Exits ==
  ASSUME TypeOK, NEW j \in Jobs, Exit(j)
  PROVE  \E result \in Results, leftover \in SUBSET Times : IsExit(j, result, leftover)
<1> USE DEF settings, record, files
<1>0. JobsOK /\ hist \in Histories
  BY DEF TypeOK
<1>1. {local[j].name} \in SUBSET Times /\ {} \in SUBSET Times
  BY <1>0 DEF JobsOK, Locals
<1>2. Counted(hist, j) \in Histories /\ IsCounted(hist, Counted(hist, j), j)
  BY <1>0, Counts DEF IsCounted
<1>3. "error" \in Results /\ "broken" \in Results /\ "ok" \in Results
  BY DEF Results
<1>4. CASE NoPassword(j)
  <2>1. IsNoted(Counted(hist, j), hist', j, "error", {})
    BY <1>0, <1>1, <1>2, <1>3, <1>4, Notes DEF NoPassword
  <2>2. IsExit(j, "error", {})
    BY <1>2, <1>4, <2>1 DEF NoPassword, IsNoted, IsCounted, IsExit, InPrune
  <2> QED BY <1>1, <1>3, <2>2
<1>5. CASE DumpFails(j) \/ ZipFails(j)
  <2>1. IsNoted(hist, hist', j, "error", {})
    BY <1>0, <1>1, <1>3, <1>5, Notes DEF DumpFails, ZipFails
  <2>2. IsExit(j, "error", {})
    BY <1>5, <2>1 DEF DumpFails, ZipFails, IsNoted, IsExit, InPrune, InCreate
  <2> QED BY <1>1, <1>3, <2>2
<1>6. CASE Fault(j)
  <2>1. IsNoted(hist, hist', j, "broken", {})
    BY <1>0, <1>1, <1>3, <1>6, Notes DEF Fault
  <2>2. IsExit(j, "broken", {})
    BY <1>6, <2>1 DEF Fault, IsNoted, IsExit, InPrune, InCreate
  <2> QED BY <1>1, <1>3, <2>2
<1>7. CASE ListFails(j)
  <2>1. IsNoted(hist, hist', j, "broken", {local[j].name})
    BY <1>0, <1>1, <1>3, <1>7, Notes DEF ListFails
  <2>2. IsExit(j, "broken", {local[j].name})
    BY <1>7, <2>1 DEF ListFails, IsNoted, IsExit, InPrune, InCreate
  <2> QED BY <1>1, <1>3, <2>2
<1>8. CASE Finish(j)
  <2>1. PICK result \in {"ok", "broken"} : Leave(j, result) /\ hist' = Noted(hist, j, result, {})
    BY <1>8 DEF Finish
  <2>2. result \in Results /\ IsNoted(hist, hist', j, result, {})
    BY <1>0, <1>1, <1>3, <2>1, Notes
  <2>3. IsExit(j, result, {})
    BY <1>8, <2>1, <2>2 DEF Finish, IsNoted, IsExit, InPrune, InCreate
  <2> QED BY <1>1, <2>2, <2>3
<1> QED BY <1>4, <1>5, <1>6, <1>7, <1>8 DEF Exit

-----------------------------------------------------------------------------
(* What is listed is whole.                                                *)

Sole(n) == ~(Cardinality(hist.namers[n]) > 1)

\* Whoever is inside create_backup holds the lock of its process and is among
\* those who took its name; a .part of a name only one process took has one
\* writer.
WholeInv ==
  /\ \A n \in Times : IsFiniteSet(hist.namers[n])
  /\ \A j \in Jobs : pc[j] \in InCreate =>
       create_lock[Process(j)] = j /\ Process(j) \in hist.namers[local[j].name]
  /\ \A n \in DOMAIN parts : \A i \in parts[n].writers : Process(i) \in hist.namers[n]
  /\ \A j \in Jobs : \A n \in DOMAIN parts :
       pc[j] = "zip" /\ n = local[j].name /\ Sole(n) => parts[n].writers = {j}
  /\ \A n \in DOMAIN zips : Sole(n) => zips[n].state = "whole"

LEMMA SoleNamer ==
  ASSUME NEW S, IsFiniteSet(S), ~(Cardinality(S) > 1), NEW a \in S, NEW b \in S PROVE a = b
<1> SUFFICES ASSUME a # b PROVE FALSE
  OBVIOUS
<1>1. IsFiniteSet({b}) /\ Cardinality({b}) = 1
  BY FS_Singleton
<1>2. {b} \cup {a} \in SUBSET S /\ Cardinality({b} \cup {a}) = 2
  <2>1. a \notin {b}
    OBVIOUS
  <2>2. Cardinality({b} \cup {a}) = Cardinality({b}) + 1
    BY <1>1, <2>1, FS_AddElement
  <2> QED BY <1>1, <2>2
<1>3. Cardinality({b} \cup {a}) <= Cardinality(S) /\ Cardinality(S) \in Nat
  BY <1>2, FS_Subset, FS_CardinalityType
<1> QED BY <1>2, <1>3

LEMMA WholeInit == Init => WholeInv
<1> SUFFICES ASSUME Init PROVE WholeInv
  OBVIOUS
<1>1. \A n \in Times : IsFiniteSet(hist.namers[n])
  BY FS_EmptySet DEF Init
<1>2. DOMAIN zips = {} /\ DOMAIN parts = {} /\ \A j \in Jobs : pc[j] = "idle"
  BY DEF Init
<1> QED BY <1>1, <1>2 DEF WholeInv, InCreate

\* No job enters create_backup or opens its .part, files may go.
LEMMA WholeFrame ==
  ASSUME WholeInv, hist'.namers = hist.namers,
         \A j \in Jobs : pc'[j] \in InCreate =>
           /\ pc[j] \in InCreate /\ local'[j].name = local[j].name
           /\ create_lock'[Process(j)] = create_lock[Process(j)]
           /\ pc'[j] = "zip" => pc[j] = "zip",
         DOMAIN zips' \subseteq DOMAIN zips, \A n \in DOMAIN zips' : zips'[n] = zips[n],
         DOMAIN parts' \subseteq DOMAIN parts, \A n \in DOMAIN parts' : parts'[n] = parts[n]
  PROVE  WholeInv'
<1>1. \A n : Sole(n)' <=> Sole(n)
  BY DEF Sole
<1>2. \A j \in Jobs : pc'[j] \in InCreate =>
        create_lock'[Process(j)] = j /\ Process(j) \in hist'.namers[local'[j].name]
  BY DEF WholeInv
<1>3. \A j \in Jobs : \A n \in DOMAIN parts' :
        pc'[j] = "zip" /\ n = local'[j].name /\ Sole(n)' => parts'[n].writers = {j}
  <2> TAKE j \in Jobs
  <2> TAKE n \in DOMAIN parts'
  <2> HAVE pc'[j] = "zip" /\ n = local'[j].name /\ Sole(n)'
  <2>1. pc'[j] \in InCreate
    BY DEF InCreate
  <2>2. pc[j] = "zip" /\ n = local[j].name /\ Sole(n) /\ n \in DOMAIN parts /\ parts'[n] = parts[n]
    BY <1>1, <2>1
  <2>3. \A i \in Jobs : \A m \in DOMAIN parts :
          pc[i] = "zip" /\ m = local[i].name /\ Sole(m) => parts[m].writers = {i}
    BY DEF WholeInv
  <2> QED BY <2>2, <2>3
<1>4. \A n \in DOMAIN parts' : \A i \in parts'[n].writers : Process(i) \in hist'.namers[n]
  BY DEF WholeInv
<1>5. \A n \in DOMAIN zips' : Sole(n)' => zips'[n].state = "whole"
  BY <1>1 DEF WholeInv
<1> QED BY <1>2, <1>3, <1>4, <1>5 DEF WholeInv

LEMMA WholeStep == TypeOK /\ TypeOK' /\ WholeInv /\ [Next]_vars => WholeInv'
<1> SUFFICES ASSUME TypeOK, TypeOK', WholeInv, [Next]_vars PROVE WholeInv'
  OBVIOUS
<1> USE DEF settings, record, files, restore
<1>0. JobsOK /\ hist \in Histories /\ hist' \in Histories /\ pc \in [Jobs -> Steps] /\ local \in [Jobs -> Locals]
  BY DEF TypeOK, JobsOK
<1>1. ASSUME NEW j \in Jobs, Exit(j) PROVE WholeInv'
  <2>1. PICK result \in Results, leftover \in SUBSET Times : IsExit(j, result, leftover)
    BY <1>1, Exits
  <2>2. /\ create_lock' = [create_lock EXCEPT ![Process(j)] = Never]
        /\ pc'[j] \notin InCreate
        /\ \A i \in Jobs \ {j} : pc'[i] = pc[i] /\ local'[i] = local[i]
    BY <1>0, <2>1, Leaves DEF IsExit, InCreate
  <2>3. ASSUME NEW i \in Jobs, pc'[i] \in InCreate
        PROVE  /\ pc[i] \in InCreate /\ local'[i].name = local[i].name
               /\ create_lock'[Process(i)] = create_lock[Process(i)]
               /\ pc'[i] = "zip" => pc[i] = "zip"
    <3>1. i # j /\ pc[i] \in InCreate /\ create_lock[Process(i)] = i
      BY <2>2, <2>3 DEF WholeInv
    <3>2. create_lock[Process(j)] \in {j, Never} /\ Never # i
      BY <2>1, <3>1, Constants DEF IsExit, WholeInv, Process
    <3>3. Process(i) # Process(j)
      <4>1. CASE pc[j] \in InCreate
        BY <3>1, <4>1 DEF WholeInv
      <4>2. CASE pc[j] = "start" /\ create_lock[Process(j)] = Never
        <5>1. create_lock[Process(i)] # Never
          BY <3>1, Constants
        <5> QED BY <4>2, <5>1
      <4> QED BY <2>1, <4>1, <4>2 DEF IsExit
    <3> QED BY <2>2, <3>1, <3>3, <1>0, Constants DEF JobsOK
  <2>4. /\ hist'.namers = hist.namers /\ zips' = zips
        /\ DOMAIN parts' \subseteq DOMAIN parts /\ \A n \in DOMAIN parts' : parts'[n] = parts[n]
    BY <2>1 DEF IsExit, Without
  <2> QED BY <2>3, <2>4, WholeFrame

<1>2. ASSUME NEW j \in Jobs, Begin(j) PROVE WholeInv'
  <2>1. /\ pc[j] = "start" /\ create_lock[Process(j)] = Never
        /\ create_lock' = [create_lock EXCEPT ![Process(j)] = j]
        /\ pc' = [pc EXCEPT ![j] = "dump"] /\ local' = [local EXCEPT ![j].name = now]
        /\ zips' = zips /\ parts' = parts
    BY <1>2 DEF Begin
  <2>2. hist'.namers = [hist.namers EXCEPT ![now] = @ \cup {Process(j)}]
    <3>1. IsCounted(hist, Counted(hist, j), j)
      BY <1>0, Counts
    <3>2. hist' = [Counted(hist, j) EXCEPT !.namers[now] = @ \cup {Process(j)}]
      BY <1>2 DEF Begin
    <3> QED BY <3>1, <3>2 DEF IsCounted, Histories
  <2>3. now \in Times /\ hist.namers \in [Times -> SUBSET Procs]
    BY <1>0 DEF TypeOK, SettingsOK, Histories
  <2>4. ASSUME NEW n \in Times
        PROVE  hist.namers[n] \subseteq hist'.namers[n] /\ IsFiniteSet(hist'.namers[n]) /\ (Sole(n)' => Sole(n))
    <3>1. IsFiniteSet(hist.namers[n]) /\ hist.namers[n] \subseteq hist'.namers[n]
      BY <2>2, <2>3 DEF WholeInv
    <3>2. hist'.namers[n] \in {hist.namers[n], hist.namers[n] \cup {Process(j)}}
      BY <2>2, <2>3
    <3>3. IsFiniteSet(hist'.namers[n])
      BY <3>1, <3>2, FS_AddElement
    <3>4. Cardinality(hist.namers[n]) <= Cardinality(hist'.namers[n])
      BY <3>1, <3>3, FS_Subset
    <3>5. Cardinality(hist.namers[n]) \in Nat /\ Cardinality(hist'.namers[n]) \in Nat
      BY <3>1, <3>3, FS_CardinalityType
    <3> QED BY <3>1, <3>3, <3>4, <3>5 DEF Sole
  <2>5. ASSUME NEW i \in Jobs, pc'[i] \in InCreate
        PROVE  create_lock'[Process(i)] = i /\ Process(i) \in hist'.namers[local'[i].name]
    <3>1. CASE i = j
      <4>1. local'[i].name = now
        BY <1>0, <2>1, <3>1 DEF Locals
      <4>2. Process(j) \in hist'.namers[now]
        BY <2>2, <2>3
      <4>3. create_lock'[Process(j)] = j
        BY <1>0, <2>1, Constants DEF JobsOK
      <4> QED BY <3>1, <4>1, <4>2, <4>3
    <3>2. CASE i # j
      <4>1. pc[i] \in InCreate /\ local'[i] = local[i]
        BY <1>0, <2>1, <2>5, <3>2
      <4>2. create_lock[Process(i)] = i /\ i # Never /\ Process(i) \in hist.namers[local[i].name]
        BY <4>1, Constants DEF WholeInv
      <4>3. Process(i) # Process(j)
        BY <2>1, <4>2
      <4>4. create_lock'[Process(i)] = i
        BY <1>0, <2>1, <4>2, <4>3, Constants DEF JobsOK
      <4>5. local[i].name \in Times
        BY <1>0 DEF Locals
      <4> QED BY <2>4, <4>1, <4>2, <4>4, <4>5
    <3> QED BY <3>1, <3>2
  <2>6. DOMAIN parts \subseteq Times /\ DOMAIN zips \subseteq Times
    BY DEF TypeOK, FilesOK
  <2>7. \A n \in DOMAIN parts' : \A i \in parts'[n].writers : Process(i) \in hist'.namers[n]
    BY <2>1, <2>4, <2>6 DEF WholeInv
  <2>8. ASSUME NEW i \in Jobs, NEW n \in DOMAIN parts', pc'[i] = "zip", n = local'[i].name, Sole(n)'
        PROVE  parts'[n].writers = {i}
    <3>1. pc[i] = "zip" /\ i # j /\ local'[i] = local[i]
      BY <1>0, <2>1, <2>8
    <3> QED BY <2>1, <2>4, <2>6, <2>8, <3>1 DEF WholeInv
  <2>9. \A n \in DOMAIN zips' : Sole(n)' => zips'[n].state = "whole"
    BY <2>1, <2>4, <2>6 DEF WholeInv
  <2> QED BY <2>4, <2>5, <2>7, <2>8, <2>9 DEF WholeInv
<1>3. ASSUME NEW j \in Jobs, OpenPart(j) PROVE WholeInv'
  <2> DEFINE n == local[j].name
             others == IF n \in DOMAIN parts THEN {i \in parts[n].writers : pc[i] = "zip"} ELSE {}
             part == [since |-> now, writers |-> {j} \cup others, dump |-> Database]
  <2>1. /\ pc[j] = "dump" /\ parts' = With(parts, n, part) /\ pc' = [pc EXCEPT ![j] = "zip"]
        /\ create_lock' = create_lock /\ local' = local /\ zips' = zips /\ hist' = hist
    BY <1>3 DEF OpenPart
  <2>2. \A i \in Jobs : i # j => pc'[i] = pc[i]
    BY <1>0, <2>1
  <2>3. /\ n \in Times /\ Process(j) \in hist.namers[n] /\ create_lock[Process(j)] = j
    BY <1>0, <2>1 DEF WholeInv, InCreate, Locals
  <2>4. \A i \in others : i \in Jobs /\ pc[i] = "zip" /\ Process(i) \in hist.namers[n] /\ create_lock[Process(i)] = i
    BY DEF WholeInv, InCreate, TypeOK, FilesOK
  <2>5. Sole(n) => others = {}
    <3> SUFFICES ASSUME Sole(n), NEW i \in others PROVE FALSE
      OBVIOUS
    <3>1. Process(i) = Process(j)
      BY <2>3, <2>4, SoleNamer DEF Sole, WholeInv
    <3> QED BY <2>1, <2>3, <2>4, <3>1
  <2>6. /\ DOMAIN parts' = DOMAIN parts \cup {n} /\ parts'[n] = part
        /\ \A m \in DOMAIN parts : m # n => parts'[m] = parts[m]
    <3> HIDE DEF n, part
    <3> QED BY <2>1 DEF With
  <2>7. part.writers = {j} \cup others
    OBVIOUS
  <2> HIDE DEF n, others, part
  <2>8. \A m \in DOMAIN parts' : \A i \in parts'[m].writers : Process(i) \in hist'.namers[m]
    BY <2>1, <2>3, <2>4, <2>6, <2>7 DEF WholeInv
  <2>9. ASSUME NEW i \in Jobs, NEW m \in DOMAIN parts', pc'[i] = "zip", m = local'[i].name, Sole(m)'
        PROVE  parts'[m].writers = {i}
    <3>1. Sole(m)
      BY <2>1, <2>9 DEF Sole
    <3>2. CASE i = j
      BY <2>1, <2>5, <2>6, <2>7, <2>9, <3>1, <3>2 DEF n
    <3>3. CASE i # j
      <4>1. pc[i] = "zip" /\ Process(i) \in hist.namers[m] /\ create_lock[Process(i)] = i
        BY <2>1, <2>2, <2>9, <3>3 DEF WholeInv, InCreate
      <4>2. m # n
        <5> SUFFICES ASSUME m = n PROVE FALSE
          OBVIOUS
        <5>1. Process(i) = Process(j)
          BY <2>3, <3>1, <4>1, SoleNamer DEF Sole, WholeInv
        <5> QED BY <2>3, <3>3, <4>1, <5>1
      <4> QED BY <2>1, <2>6, <2>9, <3>1, <4>1, <4>2 DEF WholeInv
    <3> QED BY <3>2, <3>3
  <2>10. \A i \in Jobs : pc'[i] \in InCreate =>
           create_lock'[Process(i)] = i /\ Process(i) \in hist'.namers[local'[i].name]
    BY <2>1, <2>2 DEF WholeInv, InCreate
  <2>11. \A m \in Times : IsFiniteSet(hist'.namers[m])
    BY <2>1 DEF WholeInv
  <2>12. \A m \in DOMAIN zips' : Sole(m)' => zips'[m].state = "whole"
    BY <2>1 DEF WholeInv, Sole
  <2> QED BY <2>8, <2>9, <2>10, <2>11, <2>12 DEF WholeInv
<1>4. ASSUME NEW j \in Jobs, Replace(j) PROVE WholeInv'
  <2> DEFINE n == local[j].name
             zip == [state |-> IF parts[n].writers = {j} THEN "whole" ELSE "torn", dump |-> parts[n].dump]
  <2>1. /\ pc[j] = "zip" /\ n \in DOMAIN parts /\ zips' = With(zips, n, zip)
        /\ parts' = Without(parts, {n}) /\ pc' = [pc EXCEPT ![j] = "glob"]
        /\ create_lock' = create_lock /\ local' = local
        /\ hist'.namers = hist.namers
    BY <1>0, <1>4 DEF Replace, Histories
  <2>2. \A m : Sole(m)' <=> Sole(m)
    BY <2>1 DEF Sole
  <2>3. Sole(n) => zip.state = "whole"
    BY <2>1 DEF WholeInv
  <2> HIDE DEF n, zip
  <2>4. \A m \in DOMAIN zips' : Sole(m)' => zips'[m].state = "whole"
    BY <2>1, <2>2, <2>3 DEF WholeInv, With
  <2>5. DOMAIN parts' \subseteq DOMAIN parts /\ \A m \in DOMAIN parts' : parts'[m] = parts[m]
    BY <2>1 DEF Without
  <2>6. \A i \in Jobs : pc'[i] = "zip" => pc[i] = "zip"
    BY <1>0, <2>1
  <2>7. \A i \in Jobs : pc'[i] \in InCreate => pc[i] \in InCreate
    BY <1>0, <2>1 DEF InCreate
  <2>8. \A m \in DOMAIN parts' : \A i \in parts'[m].writers : Process(i) \in hist'.namers[m]
    BY <2>1, <2>5 DEF WholeInv
  <2>9. \A i \in Jobs : \A m \in DOMAIN parts' :
          pc'[i] = "zip" /\ m = local'[i].name /\ Sole(m)' => parts'[m].writers = {i}
    <3>1. \A i \in Jobs : \A m \in DOMAIN parts :
            pc[i] = "zip" /\ m = local[i].name /\ Sole(m) => parts[m].writers = {i}
      BY DEF WholeInv
    <3>2. local' = local
      BY <2>1
    <3> QED BY <2>2, <2>5, <2>6, <3>1, <3>2
  <2>10. \A i \in Jobs : pc'[i] \in InCreate =>
           create_lock'[Process(i)] = i /\ Process(i) \in hist'.namers[local'[i].name]
    BY <2>1, <2>7 DEF WholeInv
  <2>11. \A m \in Times : IsFiniteSet(hist'.namers[m])
    BY <2>1 DEF WholeInv
  <2> QED BY <2>4, <2>8, <2>9, <2>10, <2>11 DEF WholeInv
<1>5. ASSUME NEW j \in Jobs, Break(j) PROVE WholeInv'
  <2>1. /\ pc[j] \in {"due", "locked", "start", "glob", "persist_run", "persist_status"}
        /\ create_lock' = IF pc[j] = "glob" THEN [create_lock EXCEPT ![Process(j)] = Never] ELSE create_lock
        /\ pc'[j] \notin InCreate
        /\ \A i \in Jobs \ {j} : pc'[i] = pc[i] /\ local'[i] = local[i]
        /\ zips' = zips /\ parts' = parts
    BY <1>0, <1>5 DEF Break, InCreate
  <2>2. hist'.namers = hist.namers
    BY <1>0, <1>5, BreakFields
  <2>3. ASSUME NEW i \in Jobs, pc'[i] \in InCreate
        PROVE  /\ pc[i] \in InCreate /\ local'[i].name = local[i].name
               /\ create_lock'[Process(i)] = create_lock[Process(i)]
               /\ pc'[i] = "zip" => pc[i] = "zip"
    <3>1. i # j /\ pc[i] \in InCreate /\ create_lock[Process(i)] = i
      BY <2>1, <2>3 DEF WholeInv
    <3>2. pc[j] = "glob" => Process(i) # Process(j)
      BY <3>1 DEF WholeInv, InCreate
    <3>3. create_lock'[Process(i)] = create_lock[Process(i)]
      BY <1>0, <2>1, <3>2, Constants DEF JobsOK
    <3> QED BY <2>1, <3>1, <3>3
  <2> QED BY <2>1, <2>2, <2>3, WholeFrame
<1>6. ASSUME NEW p \in Procs, Crash(p) PROVE WholeInv'
  <2>1. /\ pc' = [j \in Jobs |-> IF j \in OfProcess(p) THEN "idle" ELSE pc[j]]
        /\ local' = [j \in Jobs |-> IF j \in OfProcess(p) THEN NoLocals ELSE local[j]]
        /\ create_lock' = [create_lock EXCEPT ![p] = Never]
        /\ zips' = zips /\ parts' = parts
    BY <1>6 DEF Crash
  <2>2. hist'.namers = hist.namers
    BY <1>0, <1>6, CrashFields
  <2>3. ASSUME NEW i \in Jobs, pc'[i] \in InCreate
        PROVE  /\ pc[i] \in InCreate /\ local'[i].name = local[i].name
               /\ create_lock'[Process(i)] = create_lock[Process(i)]
               /\ pc'[i] = "zip" => pc[i] = "zip"
    <3>1. i \notin OfProcess(p) /\ pc[i] = pc'[i] /\ local'[i] = local[i]
      BY <2>1, <2>3 DEF InCreate
    <3>2. Process(i) # p
      BY <3>1 DEF OfProcess
    <3> QED BY <1>0, <2>1, <2>3, <3>1, <3>2, Constants DEF JobsOK
  <2> QED BY <2>1, <2>2, <2>3, WholeFrame
<1>7. ASSUME NEW j \in Jobs,
             \/ Tick(j) \/ TryLock(j) \/ Recheck(j) \/ Glob(j) \/ List(j)
             \/ PersistRun(j) \/ PersistStatus(j) \/ Unlock(j) \/ RunNow(j)
      PROVE  WholeInv'
  <2>1. /\ create_lock' = create_lock /\ zips' = zips /\ parts' = parts
        /\ hist'.namers = hist.namers
    BY <1>0, <1>7 DEF Tick, TryLock, Recheck, Glob, List, PersistRun, PersistStatus, Unlock, RunNow, Histories
  <2>2. /\ \A i \in Jobs \ {j} : pc'[i] = pc[i] /\ local'[i].name = local[i].name
        /\ pc'[j] \in InCreate => pc[j] \in InCreate /\ pc'[j] # "zip" /\ local'[j].name = local[j].name
    <3>1. CASE Tick(j) \/ TryLock(j) \/ Recheck(j) \/ PersistRun(j) \/ PersistStatus(j) \/ Unlock(j) \/ RunNow(j)
      BY <1>0, <3>1 DEF Tick, TryLock, Recheck, PersistRun, PersistStatus, Unlock, RunNow, InCreate
    <3>2. CASE Glob(j)
      BY <1>0, <3>2 DEF Glob, InCreate, Locals
    <3>3. CASE List(j)
      BY <1>0, <3>3 DEF List, InCreate
    <3> QED BY <1>7, <3>1, <3>2, <3>3
  <2>3. \A i \in Jobs : pc'[i] \in InCreate =>
           /\ pc[i] \in InCreate /\ local'[i].name = local[i].name
           /\ create_lock'[Process(i)] = create_lock[Process(i)]
           /\ pc'[i] = "zip" => pc[i] = "zip"
    BY <2>1, <2>2
  <2> QED BY <2>1, <2>3, WholeFrame
<1>8. ASSUME NEW j \in Jobs, Unlink(j) PROVE WholeInv'
  <2>1. /\ create_lock' = create_lock /\ local' = local /\ pc' = [pc EXCEPT ![j] = "stat"]
        /\ pc[j] = "unlink" /\ hist'.namers = hist.namers
    BY <1>0, <1>8 DEF Unlink, Histories
  <2>2. /\ DOMAIN zips' \subseteq DOMAIN zips /\ \A n \in DOMAIN zips' : zips'[n] = zips[n]
        /\ DOMAIN parts' \subseteq DOMAIN parts /\ \A n \in DOMAIN parts' : parts'[n] = parts[n]
    BY <1>8 DEF Unlink, Without
  <2>3. \A i \in Jobs : pc'[i] \in InCreate => pc[i] \in InCreate /\ (pc'[i] = "zip" => pc[i] = "zip")
    BY <1>0, <2>1 DEF InCreate
  <2> QED BY <2>1, <2>2, <2>3, WholeFrame
<1>9. CASE Delete
  <2>1. PICK n \in DOMAIN zips : zips' = Without(zips, {n}) /\ hist' = [hist EXCEPT !.deleted = @ \cup {n}]
    BY <1>9 DEF Delete
  <2>2. /\ create_lock' = create_lock /\ local' = local /\ pc' = pc /\ parts' = parts
        /\ hist'.namers = hist.namers
    BY <1>0, <1>9, <2>1 DEF Delete, Histories
  <2>3. DOMAIN zips' \subseteq DOMAIN zips /\ \A m \in DOMAIN zips' : zips'[m] = zips[m]
    BY <2>1 DEF Without
  <2> QED BY <2>2, <2>3, WholeFrame
<1>10. CASE \/ Advance \/ Submit \/ StoreKey \/ Validate \/ Terminate \/ Load \/ LoadFails
            \/ UNCHANGED vars \/ \E p \in WebProcs : AskRestore(p)
  <2>1. UNCHANGED <<create_lock, pc, local, zips, parts, hist>>
    BY <1>10 DEF Advance, Submit, StoreKey, Validate, Terminate, Load, LoadFails, AskRestore, vars
  <2> QED BY <2>1, WholeFrame
<1> QED BY <1>1, <1>2, <1>3, <1>4, <1>5, <1>6, <1>7, <1>8, <1>9, <1>10 DEF Next, Thread, Exit

(* An archive in the list is a complete zip, whatever died or failed while it *)
(* was written, unless two processes named theirs in the same second: the     *)
(* .part file and os.replace of create_backup.                                *)
THEOREM BackupListedIsWhole == Spec => []ListedIsWhole
<1>1. Init => TypeOK /\ WholeInv
  BY TypeInit, WholeInit
<1>2. TypeOK /\ WholeInv /\ [Next]_vars => (TypeOK /\ WholeInv)'
  BY TypeStep, WholeStep
<1>3. WholeInv => ListedIsWhole
  BY DEF WholeInv, ListedIsWhole, Sole
<1> QED BY <1>1, <1>2, <1>3, PTL DEF Spec

-----------------------------------------------------------------------------
(* What pruning keeps.                                                     *)

LEMMA SetsOfTimes ==
  ASSUME NEW S \in SUBSET Times
  PROVE  /\ IsFiniteSet(S) /\ Cardinality(S) \in Nat
         /\ \A T \in SUBSET S : Cardinality(T) <= Cardinality(S)
<1>1. IsFiniteSet(Times)
  BY ConstantsAssumption, FS_Interval DEF Times
<1>2. IsFiniteSet(S)
  BY <1>1, FS_Subset
<1> QED BY <1>2, FS_Subset, FS_CardinalityType

\* A later name has fewer names after it.
LEMMA FewerAfter ==
  ASSUME NEW S \in SUBSET Times, NEW x \in S, NEW y \in S, x < y
  PROVE  Cardinality({m \in S : m > y}) < Cardinality({m \in S : m > x})
<1> DEFINE X == {m \in S : m > x}
           Y == {m \in S : m > y}
<1>1. S \subseteq Nat
  BY Constants
<1>2. Y \in SUBSET X /\ y \in X /\ y \notin Y
  <2>1. x \in Nat /\ y \in Nat /\ y > x /\ ~(y > y)
    BY <1>1
  <2>2. \A m \in S : m > y => m > x
    BY <1>1, <2>1
  <2> QED BY <2>1, <2>2
<1>3. X \in SUBSET Times /\ Y \in SUBSET Times
  OBVIOUS
<1>4. IsFiniteSet(X) /\ Cardinality(X) \in Nat /\ Cardinality(Y) \in Nat
  BY <1>3, SetsOfTimes
<1> HIDE DEF X, Y
<1>5. Cardinality(Y) <= Cardinality(X) /\ (Cardinality(X) = Cardinality(Y) => X = Y)
  BY <1>2, <1>4, FS_Subset
<1>6. X # Y
  BY <1>2
<1>7. Cardinality(Y) < Cardinality(X)
  BY <1>4, <1>5, <1>6
<1> QED BY <1>7 DEF X, Y

\* sorted(..., reverse=True)[:retention] has at most retention members ...
LEMMA KeptBound ==
  ASSUME NEW S \in SUBSET Times, NEW r \in Nat
  PROVE  Cardinality(Kept(S, r)) <= r
<1> DEFINE K == Kept(S, r)
           f == [n \in K |-> Cardinality({m \in S : m > n})]
<1>1. K \subseteq S /\ IsFiniteSet(K) /\ Cardinality(K) \in Nat
  <2>1. K \subseteq S /\ K \in SUBSET Times
    BY DEF Kept
  <2> QED BY <2>1, SetsOfTimes
<1>2. IsFiniteSet(0..(r-1)) /\ Cardinality(0..(r-1)) = r
  BY FS_Interval
<1>3. f \in [K -> 0..(r-1)]
  <2> SUFFICES ASSUME NEW n \in K PROVE Cardinality({m \in S : m > n}) \in 0..(r-1)
    OBVIOUS
  <2>1. Cardinality({m \in S : m > n}) < r
    BY DEF Kept
  <2>2. {m \in S : m > n} \in SUBSET Times
    OBVIOUS
  <2>3. Cardinality({m \in S : m > n}) \in Nat
    BY <2>2, SetsOfTimes
  <2> QED BY <2>1, <2>3
<1>4. ASSUME NEW x \in K, NEW y \in K, x # y PROVE f[x] # f[y]
  <2>1. x \in S /\ y \in S /\ x \in Nat /\ y \in Nat
    BY <1>1, Constants
  <2>2. CASE x < y
    <3>1. Cardinality({m \in S : m > y}) < Cardinality({m \in S : m > x})
      BY <2>1, <2>2, FewerAfter
    <3>2. f[y] < f[x]
      BY <3>1
    <3>3. f[x] \in 0..(r-1) /\ f[y] \in 0..(r-1)
      BY <1>3
    <3> HIDE DEF f
    <3> QED BY <3>2, <3>3
  <2>3. CASE y < x
    <3>1. Cardinality({m \in S : m > x}) < Cardinality({m \in S : m > y})
      BY <2>1, <2>3, FewerAfter
    <3>2. f[x] < f[y]
      BY <3>1
    <3>3. f[x] \in 0..(r-1) /\ f[y] \in 0..(r-1)
      BY <1>3
    <3> HIDE DEF f
    <3> QED BY <3>2, <3>3
  <2> QED BY <1>4, <2>1, <2>2, <2>3
<1> HIDE DEF K, f
<1>5. ~(Cardinality(0..(r-1)) < Cardinality(K))
  BY <1>1, <1>2, <1>3, <1>4, FS_PigeonHole
<1>6. Cardinality(K) <= r
  BY <1>1, <1>2, <1>5
<1> QED BY <1>6 DEF K

\* ... and the newest among them.
LEMMA NewestKept ==
  ASSUME NEW S \in SUBSET Times, NEW r \in Nat \ {0}, NEW n \in S, \A m \in S : m <= n
  PROVE  n \in Kept(S, r)
<1>1. {m \in S : m > n} = {}
  BY Constants
<1>2. Cardinality({m \in S : m > n}) = 0
  BY <1>1, FS_EmptySet
<1> QED BY <1>2 DEF Kept

Listing == {"list", "unlink"}
Single  == DOMAIN zips \ MadeTwice

\* Two listings agree on the archives made once: the later has all that the
\* earlier still has.
Agree(S, T) == Single \cap S \subseteq T \/ Single \cap T \subseteq S

\* A set that fits a retention, has every archive made once that no prune is
\* to look at any more, and agrees with the listings under way.
Fits(S, c) ==
  /\ Cardinality(S) <= c.retention
  /\ Single \ S \subseteq Running \cup hist.unpruned
  /\ \A j \in Jobs : pc[j] \in Listing => Agree(S, local[j].seen)

PruneInv ==
  /\ DOMAIN zips \subseteq Made
  /\ \A j \in Jobs : pc[j] \in InPrune => local[j].name \in Made
  /\ \A j \in Jobs : pc[j] \in Listing =>
       /\ local[j].seen \subseteq Made
       /\ local[j].name \in Single => local[j].name \in local[j].seen
  /\ \A i, j \in Jobs : pc[i] \in Listing /\ pc[j] \in Listing => Agree(local[i].seen, local[j].seen)
  /\ \E S \in SUBSET Single, c \in Forms \cup {FirstConfig} : Fits(S, c)

LEMMA PruneInit == Init => PruneInv /\ NewestSurvives
<1> SUFFICES ASSUME Init PROVE PruneInv /\ NewestSurvives
  OBVIOUS
<1>1. /\ DOMAIN zips = {} /\ \A j \in Jobs : pc[j] = "idle"
      /\ \A n \in Times : hist.made[n] = 0
  BY DEF Init
<1>2. Single = {} /\ Made = {}
  BY <1>1 DEF Single, Made
<1>3. {} \in SUBSET Single /\ Fits({}, FirstConfig)
  <2>1. Cardinality({}) = 0
    BY FS_EmptySet
  <2>2. FirstConfig.retention \in Nat
    BY FormsAssumption DEF Configs
  <2> QED BY <1>1, <1>2, <2>1, <2>2 DEF Fits, Listing
<1>4. \E S \in SUBSET Single, c \in Forms \cup {FirstConfig} : Fits(S, c)
  BY <1>3
<1>5. PruneInv
  BY <1>1, <1>2, <1>4 DEF PruneInv, InPrune, Listing
<1> QED BY <1>2, <1>5 DEF NewestSurvives

\* No archive is made, none is unlinked by a prune, no listing is taken, and
\* whoever leaves its prune says so.
LEMMA PruneFrame ==
  ASSUME TypeOK, PruneInv, NewestSurvives, hist'.made = hist.made,
         DOMAIN zips' \subseteq DOMAIN zips, hist.deleted \subseteq hist'.deleted,
         DOMAIN zips \ DOMAIN zips' \subseteq hist'.deleted,
         Running \cup hist.unpruned \subseteq Running' \cup hist'.unpruned,
         \A j \in Jobs : pc'[j] \in InPrune =>
           pc[j] \in InPrune /\ local'[j].name = local[j].name,
         \A j \in Jobs : pc'[j] \in Listing =>
           pc[j] \in Listing /\ local'[j].seen = local[j].seen
  PROVE  PruneInv' /\ NewestSurvives'
<1>1. Made' = Made /\ MadeTwice' = MadeTwice
  BY DEF Made, MadeTwice
<1>2. Single' \subseteq Single /\ Single' = Single \cap DOMAIN zips'
  BY <1>1 DEF Single
<1>3. \A S, T : Agree(S, T) => Agree(S, T)'
  BY <1>2 DEF Agree
<1>4. \A j \in Jobs : pc'[j] \in Listing =>
        /\ local'[j].seen \subseteq Made'
        /\ local'[j].name \in Single' => local'[j].name \in local'[j].seen
  BY <1>1, <1>2 DEF PruneInv, InPrune, Listing
<1>5. ASSUME NEW i \in Jobs, NEW j \in Jobs, pc'[i] \in Listing, pc'[j] \in Listing
      PROVE  Agree(local[i].seen, local[j].seen)'
  <2>1. Agree(local[i].seen, local[j].seen)
    BY <1>5 DEF PruneInv
  <2>2. local'[i].seen = local[i].seen /\ local'[j].seen = local[j].seen
    BY <1>5
  <2> QED BY <1>2, <2>1, <2>2 DEF Agree
<1>6. \E S \in SUBSET Single', c \in Forms \cup {FirstConfig} : Fits(S, c)'
  <2>1. PICK S \in SUBSET Single, c \in Forms \cup {FirstConfig} : Fits(S, c)
    BY DEF PruneInv
  <2>2. PICK T \in SUBSET Single' : T = S \cap Single'
    OBVIOUS
  <2>3. Cardinality(T) <= c.retention
    <3>1. S \in SUBSET Times /\ T \in SUBSET S
      BY <2>2 DEF Single, TypeOK, FilesOK
    <3>2. Cardinality(T) <= Cardinality(S) /\ Cardinality(S) \in Nat /\ Cardinality(T) \in Nat
      BY <3>1, SetsOfTimes
    <3>3. c.retention \in Nat
      BY FormsAssumption DEF Configs
    <3> QED BY <2>1, <3>2, <3>3 DEF Fits
  <2>4. Single' \ T \subseteq Running' \cup hist'.unpruned
    BY <1>2, <2>1, <2>2 DEF Fits
  <2>5. \A j \in Jobs : pc'[j] \in Listing => Agree(T, local[j].seen)'
    <3> SUFFICES ASSUME NEW j \in Jobs, pc'[j] \in Listing PROVE Agree(T, local[j].seen)'
      OBVIOUS
    <3>1. Agree(S, local[j].seen) /\ local'[j].seen = local[j].seen
      BY <2>1 DEF Fits
    <3> QED BY <1>2, <2>2, <3>1 DEF Agree
  <2>6. Fits(T, c)'
    BY <2>3, <2>4, <2>5 DEF Fits
  <2> QED BY <2>6
<1>7. NewestSurvives'
  BY <1>1 DEF NewestSurvives
<1>8. \A j \in Jobs : pc'[j] \in InPrune => local'[j].name \in Made'
  BY <1>1 DEF PruneInv
<1>9. DOMAIN zips' \subseteq Made'
  BY <1>1 DEF PruneInv
<1> QED BY <1>4, <1>5, <1>6, <1>7, <1>8, <1>9 DEF PruneInv


LEMMA PruneReplace ==
  ASSUME TypeOK, hist' \in Histories, PruneInv, NewestSurvives, NEW j \in Jobs, Replace(j)
  PROVE  PruneInv' /\ NewestSurvives'
<1> DEFINE n == local[j].name
           zip == [state |-> IF parts[n].writers = {j} THEN "whole" ELSE "torn", dump |-> parts[n].dump]
<1>1. /\ pc \in [Jobs -> Steps] /\ local \in [Jobs -> Locals] /\ hist \in Histories
      /\ n \in Times /\ hist.made[n] \in Nat /\ DOMAIN zips \subseteq Times
  BY DEF TypeOK, JobsOK, FilesOK, Locals, Histories
<1>2. /\ zips' = With(zips, n, zip) /\ hist' = [hist EXCEPT !.made[n] = @ + 1]
      /\ pc' = [pc EXCEPT ![j] = "glob"] /\ local' = local
  BY DEF Replace
<1> HIDE DEF n, zip
<1>3. /\ hist'.made = [hist.made EXCEPT ![n] = hist.made[n] + 1]
      /\ hist'.deleted = hist.deleted /\ hist'.unpruned = hist.unpruned
  BY <1>2 DEF Histories
<1>4. DOMAIN zips' = DOMAIN zips \cup {n}
  BY <1>2 DEF With
<1>5. hist.made \in [Times -> Nat]
  BY <1>1 DEF Histories
<1>6. Made' = Made \cup {n} /\ Made \subseteq Times /\ MadeTwice \subseteq MadeTwice'
      /\ (n \in Made => n \in MadeTwice')
  BY <1>1, <1>3, <1>5 DEF Made, MadeTwice
<1>7. MadeTwice' \subseteq MadeTwice \cup {n}
  BY <1>1, <1>3, <1>5 DEF MadeTwice
<1>8. Single' \subseteq Single \cup {n} /\ (n \in Made => n \notin Single') /\ n \in Running'
  <2>1. pc'[j] = "glob" /\ local'[j].name = n
    BY <1>1, <1>2 DEF n
  <2> QED BY <1>4, <1>6, <2>1 DEF Single, Running
<1>9. \A i \in Jobs : pc'[i] \in Listing => pc[i] \in Listing /\ local'[i] = local[i]
  BY <1>1, <1>2 DEF Listing
<1>10. \A i \in Jobs : pc'[i] \in InPrune => local'[i].name \in Made'
  BY <1>1, <1>2, <1>6 DEF InPrune, PruneInv, n
<1>11. \A i \in Jobs : pc[i] \in Listing => Single' \cap local[i].seen = Single \cap Single' \cap local[i].seen
  BY <1>8 DEF PruneInv
<1>12. DOMAIN zips' \subseteq Made'
  BY <1>4, <1>6 DEF PruneInv
<1>13. \A i \in Jobs : pc'[i] \in Listing =>
         /\ local'[i].seen \subseteq Made'
         /\ local'[i].name \in Single' => local'[i].name \in local'[i].seen
  <2> SUFFICES ASSUME NEW i \in Jobs, pc'[i] \in Listing
               PROVE  /\ local'[i].seen \subseteq Made'
                      /\ local'[i].name \in Single' => local'[i].name \in local'[i].seen
    OBVIOUS
  <2>1. local'[i] = local[i] /\ local[i].seen \subseteq Made /\ local[i].name \in Made
    BY <1>9 DEF PruneInv, Listing, InPrune
  <2>2. local[i].name \in Single' => local[i].name \in Single
    BY <1>8, <2>1
  <2> QED BY <1>6, <1>9, <2>1, <2>2 DEF PruneInv
<1>14. \A i, k \in Jobs : pc'[i] \in Listing /\ pc'[k] \in Listing => Agree(local[i].seen, local[k].seen)'
  <2> SUFFICES ASSUME NEW i \in Jobs, NEW k \in Jobs, pc'[i] \in Listing, pc'[k] \in Listing
               PROVE  Agree(local[i].seen, local[k].seen)'
    OBVIOUS
  <2>1. Agree(local[i].seen, local[k].seen) /\ local'[i] = local[i] /\ local'[k] = local[k]
    BY <1>9 DEF PruneInv
  <2> QED BY <1>9, <1>11, <2>1 DEF Agree
<1>15. \E S \in SUBSET Single', c \in Forms \cup {FirstConfig} : Fits(S, c)'
  <2>1. PICK S \in SUBSET Single, c \in Forms \cup {FirstConfig} : Fits(S, c)
    BY DEF PruneInv
  <2>2. PICK T \in SUBSET Single' : T = S \cap Single'
    OBVIOUS
  <2>3. Cardinality(T) <= c.retention
    <3>1. S \in SUBSET Times /\ T \in SUBSET S
      BY <1>1, <2>2 DEF Single
    <3>2. Cardinality(T) <= Cardinality(S) /\ Cardinality(S) \in Nat /\ Cardinality(T) \in Nat
      BY <3>1, SetsOfTimes
    <3>3. c.retention \in Nat
      BY FormsAssumption DEF Configs
    <3> QED BY <2>1, <3>2, <3>3 DEF Fits
  <2>4. Running \subseteq Running'
    <3>1. \A i \in Jobs : pc[i] \in {"glob", "list", "unlink"} => pc'[i] \in {"glob", "list", "unlink"}
      BY <1>1, <1>2
    <3> QED BY <1>2, <3>1 DEF Running
  <2>5. Single' \ T \subseteq Running' \cup hist'.unpruned
    BY <1>3, <1>8, <2>1, <2>2, <2>4 DEF Fits
  <2>6. \A i \in Jobs : pc'[i] \in Listing => Agree(T, local[i].seen)'
    <3> SUFFICES ASSUME NEW i \in Jobs, pc'[i] \in Listing PROVE Agree(T, local[i].seen)'
      OBVIOUS
    <3>1. Agree(S, local[i].seen) /\ local'[i] = local[i]
      BY <1>9, <2>1 DEF Fits
    <3> QED BY <1>9, <1>11, <2>2, <3>1 DEF Agree
  <2>7. Fits(T, c)'
    BY <2>3, <2>5, <2>6 DEF Fits
  <2> QED BY <2>7
<1>16. NewestSurvives'
  <2> SUFFICES ASSUME NEW m \in Made', \A k \in Made' : k <= m
               PROVE  m \in DOMAIN zips' \cup hist'.deleted
    BY DEF NewestSurvives
  <2> QED BY <1>3, <1>4, <1>6 DEF NewestSurvives
<1> QED BY <1>10, <1>12, <1>13, <1>14, <1>15, <1>16 DEF PruneInv

LEMMA PruneGlob ==
  ASSUME TypeOK, PruneInv, NewestSurvives, NEW j \in Jobs, Glob(j)
  PROVE  PruneInv' /\ NewestSurvives'
<1>1. /\ pc \in [Jobs -> Steps] /\ local \in [Jobs -> Locals]
  BY DEF TypeOK, JobsOK
<1>2. /\ pc[j] = "glob" /\ pc' = [pc EXCEPT ![j] = "list"] /\ zips' = zips /\ hist' = hist
      /\ local' = [local EXCEPT ![j].keep = config.retention, ![j].seen = DOMAIN zips]
  BY DEF Glob, files
<1>3. /\ \A i \in Jobs : local'[i].name = local[i].name
      /\ \A i \in Jobs : i # j => local'[i] = local[i] /\ pc'[i] = pc[i]
      /\ local'[j].seen = DOMAIN zips /\ pc'[j] = "list"
  BY <1>1, <1>2 DEF Locals
<1>4. Made' = Made /\ MadeTwice' = MadeTwice /\ Single' = Single /\ Running' = Running
  <2>1. \A i \in Jobs : pc[i] \in {"glob", "list", "unlink"} <=> pc'[i] \in {"glob", "list", "unlink"}
    BY <1>2, <1>3
  <2>2. Running' = Running
    BY <1>3, <2>1 DEF Running
  <2> QED BY <1>2, <2>2 DEF Made, MadeTwice, Single
<1>5. \A S : Agree(S, local[j].seen)' /\ Agree(local[j].seen, S)'
  BY <1>3, <1>4 DEF Agree, Single
<1>6. \A i, k \in Jobs : pc'[i] \in Listing /\ pc'[k] \in Listing => Agree(local[i].seen, local[k].seen)'
  <2> SUFFICES ASSUME NEW i \in Jobs, NEW k \in Jobs, pc'[i] \in Listing, pc'[k] \in Listing
               PROVE  Agree(local[i].seen, local[k].seen)'
    OBVIOUS
  <2>1. CASE i # j /\ k # j
    BY <1>3, <1>4, <2>1 DEF PruneInv, Agree
  <2>2. CASE i = j \/ k = j
    BY <1>3, <1>4, <2>2 DEF Agree, Single
  <2> QED BY <2>1, <2>2
<1>7. \E S \in SUBSET Single', c \in Forms \cup {FirstConfig} : Fits(S, c)'
  <2>1. PICK S \in SUBSET Single, c \in Forms \cup {FirstConfig} : Fits(S, c)
    BY DEF PruneInv
  <2>2. \A i \in Jobs : pc'[i] \in Listing => Agree(S, local[i].seen)'
    <3> SUFFICES ASSUME NEW i \in Jobs, pc'[i] \in Listing PROVE Agree(S, local[i].seen)'
      OBVIOUS
    <3>1. CASE i = j
      BY <1>3, <1>4, <3>1 DEF Agree, Single
    <3>2. CASE i # j
      <4>1. Agree(S, local[i].seen) /\ local'[i] = local[i]
        BY <1>3, <2>1, <3>2 DEF Fits
      <4> QED BY <1>4, <4>1 DEF Agree
    <3> QED BY <3>1, <3>2
  <2>3. Fits(S, c)'
    BY <1>2, <1>4, <2>1, <2>2 DEF Fits
  <2> QED BY <1>4, <2>3
<1>8. \A i \in Jobs : pc'[i] \in Listing =>
         /\ local'[i].seen \subseteq Made'
         /\ local'[i].name \in Single' => local'[i].name \in local'[i].seen
  BY <1>3, <1>4 DEF PruneInv, Single
<1>9. \A i \in Jobs : pc'[i] \in InPrune => local'[i].name \in Made'
  <2>1. \A i \in Jobs : pc'[i] \in InPrune => pc[i] \in InPrune
    BY <1>2, <1>3 DEF InPrune
  <2> QED BY <1>3, <1>4, <2>1 DEF PruneInv
<1>10. DOMAIN zips' \subseteq Made' /\ NewestSurvives'
  BY <1>2, <1>4 DEF PruneInv, NewestSurvives
<1> QED BY <1>6, <1>7, <1>8, <1>9, <1>10 DEF PruneInv

LEMMA PruneUnlink ==
  ASSUME TypeOK, PruneInv, NewestSurvives, NEW j \in Jobs, Unlink(j)
  PROVE  PruneInv' /\ NewestSurvives'
<1> DEFINE seen == local[j].seen
           keep == local[j].keep
           gone == seen \ Kept(seen, keep)
<1>1. /\ pc \in [Jobs -> Steps] /\ local \in [Jobs -> Locals] /\ hist \in Histories
      /\ DOMAIN zips \subseteq Times /\ pc[j] = "unlink"
      /\ pc' = [pc EXCEPT ![j] = "stat"] /\ local' = local
  BY DEF TypeOK, JobsOK, FilesOK, Unlink
<1>2. zips' = Without(zips, gone) /\ hist' = [hist EXCEPT !.unpruned = @ \ seen]
  BY DEF Unlink
<1>3. keep \in Retentions /\ keep \in Nat \ {0} /\ seen \in SUBSET Times /\ seen \subseteq Made
  BY <1>1, Constants DEF TypeOK, JobsOK, Locals, PruneInv, Listing
<1> HIDE DEF seen, keep, gone
<1>4. /\ hist'.made = hist.made /\ hist'.deleted = hist.deleted
      /\ hist'.unpruned = hist.unpruned \ seen
  BY <1>1, <1>2 DEF Histories
<1>5. DOMAIN zips' = DOMAIN zips \ gone
  BY <1>2 DEF Without
<1>6. Made' = Made /\ MadeTwice' = MadeTwice
  BY <1>4 DEF Made, MadeTwice
<1>7. Single' = Single \ gone /\ gone \subseteq seen /\ gone = seen \ Kept(seen, keep)
  BY <1>5, <1>6 DEF Single, gone
<1>8. NewestSurvives'
  <2> SUFFICES ASSUME NEW n \in Made, \A m \in Made : m <= n
               PROVE  n \in DOMAIN zips' \cup hist.deleted
    BY <1>4, <1>6 DEF NewestSurvives
  <2>1. n \in DOMAIN zips \cup hist.deleted
    BY DEF NewestSurvives
  <2>2. n \notin gone
    BY <1>3, NewestKept DEF gone
  <2> QED BY <1>5, <2>1, <2>2
<1>9. \A i \in Jobs : pc'[i] \in InPrune => i # j /\ pc'[i] = pc[i]
  BY <1>1 DEF InPrune
<1>10. \A n \in Single' \ seen : n \in Running \cup hist.unpruned => n \in Running' \cup hist'.unpruned
  <2> SUFFICES ASSUME NEW n \in Single' \ seen, n \in Running PROVE n \in Running'
    BY <1>4
  <2>1. PICK i \in Jobs : pc[i] \in {"glob", "list", "unlink"} /\ local[i].name = n
    BY DEF Running
  <2>2. i # j
    BY <1>1, <1>7, <2>1 DEF PruneInv, Listing, seen
  <2>3. pc'[i] \in {"glob", "list", "unlink"} /\ local'[i].name = n
    BY <1>1, <2>1, <2>2
  <2> QED BY <2>3 DEF Running
<1>11. \A S, T : Agree(S, T) => Agree(S, T)'
  BY <1>7 DEF Agree
<1>12. \A i \in Jobs : pc'[i] \in Listing => i # j /\ pc[i] \in Listing /\ local'[i] = local[i]
  BY <1>1 DEF Listing
<1>13. \A i \in Jobs : pc'[i] \in Listing =>
         /\ local'[i].seen \subseteq Made'
         /\ local'[i].name \in Single' => local'[i].name \in local'[i].seen
  BY <1>6, <1>7, <1>12 DEF PruneInv
<1>14. \A i, k \in Jobs : pc'[i] \in Listing /\ pc'[k] \in Listing => Agree(local[i].seen, local[k].seen)'
  <2> SUFFICES ASSUME NEW i \in Jobs, NEW k \in Jobs, pc'[i] \in Listing, pc'[k] \in Listing
               PROVE  Agree(local[i].seen, local[k].seen)'
    OBVIOUS
  <2>1. Agree(local[i].seen, local[k].seen) /\ local'[i] = local[i] /\ local'[k] = local[k]
    BY <1>12 DEF PruneInv
  <2> QED BY <1>7, <2>1 DEF Agree
<1>15. \E S \in SUBSET Single', c \in Forms \cup {FirstConfig} : Fits(S, c)'
  <2>1. PICK S \in SUBSET Single, c \in Forms \cup {FirstConfig} : Fits(S, c)
    BY DEF PruneInv
  <2>2. CASE Single \cap seen \subseteq S
    \* The set is older than the listing: it loses what the prune removes.
    <3>1. PICK T \in SUBSET Single' : T = S \cap Single'
      OBVIOUS
    <3>2. Cardinality(T) <= c.retention
      <4>1. S \in SUBSET Times /\ T \in SUBSET S
        BY <1>1, <3>1 DEF Single
      <4>2. Cardinality(T) <= Cardinality(S) /\ Cardinality(S) \in Nat /\ Cardinality(T) \in Nat
        BY <4>1, SetsOfTimes
      <4>3. c.retention \in Nat
        BY FormsAssumption DEF Configs
      <4> QED BY <2>1, <4>2, <4>3 DEF Fits
    <3>3. Single' \ T \subseteq Running' \cup hist'.unpruned
      <4> SUFFICES ASSUME NEW n \in Single' \ T PROVE n \in Running' \cup hist'.unpruned
        OBVIOUS
      <4>1. n \in Single \ S /\ n \notin seen
        BY <1>7, <2>2, <3>1
      <4> QED BY <1>10, <2>1, <4>1 DEF Fits
    <3>4. \A i \in Jobs : pc'[i] \in Listing => Agree(T, local[i].seen)'
      <4> SUFFICES ASSUME NEW i \in Jobs, pc'[i] \in Listing PROVE Agree(T, local[i].seen)'
        OBVIOUS
      <4>1. Agree(S, local[i].seen) /\ local'[i] = local[i]
        BY <1>12, <2>1 DEF Fits
      <4> QED BY <1>7, <3>1, <4>1 DEF Agree
    <3>5. Fits(T, c)'
      BY <3>2, <3>3, <3>4 DEF Fits
    <3> QED BY <3>5
  <2>3. CASE Single \cap S \subseteq seen
    \* The listing is the later: what it keeps fits its own retention.
    <3>1. PICK T \in SUBSET Single' : T = Single' \cap seen
      OBVIOUS
    <3>2. PICK e \in Forms \cup {FirstConfig} : keep = e.retention
      BY <1>3 DEF Retentions
    <3>3. Cardinality(T) <= e.retention
      <4>1. T \in SUBSET Kept(seen, keep) /\ Kept(seen, keep) \in SUBSET Times
        BY <1>3, <1>7, <3>1 DEF Kept
      <4>2. Cardinality(T) <= Cardinality(Kept(seen, keep))
        BY <4>1, SetsOfTimes
      <4>3. Cardinality(Kept(seen, keep)) <= keep
        BY <1>3, KeptBound
      <4>4. T \in SUBSET Times
        BY <4>1
      <4>5. Cardinality(T) \in Nat /\ Cardinality(Kept(seen, keep)) \in Nat
        BY <4>1, <4>4, SetsOfTimes
      <4> QED BY <1>3, <3>2, <4>2, <4>3, <4>5
    <3>4. Single' \ T \subseteq Running' \cup hist'.unpruned
      <4> SUFFICES ASSUME NEW n \in Single' \ T PROVE n \in Running' \cup hist'.unpruned
        OBVIOUS
      <4>1. n \in Single \ S /\ n \notin seen
        BY <1>7, <2>3, <3>1
      <4> QED BY <1>10, <2>1, <3>1, <4>1 DEF Fits
    <3>5. \A i \in Jobs : pc'[i] \in Listing => Agree(T, local[i].seen)'
      <4> SUFFICES ASSUME NEW i \in Jobs, pc'[i] \in Listing PROVE Agree(T, local[i].seen)'
        OBVIOUS
      <4>1. Agree(seen, local[i].seen) /\ local'[i] = local[i]
        BY <1>1, <1>12 DEF PruneInv, Listing, seen
      <4> QED BY <1>7, <3>1, <4>1 DEF Agree
    <3>6. Fits(T, e)'
      BY <3>3, <3>4, <3>5 DEF Fits
    <3> QED BY <3>6
  <2>4. Agree(S, seen)
    BY <1>1, <2>1 DEF Fits, Listing, seen
  <2> QED BY <2>2, <2>3, <2>4 DEF Agree
<1>16. \A i \in Jobs : pc'[i] \in InPrune => local'[i].name \in Made'
  BY <1>1, <1>6, <1>9 DEF PruneInv
<1>17. DOMAIN zips' \subseteq Made'
  BY <1>5, <1>6 DEF PruneInv
<1> QED BY <1>8, <1>13, <1>14, <1>15, <1>16, <1>17 DEF PruneInv

LEMMA PruneStep ==
  TypeOK /\ TypeOK' /\ PruneInv /\ NewestSurvives /\ [Next]_vars => PruneInv' /\ NewestSurvives'
<1> SUFFICES ASSUME TypeOK, TypeOK', PruneInv, NewestSurvives, [Next]_vars
             PROVE  PruneInv' /\ NewestSurvives'
  OBVIOUS
<1> USE DEF settings, record, files, restore
<1>0. JobsOK /\ hist \in Histories /\ hist' \in Histories /\ pc \in [Jobs -> Steps] /\ local \in [Jobs -> Locals]
  BY DEF TypeOK, JobsOK
\* Who stays in its prune keeps its name in Running.
<1>1. ASSUME \A i \in Jobs : pc[i] \in InPrune =>
               \/ pc'[i] \in InPrune /\ local'[i].name = local[i].name
               \/ local[i].name \in hist'.unpruned,
             hist.unpruned \subseteq hist'.unpruned
      PROVE  Running \cup hist.unpruned \subseteq Running' \cup hist'.unpruned
  BY <1>1 DEF Running, InPrune
<1>2. ASSUME NEW j \in Jobs, Exit(j) PROVE PruneInv' /\ NewestSurvives'
  <2>1. PICK result \in Results, leftover \in SUBSET Times : IsExit(j, result, leftover)
    BY <1>2, Exits
  <2>2. /\ pc'[j] \notin InPrune /\ pc'[j] \notin Listing
        /\ \A i \in Jobs \ {j} : pc'[i] = pc[i] /\ local'[i] = local[i]
    BY <1>0, <2>1, Leaves DEF IsExit, InPrune, Listing
  <2>3. /\ hist'.made = hist.made /\ hist'.deleted = hist.deleted /\ zips' = zips
        /\ hist'.unpruned = hist.unpruned \cup leftover
        /\ pc[j] \in InPrune => local[j].name \in leftover
    BY <2>1 DEF IsExit
  <2>4. Running \cup hist.unpruned \subseteq Running' \cup hist'.unpruned
    BY <1>1, <2>2, <2>3
  <2> QED BY <2>2, <2>3, <2>4, PruneFrame
<1>3. ASSUME NEW j \in Jobs, Break(j) PROVE PruneInv' /\ NewestSurvives'
  <2>1. /\ pc'[j] \notin InPrune /\ pc'[j] \notin Listing
        /\ pc[j] \in InPrune => pc[j] = "glob"
        /\ \A i \in Jobs \ {j} : pc'[i] = pc[i] /\ local'[i] = local[i]
        /\ zips' = zips
    BY <1>0, <1>3 DEF Break, InPrune, Listing
  <2>2. /\ hist'.made = hist.made /\ hist'.deleted = hist.deleted
        /\ hist'.unpruned = hist.unpruned \cup (IF pc[j] = "glob" THEN {local[j].name} ELSE {})
    BY <1>0, <1>3, BreakFields
  <2>3. Running \cup hist.unpruned \subseteq Running' \cup hist'.unpruned
    BY <1>1, <2>1, <2>2
  <2> QED BY <2>1, <2>2, <2>3, PruneFrame
<1>4. ASSUME NEW p \in Procs, Crash(p) PROVE PruneInv' /\ NewestSurvives'
  <2>1. /\ pc' = [j \in Jobs |-> IF j \in OfProcess(p) THEN "idle" ELSE pc[j]]
        /\ local' = [j \in Jobs |-> IF j \in OfProcess(p) THEN NoLocals ELSE local[j]]
        /\ zips' = zips
    BY <1>4 DEF Crash
  <2>2. /\ hist'.made = hist.made /\ hist'.deleted = hist.deleted
        /\ hist'.unpruned = hist.unpruned \cup
             {local[j].name : j \in {i \in OfProcess(p) : pc[i] \in {"glob", "list", "unlink"}}}
    BY <1>0, <1>4, CrashFields
  <2>3. Running \cup hist.unpruned \subseteq Running' \cup hist'.unpruned
    BY <1>1, <2>1, <2>2 DEF InPrune
  <2>4. \A i \in Jobs : pc'[i] # "idle" => pc'[i] = pc[i] /\ local'[i] = local[i]
    BY <2>1
  <2> QED BY <2>1, <2>2, <2>3, <2>4, PruneFrame DEF InPrune, Listing
<1>5. ASSUME NEW j \in Jobs,
             \/ Tick(j) \/ TryLock(j) \/ Recheck(j) \/ PersistRun(j) \/ PersistStatus(j)
             \/ Unlock(j) \/ RunNow(j) \/ Begin(j) \/ OpenPart(j) \/ List(j)
      PROVE  PruneInv' /\ NewestSurvives'
  <2>1. hist'.made = hist.made /\ hist'.deleted = hist.deleted /\ hist'.unpruned = hist.unpruned
    <3>1. CASE Begin(j)
      <4>1. IsCounted(hist, Counted(hist, j), j)
        BY <1>0, Counts
      <4>2. hist' = [Counted(hist, j) EXCEPT !.namers[now] = @ \cup {Process(j)}]
        BY <3>1 DEF Begin
      <4> QED BY <4>1, <4>2 DEF IsCounted, Histories
    <3>2. CASE ~Begin(j)
      BY <1>0, <1>5, <3>2
      DEF Tick, TryLock, Recheck, OpenPart, List, PersistRun, PersistStatus, Unlock, RunNow, Histories
    <3> QED BY <3>1, <3>2
  <2>2. zips' = zips
    BY <1>5 DEF Tick, TryLock, Recheck, Begin, OpenPart, List, PersistRun, PersistStatus, Unlock, RunNow
  <2>3. /\ \A i \in Jobs \ {j} : pc'[i] = pc[i] /\ local'[i] = local[i]
        /\ (pc[j] \in InPrune <=> pc'[j] \in InPrune)
        /\ pc'[j] \in Listing => pc[j] \in Listing
        /\ pc[j] \in InPrune => local'[j] = local[j]
    BY <1>0, <1>5 
    DEF Tick, TryLock, Recheck, Begin, OpenPart, List, PersistRun, PersistStatus, Unlock, RunNow, InPrune, Listing
  <2>4. Running \cup hist.unpruned \subseteq Running' \cup hist'.unpruned
    BY <1>1, <2>1, <2>3
  <2>5. \A i \in Jobs : pc'[i] \in Listing => pc[i] \in Listing /\ local'[i] = local[i]
    BY <2>3 DEF Listing, InPrune
  <2> QED BY <2>1, <2>2, <2>3, <2>4, <2>5, PruneFrame
<1>6. CASE Delete
  <2>1. PICK n \in DOMAIN zips : zips' = Without(zips, {n}) /\ hist' = [hist EXCEPT !.deleted = @ \cup {n}]
    BY <1>6 DEF Delete
  <2>2. /\ local' = local /\ pc' = pc
        /\ hist'.made = hist.made /\ hist'.unpruned = hist.unpruned
        /\ hist'.deleted = hist.deleted \cup {n}
    BY <1>0, <1>6, <2>1 DEF Delete, Histories
  <2>3. DOMAIN zips' = DOMAIN zips \ {n}
    BY <2>1 DEF Without
  <2>4. Running' = Running
    BY <2>2 DEF Running
  <2> QED BY <2>2, <2>3, <2>4, PruneFrame
<1>7. CASE \/ Advance \/ Submit \/ StoreKey \/ Validate \/ Terminate \/ Load \/ LoadFails
           \/ UNCHANGED vars \/ \E p \in WebProcs : AskRestore(p)
  <2>1. UNCHANGED <<pc, local, zips, hist>>
    BY <1>7 DEF Advance, Submit, StoreKey, Validate, Terminate, Load, LoadFails, AskRestore, vars
  <2>2. Running' = Running
    BY <2>1 DEF Running
  <2> QED BY <2>1, <2>2, PruneFrame
<1>8. ASSUME NEW j \in Jobs, Replace(j) \/ Glob(j) \/ Unlink(j) PROVE PruneInv' /\ NewestSurvives'
  BY <1>0, <1>8, PruneReplace, PruneGlob, PruneUnlink
<1> QED BY <1>2, <1>3, <1>4, <1>5, <1>6, <1>7, <1>8 DEF Next, Thread, Exit

(* Whatever overlaps, the newest archive made stays until a person deletes    *)
(* it: prune_backups sorts what it listed and keeps at least one.             *)
THEOREM BackupNewestSurvives == Spec => []NewestSurvives
<1>1. Init => TypeOK /\ PruneInv /\ NewestSurvives
  BY TypeInit, PruneInit
<1>2. TypeOK /\ PruneInv /\ NewestSurvives /\ [Next]_vars => (TypeOK /\ PruneInv /\ NewestSurvives)'
  BY TypeStep, PruneStep
<1> QED BY <1>1, <1>2, PTL DEF Spec

(* The directory holds no more archives than the largest retention that was   *)
(* set, beside those whose own prune is running or never ran and the names    *)
(* taken twice: overlapping prunes of several processes never leave more,     *)
(* since of two listings the later has all that is left of the earlier.       *)
THEOREM BackupRetentionHolds == Spec => []RetentionHolds
<1>1. Init => TypeOK /\ PruneInv /\ NewestSurvives
  BY TypeInit, PruneInit
<1>2. TypeOK /\ PruneInv /\ NewestSurvives /\ [Next]_vars => (TypeOK /\ PruneInv /\ NewestSurvives)'
  BY TypeStep, PruneStep
<1>3. TypeOK /\ PruneInv => RetentionHolds
  <2> SUFFICES ASSUME TypeOK, PruneInv PROVE RetentionHolds
    OBVIOUS
  <2> DEFINE late == DOMAIN zips \ (Running \cup hist.unpruned \cup MadeTwice)
  <2>1. PICK S \in SUBSET Single, c \in Forms \cup {FirstConfig} : Fits(S, c)
    BY DEF PruneInv
  <2>2. late \in SUBSET S /\ S \in SUBSET Times
    BY <2>1 DEF Fits, Single, TypeOK, FilesOK
  <2>3. late \in SUBSET Times
    BY <2>2
  <2> HIDE DEF late
  <2>4. Cardinality(late) <= Cardinality(S) /\ Cardinality(late) \in Nat /\ Cardinality(S) \in Nat
    BY <2>2, <2>3, SetsOfTimes
  <2>5. Cardinality(S) <= c.retention /\ c.retention \in Nat
    BY <2>1, FormsAssumption DEF Fits, Configs
  <2>6. Cardinality(late) <= c.retention
    BY <2>4, <2>5
  <2> QED BY <2>6 DEF RetentionHolds, late
<1> QED BY <1>1, <1>2, <1>3, PTL DEF Spec

-----------------------------------------------------------------------------
(* The record of the last run.                                             *)

DayOf(j)   == Day(local[j].at)
Attempting == Begun \cup {"start"}
Persisting == {"persist_run", "persist_status"}

LEMMA OnePerProcess ==
  \A i, j \in Scheduled : Process(i) = Process(j) => i = j
BY DEF Scheduled, Process

\* As long as nobody restores: whoever is past the lock holds it, no attempt
\* is made for a day on record, the history knows how the attempt to be
\* recorded ended.
StatusFacts ==
  /\ restoring.step = "none" /\ severed = {}
  /\ \A j \in Scheduled : pc[j] \notin {"idle", "due"} => lock = Process(j)
  /\ \A j \in Scheduled : pc[j] \in Persisting => local[j].outcome = hist.ended[DayOf(j)]
  /\ \A j \in Scheduled : pc[j] = "persist_status" => last_run = local[j].at
  /\ \A j \in Scheduled : pc[j] \in Attempting => last_run = Never \/ Day(last_run) < DayOf(j)
  /\ \/ last_run = Never \/ hist.half
     \/ \E j \in Scheduled : pc[j] = "persist_status"
     \/ last_status = hist.ended[Day(last_run)]

StatusInv == spent.restore = 0 => StatusFacts

LEMMA StatusInit == Init => StatusInv
<1> SUFFICES ASSUME Init PROVE StatusFacts
  BY DEF StatusInv
<1>1. /\ restoring.step = "none" /\ severed = {} /\ last_run = Never
      /\ \A j \in Scheduled : pc[j] = "idle"
  BY Constants DEF Init, NoRestore
<1> QED BY <1>1 DEF StatusFacts, Persisting, Attempting, Begun

\* The record is left alone, jobs go on inside create_backup or drop out.
LEMMA StatusFrame ==
  ASSUME StatusFacts, restoring'.step = "none", severed' = {},
         last_run' = last_run, last_status' = last_status,
         hist'.ended = hist.ended, hist.half => hist'.half,
         \A j \in Scheduled : pc'[j] \notin {"idle", "due"} =>
           pc[j] \notin {"idle", "due"} /\ lock' = lock,
         \A j \in Scheduled : pc'[j] \in Persisting => pc'[j] = pc[j] /\ local'[j] = local[j],
         \A j \in Scheduled : pc'[j] \in Attempting =>
           pc[j] \in Attempting /\ local'[j].at = local[j].at,
         \A j \in Scheduled : pc[j] = "persist_status" => pc'[j] = "persist_status" \/ hist'.half
  PROVE  StatusFacts'
<1>1. \A j \in Scheduled : pc'[j] \notin {"idle", "due"} => lock' = Process(j)
  BY DEF StatusFacts
<1>2. \A j \in Scheduled : pc'[j] \in Persisting => local'[j].outcome = hist'.ended[DayOf(j)']
  BY DEF StatusFacts, DayOf
<1>3. \A j \in Scheduled : pc'[j] = "persist_status" => last_run' = local'[j].at
  BY DEF StatusFacts, Persisting
<1>4. \A j \in Scheduled : pc'[j] \in Attempting => last_run' = Never \/ Day(last_run') < DayOf(j)'
  BY DEF StatusFacts, DayOf
<1>5. \/ last_run' = Never \/ hist'.half
      \/ \E j \in Scheduled : pc'[j] = "persist_status"
      \/ last_status' = hist'.ended[Day(last_run')]
  BY DEF StatusFacts
<1> QED BY <1>1, <1>2, <1>3, <1>4, <1>5 DEF StatusFacts

LEMMA StatusStep ==
  ASSUME Dialect = "postgresql", TypeOK, TypeOK', StatusInv, [Next]_vars
  PROVE  StatusInv'
<1> SUFFICES ASSUME spent'.restore = 0 PROVE StatusFacts'
  BY DEF StatusInv
<1> USE DEF settings, record, files, restore
<1>0. /\ JobsOK /\ hist \in Histories /\ hist' \in Histories
      /\ pc \in [Jobs -> Steps] /\ local \in [Jobs -> Locals] /\ local' \in [Jobs -> Locals]
      /\ last_run \in Times \cup {Never}
  BY DEF TypeOK, JobsOK, SettingsOK
<1>1. spent.restore = 0
  <2>1. spent.restore \in Nat /\ spent'.restore >= spent.restore
    BY SpentStep DEF TypeOK, Kinds
  <2> QED BY <2>1
<1>2. StatusFacts
  BY <1>1 DEF StatusInv
<1>3. ~(\E p \in WebProcs : AskRestore(p))
  <2>1. ASSUME NEW p \in WebProcs, AskRestore(p) PROVE FALSE
    <3>1. Spend("restore")
      BY <2>1 DEF AskRestore
    <3>2. spent'.restore = spent.restore + 1
      BY <3>1, Spends DEF Kinds, TypeOK
    <3> QED BY <1>1, <3>2
  <2> QED BY <2>1
<1>4. ~(Validate \/ Terminate \/ Load \/ LoadFails) /\ \A j \in Jobs : ~Break(j)
  BY <1>2 DEF StatusFacts, Validate, Terminate, Load, LoadFails, Break
<1>5. \A j \in Jobs : j \in Scheduled \/ j \in Manual
  BY Constants
\* Inside create_backup, or outside of everything that matters here.
<1>6. ASSUME NEW j \in Jobs,
             \/ Tick(j) \/ RunNow(j) \/ Begin(j) \/ OpenPart(j) \/ Replace(j) \/ Glob(j)
             \/ List(j) \/ Unlink(j)
      PROVE  StatusFacts'
  <2>1. hist'.ended = hist.ended /\ hist'.half = hist.half
    <3>1. CASE Begin(j)
      <4>1. IsCounted(hist, Counted(hist, j), j)
        BY <1>0, Counts
      <4>2. hist' = [Counted(hist, j) EXCEPT !.namers[now] = @ \cup {Process(j)}]
        BY <3>1 DEF Begin
      <4> QED BY <4>1, <4>2 DEF IsCounted, Histories
    <3>2. CASE ~Begin(j)
      BY <1>0, <1>6, <3>2 DEF Tick, RunNow, OpenPart, Replace, Glob, List, Unlink, Histories
    <3> QED BY <3>1, <3>2
  <2>2. UNCHANGED <<restoring, severed, last_run, last_status, lock>>
    BY <1>6 DEF Tick, RunNow, Begin, OpenPart, Replace, Glob, List, Unlink
  <2>3. /\ \A i \in Jobs \ {j} : pc'[i] = pc[i] /\ local'[i] = local[i]
        /\ pc'[j] \notin Persisting /\ pc[j] \notin Persisting
        /\ j \in Scheduled /\ pc'[j] \notin {"idle", "due"} => pc[j] \notin {"idle", "due"}
        /\ j \in Scheduled /\ pc'[j] \in Attempting => pc[j] \in Attempting /\ local'[j].at = local[j].at
    <3>1. CASE Tick(j) \/ RunNow(j)
      BY <1>0, <3>1, Constants DEF Tick, RunNow, Persisting, Attempting, Begun
    <3>2. CASE Begin(j) \/ Glob(j)
      <4>1. local'[j].at = local[j].at /\ \A i \in Jobs \ {j} : local'[i] = local[i]
        BY <1>0, <3>2 DEF Begin, Glob, Locals
      <4> QED BY <1>0, <3>2, <4>1 DEF Begin, Glob, Persisting, Attempting, Begun
    <3>3. CASE OpenPart(j) \/ Replace(j) \/ List(j) \/ Unlink(j)
      BY <1>0, <3>3 DEF OpenPart, Replace, List, Unlink, Persisting, Attempting, Begun
    <3> QED BY <1>6, <3>1, <3>2, <3>3
  <2>4. restoring'.step = "none" /\ severed' = {}
    BY <1>2, <2>2 DEF StatusFacts
  <2>5. \A i \in Scheduled :
           /\ pc'[i] \notin {"idle", "due"} => pc[i] \notin {"idle", "due"} /\ lock' = lock
           /\ pc'[i] \in Persisting => pc'[i] = pc[i] /\ local'[i] = local[i]
           /\ pc'[i] \in Attempting => pc[i] \in Attempting /\ local'[i].at = local[i].at
           /\ pc[i] = "persist_status" => pc'[i] = "persist_status"
    BY <2>2, <2>3, Constants DEF Persisting
  <2> QED BY <1>2, <2>1, <2>2, <2>4, <2>5, StatusFrame
<1>7. ASSUME NEW j \in Jobs, TryLock(j) PROVE StatusFacts'
  <2>1. /\ j \in Scheduled /\ pc[j] = "due"
        /\ lock' = IF lock = Never THEN Process(j) ELSE lock
        /\ pc' = [pc EXCEPT ![j] = IF lock = Never THEN "locked" ELSE "idle"]
        /\ \A i \in Jobs \ {j} : local'[i] = local[i]
        /\ UNCHANGED <<last_run, last_status, restoring, severed, hist>>
    BY <1>0, <1>7 DEF TryLock, JobsOK
  <2>2. \A i \in Scheduled : i # j /\ pc[i] \notin {"idle", "due"} => lock = Process(i) /\ lock' = lock
    BY <1>2, <2>1, Constants DEF StatusFacts
  <2>3. \A i \in Scheduled : pc'[i] \notin {"idle", "due"} => lock' = Process(i)
    BY <1>0, <2>1, <2>2, Constants
  <2>4. /\ pc'[j] \notin Persisting \cup Attempting /\ pc[j] # "persist_status"
        /\ \A i \in Scheduled : i # j => pc'[i] = pc[i] /\ local'[i] = local[i]
    BY <1>0, <2>1, Constants DEF Persisting, Attempting, Begun
  <2>5. \A i \in Scheduled : pc'[i] \in Persisting => local'[i].outcome = hist'.ended[DayOf(i)']
    BY <1>2, <2>1, <2>4 DEF StatusFacts, DayOf
  <2>6. \A i \in Scheduled : pc'[i] = "persist_status" => last_run' = local'[i].at
    BY <1>2, <2>1, <2>4 DEF StatusFacts, Persisting
  <2>7. \A i \in Scheduled : pc'[i] \in Attempting => last_run' = Never \/ Day(last_run') < DayOf(i)'
    BY <1>2, <2>1, <2>4 DEF StatusFacts, DayOf
  <2>8. \/ last_run' = Never \/ hist'.half
        \/ \E i \in Scheduled : pc'[i] = "persist_status"
        \/ last_status' = hist'.ended[Day(last_run')]
    BY <1>2, <2>1, <2>4 DEF StatusFacts
  <2>9. restoring'.step = "none" /\ severed' = {}
    BY <1>2, <2>1 DEF StatusFacts
  <2> QED BY <2>3, <2>5, <2>6, <2>7, <2>8, <2>9 DEF StatusFacts
<1>8. ASSUME NEW j \in Jobs, Recheck(j) PROVE StatusFacts'
  <2>1. /\ pc[j] = "locked"
        /\ pc' = [pc EXCEPT ![j] = IF IsDue(local[j].at, local[j].hour, last_run) THEN "start" ELSE "unlock"]
        /\ UNCHANGED <<local, lock, last_run, last_status, restoring, severed, hist>>
    BY <1>8 DEF Recheck
  <2>2. pc'[j] = "start" => last_run = Never \/ Day(last_run) < DayOf(j)
    BY <1>0, <2>1 DEF IsDue, DayOf
  <2>3. \A i \in Jobs : i # j => pc'[i] = pc[i]
    BY <1>0, <2>1
  <2>4. pc'[j] \in {"start", "unlock"}
    BY <1>0, <2>1
  <2>5. \A i \in Scheduled : pc'[i] \notin {"idle", "due"} => lock' = Process(i)
    BY <1>2, <2>1, <2>3, Constants DEF StatusFacts
  <2>6. \A i \in Scheduled : pc'[i] \in Persisting => local'[i].outcome = hist'.ended[DayOf(i)']
    BY <1>2, <2>1, <2>3, <2>4, Constants DEF StatusFacts, DayOf, Persisting
  <2>7. \A i \in Scheduled : pc'[i] = "persist_status" => last_run' = local'[i].at
    BY <1>2, <2>1, <2>3, <2>4, Constants DEF StatusFacts
  <2>8. \A i \in Scheduled : pc'[i] \in Attempting => last_run' = Never \/ Day(last_run') < DayOf(i)'
    BY <1>2, <2>1, <2>2, <2>3, <2>4, Constants DEF StatusFacts, DayOf, Attempting, Begun
  <2>9. \/ last_run' = Never \/ hist'.half
        \/ \E i \in Scheduled : pc'[i] = "persist_status"
        \/ last_status' = hist'.ended[Day(last_run')]
    BY <1>2, <2>1, <2>3, Constants DEF StatusFacts
  <2>10. restoring'.step = "none" /\ severed' = {}
    BY <1>2, <2>1 DEF StatusFacts
  <2> QED BY <2>5, <2>6, <2>7, <2>8, <2>9, <2>10 DEF StatusFacts
\* create_backup is left, and a scheduled job has an outcome.
<1>9. ASSUME NEW j \in Jobs, Exit(j) PROVE StatusFacts'
  <2>1. PICK result \in Results, leftover \in SUBSET Times : IsExit(j, result, leftover)
    BY <1>9, Exits
  <2>2. /\ \A i \in Jobs \ {j} : pc'[i] = pc[i] /\ local'[i] = local[i]
        /\ pc'[j] = IF j \notin Scheduled THEN "idle"
                    ELSE IF result = "broken" THEN "unlock" ELSE "persist_run"
        /\ j \in Scheduled /\ result # "broken" =>
             local'[j].at = local[j].at /\ local'[j].outcome = result
        /\ severed' = severed \ {j}
    BY <1>0, <2>1, Leaves DEF IsExit
  <2>3. /\ hist'.half = hist.half /\ UNCHANGED <<restoring, last_run, last_status, lock>>
        /\ pc[j] \in Attempting /\ pc[j] \notin Persisting
        /\ hist'.ended = IF j \in Scheduled /\ result # "broken"
                         THEN [hist.ended EXCEPT ![DayOf(j)] = result] ELSE hist.ended
    BY <2>1 DEF IsExit, Attempting, Begun, InCreate, DayOf, Persisting
  <2>4. restoring'.step = "none" /\ severed' = {}
    BY <1>2, <2>2, <2>3 DEF StatusFacts
  <2>5. CASE j \notin Scheduled \/ result = "broken"
    <3>1. \A i \in Scheduled :
            /\ pc'[i] \notin {"idle", "due"} => pc[i] \notin {"idle", "due"} /\ lock' = lock
            /\ pc'[i] \in Persisting => pc'[i] = pc[i] /\ local'[i] = local[i]
            /\ pc'[i] \in Attempting => pc[i] \in Attempting /\ local'[i].at = local[i].at
            /\ pc[i] = "persist_status" => pc'[i] = "persist_status"
      BY <2>2, <2>3, <2>5, Constants DEF Persisting, Attempting, Begun
    <3>2. hist'.ended = hist.ended
      BY <2>3, <2>5
    <3> QED BY <1>2, <2>3, <2>4, <3>1, <3>2, StatusFrame
  <2>6. CASE j \in Scheduled /\ result # "broken"
    <3>1. DayOf(j) \in Days /\ DayOf(j) \in Nat /\ hist.ended \in [Days -> Outcomes]
      BY <1>0, Constants DEF DayOf, Locals, Histories
    <3>2. hist'.ended = [hist.ended EXCEPT ![DayOf(j)] = result]
      BY <2>3, <2>6
    <3>3. lock = Process(j) /\ \A i \in Scheduled : i # j => pc[i] \in {"idle", "due"}
      BY <1>2, <2>3, <2>6, OnePerProcess DEF StatusFacts, Attempting, Begun
    <3>4. \A i \in Scheduled : i # j => pc'[i] \in {"idle", "due"}
      BY <2>2, <3>3, Constants
    <3>5. pc'[j] = "persist_run" /\ DayOf(j)' = DayOf(j) /\ local'[j].outcome = result
      BY <2>2, <2>6 DEF DayOf
    <3>6. \A i \in Scheduled : pc'[i] \notin {"idle", "due"} => lock' = Process(i)
      BY <2>3, <3>3, <3>4
    <3>7. \A i \in Scheduled : pc'[i] \in Persisting => local'[i].outcome = hist'.ended[DayOf(i)']
      BY <3>1, <3>2, <3>4, <3>5 DEF Persisting
    <3>8. \A i \in Scheduled : pc'[i] = "persist_status" => last_run' = local'[i].at
      BY <3>4, <3>5
    <3>9. last_run = Never \/ Day(last_run) < DayOf(j)
      BY <1>2, <2>3, <2>6 DEF StatusFacts
    <3>10. \A i \in Scheduled : pc'[i] \in Attempting => last_run' = Never \/ Day(last_run') < DayOf(i)'
      BY <2>3, <3>4, <3>5, <3>9 DEF Attempting, Begun
    <3>11. \/ last_run' = Never \/ hist'.half \/ last_status' = hist'.ended[Day(last_run')]
      <4>1. \/ last_run = Never \/ hist.half \/ last_status = hist.ended[Day(last_run)]
        BY <1>2, <2>3, <3>3 DEF StatusFacts, Persisting
      <4>2. last_run # Never => Day(last_run) # DayOf(j) /\ Day(last_run) \in Days
        BY <1>0, <3>1, <3>9, Constants
      <4> QED BY <2>3, <3>1, <3>2, <4>1, <4>2
    <3> QED BY <2>4, <3>6, <3>7, <3>8, <3>10, <3>11 DEF StatusFacts
  <2> QED BY <2>5, <2>6
<1>10. ASSUME NEW j \in Jobs, PersistRun(j) PROVE StatusFacts'
  <2>1. /\ j \in Scheduled /\ pc[j] = "persist_run" /\ last_run' = local[j].at
        /\ pc' = [pc EXCEPT ![j] = "persist_status"]
        /\ UNCHANGED <<local, lock, last_status, restoring, severed, hist>>
    BY <1>0, <1>10 DEF PersistRun, JobsOK
  <2>2. lock = Process(j) /\ \A i \in Scheduled : i # j => pc[i] \in {"idle", "due"}
    BY <1>2, <2>1, OnePerProcess DEF StatusFacts
  <2>3. pc'[j] = "persist_status" /\ \A i \in Scheduled : i # j => pc'[i] \in {"idle", "due"}
    BY <1>0, <2>1, <2>2, Constants
  <2>4. local[j].outcome = hist.ended[DayOf(j)] /\ restoring.step = "none" /\ severed = {}
    BY <1>2, <2>1 DEF StatusFacts, Persisting
  <2> QED BY <2>1, <2>2, <2>3, <2>4 DEF StatusFacts, Persisting, Attempting, Begun, DayOf
<1>11. ASSUME NEW j \in Jobs, PersistStatus(j) PROVE StatusFacts'
  <2>1. /\ j \in Scheduled /\ pc[j] = "persist_status" /\ last_status' = local[j].outcome
        /\ pc' = [pc EXCEPT ![j] = "unlock"] /\ hist'.ended = hist.ended
        /\ UNCHANGED <<local, lock, last_run, restoring, severed>>
    BY <1>0, <1>11 DEF PersistStatus, JobsOK, Histories
  <2>2. lock = Process(j) /\ \A i \in Scheduled : i # j => pc[i] \in {"idle", "due"}
    BY <1>2, <2>1, OnePerProcess DEF StatusFacts
  <2>3. pc'[j] = "unlock" /\ \A i \in Scheduled : i # j => pc'[i] \in {"idle", "due"}
    BY <1>0, <2>1, <2>2, Constants
  <2>4. /\ local[j].outcome = hist.ended[DayOf(j)] /\ last_run = local[j].at
        /\ restoring.step = "none" /\ severed = {}
    BY <1>2, <2>1 DEF StatusFacts, Persisting
  <2> QED BY <2>1, <2>2, <2>3, <2>4 DEF StatusFacts, Persisting, Attempting, Begun, DayOf
<1>12. ASSUME NEW j \in Jobs, Unlock(j) PROVE StatusFacts'
  <2>1. /\ pc[j] = "unlock" /\ pc' = [pc EXCEPT ![j] = "idle"] /\ severed' = severed \ {j}
        /\ lock' = IF lock = Process(j) THEN Never ELSE lock
        /\ \A i \in Jobs \ {j} : local'[i] = local[i]
        /\ UNCHANGED <<last_run, last_status, restoring, hist>>
    BY <1>0, <1>12 DEF Unlock
  <2>2. \A i \in Scheduled : i # j /\ pc[i] \notin {"idle", "due"} => lock' = lock
    <3> SUFFICES ASSUME NEW i \in Scheduled, i # j, pc[i] \notin {"idle", "due"}, lock = Process(j)
                 PROVE  FALSE
      BY <2>1
    <3>1. lock = Process(i)
      BY <1>2 DEF StatusFacts
    <3>2. j \in Scheduled
      BY <1>0, <2>1 DEF JobsOK
    <3> QED BY <3>1, <3>2, OnePerProcess
  <2>3. \A i \in Scheduled :
           /\ pc'[i] \notin {"idle", "due"} => pc[i] \notin {"idle", "due"} /\ lock' = lock
           /\ pc'[i] \in Persisting => pc'[i] = pc[i] /\ local'[i] = local[i]
           /\ pc'[i] \in Attempting => pc[i] \in Attempting /\ local'[i].at = local[i].at
           /\ pc[i] = "persist_status" => pc'[i] = "persist_status"
    BY <1>0, <2>1, <2>2, Constants DEF Persisting, Attempting, Begun
  <2>4. restoring'.step = "none" /\ severed' = {}
    BY <1>2, <2>1 DEF StatusFacts
  <2> QED BY <1>2, <2>1, <2>3, <2>4, StatusFrame
<1>13. ASSUME NEW p \in Procs, Crash(p) PROVE StatusFacts'
  <2>1. /\ pc' = [j \in Jobs |-> IF j \in OfProcess(p) THEN "idle" ELSE pc[j]]
        /\ local' = [j \in Jobs |-> IF j \in OfProcess(p) THEN NoLocals ELSE local[j]]
        /\ severed' = severed \ OfProcess(p)
        /\ restoring' = IF restoring.by = p /\ restoring.step # "load" THEN NoRestore ELSE restoring
        /\ lock' = IF lock = p THEN Never ELSE lock
        /\ UNCHANGED <<last_run, last_status>>
    BY <1>13 DEF Crash
  <2>2. hist'.ended = hist.ended /\ hist'.half = (hist.half \/ pc[<<p, "scheduled">>] = "persist_status")
    BY <1>0, <1>13, CrashFields
  <2>3. \A i \in Scheduled : pc'[i] # "idle" => Process(i) # p /\ pc'[i] = pc[i] /\ local'[i] = local[i]
    BY <2>1, Constants DEF OfProcess
  <2>4. \A i \in Scheduled : pc'[i] \notin {"idle", "due"} => pc[i] \notin {"idle", "due"} /\ lock' = lock
    BY <1>2, <2>1, <2>3 DEF StatusFacts
  <2>5. \A i \in Scheduled : pc[i] = "persist_status" => pc'[i] = "persist_status" \/ hist'.half
    <3> SUFFICES ASSUME NEW i \in Scheduled, pc[i] = "persist_status", Process(i) = p
                 PROVE  hist'.half
      BY <2>1, Constants DEF OfProcess
    <3>1. i = <<p, "scheduled">>
      BY Constants, OnePerProcess
    <3> QED BY <2>2, <3>1
  <2>6. restoring'.step = "none" /\ severed' = {}
    BY <1>2, <2>1 DEF StatusFacts, NoRestore
  <2>7. \A i \in Scheduled :
           /\ pc'[i] \in Persisting => pc'[i] = pc[i] /\ local'[i] = local[i]
           /\ pc'[i] \in Attempting => pc[i] \in Attempting /\ local'[i].at = local[i].at
    BY <2>3 DEF Persisting, Attempting, Begun
  <2>8. hist.half => hist'.half
    BY <2>2
  <2> QED BY <1>2, <2>1, <2>2, <2>4, <2>5, <2>6, <2>7, <2>8, StatusFrame
<1>14. CASE Advance \/ Submit \/ StoreKey \/ Delete \/ UNCHANGED vars
  <2>1. UNCHANGED <<pc, local, lock, last_run, last_status, restoring, severed>>
    BY <1>14 DEF Advance, Submit, StoreKey, Delete, vars
  <2>2. hist'.ended = hist.ended /\ hist'.half = hist.half
    BY <1>0, <1>14 DEF Advance, Submit, StoreKey, Delete, vars, Histories
  <2>3. restoring'.step = "none" /\ severed' = {}
    BY <1>2, <2>1 DEF StatusFacts
  <2> QED BY <1>2, <2>1, <2>2, <2>3, StatusFrame
<1> QED BY <1>3, <1>4, <1>6, <1>7, <1>8, <1>9, <1>10, <1>11, <1>12, <1>13, <1>14 DEF Next, Thread, Exit

(* last_run and last_status belong together: PersistRun and PersistStatus are *)
(* two commits, and only a process that dies between them, or a restore, can  *)
(* leave the instant of one attempt beside the outcome of another.            *)
THEOREM BackupStatusIsOfLastRun ==
  ASSUME Dialect = "postgresql" PROVE Spec => []StatusIsOfLastRun
<1>1. Init => TypeOK /\ StatusInv
  BY TypeInit, StatusInit
<1>2. TypeOK /\ StatusInv /\ [Next]_vars => (TypeOK /\ StatusInv)'
  BY TypeStep, StatusStep
<1>3. TypeOK /\ StatusInv => StatusIsOfLastRun
  <2> SUFFICES ASSUME TypeOK, StatusInv PROVE StatusIsOfLastRun
    OBVIOUS
  <2>1. spent.restore \in Nat
    BY DEF TypeOK, Kinds
  <2>2. CASE spent.restore > 0
    BY <2>2 DEF StatusIsOfLastRun
  <2>3. CASE spent.restore = 0
    BY <2>3 DEF StatusInv, StatusFacts, StatusIsOfLastRun
  <2> QED BY <2>1, <2>2, <2>3
<1> QED BY <1>1, <1>2, <1>3, PTL DEF Spec

-----------------------------------------------------------------------------
(* One attempt a day.                                                      *)

Committed == Attempting \cup {"locked"}
Holds(j)  == lock = Process(j)
OnRecord(d) == last_run # Never /\ Day(last_run) >= d

\* The attempt a day has a right to is made: by the holder of the lock, or it
\* is on record and the holder is after another day.
Booked(d) ==
  \/ \E j \in Scheduled : Holds(j) /\ pc[j] \in Begun /\ DayOf(j) = d
  \/ OnRecord(d) /\ \A j \in Scheduled : Holds(j) /\ pc[j] \in Attempting => d < DayOf(j)

\* Those who lost the lock to a restore and may still attempt the day, or
\* record another day over it.
Loose(d) == {j \in Scheduled : /\ ~Holds(j)
                               /\ \/ pc[j] \in {"locked", "start"}
                                  \/ pc[j] \in Begun /\ DayOf(j) # d}

\* What the restore under way may still cost: the lock, the last run.
Pending == IF restoring.step \in {"validate", "terminate"} THEN 2
           ELSE IF restoring.step = "load" THEN 1 ELSE 0

Balance(d) ==
  /\ IsFiniteSet(Loose(d))
  /\ hist.attempts[d] + Cardinality(Loose(d)) + Pending
       <= hist.lost[d] + 2 * spent.restore + (IF Booked(d) THEN 1 ELSE 0)

BalanceInv == \A d \in Days : Balance(d)

\* A job that matters to the balance neither enters nor leaves nor begins.
Stays(i) ==
  \/ pc'[i] = pc[i] /\ DayOf(i)' = DayOf(i)
  \/ pc[i] \in Begun /\ pc'[i] \in Begun /\ DayOf(i)' = DayOf(i)
  \/ pc[i] \notin Committed /\ pc'[i] \notin Committed

LEMMA Counting ==
  ASSUME NEW S, IsFiniteSet(S), NEW T, NEW j
  PROVE  /\ Cardinality(S) \in Nat
         /\ T \subseteq S => IsFiniteSet(T) /\ Cardinality(T) \in Nat /\ Cardinality(T) <= Cardinality(S)
         /\ j \in S /\ T \subseteq S \ {j} =>
              IsFiniteSet(T) /\ Cardinality(T) \in Nat /\ Cardinality(T) + 1 <= Cardinality(S)
         /\ T \subseteq S \cup {j} =>
              IsFiniteSet(T) /\ Cardinality(T) \in Nat /\ Cardinality(T) <= Cardinality(S) + 1
<1>1. Cardinality(S) \in Nat
  BY FS_CardinalityType
<1>2. IsFiniteSet(S \ {j}) /\ Cardinality(S \ {j}) \in Nat /\ (j \in S => Cardinality(S \ {j}) = Cardinality(S) - 1)
  BY FS_RemoveElement, FS_CardinalityType
<1>3. /\ IsFiniteSet(S \cup {j}) /\ Cardinality(S \cup {j}) \in Nat
      /\ Cardinality(S \cup {j}) <= Cardinality(S) + 1
  <2>1. /\ IsFiniteSet(S \cup {j})
        /\ Cardinality(S \cup {j}) = IF j \in S THEN Cardinality(S) ELSE Cardinality(S) + 1
    BY FS_AddElement
  <2> QED BY <1>1, <2>1
<1>4. ASSUME NEW U, IsFiniteSet(U), T \subseteq U
      PROVE  IsFiniteSet(T) /\ Cardinality(T) \in Nat /\ Cardinality(T) <= Cardinality(U)
  BY <1>4, FS_Subset, FS_CardinalityType
<1>5. T \subseteq S => IsFiniteSet(T) /\ Cardinality(T) \in Nat /\ Cardinality(T) <= Cardinality(S)
  BY <1>4
<1>6. j \in S /\ T \subseteq S \ {j} =>
        IsFiniteSet(T) /\ Cardinality(T) \in Nat /\ Cardinality(T) + 1 <= Cardinality(S)
  <2> SUFFICES ASSUME j \in S, T \subseteq S \ {j}
               PROVE  IsFiniteSet(T) /\ Cardinality(T) \in Nat /\ Cardinality(T) + 1 <= Cardinality(S)
    OBVIOUS
  <2>1. IsFiniteSet(T) /\ Cardinality(T) \in Nat /\ Cardinality(T) <= Cardinality(S \ {j})
    BY <1>2, <1>4
  <2> QED BY <1>1, <1>2, <2>1
<1>7. T \subseteq S \cup {j} =>
        IsFiniteSet(T) /\ Cardinality(T) \in Nat /\ Cardinality(T) <= Cardinality(S) + 1
  <2> SUFFICES ASSUME T \subseteq S \cup {j}
               PROVE  IsFiniteSet(T) /\ Cardinality(T) \in Nat /\ Cardinality(T) <= Cardinality(S) + 1
    OBVIOUS
  <2>1. IsFiniteSet(T) /\ Cardinality(T) \in Nat /\ Cardinality(T) <= Cardinality(S \cup {j})
    BY <1>3, <1>4
  <2> QED BY <1>1, <1>3, <2>1
<1> QED BY <1>1, <1>5, <1>6, <1>7

LEMMA Amounts ==
  ASSUME TypeOK, NEW d \in Days
  PROVE  /\ hist.attempts[d] \in Nat /\ hist.lost[d] \in Nat /\ spent.restore \in Nat
         /\ Pending \in 0..2
BY DEF TypeOK, Histories, Kinds, Pending

\* Nothing is attempted, nobody loses the lock, what is booked stays booked
\* unless the loss is noted.
LEMMA BalanceFrame ==
  ASSUME TypeOK, TypeOK', NEW d \in Days, Balance(d),
         hist'.attempts[d] = hist.attempts[d], spent'.restore = spent.restore,
         Pending' <= Pending, Loose(d)' \subseteq Loose(d),
         \/ hist'.lost[d] >= hist.lost[d] /\ (Booked(d) => Booked(d)')
         \/ hist'.lost[d] >= hist.lost[d] + 1
  PROVE  Balance(d)'
<1>1. /\ hist.attempts[d] \in Nat /\ hist.lost[d] \in Nat /\ spent.restore \in Nat
      /\ hist'.attempts[d] \in Nat /\ hist'.lost[d] \in Nat
      /\ Pending \in 0..2 /\ Pending' \in 0..2
  BY Amounts DEF TypeOK, Histories, Pending
<1>2. /\ IsFiniteSet(Loose(d)) /\ Cardinality(Loose(d)) \in Nat
      /\ hist.attempts[d] + Cardinality(Loose(d)) + Pending
           <= hist.lost[d] + 2 * spent.restore + (IF Booked(d) THEN 1 ELSE 0)
  BY Counting DEF Balance
<1>3. /\ IsFiniteSet(Loose(d)') /\ Cardinality(Loose(d)') \in Nat
      /\ Cardinality(Loose(d)') <= Cardinality(Loose(d))
  BY <1>2, Counting
<1>4. hist'.attempts[d] + Cardinality(Loose(d)') + Pending'
        <= hist'.lost[d] + 2 * spent'.restore + (IF Booked(d)' THEN 1 ELSE 0)
  BY <1>1, <1>2, <1>3
<1> QED BY <1>3, <1>4 DEF Balance

LEMMA StaysAlike ==
  ASSUME lock' = lock, last_run' = last_run, \A i \in Scheduled : Stays(i), NEW d
  PROVE  Loose(d)' = Loose(d) /\ (Booked(d) => Booked(d)')
<1>1. \A i \in Scheduled : pc'[i] \in Begun /\ DayOf(i)' = d <=> pc[i] \in Begun /\ DayOf(i) = d
  BY DEF Stays, Committed, Attempting, Begun
<1>2. \A i \in Scheduled : pc'[i] \in {"locked", "start"} <=> pc[i] \in {"locked", "start"}
  BY DEF Stays, Committed, Attempting, Begun
<1>3. \A i \in Scheduled : pc'[i] \in Attempting <=> pc[i] \in Attempting
  BY DEF Stays, Committed, Attempting, Begun
<1>4. \A i \in Scheduled : pc'[i] \in Attempting => DayOf(i)' = DayOf(i)
  BY DEF Stays, Committed, Attempting, Begun
<1>5. \A i : Holds(i)' <=> Holds(i)
  BY DEF Holds
<1>6. OnRecord(d)' <=> OnRecord(d)
  BY DEF OnRecord
<1>7. Loose(d)' = Loose(d)
  BY <1>2, <1>3, <1>4, <1>5 DEF Loose, Attempting, Begun
<1> QED BY <1>1, <1>3, <1>4, <1>5, <1>6, <1>7 DEF Booked

\* A job drops out, or was not in; it may give the lock back.
LEMMA Drops ==
  ASSUME TypeOK, TypeOK', NEW d \in Days, Balance(d), NEW j \in Scheduled,
         pc'[j] \notin Committed, \A i \in Scheduled \ {j} : Stays(i),
         lock' = lock \/ (Holds(j) /\ lock' = Never), last_run' = last_run,
         hist'.attempts = hist.attempts, spent'.restore = spent.restore, Pending' <= Pending,
         hist'.lost[d] >= hist.lost[d],
         pc[j] \in Begun /\ DayOf(j) = d => hist'.lost[d] >= hist.lost[d] + 1
  PROVE  Balance(d)'
<1>1. \A i \in Scheduled : Holds(i)' => Holds(i)
  BY Constants DEF Holds
<1>2. \A i \in Scheduled \ {j} : Holds(i)' <=> Holds(i)
  BY OnePerProcess, Constants DEF Holds
<1>3. \A i \in Scheduled \ {j} :
        /\ pc'[i] \in Begun /\ DayOf(i)' = d <=> pc[i] \in Begun /\ DayOf(i) = d
        /\ pc'[i] \in {"locked", "start"} <=> pc[i] \in {"locked", "start"}
        /\ pc'[i] \in Begun <=> pc[i] \in Begun
        /\ pc'[i] \in Attempting <=> pc[i] \in Attempting
        /\ pc'[i] \in Attempting => DayOf(i)' = DayOf(i)
  BY DEF Stays, Committed, Attempting, Begun
<1>4. Loose(d)' \subseteq Loose(d)
  BY <1>2, <1>3 DEF Loose, Committed, Attempting
<1>5. CASE pc[j] \in Begun /\ DayOf(j) = d
  BY <1>4, <1>5, BalanceFrame
<1>6. CASE ~(pc[j] \in Begun /\ DayOf(j) = d)
  <2>1. ASSUME NEW i \in Scheduled, Holds(i), pc[i] \in Begun, DayOf(i) = d PROVE Booked(d)'
    BY <1>2, <1>3, <1>6, <2>1 DEF Booked
  <2>2. ASSUME OnRecord(d), \A i \in Scheduled : Holds(i) /\ pc[i] \in Attempting => d < DayOf(i)
        PROVE  Booked(d)'
    <3>1. OnRecord(d)'
      BY <2>2 DEF OnRecord
    <3>2. \A i \in Scheduled : Holds(i)' /\ pc'[i] \in Attempting => d < DayOf(i)'
      BY <1>2, <1>3, <2>2 DEF Attempting, Committed
    <3> QED BY <3>1, <3>2 DEF Booked
  <2>3. Booked(d) => Booked(d)'
    BY <2>1, <2>2 DEF Booked
  <2> QED BY <1>4, <2>3, BalanceFrame
<1> QED BY <1>5, <1>6

\* An attempt begins: the holder's is booked from here on, a loose one has
\* had its turn.
LEMMA Attempts ==
  ASSUME TypeOK, TypeOK', NEW d \in Days, Balance(d), NEW j \in Scheduled,
         pc[j] = "start", pc'[j] \in Begun, DayOf(j)' = DayOf(j),
         \A i \in Scheduled \ {j} : Stays(i), lock' = lock, last_run' = last_run,
         hist'.attempts = [hist.attempts EXCEPT ![DayOf(j)] = hist.attempts[DayOf(j)] + 1],
         hist'.lost = hist.lost, spent'.restore = spent.restore, Pending' = Pending
  PROVE  Balance(d)'
<1>1. /\ hist.attempts[d] \in Nat /\ hist.lost[d] \in Nat /\ spent.restore \in Nat
      /\ hist.attempts \in [Days -> Nat] /\ Pending \in 0..2
  BY Amounts DEF TypeOK, Histories
<1>2. \A i : Holds(i)' <=> Holds(i)
  BY DEF Holds
<1>3. \A i \in Scheduled \ {j} :
        /\ pc'[i] \in Begun /\ DayOf(i)' = d <=> pc[i] \in Begun /\ DayOf(i) = d
        /\ pc'[i] \in {"locked", "start"} <=> pc[i] \in {"locked", "start"}
        /\ pc'[i] \in Begun <=> pc[i] \in Begun
        /\ pc'[i] \in Attempting <=> pc[i] \in Attempting
        /\ pc'[i] \in Attempting => DayOf(i)' = DayOf(i)
  BY DEF Stays, Committed, Attempting, Begun
<1>4. pc[j] \in Attempting /\ pc[j] \notin Begun
  BY DEF Attempting, Begun
<1>5. Loose(d)' \subseteq Loose(d)
  BY <1>2, <1>3, <1>4 DEF Loose, Attempting
<1>6. Booked(d) => Booked(d)'
  <2>1. ASSUME NEW i \in Scheduled, Holds(i), pc[i] \in Begun, DayOf(i) = d PROVE Booked(d)'
    BY <1>2, <1>3, <1>4, <2>1 DEF Booked
  <2>2. ASSUME OnRecord(d), \A i \in Scheduled : Holds(i) /\ pc[i] \in Attempting => d < DayOf(i)
        PROVE  Booked(d)'
    <3>1. OnRecord(d)'
      BY <2>2 DEF OnRecord
    <3>2. \A i \in Scheduled : Holds(i)' /\ pc'[i] \in Attempting => d < DayOf(i)'
      BY <1>2, <1>3, <1>4, <2>2
    <3> QED BY <3>1, <3>2 DEF Booked
  <2> QED BY <2>1, <2>2 DEF Booked
<1>7. CASE d # DayOf(j)
  <2>1. hist'.attempts[d] = hist.attempts[d]
    BY <1>1, <1>7
  <2> QED BY <1>1, <1>5, <1>6, <2>1, BalanceFrame
<1>8. CASE d = DayOf(j)
  <2>1. hist'.attempts[d] = hist.attempts[d] + 1
    BY <1>1, <1>8
  <2>2. /\ IsFiniteSet(Loose(d)) /\ Cardinality(Loose(d)) \in Nat
        /\ hist.attempts[d] + Cardinality(Loose(d)) + Pending
             <= hist.lost[d] + 2 * spent.restore + (IF Booked(d) THEN 1 ELSE 0)
    BY Counting DEF Balance
  <2>3. /\ IsFiniteSet(Loose(d)') /\ Cardinality(Loose(d)') \in Nat
        /\ Cardinality(Loose(d)') <= Cardinality(Loose(d))
    BY <1>5, <2>2, Counting
  <2>4. CASE Holds(j)
    <3>1. Booked(d)'
      BY <1>2, <1>8, <2>4 DEF Booked
    <3>2. ~Booked(d)
      <4>1. \A i \in Scheduled : Holds(i) => i = j
        BY <2>4, OnePerProcess DEF Holds
      <4>2. DayOf(j) \in Nat /\ ~(d < DayOf(j))
        BY <1>8, Constants DEF Days, DayOf, TypeOK, JobsOK, Locals
      <4> QED BY <1>4, <2>4, <4>1, <4>2 DEF Booked
    <3> QED BY <1>1, <2>1, <2>2, <2>3, <3>1, <3>2 DEF Balance
  <2>5. CASE ~Holds(j)
    <3>1. j \in Loose(d) /\ j \notin Loose(d)'
      BY <1>2, <1>8, <2>5 DEF Loose, Begun
    <3>2. Cardinality(Loose(d)') + 1 <= Cardinality(Loose(d))
      BY <1>5, <2>2, <3>1, Counting
    <3> QED BY <1>1, <1>6, <2>1, <2>2, <2>3, <3>2 DEF Balance
  <2> QED BY <2>4, <2>5
<1> QED BY <1>7, <1>8

\* The lock is taken, and the due job is looked at once more under it.
LEMMA BalanceLock ==
  ASSUME Dialect = "postgresql", TypeOK, TypeOK', NEW d \in Days, Balance(d), NEW j \in Jobs,
         TryLock(j)
  PROVE  Balance(d)'
<1> USE DEF restore, record, settings, files
<1>1. /\ pc \in [Jobs -> Steps] /\ local \in [Jobs -> Locals] /\ j \in Scheduled
  BY DEF TypeOK, JobsOK, TryLock
<1>2. /\ pc[j] = "due" /\ lock' = IF lock = Never THEN Process(j) ELSE lock
      /\ pc' = [pc EXCEPT ![j] = IF lock = Never THEN "locked" ELSE "idle"]
      /\ \A i \in Jobs \ {j} : local'[i] = local[i]
      /\ UNCHANGED <<last_run, restoring, spent, hist>>
  BY <1>1 DEF TryLock
<1>3. \A i \in Scheduled \ {j} : Stays(i) /\ pc'[i] = pc[i] /\ DayOf(i)' = DayOf(i)
  BY <1>1, <1>2, Constants DEF Stays, DayOf
<1>4. Pending' = Pending /\ Pending \in 0..2 /\ hist.lost[d] \in Nat
  BY <1>2, Amounts DEF Pending
<1>5. CASE lock # Never
  <2>1. pc'[j] \notin Committed /\ pc[j] \notin Begun
    BY <1>1, <1>2, <1>5 DEF Committed, Attempting, Begun
  <2>2. lock' = lock
    BY <1>2, <1>5
  <2> QED BY <1>1, <1>2, <1>3, <1>4, <2>1, <2>2, Drops
<1>6. CASE lock = Never
  <2>1. pc'[j] = "locked" /\ lock' = Process(j)
    BY <1>1, <1>2, <1>6
  <2>2. \A i \in Scheduled : ~Holds(i) /\ (Holds(i)' => i = j)
    BY <1>1, <1>6, <2>1, Constants, OnePerProcess DEF Holds
  <2>3. Loose(d)' \subseteq Loose(d)
    BY <1>3, <2>1, <2>2 DEF Loose, Holds
  <2>4. Booked(d) => Booked(d)'
    BY <1>2, <2>1, <2>2 DEF Booked, OnRecord, Attempting, Begun
  <2> QED BY <1>2, <1>4, <2>3, <2>4, BalanceFrame
<1> QED BY <1>5, <1>6

LEMMA BalanceRecheck ==
  ASSUME TypeOK, TypeOK', NEW d \in Days, Balance(d), NEW j \in Jobs, Recheck(j)
  PROVE  Balance(d)'
<1> USE DEF restore, record, settings, files
<1>1. /\ pc \in [Jobs -> Steps] /\ local \in [Jobs -> Locals] /\ j \in Scheduled
      /\ last_run \in Times \cup {Never}
  BY DEF TypeOK, JobsOK, SettingsOK, Recheck
<1>2. /\ pc[j] = "locked"
      /\ pc' = [pc EXCEPT ![j] = IF IsDue(local[j].at, local[j].hour, last_run) THEN "start" ELSE "unlock"]
      /\ UNCHANGED <<local, lock, last_run, restoring, spent, hist>>
  BY DEF Recheck
<1>3. \A i \in Scheduled \ {j} : Stays(i) /\ pc'[i] = pc[i] /\ DayOf(i)' = DayOf(i)
  BY <1>1, <1>2, Constants DEF Stays, DayOf
<1>4. Pending' = Pending /\ Pending \in 0..2 /\ hist.lost[d] \in Nat
  BY <1>2, Amounts DEF Pending
<1>5. CASE ~IsDue(local[j].at, local[j].hour, last_run)
  <2>1. pc'[j] \notin Committed /\ pc[j] \notin Begun
    BY <1>1, <1>2, <1>5 DEF Committed, Attempting, Begun
  <2> QED BY <1>1, <1>2, <1>3, <1>4, <2>1, Drops
<1>6. CASE IsDue(local[j].at, local[j].hour, last_run)
  <2>1. pc'[j] = "start" /\ \A i : Holds(i)' <=> Holds(i)
    BY <1>1, <1>2, <1>6 DEF Holds
  <2>2. Loose(d)' \subseteq Loose(d)
    BY <1>2, <1>3, <2>1 DEF Loose, Begun
  <2>3. last_run # Never => Day(last_run) < DayOf(j)
    BY <1>6 DEF IsDue, DayOf
  <2>4. ASSUME Booked(d) PROVE Booked(d)'
    <3>1. CASE \E i \in Scheduled : Holds(i) /\ pc[i] \in Begun /\ DayOf(i) = d
      BY <1>2, <1>3, <2>1, <3>1 DEF Booked, Begun
    <3>2. CASE OnRecord(d) /\ \A i \in Scheduled : Holds(i) /\ pc[i] \in Attempting => d < DayOf(i)
      <4>1. d < DayOf(j)
        <5>1. last_run # Never /\ Day(last_run) >= d /\ Day(last_run) \in Nat /\ d \in Nat
          BY <1>1, <3>2, Constants DEF OnRecord, Days
        <5>2. DayOf(j) \in Nat
          BY <1>1, Constants DEF DayOf, Locals
        <5> QED BY <2>3, <5>1, <5>2
      <4>2. DayOf(j)' = DayOf(j)
        BY <1>2 DEF DayOf
      <4>3. OnRecord(d)'
        BY <1>2, <3>2 DEF OnRecord
      <4>4. \A i \in Scheduled : Holds(i)' /\ pc'[i] \in Attempting => d < DayOf(i)'
        BY <1>3, <2>1, <3>2, <4>1, <4>2
      <4> QED BY <4>3, <4>4 DEF Booked
    <3> QED BY <2>4, <3>1, <3>2 DEF Booked
  <2> QED BY <1>2, <1>4, <2>2, <2>4, BalanceFrame
<1> QED BY <1>5, <1>6

\* What a restore, or a job that has lost the lock, was counted for happens.
LEMMA BalancePays ==
  ASSUME TypeOK, TypeOK', NEW d \in Days, Balance(d), NEW j,
         hist'.attempts[d] = hist.attempts[d], hist'.lost[d] = hist.lost[d],
         spent'.restore = spent.restore,
         \/ Pending' + 1 <= Pending /\ Loose(d)' \subseteq Loose(d)
         \/ Pending' + 1 <= Pending /\ Loose(d)' \subseteq Loose(d) \cup {j} /\ (Booked(d) => Booked(d)')
         \/ Pending' <= Pending /\ j \in Loose(d) /\ Loose(d)' \subseteq Loose(d) \ {j}
  PROVE  Balance(d)'
<1>1. /\ hist.attempts[d] \in Nat /\ hist.lost[d] \in Nat /\ spent.restore \in Nat
      /\ Pending \in 0..2 /\ Pending' \in 0..2
  BY Amounts DEF Pending
<1>2. /\ IsFiniteSet(Loose(d)) /\ Cardinality(Loose(d)) \in Nat
      /\ hist.attempts[d] + Cardinality(Loose(d)) + Pending
           <= hist.lost[d] + 2 * spent.restore + (IF Booked(d) THEN 1 ELSE 0)
  BY Counting DEF Balance
<1>3. ASSUME Cardinality(Loose(d)') \in Int, IsFiniteSet(Loose(d)'),
             \/ Cardinality(Loose(d)') + Pending' + 1 <= Cardinality(Loose(d)) + Pending
             \/ /\ Cardinality(Loose(d)') + Pending' <= Cardinality(Loose(d)) + Pending
                /\ Booked(d) => Booked(d)'
      PROVE  Balance(d)'
  <2>1. ASSUME NEW a \in Int, NEW b \in Int, NEW c \in Int, NEW e \in Int, NEW x \in Int, NEW y \in Int,
               NEW u \in {0, 1}, NEW v \in {0, 1}, c + e + 1 <= x + y \/ (c + e <= x + y /\ u <= v),
               a + x + y <= b + u
        PROVE  a + c + e <= b + v
    BY <2>1
  <2>2. hist.lost[d] + 2 * spent.restore \in Int
    BY <1>1
  <2> DEFINE u == IF Booked(d) THEN 1 ELSE 0
             v == IF Booked(d)' THEN 1 ELSE 0
  <2>3. u \in {0, 1} /\ v \in {0, 1} /\ ((Booked(d) => Booked(d)') => u <= v)
    OBVIOUS
  <2>4. hist.attempts[d] + Cardinality(Loose(d)) + Pending <= (hist.lost[d] + 2 * spent.restore) + u
    BY <1>2
  <2> HIDE DEF u, v
  <2>5. \/ Cardinality(Loose(d)') + Pending' + 1 <= Cardinality(Loose(d)) + Pending
        \/ Cardinality(Loose(d)') + Pending' <= Cardinality(Loose(d)) + Pending /\ u <= v
    BY Zenon, <1>3, <2>3
  <2>6. Cardinality(Loose(d)) \in Int /\ Pending \in Int /\ Pending' \in Int /\ hist.attempts[d] \in Int
    BY <1>1, <1>2
  <2>7. hist.attempts[d] + Cardinality(Loose(d)') + Pending' <= (hist.lost[d] + 2 * spent.restore) + v
    BY <1>3, <2>1, <2>2, <2>3, <2>4, <2>5, <2>6
  <2>8. hist'.attempts[d] + Cardinality(Loose(d)') + Pending' <= hist'.lost[d] + 2 * spent'.restore + v
    BY <2>7
  <2> QED BY <1>3, <2>8 DEF Balance, v
<1>4. ASSUME NEW a \in Int, NEW b \in Int, NEW x \in Int, NEW y \in Int
      PROVE  /\ a <= b /\ x + 1 <= y => a + x + 1 <= b + y
             /\ a <= b + 1 /\ x + 1 <= y => a + x <= b + y
             /\ a + 1 <= b /\ x <= y => a + x + 1 <= b + y
  OBVIOUS
<1>5. Pending \in Int /\ Pending' \in Int /\ Cardinality(Loose(d)) \in Int
  BY <1>1, <1>2
<1>6. CASE Pending' + 1 <= Pending /\ Loose(d)' \subseteq Loose(d)
  <2>1. /\ IsFiniteSet(Loose(d)') /\ Cardinality(Loose(d)') \in Int
        /\ Cardinality(Loose(d)') <= Cardinality(Loose(d))
    BY <1>2, <1>6, Counting
  <2>2. Cardinality(Loose(d)') + Pending' + 1 <= Cardinality(Loose(d)) + Pending
    BY <1>4, <1>5, <1>6, <2>1
  <2> QED BY <1>3, <2>1, <2>2
<1>7. CASE Pending' + 1 <= Pending /\ Loose(d)' \subseteq Loose(d) \cup {j} /\ (Booked(d) => Booked(d)')
  <2>1. /\ IsFiniteSet(Loose(d)') /\ Cardinality(Loose(d)') \in Int
        /\ Cardinality(Loose(d)') <= Cardinality(Loose(d)) + 1
    <3>1. IsFiniteSet(Loose(d)) /\ Loose(d)' \subseteq Loose(d) \cup {j}
      BY <1>2, <1>7
    <3>2. \A T : T \subseteq Loose(d) \cup {j} =>
            IsFiniteSet(T) /\ Cardinality(T) \in Nat /\ Cardinality(T) <= Cardinality(Loose(d)) + 1
      BY <3>1, Counting
    <3> QED BY <3>1, <3>2
  <2>2. Cardinality(Loose(d)') + Pending' <= Cardinality(Loose(d)) + Pending
    BY <1>4, <1>5, <1>7, <2>1
  <2> QED BY <1>3, <1>7, <2>1, <2>2
<1>8. CASE Pending' <= Pending /\ j \in Loose(d) /\ Loose(d)' \subseteq Loose(d) \ {j}
  <2>1. /\ IsFiniteSet(Loose(d)') /\ Cardinality(Loose(d)') \in Int
        /\ Cardinality(Loose(d)') + 1 <= Cardinality(Loose(d))
    <3>1. IsFiniteSet(Loose(d)) /\ j \in Loose(d) /\ Loose(d)' \subseteq Loose(d) \ {j}
      BY <1>2, <1>8
    <3>2. /\ IsFiniteSet(Loose(d)') /\ Cardinality(Loose(d)') \in Nat
          /\ Cardinality(Loose(d)') + 1 <= Cardinality(Loose(d))
      BY <3>1, Counting
    <3> QED BY <3>2
  <2>2. Cardinality(Loose(d)') + Pending' + 1 <= Cardinality(Loose(d)) + Pending
    BY <1>4, <1>5, <1>8, <2>1
  <2> QED BY <1>3, <2>1, <2>2
<1> QED BY <1>6, <1>7, <1>8

LEMMA BalancePersist ==
  ASSUME TypeOK, TypeOK', NEW d \in Days, Balance(d), NEW j \in Jobs, PersistRun(j)
  PROVE  Balance(d)'
<1> USE DEF restore, record, settings, files
<1>1. /\ pc \in [Jobs -> Steps] /\ local \in [Jobs -> Locals] /\ j \in Scheduled
      /\ local[j].at \in Times /\ d \in Nat /\ DayOf(j) \in Nat
  BY Constants DEF TypeOK, JobsOK, PersistRun, Locals, Days, DayOf
<1>2. /\ pc[j] = "persist_run" /\ last_run' = local[j].at
      /\ pc' = [pc EXCEPT ![j] = "persist_status"]
      /\ UNCHANGED <<local, lock, restoring, spent, hist>>
  BY DEF PersistRun
<1>3. \A i \in Scheduled \ {j} : pc'[i] = pc[i]
  BY <1>1, <1>2, Constants
<1>4. Pending' = Pending /\ Pending \in 0..2 /\ hist.lost[d] \in Nat
  BY <1>2, Amounts DEF Pending
<1>5. pc[j] \in Begun /\ pc'[j] \notin Committed /\ pc[j] \in Attempting
  BY <1>1, <1>2 DEF Committed, Attempting, Begun
<1>6. \A i : (Holds(i)' <=> Holds(i)) /\ DayOf(i)' = DayOf(i)
  BY <1>2 DEF Holds, DayOf
<1>7. Loose(d)' \subseteq Loose(d) \ {j}
  BY <1>3, <1>5, <1>6 DEF Loose, Committed, Attempting
<1>8. OnRecord(d)' <=> DayOf(j) >= d
  BY <1>1, <1>2, Constants DEF OnRecord, DayOf
<1>9. CASE Holds(j)
  <2>1. \A i \in Scheduled : Holds(i) => i = j
    BY <1>1, <1>9, OnePerProcess DEF Holds
  <2>2. Booked(d) => d <= DayOf(j)
    BY <1>1, <1>5, <1>9, <2>1 DEF Booked
  <2>3. d <= DayOf(j) => Booked(d)'
    BY <1>1, <1>5, <1>6, <1>8, <2>1 DEF Booked, Committed
  <2> QED BY <1>2, <1>4, <1>7, <2>2, <2>3, BalanceFrame
<1>10. CASE ~Holds(j) /\ DayOf(j) # d
  <2>1. j \in Loose(d)
    BY <1>1, <1>5, <1>10 DEF Loose
  <2> QED BY <1>2, <1>4, <1>7, <2>1, BalancePays
<1>11. CASE ~Holds(j) /\ DayOf(j) = d
  <2>1. OnRecord(d)'
    BY <1>1, <1>8, <1>11
  <2>2. ASSUME NEW i \in Scheduled, Holds(i), pc[i] \in Begun, DayOf(i) = d PROVE Booked(d)'
    BY <1>3, <1>6, <1>11, <2>2 DEF Booked
  <2>3. ASSUME \A i \in Scheduled : Holds(i) /\ pc[i] \in Attempting => d < DayOf(i)
        PROVE  Booked(d)'
    BY <1>3, <1>6, <1>11, <2>1, <2>3 DEF Booked
  <2>4. Booked(d) => Booked(d)'
    BY <2>2, <2>3 DEF Booked
  <2> QED BY <1>2, <1>4, <1>7, <2>4, BalanceFrame
<1> QED BY <1>9, <1>10, <1>11

LEMMA BalanceTerminate ==
  ASSUME Dialect = "postgresql", TypeOK, TypeOK', NEW d \in Days, Balance(d), Terminate
  PROVE  Balance(d)'
<1> USE DEF restore, record, settings, files
<1>1. /\ restoring.step = "terminate" /\ restoring'.step = "load" /\ lock' = Never
      /\ UNCHANGED <<pc, local, last_run, spent, hist>>
  <2>1. restoring.step = "terminate" /\ restoring' = [restoring EXCEPT !.step = "load"]
    BY DEF Terminate
  <2>2. restoring'.step = "load"
    BY <2>1 DEF TypeOK, FilesOK
  <2> QED BY <2>1, <2>2 DEF Terminate
<1>2. Pending = 2 /\ Pending' = 1 /\ hist.lost[d] \in Nat
  BY <1>1, Amounts DEF Pending
<1>3. \A i : DayOf(i)' = DayOf(i)
  BY <1>1 DEF DayOf
<1>4. \A i \in Scheduled : ~Holds(i)'
  BY <1>1, Constants DEF Holds
<1>5. OnRecord(d) => Booked(d)'
  BY <1>1, <1>4 DEF OnRecord, Booked
<1>6. CASE \A i \in Scheduled : ~Holds(i)
  <2>1. Loose(d)' \subseteq Loose(d)
    BY <1>1, <1>3, <1>6 DEF Loose
  <2> QED BY <1>1, <1>2, <2>1, BalancePays
<1>7. ASSUME NEW h \in Scheduled, Holds(h) PROVE Balance(d)'
  <2>1. \A i \in Scheduled : Holds(i) => i = h
    BY <1>7, OnePerProcess DEF Holds
  <2>2. Loose(d)' \subseteq Loose(d) \cup {h}
    BY <1>1, <1>3, <2>1 DEF Loose
  <2>3. CASE pc[h] \in Begun /\ DayOf(h) = d
    <3>1. h \notin Loose(d)'
      BY <1>1, <1>3, <2>3 DEF Loose, Begun
    <3>2. Loose(d)' \subseteq Loose(d)
      BY <2>2, <3>1
    <3> QED BY <1>1, <1>2, <3>2, BalancePays
  <2>4. CASE ~(pc[h] \in Begun /\ DayOf(h) = d)
    <3>1. Booked(d) => OnRecord(d)
      BY <2>1, <2>4 DEF Booked
    <3> QED BY <1>1, <1>2, <1>5, <2>2, <3>1, BalancePays
  <2> QED BY <2>3, <2>4
<1> QED BY <1>6, <1>7

LEMMA BalanceAsk ==
  ASSUME TypeOK, TypeOK', NEW d \in Days, Balance(d), NEW p \in WebProcs, AskRestore(p)
  PROVE  Balance(d)'
<1> USE DEF restore, record, settings, files
<1>1. /\ restoring = NoRestore /\ Spend("restore") /\ restoring'.step = "validate"
      /\ UNCHANGED <<pc, local, lock, last_run, hist>>
  BY DEF AskRestore
<1>2. spent'.restore = spent.restore + 1
  BY <1>1, Spends DEF TypeOK, Kinds
<1>3. Pending = 0 /\ Pending' = 2
  BY <1>1 DEF Pending, NoRestore
<1>4. /\ hist.attempts[d] \in Nat /\ hist.lost[d] \in Nat /\ spent.restore \in Nat
  BY Amounts
<1>5. Loose(d)' = Loose(d) /\ (Booked(d)' <=> Booked(d))
  BY <1>1 DEF Loose, Booked, Holds, DayOf, OnRecord
<1>6. /\ IsFiniteSet(Loose(d)) /\ Cardinality(Loose(d)) \in Nat
      /\ hist.attempts[d] + Cardinality(Loose(d)) + Pending
           <= hist.lost[d] + 2 * spent.restore + (IF Booked(d) THEN 1 ELSE 0)
  BY Counting DEF Balance
<1>7. hist.attempts[d] + Cardinality(Loose(d)) + 2
        <= hist.lost[d] + 2 * (spent.restore + 1) + (IF Booked(d) THEN 1 ELSE 0)
  BY <1>3, <1>4, <1>6
<1> QED BY <1>1, <1>2, <1>3, <1>5, <1>6, <1>7 DEF Balance

LEMMA BalanceInit == Init => BalanceInv
<1> SUFFICES ASSUME Init, NEW d \in Days PROVE Balance(d)
  BY DEF BalanceInv
<1>1. /\ hist.attempts[d] = 0 /\ hist.lost[d] = 0 /\ spent.restore = 0
      /\ restoring.step = "none" /\ \A j \in Scheduled : pc[j] = "idle"
  BY Constants DEF Init, NoRestore, Kinds
<1>2. Pending = 0 /\ Loose(d) = {}
  BY <1>1 DEF Pending, Loose, Begun
<1>3. IsFiniteSet(Loose(d)) /\ Cardinality(Loose(d)) = 0
  BY <1>2, FS_EmptySet
<1> QED BY <1>1, <1>2, <1>3 DEF Balance

LEMMA BalanceStep ==
  ASSUME Dialect = "postgresql", TypeOK, TypeOK', BalanceInv, [Next]_vars
  PROVE  BalanceInv'
<1> SUFFICES ASSUME NEW d \in Days PROVE Balance(d)'
  BY DEF BalanceInv
<1> USE DEF settings, record, files, restore
<1>0. /\ JobsOK /\ hist \in Histories /\ hist' \in Histories
      /\ pc \in [Jobs -> Steps] /\ local \in [Jobs -> Locals] /\ local' \in [Jobs -> Locals]
      /\ Balance(d)
  BY DEF TypeOK, JobsOK, BalanceInv
<1>1. /\ hist.lost \in [Days -> Nat] /\ hist.lost[d] \in Nat /\ Pending \in 0..2
      /\ hist.attempts \in [Days -> Nat]
  BY <1>0, Amounts DEF Histories
<1>2. UNCHANGED restoring => Pending' = Pending /\ Pending' <= Pending
  BY <1>1 DEF Pending
<1>3. ~(\E p \in WebProcs : AskRestore(p)) => spent'.restore = spent.restore
  BY SpentStep
\* Steps of which the balance knows nothing.
<1>4. ASSUME \A i \in Scheduled : Stays(i), UNCHANGED <<lock, last_run>>,
             hist'.attempts = hist.attempts, hist'.lost = hist.lost,
             Pending' <= Pending, spent'.restore = spent.restore
      PROVE  Balance(d)'
  BY <1>0, <1>1, <1>4, StaysAlike, BalanceFrame
<1>5. ASSUME NEW j \in Jobs,
             \/ Tick(j) \/ RunNow(j) \/ OpenPart(j) \/ Replace(j) \/ Glob(j) \/ List(j) \/ Unlink(j)
             \/ PersistStatus(j) \/ (j \in Manual /\ Begin(j))
      PROVE  Balance(d)'
  <2>1. hist'.attempts = hist.attempts /\ hist'.lost = hist.lost
    <3>1. CASE j \in Manual /\ Begin(j)
      <4>1. IsCounted(hist, Counted(hist, j), j) /\ j \notin Scheduled
        BY <1>0, <3>1, Counts, Constants
      <4>2. hist' = [Counted(hist, j) EXCEPT !.namers[now] = @ \cup {Process(j)}]
        BY <3>1 DEF Begin
      <4> QED BY <4>1, <4>2 DEF IsCounted, Histories
    <3>2. CASE ~(j \in Manual /\ Begin(j))
      BY <1>0, <1>5, <3>2 DEF Tick, RunNow, OpenPart, Replace, Glob, List, Unlink, PersistStatus, Histories
    <3> QED BY <3>1, <3>2
  <2>2. UNCHANGED <<restoring, last_run, lock>>
    BY <1>5 DEF Tick, RunNow, OpenPart, Replace, Glob, List, Unlink, PersistStatus, Begin
  <2>3. /\ \A i \in Jobs \ {j} : pc'[i] = pc[i] /\ local'[i] = local[i]
        /\ j \in Scheduled => Stays(j)
    <3>1. CASE Tick(j) \/ PersistStatus(j)
      BY <1>0, <3>1 DEF Tick, PersistStatus, Stays, Committed, Attempting, Begun
    <3>2. CASE RunNow(j) \/ (j \in Manual /\ Begin(j))
      BY <1>0, <3>2, Constants DEF RunNow, Begin
    <3>3. CASE Glob(j)
      <4>1. local'[j].at = local[j].at /\ \A i \in Jobs \ {j} : local'[i] = local[i]
        BY <1>0, <3>3 DEF Glob, Locals
      <4> QED BY <1>0, <3>3, <4>1 DEF Glob, Stays, DayOf, Begun
    <3>4. CASE OpenPart(j) \/ Replace(j) \/ List(j) \/ Unlink(j)
      BY <1>0, <3>4 DEF OpenPart, Replace, List, Unlink, Stays, DayOf, Begun
    <3> QED BY <1>5, <3>1, <3>2, <3>3, <3>4
  <2>4. \A i \in Scheduled : Stays(i)
    BY <2>3, Constants DEF Stays, DayOf
  <2>5. spent'.restore = spent.restore
    BY <1>0, <1>5, Spends 
    DEF TypeOK, Kinds, Tick, RunNow, OpenPart, Replace, Glob, List, Unlink, PersistStatus, Begin
  <2> QED BY <1>2, <1>4, <2>1, <2>2, <2>4, <2>5
<1>6. ASSUME NEW j \in Scheduled, Begin(j) PROVE Balance(d)'
  <2>1. /\ pc[j] = "start" /\ pc' = [pc EXCEPT ![j] = "dump"]
        /\ local' = [local EXCEPT ![j].name = now]
        /\ UNCHANGED <<restoring, last_run, lock, spent>>
    BY <1>6 DEF Begin
  <2>2. /\ hist'.attempts = [hist.attempts EXCEPT ![DayOf(j)] = hist.attempts[DayOf(j)] + 1]
        /\ hist'.lost = hist.lost
    <3>1. IsCounted(hist, Counted(hist, j), j)
      BY <1>0, Counts, Constants
    <3>2. hist' = [Counted(hist, j) EXCEPT !.namers[now] = @ \cup {Process(j)}]
      BY <1>6 DEF Begin
    <3> QED BY <3>1, <3>2 DEF IsCounted, Histories, DayOf
  <2>3. /\ pc'[j] \in Begun /\ DayOf(j)' = DayOf(j)
        /\ \A i \in Scheduled \ {j} : Stays(i)
    <3>1. local'[j].at = local[j].at /\ \A i \in Jobs \ {j} : local'[i] = local[i]
      BY <1>0, <2>1, Constants DEF Locals
    <3> QED BY <1>0, <2>1, <3>1, Constants DEF Begun, DayOf, Stays
  <2> QED BY <1>0, <1>2, <2>1, <2>2, <2>3, Attempts
<1>7. ASSUME NEW j \in Jobs, Exit(j) PROVE Balance(d)'
  <2>1. PICK result \in Results, leftover \in SUBSET Times : IsExit(j, result, leftover)
    BY <1>7, Exits
  <2>2. /\ \A i \in Jobs \ {j} : pc'[i] = pc[i] /\ local'[i] = local[i]
        /\ pc'[j] = IF j \notin Scheduled THEN "idle"
                    ELSE IF result = "broken" THEN "unlock" ELSE "persist_run"
        /\ j \in Scheduled /\ result # "broken" => local'[j].at = local[j].at
    BY <1>0, <2>1, Leaves DEF IsExit
  <2>3. /\ UNCHANGED <<restoring, last_run, lock>>
        /\ pc[j] \in InCreate \/ (pc[j] = "start" /\ result = "error")
        /\ hist'.attempts = IF j \in Scheduled /\ pc[j] = "start"
                            THEN [hist.attempts EXCEPT ![DayOf(j)] = hist.attempts[DayOf(j)] + 1]
                            ELSE hist.attempts
        /\ hist'.lost = IF j \in Scheduled /\ result = "broken"
                        THEN [hist.lost EXCEPT ![DayOf(j)] = hist.lost[DayOf(j)] + 1] ELSE hist.lost
    BY <2>1 DEF IsExit, DayOf
  <2>4. \A i \in Scheduled \ {j} : Stays(i)
    BY <2>2, Constants DEF Stays, DayOf
  <2>5. spent'.restore = spent.restore
    <3>1. spent' = spent \/ Spend("error") \/ Spend("fault")
      BY <1>7 DEF Exit, NoPassword, DumpFails, Fault, ZipFails, ListFails, Finish
    <3>2. spent \in [Kinds -> Nat]
      BY DEF TypeOK
    <3>3. ASSUME NEW k \in {"error", "fault"}, Spend(k) PROVE spent'.restore = spent.restore
      BY <3>2, <3>3, Spends DEF Kinds
    <3> QED BY <3>1, <3>3
  <2>6. CASE j \notin Scheduled
    <3>1. \A i \in Scheduled : Stays(i)
      BY <2>4, <2>6
    <3> QED BY <1>2, <1>4, <2>3, <2>5, <2>6, <3>1
  <2>7. CASE j \in Scheduled /\ result = "broken"
    <3>1. pc'[j] \notin Committed /\ pc[j] # "start"
      BY <2>2, <2>3, <2>7 DEF Committed, Attempting, Begun, InCreate
    <3>2. hist'.attempts = hist.attempts
      BY <2>3, <3>1
    <3>3. hist'.lost = [hist.lost EXCEPT ![DayOf(j)] = hist.lost[DayOf(j)] + 1]
      BY <2>3, <2>7
    <3>4. hist'.lost[d] >= hist.lost[d] /\ (DayOf(j) = d => hist'.lost[d] >= hist.lost[d] + 1)
      BY <1>1, <3>3
    <3> QED BY <1>0, <1>2, <2>3, <2>4, <2>5, <2>7, <3>1, <3>2, <3>4, Drops
  <2>8. CASE j \in Scheduled /\ result # "broken" /\ pc[j] = "start"
    <3>1. pc'[j] \in Begun /\ DayOf(j)' = DayOf(j) /\ hist'.lost = hist.lost
      BY <2>2, <2>3, <2>8 DEF Begun, DayOf
    <3> QED BY <1>0, <1>2, <2>3, <2>4, <2>5, <2>8, <3>1, Attempts
  <2>9. CASE j \in Scheduled /\ result # "broken" /\ pc[j] # "start"
    <3>1. Stays(j)
      BY <2>2, <2>3, <2>9 DEF Stays, Begun, InCreate, DayOf
    <3> QED BY <1>2, <1>4, <2>3, <2>4, <2>5, <2>9, <3>1
  <2> QED BY <2>6, <2>7, <2>8, <2>9
<1>8. ASSUME NEW j \in Jobs, Break(j) PROVE Balance(d)'
  <2>1. /\ pc[j] \in {"due", "locked", "start", "glob", "persist_run", "persist_status"}
        /\ pc'[j] \in {"idle", "unlock"}
        /\ \A i \in Jobs \ {j} : pc'[i] = pc[i] /\ local'[i] = local[i]
        /\ UNCHANGED <<restoring, last_run, lock, spent>>
    BY <1>0, <1>8 DEF Break
  <2>2. /\ hist'.attempts = hist.attempts
        /\ hist'.lost = IF j \in Scheduled /\ pc[j] \in {"glob", "persist_run"}
                        THEN [hist.lost EXCEPT ![DayOf(j)] = hist.lost[DayOf(j)] + 1] ELSE hist.lost
    BY <1>0, <1>8, BreakFields DEF DayOf
  <2>3. \A i \in Scheduled \ {j} : Stays(i)
    BY <2>1, Constants DEF Stays, DayOf
  <2>4. CASE j \notin Scheduled
    <3>1. \A i \in Scheduled : Stays(i)
      BY <2>3, <2>4
    <3> QED BY <1>2, <1>4, <2>1, <2>2, <2>4, <3>1
  <2>5. CASE j \in Scheduled
    <3>1. pc'[j] \notin Committed
      BY <2>1 DEF Committed, Attempting, Begun
    <3>2. /\ hist'.lost[d] >= hist.lost[d]
          /\ pc[j] \in Begun /\ DayOf(j) = d => hist'.lost[d] >= hist.lost[d] + 1
      BY <1>1, <2>1, <2>2, <2>5 DEF Begun
    <3> QED BY <1>0, <1>2, <2>1, <2>2, <2>3, <2>5, <3>1, <3>2, Drops
  <2> QED BY <2>4, <2>5
<1>9. ASSUME NEW j \in Jobs, Unlock(j) PROVE Balance(d)'
  <2>1. /\ j \in Scheduled /\ pc[j] = "unlock" /\ pc' = [pc EXCEPT ![j] = "idle"]
        /\ lock' = IF lock = Process(j) THEN Never ELSE lock
        /\ \A i \in Jobs \ {j} : local'[i] = local[i]
        /\ UNCHANGED <<restoring, last_run, spent, hist>>
    BY <1>0, <1>9 DEF Unlock, JobsOK
  <2>2. /\ \A i \in Scheduled \ {j} : Stays(i)
        /\ pc'[j] \notin Committed /\ pc[j] \notin Begun
    BY <1>0, <2>1, Constants DEF Stays, DayOf, Committed, Attempting, Begun
  <2>3. lock' = lock \/ (Holds(j) /\ lock' = Never)
    BY <2>1 DEF Holds
  <2> QED BY <1>0, <1>1, <1>2, <2>1, <2>2, <2>3, Drops
<1>10. ASSUME NEW p \in Procs, Crash(p) PROVE Balance(d)'
  <2> DEFINE s == <<p, "scheduled">>
  <2>1. /\ pc' = [j \in Jobs |-> IF j \in OfProcess(p) THEN "idle" ELSE pc[j]]
        /\ local' = [j \in Jobs |-> IF j \in OfProcess(p) THEN NoLocals ELSE local[j]]
        /\ restoring' = IF restoring.by = p /\ restoring.step # "load" THEN NoRestore ELSE restoring
        /\ lock' = IF lock = p THEN Never ELSE lock
        /\ last_run' = last_run /\ Spend("crash")
    BY <1>10 DEF Crash
  <2>2. /\ hist'.attempts = hist.attempts
        /\ hist'.lost = IF pc[s] \in Begun
                        THEN [hist.lost EXCEPT ![DayOf(s)] = hist.lost[DayOf(s)] + 1] ELSE hist.lost
    BY <1>0, <1>10, CrashFields DEF DayOf
  <2>3. s \in Scheduled /\ s \in Jobs /\ Process(s) = p
    BY Constants
  <2> HIDE DEF s
  <2>4. \A i \in Scheduled \ {s} : Stays(i)
    <3>1. \A i \in Scheduled \ {s} : i \in Jobs /\ i \notin OfProcess(p)
      BY <2>3, OnePerProcess, Constants DEF OfProcess
    <3> QED BY <2>1, <3>1 DEF Stays, DayOf
  <2>5. pc'[s] \notin Committed
    BY <2>1, <2>3 DEF Committed, Attempting, Begun, OfProcess
  <2>6. lock' = lock \/ (Holds(s) /\ lock' = Never)
    BY <2>1, <2>3 DEF Holds
  <2>7. Pending' <= Pending
    BY <1>1, <2>1 DEF Pending, NoRestore
  <2>8. /\ hist'.lost[d] >= hist.lost[d]
        /\ pc[s] \in Begun /\ DayOf(s) = d => hist'.lost[d] >= hist.lost[d] + 1
    BY <1>1, <2>2
  <2>9. spent'.restore = spent.restore
    BY <2>1, Spends DEF TypeOK, Kinds
  <2> QED BY <1>0, <2>1, <2>2, <2>3, <2>4, <2>5, <2>6, <2>7, <2>8, <2>9, Drops
<1>11. CASE Advance \/ Submit \/ StoreKey \/ Delete \/ Validate \/ UNCHANGED vars
  <2>1. UNCHANGED <<pc, local, lock, last_run>>
    BY <1>11 DEF Advance, Submit, StoreKey, Delete, Validate, vars
  <2>2. hist'.attempts = hist.attempts /\ hist'.lost = hist.lost
    BY <1>0, <1>11 DEF Advance, Submit, StoreKey, Delete, Validate, vars, Histories
  <2>3. Pending' <= Pending
    <3>1. CASE UNCHANGED restoring
      BY <1>2, <3>1
    <3>2. CASE Validate
      <4>1. restoring.step = "validate"
        BY <3>2 DEF Validate
      <4>2. Pending = 2 /\ Pending' \in 0..2
        BY <4>1 DEF Pending
      <4> QED BY <4>2
    <3> QED BY <1>11, <3>1, <3>2 DEF Advance, Submit, StoreKey, Delete, vars
  <2>4. \A i \in Scheduled : Stays(i)
    BY <2>1 DEF Stays, DayOf
  <2>5. spent'.restore = spent.restore
    <3>1. spent' = spent \/ Spend("save") \/ Spend("delete")
      BY <1>11 DEF Advance, Submit, StoreKey, Delete, Validate, vars
    <3>2. ASSUME NEW k \in {"save", "delete"}, Spend(k) PROVE spent'.restore = spent.restore
      BY <3>2, Spends DEF Kinds, TypeOK
    <3> QED BY <3>1, <3>2
  <2> QED BY <1>4, <2>1, <2>2, <2>3, <2>4, <2>5
<1>12. CASE Load \/ LoadFails
  <2>1. restoring.step = "load" /\ restoring' = NoRestore /\ UNCHANGED <<pc, local, lock, spent, hist>>
    BY <1>12 DEF Load, LoadFails
  <2>2. Pending' + 1 <= Pending
    BY <2>1 DEF Pending, NoRestore
  <2>3. Loose(d)' = Loose(d)
    BY <2>1 DEF Loose, Holds, DayOf
  <2> QED BY <1>0, <2>1, <2>2, <2>3, BalancePays
<1>13. CASE Terminate
  BY <1>0, <1>13, BalanceTerminate
<1>14. ASSUME NEW p \in WebProcs, AskRestore(p) PROVE Balance(d)'
  BY <1>0, <1>14, BalanceAsk
<1>15. ASSUME NEW j \in Jobs, TryLock(j) \/ Recheck(j) \/ PersistRun(j) PROVE Balance(d)'
  BY <1>0, <1>15, BalanceLock, BalanceRecheck, BalancePersist
<1>16. Jobs = Scheduled \cup Manual
  BY DEF Jobs
<1> QED BY <1>5, <1>6, <1>7, <1>8, <1>9, <1>10, <1>11, <1>12, <1>13, <1>14, <1>15, <1>16 DEF Next, Thread, Exit

(* One scheduled backup a day: is_backup_due, the advisory lock and the       *)
(* re-check under it let a day be attempted again only after an attempt that  *)
(* was lost before it was recorded, and a restore, which takes the lock from  *)
(* its holder and brings an older last run, costs at most two.                *)
THEOREM BackupOncePerDay ==
  ASSUME Dialect = "postgresql" PROVE Spec => []OncePerDay
<1>1. Init => TypeOK /\ BalanceInv
  BY TypeInit, BalanceInit
<1>2. TypeOK /\ BalanceInv /\ [Next]_vars => (TypeOK /\ BalanceInv)'
  BY TypeStep, BalanceStep
<1>3. TypeOK /\ BalanceInv => OncePerDay
  <2> SUFFICES ASSUME TypeOK, BalanceInv, NEW d \in Days
               PROVE  hist.attempts[d] <= 1 + hist.lost[d] + 2 * spent.restore
    BY DEF OncePerDay
  <2>1. /\ hist.attempts[d] \in Nat /\ hist.lost[d] \in Nat /\ spent.restore \in Nat
        /\ Pending \in 0..2
    BY Amounts
  <2>2. /\ Cardinality(Loose(d)) \in Nat
        /\ hist.attempts[d] + Cardinality(Loose(d)) + Pending
             <= hist.lost[d] + 2 * spent.restore + (IF Booked(d) THEN 1 ELSE 0)
    BY FS_CardinalityType DEF BalanceInv, Balance
  <2> QED BY <2>1, <2>2
<1> QED BY <1>1, <1>2, <1>3, PTL DEF Spec
=============================================================================
