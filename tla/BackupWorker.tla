---------------------------- MODULE BackupWorker ----------------------------
(* The daily backup of app/backup/worker.py, the archive written by           *)
(* app/backup/service.py and the administrator's "run now", "delete" and      *)
(* "restore" of app/backup/routes.py.                                         *)
(*                                                                            *)
(* Every gunicorn process runs a scheduler thread, and any of them may be     *)
(* asked for a manual backup by a request.  The processes share the           *)
(* app_config table (last run, last status, settings), the advisory lock      *)
(* 815002 and the backup directory; a process has one _create_lock.  The      *)
(* clock is a counter: one unit is both the second that names an archive and  *)
(* the hour the schedule looks at, DayLength units make a day.                *)
EXTENDS Integers, FiniteSets, Sequences, SequencesExt

CONSTANTS
    Procs,          \* the gunicorn processes
    WebProcs,       \* those that may serve a manual backup
    Dialect,        \* "postgresql" has the advisory lock, "sqlite" has not
    DayLength,      \* clock units in a day
    MaxTime,        \* the clock stops here
    Forms,          \* the scheduler settings an administrator may save
    FirstConfig,    \* the settings at the start
    MaxOf,          \* of each of the Kinds below, how many happen
    MaxTotal,       \* and of all together
    Never           \* no last run, no owner, no job

ASSUME ConstantsAssumption ==
    /\ WebProcs \subseteq Procs
    /\ Dialect \in {"postgresql", "sqlite"}
    /\ DayLength \in Nat \ {0} /\ MaxTime \in Nat
    /\ MaxTotal \in Nat
    /\ Never \notin Procs /\ Never \notin 0..MaxTime
    /\ Never \notin Procs \X {"scheduled", "manual"}

Times   == 0..MaxTime
Hours   == 0..(DayLength - 1)
Day(t)  == t \div DayLength
Hour(t) == t % DayLength
Days    == {Day(t) : t \in Times}
Configs == [enabled : BOOLEAN, hour : Hours, retention : Nat \ {0}]
Keys    == <<"enabled", "hour", "retention">>

ASSUME FormsAssumption == FirstConfig \in Configs /\ Forms \subseteq Configs

Scheduled == Procs \X {"scheduled"}
Manual    == WebProcs \X {"manual"}
Jobs      == Scheduled \cup Manual
Process(j) == j[1]
OfProcess(p) == {j \in Jobs : Process(j) = p}

VARIABLES
    now,            \* the clock
    config,         \* backup_enabled, backup_hour, backup_retention
    form,           \* the keys of a submitted form still to be stored
    submitted,      \* that form
    last_run,       \* backup_last_run_at
    last_status,    \* backup_last_status
    lock,           \* the process whose connection holds lock 815002
    create_lock,    \* per process, the job inside create_backup
    pc,             \* per job, the step it is at
    local,          \* per job, its Python locals
    zips,           \* archive -> [state: "whole", "torn" or "partial"; dump]
    parts,          \* unfinished archive -> [since, writers, dump]
    restoring,      \* the restore: [step, by: a process, from: what was uploaded]
    severed,        \* jobs whose database connection was terminated
    spent,          \* what the bounds have left behind them
    hist            \* history: what happened, read by the properties only

settings == <<config, form, submitted>>
record   == <<last_run, last_status>>
files    == <<zips, parts>>
restore  == <<restoring, severed>>
vars     == <<now, settings, record, lock, create_lock, pc, local, files, restore, spent, hist>>

(* What is bounded: settings forms, manual backups, archives deleted by hand, *)
(* restores, BackupErrors, other exceptions (a full disk), dead processes     *)
(* (gunicorn kills one whose request takes 120 s).                            *)
Kinds == {"save", "manual", "delete", "restore", "error", "fault", "crash"}

ASSUME BoundsAssumption == MaxOf \in [Kinds -> Nat]

Spend(kind) ==
    /\ spent[kind] < MaxOf[kind]
    /\ MapThenSumSet(LAMBDA k : spent[k], Kinds) < MaxTotal
    /\ spent' = [spent EXCEPT ![kind] = @ + 1]

Without(f, S) == [n \in DOMAIN f \ S |-> f[n]]
With(f, n, v) == [m \in DOMAIN f \cup {n} |-> IF m = n THEN v ELSE f[m]]

NoLocals == [at |-> 0, hour |-> 0, name |-> 0, keep |-> 1, seen |-> {}, outcome |-> "none"]

(* What a restore brings back: the rows of app_config; remembered as long as  *)
(* the bounds leave a restore.                                                *)
Database  == IF spent.restore < MaxOf.restore
             THEN [config |-> config, last_run |-> last_run, last_status |-> last_status]
             ELSE << >>
NoRestore == [step |-> "none", by |-> Never, from |-> << >>]

(* is_backup_due: past the hour, and the last attempt is not of this day.     *)
IsDue(t, hour, last) == Hour(t) >= hour /\ (last # Never => Day(last) < Day(t))

Init ==
    /\ now = 0 /\ config = FirstConfig /\ form = <<>> /\ submitted = FirstConfig
    /\ last_run = Never /\ last_status = "none"
    /\ lock = Never /\ create_lock = [p \in Procs |-> Never]
    /\ pc = [j \in Jobs |-> "idle"]
    /\ local = [j \in Jobs |-> NoLocals]
    /\ zips = << >> /\ parts = << >>
    /\ restoring = NoRestore /\ severed = {}
    /\ spent = [k \in Kinds |-> 0]
    /\ hist = [attempts |-> [d \in Days |-> 0], lost |-> [d \in Days |-> 0],
               ended |-> [d \in Days |-> "none"],
               half |-> FALSE, made |-> [n \in Times |-> 0], deleted |-> {},
               unpruned |-> {},
               namers |-> [n \in Times |-> {}]]

-----------------------------------------------------------------------------
(* The world: the clock, the administrator's settings form and delete button. *)

Advance ==
    /\ now < MaxTime /\ now' = now + 1
    /\ UNCHANGED <<settings, record, restore, lock, create_lock, pc, local, files, spent, hist>>

(* config_save: AppConfig.set commits each key on its own.                    *)
Submit ==
    /\ form = <<>>
    /\ Spend("save")
    /\ submitted' \in Forms /\ form' = Keys
    /\ UNCHANGED <<now, config, record, restore, lock, create_lock, pc, local, files, hist>>

StoreKey ==
    /\ form # <<>>
    /\ config' = [config EXCEPT ![Head(form)] = submitted[Head(form)]]
    /\ form' = Tail(form)
    /\ UNCHANGED <<now, submitted, record, restore, lock, create_lock, pc, local, files, spent, hist>>

Delete ==
    /\ Spend("delete")
    /\ \E n \in DOMAIN zips :
         /\ zips' = Without(zips, {n})
         /\ hist' = [hist EXCEPT !.deleted = @ \cup {n}]
    /\ UNCHANGED <<now, settings, restore, record, lock, create_lock, pc, local, parts>>

-----------------------------------------------------------------------------
(* _backup_loop and _run_locked.                                              *)

(* The loop reads the settings and the clock; the instant it read goes with   *)
(* the job from here on.                                                      *)
Tick(j) ==
    /\ j \in Scheduled /\ pc[j] = "idle"
    /\ config.enabled /\ IsDue(now, config.hour, last_run)
    /\ local' = [local EXCEPT ![j].at = now, ![j].hour = config.hour]
    /\ pc' = [pc EXCEPT ![j] = "due"]
    /\ UNCHANGED <<now, settings, restore, record, lock, create_lock, files, spent, hist>>

(* pg_try_advisory_lock: the one who does not get it gives the tick up.       *)
(* SQLite has no lock and no re-check.                                        *)
TryLock(j) ==
    /\ pc[j] = "due" /\ j \notin severed
    /\ IF Dialect = "postgresql"
       THEN /\ lock' = IF lock = Never THEN Process(j) ELSE lock
            /\ pc' = [pc EXCEPT ![j] = IF lock = Never THEN "locked" ELSE "idle"]
            /\ local' = [local EXCEPT ![j] = IF lock = Never THEN @ ELSE NoLocals]
       ELSE /\ pc' = [pc EXCEPT ![j] = "start"]
            /\ UNCHANGED <<lock, local>>
    /\ UNCHANGED <<now, settings, restore, record, create_lock, files, spent, hist>>

(* Mutant of Recheck: no second look at last_run.                              *)
RecheckNothing(j) ==
    /\ pc[j] = "locked" /\ j \notin severed
    /\ pc' = [pc EXCEPT ![j] = "start"]
    /\ UNCHANGED <<now, settings, restore, record, lock, create_lock, local, files, spent, hist>>

(* The re-check under the lock, with the instant and the hour of the tick.    *)
Recheck(j) ==
    /\ pc[j] = "locked" /\ j \notin severed
    /\ pc' = [pc EXCEPT ![j] = IF IsDue(local[j].at, local[j].hour, last_run) THEN "start" ELSE "unlock"]
    /\ UNCHANGED <<now, settings, restore, record, lock, create_lock, local, files, spent, hist>>

(* run_now: a request asks for a backup.                                      *)
RunNow(j) ==
    /\ j \in Manual /\ pc[j] = "idle"
    /\ Spend("manual")
    /\ pc' = [pc EXCEPT ![j] = "start"]
    /\ UNCHANGED <<now, settings, restore, record, lock, create_lock, local, files, hist>>

-----------------------------------------------------------------------------
(* create_backup.                                                             *)

(* How create_backup is left: the process lock goes, a manual job is over, a  *)
(* scheduled one has its outcome recorded, unless an exception other than     *)
(* BackupError flies through _run_backup_and_notify to the loop.              *)
Leave(j, result) ==
    /\ create_lock' = [create_lock EXCEPT ![Process(j)] = Never]
    /\ severed' = severed \ {j}
    /\ local' = [local EXCEPT ![j] = IF j \in Scheduled /\ result # "broken"
                                     THEN [NoLocals EXCEPT !.at = local[j].at, !.outcome = result]
                                     ELSE NoLocals]
    /\ pc' = [pc EXCEPT ![j] = IF j \in Manual THEN "idle"
                               ELSE IF result = "broken" THEN "unlock" ELSE "persist_run"]

(* The history of that exit; _leftover_ is an archive nobody pruned after.    *)
Noted(h, j, result, leftover) ==
    LET d == Day(local[j].at)
        g == [h EXCEPT !.unpruned = @ \cup leftover]
    IN  IF j \in Manual THEN g
        ELSE IF result = "broken"
        THEN [g EXCEPT !.lost[d] = @ + 1]
        ELSE [g EXCEPT !.ended[d] = result]

Counted(h, j) == IF j \in Scheduled THEN [h EXCEPT !.attempts[Day(local[j].at)] = @ + 1] ELSE h

(* Under _create_lock the zip password is there and the second names the      *)
(* archive ...                                                                *)
Begin(j) ==
    /\ pc[j] = "start" /\ create_lock[Process(j)] = Never /\ j \notin severed
    /\ create_lock' = [create_lock EXCEPT ![Process(j)] = j]
    /\ local' = [local EXCEPT ![j].name = now]
    /\ hist' = [Counted(hist, j) EXCEPT !.namers[now] = @ \cup {Process(j)}]
    /\ pc' = [pc EXCEPT ![j] = "dump"]
    /\ UNCHANGED <<now, settings, restore, record, lock, files, spent>>

(* ... or it is not, and nothing is written.                                  *)
NoPassword(j) ==
    /\ pc[j] = "start" /\ create_lock[Process(j)] = Never /\ j \notin severed
    /\ Spend("error")
    /\ Leave(j, "error")
    /\ hist' = Noted(Counted(hist, j), j, "error", {})
    /\ UNCHANGED <<now, settings, restoring, record, lock, files>>

(* Mutant of OpenPart: the zip is written straight under its final name.      *)
OpenFinal(j) ==
    /\ pc[j] = "dump"
    /\ zips' = With(zips, local[j].name, [state |-> "partial", dump |-> Database])
    /\ parts' = With(parts, local[j].name, [since |-> now, writers |-> {j}, dump |-> Database])
    /\ pc' = [pc EXCEPT ![j] = "zip"]
    /\ UNCHANGED <<now, settings, restore, record, lock, create_lock, local, spent, hist>>

(* The dump and the manifest are done, the .part file is opened: over what a  *)
(* dead process left, or over what another process is writing under the same  *)
(* name, which spoils both.                                                   *)
OpenPart(j) ==
    /\ pc[j] = "dump"
    /\ LET n == local[j].name
           others == IF n \in DOMAIN parts THEN {i \in parts[n].writers : pc[i] = "zip"} ELSE {}
       IN  parts' = With(parts, n, [since |-> now, writers |-> {j} \cup others, dump |-> Database])
    /\ pc' = [pc EXCEPT ![j] = "zip"]
    /\ UNCHANGED <<now, settings, restore, record, lock, create_lock, local, zips, spent, hist>>

DumpFails(j) ==
    /\ pc[j] = "dump"
    /\ IF j \in severed THEN UNCHANGED spent ELSE Spend("error")
    /\ Leave(j, "error")
    /\ hist' = Noted(hist, j, "error", {})
    /\ UNCHANGED <<now, settings, restoring, record, lock, files>>

(* An exception create_backup does not turn into a BackupError: the disk is   *)
(* full when the manifest is written.                                         *)
Fault(j) ==
    /\ pc[j] = "dump"
    /\ IF j \in severed THEN UNCHANGED spent ELSE Spend("fault")
    /\ Leave(j, "broken")
    /\ hist' = Noted(hist, j, "broken", {})
    /\ UNCHANGED <<now, settings, restoring, record, lock, files>>

(* The zip fails, or is complete and finds no .part to rename because another *)
(* process with the same name renamed it: the .part is unlinked.              *)
ZipFails(j) ==
    /\ pc[j] = "zip"
    /\ IF local[j].name \in DOMAIN parts THEN Spend("error") ELSE UNCHANGED spent
    /\ parts' = Without(parts, {local[j].name})
    /\ Leave(j, "error")
    /\ hist' = Noted(hist, j, "error", {})
    /\ UNCHANGED <<now, settings, restoring, record, lock, zips>>

(* os.replace(part, final).                                                   *)
Replace(j) ==
    /\ pc[j] = "zip" /\ local[j].name \in DOMAIN parts
    /\ zips' = With(zips, local[j].name,
                   [state |-> IF parts[local[j].name].writers = {j} THEN "whole" ELSE "torn",
                    dump  |-> parts[local[j].name].dump])
    /\ parts' = Without(parts, {local[j].name})
    /\ hist' = [hist EXCEPT !.made[local[j].name] = @ + 1]
    /\ pc' = [pc EXCEPT ![j] = "glob"]
    /\ UNCHANGED <<now, settings, restore, record, lock, create_lock, local, spent>>

(* prune_backups: the names, then their sizes (a file that has gone in the    *)
(* meantime is an OSError nobody catches), then the removals, which ignore    *)
(* errors.  The retention was read before.                                    *)
Glob(j) ==
    /\ pc[j] = "glob" /\ j \notin severed
    /\ local' = [local EXCEPT ![j].keep = config.retention, ![j].seen = DOMAIN zips]
    /\ pc' = [pc EXCEPT ![j] = "list"]
    /\ UNCHANGED <<now, settings, restore, record, lock, create_lock, files, spent, hist>>

List(j) ==
    /\ pc[j] = "list" /\ local[j].seen \subseteq DOMAIN zips
    /\ pc' = [pc EXCEPT ![j] = "unlink"]
    /\ UNCHANGED <<now, settings, restore, record, lock, create_lock, local, files, spent, hist>>

ListFails(j) ==
    /\ pc[j] = "list" /\ ~(local[j].seen \subseteq DOMAIN zips)
    /\ Leave(j, "broken")
    /\ hist' = Noted(hist, j, "broken", {local[j].name})
    /\ UNCHANGED <<now, settings, restoring, record, lock, files, spent>>

(* Mutants of Kept: the oldest are kept; one too many is kept.                *)
KeptOldest(S, r)     == {n \in S : Cardinality({m \in S : m < n}) < r}
KeptOneTooMany(S, r) == {n \in S : Cardinality({m \in S : m > n}) <= r}

(* sorted(..., reverse=True)[:retention].                                     *)
Kept(S, r) == {n \in S : Cardinality({m \in S : m > n}) < r}

(* The .part files nobody has written to for a day.                           *)
Orphans == {n \in DOMAIN parts :
              /\ now - parts[n].since > DayLength
              /\ \A i \in Jobs : pc[i] = "zip" => local[i].name # n}

Unlink(j) ==
    /\ pc[j] = "unlink"
    /\ zips' = Without(zips, local[j].seen \ Kept(local[j].seen, local[j].keep))
    /\ parts' = Without(parts, Orphans)
    /\ hist' = [hist EXCEPT !.unpruned = @ \ local[j].seen]
    /\ pc' = [pc EXCEPT ![j] = "stat"]
    /\ UNCHANGED <<now, settings, restore, record, lock, create_lock, local, spent>>

(* final_path.stat(): the new archive may have been pruned (a slow dump has   *)
(* an old name) or deleted.                                                   *)
Finish(j) ==
    /\ pc[j] = "stat"
    /\ LET result == IF local[j].name \in DOMAIN zips THEN "ok" ELSE "broken"
       IN  /\ Leave(j, result)
           /\ hist' = Noted(hist, j, result, {})
    /\ UNCHANGED <<now, settings, restoring, record, lock, files, spent>>

-----------------------------------------------------------------------------
(* _persist_outcome: two keys, two commits.                                   *)

PersistRun(j) ==
    /\ pc[j] = "persist_run" /\ j \notin severed
    /\ last_run' = local[j].at
    /\ pc' = [pc EXCEPT ![j] = "persist_status"]
    /\ UNCHANGED <<now, settings, restore, last_status, lock, create_lock, local, files, spent, hist>>

(* Mutant of PersistStatus: only a success is stored.                         *)
PersistOkOnly(j) ==
    /\ pc[j] = "persist_status" /\ j \notin severed
    /\ last_status' = IF local[j].outcome = "ok" THEN "ok" ELSE last_status
    /\ hist' = [hist EXCEPT !.half = FALSE]
    /\ pc' = [pc EXCEPT ![j] = "unlock"]
    /\ UNCHANGED <<now, settings, restore, last_run, lock, create_lock, local, files, spent>>

PersistStatus(j) ==
    /\ pc[j] = "persist_status" /\ j \notin severed
    /\ last_status' = local[j].outcome
    /\ hist' = [hist EXCEPT !.half = FALSE]
    /\ pc' = [pc EXCEPT ![j] = "unlock"]
    /\ UNCHANGED <<now, settings, restore, last_run, lock, create_lock, local, files, spent>>

(* Mutant of Unlock: pg_advisory_unlock is left to the end of the session.    *)
UnlockNothing(j) ==
    /\ pc[j] = "unlock"
    /\ pc' = [pc EXCEPT ![j] = "idle"]
    /\ severed' = severed \ {j}
    /\ local' = [local EXCEPT ![j] = NoLocals]
    /\ UNCHANGED <<now, settings, restoring, record, lock, create_lock, files, spent, hist>>

(* The finally of _run_locked.                                                *)
Unlock(j) ==
    /\ pc[j] = "unlock"
    /\ lock' = IF lock = Process(j) THEN Never ELSE lock
    /\ pc' = [pc EXCEPT ![j] = "idle"]
    /\ severed' = severed \ {j}
    /\ local' = [local EXCEPT ![j] = NoLocals]
    /\ UNCHANGED <<now, settings, restoring, record, create_lock, files, spent, hist>>

-----------------------------------------------------------------------------
(* restore, restore_backup.                                                   *)

(* An administrator proves who it is and uploads an archive of the list.      *)
AskRestore(p) ==
    /\ restoring = NoRestore
    /\ Spend("restore")
    /\ \E n \in DOMAIN zips : restoring' = [step |-> "validate", by |-> p, from |-> zips[n]]
    /\ UNCHANGED <<now, settings, record, lock, create_lock, pc, local, files, severed, hist>>

(* validate_backup_zip: nothing has been touched yet.                         *)
Validate ==
    /\ restoring.step = "validate"
    /\ restoring' = IF restoring.from.state = "whole" THEN [restoring EXCEPT !.step = "terminate"]
                    ELSE NoRestore
    /\ UNCHANGED <<now, settings, record, lock, create_lock, pc, local, files, severed, spent, hist>>

(* _restore_postgres: every connection is terminated, and with it the         *)
(* advisory lock.  A job of another process fails at its next query; one of   *)
(* this process may get a new connection, the pool was disposed of.  A form   *)
(* that is being stored may end there.                                        *)
Terminate ==
    /\ restoring.step = "terminate"
    /\ restoring' = [restoring EXCEPT !.step = "load"]
    /\ IF Dialect = "postgresql"
       THEN LET busy == {j \in Jobs : pc[j] # "idle"} IN
            /\ lock' = Never
            /\ \E own \in SUBSET OfProcess(restoring.by) :
                 severed' = severed \cup (busy \ OfProcess(restoring.by)) \cup (busy \cap own)
            /\ form' \in {form, <<>>}
       ELSE UNCHANGED <<lock, severed, form>>
    /\ UNCHANGED <<now, config, submitted, record, create_lock, pc, local, files, spent, hist>>

(* pg_restore, whole or failed after app_config: the settings and the record  *)
(* of the last run are those of the day of the archive.                       *)
Load ==
    /\ restoring.step = "load"
    /\ LET d == restoring.from.dump IN
         config' = d.config /\ last_run' = d.last_run /\ last_status' = d.last_status
    /\ restoring' = NoRestore
    /\ UNCHANGED <<now, form, submitted, lock, create_lock, pc, local, files, severed, spent, hist>>

(* ... or it fails, or stops half-way.  It runs in no single transaction: it  *)
(* drops the tables, makes them again and fills them one by one, so the rows  *)
(* of app_config are the old ones, the dump's (Load), or gone - then the      *)
(* backup is off and the code falls back to the values of the first start.    *)
LoadFails ==
    /\ restoring.step = "load"
    /\ \/ UNCHANGED <<config, record>>
       \/ /\ config' = [FirstConfig EXCEPT !.enabled = FALSE]
          /\ last_run' = Never /\ last_status' = "none"
    /\ restoring' = NoRestore
    /\ UNCHANGED <<now, form, submitted, lock, create_lock, pc, local, files, severed, spent, hist>>

(* A job whose connection is gone raises at its next query; nobody turns that *)
(* into a BackupError.                                                        *)
Break(j) ==
    /\ j \in severed /\ pc[j] \in {"due", "locked", "start", "glob", "persist_run", "persist_status"}
    /\ IF pc[j] \in {"due", "locked", "start"} THEN UNCHANGED <<create_lock, hist>>
       ELSE /\ create_lock' = IF pc[j] = "glob" THEN [create_lock EXCEPT ![Process(j)] = Never] ELSE create_lock
            /\ hist' = CASE pc[j] = "glob"        -> Noted(hist, j, "broken", {local[j].name})
                         [] pc[j] = "persist_run" -> [hist EXCEPT !.lost[Day(local[j].at)] = @ + 1]
                         [] OTHER                 -> [hist EXCEPT !.half = TRUE]
    /\ severed' = severed \ {j}
    /\ local' = [local EXCEPT ![j] = NoLocals]
    /\ pc' = [pc EXCEPT ![j] = IF j \in Scheduled /\ @ # "due" THEN "unlock" ELSE "idle"]
    /\ UNCHANGED <<now, settings, record, lock, files, restoring, spent>>

(* A process dies with both its jobs and is started again.  Its connection    *)
(* closes, which gives the advisory lock back; its .part files stay, and    *)
(* so does a pg_restore that runs in the database's container.                *)
Crash(p) ==
    /\ (\E j \in OfProcess(p) : pc[j] # "idle") \/ restoring.by = p
    /\ Spend("crash")
    /\ LET s == <<p, "scheduled">>
           begun == pc[s] \in {"dump", "zip", "glob", "list", "unlink", "stat", "persist_run"}
           unpruned == {local[j].name : j \in {i \in OfProcess(p) : pc[i] \in {"glob", "list", "unlink"}}}
       IN  hist' = [hist EXCEPT !.lost[Day(local[s].at)] = IF begun THEN @ + 1 ELSE @,
                                !.half = @ \/ pc[s] = "persist_status",
                                !.unpruned = @ \cup unpruned]
    /\ pc' = [j \in Jobs |-> IF j \in OfProcess(p) THEN "idle" ELSE pc[j]]
    /\ local' = [j \in Jobs |-> IF j \in OfProcess(p) THEN NoLocals ELSE local[j]]
    /\ create_lock' = [create_lock EXCEPT ![p] = Never]
    /\ severed' = severed \ OfProcess(p)
    /\ restoring' = IF restoring.by = p /\ restoring.step # "load" THEN NoRestore ELSE restoring
    /\ lock' = IF lock = p THEN Never ELSE lock
    /\ UNCHANGED <<now, settings, record, files>>

Thread(j) ==
    \/ Tick(j) \/ TryLock(j) \/ Recheck(j)
    \/ Begin(j) \/ NoPassword(j) \/ OpenPart(j) \/ DumpFails(j) \/ Fault(j)
    \/ ZipFails(j) \/ Replace(j) \/ Glob(j) \/ List(j) \/ ListFails(j) \/ Unlink(j) \/ Finish(j)
    \/ PersistRun(j) \/ PersistStatus(j) \/ Unlock(j) \/ Break(j)

Next ==
    \/ Advance \/ Submit \/ StoreKey \/ Delete
    \/ \E j \in Jobs : RunNow(j) \/ Thread(j)
    \/ Validate \/ Terminate \/ Load \/ LoadFails
    \/ (\E p \in WebProcs : AskRestore(p)) \/ (\E p \in Procs : Crash(p))

Spec == Init /\ [][Next]_vars

(* Python threads and requests that are alive get to run; nothing else is     *)
(* promised: the clock, people and failures come when they come.              *)
FairSpec == Spec /\ WF_vars(StoreKey) /\ \A j \in Jobs : WF_vars(Thread(j))

-----------------------------------------------------------------------------
(* One scheduled backup a day (is_backup_due, the re-check under the lock):   *)
(* each further attempt of a day follows one that died or broke before its    *)
(* instant was stored, so no two processes ever do the same day.  A restore   *)
(* costs at most two: the one it takes the lock from, and the one the         *)
(* restored last run does not know of.                                        *)
OncePerDay == \A d \in Days : hist.attempts[d] <= 1 + hist.lost[d] + 2 * spent.restore

(* What the page shows belongs together: last_status is how the attempt of    *)
(* the day of last_run ended, unless a process died between the two commits   *)
(* or a restore brought the pair of another day.                              *)
StatusIsOfLastRun ==
    \/ last_run = Never \/ hist.half \/ spent.restore > 0
    \/ \E j \in Scheduled : pc[j] = "persist_status"
    \/ last_status = hist.ended[Day(last_run)]

(* A name in the list of archives is a complete zip, whatever died while it   *)
(* was written, unless two processes took the same second for their name.     *)
ListedIsWhole ==
    \A n \in DOMAIN zips : zips[n].state = "whole" \/ Cardinality(hist.namers[n]) > 1

Made == {n \in Times : hist.made[n] > 0}

(* Whatever overlaps - prunes with old listings, a slow dump that prunes its  *)
(* own archive - the newest archive made stays until a person deletes it.     *)
NewestSurvives ==
    \A n \in Made : (\A m \in Made : m <= n) => n \in DOMAIN zips \cup hist.deleted

Running   == {local[j].name : j \in {i \in Jobs : pc[i] \in {"glob", "list", "unlink"}}}
MadeTwice == {n \in Times : hist.made[n] > 1}

(* The directory holds no more than the largest retention that was set, apart *)
(* from archives whose own prune is still running or died, and from a name    *)
(* taken twice in its second, which a prune may have seen in its first use.   *)
RetentionHolds ==
    \E c \in Forms \cup {FirstConfig} :
      Cardinality(DOMAIN zips \ (Running \cup hist.unpruned \cup MadeTwice)) <= c.retention

(* A backup that is due is not left due for ever: some process makes the      *)
(* attempt, whoever died with the lock and whatever failed.                   *)
DueGetsAttempted == []<>~(config.enabled /\ IsDue(now, config.hour, last_run))
=============================================================================
