------------------------------- MODULE RawLog -------------------------------
(* The raw ModSecurity log: app/proxy/ingest.py fills modsec_raw_log and      *)
(* attack_event, app/proxy/rawlog_worker.py and rawlog_service.py prune the   *)
(* first of them, archiving before if so configured.                          *)
(*                                                                            *)
(* Every gunicorn process follows the same container log from the moment it   *)
(* connected and stores every line twice, in two transactions; only the       *)
(* unique transaction_id keeps the copies of the other processes out.  A      *)
(* prune runs in the one process with advisory lock 815004, or in a request   *)
(* of an administrator, without the lock.  The clock is a counter: PerName    *)
(* units are the second that names an archive, DayLength units are a day.     *)
EXTENDS Integers, FiniteSets, Sequences, FiniteSetsExt

CONSTANTS
    Procs,          \* the gunicorn processes
    WebProcs,       \* those that may serve a manual prune
    Lines,          \* the transactions of the WAF, each logged once
    NoId,           \* those whose log line carries no identifier
    Refused,        \* those without messages: _parse_line returns None
    DayLength, PerName, MaxTime,
    PruneHour,      \* modsec_rawlog_prune_hour
    FirstConfigs,   \* retention (in clock units), archive, password, at the start
    Forms,          \* what an administrator may save
    MaxEach,        \* of each kind of trouble below, how many happen
    MaxTotal,       \* and of all kinds together
    Nobody

ASSUME ConstantsAssumption ==
    /\ WebProcs \subseteq Procs /\ Nobody \notin Procs
    /\ NoId \subseteq Lines /\ Refused \subseteq Lines /\ IsFiniteSet(Lines) /\ IsFiniteSet(Procs)
    /\ DayLength \in Nat \ {0} /\ PerName \in Nat \ {0} /\ MaxTime \in Nat
    /\ PruneHour \in 0..(DayLength - 1)
    /\ MaxEach \in Nat /\ MaxTotal \in Nat

Times   == 0..MaxTime
Configs == [retention : Nat \ {0}, archive : BOOLEAN, password : BOOLEAN]
Keys    == <<"retention", "archive", "password">>
Jobs    == (Procs \X {"scheduled"}) \cup (WebProcs \X {"manual"})
Process(j) == j[1]
Scheduled(j) == j[2] = "scheduled"

ASSUME FormsAssumption == FirstConfigs \subseteq Configs /\ Forms \subseteq Configs

VARIABLES
    now,        \* the clock
    log,        \* the container's log: a sequence of [line, at]
    pos,        \* per process, how many entries it is past
    reading,    \* per process, "off", "wait" for a line, or between its two transactions:
                \* "event" after a raw row of its own, "dup" after none
    raw,        \* modsec_raw_log: rows [id, line, at]
    next_id,    \* the sequence behind modsec_raw_log.id
    events,     \* attack_event: how many rows of each line
    config, form, submitted,
    last_prune, \* modsec_rawlog_last_prune_at, or -1
    lock,       \* the process whose connection holds lock 815004
    pc, local,  \* per prune, its step and its Python locals
    archives,   \* archive name -> the rows in it, none when it is torn
    parts,      \* archive name -> the prunes that have its .part open
    spent,      \* what the bounds have left behind them
    hist        \* history, read by the properties only

ingest   == <<log, pos, reading, raw, next_id, events>>
settings == <<config, form, submitted>>
prune    == <<last_prune, lock, pc, local, archives, parts>>
vars     == <<now, ingest, settings, prune, spent, hist>>

(* Lines lost to a stream that ended or an insert that failed, prunes that    *)
(* failed, dead processes, manual prunes, forms.                              *)
Kinds == {"drop", "dberror", "prunefail", "crash", "manual", "save"}
Spend(kind) ==
    /\ spent[kind] < MaxEach /\ MapThenSumSet(LAMBDA k : spent[k], Kinds) < MaxTotal
    /\ spent' = [spent EXCEPT ![kind] = @ + 1]

NoLocals == [at |-> 0, cutoff |-> 0, archive |-> FALSE, rows |-> {}]

Init ==
    /\ now = 0 /\ log = << >> /\ pos = [p \in Procs |-> 0]
    /\ reading = [p \in Procs |-> "wait"]
    /\ raw = {} /\ next_id = 1 /\ events = [l \in Lines |-> 0]
    /\ config \in FirstConfigs /\ form = << >> /\ submitted = config
    /\ last_prune = -1 /\ lock = Nobody
    /\ pc = [j \in Jobs |-> "idle"] /\ local = [j \in Jobs |-> NoLocals]
    /\ archives = << >> /\ parts = << >>
    /\ spent = [k \in Kinds |-> 0]
    /\ hist = [stored |-> {}, troubled |-> {}, gone |-> {},
               zips |-> [n \in {t \div PerName : t \in Times} |-> 0], again |-> {}]

-----------------------------------------------------------------------------
(* The world.                                                                 *)

Advance ==
    /\ now < MaxTime /\ now' = now + 1
    /\ UNCHANGED <<ingest, settings, prune, spent, hist>>

Logged == {log[k].line : k \in DOMAIN log}

(* The WAF writes the transactions in some order.                             *)
Emit(l) ==
    /\ l \notin Logged
    /\ log' = Append(log, [line |-> l, at |-> now])
    /\ UNCHANGED <<now, pos, reading, raw, next_id, events, settings, prune, spent, hist>>

(* logs_config_save: AppConfig.set commits each key on its own.  A password   *)
(* is stored when the form brings a new one, and never taken away.            *)
Submit ==
    /\ form = << >> /\ Spend("save")
    /\ submitted' \in Forms /\ form' = Keys
    /\ UNCHANGED <<now, ingest, config, prune, hist>>

StoreKey ==
    /\ form # << >>
    /\ config' = [config EXCEPT ![Head(form)] =
                     IF Head(form) = "password" THEN @ \/ submitted.password
                                                ELSE submitted[Head(form)]]
    /\ form' = Tail(form)
    /\ UNCHANGED <<now, ingest, submitted, prune, spent, hist>>

-----------------------------------------------------------------------------
(* _docker_log_loop: _store_raw_log, then _process_line.                      *)

Line(p) == log[pos[p] + 1].line

(* The unique transaction_id: a second insert waits for the first and fails   *)
(* if that one committed; a NULL identifier is never equal to another.        *)
InsertRaw(l) ==
    IF l \in NoId \/ \A r \in raw : r.line # l
    THEN /\ raw' = raw \cup {[id |-> next_id, line |-> l, at |-> now]}
         /\ next_id' = next_id + 1
         /\ hist' = [hist EXCEPT !.stored = @ \cup {l}]
    ELSE UNCHANGED <<raw, next_id, hist>>

(* Mutant of InsertEvent: whoever stored the raw line stores the event.       *)
InsertMineOnly(l, mine) ==
    events' = [events EXCEPT ![l] = IF mine /\ (l \in NoId \/ @ = 0) THEN @ + 1 ELSE @]

(* _mine_ says that the raw row of this process was not refused: the code     *)
(* does not look at it.                                                       *)
InsertEvent(l, mine) ==
    events' = [events EXCEPT ![l] = IF l \in NoId \/ @ = 0 THEN @ + 1 ELSE @]

StoreRawLog(p) ==
    /\ reading[p] = "wait" /\ pos[p] < Len(log)
    /\ InsertRaw(Line(p))
    /\ reading' = [reading EXCEPT ![p] = IF raw' # raw THEN "event" ELSE "dup"]
    /\ UNCHANGED <<now, log, pos, events, settings, prune, spent>>

ProcessLine(p) ==
    /\ reading[p] \in {"event", "dup"}
    /\ IF Line(p) \in Refused THEN UNCHANGED events
                              ELSE InsertEvent(Line(p), reading[p] = "event")
    /\ pos' = [pos EXCEPT ![p] = @ + 1]
    /\ reading' = [reading EXCEPT ![p] = "wait"]
    /\ UNCHANGED <<now, log, raw, next_id, settings, prune, spent, hist>>

(* An insert fails for another reason: it is logged, and the loop goes on.    *)
InsertFails(p) ==
    /\ Spend("dberror")
    /\ hist' = [hist EXCEPT !.troubled = @ \cup {p}]
    /\ \/ /\ reading[p] = "wait" /\ pos[p] < Len(log)
          /\ reading' = [reading EXCEPT ![p] = "dup"] /\ UNCHANGED pos
       \/ /\ reading[p] \in {"event", "dup"}
          /\ reading' = [reading EXCEPT ![p] = "wait"]
          /\ pos' = [pos EXCEPT ![p] = @ + 1]
    /\ UNCHANGED <<now, log, raw, next_id, events, settings, prune>>

(* The stream ends (the container restarts); 5 or 10 seconds later the loop   *)
(* follows the log since the current second: entries in between are passed    *)
(* over, entries of this second are read again.                               *)
Disconnect(p) ==
    /\ reading[p] = "wait" /\ Spend("drop")
    /\ hist' = [hist EXCEPT !.troubled = @ \cup {p}]
    /\ reading' = [reading EXCEPT ![p] = "off"]
    /\ UNCHANGED <<now, log, pos, raw, next_id, events, settings, prune>>

Connect(p) ==
    /\ reading[p] = "off"
    /\ reading' = [reading EXCEPT ![p] = "wait"]
    /\ pos' = [pos EXCEPT ![p] =
                 Cardinality({k \in DOMAIN log : log[k].at \div PerName < now \div PerName})]
    /\ UNCHANGED <<now, log, raw, next_id, events, settings, prune, spent, hist>>

-----------------------------------------------------------------------------
(* _run_locked, _run_locked_body and rawlog_prune_now.                        *)

IsDue(t, last) == t % DayLength >= PruneHour /\ (last = -1 \/ last \div DayLength < t \div DayLength)

Goto(j, step) == pc' = [pc EXCEPT ![j] = step]

(* A prune ends: by its last statement, its early return, or an exception.    *)
Leave(j) ==
    /\ Goto(j, IF Scheduled(j) THEN "unlock" ELSE "idle")
    /\ local' = [local EXCEPT ![j] = NoLocals]

(* Mutant of Acquire: the scheduled prune runs without asking for the lock.   *)
AcquireNothing(j) ==
    /\ Scheduled(j) /\ pc[j] = "idle"
    /\ IsDue(now, last_prune)
    /\ Goto(j, "start")
    /\ UNCHANGED <<now, ingest, settings, last_prune, lock, local, archives, parts, spent, hist>>

(* Each tick tries the lock first and looks at the clock under it.            *)
Acquire(j) ==
    /\ Scheduled(j) /\ pc[j] = "idle" /\ lock = Nobody
    /\ IsDue(now, last_prune)      \* otherwise the lock is given back at once
    /\ lock' = Process(j)
    /\ Goto(j, "start")
    /\ UNCHANGED <<now, ingest, settings, last_prune, local, archives, parts, spent, hist>>

PruneNow(j) ==
    /\ ~Scheduled(j) /\ pc[j] = "idle" /\ Spend("manual")
    /\ Goto(j, "start")
    /\ UNCHANGED <<now, ingest, settings, last_prune, lock, local, archives, parts, hist>>

(* prune_and_archive: settings and cutoff are read once.  Archiving without a *)
(* password prunes nothing and is not recorded as a prune.                    *)
Begin(j) ==
    /\ pc[j] = "start"
    /\ IF (Scheduled(j) /\ ~IsDue(now, last_prune)) \/ (config.archive /\ ~config.password)
       THEN Leave(j)
       ELSE /\ local' = [local EXCEPT ![j].at = now, ![j].cutoff = now - config.retention,
                                      ![j].archive = config.archive]
            /\ Goto(j, IF config.archive THEN "select" ELSE "delete")
    /\ UNCHANGED <<now, ingest, settings, last_prune, lock, archives, parts, spent, hist>>

Old(cutoff) == {r \in raw : r.at < cutoff}

Select(j) ==
    /\ pc[j] = "select"
    /\ local' = [local EXCEPT ![j].rows = Old(local[j].cutoff)]
    /\ Goto(j, IF Old(local[j].cutoff) = {} THEN "delete" ELSE "zip")
    /\ UNCHANGED <<now, ingest, settings, last_prune, lock, archives, parts, spent, hist>>

Archived == UNION {archives[n] : n \in DOMAIN archives}

(* The second that names the archive of a prune and its .part.                *)
Name(j) == local[j].at \div PerName

(* _f_ with a value for n.                                                    *)
With(f, n, value) == [m \in DOMAIN f \cup {n} |-> IF m = n THEN value ELSE f[m]]

(* AESZipFile truncates the .part of that name if there is one: whoever had   *)
(* it open writes into the same file from now on.                             *)
Open(j) ==
    /\ pc[j] = "zip"
    /\ parts' = With(parts, Name(j),
                     (IF Name(j) \in DOMAIN parts THEN parts[Name(j)] ELSE {}) \cup {j})
    /\ hist' = [hist EXCEPT !.zips[Name(j)] = @ + 1]
    /\ Goto(j, "write")
    /\ UNCHANGED <<now, ingest, settings, last_prune, lock, local, archives, spent>>

RemovePart(j) == parts' = [m \in DOMAIN parts \ {Name(j)} |-> parts[m]]

(* What a .part holds when a prune gives it the archive's name: its rows, or, *)
(* when others have it open, a torn zip or the rows of whoever writes last.   *)
Content(j) ==
    IF parts[Name(j)] = {j} THEN {local[j].rows}
                            ELSE {{}} \cup {local[k].rows : k \in parts[Name(j)]}

(* os.replace, over an archive of the same second if there is one.  A .part   *)
(* that another prune published or removed makes it raise.                    *)
Publish(j) ==
    /\ pc[j] = "write"
    /\ IF Name(j) \in DOMAIN parts
       THEN /\ \E rows \in Content(j) :
                 /\ archives' = With(archives, Name(j), rows)
                 /\ hist' = [hist EXCEPT !.again = @ \cup (rows \cap Archived)]
            /\ Goto(j, "published")
       ELSE Goto(j, "failed") /\ UNCHANGED <<archives, hist>>
    /\ RemovePart(j)
    /\ UNCHANGED <<now, ingest, settings, last_prune, lock, local, spent>>

(* The zip cannot be opened or written: the .part is removed, whoever has it  *)
(* open, and nothing is deleted.                                              *)
ZipFails(j) ==
    /\ pc[j] \in {"zip", "write"} /\ Spend("prunefail")
    /\ RemovePart(j)
    /\ Goto(j, "failed")
    /\ UNCHANGED <<now, ingest, settings, last_prune, lock, local, archives, hist>>

(* `finally`: a .part of that name, even one opened since, is removed.        *)
Sweep(j) ==
    /\ RemovePart(j)
    /\ \/ pc[j] = "published" /\ Goto(j, "delete") /\ UNCHANGED local
       \/ pc[j] = "failed" /\ Leave(j)
    /\ UNCHANGED <<now, ingest, settings, last_prune, lock, archives, spent, hist>>

(* Mutant of Pruned: the cutoff is computed again at the DELETE.              *)
PrunedSince(j) == Old(now - config.retention)

(* The rows the DELETE takes: a query of its own, with the cutoff of before.  *)
Pruned(j) == Old(local[j].cutoff)

Delete(j) ==
    /\ pc[j] = "delete"
    /\ raw' = raw \ Pruned(j)
    /\ hist' = IF local[j].archive
               THEN [hist EXCEPT !.gone = @ \cup {<<r, Name(j)>> : r \in Pruned(j)}]
               ELSE hist
    /\ Goto(j, "save")
    /\ UNCHANGED <<now, log, pos, reading, next_id, events, settings, last_prune, lock, local,
                   archives, parts, spent>>

(* SQLAlchemyError: rolled back and raised; an archive already written stays. *)
DeleteFails(j) ==
    /\ pc[j] = "delete" /\ Spend("prunefail")
    /\ Leave(j)
    /\ UNCHANGED <<now, ingest, settings, last_prune, lock, archives, parts, hist>>

SavePrune(j) ==
    /\ pc[j] = "save"
    /\ last_prune' = local[j].at
    /\ Leave(j)
    /\ UNCHANGED <<now, ingest, settings, lock, archives, parts, spent, hist>>

Unlock(j) ==
    /\ pc[j] = "unlock"
    /\ lock' = IF lock = Process(j) THEN Nobody ELSE lock
    /\ Goto(j, "idle")
    /\ UNCHANGED <<now, ingest, settings, last_prune, local, archives, parts, spent, hist>>

(* A process dies and is started again: its reader connects anew, its prunes  *)
(* are gone, its connection gives the advisory lock back.  A .part stays.     *)
Crash(p) ==
    /\ Spend("crash")
    /\ reading' = [reading EXCEPT ![p] = "off"]
    /\ pc' = [j \in Jobs |-> IF Process(j) = p THEN "idle" ELSE pc[j]]
    /\ local' = [j \in Jobs |-> IF Process(j) = p THEN NoLocals ELSE local[j]]
    /\ lock' = IF lock = p THEN Nobody ELSE lock
    /\ parts' = [n \in DOMAIN parts |-> {j \in parts[n] : Process(j) # p}]
    /\ hist' = [hist EXCEPT !.troubled = @ \cup {p}]
    /\ UNCHANGED <<now, log, pos, raw, next_id, events, settings, last_prune, archives>>

Next ==
    \/ Advance \/ Submit \/ StoreKey
    \/ \E l \in Lines : Emit(l)
    \/ \E p \in Procs : \/ StoreRawLog(p) \/ ProcessLine(p) \/ InsertFails(p)
                        \/ Disconnect(p) \/ Connect(p) \/ Crash(p)
    \/ \E j \in Jobs : \/ Acquire(j) \/ PruneNow(j) \/ Begin(j) \/ Select(j)
                       \/ Open(j) \/ Publish(j) \/ ZipFails(j) \/ Sweep(j)
                       \/ Delete(j) \/ DeleteFails(j) \/ SavePrune(j) \/ Unlock(j)

Spec == Init /\ [][Next]_vars

-----------------------------------------------------------------------------
(* "Poda filas antiguas, opcionalmente archivando primero": a row deleted by  *)
(* a prune that was to archive is in the archive of that prune, whatever was  *)
(* stored, saved or pruned by others between its SELECT and its DELETE, and   *)
(* whatever .part they left or removed; two prunes of one second, which share *)
(* the .part and the archive, are excepted by name.                           *)
DeletedIsArchived ==
    \A deleted \in hist.gone :
      LET r == deleted[1]  n == deleted[2]
      IN  hist.zips[n] <= 1 => n \in DOMAIN archives /\ r \in archives[n]

(* One process that never lost its stream, failed an insert or died is enough *)
(* for every line it is past: the raw log held it and, unless the parser      *)
(* refuses it, the event is counted, whichever of the two the others had      *)
(* already stored when they died.                                             *)
NoLossWhileOneReads ==
    \A p \in Procs \ hist.troubled : \A k \in 1..pos[p] :
      /\ log[k].line \in hist.stored
      /\ log[k].line \in Refused \/ events[log[k].line] > 0

(* A row goes to two archives only if a prune failed or died after its zip,   *)
(* or an administrator's prune ran beside the scheduled one.                  *)
ArchivedTwiceNeedsTrouble ==
    hist.again # {} => spent.prunefail + spent.crash + spent.manual > 0
=============================================================================
