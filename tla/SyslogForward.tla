---------------------------- MODULE SyslogForward ----------------------------
(***************************************************************************)
(* The syslog forwarder: app/proxy/syslog_worker.py.                       *)
(*                                                                         *)
(* Every gunicorn process runs one forwarder thread.  A tick takes the     *)
(* advisory lock 815005 without waiting, reads a cursor per source from    *)
(* app_config, sends the rows above it in id order and then moves the      *)
(* cursor to the last row of the batch.  The rows are inserted by other    *)
(* transactions, which draw their id from a sequence when they INSERT and  *)
(* become visible when they COMMIT, in any order.                          *)
(***************************************************************************)
EXTENDS Integers, FiniteSets

CONSTANTS
  Procs,        \* gunicorn processes, one forwarder thread each
  NoProc,       \* the owner of a free advisory lock
  Dialect,      \* "postgresql" (advisory lock) or "sqlite" (no lock)
  BatchSize,    \* _BATCH_SIZE
  MaxOpen,      \* transactions of one table that may be open together
  Written,      \* bound: the tables that receive rows
  MaxId,        \* bound: rows inserted per table
  MaxFails,     \* bound: ticks that meet a network or database error
  MaxCrashes,   \* bound: processes that die in the middle of a tick
  MaxSaves      \* bound: times the settings form is saved

ASSUME NoProcAssumption == NoProc \notin Procs
ASSUME BoundsAssumption ==
  /\ BatchSize \in Nat \ {0}
  /\ MaxOpen \in Nat
  /\ MaxId \in Nat
  /\ Written \subseteq {"modsecurity", "audit"}
  /\ MaxFails \in Nat
  /\ MaxCrashes \in Nat
  /\ MaxSaves \in Nat
ASSUME DialectAssumption == Dialect \in {"postgresql", "sqlite"}

VARIABLES
  seq,          \* per table: the last id its sequence handed out
  open,         \* per table: ids of transactions inserted, not yet committed
  tbl,          \* per table: ids of the rows a query sees
  cursor,       \* app_config syslog_cursor_*_id; -1 when absent or corrupt
  enabled,      \* app_config syslog_enabled
  sources,      \* app_config syslog_sources
  sentTotal,    \* app_config syslog_sent_total
  lastError,    \* app_config syslog_last_error is not empty
  lastSentAt,   \* app_config syslog_last_sent_at is present
  lock,         \* holder of pg_advisory_lock(815005)
  pc,           \* where the forwarder thread of each process is
  agenda,       \* sources the tick has not finished with
  src,          \* source the tick is working on
  mark,         \* position the tick has settled on: cursor read, then batch end
  batch,        \* ids of the rows the tick read
  left,         \* rows of the batch still to be sent
  total,        \* the tick's local sent_total
  failed,       \* the tick's local last_error is set
  sent,         \* history: ids handed to the socket without an error
  dup,          \* history: some id was handed over twice
  skipped,      \* history: rows present when a cursor was bootstrapped
  late,         \* history: rows committed below a position already taken
  fails, crashes, saves

tables  == <<seq, open, tbl>>
config  == <<cursor, enabled, sources, sentTotal, lastError, lastSentAt>>
tick    == <<pc, agenda, src, mark, batch, left, total, failed>>
history == <<sent, dup, skipped, late>>
bounds  == <<fails, crashes, saves>>
vars    == <<tables, config, lock, tick, history, bounds>>

Sources == {"modsecurity", "audit"}
Ids     == 1 .. MaxId
Steps   == {"idle", "config", "cursor", "boot", "query", "send", "save",
            "report", "unlock"}

\* The position of the steps at which a tick has chosen where its source stands.
Holding == {"boot", "query", "send", "save"}

TypeOK ==
  /\ seq \in [Sources -> 0 .. MaxId]
  /\ open \in [Sources -> SUBSET Ids]
  /\ tbl \in [Sources -> SUBSET Ids]
  /\ cursor \in [Sources -> -1 .. MaxId]
  /\ enabled \in BOOLEAN
  /\ sources \in SUBSET Sources
  /\ sentTotal \in Nat
  /\ lastError \in BOOLEAN
  /\ lastSentAt \in BOOLEAN
  /\ lock \in Procs \cup {NoProc}
  /\ pc \in [Procs -> Steps]
  /\ agenda \in [Procs -> SUBSET Sources]
  /\ src \in [Procs -> Sources]
  /\ mark \in [Procs -> 0 .. MaxId]
  /\ batch \in [Procs -> SUBSET Ids]
  /\ left \in [Procs -> SUBSET Ids]
  /\ total \in [Procs -> Nat]
  /\ failed \in [Procs -> BOOLEAN]
  /\ sent \in [Sources -> SUBSET Ids]
  /\ dup \in BOOLEAN
  /\ skipped \in [Sources -> SUBSET Ids]
  /\ late \in [Sources -> SUBSET Ids]
  /\ fails \in Nat /\ crashes \in Nat /\ saves \in Nat

Init ==
  /\ seq = [s \in Sources |-> 0]
  /\ open = [s \in Sources |-> {}]
  /\ tbl = [s \in Sources |-> {}]
  /\ cursor = [s \in Sources |-> -1]
  /\ enabled = FALSE
  /\ sources = Sources
  /\ sentTotal = 0
  /\ lastError = FALSE
  /\ lastSentAt = FALSE
  /\ lock = NoProc
  /\ pc = [p \in Procs |-> "idle"]
  /\ agenda = [p \in Procs |-> {}]
  /\ src = [p \in Procs |-> "audit"]
  /\ mark = [p \in Procs |-> 0]
  /\ batch = [p \in Procs |-> {}]
  /\ left = [p \in Procs |-> {}]
  /\ total = [p \in Procs |-> 0]
  /\ failed = [p \in Procs |-> FALSE]
  /\ sent = [s \in Sources |-> {}]
  /\ dup = FALSE
  /\ skipped = [s \in Sources |-> {}]
  /\ late = [s \in Sources |-> {}]
  /\ fails = 0 /\ crashes = 0 /\ saves = 0

-----------------------------------------------------------------------------
(* The tables: ingest threads and web requests.                            *)

\* INSERT ... RETURNING id: the sequence moves at once, the row is invisible.
InsertRow(s) ==
  /\ s \in Written
  /\ seq[s] < MaxId
  /\ Cardinality(open[s]) < MaxOpen
  /\ seq' = [seq EXCEPT ![s] = @ + 1]
  /\ open' = [open EXCEPT ![s] = @ \cup {seq[s] + 1}]
  /\ UNCHANGED <<tbl, config, lock, tick, history, bounds>>

\* A row is late when some tick, or the stored cursor, is already beyond it.
Passed(s, id) ==
  \/ id <= cursor[s]
  \/ \E p \in Procs : pc[p] \in Holding /\ src[p] = s /\ id <= mark[p]

CommitRow(s, id) ==
  /\ id \in open[s]
  /\ open' = [open EXCEPT ![s] = @ \ {id}]
  /\ tbl' = [tbl EXCEPT ![s] = @ \cup {id}]
  /\ late' = [late EXCEPT ![s] = IF Passed(s, id) THEN @ \cup {id} ELSE @]
  /\ UNCHANGED <<seq, config, lock, tick, sent, dup, skipped, bounds>>

\* IntegrityError on a duplicated transaction_id, or a failed commit.
RollbackRow(s, id) ==
  /\ id \in open[s]
  /\ open' = [open EXCEPT ![s] = @ \ {id}]
  /\ UNCHANGED <<seq, tbl, config, lock, tick, history, bounds>>

\* The retention DELETE of the raw log; the audit table is never pruned.
PruneRow(id) ==
  /\ id \in tbl["modsecurity"]
  /\ tbl' = [tbl EXCEPT !["modsecurity"] = @ \ {id}]
  /\ UNCHANGED <<seq, open, config, lock, tick, history, bounds>>

\* settings_save_syslog; saving no source means both.
SaveSettings(on, chosen) ==
  /\ saves < MaxSaves
  /\ saves' = saves + 1
  /\ enabled' = on
  /\ sources' = IF chosen = {} THEN Sources ELSE chosen
  /\ UNCHANGED <<tables, cursor, sentTotal, lastError, lastSentAt, lock, tick,
                 history, fails, crashes>>
-----------------------------------------------------------------------------
(* The tick.                                                               *)

GoTo(p, step) == pc' = [pc EXCEPT ![p] = step]

\* The locals of one source die when the tick is through with it.
DropBatch(p) ==
  /\ src' = [src EXCEPT ![p] = "audit"]
  /\ mark' = [mark EXCEPT ![p] = 0]
  /\ batch' = [batch EXCEPT ![p] = {}]
  /\ left' = [left EXCEPT ![p] = {}]

\* The locals of _run_tick die when it returns.
DropLocals(p) ==
  /\ DropBatch(p)
  /\ agenda' = [agenda EXCEPT ![p] = {}]
  /\ total' = [total EXCEPT ![p] = 0]
  /\ failed' = [failed EXCEPT ![p] = FALSE]

\* Mutant: the tick goes on without looking at the lock.
AcquireNothing(p) == p \in Procs /\ UNCHANGED lock

\* pg_try_advisory_lock; SQLite has no lock and goes straight on.
Acquire(p) ==
  IF Dialect = "postgresql" THEN lock = NoProc /\ lock' = p ELSE UNCHANGED lock

BeginTick(p) ==
  /\ pc[p] = "idle"
  /\ Acquire(p)
  /\ GoTo(p, "config")
  /\ UNCHANGED <<tables, config, agenda, src, mark, batch, left, total, failed,
                 history, bounds>>

\* _run_locked_body up to _run_tick, and the read of syslog_sent_total.
ReadConfig(p) ==
  /\ pc[p] = "config"
  /\ enabled
  /\ GoTo(p, "cursor")
  /\ agenda' = [agenda EXCEPT ![p] = sources]
  /\ total' = [total EXCEPT ![p] = sentTotal]
  /\ UNCHANGED <<tables, config, lock, src, mark, batch, left, failed, history,
                 bounds>>

\* The forwarder is switched off: the body returns at once.
SkipTick(p) ==
  /\ pc[p] = "config"
  /\ ~enabled
  /\ GoTo(p, "unlock")
  /\ UNCHANGED <<tables, config, lock, agenda, src, mark, batch, left, total,
                 failed, history, bounds>>

\* The WAF source always goes before the audit source.
NextSource(todo) == IF "modsecurity" \in todo THEN "modsecurity" ELSE "audit"

\* _get_cursor, and the MAX(id) query when there is none.
ReadCursor(p) ==
  /\ pc[p] = "cursor"
  /\ agenda[p] # {}
  /\ LET s == NextSource(agenda[p]) IN
       /\ src' = [src EXCEPT ![p] = s]
       /\ agenda' = [agenda EXCEPT ![p] = @ \ {s}]
       /\ IF cursor[s] # -1
            THEN /\ mark' = [mark EXCEPT ![p] = cursor[s]]
                 /\ left' = [left EXCEPT ![p] = {}]
                 /\ GoTo(p, "query")
            ELSE /\ \E m \in tbl[s] \cup {0} :
                      /\ \A id \in tbl[s] : id <= m
                      /\ mark' = [mark EXCEPT ![p] = m]
                 /\ left' = [left EXCEPT ![p] = tbl[s]]
                 /\ GoTo(p, "boot")
  /\ UNCHANGED <<tables, config, lock, batch, total, failed, history, bounds>>

Bootstrap(p, position) ==
  /\ pc[p] = "boot"
  /\ cursor' = [cursor EXCEPT ![src[p]] = position]
  /\ mark' = [mark EXCEPT ![p] = position]
  /\ skipped' = [skipped EXCEPT ![src[p]] = @ \cup left[p]]
  /\ left' = [left EXCEPT ![p] = {}]
  /\ GoTo(p, "query")
  /\ UNCHANGED <<tables, enabled, sources, sentTotal, lastError, lastSentAt,
                 lock, agenda, src, batch, total, failed, sent, dup, late, bounds>>

\* _bootstrap_cursor: the rows the query saw are history, never forwarded.
StoreBootstrap(p) == Bootstrap(p, mark[p])

\* The first BatchSize ids of a set: ORDER BY id ASC LIMIT _BATCH_SIZE.
IsFirst(rows, pending) ==
  /\ rows \in SUBSET pending
  /\ \A x \in rows, y \in pending \ rows : x < y
  /\ Cardinality(rows) <= BatchSize
  /\ rows = pending \/ Cardinality(rows) = BatchSize

ReadBatch(p) ==
  /\ pc[p] = "query"
  /\ LET pending == {id \in tbl[src[p]] : id > mark[p]} IN
       \E rows \in SUBSET pending :
         /\ IsFirst(rows, pending)
         /\ IF rows = {}
              THEN GoTo(p, "cursor") /\ DropBatch(p)
              ELSE /\ GoTo(p, "send")
                   /\ batch' = [batch EXCEPT ![p] = rows]
                   /\ left' = [left EXCEPT ![p] = rows]
                   /\ \E last \in rows :
                        /\ \A id \in rows : id <= last
                        /\ mark' = [mark EXCEPT ![p] = last]
                   /\ UNCHANGED src
  /\ UNCHANGED <<tables, config, lock, agenda, total, failed, history, bounds>>

\* sender.send of the next row of the batch, in id order.
SendRow(p, id) ==
  /\ pc[p] = "send"
  /\ id \in left[p]
  /\ \A other \in left[p] : id <= other
  /\ left' = [left EXCEPT ![p] = @ \ {id}]
  /\ sent' = [sent EXCEPT ![src[p]] = @ \cup {id}]
  /\ dup' = (dup \/ id \in sent[src[p]])
  /\ GoTo(p, IF left[p] = {id} THEN "save" ELSE "send")
  /\ UNCHANGED <<tables, config, lock, agenda, src, mark, batch, total, failed,
                 skipped, late, bounds>>

\* Mutant: the exception is swallowed and the batch counts as sent.
SendFailsYetSaves(p) ==
  /\ pc[p] = "send"
  /\ fails < MaxFails
  /\ fails' = fails + 1
  /\ GoTo(p, "save")
  /\ UNCHANGED <<tables, config, lock, agenda, src, mark, batch, left, total,
                 failed, history, crashes, saves>>

\* OSError: the cursor stays, the whole batch is read again by a later tick.
SendFails(p) ==
  /\ pc[p] = "send"
  /\ fails < MaxFails
  /\ fails' = fails + 1
  /\ failed' = [failed EXCEPT ![p] = TRUE]
  /\ GoTo(p, "cursor")
  /\ DropBatch(p)
  /\ UNCHANGED <<tables, config, lock, agenda, total, history, crashes, saves>>

SaveBatch(p, position, count) ==
  /\ pc[p] = "save"
  /\ cursor' = [cursor EXCEPT ![src[p]] = position]
  /\ total' = [total EXCEPT ![p] = @ + count]
  /\ GoTo(p, "cursor")
  /\ DropBatch(p)
  /\ UNCHANGED <<tables, enabled, sources, sentTotal, lastError, lastSentAt,
                 lock, agenda, failed, history, bounds>>

\* The whole batch went out: the cursor moves to its last row.
StoreCursor(p) == SaveBatch(p, mark[p], Cardinality(batch[p]))

\* No source left: the telemetry of the tick.
SourcesDone(p) ==
  /\ pc[p] = "cursor"
  /\ agenda[p] = {}
  /\ GoTo(p, "report")
  /\ UNCHANGED <<tables, config, lock, agenda, src, mark, batch, left, total,
                 failed, history, bounds>>

Report(p) ==
  /\ pc[p] = "report"
  /\ sentTotal' = total[p]
  /\ lastError' = failed[p]
  /\ lastSentAt' = (lastSentAt \/ ~failed[p])
  /\ GoTo(p, "unlock")
  /\ DropLocals(p)
  /\ UNCHANGED <<tables, cursor, enabled, sources, lock, history, bounds>>

\* is_safe_syslog_target refuses the host, or the tick raises: the error is
\* recorded and nothing else of the tick happens.
TickFails(p) ==
  /\ pc[p] \in {"config", "cursor", "boot", "query", "save", "report"}
  /\ pc[p] = "config" => enabled
  /\ fails < MaxFails
  /\ fails' = fails + 1
  /\ lastError' = TRUE
  /\ GoTo(p, "unlock")
  /\ DropLocals(p)
  /\ UNCHANGED <<tables, cursor, enabled, sources, sentTotal, lastSentAt, lock,
                 history, crashes, saves>>

\* Mutant: the finally clause forgot pg_advisory_unlock.
ReleaseNothing(p) == p \in Procs /\ UNCHANGED lock

Release(p) == lock' = IF lock = p THEN NoProc ELSE lock

EndTick(p) ==
  /\ pc[p] = "unlock"
  /\ Release(p)
  /\ GoTo(p, "idle")
  /\ UNCHANGED <<tables, config, agenda, src, mark, batch, left, total, failed,
                 history, bounds>>

\* The process dies; PostgreSQL ends its session and with it the lock.  A new
\* worker process takes its place and starts from idle.
Crash(p) ==
  /\ pc[p] # "idle"
  /\ crashes < MaxCrashes
  /\ crashes' = crashes + 1
  /\ Release(p)
  /\ GoTo(p, "idle")
  /\ DropLocals(p)
  /\ UNCHANGED <<tables, config, history, fails, saves>>
-----------------------------------------------------------------------------
Step(p) ==
  \/ BeginTick(p)
  \/ ReadConfig(p)
  \/ SkipTick(p)
  \/ ReadCursor(p)
  \/ StoreBootstrap(p)
  \/ ReadBatch(p)
  \/ \E id \in Ids : SendRow(p, id)
  \/ StoreCursor(p)
  \/ SourcesDone(p)
  \/ Report(p)
  \/ EndTick(p)

Trouble(p) == SendFails(p) \/ TickFails(p) \/ Crash(p)

Environment ==
  \/ \E s \in Sources : InsertRow(s)
  \/ \E s \in Sources, id \in Ids : CommitRow(s, id) \/ RollbackRow(s, id)
  \/ \E id \in Ids : PruneRow(id)
  \/ \E on \in BOOLEAN, chosen \in SUBSET Sources : SaveSettings(on, chosen)

Next ==
  \/ Environment
  \/ \E p \in Procs : Step(p) \/ Trouble(p)

Spec == Init /\ [][Next]_vars

\* Each forwarder thread loops for as long as its process lives.
Fairness == \A p \in Procs : WF_vars(Step(p))

FairSpec == Spec /\ Fairness
-----------------------------------------------------------------------------
(* Properties.                                                             *)

\* A row the cursor has left behind was history when the cursor was created,
\* or was handed to the socket, or committed below a position already taken.
Accounted(s, id) == id \in skipped[s] \cup sent[s] \cup late[s]

\* _run_tick moves the cursor only after the whole batch: neither a failed
\* send, a dead process, a second forwarder nor a prune in the middle of a tick
\* leaves a visible row below the cursor that nobody tried to send.
NoSilentGap ==
  \A s \in Sources : \A id \in tbl[s] : id <= cursor[s] => Accounted(s, id)

\* "Semantica at-least-once" as _run_tick's docstring and the README word it:
\* a row newer than all the history is sent before the cursor passes it.
AtLeastOnce ==
  \A s \in Sources : \A id \in tbl[s] :
    (id <= cursor[s] /\ \A h \in skipped[s] : h < id) => id \in sent[s]

\* Only a failed send, a failed tick or a dead process repeats a frame: the
\* advisory lock keeps two forwarders off the same batch.
DuplicateNeedsTrouble == dup => fails + crashes > 0

\* The bootstrap never forwards what was logged before it ("nunca el historico").
HistoryStaysHome == \A s \in Sources : skipped[s] \cap sent[s] = {}

\* syslog_sent_total, read at the start of a tick and written at its end,
\* counts no row twice and no row of a batch that failed.
TotalNeverOvercounts ==
  sentTotal <= Cardinality(sent["modsecurity"]) + Cardinality(sent["audit"])

\* No tick writes back a cursor older than the one another tick stored.
CursorNeverMovesBack ==
  [][\A s \in Sources : cursor'[s] >= cursor[s]]_cursor

\* A row above the cursor of an active source does not wait for ever, however
\* long the backlog and whichever process wins the lock.
BacklogDrains ==
  \A s \in Written, id \in Ids :
    (id \in tbl[s] /\ enabled /\ s \in sources)
      ~> (id \notin tbl[s] \/ Accounted(s, id) \/ ~enabled \/ s \notin sources)
=============================================================================
