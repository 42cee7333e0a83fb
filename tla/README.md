# WardNode: a TLA+ verification project

WardNode is a Flask console for a web application firewall (nginx + ModSecurity), with a host
firewall agent, a security operations (SOC) module, DDoS mitigation and backups. These modules
model the parts of it that run concurrently and fail, TLC checks them on small instances, and
TLAPS proves the safety properties for every instance. Paths are relative to the
repository root, `src/` being that root here.

## The system

gunicorn starts `2 * cpu + 1` synchronous worker processes (`gunicorn.conf.py`). Each of them builds
the application, and so each starts every daemon thread (`app/__init__.py`). The processes share a
PostgreSQL database (READ COMMITTED), a few directories, the Docker socket and the agent's socket.
They share no memory. A thread that must run once takes a *try* advisory lock of PostgreSQL at each
tick, 815001 to 815005; who does not get it gives the tick up. With SQLite, a development setting,
there is no lock.

| Part | State it keeps | Operations | Interacts through |
|---|---|---|---|
| Syslog forwarder (`app/proxy/syslog_worker.py`, `syslog_forwarder.py`) | a cursor per table, telemetry | tick, bootstrap, batch, settings | `app_config`, the tables it forwards, lock 815005 |
| SOC cycle (`app/soc/worker.py`, `services.py`, `alerts.py`, `soar.py`) | incidents, analyses, alert and block marks | detect, analyse, alert, block | `soc_incident`, CrowdSec, the LLM, messages, the audit log, lock 815001 |
| Incident review (`app/soc/routes.py`) | status and review of an incident | `set_estado` | the same rows, from web requests |
| Backup (`app/backup/`) | last run, last status, archives, `.part` files | schedule, create, prune, run now, delete, restore | `app_config`, the backup directory, lock 815002 |
| WAF log (`app/proxy/ingest.py`, `rawlog_*.py`) | `attack_event`, `modsec_raw_log`, archives | follow, store, prune, archive | the container's log, unique transaction ids, lock 815004 |
| Port monitor (`app/modules/port_monitor.py`) | time of the last alert | tick | the agent, lock 815003 |
| Firewall agent (`host-agent/`) | ufw rules, iptables, a marker file | one command per connection, restore at boot | a Unix socket |
| Module switches and DDoS (`app/modules/routes.py`, `app/ddos/`) | which modules are on, bans | activate, deactivate, ban, ingest | Docker, CrowdSec, `app_config` |
| Authentication (`app/auth/`) | accounts, reset tokens, second factor, session token | setup, login, challenge, reset, enable, disable | the user's row, the browser's cookie |
| Proxy configuration (`app/proxy/services.py`, `routes.py`) | generated nginx files, certificates | render, reload, provision | a shared directory, the proxy container |
| Audit log (`app/audit/`) | rows | `log_audit` | the caller's database session |

What is hard in it, everywhere: N copies of each thread; decisions taken from a read that is old
when they are carried out; two stores (a database row and a message, a ban, a file) that cannot be
committed together, with a process that dies between them; one settings form stored as several
commits, because `AppConfig.set` commits. `PROJECT.json` lists the hazards at their lines.

What makes each part correct, in a sentence: the forwarder sends every row before its cursor passes
it; the SOC opens one incident per attacker and window, announces and bans it once, and bans no
address an administrator came from; a reviewed incident carries its evidence; a day has one backup, an archive that is
listed is whole, the newest one survives; a line of the WAF is counted once and not lost, and a
deleted row is in an archive; the kernel's rules are those the agent's marker will restore, and
commands take effect in the order they were sent; an exposed port is announced, once per interval;
the CrowdSec key is the same in all three places that hold it and a module that is on has a reader;
a render nobody disturbs leaves nginx with the sites of the database, and while no render overlaps
another or ends half-way a reload takes no site from nginx; a new password ends every session, a
reset token and the setup page serve only those who held them when they were first used, and a
session without a code predates the account's second factor. Each of these has exceptions, which the
properties name; where the README of the repository promises more, this file says so.

## The modules

`MCx` gives `x` its constants for TLC, `xProofs` holds its theorems.

### SyslogForward

One variable per thing the code keeps: `tbl` (visible rows), `cursor`, the telemetry, and per process
`pc`, the batch in hand and the locals of a tick. `InsertRow`, `CommitRow` and `RollbackRow` are the
transactions of the writers: ids are drawn at INSERT and rows appear at COMMIT, in any order.
`Acquire`/`Release` are the advisory lock, `ReadConfig` to `Report` the statements of a tick that read
or write shared state, `SendRow` and `SendFails` the socket, `Crash` a dead process. A row is an id;
the RFC 5424 text of a frame is left out.

### SocCycle

Rows of `soc_incident` are numbered in the order of their creation; per row there is the attacker,
the severity, the window and the marks. A cycle of a process goes through `Dedupe`, `Update` or
`Create`, the analysis (`Analyze`, `ChatDone`), the alerts (`AlertCheck`, `AlertLeaves`,
`MarkAlerted`) and the blocks (`SoarCheck`, `Ban`, `RecordBlock`), each with its failures; the message
and its mark, the ban and its mark are separate steps. `SoarCheck` is `_evaluate_and_block` guard by
guard; `Unbannable` are the addresses `is_public_ip` or `is_ban_safe` refuse. `CheckFails` and
`CommitFails` are the exceptions a stage swallows for one incident, `LoginsUnread` the one that
leaves `_recent_admin_login_ips` without an address (`blind`). `audit` has the rows of logins:
`auth.login`, or `auth.mfa_ok` after a second factor. `SetEstado`, `ManualBegin`/`ManualStore` and
`AdminLogin` are people's requests at any moment. `dropped` remembers the incidents whose own way to
the ban an error or a death cut. Scores, prompts and texts are free choices: which addresses look
like attackers and how severe they are is nondeterministic.

`IncidentBook` is the abstract specification: a book of incidents, without processes, lock or stages,
in which an attack is one step that raises an incident only if none is current, or moves the current
one. `SocCycle` instantiates it (`Book`); the mapping is the identity on the rows, so `ImplementsBook`
says that a query and the write that follows it, an HTTP call and any number of reviews, crashes and
other processes' steps later, always look like one step of the book.

### IncidentReview

One incident and overlapping `set_estado` requests. The ORM loads the row, assigns attributes and
writes only the columns that changed against what it loaded, which the model keeps per request.

### BackupWorker

Every process has a scheduled job and some may run a manual one. A job follows `_backup_loop`
(`Tick`), `_run_locked` (`TryLock`, `Recheck`, `Unlock`), `create_backup` (`Begin` to `Finish`) and
`_persist_outcome` (two commits, two actions). `create_lock` is the thread lock of a process,
`lock` the advisory lock. Archives are a function from names to their state; a `.part` knows who
writes it, so that two processes with one name spoil it. The listing, the removal and the final
`stat` of the retention are three steps. A clock unit is both the second of a name and an hour of
the schedule.

A restore (`AskRestore`, `Validate`, `Terminate`, `Load`, `LoadFails`) belongs to the same module because it
happens to the same state: it terminates every other connection, and with it the advisory lock of a
job that is at work (`severed`), then puts the `app_config` of the archive's day in the place of
today's. `pg_restore` runs without `--single-transaction`: one that fails leaves the old rows, the
archive's or none (`LoadFails`). A severed job fails at its next query, wherever it is. The contents of a dump and the
e-mails are left out, and so is what a restore does to accounts and sessions.

### RawLog

Every process follows the same log (`StoreRawLog`, `ProcessLine`: two transactions, kept apart), may
lose its stream (`Disconnect`) and starts again at the current second (`Connect`). The unique
`transaction_id` is in `InsertRaw` and `InsertEvent`; a line without identifier is a row per reader,
and one of `Refused`, which `_parse_line` turns down, is stored raw and has no event.
The prune is scheduled under the lock or asked for by hand without it: `Begin` reads settings and
cutoff, `Select`, `Open` (the zip is opened under its `.part` name), `Publish` (`os.replace`), `Sweep`
(the `finally`), `Delete` and `SavePrune` are its steps. `parts` says which prunes have a `.part`
open: with more than one, what is published may be torn or the other's (`Content`), and whoever
comes second finds nothing to rename. `PerName` clock units share one name.

### WfAgent and PortMonitor

`WfAgent` is the agent on the host with the console's client. The agent is one thread; a command is a
sequence of calls (`Program`, `Protect`, `SecureConsole`, ...) and one call one action (`PutRule`,
`CutRules`, `UfwCall`, `TruncateMarker`, `WriteMarker`). State is what survives what: `kernel` holds
until a reboot, `disk` for ever, the queue of the socket until the agent dies. A client that gives up
(`GiveUp`) leaves its command in the queue. `Refuse`, `GetStuck`, `DiskFails`, `Hangup`, `Crash` and
`Reboot` are the troubles; `Boot` and `Restore` what systemd's restart does.

`PortMonitor` extends it with the threads that ask the agent for the exposed ports: clock first, lock
second (`Tick`, `TryLock`), the question (a client of the agent's queue like any other), the mail, the
stored time.

### ModuleSwitch

The four switches with their dependencies and the firewall gate (`ReadSwitch`, `WriteSwitch`), the two
activations call by call (`ReadKey` to `StartThread`, `StartGrafana` to `EnableObs`), `Stop`/`Disable`
and `Restart`. `LoseKey` is a stored key that cannot be decrypted: the activation draws another of
`Keys` and commits it, module on or off, before any container has it (`hist.replaced`). A container is who created it, whether it runs and the key in its environment;
`registered` is what CrowdSec has. `Die` is gunicorn killing a process with its ingest threads,
`Outrun` and `ComposeHalf` an activation longer than its time limit, `Break` an exception.

### ProxyRender

The forms of a site (`SaveForm`, `Rejected`, `RefuseHalf`: committed before it is refused), `Create`,
`Delete`, the panel's domain and the country list; then the render, group of files by group of files
(`Unlink`, `WriteShared`, `ListSites`, `WriteSite`, `AddRows`, `WriteMaps`), `Test` and `Signal`, the
certificate (`Order`, `Issue`) and the two calls to the agent about a local upstream. `OpenByHand` and
`CloseByHand` are the buttons of the firewall's panel, which open and close a port and look at no
site. `Rendered` is what an undisturbed render of the database writes, `Loadable` what `nginx -t`
accepts: every name a file uses is defined by another, every certificate exists and no text is bad.
The text of a site is what people write as it reaches its file - rules, snippets, headers, the paths
of a certificate of one's own, the upstream's host - and is "old", "new" or "bad", bad being one that
passes the forms and not nginx. `Named` is what the forms without any check leave (a host, a path);
boxes and numbers mend nothing (`Heals`). A resolver that fails while nginx reads good files is an
outcome like `DockerFails`; a file written in part counts as one that was not written.

### Accounts

The user and token rows, the cookie of each browser and the request it has in hand. A request that
loads, decides and commits later is two actions (`LoginBegin`/`LoginOpen`, `ResetFind`/`ResetCommit`,
`EnableBegin`/`EnableCommit`, ...), one that reads nothing another could change is one
(`CreateUser`, `SetupFactor`, `Logout`); `Abandon` is a refusal, an exception or a dead process.
`Keeps` says whether a process may die between the commit of `mfa_enable` and its answer, which is
what takes the pending secret out of the cookie. `session` counts the tokens drawn for an account, since only equality matters. The ORM writes the
columns whose value differs from what the request loaded (`WriteFactor`), an UPDATE of a row that is
gone raises (`RowThere`), and `login_user` reads the row again after the commit (`OpenSession`).
Whether a password or a code is right is a free choice; secrets are numbers. `Purge` is both the
command and the first half of a forgotten password, `ResetFactors` the command for a lost key.

## The runs

| Run | Question | What it shows |
|---|---|---|
| `syslog_safety` | two forwarders, overlapping transactions, a backlog of two batches, a failure, a dead process | no silent gap except for a late commit; duplicates only after trouble; no cursor moves back; the backlog drains |
| `syslog_late_commit` | two transactions of one table open together | finding: the lower id commits late and is never sent |
| `soc_cycle` | two workers, two addresses of which one is refused by the guards, with an error and a crash, a review or a login, or two manual analyses | incidents not duplicated, alerts and bans repeated only after trouble; severe new incidents are banned or excused; no ban on an administrator's address that the query could see; at most one analysis by the cycle and one by hand; the cycle implements `IncidentBook` |
| `incident_review` | two reviews of one incident at once | finding: a reviewed incident without its evidence |
| `backup` | two processes, two days and the start of a third, any one trouble, a restore included | one attempt a day unless one was lost, two more for a restore; status, retention and archives consistent; a due backup is attempted |
| `raw_log` | two processes, a line the parser refuses, the prune of one day and one by hand, any one trouble | deleted rows are archived but for two prunes of one second, no line is lost while one process reads, a row is archived twice only after trouble or a prune by hand |
| `wf_agent` | three requests of any command, any one trouble | chains have no rule too many, kernel and marker agree, the last command wins, SSH stays reachable |
| `port_monitor` | two monitors, a port a request closes and opens, any one trouble | alerts an interval apart, an exposed port is reported, a marked one restored after a reboot |
| `module_switch` | two processes, three requests of any kind, two troubles of different kinds, a key that cannot be read among them | keys agree, switch and containers agree, bans are read |
| `proxy` | two processes, two requests, the ports by hand included, any one trouble | an undisturbed render heals, and is loadable with good texts; a reload drops no site unless renders overlap or end half-way; a port marked as blocked is closed unless it was opened by hand |
| `accounts` | two accounts, two browsers, a reset token, a secret | token and setup page serve once and those who were there; a new password ends every session; no session without code where the factor was on; switch and secret agree but after a stale write |
| `token_once` | one account, one reset link, two browsers | finding: one token sets two passwords |

Most properties name what they except, and the exceptions are history variables that only the
behaviour in question sets (`late`, `raised`, `dropped`, `blind`, `hist.half`, `hist.torn`, `hist.twin`,
`hist.opened`, ...): what happens in
those cases is told under "What the models say about the code".

Every property of a passing run has a mutant in `PROJECT.json`: a plausible mistake in a mapped
definition (a re-check dropped, the lock forgotten, `>` for `>=`, the zip written under its final
name) under which TLC finds the property violated. The mutated operators stand beside the originals
in the modules and are marked as such.

### Bounds

Two processes are enough for every race here: locks, cursors, names and directories are shared by
pairs. The SOC's behaviours have one of the pairs of troubles and visits in `Pairs`. Up to three rows, incidents or
requests let one be overtaken by another and a batch be cut. The forwarder writes one table in its
run: ticks go through all sources, the others being empty. Time has two to four units, so that
something falls just inside, on and just outside a window (`Lookback`, `Cooldown`, `Interval`, a
day, a retention). Failures, crashes, manual actions and saved forms are bounded singly (`MaxFails`,
`MaxCrashes`, ..., `MaxEach`, or per kind by `MaxOf`) and mostly in total (`MaxTotal`): any one of
all kinds; `ModuleSwitch` has two, so that an unreadable key can meet a failed call. `RawLog` gives each
second a name of its own (`PerName = 1`): with one trouble in all a zip that fails beside another
prune's `.part` is beyond its run, and within the theorem. Its clock passes the prune hour of one day
(`DayLength = 3`, `PruneHour = 1`), and a prune that failed is due again within it; that of the next
day is the theorem's. `PortMonitor` has one published port and two commands, `WfAgent` three ports of which one
is reserved. `ProxyRender` has the panel, one site and one to be created, two domains and one port, which a site
may leave, take again or keep under another URL; two ports are the theorem's. Its run has no forms of
rules, snippets, headers or switches (`EveryKind`): what they leave behind, texts good, bad or good
again, exclusions, certificate paths and upstreams leave too;
a new site asks for a certificate (`Encrypted = {TRUE}`), and passes through the state without one.
`Accounts` needs two accounts, one of them an administrator who deletes the other, and two passwords
set with one token (`MaxChanges`); one secret (`MaxSecrets`) is enough for an enable that overlaps a
disable; it leaves out the process that dies before its answer (`Keeps = {FALSE}`), which the
theorems cover. `ProxyRender` serves two requests, so that an overlap which a third heals is left to
the theorem. Symmetry is used for interchangeable processes, keys, requests, accounts and browsers, and only
in runs without liveness. Deadlock is not checked where a model ends when its clock and its troubles
are spent.

### Fairness

`syslog_safety`, `backup` and `port_monitor` have liveness properties. They assume weak fairness
of the threads' own steps, since a daemon thread that is not blocked gets scheduled and each of its
outward calls has a timeout, and, in `PortMonitor`, of the agent, which systemd restarts
(`Restart=on-failure`). The clock, people, failures and crashes have none. A lock is given up by a
`finally` or by the end of the dead process's session, so a step that waits for it needs no strong
fairness: it gives the tick up and comes again.

## What is proved

Every invariant, every action property and the refinement that a passing run checks is also a
theorem, for any processes, sites, ports, tables, windows and bounds that satisfy the named
assumptions of the modules. A few theorems have no run: the type invariants, `HistoryStaysHome`,
`TotalNeverOvercounts`, `MarksAreTrue` and `PasswordMovesWithToken`. TLC shows on a small instance
that the properties, and the inductive invariants below, hold and can be violated by the mutants;
TLAPS shows that no larger instance breaks them. `xProofs` extends `x`, and `WfAgentProofs` also
holds what concerns the port monitor, which runs in the agent's module. Each proof has the same
form: types first, then a *form lemma* per action that says what the step does to the parts of the
state the invariants read, then one step lemma per invariant with a case per action, and the theorem
from the two.

Hardly any property is inductive as it stands. What each needs besides:

* **SyslogForward.** `NoSilentGap` says nothing about a batch in flight: `Settled(p)` adds that
  everything up to the rows a process is about to save for is sent or late, with or without the
  lock. `CursorNeverMovesBack` needs `LockInv` (who is in a tick holds the lock) and `Ahead(p)`
  (what it is about to store is not below the cursor). `HistoryStaysHome` and `TotalNeverOvercounts`
  rest on the ledger of the tick at work (`LedgerInv`: its batch lies between the cursor and its
  mark and is sent but for what is left of it, its counter is not ahead of the cursors),
  `DuplicateNeedsTrouble` on `FreshInv`: without a failure, what lies above a cursor was sent by the
  tick at work, and the rest of its batch was not.
* **SocCycle.** `OneOpenIncident` needs `DedupeInv`: only the lock's holder is in a cycle, no stored
  window ends after the clock a cycle read, and what `Dedupe` found, or did not find, is still so at
  the write, since nobody else creates rows and people only make fewer count. From the same
  invariant `SocImplementsBook`: `Create` is a `Raise`, `Update` a `Refresh`, `SetEstado` a
  `Review`, every other step leaves the book alone (`BookStep`). The stages carry what their guards
  established to the call they guard (`StageInv`: no message or ban of the window lies between the
  check and the call), and, while nothing failed, every message and ban is on record or about to be
  (`QuietInv`); `SevereIsBlocked` follows the rows no cycle has in hand, and those the block stage is
  through with (`SevereInv`), without the lock too and among errors and deaths of others; protected
  addresses are on record as logins (`AdminsAudited`). `AdminNeverBanned` needs that a process whose
  query answered knows every login the query could see, and that the address about to be banned is
  not among them (`AdminInv`). `AnalysisBudget` counts who still waits for the LLM
  (`Budget`): at most the one cycle that created the incident (`Disjoint`) and the requests, and
  nobody new once there is an analysis.
* **BackupWorker.** `ListedIsWhole`: a name only one process took has one writer (`WholeInv`).
  `NewestSurvives` and `RetentionHolds`: listings of prunes that overlap agree on the archives made
  once, and some set of archives, at most a retention large, has all those no prune is to look at
  any more (`PruneInv`, `Fits`, `Agree`). `StatusIsOfLastRun`: what the holder of the lock is about
  to store is how its day ended (`StatusInv`). `OncePerDay` is an inequality, and its invariant a
  ledger per day (`Balance`): attempts made, plus those that jobs without the lock may still make,
  plus what a restore under way may still cost, are paid for by attempts lost, restores and the one
  the day has a right to.
* **RawLog.** `NoLossWhileOneReads`: each line a process is past was stored and, unless refused,
  counted (`ReadInv`). `DeletedIsArchived`: between the `SELECT` and the `DELETE` no row appears that
  is older than the cutoff (`Covered`), because the cutoff lies before the clock; only a prune that
  writes has a `.part` open (`PartInv`), so that in a second one prune opened the `.part` is its own as
  long as it is there, and a prune whose `.part` is gone never comes to its `DELETE` (`Alright`). With
  identifiers never used twice (`IdInv`) and one prune at a time (`Alone`), `AgainInv` gives
  `ArchivedTwiceNeedsTrouble`.
* **WfAgent and PortMonitor.** `ShapeInv`: what the agent has still to do is the end of the program
  of the command in hand. On it rest the rules of the port in hand, call by call (`ChainInv`), the
  marker while it is cut off (`MarkInv`: `Kept` is what it stands for), the last of the requests in
  the socket (`WordInv`) and SSH between the two calls of a command and before the last two of
  `init_firewall` (`SshInv`). `AlertInv`: the last mail's time is on record or in the hands of the
  thread that mailed.
* **ModuleSwitch.** `BansAreRead` is inductive with the stages of a request. `KeysAgree` needs that
  the stored key is stable once an activation works with it (`StoredInv`), and, for the two
  exceptions it names, what an activation that ran alone knows of the bouncer and the registration,
  or that both still have the key from before the replaced one (`BouncerInv`, `Old`). `SwitchMatchesContainers`: `Progress`, how far a request that overlaps no other
  has come.
* **ProxyRender.** `MarkedPortIsClosed` needs `PortInv`: a form that has stored a new port leaves
  the row without a mark, two requests on one site are counted, a port with two users is among the
  shared ones; a port a form opens is then in nobody's way (`OpensSpare`), one opened by hand is
  remembered. The three properties of
  the render need `RenderInv`: a render that no other crosses has on the disk, at each of its
  stages, exactly what it wrote and what is still in its list (`Progress`), and a row whose
  certificate is "active" has one (`CertInv`). `ServedStaysServed` is an action property from the
  same invariant.
* **Accounts.** `TokenBudget`: passwords set with a token, plus requests that hold it, stay within
  those that held it at its first use (`TokenInv`), since nobody finds it usable again; `SetupBudget`
  likewise, because an administrator stays for ever once there is one (`SetupInv`).
  `AcceptedSinceChange`: tokens are drawn by passwords only, and a cookie carries the one of the
  moment it was opened (`SessionInv`). `PasswordMovesWithToken` needs that a reset in hand is about
  the account its token belongs to (`InHand`), `NoCodeNoFactor` that a login in flight has seen the
  factor off (`FactorInv`), `FactorWhole` that an enable in hand has a secret to store (`InHand`).

Assumptions. Where a lock decides, the theorem says `Dialect = "postgresql"`; of SQLite, a
development setting without the lock, those theorems say nothing. The assumptions on constants are
finiteness, bounds in `Nat` and that names are apart (`None` is no process, site, port or kind of
request; a target of ufw is no host port of the agent's chains, `CommandsAssumption`). TLC evaluates
them in the run of each module.

The search for inductive invariants also corrected the models. Three processes in one second break
the `RetentionHolds` of a first version, as TLC then confirmed: an archive made twice is one archive
and two listings, hence `MadeTwice`. Zips under one name are counted by `hist.zips`, not by who
wrote them; an iptables that hangs at boot leaves the port in hand unclean (`Hangup`); a deletion of
a limit removes one rule of ufw, not every equal one; several first sites may share a port from the
start (`Shared` in `Init`). The assumptions say apart what the instances always had apart.

Only model-checked. Liveness (`BacklogDrains`, `DueGetsAttempted`, `ExposedIsReported`,
`MarkedIsRestored`): fairness and `ENABLED` are out of the prover's reach. The three findings are
counterexamples of runs, and `IncidentReview` has no theorem: its one property is refuted.

## What the models say about the code

The three findings quote the sentences the code contradicts: rows forwarded late and never
(`syslog_late_commit`), a review without its comment (`incident_review`), a reset token used twice
(`token_once`: `src/README.md:345` says "de un solo uso", and two overlapping requests each find it
unused). Two more sentences of the repository promise more than the code does, and have no run of
their own because a property excepts the cases by name: `README.md:319` speaks of every incident
above the threshold and of the addresses administrators recently logged in from (the second and
third item below). What else the models show, by design of the code or excepted by name:

* a tick of the forwarder without rows records a successful send, so the badge of the settings page
  is green before any frame left (`syslog_worker.py:199`);
* an incident that a later cycle raises above the threshold is updated and never offered to the alerts
  or the block engine (`soc/services.py:94`), although `README.md:319` speaks of any incident above
  it: `SevereIsBlocked` excepts these (`raised`);
* an administrator with a second factor leaves `auth.mfa_ok` and no `auth.login`, which is what the
  block engine looks for (`soc/soar.py:65`), and a query that raises protects nobody
  (`soc/soar.py:78`): `README.md:319` promises that the addresses of recent logins are never banned,
  `AdminNeverBanned` excepts both cases (`auth.mfa_ok`, `blind`);
* an incident whose own way to the ban an error or a death cut is never offered to it again
  (`SevereIsBlocked` excepts it, `dropped`);
* a manual analysis and the worker's can both store an analysis of one incident: the check and the
  insert are an LLM call apart (`soc/services.py:308`; `AnalysisBudget` says how many there can be);
* a manual and a scheduled backup of two processes in one second write one `.part`
  (`ListedIsWhole` excepts it); with a retention of one, a slow dump can prune its own archive,
  which counts as a broken backup and is repeated;
* an exception that is no `BackupError` stores no attempt, so a broken backup is tried again at every
  tick (`backup/worker.py:155`; `OncePerDay` counts those attempts);
* a restore takes the lock from a backup that is at work and brings back an older last run: a day may
  see two more attempts, and two processes in one backup;
* a process that dies between the two commits of an outcome leaves today's run with yesterday's
  status (`StatusIsOfLastRun` excepts it); a temporary directory of a dead backup is never removed;
* a log form stores its retention before its archive flag: a prune between the commits deletes by
  the new retention without the archive (`rawlog_service.py:76`);
* two prunes of one second, one of them by hand, share a `.part` and an archive name: the second
  opens what the first is writing, one publishes, removes or finds missing the other's file, and
  rows may be deleted that no archive holds (`rawlog_service.py:110`; `DeletedIsArchived` excepts
  these seconds);
* a line logged while every process has lost its stream is read by none: a reader starts again at
  the current second (`ingest.py:294`);
* a log line without identifier is a row and an event per process;
* a marker file is truncated before it is written: an agent that dies in between forgets every port
  (`host-agent/wardnode-wf-agent.py:106`; `KernelMatchesMarker` excepts it), and a hanging iptables at
  boot ends the agent with a `KeyError` until systemd starts it again (line 134);
* a rule is deleted by a number from an older listing: after another deletion that may be the rule
  for SSH (`SshStaysOpen` excepts outdated listings by name);
* an agent that does not answer counts as a host without exposed ports, so the next answer is
  announced at once (`port_monitor.py:115`; `AlertSpacing` starts its count anew there);
* two first activations of CrowdSec each make a key, and a compose that ends half-way leaves an old
  one in place; a later activation that runs alone mends both (`KeysAgree` excepts them);
* a stored key that cannot be decrypted is replaced and committed with the module on
  (`modules/routes.py:1337`): when that activation fails, the containers keep the old key and agree
  with each other, and `app_config` has another one until the next (`KeysAgree`, `hist.replaced`);
* each activation leaves one more ingest thread in its process; the unique index keeps their rows apart;
* moving the panel to another domain under its certificate makes `nginx -t` fail, since
  `letsencrypt_status` stays (`RenderIsLoadable` excepts it); the form for it renders nothing;
* header values with a variable and rule ids that repeat pass the validators and not `nginx -t`, and
  no form looks at the host of an upstream or at the files of a certificate of one's own
  (`proxy/routes.py:424`, `454`, `902`): the files on disk then stay refused, for every site, until the
  text is changed, while nginx serves the old ones (`RenderIsLoadable` excepts such sites);
* "Desbloquear" at the panel of the firewall opens a port a site is marked with and leaves
  `host_port_blocked` (`modules/routes.py:657`), so that the row says of an open port that it is
  blocked (`MarkedPortIsClosed` excepts ports opened by hand);
* renders of two requests share one directory: a reload in the middle may drop a site until the next
  render (`ServedStaysServed` excepts overlaps; `HealsAlone` says that the next one mends it);
* a form with a wrong exclusion has its switches committed by `log_audit` before it is refused
  (`proxy/routes.py:1062`, against the docstring at `audit/helpers.py:25`); nginx learns of them with
  the next render (`RefuseHalf`);
* two sites with one local upstream share its port: deleting or moving one opens the port the other
  is marked with, and two edits at once may leave a mark without a rule (`MarkedPortIsClosed`);
* overlapping setups each make an administrator (`auth/routes.py:49`); `SetupBudget` counts them, as
  `TokenBudget` counts the passwords of one token (`auth/services.py:58`);
* a login whose password was checked before a reset, and a challenge that was open, get the new
  session token: they outlive the change of the password (`AcceptedSinceChange` counts from the
  moment the session is opened);
* an enable and a disable of the second factor at once may leave a switch that is on without a
  secret, which locks the account out, or the reverse (`FactorWhole` excepts writes over columns that
  changed meanwhile); `reset_encrypted_secrets` looks for rows with a secret and passes over the
  first kind (`encryption.py:58`);
* the forwarder's UDP frames and those still in a socket buffer are lost behind `send()`: the cursor
  moves all the same.

## Not modelled, and what comes next

Next: the bans a person gives in the DDoS pages; the daily report at the end of a SOC cycle; for the
agent, the correspondence of a resting agent to an abstract table of closed ports.

Left out for good: templates, style sheets, migrations and deployment files; the text of nginx
files, e-mails, prompts and syslog frames; GeoIP, MITRE and LLM providers, whose answers are free
choices; encryption; the anomaly model's numbers.

Left out inside modelled parts: IPv6 rules and what a status command of the agent prints; the
installation of the agent over SSH; the command-line restore, and the migrations and the render that
follow a restore; the retention, e-mail, MaxMind and timezone settings of the proxy and its
dashboards; `last_login_at`, rate limits and the password policy; listings and exports everywhere.
