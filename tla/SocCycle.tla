------------------------------ MODULE SocCycle ------------------------------
(***************************************************************************)
(* The SOC detection cycle: app/soc/services.py, alerts.py and soar.py,    *)
(* driven by app/soc/worker.py.                                            *)
(*                                                                         *)
(* Every gunicorn process runs a soc-worker thread.  A cycle holds the     *)
(* advisory lock 815001, turns the IPs that attack into incidents (a new   *)
(* one, or the open recent one brought up to date) and passes the new ones *)
(* through three best-effort stages: LLM analysis, alert, automatic block. *)
(* Each stage checks, calls the world outside, and only then commits.      *)
(* Meanwhile operators change the status of incidents and ask for analyses *)
(* by hand, in requests that take no lock, and administrators log in.      *)
(***************************************************************************)
EXTENDS Integers, FiniteSets

CONSTANTS
  Procs,         \* gunicorn processes, one soc-worker thread each
  NoProc,        \* the owner of a free advisory lock
  Requests,      \* web requests that run `analizar`
  IPs,           \* source IPs
  Unbannable,    \* those that is_public_ip or is_ban_safe refuse
  Dialect,       \* "postgresql" (advisory lock) or "sqlite" (no lock)
  MaxSev,        \* severities are 1 .. MaxSev
  Threshold,     \* soc_analyze_, soc_alert_ and soc_soar_min_severity
  LlmCap,        \* MAX_LLM_ANALYSES_PER_CYCLE
  Lookback,      \* DEDUPE_LOOKBACK
  Cooldown,      \* soc_alert_cooldown_min
  BlockLookback, \* SOAR_BLOCK_LOOKBACK
  LoginWindow,   \* the 24 hours of _recent_admin_login_ips
  MaxTime, MaxInc, \* bounds: the clock, incidents
  Quotas         \* bounds, one of which holds in a behaviour: how many errors,
                 \* processes that die, status changes, manual analyses, logins

ASSUME NoProcAssumption == NoProc \notin Procs
ASSUME DialectAssumption == Dialect \in {"postgresql", "sqlite"}
ASSUME RequestsAssumption == IsFiniteSet(Requests)
ASSUME BoundsAssumption ==
  /\ MaxSev \in Nat \ {0} /\ Threshold \in 1 .. MaxSev /\ LlmCap \in Nat
  /\ Lookback \in Nat /\ Cooldown \in Nat /\ BlockLookback \in Nat
  /\ LoginWindow \in Nat /\ MaxTime \in Nat /\ MaxInc \in Nat
  /\ Quotas \subseteq [{"fails", "crashes", "reviews", "manuals", "logins"} -> Nat]
  /\ IPs # {} /\ Unbannable \subseteq IPs

VARIABLES
  clock, lock,
  count,        \* rows of soc_incident; the id is the order of insertion
  ipOf,         \* source_ip
  sev,          \* severity
  open,         \* ids with status "nuevo"
  windowEnd,    \* window_end
  alertedAt,    \* alerted_at, Never when NULL
  blockedAt,    \* blocked_at, Never when the incident is not blocked
  analyses,     \* rows of soc_analysis per incident
  audit,        \* rows of audit_log about logins: [ip, at, action]
  pc, now, todo, cand, found, created, work, adminIps,  \* a cycle's locals
  blind,        \* processes whose query of those rows raised
  manual,       \* incident a request waits for the LLM about, 0 when none
  touched,      \* history: incidents an operator ever gave a status
  delivered,    \* history: incidents some channel announced
  sentAt,       \* history: last alert that left, per IP
  bannedAt,     \* history: last ban that took effect, per IP
  spam,         \* history: an IP was announced twice within the cooldown
  reban,        \* history: an IP was banned twice within the lookback
  raised,       \* history: incidents that reached the threshold after creation
  dropped,      \* history: incidents whose way to the ban an error or a death cut
  fails, crashes, reviews, manuals, logins, quota

table   == <<count, ipOf, sev, open, windowEnd, alertedAt, blockedAt, analyses>>
cycle   == <<pc, now, todo, cand, found, created, work, adminIps, blind>>
history == <<touched, delivered, sentAt, bannedAt, spam, reban, raised, dropped>>
bounds  == <<fails, crashes, reviews, manuals, logins, quota>>
vars    == <<clock, lock, table, audit, cycle, manual, history, bounds>>

Ids        == 1 .. MaxInc
Never      == -1 - MaxTime - Lookback - Cooldown - BlockLookback - LoginWindow
Times      == {Never} \cup 0 .. MaxTime
Severities == 1 .. MaxSev
Logins     == [ip : IPs, at : 0 .. MaxTime, action : {"auth.login", "auth.mfa_ok"}]
Steps      == {"idle", "detect", "write", "analyze", "chat", "alert", "send",
               "mark", "soar", "ban", "record", "unlock"}

TypeOK ==
  /\ clock \in 0 .. MaxTime
  /\ lock \in Procs \cup {NoProc}
  /\ count \in 0 .. MaxInc
  /\ ipOf \in [Ids -> IPs] /\ sev \in [Ids -> Severities]
  /\ open \in SUBSET Ids
  /\ windowEnd \in [Ids -> Times]
  /\ alertedAt \in [Ids -> Times] /\ blockedAt \in [Ids -> Times]
  /\ analyses \in [Ids -> Nat]
  /\ audit \in SUBSET Logins
  /\ pc \in [Procs -> Steps] /\ now \in [Procs -> 0 .. MaxTime]
  /\ todo \in [Procs -> SUBSET IPs] /\ cand \in [Procs -> IPs]
  /\ found \in [Procs -> Ids \cup {0}]
  /\ created \in [Procs -> SUBSET Ids] /\ work \in [Procs -> SUBSET Ids]
  /\ adminIps \in [Procs -> SUBSET IPs] /\ blind \in SUBSET Procs
  /\ manual \in [Requests -> Ids \cup {0}]
  /\ touched \in SUBSET Ids /\ delivered \in SUBSET Ids
  /\ sentAt \in [IPs -> Times] /\ bannedAt \in [IPs -> Times]
  /\ spam \in BOOLEAN /\ reban \in BOOLEAN /\ raised \in SUBSET Ids
  /\ dropped \in SUBSET Ids
  /\ fails \in Nat /\ crashes \in Nat /\ reviews \in Nat
  /\ manuals \in Nat /\ logins \in Nat /\ quota \in Quotas

\* The locals of a thread that is not in a cycle, and the columns of a row not
\* inserted yet, hold an arbitrary but fixed value.
SomeIP == CHOOSE ip \in IPs : TRUE

Init ==
  /\ clock = 0 /\ lock = NoProc
  /\ count = 0
  /\ ipOf = [i \in Ids |-> SomeIP] /\ sev = [i \in Ids |-> 1]
  /\ open = {}
  /\ windowEnd = [i \in Ids |-> Never]
  /\ alertedAt = [i \in Ids |-> Never] /\ blockedAt = [i \in Ids |-> Never]
  /\ analyses = [i \in Ids |-> 0]
  /\ audit = {}
  /\ pc = [p \in Procs |-> "idle"] /\ now = [p \in Procs |-> 0]
  /\ todo = [p \in Procs |-> {}] /\ cand = [p \in Procs |-> SomeIP]
  /\ found = [p \in Procs |-> 0]
  /\ created = [p \in Procs |-> {}] /\ work = [p \in Procs |-> {}]
  /\ adminIps = [p \in Procs |-> {}] /\ blind = {}
  /\ manual = [r \in Requests |-> 0]
  /\ touched = {} /\ delivered = {}
  /\ sentAt = [ip \in IPs |-> Never] /\ bannedAt = [ip \in IPs |-> Never]
  /\ spam = FALSE /\ reban = FALSE /\ raised = {} /\ dropped = {}
  /\ fails = 0 /\ crashes = 0 /\ reviews = 0 /\ manuals = 0 /\ logins = 0
  /\ quota \in Quotas

-----------------------------------------------------------------------------
(* Operators, administrators and the clock.                                *)

Tick ==
  /\ clock < MaxTime
  /\ clock' = clock + 1
  /\ UNCHANGED <<lock, table, audit, cycle, manual, history, bounds>>

\* set_estado: any of the four statuses; only "nuevo" counts as open.
SetEstado(i, nuevo) ==
  /\ i <= count
  /\ reviews < quota.reviews
  /\ reviews' = reviews + 1
  /\ open' = IF nuevo THEN open \cup {i} ELSE open \ {i}
  /\ touched' = touched \cup {i}
  /\ UNCHANGED <<clock, lock, count, ipOf, sev, windowEnd, alertedAt, blockedAt,
                 analyses, audit, cycle, manual, delivered, sentAt, bannedAt,
                 spam, reban, raised, dropped, fails, crashes, manuals, logins, quota>>

\* _bump_severity: one level up, at most critical.
BumpSeverity(level) == IF level < MaxSev THEN level + 1 ELSE level

\* A severity is written; the history notes that it reached the threshold.
SetSeverity(i, level) ==
  /\ sev' = [sev EXCEPT ![i] = level]
  /\ raised' = IF sev[i] < Threshold /\ level >= Threshold
                 THEN raised \cup {i} ELSE raised

\* Mutant: whether there is an analysis is not looked at.
UnanalysedOrNot(i) == TRUE

\* "Sin previo": no analysis of the incident is in the table.
Unanalysed(i) == analyses[i] = 0

\* analizar up to the call of the LLM: a late AbuseIPDB answer may raise the
\* severity one level (whether abuse_score is still NULL is not kept), and an
\* incident with an analysis goes no further.
ManualBegin(r, i, worse) ==
  /\ manual[r] = 0
  /\ i <= count
  /\ manuals < quota.manuals
  /\ manuals' = manuals + 1
  /\ SetSeverity(i, IF worse THEN BumpSeverity(sev[i]) ELSE sev[i])
  /\ manual' = [manual EXCEPT ![r] = IF Unanalysed(i) THEN i ELSE 0]
  /\ UNCHANGED <<clock, lock, count, ipOf, open, windowEnd, alertedAt, blockedAt,
                 analyses, audit, cycle, touched, delivered, sentAt, bannedAt,
                 spam, reban, dropped, fails, crashes, reviews, logins, quota>>

\* The LLM answered, and the analysis is committed.
ManualStore(r) ==
  /\ manual[r] # 0
  /\ analyses' = [analyses EXCEPT ![manual[r]] = @ + 1]
  /\ manual' = [manual EXCEPT ![r] = 0]
  /\ UNCHANGED <<clock, lock, count, ipOf, sev, open, windowEnd, alertedAt,
                 blockedAt, audit, cycle, history, bounds>>

\* An LLMError, or a request that dies.
ManualGivesUp(r) ==
  /\ manual[r] # 0
  /\ manual' = [manual EXCEPT ![r] = 0]
  /\ UNCHANGED <<clock, lock, table, audit, cycle, history, bounds>>

\* login_post audits auth.login; of a user with a second factor it audits
\* nothing, and mfa_challenge_post audits auth.mfa_ok.
AdminLogin(ip, action) ==
  /\ logins < quota.logins
  /\ logins' = logins + 1
  /\ audit' = audit \cup {[ip |-> ip, at |-> clock, action |-> action]}
  /\ UNCHANGED <<clock, lock, table, cycle, manual, history, fails, crashes,
                 reviews, manuals, quota>>
-----------------------------------------------------------------------------
(* The cycle: detection.                                                   *)

GoTo(p, step) == pc' = [pc EXCEPT ![p] = step]

\* The locals die when run_detection_cycle returns or raises.
DropLocals(p) ==
  /\ now' = [now EXCEPT ![p] = 0]
  /\ todo' = [todo EXCEPT ![p] = {}]
  /\ cand' = [cand EXCEPT ![p] = SomeIP]
  /\ found' = [found EXCEPT ![p] = 0]
  /\ created' = [created EXCEPT ![p] = {}]
  /\ work' = [work EXCEPT ![p] = {}]
  /\ adminIps' = [adminIps EXCEPT ![p] = {}]
  /\ blind' = blind \ {p}

\* Mutant: the cycle runs whether or not it got the lock.
AcquireNothing(p) == UNCHANGED lock

\* pg_try_advisory_lock; SQLite has no lock and goes straight on.
Acquire(p) ==
  IF Dialect = "postgresql" THEN lock = NoProc /\ lock' = p ELSE UNCHANGED lock

\* find_candidates: the IPs over the threshold, each of them once.
BeginCycle(p, attackers) ==
  /\ pc[p] = "idle"
  /\ count + Cardinality(attackers) <= MaxInc
  /\ Acquire(p)
  /\ now' = [now EXCEPT ![p] = clock]
  /\ todo' = [todo EXCEPT ![p] = attackers]
  /\ GoTo(p, "detect")
  /\ UNCHANGED <<clock, table, audit, cand, found, created, work, adminIps, blind,
                 manual, history, bounds>>

\* Mutant: the boundary of the lookback is left out.
RecentExclusive(ip, t) == {i \in open : ipOf[i] = ip /\ windowEnd[i] > t - Lookback}

\* The open incidents of an IP whose window ended within DEDUPE_LOOKBACK.
Recent(ip, t) == {i \in open : ipOf[i] = ip /\ windowEnd[i] >= t - Lookback}

\* The dedupe query, newest first.
Dedupe(p, ip) ==
  /\ pc[p] = "detect"
  /\ ip \in todo[p]
  /\ todo' = [todo EXCEPT ![p] = @ \ {ip}]
  /\ cand' = [cand EXCEPT ![p] = ip]
  /\ LET recent == Recent(ip, now[p]) IN
       \E f \in recent \cup {0} :
         /\ f = 0 <=> recent = {}
         /\ \A i \in recent : windowEnd[i] <= windowEnd[f]
         /\ found' = [found EXCEPT ![p] = f]
  /\ GoTo(p, "write")
  /\ UNCHANGED <<clock, lock, table, audit, now, created, work, adminIps, blind,
                 manual, history, bounds>>

\* The incident is brought up to date: severity only rises, and whatever became
\* of its status since the query, it is not in `created`.
Update(p, level) ==
  /\ pc[p] = "write"
  /\ found[p] # 0
  /\ windowEnd' = [windowEnd EXCEPT ![found[p]] = now[p]]
  /\ SetSeverity(found[p], IF level > sev[found[p]] THEN level ELSE sev[found[p]])
  /\ found' = [found EXCEPT ![p] = 0]
  /\ GoTo(p, "detect")
  /\ UNCHANGED <<clock, lock, count, ipOf, open, alertedAt, blockedAt, analyses,
                 audit, now, todo, cand, created, work, adminIps, blind, manual,
                 touched, delivered, sentAt, bannedAt, spam, reban, dropped, bounds>>

\* A new incident, its severity already raised by a bad reputation.
Create(p, level) ==
  /\ pc[p] = "write"
  /\ found[p] = 0
  /\ count < MaxInc
  /\ LET i == count + 1 IN
       /\ count' = i
       /\ ipOf' = [ipOf EXCEPT ![i] = cand[p]]
       /\ sev' = [sev EXCEPT ![i] = level]
       /\ open' = open \cup {i}
       /\ windowEnd' = [windowEnd EXCEPT ![i] = now[p]]
       /\ created' = [created EXCEPT ![p] = @ \cup {i}]
  /\ GoTo(p, "detect")
  /\ UNCHANGED <<clock, lock, alertedAt, blockedAt, analyses, audit, now, todo,
                 cand, found, work, adminIps, blind, manual, history, bounds>>
-----------------------------------------------------------------------------
(* The stages: analysis, alerts, SOAR.                                     *)

\* The MAX_LLM_ANALYSES_PER_CYCLE most severe of a set of incidents.
MostSevere(some, all) ==
  /\ some \in SUBSET all
  /\ \A i \in some, j \in all \ some : sev[i] >= sev[j]
  /\ Cardinality(some) = LlmCap \/ (some = all /\ Cardinality(all) < LlmCap)

\* Each incident gets one attempt per stage.
Take(p, i) == work' = [work EXCEPT ![p] = @ \ {i}]

DetectDone(p) ==
  /\ pc[p] = "detect"
  /\ todo[p] = {}
  /\ \E some \in SUBSET created[p] :
       /\ MostSevere(some, created[p])
       /\ work' = [work EXCEPT ![p] = some]
  /\ GoTo(p, "analyze")
  /\ UNCHANGED <<clock, lock, table, audit, now, todo, cand, found, created,
                 adminIps, blind, manual, history, bounds>>

\* analyze_incident: the guards, then the LLM is called.  Opt-in and provider
\* may be missing, in which case nothing happens.
Analyze(p, i) ==
  /\ pc[p] = "analyze"
  /\ i \in work[p]
  /\ \A j \in work[p] : sev[i] >= sev[j]
  /\ \/ /\ sev[i] >= Threshold /\ Unanalysed(i)
        /\ found' = [found EXCEPT ![p] = i]
        /\ GoTo(p, "chat")
     \/ UNCHANGED <<pc, found>>
  /\ Take(p, i)
  /\ UNCHANGED <<clock, lock, table, audit, now, todo, cand, created, adminIps, blind,
                 manual, history, bounds>>

\* The LLM answers and the analysis is committed; or LLMError, or any other
\* exception, and the next incident has its turn.
ChatDone(p) ==
  /\ pc[p] = "chat"
  /\ \/ analyses' = [analyses EXCEPT ![found[p]] = @ + 1]
     \/ UNCHANGED analyses
  /\ found' = [found EXCEPT ![p] = 0]
  /\ GoTo(p, "analyze")
  /\ UNCHANGED <<clock, lock, count, ipOf, sev, open, windowEnd, alertedAt,
                 blockedAt, audit, now, todo, cand, created, work, adminIps, blind,
                 manual, history, bounds>>

AnalysisDone(p) ==
  /\ pc[p] = "analyze"
  /\ work[p] = {}
  /\ work' = [work EXCEPT ![p] = created[p]]
  /\ GoTo(p, "alert")
  /\ UNCHANGED <<clock, lock, table, audit, now, todo, cand, found, created,
                 adminIps, blind, manual, history, bounds>>

\* Mutant: the cooldown ends one unit early.
InCooldownTooShort(i) ==
  \E j \in 1 .. count \ {i} : ipOf[j] = ipOf[i] /\ alertedAt[j] > clock - Cooldown

\* _in_cooldown: another incident of the IP was announced recently.
InCooldown(i) ==
  \E j \in 1 .. count \ {i} : ipOf[j] = ipOf[i] /\ alertedAt[j] >= clock - Cooldown

\* The oldest of the incidents a stage has still to look at.
IsNext(p, i) == i \in work[p] /\ \A j \in work[p] : i <= j

\* notify_incidents: severity and cooldown, then the channels are tried.
AlertCheck(p, i) ==
  /\ pc[p] = "alert"
  /\ IsNext(p, i)
  /\ IF sev[i] >= Threshold /\ ~InCooldown(i)
       THEN found' = [found EXCEPT ![p] = i] /\ GoTo(p, "send")
       ELSE UNCHANGED <<pc, found>>
  /\ Take(p, i)
  /\ UNCHANGED <<clock, lock, table, audit, now, todo, cand, created, adminIps, blind,
                 manual, history, bounds>>

\* Email or Telegram took the message.
AlertLeaves(p) ==
  /\ pc[p] = "send"
  /\ LET ip == ipOf[found[p]] IN
       /\ spam' = (spam \/ sentAt[ip] >= clock - Cooldown)
       /\ sentAt' = [sentAt EXCEPT ![ip] = clock]
  /\ delivered' = delivered \cup {found[p]}
  /\ GoTo(p, "mark")
  /\ UNCHANGED <<clock, lock, table, audit, now, todo, cand, found, created,
                 work, adminIps, blind, manual, touched, bannedAt, reban, raised, dropped, bounds>>

\* No channel is configured, or all of them failed.
AlertFails(p) ==
  /\ pc[p] = "send"
  /\ found' = [found EXCEPT ![p] = 0]
  /\ GoTo(p, "alert")
  /\ UNCHANGED <<clock, lock, table, audit, now, todo, cand, created, work,
                 adminIps, blind, manual, history, bounds>>

MarkAlerted(p) ==
  /\ pc[p] = "mark"
  /\ alertedAt' = [alertedAt EXCEPT ![found[p]] = clock]
  /\ found' = [found EXCEPT ![p] = 0]
  /\ GoTo(p, "alert")
  /\ UNCHANGED <<clock, lock, count, ipOf, sev, open, windowEnd, blockedAt,
                 analyses, audit, now, todo, cand, created, work, adminIps, blind,
                 manual, history, bounds>>

\* Mutant: only the logins of the current hour are looked up.
RecentAdminIPsThisHour(t) ==
  {l.ip : l \in {row \in audit : row.action = "auth.login" /\ row.at >= t}}

\* The query of _recent_admin_login_ips: rows auth.login, nothing else.
RecentAdminIPs(t) ==
  {l.ip : l \in {row \in audit : row.action = "auth.login"
                                   /\ row.at >= t - LoginWindow}}

\* Mutant: only what was announced reaches the block engine.
AnnouncedOnly(p) == {i \in created[p] : alertedAt[i] # Never}

\* What run_detection_cycle hands to maybe_block_incidents.
ToBlock(p) == created[p]

\* maybe_block_incidents: `now` and the administrators' IPs are read once.
AlertsDone(p) ==
  /\ pc[p] = "alert"
  /\ work[p] = {}
  /\ work' = [work EXCEPT ![p] = ToBlock(p)]
  /\ now' = [now EXCEPT ![p] = clock]
  /\ adminIps' = [adminIps EXCEPT ![p] = RecentAdminIPs(clock)]
  /\ GoTo(p, "soar")
  /\ UNCHANGED <<clock, lock, table, audit, todo, cand, found, created, blind,
                 manual, history, bounds>>

\* _recent_admin_login_ips swallows any exception and returns no address.
LoginsUnread(p) ==
  /\ pc[p] = "alert"
  /\ work[p] = {}
  /\ fails < quota.fails
  /\ fails' = fails + 1
  /\ work' = [work EXCEPT ![p] = ToBlock(p)]
  /\ now' = [now EXCEPT ![p] = clock]
  /\ blind' = blind \cup {p}
  /\ GoTo(p, "soar")
  /\ UNCHANGED <<clock, lock, table, audit, todo, cand, found, created, adminIps,
                 manual, history, crashes, reviews, manuals, logins, quota>>

\* The incidents of a cycle whose ban is not decided yet.
Undecided(p) ==
  CASE pc[p] \in {"soar", "record"} -> work[p]
    [] pc[p] = "ban"               -> work[p] \cup {found[p]}
    [] OTHER                       -> created[p]

\* Incidents that will not get to the ban: noted for the properties.
Drop(some) ==
  /\ dropped' = dropped \cup some
  /\ UNCHANGED <<touched, delivered, sentAt, bannedAt, spam, reban, raised>>

\* The gates of maybe_block_incidents: SOAR is off, or the chosen method has
\* its module off or does not answer; no incident is evaluated.
SoarUnavailable(p) ==
  /\ pc[p] = "alert"
  /\ work[p] = {}
  /\ fails < quota.fails
  /\ fails' = fails + 1
  /\ GoTo(p, "unlock")
  /\ Drop(Undecided(p))
  /\ DropLocals(p)
  /\ UNCHANGED <<clock, lock, table, audit, manual, crashes, reviews, manuals,
                 logins, quota>>

\* Mutant: an incident an operator has closed no longer counts as a block.
AlreadyBlockedIfOpen(i, t) ==
  \E j \in open \ {i} : ipOf[j] = ipOf[i] /\ blockedAt[j] >= t - BlockLookback

\* The anti-repetition guard: SOAR blocked the IP for another incident.
AlreadyBlocked(i, t) ==
  \E j \in 1 .. count \ {i} : ipOf[j] = ipOf[i] /\ blockedAt[j] >= t - BlockLookback

\* _evaluate_and_block up to the call of CrowdSec or UFW.
SoarCheck(p, i) ==
  /\ pc[p] = "soar"
  /\ IsNext(p, i)
  /\ IF /\ sev[i] >= Threshold
        /\ ipOf[i] \notin Unbannable
        /\ ipOf[i] \notin adminIps[p]
        /\ ~AlreadyBlocked(i, now[p])
       THEN found' = [found EXCEPT ![p] = i] /\ GoTo(p, "ban")
       ELSE UNCHANGED <<pc, found>>
  /\ Take(p, i)
  /\ UNCHANGED <<clock, lock, table, audit, now, todo, cand, created, adminIps, blind,
                 manual, history, bounds>>

\* ban_ip or deny_ip succeeded.
Ban(p) ==
  /\ pc[p] = "ban"
  /\ LET ip == ipOf[found[p]] IN
       /\ reban' = (reban \/ bannedAt[ip] >= now[p] - BlockLookback)
       /\ bannedAt' = [bannedAt EXCEPT ![ip] = now[p]]
  /\ GoTo(p, "record")
  /\ UNCHANGED <<clock, lock, table, audit, now, todo, cand, found, created,
                 work, adminIps, blind, manual, touched, delivered, sentAt, spam, raised,
                 dropped, bounds>>

\* cscli or the agent refused: nothing is recorded, nothing is tried again.
BanFails(p) ==
  /\ pc[p] = "ban"
  /\ fails < quota.fails
  /\ fails' = fails + 1
  /\ Drop({found[p]})
  /\ found' = [found EXCEPT ![p] = 0]
  /\ GoTo(p, "soar")
  /\ UNCHANGED <<clock, lock, table, audit, now, todo, cand, created, work,
                 adminIps, blind, manual, crashes, reviews, manuals, logins, quota>>

RecordBlock(p) ==
  /\ pc[p] = "record"
  /\ blockedAt' = [blockedAt EXCEPT ![found[p]] = now[p]]
  /\ found' = [found EXCEPT ![p] = 0]
  /\ GoTo(p, "soar")
  /\ UNCHANGED <<clock, lock, count, ipOf, sev, open, windowEnd, alertedAt,
                 analyses, audit, now, todo, cand, created, work, adminIps, blind,
                 manual, history, bounds>>

\* An exception among the guards of one incident: its turn is over.
CheckFails(p, i) ==
  /\ pc[p] \in {"alert", "soar"}
  /\ IsNext(p, i)
  /\ fails < quota.fails
  /\ fails' = fails + 1
  /\ IF pc[p] = "soar" THEN Drop({i}) ELSE UNCHANGED history
  /\ Take(p, i)
  /\ UNCHANGED <<clock, lock, table, audit, pc, now, todo, cand, found, created,
                 adminIps, blind, manual, crashes, reviews, manuals, logins, quota>>

\* alerts and soar swallow the exception of one incident, roll back and go on.
CommitFails(p) ==
  /\ pc[p] \in {"mark", "record"}
  /\ fails < quota.fails
  /\ fails' = fails + 1
  /\ found' = [found EXCEPT ![p] = 0]
  /\ GoTo(p, IF pc[p] = "mark" THEN "alert" ELSE "soar")
  /\ UNCHANGED <<clock, lock, table, audit, now, todo, cand, created, work,
                 adminIps, blind, manual, history, crashes, reviews, manuals, logins, quota>>

SoarDone(p) ==
  /\ pc[p] = "soar"
  /\ work[p] = {}
  /\ GoTo(p, "unlock")
  /\ DropLocals(p)
  /\ UNCHANGED <<clock, lock, table, audit, manual, history, bounds>>

\* A database error in the detection loop leaves the whole cycle: no stage
\* runs for the incidents it had created.
CycleFails(p) ==
  /\ pc[p] \in {"detect", "write"}
  /\ fails < quota.fails
  /\ fails' = fails + 1
  /\ GoTo(p, "unlock")
  /\ Drop(Undecided(p))
  /\ DropLocals(p)
  /\ UNCHANGED <<clock, lock, table, audit, manual, crashes, reviews, manuals,
                 logins, quota>>

Release(p) == lock' = IF lock = p THEN NoProc ELSE lock

EndCycle(p) ==
  /\ pc[p] = "unlock"
  /\ Release(p)
  /\ GoTo(p, "idle")
  /\ UNCHANGED <<clock, table, audit, now, todo, cand, found, created, work,
                 adminIps, blind, manual, history, bounds>>

\* The process dies; PostgreSQL ends its session and with it the lock.
Crash(p) ==
  /\ pc[p] # "idle"
  /\ crashes < quota.crashes
  /\ crashes' = crashes + 1
  /\ Release(p)
  /\ GoTo(p, "idle")
  /\ Drop(Undecided(p))
  /\ DropLocals(p)
  /\ UNCHANGED <<clock, table, audit, manual, fails, reviews, manuals, logins, quota>>
-----------------------------------------------------------------------------
Step(p) ==
  \/ \E ip \in IPs : Dedupe(p, ip)
  \/ \E level \in Severities : Update(p, level) \/ Create(p, level)
  \/ DetectDone(p)
  \/ \E i \in Ids : Analyze(p, i) \/ AlertCheck(p, i) \/ SoarCheck(p, i)
  \/ ChatDone(p)
  \/ AnalysisDone(p)
  \/ AlertLeaves(p)
  \/ AlertFails(p)
  \/ MarkAlerted(p)
  \/ AlertsDone(p)
  \/ Ban(p)
  \/ RecordBlock(p)
  \/ SoarDone(p)
  \/ EndCycle(p)

Trouble(p) ==
  \/ BanFails(p) \/ CommitFails(p) \/ CycleFails(p) \/ SoarUnavailable(p)
  \/ \E i \in Ids : CheckFails(p, i)
  \/ LoginsUnread(p) \/ Crash(p)

People ==
  \/ \E i \in Ids, nuevo \in BOOLEAN : SetEstado(i, nuevo)
  \/ \E r \in Requests, i \in Ids, worse \in BOOLEAN : ManualBegin(r, i, worse)
  \/ \E r \in Requests : ManualStore(r) \/ ManualGivesUp(r)
  \/ \E ip \in IPs, action \in {"auth.login", "auth.mfa_ok"} : AdminLogin(ip, action)

Next ==
  \/ Tick
  \/ People
  \/ \E p \in Procs, attackers \in SUBSET IPs : BeginCycle(p, attackers)
  \/ \E p \in Procs : Step(p) \/ Trouble(p)

Spec == Init /\ [][Next]_vars

-----------------------------------------------------------------------------
(* Properties.                                                             *)

\* run_detection_cycle's "actualizar, no duplicar": two incidents of one IP
\* that no operator has touched lie more than DEDUPE_LOOKBACK apart, whichever
\* processes found them, whatever died in between.
OneOpenIncident ==
  \A i, j \in open \ touched :
    (ipOf[i] = ipOf[j] /\ windowEnd[i] <= windowEnd[j] /\ i # j)
      => windowEnd[j] - windowEnd[i] > Lookback

\* The cooldown of notify_incidents against spam: only an error or a dead
\* process between the message and its commit lets an IP be announced twice.
SpamNeedsTrouble == spam => fails + crashes > 0

\* The anti-repetition guard of _evaluate_and_block, likewise.
RebanNeedsTrouble == reban => fails + crashes > 0

\* A row never claims more than what happened: alerted_at only after a channel
\* took the message, blocked only after the ban took effect.
MarksAreTrue ==
  \A i \in Ids :
    /\ alertedAt[i] # Never => i \in delivered
    /\ blockedAt[i] # Never => bannedAt[ipOf[i]] >= blockedAt[i]

InHand(i) == \E p \in Procs : i \in created[p]

Blocked(ip) == bannedAt[ip] # Never

\* The severity an incident was created with.
BornSevere(i) == sev[i] >= Threshold /\ i \notin raised

\* Administrators came from the IP without a second factor.
Audited(ip) == \E l \in audit : l.ip = ip /\ l.action = "auth.login"

\* Every new incident of run_detection_cycle reaches maybe_block_incidents,
\* whatever fails for the others of its cycle or for its own analysis and
\* alert: created at or above the threshold, it has its IP blocked when its
\* cycle is over, unless is_public_ip or is_ban_safe refuses the IP, an
\* administrator logged in from there, or an error or a dead process cut this
\* very incident's way to the ban.
SevereIsBlocked ==
  \A i \in 1 .. count \ dropped :
    (BornSevere(i) /\ ~InHand(i))
      => Blocked(ipOf[i]) \/ ipOf[i] \in Unbannable \/ Audited(ipOf[i])

\* "La guarda de analisis previo se mantiene siempre": the guard comes before a
\* call of many seconds and the row after it, so an incident may have more than
\* one analysis, but no more than one of a cycle and one of each request that
\* can be served at once, however often people ask and whatever dies.
AnalysisBudget == \A i \in Ids : analyses[i] <= 1 + Cardinality(Requests)

\* Guard 3b of _evaluate_and_block, read once and applied several incidents and
\* calls later: a ban falls on an IP an administrator logged in from, in the
\* window before the stage began, only if each of those logins had a second
\* factor, or the query of the logins had raised.
AdminNeverBanned ==
  [][\A p \in Procs \ blind : (pc[p] = "ban" /\ pc'[p] = "record") =>
       \A l \in audit :
         (l.ip = ipOf[found[p]] /\ l.at \in now[p] - LoginWindow .. now[p] - 1)
           => l.action = "auth.mfa_ok"]_vars

Book == INSTANCE IncidentBook WITH Times <- 0 .. MaxTime

\* "actualizar, no duplicar" as an atomic promise: the query of the dedupe and
\* the write that follows it, an HTTP call later and with reviews, crashes and
\* other processes in between, always look like one step of IncidentBook.
ImplementsBook == Book!Spec
=============================================================================
