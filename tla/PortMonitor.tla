---------------------------- MODULE PortMonitor ----------------------------
(* The monitor of exposed Docker ports, app/modules/port_monitor.py: a thread *)
(* of every console process that asks the firewall agent for the published    *)
(* ports, under an advisory lock, and mails the administrators about those    *)
(* that are not blocked, every six hours while they last.                     *)
(*                                                                            *)
(* Time is counted in units of which Interval make up the six hours; at least *)
(* one tick falls into each.  SMTP is configured and there is an              *)
(* administrator; without them _send_alert returns at once.                   *)
EXTENDS WfAgent

CONSTANTS
    Interval,       \* _ALERT_INTERVAL_HOURS
    MaxTime         \* bound of the clock

ASSUME MonitorAssumption == Interval \in Nat \ {0} /\ MaxTime \in Nat /\ None \notin Nat

VARIABLES
    now,            \* the clock
    enabled,        \* module_wf_enabled
    lastAlert,      \* port_monitor_last_alert_at, or None
    lock,           \* the thread that holds advisory lock 815003, or None
    thread,         \* per monitor, [pc, now]: the clock as its cycle began
    mail            \* history: [n, first], mails since the last excuse and the first one's time

pmvars == <<now, enabled, lastAlert, lock, thread, mail>>
vars   == <<wfvars, pmvars>>

Sleeping == [pc |-> "sleep", now |-> 0]
NoMail   == [n |-> 0, first |-> 0]

Init ==
    /\ WfInit
    /\ now = 0 /\ enabled = TRUE /\ lastAlert = None /\ lock = None
    /\ thread = [m \in Monitors |-> Sleeping] /\ mail = NoMail

Goto(m, pc) == thread' = [thread EXCEPT ![m].pc = pc]

(* Mutant: the lock is kept.                                                  *)
LeaveHolding(m) == thread' = [thread EXCEPT ![m] = Sleeping] /\ lock' = lock

(* The finally of _run_locked.                                                *)
Leave(m) == thread' = [thread EXCEPT ![m] = Sleeping] /\ lock' = None

-----------------------------------------------------------------------------
(* _monitor_loop: datetime.now() is an argument of _run_locked.               *)
Tick(m) ==
    /\ thread[m].pc = "sleep"
    /\ thread' = [thread EXCEPT ![m] = [pc |-> "tick", now |-> now]]
    /\ UNCHANGED <<wfvars, now, enabled, lastAlert, lock, mail>>

(* _run_locked: whoever does not get the lock goes back to sleep.             *)
TryLock(m) ==
    /\ thread[m].pc = "tick"
    /\ IF lock = None THEN lock' = m /\ Goto(m, "check")
       ELSE UNCHANGED lock /\ thread' = [thread EXCEPT ![m] = Sleeping]
    /\ UNCHANGED <<wfvars, now, enabled, lastAlert, mail>>

(* _run_check: the switch, then the question to the agent.                    *)
Check(m) ==
    /\ thread[m].pc = "check"
    /\ IF enabled
       THEN /\ Connect(m, [action |-> "list_docker_ports", arg |-> "all"])
            /\ Goto(m, "asks") /\ UNCHANGED lock
       ELSE /\ Leave(m) /\ UNCHANGED <<client, queue, hist>>
    /\ UNCHANGED <<kernel, disk, agent, spent, now, enabled, lastAlert, mail>>

(* _should_alert.                                                             *)
IsDue(m) == lastAlert = None \/ thread[m].now - lastAlert >= Interval

(* Mutant: the time of the last alert is not looked at.                       *)
HearAlways(m) ==
    /\ thread[m].pc = "asks" /\ client[m].state \in {"ok", "error"}
    /\ LET exposed == IF client[m].state = "ok" THEN client[m].heard ELSE {} IN
         IF exposed = {}
         THEN lastAlert' = None /\ mail' = NoMail /\ Leave(m)
         ELSE Goto(m, "mail") /\ UNCHANGED <<lastAlert, mail, lock>>
    /\ client' = [client EXCEPT ![m].state = "new", ![m].heard = {}]
    /\ UNCHANGED <<kernel, disk, agent, queue, spent, hist, now, enabled>>

(* _get_exposed_ports and the rest of _run_check.  No answer, or an error,    *)
(* looks like no exposed port, and the time of the last alert is cleared.     *)
Hear(m) ==
    /\ thread[m].pc = "asks" /\ client[m].state \in {"ok", "error"}
    /\ LET exposed == IF client[m].state = "ok" THEN client[m].heard ELSE {} IN
         IF exposed = {}
         THEN lastAlert' = None /\ mail' = NoMail /\ Leave(m)
         ELSE IF IsDue(m)
         THEN Goto(m, "mail") /\ UNCHANGED <<lastAlert, mail, lock>>
         ELSE Leave(m) /\ UNCHANGED <<lastAlert, mail>>
    /\ client' = [client EXCEPT ![m].state = "new", ![m].heard = {}]
    /\ UNCHANGED <<kernel, disk, agent, queue, spent, hist, now, enabled>>

(* send_email, at the instant the cycle carries.                              *)
SendMail(m) ==
    /\ thread[m].pc = "mail"
    /\ mail' = [n |-> mail.n + 1, first |-> IF mail.n = 0 THEN thread[m].now ELSE mail.first]
    /\ Goto(m, "save")
    /\ UNCHANGED <<wfvars, now, enabled, lastAlert, lock>>

(* _save_last_alert, then the audit row, then the lock.                       *)
Save(m) ==
    /\ thread[m].pc = "save"
    /\ lastAlert' = thread[m].now /\ Leave(m)
    /\ UNCHANGED <<wfvars, now, enabled, mail>>

(* The client's timeout, an exception while sending or storing, or the end of *)
(* the process, whose connection takes the lock with it.  A question nobody   *)
(* waits for changes nothing and is taken out of the agent's way.  A mail     *)
(* whose time was not stored excuses the next one.                            *)
Fail(m) ==
    /\ thread[m].pc # "sleep" /\ Spend("console")
    /\ \/ /\ thread[m].pc = "asks" /\ client[m].state = "waits"
          /\ client' = [client EXCEPT ![m].state = "error"]
          /\ UNCHANGED <<thread, lock, mail>>
       \/ /\ client' = [client EXCEPT ![m].state = "new", ![m].heard = {}]
          /\ thread' = [thread EXCEPT ![m] = Sleeping]
          /\ lock' = IF lock = m THEN None ELSE lock
          /\ mail' = IF thread[m].pc = "save" THEN NoMail ELSE mail
    /\ queue' = SelectSeq(queue, LAMBDA c : c # m)
    /\ agent' = IF agent.client = m THEN Idle ELSE agent
    /\ UNCHANGED <<kernel, disk, hist, now, enabled, lastAlert>>

(* The switch of the WF module.                                               *)
Toggle ==
    /\ enabled' = ~enabled
    /\ UNCHANGED <<wfvars, now, lastAlert, lock, thread, mail>>

Advance ==
    /\ now < MaxTime /\ now' = now + 1
    /\ UNCHANGED <<wfvars, enabled, lastAlert, lock, thread, mail>>

Monitor(m) == Tick(m) \/ TryLock(m) \/ Check(m) \/ Hear(m) \/ SendMail(m) \/ Save(m)

Next ==
    \/ WfNext /\ UNCHANGED pmvars
    \/ \E m \in Monitors : Monitor(m) \/ Fail(m)
    \/ Toggle \/ Advance

Spec == Init /\ [][Next]_vars

(* systemd restarts the agent and its loop runs on; so do the threads.        *)
FairSpec ==
    /\ Spec
    /\ WF_vars(AgentOwn /\ UNCHANGED pmvars)
    /\ \A m \in Monitors : WF_vars(Monitor(m))

-----------------------------------------------------------------------------
(* However the threads of the processes interleave, the administrators get    *)
(* one mail per interval about ports that stay exposed: n mails span at least *)
(* n - 1 intervals (_run_locked, _should_alert).  An answer without an        *)
(* exposed port, no answer at all and a mail whose time was not stored start  *)
(* the count anew.                                                            *)
AlertSpacing == mail.n > 0 => now - mail.first >= (mail.n - 1) * Interval

(* A port that is exposed while no alert is on record gets one, unless it is  *)
(* protected or the module is switched off first, whatever single trouble the *)
(* agent or a console process has (_monitor_loop's except, restarts).         *)
ExposedIsReported ==
    (Exposed # {} /\ lastAlert = None) ~> (lastAlert # None \/ Exposed = {} \/ ~enabled)
=============================================================================
