---------------------------- MODULE WfAgentProofs ----------------------------
(***************************************************************************)
(* Proofs about the firewall agent (WfAgent) and the port monitor that     *)
(* asks it (PortMonitor), for every set of ports, requests and troubles.   *)
(***************************************************************************)
EXTENDS PortMonitor, FiniteSetTheorems, SequenceTheorems, TLAPS

(* The monitor's alerts.                                                   *)

Stations == {"sleep", "tick", "check", "asks", "mail", "save"}
Inside   == {"check", "asks", "mail", "save"}

MonitorOK ==
  /\ now \in Nat /\ lastAlert \in Nat \cup {None} /\ lock \in Monitors \cup {None}
  /\ thread \in [Monitors -> [pc : Stations, now : Nat]]
  /\ mail \in [n : Nat, first : Nat]

\* Whoever is inside holds the lock; the last mail's time is on record or in
\* the hands of the one that is about to record it, and spaced.
AlertInv ==
  /\ \A m \in Monitors : thread[m].pc \in Inside => lock = m
  /\ \A m \in Monitors : thread[m].now <= now
  /\ \A m \in Monitors : thread[m].pc = "mail" => IsDue(m)
  /\ \A m \in Monitors : thread[m].pc = "save" =>
       mail.n > 0 /\ thread[m].now - mail.first >= (mail.n - 1) * Interval
  /\ mail.n > 0 /\ (\A m \in Monitors : thread[m].pc # "save") =>
       /\ lastAlert # None /\ lastAlert <= now
       /\ lastAlert - mail.first >= (mail.n - 1) * Interval

LEMMA MonitorConstants ==
  None \notin Monitors /\ None \notin Nat /\ Interval \in Nat /\ MaxTime \in Nat
BY WfAssumption, MonitorAssumption

\* One more mail, one more interval.
LEMMA OneMore ==
  ASSUME NEW n \in Nat PROVE (n + 1 - 1) * Interval = (n - 1) * Interval + Interval
BY MonitorConstants

LEMMA AlertInit == Init => MonitorOK /\ AlertInv
<1> SUFFICES ASSUME Init PROVE MonitorOK /\ AlertInv
  OBVIOUS
<1>1. /\ now = 0 /\ lastAlert = None /\ lock = None
      /\ thread = [m \in Monitors |-> Sleeping] /\ mail = NoMail
  BY DEF Init
<1>2. Sleeping \in [pc : Stations, now : Nat] /\ Sleeping.pc = "sleep" /\ Sleeping.now = 0
  BY DEF Sleeping, Stations
<1>3. MonitorOK
  BY <1>1, <1>2 DEF MonitorOK, NoMail
<1> QED BY <1>1, <1>2, <1>3 DEF AlertInv, NoMail, Inside

\* One monitor moves, mail and record stay, it is not among those that save.
LEMMA AlertMoves ==
  ASSUME MonitorOK, AlertInv, NEW m \in Monitors, NEW x \in [pc : Stations, now : Nat],
         thread' = [thread EXCEPT ![m] = x], UNCHANGED <<now, lastAlert, mail>>,
         lock' \in Monitors \cup {None},
         x.pc \in Inside => lock' = m,
         lock' = lock \/ (lock = None /\ lock' = m) \/ (lock = m /\ lock' = None),
         x.now <= now, x.pc = "mail" => lastAlert = None \/ x.now - lastAlert >= Interval,
         x.pc # "save", thread[m].pc # "save"
  PROVE  MonitorOK' /\ AlertInv'
<1>1. /\ thread'[m] = x /\ \A i \in Monitors : i # m => thread'[i] = thread[i]
      /\ MonitorOK'
  BY DEF MonitorOK
<1>2. \A i \in Monitors : thread'[i].pc \in Inside => lock' = i
  BY <1>1, MonitorConstants DEF AlertInv
<1>3. \A i \in Monitors : thread'[i].now <= now'
  BY <1>1 DEF AlertInv
<1>4. \A i \in Monitors : thread'[i].pc = "mail" => IsDue(i)'
  BY <1>1 DEF AlertInv, IsDue
<1>5. \A i \in Monitors : thread'[i].pc = "save" =>
        mail'.n > 0 /\ thread'[i].now - mail'.first >= (mail'.n - 1) * Interval
  BY <1>1 DEF AlertInv
<1>6. mail'.n > 0 /\ (\A i \in Monitors : thread'[i].pc # "save") =>
        /\ lastAlert' # None /\ lastAlert' <= now'
        /\ lastAlert' - mail'.first >= (mail'.n - 1) * Interval
  BY <1>1 DEF AlertInv
<1> QED BY <1>1, <1>2, <1>3, <1>4, <1>5, <1>6 DEF AlertInv

\* A monitor that has no mail to record goes home, and its lock goes with it.
LEMMA AlertHome ==
  ASSUME MonitorOK, AlertInv, NEW m \in Monitors, thread[m].pc # "save",
         thread' = [thread EXCEPT ![m] = Sleeping], UNCHANGED <<now, lastAlert, mail>>,
         lock' = lock \/ (lock = m /\ lock' = None),
         thread[m].pc \in Inside => lock' = None
  PROVE  MonitorOK' /\ AlertInv'
<1>1. PICK x \in [pc : Stations, now : Nat] : x = Sleeping
  BY DEF Sleeping, Stations
<1>2. x.pc = "sleep" /\ x.now = 0
  BY <1>1 DEF Sleeping
<1>3. x.pc \notin Inside /\ x.pc # "mail" /\ x.pc # "save"
  BY <1>2 DEF Inside
<1>4. now \in Nat /\ x.now <= now
  BY <1>2 DEF MonitorOK
<1>5. lock' \in Monitors \cup {None}
  BY DEF MonitorOK
<1>6. thread' = [thread EXCEPT ![m] = x]
  BY <1>1
<1> HIDE DEF MonitorOK, AlertInv
<1> QED BY <1>3, <1>4, <1>5, <1>6, AlertMoves

LEMMA AlertStep == MonitorOK /\ AlertInv /\ [Next]_vars => MonitorOK' /\ AlertInv'
<1> SUFFICES ASSUME MonitorOK, AlertInv, [Next]_vars PROVE MonitorOK' /\ AlertInv'
  OBVIOUS
<1> USE MonitorConstants
<1>0. thread \in [Monitors -> [pc : Stations, now : Nat]] /\ now \in Nat
  BY DEF MonitorOK
<1>1. Sleeping \in [pc : Stations, now : Nat] /\ Sleeping.pc = "sleep" /\ Sleeping.now = 0
  BY DEF Sleeping, Stations
<1>2. ASSUME UNCHANGED pmvars PROVE MonitorOK' /\ AlertInv'
  BY <1>2 DEF pmvars, MonitorOK, AlertInv, IsDue
<1>3. ASSUME NEW m \in Monitors, Tick(m) PROVE MonitorOK' /\ AlertInv'
  <2>1. PICK x \in [pc : Stations, now : Nat] : x = [pc |-> "tick", now |-> now]
    BY <1>0 DEF Stations
  <2>2. x.pc = "tick" /\ x.now <= now
    BY <1>0, <2>1
  <2>3. x.pc \notin Inside /\ x.pc # "mail" /\ x.pc # "save"
    BY <2>2 DEF Inside
  <2>4. /\ thread[m].pc # "save" /\ thread' = [thread EXCEPT ![m] = x]
        /\ UNCHANGED <<now, lastAlert, mail>> /\ lock' = lock
    BY <1>3, <2>1 DEF Tick
  <2>5. lock' \in Monitors \cup {None}
    BY <2>4 DEF MonitorOK
  <2> QED BY <2>2, <2>3, <2>4, <2>5, AlertMoves
<1>4. ASSUME NEW m \in Monitors, TryLock(m) PROVE MonitorOK' /\ AlertInv'
  <2>1. thread[m].pc = "tick" /\ thread[m].now <= now /\ UNCHANGED <<now, lastAlert, mail>>
    BY <1>4 DEF TryLock, AlertInv
  <2>2. CASE lock = None
    <3>1. PICK x \in [pc : Stations, now : Nat] : x = [thread[m] EXCEPT !.pc = "check"]
      BY <1>0 DEF Stations
    <3>2. x.pc = "check" /\ x.now = thread[m].now
      BY <1>0, <3>1
    <3>3. thread' = [thread EXCEPT ![m] = x] /\ lock' = m
      BY <1>4, <2>2, <3>1 DEF TryLock, Goto
    <3> QED BY <2>1, <2>2, <3>2, <3>3, AlertMoves
  <2>3. CASE lock # None
    <3>1. thread' = [thread EXCEPT ![m] = Sleeping] /\ lock' = lock
      BY <1>4, <2>3 DEF TryLock
    <3>2. thread[m].pc \notin Inside /\ thread[m].pc # "save"
      BY <2>1 DEF Inside
    <3> QED BY <2>1, <3>1, <3>2, AlertHome
  <2> QED BY <2>2, <2>3
\* Whoever is inside and has no mail to record goes home.
<1>5. ASSUME NEW m \in Monitors, thread[m].pc \in Inside, thread[m].pc # "save",
             UNCHANGED <<now, lastAlert, mail>>, Leave(m)
      PROVE  MonitorOK' /\ AlertInv'
  <2>1. thread' = [thread EXCEPT ![m] = Sleeping] /\ lock' = None /\ lock = m
    BY <1>5 DEF Leave, AlertInv
  <2> QED BY <1>5, <2>1, AlertHome
<1>6. ASSUME NEW m \in Monitors, Check(m) PROVE MonitorOK' /\ AlertInv'
  <2>1. thread[m].pc = "check" /\ thread[m].now <= now /\ UNCHANGED <<now, lastAlert, mail>> /\ lock = m
    BY <1>6 DEF Check, AlertInv, Inside
  <2>2. CASE enabled
    <3>1. PICK x \in [pc : Stations, now : Nat] : x = [thread[m] EXCEPT !.pc = "asks"]
      BY <1>0 DEF Stations
    <3>2. x.pc = "asks" /\ x.now = thread[m].now
      BY <1>0, <3>1
    <3>3. thread' = [thread EXCEPT ![m] = x] /\ lock' = lock
      BY <1>6, <2>2, <3>1 DEF Check, Goto
    <3> QED BY <2>1, <3>2, <3>3, AlertMoves
  <2>3. CASE ~enabled
    BY <1>5, <1>6, <2>1, <2>3 DEF Check, Inside
  <2> QED BY <2>2, <2>3
<1>7. ASSUME NEW m \in Monitors, Hear(m) PROVE MonitorOK' /\ AlertInv'
  <2>1. thread[m].pc = "asks" /\ thread[m].now <= now /\ now' = now /\ lock = m
    BY <1>7 DEF Hear, AlertInv, Inside
  <2>2. \/ lastAlert' = None /\ mail' = NoMail /\ Leave(m)
        \/ IsDue(m) /\ Goto(m, "mail") /\ UNCHANGED <<lastAlert, mail, lock>>
        \/ Leave(m) /\ UNCHANGED <<lastAlert, mail>>
    BY <1>7 DEF Hear
  <2>3. CASE lastAlert' = None /\ mail' = NoMail /\ Leave(m)
    <3>1. thread'[m] = Sleeping /\ lock' = None /\ \A i \in Monitors : i # m => thread'[i] = thread[i]
      BY <1>0, <2>3 DEF Leave
    <3>2. \A i \in Monitors : thread'[i].pc \notin Inside
      BY <1>1, <2>1, <3>1 DEF AlertInv, Inside
    <3>3. MonitorOK'
      BY <1>0, <1>1, <2>1, <2>3 DEF MonitorOK, Leave, NoMail
    <3>4. \A i \in Monitors : thread'[i].now <= now'
      BY <1>0, <1>1, <2>1, <3>1 DEF AlertInv
    <3> QED BY <2>3, <3>2, <3>3, <3>4 DEF AlertInv, NoMail, Inside
  <2>4. CASE IsDue(m) /\ Goto(m, "mail") /\ UNCHANGED <<lastAlert, mail, lock>>
    <3>1. PICK x \in [pc : Stations, now : Nat] : x = [thread[m] EXCEPT !.pc = "mail"]
      BY <1>0 DEF Stations
    <3>2. x.pc = "mail" /\ x.now = thread[m].now
      BY <1>0, <3>1
    <3>3. thread' = [thread EXCEPT ![m] = x]
      BY <2>4, <3>1 DEF Goto
    <3>4. lastAlert = None \/ x.now - lastAlert >= Interval
      BY <2>4, <3>2 DEF IsDue
    <3> QED BY <2>1, <2>4, <3>2, <3>3, <3>4, AlertMoves
  <2>5. CASE Leave(m) /\ UNCHANGED <<lastAlert, mail>>
    BY <1>5, <2>1, <2>5 DEF Inside
  <2> QED BY <2>2, <2>3, <2>4, <2>5
<1>8. ASSUME NEW m \in Monitors, SendMail(m) PROVE MonitorOK' /\ AlertInv'
  <2>1. /\ thread[m].pc = "mail" /\ lock = m /\ IsDue(m) /\ thread[m].now <= now
        /\ thread' = [thread EXCEPT ![m].pc = "save"] /\ UNCHANGED <<now, lastAlert, lock>>
        /\ mail' = [n |-> mail.n + 1, first |-> IF mail.n = 0 THEN thread[m].now ELSE mail.first]
    BY <1>8 DEF SendMail, Goto, AlertInv, Inside
  <2>2. /\ thread'[m].pc = "save" /\ thread'[m].now = thread[m].now
        /\ \A i \in Monitors : i # m => thread'[i] = thread[i]
    BY <1>0, <2>1
  <2>3. MonitorOK'
    BY <1>0, <2>1 DEF MonitorOK, Stations
  <2>4. \A i \in Monitors : i # m => thread[i].pc \notin Inside
    BY <2>1 DEF AlertInv
  <2>5. thread[m].now - mail'.first >= (mail'.n - 1) * Interval
    <3>1. mail.n \in Nat /\ mail.first \in Nat /\ lastAlert \in Nat \cup {None} /\ thread[m].now \in Nat
      BY <1>0 DEF MonitorOK
    <3>2. mail'.n = mail.n + 1 /\ mail'.first = IF mail.n = 0 THEN thread[m].now ELSE mail.first
      BY <2>1
    <3>3. CASE mail.n = 0
      BY <3>1, <3>2, <3>3
    <3>4. CASE mail.n > 0
      <4>1. lastAlert # None /\ lastAlert - mail.first >= (mail.n - 1) * Interval
        BY <2>1, <2>4, <3>4 DEF AlertInv, Inside
      <4>2. thread[m].now - lastAlert >= Interval
        BY <2>1, <4>1 DEF IsDue
      <4>3. (mail.n + 1 - 1) * Interval = (mail.n - 1) * Interval + Interval
        BY <3>1, OneMore
      <4> DEFINE a == (mail.n - 1) * Interval
      <4>4. a \in Int
        BY <3>1
      <4> HIDE DEF a
      <4>5. lastAlert - mail.first >= a /\ lastAlert \in Nat
        BY <3>1, <4>1 DEF a
      <4>6. thread[m].now - mail.first >= a + Interval
        BY <3>1, <4>2, <4>4, <4>5
      <4>7. mail'.first = mail.first /\ (mail'.n - 1) * Interval = a + Interval
        BY <3>1, <3>2, <3>4, <4>3 DEF a
      <4> QED BY <4>6, <4>7
    <3> QED BY <3>1, <3>3, <3>4
  <2>6. mail'.n > 0
    BY <2>1 DEF MonitorOK
  <2>7. \A i \in Monitors : thread'[i].now <= now' /\ (thread'[i].pc \in Inside => i = m)
    BY <2>1, <2>2, <2>4 DEF AlertInv
  <2> QED BY <2>1, <2>2, <2>3, <2>5, <2>6, <2>7 DEF AlertInv, Inside
<1>9. ASSUME NEW m \in Monitors, Save(m) PROVE MonitorOK' /\ AlertInv'
  <2>1. /\ thread[m].pc = "save" /\ lock = m /\ thread[m].now <= now
        /\ thread' = [thread EXCEPT ![m] = Sleeping] /\ lock' = None
        /\ lastAlert' = thread[m].now /\ UNCHANGED <<now, mail>>
    BY <1>9 DEF Save, Leave, AlertInv, Inside
  <2>2. thread'[m] = Sleeping /\ \A i \in Monitors : i # m => thread'[i] = thread[i]
    BY <1>0, <2>1
  <2>3. MonitorOK'
    BY <1>0, <1>1, <2>1 DEF MonitorOK
  <2>4. \A i \in Monitors : thread'[i].pc \notin Inside /\ thread'[i].now <= now'
    BY <1>0, <1>1, <2>1, <2>2 DEF AlertInv, Inside
  <2>5. thread[m].now - mail.first >= (mail.n - 1) * Interval /\ lastAlert' # None
    BY <1>0, <2>1 DEF AlertInv
  <2> QED BY <2>1, <2>3, <2>4, <2>5 DEF AlertInv, Inside
<1>10. ASSUME NEW m \in Monitors, Fail(m) PROVE MonitorOK' /\ AlertInv'
  <2>1. now' = now /\ lastAlert' = lastAlert /\ thread[m].pc # "sleep"
    BY <1>10 DEF Fail
  <2>2. CASE UNCHANGED <<thread, lock, mail>>
    BY <2>1, <2>2 DEF MonitorOK, AlertInv, IsDue
  <2>3. CASE /\ thread' = [thread EXCEPT ![m] = Sleeping]
             /\ lock' = IF lock = m THEN None ELSE lock
             /\ mail' = IF thread[m].pc = "save" THEN NoMail ELSE mail
    <3>1. CASE thread[m].pc # "save"
      <4>1. UNCHANGED <<now, lastAlert, mail>>
        BY <2>1, <2>3, <3>1
      <4>2. lock' = lock \/ (lock = m /\ lock' = None)
        BY <2>3
      <4>3. thread[m].pc \in Inside => lock' = None
        BY <2>3 DEF AlertInv
      <4> QED BY <2>3, <3>1, <4>1, <4>2, <4>3, AlertHome
    <3>2. CASE thread[m].pc = "save"
      <4>1. lock = m /\ lock' = None /\ mail' = NoMail
        BY <2>3, <3>2 DEF AlertInv, Inside
      <4>2. thread'[m] = Sleeping /\ \A i \in Monitors : i # m => thread'[i] = thread[i]
        BY <1>0, <2>3
      <4>3. \A i \in Monitors : thread'[i].pc \notin Inside /\ thread'[i].now <= now'
        BY <1>0, <1>1, <2>1, <4>1, <4>2 DEF AlertInv, Inside
      <4>4. MonitorOK'
        BY <1>0, <1>1, <2>1, <2>3, <4>1 DEF MonitorOK, NoMail
      <4> QED BY <4>1, <4>3, <4>4 DEF AlertInv, Inside, NoMail
    <3> QED BY <3>1, <3>2
  <2> QED BY <1>10, <2>2, <2>3 DEF Fail
<1>11. CASE Toggle \/ Advance
  <2>1. now' \in Nat /\ now <= now' /\ UNCHANGED <<lastAlert, lock, thread, mail>>
    BY <1>0, <1>11 DEF Toggle, Advance
  <2>2. \A m \in Monitors : thread[m].now <= now'
    BY <1>0, <2>1 DEF AlertInv
  <2>3. lastAlert # None /\ lastAlert <= now => lastAlert <= now'
    BY <1>0, <2>1 DEF MonitorOK
  <2> QED BY <2>1, <2>2, <2>3 DEF MonitorOK, AlertInv, IsDue
<1>12. CASE UNCHANGED vars
  BY <1>2, <1>12 DEF vars
<1> QED BY <1>2, <1>3, <1>4, <1>6, <1>7, <1>8, <1>9, <1>10, <1>11, <1>12 DEF Next, Monitor

(* However the monitor threads of the console's processes interleave, n mails *)
(* about ports that stay exposed span at least n - 1 intervals: _run_locked   *)
(* and _should_alert.                                                         *)
THEOREM MonitorAlertSpacing == Spec => []AlertSpacing
<1>1. Init => MonitorOK /\ AlertInv
  BY AlertInit
<1>2. MonitorOK /\ AlertInv /\ [Next]_vars => (MonitorOK /\ AlertInv)'
  BY AlertStep
<1>3. MonitorOK /\ AlertInv => AlertSpacing
  <2> SUFFICES ASSUME MonitorOK, AlertInv, mail.n > 0
               PROVE  now - mail.first >= (mail.n - 1) * Interval
    BY DEF AlertSpacing
  <2> DEFINE a == (mail.n - 1) * Interval
  <2>1. a \in Int /\ now \in Nat /\ mail.first \in Nat
    BY MonitorConstants DEF MonitorOK
  <2>2. CASE \E m \in Monitors : thread[m].pc = "save"
    <3>1. PICK m \in Monitors : thread[m].pc = "save"
      BY <2>2
    <3>2. thread[m].now - mail.first >= a /\ thread[m].now <= now /\ thread[m].now \in Nat
      BY <3>1 DEF AlertInv, MonitorOK
    <3> HIDE DEF a
    <3>3. now - mail.first >= a
      BY <2>1, <3>2
    <3> QED BY <3>3 DEF a
  <2>3. CASE \A m \in Monitors : thread[m].pc # "save"
    <3>1. lastAlert - mail.first >= a /\ lastAlert <= now /\ lastAlert \in Nat
      BY <2>3 DEF AlertInv, MonitorOK
    <3> HIDE DEF a
    <3>2. now - mail.first >= a
      BY <2>1, <3>1
    <3> QED BY <3>2 DEF a
  <2> QED BY <2>2, <2>3
<1> QED BY <1>1, <1>2, <1>3, PTL DEF Spec

(* The agent's programs.                                                   *)

Modes     == {"idle", "busy", "down", "boot"}
States    == {"new", "saw", "waits", "ok", "error"}
RuleKinds == {"accept", "drop"}
Targets   == {cmd.arg : cmd \in Commands} \cup {"ssh", "web"}
Subjected == Chained \cup Targets
Ops       == {"cut", "put", "truncate", "add", "remove", "verify", "mark", "ufw",
              "ufw_deny_incoming", "ufw_enable", "ufw_delete_limit", "ufw_delete"}
CallOn    == Subjected \cup {"all"}
CallKinds == RuleKinds \cup {"none", "allow", "deny", "limit"}
Calls     == [op : Ops, on : CallOn, kind : CallKinds]
UfwRule   == [to : CallOn, verdict : CallKinds]

SuffixOf(s, P) == Len(s) <= Len(P) /\ \A i \in 1 .. Len(s) : s[i] = P[Len(P) - Len(s) + i]

\* What Without leaves is of the other kind; nothing, if there was no other.
LEMMA CutKeeps ==
  ASSUME NEW s \in Seq(RuleKinds), NEW k \in RuleKinds
  PROVE  /\ Without(s, k) \in Seq(RuleKinds \ {k})
         /\ s \in Seq({k}) => Without(s, k) = <<>>
<1> DEFINE rest == {i \in DOMAIN s : s[i] # k}
<1>1. DOMAIN s = 1 .. Len(s) /\ Len(s) \in Nat
  OBVIOUS
<1>2. IsFiniteSet(1 .. Len(s))
  BY <1>1, FS_Interval
<1>3. IsFiniteSet(rest) /\ Cardinality(rest) \in Nat
  BY <1>1, <1>2, FS_Subset, FS_CardinalityType
<1> DEFINE n == Cardinality(rest)
<1>4. Without(s, k) = [i \in 1 .. n |-> IF k = "drop" THEN "accept" ELSE "drop"]
  BY DEF Without
<1> HIDE DEF n
<1>5. n \in Nat
  BY <1>3 DEF n
<1>6. Without(s, k) \in Seq(RuleKinds \ {k})
  BY <1>4, <1>5 DEF RuleKinds
<1>7. ASSUME s \in Seq({k}) PROVE Without(s, k) = <<>>
  <2>1. rest = {}
    BY <1>1, <1>7
  <2>2. n = 0
    BY <2>1, FS_EmptySet DEF n
  <2> QED BY <1>4, <1>5, <1>6, <2>2
<1> QED BY <1>6, <1>7

LEMMA SuffixTail ==
  ASSUME NEW S, NEW s \in Seq(S), NEW P \in Seq(S), SuffixOf(s, P), s # <<>>
  PROVE  /\ SuffixOf(Tail(s), P) /\ Head(s) = P[Len(P) - Len(s) + 1]
         /\ Len(s) \in 1 .. Len(P) /\ Tail(s) \in Seq(S) /\ Len(Tail(s)) = Len(s) - 1
<1>1. /\ Len(s) \in Nat \ {0} /\ Len(P) \in Nat /\ Tail(s) \in Seq(S) /\ Len(Tail(s)) = Len(s) - 1
      /\ \A i \in 1 .. Len(s) - 1 : Tail(s)[i] = s[i + 1]
  OBVIOUS
<1> QED BY <1>1 DEF SuffixOf

LEMMA SuffixEnds ==
  ASSUME NEW S, NEW P \in Seq(S) PROVE SuffixOf(P, P) /\ SuffixOf(<<>>, P)
BY DEF SuffixOf

LEMMA WfConstants ==
  /\ Torn \notin Chained /\ "ssh" \notin Chained /\ "web" \notin Chained /\ Console \in Chained /\ Console \notin Ports
  /\ Ports \subseteq Chained /\ Published \subseteq Ports /\ Reserved \subseteq Ports
  /\ None \notin Clients /\ None \notin Ports /\ None \notin Commands
BY WfAssumption, CommandsAssumption DEF Chained, Clients

LEMMA ProtectIs ==
  ASSUME NEW p \in Ports
  PROVE  /\ Protect(p) \in Seq(Calls) /\ Len(Protect(p)) = 7
         /\ Protect(p)[1] = Call("cut", p, "accept") /\ Protect(p)[2] = Call("cut", p, "drop")
         /\ Protect(p)[3] = Call("put", p, "drop") /\ Protect(p)[4] = Call("put", p, "accept")
         /\ Protect(p)[5] = Call("truncate", p, "none") /\ Protect(p)[6] = Call("add", p, "none")
         /\ Protect(p)[7] = Call("verify", p, "none")
BY WfConstants DEF Protect, Call, Calls, Ops, RuleKinds, CallOn, CallKinds, Subjected

LEMMA UnprotectIs ==
  ASSUME NEW p \in Ports
  PROVE  /\ Unprotect(p) \in Seq(Calls) /\ Len(Unprotect(p)) = 4
         /\ Unprotect(p)[1] = Call("cut", p, "accept") /\ Unprotect(p)[2] = Call("cut", p, "drop")
         /\ Unprotect(p)[3] = Call("truncate", p, "none") /\ Unprotect(p)[4] = Call("remove", p, "none")
BY WfConstants DEF Unprotect, Call, Calls, Ops, RuleKinds, CallOn, CallKinds, Subjected

LEMMA SecureIs ==
  /\ SecureConsole \in Seq(Calls) /\ Len(SecureConsole) = 5
  /\ SecureConsole[1] = Call("cut", Console, "drop")
  /\ SecureConsole[2] = Call("cut", Console, "accept")
  /\ SecureConsole[3] = Call("put", Console, "drop")
  /\ SecureConsole[4] = Call("put", Console, "accept")
  /\ SecureConsole[5] = Call("mark", Console, "none")
BY WfConstants DEF SecureConsole, Call, Calls, Ops, RuleKinds, CallOn, CallKinds, Subjected

LEMMA InitIs ==
  /\ InitFirewall \in Seq(Calls) /\ Len(InitFirewall) = 4
  /\ InitFirewall[1] = Call("ufw_deny_incoming", "all", "none")
  /\ InitFirewall[2] = Call("ufw", "ssh", "allow")
  /\ InitFirewall[3] = Call("ufw", "web", "allow")
  /\ InitFirewall[4] = Call("ufw_enable", "all", "none")
BY DEF InitFirewall, Call, Calls, Ops, RuleKinds, CallOn, CallKinds, Subjected, Targets

\* What a command of ufw is, and that it touches neither chains nor marker.
LEMMA ProgramIs ==
  ASSUME NEW cmd \in Commands
  PROVE  /\ Program(cmd) \in Seq(Calls)
         /\ cmd.action = "protect_host_port" =>
              /\ cmd.arg \in Ports
              /\ Program(cmd) = IF cmd.arg \in Reserved THEN <<>> ELSE Protect(cmd.arg)
         /\ cmd.action = "unprotect_host_port" =>
              cmd.arg \in Ports /\ Program(cmd) = Unprotect(cmd.arg)
         /\ cmd.action = "secure_console_port" => Program(cmd) = SecureConsole
         /\ cmd.action = "init_firewall" => Program(cmd) = InitFirewall
         /\ cmd.action = "limit_port" => Program(cmd) = << Call("ufw", cmd.arg, "limit") >>
         /\ cmd.action = "unlimit_port" =>
              Program(cmd) = << Call("ufw_delete_limit", cmd.arg, "none"), Call("ufw", cmd.arg, "allow") >>
         /\ cmd.action = "allow_port" => Program(cmd) = << Call("ufw", cmd.arg, "allow") >>
         /\ cmd.action = "deny_port" => Program(cmd) = << Call("ufw", cmd.arg, "deny") >>
         /\ cmd.action = "delete_rule" => Program(cmd) = << Call("ufw_delete", cmd.arg, "none") >>
         /\ cmd.action \in PortActions \cup UfwActions
                            \cup {"secure_console_port", "init_firewall", "delete_rule"}
         /\ cmd.action \in UfwActions => cmd.arg \notin Chained
<1>1. cmd.arg \in Targets
  BY DEF Targets
<1>2. /\ cmd.action \in PortActions \cup UfwActions
                            \cup {"secure_console_port", "init_firewall", "delete_rule"}
      /\ cmd.action \in UfwActions => cmd.arg \notin Chained
      /\ cmd.action \in PortActions => cmd.arg \in Ports
  BY CommandsAssumption DEF PortActions, UfwActions
<1>3. CASE cmd.action = "protect_host_port"
  <2>1. Program(cmd) = IF cmd.arg \in Reserved THEN <<>> ELSE Protect(cmd.arg)
    BY <1>3 DEF Program
  <2>2. cmd.arg \in Ports /\ <<>> \in Seq(Calls)
    BY <1>2, <1>3 DEF PortActions
  <2>3. Program(cmd) \in Seq(Calls)
    BY <2>1, <2>2, ProtectIs
  <2> QED BY <1>2, <1>3, <2>1, <2>2, <2>3
<1>4. CASE cmd.action = "unprotect_host_port"
  BY <1>2, <1>4, UnprotectIs DEF Program, PortActions, UfwActions
<1>5. CASE cmd.action = "secure_console_port"
  BY <1>2, <1>5, SecureIs DEF Program, PortActions, UfwActions
<1>6. CASE cmd.action = "init_firewall"
  BY <1>2, <1>6, InitIs DEF Program, PortActions, UfwActions
<1>7. ASSUME NEW k \in {"allow", "deny", "limit"} PROVE Call("ufw", cmd.arg, k) \in Calls
  BY <1>1 DEF Call, Calls, Ops, CallOn, CallKinds, Subjected
<1>8. Call("ufw_delete_limit", cmd.arg, "none") \in Calls /\ Call("ufw_delete", cmd.arg, "none") \in Calls
  BY <1>1 DEF Call, Calls, Ops, CallOn, CallKinds, Subjected
<1>14. \A x, y \in Calls : << x >> \in Seq(Calls) /\ << x, y >> \in Seq(Calls)
  <2> HIDE DEF Calls
  <2> QED OBVIOUS
<1>9. CASE cmd.action = "limit_port"
  BY <1>2, <1>7, <1>9 DEF Program, PortActions, UfwActions
<1>10. CASE cmd.action = "unlimit_port"
  <2>1. Program(cmd) = << Call("ufw_delete_limit", cmd.arg, "none"), Call("ufw", cmd.arg, "allow") >>
    BY <1>10 DEF Program
  <2>2. Program(cmd) \in Seq(Calls)
    BY <1>7, <1>8, <1>14, <2>1
  <2> QED BY <1>2, <1>10, <2>1, <2>2
<1>11. CASE cmd.action = "allow_port"
  BY <1>2, <1>7, <1>11 DEF Program, PortActions, UfwActions
<1>12. CASE cmd.action = "deny_port"
  BY <1>2, <1>7, <1>12 DEF Program, PortActions, UfwActions
<1>13. CASE cmd.action = "delete_rule"
  <2>1. Program(cmd) = << Call("ufw_delete", cmd.arg, "none") >>
    BY <1>13 DEF Program
  <2>2. Program(cmd) \in Seq(Calls)
    BY <1>8, <1>14, <2>1
  <2> QED BY <1>2, <1>13, <2>1, <2>2
<1> QED BY <1>2, <1>3, <1>4, <1>5, <1>6, <1>9, <1>10, <1>11, <1>12, <1>13
            DEF PortActions, UfwActions

(* Types, and what the agent has in hand.                                  *)

AgentStates == [mode : Modes, cmd : Commands \cup {None}, client : Clients \cup Chained \cup {None},
                todo : Seq(Calls), boot : SUBSET Ports, copy : SUBSET Ports,
                ok : BOOLEAN, clean : BOOLEAN]
ClientStates == [state : States, cmd : Commands \cup {None}, seen : Seq(UfwRule),
                 heard : SUBSET Ports]
Histories == [half : SUBSET Subjected, lost : BOOLEAN,
              word : [Chained -> PortActions \cup {"none"}], asked : BOOLEAN]

WfTypes ==
  /\ chain \in [Chained -> Seq(RuleKinds)]
  /\ marker \in SUBSET (Ports \cup {Torn}) /\ secured \in BOOLEAN
  /\ ufw \in [on : BOOLEAN, deny : BOOLEAN, rules : Seq(UfwRule)]
  /\ agent \in AgentStates /\ queue \in Seq(Clients)
  /\ client \in [Clients -> ClientStates] /\ hist \in Histories

Unsent == {"new", "saw"}

Plan ==
  IF agent.mode = "busy" THEN Program(agent.cmd)
  ELSE IF agent.client = Console THEN SecureConsole ELSE Protect(agent.client)

HandOK ==
  /\ agent.mode = "busy" =>
       agent.cmd \in Commands /\ agent.client \in Clients /\ client[agent.client].state \notin Unsent
  /\ agent.mode = "boot" => agent.client \in Chained
  /\ agent.mode \in {"busy", "boot"} => SuffixOf(agent.todo, Plan)
  /\ agent.mode \in {"idle", "down"} => agent.todo = <<>> /\ agent.clean
  /\ agent.mode # "boot" => agent.boot = {}

QueueOK == \A i \in DOMAIN queue :
             client[queue[i]].state \notin Unsent /\ client[queue[i]].cmd \in Commands

ShapeInv == WfTypes /\ HandOK /\ QueueOK

\* Who has sent a command stays with it.
ClientsOn ==
  \A c \in Clients : client[c].state \notin Unsent =>
    /\ client'[c].state \notin Unsent
    /\ client'[c].cmd = client[c].cmd /\ client'[c].seen = client[c].seen

LEMMA PlanIs ==
  ASSUME ShapeInv, agent.mode \in {"busy", "boot"} PROVE Plan \in Seq(Calls)
<1>1. CASE agent.mode = "busy"
  <2>1. agent.cmd \in Commands
    BY <1>1 DEF ShapeInv, HandOK
  <2> QED BY <1>1, <2>1, ProgramIs DEF Plan
<1>2. CASE agent.mode = "boot"
  <2>1. agent.client \in Chained /\ Plan = IF agent.client = Console THEN SecureConsole ELSE Protect(agent.client)
    BY <1>2 DEF ShapeInv, HandOK, Plan
  <2> QED BY <2>1, SecureIs, ProtectIs DEF Chained
<1> QED BY <1>1, <1>2

\* The steps of the specification, the console's requests taken together.
LEMMA WfKinds ==
  ASSUME [WfNext]_wfvars
  PROVE  \/ \E c \in Clients : \/ Look(c) \/ GiveUp(c)
                               \/ \E cmd \in Commands, st \in Unsent : Sends(c, st, cmd)
         \/ Take \/ CutRules \/ PutRule \/ TruncateMarker \/ WriteMarker \/ MarkConsole \/ Read
         \/ UfwCall \/ Finish \/ Boot \/ Restore \/ Refuse \/ GetStuck \/ DiskFails \/ Crash \/ Reboot
         \/ UNCHANGED wfvars
<1>1. ASSUME NEW c \in Requests, Request(c)
      PROVE  Look(c) \/ \E cmd \in Commands, st \in Unsent : Sends(c, st, cmd)
  BY <1>1 DEF Request, SendRule, SendSsh, SendPort, DeleteSeen, SecurePort, Asked, Unsent
<1>2. Requests \subseteq Clients
  BY DEF Clients
<1> QED BY <1>1, <1>2 DEF WfNext, AgentOwn, Works, Wrong

LEMMA Connecting ==
  ASSUME ShapeInv, NEW c \in Clients, NEW cmd \in Commands, NEW st \in Unsent, Sends(c, st, cmd)
  PROVE  /\ client' \in [Clients -> ClientStates] /\ ClientsOn
         /\ \/ /\ agent.mode \in {"idle", "busy"} /\ queue' = Append(queue, c)
               /\ client'[c].state = "waits" /\ client'[c].cmd = cmd
               /\ hist' = IF cmd.action \in PortActions /\ cmd.arg \notin Reserved
                          THEN [hist EXCEPT !.word[cmd.arg] = cmd.action] ELSE hist
            \/ UNCHANGED <<queue, hist>>
         /\ client[c].state \in Unsent /\ UNCHANGED <<kernel, disk, agent>>
         /\ \A d \in Clients : d # c => client'[d] = client[d]
<1>1. client \in [Clients -> ClientStates] /\ client[c].state \in Unsent
  BY DEF ShapeInv, WfTypes, Sends
<1>2. PICK s \in {"waits", "error"} : client' = [client EXCEPT ![c] = [@ EXCEPT !.state = s, !.cmd = cmd]]
  BY DEF Sends, Connect, Says
<1>3. [client[c] EXCEPT !.state = s, !.cmd = cmd] \in ClientStates
  BY <1>1 DEF ClientStates, States
<1>4. /\ client' \in [Clients -> ClientStates] /\ client'[c] = [client[c] EXCEPT !.state = s, !.cmd = cmd]
      /\ \A d \in Clients : d # c => client'[d] = client[d]
  BY <1>1, <1>2, <1>3
<1>5. ClientsOn
  BY <1>1, <1>4 DEF ClientsOn
<1>6. client'[c].cmd = cmd
  BY <1>1, <1>4 DEF ClientStates
<1>7. \/ /\ agent.mode \in {"idle", "busy"} /\ queue' = Append(queue, c)
         /\ client'[c].state = "waits"
         /\ hist' = IF cmd.action \in PortActions /\ cmd.arg \notin Reserved
                    THEN [hist EXCEPT !.word[cmd.arg] = cmd.action] ELSE hist
      \/ UNCHANGED <<queue, hist>>
  <2>1. CASE Says(c, cmd) /\ queue' = Append(queue, c)
    <3>1. client'[c] = [client[c] EXCEPT !.state = "waits", !.cmd = cmd]
      BY <1>1, <2>1 DEF Says
    <3>2. client'[c].state = "waits"
      BY <1>1, <3>1 DEF ClientStates
    <3> QED BY <2>1, <3>2, <1>1 DEF Sends, Connect
  <2> QED BY <2>1 DEF Sends, Connect
<1> QED BY <1>1, <1>4, <1>5, <1>6, <1>7 DEF Sends

\* What is written into the history leaves it one.
LEMMA HistoryNotes ==
  ASSUME NEW h \in Histories
  PROVE  /\ [h EXCEPT !.lost = TRUE] \in Histories /\ [h EXCEPT !.asked = TRUE] \in Histories
         /\ \A x \in SUBSET Subjected : [h EXCEPT !.half = x] \in Histories
         /\ \A x \in SUBSET Subjected, l \in BOOLEAN : [h EXCEPT !.half = x, !.lost = l] \in Histories
         /\ \A p \in Chained, a \in PortActions : [h EXCEPT !.word[p] = a] \in Histories
<1> USE DEF Histories
<1>1. [h EXCEPT !.lost = TRUE] \in Histories /\ [h EXCEPT !.asked = TRUE] \in Histories
  OBVIOUS
<1>2. \A x \in SUBSET Subjected : [h EXCEPT !.half = x] \in Histories
  OBVIOUS
<1>3. \A x \in SUBSET Subjected, l \in BOOLEAN : [h EXCEPT !.half = x, !.lost = l] \in Histories
  OBVIOUS
<1>4. \A p \in Chained, a \in PortActions : [h EXCEPT !.word[p] = a] \in Histories
  OBVIOUS
<1> QED BY <1>1, <1>2, <1>3, <1>4

\* An answer leaves a client's record one.
LEMMA AnswerTyped ==
  ASSUME NEW x \in ClientStates, NEW s \in States, NEW ports \in SUBSET Ports
  PROVE  [x EXCEPT !.state = s, !.heard = ports] \in ClientStates
BY DEF ClientStates

LEMMA Answered ==
  ASSUME ShapeInv, agent.mode = "busy", NEW s \in {"ok", "error"}, NEW ports \in SUBSET Ports,
         Answer(s, ports)
  PROVE  client' \in [Clients -> ClientStates] /\ ClientsOn
<1>1. client \in [Clients -> ClientStates] /\ agent.client \in Clients
  BY DEF ShapeInv, WfTypes, HandOK
<1> DEFINE a == agent.client
<1>2. PICK x \in ClientStates : client' = [client EXCEPT ![a] = x] /\ x.cmd = client[a].cmd
                                /\ x.seen = client[a].seen /\ (x.state = client[a].state \/ x.state = s)
  <2>1. CASE client[a].state = "waits"
    <3>1. client[a] \in ClientStates /\ s \in States
      BY <1>1 DEF States
    <3>2. [client[a] EXCEPT !.state = s, !.heard = ports] \in ClientStates
      BY <3>1, AnswerTyped
    <3> QED BY <1>1, <2>1, <3>2 DEF Answer, ClientStates
  <2>2. CASE client[a].state # "waits"
    BY <1>1, <2>2 DEF Answer
  <2> QED BY <2>1, <2>2
<1> HIDE DEF a
<1>3. client' \in [Clients -> ClientStates]
  BY <1>1, <1>2
<1>4. \A c \in Clients : client'[c] = IF c = a THEN x ELSE client[c]
  BY <1>1, <1>2
<1>5. ClientsOn
  BY <1>2, <1>4 DEF ClientsOn, Unsent
<1> QED BY <1>3, <1>5

\* The clients and the queue through every step.
LEMMA ClientStep ==
  ASSUME ShapeInv, [WfNext]_wfvars
  PROVE  client' \in [Clients -> ClientStates] /\ ClientsOn /\ queue' \in Seq(Clients) /\ QueueOK'
<1>0. client \in [Clients -> ClientStates] /\ queue \in Seq(Clients) /\ QueueOK /\ agent \in AgentStates
  BY DEF ShapeInv, WfTypes
<1>1. ASSUME client' \in [Clients -> ClientStates], ClientsOn, queue' = queue \/ queue' = <<>>
      PROVE  client' \in [Clients -> ClientStates] /\ ClientsOn /\ queue' \in Seq(Clients) /\ QueueOK'
  <2>1. CASE queue' = queue
    <3>1. \A i \in DOMAIN queue : queue[i] \in Clients
      BY <1>0
    <3> QED BY <1>0, <1>1, <2>1, <3>1 DEF ClientsOn, QueueOK
  <2>2. CASE queue' = <<>>
    BY <1>1, <2>2 DEF QueueOK
  <2> QED BY <1>1, <2>1, <2>2
<1>2. ASSUME NEW c \in Clients, NEW cmd \in Commands, NEW st \in Unsent, Sends(c, st, cmd)
      PROVE  client' \in [Clients -> ClientStates] /\ ClientsOn /\ queue' \in Seq(Clients) /\ QueueOK'
  <2>1. client' \in [Clients -> ClientStates] /\ ClientsOn
    BY <1>2, Connecting
  <2>2. CASE UNCHANGED queue
    BY <1>1, <2>1, <2>2
  <2>3. CASE queue' = Append(queue, c) /\ client'[c].state = "waits" /\ client'[c].cmd = cmd
    <3>1. /\ queue' \in Seq(Clients) /\ DOMAIN queue' = 1 .. Len(queue) + 1
          /\ \A i \in DOMAIN queue' : \/ i \in DOMAIN queue /\ queue'[i] = queue[i]
                                      \/ queue'[i] = c
      BY <1>0, <2>3
    <3>2. QueueOK'
      BY <1>0, <2>1, <2>3, <3>1 DEF QueueOK, ClientsOn, Unsent
    <3> QED BY <2>1, <3>1, <3>2
  <2> QED BY <1>2, <2>2, <2>3, Connecting
<1>3. ASSUME NEW c \in Clients, Look(c)
      PROVE  client' \in [Clients -> ClientStates] /\ ClientsOn /\ queue' = queue
  <2>1. [client[c] EXCEPT !.state = "saw", !.seen = ufw.rules] \in ClientStates
    BY <1>0 DEF ShapeInv, WfTypes, ClientStates, States
  <2> QED BY <1>0, <1>3, <2>1 DEF Look, ClientsOn, Unsent
<1>4. ASSUME NEW c \in Clients, GiveUp(c)
      PROVE  client' \in [Clients -> ClientStates] /\ ClientsOn /\ queue' = queue
  <2>1. /\ [client[c] EXCEPT !.state = "error"] \in ClientStates
        /\ client' = [client EXCEPT ![c] = [client[c] EXCEPT !.state = "error"]]
    BY <1>0, <1>4 DEF ClientStates, States, GiveUp
  <2>2. [client[c] EXCEPT !.state = "error"].state = "error"
        /\ [client[c] EXCEPT !.state = "error"].cmd = client[c].cmd
        /\ [client[c] EXCEPT !.state = "error"].seen = client[c].seen
    BY <1>0 DEF ClientStates
  <2> QED BY <1>0, <1>4, <2>1, <2>2 DEF GiveUp, ClientsOn, Unsent
<1>5. ASSUME UNCHANGED client PROVE client' \in [Clients -> ClientStates] /\ ClientsOn
  BY <1>0, <1>5 DEF ClientsOn
<1>6. ASSUME Take PROVE queue' \in Seq(Clients) /\ QueueOK'
  <2>1. /\ queue' \in Seq(Clients) /\ client' = client
        /\ \A i \in DOMAIN queue' : i + 1 \in DOMAIN queue /\ queue'[i] = queue[i + 1]
    BY <1>0, <1>6 DEF Take
  <2> QED BY <1>0, <2>1 DEF QueueOK
<1>7. ASSUME Finish PROVE client' \in [Clients -> ClientStates] /\ ClientsOn /\ queue' = queue
  <2>1. agent.mode = "busy" /\ agent.copy \in SUBSET Ports /\ queue' = queue
    BY <1>0, <1>7 DEF Finish, AgentStates
  <2>2. PICK s \in {"ok", "error"} : Answer(s, agent.copy)
    BY <1>7 DEF Finish
  <2> QED BY <2>1, <2>2, Answered
<1>8. ASSUME Drop PROVE client' \in [Clients -> ClientStates] /\ ClientsOn
  <2>1. CASE agent.mode = "busy"
    <3>1. Answer("error", {})
      BY <1>8, <2>1 DEF Drop
    <3> QED BY <2>1, <3>1, Answered
  <2>2. CASE agent.mode # "busy"
    BY <1>5, <1>8, <2>2 DEF Drop
  <2> QED BY <2>1, <2>2
<1>9. ASSUME Hangup PROVE client' \in [Clients -> ClientStates] /\ ClientsOn /\ queue' = <<>>
  <2>1. \A c \in Clients : /\ [client[c] EXCEPT !.state = "error"] \in ClientStates
                           /\ [client[c] EXCEPT !.state = "error"].state = "error"
                           /\ [client[c] EXCEPT !.state = "error"].cmd = client[c].cmd
                           /\ [client[c] EXCEPT !.state = "error"].seen = client[c].seen
    BY <1>0 DEF ClientStates, States
  <2>2. client' = [c \in Clients |-> IF client[c].state = "waits"
                                     THEN [client[c] EXCEPT !.state = "error"] ELSE client[c]]
        /\ queue' = <<>>
    BY <1>9 DEF Hangup
  <2> QED BY <1>0, <2>1, <2>2 DEF ClientsOn, Unsent
<1>10. CASE Refuse \/ GetStuck
  <2>1. queue' = queue /\ (Drop \/ UNCHANGED client)
    BY <1>10 DEF Refuse, GetStuck
  <2> QED BY <1>1, <1>5, <1>8, <2>1
<1>11. CASE CutRules \/ PutRule \/ TruncateMarker \/ WriteMarker \/ MarkConsole \/ Read
            \/ UfwCall \/ Boot \/ Restore \/ DiskFails \/ UNCHANGED wfvars
  <2>1. queue' = queue /\ UNCHANGED client
    BY <1>11 DEF CutRules, PutRule, TruncateMarker, WriteMarker, MarkConsole, Read, UfwCall, Boot,
                 Restore, DiskFails, wfvars
  <2> QED BY <1>1, <1>5, <2>1
<1>12. CASE Take
  BY <1>5, <1>6, <1>12 DEF Take
<1>13. CASE Crash \/ Reboot
  BY <1>1, <1>9, <1>13 DEF Crash, Reboot
<1> QED BY <1>1, <1>2, <1>3, <1>4, <1>7, <1>10, <1>11, <1>12, <1>13, WfKinds

\* What the program in hand is about.
Protecting(p) ==
  p \in Ports /\ \/ agent.mode = "boot" /\ agent.client = p
                 \/ /\ agent.mode = "busy" /\ agent.cmd.action = "protect_host_port"
                    /\ agent.cmd.arg = p /\ p \notin Reserved
Unprotecting(p) ==
  p \in Ports /\ agent.mode = "busy" /\ agent.cmd.action = "unprotect_host_port" /\ agent.cmd.arg = p
Securing(p) ==
  p = Console /\ \/ agent.mode = "boot" /\ agent.client = p
                 \/ agent.mode = "busy" /\ agent.cmd.action = "secure_console_port"
Held == {p \in Chained : Protecting(p) \/ Unprotecting(p) \/ Securing(p)}

UfwOps == {"ufw", "ufw_deny_incoming", "ufw_enable", "ufw_delete_limit", "ufw_delete"}

LEMMA PlanCases ==
  ASSUME ShapeInv, agent.mode \in {"busy", "boot"}
  PROVE  \/ \E p \in Ports : Plan = Protect(p) /\ Protecting(p) /\ Held = {p}
         \/ \E p \in Ports : Plan = Unprotect(p) /\ Unprotecting(p) /\ Held = {p}
         \/ Plan = SecureConsole /\ Securing(Console) /\ Held = {Console}
         \/ agent.mode = "busy" /\ Held = {} /\ Plan = <<>>
         \/ /\ agent.mode = "busy" /\ Held = {} /\ \A k \in 1 .. Len(Plan) : Plan[k].op \in UfwOps
            /\ agent.cmd.action \in UfwActions \cup {"init_firewall", "delete_rule"}
<1>1. CASE agent.mode = "boot"
  <2>1. agent.client \in Chained
    BY <1>1 DEF ShapeInv, HandOK
  <2>2. CASE agent.client = Console
    <3>1. Plan = SecureConsole
      BY <1>1, <2>2 DEF Plan
    <3> QED BY <1>1, <2>2, <3>1, WfConstants DEF Held, Protecting, Unprotecting, Securing
  <2>3. CASE agent.client \in Ports
    <3>1. agent.client # Console
      BY <2>3, WfConstants
    <3>2. Plan = Protect(agent.client)
      BY <1>1, <3>1 DEF Plan
    <3> QED BY <1>1, <2>3, <3>1, <3>2, WfConstants DEF Held, Protecting, Unprotecting, Securing
  <2> QED BY <2>1, <2>2, <2>3 DEF Chained
<1>2. CASE agent.mode = "busy"
  <2>1. agent.cmd \in Commands /\ Plan = Program(agent.cmd)
    BY <1>2 DEF ShapeInv, HandOK, Plan
  <2>2. CASE agent.cmd.action = "protect_host_port"
    <3>1. PICK p \in Ports : p = agent.cmd.arg /\ Plan = IF p \in Reserved THEN <<>> ELSE Protect(p)
      BY <2>1, <2>2, ProgramIs
    <3>2. p \in Chained /\ p # Console
      BY WfConstants
    <3>3. CASE p \in Reserved
      <4>1. Held = {}
        BY <1>2, <2>2, <3>1, <3>3 DEF Held, Protecting, Unprotecting, Securing
      <4> QED BY <1>2, <3>1, <3>3, <4>1
    <3>4. CASE p \notin Reserved
      <4>1. Protecting(p) /\ Plan = Protect(p)
        BY <1>2, <2>2, <3>1, <3>4 DEF Protecting
      <4>2. Held = {p}
        BY <1>2, <2>2, <3>1, <3>2, <4>1 DEF Held, Protecting, Unprotecting, Securing
      <4> QED BY <4>1, <4>2
    <3> QED BY <3>3, <3>4
  <2>3. CASE agent.cmd.action = "unprotect_host_port"
    <3>1. PICK p \in Ports : p = agent.cmd.arg /\ Plan = Unprotect(p)
      BY <2>1, <2>3, ProgramIs
    <3>2. p \in Chained /\ p # Console
      BY WfConstants
    <3>3. Unprotecting(p)
      BY <1>2, <2>3, <3>1 DEF Unprotecting
    <3>4. Held = {p}
      BY <1>2, <2>3, <3>1, <3>2, <3>3 DEF Held, Protecting, Unprotecting, Securing
    <3> QED BY <3>1, <3>3, <3>4
  <2>4. CASE agent.cmd.action = "secure_console_port"
    BY <1>2, <2>1, <2>4, ProgramIs, WfConstants DEF Held, Protecting, Unprotecting, Securing
  <2>5. CASE agent.cmd.action \in UfwActions \cup {"init_firewall", "delete_rule"}
    <3>1. Held = {}
      BY <1>2, <2>5 DEF Held, Protecting, Unprotecting, Securing, UfwActions
    <3>4. \A k \in 1 .. Len(Plan) : Plan[k].op \in UfwOps
      <4>1. CASE agent.cmd.action = "init_firewall"
        <5>1. Plan = InitFirewall
          BY <2>1, <4>1, ProgramIs
        <5>2. \A k \in 1 .. 4 : InitFirewall[k].op \in UfwOps
          <6>1. \A k \in 1 .. 4 : k = 1 \/ k = 2 \/ k = 3 \/ k = 4
            OBVIOUS
          <6>2. /\ InitFirewall[1].op = "ufw_deny_incoming" /\ InitFirewall[2].op = "ufw"
                /\ InitFirewall[3].op = "ufw" /\ InitFirewall[4].op = "ufw_enable"
            BY InitIs DEF Call
          <6> QED BY <6>1, <6>2 DEF UfwOps
        <5> QED BY <5>1, <5>2, InitIs
      <4>2. CASE agent.cmd.action \in UfwActions \cup {"delete_rule"}
        <5>1. \/ \E k \in {"limit", "allow", "deny"} : Plan = << Call("ufw", agent.cmd.arg, k) >>
              \/ Plan = << Call("ufw_delete_limit", agent.cmd.arg, "none"), Call("ufw", agent.cmd.arg, "allow") >>
              \/ Plan = << Call("ufw_delete", agent.cmd.arg, "none") >>
          BY <2>1, <4>2, ProgramIs DEF UfwActions
        <5>2. ASSUME NEW k \in {"limit", "allow", "deny"}, Plan = << Call("ufw", agent.cmd.arg, k) >>
              PROVE  \A i \in 1 .. Len(Plan) : Plan[i].op \in UfwOps
          <6>1. Len(Plan) = 1 /\ Plan[1] = Call("ufw", agent.cmd.arg, k)
            BY <5>2
          <6>2. Plan[1].op = "ufw" /\ \A i \in 1 .. 1 : i = 1
            BY <6>1 DEF Call
          <6> QED BY <6>1, <6>2 DEF UfwOps
        <5>3. CASE Plan = << Call("ufw_delete", agent.cmd.arg, "none") >>
          <6>1. Len(Plan) = 1 /\ Plan[1] = Call("ufw_delete", agent.cmd.arg, "none")
            BY <5>3
          <6>2. Plan[1].op = "ufw_delete" /\ \A i \in 1 .. 1 : i = 1
            BY <6>1 DEF Call
          <6> QED BY <6>1, <6>2 DEF UfwOps
        <5>4. CASE Plan = << Call("ufw_delete_limit", agent.cmd.arg, "none"), Call("ufw", agent.cmd.arg, "allow") >>
          <6>1. /\ Len(Plan) = 2 /\ Plan[1] = Call("ufw_delete_limit", agent.cmd.arg, "none")
                /\ Plan[2] = Call("ufw", agent.cmd.arg, "allow")
            BY <5>4
          <6>2. /\ Plan[1].op = "ufw_delete_limit" /\ Plan[2].op = "ufw"
                /\ \A i \in 1 .. 2 : i = 1 \/ i = 2
            BY <6>1 DEF Call
          <6> QED BY <6>1, <6>2 DEF UfwOps
        <5> QED BY <5>1, <5>2, <5>3, <5>4
      <4> QED BY <2>5, <4>1, <4>2
    <3> QED BY <1>2, <2>5, <3>1, <3>4
  <2> QED BY <2>1, <2>2, <2>3, <2>4, <2>5, ProgramIs DEF PortActions
<1> QED BY <1>1, <1>2

\* The call in turn.
LEMMA AtCall ==
  ASSUME ShapeInv, agent.todo # <<>>
  PROVE  /\ agent.mode \in {"busy", "boot"} /\ Plan \in Seq(Calls) /\ It \in Calls
         /\ It = Plan[Len(Plan) - Len(agent.todo) + 1] /\ Len(agent.todo) \in 1 .. Len(Plan)
         /\ Tail(agent.todo) \in Seq(Calls) /\ Len(Tail(agent.todo)) = Len(agent.todo) - 1
         /\ SuffixOf(Tail(agent.todo), Plan)
<1>1. agent.todo \in Seq(Calls) /\ agent.mode \in {"busy", "boot"}
  BY DEF ShapeInv, WfTypes, AgentStates, HandOK, Modes
<1>2. Plan \in Seq(Calls) /\ SuffixOf(agent.todo, Plan)
  BY <1>1, PlanIs DEF ShapeInv, HandOK
<1>3. Head(agent.todo) \in Calls
  BY <1>1
<1> QED BY <1>1, <1>2, <1>3, SuffixTail DEF It

\* A marker is opened for writing, and then written.
LEMMA TruncateIsNotLast ==
  ASSUME ShapeInv, agent.todo # <<>>, It.op = "truncate"
  PROVE  /\ Tail(agent.todo) # <<>> /\ Tail(Tail(agent.todo)) \in Seq(Calls)
         /\ SuffixOf(Tail(Tail(agent.todo)), Plan) /\ Len(agent.todo) >= 2
         /\ Len(Tail(Tail(agent.todo))) = Len(agent.todo) - 2
<1>1. agent.todo # <<>> /\ It.op = "truncate"
  OBVIOUS
<1>2. /\ agent.mode \in {"busy", "boot"} /\ Plan \in Seq(Calls)
      /\ It = Plan[Len(Plan) - Len(agent.todo) + 1] /\ Len(agent.todo) \in 1 .. Len(Plan)
      /\ Tail(agent.todo) \in Seq(Calls) /\ Len(Tail(agent.todo)) = Len(agent.todo) - 1
      /\ SuffixOf(Tail(agent.todo), Plan)
  BY <1>1, AtCall
<1>3. Len(agent.todo) # 1
  <2> SUFFICES ASSUME Len(agent.todo) = 1 PROVE FALSE
    OBVIOUS
  <2>1. Plan[Len(Plan)].op = "truncate"
    BY <1>1, <1>2
  <2>2. ASSUME NEW p \in Ports, Plan = Protect(p) PROVE FALSE
    <3>1. Plan[7] = Call("verify", p, "none") /\ Len(Plan) = 7
      BY <2>2, ProtectIs
    <3> QED BY <2>1, <3>1 DEF Call
  <2>3. ASSUME NEW p \in Ports, Plan = Unprotect(p) PROVE FALSE
    <3>1. Plan[4] = Call("remove", p, "none") /\ Len(Plan) = 4
      BY <2>3, UnprotectIs
    <3> QED BY <2>1, <3>1 DEF Call
  <2>4. CASE Plan = SecureConsole
    <3>1. Plan[5] = Call("mark", Console, "none") /\ Len(Plan) = 5
      BY <2>4, SecureIs
    <3> QED BY <2>1, <3>1 DEF Call
  <2>5. CASE Plan = <<>>
    BY <1>2, <2>5
  <2>6. CASE \A k \in 1 .. Len(Plan) : Plan[k].op \in UfwOps
    <3>1. Plan[Len(Plan)].op \in UfwOps
      BY <1>2, <2>6
    <3> QED BY <2>1, <3>1 DEF UfwOps
  <2> QED BY <1>2, <2>2, <2>3, <2>4, <2>5, <2>6, PlanCases
<1>4. Tail(agent.todo) # <<>> /\ Len(agent.todo) >= 2
  <2> DEFINE t == Tail(agent.todo)
  <2>1. t \in Seq(Calls) /\ Len(t) = Len(agent.todo) - 1 /\ Len(agent.todo) >= 2
    <3>1. Len(Plan) \in Nat /\ Len(agent.todo) \in 1 .. Len(Plan)
      BY <1>2
    <3>2. PICK n \in Nat : n = Len(Plan)
      BY <3>1
    <3>3. PICK l \in 1 .. n : l = Len(agent.todo)
      BY <3>1, <3>2
    <3>4. l >= 2
      <4>1. \A x \in 1 .. n : x # 1 => x >= 2
        BY <3>2
      <4>2. l # 1
        BY <1>3, <3>3
      <4> QED BY <4>1, <4>2
    <3> QED BY <1>2, <3>3, <3>4
  <2> HIDE DEF t
  <2>2. t # <<>>
    BY <2>1
  <2> QED BY <2>1, <2>2 DEF t
<1>5. Plan \in Seq(Calls) /\ Tail(agent.todo) \in Seq(Calls) /\ SuffixOf(Tail(agent.todo), Plan)
  BY <1>2
<1> DEFINE t == Tail(agent.todo)
<1>6. t \in Seq(Calls) /\ SuffixOf(t, Plan) /\ t # <<>> /\ Len(t) = Len(agent.todo) - 1
  BY <1>2, <1>4
<1> HIDE DEF t
<1>7. Tail(t) \in Seq(Calls) /\ SuffixOf(Tail(t), Plan) /\ Len(Tail(t)) = Len(t) - 1
  BY <1>5, <1>6, SuffixTail
<1>8. Len(Tail(t)) = Len(agent.todo) - 2
  BY <1>2, <1>6, <1>7
<1> QED BY <1>4, <1>7, <1>8 DEF t

LEMMA HandOn ==
  ASSUME ShapeInv, ClientsOn, agent.mode \in {"busy", "boot"}, NEW s \in Seq(Calls), SuffixOf(s, Plan),
         NEW c \in SUBSET Ports, NEW o \in BOOLEAN, NEW d \in BOOLEAN,
         agent' = [agent EXCEPT !.todo = s, !.copy = c, !.ok = o, !.clean = d]
  PROVE  agent' \in AgentStates /\ HandOK'
<1>1. agent \in AgentStates
  BY DEF ShapeInv, WfTypes
<1>2. /\ agent' \in AgentStates /\ agent'.mode = agent.mode /\ agent'.cmd = agent.cmd
      /\ agent'.client = agent.client /\ agent'.boot = agent.boot /\ agent'.todo = s
  BY <1>1 DEF AgentStates
<1>3. Plan' = Plan
  BY <1>2 DEF Plan
<1>4. SuffixOf(agent'.todo, Plan')
  BY <1>2, <1>3
<1>5. agent.mode = "busy" => agent.client \in Clients /\ client'[agent.client].state \notin Unsent
  BY DEF ShapeInv, HandOK, ClientsOn
<1> QED BY <1>2, <1>4, <1>5 DEF ShapeInv, HandOK

\* The agent after a call, whatever became of it: s is left to do.
LEMMA AgentStep ==
  ASSUME ShapeInv, ClientsOn, [WfNext]_wfvars PROVE agent' \in AgentStates /\ HandOK'
<1>0. /\ agent \in AgentStates /\ marker \in SUBSET (Ports \cup {Torn}) /\ HandOK
      /\ agent.copy \in SUBSET Ports /\ agent.ok \in BOOLEAN /\ agent.clean \in BOOLEAN
      /\ agent.mode \in Modes /\ queue \in Seq(Clients) /\ QueueOK
  BY DEF ShapeInv, WfTypes, AgentStates
<1>1. /\ Idle \in AgentStates /\ Idle.mode = "idle" /\ Idle.todo = <<>> /\ Idle.clean = TRUE
      /\ Idle.boot = {}
  BY DEF Idle, AgentStates, Modes
<1>2. ASSUME agent' = Idle PROVE agent' \in AgentStates /\ HandOK'
  BY <1>1, <1>2 DEF HandOK
<1>3. ASSUME agent' = [Idle EXCEPT !.mode = "down"] PROVE agent' \in AgentStates /\ HandOK'
  <2>1. /\ agent' \in AgentStates /\ agent'.mode = "down" /\ agent'.todo = <<>> /\ agent'.clean
        /\ agent'.boot = {}
    <3>1. agent' = [mode |-> "down", cmd |-> None, client |-> None, todo |-> <<>>, boot |-> {},
                    copy |-> {}, ok |-> TRUE, clean |-> TRUE]
      BY <1>3 DEF Idle
    <3> QED BY <3>1 DEF AgentStates, Modes
  <2> QED BY <2>1 DEF HandOK
<1>4. ASSUME NEW s \in Seq(Calls), SuffixOf(s, Plan), agent.mode \in {"busy", "boot"},
             NEW c \in SUBSET Ports, NEW o \in BOOLEAN, NEW d \in BOOLEAN,
             agent' = [agent EXCEPT !.todo = s, !.copy = c, !.ok = o, !.clean = d]
      PROVE  agent' \in AgentStates /\ HandOK'
  BY <1>4, HandOn
<1>5. Loaded \in SUBSET Ports /\ Exposed \in SUBSET Ports
  BY <1>0, WfConstants DEF Loaded, Exposed
<1>6. ASSUME agent.todo # <<>>, NEW c \in SUBSET Ports, NEW o \in BOOLEAN, NEW d \in BOOLEAN,
             agent' = [agent EXCEPT !.todo = Tail(@), !.copy = c, !.ok = o, !.clean = d]
      PROVE  agent' \in AgentStates /\ HandOK'
  <2>1. agent.mode \in {"busy", "boot"} /\ Tail(agent.todo) \in Seq(Calls) /\ SuffixOf(Tail(agent.todo), Plan)
    BY <1>6, AtCall
  <2> QED BY <1>4, <1>6, <2>1
<1>7. CASE CutRules \/ PutRule \/ WriteMarker \/ MarkConsole \/ UfwCall
  <2>1. agent.todo # <<>> /\ agent' = Rest
    BY <1>7 DEF CutRules, PutRule, WriteMarker, MarkConsole, UfwCall, Doing
  <2>2. agent' = [agent EXCEPT !.todo = Tail(@), !.copy = agent.copy, !.ok = agent.ok,
                               !.clean = agent.clean]
    BY <1>0, <2>1 DEF Rest, AgentStates
  <2> QED BY <1>0, <1>6, <2>1, <2>2
<1>8. CASE TruncateMarker \/ Read
  <2>1. PICK c \in SUBSET Ports : agent.todo # <<>> /\ agent' = [Rest EXCEPT !.copy = c]
    <3>1. CASE TruncateMarker
      BY <1>5, <3>1 DEF TruncateMarker, Doing
    <3>2. CASE Read
      <4>1. /\ agent.todo # <<>>
            /\ agent' = [Rest EXCEPT !.copy = IF It.op = "list" THEN Exposed ELSE Rest.copy]
        BY <3>2 DEF Read, Doing
      <4>2. Rest.copy = agent.copy
        BY <1>0 DEF Rest, AgentStates
      <4> QED BY <1>0, <1>5, <4>1, <4>2
    <3> QED BY <1>8, <3>1, <3>2
  <2>2. agent' = [agent EXCEPT !.todo = Tail(@), !.copy = c, !.ok = agent.ok,
                               !.clean = agent.clean]
    BY <1>0, <2>1 DEF Rest, AgentStates
  <2> QED BY <1>0, <1>6, <2>1, <2>2
<1>9. ASSUME agent.todo # <<>>, NEW o \in BOOLEAN, agent' = [Unclean EXCEPT !.ok = o]
      PROVE  agent' \in AgentStates /\ HandOK'
  <2>1. agent' = [agent EXCEPT !.todo = Tail(@), !.copy = agent.copy, !.ok = o, !.clean = FALSE]
    BY <1>0, <1>9 DEF Unclean, Rest, AgentStates
  <2> QED BY <1>0, <1>6, <1>9, <2>1
<1>10. ASSUME agent.todo # <<>>, agent' = Unclean PROVE agent' \in AgentStates /\ HandOK'
  <2>1. agent' = [Unclean EXCEPT !.ok = agent.ok]
    BY <1>0, <1>10 DEF Unclean, Rest, AgentStates
  <2> QED BY <1>0, <1>9, <1>10, <2>1
<1>11. ASSUME agent.todo # <<>>, Drop PROVE agent' \in AgentStates /\ HandOK'
  <2>1. CASE agent.mode = "busy"
    BY <1>2, <1>11, <2>1 DEF Drop
  <2>2. CASE agent.mode # "busy"
    <3>1. agent.mode \in {"busy", "boot"} /\ Plan \in Seq(Calls)
      BY <1>11, AtCall
    <3>2. SuffixOf(<<>>, Plan) /\ <<>> \in Seq(Calls)
      BY <3>1, SuffixEnds
    <3>3. agent' = [agent EXCEPT !.todo = <<>>]
      BY <1>11, <2>2 DEF Drop
    <3>4. agent' = [agent EXCEPT !.todo = <<>>, !.copy = agent.copy, !.ok = agent.ok,
                                 !.clean = agent.clean]
      BY <1>0, <3>3 DEF AgentStates
    <3> QED BY <1>0, <1>4, <3>1, <3>2, <3>4
  <2> QED BY <2>1, <2>2
<1>12. CASE Refuse
  <2>1. /\ agent.todo # <<>>
        /\ \/ agent' = Unclean \/ Drop
           \/ \E o \in BOOLEAN : agent' = [Unclean EXCEPT !.ok = o]
    BY <1>12 DEF Refuse
  <2> QED BY <1>9, <1>10, <1>11, <2>1
<1>13. CASE GetStuck
  BY <1>3, <1>11, <1>13 DEF GetStuck
<1>14. CASE DiskFails
  <2>1. CASE Doing("truncate") /\ agent' = [Unclean EXCEPT !.todo = Tail(@)]
    <3>1. agent.todo # <<>> /\ It.op = "truncate"
      BY <2>1 DEF Doing, It
    <3>2. /\ agent.mode \in {"busy", "boot"} /\ Tail(Tail(agent.todo)) \in Seq(Calls)
          /\ SuffixOf(Tail(Tail(agent.todo)), Plan)
      BY <3>1, TruncateIsNotLast, AtCall
    <3>3. PICK s \in Seq(Calls) : s = Tail(Tail(agent.todo))
      BY <3>2
    <3>4. agent' = [agent EXCEPT !.todo = s, !.copy = agent.copy, !.ok = agent.ok, !.clean = FALSE]
      BY <1>0, <2>1, <3>3 DEF Unclean, Rest, AgentStates
    <3> QED BY <1>0, <1>4, <3>2, <3>3, <3>4
  <2>2. CASE agent.todo # <<>> /\ agent' = Unclean
    BY <1>10, <2>2
  <2> QED BY <1>14, <2>1, <2>2 DEF DiskFails, Doing
<1>15. CASE Crash \/ Reboot
  BY <1>3, <1>15 DEF Crash, Reboot, Hangup
<1>16. CASE Finish
  BY <1>2, <1>16 DEF Finish
<1>17. CASE Take
  <2>1. PICK c \in Clients : /\ client[c].state \notin Unsent /\ client[c].cmd \in Commands
                             /\ agent' = [Idle EXCEPT !.mode = "busy", !.cmd = client[c].cmd, !.client = c,
                                                      !.todo = Program(client[c].cmd)]
                             /\ client' = client
    <3>1. 1 \in DOMAIN queue /\ Head(queue) = queue[1] /\ Head(queue) \in Clients
      BY <1>0, <1>17 DEF Take
    <3> QED BY <1>0, <1>17, <3>1 DEF Take, QueueOK
  <2>2. PICK cmd \in Commands : cmd = client[c].cmd
    BY <2>1
  <2>3. Program(cmd) \in Seq(Calls) /\ SuffixOf(Program(cmd), Program(cmd))
    BY ProgramIs, SuffixEnds
  <2>4. /\ agent' \in AgentStates /\ agent'.mode = "busy" /\ agent'.cmd = cmd /\ agent'.client = c
        /\ agent'.todo = Program(cmd) /\ agent'.boot = {} /\ agent'.clean
    BY <2>1, <2>2, <2>3 DEF Idle, AgentStates, Modes
  <2>5. Plan' = Program(cmd)
    BY <2>4 DEF Plan
  <2>6. agent'.client \in Clients /\ client'[agent'.client].state \notin Unsent
    BY <2>1, <2>4
  <2> QED BY <2>3, <2>4, <2>5, <2>6 DEF HandOK
<1>18. CASE Boot
  <2>1. agent' = [Idle EXCEPT !.mode = "boot", !.client = Console, !.boot = Loaded,
                              !.todo = IF secured THEN SecureConsole ELSE <<>>]
    BY <1>18 DEF Boot
  <2>2. SecureConsole \in Seq(Calls) /\ SuffixOf(SecureConsole, SecureConsole) /\ SuffixOf(<<>>, SecureConsole)
    BY SecureIs, SuffixEnds
  <2>3. PICK s \in Seq(Calls) : s = IF secured THEN SecureConsole ELSE <<>>
    <3>1. CASE secured
      BY <2>2, <3>1
    <3>2. CASE ~secured
      <4>1. <<>> \in Seq(Calls)
        OBVIOUS
      <4> QED BY <3>2, <4>1, Zenon
    <3> QED BY <3>1, <3>2
  <2>4. /\ agent' \in AgentStates /\ agent'.mode = "boot" /\ agent'.client = Console /\ agent'.todo = s
    BY <1>5, <2>1, <2>3, WfConstants DEF Idle, AgentStates, Modes
  <2>5. Plan' = SecureConsole
    BY <2>4 DEF Plan
  <2> QED BY <2>2, <2>3, <2>4, <2>5, WfConstants DEF HandOK
<1>19. CASE Restore
  <2>1. CASE agent.boot # {}
    <3>1. PICK p \in agent.boot : agent' = [agent EXCEPT !.client = p, !.todo = Protect(p),
                                                         !.boot = @ \ {p}, !.clean = TRUE]
      BY <1>19, <2>1 DEF Restore
    <3>2. p \in Ports /\ agent.mode = "boot"
      BY <1>0, <1>19, <3>1 DEF Restore, AgentStates
    <3>3. Protect(p) \in Seq(Calls) /\ SuffixOf(Protect(p), Protect(p)) /\ p \in Chained /\ p # Console
      BY <3>2, ProtectIs, SuffixEnds, WfConstants
    <3>4. /\ agent' \in AgentStates /\ agent'.mode = "boot" /\ agent'.client = p
          /\ agent'.todo = Protect(p)
      BY <1>0, <3>1, <3>2, <3>3 DEF AgentStates
    <3>5. Plan' = Protect(p)
      BY <3>3, <3>4 DEF Plan
    <3> QED BY <3>3, <3>4, <3>5 DEF HandOK
  <2>2. CASE agent.boot = {}
    BY <1>2, <1>19, <2>2 DEF Restore
  <2> QED BY <2>1, <2>2
<1>20. CASE UNCHANGED agent
  <2>1. Plan' = Plan
    BY <1>20 DEF Plan
  <2>2. agent.mode = "busy" => agent.client \in Clients /\ client'[agent.client].state \notin Unsent
    BY <1>0 DEF HandOK, ClientsOn
  <2> QED BY <1>0, <1>20, <2>1, <2>2 DEF HandOK
<1>21. ASSUME NEW c \in Clients,
              Look(c) \/ GiveUp(c) \/ \E cmd \in Commands, st \in Unsent : Sends(c, st, cmd)
       PROVE  UNCHANGED agent
  BY <1>21 DEF Look, GiveUp, Sends
<1>22. CASE UNCHANGED wfvars
  BY <1>20, <1>22 DEF wfvars
<1> QED BY <1>7, <1>8, <1>12, <1>13, <1>14, <1>15, <1>16, <1>17, <1>18, <1>19, <1>20, <1>21, <1>22, WfKinds

\* Which call comes when n are left, and whom it is about.
LEMMA HandCalls ==
  ASSUME ShapeInv, agent.todo # <<>>
  PROVE  LET n == Len(agent.todo) IN
         \/ \E p \in Ports :
              /\ Protecting(p) /\ Held = {p}
              /\ \/ n = 7 /\ It = [op |-> "cut", on |-> p, kind |-> "accept"]
                 \/ n = 6 /\ It = [op |-> "cut", on |-> p, kind |-> "drop"]
                 \/ n = 5 /\ It = [op |-> "put", on |-> p, kind |-> "drop"]
                 \/ n = 4 /\ It = [op |-> "put", on |-> p, kind |-> "accept"]
                 \/ n = 3 /\ It = [op |-> "truncate", on |-> p, kind |-> "none"]
                 \/ n = 2 /\ It = [op |-> "add", on |-> p, kind |-> "none"]
                 \/ n = 1 /\ It = [op |-> "verify", on |-> p, kind |-> "none"]
         \/ \E p \in Ports :
              /\ Unprotecting(p) /\ Held = {p}
              /\ \/ n = 4 /\ It = [op |-> "cut", on |-> p, kind |-> "accept"]
                 \/ n = 3 /\ It = [op |-> "cut", on |-> p, kind |-> "drop"]
                 \/ n = 2 /\ It = [op |-> "truncate", on |-> p, kind |-> "none"]
                 \/ n = 1 /\ It = [op |-> "remove", on |-> p, kind |-> "none"]
         \/ /\ Securing(Console) /\ Held = {Console}
            /\ \/ n = 5 /\ It = [op |-> "cut", on |-> Console, kind |-> "drop"]
               \/ n = 4 /\ It = [op |-> "cut", on |-> Console, kind |-> "accept"]
               \/ n = 3 /\ It = [op |-> "put", on |-> Console, kind |-> "drop"]
               \/ n = 2 /\ It = [op |-> "put", on |-> Console, kind |-> "accept"]
               \/ n = 1 /\ It = [op |-> "mark", on |-> Console, kind |-> "none"]
         \/ agent.mode = "busy" /\ Held = {} /\ It.op \in UfwOps
<1>1. /\ agent.mode \in {"busy", "boot"} /\ Plan \in Seq(Calls)
      /\ It = Plan[Len(Plan) - Len(agent.todo) + 1] /\ Len(agent.todo) \in 1 .. Len(Plan)
  BY AtCall
<1>2. PICK n \in 1 .. Len(Plan) : n = Len(agent.todo)
  BY <1>1
<1>3. PICK m \in Nat : m = Len(Plan)
  BY <1>1
<1>4. It = Plan[m - n + 1] /\ n \in 1 .. m
  BY <1>1, <1>2, <1>3
<1>5. ASSUME NEW p \in Ports, Plan = Protect(p)
      PROVE  \/ n = 7 /\ It = [op |-> "cut", on |-> p, kind |-> "accept"]
             \/ n = 6 /\ It = [op |-> "cut", on |-> p, kind |-> "drop"]
             \/ n = 5 /\ It = [op |-> "put", on |-> p, kind |-> "drop"]
             \/ n = 4 /\ It = [op |-> "put", on |-> p, kind |-> "accept"]
             \/ n = 3 /\ It = [op |-> "truncate", on |-> p, kind |-> "none"]
             \/ n = 2 /\ It = [op |-> "add", on |-> p, kind |-> "none"]
             \/ n = 1 /\ It = [op |-> "verify", on |-> p, kind |-> "none"]
  <2>1. m = 7
    BY <1>3, <1>5, ProtectIs
  <2>2. n \in {1, 2, 3, 4, 5, 6, 7}
    BY <1>4, <2>1
  <2>3. /\ (n = 7 => It = Protect(p)[1]) /\ (n = 6 => It = Protect(p)[2])
        /\ (n = 5 => It = Protect(p)[3]) /\ (n = 4 => It = Protect(p)[4])
        /\ (n = 3 => It = Protect(p)[5]) /\ (n = 2 => It = Protect(p)[6])
        /\ n = 1 => It = Protect(p)[7]
    BY <1>4, <1>5, <2>1
  <2> QED BY <2>2, <2>3, ProtectIs DEF Call
<1>6. ASSUME NEW p \in Ports, Plan = Unprotect(p)
      PROVE  \/ n = 4 /\ It = [op |-> "cut", on |-> p, kind |-> "accept"]
             \/ n = 3 /\ It = [op |-> "cut", on |-> p, kind |-> "drop"]
             \/ n = 2 /\ It = [op |-> "truncate", on |-> p, kind |-> "none"]
             \/ n = 1 /\ It = [op |-> "remove", on |-> p, kind |-> "none"]
  <2>1. m = 4
    BY <1>3, <1>6, UnprotectIs
  <2>2. n \in {1, 2, 3, 4}
    BY <1>4, <2>1
  <2> QED BY <1>4, <1>6, <2>1, <2>2, UnprotectIs DEF Call
<1>7. ASSUME Plan = SecureConsole
      PROVE  \/ n = 5 /\ It = [op |-> "cut", on |-> Console, kind |-> "drop"]
             \/ n = 4 /\ It = [op |-> "cut", on |-> Console, kind |-> "accept"]
             \/ n = 3 /\ It = [op |-> "put", on |-> Console, kind |-> "drop"]
             \/ n = 2 /\ It = [op |-> "put", on |-> Console, kind |-> "accept"]
             \/ n = 1 /\ It = [op |-> "mark", on |-> Console, kind |-> "none"]
  <2>1. m = 5
    BY <1>3, <1>7, SecureIs
  <2>2. n \in {1, 2, 3, 4, 5}
    BY <1>4, <2>1
  <2> QED BY <1>4, <1>7, <2>1, <2>2, SecureIs DEF Call
<1>8. Plan # <<>>
  BY <1>3, <1>4
<1>9. ASSUME \A k \in 1 .. Len(Plan) : Plan[k].op \in UfwOps PROVE It.op \in UfwOps
  <2>1. m - n + 1 \in 1 .. m
    BY <1>4
  <2> QED BY <1>3, <1>4, <1>9, <2>1
<1> QED BY <1>1, <1>2, <1>5, <1>6, <1>7, <1>8, <1>9, PlanCases

LEMMA UfwTyped ==
  ASSUME ShapeInv, agent.todo # <<>>
  PROVE  IsUfw(It) => UfwAfter(It) \in [on : BOOLEAN, deny : BOOLEAN, rules : Seq(UfwRule)]
<1> SUFFICES ASSUME IsUfw(It)
             PROVE  UfwAfter(It) \in [on : BOOLEAN, deny : BOOLEAN, rules : Seq(UfwRule)]
  OBVIOUS
<1>1. ufw \in [on : BOOLEAN, deny : BOOLEAN, rules : Seq(UfwRule)]
  BY DEF ShapeInv, WfTypes
<1>2. PICK c \in Calls : c = It
  BY AtCall
<1>3. c.op \in UfwOps /\ c.on \in CallOn /\ c.kind \in CallKinds
  BY <1>2 DEF IsUfw, UfwOps, Calls
<1>4. ASSUME NEW r \in Seq(UfwRule) PROVE Judged(r, c.on, c.kind) \in Seq(UfwRule)
  <2>1. [to |-> c.on, verdict |-> c.kind] \in UfwRule
    BY <1>3 DEF UfwRule
  <2> QED BY <1>4, <2>1 DEF Judged
<1>5. ASSUME NEW r \in Seq(UfwRule), NEW i \in DOMAIN r PROVE RemoveAt(r, i) \in Seq(UfwRule)
  BY <1>5 DEF RemoveAt
<1>6. CASE c.op = "ufw"
  BY <1>1, <1>2, <1>4, <1>6 DEF UfwAfter
<1>7. CASE c.op \in {"ufw_deny_incoming", "ufw_enable"}
  BY <1>1, <1>2, <1>7 DEF UfwAfter
<1>8. CASE c.op = "ufw_delete_limit"
  <2>1. PICK r \in Seq(UfwRule) : UfwAfter(c) = [ufw EXCEPT !.rules = r]
    <3>1. CASE Limited(c.on) = {}
      BY <1>1, <1>8, <3>1 DEF UfwAfter
    <3>2. CASE Limited(c.on) # {}
      <4>1. PICK i \in DOMAIN ufw.rules : i = CHOOSE j \in Limited(c.on) : TRUE
        BY <3>2 DEF Limited
      <4>2. UfwAfter(c) = [ufw EXCEPT !.rules = RemoveAt(ufw.rules, i)]
        BY <1>8, <3>2, <4>1 DEF UfwAfter
      <4> QED BY <1>1, <1>5, <4>2
    <3> QED BY <3>1, <3>2
  <2> QED BY <1>1, <1>2, <2>1
<1>9. CASE c.op = "ufw_delete"
  <2>1. PICK r \in Seq(UfwRule) : UfwAfter(c) = [ufw EXCEPT !.rules = r]
    <3>1. CASE c.on \in DOMAIN ufw.rules
      <4>1. UfwAfter(c) = [ufw EXCEPT !.rules = RemoveAt(ufw.rules, c.on)]
        BY <1>9, <3>1 DEF UfwAfter
      <4> QED BY <1>1, <1>5, <3>1, <4>1
    <3>2. CASE c.on \notin DOMAIN ufw.rules
      BY <1>1, <1>9, <3>2 DEF UfwAfter
    <3> QED BY <3>1, <3>2
  <2> QED BY <1>1, <1>2, <2>1
<1> QED BY <1>3, <1>6, <1>7, <1>8, <1>9 DEF UfwOps

LEMMA StateStep ==
  ASSUME ShapeInv, [WfNext]_wfvars
  PROVE  /\ chain' \in [Chained -> Seq(RuleKinds)]
         /\ marker' \in SUBSET (Ports \cup {Torn}) /\ secured' \in BOOLEAN
         /\ ufw' \in [on : BOOLEAN, deny : BOOLEAN, rules : Seq(UfwRule)]
         /\ hist' \in Histories
<1>0. /\ chain \in [Chained -> Seq(RuleKinds)] /\ marker \in SUBSET (Ports \cup {Torn})
      /\ secured \in BOOLEAN /\ ufw \in [on : BOOLEAN, deny : BOOLEAN, rules : Seq(UfwRule)]
      /\ hist \in Histories /\ agent \in AgentStates /\ HandOK
  BY DEF ShapeInv, WfTypes
<1>1. chain' \in [Chained -> Seq(RuleKinds)]
  <2>1. CASE CutRules
    <3>1. PICK p \in Chained, k \in RuleKinds : chain' = [chain EXCEPT ![p] = Without(@, k)]
      <4>1. agent.todo # <<>> /\ It.op = "cut" /\ chain' = [chain EXCEPT ![It.on] = Without(@, It.kind)]
        BY <2>1 DEF CutRules, Doing, It
      <4>2. It.on \in Chained /\ It.kind \in RuleKinds
        BY <4>1, HandCalls, WfConstants DEF RuleKinds, UfwOps
      <4> QED BY <4>1, <4>2
    <3>2. Without(chain[p], k) \in Seq(RuleKinds \ {k})
      BY <1>0, CutKeeps
    <3>3. Seq(RuleKinds \ {k}) \subseteq Seq(RuleKinds)
      OBVIOUS
    <3> QED BY <1>0, <3>1, <3>2, <3>3
  <2>2. CASE PutRule
    <3>1. agent.todo # <<>> /\ It.op = "put" /\ chain' = [chain EXCEPT ![It.on] = <<It.kind>> \o @]
      BY <2>2 DEF PutRule, Doing, It
    <3>2. It.on \in Chained /\ It.kind \in RuleKinds
      BY <3>1, HandCalls, WfConstants DEF RuleKinds, UfwOps
    <3> QED BY <1>0, <3>1, <3>2
  <2>3. CASE Reboot
    BY <2>3 DEF Reboot
  <2>4. CASE UNCHANGED chain
    BY <1>0, <2>4
  <2>5. ASSUME NEW c \in Clients,
               Look(c) \/ GiveUp(c) \/ \E cmd \in Commands, st \in Unsent : Sends(c, st, cmd)
        PROVE  UNCHANGED chain
    BY <2>5 DEF Look, GiveUp, Sends, kernel
  <2>6. CASE \/ Take \/ TruncateMarker \/ WriteMarker \/ MarkConsole \/ Read \/ UfwCall \/ Finish \/ Boot
             \/ Restore \/ Refuse \/ GetStuck \/ DiskFails \/ Crash \/ UNCHANGED wfvars
    BY <2>4, <2>6 DEF Take, TruncateMarker, WriteMarker, MarkConsole, Read, UfwCall, Finish, Boot, Restore,
                      Refuse, GetStuck, DiskFails, Crash, wfvars, kernel
  <2> QED BY <2>1, <2>2, <2>3, <2>4, <2>5, <2>6, WfKinds
<1>2. marker' \in SUBSET (Ports \cup {Torn}) /\ secured' \in BOOLEAN
  <2>1. CASE TruncateMarker
    BY <1>0, <2>1 DEF TruncateMarker
  <2>2. CASE WriteMarker
    <3>1. /\ agent.todo # <<>> /\ It.op \in {"add", "remove"} /\ secured' = secured
          /\ marker' = IF It.op = "add" THEN agent.copy \cup {It.on} ELSE agent.copy \ {It.on}
      BY <2>2 DEF WriteMarker, Doing, It
    <3>2. It.on \in Ports /\ agent.copy \in SUBSET Ports
      BY <1>0, <3>1, HandCalls DEF UfwOps, AgentStates
    <3> QED BY <1>0, <3>1, <3>2
  <2>3. CASE MarkConsole
    BY <1>0, <2>3 DEF MarkConsole
  <2>4. CASE UNCHANGED disk
    BY <1>0, <2>4 DEF disk
  <2>5. ASSUME NEW c \in Clients,
               Look(c) \/ GiveUp(c) \/ \E cmd \in Commands, st \in Unsent : Sends(c, st, cmd)
        PROVE  UNCHANGED disk
    BY <2>5 DEF Look, GiveUp, Sends
  <2>6. CASE \/ Take \/ CutRules \/ PutRule \/ Read \/ UfwCall \/ Finish \/ Boot
             \/ Restore \/ Refuse \/ GetStuck \/ DiskFails \/ Crash \/ Reboot \/ UNCHANGED wfvars
    BY <2>4, <2>6 DEF Take, CutRules, PutRule, Read, UfwCall, Finish, Boot, Restore,
                      Refuse, GetStuck, DiskFails, Crash, Reboot, wfvars
  <2> QED BY <2>1, <2>2, <2>3, <2>4, <2>5, <2>6, WfKinds
<1>3. ufw' \in [on : BOOLEAN, deny : BOOLEAN, rules : Seq(UfwRule)]
  <2>1. CASE UfwCall
    BY <2>1, UfwTyped DEF UfwCall
  <2>2. CASE UNCHANGED ufw
    BY <1>0, <2>2
  <2>3. ASSUME NEW c \in Clients,
               Look(c) \/ GiveUp(c) \/ \E cmd \in Commands, st \in Unsent : Sends(c, st, cmd)
        PROVE  UNCHANGED ufw
    BY <2>3 DEF Look, GiveUp, Sends, kernel
  <2>4. CASE \/ Take \/ CutRules \/ PutRule \/ TruncateMarker \/ WriteMarker \/ MarkConsole \/ Read
             \/ Finish \/ Boot \/ Restore \/ Refuse \/ GetStuck \/ DiskFails \/ Crash \/ Reboot
             \/ UNCHANGED wfvars
    BY <2>2, <2>4 DEF Take, CutRules, PutRule, TruncateMarker, WriteMarker, MarkConsole, Read, Finish,
                      Boot, Restore, Refuse, GetStuck, DiskFails, Crash, Reboot, wfvars, kernel
  <2> QED BY <2>1, <2>2, <2>3, <2>4, WfKinds
<1>4. hist' \in Histories
  <2>1. ASSUME agent.mode \in {"busy", "boot"} PROVE Subjects \subseteq Subjected
    <3>1. CASE agent.mode = "boot"
      BY <1>0, <3>1 DEF Subjects, HandOK, Subjected
    <3>2. CASE agent.mode = "busy"
      <4>1. agent.cmd \in Commands /\ agent.cmd.arg \in Targets
        BY <1>0, <3>2 DEF HandOK, Targets
      <4> QED BY <3>2, <4>1, WfConstants DEF Subjects, Subjected, Targets
    <3> QED BY <2>1, <3>1, <3>2
  <2>2. ASSUME NEW h \in SUBSET Subjected, NEW l \in BOOLEAN,
               hist' = [hist EXCEPT !.half = h, !.lost = l]
        PROVE  hist' \in Histories
    BY <1>0, <2>2, HistoryNotes
  <2>3. hist.half \in SUBSET Subjected /\ hist.lost \in BOOLEAN
    BY <1>0 DEF Histories
  <2>4. ASSUME NEW h \in SUBSET Subjected, hist' = [hist EXCEPT !.half = h] PROVE hist' \in Histories
    BY <1>0, <2>4, HistoryNotes
  <2>5. CASE UNCHANGED hist
    BY <1>0, <2>5
  <2>6. ASSUME NEW c \in Clients, NEW cmd \in Commands, NEW st \in Unsent, Sends(c, st, cmd)
        PROVE  hist' \in Histories
    <3>1. \/ UNCHANGED hist
          \/ cmd.action \in PortActions /\ hist' = [hist EXCEPT !.word[cmd.arg] = cmd.action]
      BY <2>6, Connecting
    <3>2. CASE cmd.action \in PortActions /\ hist' = [hist EXCEPT !.word[cmd.arg] = cmd.action]
      BY <1>0, <3>2 DEF Histories
    <3> QED BY <2>5, <3>1, <3>2
  <2>7. CASE UfwCall
    <3>1. hist' = [hist EXCEPT !.asked = TRUE] \/ UNCHANGED hist
      BY <2>7 DEF UfwCall
    <3> QED BY <1>0, <3>1, HistoryNotes
  <2>8. CASE Finish
    <3>1. agent.mode = "busy"
      BY <2>8 DEF Finish
    <3>2. PICK h \in SUBSET Subjected : hist' = [hist EXCEPT !.half = h]
      <4>1. hist.half \in SUBSET Subjected /\ hist.half \ Subjects \in SUBSET Subjected
            /\ hist.half \cup Subjects \in SUBSET Subjected
        BY <2>1, <2>3, <3>1
      <4> QED BY <2>8, <4>1 DEF Finish
    <3> QED BY <2>4, <3>2
  <2>9. CASE Restore
    <3>1. agent.mode = "boot" /\ agent.client \in Subjected
      BY <1>0, <2>9 DEF Restore, HandOK, Subjected
    <3>2. PICK h \in SUBSET Subjected : hist' = [hist EXCEPT !.half = h]
      BY <2>3, <2>9, <3>1 DEF Restore
    <3> QED BY <2>4, <3>2
  <2>10. ASSUME agent.todo # <<>> PROVE hist.half \cup Subjects \in SUBSET Subjected
    BY <2>1, <2>3, <2>10, AtCall
  <2>11. ASSUME agent.todo # <<>>, Drop PROVE hist' \in Histories
    BY <2>2, <2>3, <2>10, <2>11 DEF Drop
  <2>12. CASE Refuse
    BY <2>5, <2>11, <2>12 DEF Refuse
  <2>13. CASE GetStuck
    BY <2>4, <2>10, <2>11, <2>13 DEF GetStuck
  <2>14. CASE DiskFails
    <3>1. CASE agent.todo # <<>> /\ hist' = [hist EXCEPT !.half = @ \cup Subjects]
      BY <2>4, <2>10, <3>1
    <3>2. CASE hist' = [hist EXCEPT !.lost = TRUE] \/ UNCHANGED hist
      BY <1>0, <3>2, HistoryNotes
    <3> QED BY <2>14, <3>1, <3>2 DEF DiskFails, Doing
  <2>15. CASE Crash \/ Reboot
    <3>1. hist' = [hist EXCEPT
             !.half = @ \cup (IF agent.mode = "busy" \/ agent.todo # <<>> \/ ~agent.clean THEN Subjects ELSE {})
                        \cup {p \in Ports : \E i \in DOMAIN queue : client[queue[i]].cmd.arg = p},
             !.lost = @ \/ marker = {Torn}]
      BY <2>15 DEF Crash, Reboot, Hangup
    <3>2. agent.mode = "busy" \/ agent.todo # <<>> \/ ~agent.clean => Subjects \subseteq Subjected
      BY <1>0, <2>1, AtCall DEF HandOK, AgentStates, Modes
    <3>3. PICK h \in SUBSET Subjected : h = hist.half
             \cup (IF agent.mode = "busy" \/ agent.todo # <<>> \/ ~agent.clean THEN Subjects ELSE {})
             \cup {p \in Ports : \E i \in DOMAIN queue : client[queue[i]].cmd.arg = p}
      BY <2>3, <3>2, WfConstants DEF Subjected
    <3>4. hist' = [hist EXCEPT !.half = h, !.lost = hist.lost \/ marker = {Torn}]
      BY <3>1, <3>3
    <3> QED BY <2>2, <2>3, <3>4
  <2>16. ASSUME NEW c \in Clients, Look(c) \/ GiveUp(c) PROVE UNCHANGED hist
    BY <2>16 DEF Look, GiveUp
  <2>17. CASE \/ Take \/ CutRules \/ PutRule \/ TruncateMarker \/ WriteMarker \/ MarkConsole \/ Read
              \/ Boot \/ UNCHANGED wfvars
    BY <2>5, <2>17 DEF Take, CutRules, PutRule, TruncateMarker, WriteMarker, MarkConsole, Read, Boot, wfvars
  <2> QED BY <2>5, <2>6, <2>7, <2>8, <2>9, <2>12, <2>13, <2>14, <2>15, <2>16, <2>17, WfKinds
<1> QED BY <1>1, <1>2, <1>3, <1>4

LEMMA ShapeInit == WfInit => ShapeInv
<1> SUFFICES ASSUME WfInit PROVE ShapeInv
  OBVIOUS
<1>1. Idle \in AgentStates /\ agent = Idle /\ queue = <<>>
  BY DEF WfInit, Idle, AgentStates, Modes
<1>2. HandOK
  BY <1>1 DEF HandOK, Idle
<1>3. QueueOK
  BY <1>1 DEF QueueOK
<1>4. client \in [Clients -> ClientStates]
  BY DEF WfInit, ClientStates, States
<1>5. hist \in Histories
  BY DEF WfInit, Histories
<1>6. WfTypes
  <2>1. chain \in [Chained -> Seq(RuleKinds)] /\ marker \in SUBSET (Ports \cup {Torn}) /\ secured \in BOOLEAN
    <3>1. chain = [p \in Chained |-> <<>>] /\ <<>> \in Seq(RuleKinds)
      BY DEF WfInit
    <3>2. chain \in [Chained -> Seq(RuleKinds)]
      BY <3>1
    <3> QED BY <3>2 DEF WfInit
  <2>2. ufw = [on |-> FALSE, deny |-> FALSE, rules |-> <<>>] /\ <<>> \in Seq(UfwRule)
    BY DEF WfInit
  <2>3. ufw \in [on : BOOLEAN, deny : BOOLEAN, rules : Seq(UfwRule)]
    BY <2>2
  <2>4. queue \in Seq(Clients)
    BY <1>1
  <2> QED BY <1>1, <1>4, <1>5, <2>1, <2>3, <2>4 DEF WfTypes
<1> QED BY <1>2, <1>3, <1>6 DEF ShapeInv

LEMMA ShapeStep == ShapeInv /\ [WfNext]_wfvars => ShapeInv'
<1> SUFFICES ASSUME ShapeInv, [WfNext]_wfvars PROVE ShapeInv'
  OBVIOUS
<1>1. client' \in [Clients -> ClientStates] /\ ClientsOn /\ queue' \in Seq(Clients) /\ QueueOK'
  BY ClientStep
<1>2. agent' \in AgentStates /\ HandOK'
  BY <1>1, AgentStep
<1>3. WfTypes'
  BY <1>1, <1>2, StateStep DEF WfTypes
<1> QED BY <1>1, <1>2, <1>3 DEF ShapeInv

LEMMA SubjectsHeld ==
  ASSUME ShapeInv
  PROVE  /\ agent.mode \in {"idle", "down"} => Held = {}
         /\ agent.mode \in {"busy", "boot"} => Held \subseteq Subjects
         /\ agent.mode = "busy" /\ Program(agent.cmd) # <<>> => Subjects \cap Chained = Held
         /\ agent.mode = "boot" => Held = {agent.client} /\ agent.client \in Chained
<1>1. agent.mode \in {"idle", "down"} => Held = {}
  BY DEF Held, Protecting, Unprotecting, Securing
<1>2. CASE agent.mode = "boot"
  <2>1. agent.client \in Chained
    BY <1>2 DEF ShapeInv, HandOK
  <2>2. Held = {agent.client}
    BY <1>2, <2>1, WfConstants DEF Held, Protecting, Unprotecting, Securing, Chained
  <2> QED BY <1>2, <2>1, <2>2 DEF Subjects
<1>3. CASE agent.mode = "busy"
  <2>0. agent.cmd \in Commands
    BY <1>3 DEF ShapeInv, HandOK
  <2>1. CASE agent.cmd.action \in PortActions
    <3>1. /\ agent.cmd.arg \in Ports /\ Subjects = {agent.cmd.arg} /\ agent.cmd.arg \in Chained
          /\ agent.cmd.arg # Console
      BY <1>3, <2>0, <2>1, ProgramIs, WfConstants DEF Subjects, PortActions
    <3>2. agent.cmd.action = "protect_host_port" /\ Program(agent.cmd) # <<>> => agent.cmd.arg \notin Reserved
      BY <2>0, ProgramIs
    <3>3. Held \subseteq {agent.cmd.arg}
      BY <1>3, <2>1 DEF Held, Protecting, Unprotecting, Securing, PortActions
    <3>4. Program(agent.cmd) # <<>> => agent.cmd.arg \in Held
      BY <1>3, <2>1, <3>1, <3>2 DEF Held, Protecting, Unprotecting, PortActions
    <3> QED BY <1>3, <3>1, <3>3, <3>4
  <2>2. CASE agent.cmd.action = "secure_console_port"
    BY <1>3, <2>2, WfConstants DEF Held, Protecting, Unprotecting, Securing, Subjects
  <2>3. CASE agent.cmd.action \in UfwActions
    <3>1. Held = {}
      BY <1>3, <2>3 DEF Held, Protecting, Unprotecting, Securing, UfwActions
    <3>2. Subjects = {agent.cmd.arg} /\ agent.cmd.arg \notin Chained
      BY <1>3, <2>0, <2>3, ProgramIs DEF Subjects, UfwActions
    <3> QED BY <1>3, <3>1, <3>2
  <2>4. CASE agent.cmd.action \in {"init_firewall", "delete_rule"}
    <3>1. Held = {}
      BY <1>3, <2>4 DEF Held, Protecting, Unprotecting, Securing
    <3>2. Subjects \cap Chained = {}
      BY <1>3, <2>4, WfConstants DEF Subjects
    <3> QED BY <1>3, <3>1, <3>2
  <2> QED BY <2>0, <2>1, <2>2, <2>3, <2>4, ProgramIs
<1> QED BY <1>1, <1>2, <1>3 DEF ShapeInv, WfTypes, AgentStates, Modes

(* What the agent holds, from step to step.                                *)

LEMMA HeldStays ==
  ASSUME agent'.mode = agent.mode, agent'.cmd = agent.cmd, agent'.client = agent.client
  PROVE  /\ Held' = Held
         /\ \A p : /\ Protecting(p)' <=> Protecting(p)
                   /\ Unprotecting(p)' <=> Unprotecting(p)
                   /\ Securing(p)' <=> Securing(p)
BY DEF Held, Protecting, Unprotecting, Securing

LEMMA HeldLeaves ==
  ASSUME agent'.mode \in {"idle", "down"} PROVE Held' = {}
BY DEF Held, Protecting, Unprotecting, Securing

LEMMA HeldKinds ==
  ASSUME NEW p
  PROVE  /\ Protecting(p) => p \in Ports /\ p # Console /\ ~Unprotecting(p) /\ ~Securing(p)
         /\ Unprotecting(p) => p \in Ports /\ p # Console /\ ~Securing(p)
         /\ Securing(p) => p = Console
         /\ p \in Held => Protecting(p) \/ Unprotecting(p) \/ Securing(p)
BY WfConstants DEF Held, Protecting, Unprotecting, Securing

\* One call less to do.
LEMMA HandOnward ==
  ASSUME ShapeInv, CutRules \/ PutRule \/ TruncateMarker \/ WriteMarker \/ MarkConsole \/ Read \/ UfwCall
  PROVE  /\ agent.todo # <<>> /\ agent'.todo = Tail(agent.todo)
         /\ Len(agent.todo) \in Nat \ {0} /\ Len(agent'.todo) = Len(agent.todo) - 1
         /\ agent'.mode = agent.mode /\ agent'.cmd = agent.cmd /\ agent'.client = agent.client
         /\ agent'.clean = agent.clean /\ agent'.boot = agent.boot
<1>1. agent \in AgentStates
  BY DEF ShapeInv, WfTypes
<1>2. agent.todo # <<>> /\ \E c : agent' = [Rest EXCEPT !.copy = c] \/ agent' = Rest
  <2>1. CASE CutRules \/ PutRule \/ WriteMarker \/ MarkConsole \/ UfwCall
    BY <2>1 DEF CutRules, PutRule, WriteMarker, MarkConsole, UfwCall, Doing
  <2>2. CASE TruncateMarker
    BY <2>2 DEF TruncateMarker, Doing
  <2>3. CASE Read
    <3>1. agent.todo # <<>> /\ agent' = [Rest EXCEPT !.copy = IF It.op = "list" THEN Exposed ELSE Rest.copy]
      BY <2>3 DEF Read, Doing
    <3> QED BY <3>1
  <2> QED BY <2>1, <2>2, <2>3
<1>3. /\ agent'.todo = Tail(agent.todo)
      /\ agent'.mode = agent.mode /\ agent'.cmd = agent.cmd /\ agent'.client = agent.client
      /\ agent'.clean = agent.clean /\ agent'.boot = agent.boot
  BY <1>1, <1>2 DEF Rest, AgentStates
<1>4. agent.todo \in Seq(Calls)
  BY <1>1 DEF AgentStates
<1>5. Len(agent.todo) \in Nat \ {0} /\ Len(Tail(agent.todo)) = Len(agent.todo) - 1
  BY <1>2, <1>4
<1> QED BY <1>2, <1>3, <1>5

\* A new program is all to be done.
LEMMA HandTaken ==
  ASSUME ShapeInv, Take
  PROVE  /\ agent'.mode = "busy" /\ Held = {} /\ agent'.clean = TRUE
         /\ agent'.client = Head(queue) /\ agent'.cmd = client[Head(queue)].cmd
         /\ agent'.cmd \in Commands
         /\ \A p : /\ Protecting(p)' => Len(agent'.todo) = 7
                   /\ Unprotecting(p)' => Len(agent'.todo) = 4
                   /\ Securing(p)' => Len(agent'.todo) = 5
<1>1. queue \in Seq(Clients) /\ queue # <<>> /\ agent.mode = "idle" /\ QueueOK
  BY DEF Take, ShapeInv, WfTypes
<1>2. PICK cmd \in Commands : cmd = client[Head(queue)].cmd
  <2>1. Head(queue) = queue[1] /\ 1 \in DOMAIN queue
    BY <1>1
  <2> QED BY <1>1, <2>1 DEF QueueOK
<1>3. /\ agent'.mode = "busy" /\ agent'.cmd = cmd /\ agent'.client = Head(queue)
      /\ agent'.todo = Program(cmd) /\ agent'.clean = TRUE
  BY <1>2 DEF Take, Idle
<1>4. ASSUME NEW p
      PROVE  /\ Protecting(p)' => Len(agent'.todo) = 7
             /\ Unprotecting(p)' => Len(agent'.todo) = 4
             /\ Securing(p)' => Len(agent'.todo) = 5
  <2>1. Protecting(p)' => p \in Ports /\ p \notin Reserved /\ cmd.action = "protect_host_port" /\ cmd.arg = p
    BY <1>3 DEF Protecting
  <2>2. Unprotecting(p)' => p \in Ports /\ cmd.action = "unprotect_host_port" /\ cmd.arg = p
    BY <1>3 DEF Unprotecting
  <2>3. Securing(p)' => cmd.action = "secure_console_port"
    BY <1>3 DEF Securing
  <2>4. Protecting(p)' => Len(agent'.todo) = 7
    <3>1. cmd.action = "protect_host_port" /\ cmd.arg \notin Reserved => Program(cmd) = Protect(cmd.arg)
      BY ProgramIs
    <3> QED BY <1>3, <2>1, <3>1, ProtectIs
  <2>5. Unprotecting(p)' => Len(agent'.todo) = 4
    <3>1. cmd.action = "unprotect_host_port" => Program(cmd) = Unprotect(cmd.arg)
      BY ProgramIs
    <3> QED BY <1>3, <2>2, <3>1, UnprotectIs
  <2>6. Securing(p)' => Len(agent'.todo) = 5
    <3>1. cmd.action = "secure_console_port" => Program(cmd) = SecureConsole
      BY ProgramIs
    <3> QED BY <1>3, <2>3, <3>1, SecureIs
  <2> QED BY <2>4, <2>5, <2>6
<1>5. Held = {}
  BY <1>1, SubjectsHeld
<1> QED BY <1>1, <1>2, <1>3, <1>4, <1>5

LEMMA HandBoots ==
  ASSUME ShapeInv, Boot
  PROVE  /\ agent.mode = "down" /\ agent'.mode = "boot" /\ agent'.client = Console /\ agent'.boot = Loaded
         /\ Held = {} /\ Held' = {Console} /\ \A p : ~Protecting(p)' /\ ~Unprotecting(p)'
         /\ (agent'.todo = <<>> /\ Len(agent'.todo) = 0) \/ Len(agent'.todo) = 5
<1>1. /\ agent.mode = "down" /\ agent'.mode = "boot" /\ agent'.client = Console /\ agent'.boot = Loaded
      /\ agent'.todo = IF secured THEN SecureConsole ELSE <<>>
  BY DEF Boot, Idle
<1>2. Held = {}
  BY <1>1, SubjectsHeld
<1>3. Held' = {Console} /\ \A p : ~Protecting(p)' /\ ~Unprotecting(p)'
  BY <1>1, WfConstants DEF Held, Protecting, Unprotecting, Securing
<1>4. secured \in BOOLEAN
  BY DEF ShapeInv, WfTypes
<1>5. CASE secured
  BY <1>1, <1>2, <1>3, <1>5, SecureIs
<1>6. CASE ~secured
  BY <1>1, <1>2, <1>3, <1>6
<1> QED BY <1>4, <1>5, <1>6

LEMMA HandRestores ==
  ASSUME ShapeInv, Restore
  PROVE  /\ agent.mode = "boot" /\ Len(agent.todo) = 0 /\ Held = {agent.client}
         /\ hist'.half = IF agent.clean THEN hist.half ELSE hist.half \cup {agent.client}
         /\ \/ agent.boot = {} /\ agent' = Idle /\ Held' = {}
            \/ \E p \in agent.boot :
                 /\ p \in Ports /\ agent'.mode = "boot" /\ agent'.client = p
                 /\ agent'.boot = agent.boot \ {p} /\ agent'.copy = agent.copy
                 /\ Protecting(p)' /\ Held' = {p} /\ Len(agent'.todo) = 7
<1>1. agent \in AgentStates /\ hist \in Histories /\ agent.mode = "boot" /\ agent.todo = <<>>
  BY DEF Restore, ShapeInv, WfTypes
<1>2. Held = {agent.client} /\ Len(agent.todo) = 0
  BY <1>1, SubjectsHeld
<1>3. hist'.half = IF agent.clean THEN hist.half ELSE hist.half \cup {agent.client}
  BY <1>1 DEF Restore, Histories
<1>4. CASE agent.boot = {}
  <2>1. agent' = Idle
    BY <1>4 DEF Restore
  <2>2. Held' = {}
    BY <2>1, HeldLeaves DEF Idle
  <2> QED BY <1>1, <1>2, <1>3, <1>4, <2>1, <2>2
<1>5. CASE agent.boot # {}
  <2>1. PICK p \in agent.boot : agent' = [agent EXCEPT !.client = p, !.todo = Protect(p),
                                     !.boot = @ \ {p}, !.clean = TRUE]
    BY <1>5 DEF Restore
  <2>2. p \in Ports
    BY <1>1 DEF AgentStates
  <2>3. /\ agent'.mode = "boot" /\ agent'.client = p /\ agent'.todo = Protect(p)
        /\ agent'.boot = agent.boot \ {p} /\ agent'.copy = agent.copy
    BY <1>1, <2>1 DEF AgentStates
  <2>4. Protecting(p)' /\ Held' = {p}
    BY <2>2, <2>3, WfConstants DEF Held, Protecting, Unprotecting, Securing
  <2> QED BY <1>1, <1>2, <1>3, <2>2, <2>3, <2>4, ProtectIs
<1> QED BY <1>4, <1>5

\* A command ends with an error, a program at boot with nothing left to do.
LEMMA HandDrops ==
  ASSUME ShapeInv, agent.todo # <<>>, Drop
  PROVE  /\ hist'.half = hist.half \cup Subjects /\ Held \subseteq Subjects
         /\ hist'.lost = (hist.lost \/ marker = {Torn})
         /\ \/ agent.mode = "busy" /\ agent' = Idle /\ Held' = {}
            \/ /\ agent.mode = "boot" /\ agent'.mode = "boot" /\ agent'.todo = <<>> /\ Held' = Held
               /\ agent'.boot = agent.boot /\ agent'.client = agent.client /\ agent'.copy = agent.copy
<1>1. agent \in AgentStates /\ hist \in Histories /\ agent.mode \in {"busy", "boot"} /\ Held \subseteq Subjects
  BY AtCall, SubjectsHeld DEF ShapeInv, WfTypes
<1>2. /\ hist'.half = hist.half \cup Subjects
      /\ hist'.lost = (hist.lost \/ marker = {Torn})
  BY <1>1 DEF Drop, Histories
<1>3. CASE agent.mode = "busy"
  <2>1. agent' = Idle
    BY <1>3 DEF Drop
  <2>2. Held' = {}
    BY <2>1, HeldLeaves DEF Idle
  <2> QED BY <1>1, <1>2, <1>3, <2>1, <2>2
<1>4. CASE agent.mode = "boot"
  <2>1. agent' = [agent EXCEPT !.todo = <<>>]
    BY <1>4 DEF Drop
  <2>2. /\ agent'.mode = agent.mode /\ agent'.cmd = agent.cmd /\ agent'.client = agent.client
        /\ agent'.todo = <<>> /\ agent'.boot = agent.boot /\ agent'.copy = agent.copy
    BY <1>1, <2>1 DEF AgentStates
  <2> QED BY <1>1, <1>2, <1>4, <2>2, HeldStays
<1> QED BY <1>1, <1>3, <1>4

\* A call fails and the rest goes on, with or without the call that follows.
LEMMA HandSpoils ==
  ASSUME ShapeInv, NEW s \in Seq(Calls), NEW o \in BOOLEAN,
         agent' = [agent EXCEPT !.todo = s, !.ok = o, !.clean = FALSE]
  PROVE  /\ agent'.clean = FALSE /\ agent'.todo = s /\ Held' = Held
         /\ agent'.mode = agent.mode /\ agent'.cmd = agent.cmd /\ agent'.client = agent.client
         /\ agent'.boot = agent.boot /\ agent'.copy = agent.copy
<1>1. agent \in AgentStates
  BY DEF ShapeInv, WfTypes
<1>2. /\ agent'.clean = FALSE /\ agent'.todo = s
      /\ agent'.mode = agent.mode /\ agent'.cmd = agent.cmd /\ agent'.client = agent.client
      /\ agent'.boot = agent.boot /\ agent'.copy = agent.copy
  BY <1>1 DEF AgentStates
<1> QED BY <1>2, HeldStays

\* What a refusal or a full disk does, in those terms.
LEMMA Spoiled ==
  ASSUME ShapeInv, agent.todo # <<>>
  PROVE  /\ agent' = Unclean =>
              \E s \in Seq(Calls), o \in BOOLEAN :
                s = Tail(agent.todo) /\ agent' = [agent EXCEPT !.todo = s, !.ok = o, !.clean = FALSE]
         /\ \A x \in BOOLEAN : agent' = [Unclean EXCEPT !.ok = x] =>
              \E s \in Seq(Calls), o \in BOOLEAN :
                s = Tail(agent.todo) /\ agent' = [agent EXCEPT !.todo = s, !.ok = o, !.clean = FALSE]
<1>1. agent \in AgentStates /\ Tail(agent.todo) \in Seq(Calls) /\ agent.ok \in BOOLEAN
  BY AtCall DEF ShapeInv, WfTypes, AgentStates
<1>2. Unclean = [agent EXCEPT !.todo = Tail(agent.todo), !.ok = agent.ok, !.clean = FALSE]
  BY <1>1 DEF Unclean, Rest, AgentStates
<1>3. \A x \in BOOLEAN : [Unclean EXCEPT !.ok = x]
                            = [agent EXCEPT !.todo = Tail(agent.todo), !.ok = x, !.clean = FALSE]
  BY <1>1 DEF Unclean, Rest, AgentStates
<1> QED BY <1>1, <1>2, <1>3

LEMMA SkippedWrite ==
  ASSUME ShapeInv, agent.todo # <<>>, It.op = "truncate", agent' = [Unclean EXCEPT !.todo = Tail(@)]
  PROVE  \E s \in Seq(Calls), o \in BOOLEAN :
           s = Tail(Tail(agent.todo)) /\ agent' = [agent EXCEPT !.todo = s, !.ok = o, !.clean = FALSE]
<1>1. agent \in AgentStates /\ agent.ok \in BOOLEAN /\ Tail(Tail(agent.todo)) \in Seq(Calls)
  BY TruncateIsNotLast DEF ShapeInv, WfTypes, AgentStates
<1>2. agent' = [agent EXCEPT !.todo = Tail(Tail(agent.todo)), !.ok = agent.ok, !.clean = FALSE]
  BY <1>1 DEF Unclean, Rest, AgentStates
<1> QED BY <1>1, <1>2

\* Nobody is served any more.
LEMMA HandHangs ==
  ASSUME ShapeInv, Hangup
  PROVE  /\ agent'.mode = "down" /\ agent'.todo = <<>> /\ Held' = {} /\ hist.half \subseteq hist'.half
         /\ hist'.lost = (hist.lost \/ marker = {Torn})
         /\ agent.mode = "busy" \/ agent.todo # <<>> \/ ~agent.clean =>
              Subjects \subseteq hist'.half /\ Held \subseteq hist'.half
         /\ \A p \in Ports : (\E i \in DOMAIN queue : client[queue[i]].cmd.arg = p) => p \in hist'.half
         /\ hist'.word = hist.word /\ hist'.asked = hist.asked /\ queue' = <<>>
<1>1. agent \in AgentStates /\ hist \in Histories /\ HandOK
  BY DEF ShapeInv, WfTypes
<1>2. agent'.mode = "down" /\ agent'.todo = <<>>
  BY DEF Hangup, Idle
<1> DEFINE A == IF agent.mode = "busy" \/ agent.todo # <<>> \/ ~agent.clean THEN Subjects ELSE {}
           B == {p \in Ports : \E i \in DOMAIN queue : client[queue[i]].cmd.arg = p}
<1>3. hist' = [hist EXCEPT !.half = @ \cup A \cup B, !.lost = @ \/ marker = {Torn}] /\ queue' = <<>>
  BY DEF Hangup
<1>4. agent.mode = "busy" \/ agent.todo # <<>> \/ ~agent.clean => A = Subjects /\ Held \subseteq Subjects
  <2>1. agent.mode = "busy" \/ agent.todo # <<>> \/ ~agent.clean => agent.mode \in {"busy", "boot"}
    BY <1>1 DEF HandOK, AgentStates, Modes
  <2> QED BY <2>1, SubjectsHeld
<1>5. \A p \in Ports : (\E i \in DOMAIN queue : client[queue[i]].cmd.arg = p) => p \in B
  OBVIOUS
<1> HIDE DEF A, B
<1>6. /\ hist'.half = hist.half \cup A \cup B /\ hist'.lost = (hist.lost \/ marker = {Torn})
      /\ hist'.word = hist.word /\ hist'.asked = hist.asked
  BY <1>1, <1>3 DEF Histories
<1> QED BY <1>2, <1>3, <1>4, <1>5, <1>6, HeldLeaves

(* The rules of a port while its program is under way, call by call.       *)

\* n calls are left.
ProtectAt(p, n) ==
  /\ n = 6 => chain[p] \in Seq({"drop"})
  /\ n = 5 => chain[p] = <<>>
  /\ n = 4 => chain[p] = <<"drop">>
  /\ n <= 3 => chain[p] = <<"accept", "drop">>
UnprotectAt(p, n) ==
  /\ n = 3 => chain[p] \in Seq({"drop"})
  /\ n <= 2 => chain[p] = <<>>
SecureAt(p, n) ==
  /\ n = 4 => chain[p] \in Seq({"accept"})
  /\ n = 3 => chain[p] = <<>>
  /\ n = 2 => chain[p] = <<"drop">>
  /\ n <= 1 => chain[p] \in Rules
Stage(p) ==
  /\ Protecting(p) => ProtectAt(p, Len(agent.todo))
  /\ Unprotecting(p) => UnprotectAt(p, Len(agent.todo))
  /\ Securing(p) => SecureAt(p, Len(agent.todo))

\* At boot a program that was given up leaves nothing to do.
GivenUp(p) == agent.mode = "boot" /\ agent.todo = <<>> /\ p \in hist.half

ChainInv ==
  /\ \A p \in Chained \ (hist.half \cup Held) : chain[p] \in Rules
  /\ \A p \in Held : agent.clean => Stage(p) \/ GivenUp(p)

LEMMA SameSeq ==
  ASSUME NEW S, NEW s \in Seq(S), NEW t \in Seq(S), Len(s) = Len(t),
         \A i \in 1 .. Len(s) : s[i] = t[i]
  PROVE  s = t
OBVIOUS

\* iptables -I puts a rule before what is there.
LEMMA PutBefore ==
  ASSUME NEW S, NEW y \in S, NEW z \in S
  PROVE  <<y>> \o <<>> = <<y>> /\ <<y>> \o <<z>> = <<y, z>>
<1>1. <<y>> \in Seq(S) /\ <<z>> \in Seq(S) /\ <<y, z>> \in Seq(S)
  OBVIOUS
<1>2. Len(<<y>> \o <<z>>) = 2 /\ (<<y>> \o <<z>>) \in Seq(S)
  BY <1>1
<1>3. \A i \in 1 .. 2 : (<<y>> \o <<z>>)[i] = <<y, z>>[i]
  BY <1>1
<1>4. Len(<<y, z>>) = 2
  OBVIOUS
<1>5. <<y>> \o <<z>> = <<y, z>>
  BY <1>1, <1>2, <1>3, <1>4, SameSeq, Zenon
<1>6. <<y>> \o <<>> = <<y>>
  OBVIOUS
<1> QED BY <1>5, <1>6

LEMMA ChainInit == WfInit => ChainInv
<1> SUFFICES ASSUME WfInit PROVE ChainInv
  OBVIOUS
<1>1. Held = {} /\ \A p \in Chained : chain[p] = <<>>
  BY DEF WfInit, Idle, Held, Protecting, Unprotecting, Securing
<1> QED BY <1>1 DEF ChainInv, Rules

\* What was done to one port's rules is the business of no other.
LEMMA ChainElsewhere ==
  ASSUME ChainInv, NEW x \in Chained, Held' = Held, hist'.half = hist.half,
         \A p \in Chained : p # x => chain'[p] = chain[p],
         Held = {x}
  PROVE  \A p \in Chained \ (hist'.half \cup Held') : chain'[p] \in Rules
BY DEF ChainInv

LEMMA ChainCut ==
  ASSUME ShapeInv, ChainInv, CutRules PROVE ChainInv'
<1>1. /\ agent.todo # <<>> /\ It.op = "cut" /\ chain' = [chain EXCEPT ![It.on] = Without(@, It.kind)]
      /\ hist' = hist
  BY DEF CutRules, Doing, It
<1>2. /\ Len(agent.todo) \in Nat \ {0} /\ Len(agent'.todo) = Len(agent.todo) - 1
      /\ agent'.clean = agent.clean
      /\ Held' = Held /\ \A p : /\ Protecting(p)' <=> Protecting(p)
                                /\ Unprotecting(p)' <=> Unprotecting(p)
                                /\ Securing(p)' <=> Securing(p)
  BY HandOnward, HeldStays
<1>3. PICK n \in Nat : n = Len(agent.todo)
  BY <1>2
<1>4. PICK x \in Chained, k \in RuleKinds :
        /\ It.on = x /\ It.kind = k /\ Held = {x}
        /\ \/ Protecting(x) /\ ((n = 7 /\ k = "accept") \/ (n = 6 /\ k = "drop"))
           \/ Unprotecting(x) /\ ((n = 4 /\ k = "accept") \/ (n = 3 /\ k = "drop"))
           \/ Securing(x) /\ ((n = 5 /\ k = "drop") \/ (n = 4 /\ k = "accept"))
  <2>1. \/ \E p \in Ports :
             /\ It.on = p /\ Held = {p}
             /\ \/ Protecting(p) /\ ((n = 7 /\ It.kind = "accept") \/ (n = 6 /\ It.kind = "drop"))
                \/ Unprotecting(p) /\ ((n = 4 /\ It.kind = "accept") \/ (n = 3 /\ It.kind = "drop"))
        \/ /\ It.on = Console /\ Held = {Console} /\ Securing(Console)
           /\ (n = 5 /\ It.kind = "drop") \/ (n = 4 /\ It.kind = "accept")
    BY <1>1, <1>3, HandCalls DEF UfwOps
  <2>2. It.kind \in {"accept", "drop"} /\ It.on \in Chained
    BY <2>1, WfConstants
  <2> QED BY <2>1, <2>2 DEF RuleKinds
<1>5. /\ chain \in [Chained -> Seq(RuleKinds)] /\ chain'[x] = Without(chain[x], k)
      /\ \A p \in Chained : p # x => chain'[p] = chain[p]
  BY <1>1, <1>4 DEF ShapeInv, WfTypes
<1>6. chain[x] \in Seq(RuleKinds)
  BY <1>5
<1>7. chain'[x] \in Seq(RuleKinds \ {k}) /\ (chain[x] \in Seq({k}) => chain'[x] = <<>>)
  BY <1>5, <1>6, CutKeeps
<1>8. RuleKinds \ {"accept"} = {"drop"} /\ RuleKinds \ {"drop"} = {"accept"}
  BY DEF RuleKinds
<1>9. ASSUME agent.clean PROVE Stage(x)'
  <2>1. Stage(x)
    BY <1>1, <1>4, <1>9 DEF ChainInv, GivenUp
  <2>2. CASE Protecting(x)
    <3>1. ProtectAt(x, n)
      BY <1>3, <2>1, <2>2 DEF Stage
    <3>2. ProtectAt(x, n - 1)'
      BY <1>4, <1>7, <1>8, <2>2, <3>1, HeldKinds DEF ProtectAt
    <3> QED BY <1>2, <1>3, <2>2, <3>2, HeldKinds DEF Stage
  <2>3. CASE Unprotecting(x)
    <3>1. UnprotectAt(x, n)
      BY <1>3, <2>1, <2>3 DEF Stage
    <3>2. UnprotectAt(x, n - 1)'
      BY <1>4, <1>7, <1>8, <2>3, <3>1, HeldKinds DEF UnprotectAt
    <3> QED BY <1>2, <1>3, <2>3, <3>2, HeldKinds DEF Stage
  <2>4. CASE Securing(x)
    <3>1. SecureAt(x, n)
      BY <1>3, <2>1, <2>4 DEF Stage
    <3>2. SecureAt(x, n - 1)'
      BY <1>4, <1>7, <1>8, <2>4, <3>1, HeldKinds DEF SecureAt
    <3> QED BY <1>2, <1>3, <2>4, <3>2, HeldKinds DEF Stage
  <2> QED BY <1>4, <2>2, <2>3, <2>4
<1>10. \A p \in Chained \ (hist'.half \cup Held') : chain'[p] \in Rules
  BY <1>1, <1>2, <1>4, <1>5, ChainElsewhere
<1> QED BY <1>2, <1>4, <1>9, <1>10 DEF ChainInv

LEMMA ChainPut ==
  ASSUME ShapeInv, ChainInv, PutRule PROVE ChainInv'
<1>1. /\ agent.todo # <<>> /\ It.op = "put" /\ chain' = [chain EXCEPT ![It.on] = <<It.kind>> \o @]
      /\ hist' = hist
  BY DEF PutRule, Doing, It
<1>2. /\ Len(agent.todo) \in Nat \ {0} /\ Len(agent'.todo) = Len(agent.todo) - 1
      /\ agent'.clean = agent.clean
      /\ Held' = Held /\ \A p : /\ Protecting(p)' <=> Protecting(p)
                                /\ Unprotecting(p)' <=> Unprotecting(p)
                                /\ Securing(p)' <=> Securing(p)
  BY HandOnward, HeldStays
<1>3. PICK n \in Nat : n = Len(agent.todo)
  BY <1>2
<1>4. PICK x \in Chained, k \in RuleKinds :
        /\ It.on = x /\ It.kind = k /\ Held = {x}
        /\ \/ Protecting(x) /\ ((n = 5 /\ k = "drop") \/ (n = 4 /\ k = "accept"))
           \/ Securing(x) /\ ((n = 3 /\ k = "drop") \/ (n = 2 /\ k = "accept"))
  <2>1. \/ \E p \in Ports :
             /\ It.on = p /\ Held = {p} /\ Protecting(p)
             /\ (n = 5 /\ It.kind = "drop") \/ (n = 4 /\ It.kind = "accept")
        \/ /\ It.on = Console /\ Held = {Console} /\ Securing(Console)
           /\ (n = 3 /\ It.kind = "drop") \/ (n = 2 /\ It.kind = "accept")
    BY <1>1, <1>3, HandCalls DEF UfwOps
  <2>2. It.kind \in {"accept", "drop"} /\ It.on \in Chained
    BY <2>1, WfConstants
  <2> QED BY <2>1, <2>2 DEF RuleKinds
<1>5. /\ chain \in [Chained -> Seq(RuleKinds)] /\ chain'[x] = <<k>> \o chain[x]
      /\ \A p \in Chained : p # x => chain'[p] = chain[p]
  BY <1>1, <1>4 DEF ShapeInv, WfTypes
<1>6. <<"drop">> \o <<>> = <<"drop">> /\ <<"accept">> \o <<"drop">> = <<"accept", "drop">>
  <2>1. "drop" \in RuleKinds /\ "accept" \in RuleKinds
    BY DEF RuleKinds
  <2> QED BY <2>1, PutBefore
<1>7. <<"accept", "drop">> \in Rules
  BY DEF Rules
<1>9. ASSUME agent.clean PROVE Stage(x)'
  <2>1. Stage(x)
    BY <1>1, <1>4, <1>9 DEF ChainInv, GivenUp
  <2>2. CASE Protecting(x)
    <3>1. ProtectAt(x, n)
      BY <1>3, <2>1, <2>2 DEF Stage
    <3>2. ProtectAt(x, n - 1)'
      <4>1. CASE n = 5 /\ k = "drop"
        BY <1>5, <1>6, <3>1, <4>1 DEF ProtectAt
      <4>2. CASE n = 4 /\ k = "accept"
        BY <1>5, <1>6, <3>1, <4>2 DEF ProtectAt
      <4> QED BY <1>4, <2>2, <4>1, <4>2, HeldKinds
    <3> QED BY <1>2, <1>3, <2>2, <3>2, HeldKinds DEF Stage
  <2>4. CASE Securing(x)
    <3>1. SecureAt(x, n)
      BY <1>3, <2>1, <2>4 DEF Stage
    <3>2. SecureAt(x, n - 1)'
      <4>1. CASE n = 3 /\ k = "drop"
        BY <1>5, <1>6, <3>1, <4>1 DEF SecureAt
      <4>2. CASE n = 2 /\ k = "accept"
        <5>1. chain'[x] = <<"accept", "drop">>
          BY <1>5, <1>6, <3>1, <4>2 DEF SecureAt
        <5>2. chain'[x] \in Rules
          BY <1>7, <5>1
        <5> QED BY <4>2, <5>2 DEF SecureAt
      <4> QED BY <1>4, <2>4, <4>1, <4>2, HeldKinds
    <3> QED BY <1>2, <1>3, <2>4, <3>2, HeldKinds DEF Stage
  <2> QED BY <1>4, <2>2, <2>4
<1>10. \A p \in Chained \ (hist'.half \cup Held') : chain'[p] \in Rules
  BY <1>1, <1>2, <1>4, <1>5, ChainElsewhere
<1> QED BY <1>2, <1>4, <1>9, <1>10 DEF ChainInv

\* Marker, listing and ufw are no business of the chains.
LEMMA ChainOther ==
  ASSUME ShapeInv, ChainInv, TruncateMarker \/ WriteMarker \/ MarkConsole \/ Read \/ UfwCall
  PROVE  ChainInv'
<1>1. agent.todo # <<>> /\ It.op \notin {"cut", "put"} /\ chain' = chain /\ hist'.half = hist.half
  <2>1. CASE UfwCall
    <3>1. agent.todo # <<>> /\ It.op \in UfwOps /\ chain' = chain
          /\ (hist' = hist \/ hist' = [hist EXCEPT !.asked = TRUE])
      BY <2>1 DEF UfwCall, IsUfw, UfwOps
    <3>2. hist'.half = hist.half
      BY <3>1 DEF ShapeInv, WfTypes, Histories
    <3> QED BY <3>1, <3>2 DEF UfwOps
  <2> QED BY <2>1 DEF TruncateMarker, WriteMarker, MarkConsole, Read, Doing, It, kernel
<1>2. /\ Len(agent.todo) \in Nat \ {0} /\ Len(agent'.todo) = Len(agent.todo) - 1
      /\ agent'.clean = agent.clean
      /\ Held' = Held /\ \A p : /\ Protecting(p)' <=> Protecting(p)
                                /\ Unprotecting(p)' <=> Unprotecting(p)
                                /\ Securing(p)' <=> Securing(p)
  BY HandOnward, HeldStays
<1>3. PICK n \in Nat : n = Len(agent.todo)
  BY <1>2
<1>4. ASSUME NEW x \in Held, agent.clean PROVE Stage(x)'
  <2>1. Stage(x)
    BY <1>1, <1>4 DEF ChainInv, GivenUp
  <2>2. /\ Protecting(x) => n \in {3, 2, 1}
        /\ Unprotecting(x) => n \in {2, 1}
        /\ Securing(x) => n = 1
    BY <1>1, <1>3, <1>4, HandCalls, HeldKinds DEF UfwOps
  <2>3. /\ Protecting(x) => ProtectAt(x, n - 1)'
        /\ Unprotecting(x) => UnprotectAt(x, n - 1)'
        /\ Securing(x) => SecureAt(x, n - 1)'
    <3>1. ASSUME Protecting(x) PROVE ProtectAt(x, n - 1)'
      <4>1. ProtectAt(x, n) /\ n \in {3, 2, 1}
        BY <1>3, <2>1, <2>2, <3>1 DEF Stage
      <4> QED BY <1>1, <4>1 DEF ProtectAt
    <3>2. ASSUME Unprotecting(x) PROVE UnprotectAt(x, n - 1)'
      <4>1. UnprotectAt(x, n) /\ n \in {2, 1}
        BY <1>3, <2>1, <2>2, <3>2 DEF Stage
      <4> QED BY <1>1, <4>1 DEF UnprotectAt
    <3>3. ASSUME Securing(x) PROVE SecureAt(x, n - 1)'
      <4>1. SecureAt(x, n) /\ n = 1
        BY <1>3, <2>1, <2>2, <3>3 DEF Stage
      <4> QED BY <1>1, <4>1 DEF SecureAt, Rules
    <3> QED BY <3>1, <3>2, <3>3
  <2> QED BY <1>2, <1>3, <2>3 DEF Stage
<1>5. \A p \in Chained \ (hist'.half \cup Held') : chain'[p] \in Rules
  BY <1>1, <1>2 DEF ChainInv
<1> QED BY <1>2, <1>4, <1>5 DEF ChainInv

\* A port that nobody holds any more: its program came to its end.
LEMMA StageDone ==
  ASSUME ShapeInv, ChainInv, NEW p \in Held, agent.clean, Len(agent.todo) = 0
  PROVE  chain[p] \in Rules \/ GivenUp(p)
<1>1. Stage(p) \/ GivenUp(p)
  BY DEF ChainInv
<1>2. CASE Stage(p) /\ Protecting(p)
  <2>1. ProtectAt(p, 0)
    BY <1>2 DEF Stage
  <2>2. chain[p] = <<"accept", "drop">>
    BY <2>1 DEF ProtectAt
  <2> QED BY <2>2 DEF Rules
<1>3. CASE Stage(p) /\ Unprotecting(p)
  BY <1>3 DEF Stage, UnprotectAt, Rules
<1>4. CASE Stage(p) /\ Securing(p)
  BY <1>4 DEF Stage, SecureAt
<1> QED BY <1>1, <1>2, <1>3, <1>4, HeldKinds

\* An empty program is that of a refused command.
LEMMA NothingHeld ==
  ASSUME ShapeInv, agent.mode = "busy", Program(agent.cmd) = <<>> PROVE Held = {}
<1>1. Plan = <<>>
  BY DEF Plan
<1>2. Len(Plan) = 0
  BY <1>1
<1>3. \A p \in Ports : Plan # Protect(p) /\ Plan # Unprotect(p)
  BY <1>2, ProtectIs, UnprotectIs
<1>4. Plan # SecureConsole
  BY <1>2, SecureIs
<1> QED BY <1>3, <1>4, PlanCases

LEMMA ChainFinish == ASSUME ShapeInv, ChainInv, Finish PROVE ChainInv'
<1>1. /\ agent.mode = "busy" /\ agent.todo = <<>> /\ Len(agent.todo) = 0 /\ agent' = Idle /\ chain' = chain
      /\ hist' = [hist EXCEPT !.half = IF Program(agent.cmd) = <<>> THEN @
                                     ELSE IF agent.clean THEN @ \ Subjects
                                     ELSE @ \cup Subjects]
  BY DEF Finish, kernel
<1>2. Held' = {}
  BY <1>1, HeldLeaves DEF Idle
<1>3. hist'.half = IF Program(agent.cmd) = <<>> THEN hist.half
                   ELSE IF agent.clean THEN hist.half \ Subjects ELSE hist.half \cup Subjects
  BY <1>1 DEF ShapeInv, WfTypes, Histories
<1>4. Program(agent.cmd) # <<>> => Subjects \cap Chained = Held
  BY <1>1, SubjectsHeld
<1>5. Program(agent.cmd) = <<>> => Held = {}
  BY <1>1, NothingHeld
<1>6. ASSUME NEW p \in Chained, p \notin hist'.half PROVE chain[p] \in Rules
  <2>1. CASE p \in Held
    <3>1. agent.clean
      BY <1>3, <1>4, <1>5, <1>6, <2>1
    <3> QED BY <1>1, <2>1, <3>1, StageDone DEF GivenUp
  <2>2. CASE p \notin Held
    <3>1. p \notin hist.half
      BY <1>3, <1>4, <1>6, <2>2
    <3> QED BY <2>2, <3>1 DEF ChainInv
  <2> QED BY <2>1, <2>2
<1> QED BY <1>1, <1>2, <1>6 DEF ChainInv

\* A call failed, and the rest of the command goes on.
LEMMA ChainSpoils ==
  ASSUME ChainInv, chain' = chain, Held' = Held, agent'.clean = FALSE, hist.half \subseteq hist'.half
  PROVE  ChainInv'
BY DEF ChainInv

LEMMA ChainDrops ==
  ASSUME ShapeInv, ChainInv, agent.todo # <<>>, Drop, chain' = chain PROVE ChainInv'
<1>1. /\ hist'.half = hist.half \cup Subjects /\ Held \subseteq Subjects
      /\ \/ Held' = {}
         \/ agent'.mode = "boot" /\ agent'.todo = <<>> /\ Held' = Held
  BY HandDrops
<1>2. \A p \in Chained \ (hist'.half \cup Held') : chain'[p] \in Rules
  BY <1>1 DEF ChainInv
<1>3. \A p \in Held' : GivenUp(p)'
  BY <1>1 DEF GivenUp
<1> QED BY <1>2, <1>3 DEF ChainInv

\* Whoever asks, gives up or looks leaves no command half done.
LEMMA SendingHarmsNone ==
  ASSUME ShapeInv, NEW c \in Clients,
         Look(c) \/ GiveUp(c) \/ \E cmd \in Commands, st \in Unsent : Sends(c, st, cmd)
  PROVE  hist'.half = hist.half /\ hist'.lost = hist.lost /\ hist'.asked = hist.asked
<1>1. CASE Look(c) \/ GiveUp(c)
  BY <1>1 DEF Look, GiveUp
<1>2. ASSUME NEW cmd \in Commands, NEW st \in Unsent, Sends(c, st, cmd)
      PROVE  hist'.half = hist.half /\ hist'.lost = hist.lost /\ hist'.asked = hist.asked
  <2>1. hist' = hist \/ hist' = [hist EXCEPT !.word[cmd.arg] = cmd.action]
    BY <1>2, Connecting
  <2> QED BY <2>1 DEF ShapeInv, WfTypes, Histories
<1> QED BY <1>1, <1>2

LEMMA ChainStep == ShapeInv /\ ChainInv /\ [WfNext]_wfvars => ChainInv'
<1> SUFFICES ASSUME ShapeInv, ChainInv, [WfNext]_wfvars PROVE ChainInv'
  OBVIOUS
<1>1. CASE CutRules \/ PutRule \/ TruncateMarker \/ WriteMarker \/ MarkConsole \/ Read \/ UfwCall
  BY <1>1, ChainCut, ChainPut, ChainOther
<1>2. CASE Finish
  BY <1>2, ChainFinish
<1>3. CASE Take
  <2>1. /\ Held = {} /\ \A p : /\ Protecting(p)' => Len(agent'.todo) = 7
                               /\ Unprotecting(p)' => Len(agent'.todo) = 4
                               /\ Securing(p)' => Len(agent'.todo) = 5
        /\ chain' = chain /\ hist' = hist
    BY <1>3, HandTaken DEF Take, kernel
  <2>2. \A p : Stage(p)'
    <3> SUFFICES ASSUME NEW p PROVE Stage(p)'
      OBVIOUS
    <3>1. ProtectAt(p, 7)' /\ UnprotectAt(p, 4)' /\ SecureAt(p, 5)'
      BY DEF ProtectAt, UnprotectAt, SecureAt
    <3> QED BY <2>1, <3>1 DEF Stage
  <2> QED BY <2>1, <2>2 DEF ChainInv
<1>4. CASE Boot
  <2>1. /\ Held = {} /\ Held' = {Console} /\ agent'.mode = "boot" /\ chain' = chain /\ hist' = hist
        /\ \A p : ~Protecting(p)' /\ ~Unprotecting(p)'
        /\ (agent'.todo = <<>> /\ Len(agent'.todo) = 0) \/ Len(agent'.todo) = 5
    BY <1>4, HandBoots DEF Boot, kernel
  <2>2. Console \in hist.half \/ chain[Console] \in Rules
    BY <2>1, WfConstants DEF ChainInv
  <2>3. CASE Len(agent'.todo) = 5
    <3>1. Stage(Console)'
      BY <2>1, <2>3 DEF Stage, SecureAt
    <3> QED BY <2>1, <3>1 DEF ChainInv
  <2>4. CASE agent'.todo = <<>> /\ Len(agent'.todo) = 0
    <3>1. CASE Console \in hist.half
      <4>1. GivenUp(Console)'
        BY <2>1, <2>4, <3>1 DEF GivenUp
      <4> QED BY <2>1, <4>1 DEF ChainInv
    <3>2. CASE chain[Console] \in Rules
      <4>1. Stage(Console)'
        BY <2>1, <2>4, <3>2 DEF Stage, SecureAt
      <4> QED BY <2>1, <4>1 DEF ChainInv
    <3> QED BY <2>2, <3>1, <3>2
  <2> QED BY <2>1, <2>3, <2>4
<1>5. CASE Restore
  <2>1. /\ agent.mode = "boot" /\ Len(agent.todo) = 0 /\ Held = {agent.client}
        /\ hist'.half = IF agent.clean THEN hist.half ELSE hist.half \cup {agent.client}
        /\ \/ Held' = {}
           \/ \E p \in Ports : Protecting(p)' /\ Held' = {p} /\ Len(agent'.todo) = 7
        /\ chain' = chain
    BY <1>5, HandRestores DEF Restore, kernel
  <2>2. ASSUME NEW p \in Chained, p \notin hist'.half, p \notin Held' PROVE chain'[p] \in Rules
    <3>1. CASE p \in Held
      <4>1. agent.clean /\ p \notin hist.half
        BY <2>1, <2>2, <3>1
      <4> QED BY <2>1, <3>1, <4>1, StageDone DEF GivenUp
    <3>2. CASE p \notin Held
      BY <2>1, <2>2, <3>2 DEF ChainInv
    <3> QED BY <3>1, <3>2
  <2>3. \A p \in Held' : Stage(p)'
    <3> SUFFICES ASSUME NEW p \in Ports, Protecting(p)', Held' = {p}, Len(agent'.todo) = 7
                 PROVE  Stage(p)'
      BY <2>1
    <3>1. ~Unprotecting(p)' /\ ~Securing(p)'
      BY WfConstants DEF Protecting, Unprotecting, Securing
    <3> QED BY <3>1 DEF Stage, ProtectAt
  <2> QED BY <2>2, <2>3 DEF ChainInv
<1>6. ASSUME NEW s \in Seq(Calls), NEW o \in BOOLEAN, chain' = chain, hist.half \subseteq hist'.half,
             agent' = [agent EXCEPT !.todo = s, !.ok = o, !.clean = FALSE]
      PROVE  ChainInv'
  <2>1. Held' = Held /\ agent'.clean = FALSE
    BY <1>6, HandSpoils
  <2> QED BY <1>6, <2>1, ChainSpoils
<1>7. CASE Refuse
  <2>1. agent.todo # <<>> /\ chain' = chain
    BY <1>7 DEF Refuse, kernel
  <2>2. CASE Drop
    BY <2>1, <2>2, ChainDrops
  <2>3. CASE hist' = hist /\ (agent' = Unclean \/ \E x \in BOOLEAN : agent' = [Unclean EXCEPT !.ok = x])
    BY <1>6, <2>1, <2>3, Spoiled
  <2> QED BY <1>7, <2>2, <2>3 DEF Refuse
<1>8. CASE GetStuck
  <2>1. agent.todo # <<>> /\ chain' = chain
    BY <1>8 DEF GetStuck, kernel
  <2>2. CASE Drop
    BY <2>1, <2>2, ChainDrops
  <2>3. CASE agent' = [Idle EXCEPT !.mode = "down"] /\ hist' = [hist EXCEPT !.half = @ \cup Subjects]
    <3>1. hist'.half = hist.half \cup Subjects /\ Held \subseteq Subjects /\ Held' = {}
      <4>1. agent'.mode = "down"
        BY <2>3 DEF Idle
      <4>2. Held \subseteq Subjects
        BY <2>1, AtCall, SubjectsHeld
      <4>3. hist'.half = hist.half \cup Subjects
        BY <2>3 DEF ShapeInv, WfTypes, Histories
      <4> QED BY <4>1, <4>2, <4>3, HeldLeaves
    <3> QED BY <2>1, <3>1 DEF ChainInv
  <2> QED BY <1>8, <2>2, <2>3 DEF GetStuck
<1>9. CASE DiskFails
  <2>1. chain' = chain /\ agent.todo # <<>> /\ hist.half \subseteq hist'.half
    <3>1. /\ chain' = chain /\ agent.todo # <<>>
          /\ \/ hist' = [hist EXCEPT !.half = @ \cup Subjects] \/ hist' = [hist EXCEPT !.lost = TRUE]
             \/ hist' = hist
      BY <1>9 DEF DiskFails, Doing, kernel
    <3>2. hist.half \subseteq hist'.half
      BY <3>1 DEF ShapeInv, WfTypes, Histories
    <3> QED BY <3>1, <3>2
  <2>2. \/ agent' = Unclean
        \/ It.op = "truncate" /\ agent' = [Unclean EXCEPT !.todo = Tail(@)]
    BY <1>9 DEF DiskFails, Doing, It
  <2> QED BY <1>6, <2>1, <2>2, Spoiled, SkippedWrite
<1>10. CASE Crash \/ Reboot
  <2>1. /\ Held' = {} /\ hist.half \subseteq hist'.half
        /\ agent.mode = "busy" \/ agent.todo # <<>> \/ ~agent.clean => Held \subseteq hist'.half
    BY <1>10, HandHangs DEF Crash, Reboot
  <2>2. CASE chain' = [p \in Chained |-> <<>>]
    BY <2>1, <2>2 DEF ChainInv, Rules
  <2>3. CASE chain' = chain
    <3>1. ASSUME NEW p \in Chained, p \notin hist'.half PROVE chain[p] \in Rules
      <4>1. CASE p \in Held
        <5>1. agent.todo = <<>> /\ agent.clean /\ p \notin hist.half
          BY <2>1, <3>1, <4>1
        <5>2. Len(agent.todo) = 0
          BY <5>1
        <5> QED BY <4>1, <5>1, <5>2, StageDone DEF GivenUp
      <4>2. CASE p \notin Held
        BY <2>1, <3>1, <4>2 DEF ChainInv
      <4> QED BY <4>1, <4>2
    <3> QED BY <2>1, <2>3, <3>1 DEF ChainInv
  <2> QED BY <1>10, <2>2, <2>3 DEF Crash, Reboot, kernel
\* Whatever the console does, the agent and its rules stay.
<1>11. ASSUME UNCHANGED agent, chain' = chain, hist'.half = hist.half PROVE ChainInv'
  <2>1. Held' = Held /\ \A p : (Stage(p)' <=> Stage(p)) /\ (GivenUp(p)' <=> GivenUp(p))
    BY <1>11, HeldStays DEF Stage, GivenUp, ProtectAt, UnprotectAt, SecureAt
  <2> QED BY <1>11, <2>1 DEF ChainInv
<1>12. ASSUME NEW c \in Clients,
              Look(c) \/ GiveUp(c) \/ \E cmd \in Commands, st \in Unsent : Sends(c, st, cmd)
       PROVE  ChainInv'
  <2>1. UNCHANGED agent /\ chain' = chain
    BY <1>12 DEF Look, GiveUp, Sends, kernel
  <2>2. hist'.half = hist.half
    BY <1>12, SendingHarmsNone
  <2> QED BY <1>11, <2>1, <2>2
<1>13. CASE UNCHANGED wfvars
  BY <1>11, <1>13 DEF wfvars, kernel
<1> QED BY <1>1, <1>2, <1>3, <1>4, <1>5, <1>7, <1>8, <1>9, <1>10, <1>12, <1>13, WfKinds

(* However its commands are refused, stuck or cut short, the agent leaves at  *)
(* rest a port without rules or with exactly the two, first the exception for *)
(* the loopback: _protect_host_port, _unprotect_host_port,                    *)
(* _secure_console_port and the restoring of serve.                           *)
THEOREM WfChainsAreClean == WfSpec => []ChainsAreClean
<1>1. WfInit => ShapeInv /\ ChainInv
  BY ShapeInit, ChainInit
<1>2. ShapeInv /\ ChainInv /\ [WfNext]_wfvars => (ShapeInv /\ ChainInv)'
  BY ShapeStep, ChainStep
<1>3. ShapeInv /\ ChainInv => ChainsAreClean
  BY SubjectsHeld DEF ChainsAreClean, AtRest, ChainInv
<1> QED BY <1>1, <1>2, <1>3, PTL DEF WfSpec

(* The kernel and the marker.                                              *)

\* The ports that the marker stands for: while it is written, those read from it.
Kept == IF Torn \in marker THEN agent.copy ELSE marker

\* The file is cut off and about to be written.
AtWrite == \E p \in Held : \/ Protecting(p) /\ Len(agent.todo) = 2
                           \/ Unprotecting(p) /\ Len(agent.todo) = 1

\* What the marker says of the port in hand when few calls are left.
MarkStage(p) ==
  /\ Protecting(p) /\ Len(agent.todo) <= 1 => p \in Kept
  /\ Unprotecting(p) /\ Len(agent.todo) = 0 => p \notin Kept

Agree(p) ==
  /\ Blocked(p) => p \in Kept
  /\ p \in Kept => Blocked(p) \/ agent.mode = "down" \/ (agent.mode = "boot" /\ p \in agent.boot)

Writing   == (Torn \in marker <=> AtWrite) /\ (Torn \in marker => marker = {Torn})
Agreeing  == \A p \in Ports : p \notin hist.half \cup Held => Agree(p)
Restoring == agent.mode = "boot" => agent.boot \subseteq Kept /\ (agent.client \in Ports => agent.client \in Kept)
Marking   == \A p \in Held : agent.clean => MarkStage(p) \/ GivenUp(p)

MarkOK  == Writing /\ Agreeing /\ Restoring /\ Marking
MarkInv == ~hist.lost => MarkOK

LEMMA MarkInit == WfInit => MarkInv
<1> SUFFICES ASSUME WfInit PROVE MarkInv
  OBVIOUS
<1>1. /\ Held = {} /\ marker = {} /\ agent.mode = "idle"
      /\ \A p \in Chained : DOMAIN chain[p] = {}
  BY DEF WfInit, Idle, Held, Protecting, Unprotecting, Securing
<1>2. Kept = {} /\ ~AtWrite
  BY <1>1 DEF Kept, AtWrite
<1>3. \A p \in Ports : Agree(p)
  BY <1>1, <1>2, WfConstants DEF Agree, Blocked
<1> QED BY <1>1, <1>2, <1>3 DEF MarkInv, MarkOK, Writing, Agreeing, Restoring, Marking

\* A lost marker file stays on record.
LEMMA LostStays ==
  ASSUME ShapeInv, [WfNext]_wfvars, hist.lost PROVE hist'.lost
<1>1. hist \in Histories
  BY DEF ShapeInv, WfTypes
<1>2. ASSUME NEW c \in Clients, NEW cmd \in Commands, NEW st \in Unsent, Sends(c, st, cmd) PROVE hist'.lost
  <2>1. hist' = hist \/ hist' = [hist EXCEPT !.word[cmd.arg] = cmd.action]
    BY <1>2, Connecting
  <2> QED BY <1>1, <2>1 DEF Histories
<1>3. ASSUME NEW c \in Clients, Look(c) \/ GiveUp(c) PROVE hist'.lost
  BY <1>3 DEF Look, GiveUp
<1>4. CASE \/ Take \/ CutRules \/ PutRule \/ TruncateMarker \/ WriteMarker \/ MarkConsole \/ Read \/ Boot
           \/ UNCHANGED wfvars
  BY <1>4 DEF Take, CutRules, PutRule, TruncateMarker, WriteMarker, MarkConsole, Read, Boot, wfvars
<1>5. CASE UfwCall \/ Finish \/ Restore
  BY <1>1, <1>5 DEF UfwCall, Finish, Restore, Histories
<1>6. ASSUME Drop PROVE hist'.lost
  BY <1>1, <1>6 DEF Drop, Histories
<1>7. CASE Refuse \/ GetStuck \/ DiskFails
  BY <1>1, <1>6, <1>7 DEF Refuse, GetStuck, DiskFails, Histories
<1>8. CASE Crash \/ Reboot
  BY <1>8, HandHangs DEF Crash, Reboot
<1> QED BY <1>2, <1>3, <1>4, <1>5, <1>7, <1>8, WfKinds

\* Which call it is tells whether the file is about to be written.
LEMMA WritingNow ==
  ASSUME ShapeInv, agent.todo # <<>>
  PROVE  /\ AtWrite <=> It.op \in {"add", "remove"}
         /\ Len(agent.todo) \in Nat \ {0}
<1>1. Len(agent.todo) \in Nat \ {0}
  <2>1. Len(agent.todo) \in 1 .. Len(Plan) /\ Plan \in Seq(Calls)
    BY AtCall
  <2> QED BY <2>1
<1>2. PICK n \in Nat : n = Len(agent.todo)
  BY <1>1
<1>3. AtWrite <=> \E p \in Held : (Protecting(p) /\ n = 2) \/ (Unprotecting(p) /\ n = 1)
  BY <1>2 DEF AtWrite
<1>4. ASSUME NEW p \in Ports, Held = {p}, Protecting(p) PROVE AtWrite <=> n = 2
  BY <1>3, <1>4, HeldKinds
<1>5. ASSUME NEW p \in Ports, Held = {p}, Unprotecting(p) PROVE AtWrite <=> n = 1
  BY <1>3, <1>5, HeldKinds
<1>6. ASSUME Held = {Console} PROVE ~AtWrite
  BY <1>3, <1>6, HeldKinds
<1>7. Held = {} => ~AtWrite
  BY DEF AtWrite
<1>8. \/ \E p \in Ports : Held = {p} /\ Protecting(p) /\ (n = 2 <=> It.op \in {"add", "remove"})
      \/ \E p \in Ports : Held = {p} /\ Unprotecting(p) /\ (n = 1 <=> It.op \in {"add", "remove"})
      \/ Held = {Console} /\ It.op \notin {"add", "remove"}
      \/ Held = {} /\ It.op \notin {"add", "remove"}
  <2>1. \/ \E p \in Ports : /\ Held = {p} /\ Protecting(p)
                            /\ \/ n = 2 /\ It.op = "add"
                               \/ n # 2 /\ It.op \in {"cut", "put", "truncate", "verify"}
        \/ \E p \in Ports : /\ Held = {p} /\ Unprotecting(p)
                            /\ \/ n = 1 /\ It.op = "remove"
                               \/ n # 1 /\ It.op \in {"cut", "truncate"}
        \/ Held = {Console} /\ It.op \in {"cut", "put", "mark"}
        \/ Held = {} /\ It.op \in UfwOps
    <3> DEFINE P(p) == \/ n = 2 /\ It.op = "add"
                       \/ n # 2 /\ It.op \in {"cut", "put", "truncate", "verify"}
               U(p) == \/ n = 1 /\ It.op = "remove"
                       \/ n # 1 /\ It.op \in {"cut", "truncate"}
    <3>1. ASSUME NEW p \in Ports,
                 \/ n = 7 /\ It = [op |-> "cut", on |-> p, kind |-> "accept"]
                 \/ n = 6 /\ It = [op |-> "cut", on |-> p, kind |-> "drop"]
                 \/ n = 5 /\ It = [op |-> "put", on |-> p, kind |-> "drop"]
                 \/ n = 4 /\ It = [op |-> "put", on |-> p, kind |-> "accept"]
                 \/ n = 3 /\ It = [op |-> "truncate", on |-> p, kind |-> "none"]
                 \/ n = 2 /\ It = [op |-> "add", on |-> p, kind |-> "none"]
                 \/ n = 1 /\ It = [op |-> "verify", on |-> p, kind |-> "none"]
          PROVE  P(p)
      BY <3>1
    <3>2. ASSUME NEW p \in Ports,
                 \/ n = 4 /\ It = [op |-> "cut", on |-> p, kind |-> "accept"]
                 \/ n = 3 /\ It = [op |-> "cut", on |-> p, kind |-> "drop"]
                 \/ n = 2 /\ It = [op |-> "truncate", on |-> p, kind |-> "none"]
                 \/ n = 1 /\ It = [op |-> "remove", on |-> p, kind |-> "none"]
          PROVE  U(p)
      BY <3>2
    <3>3. \/ \E p \in Ports : Held = {p} /\ Protecting(p) /\ P(p)
          \/ \E p \in Ports : Held = {p} /\ Unprotecting(p) /\ U(p)
          \/ Held = {Console} /\ It.op \in {"cut", "put", "mark"}
          \/ Held = {} /\ It.op \in UfwOps
      <4> HIDE DEF P, U
      <4> QED BY <1>2, <3>1, <3>2, HandCalls
    <3> QED BY <3>3
  <2>2. \A x \in UfwOps \cup {"cut", "put", "truncate", "verify", "mark"} : x \notin {"add", "remove"}
    BY DEF UfwOps
  <2> QED BY <2>1, <2>2
<1> QED BY <1>1, <1>4, <1>5, <1>6, <1>7, <1>8

\* With nothing left to do no file is being written.
LEMMA WritingOver ==
  ASSUME Len(agent.todo) = 0 \/ Held = {} PROVE ~AtWrite
BY DEF AtWrite

\* Whole again, the marker is what it stands for.
LEMMA KeptIs ==
  ASSUME Torn \notin marker PROVE Kept = marker /\ Loaded = marker
BY DEF Kept, Loaded

LEMMA BlockedIs ==
  ASSUME ShapeInv, ChainInv, NEW p \in Ports, p \in Held, agent.clean, Len(agent.todo) = 0
  PROVE  \/ GivenUp(p)
         \/ Protecting(p) /\ Blocked(p)
         \/ Unprotecting(p) /\ ~Blocked(p)
<1>1. Stage(p) \/ GivenUp(p)
  BY DEF ChainInv
<1>2. CASE Stage(p) /\ Protecting(p)
  <2>1. ProtectAt(p, 0)
    BY <1>2 DEF Stage
  <2>2. chain[p] = <<"accept", "drop">>
    BY <2>1 DEF ProtectAt
  <2> QED BY <1>2, <2>2 DEF Blocked
<1>3. CASE Stage(p) /\ Unprotecting(p)
  <2>1. UnprotectAt(p, 0)
    BY <1>3 DEF Stage
  <2>2. chain[p] = <<>>
    BY <2>1 DEF UnprotectAt
  <2> QED BY <1>3, <2>2 DEF Blocked
<1> QED BY <1>1, <1>2, <1>3, HeldKinds, WfConstants

\* The call in turn is about a port of Held, and the others keep their rules.
LEMMA BlockedElsewhere ==
  ASSUME ShapeInv, CutRules \/ PutRule, NEW p \in Ports, p \notin Held
  PROVE  Blocked(p)' <=> Blocked(p)
<1>1. agent.todo # <<>> /\ It.op \in {"cut", "put"}
      /\ \E s : chain' = [chain EXCEPT ![It.on] = s]
  BY DEF CutRules, PutRule, Doing, It
<1>2. It.on \in Held
  BY <1>1, HandCalls DEF UfwOps
<1>3. chain'[p] = chain[p]
  BY <1>1, <1>2, WfConstants DEF ShapeInv, WfTypes
<1> QED BY <1>3 DEF Blocked

\* Rules are cut or put, or a call passes that touches neither rules nor marker.
LEMMA MarkPasses ==
  ASSUME ShapeInv, MarkOK, CutRules \/ PutRule \/ MarkConsole \/ Read \/ UfwCall PROVE MarkOK'
<1>1. /\ agent.todo # <<>> /\ Len(agent.todo) \in Nat \ {0} /\ Len(agent'.todo) = Len(agent.todo) - 1
      /\ agent'.mode = agent.mode /\ agent'.clean = agent.clean
      /\ agent'.client = agent.client /\ agent'.boot = agent.boot
      /\ Held' = Held /\ \A p : /\ Protecting(p)' <=> Protecting(p)
                                /\ Unprotecting(p)' <=> Unprotecting(p)
                                /\ Securing(p)' <=> Securing(p)
  BY HandOnward, HeldStays
<1>2. It.op \notin {"truncate", "add", "remove"} /\ marker' = marker /\ hist'.half = hist.half
  <2>1. CASE UfwCall
    <3>1. It.op \in UfwOps /\ marker' = marker /\ (hist' = hist \/ hist' = [hist EXCEPT !.asked = TRUE])
      BY <2>1 DEF UfwCall, IsUfw, UfwOps, disk
    <3> QED BY <3>1 DEF ShapeInv, WfTypes, Histories, UfwOps
  <2> QED BY <2>1 DEF CutRules, PutRule, MarkConsole, Read, Doing, It, disk
<1>3. Torn \notin marker /\ ~AtWrite
  BY <1>1, <1>2, WritingNow DEF MarkOK, Writing
<1>4. Kept' = Kept
  BY <1>2, <1>3 DEF Kept
<1>5. PICK n \in Nat : n = Len(agent.todo)
  BY <1>1
<1>6. ASSUME NEW p \in Held
      PROVE  /\ Protecting(p) => n \in {7, 6, 5, 4, 1}
             /\ Unprotecting(p) => n \in {4, 3}
  BY <1>1, <1>2, <1>5, HandCalls, HeldKinds
<1>7. ~AtWrite'
  <2>1. AtWrite' <=> \E p \in Held : (Protecting(p) /\ n - 1 = 2) \/ (Unprotecting(p) /\ n - 1 = 1)
    BY <1>1, <1>5 DEF AtWrite
  <2> QED BY <1>6, <2>1
<1>8. Writing'
  BY <1>2, <1>3, <1>7 DEF Writing
<1>9. ASSUME NEW p \in Ports, p \notin Held PROVE Blocked(p)' <=> Blocked(p)
  <2>1. CASE CutRules \/ PutRule
    BY <1>9, <2>1, BlockedElsewhere
  <2>2. CASE chain' = chain
    BY <2>2 DEF Blocked
  <2> QED BY <2>1, <2>2 DEF MarkConsole, Read, UfwCall, kernel
<1>10. Agreeing'
  BY <1>1, <1>2, <1>4, <1>9 DEF MarkOK, Agreeing, Agree
<1>11. Restoring'
  BY <1>1, <1>4 DEF MarkOK, Restoring
<1>12. ASSUME NEW p \in Held, agent.clean PROVE MarkStage(p)'
  <2>1. MarkStage(p)
    BY <1>1, <1>12 DEF MarkOK, Marking, GivenUp
  <2>2. Protecting(p) /\ n = 1 => p \in Kept
    BY <1>5, <2>1 DEF MarkStage
  <2>3. MarkStage(p)' <=> /\ Protecting(p) /\ n - 1 <= 1 => p \in Kept
                          /\ Unprotecting(p) /\ n - 1 = 0 => p \notin Kept
    BY <1>1, <1>4, <1>5 DEF MarkStage
  <2> QED BY <1>6, <1>12, <2>2, <2>3
<1>13. Marking'
  BY <1>1, <1>12 DEF Marking
<1> QED BY <1>8, <1>10, <1>11, <1>13 DEF MarkOK

LEMMA MarkTruncate == ASSUME ShapeInv, MarkOK, TruncateMarker PROVE MarkOK'
<1>1. /\ agent.todo # <<>> /\ Len(agent.todo) \in Nat \ {0} /\ Len(agent'.todo) = Len(agent.todo) - 1
      /\ agent'.mode = agent.mode /\ agent'.clean = agent.clean
      /\ agent'.client = agent.client /\ agent'.boot = agent.boot
      /\ Held' = Held /\ \A p : /\ Protecting(p)' <=> Protecting(p)
                                /\ Unprotecting(p)' <=> Unprotecting(p)
                                /\ Securing(p)' <=> Securing(p)
  BY HandOnward, HeldStays
<1>2. /\ It.op = "truncate" /\ marker' = {Torn} /\ chain' = chain /\ hist' = hist
      /\ agent' = [Rest EXCEPT !.copy = Loaded]
  BY DEF TruncateMarker, Doing, It, kernel
<1>3. agent'.copy = Loaded
  BY <1>2 DEF Rest, ShapeInv, WfTypes, AgentStates
<1>4. Torn \notin marker /\ Loaded = marker /\ Kept = marker
  BY <1>1, <1>2, WritingNow, KeptIs DEF MarkOK, Writing
<1>5. Kept' = Kept /\ Torn \in marker'
  BY <1>2, <1>3, <1>4 DEF Kept
<1>6. PICK n \in Nat : n = Len(agent.todo)
  BY <1>1
<1>7. PICK p \in Ports : Held = {p} /\ ((Protecting(p) /\ n = 3) \/ (Unprotecting(p) /\ n = 2))
  <2>1. \E p \in Ports : Held = {p} /\ ((Protecting(p) /\ n = 3) \/ (Unprotecting(p) /\ n = 2))
    BY <1>1, <1>2, <1>6, HandCalls DEF UfwOps
  <2> QED BY <2>1
<1>8. Writing'
  <2>1. AtWrite'
    BY <1>1, <1>6, <1>7 DEF AtWrite
  <2> QED BY <1>2, <1>5, <2>1 DEF Writing
<1>9. Agreeing'
  BY <1>1, <1>2, <1>5 DEF MarkOK, Agreeing, Agree, Blocked
<1>10. Restoring'
  BY <1>1, <1>5 DEF MarkOK, Restoring
<1>12. MarkStage(p)'
  <2>1. (Protecting(p)' => n - 1 = 2) /\ (Unprotecting(p)' => n - 1 = 1)
    BY <1>1, <1>7, HeldKinds
  <2>2. MarkStage(p)' <=> /\ Protecting(p)' /\ n - 1 <= 1 => p \in Kept'
                          /\ Unprotecting(p)' /\ n - 1 = 0 => p \notin Kept'
    BY <1>1, <1>6 DEF MarkStage
  <2> QED BY <2>1, <2>2
<1>13. Marking'
  BY <1>1, <1>7, <1>12 DEF Marking
<1> QED BY <1>8, <1>9, <1>10, <1>13 DEF MarkOK

LEMMA MarkWrite == ASSUME ShapeInv, MarkOK, WriteMarker PROVE MarkOK'
<1>1. /\ agent.todo # <<>> /\ Len(agent.todo) \in Nat \ {0} /\ Len(agent'.todo) = Len(agent.todo) - 1
      /\ agent'.mode = agent.mode /\ agent'.clean = agent.clean
      /\ agent'.client = agent.client /\ agent'.boot = agent.boot
      /\ Held' = Held /\ \A p : /\ Protecting(p)' <=> Protecting(p)
                                /\ Unprotecting(p)' <=> Unprotecting(p)
                                /\ Securing(p)' <=> Securing(p)
  BY HandOnward, HeldStays
<1>2. /\ It.op \in {"add", "remove"} /\ chain' = chain /\ hist' = hist
      /\ marker' = IF It.op = "add" THEN agent.copy \cup {It.on} ELSE agent.copy \ {It.on}
  BY DEF WriteMarker, Doing, It, kernel
<1>3. Torn \in marker /\ Kept = agent.copy /\ agent.copy \subseteq Ports /\ agent.mode \in Modes
  BY <1>1, <1>2, WritingNow DEF MarkOK, Writing, Kept, ShapeInv, WfTypes, AgentStates
<1>4. PICK n \in Nat : n = Len(agent.todo)
  BY <1>1
<1>5. PICK x \in Ports : /\ Held = {x} /\ It.on = x
                         /\ \/ Protecting(x) /\ n = 2 /\ It.op = "add"
                            \/ Unprotecting(x) /\ n = 1 /\ It.op = "remove"
  BY <1>1, <1>2, <1>4, HandCalls DEF UfwOps
<1>6. Torn \notin marker' /\ Kept' = IF It.op = "add" THEN Kept \cup {x} ELSE Kept \ {x}
  BY <1>2, <1>3, <1>5, WfConstants DEF Kept
<1>7. Writing'
  <2>1. AtWrite' <=> \E p \in Held : (Protecting(p) /\ n - 1 = 2) \/ (Unprotecting(p) /\ n - 1 = 1)
    BY <1>1, <1>4 DEF AtWrite
  <2>2. ~AtWrite'
    BY <1>5, <2>1, HeldKinds
  <2> QED BY <1>6, <2>2 DEF Writing
<1>8. Agreeing'
  <2> SUFFICES ASSUME NEW p \in Ports, p \notin hist.half, p # x PROVE Agree(p)'
    BY <1>1, <1>2, <1>5 DEF Agreeing
  <2>1. Agree(p) /\ (p \in Kept' <=> p \in Kept)
    BY <1>5, <1>6 DEF MarkOK, Agreeing
  <2> QED BY <1>1, <1>2, <2>1 DEF Agree, Blocked
<1>9. Restoring'
  <2>1. agent.mode = "boot" => ~Unprotecting(x)
    BY DEF Unprotecting
  <2> QED BY <1>1, <1>5, <1>6, <2>1 DEF MarkOK, Restoring
<1>10. MarkStage(x)'
  BY <1>1, <1>4, <1>5, <1>6, HeldKinds DEF MarkStage
<1>11. Marking'
  BY <1>1, <1>5, <1>10 DEF Marking
<1> QED BY <1>7, <1>8, <1>9, <1>11 DEF MarkOK

LEMMA MarkFinish == ASSUME ShapeInv, ChainInv, MarkOK, Finish PROVE MarkOK'
<1>1. /\ agent.mode = "busy" /\ agent.todo = <<>> /\ Len(agent.todo) = 0 /\ agent' = Idle /\ chain' = chain
      /\ marker' = marker
      /\ hist' = [hist EXCEPT !.half = IF Program(agent.cmd) = <<>> THEN @
                                     ELSE IF agent.clean THEN @ \ Subjects
                                     ELSE @ \cup Subjects]
  BY DEF Finish, kernel, disk
<1>2. Held' = {} /\ agent'.mode = "idle"
  BY <1>1, HeldLeaves DEF Idle
<1>3. hist'.half = IF Program(agent.cmd) = <<>> THEN hist.half
                   ELSE IF agent.clean THEN hist.half \ Subjects ELSE hist.half \cup Subjects
  BY <1>1 DEF ShapeInv, WfTypes, Histories
<1>4. Program(agent.cmd) # <<>> => Subjects \cap Chained = Held
  BY <1>1, SubjectsHeld
<1>5. Program(agent.cmd) = <<>> => Held = {}
  BY <1>1, NothingHeld
<1>6. ~AtWrite /\ ~AtWrite'
  BY <1>1, <1>2, WritingOver DEF AtWrite
<1>7. Torn \notin marker /\ Kept = marker /\ Kept' = Kept
  BY <1>1, <1>6, KeptIs DEF MarkOK, Writing, Kept
<1>8. Writing'
  BY <1>1, <1>6, <1>7 DEF Writing
<1>9. ASSUME NEW p \in Ports, p \notin hist'.half PROVE Agree(p)'
  <2>1. CASE p \in Held
    <3>1. agent.clean
      BY <1>3, <1>4, <1>5, <1>9, <2>1, WfConstants
    <3>2. ~GivenUp(p)
      BY <1>1 DEF GivenUp
    <3>3. MarkStage(p)
      BY <2>1, <3>1, <3>2 DEF MarkOK, Marking
    <3>4. (Protecting(p) /\ Blocked(p)) \/ (Unprotecting(p) /\ ~Blocked(p))
      BY <1>1, <2>1, <3>1, <3>2, BlockedIs
    <3>5. Blocked(p) <=> p \in Kept
      BY <1>1, <3>3, <3>4 DEF MarkStage
    <3> QED BY <1>1, <1>7, <3>5 DEF Agree, Blocked
  <2>2. CASE p \notin Held
    <3>1. p \notin hist.half
      BY <1>3, <1>4, <1>9, <2>2, WfConstants
    <3>2. Agree(p)
      BY <2>2, <3>1 DEF MarkOK, Agreeing
    <3> QED BY <1>1, <1>7, <3>2 DEF Agree, Blocked
  <2> QED BY <2>1, <2>2
<1> QED BY <1>2, <1>8, <1>9 DEF MarkOK, Agreeing, Restoring, Marking

\* A port that nobody holds any more, where the program at boot came to its end.
LEMMA MarkTake == ASSUME ShapeInv, MarkOK, Take PROVE MarkOK'
<1>1. /\ Held = {} /\ agent'.mode = "busy" /\ agent.mode = "idle"
      /\ marker' = marker /\ chain' = chain /\ hist' = hist
      /\ \A p : /\ Protecting(p)' => Len(agent'.todo) = 7
                /\ Unprotecting(p)' => Len(agent'.todo) = 4
  BY HandTaken DEF Take, kernel, disk
<1>2. ~AtWrite /\ ~AtWrite'
  <2>1. ASSUME NEW p, Protecting(p)' PROVE Len(agent'.todo) # 2
    BY <1>1, <2>1
  <2>2. ASSUME NEW p, Unprotecting(p)' PROVE Len(agent'.todo) # 1
    BY <1>1, <2>2
  <2> QED BY <1>1, <2>1, <2>2 DEF AtWrite
<1>3. Torn \notin marker /\ Kept' = Kept
  BY <1>1, <1>2 DEF MarkOK, Writing, Kept
<1>4. \A p : MarkStage(p)'
  BY <1>1 DEF MarkStage
<1>5. ASSUME NEW p \in Ports, Agree(p) PROVE Agree(p)'
  BY <1>1, <1>3, <1>5 DEF Agree, Blocked
<1> QED BY <1>1, <1>2, <1>3, <1>4, <1>5 DEF MarkOK, Writing, Agreeing, Restoring, Marking

LEMMA MarkBoot == ASSUME ShapeInv, MarkOK, Boot PROVE MarkOK'
<1>1. /\ agent.mode = "down" /\ agent'.mode = "boot" /\ agent'.client = Console /\ agent'.boot = Loaded
      /\ Held = {} /\ Held' = {Console} /\ \A p : ~Protecting(p)' /\ ~Unprotecting(p)'
      /\ marker' = marker /\ chain' = chain /\ hist' = hist
  BY HandBoots DEF Boot, kernel, disk
<1>2. ~AtWrite /\ ~AtWrite'
  BY <1>1 DEF AtWrite
<1>3. Torn \notin marker /\ Kept' = Kept /\ Loaded = Kept
  BY <1>1, <1>2, KeptIs DEF MarkOK, Writing, Kept
<1>4. \A p : MarkStage(p)'
  BY <1>1 DEF MarkStage
<1>5. ASSUME NEW p \in Ports, Agree(p) PROVE Agree(p)'
  BY <1>1, <1>3, <1>5 DEF Agree, Blocked
<1> QED BY <1>1, <1>2, <1>3, <1>4, <1>5, WfConstants DEF MarkOK, Writing, Agreeing, Restoring, Marking

LEMMA MarkRestore == ASSUME ShapeInv, ChainInv, MarkOK, Restore PROVE MarkOK'
<1>1. /\ agent.mode = "boot" /\ Len(agent.todo) = 0 /\ Held = {agent.client}
      /\ hist'.half = IF agent.clean THEN hist.half ELSE hist.half \cup {agent.client}
      /\ marker' = marker /\ chain' = chain
  BY HandRestores DEF Restore, kernel, disk
<1>2. ~AtWrite
  BY <1>1, WritingOver
<1>3. Torn \notin marker /\ Kept = marker /\ Kept' = marker
  BY <1>1, <1>2, KeptIs DEF MarkOK, Writing, Kept
\* The port that was restored is blocked, and marked as ever.
<1>4. ASSUME NEW p \in Ports, p \in Held, p \notin hist'.half PROVE Blocked(p) /\ p \in Kept
  <2>1. agent.clean /\ p \notin hist.half /\ p = agent.client
    BY <1>1, <1>4
  <2>2. ~GivenUp(p) /\ ~Unprotecting(p)
    BY <1>1, <2>1 DEF GivenUp, Unprotecting
  <2> QED BY <1>1, <1>4, <2>1, <2>2, BlockedIs DEF MarkOK, Restoring
<1>5. ASSUME NEW p \in Ports, p \notin hist'.half
      PROVE  (Blocked(p) => p \in Kept) /\ (p \in Kept => Blocked(p) \/ p \in agent.boot)
  <2>1. CASE p \in Held
    BY <1>4, <1>5, <2>1
  <2>2. CASE p \notin Held
    <3>1. p \notin hist.half
      BY <1>1, <1>5
    <3> QED BY <1>1, <1>5, <2>2, <3>1 DEF MarkOK, Agreeing, Agree
  <2> QED BY <2>1, <2>2
<1>6. CASE agent.boot = {} /\ agent' = Idle /\ Held' = {}
  <2>1. agent'.mode = "idle" /\ ~AtWrite'
    BY <1>6, WritingOver DEF Idle, AtWrite
  <2>2. ASSUME NEW p \in Ports, p \notin hist'.half PROVE Agree(p)'
    BY <1>1, <1>3, <1>5, <1>6, <2>2 DEF Agree, Blocked
  <2> QED BY <1>1, <1>2, <1>3, <1>6, <2>1, <2>2 DEF MarkOK, Writing, Agreeing, Restoring, Marking
<1>7. CASE \E p \in agent.boot :
             /\ p \in Ports /\ agent'.mode = "boot" /\ agent'.client = p
             /\ agent'.boot = agent.boot \ {p} /\ agent'.copy = agent.copy
             /\ Protecting(p)' /\ Held' = {p} /\ Len(agent'.todo) = 7
  <2>1. PICK p \in agent.boot :
             /\ p \in Ports /\ agent'.mode = "boot" /\ agent'.client = p
             /\ agent'.boot = agent.boot \ {p}
             /\ Held' = {p} /\ Len(agent'.todo) = 7
    BY <1>7
  <2>2. p \in Kept /\ agent.boot \subseteq Kept
    BY <1>1, <2>1 DEF MarkOK, Restoring
  <2>3. \A q : ~Unprotecting(q)'
    BY <2>1 DEF Unprotecting
  <2>4. ~AtWrite' /\ \A q : MarkStage(q)'
    BY <2>1, <2>3 DEF AtWrite, MarkStage
  <2>5. ASSUME NEW q \in Ports, q \notin hist'.half, q # p PROVE Agree(q)'
    BY <1>1, <1>3, <1>5, <2>1, <2>5 DEF Agree, Blocked
  <2> QED BY <1>1, <1>2, <1>3, <2>1, <2>2, <2>4, <2>5 DEF MarkOK, Writing, Agreeing, Restoring, Marking
<1> QED BY <1>6, <1>7, HandRestores

\* A call fails, and what it was about is in doubt.
LEMMA MarkSpoils ==
  ASSUME ShapeInv, MarkOK, NEW s \in Seq(Calls), NEW o \in BOOLEAN, Torn \notin marker,
         agent' = [agent EXCEPT !.todo = s, !.ok = o, !.clean = FALSE],
         marker' = marker, chain' = chain, hist.half \subseteq hist'.half,
         \A p \in Held : (Protecting(p) => Len(s) # 2) /\ (Unprotecting(p) => Len(s) # 1)
  PROVE  MarkOK'
<1>1. /\ agent'.clean = FALSE /\ agent'.todo = s /\ Held' = Held
      /\ agent'.mode = agent.mode /\ agent'.cmd = agent.cmd /\ agent'.client = agent.client
      /\ agent'.boot = agent.boot /\ agent'.copy = agent.copy
  BY HandSpoils
<1>2. \A p : (Protecting(p)' <=> Protecting(p)) /\ (Unprotecting(p)' <=> Unprotecting(p))
  BY <1>1, HeldStays
<1>3. ~AtWrite'
  BY <1>1, <1>2 DEF AtWrite
<1>4. Kept' = Kept
  BY DEF Kept
<1>5. ASSUME NEW p \in Ports, Agree(p) PROVE Agree(p)'
  BY <1>1, <1>4, <1>5 DEF Agree, Blocked
<1>6. Agreeing'
  BY <1>1, <1>5 DEF MarkOK, Agreeing
<1> QED BY <1>1, <1>3, <1>4, <1>6 DEF MarkOK, Writing, Restoring, Marking


LEMMA MarkDrops ==
  ASSUME ShapeInv, MarkOK, agent.todo # <<>>, It.op \in {"cut", "put", "verify"}, Drop,
         marker' = marker, chain' = chain
  PROVE  MarkOK'
<1>1. /\ hist'.half = hist.half \cup Subjects /\ Held \subseteq Subjects
      /\ \/ agent.mode = "busy" /\ agent' = Idle /\ Held' = {}
         \/ /\ agent.mode = "boot" /\ agent'.mode = "boot" /\ agent'.todo = <<>> /\ Held' = Held
            /\ agent'.boot = agent.boot /\ agent'.client = agent.client /\ agent'.copy = agent.copy
  BY HandDrops
<1>2. Torn \notin marker /\ Kept' = Kept
  BY WritingNow DEF MarkOK, Writing, Kept
<1>3. CASE agent.mode = "busy" /\ agent' = Idle /\ Held' = {}
  <2>1. agent'.mode = "idle" /\ ~AtWrite'
    BY <1>3 DEF Idle, AtWrite
  <2>2. ASSUME NEW p \in Ports, p \notin hist'.half PROVE Agree(p)'
    <3>1. Agree(p)
      BY <1>1, <2>2 DEF MarkOK, Agreeing
    <3> QED BY <1>2, <1>3, <3>1 DEF Agree, Blocked
  <2> QED BY <1>2, <1>3, <2>1, <2>2 DEF MarkOK, Writing, Agreeing, Restoring, Marking
<1>4. CASE /\ agent.mode = "boot" /\ agent'.mode = "boot" /\ agent'.todo = <<>> /\ Held' = Held
           /\ agent'.boot = agent.boot /\ agent'.client = agent.client /\ agent'.copy = agent.copy
  <2>1. ~AtWrite'
    <3>1. Len(agent'.todo) = 0
      BY <1>4
    <3> QED BY <3>1 DEF AtWrite
  <2>2. ASSUME NEW p \in Ports, p \notin hist'.half \cup Held' PROVE Agree(p)'
    <3>1. Agree(p)
      BY <1>1, <1>4, <2>2 DEF MarkOK, Agreeing
    <3> QED BY <1>2, <1>4, <3>1 DEF Agree, Blocked
  <2>3. \A p \in Held' : GivenUp(p)'
    BY <1>1, <1>4 DEF GivenUp
  <2> QED BY <1>2, <1>4, <2>1, <2>2, <2>3 DEF MarkOK, Writing, Agreeing, Restoring, Marking
<1> QED BY <1>1, <1>3, <1>4

\* The process ends, or the host.
LEMMA MarkDown ==
  ASSUME ShapeInv, MarkOK, marker' = marker, agent'.mode = "down", Torn \notin marker,
         hist.half \subseteq hist'.half, Held' = {},
         Held \subseteq hist'.half \/ (agent.mode = "boot" /\ Held = {agent.client}),
         chain' = chain \/ \A p \in Chained : chain'[p] = <<>>
  PROVE  MarkOK'
<1>1. Kept' = Kept /\ ~AtWrite'
  BY DEF Kept, AtWrite
<1>2. ASSUME NEW p \in Ports, p \notin hist'.half PROVE Agree(p)'
  <2>1. Blocked(p) => p \in Kept
    <3>1. CASE p \in Held
      BY <1>2, <3>1 DEF MarkOK, Restoring
    <3>2. CASE p \notin Held
      BY <1>2, <3>2 DEF MarkOK, Agreeing, Agree
    <3> QED BY <3>1, <3>2
  <2>2. Blocked(p)' => Blocked(p)
    <3>1. CASE chain' = chain
      BY <3>1 DEF Blocked
    <3>2. CASE \A q \in Chained : chain'[q] = <<>>
      <4>1. chain'[p] = <<>>
        BY <3>2, WfConstants
      <4> QED BY <4>1 DEF Blocked
    <3> QED BY <3>1, <3>2
  <2> QED BY <1>1, <2>1, <2>2 DEF Agree
<1> QED BY <1>1, <1>2 DEF MarkOK, Writing, Agreeing, Restoring, Marking

\* What is left after a call that is not followed by a write.
LEMMA LeftOver ==
  ASSUME ShapeInv, agent.todo # <<>>, NEW p \in Held
  PROVE  /\ It.op \in {"cut", "mark", "list"} \cup UfwOps =>
              /\ Protecting(p) => Len(Tail(agent.todo)) # 2
              /\ Unprotecting(p) => Len(Tail(agent.todo)) # 1
         /\ It.op = "truncate" =>
              /\ Protecting(p) => Len(Tail(Tail(agent.todo))) # 2
              /\ Unprotecting(p) => Len(Tail(Tail(agent.todo))) # 1
<1>1. Len(agent.todo) \in Nat \ {0} /\ Len(Tail(agent.todo)) = Len(agent.todo) - 1
  BY AtCall, WritingNow
<1>2. PICK n \in Nat : n = Len(agent.todo)
  BY <1>1
<1>3. It.op = "truncate" => Len(Tail(Tail(agent.todo))) = n - 2
  BY <1>2, TruncateIsNotLast
<1>4. \/ \E x \in Ports : /\ Held = {x} /\ Protecting(x)
                          /\ \/ n \in {7, 6} /\ It.op = "cut"
                             \/ n \in {5, 4} /\ It.op = "put"
                             \/ n = 3 /\ It.op = "truncate"
                             \/ It.op \in {"add", "verify"}
      \/ \E x \in Ports : /\ Held = {x} /\ Unprotecting(x)
                          /\ \/ n \in {4, 3} /\ It.op = "cut"
                             \/ n = 2 /\ It.op = "truncate"
                             \/ It.op = "remove"
      \/ Held = {Console}
  BY <1>2, HandCalls
<1>5. CASE It.op \in {"cut", "mark", "list"} \cup UfwOps
  <2>1. (Protecting(p) => n \in {7, 6}) /\ (Unprotecting(p) => n \in {4, 3})
    BY <1>4, <1>5, HeldKinds DEF UfwOps
  <2>2. PICK l \in Int : l = n - 1
    OBVIOUS
  <2>5. Len(Tail(agent.todo)) = l
    BY <1>1, <1>2, <2>2
  <2>3. It.op # "truncate"
    BY <1>5 DEF UfwOps
  <2>4. (Protecting(p) => l # 2) /\ (Unprotecting(p) => l # 1)
    BY <2>1, <2>2
  <2> QED BY <2>3, <2>4, <2>5
<1>6. CASE It.op = "truncate"
  <2>1. (Protecting(p) => n = 3) /\ (Unprotecting(p) => n = 2)
    BY <1>4, <1>6, HeldKinds
  <2>2. It.op \notin {"cut", "mark", "list"} \cup UfwOps
    BY <1>6 DEF UfwOps
  <2>3. PICK l \in Int : l = n - 2
    OBVIOUS
  <2>5. Len(Tail(Tail(agent.todo))) = l
    BY <1>3, <1>6, <2>3
  <2>4. (Protecting(p) => l # 2) /\ (Unprotecting(p) => l # 1)
    BY <2>1, <2>3
  <2> QED BY <1>6, <2>2, <2>4, <2>5
<1> QED BY <1>5, <1>6

LEMMA MarkRefuse == ASSUME ShapeInv, MarkOK, Refuse PROVE MarkOK'
<1>1. agent.todo # <<>> /\ chain' = chain /\ marker' = marker
  BY DEF Refuse, kernel, disk
<1>2. CASE It.op = "put" /\ Drop
  BY <1>1, <1>2, MarkDrops
<1>3. CASE /\ It.op \in {"cut", "list"} \cup UfwOps /\ hist' = hist
           /\ agent' = Unclean \/ \E x \in BOOLEAN : agent' = [Unclean EXCEPT !.ok = x]
  <2>1. PICK s \in Seq(Calls), o \in BOOLEAN :
               s = Tail(agent.todo) /\ agent' = [agent EXCEPT !.todo = s, !.ok = o, !.clean = FALSE]
    BY <1>1, <1>3, Spoiled
  <2>2. \A p \in Held : (Protecting(p) => Len(s) # 2) /\ (Unprotecting(p) => Len(s) # 1)
    BY <1>1, <1>3, <2>1, LeftOver
  <2>3. Torn \notin marker
    BY <1>1, <1>3, WritingNow DEF MarkOK, Writing, UfwOps
  <2> QED BY <1>1, <1>3, <2>1, <2>2, <2>3, MarkSpoils
<1>4. \/ It.op = "put" /\ Drop
      \/ /\ It.op \in {"cut", "list"} \cup UfwOps /\ hist' = hist
         /\ agent' = Unclean \/ \E x \in BOOLEAN : agent' = [Unclean EXCEPT !.ok = x]
  BY DEF Refuse, IsUfw, UfwOps
<1> QED BY <1>2, <1>3, <1>4

LEMMA MarkStuck == ASSUME ShapeInv, MarkOK, GetStuck PROVE MarkOK'
<1>1. /\ agent.todo # <<>> /\ It.op \in {"cut", "put", "verify"} /\ chain' = chain /\ marker' = marker
  BY DEF GetStuck, kernel, disk
<1>2. CASE Drop
  BY <1>1, <1>2, MarkDrops
<1>3. CASE agent' = [Idle EXCEPT !.mode = "down"] /\ hist' = [hist EXCEPT !.half = @ \cup Subjects]
  <2>1. agent'.mode = "down" /\ Held \subseteq Subjects /\ hist'.half = hist.half \cup Subjects
    <3>1. Held \subseteq Subjects
      BY <1>1, AtCall, SubjectsHeld
    <3>2. hist'.half = hist.half \cup Subjects
      BY <1>3 DEF ShapeInv, WfTypes, Histories
    <3> QED BY <1>3, <3>1, <3>2 DEF Idle
  <2>2. Held' = {}
    BY <2>1, HeldLeaves
  <2>3. Torn \notin marker
    BY <1>1, WritingNow DEF MarkOK, Writing
  <2> QED BY <1>1, <2>1, <2>2, <2>3, MarkDown
<1> QED BY <1>2, <1>3 DEF GetStuck

LEMMA MarkDisk == ASSUME ShapeInv, MarkOK, DiskFails, ~hist'.lost PROVE MarkOK'
<1>1. agent.todo # <<>> /\ chain' = chain /\ marker' = marker
  BY DEF DiskFails, Doing, kernel, disk
<1>2. hist \in Histories
  BY DEF ShapeInv, WfTypes
<1>3. \/ /\ It.op = "truncate" /\ agent' = [Unclean EXCEPT !.todo = Tail(@)]
         /\ hist' = [hist EXCEPT !.half = @ \cup Subjects]
      \/ It.op = "mark" /\ agent' = Unclean /\ hist' = hist
  BY <1>2 DEF DiskFails, Doing, It, Histories
<1>4. Torn \notin marker
  BY <1>1, <1>3, WritingNow DEF MarkOK, Writing
<1>5. hist.half \subseteq hist'.half
  BY <1>2, <1>3 DEF Histories
<1>6. PICK s \in Seq(Calls), o \in BOOLEAN :
        /\ agent' = [agent EXCEPT !.todo = s, !.ok = o, !.clean = FALSE]
        /\ \/ It.op = "truncate" /\ s = Tail(Tail(agent.todo))
           \/ It.op = "mark" /\ s = Tail(agent.todo)
  <2>1. CASE It.op = "mark" /\ agent' = Unclean
    BY <1>1, <2>1, Spoiled
  <2>2. CASE It.op = "truncate" /\ agent' = [Unclean EXCEPT !.todo = Tail(@)]
    BY <1>1, <2>2, SkippedWrite
  <2> QED BY <1>3, <2>1, <2>2
<1>7. \A p \in Held : (Protecting(p) => Len(s) # 2) /\ (Unprotecting(p) => Len(s) # 1)
  BY <1>1, <1>6, LeftOver
<1> QED BY <1>1, <1>4, <1>5, <1>6, <1>7, MarkSpoils

LEMMA MarkHangs == ASSUME ShapeInv, MarkOK, Crash \/ Reboot, ~hist'.lost PROVE MarkOK'
<1>1. /\ agent'.mode = "down" /\ Held' = {} /\ hist.half \subseteq hist'.half
      /\ hist'.lost = (hist.lost \/ marker = {Torn}) /\ marker' = marker
      /\ agent.mode = "busy" \/ agent.todo # <<>> \/ ~agent.clean => Held \subseteq hist'.half
  BY HandHangs DEF Crash, Reboot, disk
<1>2. Torn \notin marker
  BY <1>1 DEF MarkOK, Writing
<1>3. Held \subseteq hist'.half \/ (agent.mode = "boot" /\ Held = {agent.client})
  BY <1>1, SubjectsHeld DEF ShapeInv, WfTypes, AgentStates, Modes
<1>4. chain' = chain \/ \A p \in Chained : chain'[p] = <<>>
  BY DEF Crash, Reboot, kernel
<1> QED BY <1>1, <1>2, <1>3, <1>4, MarkDown

LEMMA MarkStep == ShapeInv /\ ChainInv /\ MarkInv /\ [WfNext]_wfvars => MarkInv'
<1> SUFFICES ASSUME ShapeInv, ChainInv, MarkInv, [WfNext]_wfvars, ~hist'.lost PROVE MarkOK'
  BY DEF MarkInv
<1>0. MarkOK
  BY LostStays DEF MarkInv
<1>1. CASE CutRules \/ PutRule \/ MarkConsole \/ Read \/ UfwCall
  BY <1>0, <1>1, MarkPasses
<1>2. CASE TruncateMarker \/ WriteMarker \/ Finish \/ Take \/ Boot \/ Restore
  BY <1>0, <1>2, MarkTruncate, MarkWrite, MarkFinish, MarkTake, MarkBoot, MarkRestore
<1>3. CASE Refuse \/ GetStuck \/ DiskFails \/ Crash \/ Reboot
  BY <1>0, <1>3, MarkRefuse, MarkStuck, MarkDisk, MarkHangs
<1>4. ASSUME UNCHANGED agent, chain' = chain, marker' = marker, hist'.half = hist.half PROVE MarkOK'
  <2>1. /\ Held' = Held /\ Kept' = Kept /\ (AtWrite' <=> AtWrite)
        /\ \A p : (Agree(p)' <=> Agree(p)) /\ (MarkStage(p)' <=> MarkStage(p)) /\ (GivenUp(p)' <=> GivenUp(p))
    BY <1>4, HeldStays DEF Kept, AtWrite, Agree, Blocked, MarkStage, GivenUp
  <2> QED BY <1>0, <1>4, <2>1 DEF MarkOK, Writing, Agreeing, Restoring, Marking
<1>5. ASSUME NEW c \in Clients,
             Look(c) \/ GiveUp(c) \/ \E cmd \in Commands, st \in Unsent : Sends(c, st, cmd)
      PROVE  MarkOK'
  <2>1. UNCHANGED agent /\ chain' = chain /\ marker' = marker
    BY <1>5 DEF Look, GiveUp, Sends, kernel, disk
  <2>2. hist'.half = hist.half
    BY <1>5, SendingHarmsNone
  <2> QED BY <1>4, <2>1, <2>2
<1>6. CASE UNCHANGED wfvars
  BY <1>4, <1>6 DEF wfvars, kernel, disk
<1> QED BY <1>1, <1>2, <1>3, <1>5, <1>6, WfKinds

(* A reboot brings back exactly the ports that are closed: whatever the       *)
(* interleaving of commands, refusals, deaths and restarts, kernel and marker *)
(* name the same ports at rest, except for those whose command was cut short  *)
(* (_save_protected_ports and its callers, the restoring of serve).           *)
THEOREM WfKernelMatchesMarker == WfSpec => []KernelMatchesMarker
<1>1. WfInit => ShapeInv /\ ChainInv /\ MarkInv
  BY ShapeInit, ChainInit, MarkInit
<1>2. ShapeInv /\ ChainInv /\ MarkInv /\ [WfNext]_wfvars => (ShapeInv /\ ChainInv /\ MarkInv)'
  BY ShapeStep, ChainStep, MarkStep
<1>3. ShapeInv /\ ChainInv /\ MarkInv => KernelMatchesMarker
  <2> SUFFICES ASSUME ShapeInv, MarkOK, AtRest, NEW p \in Ports \ hist.half
               PROVE  Blocked(p) <=> p \in Loaded
    BY DEF KernelMatchesMarker, MarkInv
  <2>1. agent.mode = "idle" /\ Held = {} /\ ~AtWrite
    BY SubjectsHeld DEF AtRest, AtWrite
  <2>2. Kept = marker /\ Loaded = marker
    BY <2>1, KeptIs DEF MarkOK, Writing
  <2> QED BY <2>1, <2>2 DEF MarkOK, Agreeing, Agree
<1> QED BY <1>1, <1>2, <1>3, PTL DEF WfSpec

(* The last word on a port.                                                *)

\* The requests in the socket that close or open a port, by their place.
Wanting(p) == {i \in DOMAIN queue : /\ client[queue[i]].cmd.action \in PortActions
                                    /\ client[queue[i]].cmd.arg = p}
Turn(p) == agent.mode = "busy" /\ p \in Held

\* The last of them is the last word; then the command in hand; then what is marked.
Asking(p) == \A i \in Wanting(p) : (\A j \in Wanting(p) : j <= i)
                                      => hist.word[p] = client[queue[i]].cmd.action
Doings(p) == Wanting(p) = {} /\ Turn(p) => hist.word[p] = agent.cmd.action
Done(p)   == Wanting(p) = {} /\ ~Turn(p) /\ p \notin hist.half /\ ~hist.lost
                => (p \in Kept <=> hist.word[p] = "protect_host_port")

WordInv == \A p \in Ports \ Reserved : Asking(p) /\ Doings(p) /\ Done(p)

LEMMA WordInit == WfInit => WordInv
<1> SUFFICES ASSUME WfInit, NEW p \in Ports PROVE Asking(p) /\ Doings(p) /\ Done(p)
  BY DEF WordInv
<1>1. DOMAIN queue = {} /\ agent.mode = "idle" /\ marker = {} /\ hist.word = [q \in Chained |-> "none"]
  BY DEF WfInit, Idle
<1>2. Wanting(p) = {} /\ ~Turn(p) /\ Kept = {} /\ hist.word[p] = "none"
  BY <1>1, WfConstants DEF Wanting, Turn, Kept
<1> QED BY <1>2 DEF Asking, Doings, Done

\* Nothing but the command in hand changes what the marker says of a port.
LEMMA KeptStep ==
  ASSUME ShapeInv, MarkOK, [WfNext]_wfvars, ~hist'.lost, NEW p \in Ports, ~Turn(p)
  PROVE  p \in Kept' <=> p \in Kept
<1>1. ASSUME marker' = marker, Torn \notin marker PROVE p \in Kept' <=> p \in Kept
  BY <1>1 DEF Kept
<1>2. ASSUME agent.todo # <<>>, It.op \notin {"add", "remove"} PROVE Torn \notin marker
  BY <1>2, WritingNow DEF MarkOK, Writing
<1>3. CASE CutRules \/ PutRule \/ MarkConsole \/ Read \/ UfwCall
  <2>1. agent.todo # <<>> /\ It.op \notin {"add", "remove"} /\ marker' = marker
    BY <1>3 DEF CutRules, PutRule, MarkConsole, Read, UfwCall, IsUfw, Doing, It, disk
  <2> QED BY <1>1, <1>2, <2>1
<1>4. CASE TruncateMarker
  <2>1. agent.todo # <<>> /\ It.op = "truncate" /\ marker' = {Torn} /\ agent' = [Rest EXCEPT !.copy = Loaded]
    BY <1>4 DEF TruncateMarker, Doing, It
  <2>2. agent'.copy = Loaded
    BY <2>1 DEF Rest, ShapeInv, WfTypes, AgentStates
  <2>3. Torn \notin marker
    BY <1>2, <2>1
  <2> QED BY <2>1, <2>2, <2>3, KeptIs DEF Kept
<1>5. CASE WriteMarker
  <2>1. /\ agent.todo # <<>> /\ It.op \in {"add", "remove"}
        /\ marker' = IF It.op = "add" THEN agent.copy \cup {It.on} ELSE agent.copy \ {It.on}
    BY <1>5 DEF WriteMarker, Doing, It
  <2>2. Torn \in marker /\ Kept = agent.copy /\ agent.copy \subseteq Ports /\ agent.mode \in {"busy", "boot"}
    BY <2>1, AtCall, WritingNow DEF MarkOK, Writing, Kept, ShapeInv, WfTypes, AgentStates
  <2>3. PICK x \in Ports : Held = {x} /\ It.on = x /\ (Unprotecting(x) \/ (Protecting(x) /\ It.op = "add"))
    BY <2>1, HandCalls DEF UfwOps
  <2>4. Kept' = IF It.op = "add" THEN Kept \cup {x} ELSE Kept \ {x}
    BY <2>1, <2>2, <2>3, WfConstants DEF Kept
  <2>5. CASE agent.mode = "busy"
    BY <2>3, <2>4, <2>5 DEF Turn
  <2>6. CASE agent.mode = "boot"
    <3>1. It.op = "add" /\ x \in Kept
      BY <2>3, <2>6 DEF Unprotecting, Protecting, MarkOK, Restoring
    <3> QED BY <2>4, <3>1
  <2> QED BY <2>2, <2>5, <2>6
<1>6. CASE Finish \/ Take \/ Boot \/ Restore
  <2>1. marker' = marker /\ (agent.todo = <<>> \/ Held = {})
    BY <1>6, HandTaken, HandBoots DEF Finish, Take, Boot, Restore, disk
  <2>2. ~AtWrite
    <3>1. agent.todo = <<>> => Len(agent.todo) = 0
      OBVIOUS
    <3> QED BY <2>1, <3>1, WritingOver
  <2> QED BY <1>1, <2>1, <2>2 DEF MarkOK, Writing
<1>7. CASE Refuse \/ GetStuck
  <2>1. agent.todo # <<>> /\ It.op \notin {"add", "remove"} /\ marker' = marker
    BY <1>7 DEF Refuse, GetStuck, IsUfw, disk
  <2> QED BY <1>1, <1>2, <2>1
<1>8. CASE DiskFails
  <2>1. agent.todo # <<>> /\ It.op \notin {"add", "remove"} /\ marker' = marker
    BY <1>8 DEF DiskFails, Doing, It, disk, ShapeInv, WfTypes, Histories
  <2> QED BY <1>1, <1>2, <2>1
<1>9. CASE Crash \/ Reboot
  <2>1. hist'.lost = (hist.lost \/ marker = {Torn}) /\ marker' = marker
    BY <1>9, HandHangs DEF Crash, Reboot, disk
  <2> QED BY <1>1, <2>1 DEF MarkOK, Writing
<1>10. ASSUME NEW c \in Clients,
              Look(c) \/ GiveUp(c) \/ \E cmd \in Commands, st \in Unsent : Sends(c, st, cmd)
       PROVE  p \in Kept' <=> p \in Kept
  BY <1>10 DEF Look, GiveUp, Sends, disk, Kept
<1>11. CASE UNCHANGED wfvars
  BY <1>11 DEF wfvars, disk, Kept
<1> QED BY <1>3, <1>4, <1>5, <1>6, <1>7, <1>8, <1>9, <1>10, <1>11, WfKinds

\* Those who wait stay who they are.
LEMMA WantingStays ==
  ASSUME ShapeInv, ClientsOn, queue' = queue, NEW p
  PROVE  /\ Wanting(p)' = Wanting(p)
         /\ \A i \in DOMAIN queue : client'[queue'[i]].cmd = client[queue[i]].cmd
<1>1. \A i \in DOMAIN queue : queue[i] \in Clients /\ client[queue[i]].state \notin Unsent
  BY DEF ShapeInv, WfTypes, QueueOK
<1>2. \A i \in DOMAIN queue : client'[queue'[i]].cmd = client[queue[i]].cmd
  BY <1>1 DEF ClientsOn
<1> QED BY <1>2 DEF Wanting

LEMMA WordQueued ==
  ASSUME ShapeInv, ClientsOn, queue' = queue, hist'.word = hist.word, NEW p, Asking(p)
  PROVE  Asking(p)'
<1>1. \A i \in Wanting(p) : i \in DOMAIN queue
  BY DEF Wanting
<1> QED BY <1>1, WantingStays DEF Asking

\* The agent has the same command in hand, or none that is about the port.
LEMMA WordStays ==
  ASSUME ShapeInv, MarkInv, [WfNext]_wfvars, queue' = queue, hist'.word = hist.word,
         NEW p \in Ports, Asking(p), Doings(p), Done(p),
         \/ Turn(p) /\ Turn(p)' /\ agent'.cmd = agent.cmd
         \/ ~Turn(p) /\ ~Turn(p)' /\ (p \in hist.half => p \in hist'.half)
         \/ Turn(p) /\ ~Turn(p)' /\ p \in hist'.half
  PROVE  Asking(p)' /\ Doings(p)' /\ Done(p)'
<1>1. ClientsOn
  BY ClientStep
<1>2. Asking(p)' /\ Wanting(p)' = Wanting(p)
  BY <1>1, WordQueued, WantingStays
<1>3. Doings(p)'
  BY <1>2 DEF Doings
<1>4. Done(p)'
  <2> SUFFICES ASSUME Wanting(p)' = {}, ~Turn(p)', p \notin hist'.half, ~hist'.lost
               PROVE  p \in Kept' <=> hist'.word[p] = "protect_host_port"
    BY DEF Done
  <2>1. ~hist.lost /\ MarkOK
    BY LostStays DEF MarkInv
  <2>2. ~Turn(p) /\ p \notin hist.half /\ Wanting(p) = {}
    BY <1>2
  <2>3. p \in Kept <=> hist.word[p] = "protect_host_port"
    BY <2>1, <2>2 DEF Done
  <2> QED BY <2>1, <2>2, <2>3, KeptStep
<1> QED BY <1>2, <1>3, <1>4

LEMMA WordSent ==
  ASSUME ShapeInv, WordInv, NEW c \in Clients, NEW cmd \in Commands, NEW st \in Unsent, Sends(c, st, cmd),
         NEW p \in Ports \ Reserved
  PROVE  Asking(p)' /\ Doings(p)' /\ Done(p)'
<1>1. /\ ClientsOn /\ UNCHANGED <<kernel, disk, agent>>
      /\ \/ /\ queue' = Append(queue, c) /\ client'[c].cmd = cmd
            /\ hist' = IF cmd.action \in PortActions /\ cmd.arg \notin Reserved
                       THEN [hist EXCEPT !.word[cmd.arg] = cmd.action] ELSE hist
         \/ UNCHANGED <<queue, hist>>
  BY Connecting
<1>2. /\ queue \in Seq(Clients) /\ hist \in Histories /\ p \in Chained
      /\ Asking(p) /\ Doings(p) /\ Done(p)
  BY WfConstants DEF ShapeInv, WfTypes, WordInv
<1>3. Kept' = Kept /\ (Turn(p)' <=> Turn(p)) /\ agent' = agent
  BY <1>1, HeldStays DEF Kept, Turn, disk
<1>4. hist'.half = hist.half /\ hist'.lost = hist.lost
  BY SendingHarmsNone
<1>5. CASE UNCHANGED <<queue, hist>>
  BY <1>1, <1>2, <1>3, <1>5, WordQueued, WantingStays DEF Doings, Done
<1>6. CASE /\ queue' = Append(queue, c) /\ client'[c].cmd = cmd
           /\ hist' = IF cmd.action \in PortActions /\ cmd.arg \notin Reserved
                      THEN [hist EXCEPT !.word[cmd.arg] = cmd.action] ELSE hist
  <2>1. PICK n \in Nat : n = Len(queue) /\ DOMAIN queue = 1 .. n
    BY <1>2
  <2>2. /\ DOMAIN queue' = 1 .. n + 1 /\ queue'[n + 1] = c
        /\ \A i \in 1 .. n : queue'[i] = queue[i] /\ queue[i] \in Clients
    BY <1>2, <1>6, <2>1
  <2>3. \A i \in 1 .. n : client'[queue'[i]].cmd = client[queue[i]].cmd
    BY <1>1, <2>1, <2>2 DEF ClientsOn, ShapeInv, QueueOK
  <2>4. client'[queue'[n + 1]].cmd = cmd
    BY <1>6, <2>2
  <2>5. \A i \in 1 .. n : i \in Wanting(p)' <=> i \in Wanting(p)
    BY <2>1, <2>2, <2>3 DEF Wanting
  <2>6. n + 1 \in Wanting(p)' <=> cmd.action \in PortActions /\ cmd.arg = p
    BY <2>2, <2>4 DEF Wanting
  <2>7. Wanting(p) \subseteq 1 .. n /\ Wanting(p)' \subseteq 1 .. n + 1
    BY <2>1, <2>2 DEF Wanting
  <2>8. CASE cmd.action \in PortActions /\ cmd.arg = p
    <3>1. hist'.word[p] = cmd.action
      BY <1>2, <1>6, <2>8 DEF Histories
    <3>2. Asking(p)'
      <4> SUFFICES ASSUME NEW i \in Wanting(p)', \A j \in Wanting(p)' : j <= i
                   PROVE  hist'.word[p] = client'[queue'[i]].cmd.action
        BY DEF Asking
      <4>1. i = n + 1
        BY <2>1, <2>6, <2>7, <2>8
      <4> QED BY <2>4, <3>1, <4>1
    <3> QED BY <2>6, <2>8, <3>2 DEF Doings, Done
  <2>9. CASE ~(cmd.action \in PortActions /\ cmd.arg = p)
    <3>1. hist'.word[p] = hist.word[p]
      <4>1. CASE hist' = hist
        BY <4>1
      <4>2. CASE cmd.arg # p /\ hist' = [hist EXCEPT !.word[cmd.arg] = cmd.action]
        BY <1>2, <4>2 DEF Histories
      <4> QED BY <1>6, <2>9, <4>1, <4>2
    <3>2. Wanting(p)' = Wanting(p)
      <4>1. n + 1 \notin Wanting(p)'
        BY <2>6, <2>9
      <4>2. \A i \in 1 .. n + 1 : i # n + 1 => i \in 1 .. n
        BY <2>1
      <4> QED BY <2>5, <2>7, <4>1, <4>2
    <3>3. Asking(p)'
      BY <1>2, <2>3, <2>7, <3>1, <3>2 DEF Asking
    <3> QED BY <1>2, <1>3, <1>4, <3>1, <3>2, <3>3 DEF Doings, Done
  <2> QED BY <2>8, <2>9
<1> QED BY <1>1, <1>5, <1>6

LEMMA WordTake ==
  ASSUME ShapeInv, MarkInv, WordInv, Take, NEW p \in Ports \ Reserved
  PROVE  Asking(p)' /\ Doings(p)' /\ Done(p)'
<1>1. /\ queue \in Seq(Clients) /\ queue # <<>> /\ queue' = Tail(queue) /\ client' = client
      /\ marker' = marker /\ hist' = hist /\ agent.mode = "idle"
      /\ Asking(p) /\ Done(p)
  BY DEF Take, disk, ShapeInv, WfTypes, WordInv
<1>2. /\ agent'.mode = "busy" /\ Held = {} /\ agent'.cmd = client[Head(queue)].cmd /\ agent'.cmd \in Commands
  BY HandTaken
<1>3. PICK n \in Nat : n = Len(queue) /\ DOMAIN queue = 1 .. n /\ n >= 1
  <2>1. Len(queue) \in Nat /\ DOMAIN queue = 1 .. Len(queue) /\ Len(queue) >= 1
    BY <1>1
  <2> QED BY <2>1
<1>4. /\ DOMAIN queue' = 1 .. n - 1 /\ Head(queue) = queue[1]
      /\ \A i \in 1 .. n - 1 : queue'[i] = queue[i + 1]
  BY <1>1, <1>3
<1>5. \A i \in 1 .. n - 1 : i \in Wanting(p)' <=> i + 1 \in Wanting(p)
  BY <1>1, <1>3, <1>4 DEF Wanting
<1>6. Wanting(p) \subseteq 1 .. n /\ Wanting(p)' \subseteq 1 .. n - 1
  BY <1>3, <1>4 DEF Wanting
<1>7. 1 \in Wanting(p) <=> agent'.cmd.action \in PortActions /\ agent'.cmd.arg = p
  BY <1>1, <1>2, <1>3, <1>4 DEF Wanting
<1>8. Turn(p)' <=> 1 \in Wanting(p)
  <2>1. Turn(p)' <=> agent'.cmd.action \in PortActions /\ agent'.cmd.arg = p
    BY <1>2, WfConstants DEF Turn, Held, Protecting, Unprotecting, Securing, PortActions
  <2> QED BY <1>7, <2>1
<1>9. Asking(p)'
  <2> SUFFICES ASSUME NEW i \in Wanting(p)', \A j \in Wanting(p)' : j <= i
               PROVE  hist'.word[p] = client'[queue'[i]].cmd.action
    BY DEF Asking
  <2>1. i \in 1 .. n - 1 /\ i + 1 \in Wanting(p) /\ queue'[i] = queue[i + 1]
    BY <1>4, <1>5, <1>6
  <2>2. ASSUME NEW j \in Wanting(p) PROVE j <= i + 1
    <3>1. j \in 1 .. n
      BY <1>6
    <3>2. CASE j = 1
      BY <2>1, <3>2
    <3>3. CASE j # 1
      <4>1. j - 1 \in 1 .. n - 1 /\ (j - 1) + 1 = j
        BY <3>1, <3>3
      <4>2. j - 1 <= i
        BY <1>5, <4>1
      <4> QED BY <2>1, <3>1, <4>2
    <3> QED BY <3>2, <3>3
  <2> QED BY <1>1, <2>1, <2>2 DEF Asking
<1>10. Doings(p)'
  <2> SUFFICES ASSUME Wanting(p)' = {}, Turn(p)' PROVE hist'.word[p] = agent'.cmd.action
    BY DEF Doings
  <2>1. ASSUME NEW j \in Wanting(p) PROVE j <= 1
    <3>1. j \in 1 .. n
      BY <1>6
    <3>2. j # 1 => j - 1 \in 1 .. n - 1 /\ (j - 1) + 1 = j
      BY <3>1
    <3> QED BY <1>5, <3>1, <3>2
  <2> QED BY <1>1, <1>2, <1>4, <1>8, <2>1 DEF Asking
<1>11. Done(p)'
  <2> SUFFICES ASSUME Wanting(p)' = {}, ~Turn(p)', p \notin hist'.half, ~hist'.lost
               PROVE  p \in Kept' <=> hist'.word[p] = "protect_host_port"
    BY DEF Done
  <2>1. Wanting(p) = {}
    <3> SUFFICES ASSUME NEW j \in Wanting(p) PROVE FALSE
      OBVIOUS
    <3>1. j \in 1 .. n /\ j # 1
      BY <1>6, <1>8
    <3>2. j - 1 \in 1 .. n - 1 /\ (j - 1) + 1 = j
      BY <3>1
    <3> QED BY <1>5, <3>2
  <2>2. ~Turn(p) /\ MarkOK
    BY <1>1 DEF Turn, MarkInv
  <2>3. p \in Kept' <=> p \in Kept
    BY <2>2, KeptStep DEF WfNext, AgentOwn
  <2> QED BY <1>1, <2>1, <2>2, <2>3 DEF Done
<1> QED BY <1>9, <1>10, <1>11

LEMMA WordFinish ==
  ASSUME ShapeInv, ChainInv, MarkInv, WordInv, Finish, NEW p \in Ports \ Reserved
  PROVE  Asking(p)' /\ Doings(p)' /\ Done(p)'
<1>1. /\ agent.mode = "busy" /\ agent.todo = <<>> /\ Len(agent.todo) = 0 /\ agent' = Idle
      /\ marker' = marker /\ queue' = queue
      /\ hist' = [hist EXCEPT !.half = IF Program(agent.cmd) = <<>> THEN @
                                     ELSE IF agent.clean THEN @ \ Subjects
                                     ELSE @ \cup Subjects]
  BY DEF Finish, disk
<1>2. [WfNext]_wfvars /\ Asking(p) /\ Doings(p) /\ Done(p) /\ p \in Chained /\ ClientsOn
  <2>1. [WfNext]_wfvars
    BY DEF WfNext, AgentOwn
  <2> QED BY <2>1, ClientStep, WfConstants DEF WordInv
<1>3. /\ hist'.half = IF Program(agent.cmd) = <<>> THEN hist.half
                      ELSE IF agent.clean THEN hist.half \ Subjects ELSE hist.half \cup Subjects
      /\ hist'.word = hist.word /\ hist'.lost = hist.lost
  BY <1>1 DEF ShapeInv, WfTypes, Histories
<1>4. Program(agent.cmd) # <<>> => Subjects \cap Chained = Held
  BY <1>1, SubjectsHeld
<1>5. Program(agent.cmd) = <<>> => Held = {}
  BY <1>1, NothingHeld
<1>6. ~Turn(p)'
  BY <1>1 DEF Turn, Idle
<1>7. CASE p \notin Held
  BY <1>1, <1>2, <1>3, <1>4, <1>6, <1>7, WordStays DEF Turn
<1>8. CASE p \in Held /\ ~agent.clean
  <2>1. p \in hist'.half /\ Turn(p)
    BY <1>1, <1>2, <1>3, <1>4, <1>5, <1>8 DEF Turn
  <2> QED BY <1>1, <1>2, <1>3, <1>6, <2>1, WordStays
<1>9. CASE p \in Held /\ agent.clean
  <2>1. Asking(p)' /\ Wanting(p)' = Wanting(p)
    BY <1>1, <1>2, <1>3, WordQueued, WantingStays
  <2>2. Done(p)'
    <3> SUFFICES ASSUME Wanting(p)' = {}, ~hist'.lost
                 PROVE  p \in Kept' <=> hist'.word[p] = "protect_host_port"
      BY DEF Done
    <3>1. MarkOK /\ Turn(p)
      BY <1>1, <1>3, <1>9 DEF MarkInv, Turn
    <3>2. MarkStage(p) /\ ~AtWrite
      BY <1>1, <1>9, <3>1, WritingOver DEF MarkOK, Marking, GivenUp
    <3>3. Kept' = Kept
      BY <1>1, <3>1, <3>2 DEF MarkOK, Writing, Kept
    <3>4. hist.word[p] = agent.cmd.action
      BY <1>2, <2>1, <3>1 DEF Doings
    <3>5. \/ Protecting(p) /\ agent.cmd.action = "protect_host_port" /\ p \in Kept
          \/ Unprotecting(p) /\ agent.cmd.action = "unprotect_host_port" /\ p \notin Kept
      <4>1. Protecting(p) \/ Unprotecting(p)
        BY <1>9, HeldKinds, WfConstants
      <4>2. (Protecting(p) => agent.cmd.action = "protect_host_port")
            /\ (Unprotecting(p) => agent.cmd.action = "unprotect_host_port")
        BY <1>1 DEF Protecting, Unprotecting
      <4> QED BY <1>1, <3>2, <4>1, <4>2 DEF MarkStage
    <3> QED BY <1>3, <3>3, <3>4, <3>5
  <2>3. Doings(p)'
    BY <1>6 DEF Doings
  <2> QED BY <2>1, <2>2, <2>3
<1> QED BY <1>7, <1>8, <1>9

LEMMA WordHangs ==
  ASSUME ShapeInv, MarkInv, WordInv, Crash \/ Reboot, NEW p \in Ports \ Reserved
  PROVE  Asking(p)' /\ Doings(p)' /\ Done(p)'
<1>1. /\ agent'.mode = "down" /\ hist.half \subseteq hist'.half
      /\ hist'.lost = (hist.lost \/ marker = {Torn}) /\ hist'.word = hist.word /\ queue' = <<>>
      /\ agent.mode = "busy" \/ agent.todo # <<>> \/ ~agent.clean => Held \subseteq hist'.half
      /\ (\E i \in DOMAIN queue : client[queue[i]].cmd.arg = p) => p \in hist'.half
  BY HandHangs DEF Crash, Reboot
<1>2. Wanting(p)' = {} /\ ~Turn(p)'
  <2>1. DOMAIN queue' = {}
    BY <1>1
  <2> QED BY <1>1, <2>1 DEF Wanting, Turn
<1>3. ASSUME p \notin hist'.half, ~hist'.lost PROVE p \in Kept' <=> hist'.word[p] = "protect_host_port"
  <2>1. Wanting(p) = {} /\ ~Turn(p) /\ p \notin hist.half /\ ~hist.lost
    BY <1>1, <1>3 DEF Wanting, Turn
  <2>2. p \in Kept' <=> p \in Kept
    BY <1>3, <2>1, KeptStep DEF WfNext, Wrong, MarkInv
  <2> QED BY <1>1, <2>1, <2>2 DEF WordInv, Done
<1> QED BY <1>2, <1>3 DEF Asking, Doings, Done

LEMMA WordStep == ShapeInv /\ ChainInv /\ MarkInv /\ WordInv /\ [WfNext]_wfvars => WordInv'
<1> SUFFICES ASSUME ShapeInv, ChainInv, MarkInv, WordInv, [WfNext]_wfvars, NEW p \in Ports \ Reserved
             PROVE  Asking(p)' /\ Doings(p)' /\ Done(p)'
  BY DEF WordInv
<1>0. Asking(p) /\ Doings(p) /\ Done(p) /\ hist \in Histories /\ agent \in AgentStates /\ p \in Chained
  BY WfConstants DEF WordInv, ShapeInv, WfTypes
<1>1. ASSUME NEW c \in Clients,
             Look(c) \/ GiveUp(c) \/ \E cmd \in Commands, st \in Unsent : Sends(c, st, cmd)
      PROVE  Asking(p)' /\ Doings(p)' /\ Done(p)'
  <2>1. CASE Look(c) \/ GiveUp(c)
    <3>1. UNCHANGED <<agent, queue, hist>>
      BY <2>1 DEF Look, GiveUp
    <3>2. Turn(p)' <=> Turn(p)
      BY <3>1, HeldStays DEF Turn
    <3> QED BY <1>0, <3>1, <3>2, WordStays
  <2> QED BY <1>1, <2>1, WordSent
\* The hand stays on its command, and what is half done only grows.
<1>2. ASSUME queue' = queue, hist'.word = hist.word, agent'.mode = agent.mode, agent'.cmd = agent.cmd,
             agent'.client = agent.client, hist.half \subseteq hist'.half
      PROVE  Asking(p)' /\ Doings(p)' /\ Done(p)'
  <2>1. Turn(p)' <=> Turn(p)
    BY <1>2, HeldStays DEF Turn
  <2> QED BY <1>0, <1>2, <2>1, WordStays
<1>3. CASE CutRules \/ PutRule \/ TruncateMarker \/ WriteMarker \/ MarkConsole \/ Read \/ UfwCall
  <2>1. queue' = queue /\ (hist' = hist \/ hist' = [hist EXCEPT !.asked = TRUE])
    BY <1>3 DEF CutRules, PutRule, TruncateMarker, WriteMarker, MarkConsole, Read, UfwCall
  <2>2. hist'.word = hist.word /\ hist'.half = hist.half
    BY <1>0, <2>1 DEF Histories
  <2> QED BY <1>2, <1>3, <2>1, <2>2, HandOnward
<1>4. ASSUME NEW s \in Seq(Calls), NEW o \in BOOLEAN, queue' = queue, hist'.word = hist.word,
             agent' = [agent EXCEPT !.todo = s, !.ok = o, !.clean = FALSE], hist.half \subseteq hist'.half
      PROVE  Asking(p)' /\ Doings(p)' /\ Done(p)'
  BY <1>2, <1>4, HandSpoils
<1>5. ASSUME agent.todo # <<>>, Drop, queue' = queue PROVE Asking(p)' /\ Doings(p)' /\ Done(p)'
  <2>1. /\ hist'.half = hist.half \cup Subjects /\ Held \subseteq Subjects /\ hist'.word = hist.word
        /\ \/ agent'.mode = "idle"
           \/ agent.mode = "boot" /\ agent'.mode = "boot"
    <3>1. hist'.word = hist.word
      BY <1>0, <1>5 DEF Drop, Histories
    <3> QED BY <1>5, <3>1, HandDrops DEF Idle
  <2>2. ~Turn(p)' /\ (Turn(p) => p \in hist'.half)
    BY <2>1 DEF Turn
  <2> QED BY <1>0, <1>5, <2>1, <2>2, WordStays
<1>6. CASE Refuse
  <2>1. agent.todo # <<>> /\ queue' = queue
    BY <1>6 DEF Refuse
  <2>2. CASE Drop
    BY <1>5, <2>1, <2>2
  <2>3. CASE hist' = hist /\ (agent' = Unclean \/ \E x \in BOOLEAN : agent' = [Unclean EXCEPT !.ok = x])
    BY <1>4, <2>1, <2>3, Spoiled
  <2> QED BY <1>6, <2>2, <2>3 DEF Refuse
<1>7. CASE GetStuck
  <2>1. agent.todo # <<>> /\ queue' = queue
    BY <1>7 DEF GetStuck
  <2>2. CASE Drop
    BY <1>5, <2>1, <2>2
  <2>3. CASE /\ agent.mode # "busy" /\ agent' = [Idle EXCEPT !.mode = "down"]
             /\ hist' = [hist EXCEPT !.half = @ \cup Subjects]
    <3>1. ~Turn(p) /\ ~Turn(p)'
      BY <2>3 DEF Turn, Idle
    <3>2. hist.half \subseteq hist'.half /\ hist'.word = hist.word
      BY <1>0, <2>3 DEF Histories
    <3> QED BY <1>0, <2>1, <3>1, <3>2, WordStays
  <2> QED BY <1>7, <2>2, <2>3 DEF GetStuck
<1>8. CASE DiskFails
  <2>1. /\ queue' = queue /\ agent.todo # <<>>
        /\ \/ hist' = [hist EXCEPT !.half = @ \cup Subjects] \/ hist' = [hist EXCEPT !.lost = TRUE]
           \/ hist' = hist
    BY <1>8 DEF DiskFails, Doing
  <2>2. hist.half \subseteq hist'.half /\ hist'.word = hist.word
    BY <1>0, <2>1 DEF Histories
  <2>3. \/ agent' = Unclean
        \/ It.op = "truncate" /\ agent' = [Unclean EXCEPT !.todo = Tail(@)]
    BY <1>8 DEF DiskFails, Doing, It
  <2> QED BY <1>4, <2>1, <2>2, <2>3, Spoiled, SkippedWrite
<1>9. CASE Boot \/ Restore
  <2>1. queue' = queue /\ agent.mode # "busy" /\ agent'.mode # "busy"
    <3>1. CASE Boot
      BY <1>1, <3>1, HandBoots DEF Boot
    <3>2. CASE Restore
      <4>1. agent.mode = "boot" /\ (agent' = Idle \/ agent'.mode = "boot")
        BY <1>1, <3>2, HandRestores
      <4>2. Idle.mode = "idle"
        BY DEF Idle
      <4> QED BY <3>2, <4>1, <4>2 DEF Restore
    <3> QED BY <1>9, <3>1, <3>2
  <2>2. hist.half \subseteq hist'.half /\ hist'.word = hist.word
    <3>1. \/ hist' = hist
          \/ \E x : hist' = [hist EXCEPT !.half = x] /\ hist.half \subseteq x
      BY <1>9 DEF Boot, Restore
    <3> QED BY <1>0, <3>1 DEF Histories
  <2>3. ~Turn(p) /\ ~Turn(p)'
    BY <2>1 DEF Turn
  <2> QED BY <1>0, <2>1, <2>2, <2>3, WordStays
<1>10. CASE Take \/ Finish
  BY <1>10, WordTake, WordFinish
<1>11. CASE Crash \/ Reboot
  BY <1>11, WordHangs
<1>12. CASE UNCHANGED wfvars
  BY <1>2, <1>12 DEF wfvars
<1> QED BY <1>1, <1>3, <1>6, <1>7, <1>8, <1>9, <1>10, <1>11, <1>12, WfKinds

(* Commands have their effect in the order they were sent, whether or not     *)
(* their sender still waits: the accept loop of serve and send_command.       *)
THEOREM WfLastWordWins == WfSpec => []LastWordWins
<1>1. WfInit => ShapeInv /\ ChainInv /\ MarkInv /\ WordInv
  BY ShapeInit, ChainInit, MarkInit, WordInit
<1>2. ShapeInv /\ ChainInv /\ MarkInv /\ WordInv /\ [WfNext]_wfvars
        => (ShapeInv /\ ChainInv /\ MarkInv /\ WordInv)'
  BY ShapeStep, ChainStep, MarkStep, WordStep
<1>3. ShapeInv /\ ChainInv /\ MarkInv /\ WordInv => LastWordWins
  <2> SUFFICES ASSUME ShapeInv, MarkOK, WordInv, AtRest, queue = <<>>, ~hist.lost,
                      NEW p \in Ports \ (hist.half \cup Reserved)
               PROVE  Blocked(p) <=> hist.word[p] = "protect_host_port"
    BY DEF LastWordWins, MarkInv
  <2>1. agent.mode = "idle" /\ Held = {}
    BY SubjectsHeld DEF AtRest
  <2>2. Blocked(p) <=> p \in Kept
    BY <2>1 DEF MarkOK, Agreeing, Agree
  <2>3. Wanting(p) = {} /\ ~Turn(p)
    <3>1. DOMAIN queue = {}
      OBVIOUS
    <3> QED BY <2>1, <3>1 DEF Wanting, Turn
  <2> QED BY <2>2, <2>3 DEF WordInv, Done
<1> QED BY <1>1, <1>2, <1>3, PTL DEF WfSpec

(* SSH stays reachable.                                                    *)

FirewallActions == UfwActions \cup {"init_firewall", "delete_rule"}

\* A command of ufw that is about SSH.
OnSsh == agent.mode = "busy" /\ agent.cmd.action \in UfwActions /\ agent.cmd.arg = "ssh"
Failing == agent.mode = "busy" /\ ~agent.clean /\ "ssh" \in Subjects
Between == OnSsh /\ agent.cmd.action = "unlimit_port" /\ agent.todo # <<>>

\* unlimit_port deletes one rule before it adds the other; init_firewall has
\* allowed SSH when two of its calls are left.
SshInv ==
  /\ ufw.on => SshOpen(ufw.rules) \/ hist.asked \/ "ssh" \in hist.half \/ Failing \/ Between
  /\ OnSsh /\ agent.clean /\ agent.todo = <<>> => SshOpen(ufw.rules) \/ hist.asked
  /\ agent.mode = "busy" /\ agent.cmd.action = "init_firewall" /\ agent.clean
        /\ Len(agent.todo) <= 2 => SshOpen(ufw.rules)

LEMMA SshInit == WfInit => SshInv
BY DEF WfInit, SshInv, OnSsh, Idle

LEMMA JudgedElsewhere ==
  ASSUME NEW r \in Seq(UfwRule), NEW x, x # "ssh", NEW v, SshOpen(r) PROVE SshOpen(Judged(r, x, v))
<1>1. PICK i \in DOMAIN r : r[i].to = "ssh" /\ r[i].verdict \in {"allow", "limit"}
  BY DEF SshOpen
<1>2. CASE \E j \in DOMAIN r : r[j].to = x
  <2>1. Judged(r, x, v) = [j \in DOMAIN r |-> IF r[j].to = x THEN [to |-> x, verdict |-> v] ELSE r[j]]
    BY <1>2 DEF Judged
  <2>2. i \in DOMAIN Judged(r, x, v) /\ Judged(r, x, v)[i] = r[i]
    BY <1>1, <2>1
  <2> QED BY <1>1, <2>2 DEF SshOpen
<1>3. CASE ~ \E j \in DOMAIN r : r[j].to = x
  <2> DEFINE new == [to |-> x, verdict |-> v]
  <2>1. Judged(r, x, v) = Append(r, new)
    BY <1>3 DEF Judged
  <2> HIDE DEF new
  <2>2. i \in DOMAIN Append(r, new) /\ Append(r, new)[i] = r[i]
    BY <1>1
  <2> QED BY <1>1, <2>1, <2>2 DEF SshOpen
<1> QED BY <1>2, <1>3

LEMMA JudgedOpen ==
  ASSUME NEW r \in Seq(UfwRule), NEW v \in {"allow", "limit"} PROVE SshOpen(Judged(r, "ssh", v))
<1> DEFINE new == [to |-> "ssh", verdict |-> v]
<1>0. new.to = "ssh" /\ new.verdict \in {"allow", "limit"}
  OBVIOUS
<1>2. CASE \E j \in DOMAIN r : r[j].to = "ssh"
  <2>1. Judged(r, "ssh", v) = [j \in DOMAIN r |-> IF r[j].to = "ssh" THEN new ELSE r[j]]
    BY <1>2 DEF Judged
  <2> HIDE DEF new
  <2> QED BY <1>0, <1>2, <2>1 DEF SshOpen
<1>3. CASE ~ \E j \in DOMAIN r : r[j].to = "ssh"
  <2>1. Judged(r, "ssh", v) = Append(r, new)
    BY <1>3 DEF Judged
  <2> HIDE DEF new
  <2>2. Len(r) + 1 \in DOMAIN Append(r, new) /\ Append(r, new)[Len(r) + 1] = new
    OBVIOUS
  <2> QED BY <1>0, <2>1, <2>2 DEF SshOpen
<1> QED BY <1>2, <1>3

LEMMA RemovedElsewhere ==
  ASSUME NEW r \in Seq(UfwRule), NEW k \in DOMAIN r, r[k].to # "ssh", SshOpen(r)
  PROVE  SshOpen(RemoveAt(r, k))
<1>1. PICK i \in DOMAIN r : r[i].to = "ssh" /\ r[i].verdict \in {"allow", "limit"}
  BY DEF SshOpen
<1>2. i # k
  BY <1>1
<1> DEFINE s == RemoveAt(r, k)
           j == IF i < k THEN i ELSE i - 1
<1>3. j \in DOMAIN s /\ s[j] = r[i]
  <2>1. PICK m \in Nat : m = Len(r) /\ DOMAIN r = 1 .. m /\ \A h \in 1 .. m : r[h] \in UfwRule
    OBVIOUS
  <2> DEFINE a == SubSeq(r, 1, k - 1)
             b == SubSeq(r, k + 1, m)
  <2>2. /\ a \in Seq(UfwRule) /\ Len(a) = k - 1 /\ \A h \in 1 .. k - 1 : a[h] = r[h]
    <3>1. \A h \in 1 .. k - 1 : r[h] \in UfwRule
      BY <2>1
    <3> QED BY <2>1, <3>1, SubSeqProperties
  <2>3. /\ b \in Seq(UfwRule) /\ Len(b) = m - k /\ \A h \in 1 .. m - k : b[h] = r[h + k]
    <3>1. \A h \in k + 1 .. m : r[h] \in UfwRule
      BY <2>1
    <3> QED BY <2>1, <3>1, SubSeqProperties
  <2>4. s = a \o b
    BY <2>1 DEF RemoveAt
  <2> HIDE DEF a, b, s
  <2>5. DOMAIN s = 1 .. m - 1 /\ \A h \in 1 .. m - 1 : s[h] = IF h < k THEN a[h] ELSE b[h - k + 1]
    <3>1. /\ s \in Seq(UfwRule) /\ Len(s) = Len(a) + Len(b)
          /\ \A h \in 1 .. Len(a) + Len(b) : s[h] = IF h <= Len(a) THEN a[h] ELSE b[h - Len(a)]
      BY <2>2, <2>3, <2>4, ConcatProperties
    <3>2. k \in 1 .. m /\ Len(a) + Len(b) = m - 1
      <4>1. k \in 1 .. m /\ Len(a) = k - 1 /\ Len(b) = m - k
        BY <2>1, <2>2, <2>3
      <4> QED BY <4>1
    <3>3. DOMAIN s = 1 .. m - 1
      BY <2>1, <3>1, <3>2
    <3>4. ASSUME NEW h \in 1 .. m - 1 PROVE s[h] = IF h < k THEN a[h] ELSE b[h - k + 1]
      <4>1. (h <= k - 1 <=> h < k) /\ h - (k - 1) = h - k + 1
        BY <2>1, <3>2
      <4>2. s[h] = IF h <= Len(a) THEN a[h] ELSE b[h - Len(a)]
        BY <3>1, <3>2
      <4> QED BY <2>2, <4>1, <4>2
    <3> QED BY <3>3, <3>4
  <2>6. k \in 1 .. m /\ i \in 1 .. m /\ j \in 1 .. m - 1
    BY <1>1, <1>2, <2>1
  <2>7. CASE i < k
    BY <2>2, <2>5, <2>6, <2>7
  <2>8. CASE i > k
    <3>1. j = i - 1 /\ s[j] = b[j - k + 1] /\ j - k + 1 \in 1 .. m - k
      BY <2>5, <2>6, <2>8
    <3>2. b[j - k + 1] = r[j - k + 1 + k]
      BY <2>3, <3>1
    <3>3. j - k + 1 + k = i
      BY <2>1, <2>6, <3>1
    <3> QED BY <2>5, <2>6, <3>1, <3>2, <3>3
  <2> QED BY <1>2, <2>6, <2>7, <2>8
<1> HIDE DEF s, j
<1>4. SshOpen(s)
  BY <1>1, <1>3 DEF SshOpen
<1> QED BY <1>4 DEF s

\* The calls of ufw, command by command.
LEMMA UfwHands ==
  ASSUME ShapeInv, agent.todo # <<>>, IsUfw(It) \/ (agent.mode = "busy" /\ agent.cmd.action \in FirewallActions)
  PROVE  LET n == Len(agent.todo)  x == agent.cmd.arg IN
         /\ agent.mode = "busy" /\ agent.cmd \in Commands /\ IsUfw(It)
         /\ \/ /\ agent.cmd.action = "init_firewall"
               /\ \/ n = 4 /\ It = Call("ufw_deny_incoming", "all", "none")
                  \/ n = 3 /\ It = Call("ufw", "ssh", "allow")
                  \/ n = 2 /\ It = Call("ufw", "web", "allow")
                  \/ n = 1 /\ It = Call("ufw_enable", "all", "none")
            \/ /\ agent.cmd.action = "unlimit_port"
               /\ \/ n = 2 /\ It = Call("ufw_delete_limit", x, "none")
                  \/ n = 1 /\ It = Call("ufw", x, "allow")
            \/ agent.cmd.action = "limit_port" /\ n = 1 /\ It = Call("ufw", x, "limit")
            \/ agent.cmd.action = "allow_port" /\ n = 1 /\ It = Call("ufw", x, "allow")
            \/ agent.cmd.action = "deny_port" /\ n = 1 /\ It = Call("ufw", x, "deny")
            \/ agent.cmd.action = "delete_rule" /\ n = 1 /\ It = Call("ufw_delete", x, "none")
<1>1. PICK n \in 1 .. Len(Plan) : n = Len(agent.todo) /\ It = Plan[Len(Plan) - n + 1]
  BY AtCall
<1>2. agent.mode = "busy" /\ agent.cmd.action \in FirewallActions
  <2>1. CASE IsUfw(It)
    <3>1. It.op \in UfwOps
      BY <2>1 DEF IsUfw, UfwOps
    <3>2. It.op \in {"cut", "put", "truncate", "add", "remove", "verify", "mark"} \/ Held = {}
      BY HandCalls
    <3>3. Held = {} /\ Plan # <<>>
      <4>1. Held = {}
        BY <3>1, <3>2 DEF UfwOps
      <4>2. Plan # <<>>
        BY <1>1
      <4> QED BY <4>1, <4>2
    <3> QED BY <3>3, AtCall, PlanCases DEF FirewallActions
  <2> QED BY <2>1
<1>3. agent.cmd \in Commands /\ Plan = Program(agent.cmd)
  BY <1>2 DEF Plan, ShapeInv, HandOK
<1> DEFINE x == agent.cmd.arg
<1>4. CASE agent.cmd.action = "init_firewall"
  <2>1. Plan = InitFirewall
    BY <1>3, <1>4, ProgramIs
  <2>2. n \in {1, 2, 3, 4}
    BY <1>1, <2>1, InitIs
  <2>6. It = InitFirewall[4 - n + 1]
    BY <1>1, <2>1, InitIs
  <2>3. /\ n = 4 => It = InitFirewall[1]
        /\ n = 3 => It = InitFirewall[2]
        /\ n = 2 => It = InitFirewall[3]
        /\ n = 1 => It = InitFirewall[4]
    BY <2>6
  <2>4. \/ n = 4 /\ It = Call("ufw_deny_incoming", "all", "none")
        \/ n = 3 /\ It = Call("ufw", "ssh", "allow")
        \/ n = 2 /\ It = Call("ufw", "web", "allow")
        \/ n = 1 /\ It = Call("ufw_enable", "all", "none")
    BY <2>2, <2>3, InitIs
  <2>5. IsUfw(It)
    BY <2>4 DEF IsUfw, Call
  <2> QED BY <1>1, <1>2, <1>3, <1>4, <2>4, <2>5
<1>5. CASE agent.cmd.action = "unlimit_port"
  <2>1. Plan = << Call("ufw_delete_limit", x, "none"), Call("ufw", x, "allow") >>
    BY <1>3, <1>5, ProgramIs
  <2>2. /\ Len(Plan) = 2 /\ Plan[1] = Call("ufw_delete_limit", x, "none")
        /\ Plan[2] = Call("ufw", x, "allow")
    BY <2>1
  <2>3. \/ n = 2 /\ It = Call("ufw_delete_limit", x, "none")
        \/ n = 1 /\ It = Call("ufw", x, "allow")
    <3>1. n = 1 \/ n = 2
      BY <1>1, <2>2
    <3>2. It = Plan[2 - n + 1]
      BY <1>1, <2>2
    <3> QED BY <2>2, <3>1, <3>2
  <2>4. IsUfw(It)
    BY <2>3 DEF IsUfw, Call
  <2> QED BY <1>1, <1>2, <1>3, <1>5, <2>3, <2>4
<1>6. ASSUME NEW op \in {"ufw", "ufw_delete"}, NEW k, Plan = << Call(op, x, k) >>
      PROVE  n = 1 /\ It = Call(op, x, k) /\ IsUfw(It)
  <2>1. Len(Plan) = 1 /\ Plan[1] = Call(op, x, k)
    BY <1>6
  <2>2. n = 1
    BY <1>1, <2>1
  <2>3. It = Call(op, x, k)
    BY <1>1, <2>1, <2>2
  <2>4. It.op = op
    BY <2>3 DEF Call
  <2> QED BY <2>2, <2>3, <2>4 DEF IsUfw
<1>7. CASE agent.cmd.action = "limit_port"
  <2>1. Plan = << Call("ufw", x, "limit") >>
    BY <1>3, <1>7, ProgramIs
  <2> QED BY <1>1, <1>2, <1>3, <1>6, <1>7, <2>1
<1>8. CASE agent.cmd.action = "allow_port"
  <2>1. Plan = << Call("ufw", x, "allow") >>
    BY <1>3, <1>8, ProgramIs
  <2> QED BY <1>1, <1>2, <1>3, <1>6, <1>8, <2>1
<1>9. CASE agent.cmd.action = "deny_port"
  <2>1. Plan = << Call("ufw", x, "deny") >>
    BY <1>3, <1>9, ProgramIs
  <2> QED BY <1>1, <1>2, <1>3, <1>6, <1>9, <2>1
<1>10. CASE agent.cmd.action = "delete_rule"
  <2>1. Plan = << Call("ufw_delete", x, "none") >>
    BY <1>3, <1>10, ProgramIs
  <2> QED BY <1>1, <1>2, <1>3, <1>6, <1>10, <2>1
<1> QED BY <1>2, <1>4, <1>5, <1>7, <1>8, <1>9, <1>10 DEF FirewallActions, UfwActions

\* What holds of SSH stays so while ufw and what is in hand stay.
LEMMA SshStays ==
  ASSUME SshInv, UNCHANGED <<agent, ufw>>, hist'.half = hist.half, hist'.asked = hist.asked
  PROVE  SshInv'
BY DEF SshInv, Failing, Between, OnSsh, Subjects

\* A command that ends, whatever its end, is written down if it is cut short.
LEMMA SshLeaves ==
  ASSUME ShapeInv, SshInv, ufw' = ufw, agent'.mode # "busy", hist.asked => hist'.asked,
         hist.half \subseteq hist'.half, agent.mode = "busy" => Subjects \subseteq hist'.half
  PROVE  SshInv'
<1>1. OnSsh => "ssh" \in Subjects
  BY DEF OnSsh, Subjects, UfwActions
<1>2. ~OnSsh'
  BY DEF OnSsh
<1> QED BY <1>1, <1>2 DEF SshInv, Failing, Between, OnSsh

\* A program without a call is that of a reserved port.
LEMMA EmptyIsReserved ==
  ASSUME NEW cmd \in Commands, Program(cmd) = <<>> PROVE cmd.action = "protect_host_port"
<1>1. Len(Program(cmd)) = 0
  OBVIOUS
<1>2. cmd.action = "unprotect_host_port" => FALSE
  BY <1>1, ProgramIs, UnprotectIs
<1>3. ASSUME cmd.action = "secure_console_port" PROVE FALSE
  <2>1. Program(cmd) = SecureConsole
    BY <1>3, ProgramIs
  <2> QED BY <1>1, <2>1, SecureIs
<1>4. ASSUME cmd.action = "init_firewall" PROVE FALSE
  <2>1. Program(cmd) = InitFirewall
    BY <1>4, ProgramIs
  <2>2. Len(InitFirewall) = 4
    BY InitIs
  <2> QED BY <1>1, <2>1, <2>2
<1>5. ASSUME cmd.action = "unlimit_port" PROVE FALSE
  <2>1. PICK a, b : Program(cmd) = << a, b >>
    BY <1>5, ProgramIs
  <2> QED BY <1>1, <2>1
<1>6. ASSUME cmd.action \in {"limit_port", "allow_port", "deny_port", "delete_rule"} PROVE FALSE
  <2>1. PICK a : Program(cmd) = << a >>
    BY <1>6, ProgramIs
  <2> QED BY <1>1, <2>1
<1> QED BY <1>2, <1>3, <1>4, <1>5, <1>6, ProgramIs DEF PortActions, UfwActions

LEMMA SshFinish == ASSUME ShapeInv, SshInv, Finish PROVE SshInv'
<1>1. /\ agent.mode = "busy" /\ agent.todo = <<>> /\ agent' = Idle /\ ufw' = ufw
      /\ hist' = [hist EXCEPT !.half = IF Program(agent.cmd) = <<>> THEN @
                                     ELSE IF agent.clean THEN @ \ Subjects
                                     ELSE @ \cup Subjects]
  BY DEF Finish, kernel
<1>2. /\ hist'.asked = hist.asked
      /\ hist'.half = IF Program(agent.cmd) = <<>> THEN hist.half
                      ELSE IF agent.clean THEN hist.half \ Subjects ELSE hist.half \cup Subjects
  BY <1>1 DEF ShapeInv, WfTypes, Histories
<1>3. agent.cmd \in Commands /\ agent'.mode = "idle"
  BY <1>1 DEF ShapeInv, HandOK, Idle
<1>4. ASSUME agent.clean, "ssh" \in Subjects PROVE OnSsh
  <2>1. agent.cmd.action \in PortActions => Subjects = {agent.cmd.arg} /\ agent.cmd.arg \in Ports
    BY <1>1, <1>3, ProgramIs DEF Subjects, PortActions
  <2>2. agent.cmd.action \in UfwActions => Subjects = {agent.cmd.arg}
    BY <1>1 DEF Subjects, UfwActions
  <2>3. agent.cmd.action \notin {"secure_console_port", "init_firewall", "delete_rule"}
    BY <1>1, <1>4, WfConstants DEF Subjects
  <2> QED BY <1>1, <1>3, <1>4, <2>1, <2>2, <2>3, ProgramIs, WfConstants DEF OnSsh
<1>5. ASSUME agent.clean, OnSsh PROVE SshOpen(ufw.rules) \/ hist.asked
  BY <1>1, <1>5 DEF SshInv
<1>6. ASSUME ~agent.clean PROVE Program(agent.cmd) # <<>> \/ "ssh" \notin Subjects
  <2>1. SUFFICES ASSUME Program(agent.cmd) = <<>> PROVE agent.cmd.arg \in Ports /\ Subjects = {agent.cmd.arg}
    BY WfConstants
  <2>2. agent.cmd.action = "protect_host_port"
    BY <1>3, <2>1, EmptyIsReserved
  <2> QED BY <1>1, <1>3, <2>2, ProgramIs DEF Subjects
<1>7. ~OnSsh' /\ ~Between
  BY <1>1, <1>3 DEF OnSsh, Between
<1>8. ufw.on => SshOpen(ufw.rules) \/ hist.asked \/ "ssh" \in hist'.half
  BY <1>1, <1>2, <1>4, <1>5, <1>6, <1>7 DEF SshInv, Failing
<1> QED BY <1>1, <1>2, <1>3, <1>7, <1>8 DEF SshInv, OnSsh

LEMMA SshTake == ASSUME ShapeInv, SshInv, Take PROVE SshInv'
<1>1. /\ agent.mode = "idle" /\ ufw' = ufw /\ hist' = hist
      /\ agent'.todo = Program(agent'.cmd)
  BY DEF Take, kernel, Idle
<1>2. agent'.mode = "busy" /\ agent'.clean = TRUE /\ agent'.cmd \in Commands
  BY HandTaken
<1>3. agent'.cmd.action \in UfwActions => agent'.todo # <<>>
  BY <1>1, <1>2, EmptyIsReserved DEF UfwActions
<1>4. agent'.cmd.action = "init_firewall" => Len(agent'.todo) = 4
  BY <1>1, <1>2, ProgramIs, InitIs
<1>5. ufw.on => SshOpen(ufw.rules) \/ hist.asked \/ "ssh" \in hist.half
  BY <1>1 DEF SshInv, Failing, Between, OnSsh
<1>6. OnSsh' => agent'.todo # <<>>
  BY <1>3 DEF OnSsh
<1>7. ~(agent'.cmd.action = "init_firewall" /\ Len(agent'.todo) <= 2)
  <2> DEFINE n == Len(agent'.todo)
  <2>1. agent'.cmd.action = "init_firewall" => n = 4
    BY <1>4
  <2> HIDE DEF n
  <2>2. agent'.cmd.action = "init_firewall" => ~(n <= 2)
    BY <2>1
  <2> QED BY <2>2 DEF n
<1> QED BY <1>1, <1>5, <1>6, <1>7 DEF SshInv

\* A refused call of ufw is not made; what it is about stays unclean.
LEMMA SshSpoils ==
  ASSUME ShapeInv, SshInv, agent.mode = "busy", NEW s \in Seq(Calls), NEW o \in BOOLEAN,
         agent' = [agent EXCEPT !.todo = s, !.ok = o, !.clean = FALSE], ufw' = ufw,
         hist.asked => hist'.asked, hist.half \subseteq hist'.half
  PROVE  SshInv'
<1>1. agent'.mode = "busy" /\ agent'.cmd = agent.cmd /\ agent'.clean = FALSE
  BY HandSpoils
<1>2. "ssh" \in Subjects => "ssh" \in Subjects'
  BY <1>1 DEF Subjects
<1>3. OnSsh => "ssh" \in Subjects
  BY DEF OnSsh, Subjects, UfwActions
<1>4. Failing \/ Between => Failing'
  BY <1>1, <1>2, <1>3 DEF Failing, Between
<1> QED BY <1>1, <1>4 DEF SshInv

\* The calls that are not ufw's belong to commands that are not about SSH.
LEMMA SshOther ==
  ASSUME ShapeInv, SshInv,
         CutRules \/ PutRule \/ TruncateMarker \/ WriteMarker \/ MarkConsole \/ Read
  PROVE  SshInv'
<1>1. agent.todo # <<>> /\ ufw' = ufw /\ hist' = hist /\ ~IsUfw(It)
  BY DEF CutRules, PutRule, TruncateMarker, WriteMarker, MarkConsole, Read, Doing, It, IsUfw, kernel
<1>2. agent'.mode = agent.mode /\ agent'.cmd = agent.cmd /\ agent'.client = agent.client /\ agent'.clean = agent.clean
  BY HandOnward
<1>3. ~(agent.mode = "busy" /\ agent.cmd.action \in FirewallActions)
  BY <1>1, UfwHands
<1>4. ~OnSsh /\ ~OnSsh' /\ ~(agent'.mode = "busy" /\ agent'.cmd.action = "init_firewall")
  BY <1>2, <1>3 DEF OnSsh, FirewallActions
<1>5. Failing => Failing'
  BY <1>2 DEF Failing, Subjects
<1> QED BY <1>1, <1>4, <1>5 DEF SshInv, Between

LEMMA SshCall == ASSUME ShapeInv, SshInv, UfwCall PROVE SshInv'
<1>1. agent.todo # <<>> /\ IsUfw(It) /\ ufw' = UfwAfter(It)
  BY DEF UfwCall
<1>2. /\ agent'.mode = agent.mode /\ agent'.cmd = agent.cmd /\ agent'.client = agent.client
      /\ agent'.clean = agent.clean /\ Subjects' = Subjects
      /\ Len(agent.todo) \in Nat \ {0} /\ Len(agent'.todo) = Len(agent.todo) - 1
  BY HandOnward DEF Subjects
<1>3. hist'.half = hist.half /\ (hist.asked => hist'.asked)
  <2>1. hist' = hist \/ hist' = [hist EXCEPT !.asked = TRUE]
    BY DEF UfwCall
  <2> QED BY <2>1 DEF ShapeInv, WfTypes, Histories
<1>4. PICK n \in Nat : n = Len(agent.todo)
  BY <1>2
<1>5. agent.mode = "busy" /\ agent.cmd \in Commands
  BY <1>1, UfwHands
<1>6. PICK r \in Seq(UfwRule) : r = ufw.rules
  BY DEF ShapeInv, WfTypes
<1>7. ufw \in [on : BOOLEAN, deny : BOOLEAN, rules : Seq(UfwRule)]
  BY DEF ShapeInv, WfTypes
<1>8. CASE agent.cmd.action = "init_firewall"
  <2>1. ~OnSsh /\ ~OnSsh' /\ (~agent.clean => Failing')
    BY <1>2, <1>5, <1>8 DEF OnSsh, Failing, Subjects, UfwActions
  <2>2. SUFFICES /\ agent.clean /\ ufw'.on => SshOpen(ufw'.rules) \/ hist.asked \/ "ssh" \in hist.half
                 /\ agent.clean /\ n - 1 <= 2 => SshOpen(ufw'.rules)
    BY <1>2, <1>3, <1>4, <1>8, <2>1 DEF SshInv
  <2>3. /\ agent.clean /\ ufw.on => SshOpen(r) \/ hist.asked \/ "ssh" \in hist.half
        /\ agent.clean /\ n <= 2 => SshOpen(r)
    BY <1>4, <1>5, <1>6, <1>8, <2>1 DEF SshInv, Failing, Between
  <2>4. CASE n = 4 /\ It = Call("ufw_deny_incoming", "all", "none")
    <3>1. ufw' = [ufw EXCEPT !.deny = TRUE]
      BY <1>1, <2>4 DEF UfwAfter, Call
    <3>2. ufw'.rules = r /\ ufw'.on = ufw.on
      BY <1>6, <1>7, <3>1
    <3> QED BY <2>3, <2>4, <3>2
  <2>5. CASE n \in {2, 3} /\ \E x \in {"ssh", "web"} : It = Call("ufw", x, "allow") /\ (n = 3 => x = "ssh")
    <3>1. PICK x \in {"ssh", "web"} : It = Call("ufw", x, "allow") /\ (n = 3 => x = "ssh")
      BY <2>5
    <3>2. ufw' = [ufw EXCEPT !.rules = Judged(r, x, "allow")]
      BY <1>1, <1>6, <3>1 DEF UfwAfter, Call
    <3>3. ufw'.rules = Judged(r, x, "allow") /\ ufw'.on = ufw.on
      BY <1>7, <3>2
    <3>4. x = "ssh" => SshOpen(ufw'.rules)
      BY <3>3, JudgedOpen
    <3>5. x # "ssh" /\ agent.clean => SshOpen(ufw'.rules)
      BY <2>3, <2>5, <3>1, <3>3, JudgedElsewhere
    <3> QED BY <3>4, <3>5
  <2>6. CASE n = 1 /\ It = Call("ufw_enable", "all", "none")
    <3>1. ufw' = [ufw EXCEPT !.on = TRUE]
      BY <1>1, <2>6 DEF UfwAfter, Call
    <3>2. ufw'.rules = r
      BY <1>6, <1>7, <3>1
    <3> QED BY <2>3, <2>6, <3>2
  <2>7. \/ n = 4 /\ It = Call("ufw_deny_incoming", "all", "none")
        \/ n = 3 /\ It = Call("ufw", "ssh", "allow")
        \/ n = 2 /\ It = Call("ufw", "web", "allow")
        \/ n = 1 /\ It = Call("ufw_enable", "all", "none")
    BY <1>1, <1>4, <1>8, UfwHands
  <2> QED BY <2>4, <2>5, <2>6, <2>7
\* A command about one target: what it does to SSH's rule is what counts.
<1>9. ASSUME agent.cmd.action \in UfwActions,
             agent.cmd.arg # "ssh" => ufw'.on = ufw.on /\ (SshOpen(r) => SshOpen(ufw'.rules)),
             agent.cmd.arg = "ssh" => SshOpen(ufw'.rules) \/ hist'.asked \/ Between'
      PROVE  SshInv'
  <2>1. CASE agent.cmd.arg = "ssh"
    <3>1. Between' => agent'.todo # <<>>
      BY DEF Between
    <3> QED BY <1>2, <1>9, <2>1, <3>1 DEF SshInv, UfwActions
  <2>2. CASE agent.cmd.arg # "ssh"
    <3>1. ~OnSsh /\ ~OnSsh' /\ ~Failing
      BY <1>2, <1>5, <1>9, <2>2 DEF OnSsh, Failing, Subjects, UfwActions
    <3>2. agent'.cmd.action # "init_firewall"
      BY <1>2, <1>9 DEF UfwActions
    <3> QED BY <1>3, <1>6, <1>9, <2>2, <3>1, <3>2 DEF SshInv, Between
  <2> QED BY <2>1, <2>2
<1>10. ASSUME NEW v \in {"allow", "limit", "deny"}, It = Call("ufw", agent.cmd.arg, v),
              agent.cmd.action \in UfwActions, v = "deny" => agent.cmd.action = "deny_port"
       PROVE  SshInv'
  <2>1. ufw' = [ufw EXCEPT !.rules = Judged(r, agent.cmd.arg, v)]
    BY <1>1, <1>6, <1>10 DEF UfwAfter, Call
  <2>2. ufw'.rules = Judged(r, agent.cmd.arg, v) /\ ufw'.on = ufw.on
    BY <1>7, <2>1
  <2>3. ASSUME agent.cmd.arg = "ssh" PROVE SshOpen(ufw'.rules) \/ hist'.asked
    <3>1. CASE v = "deny"
      <4>1. hist' = [hist EXCEPT !.asked = TRUE]
        BY <1>10, <2>3, <3>1 DEF UfwCall
      <4> QED BY <4>1 DEF ShapeInv, WfTypes, Histories
    <3>2. CASE v # "deny"
      BY <2>2, <2>3, <3>2, JudgedOpen
    <3> QED BY <3>1, <3>2
  <2>4. agent.cmd.arg # "ssh" /\ SshOpen(r) => SshOpen(ufw'.rules)
    BY <2>2, JudgedElsewhere
  <2> QED BY <1>9, <1>10, <2>2, <2>3, <2>4
<1>11. CASE agent.cmd.action = "unlimit_port" /\ n = 2 /\ It = Call("ufw_delete_limit", agent.cmd.arg, "none")
  <2> DEFINE x == agent.cmd.arg
  <2>1. ufw' = [ufw EXCEPT !.rules = IF Limited(x) = {} THEN @
                                     ELSE RemoveAt(@, CHOOSE i \in Limited(x) : TRUE)]
    BY <1>1, <1>11 DEF UfwAfter, Call
  <2>2. /\ ufw'.on = ufw.on
        /\ ufw'.rules = r \/ \E i \in Limited(x) : ufw'.rules = RemoveAt(r, i)
    BY <1>6, <1>7, <2>1
  <2>3. ASSUME x # "ssh", SshOpen(r), NEW i \in Limited(x) PROVE SshOpen(RemoveAt(r, i))
    <3>1. i \in DOMAIN r /\ r[i].to = x
      BY <1>6, <2>3 DEF Limited
    <3> QED BY <2>3, <3>1, RemovedElsewhere
  <2>4. ASSUME x = "ssh" PROVE Between'
    <3>1. agent'.todo # <<>>
      <4>1. Len(agent'.todo) = 1
        BY <1>2, <1>4, <1>11
      <4>2. ASSUME agent'.todo = <<>> PROVE Len(agent'.todo) = 0
        BY <4>2
      <4> DEFINE m == Len(agent'.todo)
      <4> HIDE DEF m
      <4>3. m = 1 /\ (agent'.todo = <<>> => m = 0)
        BY <4>1, <4>2 DEF m
      <4> QED BY <4>3
    <3> QED BY <1>2, <1>5, <1>11, <2>4, <3>1 DEF Between, OnSsh, UfwActions
  <2> QED BY <1>9, <1>11, <2>2, <2>3, <2>4 DEF UfwActions
<1>12. CASE agent.cmd.action = "delete_rule" /\ It = Call("ufw_delete", agent.cmd.arg, "none")
  <2> DEFINE k == agent.cmd.arg
             seen == client[agent.client].seen
  <2>1. ufw' = [ufw EXCEPT !.rules = IF k \in DOMAIN @ THEN RemoveAt(@, k) ELSE @]
    BY <1>1, <1>12 DEF UfwAfter, Call
  <2>2. ufw'.on = ufw.on /\ ufw'.rules = IF k \in DOMAIN r THEN RemoveAt(r, k) ELSE r
    BY <1>6, <1>7, <2>1
  <2>3. hist' = IF seen # r \/ seen[k].to = "ssh" THEN [hist EXCEPT !.asked = TRUE] ELSE hist
    BY <1>6, <1>12 DEF UfwCall
  <2>4. hist'.asked \/ r[k].to # "ssh"
    BY <2>3 DEF ShapeInv, WfTypes, Histories
  <2>5. SshOpen(r) => SshOpen(ufw'.rules) \/ hist'.asked
    BY <2>2, <2>4, RemovedElsewhere
  <2>6. ~OnSsh /\ ~OnSsh' /\ ~Failing /\ agent'.cmd.action # "init_firewall"
    BY <1>2, <1>5, <1>12 DEF OnSsh, Failing, Subjects, UfwActions
  <2> QED BY <1>3, <1>6, <2>2, <2>5, <2>6 DEF SshInv, Between
<1> QED BY <1>1, <1>4, <1>8, <1>10, <1>11, <1>12, UfwHands DEF UfwActions

LEMMA SshStep == ShapeInv /\ SshInv /\ [WfNext]_wfvars => SshInv'
<1> SUFFICES ASSUME ShapeInv, SshInv, [WfNext]_wfvars PROVE SshInv'
  OBVIOUS
<1>1. CASE CutRules \/ PutRule \/ TruncateMarker \/ WriteMarker \/ MarkConsole \/ Read
  BY <1>1, SshOther
<1>2. CASE Take \/ Finish \/ UfwCall
  BY <1>2, SshTake, SshFinish, SshCall
<1>3. CASE Boot \/ Restore
  <2>1. hist'.asked = hist.asked /\ hist.half \subseteq hist'.half
    <3>1. \/ hist' = hist
          \/ \E x : hist' = [hist EXCEPT !.half = x] /\ hist.half \subseteq x
      BY <1>3 DEF Boot, Restore
    <3>2. hist \in Histories
      BY DEF ShapeInv, WfTypes
    <3> QED BY <3>1, <3>2 DEF Histories
  <2>2. ufw' = ufw /\ agent.mode # "busy"
    BY <1>3 DEF Boot, Restore, kernel
  <2>3. agent'.mode # "busy"
    BY <1>3, HandBoots, HandRestores DEF Idle
  <2> QED BY <2>1, <2>2, <2>3, SshLeaves
<1>4. ASSUME agent.todo # <<>>, Drop, ufw' = ufw PROVE SshInv'
  <2>1. hist'.half = hist.half \cup Subjects /\ agent'.mode # "busy"
    BY <1>4, HandDrops DEF Idle
  <2>2. hist'.asked = hist.asked
    BY <1>4 DEF Drop, ShapeInv, WfTypes, Histories
  <2> QED BY <1>4, <2>1, <2>2, SshLeaves
<1>5. ASSUME NEW s \in Seq(Calls), NEW o \in BOOLEAN, ufw' = ufw, hist'.asked = hist.asked,
             hist.half \subseteq hist'.half,
             agent' = [agent EXCEPT !.todo = s, !.ok = o, !.clean = FALSE]
      PROVE  SshInv'
  <2>1. agent'.mode = agent.mode
    BY <1>5, HandSpoils
  <2> QED BY <1>5, <2>1, SshSpoils, SshLeaves
<1>6. CASE Refuse
  <2>1. agent.todo # <<>> /\ ufw' = ufw
    BY <1>6 DEF Refuse, kernel
  <2>2. CASE Drop
    BY <1>4, <2>1, <2>2
  <2>3. CASE hist' = hist /\ (agent' = Unclean \/ \E x \in BOOLEAN : agent' = [Unclean EXCEPT !.ok = x])
    BY <1>5, <2>1, <2>3, Spoiled
  <2> QED BY <1>6, <2>2, <2>3 DEF Refuse
<1>7. CASE GetStuck
  <2>1. agent.todo # <<>> /\ ufw' = ufw
    BY <1>7 DEF GetStuck, kernel
  <2>2. CASE Drop
    BY <1>4, <2>1, <2>2
  <2>3. CASE agent' = [Idle EXCEPT !.mode = "down"] /\ hist' = [hist EXCEPT !.half = @ \cup Subjects]
    <3>1. agent'.mode = "down"
      BY <2>3 DEF Idle
    <3>2. hist'.half = hist.half \cup Subjects /\ hist'.asked = hist.asked
      BY <2>3 DEF ShapeInv, WfTypes, Histories
    <3> QED BY <2>1, <3>1, <3>2, SshLeaves
  <2> QED BY <1>7, <2>2, <2>3 DEF GetStuck
<1>8. CASE DiskFails
  <2>1. /\ ufw' = ufw /\ agent.todo # <<>>
        /\ \/ hist' = [hist EXCEPT !.half = @ \cup Subjects] \/ hist' = [hist EXCEPT !.lost = TRUE]
           \/ hist' = hist
    BY <1>8 DEF DiskFails, Doing, kernel
  <2>2. hist.half \subseteq hist'.half /\ hist'.asked = hist.asked
    <3>1. hist \in Histories
      BY DEF ShapeInv, WfTypes
    <3> QED BY <2>1, <3>1 DEF Histories
  <2>3. \/ agent' = Unclean
        \/ It.op = "truncate" /\ agent' = [Unclean EXCEPT !.todo = Tail(@)]
    BY <1>8 DEF DiskFails, Doing, It
  <2> QED BY <1>5, <2>1, <2>2, <2>3, Spoiled, SkippedWrite
<1>9. CASE Crash \/ Reboot
  <2>1. /\ agent'.mode = "down" /\ hist.half \subseteq hist'.half /\ hist'.asked = hist.asked
        /\ agent.mode = "busy" => Subjects \subseteq hist'.half
    BY <1>9, HandHangs DEF Crash, Reboot
  <2>2. ufw' = ufw
    BY <1>9 DEF Crash, Reboot, kernel
  <2> QED BY <2>1, <2>2, SshLeaves
<1>10. ASSUME NEW c \in Clients,
              Look(c) \/ GiveUp(c) \/ \E cmd \in Commands, st \in Unsent : Sends(c, st, cmd)
       PROVE  SshInv'
  <2>1. UNCHANGED <<agent, ufw>>
    BY <1>10 DEF Look, GiveUp, Sends, kernel
  <2> QED BY <1>10, <2>1, SendingHarmsNone, SshStays
<1>11. CASE UNCHANGED wfvars
  BY <1>11, SshStays DEF wfvars, kernel
<1> QED BY <1>1, <1>2, <1>3, <1>6, <1>7, <1>8, <1>9, <1>10, <1>11, WfKinds

(* An active firewall that denies by default keeps SSH reachable whatever the *)
(* interleaving of commands, refusals and crashes: init_firewall allows SSH   *)
(* before "enable", limiting and unlimiting keep the rule, and a deletion by  *)
(* number takes it only if its operator pointed at it or used an old listing. *)
THEOREM WfSshStaysOpen == WfSpec => []SshStaysOpen
<1>1. WfInit => ShapeInv /\ SshInv
  BY ShapeInit, SshInit
<1>2. ShapeInv /\ SshInv /\ [WfNext]_wfvars => (ShapeInv /\ SshInv)'
  BY ShapeStep, SshStep
<1>3. SshInv => SshStaysOpen
  BY DEF SshInv, SshStaysOpen, Failing, Between, OnSsh
<1> QED BY <1>1, <1>2, <1>3, PTL DEF WfSpec
=============================================================================
