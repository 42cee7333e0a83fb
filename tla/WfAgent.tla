------------------------------ MODULE WfAgent ------------------------------
(* The firewall agent of the host, host-agent/wardnode-wf-agent.py, as        *)
(* systemd keeps it running, and the console's requests to it                 *)
(* (app/modules/socket_client.py and the WF routes of app/modules/routes.py). *)
(*                                                                            *)
(* The agent is one thread that takes connections from a Unix socket in       *)
(* order.  What it changes lives in two places that cannot be committed       *)
(* together: the kernel's iptables rules, gone after a reboot, and marker     *)
(* files from which it restores them when it starts.  A command is a program, *)
(* the sequence of its subprocess calls and file operations, and one call is  *)
(* one action.  ufw keeps its own rules across reboots; its IPv6 rules and    *)
(* the wording of what it prints are left out.                                *)
EXTENDS Integers, Sequences, FiniteSets, SequencesExt, FiniteSetsExt

CONSTANTS
    Ports,          \* host ports the panel may close
    Reserved,       \* those of _BLOCKED_PORTS: 22, 80, 443, 5000
    Console,        \* port 5000, which has its own command and marker
    Published,      \* ports that containers publish to the outside
    Requests,       \* requests of the panel, one command each
    Monitors,       \* threads that ask for the list of ports (PortMonitor)
    Commands,       \* what a request may ask for
    Backlog,        \* connections that wait for the agent
    MaxEach,        \* of each trouble, how often it happens
    MaxTotal,       \* and of all of them together
    None

ASSUME WfAssumption ==
    /\ Reserved \subseteq Ports /\ Published \subseteq Ports /\ Console \notin Ports
    /\ Requests \cap Monitors = {} /\ Backlog \in Nat \ {0}
    /\ MaxEach \in Nat /\ MaxTotal \in Nat
    /\ None \notin Requests \cup Monitors \cup Ports \cup Commands

Clients == Requests \cup Monitors
Chained == Ports \cup {Console}
Torn    == "torn"           \* a marker file cut off by open("w"), not written yet

PortActions == {"protect_host_port", "unprotect_host_port"}
UfwActions  == {"limit_port", "unlimit_port", "allow_port", "deny_port"}

(* A target of ufw is not one of the host ports of raw/PREROUTING, even if    *)
(* its number is the same.                                                    *)
ASSUME CommandsAssumption ==
    /\ {Torn, "ssh", "web"} \cap Chained = {}
    /\ \A cmd \in Commands :
         \/ cmd.action \in PortActions /\ cmd.arg \in Ports
         \/ cmd.action \in UfwActions /\ cmd.arg \notin Chained
         \/ cmd.action \in {"secure_console_port", "init_firewall"}
         \/ cmd.action = "delete_rule" /\ cmd.arg \in Nat

(* "refused": iptables or ufw ends with an error.  "stuck": it runs into its  *)
(* timeout.  "disk": a file cannot be written.  "crash": the agent dies.      *)
(* "reboot": the host starts again.  "console": a thread of the console gets  *)
(* no answer in time, fails to send or to store, or dies.                     *)
Troubles == {"refused", "stuck", "disk", "crash", "reboot", "console"}

VARIABLES
    chain,          \* per port, its rules in raw/PREROUTING or INPUT, first match first
    marker,         \* the ports of .protected_ports.json, or {Torn}
    secured,        \* whether .secure_port5000 exists
    ufw,            \* [on, deny, rules]: active, default deny, the numbered rules
    agent,          \* the agent's mode and the command in its hands
    queue,          \* clients whose command waits in the socket, in order
    client,         \* per client, [state, cmd, seen: a listing of ufw, heard: exposed ports]
    spent,          \* troubles so far
    hist            \* history, read by the properties only

kernel == <<chain, ufw>>
disk   == <<marker, secured>>
wfvars == <<kernel, disk, agent, queue, client, spent, hist>>

Spend(t) ==
    /\ spent[t] < MaxEach
    /\ MapThenSumSet(LAMBDA k : spent[k], Troubles) < MaxTotal
    /\ spent' = [spent EXCEPT ![t] = @ + 1]

Idle == [mode |-> "idle", cmd |-> None, client |-> None, todo |-> <<>>, boot |-> {},
         copy |-> {}, ok |-> TRUE, clean |-> TRUE]

WfInit ==
    /\ chain = [p \in Chained |-> <<>>]
    /\ marker = {} /\ secured = FALSE
    /\ ufw = [on |-> FALSE, deny |-> FALSE, rules |-> <<>>]
    /\ agent = Idle /\ queue = <<>>
    /\ client = [c \in Clients |-> [state |-> "new", cmd |-> None, seen |-> <<>>, heard |-> {}]]
    /\ spent = [t \in Troubles |-> 0]
    /\ hist = [half |-> {}, lost |-> FALSE, word |-> [p \in Chained |-> "none"],
               asked |-> FALSE]

-----------------------------------------------------------------------------
(* What a command does, call by call.                                         *)

Call(op, x, k) == [op |-> op, on |-> x, kind |-> k]

(* Mutant: the rules of an earlier call are not deleted first.                *)
ProtectAgain(p) == << Call("put", p, "drop"), Call("put", p, "accept"),
                      Call("truncate", p, "none"), Call("add", p, "none"), Call("verify", p, "none") >>

(* _protect_host_port: rules of earlier calls go first; the exception for the *)
(* loopback comes last, so that it is the first to match; then the marker.    *)
Protect(p) == << Call("cut", p, "accept"), Call("cut", p, "drop"),
                 Call("put", p, "drop"), Call("put", p, "accept"),
                 Call("truncate", p, "none"), Call("add", p, "none"), Call("verify", p, "none") >>

(* Mutant: the marker is left as it is.                                       *)
UnprotectRules(p) == << Call("cut", p, "accept"), Call("cut", p, "drop") >>

(* _unprotect_host_port.                                                      *)
Unprotect(p) == << Call("cut", p, "accept"), Call("cut", p, "drop"),
                   Call("truncate", p, "none"), Call("remove", p, "none") >>

(* _secure_console_port.                                                      *)
SecureConsole == << Call("cut", Console, "drop"), Call("cut", Console, "accept"),
                    Call("put", Console, "drop"), Call("put", Console, "accept"),
                    Call("mark", Console, "none") >>

(* Mutant: the firewall is enabled before its rules are there.                *)
EnableFirst == << Call("ufw_deny_incoming", "all", "none"), Call("ufw_enable", "all", "none"),
                  Call("ufw", "ssh", "allow"), Call("ufw", "web", "allow") >>

(* handle("init_firewall"): every call is made, whatever became of the ones   *)
(* before.  The rules for 80, 443 and 8081 are one call here, logging none.   *)
InitFirewall == << Call("ufw_deny_incoming", "all", "none"), Call("ufw", "ssh", "allow"),
                   Call("ufw", "web", "allow"), Call("ufw_enable", "all", "none") >>

(* handle: the program of a command; a reserved port is refused, an empty     *)
(* program.  cmd.arg is a port, a target of ufw or the number of a rule.      *)
Program(cmd) ==
    CASE cmd.action = "protect_host_port"   ->
            IF cmd.arg \in Reserved THEN <<>> ELSE Protect(cmd.arg)
      [] cmd.action = "unprotect_host_port" -> Unprotect(cmd.arg)
      [] cmd.action = "secure_console_port" -> SecureConsole
      [] cmd.action = "list_docker_ports"   -> << Call("list", "all", "none") >>
      [] cmd.action = "init_firewall"       -> InitFirewall
      [] cmd.action = "limit_port"          -> << Call("ufw", cmd.arg, "limit") >>
      [] cmd.action = "unlimit_port"        -> << Call("ufw_delete_limit", cmd.arg, "none"),
                                                  Call("ufw", cmd.arg, "allow") >>
      [] cmd.action = "allow_port"          -> << Call("ufw", cmd.arg, "allow") >>
      [] cmd.action = "deny_port"           -> << Call("ufw", cmd.arg, "deny") >>
      [] cmd.action = "delete_rule"         -> << Call("ufw_delete", cmd.arg, "none") >>

(* ufw replaces the verdict on a target it knows and appends one it does not. *)
Judged(rules, x, verdict) ==
    IF \E i \in DOMAIN rules : rules[i].to = x
    THEN [i \in DOMAIN rules |->
             IF rules[i].to = x THEN [to |-> x, verdict |-> verdict] ELSE rules[i]]
    ELSE Append(rules, [to |-> x, verdict |-> verdict])

Limited(x) == {i \in DOMAIN ufw.rules : ufw.rules[i] = [to |-> x, verdict |-> "limit"]}

UfwAfter(s) ==
    CASE s.op = "ufw_deny_incoming" -> [ufw EXCEPT !.deny = TRUE]
      [] s.op = "ufw_enable"        -> [ufw EXCEPT !.on = TRUE]
      [] s.op = "ufw"               -> [ufw EXCEPT !.rules = Judged(@, s.on, s.kind)]
      [] s.op = "ufw_delete_limit"  ->
            [ufw EXCEPT !.rules = IF Limited(s.on) = {} THEN @
                                  ELSE RemoveAt(@, CHOOSE i \in Limited(s.on) : TRUE)]
      [] s.op = "ufw_delete"        ->
            [ufw EXCEPT !.rules = IF s.on \in DOMAIN @ THEN RemoveAt(@, s.on) ELSE @]
IsUfw(s) == s.op \in {"ufw_deny_incoming", "ufw_enable", "ufw", "ufw_delete_limit",
                      "ufw_delete"}

(* _load_protected_ports: what is no JSON counts as no ports.                 *)
Loaded == marker \ {Torn}

(* _is_host_port_blocked: the DROP rule is there.                             *)
Blocked(p) == \E i \in DOMAIN chain[p] : chain[p][i] = "drop"

(* _list_docker_ports and the filter of _get_exposed_ports.                   *)
Exposed == {p \in Published : ~Blocked(p)}

SshOpen(rules) ==
    \E i \in DOMAIN rules : rules[i].to = "ssh" /\ rules[i].verdict \in {"allow", "limit"}

-----------------------------------------------------------------------------
(* The console: a route checks its input, send_command connects and waits.    *)

(* A rule is deleted by its number in a listing the operator saw.             *)
Look(c) ==
    /\ client[c].state = "new"
    /\ agent.mode = "idle" /\ ufw.rules # <<>>
    /\ client' = [client EXCEPT ![c] = [@ EXCEPT !.state = "saw", !.seen = ufw.rules]]
    /\ UNCHANGED <<kernel, disk, agent, queue, spent, hist>>

Says(c, cmd) == client' = [client EXCEPT ![c] = [@ EXCEPT !.state = "waits", !.cmd = cmd]]

(* The socket is there while the agent listens.  A full backlog refuses a     *)
(* socket that has a timeout.                                                 *)
Connect(c, cmd) ==
    \/ /\ agent.mode \in {"idle", "busy"} /\ Len(queue) < Backlog
       /\ Says(c, cmd) /\ queue' = Append(queue, c)
       /\ hist' = IF cmd.action \in PortActions /\ cmd.arg \notin Reserved
                  THEN [hist EXCEPT !.word[cmd.arg] = cmd.action] ELSE hist
    \/ /\ agent.mode \in {"down", "boot"} \/ Len(queue) >= Backlog
       /\ client' = [client EXCEPT ![c] = [@ EXCEPT !.state = "error", !.cmd = cmd]]
       /\ UNCHANGED <<queue, hist>>

Sends(c, state, cmd) ==
    /\ client[c].state = state
    /\ Connect(c, cmd)
    /\ UNCHANGED <<kernel, disk, agent, spent>>
Asked(actions) == {cmd \in Commands : cmd.action \in actions}

SendRule(c) ==
    \E cmd \in Asked({"init_firewall", "allow_port", "deny_port"}) : Sends(c, "new", cmd)
SendSsh(c)  == \E cmd \in Asked({"limit_port", "unlimit_port"}) : Sends(c, "new", cmd)
SendPort(c) ==
    \E cmd \in Asked(PortActions) : Sends(c, "new", cmd)

DeleteSeen(c) ==
    \E cmd \in Asked({"delete_rule"}) :
        cmd.arg \in DOMAIN client[c].seen /\ Sends(c, "saw", cmd)

(* A thread that sends the command five seconds after its request.            *)
SecurePort(c) == \E cmd \in Asked({"secure_console_port"}) : Sends(c, "new", cmd)

Request(c) == Look(c) \/ SendRule(c) \/ SendSsh(c) \/ SendPort(c) \/ DeleteSeen(c) \/ SecurePort(c)

(* The client's timeout is shorter than a command may take.  It reports an    *)
(* error; its command stays in the socket.                                    *)
GiveUp(c) ==
    /\ client[c].state = "waits"
    /\ client' = [client EXCEPT ![c].state = "error"]
    /\ UNCHANGED <<kernel, disk, agent, queue, spent, hist>>

-----------------------------------------------------------------------------
(* serve: one connection after the other.                                     *)

(* Mutant: the connection that came last is served first.                     *)
TakeLast ==
    /\ agent.mode = "idle" /\ queue # <<>>
    /\ LET c == Last(queue) IN
         agent' = [Idle EXCEPT !.mode = "busy", !.cmd = client[c].cmd, !.client = c,
                               !.todo = Program(client[c].cmd)]
    /\ queue' = Front(queue)
    /\ UNCHANGED <<kernel, disk, client, spent, hist>>

Take ==
    /\ agent.mode = "idle" /\ queue # <<>>
    /\ LET c == Head(queue) IN
         agent' = [Idle EXCEPT !.mode = "busy", !.cmd = client[c].cmd, !.client = c,
                               !.todo = Program(client[c].cmd)]
    /\ queue' = Tail(queue)
    /\ UNCHANGED <<kernel, disk, client, spent, hist>>

(* What the command in hand is about and can leave half done: a port, a       *)
(* target of ufw.  At boot it is the port that is being restored.  A deletion *)
(* is one call; init_firewall only does harm when a call of it was refused.   *)
Subjects ==
    IF agent.mode = "boot" THEN {agent.client}
    ELSE IF agent.cmd.action = "delete_rule" THEN {}
    ELSE IF agent.cmd.action = "init_firewall" THEN IF agent.clean THEN {} ELSE {"ssh", "web"}
    ELSE IF agent.cmd.action = "secure_console_port" THEN {Console}
    ELSE {agent.cmd.arg}

(* Who still waits hears the answer.                                          *)
Answer(state, ports) ==
    client' = [client EXCEPT ![agent.client] =
                 IF @.state = "waits" THEN [@ EXCEPT !.state = state, !.heard = ports] ELSE @]

(* The program is through.                                                    *)
Finish ==
    /\ agent.mode = "busy" /\ agent.todo = <<>>
    /\ agent' = Idle
    /\ Answer(IF agent.ok /\ Program(agent.cmd) # <<>> THEN "ok" ELSE "error", agent.copy)
    /\ hist' = [hist EXCEPT !.half = IF Program(agent.cmd) = <<>> THEN @
                                     ELSE IF agent.clean THEN @ \ Subjects
                                     ELSE @ \cup Subjects]
    /\ UNCHANGED <<kernel, disk, queue, spent>>

Doing(op) == agent.todo # <<>> /\ Head(agent.todo).op = op
It        == Head(agent.todo)
Rest      == [agent EXCEPT !.todo = Tail(@)]
Unclean   == [Rest EXCEPT !.clean = FALSE]

(* What is left when the rules of a kind are gone: those of the other kind.   *)
Without(rules, kind) ==
    [i \in 1..Cardinality({i \in DOMAIN rules : rules[i] # kind}) |->
        IF kind = "drop" THEN "accept" ELSE "drop"]

(* iptables -D until it fails.  The limit of ten is never met: there are two  *)
(* rules of a kind only after a deletion was refused.                         *)
CutRules ==
    /\ Doing("cut")
    /\ chain' = [chain EXCEPT ![It.on] = Without(@, It.kind)]
    /\ agent' = Rest
    /\ UNCHANGED <<ufw, disk, queue, client, spent, hist>>

(* iptables -I ... 1.                                                         *)
PutRule ==
    /\ Doing("put")
    /\ chain' = [chain EXCEPT ![It.on] = <<It.kind>> \o @]
    /\ agent' = Rest
    /\ UNCHANGED <<ufw, disk, queue, client, spent, hist>>

(* _load_protected_ports, then open("w") of _save_protected_ports.            *)
TruncateMarker ==
    /\ Doing("truncate")
    /\ agent' = [Rest EXCEPT !.copy = Loaded]
    /\ marker' = {Torn}
    /\ UNCHANGED <<kernel, secured, queue, client, spent, hist>>

(* json.dump and close.                                                       *)
WriteMarker ==
    /\ Doing("add") \/ Doing("remove")
    /\ marker' = IF It.op = "add" THEN agent.copy \cup {It.on} ELSE agent.copy \ {It.on}
    /\ agent' = Rest
    /\ UNCHANGED <<kernel, secured, queue, client, spent, hist>>

MarkConsole ==
    /\ Doing("mark")
    /\ secured' = TRUE
    /\ agent' = Rest
    /\ UNCHANGED <<kernel, marker, queue, client, spent, hist>>

(* The rule is looked up before the answer; the list is taken.                *)
Read ==
    /\ Doing("verify") \/ Doing("list")
    /\ agent' = [Rest EXCEPT !.copy = IF It.op = "list" THEN Exposed ELSE @]
    /\ UNCHANGED <<kernel, disk, queue, client, spent, hist>>

(* The history notes an operator's own command against SSH: a denial, or the  *)
(* deletion of what was SSH in the listing, or by a listing that is outdated. *)
UfwCall ==
    /\ agent.todo # <<>> /\ IsUfw(It)
    /\ ufw' = UfwAfter(It)
    /\ agent' = Rest
    /\ hist' = IF \/ agent.cmd.action = "deny_port" /\ agent.cmd.arg = "ssh"
                  \/ /\ agent.cmd.action = "delete_rule"
                     /\ LET seen == client[agent.client].seen IN
                          seen # ufw.rules \/ seen[agent.cmd.arg].to = "ssh"
               THEN [hist EXCEPT !.asked = TRUE] ELSE hist
    /\ UNCHANGED <<chain, disk, queue, client, spent>>

-----------------------------------------------------------------------------
(* What goes wrong.                                                           *)

(* The rest of the command is not done.  A request gets an error, at boot the *)
(* next port follows.                                                         *)
Drop ==
    /\ agent' = IF agent.mode = "busy" THEN Idle ELSE [agent EXCEPT !.todo = <<>>]
    /\ IF agent.mode = "busy" THEN Answer("error", {}) ELSE UNCHANGED client
    /\ hist' = [hist EXCEPT !.half = @ \cup Subjects,
                            !.lost = @ \/ marker = {Torn}]

(* A refused deletion looks like a rule that is not there.  A refused         *)
(* insertion ends the command.  ufw's calls are all made; only unlimit_port   *)
(* does not look at the result of its first one.                              *)
Refuse ==
    /\ agent.todo # <<>> /\ Spend("refused")
    /\ \/ /\ It.op = "cut" /\ agent' = Unclean /\ UNCHANGED <<client, hist>>
       \/ /\ It.op = "put" /\ Drop
       \/ /\ IsUfw(It)
          /\ agent' = [Unclean EXCEPT !.ok = It.op = "ufw_delete_limit"]
          /\ UNCHANGED <<client, hist>>
       \/ /\ It.op = "list" /\ agent' = [Unclean EXCEPT !.ok = FALSE]
          /\ UNCHANGED <<client, hist>>
    /\ UNCHANGED <<kernel, disk, queue>>

(* A timeout is an exception: of subprocess.run itself, or of the missing     *)
(* "output" of _iptables.  serve turns it into an answer; at boot nothing     *)
(* catches it and the process ends.  _ufw and docker ps return an error.      *)
GetStuck ==
    /\ agent.todo # <<>> /\ It.op \in {"cut", "put", "verify"} /\ Spend("stuck")
    /\ IF agent.mode = "busy" THEN Drop
       ELSE /\ agent' = [Idle EXCEPT !.mode = "down"]
            /\ hist' = [hist EXCEPT !.half = @ \cup Subjects]
            /\ UNCHANGED client
    /\ UNCHANGED <<kernel, disk, queue>>

(* A marker that cannot be written is logged, the command goes on and says ok. *)
DiskFails ==
    /\ Spend("disk")
    /\ \/ /\ Doing("truncate") /\ agent' = [Unclean EXCEPT !.todo = Tail(@)]
          /\ hist' = [hist EXCEPT !.half = @ \cup Subjects]
       \/ /\ Doing("add") \/ Doing("remove")
          /\ agent' = Unclean
          /\ hist' = [hist EXCEPT !.lost = TRUE]
       \/ /\ Doing("mark") /\ agent' = Unclean /\ UNCHANGED hist
    /\ UNCHANGED <<kernel, disk, queue, client>>

(* Everybody's connection breaks, what waited is not done.                    *)
Hangup ==
    /\ queue' = <<>>
    /\ agent' = [Idle EXCEPT !.mode = "down"]
    /\ client' = [c \in Clients |-> IF client[c].state = "waits"
                                    THEN [client[c] EXCEPT !.state = "error"] ELSE client[c]]
    /\ hist' = [hist EXCEPT
          !.half = @ \cup (IF agent.mode = "busy" \/ agent.todo # <<>> \/ ~agent.clean
                                THEN Subjects ELSE {})
                     \cup {p \in Ports : \E i \in DOMAIN queue : client[queue[i]].cmd.arg = p},
          !.lost = @ \/ marker = {Torn}]

Crash ==
    /\ agent.mode # "down" /\ Spend("crash") /\ Hangup
    /\ UNCHANGED <<kernel, disk>>

(* iptables rules are gone, ufw and the files stay.                           *)
Reboot ==
    /\ Spend("reboot") /\ Hangup
    /\ chain' = [p \in Chained |-> <<>>]
    /\ UNCHANGED <<ufw, disk>>

-----------------------------------------------------------------------------
(* serve before it listens; Restart=on-failure starts it again.               *)

(* Mutant: only the console's port is restored.                               *)
BootConsole ==
    /\ agent.mode = "down"
    /\ agent' = [Idle EXCEPT !.mode = "boot", !.client = Console,
                             !.todo = IF secured THEN SecureConsole ELSE <<>>]
    /\ UNCHANGED <<kernel, disk, queue, client, spent, hist>>

Boot ==
    /\ agent.mode = "down"
    /\ agent' = [Idle EXCEPT !.mode = "boot", !.client = Console, !.boot = Loaded,
                             !.todo = IF secured THEN SecureConsole ELSE <<>>]
    /\ UNCHANGED <<kernel, disk, queue, client, spent, hist>>

(* _restore_protected_ports_if_needed: port by port, then the socket opens.   *)
Restore ==
    /\ agent.mode = "boot" /\ agent.todo = <<>>
    /\ IF agent.boot = {} THEN agent' = Idle
       ELSE \E p \in agent.boot :
              agent' = [agent EXCEPT !.client = p, !.todo = Protect(p),
                                     !.boot = @ \ {p}, !.clean = TRUE]
    /\ hist' = [hist EXCEPT !.half = IF agent.clean THEN @ ELSE @ \cup {agent.client}]
    /\ UNCHANGED <<kernel, disk, queue, client, spent>>

Works  == CutRules \/ PutRule \/ TruncateMarker \/ WriteMarker \/ MarkConsole \/ Read \/ UfwCall
AgentOwn == Take \/ Works \/ Finish \/ Boot \/ Restore
Wrong  == Refuse \/ GetStuck \/ DiskFails \/ Crash \/ Reboot

WfNext ==
    \/ \E c \in Requests : Request(c) \/ GiveUp(c)
    \/ AgentOwn
    \/ Wrong

WfSpec == WfInit /\ [][WfNext]_wfvars
FairWfSpec == WfSpec /\ WF_wfvars(AgentOwn)

-----------------------------------------------------------------------------
Rules == {<<>>, <<"accept", "drop">>}
AtRest == agent.mode = "idle"

(* At rest a port has no rules, or exactly the two in the order that lets the *)
(* loopback through (_protect_host_port deletes what an earlier call left and *)
(* inserts at position 1), unless its last command was cut short.             *)
ChainsAreClean == AtRest => \A p \in Chained \ hist.half : chain[p] \in Rules

(* The two places agree: at rest a port is blocked in the kernel if and only  *)
(* if the marker will restore it after a reboot.  Excepted are ports whose    *)
(* command was cut short, and, when a marker file was lost half-written, all. *)
KernelMatchesMarker ==
    AtRest /\ ~hist.lost => \A p \in Ports \ hist.half : Blocked(p) <=> p \in Loaded

(* Commands have their effect in the order they were sent, those included     *)
(* whose sender gave up: at rest with nobody waiting a port is as the last    *)
(* command sent for it says (accept loop of serve).                           *)
LastWordWins ==
    AtRest /\ queue = <<>> /\ ~hist.lost =>
       \A p \in Ports \ (hist.half \cup Reserved) :
          Blocked(p) <=> hist.word[p] = "protect_host_port"

(* An active firewall that denies by default keeps SSH reachable: the rule is *)
(* there before "enable", limiting and unlimiting keep it, and a deletion by  *)
(* number takes it away only if the operator pointed at it or used an         *)
(* outdated listing.  Excepted: a denial, and a command cut short.            *)
SshStaysOpen ==
    ufw.on /\ ufw.deny =>
       \/ SshOpen(ufw.rules) \/ hist.asked \/ "ssh" \in hist.half
       \/ ~agent.clean
       \/ agent.mode = "busy" /\ agent.cmd.action = "unlimit_port"

(* A marked port of a host that went down is blocked again, however often the *)
(* agent dies on the way, unless iptables refuses or the marker changes.      *)
MarkedIsRestored ==
    \A p \in Ports : (p \in Loaded /\ agent.mode = "down")
                        ~> (Blocked(p) \/ p \in hist.half \/ p \notin Loaded)
=============================================================================
