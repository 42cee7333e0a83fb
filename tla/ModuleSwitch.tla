--------------------------- MODULE ModuleSwitch ----------------------------
(* The switches of the optional modules, app/modules/routes.py: WF, SOC, OBS  *)
(* and CrowdSec ("ddos"), with the two activations that start containers, the *)
(* bouncer key that three places must agree on, and the ingest threads of     *)
(* app/ddos/ingest.py that an activation leaves behind.                       *)
(*                                                                            *)
(* gunicorn's sync workers serve one request per process at a time and are    *)
(* killed after 120 s, less than an activation may take.  Each call to        *)
(* Docker, to cscli or to app_config is one action.                           *)
EXTENDS Integers, FiniteSets, FiniteSetsExt

CONSTANTS
    Procs,          \* gunicorn processes
    Kinds,          \* what a request may ask for
    Alerts,         \* alerts CrowdSec raises
    Keys,           \* bouncer keys that secrets.token_hex may draw
    MaxRequests,    \* requests served
    MaxEach,        \* of each trouble, how often it happens
    MaxTotal,       \* and of all of them together
    None

Modules    == {"wf", "obs", "soc", "ddos"}
Dependents == {"obs", "soc", "ddos"}        \* those with "requires": "wf"
Places     == {"crowdsec", "bouncer", "grafana"}
Hand       == "hand"                        \* who started a container outside the panel

(* "fails": a call to Docker, compose or cscli ends with an error.  "dies": a *)
(* process is killed.  "firewall": ufw is switched off or on by hand.         *)
Troubles == {"fails", "dies", "firewall"}

(* What a request may ask for: a switch, or one of the other routes.          *)
Requested == Modules \cup {"activate", "deactivate", "obs_activate", "restart crowdsec", "restart bouncer"}

ASSUME SwitchAssumption ==
    /\ IsFiniteSet(Procs) /\ Procs # {} /\ Kinds \subseteq Requested
    /\ None \notin Procs \cup Requested \cup Keys \cup {Hand} /\ Hand \notin Procs \cup Keys
    /\ MaxRequests \in Nat /\ MaxEach \in Nat /\ MaxTotal \in Nat

VARIABLES
    flag,           \* module_*_enabled
    operational,    \* ufw_is_operational
    stored,         \* ddos_bouncer_key, or None
    box,            \* per place, the container: [id, run, key]; id None when absent
    registered,     \* the key of bouncer "wardnode" in CrowdSec's database, or None
    req,            \* per process, the request it serves
    pollers,        \* per process, its ddos-ingest threads
    listed,         \* alerts in CrowdSec's list
    banned,         \* cs_alert_id of the rows of ddos_ban_event
    spent,          \* troubles and requests so far
    hist            \* history, read by the properties only

config == <<flag, stored>>
docker == <<box, registered>>
ingest == <<pollers, listed, banned>>
swvars == <<config, operational, docker, req, ingest, spent, hist>>

Idle   == [kind |-> None, pc |-> "idle", key |-> None, seen |-> None, missing |-> FALSE]
Absent == [id |-> None, run |-> FALSE, key |-> None]
ByHand == [id |-> Hand, run |-> TRUE, key |-> Hand]

(* Nothing is there yet, or somebody has run compose with a key of his own.   *)
SwInit ==
    /\ flag = [m \in Modules |-> m = "wf"] /\ operational = TRUE
    /\ stored = None
    /\ box \in {[x \in Places |-> Absent],
                [x \in Places |-> IF x = "grafana" THEN Absent ELSE ByHand]}
    /\ registered = box["crowdsec"].key
    /\ req = [p \in Procs |-> Idle]
    /\ pollers = [p \in Procs |-> 0] /\ listed = {} /\ banned = {}
    /\ spent = [t \in Troubles \cup {"requests"} |-> 0]
    /\ hist = [last |-> None, crossed |-> FALSE, twin |-> FALSE, replaced |-> FALSE, broken |-> FALSE,
               mute |-> FALSE]

Spend(t) ==
    /\ spent[t] < MaxEach
    /\ MapThenSumSet(LAMBDA k : spent[k], Troubles) < MaxTotal
    /\ spent' = [spent EXCEPT ![t] = @ + 1]

At(p, pc)      == req[p].pc = pc
Goto(p, pc)    == req' = [req EXCEPT ![p].pc = pc]
Serving(kinds) == {p \in Procs : req[p].kind \in kinds}
Switching      == {"ddos", "activate", "deactivate", "restart crowdsec", "restart bouncer"}
Alone(p)       == Serving(Switching) \ {p} = {}

(* An activation that ends between the removal of the bouncer and the new     *)
(* registration leaves the keys as they are.                                  *)
Touched(p) == req[p].pc \in {"remove", "start", "compose", "health", "delete", "add"}

(* The answer is sent.                                                        *)
Done(p) ==
    /\ req' = [req EXCEPT ![p] = Idle]
    /\ hist' = IF req[p].kind \in Switching THEN [hist EXCEPT !.last = req[p].kind] ELSE hist
Refuse(p) == req' = [req EXCEPT ![p] = Idle] /\ UNCHANGED hist

-----------------------------------------------------------------------------
(* A request arrives.  The activations pass their gates first.                *)
Begin(p) ==
    /\ At(p, "idle") /\ spent.requests < MaxRequests
    /\ spent' = [spent EXCEPT !.requests = @ + 1]
    /\ \E k \in Kinds :
         /\ req' = [req EXCEPT ![p] = [Idle EXCEPT !.kind = k, !.pc = "gate"]]
         /\ hist' = IF k \in Switching
                    THEN [hist EXCEPT !.last = None, !.crossed = ~Alone(p)] ELSE hist
    /\ UNCHANGED <<config, operational, docker, ingest>>

(* _unmet_dependency, then _ufw_gate_reason, which asks the firewall agent.   *)
Gate(p) == flag["wf"] /\ operational

(* toggle: the state is read, and written by a later action.  Turning a       *)
(* module off asks no gate; OBS and CrowdSec are turned on by their own       *)
(* activation only; WF needs the panel's domain, which it has here.           *)
ReadSwitch(p) ==
    /\ At(p, "gate") /\ req[p].kind \in Modules
    /\ LET m == req[p].kind IN
         IF flag[m] THEN Goto(p, "off") /\ UNCHANGED hist
         ELSE IF m \in {"obs", "ddos"} \/ (m \in Dependents /\ ~Gate(p)) THEN Refuse(p)
         ELSE Goto(p, "on") /\ UNCHANGED hist
    /\ UNCHANGED <<config, operational, docker, ingest, spent>>

WriteSwitch(p) ==
    /\ At(p, "on") \/ At(p, "off")
    /\ flag' = [flag EXCEPT ![req[p].kind] = At(p, "on")]
    /\ Done(p)
    /\ UNCHANGED <<stored, operational, docker, ingest, spent>>

EnterActivation(p) ==
    /\ At(p, "gate") /\ req[p].kind \in {"activate", "obs_activate"}
    /\ IF Gate(p)
       THEN Goto(p, IF req[p].kind = "activate" THEN "key" ELSE "grafana") /\ UNCHANGED hist
       ELSE Refuse(p)
    /\ UNCHANGED <<config, operational, docker, ingest, spent>>

-----------------------------------------------------------------------------
(* ddos_activate.                                                             *)

(* A drawn key is one that nothing holds.                                     *)
InUse   == {stored, registered} \cup {box[x].key : x \in Places} \cup {req[q].key : q \in Procs}
Draw(p) == \E k \in Keys \ InUse : req' = [req EXCEPT ![p].pc = "keep", ![p].key = k]

(* The stored key, or a new one.                                              *)
ReadKey(p) ==
    /\ At(p, "key")
    /\ IF stored = None THEN Draw(p)
       ELSE req' = [req EXCEPT ![p].pc = "crowdsec", ![p].key = stored]
    /\ UNCHANGED <<config, operational, docker, ingest, spent, hist>>

(* get_secret raises, say because the master key has changed: the exception   *)
(* is passed over and a new key is drawn though one is stored.                *)
LoseKey(p) ==
    /\ At(p, "key") /\ stored # None /\ Spend("fails")
    /\ Draw(p)
    /\ UNCHANGED <<config, operational, docker, ingest, hist>>

(* AppConfig.set overwrites what is stored: the key that could not be read,   *)
(* or, when requests overlap, perhaps one that another activation works with. *)
KeepKey(p) ==
    /\ At(p, "keep")
    /\ stored' = req[p].key
    /\ Goto(p, "crowdsec")
    /\ hist' = [hist EXCEPT !.replaced = @ \/ stored # None,
                            !.twin = @ \/ (stored # None /\ hist.crossed)]
    /\ UNCHANGED <<flag, operational, docker, ingest, spent>>

(* CrowdSec registers the key of its environment when it starts and has none. *)
Entrypoint(starts) ==
    registered' = IF registered = None /\ starts THEN box'["crowdsec"].key ELSE registered

(* Phase 1, first container: it is started unless it runs.                    *)

StartCrowdsec(p) ==
    /\ At(p, "crowdsec")
    /\ IF box["crowdsec"].id = None
       THEN /\ req' = [req EXCEPT ![p].pc = "bouncer", ![p].missing = TRUE]
            /\ UNCHANGED docker
       ELSE /\ box' = [box EXCEPT !["crowdsec"].run = TRUE]
            /\ Entrypoint(~box["crowdsec"].run)
            /\ Goto(p, "bouncer")
    /\ UNCHANGED <<config, operational, ingest, spent, hist>>

(* Mutant: a bouncer is started whatever its key.                             *)
LookAtAnyBouncer(p) ==
    /\ At(p, "bouncer")
    /\ LET b == box["bouncer"] IN
         req' = [req EXCEPT ![p].seen = b.id, ![p].missing = @ \/ b.id = None,
                            ![p].pc = IF b.id = None \/ b.run THEN "compose" ELSE "start"]
    /\ UNCHANGED <<config, operational, docker, ingest, spent, hist>>

(* Phase 1, second container: a handle to it, its key and its state.          *)
LookAtBouncer(p) ==
    /\ At(p, "bouncer")
    /\ LET b == box["bouncer"] IN
         req' = [req EXCEPT ![p].seen = b.id, ![p].missing = @ \/ b.id = None,
                            ![p].pc = IF b.id # None /\ b.key # req[p].key THEN "remove"
                                      ELSE IF b.id = None \/ b.run THEN "compose" ELSE "start"]
    /\ UNCHANGED <<config, operational, docker, ingest, spent, hist>>

(* remove(force=True), or NotFound when somebody else was faster.             *)
RemoveBouncer(p) ==
    /\ At(p, "remove")
    /\ box' = IF box["bouncer"].id = req[p].seen THEN [box EXCEPT !["bouncer"] = Absent] ELSE box
    /\ req' = [req EXCEPT ![p].pc = "compose", ![p].missing = TRUE]
    /\ UNCHANGED <<config, operational, registered, ingest, spent, hist>>

StartBouncer(p) ==
    /\ At(p, "start")
    /\ IF box["bouncer"].id = req[p].seen
       THEN box' = [box EXCEPT !["bouncer"].run = TRUE] /\ Goto(p, "compose")
       ELSE req' = [req EXCEPT ![p].pc = "compose", ![p].missing = TRUE] /\ UNCHANGED box
    /\ UNCHANGED <<config, operational, registered, ingest, spent, hist>>

(* Phase 2: "compose up --no-recreate" with this request's key, when a        *)
(* container was missing: it creates what is absent and starts what stands.   *)
Compose(p) ==
    /\ At(p, "compose")
    /\ IF req[p].missing
       THEN /\ box' = [x \in Places |->
                 IF x = "grafana" THEN box[x]
                 ELSE IF box[x].id = None THEN [id |-> p, run |-> TRUE, key |-> req[p].key]
                 ELSE [box[x] EXCEPT !.run = TRUE]]
            /\ Entrypoint(~box["crowdsec"].run)
       ELSE UNCHANGED docker
    /\ Goto(p, "health")
    /\ UNCHANGED <<config, operational, ingest, spent, hist>>

(* Phase 3: both run at once, or the request fails after 30 s.                *)
Health(p) ==
    /\ At(p, "health")
    /\ box["crowdsec"].run /\ box["bouncer"].run
    /\ Goto(p, "delete")
    /\ UNCHANGED <<config, operational, docker, ingest, spent, hist>>

(* Phase 4: two calls of cscli.  The second one fails when the name exists.   *)
DeleteRegistration(p) ==
    /\ At(p, "delete") /\ box["crowdsec"].run
    /\ registered' = None
    /\ Goto(p, "add")
    /\ UNCHANGED <<config, operational, box, ingest, spent, hist>>

AddRegistration(p) ==
    /\ At(p, "add") /\ box["crowdsec"].run /\ registered = None
    /\ registered' = req[p].key
    /\ Goto(p, "enable")
    /\ UNCHANGED <<config, operational, box, ingest, spent, hist>>

(* The switch is set.  A lone activation mends what others left.              *)
Enable(p) ==
    /\ At(p, "enable")
    /\ flag' = [flag EXCEPT !["ddos"] = TRUE]
    /\ Goto(p, "thread")
    /\ hist' = IF hist.crossed THEN hist
               ELSE [hist EXCEPT !.twin = FALSE, !.replaced = FALSE, !.broken = FALSE]
    /\ UNCHANGED <<stored, operational, docker, ingest, spent>>

(* Mutant: the thread is left to the next start of the process.               *)
StartNoThread(p) ==
    /\ At(p, "thread") /\ Done(p)
    /\ UNCHANGED <<config, operational, docker, ingest, spent>>

(* start_ddos_ingest_thread: one more thread, whoever runs already.           *)
StartThread(p) ==
    /\ At(p, "thread") /\ Done(p)
    /\ pollers' = [pollers EXCEPT ![p] = IF flag["ddos"] /\ @ < MaxRequests THEN @ + 1 ELSE @]
    /\ UNCHANGED <<config, operational, docker, listed, banned, spent>>

-----------------------------------------------------------------------------
(* obs_activate: Grafana, then the switch, then nginx, whose failure the      *)
(* request reports and leaves the switch on.                                  *)
StartGrafana(p) ==
    /\ At(p, "grafana")
    /\ box' = [box EXCEPT !["grafana"] =
                 IF @.id = None THEN [id |-> p, run |-> TRUE, key |-> None]
                 ELSE [@ EXCEPT !.run = TRUE]]
    /\ Goto(p, "obs")
    /\ UNCHANGED <<config, operational, registered, ingest, spent, hist>>

EnableObs(p) ==
    /\ At(p, "obs") /\ box["grafana"].run
    /\ flag' = [flag EXCEPT !["obs"] = TRUE]
    /\ Done(p)
    /\ UNCHANGED <<stored, operational, docker, ingest, spent>>

(* Mutant: the bouncer alone is stopped.                                      *)
StopBouncer(p) ==
    \/ /\ At(p, "gate") /\ req[p].kind = "deactivate"
       /\ box' = [box EXCEPT !["bouncer"].run = FALSE] /\ Goto(p, "disable")
       /\ UNCHANGED <<config, operational, registered, ingest, spent, hist>>

(* ddos_deactivate: the bouncer, CrowdSec, the switch.  A container that does *)
(* not stop is logged and passed over; without Docker neither is tried.       *)
Stop(p) ==
    \/ /\ At(p, "gate") /\ req[p].kind = "deactivate"
       /\ box' = [box EXCEPT !["bouncer"].run = FALSE] /\ Goto(p, "stop")
       /\ UNCHANGED <<config, operational, registered, ingest, spent, hist>>
    \/ /\ At(p, "stop")
       /\ box' = [box EXCEPT !["crowdsec"].run = FALSE] /\ Goto(p, "disable")
       /\ UNCHANGED <<config, operational, registered, ingest, spent, hist>>

Disable(p) ==
    /\ At(p, "disable")
    /\ flag' = [flag EXCEPT !["ddos"] = FALSE]
    /\ Done(p)
    /\ UNCHANGED <<stored, operational, docker, ingest, spent>>

(* sys_restart: a container that stands still starts, too.                    *)
Restart(p) ==
    /\ At(p, "gate") /\ req[p].kind \in {"restart crowdsec", "restart bouncer"}
    /\ LET x == IF req[p].kind = "restart crowdsec" THEN "crowdsec" ELSE "bouncer" IN
         /\ box' = [box EXCEPT ![x].run = box[x].id # None]
         /\ Entrypoint(x = "crowdsec")
    /\ Done(p)
    /\ UNCHANGED <<config, operational, ingest, spent>>

-----------------------------------------------------------------------------
(* A call fails: an activation ends with an error, a deactivation goes on.    *)
(* The name that exists already and a container that stopped meanwhile are no *)
(* trouble of their own, so they cost none.                                   *)
Outrun(p) ==
    \/ At(p, "health") /\ ~(box["crowdsec"].run /\ box["bouncer"].run)
    \/ At(p, "delete") /\ ~box["crowdsec"].run
    \/ At(p, "add") /\ (~box["crowdsec"].run \/ registered # None)
    \/ At(p, "obs") /\ ~box["grafana"].run

Break(p) ==
    /\ req' = [req EXCEPT ![p] = Idle]
    /\ hist' = [hist EXCEPT !.broken = @ \/ (req[p].kind = "activate" /\ Touched(p))]

Fail(p) ==
    /\ \/ Outrun(p) /\ UNCHANGED spent
       \/ ~Outrun(p) /\ Spend("fails")
    /\ \/ /\ req[p].pc \in {"keep", "crowdsec", "remove", "start", "compose", "health", "delete",
                            "add", "grafana", "obs"}
          /\ Break(p)
       \/ /\ At(p, "gate") /\ req[p].kind = "deactivate"
          /\ \E pc \in {"stop", "disable"} : Goto(p, pc)
          /\ hist' = [hist EXCEPT !.crossed = TRUE]
       \/ /\ At(p, "stop") /\ Goto(p, "disable") /\ hist' = [hist EXCEPT !.crossed = TRUE]
       \/ /\ At(p, "thread") /\ req' = [req EXCEPT ![p] = Idle]
          /\ hist' = [hist EXCEPT !.last = "activate", !.mute = TRUE]
    /\ UNCHANGED <<config, operational, docker, ingest>>

(* compose ends with an error, or after 120 s, when CrowdSec alone is up.     *)
ComposeHalf(p) ==
    /\ At(p, "compose") /\ req[p].missing /\ Spend("fails")
    /\ box' = [box EXCEPT !["crowdsec"] =
                 IF @.id = None THEN [id |-> p, run |-> TRUE, key |-> req[p].key]
                 ELSE [@ EXCEPT !.run = TRUE]]
    /\ Entrypoint(~box["crowdsec"].run)
    /\ Break(p)
    /\ UNCHANGED <<config, operational, ingest>>

(* gunicorn kills a process and starts another one in its place; create_app   *)
(* starts an ingest thread if the module is on.                               *)
Die(p) ==
    /\ Spend("dies") /\ Break(p)
    /\ pollers' = [pollers EXCEPT ![p] = IF flag["ddos"] THEN 1 ELSE 0]
    /\ UNCHANGED <<config, operational, docker, listed, banned>>

FirewallFlips ==
    /\ Spend("firewall") /\ operational' = ~operational
    /\ UNCHANGED <<config, docker, req, ingest, hist>>

(* CrowdSec raises an alert.                                                  *)
Raise(a) ==
    /\ a \notin listed /\ box["crowdsec"].run
    /\ listed' = listed \cup {a}
    /\ UNCHANGED <<config, operational, docker, req, pollers, banned, spent, hist>>

(* _poll_once of a thread: one alert, one commit; the unique index turns down *)
(* what another thread stored.  It asks the container, never the switch.      *)
Poll(p) ==
    /\ pollers[p] > 0 /\ box["crowdsec"].run
    /\ \E a \in listed \ banned : banned' = banned \cup {a}
    /\ UNCHANGED <<config, operational, docker, req, pollers, listed, spent, hist>>

Step(p) ==
    \/ ReadSwitch(p) \/ WriteSwitch(p) \/ EnterActivation(p) \/ ReadKey(p) \/ KeepKey(p)
    \/ StartCrowdsec(p) \/ LookAtBouncer(p) \/ RemoveBouncer(p) \/ StartBouncer(p)
    \/ Compose(p) \/ Health(p) \/ DeleteRegistration(p) \/ AddRegistration(p) \/ Enable(p)
    \/ StartThread(p) \/ StartGrafana(p) \/ EnableObs(p) \/ Stop(p) \/ Disable(p) \/ Restart(p)

SwNext ==
    \/ \E p \in Procs : Begin(p) \/ Step(p) \/ LoseKey(p) \/ Fail(p) \/ ComposeHalf(p) \/ Die(p)
                         \/ Poll(p)
    \/ FirewallFlips
    \/ \E a \in Alerts : Raise(a)

SwSpec == SwInit /\ [][SwNext]_swvars
FairSwSpec == SwSpec /\ \A p \in Procs : WF_swvars(Step(p)) /\ WF_swvars(Poll(p))

-----------------------------------------------------------------------------
Quiet == Serving(Switching) = {}

(* Three places hold the bouncer's key: the container's environment, the      *)
(* registration in CrowdSec and app_config.  While the module is on and no    *)
(* request works on it they agree, though containers were started by hand     *)
(* with another key, though activations, deactivations and restarts overlap.  *)
(* A key that could not be read and was replaced may be stored before the     *)
(* containers know it, if its activation fails: then container and            *)
(* registration still agree with each other, so the bouncer is let in         *)
(* ("nunca deje el bouncer en bucle de 403").  Excepted: one of two           *)
(* overlapping requests stored its key over another, and an activation ended  *)
(* between the removal of the bouncer and the new registration; a later       *)
(* activation that runs alone mends all three.                                *)
KeysAgree ==
    flag["ddos"] /\ Quiet /\ ~hist.twin /\ ~hist.broken =>
       /\ registered # None /\ box["bouncer"].key = registered
       /\ hist.replaced \/ registered = stored

(* The switch and the containers agree after an activation or a deactivation  *)
(* that overlapped no other request and whose calls succeeded.                *)
SwitchMatchesContainers ==
    Quiet /\ ~hist.crossed =>
       /\ hist.last = "activate" => box["crowdsec"].run /\ box["bouncer"].run /\ flag["ddos"]
       /\ hist.last = "deactivate" => ~box["crowdsec"].run /\ ~box["bouncer"].run /\ ~flag["ddos"]

(* A module that is on has a thread that reads its bans, in the process that  *)
(* served the activation or in those that started later, through every death  *)
(* of a process, unless Docker did not answer when the thread was started.    *)
BansAreRead ==
    flag["ddos"] /\ ~hist.mute =>
       \E p \in Procs : pollers[p] > 0 \/ At(p, "thread")
=============================================================================
