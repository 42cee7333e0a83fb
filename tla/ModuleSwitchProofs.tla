------------------------- MODULE ModuleSwitchProofs -------------------------
(* Proofs about the switches of the modules (ModuleSwitch), for any number of *)
(* processes, requests, alerts and troubles.                                  *)
EXTENDS ModuleSwitch, TLAPS

(* Types, and the stages of a request.                                        *)

Ids    == Procs \cup {Hand, None}
Held   == Keys \cup {Hand, None}
Boxes  == [id : Ids, run : BOOLEAN, key : Held]
Stages == {"idle", "gate", "on", "off", "key", "keep", "crowdsec", "bouncer", "remove", "start", "compose",
           "health", "delete", "add", "enable", "thread", "grafana", "obs", "stop", "disable"}
Activating == {"key", "keep", "crowdsec", "bouncer", "remove", "start", "compose", "health", "delete",
               "add", "enable", "thread"}

Steps == [kind : Requested \cup {None}, pc : Stages, key : Keys \cup {None}, seen : Ids,
          missing : BOOLEAN]
HistType == [last : Requested \cup {None}, crossed : BOOLEAN, twin : BOOLEAN, replaced : BOOLEAN,
             broken : BOOLEAN, mute : BOOLEAN]

SwTypes ==
  /\ flag \in [Modules -> BOOLEAN] /\ stored \in Keys \cup {None}
  /\ box \in [Places -> Boxes] /\ registered \in Held
  /\ req \in [Procs -> Steps]
  /\ pollers \in [Procs -> Nat]
  /\ spent \in [Troubles \cup {"requests"} -> Nat]
  /\ hist \in HistType

\* A request goes through the stages of its kind; a container that runs is there.
StageOK(p) ==
  /\ req[p].pc = "idle" <=> req[p].kind = None
  /\ req[p].pc \in Activating => req[p].kind = "activate"
  /\ req[p].pc \in {"stop", "disable"} => req[p].kind = "deactivate"
  /\ req[p].pc \in {"grafana", "obs"} => req[p].kind = "obs_activate"
  /\ req[p].pc \in {"on", "off"} => req[p].kind \in Modules
  /\ req[p].pc = "on" => req[p].kind # "ddos"
  /\ req[p].pc = "start" => req[p].seen # None
  /\ req[p].pc # "idle" => MaxRequests > 0

StageInv == SwTypes /\ (\A p \in Procs : StageOK(p)) /\ \A x \in Places : box[x].run => box[x].id # None


LEMMA SwConstants ==
  /\ None \notin Procs /\ Hand \notin Procs /\ Hand # None /\ Kinds \subseteq Requested
  /\ None \notin Requested /\ None \notin Keys /\ Switching \subseteq Requested
BY SwitchAssumption DEF Requested, Modules, Switching

\* The steps of the specification.
LEMMA SwKinds ==
  ASSUME [SwNext]_swvars
  PROVE  \/ \E p \in Procs :
              \/ Begin(p) \/ ReadSwitch(p) \/ WriteSwitch(p) \/ EnterActivation(p) \/ ReadKey(p) \/ KeepKey(p)
              \/ StartCrowdsec(p) \/ LookAtBouncer(p) \/ RemoveBouncer(p) \/ StartBouncer(p)
              \/ Compose(p) \/ Health(p) \/ DeleteRegistration(p) \/ AddRegistration(p) \/ Enable(p)
              \/ StartThread(p) \/ StartGrafana(p) \/ EnableObs(p) \/ Stop(p) \/ Disable(p) \/ Restart(p)
              \/ LoseKey(p) \/ Fail(p) \/ ComposeHalf(p) \/ Die(p) \/ Poll(p)
         \/ FirewallFlips \/ (\E a \in Alerts : Raise(a)) \/ UNCHANGED swvars
BY DEF SwNext, Step

LEMMA StageInit == SwInit => StageInv
<1> SUFFICES ASSUME SwInit PROVE StageInv
  OBVIOUS
<1>1. Absent \in Boxes /\ ByHand \in Boxes
  BY SwConstants DEF Absent, ByHand, Boxes, Ids, Held
<1>2. \A x \in Places : box[x] \in {Absent, ByHand}
  BY DEF SwInit
<1>3. box \in [Places -> Boxes]
  BY <1>1, <1>2 DEF SwInit, Places
<1>4. \A x \in Places : box[x].run => box[x].id # None
  BY <1>2, SwConstants DEF Absent, ByHand
<1>5. registered \in Held
  BY <1>3 DEF SwInit, Places, Boxes
<1>6. \A p \in Procs : StageOK(p)
  BY SwConstants DEF SwInit, StageOK, Idle, Activating
<1>7. SwTypes
  BY <1>3, <1>5, SwConstants DEF SwInit, SwTypes, Steps, HistType, Idle, Requested, Stages, Ids, Held, Modules, Troubles
<1> QED BY <1>4, <1>6, <1>7 DEF StageInv

LEMMA Spent ==
  ASSUME spent \in [Troubles \cup {"requests"} -> Nat], NEW t \in Troubles, Spend(t)
  PROVE  spent' \in [Troubles \cup {"requests"} -> Nat]
<1>1. spent' = [spent EXCEPT ![t] = @ + 1]
  BY DEF Spend
<1> QED BY <1>1

\* The request of process p goes on, ends, or fails; the others stay.
LEMMA Onward ==
  ASSUME StageInv, NEW p \in Procs, NEW pc \in Stages, req' = [req EXCEPT ![p].pc = pc]
  PROVE  /\ req' \in [Procs -> Steps] /\ \A q \in Procs : q # p => req'[q] = req[q]
         /\ req'[p].pc = pc /\ req'[p].kind = req[p].kind /\ req'[p].key = req[p].key
         /\ req'[p].seen = req[p].seen /\ req'[p].missing = req[p].missing
BY DEF StageInv, SwTypes, Steps

\* The request of p gets a new record.
LEMMA Replaced ==
  ASSUME StageInv, NEW p \in Procs, NEW r \in Steps, req' = [req EXCEPT ![p] = r]
  PROVE  req' \in [Procs -> Steps] /\ req'[p] = r /\ \A q \in Procs : q # p => req'[q] = req[q]
BY DEF StageInv, SwTypes

LEMMA MissingGoes ==
  ASSUME StageInv, NEW p \in Procs, NEW pc \in Stages,
         req' = [req EXCEPT ![p].pc = pc, ![p].missing = TRUE]
  PROVE  /\ req' \in [Procs -> Steps] /\ \A q \in Procs : q # p => req'[q] = req[q]
         /\ req'[p].pc = pc /\ req'[p].kind = req[p].kind /\ req'[p].key = req[p].key
         /\ req'[p].missing = TRUE
<1> DEFINE r == [req[p] EXCEPT !.pc = pc, !.missing = TRUE]
<1>1. req[p] \in Steps
  BY DEF StageInv, SwTypes
<1>2. r \in Steps /\ r.pc = pc /\ r.kind = req[p].kind /\ r.key = req[p].key /\ r.missing = TRUE
  BY <1>1 DEF Steps
<1>3. req' = [req EXCEPT ![p] = r]
  OBVIOUS
<1> HIDE DEF r
<1> QED BY <1>2, <1>3, Replaced

LEMMA Ended ==
  ASSUME StageInv, NEW p \in Procs, req' = [req EXCEPT ![p] = Idle]
  PROVE  /\ req' \in [Procs -> Steps] /\ \A q \in Procs : q # p => req'[q] = req[q]
         /\ req'[p].pc = "idle" /\ req'[p].kind = None
<1>1. Idle \in Steps /\ Idle.pc = "idle" /\ Idle.kind = None
  BY DEF Idle, Steps, Stages, Ids, Held
<1> QED BY <1>1 DEF StageInv, SwTypes, Steps

LEMMA Answered ==
  ASSUME StageInv, NEW p \in Procs, Done(p)
  PROVE  /\ req' = [req EXCEPT ![p] = Idle]
         /\ hist'.last = IF req[p].kind \in Switching THEN req[p].kind ELSE hist.last
         /\ hist'.crossed = hist.crossed /\ hist'.twin = hist.twin /\ hist'.broken = hist.broken
         /\ hist'.mute = hist.mute /\ hist'.replaced = hist.replaced
         /\ hist' \in HistType
BY DEF StageInv, SwTypes, Done, Steps, HistType

LEMMA StageEnds ==
  ASSUME StageInv, NEW p \in Procs, req' = [req EXCEPT ![p] = Idle]
  PROVE  req' \in [Procs -> Steps] /\ \A q \in Procs : StageOK(q)'
<1>1. StageOK(p)'
  BY Ended DEF StageOK, Activating
<1>2. ASSUME NEW q \in Procs, q # p PROVE StageOK(q)'
  BY <1>2, Ended DEF StageInv, StageOK
<1> QED BY <1>1, <1>2, Ended

LEMMA StageGoes ==
  ASSUME StageInv, NEW p \in Procs, req' \in [Procs -> Steps],
         req'[p].kind = req[p].kind, \A q \in Procs : q # p => req'[q] = req[q],
         \/ req[p].pc \in Activating /\ req'[p].pc \in Activating
         \/ req[p].kind = "activate" /\ req'[p].pc \in Activating
         \/ req[p].kind = "obs_activate" /\ req'[p].pc \in {"grafana", "obs"}
         \/ req[p].kind = "deactivate" /\ req'[p].pc \in {"stop", "disable"}
         \/ req[p].kind \in Modules /\ req'[p].pc \in {"on", "off"} /\ (req'[p].pc = "on" => req[p].kind # "ddos"),
         req[p].pc # "idle", req'[p].pc = "start" => req'[p].seen # None
  PROVE  \A q \in Procs : StageOK(q)'
<1>1. StageOK(p)'
  BY DEF StageInv, StageOK, Activating
<1>2. ASSUME NEW q \in Procs, q # p PROVE StageOK(q)'
  BY <1>2 DEF StageInv, StageOK
<1> QED BY <1>1, <1>2

\* What is not about the request.
LEMMA StageWorld ==
  ASSUME StageInv, req' \in [Procs -> Steps], \A q \in Procs : StageOK(q)',
         hist' \in HistType, spent' \in [Troubles \cup {"requests"} -> Nat],
         UNCHANGED <<config, docker, pollers>>
  PROVE  StageInv'
BY DEF StageInv, SwTypes, Steps, HistType, config, docker

\* Containers change; one that runs is there.
LEMMA StageBoxes ==
  ASSUME StageInv, req' \in [Procs -> Steps], \A q \in Procs : StageOK(q)',
         hist' \in HistType, spent' \in [Troubles \cup {"requests"} -> Nat],
         UNCHANGED <<config, pollers>>, registered' \in Held, box' \in [Places -> Boxes],
         \A x \in Places : box'[x].run => box'[x].id # None
  PROVE  StageInv'
BY DEF StageInv, SwTypes, config

LEMMA StageSwitch ==
  ASSUME StageInv, NEW p \in Procs,
         ReadSwitch(p) \/ WriteSwitch(p) \/ EnterActivation(p) \/ ReadKey(p) \/ LoseKey(p) \/ KeepKey(p)
  PROVE  StageInv'
<1>0. /\ hist \in HistType /\ spent \in [Troubles \cup {"requests"} -> Nat] /\ StageOK(p)
      /\ stored \in Keys \cup {None} /\ req \in [Procs -> Steps]
  BY DEF StageInv, SwTypes
<1>1. CASE ReadSwitch(p)
  <2>1. UNCHANGED <<config, docker, pollers, spent, hist>>
    BY <1>1 DEF ReadSwitch, ingest, Refuse
  <2>2. CASE Refuse(p)
    BY <1>0, <2>1, <2>2, StageEnds, StageWorld DEF Refuse
  <2>3. ASSUME NEW pc \in {"on", "off"}, req[p].kind \in Modules, req[p].pc # "idle", Goto(p, pc),
               pc = "on" => req[p].kind # "ddos"
        PROVE  StageInv'
    <3>1. /\ req' \in [Procs -> Steps] /\ \A q \in Procs : q # p => req'[q] = req[q]
          /\ req'[p].pc = pc /\ req'[p].kind = req[p].kind
      BY <2>3, Onward DEF Goto, Stages
    <3>2. \A q \in Procs : StageOK(q)'
      BY <2>3, <3>1, StageGoes
    <3> QED BY <1>0, <2>1, <3>1, <3>2, StageWorld
  <2> QED BY <1>1, <2>2, <2>3 DEF ReadSwitch, At
<1>2. CASE WriteSwitch(p)
  <2>1. /\ flag' = [flag EXCEPT ![req[p].kind] = (req[p].pc = "on")]
        /\ UNCHANGED <<stored, docker, pollers, spent>> /\ Done(p)
    BY <1>2 DEF WriteSwitch, At, ingest
  <2>2. req' \in [Procs -> Steps] /\ (\A q \in Procs : StageOK(q)') /\ hist' \in HistType
    BY <2>1, Answered, StageEnds
  <2>3. flag' \in [Modules -> BOOLEAN]
    BY <2>1 DEF StageInv, SwTypes
  <2> QED BY <2>1, <2>2, <2>3 DEF StageInv, SwTypes, docker
<1>3. CASE EnterActivation(p)
  <2>1. UNCHANGED <<config, docker, pollers, spent, hist>>
    BY <1>3 DEF EnterActivation, ingest, Refuse
  <2>2. CASE Refuse(p)
    BY <1>0, <2>1, <2>2, StageEnds, StageWorld DEF Refuse
  <2>3. CASE Goto(p, IF req[p].kind = "activate" THEN "key" ELSE "grafana")
    <3> DEFINE pc == IF req[p].kind = "activate" THEN "key" ELSE "grafana"
    <3>1. /\ req' \in [Procs -> Steps] /\ \A q \in Procs : q # p => req'[q] = req[q]
          /\ req'[p].pc = pc /\ req'[p].kind = req[p].kind
      <4>1. pc \in Stages /\ req' = [req EXCEPT ![p].pc = pc]
        BY <2>3 DEF Goto, Stages
      <4> QED BY <4>1, Onward
    <3>2. \A q \in Procs : StageOK(q)'
      <4>1. req[p].kind \in {"activate", "obs_activate"} /\ req[p].pc = "gate"
        BY <1>3 DEF EnterActivation, At
      <4> QED BY <3>1, <4>1, StageGoes DEF Activating
    <3> QED BY <1>0, <2>1, <3>1, <3>2, StageWorld
  <2> QED BY <1>3, <2>2, <2>3 DEF EnterActivation
<1>4. CASE ReadKey(p) \/ LoseKey(p)
  <2>1. UNCHANGED <<config, docker, pollers, hist>> /\ req[p].pc = "key"
    BY <1>4 DEF ReadKey, LoseKey, ingest, At
  <2>5. spent' \in [Troubles \cup {"requests"} -> Nat]
    BY <1>0, <1>4, Spent DEF ReadKey, LoseKey, Troubles
  <2>4. PICK pc \in {"keep", "crowdsec"}, k \in Keys \cup {None} :
               req' = [req EXCEPT ![p].pc = pc, ![p].key = k]
    BY <1>0, <1>4 DEF ReadKey, LoseKey, Draw
  <2>2. /\ req' \in [Procs -> Steps] /\ \A q \in Procs : q # p => req'[q] = req[q]
        /\ req'[p].pc \in {"keep", "crowdsec"} /\ req'[p].kind = req[p].kind
    <3> DEFINE r == [req[p] EXCEPT !.pc = pc, !.key = k]
    <3>1. req[p] \in Steps /\ pc \in Stages
      BY <1>0 DEF Stages
    <3>2. r \in Steps /\ r.pc = pc /\ r.kind = req[p].kind
      BY <3>1 DEF Steps
    <3>3. req' = [req EXCEPT ![p] = r]
      BY <2>4
    <3> HIDE DEF r
    <3> QED BY <3>2, <3>3, Replaced
  <2>3. \A q \in Procs : StageOK(q)'
    BY <2>1, <2>2, StageGoes DEF Activating
  <2> QED BY <1>0, <2>1, <2>2, <2>3, <2>5, StageWorld
<1>5. CASE KeepKey(p)
  <2>1. /\ stored' = req[p].key /\ req[p].pc = "keep" /\ Goto(p, "crowdsec")
        /\ UNCHANGED <<flag, docker, pollers, spent>>
        /\ hist' = [hist EXCEPT !.replaced = @ \/ stored # None,
                                !.twin = @ \/ (stored # None /\ hist.crossed)]
    BY <1>5 DEF KeepKey, ingest, At
  <2>2. /\ req' \in [Procs -> Steps] /\ \A q \in Procs : q # p => req'[q] = req[q]
        /\ req'[p].pc = "crowdsec" /\ req'[p].kind = req[p].kind
    BY <2>1, Onward DEF Goto, Stages
  <2>3. \A q \in Procs : StageOK(q)'
    BY <2>1, <2>2, StageGoes DEF Activating
  <2>4. hist' \in HistType /\ stored' \in Keys \cup {None}
    BY <1>0, <2>1 DEF HistType, Steps
  <2> QED BY <2>1, <2>2, <2>3, <2>4 DEF StageInv, SwTypes, docker
<1> QED BY <1>1, <1>2, <1>3, <1>4, <1>5

\* The containers and the registration, as a step may leave them.
Contained ==
  /\ registered' \in Held /\ box' \in [Places -> Boxes]
  /\ \A x \in Places : box'[x].run => box'[x].id # None

\* Process p goes on with its activation; the others stay.
Activates(p, from, to) ==
  /\ req[p].pc = from /\ req'[p].pc = to /\ req'[p].kind = req[p].kind /\ req'[p].key = req[p].key
  /\ req' \in [Procs -> Steps] /\ \A q \in Procs : q # p => req'[q] = req[q]

LEMMA StageActivates ==
  ASSUME StageInv, NEW p \in Procs, NEW from \in Activating, NEW to \in Activating,
         Activates(p, from, to), UNCHANGED <<config, pollers, spent, hist>>, Contained,
         to = "start" => req'[p].seen # None
  PROVE  StageInv'
<1>1. \A q \in Procs : StageOK(q)'
  BY StageGoes DEF Activates, Activating
<1> QED BY <1>1, StageBoxes DEF Activates, Contained, StageInv, SwTypes

LEMMA Containers ==
  ASSUME StageInv
  PROVE  /\ box \in [Places -> Boxes] /\ registered \in Held /\ stored \in Keys \cup {None}
         /\ \A x \in Places : box[x].run => box[x].id # None
         /\ \A x \in Places : box[x] \in Boxes
         /\ req \in [Procs -> Steps] /\ hist \in HistType
         /\ "bouncer" \in Places /\ "crowdsec" \in Places /\ "grafana" \in Places
BY DEF StageInv, SwTypes, Places

LEMMA MissingActivates ==
  ASSUME StageInv, NEW p \in Procs, NEW from \in Activating, NEW to \in Activating, req[p].pc = from,
         req' = [req EXCEPT ![p].pc = to, ![p].missing = TRUE]
  PROVE  Activates(p, from, to) /\ req'[p].missing = TRUE
<1>1. to \in Stages
  BY DEF Activating, Stages
<1> QED BY <1>1, MissingGoes DEF Activates

\* A container is stopped.
LEMMA BoxStops ==
  ASSUME StageInv, NEW x \in Places, box' = [box EXCEPT ![x].run = FALSE]
  PROVE  /\ box' \in [Places -> Boxes] /\ ~box'[x].run
         /\ box'[x].id = box[x].id /\ box'[x].key = box[x].key
         /\ \A y \in Places : y # x => box'[y] = box[y]
<1> DEFINE b == [box[x] EXCEPT !.run = FALSE]
<1>1. box \in [Places -> Boxes] /\ box[x] \in Boxes
  BY Containers
<1>2. b \in Boxes /\ ~b.run /\ b.id = box[x].id /\ b.key = box[x].key
  BY <1>1 DEF Boxes
<1>3. box' = [box EXCEPT ![x] = b]
  OBVIOUS
<1> HIDE DEF b
<1> QED BY <1>1, <1>2, <1>3

LEMMA CrowdsecStarts ==
  ASSUME StageInv, NEW p \in Procs, StartCrowdsec(p)
  PROVE  /\ Activates(p, "crowdsec", "bouncer") /\ UNCHANGED <<config, pollers, spent, hist>> /\ Contained
         /\ box'["bouncer"] = box["bouncer"] /\ (registered' = registered \/ registered = None)
         /\ StageInv'
<1>1. req[p].pc = "crowdsec" /\ UNCHANGED <<config, pollers, spent, hist>>
  BY DEF StartCrowdsec, At, ingest
<1>2. CASE box["crowdsec"].id = None
  <2>1. UNCHANGED docker /\ req' = [req EXCEPT ![p].pc = "bouncer", ![p].missing = TRUE]
    BY <1>2 DEF StartCrowdsec
  <2>2. Activates(p, "crowdsec", "bouncer")
    BY <1>1, <2>1, MissingActivates DEF Activating
  <2> QED BY <1>1, <2>1, <2>2, Containers, StageActivates DEF Contained, docker, Activating
<1>3. CASE box["crowdsec"].id # None
  <2>1. /\ box' = [box EXCEPT !["crowdsec"].run = TRUE] /\ Goto(p, "bouncer")
        /\ registered' = registered \/ (registered = None /\ registered' = box'["crowdsec"].key)
    BY <1>3 DEF StartCrowdsec, Entrypoint
  <2>2. Activates(p, "crowdsec", "bouncer")
    BY <1>1, <2>1, Containers DEF Activates, Steps, Stages, Goto
  <2>3. Contained /\ box'["bouncer"] = box["bouncer"] /\ (registered' = registered \/ registered = None)
    BY <1>3, <2>1, Containers DEF Contained, Boxes
  <2> QED BY <1>1, <2>1, <2>2, <2>3, StageActivates DEF Activating
<1> QED BY <1>2, <1>3

LEMMA BouncerLooked ==
  ASSUME StageInv, NEW p \in Procs, LookAtBouncer(p)
  PROVE  /\ \/ /\ Activates(p, "bouncer", "compose")
               /\ box["bouncer"].id = None \/ box["bouncer"].key = req[p].key
            \/ Activates(p, "bouncer", "remove")
            \/ Activates(p, "bouncer", "start") /\ box["bouncer"].key = req[p].key
         /\ req'[p].seen = box["bouncer"].id
         /\ UNCHANGED <<config, docker, pollers, spent, hist>> /\ Contained /\ StageInv'
<1>1. req[p].pc = "bouncer" /\ UNCHANGED <<config, docker, pollers, spent, hist>> /\ Contained
  BY Containers DEF LookAtBouncer, At, ingest, Contained, docker
<1> DEFINE b == box["bouncer"]
           pc == IF b.id # None /\ b.key # req[p].key THEN "remove"
                 ELSE IF b.id = None \/ b.run THEN "compose" ELSE "start"
           m == req[p].missing \/ b.id = None
<1>2. pc \in {"compose", "remove", "start"} /\ b.id \in Ids /\ m \in BOOLEAN
  BY Containers DEF Boxes, Steps
<1>3. req' = [req EXCEPT ![p].seen = b.id, ![p].missing = m, ![p].pc = pc]
  BY DEF LookAtBouncer
<1>4. /\ b.id = None => pc = "compose"
      /\ b.id # None /\ b.key # req[p].key => pc = "remove"
      /\ b.id # None /\ b.key = req[p].key => pc \in {"compose", "start"}
  OBVIOUS
<1> HIDE DEF pc, m
<1>5. Activates(p, "bouncer", pc) /\ req'[p].seen = b.id
  BY <1>1, <1>2, <1>3, Containers DEF Activates, Steps, Stages
<1>6. StageInv'
  BY <1>1, <1>2, <1>4, <1>5, StageActivates DEF Activating
<1> QED BY <1>1, <1>4, <1>5, <1>6

LEMMA BouncerRemoved ==
  ASSUME StageInv, NEW p \in Procs, RemoveBouncer(p)
  PROVE  /\ Activates(p, "remove", "compose") /\ req'[p].missing = TRUE
         /\ UNCHANGED <<config, registered, pollers, spent, hist>> /\ Contained /\ StageInv'
         /\ \/ box["bouncer"].id = req[p].seen /\ box'["bouncer"].id = None /\ box'["bouncer"].key = None
            \/ box["bouncer"].id # req[p].seen /\ box'["bouncer"] = box["bouncer"]
         /\ box'["crowdsec"] = box["crowdsec"]
<1>1. /\ req[p].pc = "remove" /\ UNCHANGED <<config, registered, pollers, spent, hist>>
      /\ req' = [req EXCEPT ![p].pc = "compose", ![p].missing = TRUE]
      /\ box' = IF box["bouncer"].id = req[p].seen THEN [box EXCEPT !["bouncer"] = Absent] ELSE box
  BY DEF RemoveBouncer, At, ingest
<1>2. Activates(p, "remove", "compose") /\ req'[p].missing = TRUE
  BY <1>1, MissingActivates DEF Activating
<1>3. Absent \in Boxes /\ Absent.id = None /\ Absent.run = FALSE /\ Absent.key = None
  BY DEF Absent, Boxes, Ids, Held
<1>4. /\ Contained /\ box'["crowdsec"] = box["crowdsec"]
      /\ \/ box["bouncer"].id = req[p].seen /\ box'["bouncer"].id = None /\ box'["bouncer"].key = None
         \/ box["bouncer"].id # req[p].seen /\ box'["bouncer"] = box["bouncer"]
  BY <1>1, <1>3, Containers DEF Contained
<1> QED BY <1>1, <1>2, <1>4, StageActivates DEF Activating

LEMMA BouncerStarts ==
  ASSUME StageInv, NEW p \in Procs, StartBouncer(p)
  PROVE  /\ Activates(p, "start", "compose")
         /\ UNCHANGED <<config, registered, pollers, spent, hist>> /\ Contained /\ StageInv'
         /\ box'["bouncer"].id = box["bouncer"].id /\ box'["bouncer"].key = box["bouncer"].key
         /\ box'["crowdsec"] = box["crowdsec"]
<1>1. req[p].pc = "start" /\ UNCHANGED <<config, registered, pollers, spent, hist>>
  BY DEF StartBouncer, At, ingest
<1>0. req[p].seen # None
  BY <1>1 DEF StageInv, StageOK
<1>2. CASE box["bouncer"].id = req[p].seen
  <2>1. box' = [box EXCEPT !["bouncer"].run = TRUE] /\ req' = [req EXCEPT ![p].pc = "compose"]
    BY <1>2 DEF StartBouncer, Goto
  <2>2. /\ Contained /\ box'["bouncer"].id = box["bouncer"].id /\ box'["bouncer"].key = box["bouncer"].key
        /\ box'["crowdsec"] = box["crowdsec"]
    BY <1>0, <1>1, <1>2, <2>1, Containers DEF Contained, Boxes
  <2>3. Activates(p, "start", "compose")
    BY <1>1, <2>1, Containers DEF Activates, Steps, Stages
  <2> QED BY <1>1, <2>2, <2>3, StageActivates DEF Activating
<1>3. CASE box["bouncer"].id # req[p].seen
  <2>1. box' = box /\ req' = [req EXCEPT ![p].pc = "compose", ![p].missing = TRUE]
    BY <1>3 DEF StartBouncer
  <2>2. Activates(p, "start", "compose") /\ Contained
    <3>1. Activates(p, "start", "compose")
      BY <1>1, <2>1, MissingActivates DEF Activating
    <3>2. Contained
      BY <1>1, <2>1, Containers DEF Contained
    <3> QED BY <3>1, <3>2
  <2> QED BY <1>1, <2>1, <2>2, StageActivates DEF Activating
<1> QED BY <1>2, <1>3

LEMMA Composed ==
  ASSUME StageInv, NEW p \in Procs, Compose(p)
  PROVE  /\ Activates(p, "compose", "health") /\ UNCHANGED <<config, pollers, spent, hist>> /\ Contained
         /\ StageInv' /\ (registered' = registered \/ registered = None)
         /\ \/ box'["bouncer"].key = box["bouncer"].key /\ box'["bouncer"].id = box["bouncer"].id
            \/ req[p].missing /\ box["bouncer"].id = None /\ box'["bouncer"].key = req[p].key
         /\ req[p].missing => box'["bouncer"].id # None
<1>1. /\ req[p].pc = "compose" /\ UNCHANGED <<config, pollers, spent, hist>>
      /\ req' = [req EXCEPT ![p].pc = "health"]
  BY DEF Compose, At, ingest, Goto
<1>2. Activates(p, "compose", "health")
  BY <1>1, Containers DEF Activates, Steps, Stages
<1>3. CASE ~req[p].missing
  <2>1. UNCHANGED docker
    BY <1>3 DEF Compose
  <2> QED BY <1>1, <1>2, <1>3, <2>1, Containers, StageActivates DEF Contained, docker, Activating
<1>4. CASE req[p].missing
  <2> DEFINE k == req[p].key
             new == [id |-> p, run |-> TRUE, key |-> k]
             On(x) == IF x = "grafana" THEN box[x] ELSE IF box[x].id = None THEN new
                      ELSE [box[x] EXCEPT !.run = TRUE]
  <2>1. /\ box' = [x \in Places |-> On(x)]
        /\ registered' = registered \/ (registered = None /\ registered' = box'["crowdsec"].key)
    BY <1>4 DEF Compose, Entrypoint
  <2>2. new \in Boxes /\ new.id = p /\ p # None /\ new.key = k
    BY Containers, SwConstants DEF Boxes, Ids, Held, Steps
  <2> HIDE DEF new, k
  <2>3. ASSUME NEW x \in Places
        PROVE  /\ On(x) \in Boxes /\ (On(x).run => On(x).id # None)
               /\ x = "bouncer" => /\ \/ On(x).key = box[x].key /\ On(x).id = box[x].id
                                      \/ box[x].id = None /\ On(x).key = k
                                   /\ On(x).id # None
    BY <2>2, <2>3, Containers DEF Boxes
  <2> HIDE DEF On
  <2>4. box' \in [Places -> Boxes] /\ \A x \in Places : box'[x].run => box'[x].id # None
    BY <2>1, <2>3
  <2>5. registered' \in Held /\ (registered' = registered \/ registered = None)
    BY <2>1, <2>4, Containers DEF Boxes
  <2>6. Contained
    BY <2>4, <2>5 DEF Contained
  <2>7. /\ \/ box'["bouncer"].key = box["bouncer"].key /\ box'["bouncer"].id = box["bouncer"].id
           \/ box["bouncer"].id = None /\ box'["bouncer"].key = k
        /\ box'["bouncer"].id # None
    BY <2>1, <2>3, Containers
  <2>8. StageInv'
    BY <1>1, <1>2, <2>6, StageActivates DEF Activating
  <2> QED BY <1>1, <1>2, <1>4, <2>5, <2>6, <2>7, <2>8 DEF k
<1> QED BY <1>3, <1>4

\* Both containers run; the registration is made anew.
LEMMA Registers ==
  ASSUME StageInv, NEW p \in Procs, Health(p) \/ DeleteRegistration(p) \/ AddRegistration(p)
  PROVE  /\ \/ Activates(p, "health", "delete") /\ UNCHANGED registered /\ box["crowdsec"].run /\ box["bouncer"].run
            \/ Activates(p, "delete", "add") /\ registered' = None
            \/ Activates(p, "add", "enable") /\ registered = None /\ registered' = req[p].key
         /\ UNCHANGED <<config, box, pollers, spent, hist>> /\ Contained /\ StageInv'
<1>1. UNCHANGED <<config, box, pollers, spent, hist>>
  BY DEF Health, DeleteRegistration, AddRegistration, ingest, docker
<1>2. CASE Health(p)
  <2>1. Activates(p, "health", "delete") /\ UNCHANGED registered /\ box["crowdsec"].run /\ box["bouncer"].run
    BY <1>2, Containers DEF Health, Goto, At, Activates, Steps, Stages, docker
  <2>2. Contained
    BY <1>1, <2>1, Containers DEF Contained
  <2> QED BY <1>1, <2>1, <2>2, StageActivates DEF Activating
<1>3. CASE DeleteRegistration(p)
  <2>1. Activates(p, "delete", "add") /\ registered' = None
    BY <1>3, Containers DEF DeleteRegistration, Goto, At, Activates, Steps, Stages
  <2>2. Contained
    BY <1>1, <2>1, Containers DEF Contained, Ids, Held
  <2> QED BY <1>1, <2>1, <2>2, StageActivates DEF Activating
<1>4. CASE AddRegistration(p)
  <2>1. Activates(p, "add", "enable") /\ registered = None /\ registered' = req[p].key
    BY <1>4, Containers DEF AddRegistration, Goto, At, Activates, Steps, Stages
  <2>2. Contained
    BY <1>1, <2>1, Containers DEF Contained, Ids, Held, Steps
  <2> QED BY <1>1, <2>1, <2>2, StageActivates DEF Activating
<1> QED BY <1>2, <1>3, <1>4

LEMMA Enables ==
  ASSUME StageInv, NEW p \in Procs, Enable(p)
  PROVE  /\ Activates(p, "enable", "thread") /\ flag' = [flag EXCEPT !["ddos"] = TRUE] /\ flag'["ddos"]
         /\ UNCHANGED <<stored, docker, pollers, spent>> /\ StageInv'
         /\ hist'.last = hist.last /\ hist'.crossed = hist.crossed /\ hist'.mute = hist.mute
         /\ hist.crossed => hist' = hist
         /\ ~hist.crossed => ~hist'.twin /\ ~hist'.broken
<1>1. /\ req[p].pc = "enable" /\ flag' = [flag EXCEPT !["ddos"] = TRUE] /\ req' = [req EXCEPT ![p].pc = "thread"]
      /\ UNCHANGED <<stored, docker, pollers, spent>>
      /\ hist' = IF hist.crossed THEN hist ELSE [hist EXCEPT !.twin = FALSE, !.replaced = FALSE, !.broken = FALSE]
  BY DEF Enable, At, Goto, ingest
<1>2. Activates(p, "enable", "thread")
  BY <1>1, Containers DEF Activates, Steps, Stages
<1>3. \A q \in Procs : StageOK(q)'
  BY <1>2, StageGoes DEF Activates, Activating
<1>4. flag' \in [Modules -> BOOLEAN] /\ flag'["ddos"]
  BY <1>1 DEF StageInv, SwTypes, Modules
<1>5. /\ hist' \in HistType
      /\ hist'.last = hist.last /\ hist'.crossed = hist.crossed /\ hist'.mute = hist.mute
      /\ hist.crossed => hist' = hist
      /\ ~hist.crossed => ~hist'.twin /\ ~hist'.broken
  BY <1>1, Containers DEF HistType
<1>6. StageInv'
  BY <1>1, <1>2, <1>3, <1>4, <1>5 DEF StageInv, SwTypes, docker, Activates
<1> QED BY <1>1, <1>2, <1>4, <1>5, <1>6

LEMMA ThreadStarts ==
  ASSUME StageInv, NEW p \in Procs, StartThread(p)
  PROVE  /\ req[p].pc = "thread" /\ Done(p) /\ UNCHANGED <<config, docker, spent>> /\ StageInv'
         /\ pollers' = [pollers EXCEPT ![p] = IF flag["ddos"] /\ @ < MaxRequests THEN @ + 1 ELSE @]
<1>1. /\ req[p].pc = "thread" /\ Done(p) /\ UNCHANGED <<config, docker, spent>>
      /\ pollers' = [pollers EXCEPT ![p] = IF flag["ddos"] /\ @ < MaxRequests THEN @ + 1 ELSE @]
  BY DEF StartThread, At
<1>2. pollers' \in [Procs -> Nat]
  BY <1>1 DEF StageInv, SwTypes
<1>3. req' \in [Procs -> Steps] /\ (\A q \in Procs : StageOK(q)') /\ hist' \in HistType
  BY <1>1, Answered, StageEnds
<1> QED BY <1>1, <1>2, <1>3 DEF StageInv, SwTypes, config, docker

\* Process p ends its request, with an answer that it succeeded.
LEMMA GrafanaStarts ==
  ASSUME StageInv, NEW p \in Procs, StartGrafana(p)
  PROVE  /\ req[p].pc = "grafana" /\ Goto(p, "obs") /\ UNCHANGED <<config, registered, pollers, spent, hist>>
         /\ box'["bouncer"] = box["bouncer"] /\ box'["crowdsec"] = box["crowdsec"] /\ StageInv'
<1>1. req[p].pc = "grafana" /\ Goto(p, "obs") /\ UNCHANGED <<config, registered, pollers, spent, hist>>
  BY DEF StartGrafana, At, ingest
<1> DEFINE new == [id |-> p, run |-> TRUE, key |-> None]
           g == IF box["grafana"].id = None THEN new ELSE [box["grafana"] EXCEPT !.run = TRUE]
<1>2. box' = [box EXCEPT !["grafana"] = g]
  BY DEF StartGrafana
<1>3. new \in Boxes /\ new.id # None
  BY SwConstants DEF Boxes, Ids, Held
<1> HIDE DEF new
<1>4. g \in Boxes /\ (g.run => g.id # None)
  BY <1>3, Containers DEF Boxes
<1> HIDE DEF g
<1>5. Contained /\ box'["bouncer"] = box["bouncer"] /\ box'["crowdsec"] = box["crowdsec"]
  BY <1>1, <1>2, <1>4, Containers DEF Contained
<1>6. /\ req' \in [Procs -> Steps] /\ req'[p].kind = req[p].kind /\ req'[p].pc = "obs"
      /\ \A q \in Procs : q # p => req'[q] = req[q]
  BY <1>1, Onward DEF Goto, Stages
<1>7. \A q \in Procs : StageOK(q)'
  <2>1. req[p].kind = "obs_activate"
    BY <1>1 DEF StageInv, StageOK
  <2> QED BY <1>1, <1>6, <2>1, StageGoes
<1>8. StageInv'
  BY <1>1, <1>5, <1>6, <1>7, StageBoxes, Containers DEF Contained, StageInv, SwTypes
<1> QED BY <1>1, <1>5, <1>8

\* The last action of a request other than the start of a thread.
LEMMA Finishes ==
  ASSUME StageInv, NEW p \in Procs, WriteSwitch(p) \/ EnableObs(p) \/ Disable(p) \/ Restart(p)
  PROVE  /\ Done(p) /\ UNCHANGED <<stored, pollers, spent>> /\ StageInv'
         /\ req[p].pc \in {"on", "off", "obs", "disable", "gate"}
         /\ \/ UNCHANGED docker /\ flag'["ddos"] = flag["ddos"] /\ req[p].kind \notin Switching
            \/ UNCHANGED docker /\ req[p].kind = "ddos" /\ ~flag'["ddos"]
            \/ UNCHANGED docker /\ At(p, "disable") /\ req[p].kind = "deactivate" /\ ~flag'["ddos"]
            \/ /\ At(p, "gate") /\ req[p].kind \in {"restart crowdsec", "restart bouncer"} /\ UNCHANGED flag
               /\ box'["bouncer"].id = box["bouncer"].id /\ box'["bouncer"].key = box["bouncer"].key
               /\ registered' = registered \/ registered = None
<1>1. CASE WriteSwitch(p)
  <2>1. /\ flag' = [flag EXCEPT ![req[p].kind] = (req[p].pc = "on")] /\ UNCHANGED <<stored, docker, pollers, spent>>
        /\ Done(p) /\ req[p].pc \in {"on", "off"}
    BY <1>1 DEF WriteSwitch, At, ingest
  <2>2. req[p].kind \in Modules /\ (req[p].pc = "on" => req[p].kind # "ddos")
    BY <2>1 DEF StageInv, StageOK
  <2>3. /\ req[p].kind = "ddos" => ~flag'["ddos"]
        /\ req[p].kind # "ddos" => flag'["ddos"] = flag["ddos"] /\ req[p].kind \notin Switching
    BY <2>1, <2>2 DEF StageInv, SwTypes, Modules, Switching
  <2> QED BY <1>1, <2>1, <2>3, StageSwitch
<1>2. CASE EnableObs(p) \/ Disable(p)
  <2>1. /\ Done(p) /\ UNCHANGED <<stored, docker, pollers, spent>>
        /\ \/ req[p].pc = "obs" /\ flag' = [flag EXCEPT !["obs"] = TRUE]
           \/ req[p].pc = "disable" /\ flag' = [flag EXCEPT !["ddos"] = FALSE]
    BY <1>2 DEF EnableObs, Disable, At, ingest
  <2>2. flag' \in [Modules -> BOOLEAN]
    BY <2>1 DEF StageInv, SwTypes
  <2>3. req' \in [Procs -> Steps] /\ (\A q \in Procs : StageOK(q)') /\ hist' \in HistType
    BY <2>1, Answered, StageEnds
  <2>4. StageInv'
    BY <2>1, <2>2, <2>3 DEF StageInv, SwTypes, docker
  <2>5. CASE req[p].pc = "obs" /\ flag' = [flag EXCEPT !["obs"] = TRUE]
    <3>1. req[p].kind = "obs_activate" /\ flag'["ddos"] = flag["ddos"]
      BY <2>5 DEF StageInv, StageOK, SwTypes, Modules
    <3> QED BY <2>1, <2>4, <3>1 DEF Switching
  <2>6. CASE req[p].pc = "disable" /\ flag' = [flag EXCEPT !["ddos"] = FALSE]
    <3>1. req[p].kind = "deactivate" /\ ~flag'["ddos"]
      BY <2>6 DEF StageInv, StageOK, SwTypes, Modules
    <3> QED BY <2>1, <2>4, <2>6, <3>1 DEF At
  <2> QED BY <2>1, <2>5, <2>6
<1>3. CASE Restart(p)
  <2>1. PICK x \in {"crowdsec", "bouncer"} :
             /\ box' = [box EXCEPT ![x].run = box[x].id # None]
             /\ registered' = registered \/ (registered = None /\ registered' = box'["crowdsec"].key)
    BY <1>3 DEF Restart, Entrypoint
  <2>2. /\ req[p].pc = "gate" /\ req[p].kind \in {"restart crowdsec", "restart bouncer"} /\ Done(p)
        /\ UNCHANGED <<config, pollers, spent>>
    BY <1>3 DEF Restart, At, ingest
  <2>3. /\ Contained
        /\ box'["bouncer"].id = box["bouncer"].id /\ box'["bouncer"].key = box["bouncer"].key
    BY <2>1, Containers DEF Contained, Boxes
  <2>4. req' \in [Procs -> Steps] /\ (\A q \in Procs : StageOK(q)') /\ hist' \in HistType
    BY <2>2, Answered, StageEnds
  <2>5. StageInv'
    BY <2>2, <2>3, <2>4, StageBoxes DEF Contained, StageInv, SwTypes
  <2> QED BY <2>1, <2>2, <2>3, <2>5 DEF At, config
<1> QED BY <1>1, <1>2, <1>3

LEMMA Stops ==
  ASSUME StageInv, NEW p \in Procs, Stop(p)
  PROVE  /\ req[p].kind = "deactivate" /\ UNCHANGED <<config, registered, pollers, spent, hist>> /\ StageInv'
         /\ \/ At(p, "gate") /\ Goto(p, "stop") /\ box' = [box EXCEPT !["bouncer"].run = FALSE]
            \/ At(p, "stop") /\ Goto(p, "disable") /\ box' = [box EXCEPT !["crowdsec"].run = FALSE]
         /\ box'["bouncer"].id = box["bouncer"].id /\ box'["bouncer"].key = box["bouncer"].key
<1>1. /\ UNCHANGED <<config, registered, pollers, spent, hist>>
      /\ \/ At(p, "gate") /\ Goto(p, "stop") /\ box' = [box EXCEPT !["bouncer"].run = FALSE]
         \/ At(p, "stop") /\ Goto(p, "disable") /\ box' = [box EXCEPT !["crowdsec"].run = FALSE]
      /\ req[p].kind = "deactivate" /\ req[p].pc # "idle"
  BY DEF Stop, ingest, StageInv, StageOK, At
<1>2. PICK pc \in {"stop", "disable"} : Goto(p, pc)
  BY <1>1
<1>3. /\ req' \in [Procs -> Steps] /\ req'[p].kind = req[p].kind /\ req'[p].pc = pc
      /\ \A q \in Procs : q # p => req'[q] = req[q]
  BY <1>2, Onward DEF Goto, Stages
<1>4. \A q \in Procs : StageOK(q)'
  BY <1>1, <1>3, StageGoes
<1>5. Contained /\ box'["bouncer"].id = box["bouncer"].id /\ box'["bouncer"].key = box["bouncer"].key
  <2>1. PICK x \in Places : box' = [box EXCEPT ![x].run = FALSE]
    BY <1>1, Containers
  <2>2. /\ box' \in [Places -> Boxes] /\ ~box'[x].run /\ box'[x].id = box[x].id /\ box'[x].key = box[x].key
        /\ \A y \in Places : y # x => box'[y] = box[y]
    BY <2>1, BoxStops
  <2>3. \A y \in Places : box'[y].run => box'[y].id # None
    BY <2>2, Containers
  <2> QED BY <1>1, <2>2, <2>3, Containers DEF Contained
<1>6. StageInv'
  BY <1>1, <1>3, <1>4, <1>5, StageBoxes, Containers DEF Contained, StageInv, SwTypes
<1> QED BY <1>1, <1>5, <1>6

\* A request arrives.
LEMMA Begins ==
  ASSUME StageInv, NEW p \in Procs, Begin(p)
  PROVE  /\ req[p].pc = "idle" /\ req'[p].pc = "gate" /\ req'[p].kind \in Kinds
         /\ \A q \in Procs : q # p => req'[q] = req[q]
         /\ UNCHANGED <<config, docker, pollers>> /\ StageInv'
         /\ hist'.twin = hist.twin /\ hist'.broken = hist.broken /\ hist'.mute = hist.mute
         /\ hist'.replaced = hist.replaced
         /\ req'[p].kind \notin Switching => hist' = hist
         /\ req'[p].kind \in Switching => hist'.last = None /\ hist'.crossed = ~Alone(p)
<1>1. /\ req[p].pc = "idle" /\ spent.requests < MaxRequests /\ spent' = [spent EXCEPT !.requests = @ + 1]
      /\ UNCHANGED <<config, docker, pollers>>
  BY DEF Begin, At, ingest
<1>2. PICK k \in Kinds :
        /\ req' = [req EXCEPT ![p] = [Idle EXCEPT !.kind = k, !.pc = "gate"]]
        /\ hist' = IF k \in Switching THEN [hist EXCEPT !.last = None, !.crossed = ~Alone(p)] ELSE hist
  BY DEF Begin
<1> DEFINE r == [Idle EXCEPT !.kind = k, !.pc = "gate"]
<1>3. r \in Steps /\ r.pc = "gate" /\ r.kind = k /\ k # None
  BY SwConstants, SwitchAssumption DEF Idle, Steps, Stages, Ids, Held
<1> HIDE DEF r
<1>4. /\ req' \in [Procs -> Steps] /\ req'[p] = r /\ \A q \in Procs : q # p => req'[q] = req[q]
  BY <1>2, <1>3, Containers DEF r
<1>5. \A q \in Procs : StageOK(q)'
  <2>1. MaxRequests > 0
    <3>1. "requests" \in Troubles \cup {"requests"} /\ spent \in [Troubles \cup {"requests"} -> Nat]
      BY DEF StageInv, SwTypes
    <3>2. spent.requests \in Nat
      BY <3>1
    <3>3. spent.requests < MaxRequests
      BY <1>1
    <3>4. MaxRequests \in Nat
      BY SwitchAssumption
    <3> QED BY <3>2, <3>3, <3>4
  <2>2. StageOK(p)'
    BY <1>3, <1>4, <2>1 DEF StageOK, Activating
  <2>3. ASSUME NEW q \in Procs, q # p PROVE StageOK(q)'
    BY <1>4, <2>3 DEF StageInv, StageOK
  <2> QED BY <2>2, <2>3
<1>6. Alone(p) \in BOOLEAN
  BY DEF Alone
<1>7. /\ hist' \in HistType /\ hist'.twin = hist.twin /\ hist'.broken = hist.broken /\ hist'.mute = hist.mute
      /\ hist'.replaced = hist.replaced
      /\ k \notin Switching => hist' = hist
      /\ k \in Switching => hist'.last = None /\ hist'.crossed = ~Alone(p)
  BY <1>2, <1>6, Containers DEF HistType
<1>8. spent' \in [Troubles \cup {"requests"} -> Nat]
  BY <1>1 DEF StageInv, SwTypes
<1>9. StageInv'
  BY <1>1, <1>4, <1>5, <1>7, <1>8, StageWorld
<1> QED BY <1>1, <1>3, <1>4, <1>7, <1>9

Troubled(p) ==
  /\ req'[p].pc = "idle" /\ req'[p].kind = None /\ \A q \in Procs : q # p => req'[q] = req[q]
  /\ hist'.crossed = hist.crossed /\ hist'.twin = hist.twin /\ hist'.replaced = hist.replaced

LEMMA Breaks ==
  ASSUME StageInv, NEW p \in Procs, Break(p)
  PROVE  /\ Troubled(p) /\ req' \in [Procs -> Steps] /\ (\A q \in Procs : StageOK(q)') /\ hist' \in HistType
         /\ hist'.last = hist.last /\ hist'.mute = hist.mute
         /\ hist'.broken = (hist.broken \/ (req[p].kind = "activate" /\ Touched(p)))
<1>1. /\ req' = [req EXCEPT ![p] = Idle]
      /\ hist' = [hist EXCEPT !.broken = @ \/ (req[p].kind = "activate" /\ Touched(p))]
  BY DEF Break
<1>2. (req[p].kind = "activate" /\ Touched(p)) \in BOOLEAN
  BY DEF Touched
<1> QED BY <1>1, <1>2, Ended, StageEnds, Containers DEF Troubled, HistType

\* A call fails.
LEMMA Fails ==
  ASSUME StageInv, NEW p \in Procs, Fail(p)
  PROVE  /\ UNCHANGED <<config, docker, pollers>> /\ StageInv'
         /\ \/ Break(p) /\ req[p].pc # "thread"
            \/ /\ req[p].kind = "deactivate" /\ req[p].pc # "idle"
               /\ \E pc \in {"stop", "disable"} : Goto(p, pc)
               /\ hist' = [hist EXCEPT !.crossed = TRUE]
            \/ /\ At(p, "thread") /\ req' = [req EXCEPT ![p] = Idle]
               /\ hist' = [hist EXCEPT !.last = "activate", !.mute = TRUE]
<1>1. UNCHANGED <<config, docker, pollers>>
  BY DEF Fail, ingest
<1>2. spent' \in [Troubles \cup {"requests"} -> Nat]
  BY Spent DEF Fail, StageInv, SwTypes, Troubles
<1>3. \/ Break(p) /\ req[p].pc # "thread"
      \/ /\ req[p].kind = "deactivate" /\ req[p].pc # "idle" /\ \E pc \in {"stop", "disable"} : Goto(p, pc)
         /\ hist' = [hist EXCEPT !.crossed = TRUE]
      \/ /\ At(p, "thread") /\ req' = [req EXCEPT ![p] = Idle]
         /\ hist' = [hist EXCEPT !.last = "activate", !.mute = TRUE]
  BY DEF Fail, StageInv, StageOK, At
<1>4. ASSUME Break(p) PROVE StageInv'
  <2>1. req' \in [Procs -> Steps] /\ (\A q \in Procs : StageOK(q)') /\ hist' \in HistType
    BY <1>4, Breaks
  <2> QED BY <1>1, <1>2, <2>1, StageWorld
<1>5. ASSUME NEW pc \in {"stop", "disable"}, req[p].kind = "deactivate", req[p].pc # "idle", Goto(p, pc),
             hist' = [hist EXCEPT !.crossed = TRUE]
      PROVE  StageInv'
  <2>1. /\ req' \in [Procs -> Steps] /\ req'[p].kind = req[p].kind /\ req'[p].pc = pc
        /\ \A q \in Procs : q # p => req'[q] = req[q]
    BY <1>5, Onward DEF Goto, Stages
  <2>2. \A q \in Procs : StageOK(q)'
    BY <1>5, <2>1, StageGoes
  <2>3. hist' \in HistType
    BY <1>5, Containers DEF HistType
  <2> QED BY <1>1, <1>2, <2>1, <2>2, <2>3, StageWorld
<1>6. ASSUME req' = [req EXCEPT ![p] = Idle], hist' = [hist EXCEPT !.last = "activate", !.mute = TRUE]
      PROVE  StageInv'
  <2>1. hist' \in HistType
    BY <1>6, Containers DEF HistType, Requested
  <2> QED BY <1>1, <1>2, <1>6, <2>1, StageEnds, StageWorld
<1> QED BY <1>1, <1>3, <1>4, <1>5, <1>6

LEMMA HalfComposed ==
  ASSUME StageInv, NEW p \in Procs, ComposeHalf(p)
  PROVE  /\ At(p, "compose") /\ Break(p) /\ UNCHANGED <<config, pollers>> /\ Contained /\ StageInv'
         /\ box'["bouncer"] = box["bouncer"] /\ (registered' = registered \/ registered = None)
<1>1. /\ At(p, "compose") /\ Break(p) /\ UNCHANGED <<config, pollers>>
  BY DEF ComposeHalf, ingest
<1>2. spent' \in [Troubles \cup {"requests"} -> Nat]
  BY Spent DEF ComposeHalf, StageInv, SwTypes, Troubles
<1> DEFINE new == [id |-> p, run |-> TRUE, key |-> req[p].key]
           c == IF box["crowdsec"].id = None THEN new ELSE [box["crowdsec"] EXCEPT !.run = TRUE]
<1>3. /\ box' = [box EXCEPT !["crowdsec"] = c]
      /\ registered' = registered \/ (registered = None /\ registered' = box'["crowdsec"].key)
  BY DEF ComposeHalf, Entrypoint
<1>4. new \in Boxes /\ new.id # None
  BY SwConstants, Containers DEF Boxes, Ids, Held, Steps
<1> HIDE DEF new
<1>5. c \in Boxes /\ (c.run => c.id # None) /\ c.key \in Held
  BY <1>4, Containers DEF Boxes
<1> HIDE DEF c
<1>6. Contained /\ box'["bouncer"] = box["bouncer"] /\ (registered' = registered \/ registered = None)
  BY <1>3, <1>5, Containers DEF Contained
<1>7. StageInv'
  BY <1>1, <1>2, <1>6, Breaks, StageBoxes DEF Contained
<1> QED BY <1>1, <1>6, <1>7

LEMMA Dies ==
  ASSUME StageInv, NEW p \in Procs, Die(p)
  PROVE  /\ Break(p) /\ UNCHANGED <<config, docker>> /\ StageInv'
         /\ pollers' = [pollers EXCEPT ![p] = IF flag["ddos"] THEN 1 ELSE 0]
<1>1. /\ Break(p) /\ UNCHANGED <<config, docker>>
      /\ pollers' = [pollers EXCEPT ![p] = IF flag["ddos"] THEN 1 ELSE 0]
  BY DEF Die
<1>2. spent' \in [Troubles \cup {"requests"} -> Nat]
  BY Spent DEF Die, StageInv, SwTypes, Troubles
<1>3. pollers' \in [Procs -> Nat]
  BY <1>1 DEF StageInv, SwTypes
<1> QED BY <1>1, <1>2, <1>3, Breaks DEF StageInv, SwTypes, config, docker

\* The threads read, the firewall flips, CrowdSec raises an alert.
LEMMA Elsewhere ==
  ASSUME StageInv, \/ \E p \in Procs : Poll(p)
                   \/ FirewallFlips \/ (\E a \in Alerts : Raise(a)) \/ UNCHANGED swvars
  PROVE  UNCHANGED <<config, docker, req, pollers, hist>> /\ StageInv'
<1>1. UNCHANGED <<config, docker, req, pollers, hist>>
  BY DEF Poll, FirewallFlips, Raise, swvars, ingest
<1>2. spent' \in [Troubles \cup {"requests"} -> Nat]
  <2>1. FirewallFlips => spent' \in [Troubles \cup {"requests"} -> Nat]
    BY Spent DEF FirewallFlips, StageInv, SwTypes, Troubles
  <2> QED BY <2>1 DEF Poll, Raise, swvars, StageInv, SwTypes
<1> QED BY <1>1, <1>2 DEF StageInv, SwTypes, StageOK, config, docker

LEMMA StageStep == StageInv /\ [SwNext]_swvars => StageInv'
BY SwKinds, Begins, StageSwitch, CrowdsecStarts, BouncerLooked, BouncerRemoved, BouncerStarts, Composed,
   Registers, Enables, ThreadStarts, GrafanaStarts, Finishes, Stops, Fails, HalfComposed, Dies, Elsewhere

-----------------------------------------------------------------------------
(* A thread reads the bans.                                                   *)

\* Process p, which starts no thread, changes its stage.
LEMMA ReadStays ==
  ASSUME BansAreRead, NEW p \in Procs, req[p].pc # "thread", \A q \in Procs : q # p => req'[q] = req[q],
         flag'["ddos"] => flag["ddos"], UNCHANGED pollers, hist'.mute = hist.mute
  PROVE  BansAreRead'
BY DEF BansAreRead, At

LEMMA SwitchForms ==
  ASSUME StageInv, NEW p \in Procs, ReadSwitch(p) \/ EnterActivation(p)
  PROVE  /\ req[p].pc = "gate" /\ UNCHANGED <<config, docker, pollers, hist>> /\ \A q \in Procs : q # p => req'[q] = req[q]
         /\ req'[p].kind \in {req[p].kind, None} /\ req'[p].pc \in {"idle", "on", "off", "key", "grafana"}
<1>1. /\ req[p].pc = "gate" /\ UNCHANGED <<config, docker, pollers, hist>>
      /\ \/ req' = [req EXCEPT ![p] = Idle]
         \/ \E pc \in {"on", "off", "key", "grafana"} : Goto(p, pc)
  BY DEF ReadSwitch, EnterActivation, Refuse, At, ingest
<1>2. CASE req' = [req EXCEPT ![p] = Idle]
  BY <1>1, <1>2, Ended
<1>3. ASSUME NEW pc \in {"on", "off", "key", "grafana"}, Goto(p, pc)
      PROVE  /\ \A q \in Procs : q # p => req'[q] = req[q]
             /\ req'[p].kind = req[p].kind /\ req'[p].pc = pc
  BY <1>3, Onward DEF Goto, Stages
<1> QED BY <1>1, <1>2, <1>3

LEMMA KeyForms ==
  ASSUME StageInv, NEW p \in Procs, ReadKey(p) \/ LoseKey(p)
  PROVE  /\ req[p].pc = "key" /\ UNCHANGED <<config, docker, pollers, hist>> /\ \A q \in Procs : q # p => req'[q] = req[q]
         /\ req'[p].kind = req[p].kind
         /\ \/ req'[p].pc = "keep" /\ req'[p].key # None
            \/ stored # None /\ req'[p].pc = "crowdsec" /\ req'[p].key = stored
<1>1. req[p].pc = "key" /\ UNCHANGED <<config, docker, pollers, hist>>
  BY DEF ReadKey, LoseKey, At, ingest
<1>2. CASE Draw(p)
  <2>1. PICK k \in Keys : req' = [req EXCEPT ![p].pc = "keep", ![p].key = k]
    BY <1>2 DEF Draw
  <2> QED BY <1>1, <2>1, Containers, SwConstants DEF Steps
<1>3. CASE stored # None /\ req' = [req EXCEPT ![p].pc = "crowdsec", ![p].key = stored]
  BY <1>1, <1>3, Containers DEF Steps
<1> QED BY <1>2, <1>3 DEF ReadKey, LoseKey

LEMMA KeepForms ==
  ASSUME StageInv, NEW p \in Procs, KeepKey(p)
  PROVE  /\ Activates(p, "keep", "crowdsec") /\ UNCHANGED <<flag, docker, pollers>> /\ stored' = req[p].key
         /\ hist'.last = hist.last /\ hist'.crossed = hist.crossed /\ hist'.broken = hist.broken
         /\ hist'.mute = hist.mute /\ hist'.twin = (hist.twin \/ (stored # None /\ hist.crossed))
         /\ hist'.replaced = (hist.replaced \/ stored # None)
<1>1. /\ req[p].pc = "keep" /\ UNCHANGED <<flag, docker, pollers>> /\ stored' = req[p].key
      /\ req' = [req EXCEPT ![p].pc = "crowdsec"]
      /\ hist' = [hist EXCEPT !.replaced = @ \/ stored # None,
                              !.twin = @ \/ (stored # None /\ hist.crossed)]
  BY DEF KeepKey, At, ingest, Goto
<1> QED BY <1>1, Containers DEF Activates, Steps, Stages, HistType

LEMMA ReadStep == StageInv /\ BansAreRead /\ [SwNext]_swvars => BansAreRead'
<1> SUFFICES ASSUME StageInv, BansAreRead, [SwNext]_swvars PROVE BansAreRead'
  OBVIOUS
<1>1. ASSUME NEW p \in Procs, Begin(p) PROVE BansAreRead'
  BY <1>1, Begins, ReadStays DEF config
<1>2. ASSUME NEW p \in Procs, ReadSwitch(p) \/ EnterActivation(p) PROVE BansAreRead'
  BY <1>2, SwitchForms, ReadStays DEF config
<1>3. ASSUME NEW p \in Procs, ReadKey(p) \/ LoseKey(p) PROVE BansAreRead'
  BY <1>3, KeyForms, ReadStays DEF config
<1>4. ASSUME NEW p \in Procs, KeepKey(p) PROVE BansAreRead'
  BY <1>4, KeepForms, ReadStays DEF Activates
<1>5. ASSUME NEW p \in Procs, NEW from, NEW to, Activates(p, from, to), from # "thread",
             UNCHANGED <<config, pollers, hist>>
      PROVE  BansAreRead'
  BY <1>5, ReadStays DEF Activates, config
<1>6. ASSUME NEW p \in Procs,
             \/ StartCrowdsec(p) \/ LookAtBouncer(p) \/ RemoveBouncer(p) \/ StartBouncer(p)
             \/ Compose(p) \/ Health(p) \/ DeleteRegistration(p) \/ AddRegistration(p)
      PROVE  BansAreRead'
  BY <1>5, <1>6, CrowdsecStarts, BouncerLooked, BouncerRemoved, BouncerStarts, Composed, Registers
<1>7. ASSUME NEW p \in Procs, Enable(p) PROVE BansAreRead'
  BY <1>7, Enables DEF BansAreRead, Activates, At
<1>8. ASSUME NEW p \in Procs, StartThread(p) PROVE BansAreRead'
  <2>1. req[p].pc = "thread" /\ Done(p) /\ UNCHANGED flag /\ hist'.mute = hist.mute
    BY <1>8, ThreadStarts, Answered DEF config
  <2>2. \A q \in Procs : q # p => req'[q] = req[q]
    BY <2>1, Answered, Ended
  <2>3. MaxRequests > 0 /\ MaxRequests \in Nat /\ pollers \in [Procs -> Nat]
    BY <2>1, SwitchAssumption DEF StageInv, StageOK, SwTypes
  <2>4. pollers' = [pollers EXCEPT ![p] = IF flag["ddos"] /\ @ < MaxRequests THEN @ + 1 ELSE @]
    BY <1>8, ThreadStarts
  <2>5. flag["ddos"] => pollers'[p] > 0
    BY <2>3, <2>4
  <2> QED BY <2>1, <2>5 DEF BansAreRead
<1>9. ASSUME NEW p \in Procs, WriteSwitch(p) \/ EnableObs(p) \/ Disable(p) \/ Restart(p) PROVE BansAreRead'
  <2>1. Done(p) /\ UNCHANGED pollers /\ req[p].pc # "thread" /\ (flag'["ddos"] => flag["ddos"])
    BY <1>9, Finishes
  <2>2. hist'.mute = hist.mute /\ \A q \in Procs : q # p => req'[q] = req[q]
    BY <2>1, Answered, Ended
  <2> QED BY <2>1, <2>2, ReadStays
<1>10. ASSUME NEW p \in Procs, StartGrafana(p) \/ Stop(p) PROVE BansAreRead'
  <2>1. /\ req[p].pc # "thread" /\ UNCHANGED <<flag, pollers, hist>>
        /\ \E pc \in {"obs", "stop", "disable"} : Goto(p, pc)
    BY <1>10, GrafanaStarts, Stops DEF config, At
  <2>2. \A q \in Procs : q # p => req'[q] = req[q]
    BY <2>1, Onward DEF Goto, Stages
  <2> QED BY <2>1, <2>2, ReadStays
<1>11. ASSUME NEW p \in Procs, Fail(p) PROVE BansAreRead'
  <2>1. UNCHANGED <<flag, pollers>>
    BY <1>11, Fails DEF config
  <2>2. CASE Break(p) /\ req[p].pc # "thread"
    BY <2>1, <2>2, Breaks, ReadStays DEF Troubled
  <2>3. ASSUME NEW pc \in {"stop", "disable"}, req[p].kind = "deactivate", Goto(p, pc),
               hist' = [hist EXCEPT !.crossed = TRUE]
        PROVE  BansAreRead'
    <3>1. req[p].pc # "thread" /\ hist'.mute = hist.mute
      BY <2>3, Containers DEF StageInv, StageOK, Activating, HistType
    <3>2. \A q \in Procs : q # p => req'[q] = req[q]
      BY <2>3, Onward DEF Goto, Stages
    <3> QED BY <2>1, <3>1, <3>2, ReadStays
  <2>4. CASE hist' = [hist EXCEPT !.last = "activate", !.mute = TRUE]
    BY <2>4, Containers DEF BansAreRead, HistType
  <2> QED BY <1>11, <2>2, <2>3, <2>4, Fails
<1>12. ASSUME NEW p \in Procs, ComposeHalf(p) PROVE BansAreRead'
  BY <1>12, HalfComposed, Breaks, ReadStays DEF Troubled, At, config
<1>13. ASSUME NEW p \in Procs, Die(p) PROVE BansAreRead'
  <2>1. UNCHANGED flag /\ pollers' = [pollers EXCEPT ![p] = IF flag["ddos"] THEN 1 ELSE 0]
    BY <1>13, Dies DEF config
  <2>2. flag["ddos"] => pollers'[p] > 0
    BY <2>1 DEF StageInv, SwTypes
  <2> QED BY <2>1, <2>2 DEF BansAreRead
<1>14. ASSUME \/ \E p \in Procs : Poll(p)
              \/ FirewallFlips \/ (\E a \in Alerts : Raise(a)) \/ UNCHANGED swvars
       PROVE  BansAreRead'
  BY <1>14, Elsewhere DEF BansAreRead, At, config
<1> QED BY SwKinds, <1>1, <1>2, <1>3, <1>4, <1>6, <1>7, <1>8, <1>9, <1>10, <1>11, <1>12, <1>13, <1>14

(* While the module is on some process reads the bans (start_ddos_ingest_thread *)
(* in the request, create_app in a process that takes a dead one's place),     *)
(* unless Docker did not answer when the thread was to start.                  *)
THEOREM SwBansAreRead == SwSpec => []BansAreRead
<1>1. SwInit => BansAreRead
  BY DEF SwInit, BansAreRead, Modules
<1> QED BY <1>1, StageInit, StageStep, ReadStep, PTL DEF SwSpec

-----------------------------------------------------------------------------
(* The keys.                                                                  *)

Keeping == {"crowdsec", "bouncer", "remove", "start", "compose", "health", "delete", "add", "enable"}
Looking == {"start", "compose", "health", "delete", "add", "enable"}
Healthy == {"delete", "add", "enable"}
Serves(p) == req[p].kind \in Switching

\* No bouncer, or one with the stored key.
Ours    == box["bouncer"].id = None \/ box["bouncer"].key = stored
Single  == ~hist.twin \/ ~hist.crossed
Sound   == ~hist.twin /\ ~hist.broken

OneServes == ~hist.crossed => \A p, q \in Procs : Serves(p) /\ Serves(q) => p = q

\* What is stored once a request works with its key.
StoredInv ==
  /\ flag["ddos"] \/ (\E p \in Procs : req[p].pc \in Keeping) => stored # None
  /\ \A p \in Procs : At(p, "keep") => req[p].key # None
  /\ Single => \A p \in Procs : req[p].pc \in Keeping => req[p].key = stored

\* A key that replaced another is stored and the containers do not know it yet.
Old == /\ hist.replaced /\ box["bouncer"].id # None /\ registered # None
       /\ box["bouncer"].key = registered

Composing == \E q \in Procs : At(q, "compose") /\ req[q].missing
Adding    == \E q \in Procs : At(q, "add")
Working   == \E q \in Procs : req[q].pc \in {"compose", "health", "delete", "add"}

\* What an activation knows of the bouncer and of the registration.
BouncerInv ==
  /\ box["bouncer"].id = None => box["bouncer"].key = None
  /\ Single => \A p \in Procs : req[p].pc \in Looking => Ours
  /\ Single => \A p \in Procs : At(p, "remove") => Ours \/ box["bouncer"].id = req[p].seen
  /\ Sound /\ (\E p \in Procs : req[p].pc \in Healthy) => box["bouncer"].key = stored \/ Composing
  /\ Sound /\ (\E p \in Procs : At(p, "enable")) => registered = stored \/ Adding
  /\ Sound /\ flag["ddos"] =>
       \/ Old
       \/ /\ box["bouncer"].key = stored \/ Composing
          /\ registered = stored \/ Working
  /\ ~hist.crossed => \A p \in Procs : /\ req[p].pc \in Healthy => box["bouncer"].key = stored
                                       /\ At(p, "enable") => registered = stored

KeyInv == StageInv /\ OneServes /\ StoredInv /\ BouncerInv

LEMMA Activations ==
  ASSUME StageInv
  PROVE  \A p \in Procs : /\ req[p].pc \in Activating => Serves(p)
                          /\ req[p].pc = "idle" => ~Serves(p)
                          /\ req[p].kind = None => ~Serves(p)
BY SwConstants DEF StageInv, StageOK, Serves, Switching

\* Process p takes no part in an activation, or no longer.
LEMMA KeyAside ==
  ASSUME KeyInv, StageInv', NEW p \in Procs, \A q \in Procs : q # p => req'[q] = req[q],
         req'[p].kind \in {req[p].kind, None}, req'[p].pc \notin Keeping \cup {"keep"},
         req[p].pc \in {"compose", "health", "delete", "add"} => hist'.broken,
         UNCHANGED stored, flag'["ddos"] => flag["ddos"],
         hist'.twin = hist.twin, hist'.replaced = hist.replaced, hist.broken => hist'.broken, hist.crossed => hist'.crossed,
         box'["bouncer"].id = box["bouncer"].id, box'["bouncer"].key = box["bouncer"].key,
         registered' = registered \/ registered = None
  PROVE  KeyInv'
<1>1. OneServes'
  <2>1. Serves(p)' => Serves(p)
    BY SwConstants DEF Serves
  <2> QED BY <2>1 DEF KeyInv, OneServes, Serves
<1>2. StoredInv'
  BY DEF KeyInv, StoredInv, Single, Keeping, At
<1>3. BouncerInv'
  <2>1. /\ Single' => Single
        /\ Sound' => Sound /\ req[p].pc \notin {"compose", "health", "delete", "add"}
        /\ Ours' = Ours /\ (Old => Old')
        /\ \A q \in Procs : q # p => req'[q] = req[q]
    BY DEF Single, Sound, Ours, Old
  <2>2. Sound' => (Composing => Composing') /\ (Adding => Adding') /\ (Working => Working')
    BY <2>1 DEF Composing, Adding, Working, At
  <2>3. /\ Single' => \A q \in Procs : req'[q].pc \in Looking => Ours'
        /\ Single' => \A q \in Procs : req'[q].pc = "remove" => Ours' \/ box'["bouncer"].id = req'[q].seen
    BY <2>1 DEF KeyInv, BouncerInv, Keeping, Looking, At
  <2>4. /\ Sound' /\ (\E q \in Procs : req'[q].pc \in Healthy) => box'["bouncer"].key = stored' \/ Composing'
        /\ Sound' /\ (\E q \in Procs : req'[q].pc = "enable") => registered' = stored' \/ Adding'
    BY <2>1, <2>2 DEF KeyInv, BouncerInv, StoredInv, Keeping, Healthy, At
  <2>5. Sound' /\ flag'["ddos"] => \/ Old'
                                  \/ /\ box'["bouncer"].key = stored' \/ Composing'
                                     /\ registered' = stored' \/ Working'
    BY <2>1, <2>2 DEF KeyInv, BouncerInv, StoredInv
  <2>6. ~hist'.crossed => \A q \in Procs : /\ req'[q].pc \in Healthy => box'["bouncer"].key = stored'
                                           /\ req'[q].pc = "enable" => registered' = stored'
    BY <2>1 DEF KeyInv, BouncerInv, StoredInv, Keeping, Healthy, At
  <2> QED BY <2>3, <2>4, <2>5, <2>6 DEF KeyInv, BouncerInv, At
<1> QED BY <1>1, <1>2, <1>3 DEF KeyInv

LEMMA KeyBegin ==
  ASSUME KeyInv, NEW p \in Procs, Begin(p)
  PROVE  KeyInv'
<1>1. /\ req[p].pc = "idle" /\ req'[p].pc = "gate" /\ \A q \in Procs : q # p => req'[q] = req[q]
      /\ UNCHANGED <<flag, stored, box, registered>> /\ StageInv'
      /\ hist'.twin = hist.twin /\ hist'.broken = hist.broken /\ hist'.replaced = hist.replaced
      /\ ~Serves(p)' => hist'.crossed = hist.crossed
      /\ Serves(p)' => hist'.crossed = ~Alone(p)
  BY Begins DEF KeyInv, Serves, config, docker
<1>2. Alone(p) => \A q \in Procs : q # p => ~Serves(q) /\ req[q].pc \notin Activating
  BY Activations DEF Alone, Serving, Serves, KeyInv
<1>3. ~hist'.crossed => ~hist.crossed \/ \A q \in Procs : ~Serves(q) /\ req[q].pc \notin Activating
  BY <1>1, <1>2, Activations DEF KeyInv, Activating
<1>4. OneServes'
  BY <1>1, <1>2, Activations DEF KeyInv, OneServes, Serves
<1>5. StoredInv'
  BY <1>1, <1>3 DEF KeyInv, StoredInv, Single, Keeping, Activating, At
<1>6. BouncerInv'
  <2>1. (Composing => Composing') /\ (Adding => Adding') /\ (Working => Working') /\ (Old => Old')
    BY <1>1 DEF Composing, Adding, Working, Old, At
  <2> QED BY <1>1, <1>3, <2>1 DEF KeyInv, BouncerInv, Single, Sound, Ours, Looking, Healthy, Activating, At
<1> QED BY <1>1, <1>4, <1>5, <1>6 DEF KeyInv

\* Two requests of the switches while none has overlapped are one.
LEMMA OneActivation ==
  ASSUME KeyInv, ~hist.crossed, NEW p \in Procs, req[p].pc \in Activating
  PROVE  \A q \in Procs : q # p => req[q].pc \notin Activating
BY Activations DEF KeyInv, OneServes

LEMMA OneStays ==
  ASSUME KeyInv, StageInv', NEW p \in Procs, \A q \in Procs : q # p => req'[q] = req[q], req'[p].kind = req[p].kind,
         hist'.crossed = hist.crossed
  PROVE  OneServes'
BY DEF KeyInv, OneServes, Serves

LEMMA KeyStarts ==
  ASSUME KeyInv, NEW p \in Procs, ReadKey(p) \/ LoseKey(p) \/ KeepKey(p)
  PROVE  KeyInv'
<1>0. StageInv' /\ \A q \in Procs : q # p => req'[q] = req[q]
  BY StageSwitch, KeyForms, KeepForms DEF KeyInv, Activates
<1>1. CASE ReadKey(p) \/ LoseKey(p)
  <2>1. /\ UNCHANGED <<flag, stored, box, registered, hist>> /\ req[p].pc = "key" /\ req'[p].kind = req[p].kind
        /\ \/ req'[p].pc = "keep" /\ req'[p].key # None
           \/ stored # None /\ req'[p].pc = "crowdsec" /\ req'[p].key = stored
    BY <1>1, KeyForms DEF KeyInv, config, docker
  <2>2. OneServes'
    BY <1>0, <2>1, OneStays
  <2>3. StoredInv'
    BY <1>0, <2>1, SwConstants DEF KeyInv, StoredInv, Single, Keeping, At
  <2>4. (Composing => Composing') /\ (Adding => Adding') /\ (Working => Working') /\ (Old => Old')
    BY <1>0, <2>1 DEF Composing, Adding, Working, Old, At
  <2>5. BouncerInv'
    BY <1>0, <2>1, <2>4 DEF KeyInv, BouncerInv, Single, Sound, Ours, Looking, Healthy, At
  <2> QED BY <1>0, <2>2, <2>3, <2>5 DEF KeyInv
<1>2. CASE KeepKey(p)
  <2>1. /\ req[p].pc = "keep" /\ req'[p].pc = "crowdsec" /\ req'[p].kind = req[p].kind /\ req'[p].key = req[p].key
        /\ UNCHANGED <<flag, box, registered>> /\ stored' = req[p].key
        /\ hist'.crossed = hist.crossed /\ hist'.broken = hist.broken
        /\ hist'.twin = (hist.twin \/ (stored # None /\ hist.crossed))
        /\ hist'.replaced = (hist.replaced \/ stored # None)
    BY <1>2, KeepForms DEF KeyInv, docker, Activates
  <2>2. OneServes'
    BY <1>0, <2>1, OneStays
  <2>3. stored' # None
    BY <2>1 DEF KeyInv, StoredInv, At
  \* Nothing was stored, or nobody else works with the key, or the property excepts it.
  <2>4. CASE hist'.crossed /\ hist'.twin
    <3>1. ~Single' /\ ~Sound'
      BY <2>4 DEF Single, Sound
    <3>2. StoredInv'
      BY <1>0, <2>1, <2>3, <3>1 DEF KeyInv, StoredInv, At
    <3>3. BouncerInv'
      BY <2>1, <2>4, <3>1 DEF KeyInv, BouncerInv
    <3> QED BY <1>0, <2>2, <3>2, <3>3 DEF KeyInv
  <2>5. CASE ~(hist'.crossed /\ hist'.twin)
    <3>1. \A q \in Procs : q # p => req[q].pc \notin Keeping
      <4>1. CASE stored = None
        BY <4>1 DEF KeyInv, StoredInv
      <4>2. CASE stored # None
        <5>1. ~hist.crossed
          BY <2>1, <2>5, <4>2
        <5> QED BY <2>1, <5>1, OneActivation DEF Activating, Keeping
      <4> QED BY <4>1, <4>2
    <3>2. \A q \in Procs : req'[q].pc \notin Looking \cup {"remove"}
      BY <1>0, <2>1, <3>1 DEF Keeping, Looking
    <3>3. StoredInv'
      BY <1>0, <2>1, <2>3, <3>1 DEF KeyInv, StoredInv, Keeping, At
    <3>4. Sound' /\ flag'["ddos"] => Old'
      <4> SUFFICES ASSUME Sound', flag'["ddos"] PROVE Old'
        OBVIOUS
      <4>1. stored # None /\ hist'.replaced /\ Sound
        BY <2>1 DEF KeyInv, StoredInv, Sound
      <4>2. ~Composing /\ ~Working
        BY <2>1, <3>1 DEF Composing, Working, Keeping, At
      <4>3. box["bouncer"].id # None /\ registered # None /\ box["bouncer"].key = registered
        BY <2>1, <4>1, <4>2 DEF KeyInv, BouncerInv, Old
      <4> QED BY <2>1, <4>1, <4>3 DEF Old
    <3>5. BouncerInv'
      BY <2>1, <3>2, <3>4 DEF KeyInv, BouncerInv, Looking, Healthy, At
    <3> QED BY <1>0, <2>2, <3>3, <3>5 DEF KeyInv
  <2> QED BY <2>4, <2>5
<1> QED BY <1>1, <1>2

\* An activation goes on, without a word about the stored key.
LEMMA StoredStays ==
  ASSUME KeyInv, NEW p \in Procs, NEW from \in Keeping, NEW to \in Keeping, Activates(p, from, to),
         UNCHANGED <<stored, flag>>, hist'.twin = hist.twin, hist'.crossed = hist.crossed
  PROVE  StoredInv'
<1>1. /\ req[p].pc = from /\ req'[p].pc = to /\ req'[p].key = req[p].key
      /\ \A q \in Procs : q # p => req'[q] = req[q]
  BY DEF Activates
<1> QED BY <1>1 DEF KeyInv, StoredInv, Single, Keeping, At

LEMMA KeyCrowdsec ==
  ASSUME KeyInv, NEW p \in Procs, StartCrowdsec(p)
  PROVE  KeyInv'
<1>1. /\ Activates(p, "crowdsec", "bouncer") /\ UNCHANGED <<stored, flag, hist>> /\ StageInv'
      /\ box'["bouncer"] = box["bouncer"] /\ (registered' = registered \/ registered = None)
  BY CrowdsecStarts DEF KeyInv, config
<1>2. OneServes' /\ StoredInv'
  BY <1>1, OneStays, StoredStays DEF Activates, Keeping
<1>4. /\ (Composing => Composing') /\ (Adding => Adding') /\ (Working => Working') /\ (Old => Old')
      /\ Ours' = Ours
  BY <1>1 DEF Activates, Composing, Adding, Working, Old, Ours, At
<1>3. BouncerInv'
  BY <1>1, <1>4 DEF KeyInv, StoredInv, BouncerInv, Activates, Single, Sound, Keeping, Looking, Healthy, At
<1> QED BY <1>1, <1>2, <1>3 DEF KeyInv

LEMMA KeyLook ==
  ASSUME KeyInv, NEW p \in Procs, LookAtBouncer(p)
  PROVE  KeyInv'
<1> DEFINE b == box["bouncer"]
<1>1. /\ UNCHANGED <<stored, flag, box, registered, hist>> /\ StageInv' /\ req'[p].seen = b.id
      /\ \/ Activates(p, "bouncer", "compose") /\ (b.id = None \/ b.key = req[p].key)
         \/ Activates(p, "bouncer", "remove")
         \/ Activates(p, "bouncer", "start") /\ b.key = req[p].key
  BY BouncerLooked DEF KeyInv, config, docker
<1>2. OneServes' /\ StoredInv'
  BY <1>1, OneStays, StoredStays DEF Activates, Keeping
<1>3. /\ (Composing => Composing') /\ (Adding => Adding') /\ (Working => Working') /\ (Old => Old')
      /\ req[p].pc = "bouncer" /\ req'[p].pc \in {"compose", "remove", "start"}
      /\ \A q \in Procs : q # p => req'[q] = req[q]
  BY <1>1 DEF Activates, Composing, Adding, Working, Old, At
<1>4. Single => req[p].key = stored
  BY <1>3 DEF KeyInv, StoredInv, Keeping
<1>5. /\ Single' => \A q \in Procs : req'[q].pc \in Looking => Ours'
      /\ Single' => \A q \in Procs : req'[q].pc = "remove" => Ours' \/ box'["bouncer"].id = req'[q].seen
  BY <1>1, <1>3, <1>4 DEF KeyInv, BouncerInv, Activates, Single, Ours, Looking, At
<1>6. BouncerInv'
  BY <1>1, <1>3, <1>5 DEF KeyInv, BouncerInv, Sound, Healthy, At
<1> QED BY <1>1, <1>2, <1>6 DEF KeyInv

LEMMA KeyRemove ==
  ASSUME KeyInv, NEW p \in Procs, RemoveBouncer(p)
  PROVE  KeyInv'
<1>1. /\ Activates(p, "remove", "compose") /\ req'[p].missing = TRUE
      /\ UNCHANGED <<stored, flag, registered, hist>> /\ StageInv'
      /\ \/ box["bouncer"].id = req[p].seen /\ box'["bouncer"].id = None /\ box'["bouncer"].key = None
         \/ box["bouncer"].id # req[p].seen /\ box'["bouncer"] = box["bouncer"]
  BY BouncerRemoved DEF KeyInv, config
<1>2. OneServes' /\ StoredInv'
  BY <1>1, OneStays, StoredStays DEF Activates, Keeping
<1>3. ~hist.crossed => \A q \in Procs : q # p => req[q].pc \notin Activating
  BY <1>1, OneActivation DEF Activates, Activating
<1>4. /\ req[p].pc = "remove" /\ req'[p].pc = "compose" /\ Composing' /\ Working' /\ (Adding => Adding')
      /\ \A q \in Procs : q # p => req'[q] = req[q]
  BY <1>1 DEF Activates, Composing, Working, Adding, At
<1>5. /\ box'["bouncer"].id = None => box'["bouncer"].key = None
      /\ Single' => Ours'
  BY <1>1, <1>4 DEF KeyInv, BouncerInv, Single, Ours, At
<1>6. BouncerInv'
  BY <1>1, <1>3, <1>4, <1>5 DEF KeyInv, BouncerInv, Sound, Healthy, At, Activating
<1> QED BY <1>1, <1>2, <1>6 DEF KeyInv

LEMMA KeyBouncer ==
  ASSUME KeyInv, NEW p \in Procs, StartBouncer(p)
  PROVE  KeyInv'
<1>1. /\ Activates(p, "start", "compose") /\ UNCHANGED <<stored, flag, registered, hist>> /\ StageInv'
      /\ box'["bouncer"].id = box["bouncer"].id /\ box'["bouncer"].key = box["bouncer"].key
  BY BouncerStarts DEF KeyInv, config
<1>2. OneServes' /\ StoredInv'
  BY <1>1, OneStays, StoredStays DEF Activates, Keeping
<1>3. /\ (Composing => Composing') /\ (Adding => Adding') /\ (Working => Working') /\ (Old => Old')
      /\ Ours' = Ours
  BY <1>1 DEF Activates, Composing, Adding, Working, Old, Ours, At
<1>4. BouncerInv'
  BY <1>1, <1>3 DEF KeyInv, BouncerInv, Activates, Single, Sound, Looking, Healthy, At
<1> QED BY <1>1, <1>2, <1>4 DEF KeyInv

LEMMA KeyCompose ==
  ASSUME KeyInv, NEW p \in Procs, Compose(p)
  PROVE  KeyInv'
<1>1. /\ Activates(p, "compose", "health") /\ UNCHANGED <<stored, flag, hist>> /\ StageInv'
      /\ registered' = registered \/ registered = None
      /\ \/ box'["bouncer"].key = box["bouncer"].key /\ box'["bouncer"].id = box["bouncer"].id
         \/ req[p].missing /\ box["bouncer"].id = None /\ box'["bouncer"].key = req[p].key
      /\ req[p].missing => box'["bouncer"].id # None
  BY Composed DEF KeyInv, config
<1>2. OneServes' /\ StoredInv'
  BY <1>1, OneStays, StoredStays DEF Activates, Keeping
<1>3. ~hist.crossed => \A q \in Procs : q # p => req[q].pc \notin Activating
  BY <1>1, OneActivation DEF Activates, Activating
<1>4. Single => /\ Ours /\ req[p].key = stored
                /\ box'["bouncer"].key = box["bouncer"].key \/ box'["bouncer"].key = stored
                /\ Ours'
                /\ req[p].missing => box'["bouncer"].key = stored
  BY <1>1 DEF KeyInv, StoredInv, BouncerInv, Activates, Ours, Keeping, Looking
<1>5. /\ req[p].pc = "compose" /\ req'[p].pc = "health" /\ \A q \in Procs : q # p => req'[q] = req[q]
      /\ Single' = Single /\ Sound' = Sound /\ (Sound => Single) /\ Working' /\ (Adding => Adding')
  BY <1>1 DEF Activates, Single, Sound, Working, Adding, At
<1>6. box'["bouncer"].id = None => box'["bouncer"].key = None
  BY <1>1 DEF KeyInv, BouncerInv
<1>7. Single /\ (box["bouncer"].key = stored \/ Composing) => box'["bouncer"].key = stored \/ Composing'
  BY <1>4, <1>5 DEF Composing, At
<1>8. Sound /\ flag["ddos"] => Old' \/ box'["bouncer"].key = stored \/ Composing'
  <2>1. CASE Old /\ Single
    BY <1>1, <1>4, <2>1 DEF Old, Ours
  <2> QED BY <1>5, <1>7, <2>1 DEF KeyInv, BouncerInv
<1>9. BouncerInv'
  <2>1. /\ Single' => \A q \in Procs : req'[q].pc \in Looking => Ours'
        /\ Single' => \A q \in Procs : req'[q].pc = "remove" => Ours' \/ box'["bouncer"].id = req'[q].seen
        /\ Sound' /\ flag'["ddos"] => \/ Old'
                                      \/ /\ box'["bouncer"].key = stored' \/ Composing'
                                         /\ registered' = stored' \/ Working'
    BY <1>1, <1>4, <1>5, <1>8
  <2>2. Sound' /\ (\E q \in Procs : req'[q].pc \in Healthy) => box'["bouncer"].key = stored' \/ Composing'
    BY <1>1, <1>5, <1>7 DEF KeyInv, BouncerInv, Healthy
  <2>3. Sound' /\ (\E q \in Procs : req'[q].pc = "enable") => registered' = stored' \/ Adding'
    BY <1>1, <1>5 DEF KeyInv, BouncerInv, StoredInv, Keeping, At
  <2>4. ~hist'.crossed => \A q \in Procs : /\ req'[q].pc \in Healthy => box'["bouncer"].key = stored'
                                           /\ req'[q].pc = "enable" => registered' = stored'
    BY <1>1, <1>3, <1>5 DEF Healthy, Activating
  <2> QED BY <1>6, <2>1, <2>2, <2>3, <2>4 DEF BouncerInv, At
<1> QED BY <1>1, <1>2, <1>9 DEF KeyInv

LEMMA KeyRegisters ==
  ASSUME KeyInv, NEW p \in Procs, Health(p) \/ DeleteRegistration(p) \/ AddRegistration(p)
  PROVE  KeyInv'
<1>1. /\ UNCHANGED <<stored, flag, box, hist>> /\ StageInv'
      /\ \/ Activates(p, "health", "delete") /\ UNCHANGED registered /\ box["bouncer"].run
         \/ Activates(p, "delete", "add") /\ registered' = None
         \/ Activates(p, "add", "enable") /\ registered = None /\ registered' = req[p].key
  BY Registers DEF KeyInv, config
<1>2. OneServes' /\ StoredInv'
  BY <1>1, OneStays, StoredStays DEF Activates, Keeping
<1>3. ~hist.crossed => \A q \in Procs : q # p => req[q].pc \notin Activating
  BY <1>1, OneActivation DEF Activates, Activating
<1>4. Single => Ours /\ req[p].key = stored
  BY <1>1 DEF KeyInv, StoredInv, BouncerInv, Activates, Keeping, Looking
<1>5. box["bouncer"].run => box["bouncer"].id # None
  BY Containers DEF KeyInv
<1>6. /\ \A q \in Procs : q # p => req'[q] = req[q]
      /\ Single' = Single /\ Sound' = Sound /\ (Sound => Single) /\ (~hist.crossed => Single) /\ Ours' = Ours
      /\ req[p].pc \in {"health", "delete", "add"} /\ req'[p].pc \in Healthy
  BY <1>1 DEF Activates, Single, Sound, Ours, Healthy
<1>7. Composing => Composing'
  BY <1>6 DEF Composing, At
<1>8. Single => box["bouncer"].key = stored \/ req[p].pc \in Healthy
  BY <1>1, <1>4, <1>5 DEF Activates, Ours, Healthy
<1>9. BouncerInv'
  <2>1. /\ Single' => \A q \in Procs : req'[q].pc \in Looking => Ours'
        /\ Single' => \A q \in Procs : req'[q].pc = "remove" => Ours' \/ box'["bouncer"].id = req'[q].seen
    BY <1>1, <1>4, <1>6 DEF KeyInv, BouncerInv, Healthy, At
  <2>2. Sound => box["bouncer"].key = stored \/ Composing'
    BY <1>6, <1>7, <1>8 DEF KeyInv, BouncerInv
  <2>3. Sound /\ (\E q \in Procs : req'[q].pc = "enable") => registered' = stored \/ Adding'
    <3>1. CASE req'[p].pc = "add"
      BY <3>1 DEF Adding, At
    <3>2. CASE req'[p].pc = "enable"
      BY <1>1, <1>4, <1>6, <3>2 DEF Activates
    <3>3. CASE req'[p].pc = "delete"
      BY <1>1, <1>6, <3>3 DEF KeyInv, BouncerInv, Activates, Adding, At
    <3> QED BY <1>6, <3>1, <3>2, <3>3 DEF Healthy
  <2>4. Sound => registered' = stored \/ Working'
    BY <1>1, <1>4, <1>6 DEF Activates, Working
  <2>5. ~hist'.crossed => \A q \in Procs : /\ req'[q].pc \in Healthy => box'["bouncer"].key = stored'
                                           /\ req'[q].pc = "enable" => registered' = stored'
    BY <1>1, <1>3, <1>4, <1>6, <1>8 DEF KeyInv, BouncerInv, Healthy, Activating, Activates
  <2>6. box'["bouncer"].id = None => box'["bouncer"].key = None
    BY <1>1 DEF KeyInv, BouncerInv
  <2> QED BY <1>1, <1>6, <2>1, <2>2, <2>3, <2>4, <2>5, <2>6 DEF BouncerInv, At
<1> QED BY <1>1, <1>2, <1>9 DEF KeyInv

LEMMA KeyEnable ==
  ASSUME KeyInv, NEW p \in Procs, Enable(p)
  PROVE  KeyInv'
<1>1. /\ req[p].pc = "enable" /\ req'[p].pc = "thread" /\ req'[p].kind = req[p].kind
      /\ \A q \in Procs : q # p => req'[q] = req[q]
      /\ UNCHANGED <<stored, box, registered>> /\ StageInv' /\ hist'.crossed = hist.crossed
      /\ hist.crossed => hist' = hist
  BY Enables DEF KeyInv, Activates, docker
<1>2. OneServes'
  BY <1>1, OneStays
<1>3. ~hist.crossed => \A q \in Procs : q # p => req[q].pc \notin Activating
  BY <1>1, OneActivation DEF Activating
<1>4. StoredInv'
  BY <1>1, <1>3 DEF KeyInv, StoredInv, Single, Keeping, Activating, At
<1>7. (Composing => Composing') /\ (Adding => Adding') /\ (Working => Working') /\ (Adding => Working)
  BY <1>1 DEF Composing, Adding, Working, At
<1>5. CASE hist.crossed
  <2>1. Sound => /\ box["bouncer"].key = stored \/ Composing
                 /\ registered = stored \/ Adding
    BY <1>1 DEF KeyInv, BouncerInv, Healthy, At
  <2>2. BouncerInv'
    BY <1>1, <1>5, <1>7, <2>1 DEF KeyInv, BouncerInv, Single, Sound, Ours, Looking, Healthy, At
  <2> QED BY <1>1, <1>2, <1>4, <2>2 DEF KeyInv
<1>6. CASE ~hist.crossed
  <2>1. Ours /\ box["bouncer"].key = stored /\ registered = stored
    BY <1>1, <1>6 DEF KeyInv, BouncerInv, Single, Looking, Healthy, At
  <2>2. Ours' /\ box'["bouncer"].key = stored' /\ registered' = stored'
    BY <1>1, <2>1 DEF Ours
  <2> QED BY <1>1, <1>2, <1>4, <2>2 DEF KeyInv, BouncerInv
<1> QED BY <1>5, <1>6

LEMMA KeyEnds ==
  ASSUME KeyInv, NEW p \in Procs,
         \/ ReadSwitch(p) \/ EnterActivation(p) \/ StartThread(p)
         \/ WriteSwitch(p) \/ EnableObs(p) \/ Disable(p) \/ Restart(p) \/ StartGrafana(p) \/ Stop(p)
  PROVE  KeyInv'
<1>0. StageInv
  BY DEF KeyInv
<1>1. CASE ReadSwitch(p) \/ EnterActivation(p)
  BY <1>0, <1>1, SwitchForms, StageSwitch, KeyAside DEF config, docker, Keeping
<1>2. CASE StartThread(p)
  <2>1. /\ req[p].pc = "thread" /\ Done(p) /\ UNCHANGED <<flag, stored, box, registered>> /\ StageInv'
    BY <1>0, <1>2, ThreadStarts DEF config, docker
  <2>2. /\ req'[p].kind = None /\ req'[p].pc = "idle" /\ \A q \in Procs : q # p => req'[q] = req[q]
        /\ hist'.crossed = hist.crossed /\ hist'.twin = hist.twin /\ hist'.broken = hist.broken
        /\ hist'.replaced = hist.replaced
    BY <1>0, <2>1, Answered, Ended
  <2> QED BY <2>1, <2>2, KeyAside DEF Keeping
<1>3. CASE WriteSwitch(p) \/ EnableObs(p) \/ Disable(p) \/ Restart(p)
  <2>1. /\ Done(p) /\ UNCHANGED stored /\ StageInv' /\ req[p].pc \in {"on", "off", "obs", "disable", "gate"}
        /\ flag'["ddos"] => flag["ddos"]
        /\ box'["bouncer"].id = box["bouncer"].id /\ box'["bouncer"].key = box["bouncer"].key
        /\ registered' = registered \/ registered = None
    BY <1>0, <1>3, Finishes DEF docker
  <2>2. /\ req'[p].kind = None /\ req'[p].pc = "idle" /\ \A q \in Procs : q # p => req'[q] = req[q]
        /\ hist'.crossed = hist.crossed /\ hist'.twin = hist.twin /\ hist'.broken = hist.broken
        /\ hist'.replaced = hist.replaced
    BY <1>0, <2>1, Answered, Ended
  <2> QED BY <2>1, <2>2, KeyAside DEF Keeping
<1>4. CASE StartGrafana(p) \/ Stop(p)
  <2>1. /\ UNCHANGED <<flag, stored, registered, hist>> /\ StageInv' /\ req[p].pc \in {"grafana", "gate", "stop"}
        /\ box'["bouncer"].id = box["bouncer"].id /\ box'["bouncer"].key = box["bouncer"].key
        /\ \E pc \in {"obs", "stop", "disable"} : Goto(p, pc)
    BY <1>0, <1>4, GrafanaStarts, Stops DEF config, At
  <2>2. /\ req'[p].kind = req[p].kind /\ req'[p].pc \in {"obs", "stop", "disable"}
        /\ \A q \in Procs : q # p => req'[q] = req[q]
    BY <1>0, <2>1, Onward DEF Goto, Stages
  <2> QED BY <2>1, <2>2, KeyAside DEF Keeping
<1> QED BY <1>1, <1>2, <1>3, <1>4

LEMMA KeyTrouble ==
  ASSUME KeyInv, NEW p \in Procs, Fail(p) \/ ComposeHalf(p) \/ Die(p)
  PROVE  KeyInv'
<1>0. StageInv /\ StageOK(p)
  BY DEF KeyInv, StageInv
<1>1. ASSUME Break(p), UNCHANGED <<flag, stored>>, StageInv', box'["bouncer"] = box["bouncer"],
             registered' = registered \/ registered = None
      PROVE  KeyInv'
  <2>1. /\ req'[p].pc = "idle" /\ req'[p].kind = None /\ \A q \in Procs : q # p => req'[q] = req[q]
        /\ hist'.crossed = hist.crossed /\ hist'.twin = hist.twin /\ hist'.replaced = hist.replaced
        /\ hist'.broken = (hist.broken \/ (req[p].kind = "activate" /\ Touched(p)))
    BY <1>0, <1>1, Breaks DEF Troubled
  <2>2. req[p].pc \in {"compose", "health", "delete", "add"} => hist'.broken
    BY <1>0, <2>1 DEF StageOK, Activating, Touched
  <2> QED BY <1>1, <2>1, <2>2, KeyAside DEF Keeping
<1>2. CASE ComposeHalf(p)
  BY <1>0, <1>1, <1>2, HalfComposed DEF config
<1>3. CASE Die(p)
  BY <1>0, <1>1, <1>3, Dies DEF config, docker
<1>4. CASE Fail(p)
  <2>1. UNCHANGED <<flag, stored, box, registered>> /\ StageInv'
    BY <1>0, <1>4, Fails DEF config, docker
  <2>2. ASSUME NEW pc \in {"stop", "disable"}, req[p].kind = "deactivate", Goto(p, pc),
               hist' = [hist EXCEPT !.crossed = TRUE]
        PROVE  KeyInv'
    <3>1. /\ req'[p].kind = req[p].kind /\ req'[p].pc = pc /\ \A q \in Procs : q # p => req'[q] = req[q]
      BY <1>0, <2>2, Onward DEF Goto, Stages
    <3>2. hist'.twin = hist.twin /\ hist'.broken = hist.broken /\ hist'.crossed /\ hist'.replaced = hist.replaced
      BY <1>0, <2>2, Containers DEF HistType
    <3>3. req[p].pc \notin {"compose", "health", "delete", "add"}
      BY <1>0, <2>2 DEF StageOK, Activating
    <3> QED BY <2>1, <3>1, <3>2, <3>3, KeyAside DEF Keeping
  <2>3. ASSUME req[p].pc = "thread", req' = [req EXCEPT ![p] = Idle],
               hist' = [hist EXCEPT !.last = "activate", !.mute = TRUE]
        PROVE  KeyInv'
    <3>1. req'[p].kind = None /\ req'[p].pc = "idle" /\ \A q \in Procs : q # p => req'[q] = req[q]
      BY <1>0, <2>3, Ended
    <3>2. /\ hist'.twin = hist.twin /\ hist'.broken = hist.broken /\ hist'.crossed = hist.crossed
          /\ hist'.replaced = hist.replaced
      BY <1>0, <2>3, Containers DEF HistType
    <3> QED BY <2>1, <2>3, <3>1, <3>2, KeyAside DEF Keeping
  <2> QED BY <1>0, <1>1, <1>4, <2>1, <2>2, <2>3, Fails DEF At
<1> QED BY <1>2, <1>3, <1>4

LEMMA KeyInit == SwInit => KeyInv
<1> SUFFICES ASSUME SwInit PROVE KeyInv
  OBVIOUS
<1>1. /\ \A p \in Procs : req[p].pc = "idle" /\ req[p].kind = None
      /\ ~flag["ddos"] /\ None \notin Switching
  BY SwConstants DEF SwInit, Idle, Modules
<1>3. box["bouncer"].id = None => box["bouncer"].key = None
  <2>1. box["bouncer"] \in {Absent, ByHand}
    BY DEF SwInit, Places
  <2> QED BY <2>1, SwConstants DEF Absent, ByHand
<1>2. OneServes /\ StoredInv /\ BouncerInv
  BY <1>1, <1>3 DEF OneServes, Serves, StoredInv, BouncerInv, Keeping, Looking, Healthy, At
<1> QED BY <1>2, StageInit DEF KeyInv

LEMMA KeyStep == KeyInv /\ [SwNext]_swvars => KeyInv'
<1> SUFFICES ASSUME KeyInv, [SwNext]_swvars PROVE KeyInv'
  OBVIOUS
<1>1. ASSUME \/ \E p \in Procs : Poll(p)
             \/ FirewallFlips \/ (\E a \in Alerts : Raise(a)) \/ UNCHANGED swvars
      PROVE  KeyInv'
  <2>1. UNCHANGED <<flag, stored, box, registered, req, hist>> /\ StageInv'
    BY <1>1, Elsewhere DEF KeyInv, config, docker
  <2>2. OneServes' /\ StoredInv'
    BY <2>1 DEF KeyInv, OneServes, StoredInv, Serves, Single, At
  <2>3. BouncerInv'
    BY <2>1 DEF KeyInv, BouncerInv, Single, Sound, Ours, Old, Composing, Adding, Working, At
  <2> QED BY <2>1, <2>2, <2>3 DEF KeyInv
<1> QED BY SwKinds, <1>1, KeyBegin, KeyStarts, KeyCrowdsec, KeyLook, KeyRemove, KeyBouncer, KeyCompose, KeyRegisters,
           KeyEnable, KeyEnds, KeyTrouble

(* The bouncer's container, CrowdSec's registration and app_config hold one   *)
(* key while the module is on and no request works on it, however activations, *)
(* deactivations, restarts, failures, deaths and unreadable keys interleave,   *)
(* with the exceptions the property names; a replaced key that the containers  *)
(* do not know yet still leaves the bouncer with the registered one.           *)
THEOREM SwKeysAgree == SwSpec => []KeysAgree
<1>1. KeyInv => KeysAgree
  <2> SUFFICES ASSUME KeyInv, flag["ddos"], Quiet, ~hist.twin, ~hist.broken
               PROVE  /\ registered # None /\ box["bouncer"].key = registered
                      /\ hist.replaced \/ registered = stored
    BY DEF KeysAgree
  <2>1. \A q \in Procs : req[q].pc \notin Activating
    BY Activations DEF Quiet, Serving, Serves, KeyInv
  <2>2. ~Composing /\ ~Working /\ stored # None
    BY <2>1 DEF Composing, Working, Activating, At, KeyInv, StoredInv
  <2> QED BY <2>2 DEF KeyInv, BouncerInv, Sound, Old
<1> QED BY <1>1, KeyInit, KeyStep, PTL DEF SwSpec

-----------------------------------------------------------------------------
(* The switch and the containers.                                             *)

Running == box["crowdsec"].run /\ box["bouncer"].run
Stopped == ~box["crowdsec"].run /\ ~box["bouncer"].run

\* How far a request that overlaps no other has come.
Progress(p) ==
  /\ req[p].pc \in Healthy \cup {"thread"} => Running
  /\ At(p, "thread") => flag["ddos"]
  /\ req[p].pc \in {"stop", "disable"} => ~box["bouncer"].run
  /\ At(p, "disable") => ~box["crowdsec"].run

Answers ==
  /\ hist.last # None => \A p \in Procs : ~Serves(p)
  /\ hist.last = "activate" => Running /\ flag["ddos"]
  /\ hist.last = "deactivate" => Stopped /\ ~flag["ddos"]

SwitchInv == ~hist.crossed => Answers /\ \A p \in Procs : Progress(p)

\* Process p does not touch the switch, nor what runs.
LEMMA SwitchAside ==
  ASSUME SwitchInv, NEW p \in Procs, \A q \in Procs : q # p => req'[q] = req[q],
         req'[p].kind \in {req[p].kind, None}, req'[p].pc \notin Healthy \cup {"thread", "stop", "disable"},
         hist'.last = hist.last, hist.crossed => hist'.crossed, flag'["ddos"] = flag["ddos"],
         box'["crowdsec"].run = box["crowdsec"].run, box'["bouncer"].run = box["bouncer"].run
  PROVE  SwitchInv'
<1>1. Serves(p)' => Serves(p)
  BY SwConstants DEF Serves
<1>2. \A q \in Procs : q # p => (Serves(q)' <=> Serves(q))
  BY DEF Serves
<1>3. Answers => Answers'
  BY <1>1, <1>2 DEF Answers, Running, Stopped
<1>4. \A q \in Procs : Progress(q) => Progress(q)'
  BY DEF Progress, Running, At
<1> QED BY <1>3, <1>4 DEF SwitchInv

\* Process p serves a switch's request, and goes on or answers.
LEMMA SwitchServes ==
  ASSUME KeyInv, SwitchInv, NEW p \in Procs, Serves(p), \A q \in Procs : q # p => req'[q] = req[q],
         hist'.crossed = hist.crossed,
         ~hist.crossed => \/ hist'.last = hist.last /\ (Progress(p) => Progress(p)')
                          \/ /\ req'[p].kind = None /\ req'[p].pc = "idle"
                             /\ hist'.last = "activate" => (Running /\ flag["ddos"])'
                             /\ hist'.last = "deactivate" => (Stopped /\ ~flag["ddos"])'
  PROVE  SwitchInv'
<1> SUFFICES ASSUME ~hist.crossed PROVE Answers' /\ \A q \in Procs : Progress(q)'
  BY DEF SwitchInv
<1>1. hist.last = None /\ Progress(p)
  BY DEF SwitchInv, Answers
<1>2. \A q \in Procs : q # p => ~Serves(q)
  BY DEF KeyInv, OneServes
<1>3. \A q \in Procs : q # p => ~Serves(q)'
  BY <1>2 DEF Serves
<1>4. ASSUME NEW q \in Procs, q # p PROVE Progress(q)'
  <2>1. req[q].pc \notin Healthy \cup {"thread", "stop", "disable"}
    BY <1>2, <1>4, Activations DEF KeyInv, StageInv, StageOK, Serves, Switching, Healthy, Activating
  <2> QED BY <1>4, <2>1 DEF Progress, At
<1>5. CASE hist'.last = hist.last /\ (Progress(p) => Progress(p)')
  BY <1>1, <1>4, <1>5, SwConstants DEF Answers, Requested
<1>6. CASE /\ req'[p].kind = None /\ req'[p].pc = "idle"
           /\ hist'.last = "activate" => (Running /\ flag["ddos"])'
           /\ hist'.last = "deactivate" => (Stopped /\ ~flag["ddos"])'
  <2>1. ~Serves(p)'
    BY <1>6, SwConstants DEF Serves
  <2>2. Progress(p)'
    BY <1>6 DEF Progress, Healthy, At
  <2> QED BY <1>3, <1>4, <1>6, <2>1, <2>2 DEF Answers
<1> QED BY <1>5, <1>6

LEMMA SwitchBegin ==
  ASSUME KeyInv, SwitchInv, NEW p \in Procs, Begin(p)
  PROVE  SwitchInv'
<1>1. /\ req[p].pc = "idle" /\ req'[p].pc = "gate" /\ \A q \in Procs : q # p => req'[q] = req[q]
      /\ UNCHANGED <<flag, box>>
      /\ ~Serves(p)' => hist' = hist
      /\ Serves(p)' => hist'.last = None /\ hist'.crossed = ~Alone(p)
  BY Begins DEF KeyInv, Serves, config, docker
<1>2. CASE Serves(p)'
  <2> SUFFICES ASSUME Alone(p) PROVE Answers' /\ \A q \in Procs : Progress(q)'
    BY <1>1, <1>2 DEF SwitchInv
  <2>1. \A q \in Procs : q # p => ~Serves(q)
    BY DEF Alone, Serving, Serves
  <2>2. \A q \in Procs : req'[q].pc \notin Healthy \cup {"thread", "stop", "disable"}
    BY <1>1, <2>1, Activations DEF KeyInv, StageInv, StageOK, Serves, Switching, Healthy, Activating
  <2>3. \A q \in Procs : Progress(q)'
    BY <2>2 DEF Progress, At
  <2> QED BY <1>1, <1>2, <2>3, SwConstants DEF Answers, Requested
<1>3. CASE ~Serves(p)'
  <2>1. /\ hist' = hist /\ ~Serves(p) /\ \A q \in Procs : Serves(q)' <=> Serves(q)
    BY <1>1, <1>3, Activations DEF KeyInv, Serves
  <2>2. Answers => Answers'
    BY <1>1, <2>1 DEF Answers, Running, Stopped
  <2>3. \A q \in Procs : Progress(q) => Progress(q)'
    BY <1>1 DEF Progress, Running, Healthy, At
  <2> QED BY <2>1, <2>2, <2>3 DEF SwitchInv
<1> QED BY <1>2, <1>3

\* The stages of an activation up to its switch.
LEMMA SwitchActivates ==
  ASSUME KeyInv, SwitchInv, NEW p \in Procs,
         \/ StartCrowdsec(p) \/ LookAtBouncer(p) \/ RemoveBouncer(p) \/ StartBouncer(p) \/ Compose(p)
         \/ Health(p) \/ DeleteRegistration(p) \/ AddRegistration(p) \/ Enable(p)
         \/ ReadKey(p) \/ LoseKey(p) \/ KeepKey(p)
  PROVE  SwitchInv'
<1>0. StageInv
  BY DEF KeyInv
<1>1. ASSUME req[p].pc \in Activating, \A q \in Procs : q # p => req'[q] = req[q],
             hist'.last = hist.last, hist'.crossed = hist.crossed, Progress(p) => Progress(p)'
      PROVE  SwitchInv'
  BY <1>0, <1>1, SwitchServes, Activations
<1>2. ASSUME NEW from \in Activating, NEW to \in {"bouncer", "compose", "remove", "start", "health"},
             Activates(p, from, to), UNCHANGED hist
      PROVE  SwitchInv'
  <2>1. Progress(p)'
    BY <1>2 DEF Progress, Activates, Healthy, At
  <2> QED BY <1>1, <1>2, <2>1 DEF Activates
<1>3. CASE StartCrowdsec(p) \/ LookAtBouncer(p) \/ RemoveBouncer(p) \/ StartBouncer(p) \/ Compose(p)
  BY <1>0, <1>2, <1>3, CrowdsecStarts, BouncerLooked, BouncerRemoved, BouncerStarts, Composed DEF Activating
<1>4. CASE Health(p) \/ DeleteRegistration(p) \/ AddRegistration(p)
  <2>1. /\ UNCHANGED <<box, hist>>
        /\ \/ Activates(p, "health", "delete") /\ Running
           \/ Activates(p, "delete", "add")
           \/ Activates(p, "add", "enable")
    BY <1>0, <1>4, Registers DEF Running
  <2>2. Progress(p) => Progress(p)'
    BY <2>1 DEF Progress, Activates, Healthy, Running, At
  <2> QED BY <1>1, <2>1, <2>2 DEF Activates, Activating
<1>5. CASE Enable(p)
  <2>1. /\ UNCHANGED box /\ Activates(p, "enable", "thread") /\ flag'["ddos"]
        /\ hist'.last = hist.last /\ hist'.crossed = hist.crossed
    BY <1>0, <1>5, Enables DEF docker
  <2>2. Progress(p) => Progress(p)'
    BY <2>1 DEF Progress, Activates, Healthy, Running, At
  <2> QED BY <1>1, <2>1, <2>2 DEF Activates, Activating
<1>6. CASE ReadKey(p) \/ LoseKey(p)
  <2>1. Progress(p)'
    BY <1>0, <1>6, KeyForms DEF Progress, Healthy, At
  <2> QED BY <1>0, <1>1, <1>6, <2>1, KeyForms DEF Activating
<1>7. CASE KeepKey(p)
  <2>1. Activates(p, "keep", "crowdsec") /\ hist'.last = hist.last /\ hist'.crossed = hist.crossed
    BY <1>0, <1>7, KeepForms
  <2>2. Progress(p)'
    BY <2>1 DEF Progress, Activates, Healthy, At
  <2> QED BY <1>1, <2>1, <2>2 DEF Activates, Activating
<1> QED BY <1>3, <1>4, <1>5, <1>6, <1>7

LEMMA SwitchEnds ==
  ASSUME KeyInv, SwitchInv, NEW p \in Procs,
         \/ ReadSwitch(p) \/ EnterActivation(p) \/ StartThread(p) \/ WriteSwitch(p)
         \/ EnableObs(p) \/ Disable(p) \/ Restart(p) \/ StartGrafana(p) \/ Stop(p)
  PROVE  SwitchInv'
<1>0. StageInv /\ StageOK(p)
  BY DEF KeyInv, StageInv
<1>1. CASE ReadSwitch(p) \/ EnterActivation(p)
  BY <1>0, <1>1, SwitchForms, SwitchAside DEF config, docker, Healthy
<1>2. CASE StartThread(p)
  <2>1. req[p].pc = "thread" /\ Done(p) /\ UNCHANGED <<flag, box>> /\ req[p].kind = "activate" /\ Serves(p)
    BY <1>0, <1>2, ThreadStarts DEF config, docker, StageOK, Activating, Serves, Switching
  <2>2. /\ req'[p].kind = None /\ req'[p].pc = "idle" /\ \A q \in Procs : q # p => req'[q] = req[q]
        /\ hist'.crossed = hist.crossed /\ hist'.last = "activate"
    BY <1>0, <2>1, Answered, Ended DEF Serves
  <2>3. ~hist.crossed => (Running /\ flag["ddos"])'
    BY <2>1 DEF SwitchInv, Progress, Running, At
  <2> QED BY <2>1, <2>2, <2>3, SwitchServes
<1>3. CASE WriteSwitch(p) \/ EnableObs(p) \/ Disable(p) \/ Restart(p)
  <2>1. /\ Done(p)
        /\ \/ UNCHANGED box /\ flag'["ddos"] = flag["ddos"] /\ ~Serves(p)
           \/ req[p].kind \in {"ddos", "restart crowdsec", "restart bouncer"}
           \/ UNCHANGED box /\ At(p, "disable") /\ req[p].kind = "deactivate" /\ ~flag'["ddos"]
    BY <1>0, <1>3, Finishes DEF docker, Serves
  <2>2. /\ req'[p].kind = None /\ req'[p].pc = "idle" /\ \A q \in Procs : q # p => req'[q] = req[q]
        /\ hist'.crossed = hist.crossed /\ hist'.last = IF Serves(p) THEN req[p].kind ELSE hist.last
    BY <1>0, <2>1, Answered, Ended DEF Serves
  <2>3. CASE UNCHANGED box /\ flag'["ddos"] = flag["ddos"] /\ ~Serves(p)
    BY <2>2, <2>3, SwitchAside DEF Healthy
  <2>4. CASE req[p].kind \in {"ddos", "restart crowdsec", "restart bouncer"}
    <3>1. Serves(p) /\ hist'.last \notin {"activate", "deactivate"}
      BY <2>2, <2>4 DEF Serves, Switching
    <3> QED BY <2>2, <3>1, SwitchServes
  <2>5. CASE UNCHANGED box /\ At(p, "disable") /\ req[p].kind = "deactivate" /\ ~flag'["ddos"]
    <3>1. Serves(p) /\ hist'.last = "deactivate"
      BY <2>2, <2>5 DEF Serves, Switching
    <3>2. ~hist.crossed => (Stopped /\ ~flag["ddos"])'
      BY <2>5 DEF SwitchInv, Progress, Stopped, At
    <3> QED BY <2>2, <3>1, <3>2, SwitchServes
  <2> QED BY <2>1, <2>3, <2>4, <2>5
<1>4. CASE StartGrafana(p)
  <2>1. /\ req' = [req EXCEPT ![p].pc = "obs"] /\ UNCHANGED <<flag, hist>>
        /\ box'["bouncer"] = box["bouncer"] /\ box'["crowdsec"] = box["crowdsec"]
    BY <1>0, <1>4, GrafanaStarts DEF config, Goto
  <2>2. req'[p].kind = req[p].kind /\ req'[p].pc = "obs" /\ \A q \in Procs : q # p => req'[q] = req[q]
    BY <1>0, <2>1, Onward DEF Stages
  <2> QED BY <2>1, <2>2, SwitchAside DEF Healthy
<1>5. CASE Stop(p)
  <2>1. /\ req[p].kind = "deactivate" /\ Serves(p) /\ UNCHANGED <<flag, hist>>
        /\ \/ At(p, "gate") /\ Goto(p, "stop") /\ box' = [box EXCEPT !["bouncer"].run = FALSE]
           \/ At(p, "stop") /\ Goto(p, "disable") /\ box' = [box EXCEPT !["crowdsec"].run = FALSE]
    BY <1>0, <1>5, Stops DEF config, Serves, Switching
  <2>2. /\ \/ At(p, "gate") /\ req'[p].pc = "stop" /\ ~box'["bouncer"].run
           \/ At(p, "stop") /\ req'[p].pc = "disable" /\ ~box'["crowdsec"].run
                            /\ box'["bouncer"].run = box["bouncer"].run
        /\ \A q \in Procs : q # p => req'[q] = req[q]
    <3>1. CASE At(p, "gate") /\ Goto(p, "stop") /\ box' = [box EXCEPT !["bouncer"].run = FALSE]
      <4>1. req'[p].pc = "stop" /\ \A q \in Procs : q # p => req'[q] = req[q]
        BY <1>0, <3>1, Onward DEF Goto, Stages
      <4>2. ~box'["bouncer"].run
        BY <1>0, <3>1, BoxStops, Containers
      <4> QED BY <3>1, <4>1, <4>2
    <3>2. CASE At(p, "stop") /\ Goto(p, "disable") /\ box' = [box EXCEPT !["crowdsec"].run = FALSE]
      <4>1. req'[p].pc = "disable" /\ \A q \in Procs : q # p => req'[q] = req[q]
        BY <1>0, <3>2, Onward DEF Goto, Stages
      <4>2. ~box'["crowdsec"].run /\ box'["bouncer"].run = box["bouncer"].run
        BY <1>0, <3>2, BoxStops, Containers
      <4> QED BY <3>2, <4>1, <4>2
    <3> QED BY <2>1, <3>1, <3>2
  <2>3. Progress(p) => Progress(p)'
    BY <2>2 DEF Progress, Healthy, At
  <2> QED BY <2>1, <2>2, <2>3, SwitchServes
<1> QED BY <1>1, <1>2, <1>3, <1>4, <1>5

LEMMA SwitchTrouble ==
  ASSUME KeyInv, SwitchInv, NEW p \in Procs, Fail(p) \/ ComposeHalf(p) \/ Die(p)
  PROVE  SwitchInv'
<1>0. StageInv /\ StageOK(p)
  BY DEF KeyInv, StageInv
<1>1. ASSUME Break(p)
      PROVE  /\ req'[p].pc = "idle" /\ req'[p].kind = None /\ \A q \in Procs : q # p => req'[q] = req[q]
             /\ hist'.crossed = hist.crossed /\ hist'.last = hist.last
  BY <1>0, <1>1, Breaks DEF Troubled
<1>2. CASE ComposeHalf(p)
  <2>1. At(p, "compose") /\ Break(p) /\ Serves(p)
    BY <1>0, <1>2, HalfComposed, Activations DEF At, Activating
  <2>2. Progress(p)'
    BY <1>1, <2>1 DEF Progress, Healthy, At
  <2> QED BY <1>1, <2>1, <2>2, SwitchServes
<1>3. ASSUME Break(p), UNCHANGED <<flag, box>> PROVE SwitchInv'
  BY <1>1, <1>3, SwitchAside DEF Healthy
<1>4. CASE Die(p)
  BY <1>0, <1>3, <1>4, Dies DEF config, docker
<1>5. CASE Fail(p)
  <2>1. UNCHANGED <<flag, box>>
    BY <1>0, <1>5, Fails DEF config, docker
  <2>2. ASSUME hist' = [hist EXCEPT !.crossed = TRUE] PROVE SwitchInv'
    BY <1>0, <2>2, Containers DEF SwitchInv, HistType
  <2>3. ASSUME req[p].pc = "thread", req' = [req EXCEPT ![p] = Idle],
               hist' = [hist EXCEPT !.last = "activate", !.mute = TRUE]
        PROVE  SwitchInv'
    <3>1. req'[p].kind = None /\ req'[p].pc = "idle" /\ \A q \in Procs : q # p => req'[q] = req[q]
      BY <1>0, <2>3, Ended
    <3>2. hist'.last = "activate" /\ hist'.crossed = hist.crossed
      BY <1>0, <2>3, Containers DEF HistType
    <3>3. Serves(p)
      BY <1>0, <2>3, Activations DEF Activating
    <3>4. ~hist.crossed => (Running /\ flag["ddos"])'
      BY <2>1, <2>3 DEF SwitchInv, Progress, Running, At
    <3> QED BY <3>1, <3>2, <3>3, <3>4, SwitchServes
  <2> QED BY <1>0, <1>3, <1>5, <2>1, <2>2, <2>3, Fails DEF At
<1> QED BY <1>2, <1>4, <1>5

LEMMA SwitchStep == KeyInv /\ SwitchInv /\ [SwNext]_swvars => SwitchInv'
<1> SUFFICES ASSUME KeyInv, SwitchInv, [SwNext]_swvars PROVE SwitchInv'
  OBVIOUS
<1>1. ASSUME \/ \E p \in Procs : Poll(p)
             \/ FirewallFlips \/ (\E a \in Alerts : Raise(a)) \/ UNCHANGED swvars
      PROVE  SwitchInv'
  <2>1. UNCHANGED <<flag, box, req, hist>>
    BY <1>1, Elsewhere DEF KeyInv, config, docker
  <2> QED BY <2>1 DEF SwitchInv, Answers, Progress, Running, Stopped, Serves, At
<1> QED BY SwKinds, <1>1, SwitchBegin, SwitchActivates, SwitchEnds, SwitchTrouble

(* After an activation that overlapped no other request of the switches and    *)
(* whose calls succeeded, both containers run and the module is on; after such *)
(* a deactivation both stand still and it is off.                              *)
THEOREM SwSwitchMatchesContainers == SwSpec => []SwitchMatchesContainers
<1>1. SwInit => SwitchInv
  <2> SUFFICES ASSUME SwInit PROVE SwitchInv
    OBVIOUS
  <2>1. hist.last = None /\ \A p \in Procs : req[p].pc = "idle"
    BY DEF SwInit, Idle
  <2> QED BY <2>1, SwConstants DEF SwitchInv, Answers, Progress, Healthy, Requested, At
<1>2. SwitchInv => SwitchMatchesContainers
  BY DEF SwitchInv, Answers, Running, Stopped, SwitchMatchesContainers
<1> QED BY <1>1, <1>2, KeyInit, KeyStep, SwitchStep, PTL DEF SwSpec
=============================================================================
