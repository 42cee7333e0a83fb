------------------------- MODULE ProxyRenderProofs --------------------------
(* Proofs about the proxy's configuration (ProxyRender), for any number of    *)
(* processes, sites, domains, ports, requests and troubles.                   *)
EXTENDS ProxyRender, TLAPS

\* Types, and the stages of a request.
ConfSet == [id : Ids, domain : Domains \cup Ids \cup {None}, text : Texts, limited : BOOLEAN, tls : BOOLEAN,
            port : Ports \cup {None}]
MapSet  == [id : Ids, geo : BOOLEAN]
FileSet == [confs : SUBSET ConfSet, zones : SUBSET Ids, geoip : SUBSET Ids, maps : SUBSET MapSet]
RowSet  == [is : {"new", "live", "gone"}, domain : Domains \cup Ids \cup {None}, text : Texts, limited : BOOLEAN,
            geo : BOOLEAN, le : BOOLEAN, status : {"none", "pending", "active", "error"}, rows : BOOLEAN,
            port : Ports \cup {None}, blocked : BOOLEAN]
Rendering == {"unlink", "shared", "list", "site", "rows"}
Resting   == {"idle", "save", "open", "release", "protect", "mark", "certbot"}
Stages    == Rendering \cup Resting \cup {"map", "test", "signal"}
ReqSet  == [kind : Kinds \cup {None}, id : Ids \cup {None}, pc : Stages, todo : SUBSET ConfSet,
            old : Ports \cup {None, "issued"}, new : Ports \cup {None}, crossed : BOOLEAN]
HistSet == [disk : BOOLEAN, live : BOOLEAN, torn : BOOLEAN, renamed : BOOLEAN,
            shared : SUBSET Ports, contended : SUBSET Ids, opened : SUBSET Ports]
PxTypes ==
  /\ db \in [Ids -> RowSet] /\ files \in FileSet /\ loaded \in FileSet \cup {None}
  /\ closed \subseteq Ports /\ req \in [Procs -> ReqSet] /\ hist \in HistSet
  /\ spent \in [Troubles \cup {"requests"} -> Nat]

RowOK(i) == db[i].is # "live" => db[i].port = None /\ ~db[i].blocked

ReqOK(r) ==
  /\ r.pc = "idle" => r = Idle
  /\ r.pc # "idle" => r.id \in Ids
  /\ r.pc \in {"save", "open"} => r.old = None /\ r.new = None
  /\ r.pc = "open" => r.kind = "delete"
  /\ r.pc # "idle" /\ r.kind = "console" => r.id = Console
  /\ r.pc = "map" => r.kind = "geo"
  /\ r.pc \in Rendering => r.kind # "geo"
  /\ r.pc = "certbot" => r.kind = "certificate"
  /\ r.old = "issued" => r.kind = "certificate"
  /\ r.kind = "certificate" => r.old \notin Ports
  /\ r.old \in Ports => r.kind = "upstream"
  /\ r.new \in Ports => r.kind \in {"create", "upstream"}
  /\ r.pc = "release" => r.old \in Ports
  /\ r.pc \in {"protect", "mark"} => r.new \in Ports

StageInv == PxTypes /\ (\A i \in Ids : RowOK(i)) /\ \A p \in Procs : ReqOK(req[p])

LEMMA PxConstants ==
  /\ None \notin Ids /\ None \notin Ports /\ None \notin Domains /\ "issued" \notin Ports /\ None # "issued"
  /\ Console \in Ids /\ First \subseteq Ids /\ Later \subseteq Ids
BY ProxyAssumption DEF Ids

LEMMA PxKinds ==
  ASSUME [Next]_vars
  PROVE  \/ \E p \in Procs :
              \/ Begin(p) \/ NotFound(p) \/ Rejected(p) \/ SaveForm(p) \/ RefuseHalf(p) \/ Create(p) \/ Upstream(p)
              \/ OpenForDelete(p) \/ Delete(p) \/ MovePanel(p) \/ SaveGeo(p) \/ WriteMap(p) \/ Unlink(p)
              \/ WriteShared(p) \/ ListSites(p) \/ WriteSite(p) \/ AddRows(p) \/ WriteMaps(p) \/ Test(p)
              \/ Signal(p) \/ Order(p) \/ Issue(p) \/ Release(p) \/ Protect(p) \/ Mark(p)
              \/ OpenByHand(p) \/ CloseByHand(p)
              \/ CertbotFails(p) \/ AgentFails(p) \/ DiskFails(p) \/ DockerFails(p) \/ Die(p)
         \/ Restart \/ Start \/ UNCHANGED vars
BY DEF Next, Step, Trouble

\* What the rows and the files of a typed state are.
LEMMA Facts ==
  ASSUME StageInv
  PROVE  /\ db \in [Ids -> RowSet] /\ files \in FileSet /\ loaded \in FileSet \cup {None}
         /\ closed \subseteq Ports /\ req \in [Procs -> ReqSet] /\ hist \in HistSet
         /\ spent \in [Troubles \cup {"requests"} -> Nat]
         /\ \A i \in Ids : db[i] \in RowSet /\ RowOK(i)
         /\ \A p \in Procs : req[p] \in ReqSet /\ ReqOK(req[p])
BY DEF StageInv, PxTypes

\* The others' requests stay; that of p changes its stage only, or ends.
Only(p)     == req' \in [Procs -> ReqSet] /\ \A q \in Procs : q # p => req'[q] = req[q]
Onto(p, pc) == /\ Only(p) /\ req'[p].pc = pc /\ req'[p].kind = req[p].kind /\ req'[p].id = req[p].id
               /\ req'[p].todo = req[p].todo /\ req'[p].old = req[p].old /\ req'[p].new = req[p].new
               /\ req'[p].crossed = req[p].crossed
Ended(p)    == Only(p) /\ req'[p] = Idle

LEMMA IdleType ==
  /\ Idle \in ReqSet /\ ReqOK(Idle) /\ Idle.pc = "idle" /\ Idle.old = None /\ Idle.new = None
  /\ Idle.kind = None /\ Idle.id = None /\ ~Idle.crossed /\ Idle.todo = {}
BY PxConstants DEF Idle, ReqSet, ReqOK, Stages, Resting, Rendering

LEMMA Goes ==
  ASSUME StageInv, NEW p \in Procs, NEW pc \in Stages, Goto(p, pc)
  PROVE  Onto(p, pc)
BY Facts DEF Goto, Onto, Only, ReqSet

LEMMA Ends ==
  ASSUME StageInv, NEW p \in Procs, req' = [req EXCEPT ![p] = Idle]
  PROVE  Ended(p)
BY Facts, IdleType DEF Ended, Only

LEMMA Spent ==
  ASSUME StageInv, NEW t \in Troubles, Spend(t)
  PROVE  spent' \in [Troubles \cup {"requests"} -> Nat]
<1>1. spent' = [spent EXCEPT ![t] = @ + 1]
  BY DEF Spend
<1> QED BY <1>1, Facts

LEMMA StageStays ==
  ASSUME StageInv, NEW p \in Procs, Only(p), ReqOK(req'[p]),
         db' \in [Ids -> RowSet], \A i \in Ids : RowOK(i)', files' \in FileSet, loaded' \in FileSet \cup {None},
         closed' \subseteq Ports, hist' \in HistSet, spent' \in [Troubles \cup {"requests"} -> Nat]
  PROVE  StageInv'
<1>1. \A q \in Procs : ReqOK(req'[q])
  BY DEF Only, StageInv
<1> QED BY <1>1 DEF Only, StageInv, PxTypes

LEMMA RowEdits ==
  ASSUME StageInv, NEW i \in Ids, NEW s \in RowSet, db' = [db EXCEPT ![i] = s],
         s.is # "live" => s.port = None /\ ~s.blocked
  PROVE  /\ db' \in [Ids -> RowSet] /\ (\A j \in Ids : RowOK(j)')
         /\ db'[i] = s /\ \A j \in Ids : j # i => db'[j] = db[j]
BY Facts DEF RowOK

\* The row of p's site is edited, but for what the firewall goes by.
Edited(p) == 
  /\ db' \in [Ids -> RowSet] /\ (\A j \in Ids : RowOK(j)') /\ req[p].id \in Ids
  /\ \A j \in Ids : j # req[p].id => db'[j] = db[j]
  /\ db'[req[p].id].is = Site(p).is /\ db'[req[p].id].port = Site(p).port /\ db'[req[p].id].blocked = Site(p).blocked

LEMMA EditedRow ==
  ASSUME StageInv, NEW p \in Procs, req[p].id \in Ids, NEW s \in RowSet, db' = [db EXCEPT ![req[p].id] = s],
         s.is = Site(p).is, s.port = Site(p).port, s.blocked = Site(p).blocked
  PROVE  Edited(p) /\ db'[req[p].id] = s
<1>1. s.is # "live" => s.port = None /\ ~s.blocked
  BY Facts DEF RowOK, Site
<1> QED BY <1>1, RowEdits DEF Edited

LEMMA SavedRow ==
  ASSUME StageInv, NEW i \in Ids, NEW k, NEW s \in Saved(k, db[i])
  PROVE  /\ s \in RowSet /\ s.is = db[i].is /\ s.port = db[i].port /\ s.blocked = db[i].blocked
         /\ s.domain = db[i].domain /\ s.geo = db[i].geo /\ (s.status = "active" => db[i].status = "active")
<1>1. db[i] \in RowSet
  BY Facts
<1>2. CASE k = "policy"
  <2>1. s = SavedPolicy(db[i])
    BY <1>2 DEF Saved
  <2>2. PICK x \in RowSet : x = db[i]
    BY <1>1
  <2>3. s = [x EXCEPT !.limited = ~x.limited]
    BY <2>1, <2>2 DEF SavedPolicy
  <2>4. s \in RowSet /\ s.is = x.is /\ s.port = x.port /\ s.blocked = x.blocked /\ s.domain = x.domain
        /\ s.geo = x.geo /\ s.status = x.status
    <3>1. s \in RowSet
      BY <2>3 DEF RowSet
    <3>2. /\ s.is = x.is /\ s.port = x.port /\ s.blocked = x.blocked /\ s.domain = x.domain
          /\ s.geo = x.geo /\ s.status = x.status
      BY <2>3 DEF RowSet
    <3> QED BY <3>1, <3>2
  <2> QED BY <2>2, <2>4
<1>3. CASE k = "tls"
  <2>1. PICK st \in {"none", "pending", "active", "error"}, le \in BOOLEAN :
           /\ s = [db[i] EXCEPT !.le = le, !.status = st] \/ \E x \in Texts : s = [db[i] EXCEPT !.text = x]
           /\ st = "active" => db[i].status = "active"
    <3> DEFINE st == IF db[i].le THEN "none" ELSE IF db[i].status = "active" THEN db[i].status ELSE "pending"
    <3>1. \/ s = [db[i] EXCEPT !.le = ~@, !.status = st]
          \/ \E x \in Named(db[i].text) : s = [db[i] EXCEPT !.text = x]
      BY <1>3 DEF Saved, SavedTls
    <3>4. Named(db[i].text) \subseteq Texts
      BY <1>1 DEF Named, Texts, RowSet
    <3>2. st \in {"none", "pending", "active", "error"} /\ (st = "active" => db[i].status = "active")
      OBVIOUS
    <3>3. db[i].le \in BOOLEAN
      BY <1>1 DEF RowSet
    <3> QED BY <3>1, <3>2, <3>3, <3>4
  <2>2. CASE s = [db[i] EXCEPT !.le = le, !.status = st]
    BY <1>1, <2>1, <2>2 DEF RowSet
  <2>3. CASE \E x \in Texts : s = [db[i] EXCEPT !.text = x]
    BY <1>1, <2>3 DEF RowSet
  <2> QED BY <2>1, <2>2, <2>3
<1>4. CASE k \notin {"policy", "tls"}
  <2>1. PICK x \in Texts : s = [db[i] EXCEPT !.text = x] \/ s = db[i]
    BY <1>4 DEF Texts, Saved, Written, SwitchTexts, RuleTexts, SnippetTexts, HeaderTexts, ExclusionTexts
  <2> QED BY <1>1, <2>1 DEF RowSet
<1> QED BY <1>2, <1>3, <1>4


LEMMA PxStageInit == Init => StageInv
<1> SUFFICES ASSUME Init PROVE StageInv
  OBVIOUS
<1> DEFINE x == CHOOSE port \in Ports : TRUE
           d == CHOOSE dom \in Domains : TRUE
           con == [Row(Console, d, None) EXCEPT !.rows = TRUE]
           fst(i) == [Row(i, i, x) EXCEPT !.rows = TRUE, !.le = TRUE, !.status = "active", !.blocked = TRUE]
<1>1. x \in Ports /\ d \in Domains
  BY ProxyAssumption
<1>2. /\ db = [i \in Ids |-> IF i = Console THEN [Row(i, d, None) EXCEPT !.rows = TRUE]
                             ELSE IF i \in First THEN fst(i) ELSE NewRow]
      /\ closed = {x} /\ certs = First /\ files = Rendered /\ loaded = files
      /\ req = [p \in Procs |-> Idle] /\ spent = [t \in Troubles \cup {"requests"} |-> 0]
      /\ hist = [disk |-> TRUE, live |-> TRUE, torn |-> FALSE, renamed |-> FALSE,
                 shared |-> Shared(db), contended |-> {}, opened |-> {}]
  BY DEF Init
<1> HIDE DEF x, d
<1>3. con \in RowSet /\ con.is = "live"
  BY <1>1, PxConstants DEF Row, NewRow, RowSet, Texts
<1>4. NewRow \in RowSet /\ NewRow.port = None /\ NewRow.blocked = FALSE
  BY DEF NewRow, RowSet, Texts
<1>5. ASSUME NEW i \in Ids PROVE fst(i) \in RowSet /\ fst(i).is = "live"
  BY <1>1, <1>5 DEF Row, NewRow, RowSet, Texts
<1> HIDE DEF con, fst
<1>6. \A i \in Ids : db[i] = con \/ db[i] = fst(i) \/ db[i] = NewRow
  BY <1>2 DEF con
<1>7. db \in [Ids -> RowSet]
  BY <1>2, <1>3, <1>4, <1>5, <1>6
<1>8. \A i \in Ids : RowOK(i)
  BY <1>3, <1>4, <1>5, <1>6 DEF RowOK
<1>9. files \in FileSet
  <2>1. \A i \in Ids : Conf(i) \in ConfSet /\ Map(i) \in MapSet
    BY <1>7 DEF Conf, Map, ConfSet, MapSet, RowSet, Tls, Text
  <2> QED BY <1>2, <2>1 DEF Rendered, FileSet, Live, Limited
<1>10. hist \in HistSet
  BY <1>2 DEF HistSet, Shared
<1>11. PxTypes
  BY <1>1, <1>2, <1>7, <1>9, <1>10, IdleType DEF PxTypes
<1> QED BY <1>2, <1>8, <1>11, IdleType DEF StageInv

\* The files that a render writes are typed.
LEMMA FileTypes ==
  ASSUME StageInv
  PROVE  /\ \A i \in Ids : Conf(i) \in ConfSet /\ Map(i) \in MapSet /\ Conf(i).id = i /\ Map(i).id = i
         /\ Live \subseteq Ids /\ Limited \subseteq Live
         /\ Rendered \in FileSet
<1>1. \A i \in Ids : Conf(i) \in ConfSet /\ Map(i) \in MapSet /\ Conf(i).id = i /\ Map(i).id = i
  BY Facts DEF Conf, Map, ConfSet, MapSet, RowSet, Tls, Text
<1>2. Live \subseteq Ids /\ Limited \subseteq Live
  BY DEF Live, Limited
<1> QED BY <1>1, <1>2 DEF Rendered, FileSet

\* A request that ends, or goes on, and nothing else but the history.
LEMMA StageEnds ==
  ASSUME StageInv, NEW p \in Procs, Ended(p), UNCHANGED <<files, loaded, closed>>,
         db' \in [Ids -> RowSet], \A i \in Ids : RowOK(i)', hist' \in HistSet,
         spent' \in [Troubles \cup {"requests"} -> Nat]
  PROVE  StageInv'
BY Facts, IdleType, StageStays DEF Ended

\* The forms: what they change of the row, and where the request goes.
Unmoved == UNCHANGED <<files, loaded, closed>>

LEMMA LeavesEarly ==
  ASSUME StageInv, NEW p \in Procs, NotFound(p) \/ Rejected(p)
  PROVE  /\ req[p].pc = "save" /\ Ended(p) /\ UNCHANGED <<db, files, loaded, certs, closed, hist>> /\ StageInv'
         /\ req[p].kind = "delete" => Site(p).is # "live"
<1>1. /\ req[p].pc = "save" /\ Done(p) /\ UNCHANGED <<db, files, loaded, certs, closed, hist, spent>>
      /\ req[p].kind = "delete" => Site(p).is # "live"
  BY DEF NotFound, Rejected, At, proxy, host, Edits
<1>2. Ended(p)
  BY <1>1, Ends DEF Done
<1>3. \A i \in Ids : RowOK(i)'
  BY <1>1 DEF StageInv, RowOK
<1> QED BY <1>1, <1>2, <1>3, Facts, StageEnds

LEMMA Saves ==
  ASSUME StageInv, NEW p \in Procs, SaveForm(p) \/ Order(p)
  PROVE  /\ req[p].pc = "save" /\ req[p].kind \in Edits \cup {"certificate"} /\ Site(p).is = "live"
         /\ Onto(p, "unlink") /\ Edited(p) /\ UNCHANGED <<files, loaded, certs, closed, hist>> /\ StageInv'
         /\ db'[req[p].id].domain = Site(p).domain
         /\ db'[req[p].id].status = "active" => Site(p).status = "active"
<1>1. /\ req[p].pc = "save" /\ req[p].kind \in Edits \cup {"certificate"} /\ Site(p).is = "live"
      /\ Goto(p, "unlink") /\ UNCHANGED <<files, loaded, certs, closed, hist, spent>>
  BY DEF SaveForm, Order, At, proxy, host
<1>2. req[p].id \in Ids /\ Onto(p, "unlink")
  BY <1>1, Facts, Goes DEF ReqOK, Stages, Rendering
<1>3. PICK s \in RowSet :
        /\ db' = [db EXCEPT ![req[p].id] = s] /\ s.is = Site(p).is /\ s.port = Site(p).port
        /\ s.blocked = Site(p).blocked /\ s.domain = Site(p).domain
        /\ s.status = "active" => Site(p).status = "active"
  <2>1. CASE SaveForm(p)
    <3>1. PICK s \in Saved(req[p].kind, Site(p)) : db' = [db EXCEPT ![req[p].id] = s]
      BY <2>1 DEF SaveForm
    <3>2. s \in Saved(req[p].kind, db[req[p].id])
      BY <3>1 DEF Site
    <3>3. /\ s \in RowSet /\ s.is = db[req[p].id].is /\ s.port = db[req[p].id].port
          /\ s.blocked = db[req[p].id].blocked /\ s.domain = db[req[p].id].domain
          /\ s.status = "active" => db[req[p].id].status = "active"
      BY <1>2, <3>2, SavedRow
    <3> QED BY <3>1, <3>3 DEF Site
  <2>2. CASE Order(p)
    <3> DEFINE s == [Site(p) EXCEPT !.status = "pending"]
    <3>1. db' = [db EXCEPT ![req[p].id] = s]
      BY <2>2 DEF Order, Site
    <3>2. Site(p) \in RowSet
      BY <1>2, Facts DEF Site
    <3>3. s \in RowSet /\ s.is = Site(p).is /\ s.port = Site(p).port
          /\ s.blocked = Site(p).blocked /\ s.domain = Site(p).domain /\ s.status = "pending"
      BY <3>2 DEF RowSet
    <3> QED BY <3>1, <3>3
  <2> QED BY <2>1, <2>2
<1>4. Edited(p) /\ db'[req[p].id] = s
  BY <1>2, <1>3, EditedRow
<1>5. ReqOK(req'[p])
  BY <1>1, <1>2, Facts DEF Onto, ReqOK, Rendering, Edits
<1>6. StageInv'
  BY <1>1, <1>2, <1>4, <1>5, Facts, StageStays DEF Onto, Edited
<1> QED BY <1>1, <1>2, <1>3, <1>4, <1>6

LEMMA SavesGeo ==
  ASSUME StageInv, NEW p \in Procs, SaveGeo(p)
  PROVE  /\ req[p].pc = "save" /\ req[p].kind = "geo" /\ Site(p).is = "live" /\ Onto(p, "map") /\ Edited(p)
         /\ db'[req[p].id].domain = Site(p).domain /\ db'[req[p].id].text = Site(p).text
         /\ db'[req[p].id].limited = Site(p).limited /\ db'[req[p].id].le = Site(p).le
         /\ db'[req[p].id].status = Site(p).status
         /\ UNCHANGED <<files, loaded, certs, closed, hist>> /\ StageInv'
<1>1. /\ req[p].pc = "save" /\ req[p].kind = "geo" /\ Site(p).is = "live" /\ Goto(p, "map")
      /\ UNCHANGED <<files, loaded, certs, closed, hist, spent>> /\ db' = [db EXCEPT ![req[p].id].geo = ~@]
  BY DEF SaveGeo, At, proxy, host
<1> DEFINE s == [Site(p) EXCEPT !.geo = ~@]
<1>2. req[p].id \in Ids /\ Onto(p, "map")
  BY <1>1, Facts, Goes DEF ReqOK, Stages
<1>3. Site(p) \in RowSet /\ db' = [db EXCEPT ![req[p].id] = s]
  BY <1>1, <1>2, Facts DEF Site
<1>4. /\ s \in RowSet /\ s.is = Site(p).is /\ s.port = Site(p).port /\ s.blocked = Site(p).blocked
      /\ s.domain = Site(p).domain /\ s.text = Site(p).text /\ s.limited = Site(p).limited
      /\ s.le = Site(p).le /\ s.status = Site(p).status
  BY <1>3 DEF RowSet
<1> HIDE DEF s
<1>5. Edited(p) /\ db'[req[p].id] = s
  BY <1>2, <1>3, <1>4, EditedRow
<1>6. ReqOK(req'[p])
  BY <1>1, <1>2, Facts DEF Onto, ReqOK, Rendering
<1>7. StageInv'
  BY <1>1, <1>2, <1>5, <1>6, Facts, StageStays DEF Onto, Edited
<1> QED BY <1>1, <1>2, <1>4, <1>5, <1>7

LEMMA HistTypes ==
  ASSUME StageInv
  PROVE  /\ Unrendered \in HistSet /\ Unrendered.torn = hist.torn /\ Unrendered.renamed = hist.renamed
         /\ ~Unrendered.disk /\ ~Unrendered.live
         /\ Unrendered.shared = hist.shared /\ Unrendered.contended = hist.contended
BY Facts DEF Unrendered, HistSet

\* A form is stored and nothing rendered.
LEMMA StoresOnly ==
  ASSUME StageInv, NEW p \in Procs, RefuseHalf(p) \/ MovePanel(p)
  PROVE  /\ req[p].pc = "save" /\ req[p].kind \in {"exclusions", "console"} /\ Ended(p) /\ Edited(p)
         /\ UNCHANGED <<files, loaded, certs, closed>> /\ StageInv'
         /\ ~hist'.disk /\ ~hist'.live /\ hist'.torn = hist.torn
         /\ hist'.shared = hist.shared /\ hist'.contended = hist.contended
         /\ db'[req[p].id].status = "active" => Site(p).status = "active"
         /\ hist.renamed => hist'.renamed
         /\ db'[req[p].id].status = "active" => hist'.renamed \/ db'[req[p].id].domain = Site(p).domain
<1>1. /\ req[p].pc = "save" /\ req[p].kind \in {"exclusions", "console"} /\ req' = [req EXCEPT ![p] = Idle]
      /\ UNCHANGED <<files, loaded, certs, closed, spent>>
  BY DEF RefuseHalf, MovePanel, Done, At, proxy, host
<1>2. req[p].id \in Ids /\ Ended(p) /\ (req[p].kind = "console" => req[p].id = Console)
  BY <1>1, Facts, Ends DEF ReqOK
<1>0. Site(p) \in RowSet
  BY <1>2, Facts DEF Site
<1>3. PICK s \in RowSet :
        /\ db' = [db EXCEPT ![req[p].id] = s] /\ s.is = Site(p).is /\ s.port = Site(p).port
        /\ s.blocked = Site(p).blocked
        /\ s.status = "active" => Site(p).status = "active"
        /\ s.status = "active" => hist'.renamed \/ s.domain = Site(p).domain
        /\ hist' \in HistSet /\ ~hist'.disk /\ ~hist'.live /\ hist'.torn = hist.torn
        /\ hist'.shared = hist.shared /\ hist'.contended = hist.contended
        /\ hist.renamed => hist'.renamed
  <2>1. CASE RefuseHalf(p)
    <3>1. hist' = Unrendered /\ \E s \in Saved("exclusions", Site(p)) : db' = [db EXCEPT ![req[p].id] = s]
      BY <2>1 DEF RefuseHalf
    <3>2. PICK s \in Saved("exclusions", db[req[p].id]) : db' = [db EXCEPT ![req[p].id] = s]
      BY <3>1 DEF Site
    <3>3. /\ s \in RowSet /\ s.is = db[req[p].id].is /\ s.port = db[req[p].id].port
          /\ s.blocked = db[req[p].id].blocked /\ s.domain = db[req[p].id].domain
          /\ s.status = "active" => db[req[p].id].status = "active"
      BY <1>2, <3>2, SavedRow
    <3> QED BY <3>1, <3>2, <3>3, HistTypes DEF Site
  <2>2. CASE MovePanel(p)
    <3>1. PICK d \in Domains : db' = [db EXCEPT ![Console].domain = d]
      BY <2>2 DEF MovePanel
    <3>2. req[p].id = Console
      BY <1>2, <2>2 DEF MovePanel
    <3> DEFINE s == [Site(p) EXCEPT !.domain = d]
    <3>3. db' = [db EXCEPT ![req[p].id] = s]
      BY <3>1, <3>2 DEF Site
    <3>4. /\ s \in RowSet /\ s.is = Site(p).is /\ s.port = Site(p).port /\ s.blocked = Site(p).blocked
          /\ s.status = Site(p).status
      BY <1>0 DEF RowSet
    <3> DEFINE b == Site(p).status \in {"pending", "active"}
    <3>5. hist' = [Unrendered EXCEPT !.renamed = @ \/ b]
      BY <2>2 DEF MovePanel
    <3>6. b \in BOOLEAN /\ (s.status = "active" => b)
      BY <3>4
    <3> HIDE DEF s, b
    <3>7. /\ hist' \in HistSet /\ ~hist'.disk /\ ~hist'.live /\ hist'.torn = hist.torn
          /\ hist'.shared = hist.shared /\ hist'.contended = hist.contended
          /\ hist.renamed => hist'.renamed
          /\ b => hist'.renamed
      BY <3>5, <3>6, HistTypes DEF HistSet
    <3> QED BY <3>3, <3>4, <3>6, <3>7
  <2> QED BY <2>1, <2>2
<1>4. Edited(p) /\ db'[req[p].id] = s
  BY <1>2, <1>3, EditedRow
<1>5. StageInv'
  BY <1>1, <1>2, <1>3, <1>4, Facts, StageEnds DEF Edited
<1> QED BY <1>1, <1>2, <1>3, <1>4, <1>5

\* The row is there, or the request finds it taken.
LEMMA Creates ==
  ASSUME StageInv, NEW p \in Procs, Create(p)
  PROVE  /\ req[p].pc = "save" /\ req[p].kind = "create" /\ UNCHANGED <<files, loaded, certs, closed>> /\ StageInv'
         /\ \/ Ended(p) /\ UNCHANGED <<db, hist>>
            \/ /\ Site(p).is = "new" /\ Only(p) /\ req[p].id \in Ids
               /\ req'[p].pc = "unlink" /\ req'[p].kind = "create" /\ req'[p].id = req[p].id
               /\ req'[p].crossed = req[p].crossed /\ req'[p].old = None
               /\ req'[p].new = db'[req[p].id].port
               /\ \A j \in Ids : j # req[p].id => db'[j] = db[j]
               /\ ~db'[req[p].id].blocked /\ db'[req[p].id].status = "none" /\ db'[req[p].id].is = "live"
               /\ hist'.shared = hist.shared \cup Shared(db') /\ hist'.contended = hist.contended
               /\ hist'.disk = hist.disk /\ hist'.live = hist.live /\ hist'.torn = hist.torn
               /\ hist'.renamed = hist.renamed
<1>1. req[p].pc = "save" /\ req[p].kind = "create" /\ UNCHANGED <<files, loaded, certs, closed, spent>>
  BY DEF Create, At, proxy, host
<1>0. req[p].id \in Ids /\ req[p].old = None /\ req[p] \in ReqSet
  BY <1>1, Facts DEF ReqOK
<1>2. CASE Site(p).is # "new"
  <2>1. Ended(p) /\ UNCHANGED <<db, hist>>
    BY <1>2, Ends DEF Create, Done
  <2>2. \A i \in Ids : RowOK(i)'
    BY <2>1 DEF StageInv, RowOK
  <2> QED BY <1>1, <2>1, <2>2, Facts, StageEnds
<1>3. CASE Site(p).is = "new"
  <2>1. PICK le \in Encrypted, port \in Ports \cup {None}, text \in Texts :
             /\ db' = [db EXCEPT ![req[p].id] = [Row(req[p].id, req[p].id, port) EXCEPT !.le = le, !.text = text]]
             /\ req' = [req EXCEPT ![p].pc = "unlink", ![p].new = port]
    <3>1. Named("old") \subseteq Texts
      BY DEF Named, Texts
    <3>2. \E le \in Encrypted, port \in Ports \cup {None}, text \in Named("old") :
             /\ db' = [db EXCEPT ![req[p].id] = [Row(req[p].id, req[p].id, port) EXCEPT !.le = le, !.text = text]]
             /\ req' = [req EXCEPT ![p].pc = "unlink", ![p].new = port]
      BY <1>3 DEF Create
    <3> QED BY <3>1, <3>2
  <2> DEFINE s == [Row(req[p].id, req[p].id, port) EXCEPT !.le = le, !.text = text]
  <2>2. s \in RowSet /\ s.is = "live" /\ s.port = port /\ ~s.blocked /\ s.status = "none"
    BY <1>0, ProxyAssumption DEF Row, NewRow, RowSet, Texts
  <2> HIDE DEF s
  <2>3. /\ db' \in [Ids -> RowSet] /\ (\A j \in Ids : RowOK(j)')
        /\ db'[req[p].id] = s /\ \A j \in Ids : j # req[p].id => db'[j] = db[j]
    BY <1>0, <2>1, <2>2, RowEdits DEF s
  <2>4. /\ Only(p) /\ req'[p].pc = "unlink" /\ req'[p].kind = req[p].kind /\ req'[p].id = req[p].id
        /\ req'[p].crossed = req[p].crossed /\ req'[p].old = req[p].old /\ req'[p].new = port
    <3> DEFINE r == [req[p] EXCEPT !.pc = "unlink", !.new = port]
    <3>1. r \in ReqSet /\ r.pc = "unlink" /\ r.new = port /\ r.kind = req[p].kind /\ r.id = req[p].id
          /\ r.crossed = req[p].crossed /\ r.old = req[p].old
      BY <1>0 DEF ReqSet, Stages, Rendering
    <3>2. req' = [req EXCEPT ![p] = r]
      BY <2>1
    <3> HIDE DEF r
    <3>3. req \in [Procs -> ReqSet]
      BY Facts
    <3> QED BY <3>1, <3>2, <3>3 DEF Only
  <2>5. ReqOK(req'[p])
    BY <1>0, <1>1, <2>4, PxConstants DEF ReqOK, Rendering
  <2>6. /\ hist' = [hist EXCEPT !.shared = @ \cup Shared(db')] /\ Shared(db') \subseteq Ports
    BY <1>3 DEF Create, Shared
  <2>7. /\ hist' \in HistSet /\ hist'.shared = hist.shared \cup Shared(db') /\ hist'.contended = hist.contended
        /\ hist'.disk = hist.disk /\ hist'.live = hist.live /\ hist'.torn = hist.torn
        /\ hist'.renamed = hist.renamed
    BY <2>6, Facts DEF HistSet
  <2>8. StageInv'
    BY <1>1, <2>3, <2>4, <2>5, <2>7, Facts, StageStays
  <2> QED BY <1>0, <1>1, <1>3, <2>2, <2>3, <2>4, <2>7, <2>8
<1> QED BY <1>2, <1>3

LEMMA MovesUpstream ==
  ASSUME StageInv, NEW p \in Procs, Upstream(p)
  PROVE  /\ req[p].pc = "save" /\ req[p].kind = "upstream" /\ UNCHANGED <<files, loaded, certs, closed>> /\ StageInv'
         /\ Site(p).is = "live" /\ Only(p) /\ req[p].id \in Ids
         /\ req'[p].pc = "unlink" /\ req'[p].kind = "upstream" /\ req'[p].id = req[p].id
         /\ req'[p].crossed = req[p].crossed /\ req'[p].old \in {None, Site(p).port}
         /\ req'[p].new = db'[req[p].id].port
         /\ \A j \in Ids : j # req[p].id => db'[j] = db[j]
         /\ ~db'[req[p].id].blocked /\ db'[req[p].id].status = Site(p).status
         /\ db'[req[p].id].domain = Site(p).domain /\ db'[req[p].id].is = "live"
         /\ hist'.shared = hist.shared \cup Shared(db') /\ hist'.contended = hist.contended
         /\ hist'.disk = hist.disk /\ hist'.live = hist.live /\ hist'.torn = hist.torn
         /\ hist'.renamed = hist.renamed
<1>1. /\ req[p].pc = "save" /\ req[p].kind = "upstream" /\ UNCHANGED <<files, loaded, certs, closed, spent>>
      /\ Site(p).is = "live"
  BY DEF Upstream, At, proxy, host
<1>0. req[p].id \in Ids /\ req[p] \in ReqSet /\ Site(p) \in RowSet
  BY <1>1, Facts DEF ReqOK, Site
<1>2. PICK port \in Ports \cup {None}, text \in Texts :
         /\ db' = [db EXCEPT ![req[p].id].port = port, ![req[p].id].text = text, ![req[p].id].blocked = FALSE]
         /\ hist' = [hist EXCEPT !.shared = @ \cup Shared(db')]
         /\ req' = [req EXCEPT ![p].pc = "unlink", ![p].new = port,
                              ![p].old = IF Site(p).blocked THEN Site(p).port ELSE None]
  <2>1. Named(Site(p).text) \subseteq Texts
    BY <1>0 DEF Named, Texts, RowSet
  <2> QED BY <2>1 DEF Upstream
<1> DEFINE s == [Site(p) EXCEPT !.port = port, !.text = text, !.blocked = FALSE]
           old == IF Site(p).blocked THEN Site(p).port ELSE None
<1>3. /\ s \in RowSet /\ s.is = "live" /\ s.port = port /\ ~s.blocked /\ s.status = Site(p).status
      /\ s.domain = Site(p).domain
  BY <1>0, <1>1 DEF RowSet
<1>4. db' = [db EXCEPT ![req[p].id] = s]
  BY <1>0, <1>2, Facts DEF Site
<1>5. old \in Ports \cup {None} /\ old \in {None, Site(p).port}
  BY <1>0, PxConstants DEF RowSet
<1> HIDE DEF s, old
<1>6. /\ db' \in [Ids -> RowSet] /\ (\A j \in Ids : RowOK(j)')
      /\ db'[req[p].id] = s /\ \A j \in Ids : j # req[p].id => db'[j] = db[j]
  BY <1>0, <1>3, <1>4, RowEdits
<1>7. req' = [req EXCEPT ![p].pc = "unlink", ![p].new = port, ![p].old = old]
  BY <1>2 DEF old
<1>8. /\ Only(p) /\ req'[p].pc = "unlink" /\ req'[p].kind = req[p].kind /\ req'[p].id = req[p].id
      /\ req'[p].crossed = req[p].crossed /\ req'[p].old = old /\ req'[p].new = port
  <2>1. /\ port \in Ports \cup {None} /\ old \in Ports \cup {None, "issued"} /\ "unlink" \in Stages
        /\ req \in [Procs -> ReqSet]
    BY <1>5, Facts DEF Stages, Rendering
  <2> DEFINE r == [req[p] EXCEPT !.pc = "unlink", !.new = port, !.old = old]
  <2>2. /\ r \in ReqSet /\ r.pc = "unlink" /\ r.kind = req[p].kind /\ r.id = req[p].id
        /\ r.crossed = req[p].crossed /\ r.old = old /\ r.new = port
    BY <1>0, <2>1 DEF ReqSet
  <2>3. req' = [req EXCEPT ![p] = r]
    BY <1>7, <2>1
  <2> HIDE DEF r
  <2> QED BY <2>1, <2>2, <2>3 DEF Only
<1>9. ReqOK(req'[p])
  BY <1>0, <1>1, <1>5, <1>8, PxConstants DEF ReqOK, Rendering
<1>10. Shared(db') \subseteq Ports
  BY DEF Shared
<1>11. /\ hist' \in HistSet /\ hist'.shared = hist.shared \cup Shared(db') /\ hist'.contended = hist.contended
       /\ hist'.disk = hist.disk /\ hist'.live = hist.live /\ hist'.torn = hist.torn
       /\ hist'.renamed = hist.renamed
  BY <1>2, <1>10, Facts DEF HistSet
<1>12. StageInv'
  BY <1>1, <1>6, <1>8, <1>9, <1>11, Facts, StageStays
<1> QED BY <1>0, <1>1, <1>3, <1>5, <1>6, <1>8, <1>11, <1>12

LEMMA Deletes ==
  ASSUME StageInv, NEW p \in Procs, Delete(p)
  PROVE  /\ req[p].pc = "save" /\ req[p].kind = "delete" /\ UNCHANGED <<files, loaded, certs, closed, hist>> /\ StageInv'
         /\ Site(p).is = "live" /\ Onto(p, "unlink") /\ req[p].id \in Ids
         /\ db'[req[p].id].is = "gone" /\ db'[req[p].id].port = None /\ db'[req[p].id].status = "none"
         /\ \A j \in Ids : j # req[p].id => db'[j] = db[j]
<1>1. /\ req[p].pc = "save" /\ req[p].kind = "delete" /\ UNCHANGED <<files, loaded, certs, closed, hist, spent>>
      /\ Site(p).is = "live" /\ Goto(p, "unlink")
  BY DEF Delete, At, proxy, host
<1>2. req[p].id \in Ids /\ Onto(p, "unlink")
  BY <1>1, Facts, Goes DEF ReqOK, Stages, Rendering
<1> DEFINE s == [NewRow EXCEPT !.is = "gone"]
<1>3. s \in RowSet /\ s.is = "gone" /\ s.port = None /\ s.blocked = FALSE /\ s.status = "none"
  BY DEF NewRow, RowSet, Texts
<1>4. db' = [db EXCEPT ![req[p].id] = s]
  BY DEF Delete
<1> HIDE DEF s
<1>5. /\ db' \in [Ids -> RowSet] /\ (\A j \in Ids : RowOK(j)')
      /\ db'[req[p].id] = s /\ \A j \in Ids : j # req[p].id => db'[j] = db[j]
  BY <1>2, <1>3, <1>4, RowEdits
<1>6. ReqOK(req'[p])
  BY <1>1, <1>2, Facts DEF Onto, ReqOK, Rendering
<1>7. StageInv'
  BY <1>1, <1>2, <1>5, <1>6, Facts, StageStays DEF Onto
<1> QED BY <1>1, <1>2, <1>3, <1>5, <1>7

\* The request of p goes on, with other sites to write.
Carries(p, pc) ==
  /\ Only(p) /\ req'[p].pc = pc /\ req'[p].kind = req[p].kind /\ req'[p].id = req[p].id
  /\ req'[p].old = req[p].old /\ req'[p].new = req[p].new /\ req'[p].crossed = req[p].crossed

\* The request of p gets a new record.
LEMMA Replaced ==
  ASSUME StageInv, NEW p \in Procs, NEW r \in ReqSet, req' = [req EXCEPT ![p] = r]
  PROVE  Only(p) /\ req'[p] = r
BY Facts DEF Only

LEMMA TodoCarries ==
  ASSUME StageInv, NEW p \in Procs, NEW pc \in Stages, NEW t \in SUBSET ConfSet,
         req' = [req EXCEPT ![p].pc = pc, ![p].todo = t]
  PROVE  Carries(p, pc) /\ req'[p].todo = t
<1> DEFINE r == [req[p] EXCEPT !.pc = pc, !.todo = t]
<1>1. req[p] \in ReqSet
  BY Facts
<1>2. /\ r \in ReqSet /\ r.pc = pc /\ r.todo = t /\ r.kind = req[p].kind /\ r.id = req[p].id
      /\ r.old = req[p].old /\ r.new = req[p].new /\ r.crossed = req[p].crossed
  BY <1>1 DEF ReqSet
<1>3. req' = [req EXCEPT ![p] = r]
  OBVIOUS
<1> HIDE DEF r
<1> QED BY <1>2, <1>3, Replaced DEF Carries

LEMMA StageCarries ==
  ASSUME StageInv, NEW p \in Procs, NEW pc \in Rendering \cup {"test"}, Carries(p, pc),
         req[p].pc \in Rendering \/ (pc = "test" /\ req[p].pc = "map"),
         db' \in [Ids -> RowSet], \A i \in Ids : RowOK(i)', files' \in FileSet, UNCHANGED <<loaded, closed, hist, spent>>
  PROVE  StageInv'
<1>1. ReqOK(req'[p])
  BY Facts DEF Carries, ReqOK, Rendering
<1> QED BY <1>1, Facts, StageStays DEF Carries

LEMMA SameRows ==
  ASSUME StageInv, UNCHANGED db
  PROVE  db' \in [Ids -> RowSet] /\ \A i \in Ids : RowOK(i)'
BY Facts DEF RowOK

LEMMA Renders ==
  ASSUME StageInv, NEW p \in Procs, Unlink(p) \/ WriteShared(p) \/ ListSites(p)
  PROVE  /\ \/ /\ req[p].pc = "unlink" /\ Carries(p, "shared") /\ files'.confs = {}
            \/ /\ req[p].pc = "shared" /\ Carries(p, "list") /\ files'.confs = files.confs
               /\ files'.zones = Limited /\ files'.geoip = Live /\ files'.maps = {}
            \/ /\ req[p].pc = "list" /\ Carries(p, "site") /\ UNCHANGED files
               /\ req'[p].todo = {Conf(i) : i \in Live}
         /\ UNCHANGED <<db, loaded, certs, closed, hist>> /\ StageInv'
<1>1. UNCHANGED <<db, loaded, certs, closed, hist, spent>>
  BY DEF Unlink, WriteShared, ListSites, host, proxy
<1>2. CASE Unlink(p)
  <2>1. req[p].pc = "unlink" /\ files' = [files EXCEPT !.confs = {}] /\ Goto(p, "shared")
    BY <1>2 DEF Unlink, At
  <2>2. files' \in FileSet /\ files'.confs = {}
    BY <2>1, Facts DEF FileSet
  <2>3. Carries(p, "shared")
    BY <2>1, Goes DEF Onto, Carries, Stages, Rendering
  <2> QED BY <1>1, <2>1, <2>2, <2>3, SameRows, StageCarries DEF Rendering
<1>3. CASE WriteShared(p)
  <2>1. /\ req[p].pc = "shared" /\ files' = [files EXCEPT !.zones = Limited, !.geoip = Live, !.maps = {}]
        /\ Goto(p, "list")
    BY <1>3 DEF WriteShared, At
  <2>2. /\ files' \in FileSet /\ files'.confs = files.confs
        /\ files'.zones = Limited /\ files'.geoip = Live /\ files'.maps = {}
    BY <2>1, Facts, FileTypes DEF FileSet
  <2>3. Carries(p, "list")
    BY <2>1, Goes DEF Onto, Carries, Stages, Rendering
  <2> QED BY <1>1, <2>1, <2>2, <2>3, SameRows, StageCarries DEF Rendering
<1>4. CASE ListSites(p)
  <2> DEFINE t == {Conf(i) : i \in Live}
  <2>1. req[p].pc = "list" /\ UNCHANGED files /\ req' = [req EXCEPT ![p].pc = "site", ![p].todo = t]
    BY <1>4 DEF ListSites, At, proxy
  <2>2. t \subseteq ConfSet
    BY FileTypes
  <2> HIDE DEF t
  <2>3. Carries(p, "site") /\ req'[p].todo = t
    BY <2>1, <2>2, TodoCarries DEF Stages, Rendering
  <2>4. StageInv'
    BY <1>1, <2>1, <2>3, SameRows, Facts, StageCarries DEF Rendering
  <2> QED BY <1>1, <2>1, <2>3, <2>4 DEF t
<1> QED BY <1>2, <1>3, <1>4

\* The database turns a request down.
LEMMA Turns ==
  ASSUME StageInv, NEW p \in Procs, Turned(p)
  PROVE  /\ Ended(p) /\ hist' \in HistSet /\ hist'.torn /\ ~hist'.disk /\ ~hist'.live
         /\ hist'.shared = hist.shared /\ hist'.contended = hist.contended /\ hist'.renamed = hist.renamed
BY Ends, Facts DEF Turned, HistSet

LEMMA WritesSite ==
  ASSUME StageInv, NEW p \in Procs, WriteSite(p)
  PROVE  /\ req[p].pc = "site" /\ UNCHANGED <<db, loaded, certs, closed>> /\ StageInv'
         /\ hist'.shared = hist.shared /\ hist'.contended = hist.contended /\ hist'.renamed = hist.renamed
         /\ \/ Ended(p) /\ UNCHANGED files /\ hist'.torn /\ ~hist'.disk /\ ~hist'.live
            \/ Carries(p, "rows") /\ UNCHANGED <<files, hist>> /\ req'[p].todo = req[p].todo
            \/ /\ Carries(p, "site") /\ UNCHANGED hist
               /\ files'.zones = files.zones /\ files'.geoip = files.geoip /\ files'.maps = files.maps
               /\ \E c \in req[p].todo :
                    /\ files'.confs = {f \in files.confs : f.id # c.id \/ f.domain # c.domain} \cup {c}
                    /\ req'[p].todo = req[p].todo \ {c}
<1>1. req[p].pc = "site" /\ UNCHANGED <<db, loaded, certs, closed, spent>>
  BY DEF WriteSite, host, At
<1>2. PICK c \in req[p].todo :
         \/ Turned(p) /\ UNCHANGED files
         \/ Goto(p, "rows") /\ UNCHANGED <<files, hist>>
         \/ /\ files' = [files EXCEPT !.confs = {f \in @ : f.id # c.id \/ f.domain # c.domain} \cup {c}]
            /\ req' = [req EXCEPT ![p].todo = @ \ {c}]
            /\ UNCHANGED hist
  BY DEF WriteSite
<1>3. CASE Turned(p) /\ UNCHANGED files
  BY <1>1, <1>3, Turns, SameRows, Facts, StageEnds
<1>4. CASE Goto(p, "rows") /\ UNCHANGED <<files, hist>>
  <2>1. Carries(p, "rows") /\ req'[p].todo = req[p].todo
    BY <1>4, Goes DEF Onto, Carries, Stages, Rendering
  <2> QED BY <1>1, <1>4, <2>1, SameRows, Facts, StageCarries DEF Rendering
<1>5. CASE /\ files' = [files EXCEPT !.confs = {f \in @ : f.id # c.id \/ f.domain # c.domain} \cup {c}]
           /\ req' = [req EXCEPT ![p].todo = @ \ {c}]
           /\ UNCHANGED hist
  <2> DEFINE new == {f \in files.confs : f.id # c.id \/ f.domain # c.domain} \cup {c}
             rest == req[p].todo \ {c}
  <2>1. files' = [files EXCEPT !.confs = new] /\ req' = [req EXCEPT ![p].todo = rest]
    BY <1>5
  <2>2. c \in ConfSet /\ new \subseteq ConfSet /\ rest \subseteq ConfSet
    <3>1. req[p].todo \subseteq ConfSet /\ files.confs \subseteq ConfSet
      BY Facts DEF ReqSet, FileSet
    <3> QED BY <3>1
  <2> HIDE DEF new, rest
  <2>3. /\ files' \in FileSet /\ files'.confs = new
        /\ files'.zones = files.zones /\ files'.geoip = files.geoip /\ files'.maps = files.maps
    BY <2>1, <2>2, Facts DEF FileSet
  <2>4. Carries(p, "site") /\ req'[p].todo = rest
    BY <1>1, <2>1, <2>2, Facts DEF Carries, Only, ReqSet
  <2>5. StageInv'
    BY <1>1, <1>5, <2>3, <2>4, SameRows, Facts, StageCarries DEF Rendering
  <2> QED BY <1>1, <1>5, <2>3, <2>4, <2>5 DEF new, rest
<1> QED BY <1>2, <1>3, <1>4, <1>5

LEMMA AddsRows ==
  ASSUME StageInv, NEW p \in Procs, AddRows(p)
  PROVE  /\ req[p].pc = "rows" /\ UNCHANGED <<files, loaded, certs, closed>> /\ StageInv'
         /\ hist'.shared = hist.shared /\ hist'.contended = hist.contended /\ hist'.renamed = hist.renamed
         /\ \/ Ended(p) /\ UNCHANGED db /\ hist'.torn /\ ~hist'.disk /\ ~hist'.live
            \/ /\ Carries(p, "site") /\ UNCHANGED hist
               /\ \E i \in Ids : db' = [db EXCEPT ![i].rows = TRUE]
               /\ req'[p].todo = {IF db[c.id].is = "live" THEN Conf(c.id) ELSE c : c \in req[p].todo}
<1>1. req[p].pc = "rows" /\ UNCHANGED <<files, loaded, certs, closed, spent>>
  BY DEF AddRows, host, At, proxy
<1> DEFINE t == {IF db[c.id].is = "live" THEN Conf(c.id) ELSE c : c \in req[p].todo}
<1>0. req[p].todo \subseteq ConfSet /\ \A c \in req[p].todo : c.id \in Ids
  BY Facts DEF ReqSet, ConfSet
<1>2. \/ Turned(p) /\ UNCHANGED db
      \/ /\ \E i \in {c.id : c \in req[p].todo} : db' = [db EXCEPT ![i].rows = TRUE]
         /\ req' = [req EXCEPT ![p].pc = "site", ![p].todo = t]
         /\ UNCHANGED hist
  BY DEF AddRows
<1>3. CASE Turned(p) /\ UNCHANGED db
  BY <1>1, <1>3, Turns, SameRows, Facts, StageEnds
<1>4. ASSUME NEW i \in Ids, db' = [db EXCEPT ![i].rows = TRUE],
             req' = [req EXCEPT ![p].pc = "site", ![p].todo = t], UNCHANGED hist
      PROVE  Carries(p, "site") /\ req'[p].todo = t /\ StageInv'
  <2>1. t \subseteq ConfSet
    BY <1>0, FileTypes
  <2> HIDE DEF t
  <2>2. Carries(p, "site") /\ req'[p].todo = t
    BY <1>4, <2>1, TodoCarries DEF Stages, Rendering
  <2>3. db' \in [Ids -> RowSet] /\ \A j \in Ids : RowOK(j)'
    <3> DEFINE s == [db[i] EXCEPT !.rows = TRUE]
    <3>1. db[i] \in RowSet
      BY Facts
    <3>2. s \in RowSet /\ s.is = db[i].is /\ s.port = db[i].port /\ s.blocked = db[i].blocked
      BY <3>1 DEF RowSet
    <3>3. db' = [db EXCEPT ![i] = s]
      BY <1>4
    <3> HIDE DEF s
    <3>4. s.is # "live" => s.port = None /\ ~s.blocked
      BY <3>2, Facts DEF RowOK
    <3> QED BY <3>2, <3>3, <3>4, RowEdits
  <2> QED BY <1>1, <1>4, <2>2, <2>3, Facts, StageCarries DEF Rendering
<1> HIDE DEF t
<1>5. CASE /\ \E i \in {c.id : c \in req[p].todo} : db' = [db EXCEPT ![i].rows = TRUE]
           /\ req' = [req EXCEPT ![p].pc = "site", ![p].todo = t]
           /\ UNCHANGED hist
  <2>1. PICK i \in Ids : db' = [db EXCEPT ![i].rows = TRUE]
    BY <1>0, <1>5
  <2> QED BY <1>1, <1>4, <1>5, <2>1 DEF t
<1> QED BY <1>2, <1>3, <1>5

LEMMA WritesMaps ==
  ASSUME StageInv, NEW p \in Procs, WriteMaps(p)
  PROVE  /\ req[p].pc = "site" /\ req[p].todo = {} /\ UNCHANGED <<db, loaded, certs, closed>> /\ StageInv'
         /\ hist'.shared = hist.shared /\ hist'.contended = hist.contended /\ hist'.renamed = hist.renamed
         /\ files'.zones = files.zones /\ files'.geoip = files.geoip /\ files'.confs = files.confs
         /\ files'.maps = Without(files.maps, Live) \cup {Map(i) : i \in Live}
         /\ files' \in FileSet
         /\ \/ Carries(p, "test") /\ UNCHANGED hist
            \/ /\ Ended(p) /\ req[p].kind = "download"
               /\ req[p].crossed => hist' = hist
               /\ ~req[p].crossed => hist'.disk /\ ~hist'.live /\ ~hist'.torn
<1> DEFINE m == Without(files.maps, Live) \cup {Map(i) : i \in Live}
<1>1. /\ req[p].pc = "site" /\ req[p].todo = {} /\ UNCHANGED <<db, loaded, certs, closed, spent>>
      /\ files' = [files EXCEPT !.maps = m]
      /\ \/ Goto(p, "test") /\ UNCHANGED hist
         \/ /\ Done(p) /\ req[p].kind = "download"
            /\ hist' = IF req[p].crossed THEN hist
                       ELSE [hist EXCEPT !.disk = TRUE, !.live = FALSE, !.torn = FALSE]
  BY DEF WriteMaps, At, host, Reloads
<1>2. m \subseteq MapSet
  BY FileTypes, Facts DEF Without, FileSet
<1> HIDE DEF m
<1>3. /\ files'.zones = files.zones /\ files'.geoip = files.geoip /\ files'.confs = files.confs
      /\ files'.maps = m /\ files' \in FileSet
  BY <1>1, <1>2, Facts DEF FileSet
<1>4. CASE Goto(p, "test") /\ UNCHANGED hist
  <2>1. Carries(p, "test")
    BY <1>4, Goes DEF Onto, Carries, Stages
  <2> QED BY <1>1, <1>3, <1>4, <2>1, SameRows, StageCarries DEF Rendering, m
<1>5. CASE /\ Done(p) /\ req[p].kind = "download"
           /\ hist' = IF req[p].crossed THEN hist
                      ELSE [hist EXCEPT !.disk = TRUE, !.live = FALSE, !.torn = FALSE]
  <2>1. Ended(p)
    BY <1>5, Ends DEF Done
  <2>2. /\ hist' \in HistSet
        /\ hist'.shared = hist.shared /\ hist'.contended = hist.contended /\ hist'.renamed = hist.renamed
        /\ req[p].crossed => hist' = hist
        /\ ~req[p].crossed => hist'.disk /\ ~hist'.live /\ ~hist'.torn
    BY <1>5, Facts DEF HistSet
  <2>3. StageInv'
    BY <1>1, <1>3, <2>1, <2>2, SameRows, Facts, IdleType, StageStays DEF Ended
  <2> QED BY <1>1, <1>3, <1>5, <2>1, <2>2, <2>3 DEF m
<1> QED BY <1>1, <1>4, <1>5

LEMMA WritesMap ==
  ASSUME StageInv, NEW p \in Procs, WriteMap(p)
  PROVE  /\ req[p].pc = "map" /\ UNCHANGED <<db, loaded, certs, closed, hist>> /\ StageInv' /\ req[p].id \in Ids
         /\ \/ Site(p).is # "live" /\ Ended(p) /\ UNCHANGED files
            \/ /\ Site(p).is = "live" /\ Carries(p, "test")
               /\ files'.zones = files.zones /\ files'.geoip = files.geoip /\ files'.confs = files.confs
               /\ files'.maps = Without(files.maps, {req[p].id}) \cup {Map(req[p].id)}
               /\ files' \in FileSet
<1>1. /\ req[p].pc = "map" /\ UNCHANGED <<db, loaded, certs, closed, hist, spent>>
  BY DEF WriteMap, At, host
<1>2. req[p].id \in Ids
  BY <1>1, Facts DEF ReqOK
<1>3. CASE Site(p).is # "live"
  <2>1. Ended(p) /\ UNCHANGED files
    BY <1>3, Ends DEF WriteMap, Done
  <2> QED BY <1>1, <1>2, <1>3, <2>1, SameRows, Facts, StageEnds
<1>4. CASE Site(p).is = "live"
  <2> DEFINE m == Without(files.maps, {req[p].id}) \cup {Map(req[p].id)}
  <2>1. files' = [files EXCEPT !.maps = m] /\ Goto(p, "test")
    BY <1>4 DEF WriteMap
  <2>2. m \subseteq MapSet
    BY <1>2, FileTypes, Facts DEF Without, FileSet
  <2> HIDE DEF m
  <2>3. /\ files'.zones = files.zones /\ files'.geoip = files.geoip /\ files'.confs = files.confs
        /\ files'.maps = m /\ files' \in FileSet
    BY <2>1, <2>2, Facts DEF FileSet
  <2>4. Carries(p, "test")
    BY <2>1, Goes DEF Onto, Carries, Stages
  <2> QED BY <1>1, <1>2, <1>4, <2>3, <2>4, SameRows, StageCarries DEF m
<1> QED BY <1>3, <1>4

\* What follows a render or a reload.
Follows(p) == Ended(p) \/ \E pc \in {"certbot", "release", "protect"} : Carries(p, pc)

LEMMA FollowStage ==
  ASSUME StageInv, NEW p \in Procs, req[p].pc \in Rendering \cup {"map", "test", "signal"},
         req' = IF After(p) = "idle" THEN [req EXCEPT ![p] = Idle] ELSE [req EXCEPT ![p].pc = After(p)]
  PROVE  Follows(p) /\ ReqOK(req'[p])
<1>1. CASE After(p) = "idle"
  <2>1. Ended(p)
    BY <1>1, Ends
  <2> QED BY <2>1, IdleType DEF Ended, Follows
<1>2. CASE After(p) # "idle"
  <2>1. /\ After(p) \in {"certbot", "release", "protect"}
        /\ After(p) = "certbot" => req[p].kind = "certificate"
        /\ After(p) = "release" => req[p].kind # "certificate" /\ req[p].old # None
        /\ After(p) = "protect" => req[p].new # None
    BY <1>2 DEF After
  <2>2. PICK pc \in {"certbot", "release", "protect"} : pc = After(p)
    BY <2>1
  <2>3. Onto(p, pc)
    <3>1. Goto(p, pc) /\ pc \in Stages
      BY <1>2, <2>2 DEF Goto, Stages, Resting
    <3> QED BY <3>1, Goes
  <2>4. /\ pc = "release" => req[p].old \in Ports
        /\ pc = "protect" => req[p].new \in Ports
    BY <2>1, <2>2, Facts DEF ReqOK, ReqSet
  <2>5. ReqOK(req'[p])
    BY <2>1, <2>2, <2>3, <2>4, Facts DEF Onto, ReqOK, Rendering
  <2> QED BY <2>3, <2>5 DEF Follows, Carries, Onto
<1> QED BY <1>1, <1>2

LEMMA AppliedHist ==
  ASSUME StageInv, NEW p \in Procs
  PROVE  /\ Applied(p) \in HistSet /\ Applied(p).shared = hist.shared /\ Applied(p).contended = hist.contended
         /\ Applied(p).renamed = hist.renamed
         /\ req[p].crossed => Applied(p) = hist
         /\ ~req[p].crossed /\ req[p].kind = "geo" => /\ Applied(p).disk = hist.disk /\ Applied(p).torn = hist.torn
                                                      /\ Applied(p).live = hist.disk
         /\ ~req[p].crossed /\ req[p].kind # "geo" => /\ Applied(p).disk /\ ~Applied(p).torn /\ Applied(p).live
BY Facts DEF Applied, HistSet

\* A certificate that cannot be had.
LEMMA Refuses ==
  ASSUME StageInv, NEW p \in Procs, req[p].pc # "idle", Done(p), hist' = Unrendered,
         db' = IF Site(p).is = "live" THEN [db EXCEPT ![req[p].id].status = "error"] ELSE db,
         UNCHANGED <<files, loaded, closed>>, spent' \in [Troubles \cup {"requests"} -> Nat]
  PROVE  /\ Ended(p) /\ Edited(p) /\ StageInv' /\ hist'.torn = hist.torn /\ ~hist'.disk /\ ~hist'.live
         /\ hist'.shared = hist.shared /\ hist'.contended = hist.contended /\ hist'.renamed = hist.renamed
         /\ db'[req[p].id].domain = Site(p).domain
         /\ db'[req[p].id].status = "active" => Site(p).status = "active"
<1>1. Ended(p) /\ req[p].id \in Ids /\ Site(p) \in RowSet
  BY Ends, Facts DEF Done, ReqOK, Site
<1>2. PICK s \in RowSet :
        /\ db' = [db EXCEPT ![req[p].id] = s] /\ s.is = Site(p).is /\ s.port = Site(p).port
        /\ s.blocked = Site(p).blocked /\ s.domain = Site(p).domain
        /\ s.status = "active" => Site(p).status = "active"
  <2>1. CASE Site(p).is = "live"
    <3> DEFINE s == [Site(p) EXCEPT !.status = "error"]
    <3>1. /\ s \in RowSet /\ s.is = Site(p).is /\ s.port = Site(p).port /\ s.blocked = Site(p).blocked
          /\ s.domain = Site(p).domain /\ s.status = "error"
      BY <1>1 DEF RowSet
    <3>2. db' = [db EXCEPT ![req[p].id] = s]
      BY <2>1 DEF Site
    <3> HIDE DEF s
    <3> QED BY <3>1, <3>2
  <2>2. CASE Site(p).is # "live"
    <3>1. db' = [db EXCEPT ![req[p].id] = Site(p)]
      BY <2>2, Facts DEF Site
    <3> QED BY <1>1, <3>1
  <2> QED BY <2>1, <2>2
<1>3. Edited(p) /\ db'[req[p].id] = s
  BY <1>1, <1>2, EditedRow
<1>4. StageInv'
  BY <1>1, <1>3, HistTypes, StageEnds DEF Edited
<1> QED BY <1>1, <1>2, <1>3, <1>4, HistTypes

LEMMA CertbotRefuses ==
  ASSUME StageInv, NEW p \in Procs, CertbotFails(p)
  PROVE  /\ req[p].pc = "certbot" /\ UNCHANGED <<files, loaded, certs, closed>>
         /\ Ended(p) /\ Edited(p) /\ StageInv' /\ hist'.torn = hist.torn /\ ~hist'.disk /\ ~hist'.live
         /\ hist'.shared = hist.shared /\ hist'.contended = hist.contended /\ hist'.renamed = hist.renamed
         /\ db'[req[p].id].domain = Site(p).domain
         /\ db'[req[p].id].status = "active" => Site(p).status = "active"
<1>1. /\ req[p].pc = "certbot" /\ UNCHANGED <<files, loaded, certs, closed>> /\ Done(p) /\ hist' = Unrendered
      /\ db' = IF Site(p).is = "live" THEN [db EXCEPT ![req[p].id].status = "error"] ELSE db
  BY DEF CertbotFails, At, proxy, host
<1>2. spent' \in [Troubles \cup {"requests"} -> Nat]
  BY Spent DEF CertbotFails, Troubles
<1> QED BY <1>1, <1>2, Refuses

\* "nginx -t" and the reload, or Docker that does not answer.
LEMMA Reloading ==
  ASSUME StageInv, NEW p \in Procs, Test(p) \/ Signal(p) \/ DockerFails(p)
  PROVE  /\ req[p].pc \in {"test", "signal"} /\ UNCHANGED <<files, certs, closed>> /\ StageInv'
         /\ hist'.shared = hist.shared /\ hist'.contended = hist.contended /\ hist'.renamed = hist.renamed
         /\ \/ req[p].pc = "test" /\ Carries(p, "signal") /\ UNCHANGED <<db, loaded, hist>>
            \/ /\ req[p].kind = "certificate" /\ Ended(p) /\ Edited(p) /\ UNCHANGED loaded
               /\ hist'.torn = hist.torn /\ ~hist'.disk /\ ~hist'.live
               /\ db'[req[p].id].domain = Site(p).domain
               /\ db'[req[p].id].status = "active" => Site(p).status = "active"
            \/ /\ Follows(p) /\ UNCHANGED <<db, loaded>>
               /\ hist'.disk = hist.disk /\ ~hist'.live /\ hist'.torn = hist.torn
            \/ /\ Follows(p) /\ UNCHANGED db /\ hist' = Applied(p)
               /\ IF Loadable(files) /\ loaded # None THEN loaded' = files /\ req[p].pc = "signal" ELSE loaded' = loaded
<1>1. /\ req[p].pc \in {"test", "signal"} /\ UNCHANGED <<files, certs, closed>>
      /\ spent' \in [Troubles \cup {"requests"} -> Nat]
  <2>1. Spend("docker") => spent' \in [Troubles \cup {"requests"} -> Nat]
    BY Spent DEF Troubles
  <2> QED BY <2>1, Facts DEF Test, Signal, DockerFails, At, proxy, host
<1>2. req[p].pc # "idle" /\ req[p].pc \in Rendering \cup {"test", "signal"}
  BY <1>1
<1>3. CASE req[p].pc = "test" /\ Goto(p, "signal") /\ UNCHANGED <<db, loaded, hist, spent>>
  <2>1. Carries(p, "signal")
    BY <1>3, Goes DEF Onto, Carries, Stages
  <2>2. ReqOK(req'[p])
    BY <1>3, <2>1, Facts DEF Carries, ReqOK, Rendering
  <2>3. StageInv'
    BY <1>1, <1>3, <2>1, <2>2, SameRows, Facts, StageStays DEF Carries
  <2> QED BY <1>1, <1>3, <2>1, <2>3
<1>4. CASE req[p].kind = "certificate" /\ Refused(p) /\ UNCHANGED loaded
  <2>1. /\ Done(p) /\ hist' = Unrendered
        /\ db' = IF Site(p).is = "live" THEN [db EXCEPT ![req[p].id].status = "error"] ELSE db
    BY <1>4 DEF Refused
  <2> QED BY <1>1, <1>2, <1>4, <2>1, Refuses
<1>5. ASSUME req' = IF After(p) = "idle" THEN [req EXCEPT ![p] = Idle] ELSE [req EXCEPT ![p].pc = After(p)],
             hist' \in HistSet, UNCHANGED db, loaded' \in {loaded, files}
      PROVE  Follows(p) /\ StageInv'
  <2>1. Follows(p) /\ ReqOK(req'[p])
    BY <1>2, <1>5, FollowStage
  <2>2. Only(p)
    BY <2>1 DEF Follows, Ended, Carries
  <2> QED BY <1>1, <1>5, <2>1, <2>2, SameRows, Facts, StageStays
<1>6. CASE /\ req' = IF After(p) = "idle" THEN [req EXCEPT ![p] = Idle] ELSE [req EXCEPT ![p].pc = After(p)]
           /\ hist' = [hist EXCEPT !.live = FALSE] /\ UNCHANGED <<db, loaded>>
  <2>1. /\ hist' \in HistSet /\ hist'.disk = hist.disk /\ ~hist'.live /\ hist'.torn = hist.torn
        /\ hist'.shared = hist.shared /\ hist'.contended = hist.contended /\ hist'.renamed = hist.renamed
    BY <1>6, Facts DEF HistSet
  <2> QED BY <1>1, <1>5, <1>6, <2>1
<1>7. CASE /\ req' = IF After(p) = "idle" THEN [req EXCEPT ![p] = Idle] ELSE [req EXCEPT ![p].pc = After(p)]
           /\ hist' = Applied(p) /\ UNCHANGED db
           /\ IF Loadable(files) /\ loaded # None THEN loaded' = files /\ req[p].pc = "signal" ELSE loaded' = loaded
  <2>1. Follows(p) /\ StageInv'
    BY <1>5, <1>7, AppliedHist
  <2> QED BY <1>1, <1>7, <2>1, AppliedHist
<1>8. CASE Test(p)
  <2>1. UNCHANGED loaded
    BY <1>8 DEF Test, proxy
  <2>2. CASE loaded # None /\ Loadable(files)
    BY <1>3, <1>8, <2>1, <2>2 DEF Test, At
  <2>3. CASE ~(loaded # None /\ Loadable(files))
    BY <1>4, <1>7, <1>8, <2>1, <2>3 DEF Test, Leave
  <2> QED BY <2>2, <2>3
<1>9. CASE Signal(p)
  BY <1>7, <1>9 DEF Signal, Leave, At
<1>10. CASE DockerFails(p)
  BY <1>4, <1>6, <1>10 DEF DockerFails, proxy
<1> QED BY <1>8, <1>9, <1>10

LEMMA DiskEnds ==
  ASSUME StageInv, NEW p \in Procs, DiskFails(p)
  PROVE  /\ req[p].pc \in Rendering \cup {"map"} /\ UNCHANGED <<db, files, loaded, certs, closed>>
         /\ StageInv' /\ Follows(p)
         /\ hist'.shared = hist.shared /\ hist'.contended = hist.contended /\ hist'.renamed = hist.renamed
         /\ hist'.torn /\ ~hist'.disk /\ ~hist'.live
<1>1. /\ req[p].pc \in Rendering \cup {"map"} /\ UNCHANGED <<db, files, loaded, certs, closed>>
      /\ hist' = [hist EXCEPT !.torn = TRUE, !.disk = FALSE, !.live = FALSE]
      /\ spent' \in [Troubles \cup {"requests"} -> Nat]
  BY Spent DEF DiskFails, Writing, Rendering, proxy, host, Troubles
<1>2. Follows(p) /\ ReqOK(req'[p])
  <2>1. CASE req[p].kind = "certificate"
    <3>1. Ended(p)
      BY <2>1, Ends DEF DiskFails
    <3> QED BY <3>1, IdleType DEF Follows, Ended
  <2>2. CASE req[p].kind # "certificate"
    <3>1. req' = IF After(p) = "idle" THEN [req EXCEPT ![p] = Idle] ELSE [req EXCEPT ![p].pc = After(p)]
      BY <2>2 DEF DiskFails
    <3> QED BY <1>1, <3>1, FollowStage
  <2> QED BY <2>1, <2>2
<1>3. /\ hist' \in HistSet /\ hist'.torn /\ ~hist'.disk /\ ~hist'.live
      /\ hist'.shared = hist.shared /\ hist'.contended = hist.contended /\ hist'.renamed = hist.renamed
  BY <1>1, Facts DEF HistSet
<1>4. Only(p)
  BY <1>2 DEF Follows, Ended, Carries
<1> QED BY <1>1, <1>2, <1>3, <1>4, SameRows, Facts, StageStays

LEMMA DieEnds ==
  ASSUME StageInv, NEW p \in Procs, Die(p)
  PROVE  /\ req[p].pc # "idle" /\ UNCHANGED <<db, files, loaded, certs, closed>> /\ StageInv' /\ Ended(p)
         /\ hist'.shared = hist.shared /\ hist'.contended = hist.contended \cup {req[p].id}
         /\ hist'.renamed = hist.renamed /\ hist'.torn /\ ~hist'.disk /\ ~hist'.live
<1>1. /\ req[p].pc # "idle" /\ UNCHANGED <<db, files, loaded, certs, closed>> /\ Done(p)
      /\ hist' = [hist EXCEPT !.torn = TRUE, !.disk = FALSE, !.live = FALSE,
                              !.contended = @ \cup {req[p].id}]
      /\ spent' \in [Troubles \cup {"requests"} -> Nat]
  BY Spent DEF Die, At, proxy, host, Troubles
<1>2. Ended(p) /\ req[p].id \in Ids
  BY <1>1, Ends, Facts DEF Done, ReqOK
<1>3. /\ hist' \in HistSet /\ hist'.torn /\ ~hist'.disk /\ ~hist'.live
      /\ hist'.shared = hist.shared /\ hist'.contended = hist.contended \cup {req[p].id}
      /\ hist'.renamed = hist.renamed
  BY <1>1, <1>2, Facts DEF HistSet
<1> QED BY <1>1, <1>2, <1>3, SameRows, StageEnds

LEMMA Issues ==
  ASSUME StageInv, NEW p \in Procs, Issue(p)
  PROVE  /\ req[p].pc = "certbot" /\ req[p].kind = "certificate" /\ UNCHANGED <<files, loaded, closed, hist>> /\ StageInv'
         /\ \/ Ended(p) /\ UNCHANGED <<certs, db>> /\ Site(p).is # "live"
            \/ /\ Edited(p) /\ certs' = certs \cup {Site(p).domain} /\ db'[req[p].id].domain = Site(p).domain
               /\ Only(p) /\ req'[p].pc = "unlink" /\ req'[p].kind = req[p].kind /\ req'[p].id = req[p].id
               /\ req'[p].crossed = req[p].crossed /\ req'[p].old = "issued" /\ req'[p].new = req[p].new
<1>1. req[p].pc = "certbot" /\ req[p].kind = "certificate" /\ UNCHANGED <<files, loaded, closed, hist, spent>>
  BY Facts DEF Issue, At, proxy, ReqOK
<1>0. req[p].id \in Ids /\ Site(p) \in RowSet
  BY <1>1, Facts DEF ReqOK, Site
<1>2. CASE Site(p).is # "live"
  <2>1. Ended(p) /\ UNCHANGED <<certs, db>>
    BY <1>2, Ends DEF Issue, Done
  <2> QED BY <1>1, <1>2, <2>1, SameRows, Facts, StageEnds
<1>3. CASE Site(p).is = "live"
  <2> DEFINE s == [Site(p) EXCEPT !.status = "active"]
  <2>1. /\ certs' = certs \cup {Site(p).domain} /\ db' = [db EXCEPT ![req[p].id] = s]
        /\ req' = [req EXCEPT ![p].pc = "unlink", ![p].old = "issued"]
    BY <1>3 DEF Issue, Site
  <2>2. /\ s \in RowSet /\ s.is = Site(p).is /\ s.port = Site(p).port /\ s.blocked = Site(p).blocked
        /\ s.domain = Site(p).domain
    BY <1>0 DEF RowSet
  <2> HIDE DEF s
  <2>3. Edited(p) /\ db'[req[p].id] = s
    BY <1>0, <2>1, <2>2, EditedRow
  <2>4. /\ Only(p) /\ req'[p].pc = "unlink" /\ req'[p].kind = req[p].kind /\ req'[p].id = req[p].id
        /\ req'[p].crossed = req[p].crossed /\ req'[p].old = "issued" /\ req'[p].new = req[p].new
    <3> DEFINE r == [req[p] EXCEPT !.pc = "unlink", !.old = "issued"]
    <3>1. req[p] \in ReqSet
      BY Facts
    <3>2. /\ r \in ReqSet /\ r.pc = "unlink" /\ r.old = "issued" /\ r.kind = req[p].kind
          /\ r.id = req[p].id /\ r.crossed = req[p].crossed /\ r.new = req[p].new
      BY <3>1 DEF ReqSet, Stages, Rendering
    <3>3. req' = [req EXCEPT ![p] = r]
      BY <2>1
    <3> HIDE DEF r
    <3> QED BY <3>2, <3>3, Replaced
  <2>5. ReqOK(req'[p])
    BY <1>0, <1>1, <2>4, Facts, PxConstants DEF ReqOK, Rendering
  <2>6. StageInv'
    BY <1>1, <2>3, <2>4, <2>5, Facts, StageStays DEF Edited
  <2> QED BY <1>1, <2>1, <2>2, <2>3, <2>4, <2>6
<1> QED BY <1>2, <1>3

\* Of the history a call to the agent touches the ports opened by hand alone; one
\* that is so no longer is closed.
ByHand ==
  /\ hist' \in HistSet /\ hist'.shared = hist.shared /\ hist'.contended = hist.contended
  /\ hist'.disk = hist.disk /\ hist'.live = hist.live /\ hist'.torn = hist.torn /\ hist'.renamed = hist.renamed
  /\ hist.opened \subseteq hist'.opened \cup closed'

\* The calls to the agent, answered or not.
LEMMA AgentCalls ==
  ASSUME StageInv, NEW p \in Procs, OpenForDelete(p) \/ Release(p) \/ Protect(p) \/ AgentFails(p)
  PROVE  /\ UNCHANGED <<db, files, loaded, certs>> /\ StageInv' /\ req[p].id \in Ids /\ ByHand
         /\ \/ req[p].pc = "open" /\ Carries(p, "save") /\ closed' \in {closed, closed \ {Site(p).port}}
            \/ /\ req[p].pc = "release" /\ closed' \in {closed, closed \ {req[p].old}}
               /\ Ended(p) \/ Carries(p, "protect")
            \/ req[p].pc = "protect" /\ Carries(p, "mark") /\ closed' = closed \cup {req[p].new}
            \/ req[p].pc = "protect" /\ Ended(p) /\ closed' \in {closed, closed \cup {req[p].new}}
<1>1. /\ UNCHANGED <<db, files, loaded, certs>> /\ spent' \in [Troubles \cup {"requests"} -> Nat]
  <2>1. AgentFails(p) => spent' \in [Troubles \cup {"requests"} -> Nat]
    BY Spent DEF AgentFails, Troubles
  <2> QED BY <2>1, Facts DEF OpenForDelete, Release, Protect, AgentFails, proxy
<1>2. \/ req[p].pc = "open" /\ Goto(p, "save") /\ closed' \in {closed, closed \ {Site(p).port}}
      \/ /\ req[p].pc = "release" /\ closed' \in {closed, closed \ {req[p].old}}
         /\ IF req[p].new = None THEN Done(p) ELSE Goto(p, "protect")
      \/ req[p].pc = "protect" /\ Goto(p, "mark") /\ closed' = closed \cup {req[p].new}
      \/ req[p].pc = "protect" /\ Done(p) /\ closed' \in {closed, closed \cup {req[p].new}}
  BY DEF OpenForDelete, Release, Protect, AgentFails, At
<1>3. req[p].id \in Ids /\ req[p] \in ReqSet /\ ReqOK(req[p])
  BY <1>2, Facts DEF ReqOK
<1>4. closed' \subseteq Ports
  BY <1>2, <1>3, Facts DEF ReqOK
<1>5. Done(p) => Ended(p) /\ ReqOK(req'[p])
  BY Ends, IdleType DEF Done, Ended
<1>6. Goto(p, "save") /\ req[p].pc = "open" => Carries(p, "save") /\ ReqOK(req'[p])
  <2> SUFFICES ASSUME Goto(p, "save"), req[p].pc = "open"
               PROVE  Carries(p, "save") /\ ReqOK(req'[p])
    OBVIOUS
  <2>1. Onto(p, "save")
    BY Goes DEF Stages, Resting
  <2>2. ReqOK(req'[p])
    BY <1>3, <2>1 DEF Onto, ReqOK, Rendering
  <2> QED BY <2>1, <2>2 DEF Onto, Carries
<1>7. Goto(p, "protect") /\ req[p].pc = "release" /\ req[p].new # None => Carries(p, "protect") /\ ReqOK(req'[p])
  <2> SUFFICES ASSUME Goto(p, "protect"), req[p].pc = "release", req[p].new # None
               PROVE  Carries(p, "protect") /\ ReqOK(req'[p])
    OBVIOUS
  <2>1. Onto(p, "protect")
    BY Goes DEF Stages, Resting
  <2>2. ReqOK(req'[p])
    BY <1>3, <2>1 DEF Onto, ReqOK, ReqSet, Rendering
  <2> QED BY <2>1, <2>2 DEF Onto, Carries
<1>8. Goto(p, "mark") /\ req[p].pc = "protect" => Carries(p, "mark") /\ ReqOK(req'[p])
  <2> SUFFICES ASSUME Goto(p, "mark"), req[p].pc = "protect"
               PROVE  Carries(p, "mark") /\ ReqOK(req'[p])
    OBVIOUS
  <2>1. Onto(p, "mark")
    BY Goes DEF Stages, Resting
  <2>2. ReqOK(req'[p])
    BY <1>3, <2>1 DEF Onto, ReqOK, Rendering
  <2> QED BY <2>1, <2>2 DEF Onto, Carries
<1>9. /\ Only(p) /\ ReqOK(req'[p])
      /\ \/ req[p].pc = "open" /\ Carries(p, "save") /\ closed' \in {closed, closed \ {Site(p).port}}
         \/ /\ req[p].pc = "release" /\ closed' \in {closed, closed \ {req[p].old}}
            /\ Ended(p) \/ Carries(p, "protect")
         \/ req[p].pc = "protect" /\ Carries(p, "mark") /\ closed' = closed \cup {req[p].new}
         \/ req[p].pc = "protect" /\ Ended(p) /\ closed' \in {closed, closed \cup {req[p].new}}
  BY <1>2, <1>5, <1>6, <1>7, <1>8 DEF Carries, Ended
<1>11. ByHand
  <2>1. CASE Protect(p)
    <3>1. hist' = [hist EXCEPT !.opened = @ \ {req[p].new}] /\ closed' = closed \cup {req[p].new} /\ hist \in HistSet
      BY <2>1, Facts DEF Protect
    <3> QED BY <3>1 DEF ByHand, HistSet
  <2>2. CASE ~Protect(p)
    <3>1. UNCHANGED hist /\ hist \in HistSet
      BY <2>2, Facts DEF OpenForDelete, Release, AgentFails
    <3> QED BY <3>1 DEF ByHand
  <2> QED BY <2>1, <2>2
<1>10. StageInv'
  BY <1>1, <1>4, <1>9, <1>11, SameRows, Facts, StageStays DEF ByHand
<1> QED BY <1>1, <1>3, <1>9, <1>10, <1>11

\* A port opened or closed by hand.
LEMMA Hands ==
  ASSUME StageInv, NEW p \in Procs, OpenByHand(p) \/ CloseByHand(p)
  PROVE  /\ UNCHANGED <<db, files, loaded, certs, req>> /\ StageInv'
         /\ hist' \in HistSet /\ hist'.shared = hist.shared /\ hist'.contended = hist.contended
         /\ hist'.disk = hist.disk /\ hist'.live = hist.live /\ hist'.torn = hist.torn /\ hist'.renamed = hist.renamed
         /\ \A x \in Ports : x \notin hist'.opened /\ (x \in closed \/ x \in hist.opened) => x \in closed'
<1>1. /\ UNCHANGED <<db, files, loaded, certs, req>> /\ spent' = [spent EXCEPT !["requests"] = @ + 1]
      /\ hist \in HistSet /\ closed \subseteq Ports
  BY Facts DEF OpenByHand, CloseByHand, proxy
<1>2. PICK x \in Ports :
         \/ closed' = closed \ {x} /\ hist' = [hist EXCEPT !.opened = @ \cup {x}]
         \/ closed' = closed \cup {x} /\ hist' = [hist EXCEPT !.opened = @ \ {x}]
  <2>1. CASE OpenByHand(p)
    <3>1. \E x \in Ports : closed' = closed \ {x} /\ hist' = [hist EXCEPT !.opened = @ \cup {x}]
      BY <2>1 DEF OpenByHand
    <3> QED BY <3>1
  <2>2. CASE CloseByHand(p)
    BY <2>2 DEF CloseByHand
  <2> QED BY <2>1, <2>2
<1>3. /\ hist' \in HistSet /\ hist'.shared = hist.shared /\ hist'.contended = hist.contended
      /\ hist'.disk = hist.disk /\ hist'.live = hist.live /\ hist'.torn = hist.torn /\ hist'.renamed = hist.renamed
      /\ \A y \in Ports : y \notin hist'.opened /\ (y \in closed \/ y \in hist.opened) => y \in closed'
  BY <1>1, <1>2 DEF HistSet
<1>4. closed' \subseteq Ports
  BY <1>1, <1>2
<1>5. spent' \in [Troubles \cup {"requests"} -> Nat]
  BY <1>1, Facts
<1>6. Only(p) /\ ReqOK(req'[p])
  BY <1>1, Facts DEF Only
<1>7. StageInv'
  BY <1>1, <1>3, <1>4, <1>5, <1>6, SameRows, Facts, StageStays
<1> QED BY <1>1, <1>3, <1>7

LEMMA Marks ==
  ASSUME StageInv, NEW p \in Procs, Mark(p)
  PROVE  /\ req[p].pc = "mark" /\ Ended(p) /\ UNCHANGED <<files, loaded, certs, closed, hist>> /\ StageInv'
         /\ req[p].id \in Ids
         /\ \/ Site(p).is # "live" /\ UNCHANGED db
            \/ Site(p).is = "live" /\ db' = [db EXCEPT ![req[p].id].blocked = TRUE]
<1>1. req[p].pc = "mark" /\ Done(p) /\ UNCHANGED <<files, loaded, certs, closed, hist, spent>>
  BY DEF Mark, At, proxy, host
<1>2. Ended(p) /\ req[p].id \in Ids
  BY <1>1, Ends, Facts DEF Done, ReqOK
<1>3. \/ Site(p).is # "live" /\ UNCHANGED db
      \/ Site(p).is = "live" /\ db' = [db EXCEPT ![req[p].id].blocked = TRUE]
  BY DEF Mark
<1>4. db' \in [Ids -> RowSet] /\ \A i \in Ids : RowOK(i)'
  <2>1. CASE UNCHANGED db
    BY <2>1, SameRows
  <2>2. CASE Site(p).is = "live" /\ db' = [db EXCEPT ![req[p].id].blocked = TRUE]
    <3> DEFINE s == [Site(p) EXCEPT !.blocked = TRUE]
    <3>1. s \in RowSet /\ s.is = "live" /\ db' = [db EXCEPT ![req[p].id] = s]
      <4>1. PICK x \in RowSet : x = Site(p) /\ x = db[req[p].id] /\ x.is = "live"
        BY <1>2, <2>2, Facts DEF Site
      <4>2. [x EXCEPT !.blocked = TRUE] \in RowSet /\ [x EXCEPT !.blocked = TRUE].is = x.is
        BY <4>1 DEF RowSet
      <4> QED BY <2>2, <4>1, <4>2
    <3> HIDE DEF s
    <3> QED BY <1>2, <3>1, RowEdits
  <2> QED BY <1>3, <2>1, <2>2
<1> QED BY <1>1, <1>2, <1>3, <1>4, Facts, StageEnds

\* A request that goes on beside another that has come.
Beside(q) ==
  /\ req'[q].kind = req[q].kind /\ req'[q].id = req[q].id /\ req'[q].pc = req[q].pc /\ req'[q].todo = req[q].todo
  /\ req'[q].old = req[q].old /\ req'[q].new = req[q].new

LEMMA Begins ==
  ASSUME StageInv, NEW p \in Procs, Begin(p)
  PROVE  /\ req[p].pc = "idle" /\ UNCHANGED <<db, files, loaded, certs, closed>> /\ StageInv'
         /\ req'[p].id \in Ids /\ req'[p].old = None /\ req'[p].new = None /\ req'[p].pc \in {"unlink", "open", "save"}
         /\ req'[p].kind \in {"create", "upstream", "delete"} => req'[p].pc # "unlink"
         /\ req'[p].crossed <=> Others(p) # {}
         /\ \A q \in Procs : q # p => Beside(q) /\ (req'[q].crossed <=> req[q].crossed \/ req[q].pc # "idle")
         /\ hist'.shared = hist.shared /\ hist'.renamed = hist.renamed
         /\ hist.contended \subseteq hist'.contended
         /\ (\E q \in Procs : q # p /\ req[q].pc # "idle" /\ req[q].id = req'[p].id) => req'[p].id \in hist'.contended
         /\ hist'.torn <=> hist.torn \/ Others(p) # {}
         /\ hist'.disk <=> hist.disk /\ Others(p) = {}
         /\ hist'.live <=> hist.live /\ Others(p) = {}
<1>0. PICK k \in Kinds : \E i \in Targets(k) :
        LET same == {q \in Others(p) : req[q].id = i} IN
         /\ req' = [q \in Procs |->
              IF q = p THEN [Idle EXCEPT !.kind = k, !.id = i, !.crossed = Others(p) # {},
                               !.pc = IF k \in Formless THEN "unlink"
                                      ELSE IF k = "delete" /\ db[i].blocked THEN "open" ELSE "save"]
              ELSE IF q \in Others(p) THEN [req[q] EXCEPT !.crossed = TRUE] ELSE req[q]]
         /\ hist' = [hist EXCEPT !.contended = IF same = {} THEN @ ELSE @ \cup {i},
                                 !.torn = @ \/ Others(p) # {},
                                 !.disk = @ /\ Others(p) = {}, !.live = @ /\ Others(p) = {}]
  BY DEF Begin
<1>1. PICK i \in Targets(k) :
        LET same == {q \in Others(p) : req[q].id = i} IN
         /\ req' = [q \in Procs |->
              IF q = p THEN [Idle EXCEPT !.kind = k, !.id = i, !.crossed = Others(p) # {},
                               !.pc = IF k \in Formless THEN "unlink"
                                      ELSE IF k = "delete" /\ db[i].blocked THEN "open" ELSE "save"]
              ELSE IF q \in Others(p) THEN [req[q] EXCEPT !.crossed = TRUE] ELSE req[q]]
         /\ hist' = [hist EXCEPT !.contended = IF same = {} THEN @ ELSE @ \cup {i},
                                 !.torn = @ \/ Others(p) # {},
                                 !.disk = @ /\ Others(p) = {}, !.live = @ /\ Others(p) = {}]
  BY <1>0
<1>2. /\ req[p].pc = "idle" /\ UNCHANGED <<db, files, loaded, certs, closed>>
      /\ spent' = [spent EXCEPT !.requests = @ + 1]
  BY DEF Begin, At, proxy, host
<1>3. spent' \in [Troubles \cup {"requests"} -> Nat]
  <2>1. spent \in [Troubles \cup {"requests"} -> Nat]
    BY Facts
  <2> QED BY <1>2, <2>1
<1>4. i \in Ids /\ (k = "console" => i = Console)
  BY PxConstants DEF Targets, Live, Formless
<1> DEFINE stage == IF k \in Formless THEN "unlink" ELSE IF k = "delete" /\ db[i].blocked THEN "open" ELSE "save"
           met   == Others(p) # {}
           mine  == [kind |-> k, id |-> i, pc |-> stage, todo |-> {}, old |-> None, new |-> None, crossed |-> met]
           same  == {q \in Others(p) : req[q].id = i}
<1>5. req'[p] = mine /\ \A q \in Procs : q # p => req'[q] = IF q \in Others(p) THEN [req[q] EXCEPT !.crossed = TRUE] ELSE req[q]
  BY <1>1 DEF Idle
<1>6. stage \in {"unlink", "open", "save"} /\ (stage = "unlink" => k \in Formless) /\ (stage = "open" => k = "delete")
  OBVIOUS
<1>7. met \in BOOLEAN
  OBVIOUS
<1>8. mine \in ReqSet /\ ReqOK(mine)
  <2> HIDE DEF stage, met
  <2>1. mine \in ReqSet
    BY <1>4, <1>6, <1>7 DEF ReqSet, Stages, Rendering, Resting
  <2>2. ReqOK(mine)
    BY <1>4, <1>6, PxConstants DEF ReqOK, Rendering, Formless
  <2> QED BY <2>1, <2>2
<1>9. \A q \in Procs : q # p => /\ req'[q] \in ReqSet /\ ReqOK(req'[q]) /\ Beside(q)
                                /\ req'[q].crossed <=> req[q].crossed \/ req[q].pc # "idle"
  <2> SUFFICES ASSUME NEW q \in Procs, q # p
               PROVE  /\ req'[q] \in ReqSet /\ ReqOK(req'[q]) /\ Beside(q)
                      /\ req'[q].crossed <=> req[q].crossed \/ req[q].pc # "idle"
    OBVIOUS
  <2>1. req[q] \in ReqSet /\ ReqOK(req[q])
    BY Facts
  <2>2. CASE q \in Others(p)
    <3>1. req'[q] = [req[q] EXCEPT !.crossed = TRUE] /\ req[q].pc # "idle"
      BY <1>5, <2>2 DEF Others
    <3>2. Beside(q) /\ req'[q].crossed /\ req'[q] \in ReqSet
      BY <2>1, <3>1 DEF Beside, ReqSet
    <3>3. ReqOK(req'[q])
      BY <2>1, <3>1, <3>2 DEF Beside, ReqOK
    <3> QED BY <3>1, <3>2, <3>3
  <2>3. CASE q \notin Others(p)
    BY <1>5, <2>1, <2>3 DEF Others, Beside
  <2> QED BY <2>2, <2>3
<1>10. req' \in [Procs -> ReqSet]
  <2>1. req' = [q \in Procs |-> req'[q]]
    BY <1>1
  <2>2. \A q \in Procs : req'[q] \in ReqSet
    BY <1>5, <1>8, <1>9
  <2> QED BY <2>1, <2>2
<1>11. /\ hist' = [hist EXCEPT !.contended = IF same = {} THEN @ ELSE @ \cup {i},
                               !.torn = @ \/ met, !.disk = @ /\ ~met, !.live = @ /\ ~met]
  BY <1>1
<1>12. hist \in HistSet
  BY Facts
<1>13. /\ hist' \in HistSet /\ hist'.shared = hist.shared /\ hist'.renamed = hist.renamed
       /\ hist'.contended = IF same = {} THEN hist.contended ELSE hist.contended \cup {i}
       /\ hist'.torn = (hist.torn \/ met) /\ hist'.disk = (hist.disk /\ ~met) /\ hist'.live = (hist.live /\ ~met)
  <2> HIDE DEF met, same
  <2> QED BY <1>4, <1>11, <1>12 DEF HistSet
<1>14. StageInv'
  <2>1. \A j \in Ids : RowOK(j)'
    BY <1>2, SameRows
  <2>2. \A q \in Procs : ReqOK(req'[q])
    BY <1>5, <1>8, <1>9
  <2>3. PxTypes'
    BY <1>2, <1>3, <1>10, <1>13, Facts DEF PxTypes
  <2> HIDE DEF mine
  <2> QED BY <2>1, <2>2, <2>3 DEF StageInv
<1>15. (\E q \in Procs : q # p /\ req[q].pc # "idle" /\ req[q].id = req'[p].id) => req'[p].id \in hist'.contended
  BY <1>5, <1>13 DEF Others
<1>16. /\ req'[p].id = i /\ req'[p].kind = k /\ req'[p].pc = stage /\ req'[p].old = None /\ req'[p].new = None
       /\ req'[p].crossed = met
  BY <1>5
<1>17. k \in {"create", "upstream", "delete"} => stage # "unlink"
  BY <1>6 DEF Formless
<1>18. hist.contended \subseteq hist'.contended
  BY <1>13
<1> HIDE DEF stage, mine, same
<1> QED BY <1>2, <1>4, <1>6, <1>9, <1>13, <1>14, <1>15, <1>16, <1>17, <1>18

\* The proxy goes down and comes back, or nothing happens.
LEMMA Restarts ==
  ASSUME StageInv, Restart \/ Start \/ UNCHANGED vars
  PROVE  /\ UNCHANGED <<db, files, certs, closed, req>> /\ StageInv'
         /\ hist'.shared = hist.shared /\ hist'.contended = hist.contended /\ hist'.renamed = hist.renamed
         /\ hist'.disk = hist.disk /\ hist'.torn = hist.torn /\ (hist'.live => hist.live)
         /\ \/ loaded' = None
            \/ loaded = None /\ loaded' = files /\ UNCHANGED hist
            \/ UNCHANGED <<loaded, hist>>
<1>1. CASE Restart
  <2>1. UNCHANGED <<db, files, certs, closed, req>> /\ loaded' = None /\ Spend("restart")
        /\ hist' = [hist EXCEPT !.live = FALSE]
    BY <1>1 DEF Restart, host
  <2>2. spent' \in [Troubles \cup {"requests"} -> Nat]
    BY <2>1, Spent DEF Troubles
  <2>3. hist \in HistSet
    BY Facts
  <2>4. hist' \in HistSet /\ hist'.shared = hist.shared /\ hist'.contended = hist.contended /\ hist'.renamed = hist.renamed
        /\ hist'.disk = hist.disk /\ hist'.torn = hist.torn /\ ~hist'.live
    BY <2>1, <2>3 DEF HistSet
  <2>5. StageInv'
    BY <2>1, <2>2, <2>4, Facts, SameRows DEF StageInv, PxTypes
  <2> QED BY <2>1, <2>4, <2>5
<1>2. CASE Start
  <2>1. UNCHANGED <<db, files, certs, closed, req, spent, hist>> /\ loaded = None /\ loaded' = files
    BY <1>2 DEF Start, host
  <2> QED BY <2>1, Facts, SameRows DEF StageInv, PxTypes
<1>3. CASE UNCHANGED vars
  <2>1. UNCHANGED <<db, files, certs, closed, req, spent, hist, loaded>>
    BY <1>3 DEF vars, proxy, host
  <2> QED BY <2>1, Facts, SameRows DEF StageInv, PxTypes
<1> QED BY <1>1, <1>2, <1>3

LEMMA PxStageStep ==
  ASSUME StageInv, [Next]_vars
  PROVE  StageInv'
<1>1. CASE Restart \/ Start \/ UNCHANGED vars
  BY <1>1, Restarts
<1>2. ASSUME NEW p \in Procs, Begin(p) PROVE StageInv'
  BY <1>2, Begins
<1>3. ASSUME NEW p \in Procs, NotFound(p) \/ Rejected(p) \/ SaveForm(p) \/ RefuseHalf(p) \/ Create(p) \/ Upstream(p)
                \/ Delete(p) \/ MovePanel(p) \/ SaveGeo(p) \/ Order(p)
      PROVE  StageInv'
  BY <1>3, LeavesEarly, Saves, StoresOnly, Creates, MovesUpstream, Deletes, SavesGeo
<1>4. ASSUME NEW p \in Procs, WriteMap(p) \/ Unlink(p) \/ WriteShared(p) \/ ListSites(p) \/ WriteSite(p) \/ AddRows(p)
                \/ WriteMaps(p) \/ Test(p) \/ Signal(p) \/ DiskFails(p) \/ DockerFails(p) \/ Die(p)
      PROVE  StageInv'
  BY <1>4, WritesMap, Renders, WritesSite, AddsRows, WritesMaps, Reloading, DiskEnds, DieEnds
<1>5. ASSUME NEW p \in Procs, Issue(p) \/ CertbotFails(p) \/ OpenForDelete(p) \/ Release(p) \/ Protect(p)
                \/ AgentFails(p) \/ Mark(p) \/ OpenByHand(p) \/ CloseByHand(p)
      PROVE  StageInv'
  BY <1>5, Issues, CertbotRefuses, AgentCalls, Marks, Hands
<1> QED BY <1>1, <1>2, <1>3, <1>4, <1>5, PxKinds

\* What the properties rest on.  Two requests at work on one site are counted.
Busy(p) == req[p].pc # "idle"
OnePerSite == \A p, q \in Procs : p # q /\ Busy(p) /\ Busy(q) /\ req[p].id = req[q].id => req[p].id \in hist.contended

\* Once a form has stored a new port, the row has that port and no mark.
Moved(p) ==
  req[p].kind \in {"create", "upstream"} /\ req[p].pc \notin {"idle", "save"} /\ req[p].id \notin hist.contended
    /\ Site(p).is = "live" =>
      Site(p).port = req[p].new /\ ~Site(p).blocked

\* A port that is about to be marked is closed.
Marking(p) ==
  At(p, "mark") /\ req[p].id \notin hist.contended /\ Site(p).is = "live"
    /\ req[p].new \notin hist.shared \cup hist.opened =>
     req[p].new \in closed

\* A deletion that is past its commit has removed the row.
Deleted(p) == req[p].kind = "delete" /\ req[p].pc \notin {"idle", "open", "save"} => Site(p).is = "gone"

PortInv ==
  /\ OnePerSite /\ Shared(db) \subseteq hist.shared
  /\ \A p \in Procs : Moved(p) /\ Marking(p) /\ Deleted(p)

\* A request that others cross has the flags down; one that is not is alone.
Crossing ==
  \A p \in Procs : Busy(p) =>
     /\ req[p].crossed => ~hist.disk /\ ~hist.live /\ hist.torn
     /\ ~req[p].crossed => \A q \in Procs : q # p => ~Busy(q)

\* What a render that is alone has on the disk at each of its stages.
Confs == {Conf(i) : i \in Live}
Progress(p) ==
  Busy(p) /\ ~req[p].crossed =>
    /\ req[p].pc \in {"shared", "list"} => files.confs = {}
    /\ req[p].pc \in {"list", "site", "rows"} => files.zones = Limited /\ files.geoip = Live /\ files.maps = {}
    /\ req[p].pc \in {"site", "rows"} => files.confs \cup req[p].todo = Confs
    /\ req[p].pc \in {"test", "signal"} /\ req[p].kind # "geo" => files = Rendered
    /\ At(p, "map") => Site(p).is = "live"
    /\ At(p, "map") /\ hist.disk => files.confs = Confs /\ files.zones = Limited /\ files.geoip = Live
         /\ Without(files.maps, {req[p].id}) = {Map(i) : i \in Live \ {req[p].id}}

\* What the flags say of the directory and of nginx while no render is at work.
DiskInv == hist.disk /\ (\A p \in Procs : req[p].pc \in Resting \cup {"test", "signal"}) => files = Rendered
LiveInv ==
  hist.live /\ (\A p \in Procs : req[p].pc \in Resting) /\ Loadable(files) /\ loaded # None => loaded = files
TornInv ==
  ~hist.torn /\ (\A p \in Procs : req[p].pc \notin Rendering) => \A i \in Live : \E f \in files.confs : f.id = i

\* A row that says its certificate is there has one, for the domain it has.
CertInv == \A i \in Ids : db[i].status = "active" => db[i].domain \in certs \/ hist.renamed

RenderInv == Crossing /\ (\A p \in Procs : Progress(p)) /\ DiskInv /\ LiveInv /\ TornInv /\ CertInv

\* Ports.
Deleting(i) == \E p \in Procs : req[p].kind = "delete" /\ req[p].id = i
PortSafe == StageInv /\ PortInv /\ MarkedPortIsClosed

\* The firewall goes by what it went by before.
RowsHold == \A i \in Ids : db'[i].is = db[i].is /\ db'[i].port = db[i].port /\ db'[i].blocked = db[i].blocked

\* A request ends, or goes on with the ports it has.
Walks(p) ==
  /\ Only(p) /\ req[p].pc # "idle"
  /\ \/ /\ Ended(p)
        /\ req[p].kind = "delete" /\ req[p].pc \in {"open", "save"} => Site(p).is # "live" \/ req[p].id \in hist'.contended
     \/ /\ req'[p].id = req[p].id /\ req'[p].kind = req[p].kind /\ req'[p].new = req[p].new
        /\ req'[p].old \in {req[p].old, "issued"} /\ req'[p].pc # "idle"
        /\ req'[p].pc = "mark" => req[p].new \in closed'
        /\ req[p].pc \in {"open", "save"} =>
             req'[p].pc = "save" \/ req[p].kind \notin {"create", "upstream", "delete"}

\* No port is opened that a mark goes by, or is about to.
Spares(p) ==
  /\ \A i \in Live \ hist.contended : db[i].blocked /\ db[i].port \notin hist.shared /\ db[i].port \in closed
        /\ ~Deleting(i) => db[i].port \in closed'
  /\ \A q \in Procs : q # p /\ At(q, "mark") /\ req[q].id \notin hist.contended /\ Site(q).is = "live"
        /\ req[q].new \notin hist.shared /\ req[q].new \in closed => req[q].new \in closed'

LEMMA EditedHolds ==
  ASSUME StageInv, NEW p \in Procs, Edited(p) \/ UNCHANGED db
  PROVE  RowsHold
BY DEF Edited, RowsHold, Site

\* The steps that do not concern the ports opened by hand.
LEMMA OpenedKept ==
  ASSUME StageInv, NEW p \in Procs,
         \/ Begin(p) \/ NotFound(p) \/ Rejected(p) \/ SaveForm(p) \/ RefuseHalf(p) \/ Create(p) \/ Upstream(p)
         \/ Delete(p) \/ MovePanel(p) \/ SaveGeo(p) \/ WriteMap(p) \/ Unlink(p) \/ WriteShared(p) \/ ListSites(p)
         \/ WriteSite(p) \/ AddRows(p) \/ WriteMaps(p) \/ Test(p) \/ Signal(p) \/ Order(p) \/ Issue(p) \/ Mark(p)
         \/ CertbotFails(p) \/ DiskFails(p) \/ DockerFails(p) \/ Die(p)
  PROVE  hist'.opened = hist.opened
<1>1. hist \in HistSet
  BY Facts
<1>2. Unrendered.opened = hist.opened
  BY <1>1 DEF Unrendered, HistSet
<1>3. Turned(p) => hist'.opened = hist.opened
  BY <1>1 DEF Turned, HistSet
<1>4. Applied(p).opened = hist.opened
  BY <1>1 DEF Applied, HistSet
<1>5. CASE \/ NotFound(p) \/ Rejected(p) \/ SaveForm(p) \/ Delete(p) \/ SaveGeo(p) \/ WriteMap(p) \/ Unlink(p)
           \/ WriteShared(p) \/ ListSites(p) \/ Order(p) \/ Issue(p) \/ Mark(p)
  BY <1>5 DEF NotFound, Rejected, SaveForm, Delete, SaveGeo, WriteMap, Unlink, WriteShared, ListSites, Order, Issue, Mark
<1>6. CASE Begin(p)
  BY <1>1, <1>6 DEF Begin, HistSet
<1>7. CASE RefuseHalf(p) \/ MovePanel(p) \/ CertbotFails(p)
  <2>1. \/ hist' = Unrendered
        \/ \E b \in BOOLEAN : hist' = [Unrendered EXCEPT !.renamed = b]
    <3>1. Unrendered.renamed \in BOOLEAN
      BY <1>1 DEF Unrendered, HistSet
    <3> QED BY <1>7, <3>1 DEF RefuseHalf, MovePanel, CertbotFails
  <2>2. ASSUME NEW b \in BOOLEAN PROVE [Unrendered EXCEPT !.renamed = b].opened = hist.opened
    BY <1>1 DEF Unrendered, HistSet
  <2> QED BY <1>2, <2>1, <2>2
<1>8. CASE Create(p) \/ Upstream(p)
  <2>1. UNCHANGED hist \/ hist' = [hist EXCEPT !.shared = @ \cup Shared(db')]
    BY <1>8 DEF Create, Upstream
  <2> QED BY <1>1, <2>1 DEF HistSet
<1>9. CASE WriteSite(p)
  <2>1. Turned(p) \/ UNCHANGED hist
    BY <1>9 DEF WriteSite
  <2> QED BY <1>3, <2>1
<1>10. CASE AddRows(p)
  <2>1. Turned(p) \/ UNCHANGED hist
    BY <1>10 DEF AddRows
  <2> QED BY <1>3, <2>1
<1>11. CASE WriteMaps(p)
  BY <1>1, <1>11 DEF WriteMaps, HistSet
<1>12. CASE Test(p) \/ Signal(p)
  <2>1. UNCHANGED hist \/ hist' = Applied(p) \/ hist' = Unrendered
    BY <1>12 DEF Test, Signal, Leave, Refused
  <2> QED BY <1>2, <1>4, <2>1
<1>13. CASE DiskFails(p) \/ Die(p)
  BY <1>1, <1>13 DEF DiskFails, Die, HistSet
<1>14. CASE DockerFails(p)
  <2>1. hist' = Unrendered \/ hist' = [hist EXCEPT !.live = FALSE]
    BY <1>14 DEF DockerFails, Refused
  <2> QED BY <1>1, <1>2, <2>1 DEF HistSet
<1> QED BY <1>5, <1>6, <1>7, <1>8, <1>9, <1>10, <1>11, <1>12, <1>13, <1>14

\* Two sites of one port.
LEMMA TwoShare ==
  ASSUME NEW x \in Ports, NEW i \in Users(db, x), NEW j \in Users(db, x), Shared(db) \subseteq hist.shared, x \notin hist.shared
  PROVE  i = j
BY DEF Shared

LEMMA UsersOf ==
  ASSUME NEW x, NEW i
  PROVE  i \in Users(db, x) <=> \/ i \in Ids /\ db[i].is = "live" /\ db[i].port = x
                                \/ \E q \in Procs : req[q].old = x /\ req[q].id = i
BY DEF Users

LEMMA SharedFalls ==
  ASSUME \A x \in Ports : Users(db, x)' \subseteq Users(db, x)
  PROVE  Shared(db)' \subseteq Shared(db)
BY DEF Shared

LEMMA PortStays ==
  ASSUME PortSafe, NEW p \in Procs, RowsHold, Walks(p), Spares(p), hist'.shared = hist.shared,
         hist.contended \subseteq hist'.contended, hist.opened \subseteq hist'.opened \cup closed'
  PROVE  PortInv' /\ MarkedPortIsClosed'
<1>1. \A q \in Procs : q # p => req'[q] = req[q]
  BY DEF Walks, Only
<1>2. /\ Idle.kind = None /\ Idle.id = None /\ Idle.old = None /\ Idle.pc = "idle" /\ None \notin Ids
      /\ None \notin Ports /\ "issued" \notin Ports
  BY IdleType, PxConstants
<1>3. \A q \in Procs : Busy(q)' => Busy(q) /\ req'[q].id = req[q].id /\ req'[q].kind = req[q].kind /\ req'[q].new = req[q].new
  BY <1>1, <1>2 DEF Busy, Walks, Ended
<1>4. \A q \in Procs : Busy(q) => req[q].id \in Ids
  BY Facts DEF Busy, ReqOK, PortSafe
<1>5. OnePerSite'
  BY <1>3, hist.contended \subseteq hist'.contended DEF OnePerSite, PortSafe, PortInv
<1>6. Shared(db)' \subseteq hist'.shared
  <2>1. \A q \in Procs : req'[q].old \in Ports => req[q].old = req'[q].old /\ req[q].id = req'[q].id
    BY <1>1, <1>2 DEF Walks, Ended
  <2>2. \A x \in Ports : Users(db, x)' \subseteq Users(db, x)
    BY <2>1 DEF Users, RowsHold
  <2> QED BY <2>2, SharedFalls DEF PortSafe, PortInv
<1>7. ASSUME NEW q \in Procs PROVE Moved(q)'
  <2>1. SUFFICES ASSUME req'[q].kind \in {"create", "upstream"}, req'[q].pc \notin {"idle", "save"},
                        req'[q].id \notin hist'.contended, Site(q)'.is = "live"
                 PROVE  Site(q)'.port = req'[q].new /\ ~Site(q)'.blocked
    BY DEF Moved
  <2>2. Busy(q) /\ req'[q].id = req[q].id /\ req'[q].kind = req[q].kind /\ req'[q].new = req[q].new /\ req[q].id \in Ids
    BY <1>3, <1>4, <2>1 DEF Busy
  <2>3. req[q].pc \notin {"idle", "save"}
    <3>1. CASE q # p
      BY <1>1, <2>1, <3>1
    <3>2. CASE q = p
      <4>1. req[q].pc = "open" => req[q].kind = "delete"
        BY Facts DEF ReqOK, PortSafe
      <4> QED BY <1>2, <2>1, <2>2, <3>2, <4>1 DEF Walks, Ended, Busy
    <3> QED BY <3>1, <3>2
  <2>4. Site(q)'.is = Site(q).is /\ Site(q)'.port = Site(q).port /\ Site(q)'.blocked = Site(q).blocked
    BY <2>2 DEF Site, RowsHold
  <2>5. Moved(q)
    BY DEF PortSafe, PortInv
  <2> QED BY <2>1, <2>2, <2>3, <2>4, <2>5 DEF Moved
<1>8. ASSUME NEW q \in Procs PROVE Marking(q)'
  <2>1. SUFFICES ASSUME req'[q].pc = "mark", req'[q].id \notin hist'.contended, Site(q)'.is = "live",
                        req'[q].new \notin hist'.shared, req'[q].new \notin hist'.opened
                 PROVE  req'[q].new \in closed'
    BY DEF Marking, At
  <2>2. CASE q = p
    BY <1>2, <2>1, <2>2 DEF Walks, Ended
  <2>3. CASE q # p
    <3>1. req'[q] = req[q] /\ At(q, "mark") /\ req[q].id \in Ids
      BY <1>1, <1>4, <2>1, <2>3 DEF At, Busy
    <3>2. Site(q).is = "live"
      BY <2>1, <3>1 DEF Site, RowsHold
    <3>3. req[q].new \in closed \cup hist.opened
      BY <2>1, <3>1, <3>2 DEF PortSafe, PortInv, Marking
    <3> QED BY <2>1, <2>3, <3>1, <3>2, <3>3 DEF Spares
  <2> QED BY <2>2, <2>3
<1>9. ASSUME NEW q \in Procs PROVE Deleted(q)'
  <2>1. SUFFICES ASSUME req'[q].kind = "delete", req'[q].pc \notin {"idle", "open", "save"}
                 PROVE  Site(q)'.is = "gone"
    BY DEF Deleted
  <2>2. Busy(q) /\ req'[q].id = req[q].id /\ req'[q].kind = req[q].kind /\ req[q].id \in Ids
    BY <1>3, <1>4, <2>1 DEF Busy
  <2>3. req[q].pc \notin {"idle", "open", "save"}
    BY <1>1, <1>2, <2>1, <2>2 DEF Walks, Ended, Busy
  <2>4. Site(q).is = "gone"
    BY <2>1, <2>2, <2>3 DEF PortSafe, PortInv, Deleted
  <2> QED BY <2>2, <2>4 DEF Site, RowsHold
<1>10. MarkedPortIsClosed'
  <2>1. SUFFICES ASSUME NEW i \in Ids, db'[i].is = "live", i \notin hist'.contended, db'[i].blocked,
                        db'[i].port \notin hist'.shared, db'[i].port \notin hist'.opened, ~Deleting(i)'
                 PROVE  db'[i].port \in closed'
    BY DEF MarkedPortIsClosed, Live, Deleting
  <2>2. i \in Live \ hist.contended /\ db[i].blocked /\ db[i].port \notin hist.shared /\ db'[i].port = db[i].port
    BY <2>1 DEF RowsHold, Live
  <2>3. ~Deleting(i)
    <3>1. SUFFICES ASSUME NEW q \in Procs, req[q].kind = "delete", req[q].id = i PROVE FALSE
      BY DEF Deleting
    <3>2. q = p
      BY <1>1, <2>1, <3>1 DEF Deleting
    <3>3. req'[p].id # i \/ req'[p].kind # "delete"
      BY <2>1 DEF Deleting
    <3>4. Ended(p)
      BY <3>1, <3>2, <3>3 DEF Walks
    <3>5. Site(p).is = "live"
      BY <2>2, <3>1, <3>2 DEF Site, Live
    <3>6. req[p].pc \in {"open", "save"}
      BY <3>1, <3>2, <3>5 DEF PortSafe, PortInv, Deleted, Walks
    <3>7. req[p].id \in hist'.contended
      BY <1>2, <3>1, <3>2, <3>3, <3>4, <3>5, <3>6 DEF Walks
    <3> QED BY <2>1, <3>1, <3>2, <3>7
  <2>4. db[i].port \in closed \cup hist.opened
    BY <2>2, <2>3 DEF PortSafe, MarkedPortIsClosed, Deleting
  <2> QED BY <2>1, <2>2, <2>3, <2>4 DEF Spares
<1> QED BY <1>5, <1>6, <1>7, <1>8, <1>9, <1>10 DEF PortInv

LEMMA Spared ==
  ASSUME NEW p \in Procs, closed \subseteq closed'
  PROVE  Spares(p)
BY DEF Spares

\* A port that is opened is in nobody else's way.
LEMMA OpensSpare ==
  ASSUME PortSafe, NEW p \in Procs, req[p].pc # "idle", req[p].id \in Ids, NEW x, closed \ {x} \subseteq closed',
         x \in Ports => req[p].id \in Users(db, x),
         req[p].kind = "delete" \/ (Moved(p) /\ req[p].kind = "upstream" /\ req[p].pc # "save")
  PROVE  Spares(p)
<1>1. ASSUME NEW i \in Live \ hist.contended, db[i].blocked, db[i].port \notin hist.shared, db[i].port \in closed, ~Deleting(i)
      PROVE  db[i].port \in closed'
  <2>1. CASE db[i].port # x
    BY <1>1, <2>1
  <2>2. CASE db[i].port = x
    <3>1. x \in Ports /\ i \in Ids /\ db[i].is = "live"
      BY <1>1, <2>2, Facts DEF PortSafe, Live
    <3>2. i \in Users(db, x)
      BY <2>2, <3>1, UsersOf
    <3>3. req[p].id = i
      BY <1>1, <2>2, <3>1, <3>2, TwoShare DEF PortSafe, PortInv
    <3> QED BY <1>1, <3>1, <3>3 DEF Deleting, Moved, Site
  <2> QED BY <2>1, <2>2
<1>2. ASSUME NEW q \in Procs, q # p, At(q, "mark"), req[q].id \notin hist.contended, Site(q).is = "live",
             req[q].new \notin hist.shared, req[q].new \in closed
      PROVE  req[q].new \in closed'
  <2>1. CASE req[q].new # x
    BY <1>2, <2>1
  <2>2. CASE req[q].new = x
    <3>1. ReqOK(req[q]) /\ req[q].new \in Ports
      BY <1>2, Facts DEF PortSafe, ReqOK, At
    <3>2. req[q].kind \in {"create", "upstream"} /\ req[q].pc \notin {"idle", "save"} /\ req[q].id \in Ids
      BY <1>2, <3>1 DEF ReqOK, At
    <3>3. Site(q).port = x
      BY <1>2, <2>2, <3>2 DEF PortSafe, PortInv, Moved
    <3>4. req[q].id \in Users(db, x)
      BY <1>2, <3>2, <3>3, UsersOf DEF Site
    <3>5. req[p].id = req[q].id
      BY <1>2, <2>2, <3>1, <3>4, TwoShare DEF PortSafe, PortInv
    <3>6. req[q].id \in hist.contended
      BY <1>2, <3>2, <3>5 DEF PortSafe, PortInv, OnePerSite, Busy
    <3> QED BY <1>2, <3>6
  <2> QED BY <2>1, <2>2
<1> QED BY <1>1, <1>2 DEF Spares

\* A call to the agent.
LEMMA PortAgent ==
  ASSUME PortSafe, NEW p \in Procs, OpenForDelete(p) \/ Release(p) \/ Protect(p) \/ AgentFails(p)
  PROVE  PortInv' /\ MarkedPortIsClosed'
<1>1. /\ UNCHANGED <<db, files, loaded, certs>> /\ req[p].id \in Ids /\ ByHand
      /\ \/ req[p].pc = "open" /\ Carries(p, "save") /\ closed' \in {closed, closed \ {Site(p).port}}
         \/ /\ req[p].pc = "release" /\ closed' \in {closed, closed \ {req[p].old}}
            /\ Ended(p) \/ Carries(p, "protect")
         \/ req[p].pc = "protect" /\ Carries(p, "mark") /\ closed' = closed \cup {req[p].new}
         \/ req[p].pc = "protect" /\ Ended(p) /\ closed' \in {closed, closed \cup {req[p].new}}
  BY AgentCalls DEF PortSafe
<1>2. RowsHold
  BY <1>1, EditedHolds DEF PortSafe
<1>3. ReqOK(req[p]) /\ Moved(p)
  BY Facts DEF PortSafe, PortInv
<1>4. Walks(p)
  BY <1>1 DEF Walks, Carries, Ended
<1>5. Spares(p)
  <2>1. CASE req[p].pc = "open"
    <3>1. Site(p).port \in Ports => Site(p).is = "live"
      BY <1>1, Facts, PxConstants DEF PortSafe, RowOK, Site
    <3>2. Site(p).port \in Ports => req[p].id \in Users(db, Site(p).port)
      BY <1>1, <3>1, UsersOf DEF Site
    <3>3. req[p].kind = "delete" /\ closed \ {Site(p).port} \subseteq closed'
      BY <1>1, <1>3, <2>1 DEF ReqOK
    <3>4. req[p].pc # "idle"
      BY <2>1
    <3> HIDE DEF Spares
    <3> QED BY <1>1, <3>2, <3>3, <3>4, OpensSpare
  <2>2. CASE req[p].pc = "release"
    <3>1. req[p].old \in Ports /\ req[p].kind = "upstream"
      BY <1>3, <2>2 DEF ReqOK
    <3>2. req[p].id \in Users(db, req[p].old)
      BY UsersOf
    <3>3. closed \ {req[p].old} \subseteq closed'
      BY <1>1, <2>2
    <3> QED BY <1>1, <1>3, <2>2, <3>1, <3>2, <3>3, OpensSpare
  <2>3. CASE req[p].pc = "protect"
    BY <1>1, <2>3, Spared
  <2> QED BY <1>1, <2>1, <2>2, <2>3
<1> QED BY <1>1, <1>2, <1>4, <1>5, PortStays DEF ByHand

\* A port opened or closed by hand.
LEMMA PortHands ==
  ASSUME PortSafe, NEW p \in Procs, OpenByHand(p) \/ CloseByHand(p)
  PROVE  PortInv' /\ MarkedPortIsClosed'
<1>1. /\ UNCHANGED <<db, req>> /\ hist'.shared = hist.shared /\ hist'.contended = hist.contended
      /\ \A x \in Ports : x \notin hist'.opened /\ (x \in closed \/ x \in hist.opened) => x \in closed'
  BY Hands DEF PortSafe
<1>2. OnePerSite' /\ Shared(db)' \subseteq hist'.shared
  BY <1>1 DEF PortSafe, PortInv, OnePerSite, Busy, Shared, Users
<1>3. ASSUME NEW q \in Procs PROVE Moved(q)' /\ Marking(q)' /\ Deleted(q)'
  <2>1. Moved(q) /\ Marking(q) /\ Deleted(q)
    BY DEF PortSafe, PortInv
  <2>2. Moved(q)' /\ Deleted(q)'
    BY <1>1, <2>1 DEF Moved, Deleted, Site
  <2>3. At(q, "mark") => req[q].new \in Ports
    BY Facts DEF PortSafe, ReqOK, At
  <2>4. Marking(q)'
    BY <1>1, <2>1, <2>3 DEF Marking, At, Site
  <2> QED BY <2>2, <2>4
<1>4. MarkedPortIsClosed'
  <2>1. SUFFICES ASSUME NEW i \in Ids, db[i].is = "live", i \notin hist.contended, db[i].blocked,
                        db[i].port \notin hist.shared, db[i].port \notin hist'.opened, ~Deleting(i)
                 PROVE  db[i].port \in closed'
    BY <1>1 DEF MarkedPortIsClosed, Live, Deleting
  <2>2. CASE db[i].port \in Ports
    BY <1>1, <2>1, <2>2 DEF PortSafe, MarkedPortIsClosed, Live, Deleting
  <2>3. CASE db[i].port \notin Ports
    <3>1. db[i].port \notin closed /\ db[i].port \notin hist.opened
      BY <2>3, Facts DEF PortSafe, HistSet
    <3> QED BY <2>1, <3>1 DEF PortSafe, MarkedPortIsClosed, Live, Deleting
  <2> QED BY <2>2, <2>3
<1> QED BY <1>2, <1>3, <1>4 DEF PortInv

\* The row of one site is another: created, moved, deleted or marked.
LEMMA PortRow ==
  ASSUME PortSafe, NEW p \in Procs, NEW i \in Ids, i = req[p].id, req[p].pc # "idle", Only(p),
         \A j \in Ids : j # i => db'[j] = db[j], UNCHANGED closed, hist'.opened = hist.opened,
         hist.shared \subseteq hist'.shared, hist'.contended = hist.contended, Shared(db)' \subseteq hist'.shared,
         \/ req'[p] = Idle
         \/ req'[p].id = i /\ req'[p].kind = req[p].kind /\ req'[p].pc \notin {"idle", "mark"},
         Moved(p)', Deleted(p)',
         \A q \in Procs : Deleted(q) /\ q # p /\ req[q].kind = "delete" /\ req[q].pc \notin {"idle", "open", "save"}
            /\ req[q].id = i => db'[i].is = "gone",
         db'[i].is = "live" /\ db'[i].blocked /\ i \notin hist.contended
            /\ db'[i].port \notin hist'.shared \cup hist.opened
            => db'[i].port \in closed
  PROVE  PortInv' /\ MarkedPortIsClosed'
<1>1. \A q \in Procs : q # p => req'[q] = req[q]
  BY DEF Only
<1>2. Idle.kind = None /\ Idle.id = None /\ Idle.pc = "idle" /\ None \notin Ids
  BY IdleType, PxConstants
<1>3. \A q \in Procs : Busy(q)' => Busy(q) /\ req'[q].id = req[q].id /\ req'[q].kind = req[q].kind
  BY <1>1, <1>2 DEF Busy
<1>4. \A q \in Procs : Busy(q) => req[q].id \in Ids
  BY Facts DEF Busy, ReqOK, PortSafe
<1>5. OnePerSite'
  BY <1>3 DEF OnePerSite, PortSafe, PortInv
<1>6. ASSUME NEW q \in Procs, q # p, Busy(q), req[q].id = i PROVE i \in hist'.contended
  BY <1>6 DEF OnePerSite, PortSafe, PortInv, Busy
<1>7. ASSUME NEW q \in Procs PROVE Moved(q)' /\ Marking(q)' /\ Deleted(q)'
  <2>1. CASE q = p
    BY <1>2, <2>1 DEF Marking, At
  <2>2. CASE q # p /\ ~Busy(q)
    BY <1>1, <2>2 DEF Moved, Marking, Deleted, Busy, At
  <2>3. CASE q # p /\ Busy(q) /\ req[q].id = i
    <3>1. req'[q] = req[q] /\ i \in hist'.contended
      BY <1>1, <1>6, <2>3
    <3>2. Moved(q)' /\ Marking(q)'
      BY <2>3, <3>1 DEF Moved, Marking
    <3>3. Deleted(q)
      BY DEF PortSafe, PortInv
    <3> QED BY <2>3, <3>1, <3>2, <3>3 DEF Deleted, Site
  <2>4. CASE q # p /\ Busy(q) /\ req[q].id # i
    <3>1. req'[q] = req[q] /\ Site(q)' = Site(q)
      BY <1>1, <1>4, <2>4 DEF Site
    <3>2. Moved(q) /\ Marking(q) /\ Deleted(q)
      BY DEF PortSafe, PortInv
    <3> QED BY <3>1, <3>2 DEF Moved, Marking, Deleted, At
  <2> QED BY <2>1, <2>2, <2>3, <2>4
<1>8. MarkedPortIsClosed'
  <2>1. SUFFICES ASSUME NEW j \in Ids, db'[j].is = "live", j \notin hist'.contended, db'[j].blocked,
                        db'[j].port \notin hist'.shared, db'[j].port \notin hist.opened, ~Deleting(j)'
                 PROVE  db'[j].port \in closed'
    BY DEF MarkedPortIsClosed, Live, Deleting
  <2>2. CASE j = i
    BY <2>1, <2>2
  <2>3. CASE j # i
    <3>1. ~Deleting(j)
      BY <1>1, <2>1, <2>3 DEF Deleting
    <3>2. j \in Live \ hist.contended /\ db[j].blocked /\ db[j].port \notin hist.shared /\ db'[j].port = db[j].port
      BY <2>1, <2>3 DEF Live
    <3> QED BY <2>1, <3>1, <3>2 DEF PortSafe, MarkedPortIsClosed, Deleting
  <2> QED BY <2>2, <2>3
<1> QED BY <1>5, <1>7, <1>8 DEF PortInv

LEMMA PortCreate ==
  ASSUME PortSafe, NEW p \in Procs, Create(p)
  PROVE  PortInv' /\ MarkedPortIsClosed'
<1>1. StageInv /\ req[p].pc = "save" /\ req[p].kind = "create" /\ UNCHANGED closed
  BY Creates DEF PortSafe
<1>2. CASE Ended(p) /\ UNCHANGED <<db, hist>>
  BY <1>1, <1>2, OpenedKept, EditedHolds, Spared, PortStays DEF Walks, Ended
<1>3. CASE ~(Ended(p) /\ UNCHANGED <<db, hist>>)
  <2> DEFINE i == req[p].id
  <2>1. /\ Site(p).is = "new" /\ Only(p) /\ i \in Ids
        /\ req'[p].pc = "unlink" /\ req'[p].kind = "create" /\ req'[p].id = i
        /\ req'[p].old = None /\ req'[p].new = db'[i].port
        /\ \A j \in Ids : j # i => db'[j] = db[j]
        /\ ~db'[i].blocked /\ db'[i].is = "live"
        /\ hist'.shared = hist.shared \cup Shared(db') /\ hist'.contended = hist.contended
    BY <1>1, <1>3, Creates
  <2>2. Shared(db)' \subseteq hist'.shared
    <3>1. \A q \in Procs : req'[q].old \in Ports => req[q].old = req'[q].old /\ req[q].id = req'[q].id
      BY <2>1, PxConstants DEF Only
    <3>2. \A x \in Ports : Users(db, x)' \subseteq Users(db', x)
      BY <3>1 DEF Users
    <3>3. Shared(db)' \subseteq Shared(db')
      BY <3>2 DEF Shared
    <3> QED BY <2>1, <3>3
  <2>3. Moved(p)' /\ Deleted(p)'
    BY <2>1 DEF Moved, Deleted, Site
  <2>4. \A q \in Procs : Deleted(q) /\ q # p /\ req[q].kind = "delete" /\ req[q].pc \notin {"idle", "open", "save"}
            /\ req[q].id = i => db'[i].is = "gone"
    BY <2>1 DEF Deleted, Site
  <2>5. hist'.opened = hist.opened
    BY <1>1, OpenedKept
  <2> HIDE DEF i
  <2> QED BY <1>1, <2>1, <2>2, <2>3, <2>4, <2>5, PortRow DEF i
<1> QED BY <1>2, <1>3

LEMMA PortUpstream ==
  ASSUME PortSafe, NEW p \in Procs, Upstream(p)
  PROVE  PortInv' /\ MarkedPortIsClosed'
<1> DEFINE i == req[p].id
<1>1. StageInv /\ req[p].pc = "save" /\ req[p].kind = "upstream" /\ UNCHANGED closed
  BY MovesUpstream DEF PortSafe
<1>2. /\ Site(p).is = "live" /\ Only(p) /\ i \in Ids
      /\ req'[p].pc = "unlink" /\ req'[p].kind = "upstream" /\ req'[p].id = i
      /\ req'[p].old \in {None, Site(p).port} /\ req'[p].new = db'[i].port
      /\ \A j \in Ids : j # i => db'[j] = db[j]
      /\ ~db'[i].blocked /\ db'[i].is = "live"
      /\ hist'.shared = hist.shared \cup Shared(db') /\ hist'.contended = hist.contended
  BY <1>1, MovesUpstream
<1>3. Shared(db)' \subseteq hist'.shared
  <2>1. SUFFICES ASSUME NEW x \in Ports, NEW a \in Users(db, x)', NEW b \in Users(db, x)', a # b
                 PROVE  x \in Shared(db') \cup Shared(db)
    BY <1>2 DEF Shared, PortSafe, PortInv
  <2>2. \A q \in Procs : q # p => req'[q] = req[q]
    BY <1>2 DEF Only
  <2>3. \A j \in Users(db, x)' : \/ j \in Ids /\ db'[j].is = "live" /\ db'[j].port = x
                                 \/ \E q \in Procs : req'[q].old = x /\ req'[q].id = j
    BY DEF Users
  <2>4. CASE req'[p].old = x
    <3>1. db[i].port = x /\ db[i].is = "live"
      BY <1>2, <2>4, PxConstants DEF Site
    <3>2. \A j \in Users(db, x)' : j \in Users(db, x)
      <4>1. SUFFICES ASSUME NEW j \in Users(db, x)' PROVE j \in Users(db, x)
        OBVIOUS
      <4>2. CASE j = i
        BY <1>2, <3>1, <4>2, UsersOf
      <4>3. CASE j # i
        <5>1. \/ j \in Ids /\ db[j].is = "live" /\ db[j].port = x
              \/ \E q \in Procs : req[q].old = x /\ req[q].id = j
          BY <1>2, <2>2, <2>3, <4>3
        <5> QED BY <5>1, UsersOf
      <4> QED BY <4>2, <4>3
    <3> QED BY <2>1, <3>2 DEF Shared
  <2>5. CASE req'[p].old # x
    <3>1. \A j \in Users(db, x)' : j \in Users(db', x)
      BY <2>2, <2>3, <2>5 DEF Users
    <3> QED BY <2>1, <3>1 DEF Shared
  <2> QED BY <2>4, <2>5
<1>4. Moved(p)' /\ Deleted(p)'
  BY <1>2 DEF Moved, Deleted, Site
<1>5. \A q \in Procs : Deleted(q) /\ q # p /\ req[q].kind = "delete" /\ req[q].pc \notin {"idle", "open", "save"}
          /\ req[q].id = i => db'[i].is = "gone"
  BY <1>2 DEF Deleted, Site
<1>6. hist'.opened = hist.opened
  BY <1>1, OpenedKept
<1> HIDE DEF i
<1> QED BY <1>1, <1>2, <1>3, <1>4, <1>5, <1>6, PortRow DEF i

LEMMA PortDelete ==
  ASSUME PortSafe, NEW p \in Procs, Delete(p)
  PROVE  PortInv' /\ MarkedPortIsClosed'
<1> DEFINE i == req[p].id
<1>1. StageInv /\ req[p].pc = "save" /\ req[p].kind = "delete" /\ UNCHANGED <<closed, hist>>
      /\ Site(p).is = "live" /\ Onto(p, "unlink") /\ i \in Ids
      /\ db'[i].is = "gone" /\ db'[i].port = None /\ \A j \in Ids : j # i => db'[j] = db[j]
  BY Deletes DEF PortSafe
<1>2. Shared(db)' \subseteq hist'.shared
  <2>1. \A q \in Procs : req'[q].old = req[q].old /\ req[q].id = req'[q].id
    BY <1>1 DEF Onto, Only
  <2>2. \A x \in Ports : Users(db, x)' \subseteq Users(db, x)
    BY <1>1, <2>1 DEF Users
  <2> QED BY <1>1, <2>2, SharedFalls DEF PortSafe, PortInv
<1>3. Moved(p)' /\ Deleted(p)'
  BY <1>1 DEF Moved, Deleted, Site, Onto
<1>4. hist'.opened = hist.opened
  BY <1>1, OpenedKept
<1> HIDE DEF i
<1> QED BY <1>1, <1>2, <1>3, <1>4, PortRow DEF Onto, i

LEMMA PortMark ==
  ASSUME PortSafe, NEW p \in Procs, Mark(p)
  PROVE  PortInv' /\ MarkedPortIsClosed'
<1> DEFINE i == req[p].id
<1>1. /\ StageInv /\ req[p].pc = "mark" /\ Ended(p) /\ UNCHANGED <<files, loaded, certs, closed, hist>> /\ i \in Ids
      /\ \/ Site(p).is # "live" /\ UNCHANGED db
         \/ Site(p).is = "live" /\ db' = [db EXCEPT ![i].blocked = TRUE]
  BY Marks DEF PortSafe
<1>2. CASE UNCHANGED db
  BY <1>1, <1>2, EditedHolds, Spared, PortStays DEF Walks, Ended
<1>3. CASE Site(p).is = "live" /\ db' = [db EXCEPT ![i].blocked = TRUE]
  <2>1. db[i] \in RowSet /\ ReqOK(req[p]) /\ req[p] \in ReqSet
    BY <1>1, Facts
  <2>2. /\ db'[i].is = db[i].is /\ db'[i].port = db[i].port /\ \A j \in Ids : j # i => db'[j] = db[j]
    BY <1>1, <1>3, <2>1, Facts DEF RowSet
  <2>3. req'[p] = Idle /\ \A q \in Procs : q # p => req'[q] = req[q]
    BY <1>1 DEF Ended, Only
  <2>4. Shared(db)' \subseteq hist'.shared
    <3>1. \A q \in Procs : req'[q].old \in Ports => req[q].old = req'[q].old /\ req[q].id = req'[q].id
      BY <2>3, IdleType, PxConstants
    <3>2. \A x \in Ports : Users(db, x)' \subseteq Users(db, x)
      BY <2>2, <3>1 DEF Users
    <3> QED BY <1>1, <3>2, SharedFalls DEF PortSafe, PortInv
  <2>5. Moved(p)' /\ Deleted(p)'
    BY <2>3, IdleType DEF Moved, Deleted
  <2>6. req[p].new \in Ports /\ req[p].kind \in {"create", "upstream"}
    BY <1>1, <2>1 DEF ReqOK
  <2>7. i \notin hist.contended /\ db'[i].port \notin hist'.shared \cup hist.opened => db'[i].port \in closed
    <3>1. Moved(p) /\ Marking(p)
      BY DEF PortSafe, PortInv
    <3> QED BY <1>1, <1>3, <2>2, <2>6, <3>1 DEF Moved, Marking, At, Site
  <2>8. \A q \in Procs : Deleted(q) /\ q # p /\ req[q].kind = "delete" /\ req[q].pc \notin {"idle", "open", "save"}
            /\ req[q].id = i => db'[i].is = "gone"
    BY <2>2 DEF Deleted, Site
  <2> HIDE DEF i
  <2> QED BY <1>1, <2>2, <2>3, <2>4, <2>5, <2>7, <2>8, PortRow DEF Ended, i
<1> QED BY <1>1, <1>2, <1>3

LEMMA PortBegin ==
  ASSUME PortSafe, NEW p \in Procs, Begin(p)
  PROVE  PortInv' /\ MarkedPortIsClosed'
<1>1. /\ StageInv /\ req[p].pc = "idle" /\ UNCHANGED <<db, files, loaded, certs, closed>>
      /\ req'[p].id \in Ids /\ req'[p].old = None /\ req'[p].new = None /\ req'[p].pc \in {"unlink", "open", "save"}
      /\ req'[p].kind \in {"create", "upstream", "delete"} => req'[p].pc # "unlink"
      /\ \A q \in Procs : q # p => Beside(q)
      /\ hist'.shared = hist.shared /\ hist.contended \subseteq hist'.contended
      /\ (\E q \in Procs : q # p /\ req[q].pc # "idle" /\ req[q].id = req'[p].id) => req'[p].id \in hist'.contended
  BY Begins DEF PortSafe
<1>2. hist'.opened = hist.opened
  BY <1>1, OpenedKept
<1>3. req[p].id = None
  BY <1>1, Facts, IdleType DEF ReqOK, PortSafe
<1>4. OnePerSite'
  BY <1>1 DEF OnePerSite, Busy, Beside, PortSafe, PortInv
<1>5. Shared(db)' \subseteq hist'.shared
  <2>1. \A q \in Procs : req'[q].old \in Ports => req[q].old = req'[q].old /\ req[q].id = req'[q].id
    BY <1>1, PxConstants DEF Beside
  <2>2. \A x \in Ports : Users(db, x)' \subseteq Users(db, x)
    BY <1>1, <2>1 DEF Users
  <2> QED BY <1>1, <2>2, SharedFalls DEF PortSafe, PortInv
<1>6. ASSUME NEW q \in Procs PROVE Moved(q)' /\ Marking(q)' /\ Deleted(q)'
  <2>1. CASE q = p
    <3>1. req'[p].pc = "open" => req'[p].kind = "delete"
      BY <1>1, Begins, Facts DEF PortSafe, ReqOK, StageInv
    <3> QED BY <1>1, <2>1, <3>1 DEF Moved, Marking, Deleted, At
  <2>2. CASE q # p
    <3>1. Moved(q) /\ Marking(q) /\ Deleted(q)
      BY DEF PortSafe, PortInv
    <3> QED BY <1>1, <1>2, <2>2, <3>1 DEF Moved, Marking, Deleted, At, Site, Beside
  <2> QED BY <2>1, <2>2
<1>7. MarkedPortIsClosed'
  <2>1. \A i \in Ids : Deleting(i) => Deleting(i)'
    BY <1>1, <1>3, PxConstants DEF Deleting, Beside
  <2> QED BY <1>1, <1>2, <2>1 DEF PortSafe, MarkedPortIsClosed, Live, Deleting
<1> QED BY <1>4, <1>5, <1>6, <1>7 DEF PortInv

\* The steps that leave the ports and their marks alone.
LEMMA PortForms ==
  ASSUME PortSafe, NEW p \in Procs,
         NotFound(p) \/ Rejected(p) \/ SaveForm(p) \/ Order(p) \/ SaveGeo(p) \/ RefuseHalf(p) \/ MovePanel(p)
  PROVE  PortInv' /\ MarkedPortIsClosed'
<1>1. StageInv
  BY DEF PortSafe
<1>2. /\ req[p].pc = "save" /\ UNCHANGED closed /\ hist'.shared = hist.shared /\ hist'.contended = hist.contended
      /\ Edited(p) \/ UNCHANGED db
      /\ \/ Ended(p) /\ (req[p].kind = "delete" => Site(p).is # "live")
         \/ /\ Onto(p, "unlink") \/ Onto(p, "map")
            /\ req[p].kind \in Edits \cup {"certificate", "geo"}
  <2>1. CASE NotFound(p) \/ Rejected(p)
    BY <1>1, <2>1, LeavesEarly
  <2>2. CASE SaveForm(p) \/ Order(p)
    BY <1>1, <2>2, Saves
  <2>3. CASE SaveGeo(p)
    BY <1>1, <2>3, SavesGeo
  <2>4. CASE RefuseHalf(p) \/ MovePanel(p)
    BY <1>1, <2>4, StoresOnly
  <2> QED BY <2>1, <2>2, <2>3, <2>4
<1>3. Walks(p)
  BY <1>2 DEF Walks, Ended, Onto, Edits
<1>4. hist'.opened = hist.opened
  BY <1>1, OpenedKept
<1> QED BY <1>1, <1>2, <1>3, <1>4, EditedHolds, Spared, PortStays

LEMMA PortRenders ==
  ASSUME PortSafe, NEW p \in Procs,
         WriteMap(p) \/ Unlink(p) \/ WriteShared(p) \/ ListSites(p) \/ WriteSite(p) \/ AddRows(p) \/ WriteMaps(p)
            \/ Test(p) \/ Signal(p) \/ DiskFails(p) \/ DockerFails(p)
  PROVE  PortInv' /\ MarkedPortIsClosed'
<1>1. StageInv
  BY DEF PortSafe
<1>2. /\ req[p].pc \in Rendering \cup {"map", "test", "signal"} /\ UNCHANGED closed
      /\ hist'.shared = hist.shared /\ hist'.contended = hist.contended
      /\ RowsHold
      /\ Ended(p) \/ (\E pc \in Rendering \cup {"test", "signal", "certbot", "release", "protect"} : Carries(p, pc))
  <2>1. CASE WriteMap(p)
    BY <1>1, <2>1, WritesMap, EditedHolds
  <2>2. CASE Unlink(p) \/ WriteShared(p) \/ ListSites(p)
    BY <1>1, <2>2, Renders, EditedHolds DEF Rendering
  <2>3. CASE WriteSite(p)
    BY <1>1, <2>3, WritesSite, EditedHolds DEF Rendering
  <2>4. CASE AddRows(p)
    <3>1. /\ req[p].pc = "rows" /\ UNCHANGED closed
          /\ hist'.shared = hist.shared /\ hist'.contended = hist.contended
          /\ \/ Ended(p) /\ UNCHANGED db
             \/ Carries(p, "site") /\ \E i \in Ids : db' = [db EXCEPT ![i].rows = TRUE]
      BY <1>1, <2>4, AddsRows
    <3>2. ASSUME NEW i \in Ids, db' = [db EXCEPT ![i].rows = TRUE] PROVE RowsHold
      BY <1>1, <3>2, Facts DEF RowsHold, RowSet
    <3> QED BY <1>1, <3>1, <3>2, EditedHolds DEF Rendering
  <2>5. CASE WriteMaps(p)
    BY <1>1, <2>5, WritesMaps, EditedHolds DEF Rendering
  <2>6. CASE Test(p) \/ Signal(p) \/ DockerFails(p)
    BY <1>1, <2>6, Reloading, EditedHolds DEF Follows
  <2>7. CASE DiskFails(p)
    BY <1>1, <2>7, DiskEnds, EditedHolds DEF Follows
  <2> QED BY <2>1, <2>2, <2>3, <2>4, <2>5, <2>6, <2>7
<1>3. Walks(p)
  BY <1>2 DEF Walks, Ended, Carries, Rendering
<1>4. hist'.opened = hist.opened
  BY <1>1, OpenedKept
<1> QED BY <1>2, <1>3, <1>4, Spared, PortStays

LEMMA PortRest ==
  ASSUME PortSafe, NEW p \in Procs, Issue(p) \/ CertbotFails(p) \/ Die(p)
  PROVE  PortInv' /\ MarkedPortIsClosed'
<1>1. StageInv /\ hist'.opened = hist.opened
  BY OpenedKept DEF PortSafe
<1>2. CASE Issue(p)
  <2>1. req[p].pc = "certbot" /\ UNCHANGED <<closed, hist>> /\ (Edited(p) \/ UNCHANGED db)
        /\ \/ Ended(p)
           \/ /\ Only(p) /\ req'[p].pc = "unlink" /\ req'[p].kind = req[p].kind /\ req'[p].id = req[p].id
              /\ req'[p].old = "issued" /\ req'[p].new = req[p].new
    BY <1>1, <1>2, Issues
  <2>2. Walks(p)
    BY <2>1 DEF Walks, Ended
  <2> QED BY <1>1, <2>1, <2>2, EditedHolds, Spared, PortStays
<1>3. CASE CertbotFails(p)
  <2>1. req[p].pc = "certbot" /\ UNCHANGED closed /\ Edited(p) /\ Ended(p)
        /\ hist'.shared = hist.shared /\ hist'.contended = hist.contended
    BY <1>1, <1>3, CertbotRefuses
  <2>2. Walks(p)
    BY <2>1 DEF Walks, Ended
  <2> QED BY <1>1, <2>1, <2>2, EditedHolds, Spared, PortStays
<1>4. CASE Die(p)
  <2>1. req[p].pc # "idle" /\ UNCHANGED <<closed, db>> /\ Ended(p)
        /\ hist'.shared = hist.shared /\ hist'.contended = hist.contended \cup {req[p].id}
    BY <1>1, <1>4, DieEnds
  <2>2. Walks(p)
    BY <2>1 DEF Walks, Ended
  <2> QED BY <1>1, <2>1, <2>2, EditedHolds, Spared, PortStays
<1> QED BY <1>2, <1>3, <1>4

LEMMA PxPortStep ==
  ASSUME PortSafe, [Next]_vars
  PROVE  PortSafe'
<1>1. StageInv'
  BY PxStageStep DEF PortSafe
<1>2. PortInv' /\ MarkedPortIsClosed'
  <2>1. CASE Restart \/ Start \/ UNCHANGED vars
    <3>1. /\ UNCHANGED <<db, closed, req>> /\ hist'.shared = hist.shared /\ hist'.contended = hist.contended
          /\ hist'.opened = hist.opened
      <4>1. UNCHANGED hist \/ hist' = [hist EXCEPT !.live = FALSE]
        BY <2>1 DEF Restart, Start, vars
      <4> QED BY <2>1, <4>1, Restarts, Facts DEF PortSafe, HistSet
    <3> QED BY <3>1 DEF PortSafe, PortInv, OnePerSite, Busy, Shared, Users, Moved, Marking, Deleted, At, Site,
                        MarkedPortIsClosed, Live
  <2>2. ASSUME NEW p \in Procs, Begin(p) \/ Create(p) \/ Upstream(p) \/ Delete(p) \/ Mark(p)
        PROVE  PortInv' /\ MarkedPortIsClosed'
    BY <2>2, PortBegin, PortCreate, PortUpstream, PortDelete, PortMark
  <2>3. ASSUME NEW p \in Procs,
               NotFound(p) \/ Rejected(p) \/ SaveForm(p) \/ Order(p) \/ SaveGeo(p) \/ RefuseHalf(p) \/ MovePanel(p)
        PROVE  PortInv' /\ MarkedPortIsClosed'
    BY <2>3, PortForms
  <2>4. ASSUME NEW p \in Procs,
               WriteMap(p) \/ Unlink(p) \/ WriteShared(p) \/ ListSites(p) \/ WriteSite(p) \/ AddRows(p) \/ WriteMaps(p)
                  \/ Test(p) \/ Signal(p) \/ DiskFails(p) \/ DockerFails(p)
        PROVE  PortInv' /\ MarkedPortIsClosed'
    BY <2>4, PortRenders
  <2>5. ASSUME NEW p \in Procs, OpenForDelete(p) \/ Release(p) \/ Protect(p) \/ AgentFails(p)
        PROVE  PortInv' /\ MarkedPortIsClosed'
    BY <2>5, PortAgent
  <2>7. ASSUME NEW p \in Procs, OpenByHand(p) \/ CloseByHand(p)
        PROVE  PortInv' /\ MarkedPortIsClosed'
    BY <2>7, PortHands
  <2>6. ASSUME NEW p \in Procs, Issue(p) \/ CertbotFails(p) \/ Die(p)
        PROVE  PortInv' /\ MarkedPortIsClosed'
    BY <2>6, PortRest
  <2> QED BY <2>1, <2>2, <2>3, <2>4, <2>5, <2>6, <2>7, PxKinds
<1> QED BY <1>1, <1>2 DEF PortSafe

LEMMA PxPortInit == Init => PortSafe
<1> SUFFICES ASSUME Init PROVE PortSafe
  OBVIOUS
<1>1. StageInv
  BY PxStageInit
<1>2. req = [p \in Procs |-> Idle] /\ hist.shared = Shared(db)
  BY DEF Init
<1>3. PortInv
  BY <1>2, IdleType DEF PortInv, OnePerSite, Busy, Moved, Marking, Deleted, At
<1>4. MarkedPortIsClosed
  <2> DEFINE x == CHOOSE port \in Ports : TRUE
  <2>1. /\ closed = {x}
        /\ db = [i \in Ids |->
              IF i = Console THEN [Row(i, CHOOSE d \in Domains : TRUE, None) EXCEPT !.rows = TRUE]
              ELSE IF i \in First THEN [Row(i, i, x) EXCEPT !.rows = TRUE, !.le = TRUE,
                                          !.status = "active", !.blocked = TRUE]
              ELSE NewRow]
    BY DEF Init
  <2> HIDE DEF x
  <2>2. \A i \in Ids : db[i].blocked => db[i].port = x
    BY <2>1 DEF Row, NewRow
  <2>3. \A i \in Live : db[i].blocked => db[i].port \in closed
    <3>1. closed = {x} /\ \A i \in Live : i \in Ids
      BY <2>1 DEF Live
    <3> QED BY <2>2, <3>1
  <2> QED BY <2>3 DEF MarkedPortIsClosed
<1> QED BY <1>1, <1>3, <1>4 DEF PortSafe

(* A port a site is marked with is closed, whichever answer of the agent was  *)
(* lost: whatever the other requests do, the mark of a site falls with its    *)
(* port before the port is opened, and is set again only after the agent has  *)
(* closed the new one.  A port opened by hand is excepted until it is closed. *)
THEOREM PxMarkedPortIsClosed == Spec => []MarkedPortIsClosed
<1>1. Init => PortSafe
  BY PxPortInit
<1>2. PortSafe /\ [Next]_vars => PortSafe'
  BY PxPortStep
<1>3. PortSafe => MarkedPortIsClosed
  BY DEF PortSafe
<1> QED BY <1>1, <1>2, <1>3, PTL DEF Spec

\* Renders.
RenderSafe == StageInv /\ RenderInv

\* What a request that nobody crosses keeps to at its stage.
DiskAt(pc) == hist.disk /\ pc \in Resting \cup {"test", "signal"} => files = Rendered
LiveAt(pc) == hist.live /\ pc \in Resting /\ Loadable(files) /\ loaded # None => loaded = files
TornAt(pc) == ~hist.torn /\ pc \notin Rendering => \A i \in Live : \E f \in files.confs : f.id = i
Kept(p)    == Progress(p) /\ DiskAt(req[p].pc) /\ LiveAt(req[p].pc) /\ TornAt(req[p].pc)
Flagged    == ~hist.disk /\ ~hist.live /\ hist.torn

LEMMA AloneKept ==
  ASSUME RenderSafe, NEW p \in Procs, Busy(p), ~req[p].crossed
  PROVE  Kept(p) /\ \A q \in Procs : q # p => req[q].pc = "idle"
<1>1. \A q \in Procs : q # p => req[q].pc = "idle"
  BY DEF RenderSafe, RenderInv, Crossing, Busy
<1>2. DiskAt(req[p].pc)
  BY <1>1 DEF DiskAt, RenderSafe, RenderInv, DiskInv, Resting
<1>3. LiveAt(req[p].pc)
  BY <1>1 DEF LiveAt, RenderSafe, RenderInv, LiveInv, Resting
<1>4. TornAt(req[p].pc)
  BY <1>1 DEF TornAt, RenderSafe, RenderInv, TornInv, Rendering
<1> QED BY <1>1, <1>2, <1>3, <1>4 DEF Kept, RenderSafe, RenderInv

LEMMA CrossedFlags ==
  ASSUME RenderSafe, NEW p \in Procs, Busy(p), req[p].crossed
  PROVE  Flagged
BY DEF RenderSafe, RenderInv, Crossing, Flagged

LEMMA RenderBy ==
  ASSUME RenderSafe, NEW p \in Procs, Busy(p), Only(p), CertInv',
         req'[p] = Idle \/ req'[p].crossed = req[p].crossed,
         req[p].crossed => Flagged', ~req[p].crossed => Kept(p)'
  PROVE  RenderInv'
<1>1. \A q \in Procs : q # p => req'[q] = req[q]
  BY DEF Only
<1>2. CASE req[p].crossed
  <2>1. \A q \in Procs : Busy(q) => req[q].crossed
    BY <1>2 DEF RenderSafe, RenderInv, Crossing
  <2>2. \A q \in Procs : Busy(q)' => req'[q].crossed
    BY <1>1, <1>2, <2>1, IdleType DEF Busy
  <2>3. Flagged'
    BY <1>2
  <2>4. Crossing'
    BY <2>2, <2>3 DEF Crossing, Flagged
  <2>5. \A q \in Procs : Progress(q)'
    BY <2>2 DEF Progress
  <2> QED BY <2>3, <2>4, <2>5 DEF RenderInv, DiskInv, LiveInv, TornInv, Flagged
<1>3. CASE ~req[p].crossed
  <2>1. \A q \in Procs : q # p => req'[q].pc = "idle"
    BY <1>1, <1>3, AloneKept
  <2>2. Kept(p)' /\ ~req'[p].crossed
    BY <1>3, IdleType
  <2>3. Crossing'
    BY <2>1, <2>2 DEF Crossing, Busy
  <2>4. \A q \in Procs : Progress(q)'
    BY <2>1, <2>2 DEF Kept, Progress, Busy
  <2>5. DiskInv' /\ LiveInv' /\ TornInv'
    BY <2>2 DEF Kept, DiskInv, LiveInv, TornInv, DiskAt, LiveAt, TornAt
  <2> QED BY <2>3, <2>4, <2>5 DEF RenderInv
<1> QED BY <1>2, <1>3

\* Certificates.
LEMMA CertKept ==
  ASSUME RenderSafe, certs \subseteq certs', hist.renamed => hist'.renamed,
         \A i \in Ids : db'[i].status = "active" =>
            db'[i].domain \in certs' \/ hist'.renamed \/ (db[i].status = "active" /\ db'[i].domain = db[i].domain)
  PROVE  CertInv'
BY DEF RenderSafe, RenderInv, CertInv

\* A row of which a render sees nothing new.
LEMMA SameRender ==
  ASSUME \A i \in Ids : /\ db'[i].is = db[i].is /\ db'[i].domain = db[i].domain /\ db'[i].text = db[i].text
                        /\ db'[i].limited = db[i].limited /\ db'[i].le = db[i].le /\ db'[i].status = db[i].status
                        /\ db'[i].port = db[i].port
  PROVE  Live' = Live /\ Limited' = Limited /\ Confs' = Confs /\ \A i \in Ids : Conf(i)' = Conf(i)
<1>1. Live' = Live
  BY DEF Live
<1>2. Limited' = Limited
  BY <1>1 DEF Limited, Live
<1>3. \A i \in Ids : Conf(i)' = Conf(i)
  BY DEF Conf, Text, Tls
<1>4. Confs' = Confs
  BY <1>1, <1>3 DEF Confs, Live
<1> QED BY <1>1, <1>2, <1>3, <1>4

LEMMA RenderedIs ==
  ASSUME NEW f \in FileSet, f.confs = Confs, f.zones = Limited, f.geoip = Live, f.maps = {Map(i) : i \in Live}
  PROVE  f = Rendered
BY DEF FileSet, Rendered, Confs

LEMMA IsRendered ==
  /\ Rendered.confs = Confs /\ Rendered.zones = Limited /\ Rendered.geoip = Live
  /\ Rendered.maps = {Map(i) : i \in Live}
BY DEF Rendered, Confs

\* Stages at which nothing depends on the files.
LEMMA KeptUnlink ==
  ASSUME NEW p \in Procs, req'[p].pc = "unlink"
  PROVE  Kept(p)'
BY DEF Kept, Progress, DiskAt, LiveAt, TornAt, At, Resting, Rendering

\* The flags are down.
LEMMA KeptDropped ==
  ASSUME NEW p \in Procs, req'[p].pc \in Resting, ~hist'.disk, ~hist'.live,
         \/ hist'.torn
         \/ /\ TornAt(req[p].pc) /\ req[p].pc \notin Rendering /\ hist'.torn = hist.torn
            /\ Live' = Live /\ UNCHANGED files
  PROVE  Kept(p)'
<1>1. Progress(p)' /\ DiskAt(req[p].pc)' /\ LiveAt(req[p].pc)'
  BY DEF Progress, DiskAt, LiveAt, At, Resting
<1>2. TornAt(req[p].pc)'
  BY DEF TornAt
<1> QED BY <1>1, <1>2 DEF Kept

\* A request that rests goes on, with the files and the rows as they were.
LEMMA KeptRest ==
  ASSUME NEW p \in Procs, Kept(p), req[p].pc \in Resting, req'[p].pc \in Resting,
         UNCHANGED <<files, loaded, certs>>, Rendered' = Rendered, Live' = Live,
         hist'.disk = hist.disk, hist'.live = hist.live, hist'.torn = hist.torn
  PROVE  Kept(p)'
<1>1. Progress(p)'
  BY DEF Progress, At, Resting
<1>2. DiskAt(req[p].pc)'
  BY DEF DiskAt, Kept
<1>3. LiveAt(req[p].pc)'
  BY DEF LiveAt, Kept, Loadable
<1>4. TornAt(req[p].pc)'
  BY DEF TornAt, Kept, Resting, Rendering
<1> QED BY <1>1, <1>2, <1>3, <1>4 DEF Kept

LEMMA EditedCert ==
  ASSUME RenderSafe, NEW p \in Procs, Edited(p), UNCHANGED certs, hist'.renamed = hist.renamed,
         db'[req[p].id].domain = Site(p).domain, db'[req[p].id].status = "active" => Site(p).status = "active"
  PROVE  CertInv'
<1>1. \A i \in Ids : db'[i].status = "active" => db[i].status = "active" /\ db'[i].domain = db[i].domain
  BY DEF Edited, Site
<1> QED BY <1>1, CertKept

LEMMA SameCert ==
  ASSUME RenderSafe, UNCHANGED <<db, certs>>, hist'.renamed = hist.renamed
  PROVE  CertInv'
BY CertKept

\* The forms.
LEMMA RenderForms ==
  ASSUME RenderSafe, NEW p \in Procs, NotFound(p) \/ Rejected(p) \/ SaveForm(p) \/ Order(p) \/ RefuseHalf(p) \/ MovePanel(p)
  PROVE  RenderInv'
<1>1. StageInv
  BY DEF RenderSafe
<1>2. CASE NotFound(p) \/ Rejected(p)
  <2>1. req[p].pc = "save" /\ Ended(p) /\ UNCHANGED <<db, files, loaded, certs, hist>>
    BY <1>1, <1>2, LeavesEarly
  <2>2. Rendered' = Rendered /\ Live' = Live
    BY <2>1 DEF Rendered, Live, Limited, Conf, Map, Text, Tls
  <2>3. ~req[p].crossed => Kept(p)'
    BY <2>1, <2>2, AloneKept, KeptRest, IdleType DEF Ended, Resting, Busy
  <2>4. req[p].crossed => Flagged'
    BY <2>1, CrossedFlags DEF Flagged, Busy
  <2> QED BY <2>1, <2>3, <2>4, SameCert, RenderBy DEF Ended, Busy
<1>3. CASE SaveForm(p) \/ Order(p)
  <2>1. /\ req[p].pc = "save" /\ Onto(p, "unlink") /\ Edited(p) /\ UNCHANGED <<certs, hist>>
        /\ db'[req[p].id].domain = Site(p).domain
        /\ db'[req[p].id].status = "active" => Site(p).status = "active"
    BY <1>1, <1>3, Saves
  <2>2. CertInv'
    BY <2>1, EditedCert
  <2>3. Kept(p)'
    BY <2>1, KeptUnlink DEF Onto
  <2>4. req[p].crossed => Flagged'
    BY <2>1, CrossedFlags DEF Flagged, Busy
  <2> QED BY <2>1, <2>2, <2>3, <2>4, RenderBy DEF Onto, Busy
<1>4. CASE RefuseHalf(p) \/ MovePanel(p)
  <2>1. /\ req[p].pc = "save" /\ Ended(p) /\ Edited(p) /\ UNCHANGED <<files, loaded, certs, closed>>
        /\ ~hist'.disk /\ ~hist'.live /\ hist'.torn = hist.torn
        /\ db'[req[p].id].status = "active" => Site(p).status = "active"
        /\ hist.renamed => hist'.renamed
        /\ db'[req[p].id].status = "active" => hist'.renamed \/ db'[req[p].id].domain = Site(p).domain
    BY <1>1, <1>4, StoresOnly
  <2>2. \A i \in Ids : db'[i].status = "active" =>
          hist'.renamed \/ (db[i].status = "active" /\ db'[i].domain = db[i].domain)
    BY <2>1 DEF Edited, Site
  <2>3. CertInv'
    BY <2>1, <2>2, CertKept
  <2>4. Live' = Live
    BY <2>1 DEF Live, Edited, Site
  <2>5. ~req[p].crossed => Kept(p)'
    BY <2>1, <2>4, AloneKept, KeptDropped, IdleType DEF Kept, Ended, Resting, Rendering, Busy
  <2>6. req[p].crossed => Flagged'
    BY <2>1, CrossedFlags DEF Flagged, Busy
  <2> QED BY <2>1, <2>3, <2>5, <2>6, RenderBy DEF Ended, Busy
<1> QED BY <1>2, <1>3, <1>4

LEMMA RenderCreate ==
  ASSUME RenderSafe, NEW p \in Procs, Create(p)
  PROVE  RenderInv'
<1>1. StageInv /\ req[p].pc = "save" /\ UNCHANGED <<files, loaded, certs>>
  BY Creates DEF RenderSafe
<1>2. CASE Ended(p) /\ UNCHANGED <<db, hist>>
  <2>2. Rendered' = Rendered /\ Live' = Live
    BY <1>2 DEF Rendered, Live, Limited, Conf, Map, Text, Tls
  <2>3. ~req[p].crossed => Kept(p)'
    BY <1>1, <1>2, <2>2, AloneKept, KeptRest, IdleType DEF Ended, Resting, Busy
  <2>4. req[p].crossed => Flagged'
    BY <1>1, <1>2, CrossedFlags DEF Flagged, Busy
  <2> QED BY <1>1, <1>2, <2>3, <2>4, SameCert, RenderBy DEF Ended, Busy
<1>3. CASE ~(Ended(p) /\ UNCHANGED <<db, hist>>)
  <2>1. /\ Only(p) /\ req[p].id \in Ids /\ req'[p].pc = "unlink" /\ req'[p].crossed = req[p].crossed
        /\ \A j \in Ids : j # req[p].id => db'[j] = db[j]
        /\ db'[req[p].id].status = "none"
        /\ hist'.disk = hist.disk /\ hist'.live = hist.live /\ hist'.torn = hist.torn
        /\ hist'.renamed = hist.renamed
    BY <1>1, <1>3, Creates
  <2>2. CertInv'
    BY <1>1, <2>1, CertKept
  <2>3. req[p].crossed => Flagged'
    BY <1>1, <2>1, CrossedFlags DEF Flagged, Busy
  <2> QED BY <1>1, <2>1, <2>2, <2>3, KeptUnlink, RenderBy DEF Busy
<1> QED BY <1>2, <1>3

LEMMA RenderUpstream ==
  ASSUME RenderSafe, NEW p \in Procs, Upstream(p) \/ Delete(p)
  PROVE  RenderInv'
<1>1. StageInv
  BY DEF RenderSafe
<1>2. /\ req[p].pc = "save" /\ UNCHANGED certs /\ Only(p) /\ req[p].id \in Ids
      /\ req'[p].pc = "unlink" /\ req'[p].crossed = req[p].crossed
      /\ \A j \in Ids : j # req[p].id => db'[j] = db[j]
      /\ db'[req[p].id].status = "active" => Site(p).status = "active" /\ db'[req[p].id].domain = Site(p).domain
      /\ hist'.disk = hist.disk /\ hist'.live = hist.live /\ hist'.torn = hist.torn
      /\ hist'.renamed = hist.renamed
  <2>1. CASE Upstream(p)
    BY <1>1, <2>1, MovesUpstream
  <2>2. CASE Delete(p)
    BY <1>1, <2>2, Deletes DEF Onto
  <2> QED BY <2>1, <2>2
<1>3. \A i \in Ids : db'[i].status = "active" => db[i].status = "active" /\ db'[i].domain = db[i].domain
  BY <1>2 DEF Site
<1>4. CertInv'
  BY <1>2, <1>3, CertKept
<1>5. req[p].crossed => Flagged'
  BY <1>2, CrossedFlags DEF Flagged, Busy
<1> QED BY <1>2, <1>4, <1>5, KeptUnlink, RenderBy DEF Busy

\* The map of one site.
LEMMA RenderSaveGeo ==
  ASSUME RenderSafe, NEW p \in Procs, SaveGeo(p)
  PROVE  RenderInv'
<1> DEFINE i == req[p].id
<1>1. /\ req[p].pc = "save" /\ req[p].kind = "geo" /\ Site(p).is = "live" /\ Onto(p, "map") /\ Edited(p)
      /\ db'[i].domain = Site(p).domain /\ db'[i].text = Site(p).text
      /\ db'[i].limited = Site(p).limited /\ db'[i].le = Site(p).le
      /\ db'[i].status = Site(p).status
      /\ UNCHANGED <<files, loaded, certs, closed, hist>>
  BY SavesGeo DEF RenderSafe
<1>2. CertInv'
  BY <1>1, EditedCert
<1>3. /\ \A j \in Ids : /\ db'[j].is = db[j].is /\ db'[j].domain = db[j].domain /\ db'[j].text = db[j].text
                        /\ db'[j].limited = db[j].limited /\ db'[j].le = db[j].le /\ db'[j].status = db[j].status
                        /\ db'[j].port = db[j].port
      /\ \A j \in Ids : j # i => db'[j] = db[j]
  BY <1>1 DEF Edited, Site
<1>4. Live' = Live /\ Limited' = Limited /\ Confs' = Confs
  BY <1>3, SameRender
<1>5. \A j \in Live \ {i} : Map(j)' = Map(j)
  BY <1>3 DEF Map, Live
<1>6. ASSUME ~req[p].crossed PROVE Kept(p)'
  <2>1. Kept(p)
    BY <1>1, <1>6, AloneKept DEF Busy
  <2>2. Site(p)'.is = "live"
    BY <1>1 DEF Site, Edited, Onto
  <2>3. req'[p].pc = "map" /\ req'[p].id = i
    BY <1>1 DEF Onto
  <2>4. ASSUME hist.disk
        PROVE  files.confs = Confs /\ files.zones = Limited /\ files.geoip = Live
               /\ Without(files.maps, {i}) = {Map(j) : j \in Live \ {i}}
    <3>1. files = Rendered
      BY <1>1, <2>1, <2>4 DEF Kept, DiskAt, Resting
    <3>2. files.confs = Confs /\ files.zones = Limited /\ files.geoip = Live /\ files.maps = {Map(j) : j \in Live}
      BY <3>1, IsRendered
    <3>3. Without({Map(j) : j \in Live}, {i}) = {Map(j) : j \in Live \ {i}}
      BY DEF Without, Map
    <3> QED BY <3>2, <3>3
  <2>5. {Map(j) : j \in Live \ {i}}' = {Map(j) : j \in Live \ {i}}
    BY <1>4, <1>5, <2>3
  <2>6. Progress(p)'
    <3>1. hist'.disk => files'.confs = Confs' /\ files'.zones = Limited' /\ files'.geoip = Live'
                /\ Without(files.maps, {i})' = {Map(j) : j \in Live \ {i}}'
      BY <1>1, <1>4, <2>3, <2>4, <2>5 DEF Without
    <3> QED BY <2>2, <2>3, <3>1 DEF Progress, At
  <2>7. DiskAt(req[p].pc)' /\ LiveAt(req[p].pc)'
    BY <2>3 DEF DiskAt, LiveAt, Resting
  <2>8. TornAt(req[p].pc)'
    BY <1>1, <1>4, <2>1 DEF Kept, TornAt, Rendering
  <2> QED BY <2>6, <2>7, <2>8 DEF Kept
<1>7. req[p].crossed => Flagged'
  BY <1>1, CrossedFlags DEF Flagged, Busy
<1> QED BY <1>1, <1>2, <1>6, <1>7, RenderBy DEF Onto, Busy

LEMMA RenderMap ==
  ASSUME RenderSafe, NEW p \in Procs, WriteMap(p)
  PROVE  RenderInv'
<1> DEFINE i == req[p].id
<1>1. /\ req[p].pc = "map" /\ UNCHANGED <<db, loaded, certs, closed, hist>> /\ i \in Ids
      /\ \/ Site(p).is # "live" /\ Ended(p) /\ UNCHANGED files
         \/ /\ Site(p).is = "live" /\ Carries(p, "test")
            /\ files'.zones = files.zones /\ files'.geoip = files.geoip /\ files'.confs = files.confs
            /\ files'.maps = Without(files.maps, {i}) \cup {Map(i)} /\ files' \in FileSet
  BY WritesMap DEF RenderSafe
<1>2. CertInv'
  BY <1>1, SameCert
<1>3. req[p].crossed => Flagged'
  BY <1>1, CrossedFlags DEF Flagged, Busy
<1>4. ASSUME ~req[p].crossed PROVE Kept(p)'
  <2>1. Kept(p)
    BY <1>1, <1>4, AloneKept DEF Busy
  <2>2. /\ Site(p).is = "live" /\ Carries(p, "test")
        /\ files'.zones = files.zones /\ files'.geoip = files.geoip /\ files'.confs = files.confs
        /\ files'.maps = Without(files.maps, {i}) \cup {Map(i)} /\ files' \in FileSet
    BY <1>1, <1>4, <2>1 DEF Kept, Progress, Busy, At
  <2>3. req[p].kind = "geo"
    BY <1>1, Facts DEF RenderSafe, ReqOK
  <2>4. ASSUME hist.disk PROVE files' = Rendered
    <3>1. files.confs = Confs /\ files.zones = Limited /\ files.geoip = Live
          /\ Without(files.maps, {i}) = {Map(j) : j \in Live \ {i}}
      BY <1>1, <1>4, <2>1, <2>4 DEF Kept, Progress, Busy, At
    <3>2. i \in Live
      BY <1>1, <2>2 DEF Live, Site
    <3>3. files'.maps = {Map(j) : j \in Live}
      BY <2>2, <3>1, <3>2
    <3> QED BY <2>2, <3>1, <3>3, RenderedIs
  <2>5. Rendered' = Rendered /\ Live' = Live
    BY <1>1 DEF Rendered, Live, Limited, Conf, Map, Text, Tls
  <2>6. req'[p].pc = "test" /\ req'[p].kind = "geo"
    BY <2>2, <2>3 DEF Carries
  <2>7. Progress(p)'
    BY <2>6 DEF Progress, At
  <2>8. DiskAt(req[p].pc)' /\ LiveAt(req[p].pc)'
    BY <1>1, <2>4, <2>5, <2>6 DEF DiskAt, LiveAt, Resting
  <2>9. TornAt(req[p].pc)'
    BY <1>1, <2>1, <2>2, <2>5 DEF Kept, TornAt, Rendering
  <2> QED BY <2>7, <2>8, <2>9 DEF Kept
<1> QED BY <1>1, <1>2, <1>3, <1>4, RenderBy DEF Ended, Carries, Busy

\* A render, group by group.
LEMMA RenderGroups ==
  ASSUME RenderSafe, NEW p \in Procs, Unlink(p) \/ WriteShared(p) \/ ListSites(p)
  PROVE  RenderInv'
<1>1. /\ \/ /\ req[p].pc = "unlink" /\ Carries(p, "shared") /\ files'.confs = {}
         \/ /\ req[p].pc = "shared" /\ Carries(p, "list") /\ files'.confs = files.confs
            /\ files'.zones = Limited /\ files'.geoip = Live /\ files'.maps = {}
         \/ /\ req[p].pc = "list" /\ Carries(p, "site") /\ UNCHANGED files
            /\ req'[p].todo = {Conf(i) : i \in Live}
      /\ UNCHANGED <<db, loaded, certs, closed, hist>>
  BY Renders DEF RenderSafe
<1>2. CertInv'
  BY <1>1, SameCert
<1>3. req[p].crossed => Flagged'
  BY <1>1, CrossedFlags DEF Flagged, Busy
<1>4. ASSUME ~req[p].crossed PROVE Kept(p)'
  <2>1. Progress(p)
    BY <1>1, <1>4, AloneKept DEF Kept, Busy
  <2>2. Limited' = Limited /\ Live' = Live /\ Confs' = Confs
    BY <1>1 DEF Limited, Live, Confs, Conf, Text, Tls
  <2>3. req'[p].pc \in {"shared", "list", "site"}
    BY <1>1 DEF Carries
  <2>4. Progress(p)'
    <3>1. CASE req[p].pc = "unlink"
      BY <1>1, <3>1 DEF Progress, At, Carries
    <3>2. CASE req[p].pc = "shared"
      BY <1>1, <1>4, <2>1, <2>2, <3>2 DEF Progress, At, Carries, Busy
    <3>3. CASE req[p].pc = "list"
      <4>1. files.confs = {} /\ files.zones = Limited /\ files.geoip = Live /\ files.maps = {}
        BY <1>4, <2>1, <3>3 DEF Progress, Busy
      <4>2. files'.confs \cup req'[p].todo = Confs'
        BY <1>1, <2>2, <3>3, <4>1 DEF Confs
      <4>3. req'[p].pc = "site"
        BY <1>1, <3>3 DEF Carries
      <4> QED BY <1>1, <2>2, <3>3, <4>1, <4>2, <4>3 DEF Progress, At
    <3> QED BY <1>1, <3>1, <3>2, <3>3
  <2>5. DiskAt(req[p].pc)' /\ LiveAt(req[p].pc)' /\ TornAt(req[p].pc)'
    BY <2>3 DEF DiskAt, LiveAt, TornAt, Resting, Rendering
  <2> QED BY <2>4, <2>5 DEF Kept
<1> QED BY <1>1, <1>2, <1>3, <1>4, RenderBy DEF Carries, Busy

LEMMA RenderSite ==
  ASSUME RenderSafe, NEW p \in Procs, WriteSite(p)
  PROVE  RenderInv'
<1>1. /\ req[p].pc = "site" /\ UNCHANGED <<db, loaded, certs, closed>> /\ hist'.renamed = hist.renamed
      /\ \/ Ended(p) /\ UNCHANGED files /\ hist'.torn /\ ~hist'.disk /\ ~hist'.live
         \/ Carries(p, "rows") /\ UNCHANGED <<files, hist>> /\ req'[p].todo = req[p].todo
         \/ /\ Carries(p, "site") /\ UNCHANGED hist
            /\ files'.zones = files.zones /\ files'.geoip = files.geoip /\ files'.maps = files.maps
            /\ \E c \in req[p].todo :
                 /\ files'.confs = {f \in files.confs : f.id # c.id \/ f.domain # c.domain} \cup {c}
                 /\ req'[p].todo = req[p].todo \ {c}
  BY WritesSite DEF RenderSafe
<1>2. CertInv'
  BY <1>1, SameCert
<1>3. CASE Ended(p) /\ hist'.torn /\ ~hist'.disk /\ ~hist'.live
  BY <1>1, <1>2, <1>3, KeptDropped, RenderBy, IdleType DEF Ended, Resting, Flagged, Busy
<1>4. CASE ~(Ended(p) /\ hist'.torn /\ ~hist'.disk /\ ~hist'.live)
  <2>1. /\ UNCHANGED hist /\ files'.zones = files.zones /\ files'.geoip = files.geoip /\ files'.maps = files.maps
        /\ Carries(p, "rows") \/ Carries(p, "site")
    BY <1>1, <1>4
  <2>2. req[p].crossed => Flagged'
    BY <1>1, <2>1, CrossedFlags DEF Flagged, Busy
  <2>3. ASSUME ~req[p].crossed PROVE Kept(p)'
    <3>1. Progress(p)
      BY <1>1, <2>3, AloneKept DEF Kept, Busy
    <3>2. Limited' = Limited /\ Live' = Live /\ Confs' = Confs
      BY <1>1 DEF Limited, Live, Confs, Conf, Text, Tls
    <3>3. req'[p].pc \in {"rows", "site"}
      BY <2>1 DEF Carries
    <3>4. files.zones = Limited /\ files.geoip = Live /\ files.maps = {} /\ files.confs \cup req[p].todo = Confs
      BY <1>1, <2>3, <3>1 DEF Progress, Busy
    <3>5. files'.confs \cup req'[p].todo = Confs
      <4>1. CASE UNCHANGED files /\ req'[p].todo = req[p].todo
        BY <3>4, <4>1
      <4>2. CASE ~(UNCHANGED files /\ req'[p].todo = req[p].todo)
        <5>1. PICK c \in req[p].todo :
                 /\ files'.confs = {f \in files.confs : f.id # c.id \/ f.domain # c.domain} \cup {c}
                 /\ req'[p].todo = req[p].todo \ {c}
          BY <1>1, <1>4, <4>2
        <5>2. \A f, g \in Confs : f.id = g.id => f = g
          BY DEF Confs, Conf
        <5>3. \A f \in files.confs : f.id = c.id => f = c
          BY <3>4, <5>2
        <5>4. files'.confs = files.confs \cup {c}
          BY <5>1, <5>3
        <5> QED BY <3>4, <5>1, <5>4
      <4> QED BY <4>1, <4>2
    <3>6. Progress(p)'
      BY <2>1, <3>2, <3>3, <3>4, <3>5 DEF Progress, At
    <3>7. DiskAt(req[p].pc)' /\ LiveAt(req[p].pc)' /\ TornAt(req[p].pc)'
      BY <3>3 DEF DiskAt, LiveAt, TornAt, Resting, Rendering
    <3> QED BY <3>6, <3>7 DEF Kept
  <2> QED BY <1>1, <1>2, <2>1, <2>2, <2>3, RenderBy DEF Carries, Busy
<1> QED BY <1>3, <1>4

LEMMA RenderRows ==
  ASSUME RenderSafe, NEW p \in Procs, AddRows(p)
  PROVE  RenderInv'
<1>1. /\ req[p].pc = "rows" /\ UNCHANGED <<files, loaded, certs, closed>> /\ hist'.renamed = hist.renamed
      /\ \/ Ended(p) /\ UNCHANGED db /\ hist'.torn /\ ~hist'.disk /\ ~hist'.live
         \/ /\ Carries(p, "site") /\ UNCHANGED hist
            /\ \E i \in Ids : db' = [db EXCEPT ![i].rows = TRUE]
            /\ req'[p].todo = {IF db[c.id].is = "live" THEN Conf(c.id) ELSE c : c \in req[p].todo}
  BY AddsRows DEF RenderSafe
<1>2. CASE Ended(p) /\ UNCHANGED db /\ hist'.torn /\ ~hist'.disk /\ ~hist'.live
  BY <1>1, <1>2, SameCert, KeptDropped, RenderBy, IdleType DEF Ended, Resting, Flagged, Busy
<1>3. CASE ~(Ended(p) /\ UNCHANGED db /\ hist'.torn /\ ~hist'.disk /\ ~hist'.live)
  <2>1. Carries(p, "site") /\ UNCHANGED hist
        /\ req'[p].todo = {IF db[c.id].is = "live" THEN Conf(c.id) ELSE c : c \in req[p].todo}
    BY <1>1, <1>3
  <2>2. PICK k \in Ids : db' = [db EXCEPT ![k].rows = TRUE]
    BY <1>1, <1>3
  <2>3. \A i \in Ids : /\ db'[i].is = db[i].is /\ db'[i].domain = db[i].domain /\ db'[i].text = db[i].text
                       /\ db'[i].limited = db[i].limited /\ db'[i].le = db[i].le /\ db'[i].status = db[i].status
                       /\ db'[i].port = db[i].port
    BY <2>2, Facts DEF RenderSafe, RowSet
  <2>4. CertInv'
    BY <1>1, <2>1, <2>3, CertKept
  <2>5. req[p].crossed => Flagged'
    BY <1>1, <2>1, CrossedFlags DEF Flagged, Busy
  <2>6. ASSUME ~req[p].crossed PROVE Kept(p)'
    <3>1. Progress(p)
      BY <1>1, <2>6, AloneKept DEF Kept, Busy
    <3>2. Limited' = Limited /\ Live' = Live /\ Confs' = Confs
      BY <2>3, SameRender
    <3>3. req'[p].pc = "site"
      BY <2>1 DEF Carries
    <3>4. files.zones = Limited /\ files.geoip = Live /\ files.maps = {} /\ files.confs \cup req[p].todo = Confs
      BY <1>1, <2>6, <3>1 DEF Progress, Busy
    <3>5. \A c \in req[p].todo : Conf(c.id) = c
      BY <3>4 DEF Confs, Conf
    <3>6. req'[p].todo = req[p].todo
      BY <2>1, <3>5
    <3>7. Progress(p)'
      BY <1>1, <3>2, <3>3, <3>4, <3>6 DEF Progress, At
    <3>8. DiskAt(req[p].pc)' /\ LiveAt(req[p].pc)' /\ TornAt(req[p].pc)'
      BY <3>3 DEF DiskAt, LiveAt, TornAt, Resting, Rendering
    <3> QED BY <3>7, <3>8 DEF Kept
  <2> QED BY <1>1, <2>1, <2>4, <2>5, <2>6, RenderBy DEF Carries, Busy
<1> QED BY <1>2, <1>3

LEMMA RenderMaps ==
  ASSUME RenderSafe, NEW p \in Procs, WriteMaps(p)
  PROVE  RenderInv'
<1>1. /\ req[p].pc = "site" /\ req[p].todo = {} /\ UNCHANGED <<db, loaded, certs, closed>>
      /\ hist'.renamed = hist.renamed
      /\ files'.zones = files.zones /\ files'.geoip = files.geoip /\ files'.confs = files.confs
      /\ files'.maps = Without(files.maps, Live) \cup {Map(i) : i \in Live}
      /\ files' \in FileSet
      /\ \/ Carries(p, "test") /\ UNCHANGED hist
         \/ /\ Ended(p) /\ req[p].kind = "download"
            /\ req[p].crossed => hist' = hist
            /\ ~req[p].crossed => hist'.disk /\ ~hist'.live /\ ~hist'.torn
  BY WritesMaps DEF RenderSafe
<1>2. CertInv'
  BY <1>1, SameCert
<1>3. req[p].crossed => Flagged'
  BY <1>1, CrossedFlags DEF Flagged, Busy
<1>4. ASSUME ~req[p].crossed PROVE Kept(p)'
  <2>1. Progress(p)
    BY <1>1, <1>4, AloneKept DEF Kept, Busy
  <2>2. files.zones = Limited /\ files.geoip = Live /\ files.maps = {} /\ files.confs = Confs
    BY <1>1, <1>4, <2>1 DEF Progress, Busy
  <2>3. files'.maps = {Map(i) : i \in Live}
    BY <1>1, <2>2 DEF Without
  <2>4. files' = Rendered /\ files'.confs = Confs
    BY <1>1, <2>2, <2>3, RenderedIs
  <2>5. Rendered' = Rendered /\ Live' = Live
    BY <1>1 DEF Rendered, Live, Limited, Conf, Map, Text, Tls
  <2>6. DiskAt(req[p].pc)' /\ Progress(p)'
    <3>1. req'[p].pc \in {"test", "idle"}
      BY <1>1, IdleType DEF Carries, Ended
    <3> QED BY <2>4, <2>5, <3>1 DEF DiskAt, Progress, At
  <2>7. LiveAt(req[p].pc)'
    BY <1>1, <1>4 DEF LiveAt, Resting, Carries
  <2>8. TornAt(req[p].pc)'
    <3>1. \A i \in Live : Conf(i) \in Confs /\ Conf(i).id = i
      BY DEF Confs, Conf
    <3> QED BY <2>4, <2>5, <3>1 DEF TornAt
  <2> QED BY <2>6, <2>7, <2>8 DEF Kept
<1> QED BY <1>1, <1>2, <1>3, <1>4, RenderBy DEF Ended, Carries, Busy

\* The reload, and what ends a request.
LEMMA KeptFollows ==
  ASSUME NEW p \in Procs, Kept(p), req[p].pc \in {"test", "signal"}, req'[p].pc \in Resting,
         UNCHANGED <<db, files, certs>>,
         \/ hist'.disk = hist.disk /\ hist'.torn = hist.torn
         \/ files = Rendered,
         hist'.live => (hist.disk \/ files = Rendered) /\ (Loadable(files) /\ loaded' # None => loaded' = files)
  PROVE  Kept(p)'
<1>1. Rendered' = Rendered /\ Live' = Live
  BY DEF Rendered, Live, Limited, Conf, Map, Text, Tls
<1>2. Progress(p)'
  BY DEF Progress, At, Resting
<1>3. DiskAt(req[p].pc)'
  BY <1>1 DEF Kept, DiskAt
<1>4. LiveAt(req[p].pc)'
  BY DEF LiveAt, Loadable
<1>5. TornAt(req[p].pc)'
  <2>1. \A i \in Live : Conf(i) \in Confs /\ Conf(i).id = i
    BY DEF Confs, Conf
  <2>2. CASE files = Rendered
    BY <1>1, <2>1, <2>2, IsRendered DEF TornAt
  <2>3. CASE hist'.torn = hist.torn
    BY <1>1, <2>3 DEF Kept, TornAt, Rendering
  <2> QED BY <2>2, <2>3
<1> QED BY <1>2, <1>3, <1>4, <1>5 DEF Kept

LEMMA RenderReload ==
  ASSUME RenderSafe, NEW p \in Procs, Test(p) \/ Signal(p) \/ DockerFails(p)
  PROVE  RenderInv'
<1>1. /\ req[p].pc \in {"test", "signal"} /\ UNCHANGED <<files, certs, closed>>
      /\ hist'.renamed = hist.renamed
      /\ \/ req[p].pc = "test" /\ Carries(p, "signal") /\ UNCHANGED <<db, loaded, hist>>
         \/ /\ req[p].kind = "certificate" /\ Ended(p) /\ Edited(p) /\ UNCHANGED loaded
            /\ hist'.torn = hist.torn /\ ~hist'.disk /\ ~hist'.live
            /\ db'[req[p].id].domain = Site(p).domain
            /\ db'[req[p].id].status = "active" => Site(p).status = "active"
         \/ /\ Follows(p) /\ UNCHANGED <<db, loaded>>
            /\ hist'.disk = hist.disk /\ ~hist'.live /\ hist'.torn = hist.torn
         \/ /\ Follows(p) /\ UNCHANGED db /\ hist' = Applied(p)
            /\ IF Loadable(files) /\ loaded # None THEN loaded' = files /\ req[p].pc = "signal" ELSE loaded' = loaded
  BY Reloading DEF RenderSafe
<1>2. req[p].crossed => Flagged
  BY <1>1, CrossedFlags DEF Busy
<1>3. ~req[p].crossed => Kept(p)
  BY <1>1, AloneKept DEF Busy
<1>4. CASE req[p].pc = "test" /\ Carries(p, "signal") /\ UNCHANGED <<db, loaded, hist>>
  <2>1. CertInv'
    BY <1>1, <1>4, SameCert
  <2>2. ASSUME ~req[p].crossed PROVE Kept(p)'
    <3>1. Rendered' = Rendered /\ Live' = Live
      BY <1>4 DEF Rendered, Live, Limited, Conf, Map, Text, Tls
    <3>2. req'[p].pc = "signal" /\ req'[p].kind = req[p].kind /\ Busy(p)
      BY <1>4 DEF Carries, Busy
    <3>3. Kept(p)
      BY <1>3, <2>2
    <3>4. Progress(p)'
      BY <1>1, <1>4, <2>2, <3>1, <3>2, <3>3 DEF Kept, Progress, At
    <3>5. DiskAt(req[p].pc)' /\ LiveAt(req[p].pc)' /\ TornAt(req[p].pc)'
      BY <1>1, <1>4, <3>1, <3>2, <3>3 DEF Kept, DiskAt, LiveAt, TornAt, Resting, Rendering
    <3> QED BY <3>4, <3>5 DEF Kept
  <2>3. req[p].crossed => Flagged'
    BY <1>2, <1>4 DEF Flagged
  <2> QED BY <1>1, <1>4, <2>1, <2>2, <2>3, RenderBy DEF Carries, Busy
<1>5. CASE /\ req[p].kind = "certificate" /\ Ended(p) /\ Edited(p) /\ UNCHANGED loaded
           /\ hist'.torn = hist.torn /\ ~hist'.disk /\ ~hist'.live
           /\ db'[req[p].id].domain = Site(p).domain
           /\ db'[req[p].id].status = "active" => Site(p).status = "active"
  <2>1. CertInv'
    BY <1>1, <1>5, EditedCert
  <2>2. Live' = Live
    BY <1>5 DEF Live, Edited, Site
  <2>3. ~req[p].crossed => Kept(p)'
    BY <1>1, <1>3, <1>5, <2>2, KeptDropped, IdleType DEF Kept, Ended, Resting, Rendering
  <2>4. req[p].crossed => Flagged'
    BY <1>2, <1>5 DEF Flagged
  <2> QED BY <1>1, <1>5, <2>1, <2>3, <2>4, RenderBy DEF Ended, Busy
<1>6. CASE /\ Follows(p) /\ UNCHANGED db
           /\ \/ UNCHANGED loaded /\ hist'.disk = hist.disk /\ ~hist'.live /\ hist'.torn = hist.torn
              \/ /\ hist' = Applied(p)
                 /\ IF Loadable(files) /\ loaded # None THEN loaded' = files ELSE loaded' = loaded
  <2>1. CertInv'
    BY <1>1, <1>6, SameCert
  <2>2. req'[p].pc \in Resting /\ Only(p) /\ (req'[p] = Idle \/ req'[p].crossed = req[p].crossed)
    BY <1>6, IdleType DEF Follows, Ended, Carries, Resting
  <2>3. \/ UNCHANGED loaded /\ hist'.disk = hist.disk /\ ~hist'.live /\ hist'.torn = hist.torn
        \/ /\ hist' = Applied(p)
           /\ IF Loadable(files) /\ loaded # None THEN loaded' = files ELSE loaded' = loaded
    BY <1>6
  <2>4. /\ req[p].crossed => Applied(p) = hist
        /\ ~req[p].crossed /\ req[p].kind = "geo" => /\ Applied(p).disk = hist.disk /\ Applied(p).torn = hist.torn
                                                     /\ Applied(p).live = hist.disk
        /\ ~req[p].crossed /\ req[p].kind # "geo" => /\ Applied(p).disk /\ ~Applied(p).torn /\ Applied(p).live
    BY AppliedHist DEF RenderSafe
  <2>5. req[p].crossed => Flagged'
    BY <1>2, <2>3, <2>4 DEF Flagged
  <2>6. ASSUME ~req[p].crossed PROVE Kept(p)'
    <3>1. req[p].kind # "geo" => files = Rendered
      BY <1>1, <1>3, <2>6 DEF Kept, Progress, Busy
    <3>2. \/ hist'.disk = hist.disk /\ hist'.torn = hist.torn
          \/ files = Rendered
      BY <2>3, <2>4, <2>6, <3>1
    <3>3. hist'.live => (hist.disk \/ files = Rendered) /\ (Loadable(files) /\ loaded' # None => loaded' = files)
      BY <2>3, <2>4, <2>6, <3>1
    <3> QED BY <1>1, <1>3, <1>6, <2>2, <2>6, <3>2, <3>3, KeptFollows
  <2> QED BY <1>1, <2>1, <2>2, <2>5, <2>6, RenderBy DEF Busy
<1> QED BY <1>1, <1>4, <1>5, <1>6

LEMMA RenderEnds ==
  ASSUME RenderSafe, NEW p \in Procs, DiskFails(p) \/ Die(p) \/ CertbotFails(p)
  PROVE  RenderInv'
<1>1. StageInv
  BY DEF RenderSafe
<1>2. CASE DiskFails(p) \/ Die(p)
  <2>1. /\ req[p].pc # "idle" /\ UNCHANGED <<db, files, loaded, certs>> /\ (Follows(p) \/ Ended(p))
        /\ hist'.renamed = hist.renamed /\ hist'.torn /\ ~hist'.disk /\ ~hist'.live
    BY <1>1, <1>2, DiskEnds, DieEnds DEF Rendering
  <2>2. req'[p].pc \in Resting /\ Only(p) /\ (req'[p] = Idle \/ req'[p].crossed = req[p].crossed)
    BY <2>1, IdleType DEF Follows, Ended, Carries, Resting
  <2> QED BY <2>1, <2>2, SameCert, KeptDropped, RenderBy DEF Flagged, Busy
<1>3. CASE CertbotFails(p)
  <2>1. /\ req[p].pc = "certbot" /\ UNCHANGED <<files, loaded, certs, closed>>
        /\ Ended(p) /\ Edited(p) /\ hist'.torn = hist.torn /\ ~hist'.disk /\ ~hist'.live
        /\ hist'.renamed = hist.renamed
        /\ db'[req[p].id].domain = Site(p).domain
        /\ db'[req[p].id].status = "active" => Site(p).status = "active"
    BY <1>1, <1>3, CertbotRefuses
  <2>2. CertInv'
    BY <2>1, EditedCert
  <2>3. Live' = Live
    BY <2>1 DEF Live, Edited, Site
  <2>4. ~req[p].crossed => Kept(p)'
    BY <2>1, <2>3, AloneKept, KeptDropped, IdleType DEF Kept, Ended, Resting, Rendering, Busy
  <2>5. req[p].crossed => Flagged'
    BY <2>1, CrossedFlags DEF Flagged, Busy
  <2> QED BY <2>1, <2>2, <2>4, <2>5, RenderBy DEF Ended, Busy
<1> QED BY <1>2, <1>3

LEMMA RenderIssue ==
  ASSUME RenderSafe, NEW p \in Procs, Issue(p)
  PROVE  RenderInv'
<1>1. /\ req[p].pc = "certbot" /\ UNCHANGED <<files, loaded, closed, hist>>
      /\ \/ Ended(p) /\ UNCHANGED <<certs, db>>
         \/ /\ Edited(p) /\ certs' = certs \cup {Site(p).domain} /\ db'[req[p].id].domain = Site(p).domain
            /\ Only(p) /\ req'[p].pc = "unlink" /\ req'[p].crossed = req[p].crossed
  BY Issues DEF RenderSafe
<1>2. req[p].crossed => Flagged'
  BY <1>1, CrossedFlags DEF Flagged, Busy
<1>3. CASE Ended(p) /\ UNCHANGED <<certs, db>>
  <2>1. Rendered' = Rendered /\ Live' = Live
    BY <1>3 DEF Rendered, Live, Limited, Conf, Map, Text, Tls
  <2>2. ~req[p].crossed => Kept(p)'
    BY <1>1, <1>3, <2>1, AloneKept, KeptRest, IdleType DEF Ended, Resting, Busy
  <2> QED BY <1>1, <1>2, <1>3, <2>2, SameCert, RenderBy DEF Ended, Busy
<1>4. CASE ~(Ended(p) /\ UNCHANGED <<certs, db>>)
  <2>1. /\ Edited(p) /\ certs' = certs \cup {Site(p).domain} /\ db'[req[p].id].domain = Site(p).domain
        /\ Only(p) /\ req'[p].pc = "unlink" /\ req'[p].crossed = req[p].crossed
    BY <1>1, <1>4
  <2>2. CertInv'
    BY <1>1, <2>1, CertKept DEF Edited, Site
  <2> QED BY <1>1, <1>2, <2>1, <2>2, KeptUnlink, RenderBy DEF Busy
<1> QED BY <1>3, <1>4

\* The agent.
LEMMA RenderAgent ==
  ASSUME RenderSafe, NEW p \in Procs, OpenForDelete(p) \/ Release(p) \/ Protect(p) \/ AgentFails(p) \/ Mark(p)
  PROVE  RenderInv'
<1>1. StageInv
  BY DEF RenderSafe
<1>2. /\ req[p].pc \in Resting /\ req[p].pc # "idle" /\ req'[p].pc \in Resting /\ Only(p)
      /\ req'[p] = Idle \/ req'[p].crossed = req[p].crossed
      /\ UNCHANGED <<files, loaded, certs>> /\ req[p].id \in Ids
      /\ hist'.disk = hist.disk /\ hist'.live = hist.live /\ hist'.torn = hist.torn /\ hist'.renamed = hist.renamed
      /\ UNCHANGED db \/ db' = [db EXCEPT ![req[p].id].blocked = TRUE]
  <2>1. CASE OpenForDelete(p) \/ Release(p) \/ Protect(p) \/ AgentFails(p)
    BY <1>1, <2>1, AgentCalls, IdleType DEF Carries, Ended, Resting, ByHand
  <2>2. CASE Mark(p)
    BY <1>1, <2>2, Marks, IdleType DEF Ended, Resting
  <2> QED BY <2>1, <2>2
<1>3. \A i \in Ids : /\ db'[i].is = db[i].is /\ db'[i].domain = db[i].domain /\ db'[i].text = db[i].text
                     /\ db'[i].limited = db[i].limited /\ db'[i].le = db[i].le /\ db'[i].status = db[i].status
                     /\ db'[i].port = db[i].port /\ db'[i].geo = db[i].geo
  BY <1>1, <1>2, Facts DEF RowSet
<1>4. Live' = Live /\ Rendered' = Rendered
  <2>1. Live' = Live /\ Limited' = Limited /\ \A i \in Ids : Conf(i)' = Conf(i) /\ Map(i)' = Map(i)
    BY <1>3, SameRender DEF Map
  <2>2. \A i \in Live : i \in Ids
    BY DEF Live
  <2> QED BY <2>1, <2>2 DEF Rendered
<1>5. CertInv'
  BY <1>2, <1>3, CertKept
<1>6. ~req[p].crossed => Kept(p)'
  BY <1>2, <1>4, AloneKept, KeptRest DEF Busy
<1>7. req[p].crossed => Flagged'
  BY <1>2, CrossedFlags DEF Flagged, Busy
<1> QED BY <1>2, <1>5, <1>6, <1>7, RenderBy DEF Busy

\* A request arrives.
LEMMA RenderBegin ==
  ASSUME RenderSafe, NEW p \in Procs, Begin(p)
  PROVE  RenderInv'
<1>1. /\ req[p].pc = "idle" /\ UNCHANGED <<db, files, loaded, certs, closed>>
      /\ req'[p].pc \in {"unlink", "open", "save"}
      /\ req'[p].crossed <=> Others(p) # {}
      /\ \A q \in Procs : q # p => Beside(q) /\ (req'[q].crossed <=> req[q].crossed \/ req[q].pc # "idle")
      /\ hist'.renamed = hist.renamed
      /\ hist'.torn <=> hist.torn \/ Others(p) # {}
      /\ hist'.disk <=> hist.disk /\ Others(p) = {}
      /\ hist'.live <=> hist.live /\ Others(p) = {}
  BY Begins DEF RenderSafe
<1>2. CertInv'
  BY <1>1, SameCert
<1>3. CASE Others(p) # {}
  <2>1. \A q \in Procs : Busy(q)' => req'[q].crossed
    BY <1>1, <1>3 DEF Busy, Beside
  <2>2. Flagged'
    BY <1>1, <1>3 DEF Flagged
  <2>3. Crossing'
    BY <2>1, <2>2 DEF Crossing, Flagged
  <2>4. \A q \in Procs : Progress(q)'
    BY <2>1 DEF Progress
  <2> QED BY <1>2, <2>2, <2>3, <2>4 DEF RenderInv, DiskInv, LiveInv, TornInv, Flagged
<1>4. CASE Others(p) = {}
  <2>1. \A q \in Procs : req[q].pc = "idle"
    BY <1>1, <1>4 DEF Others
  <2>2. \A q \in Procs : q # p => req'[q].pc = "idle"
    BY <1>1, <2>1 DEF Beside
  <2>3. Crossing'
    BY <1>1, <1>4, <2>2 DEF Crossing, Busy
  <2>4. \A q \in Procs : Progress(q)'
    BY <1>1, <2>2 DEF Progress, Busy, At
  <2>5. Rendered' = Rendered /\ Live' = Live
    BY <1>1 DEF Rendered, Live, Limited, Conf, Map, Text, Tls
  <2>6. DiskInv'
    BY <1>1, <2>1, <2>5 DEF RenderSafe, RenderInv, DiskInv, Resting
  <2>7. LiveInv'
    BY <1>1, <2>1 DEF RenderSafe, RenderInv, LiveInv, Loadable, Resting
  <2>8. TornInv'
    BY <1>1, <1>4, <2>1, <2>5 DEF RenderSafe, RenderInv, TornInv, Rendering
  <2> QED BY <1>2, <2>3, <2>4, <2>6, <2>7, <2>8 DEF RenderInv
<1> QED BY <1>3, <1>4

LEMMA RenderRestart ==
  ASSUME RenderSafe, Restart \/ Start \/ UNCHANGED vars \/ \E p \in Procs : OpenByHand(p) \/ CloseByHand(p)
  PROVE  RenderInv'
<1>1. /\ UNCHANGED <<db, files, certs, req>> /\ hist'.renamed = hist.renamed
      /\ hist'.disk = hist.disk /\ hist'.torn = hist.torn /\ (hist'.live => hist.live)
      /\ \/ loaded' = None
         \/ loaded = None /\ loaded' = files
         \/ UNCHANGED loaded
  <2>1. CASE Restart \/ Start \/ UNCHANGED vars
    BY <2>1, Restarts DEF RenderSafe
  <2>2. ASSUME NEW p \in Procs, OpenByHand(p) \/ CloseByHand(p)
        PROVE  /\ UNCHANGED <<db, files, loaded, certs, req>> /\ hist'.renamed = hist.renamed
               /\ hist'.disk = hist.disk /\ hist'.torn = hist.torn /\ hist'.live = hist.live
    BY <2>2, Hands DEF RenderSafe
  <2> QED BY <2>1, <2>2
<1>2. CertInv'
  BY <1>1, SameCert
<1>3. Rendered' = Rendered /\ Live' = Live /\ Limited' = Limited /\ Confs' = Confs /\ \A i \in Ids : Map(i)' = Map(i)
  BY <1>1 DEF Rendered, Live, Limited, Conf, Map, Text, Tls, Confs
<1>4. Crossing'
  BY <1>1 DEF RenderSafe, RenderInv, Crossing, Busy
<1>5. ASSUME NEW p \in Procs PROVE Progress(p)'
  <2>1. Progress(p)
    BY DEF RenderSafe, RenderInv
  <2>2. {Map(i) : i \in Live \ {req[p].id}}' = {Map(i) : i \in Live \ {req[p].id}}
    BY <1>1 DEF Map, Live
  <2> QED BY <1>1, <1>3, <2>1, <2>2 DEF Progress, Busy, At, Site, Without
<1>6. DiskInv'
  BY <1>1, <1>3 DEF RenderSafe, RenderInv, DiskInv
<1>7. LiveInv'
  BY <1>1 DEF RenderSafe, RenderInv, LiveInv, Loadable
<1>8. TornInv'
  BY <1>1, <1>3 DEF RenderSafe, RenderInv, TornInv
<1> QED BY <1>2, <1>4, <1>5, <1>6, <1>7, <1>8 DEF RenderInv

LEMMA PxRenderStep ==
  ASSUME RenderSafe, [Next]_vars
  PROVE  RenderSafe'
<1>1. StageInv'
  BY PxStageStep DEF RenderSafe
<1>2. RenderInv'
  <2>1. CASE Restart \/ Start \/ UNCHANGED vars \/ \E p \in Procs : OpenByHand(p) \/ CloseByHand(p)
    BY <2>1, RenderRestart
  <2>2. ASSUME NEW p \in Procs,
               Begin(p) \/ Create(p) \/ Upstream(p) \/ Delete(p) \/ SaveGeo(p) \/ WriteMap(p) \/ Issue(p)
        PROVE  RenderInv'
    BY <2>2, RenderBegin, RenderCreate, RenderUpstream, RenderSaveGeo, RenderMap, RenderIssue
  <2>3. ASSUME NEW p \in Procs, NotFound(p) \/ Rejected(p) \/ SaveForm(p) \/ Order(p) \/ RefuseHalf(p) \/ MovePanel(p)
        PROVE  RenderInv'
    BY <2>3, RenderForms
  <2>4. ASSUME NEW p \in Procs,
               Unlink(p) \/ WriteShared(p) \/ ListSites(p) \/ WriteSite(p) \/ AddRows(p) \/ WriteMaps(p)
        PROVE  RenderInv'
    BY <2>4, RenderGroups, RenderSite, RenderRows, RenderMaps
  <2>5. ASSUME NEW p \in Procs, Test(p) \/ Signal(p) \/ DockerFails(p) \/ DiskFails(p) \/ Die(p) \/ CertbotFails(p)
        PROVE  RenderInv'
    BY <2>5, RenderReload, RenderEnds
  <2>6. ASSUME NEW p \in Procs, OpenForDelete(p) \/ Release(p) \/ Protect(p) \/ AgentFails(p) \/ Mark(p)
        PROVE  RenderInv'
    BY <2>6, RenderAgent
  <2> QED BY <2>1, <2>2, <2>3, <2>4, <2>5, <2>6, PxKinds
<1> QED BY <1>1, <1>2 DEF RenderSafe

LEMMA PxRenderInit == Init => RenderSafe
<1> SUFFICES ASSUME Init PROVE RenderSafe
  OBVIOUS
<1>1. StageInv
  BY PxStageInit
<1>2. /\ certs = First /\ files = Rendered /\ loaded = files /\ req = [p \in Procs |-> Idle]
      /\ db = [i \in Ids |->
           IF i = Console THEN [Row(i, CHOOSE d \in Domains : TRUE, None) EXCEPT !.rows = TRUE]
           ELSE IF i \in First THEN [Row(i, i, CHOOSE port \in Ports : TRUE) EXCEPT !.rows = TRUE, !.le = TRUE,
                                       !.status = "active", !.blocked = TRUE]
           ELSE NewRow]
  BY DEF Init
<1>3. \A p \in Procs : req[p].pc = "idle"
  BY <1>2, IdleType
<1>4. Crossing /\ \A p \in Procs : Progress(p)
  BY <1>3 DEF Crossing, Progress, Busy
<1>5. DiskInv /\ LiveInv
  BY <1>2 DEF DiskInv, LiveInv
<1>6. TornInv
  <2>1. \A i \in Live : Conf(i) \in Confs /\ Conf(i).id = i
    BY DEF Confs, Conf
  <2> QED BY <1>2, <2>1, IsRendered DEF TornInv
<1>7. CertInv
  <2>1. \A i \in Ids : db[i].status = "active" => i \in First /\ db[i].domain = i
    <3> TAKE i \in Ids
    <3>1. CASE i = Console
      <4>1. db[i].status = "none"
        BY <1>2, <3>1, PxConstants DEF Row, NewRow
      <4> QED BY <4>1
    <3>2. CASE i # Console /\ i \in First
      <4>1. db[i].domain = i
        BY <1>2, <3>2 DEF Row, NewRow
      <4> QED BY <3>2, <4>1
    <3>3. CASE i # Console /\ i \notin First
      <4>1. db[i].status = "none"
        BY <1>2, <3>3 DEF NewRow
      <4> QED BY <4>1
    <3> QED BY <3>1, <3>2, <3>3
  <2>2. certs = First
    BY <1>2
  <2> QED BY <2>1, <2>2 DEF CertInv
<1> QED BY <1>1, <1>4, <1>5, <1>6, <1>7 DEF RenderSafe, RenderInv

(* Whatever overlapping renders, failed writes and killed processes left in   *)
(* the directory, render_nginx_configs undisturbed puts it right, and nginx   *)
(* runs what it finds there if it can.                                        *)
THEOREM PxHealsAlone == Spec => []HealsAlone
<1>1. Init => RenderSafe
  BY PxRenderInit
<1>2. RenderSafe /\ [Next]_vars => RenderSafe'
  BY PxRenderStep
<1>3. RenderSafe => HealsAlone
  <2> SUFFICES ASSUME RenderSafe, Quiet PROVE /\ hist.disk => files = Rendered
                                              /\ hist.live /\ Loadable(files) /\ loaded # None => loaded = files
    BY DEF HealsAlone
  <2>1. \A p \in Procs : req[p].pc \in Resting
    BY DEF Quiet, At, Resting
  <2> QED BY <2>1 DEF RenderSafe, RenderInv, DiskInv, LiveInv
<1> QED BY <1>1, <1>2, <1>3, PTL DEF Spec

(* What render_nginx_configs writes undisturbed passes "nginx -t", but for    *)
(* the texts the forms let pass and a panel renamed under its certificate: no *)
(* site asks for TLS before certbot has issued for the domain it has.         *)
THEOREM PxRenderIsLoadable == Spec => []RenderIsLoadable
<1>1. Init => RenderSafe
  BY PxRenderInit
<1>2. RenderSafe /\ [Next]_vars => RenderSafe'
  BY PxRenderStep
<1>3. RenderSafe => RenderIsLoadable
  <2> SUFFICES ASSUME RenderSafe, hist.disk, Quiet, ~hist.renamed, \A i \in Live : db[i].text # "bad"
               PROVE  Loadable(files)
    BY DEF RenderIsLoadable
  <2>1. files = Rendered
    BY DEF Quiet, At, Resting, RenderSafe, RenderInv, DiskInv
  <2>2. files.confs = Confs /\ files.zones = Limited /\ files.geoip = Live /\ files.maps = {Map(i) : i \in Live}
    BY <2>1, IsRendered
  <2>3. ASSUME NEW i \in Live
        PROVE  /\ Conf(i).limited => Conf(i).id \in Limited
               /\ Conf(i).id \in Live
               /\ Conf(i).tls => Conf(i).domain \in certs
               /\ Conf(i).text # "bad"
    <3>1. i \in Ids /\ (db[i].status = "active" => db[i].domain \in certs)
      BY DEF RenderSafe, RenderInv, CertInv, Live
    <3> QED BY <3>1 DEF Conf, Limited, Tls, Text
  <2>4. \A c \in files.confs : /\ c.limited => c.id \in files.zones
                               /\ c.id \in files.geoip
                               /\ c.tls => c.domain \in certs
                               /\ c.text # "bad"
    BY <2>2, <2>3 DEF Confs
  <2>5. \A i \in Live : Map(i).id = i
    BY DEF Map
  <2> QED BY <2>2, <2>4, <2>5 DEF Loadable
<1> QED BY <1>1, <1>2, <1>3, PTL DEF Spec

LEMMA ServedStep ==
  ASSUME RenderSafe, Next, loaded # None, loaded' # None, ~hist.torn, ~hist'.torn,
         NEW c \in loaded.confs, c.id \in Live
  PROVE  \E d \in loaded'.confs : d.id = c.id
<1>1. CASE loaded' = loaded
  BY <1>1
<1>2. CASE loaded' # loaded
  <2>1. PICK p \in Procs : Test(p) \/ Signal(p) \/ DockerFails(p)
    <3>1. StageInv
      BY DEF RenderSafe
    <3>2. ~Restart /\ ~Start
      BY <1>2 DEF Restart, Start
    <3>3. ASSUME NEW p \in Procs,
                 Begin(p) \/ NotFound(p) \/ Rejected(p) \/ SaveForm(p) \/ RefuseHalf(p) \/ Create(p) \/ Upstream(p)
          PROVE  UNCHANGED loaded
      BY <3>3 DEF Begin, NotFound, Rejected, SaveForm, RefuseHalf, Create, Upstream, proxy
    <3>4. ASSUME NEW p \in Procs,
                 OpenForDelete(p) \/ Delete(p) \/ MovePanel(p) \/ SaveGeo(p) \/ WriteMap(p) \/ Unlink(p)
                 \/ WriteShared(p) \/ ListSites(p) \/ WriteSite(p) \/ AddRows(p) \/ WriteMaps(p)
          PROVE  UNCHANGED loaded
      BY <3>4 DEF OpenForDelete, Delete, MovePanel, SaveGeo, WriteMap, Unlink, WriteShared, ListSites, WriteSite,
                  AddRows, WriteMaps, proxy
    <3>5. ASSUME NEW p \in Procs,
                 Order(p) \/ Issue(p) \/ Release(p) \/ Protect(p) \/ Mark(p) \/ CertbotFails(p) \/ AgentFails(p)
                 \/ DiskFails(p) \/ Die(p) \/ OpenByHand(p) \/ CloseByHand(p)
          PROVE  UNCHANGED loaded
      BY <3>5 DEF Order, Issue, Release, Protect, Mark, CertbotFails, AgentFails, DiskFails, Die, OpenByHand,
                  CloseByHand, proxy
    <3>6. PICK p \in Procs : Begin(p) \/ Step(p) \/ Trouble(p)
      BY <3>2 DEF Next
    <3> QED BY <1>2, <3>3, <3>4, <3>5, <3>6 DEF Step, Trouble
  <2>2. loaded' = files /\ req[p].pc = "signal"
    BY <1>2, <2>1, Reloading DEF RenderSafe
  <2>3. ~req[p].crossed
    BY <2>2 DEF RenderSafe, RenderInv, Crossing, Busy
  <2>4. TornAt(req[p].pc)
    BY <2>2, <2>3, AloneKept DEF Kept, Busy
  <2>5. \E d \in files.confs : d.id = c.id
    BY <2>2, <2>4 DEF TornAt, Rendering
  <2> QED BY <2>2, <2>5
<1> QED BY <1>1, <1>2

(* A reload takes no site out of nginx that is still to be served: while      *)
(* renders neither overlap nor end half-way, "nginx -s reload" is reached     *)
(* only with a file for every site.                                           *)
THEOREM PxServedStaysServed == Spec => ServedStaysServed
<1>1. Init => RenderSafe
  BY PxRenderInit
<1>2. RenderSafe /\ [Next]_vars => RenderSafe'
  BY PxRenderStep
<1>3. RenderSafe /\ [Next]_vars =>
        [loaded # None /\ loaded' # None /\ ~hist.torn /\ ~hist'.torn =>
           \A c \in loaded.confs :
              c.id \in Live /\ db[c.id].domain = c.domain =>
                 \E d \in loaded'.confs : d.id = c.id]_vars
  BY ServedStep
<1> QED BY <1>1, <1>2, <1>3, PTL DEF Spec, ServedStaysServed
=============================================================================
