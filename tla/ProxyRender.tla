---------------------------- MODULE ProxyRender ----------------------------
(* The proxy's configuration, app/proxy/routes.py and services.py: the forms  *)
(* that change a site, render_nginx_configs, which rewrites every file nginx  *)
(* reads, reload_nginx, the certificate of a site and the port of a local     *)
(* upstream that the firewall agent closes.                                   *)
(*                                                                            *)
(* Each gunicorn process serves one request at a time; nothing keeps two of   *)
(* them from rendering into the same directory.  One action is one query, one *)
(* group of files, or one call to Docker, certbot or the agent.               *)
EXTENDS Integers, FiniteSets, FiniteSetsExt

CONSTANTS
    Procs,          \* gunicorn processes
    Console,        \* the site of the panel
    First,          \* the protected sites an installation begins with
    Later,          \* those created afterwards
    Domains,        \* domains the panel may be given
    Ports,          \* ports of local upstreams
    Kinds,          \* what a request may ask for
    Encrypted,      \* whether a new site asks for a certificate: any of these
    MaxRequests,    \* requests served
    MaxEach,        \* of each trouble, how often it happens
    MaxTotal,       \* and of all of them together
    None

Ids   == {Console} \cup First \cup Later
Texts == {"old", "new", "bad"}  \* "bad": passes the forms, not "nginx -t"

(* "disk": a file cannot be written.  "docker", "agent", "certbot": the call  *)
(* fails.  "dies": a process is killed.  "restart": the proxy is restarted.   *)
Troubles == {"disk", "docker", "agent", "certbot", "dies", "restart"}

ASSUME ProxyAssumption ==
    /\ IsFiniteSet(Procs) /\ IsFiniteSet(Ids)
    /\ None \notin Ids \cup Ports \cup Domains \cup {"issued"}
    /\ Ports # {} /\ Domains # {} /\ "issued" \notin Ports
    /\ Console \notin First \cup Later /\ First \cap Later = {}
    /\ Encrypted \subseteq BOOLEAN
    /\ MaxRequests \in Nat /\ MaxEach \in Nat /\ MaxTotal \in Nat

VARIABLES
    db,             \* per site its row and those that hang from it
    files,          \* the generated directory: [confs, zones, geoip, maps]
    loaded,         \* what nginx runs: a value of files, or None when it is down
    certs,          \* domains with a certificate on the volume
    closed,         \* ports the agent keeps closed
    req,            \* per process, the request it serves
    spent,          \* troubles and requests so far
    hist            \* history, read by the properties only

proxy == <<files, loaded>>
host  == <<certs, closed>>
vars  == <<db, proxy, host, req, spent, hist>>

(* "rows": the rows ensure_site_* adds; a new site lacks that of the bots.    *)
NewRow == [is |-> "new", domain |-> None, text |-> "old", limited |-> TRUE, geo |-> FALSE,
           le |-> FALSE, status |-> "none", rows |-> FALSE, port |-> None, blocked |-> FALSE]
Row(i, d, port) == [NewRow EXCEPT !.is = "live", !.domain = d, !.port = port]

Live == {i \in Ids : db[i].is = "live"}

(* Mutant: TLS as soon as it is asked for.                                    *)
TlsWhenAsked(s) == s.le

(* _ssl_block: TLS needs an active certificate.                               *)
Tls(s) == s.le /\ s.status = "active"

(* What people write as it reaches the file of a site: rules, headers,        *)
(* snippets, the paths of a certificate of one's own, the upstream's host.    *)
Text(s) == s.text

(* _render_site_config.                                                       *)
Conf(i) == [id |-> i, domain |-> db[i].domain, text |-> Text(db[i]), limited |-> db[i].limited,
            tls |-> Tls(db[i]), port |-> db[i].port]

Map(i) == [id |-> i, geo |-> db[i].geo]

Limited == {i \in Live : db[i].limited}

(* What a render that nobody disturbs leaves on the disk.                     *)
Rendered == [confs |-> {Conf(i) : i \in Live}, zones |-> Limited,
             geoip |-> Live, maps |-> {Map(i) : i \in Live}]

(* "nginx -t": a site file needs its zone, its variable, its certificate and  *)
(* words nginx knows, files that are there and an upstream that resolves; a   *)
(* variable needs its map.                                                    *)
Loadable(f) ==
    /\ \A c \in f.confs :
         /\ c.limited => c.id \in f.zones
         /\ c.id \in f.geoip
         /\ c.tls => c.domain \in certs
         /\ c.text # "bad"
    /\ \A i \in f.geoip : \E m \in f.maps : m.id = i

Idle == [kind |-> None, id |-> None, pc |-> "idle", todo |-> {}, old |-> None, new |-> None,
         crossed |-> FALSE]

(* Ports two sites have together, or one takes while another is leaving it.   *)
Users(d, x) == {i \in Ids : d[i].is = "live" /\ d[i].port = x}
                   \cup {req[q].id : q \in {r \in Procs : req[r].old = x}}
Shared(d)   == {x \in Ports : \E i, j \in Users(d, x) : i # j}

Init ==
    /\ LET x == CHOOSE port \in Ports : TRUE IN
         /\ db = [i \in Ids |->
              IF i = Console THEN [Row(i, CHOOSE d \in Domains : TRUE, None) EXCEPT !.rows = TRUE]
              ELSE IF i \in First THEN [Row(i, i, x) EXCEPT !.rows = TRUE, !.le = TRUE,
                                          !.status = "active", !.blocked = TRUE]
              ELSE NewRow]
         /\ closed = {x}
    /\ certs = First
    /\ files = Rendered /\ loaded = files
    /\ req = [p \in Procs |-> Idle]
    /\ spent = [x \in Troubles \cup {"requests"} |-> 0]
    /\ hist = [disk |-> TRUE, live |-> TRUE, torn |-> FALSE, renamed |-> FALSE,
               shared |-> Shared(db), contended |-> {}, opened |-> {}]

Spend(t) ==
    /\ spent[t] < MaxEach
    /\ MapThenSumSet(LAMBDA k : spent[k], Troubles) < MaxTotal
    /\ spent' = [spent EXCEPT ![t] = @ + 1]

At(p, pc)   == req[p].pc = pc
Goto(p, pc) == req' = [req EXCEPT ![p].pc = pc]
Site(p)     == db[req[p].id]
Others(p)   == {q \in Procs \ {p} : req[q].pc # "idle"}

-----------------------------------------------------------------------------
(* Requests that render without a form; a new country base is not followed by *)
(* a reload.                                                                  *)
Formless    == {"render", "download"}
Reloads(k)  == k # "download"

(* A request arrives for a site that may still exist when it is served.       *)
Targets(k) ==
    CASE k = "create"  -> {i \in Later : db[i].is = "new"}
      [] k = "console" -> {Console}
      [] k \in {"delete", "upstream"} -> Live \ {Console}
      [] k \in Formless -> {Console}
      [] OTHER -> Live

Begin(p) ==
    /\ At(p, "idle") /\ spent.requests < MaxRequests
    /\ spent' = [spent EXCEPT !.requests = @ + 1]
    /\ \E k \in Kinds \ {"ports"} : \E i \in Targets(k) :
         LET same == {q \in Others(p) : req[q].id = i} IN
         /\ req' = [q \in Procs |->
              IF q = p THEN [Idle EXCEPT !.kind = k, !.id = i, !.crossed = Others(p) # {},
                               !.pc = IF k \in Formless THEN "unlink"
                                      ELSE IF k = "delete" /\ db[i].blocked THEN "open" ELSE "save"]
              ELSE IF q \in Others(p) THEN [req[q] EXCEPT !.crossed = TRUE] ELSE req[q]]
         /\ hist' = [hist EXCEPT !.contended = IF same = {} THEN @ ELSE @ \cup {i},
                                 !.torn = @ \/ Others(p) # {},
                                 !.disk = @ /\ Others(p) = {}, !.live = @ /\ Others(p) = {}]
    /\ UNCHANGED <<db, proxy, host>>

(* The answer is sent.                                                        *)
Done(p) == req' = [req EXCEPT ![p] = Idle]

(* A form that is committed and not rendered leaves the files behind.         *)
Unrendered == [hist EXCEPT !.disk = FALSE, !.live = FALSE]

(* What the validators of a form let pass.  None of them can ask the proxy:   *)
(* a rule may repeat an id of another, a snippet name a directive out of its  *)
(* place, a header a variable nginx does not know.  An exclusion is a number. *)
RuleTexts      == Texts
SnippetTexts   == Texts
HeaderTexts    == Texts
ExclusionTexts == Texts \ {"bad"}
SwitchTexts    == Texts \ {"bad"}      \* bots, WAF, categories: check boxes only

(* No form looks for the files of a certificate or at the host of an          *)
(* upstream: what it leaves of the text t is good again, or bad.              *)
Named(t) == {"bad", IF t = "bad" THEN "old" ELSE t}

Edits == {"switch", "rule", "snippet", "headers", "exclusions", "policy", "tls"}

Written(k) ==
    CASE k = "switch"  -> SwitchTexts
      [] k = "rule"    -> RuleTexts
      [] k = "snippet" -> SnippetTexts
      [] k = "headers" -> HeaderTexts
      [] k = "exclusions" -> ExclusionTexts
      [] OTHER -> {}

SavedPolicy(s) == [s EXCEPT !.limited = ~@]

(* TLS of Let's Encrypt switched, or the paths of a certificate of one's own. *)
SavedTls(s) ==
    {[s EXCEPT !.le = ~@, !.status = IF s.le THEN "none" ELSE IF @ = "active" THEN @ ELSE "pending"]}
        \cup {[s EXCEPT !.text = x] : x \in Named(s.text) \ {s.text}}

(* Boxes and numbers do not mend what a text has spoilt.                      *)
Heals(k, s) == s.text = "bad" => "bad" \in Written(k)

(* What a form may make of the row of its site.                               *)
Saved(k, s) ==
    CASE k = "policy" -> {SavedPolicy(s)}
      [] k = "tls"    -> SavedTls(s)
      [] OTHER -> IF Heals(k, s) THEN {[s EXCEPT !.text = x] : x \in Written(k) \ {s.text}} ELSE {s}

(* The form is refused: nothing is stored.                                    *)
Rejected(p) ==
    /\ At(p, "save") /\ req[p].kind \in Edits \cup {"create", "upstream", "geo", "console", "certificate"}
    /\ Done(p)
    /\ UNCHANGED <<db, proxy, host, spent, hist>>

(* The row is gone: 404.                                                      *)
NotFound(p) ==
    /\ At(p, "save") /\ req[p].kind # "create" /\ Site(p).is # "live"
    /\ Done(p)
    /\ UNCHANGED <<db, proxy, host, spent, hist>>

SaveForm(p) ==
    /\ At(p, "save") /\ req[p].kind \in Edits /\ Site(p).is = "live"
    /\ \E s \in Saved(req[p].kind, Site(p)) : db' = [db EXCEPT ![req[p].id] = s]
    /\ Goto(p, "unlink")
    /\ UNCHANGED <<proxy, host, spent, hist>>

(* The switches of the exclusions are committed by log_audit; a new exclusion *)
(* in the same form that is refused ends the request before the render.       *)
RefuseHalf(p) ==
    /\ At(p, "save") /\ req[p].kind = "exclusions" /\ Site(p).is = "live"
    /\ \E s \in Saved("exclusions", Site(p)) : db' = [db EXCEPT ![req[p].id] = s]
    /\ hist' = Unrendered
    /\ Done(p)
    /\ UNCHANGED <<proxy, host, spent>>

(* create_site: the row is there before its port is closed.                   *)
Create(p) ==
    /\ At(p, "save") /\ req[p].kind = "create"
    /\ IF Site(p).is = "new"
       THEN /\ \E le \in Encrypted, port \in Ports \cup {None}, text \in Named("old") :
                 /\ db' = [db EXCEPT ![req[p].id] = [Row(req[p].id, req[p].id, port) EXCEPT
                                                      !.le = le, !.text = text]]
                 /\ req' = [req EXCEPT ![p].pc = "unlink", ![p].new = port]
            /\ hist' = [hist EXCEPT !.shared = @ \cup Shared(db')]
       ELSE Done(p) /\ UNCHANGED <<db, hist>>
    /\ UNCHANGED <<proxy, host, spent>>

(* Mutant: the mark of the old port stays.                                    *)
KeepMark(p) ==
    /\ At(p, "save") /\ req[p].kind = "upstream" /\ Site(p).is = "live"
    /\ LET s == Site(p) IN
       \E port \in Ports \cup {None}, text \in Named(s.text) :
         /\ db' = [db EXCEPT ![req[p].id].port = port, ![req[p].id].text = text]
         /\ hist' = [hist EXCEPT !.shared = @ \cup Shared(db')]
         /\ req' = [req EXCEPT ![p].pc = "unlink", ![p].new = port,
                              ![p].old = IF s.blocked THEN s.port ELSE None]
    /\ UNCHANGED <<proxy, host, spent>>

(* update_site_upstream: another URL, perhaps of the same port; the mark      *)
(* falls with the old one, whose port is remembered if it was marked.         *)
Upstream(p) ==
    /\ At(p, "save") /\ req[p].kind = "upstream" /\ Site(p).is = "live"
    /\ LET s == Site(p) IN
       \E port \in Ports \cup {None}, text \in Named(s.text) :
         /\ db' = [db EXCEPT ![req[p].id].port = port, ![req[p].id].text = text,
                             ![req[p].id].blocked = FALSE]
         /\ hist' = [hist EXCEPT !.shared = @ \cup Shared(db')]
         /\ req' = [req EXCEPT ![p].pc = "unlink", ![p].new = port,
                              ![p].old = IF s.blocked THEN s.port ELSE None]
    /\ UNCHANGED <<proxy, host, spent>>

(* delete_site: the port is opened first, whatever the agent answers.         *)
OpenForDelete(p) ==
    /\ At(p, "open")
    /\ closed' = closed \ {Site(p).port}
    /\ Goto(p, "save")
    /\ UNCHANGED <<db, proxy, certs, spent, hist>>

Delete(p) ==
    /\ At(p, "save") /\ req[p].kind = "delete" /\ Site(p).is = "live"
    /\ db' = [db EXCEPT ![req[p].id] = [NewRow EXCEPT !.is = "gone"]]
    /\ Goto(p, "unlink")
    /\ UNCHANGED <<proxy, host, spent, hist>>

(* save_console_site: the panel's domain is stored, nothing is rendered.      *)
MovePanel(p) ==
    /\ At(p, "save") /\ req[p].kind = "console"
    /\ \E d \in Domains \ {Site(p).domain} : db' = [db EXCEPT ![Console].domain = d]
    /\ hist' = [Unrendered EXCEPT !.renamed = @ \/ Site(p).status \in {"pending", "active"}]
    /\ Done(p)
    /\ UNCHANGED <<proxy, host, spent>>

(* geo_blocklist_add, geo_blocklist_remove: one map and a reload.             *)
SaveGeo(p) ==
    /\ At(p, "save") /\ req[p].kind = "geo" /\ Site(p).is = "live"
    /\ db' = [db EXCEPT ![req[p].id].geo = ~@]
    /\ Goto(p, "map")
    /\ UNCHANGED <<proxy, host, spent, hist>>

Without(maps, ids) == {m \in maps : m.id \notin ids}

WriteMap(p) ==
    /\ At(p, "map")
    /\ IF Site(p).is = "live"
       THEN /\ files' = [files EXCEPT !.maps = Without(@, {req[p].id}) \cup {Map(req[p].id)}]
            /\ Goto(p, "test")
       ELSE Done(p) /\ UNCHANGED files
    /\ UNCHANGED <<db, loaded, host, spent, hist>>

-----------------------------------------------------------------------------
(* render_nginx_configs.                                                      *)

(* Mutant: the files of deleted sites stay.                                   *)
KeepFiles(p) ==
    /\ At(p, "unlink") /\ Goto(p, "shared")
    /\ UNCHANGED <<db, proxy, host, spent, hist>>

(* Every site file is removed, by whichever request.                          *)
Unlink(p) ==
    /\ At(p, "unlink")
    /\ files' = [files EXCEPT !.confs = {}]
    /\ Goto(p, "shared")
    /\ UNCHANGED <<db, loaded, host, spent, hist>>

(* 00-zones.conf has a zone for every limited site, 00-geoip.conf names the   *)
(* map of every site; the maps are removed after them.                        *)
WriteShared(p) ==
    /\ At(p, "shared")
    /\ files' = [files EXCEPT !.zones = Limited, !.geoip = Live, !.maps = {}]
    /\ Goto(p, "list")
    /\ UNCHANGED <<db, loaded, host, spent, hist>>

(* Mutant: only the site of the request is written anew.                      *)
ListSite(p) ==
    /\ At(p, "list")
    /\ req' = [req EXCEPT ![p].pc = "site", ![p].todo = {Conf(i) : i \in Live \cap {req[p].id}}]
    /\ UNCHANGED <<db, proxy, host, spent, hist>>

(* The rows are read here and written out one by one below.                   *)
ListSites(p) ==
    /\ At(p, "list")
    /\ req' = [req EXCEPT ![p].pc = "site", ![p].todo = {Conf(i) : i \in Live}]
    /\ UNCHANGED <<db, proxy, host, spent, hist>>

(* A row that was deleted meanwhile cannot be given the rows that hang from   *)
(* it, nor can two requests both add them: the database turns the commit      *)
(* down, and the session fails the rest of the request.                       *)
Turned(p) ==
    /\ req' = [req EXCEPT ![p] = Idle]
    /\ hist' = [hist EXCEPT !.torn = TRUE, !.disk = FALSE, !.live = FALSE]

WriteSite(p) ==
    /\ At(p, "site")
    /\ \E c \in req[p].todo :
         LET s == db[c.id] IN
         CASE s.is # "live" -> Turned(p) /\ UNCHANGED files
           [] s.is = "live" /\ ~s.rows -> Goto(p, "rows") /\ UNCHANGED <<files, hist>>
           [] OTHER ->
                /\ files' = [files EXCEPT !.confs = {f \in @ : f.id # c.id \/ f.domain # c.domain} \cup {c}]
                /\ req' = [req EXCEPT ![p].todo = @ \ {c}]
                /\ UNCHANGED hist
    /\ UNCHANGED <<db, loaded, host, spent>>

(* ensure_site_*: the missing rows are added; the commit lets every row be    *)
(* read again.                                                                *)
AddRows(p) ==
    /\ At(p, "rows")
    /\ LET bare == {i \in {c.id : c \in req[p].todo} : ~db[i].rows} IN
         IF \E i \in bare : db[i].is = "live"
         THEN /\ \E i \in bare : db[i].is = "live" /\ db' = [db EXCEPT ![i].rows = TRUE]
              /\ req' = [req EXCEPT ![p].pc = "site",
                           ![p].todo = {IF db[c.id].is = "live" THEN Conf(c.id) ELSE c : c \in @}]
              /\ UNCHANGED hist
         ELSE Turned(p) /\ UNCHANGED db
    /\ UNCHANGED <<proxy, host, spent>>

(* write_blocklist_conf, for every site.                                      *)
WriteMaps(p) ==
    /\ At(p, "site") /\ req[p].todo = {}
    /\ files' = [files EXCEPT !.maps = Without(@, Live) \cup {Map(i) : i \in Live}]
    /\ IF Reloads(req[p].kind) THEN Goto(p, "test") /\ UNCHANGED hist
       ELSE /\ Done(p)
            /\ hist' = IF req[p].crossed THEN hist
                       ELSE [hist EXCEPT !.disk = TRUE, !.live = FALSE, !.torn = FALSE]
    /\ UNCHANGED <<db, loaded, host, spent>>

-----------------------------------------------------------------------------
(* What follows a reload.  A refusal of nginx is reported by some routes and  *)
(* swallowed by _apply_nginx; the request goes on all the same.               *)
After(p) ==
    LET r == req[p] IN
    IF r.kind = "certificate" THEN (IF r.old = "issued" THEN "idle" ELSE "certbot")
    ELSE IF r.old # None THEN "release" ELSE IF r.new # None THEN "protect" ELSE "idle"

(* An undisturbed render puts the directory right, whatever was there before. *)
Applied(p) ==
    IF req[p].crossed THEN hist
    ELSE IF req[p].kind = "geo" THEN [hist EXCEPT !.live = hist.disk]
    ELSE [hist EXCEPT !.disk = TRUE, !.live = TRUE, !.torn = FALSE]

Leave(p, pc) ==
    /\ req' = IF pc = "idle" THEN [req EXCEPT ![p] = Idle] ELSE [req EXCEPT ![p].pc = pc]
    /\ hist' = Applied(p)

(* provision_cert ends with "error" when nginx cannot be reloaded.            *)
Refused(p) ==
    /\ db' = IF Site(p).is = "live" THEN [db EXCEPT ![req[p].id].status = "error"] ELSE db
    /\ Done(p)
    /\ hist' = Unrendered

(* reload_nginx: "nginx -t" first.                                            *)
Test(p) ==
    /\ At(p, "test")
    /\ IF loaded # None /\ Loadable(files) THEN Goto(p, "signal") /\ UNCHANGED <<db, hist>>
       ELSE IF req[p].kind = "certificate" THEN Refused(p)
       ELSE Leave(p, After(p)) /\ UNCHANGED db
    /\ UNCHANGED <<proxy, host, spent>>

(* "nginx -s reload": nginx keeps what it runs when the files it reads now    *)
(* are not good.                                                              *)
Signal(p) ==
    /\ At(p, "signal")
    /\ loaded' = IF Loadable(files) /\ loaded # None THEN files ELSE loaded
    /\ Leave(p, After(p))
    /\ UNCHANGED <<db, files, host, spent>>

-----------------------------------------------------------------------------
(* provision_cert.                                                            *)
Order(p) ==
    /\ At(p, "save") /\ req[p].kind = "certificate" /\ Site(p).is = "live" /\ Site(p).le
    /\ db' = [db EXCEPT ![req[p].id].status = "pending"]
    /\ Goto(p, "unlink")
    /\ UNCHANGED <<proxy, host, spent, hist>>

(* certbot issues for the domain the row has now; the row is marked and the   *)
(* configuration rendered again.                                              *)
Issue(p) ==
    /\ At(p, "certbot")
    /\ IF Site(p).is = "live"
       THEN /\ certs' = certs \cup {Site(p).domain}
            /\ db' = [db EXCEPT ![req[p].id].status = "active"]
            /\ req' = [req EXCEPT ![p].pc = "unlink", ![p].old = "issued"]
       ELSE Done(p) /\ UNCHANGED <<certs, db>>
    /\ UNCHANGED <<proxy, closed, spent, hist>>

CertbotFails(p) ==
    /\ At(p, "certbot") /\ Spend("certbot")
    /\ db' = IF Site(p).is = "live" THEN [db EXCEPT ![req[p].id].status = "error"] ELSE db
    /\ Done(p)
    /\ hist' = Unrendered
    /\ UNCHANGED <<proxy, host>>

(* The ports of local upstreams: the one that was left, then the new one, as  *)
(* the form had them; the row may be another by now.                          *)
Release(p) ==
    /\ At(p, "release")
    /\ closed' = closed \ {req[p].old}
    /\ IF req[p].new = None THEN Done(p) ELSE Goto(p, "protect")
    /\ UNCHANGED <<db, proxy, certs, spent, hist>>

Protect(p) ==
    /\ At(p, "protect")
    /\ closed' = closed \cup {req[p].new}
    /\ Goto(p, "mark")
    /\ hist' = [hist EXCEPT !.opened = @ \ {req[p].new}]
    /\ UNCHANGED <<db, proxy, certs, spent>>

(* wf_unprotect_port, wf_protect_port: a port is opened or closed by hand at  *)
(* the panel of the module; no row is looked at.                              *)
OpenByHand(p) ==
    /\ At(p, "idle") /\ "ports" \in Kinds /\ spent.requests < MaxRequests
    /\ spent' = [spent EXCEPT !.requests = @ + 1]
    /\ \E x \in Ports : closed' = closed \ {x} /\ hist' = [hist EXCEPT !.opened = @ \cup {x}]
    /\ UNCHANGED <<db, proxy, certs, req>>

CloseByHand(p) ==
    /\ At(p, "idle") /\ "ports" \in Kinds /\ spent.requests < MaxRequests
    /\ spent' = [spent EXCEPT !.requests = @ + 1]
    /\ \E x \in Ports : closed' = closed \cup {x} /\ hist' = [hist EXCEPT !.opened = @ \ {x}]
    /\ UNCHANGED <<db, proxy, certs, req>>

(* The agent has looked: the mark is stored by a commit of its own.           *)
Mark(p) ==
    /\ At(p, "mark")
    /\ db' = IF Site(p).is = "live" THEN [db EXCEPT ![req[p].id].blocked = TRUE] ELSE db
    /\ Done(p)
    /\ UNCHANGED <<proxy, host, spent, hist>>

(* The agent does not answer in time; it may have done what it was asked.     *)
AgentFails(p) ==
    /\ Spend("agent")
    /\ \/ At(p, "open") /\ closed' \in {closed, closed \ {Site(p).port}} /\ Goto(p, "save")
       \/ /\ At(p, "release") /\ closed' \in {closed, closed \ {req[p].old}}
          /\ IF req[p].new = None THEN Done(p) ELSE Goto(p, "protect")
       \/ At(p, "protect") /\ closed' \in {closed, closed \cup {req[p].new}} /\ Done(p)
    /\ UNCHANGED <<db, proxy, certs, hist>>

-----------------------------------------------------------------------------
Writing == {"shared", "list", "site", "map"}

(* A file is not written: _apply_nginx swallows the error and nothing is      *)
(* reloaded; the other routes end with it, the country list and the order of  *)
(* a certificate among them, after their commit.                              *)
DiskFails(p) ==
    /\ req[p].pc \in Writing /\ Spend("disk")
    /\ LET next == IF req[p].kind = "certificate" THEN "idle" ELSE After(p) IN
         req' = IF next = "idle" THEN [req EXCEPT ![p] = Idle] ELSE [req EXCEPT ![p].pc = next]
    /\ hist' = [hist EXCEPT !.torn = TRUE, !.disk = FALSE, !.live = FALSE]
    /\ UNCHANGED <<db, proxy, host>>

DockerFails(p) ==
    /\ req[p].pc \in {"test", "signal"} /\ Spend("docker")
    /\ IF req[p].kind = "certificate" THEN Refused(p)
       ELSE /\ req' = IF After(p) = "idle" THEN [req EXCEPT ![p] = Idle] ELSE [req EXCEPT ![p].pc = After(p)]
            /\ hist' = [hist EXCEPT !.live = FALSE]
            /\ UNCHANGED db
    /\ UNCHANGED <<proxy, host>>

(* gunicorn kills a process.                                                  *)
Die(p) ==
    /\ ~At(p, "idle") /\ Spend("dies")
    /\ Done(p)
    /\ hist' = [hist EXCEPT !.torn = TRUE, !.disk = FALSE, !.live = FALSE,
                            !.contended = @ \cup {req[p].id}]
    /\ UNCHANGED <<db, proxy, host>>

(* The container comes back with the files as they are, when they are good.   *)
Restart ==
    /\ Spend("restart")
    /\ loaded' = None
    /\ hist' = [hist EXCEPT !.live = FALSE]
    /\ UNCHANGED <<db, files, host, req>>

Start ==
    /\ loaded = None /\ Loadable(files)
    /\ loaded' = files
    /\ UNCHANGED <<db, files, host, req, spent, hist>>

Step(p) ==
    \/ NotFound(p) \/ Rejected(p) \/ SaveForm(p) \/ RefuseHalf(p) \/ Create(p) \/ Upstream(p)
    \/ OpenForDelete(p) \/ Delete(p) \/ MovePanel(p) \/ SaveGeo(p) \/ WriteMap(p) \/ Unlink(p) \/ WriteShared(p)
    \/ ListSites(p) \/ WriteSite(p) \/ AddRows(p) \/ WriteMaps(p) \/ Test(p)
    \/ Signal(p) \/ Order(p) \/ Issue(p) \/ Release(p) \/ Protect(p) \/ Mark(p)
    \/ OpenByHand(p) \/ CloseByHand(p)

Trouble(p) == CertbotFails(p) \/ AgentFails(p) \/ DiskFails(p) \/ DockerFails(p) \/ Die(p)

Next == (\E p \in Procs : Begin(p) \/ Step(p) \/ Trouble(p)) \/ Restart \/ Start

Spec == Init /\ [][Next]_vars

-----------------------------------------------------------------------------
Quiet == \A p \in Procs : At(p, "idle")

(* A render that nobody disturbs heals everything: whatever overlapping       *)
(* renders, failed writes and killed processes left in the directory, after   *)
(* it the files are those of the database, and nginx runs them if it can.     *)
HealsAlone ==
    Quiet =>
       /\ hist.disk => files = Rendered
       /\ hist.live /\ Loadable(files) /\ loaded # None => loaded = files

(* What such a render writes is a configuration nginx accepts: every zone,    *)
(* variable and map a file names is there and no site asks for a certificate  *)
(* it has not, through forms, orders of certificates and deletions.  Excepted *)
(* are sites with a text nginx refuses, which no form stops: a rule, snippet  *)
(* or header, the path of a certificate that is not there, an upstream host   *)
(* that does not parse or resolve; and a panel renamed under its certificate  *)
(* (save_console_site leaves letsencrypt_status alone).                       *)
RenderIsLoadable ==
    hist.disk /\ Quiet /\ ~hist.renamed /\ (\A i \in Live : db[i].text # "bad") => Loadable(files)

(* While renders neither overlap nor end half-way a reload takes no site from *)
(* nginx that is still to be served, though every render begins by removing   *)
(* all the site files and though texts may be bad.                            *)
ServedStaysServed ==
    [][loaded # None /\ loaded' # None /\ ~hist.torn /\ ~hist'.torn =>
         \A c \in loaded.confs :
            c.id \in Live /\ db[c.id].domain = c.domain =>
               \E d \in loaded'.confs : d.id = c.id]_vars

(* A port a site is marked with (host_port_blocked) is closed, whichever      *)
(* answer of the agent was lost.  Excepted: ports opened by hand, which       *)
(* leaves the mark of their site (wf_unprotect_port); ports two sites had     *)
(* together or handed over; sites about which two requests overlapped or one  *)
(* was killed; and a site that is being deleted.                              *)
MarkedPortIsClosed ==
    \A i \in Live \ hist.contended :
       db[i].blocked /\ db[i].port \notin hist.shared \cup hist.opened
          /\ ~(\E p \in Procs : req[p].kind = "delete" /\ req[p].id = i)
       => db[i].port \in closed
=============================================================================
