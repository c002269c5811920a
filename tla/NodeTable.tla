------------------------------- MODULE NodeTable -------------------------------
(***************************************************************************)
(* The life of the proxy rows: the inbound and client handlers of          *)
(* api/router.go, the 3x-ui import and export (inbound_client_import.go,   *)
(* three_xui_bridge.go), the rows Smart Deploy creates and removes, and    *)
(* the subscription cache of sub/generator.go that answers from them.      *)
(*                                                                         *)
(* A handler commits its change and drops the cached subscriptions in a    *)
(* second step; an edit reads the row in one step and saves all of it in   *)
(* another; a subscription request queries in one step and stores its      *)
(* answer in another.  Anything may happen in between.  What the engines   *)
(* run is a copy of the rows taken by Apply (ProxyRuntime has the details  *)
(* of that step); EngineConfigs says what they make of it.                 *)
(***************************************************************************)
EXTENDS EngineConfigs

CONSTANTS Tables,        \* the data bases the panel may start with
          InboundForms,  \* the columns an administrator may submit
          ImportItems,   \* 3x-ui inbounds that may be imported
          Emails, Uuids, \* of the clients that are created
          NewUuid,       \* what a preset generates
          Expiries,      \* their expiry times, 0 for never
          Rules,         \* routing rules that may be created
          Outbounds,     \* custom outbounds that may be created
          Presets, Domain,
          OccupiedPorts, \* of other programs on the host
          SubRequests,   \* subscription requests: [uuid, format, host]
          TTL,           \* of a cached subscription
          MaxTime,       \* the clock stops here
          MaxFills       \* requests that may be between query and answer

VARIABLES inbounds, clients, rules, outbounds,
          nextId,      \* the data base never reuses a row id
          deployed,    \* inbounds of a deployment that can be rolled back
          running,     \* the rows the engines were last given
          edit,        \* << >>, or the one edit that has read its row
          cache,       \* cache key -> << >> or <<entry>>
          fills,       \* requests that have queried and not yet answered
          invalidations, \* handlers that committed and have not invalidated
          outcome,     \* of the last deployment
          now,
          budget       \* administrator's steps left on nodes and on rules (bound)

------------------------------------------------------------------------------
(* What the data base and the decoders hand over: rows with their columns, *)
(* names that are sequences, times that are whole numbers.                 *)

InboundColumns == {"id", "tag", "protocol", "port", "enable", "addr", "v4", "v6", "settings", "stream"}
ClientColumns == {"id", "inbound", "email", "uuid", "enable", "expiry", "used"}

IsSeq(s) == s \in Seq(ToSet(s))
IsName(s) == IsSeq(s) /\ s # << >>

IsAccount(u) == u.expiry \in Int /\ IsSeq(u.email)

IsSettings(set) ==
  /\ DOMAIN set = {"json", "method", "psk", "flow", "obfs", "clients"}
  /\ IsSeq(set.clients) /\ \A i \in DOMAIN set.clients : IsAccount(set.clients[i])

IsForm(f) == InboundColumns \ {"id"} \subseteq DOMAIN f /\ IsSettings(f.settings) /\ IsSeq(f.tag)

IsStat(t) == t.expiry \in Int

IsInboundRow(in) == DOMAIN in = InboundColumns /\ IsForm(in)

\* A per-family address is a literal of its family, or absent.
HasLiterals(in) == (in.v4 = "" \/ FamilyOf(in.v4) = "ipv4") /\ (in.v6 = "" \/ FamilyOf(in.v6) = "ipv6")

IsClientRow(c) == DOMAIN c = ClientColumns /\ IsName(c.email) /\ c.uuid # "" /\ c.expiry \in Int

\* Rows with ids below next.
IsInbound(in, next) == IsInboundRow(in) /\ in.id \in 1..(next - 1)
IsClient(c, next) == IsClientRow(c) /\ c.id \in 1..(next - 1) /\ c.inbound \in 1..(next - 1)

\* Ids are primary keys; so are the tags of the inbounds and, on one inbound,
\* the emails of its clients.
IsTable(rows) ==
  /\ IsFiniteSet(rows) /\ \A r \in rows : r.id \in Int
  /\ \A r, q \in rows : r.id = q.id => r = q

AreInbounds(rows, next) ==
  /\ IsTable(rows) /\ \A in \in rows : IsInbound(in, next)
  /\ \A in, other \in rows : in.tag = other.tag => in = other

AreClients(rows, next) ==
  /\ IsTable(rows) /\ \A c \in rows : IsClient(c, next)
  /\ \A c, d \in rows : c.inbound = d.inbound /\ c.email = d.email => c = d

\* A rule asks for something.
AreRules(rs) == IsSeq(rs) /\ \A i \in DOMAIN rs : rs[i].domain \cup rs[i].ip \cup rs[i].port # {}

ASSUME NodeTableAssumption ==
  /\ \A t \in Tables : AreInbounds(t.inbounds, 10) /\ AreClients(t.clients, 10) /\ AreRules(t.rules)
  /\ \A t \in Tables : \A in \in t.inbounds : HasLiterals(in)
  /\ \A f \in InboundForms : IsForm(f)
  /\ \A item \in ImportItems : /\ IsForm(item.columns) /\ IsSeq(item.stats)
                               /\ \A i \in DOMAIN item.stats : IsStat(item.stats[i])
  /\ \A email \in Emails : IsName(email)
  /\ "" \notin Uuids \cup {NewUuid} /\ Expiries \subseteq Int
  /\ Presets \subseteq {"stable", "speed", "combo", "weaknet"} /\ IsSeq(PortFallbacks)
  /\ TTL \in Nat /\ MaxTime \in Nat /\ MaxFills \in Nat

------------------------------------------------------------------------------
vars == <<inbounds, clients, rules, outbounds, nextId, deployed, running, edit, cache, fills, invalidations,
          outcome, now, budget>>
tables == <<inbounds, clients, rules, outbounds>>
routing == <<rules, outbounds>>

Key(req) == <<req.uuid, req.format, getServerAddr(req.host, ToSeqById(inbounds))>>

\* The addresses a row may have been given.
StoredAddresses ==
  {f.addr : f \in InboundForms \cup UNION {t.inbounds : t \in Tables}} \cup {setServerAddress(Domain)}

Keys == {<<req.uuid, req.format, a>> : req \in SubRequests,
           a \in {req.host : req \in SubRequests} \cup {normalizeServerAddress(a) : a \in StoredAddresses}}

\* A configuration of both engines, or (dual = FALSE) of sing-box alone.
NothingYet == [inbounds |-> {}, clients |-> {}, rules |-> << >>, outbounds |-> {}, dual |-> TRUE]
Snapshot(dual) == [inbounds |-> inbounds, clients |-> clients, rules |-> rules, outbounds |-> outbounds, dual |-> dual]

Init ==
  \E t \in Tables :
    /\ inbounds = t.inbounds /\ clients = t.clients /\ rules = t.rules /\ outbounds = {} /\ budget = t.budget
    /\ nextId = 10 /\ deployed = {} /\ running = NothingYet
    /\ edit = << >> /\ cache = [k \in Keys |-> << >>] /\ fills = {} /\ invalidations = 0
    /\ outcome = [preset |-> "none", result |-> "none"] /\ now = 1

------------------------------------------------------------------------------
(* Bookkeeping of a commit.  A commit overtakes the requests that have     *)
(* already queried.                                                        *)

SpendOn(what) == budget[what] > 0 /\ budget' = [budget EXCEPT ![what] = @ - 1]
Spend == SpendOn("nodes")

Overtaken == {[f EXCEPT !.overtaken = TRUE] : f \in fills}

\* The handler still has to call InvalidateSubCache.
CommitThenInvalidate ==
  /\ invalidations' = invalidations + 1 /\ fills' = Overtaken /\ UNCHANGED cache

\* Deployments do not call it: what is cached may be out of date.
CommitOnly ==
  /\ fills' = Overtaken /\ UNCHANGED invalidations
  /\ cache' = [k \in Keys |-> [i \in DOMAIN cache[k] |-> [cache[k][i] EXCEPT !.overtaken = TRUE]]]

InvalidateSubCache ==
  /\ invalidations > 0 /\ invalidations' = invalidations - 1
  /\ cache' = [k \in Keys |-> << >>]
  /\ UNCHANGED <<tables, nextId, deployed, running, edit, fills, outcome, now, budget>>

------------------------------------------------------------------------------
(* Writing rows                                                            *)

\* enable has the column default TRUE, and an INSERT leaves a FALSE to it.
Inserted(row) == [row EXCEPT !.enable = TRUE]

Row(id, columns) ==
  [id |-> id, tag |-> columns.tag, protocol |-> columns.protocol, port |-> columns.port,
   enable |-> columns.enable, addr |-> columns.addr, v4 |-> columns.v4, v6 |-> columns.v6,
   settings |-> columns.settings, stream |-> columns.stream]

inboundHasDerivedPublicHost(st) == st.json = "ok" /\ (st.tls.sni # "" \/ st.opts.host # "")

validateTrojanTLS(st) == st.json = "ok" /\ st.security \in {"tls", "reality"}

validateInboundLiteralIP(value, family) == value = "" \/ FamilyOf(value) = family

validateInbound(in) ==
  /\ \A other \in inbounds : other.port = in.port => other.id = in.id
  /\ in.addr # "" \/ in.v4 # "" \/ in.v6 # "" \/ inboundHasDerivedPublicHost(in.stream)
  /\ in.protocol = "trojan" => validateTrojanTLS(in.stream)
  /\ validateInboundLiteralIP(in.v4, "ipv4") /\ validateInboundLiteralIP(in.v6, "ipv6")

TagFree(tag, id) == \A other \in inbounds : other.tag = tag => other.id = id

(* Accounts inside settings.clients become client rows                     *)

importedClientCredential(protocol, u) ==
  LET prefersPassword == protocol \in {"trojan", "hysteria2", "shadowsocks"}
  IN  FirstNonEmpty(<<IF prefersPassword THEN u.password ELSE "", u.id, u.password>>)

deriveImportedClientEmail(cred) == <<"imported", cred>>

\* Where the statistics of an account stand, by its credential, else its email.
StatsOf(stats, entry) ==
  LET byUuid  == {i \in DOMAIN stats : stats[i].uuid = entry.uuid}
      byEmail == {i \in DOMAIN stats : stats[i].email = entry.email}
  IN  IF byUuid # {} THEN byUuid ELSE byEmail

\* Mutant: the counters and the expiry of the statistics are dropped.
MutantStatsForgetUsage(entry, stats) ==
  IF StatsOf(stats, entry) = {} THEN entry
  ELSE [entry EXCEPT !.enable = stats[Max(StatsOf(stats, entry))].enable]

\* The last of several statistics of one user is the one the map keeps.
mergeImportedClientStat(entry, stats) ==
  IF StatsOf(stats, entry) = {} THEN entry
  ELSE LET t == stats[Max(StatsOf(stats, entry))]
       IN  [entry EXCEPT !.used = t.used, !.enable = t.enable,
                         !.expiry = IF t.expiry > 0 \/ @ = 0 THEN t.expiry ELSE @]

importedClient(protocol, u, stats) ==
  LET cred == importedClientCredential(protocol, u)
  IN  mergeImportedClientStat(
        [uuid |-> cred, email |-> IF u.email = << >> THEN deriveImportedClientEmail(cred) ELSE u.email,
         enable |-> u.enable, expiry |-> u.expiry, used |-> 0], stats)

ensureUniqueClientEmail(rows, inbound, preferred, currentId) ==
  LET taken == {c.email : c \in {d \in rows : d.inbound = inbound /\ d.id # currentId}}
      tried == [k \in 1..(Cardinality(taken) + 1) |-> IF k = 1 THEN preferred ELSE Append(preferred, k)]
  IN  tried[Min({k \in DOMAIN tried : tried[k] \notin taken})]

\* The client row an imported account is written to: the one with its
\* credential, else the one with its email, else a new one.
Existing(rows, inbound, entry) ==
  LET mine    == {c \in rows : c.inbound = inbound}
      byUuid  == {c \in mine : c.uuid = entry.uuid}
      byEmail == {c \in mine : c.email = entry.email}
  IN  ToSeqById(IF byUuid # {} THEN byUuid ELSE byEmail)

\* The rows and the next free id after one account was taken over.
TakeOver(acc, inbound, entry) ==
  LET found == Existing(acc.rows, inbound, entry)
      id    == IF found = << >> THEN acc.free ELSE Head(found).id
      row   == [id |-> id, inbound |-> inbound, uuid |-> entry.uuid, enable |-> entry.enable,
                email |-> ensureUniqueClientEmail(acc.rows, inbound, entry.email, id),
                expiry |-> entry.expiry, used |-> entry.used]
  IN  IF found = << >> THEN [rows |-> acc.rows \cup {Inserted(row)}, free |-> acc.free + 1]
      ELSE [rows |-> (acc.rows \ {Head(found)}) \cup {row}, free |-> acc.free]

\* An account without a credential is passed over.
TakeAccount(acc, in, stats, u) ==
  IF importedClientCredential(in.protocol, u) = "" THEN acc
  ELSE TakeOver(acc, in.id, importedClient(in.protocol, u, stats))

AccountsIn(in) == IF in.settings.json = "empty" THEN << >> ELSE in.settings.clients

\* The same after all that the settings column carries.
syncImportedInboundClients(rows, free, in, stats) ==
  LET taken[k \in 0..Len(AccountsIn(in))] ==
        IF k = 0 THEN [rows |-> rows, free |-> free]
        ELSE TakeAccount(taken[k - 1], in, stats, AccountsIn(in)[k])
  IN  taken[Len(AccountsIn(in))]

------------------------------------------------------------------------------
(* The inbound handlers                                                    *)

\* An inbound and the accounts its settings carry, in one transaction.  A bad
\* settings column fails the extraction and with it the transaction.
WriteInbound(in, free, stats) ==
  LET synced == syncImportedInboundClients(clients, free, in, stats)
  IN  /\ TagFree(in.tag, in.id) /\ in.settings.json # "bad"
      /\ inbounds' = {other \in inbounds : other.id # in.id} \cup {in}
      /\ clients' = synced.rows /\ nextId' = synced.free
      /\ CommitThenInvalidate

CreateInbound(form) ==
  /\ Spend /\ validateInbound(Row(0, form))
  /\ WriteInbound(Inserted(Row(nextId, form)), nextId + 1, << >>)
  /\ UNCHANGED <<routing, deployed, running, edit, outcome, now>>

BeginEditInbound(in, form) ==
  /\ Spend /\ edit = << >> /\ validateInbound(Row(in.id, form))
  /\ edit' = <<[kind |-> "inbound", row |-> Row(in.id, form)]>>
  /\ UNCHANGED <<tables, nextId, deployed, running, cache, fills, invalidations, outcome, now>>

\* Save updates every column; of a row that is gone it inserts a new one.
SaveInbound ==
  /\ edit # << >> /\ Head(edit).kind = "inbound" /\ edit' = << >>
  /\ LET row == Head(edit).row
         gone == \A in \in inbounds : in.id # row.id
     IN  \/ WriteInbound(IF gone THEN Inserted(row) ELSE row, nextId, << >>)
         \/ /\ ~TagFree(row.tag, row.id) \/ row.settings.json = "bad"
            /\ UNCHANGED <<inbounds, clients, nextId, cache, fills, invalidations>>
  /\ UNCHANGED <<routing, deployed, running, outcome, now, budget>>

DeleteInbound(in) ==
  /\ Spend
  /\ inbounds' = inbounds \ {in} /\ clients' = {c \in clients : c.inbound # in.id}
  /\ CommitThenInvalidate
  /\ UNCHANGED <<routing, nextId, deployed, running, edit, outcome, now>>

ensureUniqueInboundTag(preferred) ==
  LET taken == {in.tag : in \in inbounds}
      tried == [k \in 1..(Cardinality(taken) + 1) |-> IF k = 1 THEN preferred ELSE preferred \o <<"-", k>>]
  IN  tried[Min({k \in DOMAIN tried : tried[k] \notin taken})]

\* Nothing of validateInbound is asked of an imported row: it has no server
\* address of its own, and its port may be another inbound's.
importThreeXUIInbound(item) ==
  Row(nextId, [item.columns EXCEPT !.tag = ensureUniqueInboundTag(@), !.addr = "", !.v4 = "", !.v6 = ""])

Import3xui(item) ==
  /\ Spend /\ item.columns.settings.json # "bad" /\ item.columns.stream.json # "bad"
  /\ WriteInbound(Inserted(importThreeXUIInbound(item)), nextId + 1, item.stats)
  /\ UNCHANGED <<routing, deployed, running, edit, outcome, now>>

buildThreeXUISettingsClients(in, cs) ==
  LET Account(c) == [id       |-> IF in.protocol \in {"trojan", "hysteria2", "shadowsocks"} THEN "" ELSE c.uuid,
                     password |-> IF in.protocol \in {"trojan", "hysteria2", "shadowsocks"} THEN c.uuid ELSE "",
                     email |-> c.email, enable |-> c.enable, expiry |-> c.expiry]
      rows == ToSeqById(cs)
  IN  [i \in DOMAIN rows |-> Account(rows[i])]

buildThreeXUIClientStats(cs) ==
  LET rows == ToSeqById(cs)
  IN  [i \in DOMAIN rows |-> [email |-> rows[i].email, uuid |-> rows[i].uuid, enable |-> rows[i].enable,
                              expiry |-> rows[i].expiry, used |-> rows[i].used]]

buildThreeXUIInboundExport(in) ==
  LET mine == {c \in clients : c.inbound = in.id}
  IN  [columns |-> [in EXCEPT !.settings.json = "ok",
                              !.settings.clients = buildThreeXUISettingsClients(in, mine)],
       stats |-> buildThreeXUIClientStats(mine)]

------------------------------------------------------------------------------
(* The client handlers                                                     *)

EmailFree(inbound, email, id) ==
  \A c \in clients : c.inbound = inbound /\ c.email = email => c.id = id

CreateClient(in, email, uuid, expiry) ==
  /\ Spend /\ EmailFree(in.id, email, 0)
  /\ clients' = clients \cup {[id |-> nextId, inbound |-> in.id, email |-> email, uuid |-> uuid,
                               enable |-> TRUE, expiry |-> expiry, used |-> 0]}
  /\ nextId' = nextId + 1 /\ CommitThenInvalidate
  /\ UNCHANGED <<inbounds, routing, deployed, running, edit, outcome, now>>

\* The fields an edit may change; counters are among the columns it saves.
BeginEditClient(c, email, enable, expiry) ==
  /\ Spend /\ edit = << >> /\ \E in \in inbounds : in.id = c.inbound
  /\ edit' = <<[kind |-> "client", row |-> [c EXCEPT !.email = email, !.enable = enable,
                                                          !.expiry = expiry]]>>
  /\ UNCHANGED <<tables, nextId, deployed, running, cache, fills, invalidations, outcome, now>>

SaveClient ==
  /\ edit # << >> /\ Head(edit).kind = "client" /\ edit' = << >>
  /\ LET row == Head(edit).row
         gone == \A c \in clients : c.id # row.id
     IN  \/ /\ EmailFree(row.inbound, row.email, row.id)
            /\ clients' = {c \in clients : c.id # row.id} \cup {IF gone THEN Inserted(row) ELSE row}
            /\ CommitThenInvalidate
         \/ ~EmailFree(row.inbound, row.email, row.id) /\ UNCHANGED <<clients, cache, fills, invalidations>>
  /\ UNCHANGED <<inbounds, routing, nextId, deployed, running, outcome, now, budget>>

\* Mutant: deleting clients leaves the cached subscriptions.
MutantChangeWithoutInvalidate(chosen, op) ==
  /\ Spend /\ op = "delete" /\ clients' = clients \ chosen
  /\ UNCHANGED <<inbounds, routing, nextId, deployed, running, edit, cache, fills, invalidations, outcome, now>>

\* DELETE of one client, and the four bulk operations on some.
ChangeClients(chosen, op) ==
  /\ Spend
  /\ clients' = (clients \ chosen) \cup
       CASE op = "delete"  -> {}
         [] op = "enable"  -> {[c EXCEPT !.enable = TRUE] : c \in chosen}
         [] op = "disable" -> {[c EXCEPT !.enable = FALSE] : c \in chosen}
         [] op = "reset_traffic" -> {[c EXCEPT !.used = 0] : c \in chosen}
  /\ CommitThenInvalidate
  /\ UNCHANGED <<inbounds, routing, nextId, deployed, running, edit, outcome, now>>

------------------------------------------------------------------------------
(* Routing rules                                                           *)

findDuplicateRoutingRule(rule) ==
  \E i \in DOMAIN rules : RoutingRuleSignature(rules[i]) = RoutingRuleSignature(rule)

validateRoutingRule(rule) == rule.domain \cup rule.ip \cup rule.port # {}

CreateRule(rule) ==
  /\ SpendOn("rules") /\ validateRoutingRule(rule) /\ ~findDuplicateRoutingRule(rule)
  /\ rules' = Append(rules, Inserted(rule))
  /\ UNCHANGED <<inbounds, clients, outbounds, nextId, deployed, running, edit, cache, fills, invalidations, outcome, now>>

DeleteRule(i) ==
  /\ SpendOn("rules") /\ rules' = RemoveAt(rules, i)
  /\ UNCHANGED <<inbounds, clients, outbounds, nextId, deployed, running, edit, cache, fills, invalidations, outcome, now>>

\* No rule is asked whether it sends traffic to the outbound.
ChangeOutbounds(changed) ==
  /\ SpendOn("rules") /\ outbounds' = changed
  /\ UNCHANGED <<inbounds, clients, rules, nextId, deployed, running, edit, cache, fills, invalidations, outcome, now>>

CreateOutbound(ob) ==
  (\A other \in outbounds : other.tag # ob.tag) /\ ChangeOutbounds(outbounds \cup {Inserted(ob)})

UpdateOutbound(ob, enable) == ChangeOutbounds((outbounds \ {ob}) \cup {[ob EXCEPT !.enable = enable]})

DeleteOutbound(ob) == ChangeOutbounds(outbounds \ {ob})

------------------------------------------------------------------------------
(* What the engines are given                                              *)

Configured(t) ==
  [xray    |-> IF t.dual THEN XrayConfig(t.inbounds, t.clients, t.rules)
                         ELSE [ok |-> TRUE, rules |-> << >>, endpoints |-> {}],
   singbox |-> SingboxConfig(t.inbounds, t.clients, t.rules, t.outbounds, t.dual, TRUE)]

Builds(t) ==
  Configured(t).xray.ok /\ LET file == Configured(t).singbox IN file.ok /\ Closed(file)

------------------------------------------------------------------------------
(* Smart Deploy.  The rows of a plan are created one transaction each and  *)
(* removed together when one is refused (DeployOrchestrator has the steps  *)
(* in between); a refused plan leaves nothing.                             *)

Busy == OccupiedPorts \cup {in.port : in \in {i \in inbounds : i.enable}}

Plan(preset) == Expand(preset, Busy, Domain, NewUuid)

\* dbInboundDeployer.Create.
CreatePlanned(acc, planned) ==
  LET row == Row(acc.free, PresetColumns(planned, Domain))
      users == presetClients(planned.settings).clients
      new == {[id |-> acc.free + i, inbound |-> row.id, email |-> users[i].email,
               uuid |-> users[i].id, enable |-> TRUE, expiry |-> 0, used |-> 0] : i \in DOMAIN users}
  IN  IF \E in \in acc.rows : in.enable /\ in.port = row.port THEN [acc EXCEPT !.result = "port_taken"]
      ELSE IF \E in \in acc.rows : in.tag = row.tag THEN [acc EXCEPT !.result = "tag_taken"]
      ELSE [acc EXCEPT !.rows = @ \cup {row}, !.users = @ \cup new, !.free = @ + 1 + Len(users)]

\* Row after row, up to the first that is refused.
DeployRows(plan) ==
  LET made[k \in 0..Len(plan)] ==
        IF k = 0 THEN [rows |-> inbounds, users |-> clients, free |-> nextId, result |-> "deployed"]
        ELSE IF made[k - 1].result # "deployed" THEN made[k - 1]
        ELSE CreatePlanned(made[k - 1], plan[k])
  IN  made[Len(plan)]

Deploy(preset) ==
  LET made == DeployRows(Plan(preset))
      next == [inbounds |-> made.rows, clients |-> made.users, rules |-> rules, outbounds |-> outbounds,
               dual |-> running.dual]
      result == IF made.result = "deployed" /\ ~Builds(next) THEN "engine_refused" ELSE made.result
  IN  /\ Spend /\ deployed = {}
      /\ outcome' = [preset |-> preset, result |-> result]
      /\ IF result = "deployed"
         THEN /\ inbounds' = made.rows /\ clients' = made.users /\ nextId' = made.free
              /\ deployed' = {in.id : in \in made.rows \ inbounds} /\ running' = next
              /\ CommitOnly
         ELSE UNCHANGED <<inbounds, clients, nextId, deployed, running, cache, fills, invalidations>>
      /\ UNCHANGED <<routing, edit, now>>

RollbackDeployment ==
  /\ Spend /\ deployed # {} /\ deployed' = {}
  /\ inbounds' = {in \in inbounds : in.id \notin deployed}
  /\ clients' = {c \in clients : c.inbound \notin deployed}
  /\ running' = LET rest == [inbounds |-> inbounds', clients |-> clients', rules |-> rules,
                             outbounds |-> outbounds, dual |-> running.dual]
                IN  IF Builds(rest) THEN rest ELSE running
  /\ CommitOnly
  /\ UNCHANGED <<routing, nextId, edit, outcome, now>>

------------------------------------------------------------------------------
(* The engines                                                             *)

\* A configuration that cannot be built leaves the engines as they are.
Apply(dual) ==
  /\ running # Snapshot(dual) /\ Builds(Snapshot(dual)) /\ running' = Snapshot(dual)
  /\ UNCHANGED <<tables, nextId, deployed, edit, cache, fills, invalidations, outcome, now, budget>>

------------------------------------------------------------------------------
(* Subscriptions                                                           *)

Min0(times) == IF times = {} THEN 0 ELSE Min(times)

\* The enabled, unexpired client rows of a uuid on enabled inbounds, in table
\* order, each with its inbound.
ActiveRows(uuid, at) ==
  LET active == {c \in clients : /\ c.uuid = uuid /\ c.enable
                                 /\ ~(c.expiry > 0 /\ c.expiry <= at)
                                 /\ \E in \in inbounds : in.id = c.inbound /\ in.enable}
      rows == ToSeqById(active)
  IN  [i \in DOMAIN rows |->
         [in |-> CHOOSE in \in inbounds : in.id = rows[i].inbound, expiry |-> rows[i].expiry]]

Answer(rows) == [i \in DOMAIN rows |-> rows[i].in]

subCacheFresh(e) == now - e.storedAt <= TTL /\ ~(e.expiresAt # 0 /\ now >= e.expiresAt)

subCacheGet(k) == IF cache[k] # << >> /\ subCacheFresh(Head(cache[k])) THEN cache[k] ELSE << >>

EarliestExpiry(rows) == Min0({rows[i].expiry : i \in DOMAIN rows} \ {0})

\* A miss drops a stale entry and queries; no rows is a 404 nobody caches.
\* A hit changes nothing.
SubscriptionMiss(req) ==
  LET k == Key(req)
      rows == ActiveRows(req.uuid, now)
  IN  /\ subCacheGet(k) = << >> /\ Cardinality(fills) < MaxFills
      /\ cache' = [cache EXCEPT ![k] = << >>]
      /\ fills' = IF rows = << >> THEN fills
                  ELSE fills \cup {[key |-> k, uuid |-> req.uuid, rows |-> rows, at |-> now, overtaken |-> FALSE]}
      /\ UNCHANGED <<tables, nextId, deployed, running, edit, invalidations, outcome, now, budget>>

subCachePut(f) ==
  /\ cache' = [cache EXCEPT ![f.key] = <<[rows |-> f.rows, at |-> f.at, storedAt |-> now, uuid |-> f.uuid,
                                          expiresAt |-> EarliestExpiry(f.rows), overtaken |-> f.overtaken]>>]
  /\ fills' = fills \ {f}
  /\ UNCHANGED <<tables, nextId, deployed, running, edit, invalidations, outcome, now, budget>>

Tick ==
  /\ now < MaxTime /\ now' = now + 1
  /\ UNCHANGED <<tables, nextId, deployed, running, edit, cache, fills, invalidations, outcome, budget>>

------------------------------------------------------------------------------
Next ==
  \/ \E form \in InboundForms : CreateInbound(form)
  \/ \E in \in inbounds, form \in InboundForms : BeginEditInbound(in, form)
  \/ SaveInbound
  \/ \E in \in inbounds : DeleteInbound(in)
  \/ \E item \in ImportItems : Import3xui(item)
  \/ \E in \in inbounds : Import3xui(buildThreeXUIInboundExport(in))
  \/ \E in \in inbounds, email \in Emails, uuid \in Uuids, expiry \in Expiries :
       CreateClient(in, email, uuid, expiry)
  \/ \E c \in clients, email \in Emails, enable \in BOOLEAN, expiry \in Expiries :
       BeginEditClient(c, email, enable, expiry)
  \/ SaveClient
  \/ \E chosen \in SUBSET clients \ {{}}, op \in {"delete", "enable", "disable", "reset_traffic"} :
       ChangeClients(chosen, op)
  \/ \E rule \in Rules : CreateRule(rule)
  \/ \E i \in DOMAIN rules : DeleteRule(i)
  \/ \E ob \in Outbounds : CreateOutbound(ob)
  \/ \E ob \in outbounds, enable \in BOOLEAN : UpdateOutbound(ob, enable)
  \/ \E ob \in outbounds : DeleteOutbound(ob)
  \/ \E preset \in Presets : Deploy(preset)
  \/ RollbackDeployment
  \/ InvalidateSubCache
  \/ \E dual \in BOOLEAN : Apply(dual)
  \/ \E req \in SubRequests : SubscriptionMiss(req)
  \/ \E f \in fills : subCachePut(f)
  \/ Tick

Spec == Init /\ [][Next]_vars

------------------------------------------------------------------------------
(* Properties                                                              *)

Hosts == {req.host : req \in SubRequests}
Holders == {c.uuid : c \in clients}
Endpoints == Configured(running).xray.endpoints \cup Configured(running).singbox.endpoints

\* An endpoint that lets in whoever uses the node: same place, same
\* credential, same transport, same camouflage.
Serves(e, n) ==
  /\ e.proto = n.proto /\ e.port = n.port /\ \E a \in e.accounts : a.cred = n.cred
  /\ e.network = n.network /\ e.opts = n.opts /\ e.security = n.security
  /\ e.sni = n.sni /\ e.key = n.key /\ e.flow = n.flow /\ e.obfs = n.obfs
  /\ n.alpn \in {"", e.alpn}

\* The rows whose columns all four translations read alike.  A stream has the
\* blocks of its kind of security and the options of its transport and no
\* others: only sing-box reads a native tls block, only links read "wss", and
\* only sing-box turns what it does not know into plain TCP.  Shadowsocks has
\* no transport of its own, and accounts of an old cipher are not those in
\* the template.
UsualStream(st) ==
  /\ st.network \in {"", "tcp", "udp", "ws", "grpc", "h2", "httpupgrade"}
  /\ st.network \in {"", "tcp"} => st.opts = NoOpts
  /\ st.security \in {"", "none", "tls", "reality"}
  /\ st.security # "tls" => st.tls.sni = "" /\ st.tls.alpn = ""
  /\ st.security # "reality" => ~st.reality.set
  /\ st.security = "tls" \/ ~st.native.set => st.native.sni = "" /\ st.native.alpn = ""

ReadAlike(in) ==
  /\ in.settings.json # "ok" => in.settings.flow = "" /\ in.settings.obfs = ""
  /\ in.stream.json = "ok" =>
       /\ UsualStream(in.stream)
       /\ in.protocol \in XraySupported => ~in.stream.native.set /\ in.stream.network # "udp"
       /\ in.protocol \in Quic => in.stream.security # "reality"
       /\ in.protocol = "shadowsocks" => in.stream.network \in {"", "tcp"} /\ in.stream.security \in {"", "none"}
  /\ in.protocol = "shadowsocks" /\ in.settings.method # "2022" => in.settings.clients = << >>

\* Whatever link a subscription hands out, an engine that runs the current
\* rows serves it: the link generator, the Xray generator, the sing-box
\* generator and the preset writer agree on every field (sub/generator.go
\* ShareLink against buildXrayInbound and buildSingboxInbound).
LinksAreServed ==
  running \in {Snapshot(TRUE), Snapshot(FALSE)} =>
    \A uuid \in Holders, host \in Hosts :
      LET rows == Answer(ActiveRows(uuid, now))
      IN  \A i \in DOMAIN rows : ReadAlike(rows[i]) =>
            \A n \in ShareLink(rows[i], uuid, resolveInboundServerAddress(rows[i], host)) :
              \E e \in Endpoints : Serves(e, n)

\* The rows that a profile means to write as a link does: it writes VMess over
\* Reality in the clear, a Shadowsocks node without a password has no link, and
\* Trojan over an unknown kind of security is TLS to a profile.
Comparable(in) ==
  LET security == parseStream(in.stream).security
  IN  /\ ~(in.protocol = "vmess" /\ security = "reality")
      /\ ~(in.protocol = "shadowsocks" /\ parseSSSettings(in.settings).password = "")
      /\ in.protocol = "trojan" => security \in {"none", "tls", "reality"}

\* A Clash profile and the share links of one user describe the same nodes
\* (buildClashConfigNodes against ShareLink), row by row.
ClashAgreesWithLinks ==
  \A uuid \in Holders, host \in Hosts :
    LET rows == Answer(ActiveRows(uuid, now))
    IN  \A i \in DOMAIN rows : Comparable(rows[i]) =>
          {p.dial : p \in {q \in buildClashConfig(rows, uuid, host).proxies : q.pos = i}}
            = ShareLink(rows[i], uuid, resolveInboundServerAddress(rows[i], host))

\* A dual-stack profile is one a client can load and route by: no two proxies
\* have one name, every group member is a proxy that was written, every
\* address has the family its proxy is named after, IPv6 comes first where
\* the group says so and no supported row that has an address is lost
\* (dualStackClashNodes, writeDualStackGroups).
WellFormed(rows, host, nodes, profile) ==
  LET written == {p.name : p \in profile.proxies}
      FamilyOfName(name) == (CHOOSE p \in profile.proxies : p.name = name).family
      first == profile.groups.first
  IN  /\ Cardinality(written) = Len(nodes)
      /\ ToSet(first) = written /\ ToSet(profile.groups.auto) = written
      /\ \A p \in profile.proxies : FamilyOf(p.dial.server) \in {p.family, "name"}
      /\ \A i, j \in DOMAIN first :
            FamilyOfName(first[i]) = "ipv4" /\ FamilyOfName(first[j]) = "ipv6" => j < i
      /\ \A i \in DOMAIN rows :
            rows[i].protocol \in ClashSupported /\ resolveInboundServerAddress(rows[i], host) # ""
              => \E k \in DOMAIN nodes : nodes[k].in = rows[i]

DualStackIsWellFormed ==
  \A uuid \in Holders, host \in Hosts :
    LET rows == Answer(ActiveRows(uuid, now))
    IN  WellFormed(rows, host, dualStackClashNodes(rows, host), buildClashDualStackConfig(rows, uuid, host))

\* What a subscription hands out is served, alike and loadable in every format.
SubscriptionsAreServed == LinksAreServed /\ ClashAgreesWithLinks /\ DualStackIsWellFormed

\* Both engines send a destination the same way (buildXrayRoutingRule,
\* buildSingboxRoutingRule), as long as the enabled rules do not ask for a
\* domain and an address at once, every port text is a number or a range, and
\* no rule uses a custom outbound, which Xray is never given.
Destinations == SUBSET UNION {r.domain \cup r.ip \cup r.port : r \in Rules}

EnginesRouteAlike ==
  (\A i \in DOMAIN EnabledRules(rules) :
     LET r == EnabledRules(rules)[i]
     IN  (r.domain = {} \/ r.ip = {}) /\ r.port = Numeric(r.port) /\ r.outbound \in {"direct", "block"})
  => \A d \in Destinations :
       LET s == SingboxRoute(SingboxRules(rules), d)
       IN  XrayRoute(XrayRules(rules), d) = (IF s = "reject" THEN "block" ELSE s)

\* As long as every enabled rule's outbound is enabled too, sing-box is given a
\* file that defines every name it uses, so one rule does not stop every
\* node: lists are declared, "block" is an action and not the outbound that
\* sing-box no longer has (GenerateConfig, buildSingboxRuleSets).
RulesNeverBreakTheFile ==
  (\A i \in DOMAIN EnabledRules(rules) :
     EnabledRules(rules)[i].outbound \in
       {"direct", "block"} \cup {ob.tag : ob \in {o \in outbounds : o.enable}})
  => Closed(SingboxConfig({}, {}, rules, outbounds, TRUE, TRUE))

\* A table of rules means the same to both engines and stops neither.
RulesWorkAlike == EnginesRouteAlike /\ RulesNeverBreakTheFile

\* Exporting an inbound to 3x-ui and importing it again yields the same
\* accounts with the same counters and expiry (buildThreeXUIInboundExport,
\* importThreeXUIInbound), enabled ones at least: a disabled account comes
\* back enabled.
RoundTripKeepsAccounts ==
  \A in \in inbounds : in.settings.json # "bad" =>
    LET item == buildThreeXUIInboundExport(in)
        copy == Inserted(importThreeXUIInbound(item))
        rows == syncImportedInboundClients({}, nextId + 1, copy, item.stats).rows
        Account(c) == [email |-> c.email, uuid |-> c.uuid, expiry |-> c.expiry, used |-> c.used]
        mine == {c \in clients : c.inbound = in.id}
    IN  (\A c, d \in mine : c.uuid = d.uuid => c = d) =>
          {Account(c) : c \in rows} = {Account(c) : c \in mine}

PlannedTags == UNION {{Plan(preset)[i].tag : i \in DOMAIN Plan(preset)} : preset \in Presets}

\* On a deployed inbound (an edit here gives it another tag and settings) an
\* engine accepts the enabled client rows and nobody else, not even when
\* there is none left: the preset's inline credentials do not come back
\* (presetClients).
DeployedAcceptsOnlyRows ==
  \A in \in running.inbounds : in.id \in deployed /\ in.tag \in PlannedTags =>
    \A e \in Endpoints : e.tag = in.tag =>
      {a.cred : a \in e.accounts} \subseteq
        {<<c.uuid>> : c \in {d \in running.clients : d.inbound = in.id /\ d.enable}}

FreeFor(n) ==
  LET free == ({443} \cup ToSet(PortFallbacks)) \ Busy IN Cardinality(free) >= n

\* A plan is refused for its ports only when the host has not enough free
\* ones: two inbounds of one plan never get the same port (expandWeakNetwork,
\* pickPortExcluding, dbInboundDeployer.Create).  Combo is the exception:
\* expandCombo joins two plans that both prefer 443.
PlanFits(preset) ==
  FreeFor(Len(Plan(preset))) => DeployRows(Plan(preset)).result # "port_taken"

PresetsFit == \A preset \in Presets \ {"combo"} : PlanFits(preset)

\* A subscription served from the cache holds no node of an account that has
\* expired since, and is no older than its time to live (subCacheGet).
CacheEndsWithEntitlement ==
  \A k \in Keys : subCacheGet(k) # << >> =>
    LET e == Head(subCacheGet(k))
    IN  /\ now - e.storedAt <= TTL
        /\ \A i \in DOMAIN e.rows : e.rows[i].expiry > 0 => now < e.rows[i].expiry

\* When no handler is between its commit and its invalidation, a cached
\* answer is what the data base would have said when it was asked, unless a
\* commit overtook the request that computed it, or a deployment changed
\* the rows (every mutating handler calls InvalidateSubCache).
CacheIsCurrent ==
  invalidations = 0 => \A k \in Keys : \A i \in DOMAIN cache[k] :
    LET e == cache[k][i] IN ~e.overtaken => e.rows = ActiveRows(e.uuid, e.at)

\* A cached subscription is right when it is stored and gone when it is not.
CachedAnswersHold == CacheEndsWithEntitlement /\ CacheIsCurrent
==============================================================================
