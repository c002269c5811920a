---------------------------- MODULE EngineConfigs ----------------------------
(***************************************************************************)
(* The configurations the panel writes for its two engines from the same   *)
(* rows (proxy/xray.go, proxy/singbox.go, proxy/routing_rules.go), and the *)
(* rows Smart Deploy plans (deploy/preset.go, deploy/clients.go).          *)
(*                                                                         *)
(* An endpoint is one configured inbound of an engine: where it listens,   *)
(* which accounts it accepts and what it speaks.  An account is a          *)
(* credential and the name under which the engine reports its traffic.     *)
(***************************************************************************)
EXTENDS Nodes

CONSTANTS PortFallbacks,   \* ports a preset walks through, in order
          PublicIP         \* the probed public address of the host

ToSeqById(S) ==
  [i \in 1..Cardinality(S) |-> CHOOSE r \in S : Cardinality({q \in S : q.id < r.id}) = i - 1]

\* The name an engine knows a client by.
ClientIdentity(c) == <<"zc", c.id>>

\* An account an inbound's settings still carry (settings.clients of an
\* imported row): its credential is where the protocol looks for it.
TemplateCredential(in, u) == IF in.protocol \in {"trojan", "shadowsocks"} THEN u.password ELSE u.id

TemplateAccount(in, u) ==
  [cred |-> IF in.protocol = "shadowsocks" /\ in.settings.method = "2022"
              THEN <<in.settings.psk, TemplateCredential(in, u)>> ELSE <<TemplateCredential(in, u)>>,
   who  |-> <<"template", u.email>>]

\* Enabled clients of one inbound; expiry and quota play no part here.
fetchClientsByInbound(clients, in) == {c \in clients : c.enable /\ c.inbound = in.id}

UserAccounts(in, cs) ==
  {[cred |-> IF in.protocol = "shadowsocks" THEN <<in.settings.psk, c.uuid>> ELSE <<c.uuid>>,
    who  |-> ClientIdentity(c)] : c \in cs}

SharedPassword(in) == {[cred |-> <<in.settings.psk>>, who |-> <<"shared">>]}

------------------------------------------------------------------------------
(* Xray                                                                    *)

\* The client list replaces the template's only when it is not empty: with no
\* enabled client, what the template carries stays.
XrayAccounts(in, cs) ==
  LET perUser == in.protocol # "shadowsocks" \/ in.settings.method = "2022"
  IN  IF perUser /\ cs # {} THEN UserAccounts(in, cs)
      ELSE IF in.settings.clients # << >> THEN {TemplateAccount(in, u) : u \in ToSet(in.settings.clients)}
      ELSE IF in.protocol = "shadowsocks" THEN SharedPassword(in) ELSE {}

\* Only Xray's own shape of a stream has a meaning to Xray: a native block is
\* an unknown key.  Of a Reality block the client's half is removed.
NormalizeXrayStreamSettings(st) ==
  IF st.json # "ok"
  THEN [network |-> "tcp", opts |-> NoOpts, security |-> "none", sni |-> "", alpn |-> "", key |-> ""]
  ELSE [network  |-> IF st.network = "" THEN "tcp" ELSE st.network,
        opts     |-> st.opts,
        security |-> IF st.security = "" THEN "none" ELSE st.security,
        sni      |-> IF st.security = "reality" THEN ReadRealityStreamInfo(st).sni ELSE st.tls.sni,
        alpn     |-> st.tls.alpn,
        key      |-> IF st.security = "reality" THEN ReadRealityStreamInfo(st).key ELSE ""]

Parses(in) == in.settings.json # "bad" /\ in.stream.json # "bad"

Endpoint(engine, in, accounts, net, flow, obfs) ==
  [engine |-> engine, tag |-> in.tag, proto |-> in.protocol, port |-> in.port, accounts |-> accounts,
   network |-> net.network, opts |-> net.opts, security |-> net.security, sni |-> net.sni,
   alpn |-> net.alpn, key |-> net.key, flow |-> flow, obfs |-> obfs]

buildXrayInbound(in, cs) ==
  Endpoint("xray", in, XrayAccounts(in, cs), NormalizeXrayStreamSettings(in.stream),
           IF in.protocol = "vless" /\ cs # {} THEN in.settings.flow ELSE "", "")

XrayConfig(rows, clients, rules) ==
  LET mine == {in \in rows : in.enable /\ in.protocol \in XraySupported}
  IN  IF \A in \in mine : Parses(in)
      THEN [ok |-> TRUE, rules |-> rules,
            endpoints |-> {buildXrayInbound(in, fetchClientsByInbound(clients, in)) : in \in mine}]
      ELSE [ok |-> FALSE, rules |-> << >>, endpoints |-> {}]

------------------------------------------------------------------------------
(* sing-box                                                                *)

SingboxAccounts(in, cs) ==
  IF in.protocol = "shadowsocks" /\ ~(in.settings.method = "2022" /\ cs # {})
  THEN SharedPassword(in) ELSE UserAccounts(in, cs)

\* An Xray-style security overrides a native block.
SingboxTLS(st) ==
  LET none == [security |-> "none", sni |-> "", alpn |-> "", key |-> "", cert |-> FALSE]
  IN  IF st.json # "ok" THEN none
      ELSE IF st.security = "tls"
      THEN [security |-> "tls", sni |-> st.tls.sni, alpn |-> st.tls.alpn, key |-> "", cert |-> st.tls.cert]
      ELSE IF st.security = "reality"
      THEN [security |-> "reality", sni |-> ReadRealityStreamInfo(st).sni, alpn |-> "",
            key |-> ReadRealityStreamInfo(st).key, cert |-> TRUE]
      ELSE IF st.native.set /\ st.native.enabled
      THEN [security |-> "tls", sni |-> st.native.sni, alpn |-> st.native.alpn, key |-> "", cert |-> st.native.cert]
      ELSE none

\* Mutant: httpupgrade is missing from sing-box's transports.
MutantTransportWithoutUpgrade(st) ==
  IF st.json = "ok" /\ st.network \in {"ws", "grpc", "h2"}
  THEN [network |-> st.network, opts |-> st.opts] ELSE [network |-> "tcp", opts |-> NoOpts]

SingboxTransport(st) ==
  IF st.json = "ok" /\ st.network \in {"ws", "grpc", "h2", "httpupgrade"}
  THEN [network |-> st.network, opts |-> st.opts] ELSE [network |-> "tcp", opts |-> NoOpts]

\* What buildSingboxInbound refuses; one refusal refuses the whole file.
TrojanHasTLS(st) == st.json = "ok" /\ (st.security \in {"tls", "reality"} \/ st.native.set)

validateSingboxTLSCredentials(in) ==
  LET tls == SingboxTLS(in.stream) IN tls.security = "tls" => tls.cert

SingboxAdmits(in) ==
  /\ Parses(in)
  /\ in.protocol = "trojan" => TrojanHasTLS(in.stream)
  /\ in.protocol \in Quic => SingboxTLS(in.stream).security # "none"
  /\ validateSingboxTLSCredentials(in)

\* QUIC needs an ALPN: h3 when the row names none.
QuicALPN(in, alpn) == IF in.protocol \in Quic /\ alpn = "" THEN "h3" ELSE alpn

buildSingboxInbound(in, cs) ==
  LET tls == SingboxTLS(in.stream)
      net == IF in.protocol \in Quic THEN [network |-> "udp", opts |-> NoOpts]
                                     ELSE SingboxTransport(in.stream)
  IN  Endpoint("singbox", in, SingboxAccounts(in, cs),
               [network |-> net.network, opts |-> net.opts, security |-> tls.security, sni |-> tls.sni,
                alpn |-> QuicALPN(in, tls.alpn), key |-> tls.key],
               IF in.protocol = "vless" THEN in.settings.flow ELSE "",
               IF in.protocol = "hysteria2" THEN in.settings.obfs ELSE "")

\* Beside Xray, sing-box leaves alone what Xray can serve.
SingboxRows(rows, dual) ==
  {in \in rows : in.enable /\ (dual => in.protocol \notin XraySupported)}

\* Every authenticated user's remaining traffic leaves through an outbound of
\* its own, so that the byte counts of a connection can be given to somebody.
AttributionRules(rows, clients, clashAPI) ==
  IF ~clashAPI THEN {}
  ELSE {[user |-> ClientIdentity(c), outbound |-> <<"user", ClientIdentity(c)>>] :
          c \in UNION {fetchClientsByInbound(clients, in) : in \in rows}}

------------------------------------------------------------------------------
(* Routing rules.  A rule has sets of domain, address and port tokens (the *)
(* comma separated columns, trimmed, each distinct spelling once) and an   *)
(* outbound; the tokens are <<kind, text>>.                                *)

NormalizeRoutingRule(r) ==
  [domain |-> r.domain, ip |-> r.ip, port |-> r.port, outbound |-> r.outbound]

RoutingRuleSignature(r) == NormalizeRoutingRule(r)

UniqueRoutingRules(kept, r) ==
  IF \E i \in DOMAIN kept : RoutingRuleSignature(kept[i]) = RoutingRuleSignature(r)
  THEN kept ELSE Append(kept, r)

buildXrayRoutingRule(r) == NormalizeRoutingRule(r)

Numeric(ports) == {p \in ports : p[1] \in {"port", "range"}}

\* Mutant: port ranges are lost with the text that is no port.
MutantRangesDropped(r) ==
  IF r.domain \cup r.ip \cup Numeric(r.port) = {} THEN << >>
  ELSE <<[domain |-> r.domain, ip |-> r.ip, port |-> {p \in r.port : p[1] = "port"},
          outbound |-> IF r.outbound = "block" THEN "reject" ELSE r.outbound]>>

\* Text that is no port is dropped; a rule with nothing left is dropped whole;
\* "block" becomes the reject action.
buildSingboxRoutingRule(r) ==
  IF r.domain \cup r.ip \cup Numeric(r.port) = {} THEN << >>
  ELSE <<[domain |-> r.domain, ip |-> r.ip, port |-> Numeric(r.port),
          outbound |-> IF r.outbound = "block" THEN "reject" ELSE r.outbound]>>

\* The enabled rules, the first of every signature, in table order.
EnabledRules(rules) ==
  LET kept[k \in 0..Len(rules)] ==
        IF k = 0 THEN << >>
        ELSE IF rules[k].enable THEN UniqueRoutingRules(kept[k - 1], rules[k]) ELSE kept[k - 1]
  IN  kept[Len(rules)]

XrayRules(rules) == [i \in DOMAIN EnabledRules(rules) |-> buildXrayRoutingRule(EnabledRules(rules)[i])]

SingboxRules(rules) ==
  LET enabled == EnabledRules(rules)
      made[k \in 0..Len(enabled)] ==
        IF k = 0 THEN << >> ELSE made[k - 1] \o buildSingboxRoutingRule(enabled[k])
  IN  made[Len(enabled)]

\* Lists the engine must download: geoip:private is built in.
buildSingboxRuleSets(rules) ==
  {t \in UNION {r.domain \cup r.ip : r \in ToSet(EnabledRules(rules))} :
     t[1] \in {"geosite", "geoip"} /\ t # <<"geoip", "private">>}

\* Custom outbounds exist for sing-box only; of an unknown kind there is none.
buildSingboxOutbound(ob) == IF ob.protocol \in {"wireguard", "socks5", "http"} THEN {ob.tag} ELSE {}

SingboxOutbounds(obs) == {"direct"} \cup UNION {buildSingboxOutbound(ob) : ob \in {o \in obs : o.enable}}

SingboxConfig(rows, clients, rules, outbounds, dual, clashAPI) ==
  LET mine == SingboxRows(rows, dual)
  IN  IF \A in \in mine : SingboxAdmits(in)
      THEN [ok |-> TRUE, rules |-> SingboxRules(rules), users |-> AttributionRules(mine, clients, clashAPI),
            outbounds |-> SingboxOutbounds(outbounds), ruleSets |-> buildSingboxRuleSets(rules),
            endpoints |-> {buildSingboxInbound(in, fetchClientsByInbound(clients, in)) : in \in mine}]
      ELSE [ok |-> FALSE, rules |-> << >>, users |-> {}, outbounds |-> {}, ruleSets |-> {}, endpoints |-> {}]

\* What sing-box's own check refuses: a name that is used and not defined (a
\* user's own outbound is written along with its rule).
Closed(file) ==
  \A i \in DOMAIN file.rules :
    /\ file.rules[i].outbound \in file.outbounds \cup {"reject"}
    /\ {t \in file.rules[i].domain : t[1] = "geosite"} \subseteq file.ruleSets
    /\ {t \in file.rules[i].ip : t[1] = "geoip" /\ t[2] # "private"} \subseteq file.ruleSets

\* The engines' own matching.  A destination has the tokens it matches.  Xray
\* asks every column of a rule; sing-box takes domains, rule sets and
\* addresses as one column of alternatives.
Hits(tokens, dest) == tokens = {} \/ tokens \cap dest # {}

XrayRoute(rules, d) ==
  LET hit == {i \in DOMAIN rules : Hits(rules[i].domain, d) /\ Hits(rules[i].ip, d) /\ Hits(rules[i].port, d)}
  IN  IF hit = {} THEN "direct"
      ELSE rules[Min(hit)].outbound

SingboxRoute(rules, d) ==
  LET hit == {i \in DOMAIN rules : Hits(rules[i].domain \cup rules[i].ip, d) /\ Hits(rules[i].port, d)}
  IN  IF hit = {} THEN "direct"
      ELSE rules[Min(hit)].outbound

------------------------------------------------------------------------------
(* Smart Deploy presets                                                    *)

\* Mutant: a plan's second inbound may take the first one's port.
MutantExcludeIgnored(port, busy, exclude) == port \notin busy

isPortUsable(port, busy, exclude) == port \notin exclude /\ port \notin busy

\* The preferred port, else the first usable fallback, else the preferred one
\* all the same.  The port the user asked for is not looked at.
pickPortExcluding(preferred, busy, exclude) ==
  LET tried  == <<preferred>> \o PortFallbacks
      usable == {k \in DOMAIN tried : isPortUsable(tried[k], busy, exclude)}
  IN  IF usable = {} THEN preferred
      ELSE tried[Min(usable)]

NoTLS == [set |-> FALSE, sni |-> "", cert |-> FALSE, alpn |-> "", insecure |-> FALSE]
NoNative == [set |-> FALSE, enabled |-> FALSE, sni |-> "", cert |-> FALSE, alpn |-> "", insecure |-> FALSE]
NoReality == [set |-> FALSE, key |-> "", sni |-> ""]

RealityStream(key, target) ==
  [json |-> "ok", network |-> "tcp", security |-> "reality", tls |-> NoTLS, native |-> NoNative,
   reality |-> [set |-> TRUE, key |-> key, sni |-> target], opts |-> NoOpts]

\* The certificate is self-signed unless a domain was given; by the time the
\* row is written the certificate manager has filled in the files.
certStreamForHy2TUIC(domain) ==
  [json |-> "ok", network |-> "", security |-> "", tls |-> NoTLS, reality |-> NoReality, opts |-> NoOpts,
   native |-> [set |-> TRUE, enabled |-> TRUE, sni |-> IF domain = "" THEN PublicIP ELSE domain,
               cert |-> TRUE, alpn |-> "", insecure |-> domain = ""]]

\* Rows are stored in the editor's shape, whatever shape the preset used.
canonicalStream(st) ==
  IF ~st.native.set THEN st
  ELSE [st EXCEPT !.network = "udp", !.security = "tls", !.native = NoNative,
                  !.tls = [set |-> TRUE, sni |-> st.native.sni, cert |-> st.native.cert,
                           alpn |-> "h3", insecure |-> st.native.insecure]]

PresetSettings(cred, flow) ==
  [json |-> "ok", method |-> "", psk |-> "", flow |-> flow, obfs |-> "",
   clients |-> <<[id |-> cred, password |-> "", email |-> <<"default">>, enable |-> TRUE, expiry |-> 0]>>]

\* Mutant: the inline credentials stay in the settings column.
MutantInlineKept(set) == [clients |-> set.clients, settings |-> set]

\* Inline credentials become client rows; nothing of them stays in the row.
presetClients(set) == [clients |-> set.clients, settings |-> [set EXCEPT !.clients = << >>]]

PlannedInbound(proto, tag, port, settings, stream) ==
  [protocol |-> proto, tag |-> tag, port |-> port, settings |-> settings, stream |-> stream]

expandStableEgress(busy, cred) ==
  <<PlannedInbound("vless", <<"smart-stable-egress">>, pickPortExcluding(443, busy, {}), PresetSettings(cred, "vision"),
         RealityStream("smart-key", "target"))>>

expandSpeed(busy, domain, cred) ==
  <<PlannedInbound("hysteria2", <<"smart-speed-hy2">>, pickPortExcluding(443, busy, {}), PresetSettings(cred, ""),
         certStreamForHy2TUIC(domain))>>

expandCombo(busy, domain, cred) == expandStableEgress(busy, cred) \o expandSpeed(busy, domain, cred)

expandWeakNetwork(busy, domain, cred) ==
  LET hy2  == pickPortExcluding(443, busy, {})
      tuic == pickPortExcluding(8443, busy, {hy2})
  IN  <<PlannedInbound("hysteria2", <<"smart-weaknet-hy2">>, hy2, PresetSettings(cred, ""), certStreamForHy2TUIC(domain)),
        PlannedInbound("tuic", <<"smart-weaknet-tuic">>, tuic, PresetSettings(cred, ""), certStreamForHy2TUIC(domain))>>

Expand(preset, busy, domain, cred) ==
  CASE preset = "stable"  -> expandStableEgress(busy, cred)
    [] preset = "speed"   -> expandSpeed(busy, domain, cred)
    [] preset = "combo"   -> expandCombo(busy, domain, cred)
    [] preset = "weaknet" -> expandWeakNetwork(busy, domain, cred)

setServerAddress(domain) == IF domain = "" THEN PublicIP ELSE domain

\* The columns of the row a planned inbound is stored as.
PresetColumns(sp, domain) ==
  [tag |-> sp.tag, protocol |-> sp.protocol, port |-> sp.port, enable |-> TRUE,
   addr |-> setServerAddress(domain), v4 |-> "", v6 |-> "",
   settings |-> presetClients(sp.settings).settings, stream |-> canonicalStream(sp.stream)]
==============================================================================
