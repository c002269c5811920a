------------------------------ MODULE MCNodeTable ------------------------------
(***************************************************************************)
(* An instance of NodeTable: one row of every shape the translations tell  *)
(* apart, in pairs and with few steps; one plain row with enough steps for *)
(* the handlers to interleave; and a table of rules.                       *)
(***************************************************************************)
EXTENDS NodeTable, TLC

Addresses == {"", "panel", "localhost", "node.example", "10.0.0.1", "fd00::1", "cdn.example", "sni.example", "203.0.113.9"}
MCHostOf == [a \in Addresses |-> a]
MCIPv4 == {"10.0.0.1", "203.0.113.9"}
MCIPv6 == {"fd00::1"}
MCLoopback == {"", "localhost"}
MCPortFallbacks == <<8443, 2053, 2083>>
MCPublicIP == "203.0.113.9"

Plain == [json |-> "ok", network |-> "tcp", security |-> "none", tls |-> NoTLS, native |-> NoNative,
          reality |-> NoReality, opts |-> NoOpts]
TLSOn == [set |-> TRUE, sni |-> "sni.example", cert |-> TRUE, alpn |-> "h2", insecure |-> FALSE]
Streams ==
  [plain   |-> Plain,
   empty   |-> [Plain EXCEPT !.json = "empty"],
   bad     |-> [Plain EXCEPT !.json = "bad"],
   tls     |-> [Plain EXCEPT !.security = "tls", !.tls = TLSOn],
   reality |-> [Plain EXCEPT !.security = "reality", !.reality = [set |-> TRUE, key |-> "k1", sni |-> "target"]],
   ws      |-> [Plain EXCEPT !.network = "ws", !.security = "tls", !.tls = TLSOn,
                             !.opts = [path |-> "/p", host |-> "cdn.example"]],
   up      |-> [Plain EXCEPT !.network = "httpupgrade", !.opts = [path |-> "/p", host |-> "cdn.example"]],
   wss     |-> [Plain EXCEPT !.network = "wss", !.security = "", !.tls = TLSOn],
   quic    |-> [Plain EXCEPT !.network = "udp", !.security = "tls", !.tls = [TLSOn EXCEPT !.alpn = "h3"]],
   native  |-> [Plain EXCEPT !.network = "", !.security = "",
                             !.native = [set |-> TRUE, enabled |-> TRUE, sni |-> "sni.example", cert |-> TRUE,
                                         alpn |-> "", insecure |-> FALSE]]]

NoAccounts == [json |-> "ok", method |-> "", psk |-> "", flow |-> "", obfs |-> "", clients |-> << >>]
Cipher(method) == [NoAccounts EXCEPT !.method = method, !.psk = "psk"]
Template(id, password, email, enable) ==
  [id |-> id, password |-> password, email |-> email, enable |-> enable, expiry |-> 0]

Form(protocol, tag, port, addr, settings, stream) ==
  [tag |-> <<tag>>, protocol |-> protocol, port |-> port, enable |-> TRUE, addr |-> addr, v4 |-> "", v6 |-> "",
   settings |-> settings, stream |-> Streams[stream]]

Shapes ==
  {Form("vless", "a", 1001, "node.example", [NoAccounts EXCEPT !.flow = "vision"], "reality"),
   [Form("vless", "b", 1002, "10.0.0.1", NoAccounts, "ws") EXCEPT !.v6 = "fd00::1"],
   Form("vless", "c", 1003, "", [NoAccounts EXCEPT !.json = "empty"], "up"),
   Form("vmess", "d", 1004, "", NoAccounts, "wss"),
   Form("vmess", "e", 1005, "fd00::1", NoAccounts, "reality"),
   Form("trojan", "f", 1006, "node.example", NoAccounts, "tls"),
   Form("trojan", "g", 1007, "node.example", NoAccounts, "native"),
   Form("shadowsocks", "h", 1008, "localhost", Cipher("2022"), "plain"),
   Form("shadowsocks", "i", 1009, "node.example", Cipher("aes"), "empty"),
   [Form("hysteria2", "j", 1010, "", [NoAccounts EXCEPT !.obfs = "salamander"], "quic")
      EXCEPT !.v4 = "10.0.0.1", !.v6 = "fd00::1"],
   Form("tuic", "k", 1011, "node.example", NoAccounts, "native"),
   Form("wireguard", "l", 1012, "node.example", NoAccounts, "empty"),
   [Form("vless", "m", 1013, "node.example", NoAccounts, "plain") EXCEPT !.enable = FALSE],
   Form("vless", "n", 1014, "node.example", NoAccounts, "bad")}

Steps(onNodes, onRules) == [nodes |-> onNodes, rules |-> onRules]

User(id, inbound, email, uuid, enable, expiry) ==
  [id |-> id, inbound |-> inbound, email |-> email, uuid |-> uuid, enable |-> enable, expiry |-> expiry, used |-> 1]

\* Two shapes of row, a user on both, and a second user of the first alone.
ShapeTables ==
  {[inbounds |-> {Row(1, f), Row(2, g)}, rules |-> << >>, budget |-> Steps(0, 0),
    clients |-> {User(3, 1, <<"a">>, "v1", TRUE, 0), User(4, 2, <<"a">>, "v1", TRUE, 0),
                 User(5, 1, <<"b">>, "v2", FALSE, 0), User(6, 1, <<"c">>, "v1", TRUE, 2)}] :
     <<f, g>> \in {<<f, g>> \in Shapes \X Shapes : f.tag # g.tag}}

LifeRow == Form("trojan", "n1", 443, "node.example", NoAccounts, "tls")
LifeTables ==
  {[inbounds |-> {Row(1, LifeRow)}, rules |-> << >>, budget |-> Steps(2, 0),
    clients |-> {User(2, 1, <<"a">>, "u1", TRUE, 0), User(3, 1, <<"b">>, "u1", TRUE, 2)}]}

Dom(t) == <<"domain", t>>
MCRules ==
  {[domain |-> {Dom("a"), <<"geosite", "b">>}, ip |-> {}, port |-> {}, outbound |-> "block", enable |-> TRUE],
   [domain |-> {Dom("a")}, ip |-> {}, port |-> {<<"range", "1-9">>}, outbound |-> "direct", enable |-> TRUE],
   [domain |-> {}, ip |-> {<<"geoip", "private">>, <<"cidr", "10/8">>}, port |-> {}, outbound |-> "block", enable |-> TRUE],
   [domain |-> {Dom("a")}, ip |-> {<<"cidr", "10/8">>}, port |-> {}, outbound |-> "block", enable |-> TRUE],
   [domain |-> {}, ip |-> {}, port |-> {<<"text", "https">>}, outbound |-> "block", enable |-> TRUE],
   [domain |-> {Dom("a")}, ip |-> {}, port |-> {}, outbound |-> "warp", enable |-> TRUE],
   [domain |-> {}, ip |-> {}, port |-> {}, outbound |-> "direct", enable |-> TRUE]}
MCOutbounds == {[tag |-> "warp", protocol |-> "wireguard", enable |-> FALSE]}
RuleTables ==
  {[inbounds |-> {}, clients |-> {}, budget |-> Steps(0, 2), rules |-> <<r, [q EXCEPT !.enable = e]>>] :
     r, q \in {x \in MCRules : validateRoutingRule(x)}, e \in BOOLEAN}

MCTables == ShapeTables \cup LifeTables \cup RuleTables

MCInboundForms ==
  {[LifeRow EXCEPT !.settings.clients = <<Template("", "u1", <<"b">>, TRUE), Template("", "u2", << >>, FALSE)>>],
   [LifeRow EXCEPT !.settings.json = "bad"]}
MCImportItems ==
  {[columns |-> Form("vless", "n1", 443, "", [NoAccounts EXCEPT !.clients =
                       <<Template("u1", "", <<"a">>, TRUE), Template("u2", "", <<"a">>, FALSE)>>], "plain"),
    stats |-> <<[email |-> <<"a">>, uuid |-> "", enable |-> TRUE, expiry |-> 2, used |-> 1]>>]}
MCEmails == {<<"a">>}
MCUuids == {"u1"}
MCExpiries == {2}
MCPresets == {"stable", "speed", "combo", "weaknet"}
MCDomain == ""
MCOccupiedPorts == {2053}
MCSubRequests == {[uuid |-> "u1", format |-> "base64", host |-> "panel"]}
=============================================================================
