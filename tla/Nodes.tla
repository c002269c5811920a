-------------------------------- MODULE Nodes --------------------------------
(***************************************************************************)
(* What the panel makes of its proxy rows.  An inbound row and the client  *)
(* rows attached to it are translated four times, by four pieces of code   *)
(* that share nothing but the JSON columns: into the configuration of Xray *)
(* (proxy/xray.go), into that of sing-box (proxy/singbox.go), into a share *)
(* link (sub/generator.go, buildBase64Links) and into a Clash profile      *)
(* (sub/generator.go, buildClashConfig...).  This module is those          *)
(* translations as operators; it has no variables.                         *)
(*                                                                         *)
(* A JSON column is a record of the fields the translations read: absent   *)
(* text is "", an absent block has set = FALSE, json says whether the      *)
(* column is empty ("empty"), cannot be parsed ("bad") or is used ("ok").  *)
(* Transport details (path, host header, service name) are one record      *)
(* opts; a Reality key pair with its short id is one value, key.           *)
(***************************************************************************)
EXTENDS Integers, Sequences, FiniteSets, SequencesExt, TLC

CONSTANTS HostOf,     \* stored address -> the bare host normalising it leaves
          IPv4, IPv6, \* the literal addresses of a family
          Loopback    \* the bare hosts that name the panel's own machine

\* Neither is there anything to strip from a literal address, nor from none.
ASSUME AddressAssumption == \A a \in IPv4 \cup IPv6 \cup {""} : HostOf[a] = a

XraySupported == {"vless", "vmess", "trojan", "shadowsocks"}
Quic == {"hysteria2", "tuic"}
ClashSupported == XraySupported \cup Quic

NoOpts == [path |-> "", host |-> ""]

------------------------------------------------------------------------------
(* Reading the stream column                                               *)

\* The block realitySettings as both engines and the subscription read it;
\* xray and sing-box take serverNames from it, a link its first name.
ReadRealityStreamInfo(st) ==
  IF st.reality.set THEN [key |-> st.reality.key, sni |-> st.reality.sni]
                    ELSE [key |-> "", sni |-> ""]

FirstNonEmpty(texts) ==
  LET filled == {i \in DOMAIN texts : texts[i] # ""}
  IN  IF filled = {} THEN "" ELSE texts[Min(filled)]

ParsedNetwork(st) ==
  CASE st.network = ""    -> "tcp"
    [] st.network = "wss" -> "ws"
    [] OTHER              -> st.network

\* An explicit security wins; "wss" and an enabled native block imply TLS,
\* the latter even over an explicit "none".
ParsedSecurity(st) ==
  LET implied == IF st.network = "wss" THEN "tls" ELSE "none"
      stated  == IF st.security # "" THEN st.security ELSE implied
  IN  IF stated = "none" /\ st.native.set /\ st.native.enabled THEN "tls" ELSE stated

parseStream(st) ==
  IF st.json # "ok"
  THEN [network |-> "tcp", security |-> "none", sni |-> "", alpn |-> "",
        insecure |-> FALSE, key |-> "", opts |-> NoOpts]
  ELSE [network  |-> ParsedNetwork(st),
        security |-> ParsedSecurity(st),
        sni      |-> FirstNonEmpty(<<st.tls.sni, st.native.sni, ReadRealityStreamInfo(st).sni>>),
        alpn     |-> FirstNonEmpty(<<st.tls.alpn, st.native.alpn>>),
        insecure |-> st.tls.insecure \/ st.native.insecure,
        key      |-> ReadRealityStreamInfo(st).key,
        opts     |-> st.opts]

------------------------------------------------------------------------------
(* The address a client is told to dial                                    *)

normalizeServerAddress(raw) == HostOf[raw]

\* net.ParseIP and To4.
FamilyOf(host) == IF host \in IPv4 THEN "ipv4" ELSE IF host \in IPv6 THEN "ipv6" ELSE "name"

resolveInboundServerAddress(in, requestHost) ==
  LET si == parseStream(in.stream)
  IN  FirstNonEmpty(<<normalizeServerAddress(in.addr),
                      normalizeServerAddress(in.v4),
                      normalizeServerAddress(in.v6),
                      IF si.security = "tls" THEN normalizeServerAddress(si.sni) ELSE "",
                      IF si.network \in {"ws", "h2", "httpupgrade"}
                        THEN normalizeServerAddress(si.opts.host) ELSE "",
                      normalizeServerAddress(requestHost)>>)

\* rows in id order: the first enabled node with an address of its own.
firstExplicitServerAddress(rows) ==
  LET usable == SelectSeq(rows, LAMBDA r : /\ r.enable
                                           /\ normalizeServerAddress(r.addr) # ""
                                           /\ normalizeServerAddress(r.addr) \notin Loopback)
  IN  IF usable = << >> THEN "" ELSE normalizeServerAddress(Head(usable).addr)

\* A panel reached through its tunnel or socket has no public name of its own.
getServerAddr(host, rows) ==
  IF host \in Loopback /\ firstExplicitServerAddress(rows) # ""
  THEN firstExplicitServerAddress(rows) ELSE host

------------------------------------------------------------------------------
(* Share links.  A node is what a client application will try: the proxy   *)
(* protocol, where, with which credential and over which transport.        *)

DialNode(in, server, cred, si) ==
  [proto |-> in.protocol, server |-> server, port |-> in.port, cred |-> cred,
   network |-> si.network, opts |-> si.opts, security |-> "none", sni |-> "",
   alpn |-> "", insecure |-> FALSE, key |-> "", flow |-> "", obfs |-> ""]

WithTLS(n, si) ==
  [n EXCEPT !.security = "tls", !.sni = si.sni, !.alpn = si.alpn, !.insecure = si.insecure]

WithReality(n, si) ==
  [n EXCEPT !.security = "reality", !.sni = si.sni, !.key = si.key]

Secured(n, si) ==
  CASE si.security = "tls"     -> WithTLS(n, si)
    [] si.security = "reality" -> WithReality(n, si)
    [] OTHER                   -> n

parseSettingsFlow(set) == IF set.json = "ok" THEN set.flow ELSE ""

\* 2022 ciphers authenticate the user after the server; older ones have one
\* password for everybody.
ssClientPassword(method, psk, uuid) ==
  IF method = "2022" /\ uuid # "" THEN <<psk, uuid>> ELSE <<psk>>

parseSSSettings(set) ==
  [method   |-> IF set.json = "ok" /\ set.method # "" THEN set.method ELSE "aes",
   password |-> IF set.json = "ok" THEN set.psk ELSE ""]

SSNode(in, uuid, server) ==
  LET ss == parseSSSettings(in.settings)
      plain == [network |-> "tcp", opts |-> NoOpts]
  IN  DialNode(in, server, ssClientPassword(ss.method, ss.password, uuid), plain)

parseHysteria2Extras(set) == IF set.json = "ok" THEN set.obfs ELSE ""

QuicNode(in, uuid, server, si) ==
  LET n == DialNode(in, server, <<uuid>>, [network |-> "udp", opts |-> NoOpts])
  IN  [WithTLS(n, si) EXCEPT
         !.obfs = IF in.protocol = "hysteria2" THEN parseHysteria2Extras(in.settings) ELSE ""]

buildVLESSLink(in, uuid, server, si) ==
  [Secured(DialNode(in, server, <<uuid>>, si), si) EXCEPT !.flow = parseSettingsFlow(in.settings)]

buildVMessLink(in, uuid, server, si) == Secured(DialNode(in, server, <<uuid>>, si), si)

buildTrojanLink(in, uuid, server, si) == Secured(DialNode(in, server, <<uuid>>, si), si)

\* The set of links of one inbound: a protocol without a share format, or a
\* Shadowsocks node without a password, has none.
ShareLink(in, uuid, server) ==
  LET si == parseStream(in.stream)
  IN  CASE in.protocol = "vless"  -> {buildVLESSLink(in, uuid, server, si)}
        [] in.protocol = "vmess"  -> {buildVMessLink(in, uuid, server, si)}
        [] in.protocol = "trojan" -> {buildTrojanLink(in, uuid, server, si)}
        [] in.protocol = "shadowsocks" ->
             IF parseSSSettings(in.settings).password = "" THEN {} ELSE {SSNode(in, uuid, server)}
        [] in.protocol \in Quic   -> {QuicNode(in, uuid, server, si)}
        [] OTHER                  -> {}

buildBase64Links(ins, uuid, requestHost) ==
  UNION {ShareLink(ins[i], uuid, resolveInboundServerAddress(ins[i], requestHost)) : i \in DOMAIN ins}

------------------------------------------------------------------------------
(* Clash profiles                                                          *)

\* writeClashTransport: an httpupgrade node is written as ws with a flag that
\* makes the client upgrade; a client that sees ws without it speaks ws.
ClashTransport(si) ==
  IF si.network = "httpupgrade" THEN [net |-> "ws", upgrade |-> TRUE]
                                ELSE [net |-> si.network, upgrade |-> FALSE]

Dialled(si) ==
  LET t == ClashTransport(si)
  IN  [si EXCEPT !.network = IF t.net = "ws" /\ t.upgrade THEN "httpupgrade" ELSE t.net]

\* The VMess branch knows TLS only; the Trojan branch takes anything that is
\* neither "none" nor Reality for TLS.
ClashSecured(in, n, si) ==
  CASE in.protocol = "vmess" /\ si.security # "tls"                         -> n
    [] in.protocol = "trojan" /\ si.security \notin {"none", "reality"}     -> WithTLS(n, si)
    [] OTHER                                                                -> Secured(n, si)

ClashProxy(in, uuid, server) ==
  LET si == parseStream(in.stream)
      stream == ClashSecured(in, DialNode(in, server, <<uuid>>, Dialled(si)), si)
  IN  CASE in.protocol = "vless" -> {[stream EXCEPT !.flow = parseSettingsFlow(in.settings)]}
        [] in.protocol \in {"vmess", "trojan"} -> {stream}
        [] in.protocol = "shadowsocks"         -> {SSNode(in, uuid, server)}
        [] in.protocol \in Quic                -> {QuicNode(in, uuid, server, si)}
        [] OTHER                               -> {}

NameBase(in) == IF in.tag # << >> THEN in.tag ELSE <<in.protocol, in.port>>

\* One entry per row, named after its tag; family is "" in a regular profile.
RegularNodes(ins, requestHost) ==
  [i \in DOMAIN ins |-> [in |-> ins[i], name |-> NameBase(ins[i]), family |-> "",
                         server |-> resolveInboundServerAddress(ins[i], requestHost)]]

\* Explicit per-family addresses win; a literal primary address fills its own
\* family only; a host name fills both, and only when neither is given.
FamilyAddresses(primary, v4, v6) ==
  LET both == FamilyOf(primary) = "name" /\ v4 = "" /\ v6 = "" /\ primary # ""
      Fill(family, own) == IF own = "" /\ (both \/ FamilyOf(primary) = family) THEN primary ELSE own
  IN  [ipv6 |-> Fill("ipv6", v6), ipv4 |-> Fill("ipv4", v4)]

\* The first of stem, stem #id, stem #id-2, ... that is not taken.  At most
\* as many names are taken as nodes were made before.
FreeName(stem, id, taken) ==
  LET tried == [k \in 1..(Cardinality(taken) + 1) |->
                  IF k = 1 THEN stem ELSE IF k = 2 THEN Append(stem, id) ELSE stem \o <<id, k - 1>>]
  IN  tried[Min({k \in DOMAIN tried : tried[k] \notin taken})]

Names(nodes) == [i \in DOMAIN nodes |-> nodes[i].name]

\* A family the row has no address in has no endpoint; every endpoint gets a
\* name that none before it has.
AddEndpoint(nodes, in, family, server) ==
  IF server = "" THEN nodes
  ELSE Append(nodes, [in |-> in, family |-> family, server |-> server,
                      name |-> FreeName(Append(NameBase(in), family), in.id, ToSet(Names(nodes)))])

AddInbound(nodes, in, requestHost) ==
  LET address == FamilyAddresses(resolveInboundServerAddress(in, requestHost),
                                 normalizeServerAddress(in.v4), normalizeServerAddress(in.v6))
  IN  IF in.protocol \in ClashSupported
      THEN AddEndpoint(AddEndpoint(nodes, in, "ipv6", address.ipv6), in, "ipv4", address.ipv4)
      ELSE nodes

dualStackClashNodes(ins, requestHost) ==
  LET made[k \in 0..Len(ins)] == IF k = 0 THEN << >> ELSE AddInbound(made[k - 1], ins[k], requestHost)
  IN  made[Len(ins)]

OfFamily(nodes, family) ==
  LET kept[k \in 0..Len(nodes)] ==
        IF k = 0 THEN << >>
        ELSE IF nodes[k].family = family THEN Append(kept[k - 1], nodes[k]) ELSE kept[k - 1]
  IN  kept[Len(nodes)]

\* IPV6-FIRST tries its members in order; AUTO takes the fastest.
writeDualStackGroups(nodes) ==
  LET ordered == Names(OfFamily(nodes, "ipv6") \o OfFamily(nodes, "ipv4") \o OfFamily(nodes, ""))
  IN  [proxy |-> <<"AUTO", "IPV6-FIRST">> \o Names(nodes) \o <<"DIRECT">>,
       auto  |-> ordered,
       first |-> ordered]

writeDefaultClashGroups(nodes) ==
  [proxy |-> <<"AUTO">> \o Names(nodes) \o <<"DIRECT">>, auto |-> Names(nodes), first |-> << >>]

\* A profile: the proxies written, the groups that select among them and the
\* servers whose traffic bypasses the proxies.
buildClashConfigNodes(nodes, uuid, dualStack) ==
  [proxies |-> UNION {{[name |-> nodes[i].name, family |-> nodes[i].family, pos |-> i, dial |-> p] :
                         p \in ClashProxy(nodes[i].in, uuid, nodes[i].server)} : i \in DOMAIN nodes},
   groups  |-> IF dualStack THEN writeDualStackGroups(nodes) ELSE writeDefaultClashGroups(nodes),
   direct  |-> {nodes[i].server : i \in DOMAIN nodes} \ {""}]

buildClashConfig(ins, uuid, host) == buildClashConfigNodes(RegularNodes(ins, host), uuid, FALSE)
buildClashDualStackConfig(ins, uuid, host) ==
  buildClashConfigNodes(dualStackClashNodes(ins, host), uuid, TRUE)
==============================================================================
