---------------------------- MODULE ProxyFields -----------------------------
(***************************************************************************)
(* What becomes of the fields of a proxy between a source and the file     *)
(* that is written: the parsers (parser/), NormalizeNode and the identity  *)
(* of nodes (model/node.go), overrides (pipeline/node_state.go), the check *)
(* isRenderableNode (pipeline.go), and buildProxy, buildProxyNode and the  *)
(* passthrough of unknown fields (renderer/mihomo.go).                     *)
(*                                                                         *)
(* A source is a list of proxies: YAML mappings, links, or one WireGuard   *)
(* file.  A proxy is a function from keys to values, and a value is a      *)
(* token that no step takes apart; what the code copies field by field is  *)
(* a table here, from the field to the keys it is read from (the first one *)
(* present counts) or to the key it is written under.  The keys of a       *)
(* nested mapping are listed with their section.  Bytes, percent and       *)
(* base64 encodings are left out.                                          *)
(*                                                                         *)
(* A written file is a source itself: in the second round it is read back. *)
(***************************************************************************)
EXTENDS Integers, Sequences, FiniteSets, SequencesExt, TLC

CONSTANTS
  Inputs,     \* sources: lists of [form, type, fields]
  Options,    \* render options: [fingerprint, skipVerify, udp]
  Edits,      \* what an override may set: [group, values]
  None,       \* stands for no fallback
  Edited      \* the value of an edited field

VARIABLES
  stage, round,
  source,    \* the entries being converted
  options,   \* global_client_fingerprint, skip_tls_verify and udp
  nodes,     \* NodeIR: [type, f, original, from]
  edit,      \* the override of the first node, or None
  out,       \* the proxies of the file
  first      \* what the first round wrote

vars == <<stage, round, source, options, nodes, edit, out, first>>

-----------------------------------------------------------------------------
(* Tables.                                                                 *)

Has(f, k) == k \in DOMAIN f
Some(f, keys) == \E i \in DOMAIN keys : Has(f, keys[i])
FirstOf(f, keys) == f[SelectSeq(keys, LAMBDA k : Has(f, k))[1]]
Read(f, table) ==
  [d \in {x \in DOMAIN table : Some(f, table[x])} |-> FirstOf(f, table[d])]

Write(f, table) ==
  LET used == DOMAIN table \cap DOMAIN f
  IN  [k \in {table[d] : d \in used} |-> f[CHOOSE d \in used : table[d] = k]]

Without(f, S) == Restrict(f, DOMAIN f \ S)
Default(f, k, v) == IF Has(f, k) THEN f ELSE (k :> v) @@ f

(* A flag that is off is the zero value of its field.                      *)
Flags == {"tls", "insecure", "remoteDNS"}
DropZeroFlags(f) == Without(f, {k \in Flags \cap DOMAIN f : f[k] = "off"})

Password == [password |-> <<"password">>]
SNI == [sni |-> <<"sni", "servername">>]
ServerName == [sni |-> <<"servername", "sni">>]
TLS == SNI @@ [alpn |-> <<"alpn">>, insecure |-> <<"skip-cert-verify">>]
Fingerprint == [clientFingerprint |-> <<"client-fingerprint">>]
Obfs == [obfs |-> <<"obfs">>, ports |-> <<"ports">>, mport |-> <<"mport">>]
Endpoint == [server |-> <<"server">>, port |-> <<"port">>, udp |-> <<"udp">>]

-----------------------------------------------------------------------------
(* parseMihomoProxy.                                                       *)

YamlTable == [
  ss        |-> Password @@ [method |-> <<"cipher">>],
  ssr       |-> Password @@ [method |-> <<"cipher">>, protocol |-> <<"protocol">>,
                  protocolParam |-> <<"protocol-param">>, obfs |-> <<"obfs">>,
                  obfsParam |-> <<"obfs-param">>],
  vmess     |-> ServerName @@ Fingerprint @@ [uuid |-> <<"uuid">>, tls |-> <<"tls">>,
                  cipher |-> <<"cipher", "encryption">>, alterId |-> <<"alterId">>],
  vless     |-> ServerName @@ Fingerprint @@ [uuid |-> <<"uuid">>, tls |-> <<"tls">>,
                  insecure |-> <<"skip-cert-verify">>, encryption |-> <<"encryption">>,
                  packetEncoding |-> <<"packet-encoding">>, flow |-> <<"flow">>,
                  reality |-> <<"reality-opts">>],
  trojan    |-> Password @@ TLS,
  hysteria  |-> TLS @@ Obfs @@ [password |-> <<"password", "auth-str", "auth">>,
                  obfsParam |-> <<"obfs-param">>],
  hysteria2 |-> Password @@ TLS @@ Obfs @@ [obfsPassword |-> <<"obfs-password">>],
  tuic      |-> Password @@ TLS @@ [uuid |-> <<"uuid">>, reduceRTT |-> <<"reduce-rtt">>,
                  congestion |-> <<"congestion-controller">>,
                  relayMode |-> <<"udp-relay-mode">>],
  anytls    |-> Password @@ TLS @@ Fingerprint @@ [idleSession |-> <<"idle-session">>],
  mieru     |-> Password @@ [username |-> <<"username">>, portRange |-> <<"port-range">>,
                  transport |-> <<"transport">>, multiplexing |-> <<"multiplexing">>],
  http      |-> Password @@ TLS @@ [username |-> <<"username">>, tls |-> <<"tls">>],
  socks5    |-> Password @@ TLS @@ [username |-> <<"username">>, tls |-> <<"tls">>],
  wireguard |-> [privateKey |-> <<"private-key">>, publicKey |-> <<"public-key">>,
                  preSharedKey |-> <<"pre-shared-key">>, ip |-> <<"ip">>,
                  ipv6 |-> <<"ipv6">>, allowedIPs |-> <<"allowed-ips">>,
                  reserved |-> <<"reserved">>, mtu |-> <<"mtu">>,
                  keepalive |-> <<"persistent-keepalive">>, dns |-> <<"dns">>,
                  remoteDNS |-> <<"remote-dns-resolve">>, amnezia |-> <<"amnezia-wg-option">>,
                  peers |-> <<"peers">>]]
Types == DOMAIN YamlTable
HasTransport == {"vmess", "vless", "trojan"}
AlwaysTLS == {"trojan", "hysteria", "hysteria2", "tuic", "anytls"}

(* Mutant: options of HTTP/2 are left to the passthrough.                  *)
TransportWithoutH2(network) ==
  CASE network = "ws"    -> [path |-> <<"ws-path">>, host |-> <<"ws-host">>]
    [] network = "grpc"  -> [serviceName |-> <<"grpc-name">>]
    [] network = "h2"    -> [host |-> <<"h2-host">>]
    [] network = "xhttp" -> [path |-> <<"xhttp-path">>, mode |-> <<"xhttp-mode">>]
    [] OTHER             -> <<>>

(* applyMihomoTransport; host stands for the list of HTTP/2 hosts, too.    *)
NetworkOf(f) == IF Has(f, "network") THEN f["network"] ELSE "none"
YamlTransport(network) ==
  CASE network = "ws"    -> [path |-> <<"ws-path">>, host |-> <<"ws-host">>]
    [] network = "grpc"  -> [serviceName |-> <<"grpc-name">>]
    [] network = "h2"    -> [path |-> <<"h2-path">>, host |-> <<"h2-host">>]
    [] network = "xhttp" -> [path |-> <<"xhttp-path">>, mode |-> <<"xhttp-mode">>,
                             grpcHeader |-> <<"xhttp-header">>]
    [] OTHER             -> <<>>

TypeDefaults(type, f) ==
  CASE type = "vmess" -> Default(f, "cipher", "auto")
    [] type = "vless" -> Default(IF Has(f, "sni") \/ Has(f, "reality") THEN ("tls" :> "on") @@ f
                                 ELSE f, "encryption", "none")
    [] OTHER -> IF type \in AlwaysTLS THEN ("tls" :> "on") @@ f ELSE f

(* Peers replace the single peer of the short form.                        *)
SinglePeer == {"server", "port", "publicKey", "preSharedKey", "allowedIPs"}

ParseMihomoProxy(p) ==
  LET transport == IF p.type \notin HasTransport THEN <<>>
                   ELSE [network |-> <<"network">>] @@ YamlTransport(NetworkOf(p.fields))
      f == TypeDefaults(p.type, DropZeroFlags(
             Read(p.fields, Endpoint @@ YamlTable[p.type] @@ transport)))
  IN  [f |-> IF p.type = "wireguard" /\ Has(f, "peers") THEN Without(f, SinglePeer) ELSE f,
       original |-> p.fields]

-----------------------------------------------------------------------------
(* parseURI and the parser of every scheme.                                *)

LinkTLS == SNI @@ [alpn |-> <<"alpn">>, insecure |-> <<"insecure">>]
LinkTransport == [network |-> <<"type">>, path |-> <<"path">>, host |-> <<"host">>]

LinkSS == Password @@ [method |-> <<"method">>]
LinkSSR == Password @@ [
  method |-> <<"method">>, protocol |-> <<"protocol">>, obfs |-> <<"obfs">>,
  protocolParam |-> <<"protoparam">>, obfsParam |-> <<"obfsparam">>]
LinkVMess == [
  uuid |-> <<"id">>, network |-> <<"net">>, host |-> <<"host">>, path |-> <<"path">>,
  sni |-> <<"sni">>, alpn |-> <<"alpn">>, clientFingerprint |-> <<"fp">>, tls |-> <<"tls">>,
  alterId |-> <<"aid">>, cipher |-> <<"scy", "cipher">>]
LinkVLESS == LinkTLS @@ LinkTransport @@ [
  uuid |-> <<"uuid">>, tls |-> <<"security">>, reality |-> <<"pbk">>,
  clientFingerprint |-> <<"fp", "client-fingerprint">>, serviceName |-> <<"serviceName">>,
  mode |-> <<"mode">>, grpcHeader |-> <<"no-grpc-header">>, flow |-> <<"flow">>,
  encryption |-> <<"encryption">>, packetEncoding |-> <<"packetEncoding">>]
LinkTrojan == Password @@ LinkTLS @@ LinkTransport
LinkHysteria2 == Password @@ LinkTLS @@ Obfs @@ [
  obfsPassword |-> <<"obfs-password">>, hopInterval |-> <<"hop-interval">>, up |-> <<"up">>,
  down |-> <<"down">>]
LinkTUIC == Password @@ LinkTLS @@ [
  uuid |-> <<"uuid">>, reduceRTT |-> <<"reduce_rtt">>,
  congestion |-> <<"congestion_control">>, relayMode |-> <<"udp_relay_mode">>]
LinkAnyTLS == Password @@ LinkTLS @@ [
  clientFingerprint |-> <<"client-fingerprint", "fp">>, ech |-> <<"ech">>,
  idleSession |-> <<"idle-session">>]
LinkMieru == YamlTable["mieru"] @@ [udp |-> <<"udp">>]
LinkHTTP == Password @@ LinkTLS @@ [
  username |-> <<"username">>, tls |-> <<"tls">>, udp |-> <<"udp">>]
LinkWireGuard == [
  privateKey |-> <<"private-key">>, publicKey |-> <<"public-key">>, preSharedKey |-> <<"psk">>,
  ip |-> <<"ip">>, ipv6 |-> <<"ipv6">>, allowedIPs |-> <<"allowed-ips">>,
  reserved |-> <<"reserved">>, mtu |-> <<"mtu">>, keepalive |-> <<"persistent-keepalive">>,
  dns |-> <<"dns">>, remoteDNS |-> <<"remote-dns-resolve">>]

LinkTable == [
  ss |-> LinkSS, ssr |-> LinkSSR, vmess |-> LinkVMess, vless |-> LinkVLESS,
  trojan |-> LinkTrojan, hysteria2 |-> LinkHysteria2, tuic |-> LinkTUIC,
  anytls |-> LinkAnyTLS, mieru |-> LinkMieru, http |-> LinkHTTP, socks5 |-> LinkHTTP,
  wireguard |-> LinkWireGuard]

LinkDefaults(type, f) ==
  CASE type = "vmess"     -> f
    [] type = "mieru"     -> Default(f, "transport", "TCP")
    [] type = "wireguard" -> Default(f, "allowedIPs", "0.0.0.0/0")
    [] OTHER              -> TypeDefaults(type, f)

ParseURI(p) ==
  LET f == LinkDefaults(p.type, DropZeroFlags(
             Read(p.fields, Without(Endpoint, {"udp"}) @@ LinkTable[p.type])))
  IN  [f |-> IF p.type \in {"http", "socks5"} THEN f ELSE Default(f, "udp", "on"),
       original |-> <<>>]

(* ParseWireGuardConfig: the first peer doubles as the single one.         *)
ParseWireGuardConfig(p) ==
  LET f == Read(p.fields, [
        privateKey |-> <<"PrivateKey">>, publicKey |-> <<"PublicKey">>,
        preSharedKey |-> <<"PresharedKey">>, ip |-> <<"Address">>, mtu |-> <<"MTU">>,
        dns |-> <<"DNS">>, allowedIPs |-> <<"AllowedIPs">>, server |-> <<"Endpoint">>,
        port |-> <<"Endpoint">>, keepalive |-> <<"PersistentKeepalive">>,
        peers |-> <<"second peer">>])
  IN  [f |-> Default(f, "allowedIPs", "0.0.0.0/0") @@ [udp |-> "on"], original |-> <<>>]

(* NormalizeNode: a server and the obfuscation of hysteria2 are spelled in *)
(* lower case, ALPN is sorted and has no repetitions (so its order, which  *)
(* is one of preference, is lost), and no obfuscation is no field.  One    *)
(* value of each kind stands for those that are not normal yet.            *)
Normal(type, k, v) ==
  CASE k = "server" /\ v = "SERVER" -> "server"
    [] k = "alpn" /\ v = "unsorted alpn" -> "alpn"
    [] k = "obfs" /\ type = "hysteria2" /\ v = "SALAMANDER" -> "salamander"
    [] OTHER -> v

NormalizeNode(n) ==
  LET f == [k \in DOMAIN n.f |-> Normal(n.type, k, n.f[k])]
  IN  [n EXCEPT !.f = IF n.type = "hysteria2" /\ Has(f, "obfs") /\ f.obfs = "none"
                        THEN Without(f, {"obfs", "obfsPassword"}) ELSE f]

ParseEntry(p, i) ==
  LET parsed == CASE p.form = "yaml" -> ParseMihomoProxy(p)
                  [] p.form = "link" -> ParseURI(p)
                  [] p.form = "conf" -> ParseWireGuardConfig(p)
  IN  NormalizeNode([type |-> p.type, f |-> parsed.f, original |-> parsed.original, from |-> i])

-----------------------------------------------------------------------------
(* Identity: dedupeKey decides what is collected once, StableNodeID what   *)
(* is written once.                                                        *)

Part(n, fields) == Restrict(n.f, DOMAIN n.f \cap fields)

MieruFields == {"portRange", "transport", "multiplexing"}
KeyFields(type) ==
  {"server", "port", "network", "path", "host", "serviceName", "sni"}
    \cup (IF type = "mieru" THEN MieruFields ELSE {})
AuthKey(n) ==
  LET order == <<"uuid", "password", "privateKey", "username">>
  IN  IF Some(n.f, order) THEN FirstOf(n.f, order) ELSE None
DedupeKey(n) == <<n.type, AuthKey(n), Part(n, KeyFields(n.type))>>

HopFields == {"ports", "mport", "hopInterval", "up", "down"}
IDFields(type) ==
  {"server", "port", "uuid", "password", "username", "privateKey", "publicKey", "preSharedKey",
   "network", "path", "host", "serviceName", "mode", "grpcHeader", "sni", "clientFingerprint",
   "reality", "ech"}
    \cup (CASE type = "mieru" -> MieruFields
            [] type \in {"hysteria", "hysteria2"} -> HopFields
            [] type = "wireguard" -> {"ip", "ipv6", "mtu", "keepalive", "allowedIPs"}
            [] OTHER -> {})
StableNodeID(n) == <<n.type, Part(n, IDFields(n.type))>>

(* Keep the first node of every key.                                       *)
FirstOfEach(ns, keys) ==
  LET kept == {i \in DOMAIN ns : \A j \in 1 .. (i - 1) : keys[j] # keys[i]}
  IN  [k \in 1 .. Cardinality(kept) |->
         ns[CHOOSE i \in kept : Cardinality({j \in kept : j <= i}) = k]]

(* isRenderableNode.                                                       *)
Required == [
  ss |-> {"method", "password"}, ssr |-> {"method", "protocol", "obfs", "password"},
  vmess |-> {"uuid"}, vless |-> {"uuid"}, trojan |-> {"password"}, hysteria |-> {"password"},
  anytls |-> {"password"}, hysteria2 |-> {"password"}, tuic |-> {"uuid", "password"},
  mieru |-> {"username", "password", "transport"}, http |-> {}, socks5 |-> {},
  wireguard |-> {"privateKey"}]

PortSpec(n) ==
  CASE n.type = "mieru" -> {"port", "portRange"}
    [] n.type \in {"hysteria", "hysteria2"} -> {"port", "ports", "mport"}
    [] OTHER -> {"port"}

IsRenderable(n) ==
  \/ n.type = "wireguard" /\ Has(n.f, "peers")
  \/ /\ Has(n.f, "server") /\ PortSpec(n) \cap DOMAIN n.f # {}
     /\ Required[n.type] \subseteq DOMAIN n.f
     /\ n.type = "hysteria2" /\ Has(n.f, "obfs") =>
          n.f.obfs \in {"salamander", "gecko"} /\ Has(n.f, "obfsPassword")

-----------------------------------------------------------------------------
(* buildProxy and buildProxyNode: which field is written under which key.  *)

WritePassword == [password |-> "password"]
WriteTLS == [sni |-> "sni", alpn |-> "alpn", insecure |-> "skip-cert-verify"]
WriteServerName == [sni |-> "servername", tls |-> "tls", uuid |-> "uuid",
                    clientFingerprint |-> "client-fingerprint", network |-> "network"]

WriteTable == [
  ss        |-> WritePassword @@ [method |-> "cipher"],
  ssr       |-> WritePassword @@ [method |-> "cipher", obfs |-> "obfs"],
  vmess     |-> WriteServerName @@ [cipher |-> "cipher", alterId |-> "alterId"],
  vless     |-> WriteServerName @@ [encryption |-> "encryption", flow |-> "flow",
                  packetEncoding |-> "packet-encoding", insecure |-> "skip-cert-verify",
                  reality |-> "reality-opts"],
  trojan    |-> WritePassword @@ WriteTLS @@ [tls |-> "tls", network |-> "network",
                  clientFingerprint |-> "client-fingerprint"],
  hysteria  |-> WriteTLS @@ [obfs |-> "obfs"],
  hysteria2 |-> WritePassword @@ WriteTLS @@ [obfs |-> "obfs",
                  obfsPassword |-> "obfs-password"],
  tuic      |-> WritePassword @@ WriteTLS @@ [uuid |-> "uuid", reduceRTT |-> "reduce-rtt",
                  congestion |-> "congestion-controller", relayMode |-> "udp-relay-mode"],
  anytls    |-> WritePassword @@ WriteTLS @@ [clientFingerprint |-> "client-fingerprint",
                  idleSession |-> "idle-session"],
  mieru     |-> WritePassword @@ [username |-> "username", portRange |-> "port-range",
                  transport |-> "transport", multiplexing |-> "multiplexing"],
  http      |-> WritePassword @@ WriteTLS @@ [username |-> "username", tls |-> "tls"],
  socks5    |-> WritePassword @@ WriteTLS @@ [username |-> "username", tls |-> "tls"],
  wireguard |-> [privateKey |-> "private-key", publicKey |-> "public-key",
                  preSharedKey |-> "pre-shared-key", ip |-> "ip", ipv6 |-> "ipv6",
                  allowedIPs |-> "allowed-ips", reserved |-> "reserved", mtu |-> "mtu",
                  keepalive |-> "persistent-keepalive", dns |-> "dns", peers |-> "peers",
                  remoteDNS |-> "remote-dns-resolve", amnezia |-> "amnezia-wg-option"]]

(* applyTransport.                                                         *)
WriteTransport(network) ==
  CASE network = "ws"    -> [path |-> "ws-path", host |-> "ws-host"]
    [] network = "grpc"  -> [serviceName |-> "grpc-name"]
    [] network = "h2"    -> [path |-> "h2-path", host |-> "h2-host"]
    [] network = "xhttp" -> [path |-> "xhttp-path", mode |-> "xhttp-mode",
                             grpcHeader |-> "xhttp-header"]
    [] OTHER             -> <<>>

(* The mapping a key is written in.                                        *)
Section(k) ==
  CASE k \in {"ws-path", "ws-host", "ws-more"} -> "ws-opts"
    [] k \in {"grpc-name", "grpc-more"} -> "grpc-opts"
    [] k \in {"h2-path", "h2-host", "h2-more"} -> "h2-opts"
    [] k \in {"xhttp-path", "xhttp-mode", "xhttp-header", "xhttp-more"} -> "xhttp-opts"
    [] k \in {"reality-opts", "reality-more"} -> "reality-opts"
    [] OTHER -> k

XHTTPDefaults(f) == Default(Default(f, "mode", "auto"), "grpcHeader", "off")
Completed(n) ==
  LET f == IF n.type \in HasTransport /\ NetworkOf(n.f) = "xhttp" THEN XHTTPDefaults(n.f)
           ELSE n.f
  IN  CASE n.type = "vmess"     -> Default(f, "cipher", "auto")
        [] n.type = "vless"     -> Default(f, "encryption", "none")
        [] n.type = "trojan"    -> ("tls" :> "on") @@ f
        [] n.type = "mieru"     -> Default(f, "transport", "TCP")
        [] n.type = "wireguard" -> IF Has(f, "peers") THEN Without(f, SinglePeer)
                                   ELSE Default(f, "allowedIPs", "0.0.0.0/0")
        [] OTHER -> f

(* applyDefaultClientFingerprints.                                         *)
TakesFingerprint(n) ==
  \/ n.type \in {"trojan", "anytls"}
  \/ n.type \in {"vmess", "vless"} /\ Has(n.f, "tls")
WithFingerprint(n, f) ==
  IF options.fingerprint # None /\ TakesFingerprint(n)
    THEN Default(f, "clientFingerprint", options.fingerprint) ELSE f

(* mihomoProxyExtraFields, and the password of hysteria.                   *)
AuthKeys == {"auth-str", "auth"}
Extra(n) ==
  LET extra == Without(n.original, IF n.type = "hysteria2" THEN {"obfs", "obfs-password"} ELSE {})
      own   == IF n.type \notin {"hysteria", "hysteria2"} THEN <<>>
               ELSE Write(n.f, [ports |-> "ports", mport |-> "mport", up |-> "up",
                                hopInterval |-> "hop-interval", down |-> "down"]
                               @@ IF n.type = "hysteria" THEN [obfsParam |-> "obfs-param"]
                                  ELSE <<>>)
      auth  == IF n.type = "hysteria" /\ Has(n.f, "password")
                    /\ (AuthKeys \cup {"password"}) \cap DOMAIN extra = {}
                 THEN "auth-str" :> n.f.password ELSE <<>>
  IN  extra @@ own @@ auth

Struct(n) ==
  LET f     == WithFingerprint(n, Completed(n))
      table == [server |-> "server", port |-> "port", udp |-> "udp"] @@ WriteTable[n.type]
               @@ IF n.type \in HasTransport THEN WriteTransport(NetworkOf(f)) ELSE <<>>
               @@ IF n.type = "hysteria" /\ Has(n.original, "password") THEN WritePassword
                  ELSE <<>>
  IN  Write(IF n.type = "http" THEN f ELSE Default(f, "udp", "on"), table)

(* Mutant: what the source gave takes precedence over what was parsed.     *)
ExtraFirst(n) == Extra(n) @@ Struct(n)

(* appendProxyExtraFields: what is not written yet, whole mappings.        *)
BuildProxy(n) ==
  LET struct  == Struct(n)
      written == {Section(k) : k \in DOMAIN struct}
  IN  struct @@ Without(Extra(n), {k \in DOMAIN Extra(n) : Section(k) \in written})

-----------------------------------------------------------------------------
(* Converting a source.                                                    *)

Init ==
  /\ source \in Inputs /\ options \in Options
  /\ stage = "parse" /\ round = 1
  /\ nodes = <<>> /\ edit = None /\ out = <<>> /\ first = <<>>

Go(to) == stage' = to /\ UNCHANGED <<round, source, options, first>>

(* Every format is parsed, and DedupeNodesByScope keeps the first copy.    *)
Parse ==
  /\ stage = "parse"
  /\ LET parsed == [i \in DOMAIN source |-> ParseEntry(source[i], i)]
     IN  nodes' = FirstOfEach(parsed, [i \in DOMAIN parsed |-> DedupeKey(parsed[i])])
  /\ Go("collected")
  /\ UNCHANGED <<edit, out>>

(* A user edited the first node: whole groups of its fields are replaced.  *)
ApplyNodeOverrides ==
  /\ stage = "collected" /\ round = 1 /\ edit = None
  /\ \E e \in Edits :
       /\ nodes[1].type \in e.types
       /\ edit' = e
       /\ nodes' = [nodes EXCEPT ![1] = NormalizeNode(
                      [@ EXCEPT !.f = e.values @@ Without(@, e.group)])]
  /\ UNCHANGED <<stage, round, source, options, first, out>>

(* The options of the rendering override or complete a node.               *)
ApplyNodeRenderFlags(n) ==
  LET f == IF options.skipVerify THEN ("insecure" :> "on") @@ n.f ELSE n.f
  IN  [n EXCEPT !.f = IF options.udp THEN Default(f, "udp", "on") ELSE f]

(* What BuildFinalNodes keeps is written.                                  *)
RenderMihomo ==
  /\ stage = "collected"
  /\ LET renderable == SelectSeq(nodes, IsRenderable)
         final == FirstOfEach(renderable,
                              [i \in DOMAIN renderable |-> StableNodeID(renderable[i])])
     IN  out' = [i \in DOMAIN final |->
                   [type |-> final[i].type, from |-> final[i].from,
                    fields |-> BuildProxy(ApplyNodeRenderFlags(final[i]))]]
  /\ Go("written")
  /\ UNCHANGED <<nodes, edit>>

(* The file is a source.                                                   *)
Import ==
  /\ stage = "written" /\ round = 1 /\ out # <<>>
  /\ source' = [i \in DOMAIN out |->
                  [form |-> "yaml", type |-> out[i].type, fields |-> out[i].fields]]
  /\ first' = out /\ out' = <<>>
  /\ stage' = "parse" /\ round' = 2
  /\ UNCHANGED <<options, nodes, edit>>

Next == Parse \/ ApplyNodeOverrides \/ RenderMihomo \/ Import

Spec == Init /\ [][Next]_vars

-----------------------------------------------------------------------------
(* Properties.                                                             *)

LinkNetwork(p) ==
  IF Has(p.fields, "net") THEN p.fields["net"]
  ELSE IF Has(p.fields, "type") THEN p.fields["type"] ELSE "none"

(* The key under which mihomo reads what a link or a WireGuard file says.  *)
KeyForMihomo(p, k) ==
  LET network == LinkNetwork(p)
      same    == [x \in DOMAIN p.fields |-> x]
      names   == [id |-> "uuid", method |-> "cipher", scy |-> "cipher", aid |-> "alterId",
        net |-> "network", type |-> "network", security |-> "tls", fp |-> "client-fingerprint",
        insecure |-> "skip-cert-verify", packetEncoding |-> "packet-encoding",
        pbk |-> "reality-opts", congestion_control |-> "congestion-controller",
        udp_relay_mode |-> "udp-relay-mode", reduce_rtt |-> "reduce-rtt",
        psk |-> "pre-shared-key", serviceName |-> "grpc-name", mode |-> "xhttp-mode",
        sni |-> IF p.type \in {"vmess", "vless"} THEN "servername" ELSE "sni",
        path |-> CASE network = "h2" -> "h2-path" [] network = "xhttp" -> "xhttp-path"
                   [] OTHER -> "ws-path",
        host |-> IF network = "h2" THEN "h2-host" ELSE "ws-host",
        PrivateKey |-> "private-key", PublicKey |-> "public-key",
        PresharedKey |-> "pre-shared-key", Address |-> "ip", MTU |-> "mtu", DNS |-> "dns",
        AllowedIPs |-> "allowed-ips", PersistentKeepalive |-> "persistent-keepalive",
        Endpoint |-> "server"] @@ ("no-grpc-header" :> "xhttp-header")
                               @@ ("second peer" :> "peers")
  IN  IF p.form = "yaml" THEN k ELSE (names @@ same)[k]

(* What is known to be lost or replaced; README.md lists it.               *)
(*                                                                         *)
(* YAML: what is unknown in a mapping that is written anew.                *)
LostBesideKnown(p) ==
  LET more == {"ws-more", "grpc-more", "h2-more", "xhttp-more", "reality-more"}
      sure == {"xhttp-more", "reality-more"}
  IN  {k \in more \cap DOMAIN p.fields :
         /\ Section(k) \in {NetworkOf(p.fields) \o "-opts", "reality-opts"}
         /\ k \in sure \/ \E j \in DOMAIN p.fields \ more : Section(j) = Section(k)}

(* Links: settings of the transport that its parser does not read or its   *)
(* mapping does not have.                                                  *)
Carried(type, network) ==
  CASE network \in {"ws", "h2"} -> {"path", "host"}
    [] network = "grpc"  -> IF type = "vless" THEN {"serviceName"} ELSE {}
    [] network = "xhttp" -> IF type = "vless" THEN {"path", "mode", "no-grpc-header"}
                            ELSE {"path"}
    [] OTHER -> {}
LostByLinks == [
  ss |-> {"plugin"}, ssr |-> {"protocol", "protoparam", "obfsparam"},
  vmess |-> {"alpn", "header"}, vless |-> {"alpn"}, trojan |-> {"fp"}, anytls |-> {"ech"}]
LostInLink(p) ==
  {"unknown"} \cup (IF p.type \in DOMAIN LostByLinks THEN LostByLinks[p.type] ELSE {})
    \cup ({"path", "host", "serviceName", "mode", "no-grpc-header"}
             \ Carried(p.type, LinkNetwork(p)))

(* WireGuard files: of several peers the list is written, a value here.    *)
LostInConf(p) ==
  {"unknown"} \cup IF Has(p.fields, "second peer")
                     THEN {"PublicKey", "PresharedKey", "Endpoint", "AllowedIPs"} ELSE {}

NotServed(p) ==
  CASE p.form = "link" -> LostInLink(p)
    [] p.form = "conf" -> LostInConf(p)
    [] p.type = "trojan" -> LostBesideKnown(p) \cup {"client-fingerprint"}
    [] p.type = "hysteria2" /\ Has(p.fields, "obfs") /\ p.fields.obfs = "none" ->
         {"obfs", "obfs-password"}
    [] OTHER -> LostBesideKnown(p)

(* The value is written, or its normal form.  A flag that is off may be    *)
(* missing, and skip_tls_verify turns one on.                              *)
Serves(w, p, k) ==
  LET key == KeyForMihomo(p, k)
      v   == p.fields[k]
  IN  IF v = "off"
        THEN k # "tls" => \/ ~Has(w, key) \/ w[key] = "off"
                          \/ key = "skip-cert-verify" /\ options.skipVerify
        ELSE Has(w, key) /\ w[key] \in {v, Normal(p.type, key, v)}

(* Nodes are told apart by their endpoint and one credential: of two tuic  *)
(* nodes that differ in their password alone, one is collected.            *)
Login(p) ==
  LET order == <<"uuid", "id", "password", "private-key", "username">>
  IN  IF Some(p.fields, order) THEN FirstOf(p.fields, order) ELSE "none"
Endpoints(p) ==
  [k \in {"server", "port"} \cap DOMAIN p.fields |-> Normal(p.type, k, p.fields[k])]
Alone(i) ==
  \A j \in 1 .. (i - 1) : source[j].type # source[i].type
    \/ Login(source[j]) # Login(source[i]) \/ Endpoints(source[j]) # Endpoints(source[i])

(* A complete proxy is written, with the values its source gave but for    *)
(* those NotServed lists: the keys of a YAML proxy stay as they are, known *)
(* to the program or not, and what a link says is found where mihomo looks *)
(* for it.  Where a user edited the node, the edited values are written.   *)
ValuesAreServed ==
  stage = "written" => \A i \in DOMAIN source :
    IsRenderable(ParseEntry(source[i], i)) /\ Alone(i) =>
      \E w \in ToSet(out) :
        /\ w.from = i
        /\ IF edit # None /\ i = 1 /\ round = 1
             THEN \A k \in DOMAIN edit.keys : Has(w.fields, k) /\ w.fields[k] = edit.keys[k]
             ELSE \A k \in DOMAIN source[i].fields \ NotServed(source[i]) :
                    Serves(w.fields, source[i], k)

(* A written file, subscribed to, is written again as it was: nothing that *)
(* one rendering adds confuses the next.                                   *)
RenderingIsStable ==
  stage = "written" /\ round = 2 /\ edit = None /\ (\A w \in ToSet(first) : w.type # "ssr") =>
    {w.fields : w \in ToSet(out)} = {w.fields : w \in ToSet(first)}

(* "Explicit upstream fingerprints always win."  (renderer/mihomo.go)      *)
ExplicitFingerprintsWin ==
  stage = "written" => \A w \in ToSet(out) :
    Has(source[w.from].fields, "client-fingerprint") /\ Has(w.fields, "client-fingerprint") =>
      w.fields["client-fingerprint"] = source[w.from].fields["client-fingerprint"]

(* "Supported protocols include `ss`, `ssr`, ..."  (README.md): a proxy is *)
(* written with the fields that isRenderableNode asked of the node.        *)
RequiredFieldsAreWritten ==
  stage = "written" => \A w \in ToSet(out) :
    w.type = "ssr" => {"cipher", "protocol", "obfs", "password"} \subseteq DOMAIN w.fields
=============================================================================
