---------------------------- MODULE ProxySources ----------------------------
(***************************************************************************)
(* Bounded inputs for ProxyFields.  A value is the key it came under, so   *)
(* that a value written under the wrong key shows; flags are on or off.    *)
(* Every type is given in each form that has a parser, with its required   *)
(* keys and all, none, one, two, or all but one of the others, one of them *)
(* unknown to the program; with every transport and the settings it may    *)
(* have there, with known and unknown keys of a nested mapping; with flags *)
(* switched off; with values that are not normal; and in pairs: a second   *)
(* copy with an unknown key, with one value changed or spelled in another  *)
(* way, and a first copy in which one value is missing.  One key stands    *)
(* for settings that are treated alike (idle-session for three of anytls,  *)
(* -more for unknown keys of a nested mapping).                            *)
(***************************************************************************)
EXTENDS Integers, Sequences, FiniteSets, FiniteSetsExt, TLC

CONSTANT Edited

Flag == {"tls", "udp", "skip-cert-verify", "insecure", "security", "reduce-rtt"}
Fields(keys) == [k \in keys |-> IF k \in Flag THEN "on" ELSE k]
Shape(type, required, optional) ==
  [type |-> type, required |-> {"server", "port"} \cup required, optional |-> optional]
Proxy(form, shape, fields) ==
  [form |-> form, type |-> shape.type, fields |-> fields @@ Fields(shape.required)]

TLSKeys == {"sni", "servername", "alpn", "skip-cert-verify"}
LinkTLSKeys == {"sni", "alpn", "insecure"}
Login == {"username", "password"}
HopKeys == {"ports", "mport", "up", "hop-interval"}

YamlShapes == {
  Shape("ss", {"cipher", "password"}, {}),
  Shape("ssr", {"cipher", "password", "protocol", "obfs"}, {"protocol-param", "obfs-param"}),
  Shape("vmess", {"uuid"}, {"sni", "servername", "tls", "client-fingerprint", "cipher",
    "encryption", "alterId", "alpn"}),
  Shape("vless", {"uuid"}, {"sni", "servername", "tls", "skip-cert-verify", "flow", "alpn",
    "client-fingerprint", "encryption", "packet-encoding", "reality-opts"}),
  Shape("trojan", {"password"}, TLSKeys \cup {"tls", "client-fingerprint"}),
  Shape("hysteria", {"auth-str"}, TLSKeys \cup HopKeys
    \cup {"obfs", "obfs-param", "protocol", "password"}),
  Shape("hysteria2", {"password"}, TLSKeys \cup HopKeys),
  Shape("tuic", {"uuid", "password"}, TLSKeys
    \cup {"congestion-controller", "udp-relay-mode", "reduce-rtt"}),
  Shape("anytls", {"password"}, TLSKeys \cup {"client-fingerprint", "idle-session"}),
  Shape("mieru", Login \cup {"transport"}, {"port-range", "multiplexing"}),
  Shape("http", {}, TLSKeys \cup Login \cup {"tls"}),
  Shape("socks5", {}, TLSKeys \cup Login \cup {"tls"}),
  Shape("wireguard", {"private-key"}, {"public-key", "pre-shared-key", "ip", "ipv6", "mtu",
    "allowed-ips", "reserved", "persistent-keepalive", "dns", "remote-dns-resolve",
    "amnezia-wg-option", "peers"}) }

LinkShapes == {
  Shape("ss", {"method", "password"}, {"plugin"}),
  Shape("ssr", {"method", "password", "protocol", "obfs"}, {"protoparam", "obfsparam"}),
  Shape("vmess", {"id"}, {"sni", "alpn", "fp", "tls", "aid", "scy", "header"}),
  Shape("vless", {"uuid"}, LinkTLSKeys
    \cup {"fp", "security", "pbk", "flow", "encryption", "packetEncoding"}),
  Shape("trojan", {"password"}, LinkTLSKeys \cup {"fp"}),
  Shape("hysteria2", {"password"}, LinkTLSKeys \cup HopKeys \cup {"down"}),
  Shape("tuic", {"uuid", "password"}, LinkTLSKeys
    \cup {"reduce_rtt", "congestion_control", "udp_relay_mode"}),
  Shape("anytls", {"password"}, LinkTLSKeys \cup {"fp", "ech", "idle-session"}),
  Shape("mieru", Login \cup {"transport"}, {"port-range", "multiplexing", "udp"}),
  Shape("http", {}, LinkTLSKeys \cup Login \cup {"tls", "udp"}),
  Shape("socks5", {}, LinkTLSKeys \cup Login \cup {"tls", "udp"}),
  Shape("wireguard", {"private-key"}, {"public-key", "psk", "ip", "ipv6", "allowed-ips", "mtu",
    "reserved", "persistent-keepalive", "dns", "remote-dns-resolve"}) }

ConfShape == Shape("wireguard", {"PrivateKey", "PublicKey", "Endpoint"},
  {"PresharedKey", "Address", "MTU", "DNS", "AllowedIPs", "PersistentKeepalive", "unknown",
   "second peer"})

ShapeOf(shapes, type) == CHOOSE s \in shapes : s.type = type
Few(S) == {{}, S} \cup UNION {kSubset(n, S) : n \in 1 .. 2} \cup {S \ {x} : x \in S}

Plain ==
  UNION {{Proxy("yaml", s, Fields(o)) : o \in Few(s.optional \cup {"udp", "unknown"})} :
           s \in YamlShapes}
  \cup UNION {{Proxy("link", s, Fields(o)) : o \in Few(s.optional \cup {"unknown"})} :
                   s \in LinkShapes}
  \cup {[form |-> "conf", type |-> "wireguard",
         fields |-> Fields((ConfShape.required \ {"server", "port"}) \cup o)] :
          o \in Few(ConfShape.optional)}

Nested(network, keys) == ("network" :> network) @@ Fields(keys)
YamlTransports ==
  {Nested("ws", k) : k \in SUBSET {"ws-path", "ws-host", "ws-more"} \cup {{"h2-path", "h2-more"}}}
  \cup {Nested("grpc", k) : k \in SUBSET {"grpc-name", "grpc-more"} \cup {{"ws-path"}}}
  \cup {Nested("h2", k) : k \in SUBSET {"h2-path", "h2-host", "h2-more"}}
  \cup {Nested("xhttp", k) : k \in SUBSET {"xhttp-path", "xhttp-mode", "xhttp-header",
                                           "xhttp-more"}}
  \cup {Nested("tcp", {})}
LinkTransports(key, keys) ==
  {(key :> n) @@ Fields(k) : n \in {"ws", "h2", "grpc", "xhttp", "tcp"}, k \in Few(keys)}
TransportKeys == {"path", "host", "serviceName", "mode", "no-grpc-header"}

Transported ==
  {Proxy("yaml", ShapeOf(YamlShapes, t), x) : t \in {"vmess", "vless", "trojan"},
     x \in YamlTransports}
  \cup {Proxy("yaml", ShapeOf(YamlShapes, "vless"), Fields({"reality-opts", "reality-more"}))}
  \cup {Proxy("link", ShapeOf(LinkShapes, "vmess"), x) :
          x \in LinkTransports("net", {"path", "host"})}
  \cup {Proxy("link", ShapeOf(LinkShapes, t), x) : t \in {"vless", "trojan"},
          x \in LinkTransports("type", TransportKeys)}

SwitchedOff ==
  {Proxy("yaml", s, x) : s \in YamlShapes,
     x \in {k :> "off" : k \in Flag \cup {"remote-dns-resolve"}}
             \cup {("tls" :> "off") @@ Fields({"sni"})}}

Obfuscated ==
  {Proxy("yaml", ShapeOf(YamlShapes, "hysteria2"), ("obfs" :> o) @@ Fields(k)) :
     o \in {"none", "salamander", "SALAMANDER", "other"}, k \in SUBSET {"obfs-password"}}
  \cup {Proxy("link", ShapeOf(LinkShapes, "hysteria2"), ("obfs" :> o) @@ Fields(k)) :
     o \in {"salamander", "SALAMANDER", "other"}, k \in SUBSET {"obfs-password"}}

(* A server in upper case, ALPN in the order of someone's preference.      *)
Spelled(form, shapes) ==
  {Proxy(form, s, [server |-> "SERVER"]) : s \in shapes}
  \cup {Proxy(form, s, [alpn |-> "unsorted alpn"]) : s \in {t \in shapes : "alpn" \in t.optional}}

Bare == {Proxy("yaml", s, <<>>) : s \in YamlShapes} \cup {Proxy("link", s, <<>>) : s \in LinkShapes}
Pairs(p) ==
  {<<p, [p EXCEPT !.fields = @ @@ Fields({"unknown"})]>>}
  \cup {<<p, [p EXCEPT !.fields[k] = @ \o "2"]>> : k \in DOMAIN p.fields}
  \cup {<<p, [p EXCEPT !.fields["server"] = "SERVER"]>>}
  \cup {<<[p EXCEPT !.fields = [x \in DOMAIN @ \ {k} |-> @[x]]], p>> : k \in DOMAIN p.fields}

AllSources ==
  {<<p>> : p \in Plain \cup Transported \cup SwitchedOff \cup Obfuscated
                  \cup Spelled("yaml", YamlShapes) \cup Spelled("link", LinkShapes)}
  \cup UNION {Pairs(p) : p \in Bare}

(* Options of a rendering: the default fingerprint, and flags for all.     *)
AllOptions(none) ==
  {[fingerprint |-> none, skipVerify |-> FALSE, udp |-> FALSE],
   [fingerprint |-> "chrome", skipVerify |-> FALSE, udp |-> TRUE],
   [fingerprint |-> none, skipVerify |-> TRUE, udp |-> TRUE]}

-----------------------------------------------------------------------------
(* Edits: the types of nodes, the group that is replaced, its new values,  *)
(* and what the file should then say.  An empty value and a flag that is   *)
(* switched off are left out, as are the password of a hysteria node and   *)
(* the server of a WireGuard node, which may have peers: these edits are   *)
(* accepted and have no effect on a node from a YAML source.               *)

Edit(types, group, values, keys) ==
  [types |-> types, group |-> group, values |-> values, keys |-> keys]

TLSGroup == {"tls", "sni", "alpn", "insecure", "clientFingerprint", "reality"}
AuthGroup == {"password", "uuid", "username", "privateKey", "publicKey", "preSharedKey"}
TransportGroup == {"network", "path", "host", "serviceName", "mode", "grpcHeader"}
WithPassword == {"ss", "ssr", "trojan", "hysteria2", "tuic", "anytls", "mieru", "http", "socks5"}

AllEdits == {
  Edit(WithPassword \cup {"vmess", "vless", "hysteria"}, {}, [server |-> Edited],
       [server |-> Edited]),
  Edit({"vmess", "vless"}, TLSGroup,
       [tls |-> "on", sni |-> Edited, clientFingerprint |-> Edited],
       [servername |-> Edited] @@ ("client-fingerprint" :> Edited)),
  Edit({"trojan", "hysteria", "hysteria2", "tuic", "anytls", "http", "socks5"}, TLSGroup,
       [tls |-> "on", sni |-> Edited, insecure |-> "on"],
       [sni |-> Edited] @@ ("skip-cert-verify" :> "on")),
  Edit(WithPassword, AuthGroup,
       [password |-> Edited, uuid |-> Edited, username |-> Edited], [password |-> Edited]),
  Edit({"vmess", "vless"}, AuthGroup, [uuid |-> Edited], [uuid |-> Edited]),
  Edit({"vmess", "vless", "trojan"}, TransportGroup,
       [network |-> "ws", path |-> Edited, host |-> Edited],
       [network |-> "ws"] @@ ("ws-path" :> Edited) @@ ("ws-host" :> Edited)) }
=============================================================================
