--------------------------- MODULE MCProxyFields ----------------------------
(* ProxyFields with the inputs of ProxySources.                            *)
EXTENDS ProxyFields

Sources == INSTANCE ProxySources
AllSources == Sources!AllSources
AllEdits == Sources!AllEdits
AllOptions == Sources!AllOptions(None)
=============================================================================
