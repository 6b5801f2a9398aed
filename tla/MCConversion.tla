---------------------------- MODULE MCConversion ----------------------------
(* Conversion for model checking: Rendering with the inputs of MCRendering *)
(* and ProxyFields with those of ProxySources.                             *)
(*                                                                         *)
(* Editing: a subscription that gives its node a new connection, then both *)
(* connections with an entry that is not a node in front; another with a   *)
(* node of the same name; an inline and a custom node; every deduplication *)
(* scope; subscriptions switched off or removed; two edits.                *)
EXTENDS MCRendering, Conversion

Entry(name, connection) == [name |-> name, conn |-> connection]
Modes(first, second, inline) == [s1 |-> first, s2 |-> second, inline |-> inline]

TwoSubscriptions == <<"s1", "s2">>
VersionsServed == [s1 |-> {"v1", "v2", "v3"}, s2 |-> {"v4"}]
EntriesOf == [
  v1 |-> <<Entry("A", 1)>>, v2 |-> <<Entry("A", 2)>>,
  v3 |-> <<Entry("I", 9), Entry("A", 2), Entry("A", 1)>>,
  v4 |-> <<Entry("A", 3), Entry("B", 1)>>]
OneInline == <<Entry("M", 3)>>
OneAddition == {Entry("C", 1)}
EditConfigs ==
  [scope : {"global", "per_source", "none"}, mode : {Modes("on", "on", "on")}]
  \cup [scope : {"global", "per_source"}, mode : {Modes("absent", "on", "on")}]
  \cup [scope : {"global"}, mode : {Modes("on", "off", "on"), Modes("on", "on", "off")}]

Sources == INSTANCE ProxySources
AllSources == Sources!AllSources
AllEdits == Sources!AllEdits
AllOptions == Sources!AllOptions(None)
=============================================================================
