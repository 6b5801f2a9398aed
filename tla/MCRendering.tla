---------------------------- MODULE MCRendering -----------------------------
(* Bounded inputs for Rendering: a catalog with a category of every kind,  *)
(* two regions, and six families of configurations, each with the nodes    *)
(* that matter to it: up to three nodes where names are in question, one   *)
(* or two where rules, groups and providers are.                           *)
EXTENDS Rendering

Category(key, group, listed, providers, rules) ==
  [key |-> key, group |-> group, listed |-> listed, providers |-> providers, rules |-> rules]

(* One category of every kind: with exact members, in two places, with a   *)
(* service group, without a group, direct, and trailing.                   *)
SmallCatalog == <<
  Category("adblock", <<"adblock">>, FALSE, <<"ads">>, <<<<"ads", <<"adblock">>>>>>),
  Category("ai", <<"ai">>, TRUE, <<"openai">>, <<<<"openai", <<"ai">>>>>>),
  Category("domestic", <<"domestic">>, FALSE, <<"cn-ip", "cn">>,
           <<<<"cn-ip", <<"domestic">>>>>>),
  Category("aethersailor_direct", <<>>, FALSE, <<"direct-domain", "proxy-domain">>,
           <<<<"direct-domain", Direct>>, <<"proxy-domain", Select>>>>),
  Category("nonstandard_port", <<"ports">>, FALSE, <<"ports">>, <<<<"ports", <<"ports">>>>>>) >>
AllKeys == {SmallCatalog[i].key : i \in DOMAIN SmallCatalog}
TemplateKeys == {"domestic"}
TwoRegions == <<"HK", "JP">>

Node(name, region, info, hidden) ==
  [name |-> name, region |-> region, info |-> info, hidden |-> hidden]
Candidates == {
  Node(<<"A">>, "", FALSE, FALSE), Node(<<"A">>, "HK", FALSE, TRUE),
  Node(<<"plain", "A">>, "", FALSE, TRUE),
  Node(<<"A", "#2">>, "JP", FALSE, FALSE),
  Node(<<"region", "HK", "01">>, "HK", FALSE, FALSE),
  Node(<<"region", "HK">>, "HK", FALSE, FALSE), Node(<<"B">>, "JP", FALSE, FALSE),
  Node(<<"expires">>, "", TRUE, FALSE) }
NamedAlike == {n \in Candidates : n.name # <<"B">> /\ ~n.info}
NodeLists == UNION {[1 .. n -> Candidates] : n \in 0 .. 2} \cup [1 .. 3 -> NamedAlike]
UsualNodes == { <<Node(<<"A">>, "HK", FALSE, FALSE)>>,
  <<Node(<<"A">>, "", FALSE, FALSE), Node(<<"B">>, "JP", FALSE, FALSE)>> }

Base == [prefix |-> "plain", showInfo |-> FALSE, enabled |-> {"adblock", "ai", "domestic"},
  custom |-> <<>>, groups |-> <<>>, providers |-> <<>>, extra |-> <<>>, final |-> Final,
  regions |-> FALSE, full |-> TRUE, strict |-> TRUE, public |-> FALSE, template |-> FALSE]

(* Names: nodes that are called alike, like a suffix, like a region group. *)
NamingConfigs ==
  {[Base EXCEPT !.prefix = p, !.showInfo = i, !.regions = g, !.strict = s] :
     p \in {"none", "plain", "traffic", "subscription"}, i, g, s \in BOOLEAN}

(* Rules: two custom rules with the same label, the name of a category, of *)
(* a region; the key of a provider of the catalog.                         *)
CustomRule(k, l, m, t, s) ==
  [key |-> k, label |-> l, mode |-> m, target |-> t, source |-> s, path |-> <<>>,
   mrs |-> FALSE, enabled |-> TRUE]
FirstRules ==
  {CustomRule("k1", l, m, t, s) :
     l \in {<<"L">>, <<"ai">>, Region("HK")}, m \in {"new_group", "existing_group", "direct"},
     t \in {Select, <<"PROXY">>, Region("HK"), <<"L", "2">>},
     s \in {"inline", "http", "group_only"}}
SecondRules ==
  {CustomRule(k, l, m, t, "inline") :
     k \in {"k1", "k2", "openai"}, l \in {<<"L">>, <<>>}, m \in {"new_group", "existing_group"},
     t \in {Select, <<"L">>, <<>>}}
RuleConfigs ==
  {[Base EXCEPT !.custom = c, !.regions = g, !.strict = s] :
     c \in {<<a>> : a \in FirstRules} \cup {<<a, b>> : a \in FirstRules, b \in SecondRules},
     g, s \in BOOLEAN}
  \cup {[Base EXCEPT !.custom = <<a>>, !.template = TRUE, !.enabled = e, !.public = p] :
          a \in {r \in FirstRules : r.target = Select}, e \in SUBSET AllKeys, p \in BOOLEAN}

(* Files: two rule sets that mihomo fetches or reads itself, at the path   *)
(* they get or at one of the user's, perhaps that of another provider.     *)
InFile(k, s, p) ==
  [CustomRule(k, <<k>>, "new_group", <<k>>, s) EXCEPT !.path = p, !.mrs = TRUE]
FilePaths == {<<>>, <<"file">>, <<"ruleset", "ads">>, <<"ruleset", "k1">>}
FileConfigs ==
  {[Base EXCEPT !.custom = <<InFile("k1", s, p), [InFile("k2", t, q) EXCEPT !.enabled = e]>>,
                !.strict = f] :
     s, t \in {"http", "file", "inline"}, p, q \in FilePaths, e, f \in BOOLEAN}

(* Labels that are names of something else: the alias of the main          *)
(* selection, a built-in policy, a category that may be off, a region's    *)
(* groups, a node; and a rule that is also one of the catalog.             *)
LabelConfigs ==
  {[Base EXCEPT !.custom = <<CustomRule(k, l, m, t, "inline")>>, !.enabled = e,
                !.regions = g, !.strict = s] :
     k \in {"k1", "openai"},
     l \in {<<"PROXY">>, Direct, <<"domestic">>, RegionAuto("JP"), <<"plain", "A">>, Select},
     m \in {"new_group", "existing_group"}, t \in {Select, <<"ai">>},
     e \in {{"ai"}, Base.enabled}, g, s \in BOOLEAN}

(* The user's own groups, providers and lines.                             *)
OwnGroups == {<<>>} \cup
  {<<[name |-> n, type |-> t, enabled |-> e, members |-> m]>> :
     n \in {<<"G">>, <<"ai">>, Final}, t \in {"select", "url-test"}, e \in BOOLEAN,
     m \in {<<>>, <<<<"plain", "A">>>>, <<Select, <<"plain", "B">>>>, <<<<"G">>>>}}
OwnProviders == {<<>>} \cup
  {<<[name |-> n, policy |-> p, enabled |-> TRUE, path |-> f, badShape |-> b]>> :
     n \in {"p1", "openai"}, p \in {<<"G">>, <<"PROXY">>},
     f \in {<<>>, <<"ruleset", "ads">>}, b \in BOOLEAN}
OwnLines == {<<>>, <<Match(Final)>>, <<Match(<<"PROXY">>)>>,
  <<Rule("DOMAIN", "", <<"G">>), Rule("DOMAIN", "", <<"PROXY">>)>>}
OwnConfigs ==
  {[Base EXCEPT !.groups = g, !.providers = p, !.extra = x, !.final = f, !.strict = s,
                !.enabled = {"ai"}] :
     g \in OwnGroups, p \in OwnProviders, x \in OwnLines,
     f \in {Final, Select, <<"G">>}, s \in BOOLEAN}

Case(configs, lists) == [configs |-> configs, nodes |-> lists]
AllInputs == <<
  Case(NamingConfigs, NodeLists), Case({[Base EXCEPT !.public = TRUE]}, NodeLists),
  Case(RuleConfigs \cup LabelConfigs \cup FileConfigs, UsualNodes),
  Case(OwnConfigs, UsualNodes) >>
=============================================================================
