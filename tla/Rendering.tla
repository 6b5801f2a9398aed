----------------------------- MODULE Rendering -----------------------------
(***************************************************************************)
(* From a saved configuration and the nodes that were collected to the     *)
(* configuration file mihomo reads: config.Normalize and config.Validate,  *)
(* the tail of BuildFinalNodes, RenderConfigWithProgress and RenderMihomo, *)
(* with the two checks every output passes, ValidateMihomoConfig (lint.go) *)
(* and ValidateFinalConfig (output_validation.go).                         *)
(*                                                                         *)
(* Nodes, groups and rule targets all refer to one another by name.  A     *)
(* name is a sequence of words: a suffix or a prefix is one word more, so  *)
(* <<"A", "#2">> is what the second of two nodes called A is renamed to    *)
(* and what an upstream may call a node of its own.                        *)
(***************************************************************************)
EXTENDS Integers, Sequences, FiniteSets, SequencesExt, TLC

CONSTANTS
  Catalog,        \* the rule categories in output order (rule_catalog.go)
  Preset,         \* the categories a template enables (templatecatalog)
  Regions,        \* region tags, in the order of regionGroups
  Inputs,         \* cases: configurations, each with any of the collected nodes
  PublicMaxNodes  \* PublicMaxFinalNodes

Text == Seq(STRING)
Categories ==
  [key : STRING, group : Text, listed : BOOLEAN, providers : Seq(STRING),
   rules : Seq(STRING \X Text)]
Rules == [kind : STRING, provider : STRING, target : Text]
CustomRules ==
  [key : STRING, label : Text, mode : STRING, target : Text, source : STRING,
   path : Text, mrs : BOOLEAN, enabled : BOOLEAN]
CustomGroups == [name : Text, type : STRING, enabled : BOOLEAN, members : Seq(Text)]
RuleProviders ==
  [name : STRING, policy : Text, enabled : BOOLEAN, path : Text, badShape : BOOLEAN]
Configurations ==
  [prefix : STRING, showInfo : BOOLEAN, enabled : SUBSET STRING, custom : Seq(CustomRules),
   groups : Seq(CustomGroups), providers : Seq(RuleProviders), extra : Seq(Rules),
   final : Text, regions : BOOLEAN, full : BOOLEAN, strict : BOOLEAN, public : BOOLEAN,
   template : BOOLEAN]

(* True of TLA+'s strings, and not known to the provers of TLAPS.          *)
ASSUME StringsAssumption ==
  {"select", "auto", "final", "DIRECT", "REJECT", "domestic", "cn", "", "inline",
   "RULE-SET", "MATCH", "catalog", "custom", "provider", "ruleset", "rule-providers",
   "file", "region", "region auto"} \subseteq STRING

ASSUME InputsAssumption ==
  /\ Catalog \in Seq(Categories) /\ Preset \in SUBSET STRING /\ Regions \in Seq(STRING)
  /\ \A i \in DOMAIN Inputs :
       /\ Inputs[i].configs \subseteq Configurations
       /\ \A s \in Inputs[i].nodes : s \in Seq({s[j] : j \in DOMAIN s})

VARIABLES
  stage,     \* how far RenderConfig is, "written" or "refused" in the end
  cfg,       \* the configuration
  nodes,     \* the collected nodes, later the final ones
  excluded,  \* the audit: names of the nodes that were filtered out
  out,       \* proxies, groups, providers and rules
  warned,    \* the audit says output_validation_failed
  why        \* what refused it

vars == <<stage, cfg, nodes, excluded, out, warned, why>>

Select == <<"select">>
AutoSelect == <<"auto">>
Final == <<"final">>
Direct == <<"DIRECT">>
Reject == <<"REJECT">>
Builtin == {Direct, Reject, <<"REJECT-DROP">>, <<"PASS">>}
Region(tag) == <<"region", tag>>
RegionAuto(tag) == <<"region auto", tag>>
AutoTypes == {"url-test", "fallback", "load-balance"}

Elements(s) == {s[i] : i \in DOMAIN s}
Names(s) == [i \in DOMAIN s |-> s[i].name]
Keep(s, S) == FoldLeft(LAMBDA acc, x : IF x \in S THEN Append(acc, x) ELSE acc, <<>>, s)
UniqueOrdered(s) ==
  FoldLeft(LAMBDA acc, x : IF Contains(acc, x) THEN acc ELSE Append(acc, x), <<>>, s)
Concat(ss) == FoldLeft(LAMBDA acc, s : acc \o s, <<>>, ss)
NoDuplicates(s) == Cardinality(Elements(s)) = Len(s)

-----------------------------------------------------------------------------
(* config.Normalize and config.Validate.                                   *)

(* A rule that makes a group of its own is named after its label, whatever *)
(* target an older editor left behind.                                     *)
NormalizeCustomRule(r) ==
  [r EXCEPT !.target = CASE r.mode = "new_group" -> r.label
                         [] r.mode = "direct"    -> Direct
                         [] r.mode = "reject"    -> Reject
                         [] OTHER                -> r.target]

Normalize(c) ==
  [c EXCEPT !.custom = [i \in DOMAIN c.custom |-> NormalizeCustomRule(c.custom[i])]]

ValidCustomRules(rules) ==
  /\ NoDuplicates([i \in DOMAIN rules |-> rules[i].key])
  /\ \A r \in Elements(rules) :
       r.label # <<>> /\ r.target # <<>> /\ (r.source = "file" => r.path # <<>>)

Valid(c) ==
  /\ ValidCustomRules(c.custom)
  /\ NoDuplicates(Names(c.providers)) /\ NoDuplicates(Names(c.groups))
  /\ \A g \in Elements(c.groups) : g.members # <<>>

(* A public instance does not fetch rules for its users.                   *)
ValidForPublic(c) ==
  c.public => \A r \in Elements(c.custom) : r.source # "http"

-----------------------------------------------------------------------------
(* The end of BuildFinalNodes: names.                                      *)

(* EnsureUniqueProxyNames counts how often each name was met as it came.   *)
Count(s, i) == Cardinality({j \in 1 .. i : s[j].name = s[i].name})
EnsureUnique(s) ==
  [i \in DOMAIN s |->
     IF Count(s, i) = 1 THEN s[i]
     ELSE [s[i] EXCEPT !.name = @ \o <<"#" \o ToString(Count(s, i))>>]]

Prefixed(c, n) == IF c.prefix = "none" THEN n ELSE [n EXCEPT !.name = <<c.prefix>> \o @]

Filtered(c, n) == n.hidden \/ (n.info /\ ~c.showInfo)

(* Both packages take a node for an informational one by words in its      *)
(* name; the prefix is part of the name, and "subscription" is a word of   *)
(* looksLikeInfoNode that rendererInfoNode does not have.                  *)
IsInfoNode(c, n) == n.info \/ c.prefix \in {"traffic", "subscription"}
RendererInfoNode(c, n) == n.info \/ c.prefix = "traffic"

-----------------------------------------------------------------------------
(* Options and rule catalog.                                               *)

ApplyTemplateMode(c) ==
  IF c.template THEN [c EXCEPT !.custom = <<>>, !.enabled = Preset] ELSE c

WithKey(cats, keys) == Keep(cats, {cat \in Elements(cats) : cat.key \in keys})
Enabled(c) == WithKey(Catalog, c.enabled)

(* orderedRuleCategoriesForRules: the rules for direct connections move to *)
(* the front, behind the blocked sites only if everything is enabled.      *)
FrontKeys(c) ==
  LET direct == <<"private", "aethersailor_direct", "game_direct">>
  IN  IF Len(Enabled(c)) = Len(Catalog) THEN <<"adblock">> \o direct
      ELSE IF {"aethersailor_direct", "game_direct"} \cap c.enabled # {} THEN direct
      ELSE <<>>

CategoriesForRules(c) ==
  UniqueOrdered(
    Concat([i \in DOMAIN FrontKeys(c) |-> WithKey(Enabled(c), {FrontKeys(c)[i]})])
    \o Enabled(c))

-----------------------------------------------------------------------------
(* Custom rules.                                                           *)

Numbered(name, i) == Append(name, ToString(i))
UniqueGroupName(name, reserved) ==
  IF name \notin reserved THEN name
  ELSE Numbered(name, Min({i \in 2 .. Cardinality(reserved) + 2 :
                             Numbered(name, i) \notin reserved}))

Alias(target) == IF target = <<"PROXY">> THEN Select ELSE target

Reserved(c, regionNames) ==
  {Select, AutoSelect, Final} \cup regionNames
    \cup {cat.group : cat \in Elements(Enabled(c))} \cup Elements(Names(c.groups))

SwitchedOn(s) == Keep(s, {x \in Elements(s) : x.enabled})

(* resolveCustomRules: the target of every enabled rule, and whether a     *)
(* group is made for it.                                                   *)
CreatesGroup(r) ==
  r.mode = "new_group" \/ (r.mode = "existing_group" /\ Alias(r.target) = Select)

ResolveOne(acc, r) ==
  LET name == IF CreatesGroup(r) THEN UniqueGroupName(r.label, acc.reserved)
              ELSE Alias(r.target)
  IN  [reserved |-> IF CreatesGroup(r) THEN acc.reserved \cup {name} ELSE acc.reserved,
       rules |-> Append(acc.rules, [rule |-> r, target |-> name,
                                    creates |-> CreatesGroup(r),
                                    hasProvider |-> r.source # "group_only"])]

ResolveCustomRules(c, regionNames) ==
  FoldLeft(ResolveOne, [reserved |-> Reserved(c, regionNames), rules |-> <<>>],
           SwitchedOn(c.custom)).rules

-----------------------------------------------------------------------------
(* Groups.                                                                 *)

(* regionGroups that have nodes, if region groups are wanted.              *)
MembersOf(regular, tag) ==
  UniqueOrdered(Names(Keep(regular, {n \in Elements(regular) : n.region = tag})))
RegionTags(c, regular) ==
  IF c.regions THEN Keep(Regions, {t \in Elements(Regions) : MembersOf(regular, t) # <<>>})
  ELSE <<>>
RegionReserved(tags) ==
  {Region(t) : t \in Elements(tags)} \cup {RegionAuto(t) : t \in Elements(tags)}

Group(name, type, members) == [name |-> name, type |-> type, members |-> members]

IfAny(s, t) == IF s = <<>> THEN <<>> ELSE t
RegionNames(tags) == [i \in DOMAIN tags |-> Region(tags[i])]

(* Mutant: the groups for local and domestic sites forget that AutoSelect  *)
(* is not there when no node is left to test.                              *)
ServiceMembersWithAuto(c, key, regular, tags) ==
  CASE key = "adblock" -> <<Reject, Direct, Select>>
    [] key \in {"private", "domestic"} -> <<Direct, Reject, AutoSelect>>
    [] OTHER -> <<Select, AutoSelect, Direct, Reject>>
                  \o RegionNames(tags) \o (IF c.full THEN Names(regular) ELSE <<>>)

ServiceMembers(c, key, regular, tags) ==
  CASE key = "adblock" -> <<Reject, Direct, Select>>
    [] key \in {"private", "domestic"} ->
         <<Direct, Reject, Select>> \o IfAny(regular, <<AutoSelect>>)
    [] OTHER -> <<Select>> \o IfAny(regular, <<AutoSelect>>) \o <<Direct, Reject>>
                  \o RegionNames(tags) \o (IF c.full THEN Names(regular) ELSE <<>>)

MainMembers(regular, tags) ==
  IF regular = <<>> THEN <<Direct, Reject>>
  ELSE <<AutoSelect, Direct, Reject>> \o RegionNames(tags) \o Names(regular)

(* Mutant: a region leads back to the main selection.                      *)
RegionMembersWithSelect(regular, tag) ==
  <<RegionAuto(tag), Direct, Select>> \o MembersOf(regular, tag)

RegionMembers(regular, tag) == <<RegionAuto(tag), Direct>> \o MembersOf(regular, tag)

RegionGroups(regular, tags) ==
  Concat([i \in DOMAIN tags |->
    <<Group(RegionAuto(tags[i]), "url-test", MembersOf(regular, tags[i])),
      Group(Region(tags[i]), "select", RegionMembers(regular, tags[i]))>>])

RuleGroups(c, regular, tags) ==
  LET all  == ResolveCustomRules(c, RegionReserved(tags))
      cats == Keep(Enabled(c), {cat \in Elements(Catalog) : cat.group # <<>>})
      made == Keep(all, {r \in Elements(all) : r.creates})
  IN  [i \in DOMAIN cats |-> Group(cats[i].group, "select",
                               ServiceMembers(c, cats[i].key, regular, tags))]
        \o [i \in DOMAIN made |-> Group(made[i].target, "select",
                                    ServiceMembers(c, "", regular, tags))]

CustomProxyGroups(c) ==
  LET on == SwitchedOn(c.groups)
  IN  [i \in DOMAIN on |-> Group(on[i].name, on[i].type, on[i].members)]

(* sanitizeGeneratedProxyGroups: a group that tests its members has real   *)
(* nodes only, and may be left with none.                                  *)
Sanitize(g, realNames) ==
  IF g.type \in AutoTypes
    THEN [g EXCEPT !.members = Keep(@, realNames)] ELSE g

BuildProxyGroups(c, proxies) ==
  LET regular == Keep(proxies, {n \in Elements(proxies) : ~RendererInfoNode(c, n)})
      tags    == RegionTags(c, regular)
      all     == <<Group(Select, "select", MainMembers(regular, tags)),
                   Group(AutoSelect, "url-test", Names(regular))>>
                 \o RegionGroups(regular, tags) \o RuleGroups(c, regular, tags)
                 \o <<Group(Final, "select", ServiceMembers(c, "", regular, tags))>>
                 \o CustomProxyGroups(c)
      some    == Keep(all, {g \in Elements(all) : g.members # <<>>})
  IN  [i \in DOMAIN some |->
         Sanitize([some[i] EXCEPT !.members = UniqueOrdered(@)], Elements(Names(regular)))]

-----------------------------------------------------------------------------
(* Rules and providers.                                                    *)

Rule(kind, provider, target) == [kind |-> kind, provider |-> provider, target |-> target]
RuleSet(provider, target) == Rule("RULE-SET", provider, target)
Match(target) == Rule("MATCH", "", target)

CategoryRules(cats) ==
  Concat([i \in DOMAIN cats |->
    [j \in DOMAIN cats[i].rules |-> RuleSet(cats[i].rules[j][1], cats[i].rules[j][2])]])

(* All domestic sites come after the other categories, and ports that are  *)
(* not standard after those.                                               *)
BuiltinRules(c) ==
  CategoryRules(WithKey(CategoriesForRules(c), c.enabled \ {"nonstandard_port"}))
    \o (IF "domestic" \in c.enabled THEN <<RuleSet("cn", <<"domestic">>)>> ELSE <<>>)
    \o CategoryRules(WithKey(CategoriesForRules(c), {"nonstandard_port"}))

WithProvider(c) ==
  LET all == ResolveCustomRules(c, {}) IN Keep(all, {r \in Elements(all) : r.hasProvider})

CustomRuleLines(c) ==
  LET on == WithProvider(c)
  IN  [i \in DOMAIN on |-> RuleSet(on[i].rule.key, on[i].target)]

ProviderRules(c) ==
  LET on == SwitchedOn(c.providers)
  IN  [i \in DOMAIN on |-> RuleSet(on[i].name, on[i].policy)]

(* A line of two parts, such as MATCH and its target, is left as it is.    *)
WithAlias(line) ==
  IF line.kind = "MATCH" THEN line ELSE [line EXCEPT !.target = Alias(@)]
AliasTargets(rules) == UniqueOrdered([i \in DOMAIN rules |-> WithAlias(rules[i])])

(* mergeRules: the user's rules, then the built-in ones, MATCH last.       *)
(* Mutant: the built-in rules first.                                       *)
BuiltinRulesFirst(c) ==
  UniqueOrdered(BuiltinRules(c) \o AliasTargets(CustomRuleLines(c))
    \o AliasTargets(c.extra) \o AliasTargets(ProviderRules(c)) \o <<Match(c.final)>>)

BuildRules(c) ==
  UniqueOrdered(AliasTargets(CustomRuleLines(c)) \o AliasTargets(c.extra)
    \o AliasTargets(ProviderRules(c)) \o BuiltinRules(c) \o <<Match(c.final)>>)

(* buildRuleProviders: by name, the later entry replaces the earlier: the  *)
(* catalog, the configured providers, the custom rules.                    *)
Provider(name, owner, path, badShape) ==
  [name |-> name, owner |-> owner, path |-> path, badShape |-> badShape]
LastNamed(s, name) == s[Max({i \in DOMAIN s : s[i].name = name})]
ByName(s) == [name \in Elements(Names(s)) |-> LastNamed(s, name)]

(* Where the rules of a custom rule lie; an inline one has no file.        *)
CustomPath(r) ==
  CASE r.source = "http" -> IF r.path = <<>> THEN <<"ruleset", r.key>> ELSE r.path
    [] r.source = "file" -> r.path
    [] OTHER             -> <<>>

CatalogProviders(c) ==
  Concat([i \in DOMAIN Enabled(c) |->
    LET names == Enabled(c)[i].providers
    IN  [j \in DOMAIN names |->
           Provider(names[j], "catalog", <<"ruleset", names[j]>>, FALSE)]])

BuildRuleProviders(c) ==
  LET users  == SwitchedOn(c.providers)
      custom == WithProvider(c)
  IN  ByName(CatalogProviders(c)
        \o [i \in DOMAIN users |-> Provider(users[i].name, "provider",
              IF users[i].path = <<>> THEN <<"rule-providers", users[i].name>>
              ELSE users[i].path, users[i].badShape)]
        \o [i \in DOMAIN custom |->
              Provider(custom[i].rule.key, "custom", CustomPath(custom[i].rule), FALSE)])

-----------------------------------------------------------------------------
(* ValidateMihomoConfig with failOnCriticalWarnings.                       *)

SomeEqual(s) == ~NoDuplicates(s)
MemberResolves(o, m) ==
  m \in Builtin \/ m \in Elements(Names(o.proxies)) \/ m \in Elements(Names(o.groups))
TargetResolves(o, t) == t \in Builtin \/ t \in Elements(Names(o.groups))

SharedPath(providers) ==
  \E p, q \in DOMAIN providers :
    p # q /\ providers[p].path # <<>> /\ providers[p].path = providers[q].path

(* Where the last MATCH rule is.                                           *)
LastMatch(rules) == Max({i \in DOMAIN rules : rules[i].kind = "MATCH"} \cup {0})

(* Mutant: the targets of rules are not looked up.                         *)
CriticalWithoutTargets(o) ==
  \/ SomeEqual(Names(o.proxies))
  \/ SomeEqual(Names(o.groups))
  \/ SharedPath(o.providers)
  \/ \E p \in DOMAIN o.providers : o.providers[p].badShape
  \/ \E g \in Elements(o.groups) : \E m \in Elements(g.members) : ~MemberResolves(o, m)
  \/ \E r \in Elements(o.rules) : r.kind = "RULE-SET" /\ r.provider \notin DOMAIN o.providers
  \/ LastMatch(o.rules) # Len(o.rules)

Critical(o) ==
  \/ SomeEqual(Names(o.proxies))
  \/ SomeEqual(Names(o.groups))
  \/ SharedPath(o.providers)
  \/ \E p \in DOMAIN o.providers : o.providers[p].badShape
  \/ \E g \in Elements(o.groups) : \E m \in Elements(g.members) : ~MemberResolves(o, m)
  \/ \E r \in Elements(o.rules) : r.kind = "RULE-SET" /\ r.provider \notin DOMAIN o.providers
  \/ \E r \in Elements(o.rules) : r.kind # "MATCH" /\ ~TargetResolves(o, r.target)
  \/ LastMatch(o.rules) # Len(o.rules)

-----------------------------------------------------------------------------
(* ValidateFinalNodeSet and ValidateFinalConfig.                           *)

LeaksExcluded(final, names) == \E n \in Elements(final) : n.name \in names

LooksLikeRegionGroup(name) == Len(name) >= 2 /\ name[1] = "region"
KnownAuto(name) == name = AutoSelect \/ \E t \in Elements(Regions) : name = RegionAuto(t)
MustHaveRealNode(c, name) ==
  /\ c.full
  /\ \/ name = Final
     \/ \E cat \in Elements(Catalog) :
          cat.group = name /\ cat.key \notin {"adblock", "private", "domestic"}

CompactGroups == {<<"adblock">>, <<"private">>, <<"domestic">>}

MainGroupIsComplete(o, real) ==
  \E g \in Elements(o.groups) :
    /\ g.name = Select
    /\ {AutoSelect, Direct, Reject} \subseteq Elements(g.members)
    /\ Elements(g.members) \cap real # {}

GroupIsSound(c, g, real) ==
  /\ KnownAuto(g.name) => Elements(g.members) \subseteq real
  /\ MustHaveRealNode(c, g.name) => Elements(g.members) \cap real # {}
  /\ g.name \in CompactGroups => Elements(g.members) \cap real = {}
  /\ g.name = <<"adblock">> => g.members = <<Reject, Direct, Select>>
  /\ g.name \in {<<"private">>, <<"domestic">>} =>
       g.members = <<Direct, Reject, Select, AutoSelect>>
  /\ LooksLikeRegionGroup(g.name) =>
       \A m \in Elements(g.members) : m \notin {Select, AutoSelect} /\ ~LooksLikeRegionGroup(m)

ReferencesAreKnown(o, final, names) ==
  LET allowed == Elements(Names(final))
      groups  == Elements(Names(o.groups))
  IN  /\ Elements(Names(o.proxies)) \subseteq allowed \ names
      /\ \A g \in Elements(o.groups) : \A m \in Elements(g.members) \ Builtin :
           m \notin names /\ (m \in groups \/ m \in allowed)

InfoNodesAreNotTested(c, o, final) ==
  \A g \in Elements(o.groups) : g.type \in AutoTypes =>
    \A n \in Elements(final) : IsInfoNode(c, n) =>
      n.name \notin Elements(g.members) \ (Builtin \cup Elements(Names(o.groups)))

RulesAreSound(o) ==
  /\ \A r \in Elements(o.rules) : r.kind = "RULE-SET" => r.provider \in DOMAIN o.providers
  /\ \A r \in Elements(o.rules) : TargetResolves(o, r.target)
  /\ \A i \in DOMAIN o.rules : o.rules[i].kind = "MATCH" => i = Len(o.rules)

FinalConfigIsSound(c, o, final, names) ==
  LET real == {n.name : n \in {m \in Elements(final) : ~IsInfoNode(c, m)}}
  IN  /\ ~LeaksExcluded(final, names)
      /\ ReferencesAreKnown(o, final, names)
      /\ \A g \in Elements(o.groups) : GroupIsSound(c, g, real)
      /\ InfoNodesAreNotTested(c, o, final)
      /\ MainGroupIsComplete(o, real)
      /\ RulesAreSound(o)

-----------------------------------------------------------------------------
(* RenderConfigWithProgress.                                               *)

NoOutput == [proxies |-> <<>>, groups |-> <<>>, providers |-> <<>>, rules |-> <<>>]

Init ==
  /\ stage = "submitted"
  /\ \E case \in Elements(Inputs) : cfg \in case.configs /\ nodes \in case.nodes
  /\ excluded = {} /\ out = NoOutput /\ warned = FALSE /\ why = "nothing"

Refuse(reason) == stage' = "refused" /\ why' = reason
Reach(s) == stage' = s /\ UNCHANGED why

Save ==
  /\ stage = "submitted"
  /\ IF Valid(Normalize(cfg)) /\ ValidForPublic(cfg)
       THEN Reach("collected") /\ cfg' = Normalize(cfg)
       ELSE Refuse("configuration") /\ UNCHANGED cfg
  /\ UNCHANGED <<nodes, excluded, out, warned>>

BuildFinalNodes ==
  LET kept   == Keep(nodes, {n \in Elements(nodes) : ~Filtered(cfg, n)})
      final  == EnsureUnique([i \in DOMAIN kept |-> Prefixed(cfg, kept[i])])
  IN  /\ stage = "collected"
      /\ nodes' = final
      /\ excluded' = {n.name : n \in {m \in Elements(nodes) : Filtered(cfg, m)}}
      /\ IF final = <<>> THEN Refuse("no nodes")
         ELSE IF cfg.public /\ Len(final) > PublicMaxNodes THEN Refuse("too many nodes")
         ELSE Reach("final")
      /\ UNCHANGED <<cfg, out, warned>>

(* snapshotRemoteCustomRules: a rule set at a URL becomes part of the      *)
(* configuration, and one that can be had neither from there nor from the  *)
(* cache stops the rendering.                                              *)
Embedded(c) ==
  [c EXCEPT !.custom = [i \in DOMAIN c.custom |->
     IF c.custom[i].enabled /\ c.custom[i].source = "http" /\ ~c.custom[i].mrs
       THEN [c.custom[i] EXCEPT !.source = "inline"] ELSE c.custom[i]]]

SnapshotRemoteCustomRules ==
  /\ stage = "final"
  /\ \/ Reach("resolved") /\ cfg' = ApplyTemplateMode(Embedded(cfg))
     \/ Embedded(cfg) # cfg /\ Refuse("rule set") /\ UNCHANGED cfg
  /\ UNCHANGED <<nodes, excluded, out, warned>>

(* What fails a check is refused in strict mode and otherwise noted.       *)
Checked(sound, next) ==
  IF sound \/ ~cfg.strict THEN Reach(next) /\ warned' = (warned \/ ~sound)
  ELSE Refuse("output check") /\ warned' = TRUE

ValidateFinalNodes ==
  /\ stage = "resolved"
  /\ Checked(~LeaksExcluded(nodes, excluded), "validated")
  /\ UNCHANGED <<cfg, nodes, excluded, out>>

RenderMihomo ==
  LET proxies == EnsureUnique(nodes)
      o == [proxies |-> proxies, groups |-> BuildProxyGroups(cfg, proxies),
            providers |-> BuildRuleProviders(cfg), rules |-> BuildRules(cfg)]
  IN  /\ stage = "validated"
      /\ IF Critical(o) THEN Refuse("lint") /\ UNCHANGED out
         ELSE Reach("rendered") /\ out' = o
      /\ UNCHANGED <<cfg, nodes, excluded, warned>>

ValidateFinalConfig ==
  /\ stage = "rendered"
  /\ \/ Checked(FinalConfigIsSound(cfg, out, nodes, excluded), "written")
     \/ cfg.public /\ Refuse("too large") /\ UNCHANGED warned
  /\ UNCHANGED <<cfg, nodes, excluded, out>>

Next ==
  \/ Save
  \/ BuildFinalNodes
  \/ SnapshotRemoteCustomRules
  \/ ValidateFinalNodes
  \/ RenderMihomo
  \/ ValidateFinalConfig

Spec == Init /\ [][Next]_vars

-----------------------------------------------------------------------------
(* The types of the variables, after a configuration was accepted.         *)
TypeOK ==
  /\ stage \in {"submitted", "collected", "final", "resolved", "validated",
                "rendered", "written", "refused"}
  /\ why \in {"nothing", "configuration", "no nodes", "too many nodes", "rule set",
              "output check", "lint", "too large"}
  /\ cfg \in Configurations
  /\ DOMAIN out = {"proxies", "groups", "providers", "rules"}
  /\ warned \in BOOLEAN

(* A file that is written can be loaded: names are unique, every name that *)
(* a group or a rule refers to exists, however badly the user's own groups *)
(* and rules fit the nodes of the day, and the last rule is a MATCH (the   *)
(* lint, which does not look where a MATCH leads); in strict mode that     *)
(* exists as well, no filtered node is in the file, and nothing follows a  *)
(* MATCH (the final check).                                                *)
WrittenFilesLoad ==
  stage = "written" =>
    /\ NoDuplicates(Names(out.proxies)) /\ NoDuplicates(Names(out.groups))
    /\ \A g \in Elements(out.groups) : \A m \in Elements(g.members) : MemberResolves(out, m)
    /\ \A r \in Elements(out.rules) :
         /\ r.kind = "RULE-SET" => r.provider \in DOMAIN out.providers
         /\ r.kind # "MATCH" \/ cfg.strict => TargetResolves(out, r.target)
    /\ out.rules # <<>> /\ out.rules[Len(out.rules)].kind = "MATCH"
    /\ cfg.strict =>
         /\ ~warned
         /\ \A n \in Elements(out.proxies) : n.name \notin excluded
         /\ \A i \in DOMAIN out.rules : out.rules[i].kind = "MATCH" => i = Len(out.rules)

(* The rules a user adds are served: in every file that is written, each   *)
(* custom rule that is enabled has its line before all lines but those of  *)
(* custom rules, with a provider that holds the rule's own content, and    *)
(* what it sends traffic to is where it was told to: a group named after   *)
(* its label and after nothing else, or the target it names                *)
(* (resolveCustomRules, run three times with different reserved names,     *)
(* mergeRules and buildRuleProviders).  The label must not be the alias of *)
(* the main selection or the name of a region's groups.                    *)
OwnTarget(r, target) ==
  IF CreatesGroup(r)
    THEN /\ Len(target) >= Len(r.label) /\ SubSeq(target, 1, Len(r.label)) = r.label
         /\ target \notin Reserved(cfg, RegionReserved(Regions))
    ELSE target = Alias(r.target)

OrdinaryLabel(l) ==
  l \notin {<<>>, <<"PROXY">>} /\ l[1] \notin {"region", "region auto"}

Served(r) ==
  \E i \in DOMAIN out.rules :
    /\ out.rules[i].provider = r.key
    /\ OwnTarget(r, out.rules[i].target)
    /\ out.providers[r.key].owner = "custom"
    /\ out.providers[r.key].path = CustomPath(r)
    /\ \A j \in 1 .. i : out.rules[j].provider \in {q.key : q \in Elements(cfg.custom)}

CustomRulesAreServed ==
  stage = "written" =>
    \A r \in Elements(cfg.custom) :
      (r.enabled /\ r.source # "group_only" /\ OrdinaryLabel(r.label)) => Served(r)

(* mihomo refuses groups that contain themselves.  The generated ones      *)
(* never do, as long as no group is named like a node or a built-in policy *)
(* and the user's own groups do not contain each other.                    *)
References(g) ==
  {h \in Elements(out.groups) : h.name \in Elements(g.members)}
Peel(S) == {g \in S : References(g) \cap S # {}}
OnCycles == FoldLeft(LAMBDA S, g : Peel(S), Elements(out.groups), out.groups)

GroupsDoNotLoop ==
  ( /\ stage = "written"
    /\ (Elements(Names(out.proxies)) \cup Builtin) \cap Elements(Names(out.groups)) = {}
    /\ \A g, h \in Elements(cfg.groups) : h.name \notin Elements(g.members) )
  => OnCycles = {}

(* What the program generates by itself passes its own checks: no node     *)
(* that comes, goes, is filtered out or is renamed makes a rendering fail, *)
(* in strict mode too, if names and files are ordinary:                    *)
(*   - the user's own groups, lines and providers, which may name what is  *)
(*     missing, are not there, and no label is that of a group the program *)
(*     may make itself;                                                    *)
(*   - the prefix is an ordinary one and final names differ;               *)
(*   - no final name, with its prefix, is the name under which a source    *)
(*     sent a node that was filtered out: the checks compare the two       *)
(*     (auditExclude, ValidateFinalNodeSet) and take the one for the other;*)
(*   - no file the user gives to a custom rule is that of another provider *)
(*     (duplicate_rule_provider_path of the lint).                         *)
NamesAreOrdinary ==
  /\ cfg.prefix = "plain" /\ NoDuplicates(Names(nodes))
  /\ ~LeaksExcluded(nodes, excluded)

FilesAreApart ==
  LET providers == BuildRuleProviders(cfg)
  IN  \A r \in Elements(SwitchedOn(cfg.custom)), p \in DOMAIN providers :
        r.source \in {"http", "file"} /\ p # r.key => providers[p].path # CustomPath(r)

GeneratedOnly ==
  /\ cfg.groups = <<>> /\ cfg.extra = <<>> /\ cfg.providers = <<>>
  /\ cfg.final \in {Select, Final}
  /\ \A r \in Elements(cfg.custom) :
       /\ r.mode # "existing_group" /\ OrdinaryLabel(r.label)
       /\ \A cat \in Elements(Catalog) : cat.group = r.label => cat.key \in cfg.enabled

GeneratedFilesPass ==
  GeneratedOnly /\ NamesAreOrdinary /\ FilesAreApart
    /\ (\E n \in Elements(nodes) : ~n.info) => why \notin {"output check", "lint"}

(* A file does not depend on what the user calls a source: the default     *)
(* configuration renders whatever the source is named.                     *)
SourceNamesDoNotMatter ==
  GeneratedOnly /\ cfg.prefix = "subscription"
    /\ (\A n \in Elements(nodes) : ~n.info) => why # "output check"
=============================================================================
