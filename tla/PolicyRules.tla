---------------------------- MODULE PolicyRules -----------------------------
(***************************************************************************)
(* The life of a policy's rules: the control API validates a draft         *)
(* (httpapi/server.go, validation.go), stores it, compiles it into a       *)
(* version (db/db.go), and the gateway decodes that version                *)
(* (policyclient/client.go), parses it a second time and evaluates it on   *)
(* requests (policy/store.go).  A gateway without a control API parses the *)
(* same rules out of its own file (config/config.go).                      *)
(*                                                                         *)
(* Both ends check the rules, each with code of its own.  Texts are a few  *)
(* words: "" is empty, " " blank, "net" a CIDR, "url" a URL with scheme    *)
(* and host; a field's value of the wrong JSON type is a rule that is not  *)
(* `typed'.  The operators that compare a string with an attribute of the  *)
(* request stand as `path', the three that have a name and a value as      *)
(* `header'.                                                               *)
(***************************************************************************)
EXTENDS Integers, Sequences, FiniteSets

CONSTANTS Conditions, \* conditions that occur, with all their children
          Depth,      \* how deep each of them nests
          Drafts,     \* policy drafts that clients send
          FirstDrafts,\* the ones among them that a policy is created with
          Configs,    \* gateway configuration files
          Requests,   \* what a request shows to the rules
          Nothing,    \* no policy, no version, no app, a field left out
          MaxEdits    \* bound on the number of policy edits

ConditionForms ==
  [all : Seq(Conditions), any : Seq(Conditions), path : STRING,
   header : {<<>>} \cup (STRING \X STRING), inSet : STRING, notInSet : STRING]

(* Every text; the two that applyDefaults writes are texts too. *)
Texts == STRING \cup {"count", "ip"}

RuleForms ==
  [id : Texts, name : Texts, action : Texts, status : Int, priority : Int,
   enabled : BOOLEAN, terminal : BOOLEAN, typed : BOOLEAN, when : Conditions]

LimitForms ==
  [id : Texts, name : Texts, action : Texts, status : Int, priority : Int,
   enabled : BOOLEAN, typed : BOOLEAN, when : Conditions, limit : Int,
   keyType : Texts, keyHeader : Texts]

IsHost(h) == h = [name |-> h.name, upper |-> h.upper, port |-> h.port]

IsFileApp(app) ==
  /\ app = [id |-> app.id, origin |-> app.origin, mode |-> app.mode,
            default |-> app.default, blocklist |-> app.blocklist,
            allowlist |-> app.allowlist, sets |-> app.sets,
            custom |-> app.custom, limits |-> app.limits, hosts |-> app.hosts]
  /\ app.custom \in Seq(RuleForms)
  /\ app.limits \in Seq(LimitForms)
  /\ \A h \in app.hosts : IsHost(h)

(* What a JSON document or a file may hold: rules of any text, status and  *)
(* priority, and conditions that nest to some depth.                       *)
ASSUME PolicyRulesAssumption ==
  /\ \A c \in Conditions :
       /\ c \in ConditionForms
       /\ Depth[c] \in Nat
       /\ \A i \in DOMAIN c.all : Depth[c.all[i]] < Depth[c]
       /\ \A i \in DOMAIN c.any : Depth[c.any[i]] < Depth[c]
  /\ \A d \in Drafts :
       d.custom \in Seq(RuleForms) /\ d.limits \in Seq(LimitForms)
  /\ \A config \in Configs : \A i \in DOMAIN config.apps :
       IsFileApp(config.apps[i])
  /\ \A req \in Requests : req.headers \subseteq STRING \X STRING
  /\ FirstDrafts \subseteq Drafts
  /\ MaxEdits \in Nat

VARIABLES
  policy,     \* the row of policies: mode and draft
  publishing, \* publishPolicy has validated the draft it has read
  published,  \* the version in policy_deployments
  gateway,    \* the gateway process
  file,       \* the apps it takes from its file, defaults applied
  store,      \* the apps it serves, by normalised host
  edits       \* edits so far

rulesVars == <<policy, publishing, published, gateway, file, store, edits>>

-----------------------------------------------------------------------------
(* Texts. *)

TrimSpace(s) == CASE s = " " -> ""
                  [] s = " net" -> "net"
                  [] OTHER -> s

(* netip.ParsePrefix takes no surrounding space. *)
ParsePrefix(s) == s = "net"

(* canonicalHeaderName *)
CanonicalHeaderName(s) == IF TrimSpace(s) = "x-a" THEN "X-A" ELSE TrimSpace(s)

(* NormalizeHost: case and port do not tell hosts apart. *)
NormalizeHost(h) == [h EXCEPT !.upper = FALSE, !.port = FALSE]

-----------------------------------------------------------------------------
(* Conditions. *)

Operators(c) == {f \in {"all", "any", "header"} : c[f] # <<>>}
                  \cup {f \in {"path", "inSet", "notInSet"} : c[f] # ""}

(* hasPolicyCondition, hasCondition *)
HasCondition(c) == Operators(c) # {}

(* What both validators demand of one node. *)
NodeConforms(c, sets, name) ==
  /\ Cardinality(Operators(c)) = 1
  /\ c.header # <<>> => name # "" /\ c.header[2] # ""
  /\ c.inSet # "" => c.inSet \in DOMAIN sets
  /\ c.notInSet # "" => c.notInSet \in DOMAIN sets

HeaderName(c) == IF c.header = <<>> THEN "" ELSE c.header[1]

(* validatePolicyCondition, in the control API *)
ValidatePolicyCondition(c, sets) ==
  LET valid[x \in Conditions] ==
        /\ NodeConforms(x, sets, TrimSpace(HeaderName(x)))
        /\ \A i \in DOMAIN x.all : valid[x.all[i]]
        /\ \A i \in DOMAIN x.any : valid[x.any[i]]
  IN  valid[c]

(* parseCondition, in the gateway: header names are not trimmed. *)
ParseCondition(c, sets) ==
  LET parses[x \in Conditions] ==
        /\ NodeConforms(x, sets, HeaderName(x))
        /\ \A i \in DOMAIN x.all : parses[x.all[i]]
        /\ \A i \in DOMAIN x.any : parses[x.any[i]]
  IN  parses[c]

(* Condition.Match: the first operator present decides. *)
Match(c, req, sets) ==
  LET match[x \in Conditions] ==
        CASE x.all # <<>> -> \A i \in DOMAIN x.all : match[x.all[i]]
          [] x.all = <<>> /\ x.any # <<>> ->
               \E i \in DOMAIN x.any : match[x.any[i]]
          [] x.all = <<>> /\ x.any = <<>> /\ x.path # "" -> req.path = x.path
          [] Operators(x) # {} /\ Operators(x) \subseteq {"header", "inSet", "notInSet"} ->
               (CASE x.header # <<>> ->
                       <<CanonicalHeaderName(x.header[1]), x.header[2]>>
                         \in req.headers
                  [] x.header = <<>> /\ x.inSet # "" ->
                       req.address \in sets[x.inSet]
                  [] x.header = <<>> /\ x.inSet = "" ->
                       req.address \notin sets[x.notInSet])
          [] Operators(x) = {} -> FALSE
  IN  match[c]

-----------------------------------------------------------------------------
(* The control API. *)

EmptyDraft == [mode |-> "", rules |-> {}, blocklist |-> {}, sets |-> <<>>,
               custom |-> <<>>, limits |-> <<>>]

ValidateMode(mode) == mode \in {"count", "block"}

ValidateAction(action) == action \in {"allow", "count", "block", "rate_limit"}

KeyTypes == {"ip", "host", "path", "header", "api_key_placeholder"}

(* What validatePolicySnapshot demands of a custom rule ... *)
ValidateCustomRule(rule, sets) ==
  /\ TrimSpace(rule.id) # ""
  /\ TrimSpace(rule.name) # ""
  /\ rule.action \in {"allow", "count", "block"}
  /\ ValidatePolicyCondition(rule.when, sets)

(* ... and of a rate limit. *)
ValidateRateLimit(rule, sets) ==
  /\ TrimSpace(rule.id) # ""
  /\ TrimSpace(rule.name) # ""
  /\ rule.action \in {"count", "block"}
  /\ rule.limit > 0
  /\ rule.keyType \in KeyTypes
  /\ rule.keyType = "header" => TrimSpace(rule.keyHeader) # ""
  /\ HasCondition(rule.when) => ValidatePolicyCondition(rule.when, sets)

ValidatePolicySnapshot(d) ==
  /\ d.mode # "" => ValidateMode(d.mode)
  /\ \A cidr \in d.blocklist : ParsePrefix(cidr)
  /\ \A name \in DOMAIN d.sets : \A cidr \in d.sets[name] : ParsePrefix(cidr)
  /\ \A action \in d.rules : action # "" => ValidateAction(action)
  /\ \A i \in DOMAIN d.custom : ValidateCustomRule(d.custom[i], d.sets)
  /\ \A i \in DOMAIN d.limits : ValidateRateLimit(d.limits[i], d.sets)

(* compileGatewayPolicy: the draft's mode, if it has one, overrides the    *)
(* policy's; blocklist and rules are not part of a version.                *)
CompileGatewayPolicy(row) ==
  [mode |-> IF row.draft.mode # "" THEN row.draft.mode ELSE row.mode,
   sets |-> row.draft.sets, custom |-> row.draft.custom,
   limits |-> row.draft.limits]

-----------------------------------------------------------------------------
(* The gateway. *)

(* parsePrefixes *)
PrefixesParse(cidrs) == \A cidr \in cidrs : ParsePrefix(TrimSpace(cidr))

(* parseIPSets *)
IPSetsParse(sets) ==
  \A name \in DOMAIN sets : TrimSpace(name) # "" /\ PrefixesParse(sets[name])

(* The ids seen before rule i. *)
Seen(rules, i) == {rules[j].id : j \in 1 .. i - 1}

ValidStatus(code) == code \in 0 .. 999

(* parseCustomRules up to the sort *)
CustomRulesParse(rules, sets) ==
  \A i \in DOMAIN rules :
    /\ TrimSpace(rules[i].id) # ""
    /\ rules[i].id \notin Seen(rules, i)
    /\ rules[i].name # ""
    /\ rules[i].action \in {"allow", "count", "block"}
    /\ ValidStatus(rules[i].status)
    /\ ParseCondition(rules[i].when, sets)

(* parseRateLimitRules up to the sort *)
RateLimitRulesParse(rules, sets) ==
  \A i \in DOMAIN rules :
    /\ TrimSpace(rules[i].id) # ""
    /\ rules[i].id \notin Seen(rules, i)
    /\ rules[i].name # ""
    /\ rules[i].limit > 0
    /\ rules[i].action \in {"count", "block"}
    /\ rules[i].keyType \in KeyTypes
    /\ rules[i].keyType = "header" => rules[i].keyHeader # ""
    /\ ValidStatus(rules[i].status)
    /\ HasCondition(rules[i].when) => ParseCondition(rules[i].when, sets)

(* Mutant: rules of one priority change places. *)
SortReversingTies(rules) ==
  LET rank(i) == 1 + Cardinality({j \in DOMAIN rules :
                       \/ rules[j].priority < rules[i].priority
                       \/ rules[j].priority = rules[i].priority /\ j > i})
  IN  [k \in DOMAIN rules |-> rules[CHOOSE i \in DOMAIN rules : rank(i) = k]]

(* sort.SliceStable by priority: rule i ends up behind those of a smaller  *)
(* priority and those of its own that stood before it.                     *)
SliceStable(rules) ==
  LET rank(i) == 1 + Cardinality({j \in DOMAIN rules :
                       \/ rules[j].priority < rules[i].priority
                       \/ rules[j].priority = rules[i].priority /\ j < i})
  IN  [k \in DOMAIN rules |-> rules[CHOOSE i \in DOMAIN rules : rank(i) = k]]

(* url.Parse, and both a scheme and a host *)
OriginParses(origin) == origin = "url"

(* newApp succeeds. *)
AppParses(cfg) ==
  /\ OriginParses(cfg.origin)
  /\ PrefixesParse(cfg.blocklist)
  /\ PrefixesParse(cfg.allowlist)
  /\ IPSetsParse(cfg.sets)
  /\ CustomRulesParse(cfg.custom, cfg.sets)
  /\ RateLimitRulesParse(cfg.limits, cfg.sets)

(* newApp, for an input that parses *)
NewApp(cfg) ==
  [mode |-> cfg.mode, default |-> cfg.default,
   blocklist |-> {TrimSpace(cidr) : cidr \in cfg.blocklist},
   allowlist |-> {TrimSpace(cidr) : cidr \in cfg.allowlist},
   sets |-> [name \in DOMAIN cfg.sets |->
               {TrimSpace(cidr) : cidr \in cfg.sets[name]}],
   custom |-> SliceStable(cfg.custom), limits |-> SliceStable(cfg.limits)]

(* decodeCustomRules and decodeRateLimits declare fields that the control  *)
(* API's structs do not; a value of another type fails the decoding.       *)
Decodes(version) ==
  /\ \A i \in DOMAIN version.custom : version.custom[i].typed
  /\ \A i \in DOMAIN version.limits : version.limits[i].typed

(* The input toApp makes of a version for newApp.  Its identifiers and its *)
(* origin are of other rows, which ControlPlane has; here they are whole.  *)
RemoteConfig(version) ==
  [origin |-> "url", mode |-> version.mode, default |-> "allow",
   blocklist |-> {}, allowlist |-> {}, sets |-> version.sets,
   custom |-> version.custom, limits |-> version.limits]

ToAppSucceeds(version) == Decodes(version) /\ AppParses(RemoteConfig(version))

(* EvaluateCustomRules, from rule i on: a block or a terminal allow is     *)
(* final; a count stands unless something final follows.                   *)
EvaluateCustomRules(app, req) ==
  LET none == [action |-> "allow", rule |-> ""]
      result(rule) == [action |-> rule.action, rule |-> rule.id]
      returns(rule) == \/ rule.action = "block"
                       \/ rule.action = "allow" /\ rule.terminal
      final(d) == d # none /\ d.action # "count"
      from[i \in 1 .. Len(app.custom) + 1] ==
        IF i > Len(app.custom) THEN none
        ELSE LET rule == app.custom[i]
                 rest == from[i + 1]
             IN  IF /\ rule.enabled
                    /\ Match(rule.when, req, app.sets)
                    /\ returns(rule) \/ (rule.action = "count" /\ ~ final(rest))
                 THEN result(rule)
                 ELSE rest
  IN  from[1]

(* evaluateRateLimits: the places, in order, of the limits that count the  *)
(* request (Check passes over a limit that is disabled or whose match      *)
(* fails).                                                                 *)
CheckedLimits(app, req) ==
  {k \in DOMAIN app.limits :
     /\ app.limits[k].enabled
     /\ HasCondition(app.limits[k].when) =>
          Match(app.limits[k].when, req, app.sets)}

-----------------------------------------------------------------------------
(* The gateway's file. *)

Default(value, fallback) == IF value = "" THEN fallback ELSE value

Status(value, fallback) == IF value = 0 THEN fallback ELSE value

(* applyDefaults, for one app.  `keyType' stands for key_type and its old  *)
(* alias key.                                                              *)
ApplyDefaults(app) ==
  [app EXCEPT
     !.mode = Default(@, "count"),
     !.default = Default(@, "allow"),
     !.limits = [i \in DOMAIN app.limits |->
       [app.limits[i] EXCEPT !.id = Default(@, app.limits[i].name),
                             !.keyType = Default(@, "ip"),
                             !.action = Default(@, "count"),
                             !.status = Status(@, 429)]],
     !.custom = [i \in DOMAIN app.custom |->
       [app.custom[i] EXCEPT !.action = Default(@, "count"),
                             !.status = Status(@, 403)]]]

(* validate, as far as apps go: only a control API replaces them. *)
ConfigValid(remote, apps) ==
  /\ apps # <<>> \/ remote
  /\ \A i \in DOMAIN apps : /\ apps[i].id # "" /\ apps[i].hosts # {}
                            /\ OriginParses(apps[i].origin)
                            /\ ValidateMode(apps[i].mode)

HostsOf(app) == {NormalizeHost(h) : h \in app.hosts}

(* Mutant: hostnames are compared as they are spelled. *)
DistinctSpellings(apps) ==
  \A i, j \in DOMAIN apps : i # j => apps[i].hosts \cap apps[j].hosts = {}

(* NewStore: no host belongs to two apps. *)
HostsDistinct(apps) ==
  \A i, j \in DOMAIN apps : i # j => HostsOf(apps[i]) \cap HostsOf(apps[j]) = {}

(* Two spellings of one host in one app are refused as well. *)
SpelledOnce(app) == Cardinality(HostsOf(app)) = Cardinality(app.hosts)

(* LoadFile succeeds and, without a control API, NewStore does. *)
Starts(remote, apps) ==
  /\ ConfigValid(remote, apps)
  /\ \/ remote
     \/ /\ \A i \in DOMAIN apps : AppParses(apps[i]) /\ SpelledOnce(apps[i])
        /\ HostsDistinct(apps)

(* NewStore: byHost, with what each app was parsed from *)
ByHost(apps) ==
  [h \in UNION {HostsOf(apps[i]) : i \in DOMAIN apps} |->
     LET i == CHOOSE k \in DOMAIN apps : h \in HostsOf(apps[k])
     IN  [app |-> NewApp(apps[i]), from |-> apps[i]]]

-----------------------------------------------------------------------------
(* Actions.  A refused request changes nothing and is left out. *)

RulesInit ==
  /\ policy = Nothing
  /\ publishing = FALSE
  /\ published = Nothing
  /\ gateway = "down"
  /\ file = <<>>
  /\ store = <<>>
  /\ edits = 0

(* A gateway that runs on its file has no control API beside it. *)
Edit ==
  /\ gateway = "remote"
  /\ edits < MaxEdits
  /\ edits' = edits + 1

(* createPolicy: no mode means count, no snapshot an empty draft. *)
CreatePolicy(mode, d) ==
  /\ policy = Nothing
  /\ mode # "" => ValidateMode(mode)
  /\ ValidatePolicySnapshot(d)
  /\ Edit
  /\ policy' = [mode |-> Default(mode, "count"), draft |-> d]
  /\ UNCHANGED <<publishing, published, gateway, file, store>>

(* Mutant: a PATCH stores the snapshot unseen. *)
ValidateModeOnly(mode, d) == mode # Nothing => ValidateMode(mode)

(* validateUpdatePolicy, for the fields a PATCH sets *)
ValidateUpdatePolicy(mode, d) ==
  /\ mode # Nothing => ValidateMode(mode)
  /\ d # Nothing => ValidatePolicySnapshot(d)

(* patchPolicy; ControlPlane has its transaction. *)
PatchPolicy(mode, d) ==
  /\ policy # Nothing
  /\ ValidateUpdatePolicy(mode, d)
  /\ Edit
  /\ policy' = [mode |-> IF mode = Nothing THEN policy.mode ELSE mode,
                draft |-> IF d = Nothing THEN policy.draft ELSE d]
  /\ UNCHANGED <<publishing, published, gateway, file, store>>

(* publishPolicy reads the policy and validates its draft ... *)
BeginPublish ==
  /\ policy # Nothing
  /\ ~ publishing
  /\ ValidatePolicySnapshot(policy.draft)
  /\ publishing' = TRUE
  /\ UNCHANGED <<policy, published, gateway, file, store, edits>>

(* ... then PublishPolicy compiles the row as it is by now. *)
Publish ==
  /\ publishing
  /\ publishing' = FALSE
  /\ published' = [version |-> CompileGatewayPolicy(policy),
                   draft |-> policy.draft]
  /\ UNCHANGED <<policy, gateway, file, store, edits>>

(* main: with a control API the cache starts empty and the file's apps are *)
(* validated but not served; without one the file must yield a store.      *)
Start(config) ==
  LET apps == [i \in DOMAIN config.apps |-> ApplyDefaults(config.apps[i])]
      served == IF config.remote THEN <<>> ELSE apps
  IN
  /\ gateway = "down"
  /\ file' = served
  /\ \/ /\ Starts(config.remote, apps)
        /\ gateway' = IF config.remote THEN "remote" ELSE "static"
        /\ store' = ByHost(served)
     \/ /\ ~ Starts(config.remote, apps)
        /\ gateway' = "exited"
        /\ UNCHANGED store
  /\ UNCHANGED <<policy, publishing, published, edits>>

(* A fetched version replaces the host's app, unless toApp fails: then     *)
(* PolicyProvider's fallback goes on with what the cache holds.            *)
Fetch(h) ==
  LET host == NormalizeHost(h) IN
  /\ gateway = "remote"
  /\ published # Nothing
  /\ store' = IF ToAppSucceeds(published.version)
              THEN [x \in DOMAIN store \cup {host} |->
                      IF x # host THEN store[x]
                      ELSE [app |-> NewApp(RemoteConfig(published.version)),
                            from |-> published.draft]]
              ELSE store
  /\ UNCHANGED <<policy, publishing, published, gateway, file, edits>>

Spellings == [name : {"a"}, upper : BOOLEAN, port : BOOLEAN]

RulesNext ==
  \/ \E mode \in {"", "block", "log"}, d \in FirstDrafts \cup {EmptyDraft} :
       CreatePolicy(mode, d)
  \/ \E mode \in {Nothing, "block", "log"}, d \in Drafts \cup {Nothing} :
       PatchPolicy(mode, d)
  \/ BeginPublish
  \/ Publish
  \/ \E config \in Configs : Start(config)
  \/ \E h \in Spellings : Fetch(h)

RulesSpec == RulesInit /\ [][RulesNext]_rulesVars

-----------------------------------------------------------------------------
(* Properties. *)

(* Ids that occur twice, a status that is none, a blank name, a field of   *)
(* the wrong type: what the control API does not look at.                  *)
Unchecked(d) ==
  \/ \E rules \in {d.custom, d.limits} :
       \E i \in DOMAIN rules :
         \/ rules[i].id \in Seen(rules, i)
         \/ ~ ValidStatus(rules[i].status)
         \/ ~ rules[i].typed
  \/ \E name \in DOMAIN d.sets : TrimSpace(name) = ""

(* The two validators agree but for that: a gateway loads a published      *)
(* version unless it has one of these four faults, and refuses it if it    *)
(* has (server.go:526-607 against store.go:350-563).  The draft that is    *)
(* published may not be the one publishPolicy has validated (server.go:275 *)
(* and db.go:378): every way into the row has to validate too.             *)
PublishedLoads ==
  published # Nothing =>
    (ToAppSucceeds(published.version) <=> ~ Unchecked(published.draft))

(* What a condition says: everything in it holds. *)
Meaning(c, req, sets) ==
  LET holds[x \in Conditions] ==
        /\ x.all # <<>> => \A i \in DOMAIN x.all : holds[x.all[i]]
        /\ x.any # <<>> => \E i \in DOMAIN x.any : holds[x.any[i]]
        /\ x.path # "" => req.path = x.path
        /\ x.header # <<>> =>
             \E h \in req.headers : /\ h[1] = CanonicalHeaderName(x.header[1])
                                    /\ h[2] = x.header[2]
        /\ x.inSet # "" => \E cidr \in sets[x.inSet] :
                             TrimSpace(cidr) = req.address
        /\ x.notInSet # "" => \A cidr \in sets[x.notInSet] :
                                TrimSpace(cidr) # req.address
  IN  holds[c]

(* Rule i of a draft comes before rule j. *)
Precedes(rules, i, j) ==
  \/ rules[i].priority < rules[j].priority
  \/ rules[i].priority = rules[j].priority /\ i < j

Earliest(rules, S) == CHOOSE i \in S : \A j \in S \ {i} : Precedes(rules, i, j)

(* What the author of a draft is promised for a request. *)
Promised(d, req) ==
  LET applies == {i \in DOMAIN d.custom :
                    d.custom[i].enabled /\ Meaning(d.custom[i].when, req, d.sets)}
      final == {i \in applies : \/ d.custom[i].action = "block"
                                \/ d.custom[i].action = "allow" /\ d.custom[i].terminal}
      counts == {i \in applies : d.custom[i].action = "count"}
      chosen == IF final # {} THEN final ELSE counts
      rule == d.custom[Earliest(d.custom, chosen)]
  IN  IF chosen = {} THEN [action |-> "allow", rule |-> ""]
                     ELSE [action |-> rule.action, rule |-> rule.id]

(* Whatever way the rules took, the app decides every request by the       *)
(* earliest final rule of the draft in (priority, position) order, else by *)
(* its earliest count; a condition is true when all it says is true.       *)
RulesApplyAsDrafted ==
  \A h \in DOMAIN store : \A req \in Requests :
    EvaluateCustomRules(store[h].app, req) = Promised(store[h].from, req)

(* The limits that count a request are the enabled ones that match it, in  *)
(* the draft's (priority, position) order.                                 *)
LimitsKept(app, d, req) ==
  LET checked == CheckedLimits(app, req)
      counts == {i \in DOMAIN d.limits :
                   d.limits[i].enabled /\ Meaning(d.limits[i].when, req, d.sets)}
  IN  /\ Cardinality(checked) = Cardinality(counts)
      /\ \A i, j \in counts : Precedes(d.limits, i, j) =>
           \E m, n \in checked : /\ m < n
                                 /\ app.limits[m] = d.limits[i]
                                 /\ app.limits[n] = d.limits[j]

LimitsApplyAsDrafted ==
  \A h \in DOMAIN store : \A req \in Requests :
    LimitsKept(store[h].app, store[h].from, req)

(* Every app has a mode the gateway knows, its draft's if that has one.    *)
ModeApplies ==
  \A h \in DOMAIN store :
    /\ ValidateMode(store[h].app.mode)
    /\ store[h].from.mode # "" => store[h].app.mode = store[h].from.mode

(* The custom rules, the rate limits and the mode of a draft mean at the   *)
(* gateway what its author wrote, whether they came by the control API or  *)
(* in the gateway's file (store.go:186-563, db.go:669-671).  No gateway    *)
(* looks at a mode it fetches: it is the control API's checks, at every    *)
(* way into the row, that keep an unknown one out.  The property is not    *)
(* about a draft's ip_blocklist and `rules': they are validated and then   *)
(* lost, for compileGatewayPolicy does not copy them (db.go:671-682).      *)
AppliesAsDrafted ==
  RulesApplyAsDrafted /\ LimitsApplyAsDrafted /\ ModeApplies

(* A gateway that runs on its file answers every host of it, however it is *)
(* spelled in the file and in the request, with the one app that lists it. *)
StaticHostsRoute ==
  gateway = "static" =>
    /\ DOMAIN store = UNION {HostsOf(file[i]) : i \in DOMAIN file}
    /\ \A i \in DOMAIN file : \A h \in file[i].hosts, u, p \in BOOLEAN :
         store[NormalizeHost([h EXCEPT !.upper = u, !.port = p])].from = file[i]

-----------------------------------------------------------------------------
(* The inductive invariant: where the rules are, they have been checked.   *)

Checked(d) ==
  /\ d.custom \in Seq(RuleForms)
  /\ d.limits \in Seq(LimitForms)
  /\ ValidatePolicySnapshot(d)

(* An app is what its source was parsed into. *)
ParsedFrom(app, d) ==
  /\ d.custom \in Seq(RuleForms)
  /\ d.limits \in Seq(LimitForms)
  /\ CustomRulesParse(d.custom, d.sets)
  /\ RateLimitRulesParse(d.limits, d.sets)
  /\ ValidateMode(app.mode)
  /\ d.mode # "" => app.mode = d.mode
  /\ app.custom = SliceStable(d.custom)
  /\ app.limits = SliceStable(d.limits)
  /\ app.sets = [name \in DOMAIN d.sets |->
                   {TrimSpace(cidr) : cidr \in d.sets[name]}]

RowIsChecked ==
  publishing \/ policy # Nothing =>
    Checked(policy.draft) /\ ValidateMode(policy.mode)

VersionIsDraft ==
  published # Nothing =>
    LET v == published.version
        d == published.draft
    IN  /\ Checked(d)
        /\ ValidateMode(v.mode)
        /\ d.mode # "" => v.mode = d.mode
        /\ v.custom = d.custom /\ v.limits = d.limits /\ v.sets = d.sets

StoreIsParsed ==
  \A h \in DOMAIN store : ParsedFrom(store[h].app, store[h].from)

StoreIsFile ==
  gateway = "static" =>
    /\ store = ByHost(file)
    /\ HostsDistinct(file)
    /\ \A i \in DOMAIN file : \A h \in file[i].hosts : IsHost(h)

(* Drafts are checked on every way into the row, so the version and the    *)
(* apps made of it are: the three properties follow.                       *)
RulesInv == RowIsChecked /\ VersionIsDraft /\ StoreIsParsed /\ StoreIsFile

=============================================================================
