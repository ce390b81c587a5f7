------------------------------ MODULE Gateway -------------------------------
(***************************************************************************)
(* One request through the gateway: ServeHTTP                              *)
(* (services/gateway/internal/proxy/gateway.go) with the decisions it asks *)
(* of the policy (policy/store.go), the rate limiter, and the WAF engine   *)
(* (waf/coraza/engine.go).                                                 *)
(*                                                                         *)
(* Requests share nothing but the policy provider, the rate limiter and    *)
(* the audit dispatcher, which have modules of their own: here their       *)
(* answers are inputs.  What an address, a rule or a body looks like is    *)
(* abstracted to what it makes the pipeline do.                            *)
(***************************************************************************)
EXTENDS Integers, Sequences

CONSTANTS Apps,         \* policies the provider may answer with
          NoApp,        \* no policy
          DetectionOnly \* waf.rule_engine is "DetectionOnly"

RateLimitRules == [action : {"count", "block"}, status : 0 .. 999]
CustomRules == [action : {"allow", "count", "block"}, terminal : BOOLEAN,
                status : 0 .. 999]

(* What newApp lets through; the rules are in priority order. *)
IsApp(a) ==
  /\ a.mode \in {"count", "block"}
  /\ a.default \in {"allow", "block"}
  /\ a.allowlist \in BOOLEAN
  /\ a.rateLimits \in Seq(RateLimitRules)
  /\ a.custom \in Seq(CustomRules)

ASSUME GatewayAssumption ==
  /\ NoApp \notin Apps
  /\ \A a \in Apps : IsApp(a)
  /\ DetectionOnly \in BOOLEAN

VARIABLES
  pc,        \* where ServeHTTP is
  app,       \* lookup.App, read once
  address,   \* how the policy's lists see the client
  over,      \* rate-limit rules that would answer "over the limit"
  exceeded,  \* bodyExceeded
  matches,   \* enabled custom rules that match
  inspection,\* what Coraza makes of the request
  next,      \* evaluateRateLimits: the next rule
  action,    \* final.Action ...
  source,    \* ... where it comes from (Reason) ...
  code,      \* ... and its StatusCode
  counted,   \* observedCount: where the first count match comes from
  terminal,  \* terminalAllow
  event,     \* the audit event: action, reason, enforced, would_block, status
  recorded,  \* statusRecorder.status
  response,  \* status the client gets, 0 while nothing is written
  forwarded, \* the request was handed to the reverse proxy
  panicked,  \* the handler is unwinding
  logged     \* calls of auditor.Log

inputVars == <<app, address, over, exceeded, matches, inspection>>
finalVars == <<action, source, code, counted, terminal>>
outVars == <<event, recorded, response, forwarded, panicked, logged>>
vars == <<pc, inputVars, next, finalVars, outVars>>

First(S) == CHOOSE i \in S : \A j \in S : i <= j

Event(a, reason, enforced, would) ==
  [action |-> a, reason |-> reason, enforced |-> enforced, wouldBlock |-> would]

Init ==
  /\ pc = "received"
  /\ app = NoApp
  /\ address = "unlisted"
  /\ over = {}
  /\ exceeded = FALSE
  /\ matches = {}
  /\ inspection = "none"
  /\ next = 1
  /\ action = "allow"
  /\ source = "none"
  /\ code = 0
  /\ counted = "none"
  /\ terminal = FALSE
  /\ event = Event("allow", "none", FALSE, FALSE)
  /\ recorded = 200
  /\ response = 0
  /\ forwarded = FALSE
  /\ panicked = FALSE
  /\ logged = 0

(* To net/http a status of 100 to 199 other than 101 announces nothing:    *)
(* the body written after it goes out under a 200.                         *)
Informational(status) == status \in 100 .. 199 \ {101}

(* writeJSONError through the status recorder: net/http panics on a status *)
(* below 100, after the recorder has noted it.  The handler returns.       *)
Deny(status) ==
  /\ recorded' = status
  /\ \/ /\ status >= 100
        /\ response' = IF Informational(status) THEN 200 ELSE status
        /\ UNCHANGED panicked
     \/ status < 100 /\ panicked' = TRUE /\ UNCHANGED response
  /\ pc' = "logging"
  /\ UNCHANGED <<forwarded, logged>>

-----------------------------------------------------------------------------
(* Before a policy applies. *)

(* /healthz, /metrics and an invalid Host are answered without an event. *)
Route ==
  /\ pc = "received"
  /\ \/ \E status \in {200, 400} :
          /\ recorded' = status
          /\ response' = status
          /\ pc' = "finished"
     \/ /\ pc' = "lookup"
        /\ UNCHANGED <<recorded, response>>
  /\ UNCHANGED <<inputVars, next, finalVars, event, forwarded, panicked, logged>>

(* provider.Lookup: fail open returns at once, with nothing written; no    *)
(* policy is 404, no policy and a failed fetch 503; a policy is used as it *)
(* is, fresh or stale.                                                     *)
LookupFails ==
  /\ pc = "lookup"
  /\ \/ /\ event' = Event("allow", "policy_fetch_failed", FALSE, FALSE)
        /\ pc' = "logging"
        /\ UNCHANGED <<recorded, response, forwarded, panicked, logged>>
     \/ \E status \in {404, 503} :
          /\ event' = Event("block", "no_policy", FALSE, FALSE)
          /\ Deny(status)
  /\ UNCHANGED <<inputVars, next, finalVars>>

LookupFinds(a, limits) ==
  /\ pc = "lookup"
  /\ app' = a
  /\ over' = limits
  /\ pc' = "body"
  /\ UNCHANGED <<address, exceeded, matches, inspection, next, finalVars,
                 outVars>>

(* prepareRequestBody fails: a broken upload. *)
BodyUnreadable ==
  /\ pc = "body"
  /\ event' = Event("block", "request_body_read_failed", FALSE, FALSE)
  /\ Deny(400)
  /\ UNCHANGED <<inputVars, next, finalVars>>

-----------------------------------------------------------------------------
(* The pipeline. *)

(* EvaluateIP: the blocklist, then an allowlist unless it is empty. *)
AddressBlocked(where) ==
  where = "blocklisted" \/ (app.allowlist /\ where = "unlisted")

EvaluateIP(where, large) ==
  /\ pc = "body"
  /\ exceeded' = large
  /\ address' = where
  /\ \/ /\ AddressBlocked(where)
        /\ action' = "block" /\ source' = "ip" /\ code' = 403
        /\ pc' = "deciding"
     \/ /\ ~ AddressBlocked(where)
        /\ pc' = "limits"
        /\ UNCHANGED <<action, source, code>>
  /\ UNCHANGED <<app, over, matches, inspection, next, counted, terminal,
                 outVars>>

(* rememberCount keeps the first. *)
Remember(from) == counted' = IF counted = "none" THEN from ELSE counted

(* evaluateRateLimits: rules in order, up to the first that is over (or    *)
(* whose check failed closed); one of action "count" is only remembered.   *)
CheckRateLimit ==
  /\ pc = "limits"
  /\ next \in DOMAIN app.rateLimits
  /\ \/ /\ next \notin over
        /\ next' = next + 1
        /\ UNCHANGED <<pc, action, source, code, counted>>
     \/ /\ next \in over
        /\ app.rateLimits[next].action = "count"
        /\ Remember("rate_limit")
        /\ pc' = "rules"
        /\ UNCHANGED <<next, action, source, code>>
     \/ /\ next \in over
        /\ app.rateLimits[next].action = "block"
        /\ action' = "rate_limit" /\ source' = "rate_limit"
        /\ code' = app.rateLimits[next].status
        /\ pc' = "deciding"
        /\ UNCHANGED <<next, counted>>
  /\ UNCHANGED <<inputVars, terminal, outVars>>

WithinLimits ==
  /\ pc = "limits"
  /\ next \notin DOMAIN app.rateLimits
  /\ pc' = "rules"
  /\ UNCHANGED <<inputVars, next, finalVars, outVars>>

BodyTooLarge ==
  /\ pc = "rules"
  /\ exceeded
  /\ action' = "block" /\ source' = "body_limit" /\ code' = 403
  /\ pc' = "deciding"
  /\ UNCHANGED <<inputVars, next, counted, terminal, outVars>>

(* EvaluateCustomRules: the first match that blocks or is a terminal allow *)
(* ends the search; failing that, the first count match is the result.     *)
Decisive(rules, i) ==
  \/ rules[i].action = "block"
  \/ rules[i].action = "allow" /\ rules[i].terminal

Hits(rules, matching) == {i \in matching : Decisive(rules, i)}
Counts(rules, matching) == {i \in matching : rules[i].action = "count"}

CustomRulesStage(matching) ==
  LET hits == Hits(app.custom, matching)
      rule == app.custom[First(hits)]
  IN  /\ pc = "rules"
      /\ ~ exceeded
      /\ matches' = matching
      /\ \/ /\ hits = {}
            /\ IF Counts(app.custom, matching) = {}
               THEN UNCHANGED counted
               ELSE Remember("custom")
            /\ pc' = "waf"
            /\ UNCHANGED <<action, source, code, terminal>>
         \/ /\ hits # {}
            /\ rule.action = "block"
            /\ action' = "block" /\ source' = "custom" /\ code' = rule.status
            /\ pc' = "deciding"
            /\ UNCHANGED <<counted, terminal>>
         \/ /\ hits # {}
            /\ rule.action = "allow"
            /\ source' = "custom_allow"
            /\ terminal' = TRUE
            /\ pc' = "waf"
            /\ UNCHANGED <<action, code, counted>>
      /\ UNCHANGED <<app, address, over, exceeded, inspection, next, outVars>>

(* InspectRequest: an interruption blocks, and so does a disruptive match  *)
(* unless the engine only detects; other matches count.                    *)
InspectRequest(found) ==
  CASE found = "interrupted" -> "block"
    [] found = "disruptive" /\ ~ DetectionOnly -> "block"
    [] found = "disruptive" /\ DetectionOnly -> "count"
    [] found = "matched" -> "count"
    [] found = "clean" -> "allow"

Findings == {"interrupted", "disruptive", "matched", "clean"}

(* A terminal allow that the WAF overrules is no longer terminal. *)
Inspect(found) ==
  /\ pc = "waf"
  /\ inspection' = found
  /\ \/ /\ InspectRequest(found) = "block"
        /\ action' = "block" /\ source' = "waf" /\ code' = 403
        /\ terminal' = FALSE
        /\ UNCHANGED counted
     \/ /\ InspectRequest(found) = "count"
        /\ Remember("waf")
        /\ UNCHANGED <<action, source, code, terminal>>
     \/ /\ InspectRequest(found) = "allow"
        /\ UNCHANGED <<action, source, code, counted, terminal>>
  /\ pc' = "deciding"
  /\ UNCHANGED <<app, address, over, exceeded, matches, next, outVars>>

(* The inspection fails, or the client has gone away: 400 in either mode. *)
InspectFails ==
  /\ pc = "waf"
  /\ inspection' = "error"
  /\ event' = Event("block", "waf_error", FALSE, FALSE)
  /\ Deny(400)
  /\ UNCHANGED <<app, address, over, exceeded, matches, next, finalVars>>

-----------------------------------------------------------------------------
(* The verdict. *)

(* Mutant: the default action overrules a terminal allow. *)
DefaultBlocksAlways == action = "allow" /\ app.default = "block"

DefaultBlocks == action = "allow" /\ ~ terminal /\ app.default = "block"

(* Mutant: rate limiting is not a denial. *)
WouldBlockOnlyBlock(a) == a = "block"

(* No rule or engine ever asks for the third disruptive action, challenge. *)
WouldBlock(a) == a \in {"block", "rate_limit"}

(* The default action, then the remembered count, fill in for an allow;    *)
(* only block mode enforces.                                               *)
Verdict ==
  CASE DefaultBlocks -> [action |-> "block", source |-> "default", code |-> 403]
    [] ~ DefaultBlocks /\ action = "allow" /\ counted # "none" ->
         [action |-> "count", source |-> counted, code |-> 0]
    [] OTHER -> [action |-> action, source |-> source, code |-> code]

(* Mutant: would-block requests are denied in either mode. *)
EnforcedInAnyMode == WouldBlock(Verdict.action)

Enforced == app.mode = "block" /\ WouldBlock(Verdict.action)

Decide ==
  /\ pc = "deciding"
  /\ event' = Event(Verdict.action, Verdict.source, Enforced,
                    WouldBlock(Verdict.action))
  /\ \/ /\ Enforced
        /\ Deny(IF Verdict.code = 0 THEN 403 ELSE Verdict.code)
     \/ /\ ~ Enforced
        /\ pc' = "forwarding"
        /\ UNCHANGED <<recorded, response, forwarded, panicked, logged>>
  /\ UNCHANGED <<inputVars, next, finalVars>>

(* The reverse proxy: the origin answers, cannot be reached (502), or      *)
(* breaks off its body, on which the proxy panics.                         *)
Forward(outcome) ==
  /\ pc = "forwarding"
  /\ forwarded' = TRUE
  /\ recorded' = IF outcome = "fails" THEN 502 ELSE 200
  /\ response' = recorded'
  /\ panicked' = (outcome = "breaks")
  /\ pc' = "logging"
  /\ UNCHANGED <<inputVars, next, finalVars, event, logged>>

-----------------------------------------------------------------------------
(* Leaving ServeHTTP: the deferred calls run on return and on a panic.     *)

(* Mutant: the event is logged before the return, not in a deferred call. *)
LogNotDeferred ==
  /\ pc = "logging"
  /\ logged' = IF panicked THEN logged ELSE logged + 1
  /\ pc' = IF panicked THEN "recovering" ELSE "finished"
  /\ response' = IF ~ panicked /\ response = 0 THEN 200 ELSE response
  /\ UNCHANGED <<inputVars, next, finalVars, event, recorded, forwarded,
                 panicked>>

(* The event goes to the auditor with the recorder's status.  A handler    *)
(* that has written nothing makes the server send 200.                     *)
Log ==
  /\ pc = "logging"
  /\ logged' = logged + 1
  /\ pc' = IF panicked THEN "recovering" ELSE "finished"
  /\ response' = IF ~ panicked /\ response = 0 THEN 200 ELSE response
  /\ UNCHANGED <<inputVars, next, finalVars, event, recorded, forwarded,
                 panicked>>

(* The outermost deferred call recovers and answers 500 if it still can. *)
Recover ==
  /\ pc = "recovering"
  /\ panicked' = FALSE
  /\ response' = IF response = 0 THEN 500 ELSE response
  /\ pc' = "finished"
  /\ UNCHANGED <<inputVars, next, finalVars, event, recorded, forwarded, logged>>

(* The request is over. *)
Finished ==
  /\ pc = "finished"
  /\ UNCHANGED vars

Next ==
  \/ Route
  \/ LookupFails
  \/ \E a \in Apps : \E limits \in SUBSET DOMAIN a.rateLimits :
       LookupFinds(a, limits)
  \/ BodyUnreadable
  \/ \E where \in {"blocklisted", "allowlisted", "unlisted"},
        large \in BOOLEAN : EvaluateIP(where, large)
  \/ CheckRateLimit
  \/ WithinLimits
  \/ BodyTooLarge
  \/ pc = "rules" /\ \E matching \in SUBSET DOMAIN app.custom :
                       CustomRulesStage(matching)
  \/ \E found \in Findings : Inspect(found)
  \/ InspectFails
  \/ Decide
  \/ \E outcome \in {"answers", "fails", "breaks"} : Forward(outcome)
  \/ Log
  \/ Recover
  \/ Finished

Spec == Init /\ [][Next]_vars

-----------------------------------------------------------------------------
(* Properties. *)

Failures == {"policy_fetch_failed", "no_policy", "request_body_read_failed",
             "waf_error"}

Over == pc = "finished"

(* Who objects to the request, whatever the order of evaluation. *)
Objects(stage) ==
  CASE stage = "ip" -> AddressBlocked(address)
    [] stage = "rate_limit" ->
         over # {} /\ app.rateLimits[First(over)].action = "block"
    [] stage = "body_limit" -> exceeded
    [] stage = "custom" ->
         LET hits == Hits(app.custom, matches)
         IN  hits # {} /\ app.custom[First(hits)].action = "block"
    [] stage = "waf" ->
         inspection \in Findings /\ InspectRequest(inspection) = "block"
    [] stage = "default" ->
         /\ app.default = "block"
         /\ LET hits == Hits(app.custom, matches)
            IN  ~ (hits # {} /\ app.custom[First(hits)].action = "allow")

(* The order of ServeHTTP. *)
Order == <<"ip", "rate_limit", "body_limit", "custom", "waf", "default">>

Objections == {i \in DOMAIN Order : Objects(Order[i])}

(* Who wants the request counted. *)
CountedBy ==
  {s \in {"rate_limit", "custom", "waf"} :
     CASE s = "rate_limit" ->
            over # {} /\ app.rateLimits[First(over)].action = "count"
       [] s = "custom" ->
            /\ Counts(app.custom, matches) # {}
            /\ Hits(app.custom, matches) = {}
       [] s = "waf" ->
            inspection \in Findings /\ InspectRequest(inspection) = "count"}

EventIsRight ==
  IF Objections # {}
  THEN event.reason = Order[First(Objections)] /\ event.wouldBlock
  ELSE /\ ~ event.wouldBlock
       /\ IF CountedBy # {}
          THEN event.action = "count" /\ event.reason \in CountedBy
          ELSE event.action = "allow"

(* The event names the first stage, in the order in which ServeHTTP asks   *)
(* them (gateway.go:146-260), that objects; without an objection the       *)
(* request is counted if any stage counts it, and allowed otherwise.  A    *)
(* terminal allow silences the default action and nothing else.  Of two    *)
(* that object, a custom rule and the WAF, it is the rule: the code asks   *)
(* it first.  That is not the order of the documents, which put the WAF    *)
(* before the custom rules (docs/request-flow.md:18-19,                    *)
(* docs/data-plane.md:28-29, docs/architecture.md:225,                     *)
(* docs/policy-model.md:277-287).                                          *)
FirstObjectionDecides ==
  Over /\ app # NoApp /\ event.reason \notin Failures => EventIsRight

(* A request that its policy denies never reaches the origin, and one that *)
(* reaches it under a blocking policy was inspected and objected to by     *)
(* nobody.                                                                 *)
DeniedIsNotForwarded ==
  /\ event.enforced => ~ forwarded
  /\ forwarded /\ app.mode = "block" =>
       inspection \in Findings /\ Objections = {}

(* A count-mode policy denies nothing: the request reaches the origin      *)
(* unless its body or its inspection fails.                                *)
CountModeForwards ==
  Over /\ app # NoApp /\ app.mode = "count" =>
    forwarded \/ event.reason \in {"request_body_read_failed", "waf_error"}

(* Every request with a valid host leaves one audit event, also when the   *)
(* handler panics, and every request gets an answer.                       *)
OneEventPerRequest ==
  Over => /\ response # 0
          /\ logged = (IF event.reason = "none" /\ app = NoApp THEN 0 ELSE 1)

-----------------------------------------------------------------------------
(* The inductive invariant behind these properties. *)

(* Where ServeHTTP may be with a policy, undecided, and after its verdict. *)
Undecided == {"body", "limits", "rules", "waf"}
Settled == {"forwarding", "logging", "recovering", "finished"}

(* None of the first n stages objects. *)
Passed(n) == \A i \in 1 .. n : ~ Objects(Order[i])

(* A terminal allow is the first custom rule that decides. *)
TerminalAllow ==
  LET hits == Hits(app.custom, matches)
  IN  hits # {} /\ app.custom[First(hits)].action = "allow"

(* What is there at which stage: the policy first, what the custom rules   *)
(* and the engine make of the request only once they were asked.           *)
InputInv ==
  /\ pc \in {"received", "lookup", "deciding"} \cup Undecided \cup Settled
  /\ app \in Apps \cup {NoApp}
  /\ app # NoApp => over \subseteq DOMAIN app.rateLimits
  /\ pc \in {"received", "lookup"} => app = NoApp /\ event.reason = "none"
  /\ pc \in Undecided \cup {"deciding", "forwarding"} => app # NoApp
  /\ pc \in {"received", "lookup", "body", "limits", "rules"} => matches = {}
  /\ pc \in {"received", "lookup"} \cup Undecided => inspection = "none"

(* What the stages so far have left behind: no objection, and the first    *)
(* of them that counts.                                                    *)
StageInv ==
  /\ pc \in {"received", "lookup"} \cup Undecided =>
       action = "allow" /\ source \in {"none", "custom_allow"}
  /\ pc \in {"received", "lookup", "body", "limits", "rules"} => ~ terminal
  /\ pc \in {"received", "lookup", "body", "limits"} => counted = "none"
  /\ pc \in {"received", "lookup", "body"} => next = 1
  /\ pc = "limits" => /\ Passed(1)
                      /\ next \in 1 .. Len(app.rateLimits) + 1
                      /\ \A i \in over : next <= i
  /\ pc = "rules" => Passed(2)
  /\ pc = "waf" => Passed(4) /\ (terminal <=> TerminalAllow)
  /\ pc \in {"rules", "waf"} \/ (pc = "deciding" /\ action = "allow") =>
       IF CountedBy = {} THEN counted = "none" ELSE counted \in CountedBy

(* Before the verdict: somebody objects and nobody before it, or nobody    *)
(* but the default action may.                                             *)
DecidingInv ==
  pc = "deciding" =>
    \/ /\ action \in {"block", "rate_limit"}
       /\ \E i \in 1 .. 5 : /\ source = Order[i]
                            /\ Objects(Order[i])
                            /\ Passed(i - 1)
    \/ /\ action = "allow"
       /\ source \in {"none", "custom_allow"}
       /\ Passed(5)
       /\ inspection \in Findings
       /\ terminal <=> TerminalAllow

(* After the verdict. *)
VerdictInv ==
  pc \in Settled /\ app # NoApp /\ event.reason \notin Failures =>
    /\ EventIsRight
    /\ Objections = {} => inspection \in Findings
    /\ event.enforced <=> app.mode = "block" /\ event.wouldBlock
    /\ event.enforced => ~ forwarded /\ pc # "forwarding"
    /\ pc # "forwarding" => event.enforced \/ forwarded

(* Only a settled request is forwarded, and only one with a verdict. *)
ForwardInv ==
  /\ forwarded => pc \in Settled
  /\ forwarded \/ pc = "forwarding" =>
       app # NoApp /\ event.reason \notin Failures
  /\ pc \in Settled /\ event.reason \in Failures => ~ event.enforced
  /\ pc \in Settled /\ app # NoApp /\ event.reason \in Failures =>
       event.reason \in {"request_body_read_failed", "waf_error"}
  /\ pc \notin Settled => ~ event.enforced

(* The event is logged on the way out, and an answer is given. *)
LogInv ==
  /\ pc \notin {"recovering", "finished"} => logged = 0
  /\ pc = "recovering" => logged = 1
  /\ pc \in {"logging", "recovering"} /\ app = NoApp =>
       event.reason \in Failures
  /\ OneEventPerRequest

GatewayInv ==
  InputInv /\ StageInv /\ DecidingInv /\ VerdictInv /\ ForwardInv /\ LogInv

-----------------------------------------------------------------------------
(* What the repository's documents say and the code does not do.           *)

(* services/gateway/README.md: a rate limit of action block denies in      *)
(* block mode.                                                             *)
BlockingLimitDenies ==
  Over /\ app # NoApp /\ app.mode = "block" /\ forwarded =>
    \A i \in over : app.rateLimits[i].action # "block"

(* services/gateway/README.md: fail_open allows the request. *)
FailOpenForwards ==
  Over /\ event.reason = "policy_fetch_failed" => forwarded

=============================================================================
