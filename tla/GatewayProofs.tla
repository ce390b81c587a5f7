--------------------------- MODULE GatewayProofs ----------------------------
(***************************************************************************)
(* Proofs about the request pipeline (Gateway), for every set of policies  *)
(* with any number of rules and whichever way the engine is configured,    *)
(* and about the rules it applies (PolicyRules), for every draft, file and *)
(* request.  The two modules share no state; that the loop over the custom *)
(* rules finds what the pipeline acts on (WalkIsFirst) joins them.         *)
(***************************************************************************)
EXTENDS Gateway, PolicyRules, FiniteSetTheorems, WellFoundedInduction, TLAPS

-----------------------------------------------------------------------------
(* The stages and their order. *)

LEMMA FirstIs ==
  ASSUME NEW S, S \subseteq Int, NEW k \in S, \A j \in S : k <= j
  PROVE  First(S) = k
<1>1. \A i \in S : (\A j \in S : i <= j) => i = k
  OBVIOUS
<1> QED
  BY <1>1 DEF First

LEMMA Stages ==
  /\ Objects("ip") <=> AddressBlocked(address)
  /\ Objects("rate_limit") <=>
       over # {} /\ app.rateLimits[First(over)].action = "block"
  /\ Objects("body_limit") <=> exceeded
  /\ Objects("custom") <=>
       /\ Hits(app.custom, matches) # {}
       /\ app.custom[First(Hits(app.custom, matches))].action = "block"
  /\ Objects("waf") <=>
       inspection \in Findings /\ InspectRequest(inspection) = "block"
  /\ Objects("default") <=> app.default = "block" /\ ~ TerminalAllow
BY DEF Objects, TerminalAllow

LEMMA StagesNext ==
  /\ Objects("ip")' <=> AddressBlocked(address)'
  /\ Objects("rate_limit")' <=>
       over' # {} /\ app'.rateLimits[First(over')].action = "block"
  /\ Objects("body_limit")' <=> exceeded'
  /\ Objects("custom")' <=>
       /\ Hits(app'.custom, matches') # {}
       /\ app'.custom[First(Hits(app'.custom, matches'))].action = "block"
  /\ Objects("waf")' <=>
       inspection' \in Findings /\ InspectRequest(inspection') = "block"
  /\ Objects("default")' <=> app'.default = "block" /\ ~ TerminalAllow'
BY DEF Objects, TerminalAllow, First, Hits, Decisive, InspectRequest, Findings

LEMMA Orders ==
  /\ DOMAIN Order = 1 .. 6
  /\ Order[1] = "ip" /\ Order[2] = "rate_limit" /\ Order[3] = "body_limit"
  /\ Order[4] = "custom" /\ Order[5] = "waf" /\ Order[6] = "default"
BY DEF Order

LEMMA FirstObjection ==
  ASSUME NEW i \in 1 .. 6, Objects(Order[i]), Passed(i - 1)
  PROVE  Objections # {} /\ First(Objections) = i
<1>1. Objections \subseteq 1 .. 6 /\ i \in Objections
  BY Orders DEF Objections
<1>2. \A j \in Objections : i <= j
  BY <1>1 DEF Objections, Passed
<1>3. Objections \subseteq Int
  BY <1>1
<1>4. First(Objections) = i
  BY <1>1, <1>2, <1>3, FirstIs
<1> QED
  BY <1>1, <1>4

LEMMA NoObjection == Passed(6) => Objections = {}
BY Orders DEF Passed, Objections

LEMMA Counters ==
  /\ CountedBy \subseteq {"rate_limit", "custom", "waf"}
  /\ "rate_limit" \in CountedBy <=>
       over # {} /\ app.rateLimits[First(over)].action = "count"
  /\ "custom" \in CountedBy <=>
       Counts(app.custom, matches) # {} /\ Hits(app.custom, matches) = {}
  /\ "waf" \in CountedBy <=>
       inspection \in Findings /\ InspectRequest(inspection) = "count"
BY DEF CountedBy

(* What the stages say does not change while their inputs do not. *)
LEMMA SameInputs ==
  ASSUME UNCHANGED inputVars
  PROVE  /\ \A i \in 1 .. 6 : Objects(Order[i])' <=> Objects(Order[i])
         /\ \A n \in 0 .. 6 : Passed(n)' <=> Passed(n)
         /\ Objections' = Objections
         /\ CountedBy' = CountedBy
         /\ TerminalAllow' <=> TerminalAllow
<1>1. \A s : Objects(s)' <=> Objects(s)
  BY DEF Objects, inputVars, AddressBlocked, Hits, First, Decisive,
     InspectRequest
<1>2. CountedBy' = CountedBy
  BY DEF CountedBy, inputVars, Hits, Counts, First, Decisive, InspectRequest
<1>3. TerminalAllow' <=> TerminalAllow
  BY DEF TerminalAllow, inputVars, Hits, First, Decisive
<1> QED
  BY <1>1, <1>2, <1>3 DEF Passed, Objections, Order

-----------------------------------------------------------------------------
(* One lemma for each action of ServeHTTP. *)

LEMMA RouteKeeps == GatewayInv /\ Route => GatewayInv'
<1> SUFFICES ASSUME GatewayInv, Route PROVE GatewayInv'
  OBVIOUS
<1> USE DEF GatewayInv, Undecided, Settled
<1>1. /\ pc = "received"
      /\ UNCHANGED <<inputVars, next, finalVars, event, forwarded, panicked,
                     logged>>
      /\ \/ pc' = "finished" /\ response' # 0
         \/ pc' = "lookup"
  BY DEF Route
<1>2. InputInv'
  BY <1>1 DEF InputInv, inputVars
<1>3. StageInv'
  BY <1>1 DEF StageInv, finalVars
<1>4. DecidingInv' /\ VerdictInv' /\ ForwardInv'
  BY <1>1 DEF DecidingInv, VerdictInv, ForwardInv, InputInv, inputVars,
     Failures
<1>5. LogInv'
  BY <1>1 DEF LogInv, OneEventPerRequest, Over, InputInv, inputVars
<1> QED
  BY <1>2, <1>3, <1>4, <1>5

(* The handler gives up before a verdict: with an event that names the     *)
(* failure and nothing enforced.                                           *)
LEMMA GivesUp ==
  ASSUME GatewayInv, pc \in {"lookup", "body", "waf"}, pc' = "logging",
         NEW reason \in Failures, NEW a, event' = Event(a, reason, FALSE, FALSE),
         pc # "lookup" => reason \in {"request_body_read_failed", "waf_error"},
         UNCHANGED <<app, over, forwarded, logged>>
  PROVE  GatewayInv'
<1> USE DEF GatewayInv, Undecided, Settled
<1>1. event'.reason = reason /\ event'.enforced = FALSE
  BY DEF Event
<1>2. InputInv' /\ StageInv' /\ DecidingInv' /\ VerdictInv'
  BY <1>1 DEF InputInv, StageInv, DecidingInv, VerdictInv
<1>3. ForwardInv'
  BY <1>1 DEF ForwardInv, InputInv
<1>4. LogInv'
  BY <1>1 DEF LogInv, OneEventPerRequest, Over
<1> QED
  BY <1>2, <1>3, <1>4

LEMMA LookupFailsKeeps == GatewayInv /\ LookupFails => GatewayInv'
BY GivesUp DEF LookupFails, Deny, inputVars, Failures

LEMMA BodyUnreadableKeeps == GatewayInv /\ BodyUnreadable => GatewayInv'
BY GivesUp DEF BodyUnreadable, Deny, inputVars, Failures

LEMMA InspectFailsKeeps == GatewayInv /\ InspectFails => GatewayInv'
BY GivesUp DEF InspectFails, Deny, Failures

LEMMA LookupFindsKeeps ==
  ASSUME GatewayInv, NEW a \in Apps, NEW limits \in SUBSET DOMAIN a.rateLimits,
         LookupFinds(a, limits)
  PROVE  GatewayInv'
<1> USE DEF GatewayInv, Undecided, Settled
<1>1. /\ pc = "lookup" /\ pc' = "body"
      /\ app' = a /\ over' = limits
      /\ UNCHANGED <<address, exceeded, matches, inspection, next, finalVars,
                     outVars>>
  BY DEF LookupFinds
<1>2. InputInv'
  BY <1>1, GatewayAssumption DEF InputInv
<1>3. StageInv' /\ DecidingInv' /\ VerdictInv'
  BY <1>1 DEF StageInv, DecidingInv, VerdictInv, finalVars
<1>4. ForwardInv' /\ LogInv'
  BY <1>1 DEF ForwardInv, LogInv, OneEventPerRequest, Over, outVars
<1> QED
  BY <1>2, <1>3, <1>4

(* What a step within the pipeline leaves alone. *)
LEMMA Inside ==
  ASSUME GatewayInv, pc \in Undecided, pc' \in Undecided \cup {"deciding"},
         UNCHANGED <<app, over, outVars>>
  PROVE  VerdictInv' /\ ForwardInv' /\ LogInv'
BY DEF GatewayInv, Undecided, Settled, VerdictInv, ForwardInv, LogInv,
   OneEventPerRequest, Over, outVars

(* Stage i objects, and none before it. *)
LEMMA Objected ==
  ASSUME GatewayInv, NEW i \in 1 .. 5, pc \in Undecided, pc' = "deciding",
         source' = Order[i], action' \in {"block", "rate_limit"},
         Objects(Order[i])', Passed(i - 1)', UNCHANGED <<app, over, outVars>>
  PROVE  GatewayInv'
<1>1. VerdictInv' /\ ForwardInv' /\ LogInv'
  BY Inside
<1>2. InputInv' /\ StageInv'
  BY DEF GatewayInv, Undecided, Settled, InputInv, StageInv
<1>3. DecidingInv'
  BY DEF DecidingInv, Order
<1> QED
  BY <1>1, <1>2, <1>3 DEF GatewayInv

LEMMA EvaluateIPKeeps ==
  ASSUME GatewayInv, NEW where, NEW large, EvaluateIP(where, large)
  PROVE  GatewayInv'
<1> USE DEF Undecided
<1>1. /\ pc = "body" /\ address' = where
      /\ UNCHANGED <<app, over, matches, inspection, next, counted, terminal,
                     outVars>>
  BY DEF EvaluateIP
<1>2. CASE AddressBlocked(where)
  <2>1. pc' = "deciding" /\ source' = Order[1] /\ action' = "block"
    BY <1>2, Orders DEF EvaluateIP
  <2>2. Objects(Order[1])'
    BY <1>1, <1>2, StagesNext, Orders DEF AddressBlocked
  <2>3. Passed(1 - 1)'
    BY DEF Passed
  <2> QED
    BY <1>1, <2>1, <2>2, <2>3, Objected
<1>3. CASE ~ AddressBlocked(where)
  <2>1. pc' = "limits" /\ UNCHANGED <<action, source>>
    BY <1>3 DEF EvaluateIP
  <2>2. Passed(1)'
    BY <1>1, <1>3, StagesNext, Orders DEF AddressBlocked, Passed
  <2>3. InputInv'
    BY <1>1, <2>1 DEF GatewayInv, InputInv
  <2>4. app \in Apps /\ app.rateLimits \in Seq(RateLimitRules)
    BY <1>1, GatewayAssumption DEF GatewayInv, InputInv, IsApp
  <2>5. /\ next' \in 1 .. Len(app.rateLimits) + 1
        /\ \A j \in over' : next' <= j
    BY <1>1, <2>4 DEF GatewayInv, InputInv, StageInv
  <2>6. StageInv' /\ DecidingInv'
    BY <1>1, <2>1, <2>2, <2>5 DEF GatewayInv, StageInv, DecidingInv
  <2>7. VerdictInv' /\ ForwardInv' /\ LogInv'
    BY <1>1, <2>1, Inside
  <2> QED
    BY <2>3, <2>6, <2>7 DEF GatewayInv
<1> QED
  BY <1>2, <1>3

(* The rate limits have been gone through: the first that is over, if any, *)
(* only counts.                                                            *)
LEMMA LimitsPassed ==
  ASSUME GatewayInv, pc = "limits", pc' = "rules",
         UNCHANGED <<inputVars, action, source, terminal, outVars>>,
         ~ Objects("rate_limit"),
         counted' = IF "rate_limit" \in CountedBy THEN "rate_limit" ELSE "none"
  PROVE  GatewayInv'
<1> USE DEF Undecided
<1>1. UNCHANGED <<app, over, matches, inspection>>
  BY DEF inputVars
<1>2. Passed(2)'
  BY SameInputs, Orders DEF GatewayInv, StageInv, Passed
<1>3. CountedBy' \subseteq {"rate_limit"}
  <2>1. matches = {} /\ inspection = "none"
    BY DEF GatewayInv, InputInv
  <2>2. Counts(app.custom, matches) = {}
    BY <2>1 DEF Counts
  <2> QED
    BY <2>1, <2>2, Counters, SameInputs DEF Findings
<1>4. InputInv'
  BY <1>1 DEF GatewayInv, InputInv
<1>5. StageInv'
  BY <1>2, <1>3, SameInputs DEF GatewayInv, StageInv
<1>6. DecidingInv' /\ VerdictInv' /\ ForwardInv' /\ LogInv'
  BY <1>1, Inside DEF DecidingInv
<1> QED
  BY <1>4, <1>5, <1>6 DEF GatewayInv

LEMMA CheckRateLimitKeeps == GatewayInv /\ CheckRateLimit => GatewayInv'
<1> SUFFICES ASSUME GatewayInv, CheckRateLimit PROVE GatewayInv'
  OBVIOUS
<1> USE DEF Undecided
<1>1. /\ pc = "limits"
      /\ next \in DOMAIN app.rateLimits
      /\ UNCHANGED <<inputVars, terminal, outVars>>
      /\ UNCHANGED <<app, over>>
  BY DEF CheckRateLimit, inputVars
<1>2. app.rateLimits \in Seq(RateLimitRules) /\ over \subseteq Int
  BY <1>1, GatewayAssumption DEF GatewayInv, InputInv, IsApp
<1>3. next \in over => First(over) = next
  BY <1>1, <1>2, FirstIs DEF GatewayInv, StageInv
<1>4. CASE next \notin over
  <2>1. next' = next + 1 /\ UNCHANGED <<pc, action, source, counted>>
    BY <1>4 DEF CheckRateLimit
  <2>2. Passed(1)'
    BY <1>1, SameInputs DEF GatewayInv, StageInv
  <2>3. /\ next' \in 1 .. Len(app.rateLimits) + 1
        /\ \A j \in over : next' <= j
    BY <1>1, <1>2, <1>4, <2>1 DEF GatewayInv, StageInv
  <2>4. InputInv' /\ StageInv' /\ DecidingInv'
    BY <1>1, <2>1, <2>2, <2>3
    DEF GatewayInv, InputInv, StageInv, DecidingInv, inputVars, outVars
  <2> QED
    BY <1>1, <2>1, <2>4, Inside DEF GatewayInv
<1>5. CASE next \in over /\ app.rateLimits[next].action = "count"
  <2>1. pc' = "rules" /\ UNCHANGED <<action, source>> /\ Remember("rate_limit")
    BY <1>5 DEF CheckRateLimit
  <2>2. counted' = "rate_limit"
    BY <1>1, <2>1 DEF Remember, GatewayInv, StageInv
  <2>3. "rate_limit" \in CountedBy /\ ~ Objects("rate_limit")
    BY <1>3, <1>5, Counters, Stages
  <2> QED
    BY <1>1, <2>1, <2>2, <2>3, LimitsPassed
<1>6. CASE next \in over /\ app.rateLimits[next].action = "block"
  <2>1. pc' = "deciding" /\ source' = Order[2] /\ action' = "rate_limit"
    BY <1>6, Orders DEF CheckRateLimit
  <2>2. Objects(Order[2])'
    BY <1>1, <1>3, <1>6, Stages, SameInputs, Orders
  <2>3. Passed(2 - 1)'
    BY <1>1, SameInputs DEF GatewayInv, StageInv
  <2> QED
    BY <1>1, <2>1, <2>2, <2>3, Objected
<1> QED
  BY <1>4, <1>5, <1>6 DEF CheckRateLimit

LEMMA WithinLimitsKeeps == GatewayInv /\ WithinLimits => GatewayInv'
<1> SUFFICES ASSUME GatewayInv, WithinLimits PROVE GatewayInv'
  OBVIOUS
<1>1. app.rateLimits \in Seq(RateLimitRules)
  BY GatewayAssumption DEF WithinLimits, GatewayInv, InputInv, IsApp, Undecided
<1>2. over = {}
  BY <1>1 DEF WithinLimits, GatewayInv, InputInv, StageInv, Undecided
<1>3. ~ Objects("rate_limit") /\ "rate_limit" \notin CountedBy
  BY <1>2, Stages, Counters
<1>4. counted = "none"
  BY DEF WithinLimits, GatewayInv, StageInv
<1> QED
  BY <1>3, <1>4, LimitsPassed DEF WithinLimits, finalVars

LEMMA BodyTooLargeKeeps == GatewayInv /\ BodyTooLarge => GatewayInv'
<1> SUFFICES ASSUME GatewayInv, BodyTooLarge PROVE GatewayInv'
  OBVIOUS
<1>1. /\ pc \in Undecided /\ pc' = "deciding"
      /\ UNCHANGED inputVars /\ UNCHANGED <<app, over, outVars>>
      /\ source' = Order[3] /\ action' = "block"
  BY Orders DEF BodyTooLarge, inputVars, Undecided
<1>2. Objects(Order[3])'
  BY <1>1, Stages, SameInputs, Orders DEF BodyTooLarge
<1>3. Passed(3 - 1)'
  BY <1>1, SameInputs DEF BodyTooLarge, GatewayInv, StageInv
<1> QED
  BY <1>1, <1>2, <1>3, Objected

LEMMA CustomRulesStageKeeps ==
  ASSUME GatewayInv, NEW matching, CustomRulesStage(matching)
  PROVE  GatewayInv'
<1> DEFINE hits == Hits(app.custom, matching)
           rule == app.custom[First(hits)]
<1> USE DEF Undecided
<1>1. /\ pc = "rules" /\ ~ exceeded /\ matches' = matching
      /\ UNCHANGED <<app, address, over, exceeded, inspection, outVars>>
  BY DEF CustomRulesStage
<1>2. Passed(3)'
  <2>1. ~ Objects("ip") /\ ~ Objects("rate_limit")
    BY <1>1, Orders DEF GatewayInv, StageInv, Passed
  <2>2. ~ Objects("ip")' /\ ~ Objects("rate_limit")' /\ ~ Objects("body_limit")'
    BY <1>1, <2>1, Stages, StagesNext DEF AddressBlocked
  <2> QED
    BY <2>2, Orders DEF Passed
<1>3. CASE hits # {} /\ rule.action = "block"
  <2>1. pc' = "deciding" /\ source' = Order[4] /\ action' = "block"
    BY <1>3, Orders DEF CustomRulesStage
  <2>2. Objects(Order[4])'
    BY <1>1, <1>3, StagesNext, Orders
  <2> QED
    BY <1>1, <1>2, <2>1, <2>2, Objected
<1>4. CASE ~ (hits # {} /\ rule.action = "block")
  <2>1. /\ pc' = "waf" /\ UNCHANGED action
        /\ source' \in {source, "custom_allow"}
        /\ \/ /\ hits = {} /\ UNCHANGED terminal
              /\ IF Counts(app.custom, matching) = {}
                 THEN UNCHANGED counted
                 ELSE Remember("custom")
           \/ /\ hits # {} /\ rule.action = "allow"
              /\ terminal' = TRUE
              /\ UNCHANGED counted
    BY <1>4 DEF CustomRulesStage
  <2>2. Passed(4)'
    <3>1. ~ Objects(Order[4])'
      BY <1>1, <1>4, StagesNext, Orders
    <3> QED
      BY <1>2, <3>1 DEF Passed
  <2>3. terminal' <=> TerminalAllow'
    <3>1. TerminalAllow' <=> hits # {} /\ rule.action = "allow"
      BY <1>1 DEF TerminalAllow, Hits, First, Decisive
    <3>2. ~ terminal
      BY <1>1 DEF GatewayInv, StageInv
    <3> QED
      BY <2>1, <3>1, <3>2
  <2>4. IF CountedBy' = {} THEN counted' = "none" ELSE counted' \in CountedBy'
    <3>1. /\ CountedBy' \subseteq {"rate_limit", "custom", "waf"}
          /\ "rate_limit" \in CountedBy' <=> "rate_limit" \in CountedBy
          /\ "custom" \in CountedBy' <=>
               Counts(app.custom, matching) # {} /\ hits = {}
          /\ "waf" \notin CountedBy'
      BY <1>1 DEF CountedBy, Counts, Hits, Decisive, First, GatewayInv,
         InputInv, Findings
    <3>2. CountedBy \subseteq {"rate_limit"}
      <4>1. matches = {} /\ inspection = "none"
        BY <1>1 DEF GatewayInv, InputInv
      <4>2. Counts(app.custom, matches) = {}
        BY <4>1 DEF Counts
      <4> QED
        BY <4>1, <4>2, Counters DEF Findings
    <3>3. IF CountedBy = {} THEN counted = "none" ELSE counted \in CountedBy
      BY <1>1 DEF GatewayInv, StageInv
    <3> QED
      BY <2>1, <3>1, <3>2, <3>3 DEF Remember
  <2>5. InputInv' /\ DecidingInv'
    BY <1>1, <2>1 DEF GatewayInv, InputInv, DecidingInv
  <2>6. StageInv'
    BY <1>1, <2>1, <2>2, <2>3, <2>4 DEF GatewayInv, StageInv
  <2>7. VerdictInv' /\ ForwardInv' /\ LogInv'
    BY <1>1, <2>1, Inside
  <2> QED
    BY <2>5, <2>6, <2>7 DEF GatewayInv
<1> QED
  BY <1>3, <1>4

LEMMA InspectKeeps ==
  ASSUME GatewayInv, NEW found \in Findings, Inspect(found)
  PROVE  GatewayInv'
<1> USE DEF Undecided
<1>1. /\ pc = "waf" /\ pc' = "deciding" /\ inspection' = found
      /\ UNCHANGED <<app, address, over, exceeded, matches, outVars>>
  BY DEF Inspect
<1>2. Passed(4)'
  <2>1. /\ ~ Objects("ip") /\ ~ Objects("rate_limit")
        /\ ~ Objects("body_limit") /\ ~ Objects("custom")
    BY <1>1, Orders DEF GatewayInv, StageInv, Passed
  <2>2. /\ ~ Objects("ip")' /\ ~ Objects("rate_limit")'
        /\ ~ Objects("body_limit")' /\ ~ Objects("custom")'
    BY <1>1, <2>1, Stages, StagesNext DEF AddressBlocked
  <2> QED
    BY <2>2, Orders DEF Passed
<1>3. CASE InspectRequest(found) = "block"
  <2>1. source' = Order[5] /\ action' = "block"
    BY <1>3, Orders DEF Inspect
  <2>2. Objects(Order[5])'
    BY <1>1, <1>3, StagesNext, Orders
  <2> QED
    BY <1>1, <1>2, <2>1, <2>2, Objected
<1>4. CASE InspectRequest(found) # "block"
  <2>1. /\ UNCHANGED <<action, source, terminal>>
        /\ \/ InspectRequest(found) = "count" /\ Remember("waf")
           \/ InspectRequest(found) = "allow" /\ UNCHANGED counted
    BY <1>4 DEF Inspect
  <2>2. Passed(5)'
    <3>1. ~ Objects(Order[5])'
      BY <1>1, <1>4, StagesNext, Orders
    <3> QED
      BY <1>2, <3>1 DEF Passed
  <2>3. terminal' <=> TerminalAllow'
    BY <1>1, <2>1
    DEF GatewayInv, StageInv, TerminalAllow, Hits, First, Decisive
  <2>4. IF CountedBy' = {} THEN counted' = "none" ELSE counted' \in CountedBy'
    <3>1. /\ CountedBy' \subseteq {"rate_limit", "custom", "waf"}
          /\ "rate_limit" \in CountedBy' <=> "rate_limit" \in CountedBy
          /\ "custom" \in CountedBy' <=> "custom" \in CountedBy
      BY <1>1 DEF CountedBy, Counts, Hits, Decisive, First
    <3>2. "waf" \in CountedBy' <=> InspectRequest(found) = "count"
      BY <1>1 DEF CountedBy, InspectRequest
    <3>3. "waf" \notin CountedBy /\ CountedBy \subseteq {"rate_limit", "custom", "waf"}
      BY <1>1, Counters DEF GatewayInv, InputInv, Findings
    <3>4. IF CountedBy = {} THEN counted = "none" ELSE counted \in CountedBy
      BY <1>1 DEF GatewayInv, StageInv
    <3> QED
      BY <2>1, <3>1, <3>2, <3>3, <3>4 DEF Remember
  <2>5. InputInv'
    BY <1>1 DEF GatewayInv, InputInv
  <2>6. StageInv' /\ DecidingInv'
    BY <1>1, <2>1, <2>2, <2>3, <2>4 DEF GatewayInv, StageInv, DecidingInv
  <2>7. VerdictInv' /\ ForwardInv' /\ LogInv'
    BY <1>1, Inside
  <2> QED
    BY <2>5, <2>6, <2>7 DEF GatewayInv
<1> QED
  BY <1>3, <1>4

(* The verdict is that of the first stage that objects, the default action *)
(* included.                                                               *)
LEMMA VerdictIsRight ==
  ASSUME GatewayInv, pc = "deciding"
  PROVE  /\ Objections # {} => /\ Verdict.source = Order[First(Objections)]
                               /\ WouldBlock(Verdict.action)
         /\ Objections = {} =>
              /\ ~ WouldBlock(Verdict.action)
              /\ inspection \in Findings
              /\ IF CountedBy # {}
                 THEN Verdict.action = "count" /\ Verdict.source \in CountedBy
                 ELSE Verdict.action = "allow"
         /\ Verdict.source \notin Failures
<1>1. CASE action # "allow"
  <2>1. PICK i \in 1 .. 5 : /\ source = Order[i]
                            /\ Objects(Order[i])
                            /\ Passed(i - 1)
    BY <1>1 DEF GatewayInv, DecidingInv
  <2>2. Objections # {} /\ First(Objections) = i
    BY <2>1, FirstObjection
  <2>3. Verdict.action = action /\ Verdict.source = source
    BY <1>1 DEF Verdict, DefaultBlocks
  <2>4. WouldBlock(action)
    BY <1>1 DEF GatewayInv, DecidingInv, WouldBlock
  <2>5. source \notin Failures
    BY <2>1, Orders DEF Failures
  <2> QED
    BY <2>1, <2>2, <2>3, <2>4, <2>5
<1>2. CASE action = "allow"
  <2>1. /\ source \in {"none", "custom_allow"}
        /\ Passed(5)
        /\ inspection \in Findings
        /\ terminal <=> TerminalAllow
    BY <1>2 DEF GatewayInv, DecidingInv
  <2>2. Objects(Order[6]) <=> DefaultBlocks
    BY <1>2, <2>1, Stages, Orders DEF DefaultBlocks
  <2>3. CASE DefaultBlocks
    <3>1. Objections # {} /\ First(Objections) = 6
      BY <2>1, <2>2, <2>3, FirstObjection
    <3>2. Verdict.action = "block" /\ Verdict.source = "default"
      BY <2>3 DEF Verdict
    <3> QED
      BY <3>1, <3>2, Orders DEF WouldBlock, Failures
  <2>4. CASE ~ DefaultBlocks
    <3>1. Objections = {}
      BY <2>1, <2>2, <2>4, NoObjection DEF Passed
    <3>2. IF CountedBy = {} THEN counted = "none" ELSE counted \in CountedBy
      BY <1>2 DEF GatewayInv, StageInv
    <3>3. CASE CountedBy = {}
      <4>1. Verdict.action = "allow" /\ Verdict.source = source
        BY <1>2, <2>4, <3>2, <3>3 DEF Verdict
      <4> QED
        BY <2>1, <3>1, <3>3, <4>1 DEF WouldBlock, Failures
    <3>4. CASE CountedBy # {}
      <4>1. counted \in CountedBy /\ counted \in {"rate_limit", "custom", "waf"}
        BY <3>2, <3>4, Counters
      <4>2. Verdict.action = "count" /\ Verdict.source = counted
        BY <1>2, <2>4, <4>1 DEF Verdict
      <4> QED
        BY <2>1, <3>1, <3>4, <4>1, <4>2 DEF WouldBlock, Failures
    <3> QED
      BY <3>3, <3>4
  <2> QED
    BY <2>3, <2>4
<1> QED
  BY <1>1, <1>2

LEMMA DecideKeeps == GatewayInv /\ Decide => GatewayInv'
<1> SUFFICES ASSUME GatewayInv, Decide PROVE GatewayInv'
  OBVIOUS
<1> USE DEF Settled, Undecided
<1>1. /\ pc = "deciding"
      /\ UNCHANGED inputVars /\ UNCHANGED <<app, over>>
      /\ UNCHANGED <<forwarded, logged>>
      /\ pc' = IF Enforced THEN "logging" ELSE "forwarding"
  BY DEF Decide, Deny, inputVars
<1>2. /\ event'.action = Verdict.action
      /\ event'.reason = Verdict.source
      /\ event'.enforced <=> Enforced
      /\ event'.wouldBlock <=> WouldBlock(Verdict.action)
  BY DEF Decide, Event
<1>3. ~ forwarded /\ app # NoApp /\ logged = 0
  BY <1>1 DEF GatewayInv, ForwardInv, InputInv, LogInv
<1>4. InputInv'
  BY <1>1 DEF GatewayInv, InputInv
<1>5. StageInv' /\ DecidingInv'
  BY <1>1 DEF StageInv, DecidingInv
<1>6. VerdictInv'
  <2>1. EventIsRight' /\ (Objections' = {} => inspection' \in Findings)
    <3>1. Objections' = Objections /\ CountedBy' = CountedBy
      BY <1>1, SameInputs
    <3>2. inspection' = inspection /\ First(Objections)' = First(Objections)
      BY <1>1, <3>1 DEF inputVars, First
    <3> QED
      BY <1>1, <1>2, <3>1, <3>2, VerdictIsRight DEF EventIsRight, Order
  <2>2. event'.enforced <=> app'.mode = "block" /\ event'.wouldBlock
    BY <1>1, <1>2 DEF Enforced
  <2> QED
    BY <1>1, <1>2, <1>3, <2>1, <2>2 DEF VerdictInv
<1>7. ForwardInv'
  BY <1>1, <1>2, <1>3, VerdictIsRight DEF ForwardInv
<1>8. LogInv'
  BY <1>1, <1>3 DEF LogInv, OneEventPerRequest, Over
<1> QED
  BY <1>4, <1>5, <1>6, <1>7, <1>8 DEF GatewayInv

(* After the verdict nothing that it rests on changes. *)
LEMMA AfterVerdict ==
  ASSUME GatewayInv, pc \in Settled, pc' \in Settled \ {"forwarding"},
         UNCHANGED inputVars, UNCHANGED event,
         forwarded' <=> forwarded \/ pc = "forwarding"
  PROVE  InputInv' /\ StageInv' /\ DecidingInv' /\ VerdictInv' /\ ForwardInv'
<1> USE DEF Settled, Undecided
<1>1. UNCHANGED <<app, over, inspection>>
  BY DEF inputVars
<1>2. InputInv' /\ StageInv' /\ DecidingInv' /\ ForwardInv'
  BY <1>1
  DEF GatewayInv, InputInv, StageInv, DecidingInv, ForwardInv, VerdictInv
<1>3. VerdictInv'
  <2>1. Objections' = Objections /\ CountedBy' = CountedBy
    BY SameInputs
  <2>2. EventIsRight' <=> EventIsRight
    BY <2>1 DEF EventIsRight, Order, First
  <2> QED
    BY <1>1, <2>1, <2>2 DEF GatewayInv, VerdictInv
<1> QED
  BY <1>2, <1>3

LEMMA ForwardKeeps ==
  ASSUME GatewayInv, NEW outcome, Forward(outcome)
  PROVE  GatewayInv'
<1>1. InputInv' /\ StageInv' /\ DecidingInv' /\ VerdictInv' /\ ForwardInv'
  BY AfterVerdict DEF Forward, Settled
<1>2. LogInv'
  BY DEF Forward, GatewayInv, LogInv, ForwardInv, OneEventPerRequest, Over,
     inputVars
<1> QED
  BY <1>1, <1>2 DEF GatewayInv

LEMMA LogKeeps == GatewayInv /\ Log => GatewayInv'
<1> SUFFICES ASSUME GatewayInv, Log PROVE GatewayInv'
  OBVIOUS
<1>1. InputInv' /\ StageInv' /\ DecidingInv' /\ VerdictInv' /\ ForwardInv'
  BY AfterVerdict DEF Log, Settled
<1>2. LogInv'
  BY DEF Log, GatewayInv, LogInv, OneEventPerRequest, Over, inputVars, Failures
<1> QED
  BY <1>1, <1>2 DEF GatewayInv

LEMMA RecoverKeeps == GatewayInv /\ Recover => GatewayInv'
<1> SUFFICES ASSUME GatewayInv, Recover PROVE GatewayInv'
  OBVIOUS
<1>1. InputInv' /\ StageInv' /\ DecidingInv' /\ VerdictInv' /\ ForwardInv'
  BY AfterVerdict DEF Recover, Settled
<1>2. LogInv'
  BY DEF Recover, GatewayInv, LogInv, OneEventPerRequest, Over, inputVars,
     Failures
<1> QED
  BY <1>1, <1>2 DEF GatewayInv

LEMMA InvInit == Init => GatewayInv
<1> SUFFICES ASSUME Init PROVE GatewayInv
  OBVIOUS
<1> USE DEF Init, Event, Undecided, Settled
<1>1. InputInv /\ StageInv /\ DecidingInv
  BY DEF InputInv, StageInv, DecidingInv
<1>2. VerdictInv /\ ForwardInv /\ LogInv
  BY DEF VerdictInv, ForwardInv, LogInv, OneEventPerRequest, Over
<1> QED
  BY <1>1, <1>2 DEF GatewayInv

LEMMA InvStep == GatewayInv /\ [Next]_vars => GatewayInv'
<1> SUFFICES ASSUME GatewayInv, [Next]_vars PROVE GatewayInv'
  OBVIOUS
<1>1. CASE UNCHANGED vars
  <2>1. UNCHANGED inputVars /\ UNCHANGED <<pc, next, finalVars, outVars>>
    BY <1>1 DEF vars
  <2> USE <2>1 DEF inputVars, finalVars, outVars, GatewayInv
  <2>2. InputInv' /\ ForwardInv'
    BY DEF InputInv, ForwardInv
  <2>3. LogInv'
    BY DEF LogInv, OneEventPerRequest, Over
  <2>4. StageInv'
    BY SameInputs DEF StageInv
  <2>5. DecidingInv'
    BY SameInputs DEF DecidingInv, Order
  <2>6. VerdictInv'
    BY SameInputs DEF VerdictInv, EventIsRight, Order, First
  <2> QED
    BY <2>2, <2>3, <2>4, <2>5, <2>6
<1> QED
  BY <1>1, RouteKeeps, LookupFailsKeeps, LookupFindsKeeps, BodyUnreadableKeeps,
     EvaluateIPKeeps, CheckRateLimitKeeps, WithinLimitsKeeps,
     BodyTooLargeKeeps, CustomRulesStageKeeps, InspectKeeps,
     InspectFailsKeeps, DecideKeeps, ForwardKeeps, LogKeeps, RecoverKeeps
  DEF Next, Finished

-----------------------------------------------------------------------------
(* Theorems. *)

(* The invariant of the pipeline: what each stage of ServeHTTP may rely on *)
(* and what it leaves behind (gateway.go:87-297).                          *)
THEOREM GatewayCorrect == Spec => []GatewayInv
BY InvInit, InvStep, PTL DEF Spec

(* For every policy with any number of rate limits and custom rules, the   *)
(* first stage that objects decides, and the event says so                 *)
(* (gateway.go:87-297).                                                    *)
THEOREM ObjectionsDecideInOrder == Spec => []FirstObjectionDecides
<1>1. GatewayInv => FirstObjectionDecides
  BY DEF GatewayInv, VerdictInv, FirstObjectionDecides, Over, Settled
<1> QED
  BY <1>1, GatewayCorrect, PTL

(* What a policy denies is not forwarded, and what is forwarded under a    *)
(* blocking policy was inspected and objected to by nobody.                *)
THEOREM DenialsHold == Spec => []DeniedIsNotForwarded
<1>1. GatewayInv => DeniedIsNotForwarded
  <2> SUFFICES ASSUME GatewayInv PROVE DeniedIsNotForwarded
    OBVIOUS
  <2>1. forwarded => pc \in Settled /\ app # NoApp /\ event.reason \notin Failures
    BY DEF GatewayInv, ForwardInv
  <2>2. event.enforced => ~ forwarded
    BY <2>1 DEF GatewayInv, VerdictInv
  <2>3. forwarded /\ app.mode = "block" =>
          inspection \in Findings /\ Objections = {}
    BY <2>1, <2>2 DEF GatewayInv, VerdictInv, EventIsRight
  <2> QED
    BY <2>2, <2>3 DEF DeniedIsNotForwarded
<1> QED
  BY <1>1, GatewayCorrect, PTL

(* A count-mode policy denies nothing.                                     *)
THEOREM CountModeOnlyCounts == Spec => []CountModeForwards
<1>1. GatewayInv => CountModeForwards
  BY DEF GatewayInv, VerdictInv, ForwardInv, CountModeForwards, Over, Settled
<1> QED
  BY <1>1, GatewayCorrect, PTL

(* Every request is answered, and leaves one audit event if its host is    *)
(* valid, also when the handler panics.                                    *)
THEOREM EveryRequestIsLogged == Spec => []OneEventPerRequest
<1>1. GatewayInv => OneEventPerRequest
  BY DEF GatewayInv, LogInv
<1> QED
  BY <1>1, GatewayCorrect, PTL

-----------------------------------------------------------------------------
(* Induction over numbers. *)

(* Every set of numbers has a least one. *)
LEMMA LeastNumber ==
  ASSUME NEW T, T \subseteq Nat, T # {}
  PROVE  \E x \in T : \A y \in T : x <= y
<1> DEFINE Less == {ss \in Nat \X Nat : ss[1] < ss[2]}
<1>1. IsWellFoundedOn(Less, Nat)
  BY NatLessThanWellFounded DEF OpToRel
<1>2. \A m, n \in Nat : m < n => <<m, n>> \in Less
  OBVIOUS
<1> HIDE DEF Less
<1>3. PICK x \in T : \A y \in T : ~ (<<y, x>> \in Less)
  BY <1>1, WFMin
<1>4. ASSUME NEW y \in T PROVE x <= y
  <2>1. x \in Nat /\ y \in Nat
    OBVIOUS
  <2>2. ~ (y < x)
    BY <1>2, <1>3, <2>1
  <2> QED
    BY <2>1, <2>2
<1> QED
  BY <1>4

-----------------------------------------------------------------------------
(* Induction over conditions. *)

Children(c) == {c.all[i] : i \in DOMAIN c.all}
                 \cup {c.any[i] : i \in DOMAIN c.any}

LEMMA ChildrenAreConditions ==
  ASSUME NEW c \in Conditions
  PROVE  /\ c \in ConditionForms /\ Depth[c] \in Nat
         /\ \A i \in DOMAIN c.all : /\ c.all[i] \in Conditions
                                    /\ c.all[i] \in Children(c)
         /\ \A i \in DOMAIN c.any : /\ c.any[i] \in Conditions
                                    /\ c.any[i] \in Children(c)
         /\ \A y \in Children(c) : y \in Conditions /\ Depth[y] < Depth[c]
<1>1. /\ c \in ConditionForms /\ Depth[c] \in Nat
      /\ \A i \in DOMAIN c.all : Depth[c.all[i]] < Depth[c]
      /\ \A i \in DOMAIN c.any : Depth[c.any[i]] < Depth[c]
  BY PolicyRulesAssumption
<1>2. c.all \in Seq(Conditions) /\ c.any \in Seq(Conditions)
  BY <1>1 DEF ConditionForms
<1>3. /\ \A i \in DOMAIN c.all : c.all[i] \in Conditions
      /\ \A i \in DOMAIN c.any : c.any[i] \in Conditions
  BY <1>2
<1> QED
  BY <1>1, <1>3 DEF Children

(* A condition of least depth among those that make a claim false: the     *)
(* claim holds for its children.                                           *)
LEMMA LeastCondition ==
  ASSUME NEW T, T \subseteq Conditions, T # {}
  PROVE  \E c \in T : \A y \in Children(c) : y \notin T
<1> DEFINE D == {Depth[c] : c \in T}
<1>1. D \subseteq Nat /\ D # {}
  BY ChildrenAreConditions
<1>2. PICK n \in D : \A m \in D : n <= m
  BY <1>1, LeastNumber
<1>3. PICK c \in T : Depth[c] = n
  BY <1>2
<1>4. ASSUME NEW y \in Children(c), y \in T PROVE FALSE
  <2>1. Depth[y] \in D
    BY <1>4
  <2>2. Depth[y] < Depth[c] /\ Depth[y] \in Nat /\ Depth[c] \in Nat
    BY <1>4, ChildrenAreConditions
  <2> QED
    BY <1>2, <1>3, <2>1, <2>2
<1> QED
  BY <1>4

Tests == [Conditions -> BOOLEAN]

(* A step computes the value at a condition out of the values at its       *)
(* children.                                                               *)
IsStep(S) ==
  /\ S \in [Conditions -> [Tests -> BOOLEAN]]
  /\ \A x \in Conditions : \A g, h \in Tests :
       (\A y \in Children(x) : g[y] = h[y]) => S[x][g] = S[x][h]

(* The first n levels are computed. *)
Computes(S, n, g) ==
  g \in Tests /\ \A x \in Conditions : Depth[x] < n => g[x] = S[x][g]

LEMMA LevelsCompute ==
  ASSUME NEW S, IsStep(S)
  PROVE  \A n \in Nat : \E g : Computes(S, n, g)
<1> DEFINE T == {n \in Nat : ~ \E g : Computes(S, n, g)}
<1> SUFFICES ASSUME T # {} PROVE FALSE
  OBVIOUS
<1>1. PICK n \in T : \A m \in T : n <= m
  BY LeastNumber
<1>2. n # 0
  <2>1. ASSUME NEW x \in Conditions, Depth[x] < 0 PROVE FALSE
    <3>1. Depth[x] \in Nat
      BY ChildrenAreConditions
    <3> QED
      BY <2>1, <3>1
  <2>2. [x \in Conditions |-> TRUE] \in Tests
    BY DEF Tests
  <2>3. Computes(S, 0, [x \in Conditions |-> TRUE])
    BY <2>1, <2>2 DEF Computes
  <2> QED
    BY <1>1, <2>3
<1>3. n - 1 \in Nat /\ n - 1 \notin T
  BY <1>1, <1>2
<1>4. PICK g : Computes(S, n - 1, g)
  BY <1>3
<1> DEFINE h == [x \in Conditions |-> S[x][g]]
<1>5. g \in Tests /\ h \in Tests
  BY <1>4 DEF Computes, IsStep, Tests
<1>6. ASSUME NEW x \in Conditions, Depth[x] < n PROVE h[x] = S[x][h]
  <2>1. ASSUME NEW y \in Children(x) PROVE g[y] = h[y]
    <3>1. y \in Conditions /\ Depth[y] < Depth[x]
            /\ Depth[y] \in Nat /\ Depth[x] \in Nat
      BY <1>6, ChildrenAreConditions
    <3>2. Depth[y] < n - 1
      BY <1>1, <1>6, <3>1
    <3>3. g[y] = S[y][g]
      BY <1>4, <3>1, <3>2 DEF Computes
    <3> QED
      BY <3>1, <3>3
  <2>2. S[x][g] = S[x][h]
    BY <1>5, <1>6, <2>1 DEF IsStep
  <2> QED
    BY <1>6, <2>2
<1> HIDE DEF h
<1>7. Computes(S, n, h)
  BY <1>5, <1>6 DEF Computes
<1> QED
  BY <1>1, <1>7

LEMMA LevelsAgree ==
  ASSUME NEW S, IsStep(S), NEW m \in Nat, NEW n \in Nat,
         NEW g, Computes(S, m, g), NEW h, Computes(S, n, h),
         NEW x \in Conditions, Depth[x] < m, Depth[x] < n
  PROVE  g[x] = h[x]
<1> DEFINE T == {y \in Conditions : /\ Depth[y] < m /\ Depth[y] < n
                                    /\ g[y] # h[y]}
<1> SUFFICES ASSUME T # {} PROVE FALSE
  OBVIOUS
<1>1. PICK c \in T : \A y \in Children(c) : y \notin T
  BY LeastCondition
<1>2. c \in Conditions /\ Depth[c] < m /\ Depth[c] < n /\ g[c] # h[c]
  BY <1>1
<1>3. ASSUME NEW y \in Children(c) PROVE g[y] = h[y]
  <2>1. y \in Conditions /\ Depth[y] < Depth[c]
          /\ Depth[y] \in Nat /\ Depth[c] \in Nat
    BY <1>2, ChildrenAreConditions
  <2> QED
    BY <1>1, <1>2, <2>1
<1>4. g \in Tests /\ h \in Tests /\ g[c] = S[c][g] /\ h[c] = S[c][h]
  BY <1>2 DEF Computes
<1>5. S[c][g] = S[c][h]
  BY <1>2, <1>3, <1>4 DEF IsStep
<1> QED
  BY <1>2, <1>4, <1>5

(* A recursive definition over conditions has a solution. *)
LEMMA ConditionRecursion ==
  ASSUME NEW S, IsStep(S)
  PROVE  \E f \in Tests : \A x \in Conditions : f[x] = S[x][f]
<1> DEFINE level(x) == CHOOSE g : Computes(S, Depth[x] + 1, g)
           f == [x \in Conditions |-> level(x)[x]]
<1>1. ASSUME NEW x \in Conditions
      PROVE  /\ Computes(S, Depth[x] + 1, level(x)) /\ Depth[x] \in Nat
             /\ Depth[x] + 1 \in Nat
  <2>1. Depth[x] \in Nat /\ Depth[x] + 1 \in Nat
    BY ChildrenAreConditions
  <2>2. \E g : Computes(S, Depth[x] + 1, g)
    BY <2>1, LevelsCompute
  <2> QED
    BY <2>1, <2>2
<1> HIDE DEF level
<1>2. f \in Tests
  BY <1>1 DEF Computes, Tests
<1>3. ASSUME NEW x \in Conditions PROVE f[x] = S[x][f]
  <2>1. ASSUME NEW y \in Children(x) PROVE level(x)[y] = f[y]
    <3>1. y \in Conditions /\ Depth[y] < Depth[x]
      BY ChildrenAreConditions
    <3>2. Depth[y] < Depth[x] + 1 /\ Depth[y] < Depth[y] + 1
      BY <1>1, <3>1
    <3>3. level(x)[y] = level(y)[y]
      BY <1>1, <3>1, <3>2, LevelsAgree
    <3> QED
      BY <3>1, <3>3
  <2>2. level(x) \in Tests /\ level(x)[x] = S[x][level(x)]
    BY <1>1 DEF Computes
  <2>3. S[x][level(x)] = S[x][f]
    BY <1>2, <2>1, <2>2 DEF IsStep
  <2> QED
    BY <2>2, <2>3
<1> HIDE DEF f
<1> QED
  BY <1>2, <1>3

-----------------------------------------------------------------------------
(* What the four recursive definitions compute. *)

(* Everything in a condition passes a test of single nodes. *)
LEMMA AllNodes ==
  ASSUME NEW K \in Tests
  PROVE  \E f \in Tests : \A x \in Conditions :
           f[x] = (/\ K[x]
                   /\ \A i \in DOMAIN x.all : f[x.all[i]]
                   /\ \A i \in DOMAIN x.any : f[x.any[i]])
<1> DEFINE S == [x \in Conditions |-> [g \in Tests |->
                   /\ K[x]
                   /\ \A i \in DOMAIN x.all : g[x.all[i]]
                   /\ \A i \in DOMAIN x.any : g[x.any[i]]]]
<1>1. S \in [Conditions -> [Tests -> BOOLEAN]]
  BY DEF Tests
<1>2. ASSUME NEW x \in Conditions, NEW g \in Tests, NEW h \in Tests,
             \A y \in Children(x) : g[y] = h[y]
      PROVE  S[x][g] = S[x][h]
  <2>1. /\ \A i \in DOMAIN x.all : g[x.all[i]] = h[x.all[i]]
        /\ \A i \in DOMAIN x.any : g[x.any[i]] = h[x.any[i]]
    BY <1>2, ChildrenAreConditions
  <2> QED
    BY <2>1
<1>3. \A x \in Conditions : \A g \in Tests :
        S[x][g] = (/\ K[x]
                   /\ \A i \in DOMAIN x.all : g[x.all[i]]
                   /\ \A i \in DOMAIN x.any : g[x.any[i]])
  OBVIOUS
<1> HIDE DEF S
<1>4. IsStep(S)
  BY <1>1, <1>2 DEF IsStep
<1>5. PICK f \in Tests : \A x \in Conditions : f[x] = S[x][f]
  BY <1>4, ConditionRecursion
<1>6. ASSUME NEW x \in Conditions
      PROVE  f[x] = (/\ K[x]
                     /\ \A i \in DOMAIN x.all : f[x.all[i]]
                     /\ \A i \in DOMAIN x.any : f[x.any[i]])
  <2>1. f[x] = S[x][f]
    BY <1>5
  <2>2. S[x][f] = (/\ K[x]
                   /\ \A i \in DOMAIN x.all : f[x.all[i]]
                   /\ \A i \in DOMAIN x.any : f[x.any[i]])
    BY <1>3, <1>5
  <2> QED
    BY <2>1, <2>2
<1> QED
  BY <1>5, <1>6

(* validatePolicyCondition looks at every node. *)
LEMMA ValidUnfolds ==
  ASSUME NEW sets, NEW c \in Conditions
  PROVE  ValidatePolicyCondition(c, sets) <=>
           /\ NodeConforms(c, sets, TrimSpace(HeaderName(c)))
           /\ \A i \in DOMAIN c.all : ValidatePolicyCondition(c.all[i], sets)
           /\ \A i \in DOMAIN c.any : ValidatePolicyCondition(c.any[i], sets)
<1> DEFINE Conforms(x) == NodeConforms(x, sets, TrimSpace(HeaderName(x)))
           K == [x \in Conditions |-> Conforms(x)]
           Def(f) == [x \in Conditions |->
                        /\ Conforms(x)
                        /\ \A i \in DOMAIN x.all : f[x.all[i]]
                        /\ \A i \in DOMAIN x.any : f[x.any[i]]]
           valid == CHOOSE f : f = Def(f)
<1>1. \A x : Conforms(x) \in BOOLEAN
  BY DEF NodeConforms
<1>2. \A x : ValidatePolicyCondition(x, sets) = valid[x]
  BY DEF ValidatePolicyCondition
<1> HIDE DEF Conforms
<1>3. K \in Tests
  BY <1>1 DEF Tests
<1>4. PICK f \in Tests : \A x \in Conditions :
        f[x] = (/\ K[x]
                /\ \A i \in DOMAIN x.all : f[x.all[i]]
                /\ \A i \in DOMAIN x.any : f[x.any[i]])
  BY <1>3, AllNodes
<1>5. f = Def(f)
  BY <1>4 DEF Tests
<1>6. valid = Def(valid)
  BY <1>5
<1> HIDE DEF valid
<1>7. valid[c] = (/\ Conforms(c)
                  /\ \A i \in DOMAIN c.all : valid[c.all[i]]
                  /\ \A i \in DOMAIN c.any : valid[c.any[i]])
  BY <1>6
<1> QED
  BY <1>2, <1>7 DEF Conforms

(* parseCondition too. *)
LEMMA ParseUnfolds ==
  ASSUME NEW sets, NEW c \in Conditions
  PROVE  ParseCondition(c, sets) <=>
           /\ NodeConforms(c, sets, HeaderName(c))
           /\ \A i \in DOMAIN c.all : ParseCondition(c.all[i], sets)
           /\ \A i \in DOMAIN c.any : ParseCondition(c.any[i], sets)
<1> DEFINE Conforms(x) == NodeConforms(x, sets, HeaderName(x))
           K == [x \in Conditions |-> Conforms(x)]
           Def(f) == [x \in Conditions |->
                        /\ Conforms(x)
                        /\ \A i \in DOMAIN x.all : f[x.all[i]]
                        /\ \A i \in DOMAIN x.any : f[x.any[i]]]
           parses == CHOOSE f : f = Def(f)
<1>1. \A x : Conforms(x) \in BOOLEAN
  BY DEF NodeConforms
<1>2. \A x : ParseCondition(x, sets) = parses[x]
  BY DEF ParseCondition
<1> HIDE DEF Conforms
<1>3. K \in Tests
  BY <1>1 DEF Tests
<1>4. PICK f \in Tests : \A x \in Conditions :
        f[x] = (/\ K[x]
                /\ \A i \in DOMAIN x.all : f[x.all[i]]
                /\ \A i \in DOMAIN x.any : f[x.any[i]])
  BY <1>3, AllNodes
<1>5. f = Def(f)
  BY <1>4 DEF Tests
<1>6. parses = Def(parses)
  BY <1>5
<1> HIDE DEF parses
<1>7. parses[c] = (/\ Conforms(c)
                   /\ \A i \in DOMAIN c.all : parses[c.all[i]]
                   /\ \A i \in DOMAIN c.any : parses[c.any[i]])
  BY <1>6
<1> QED
  BY <1>2, <1>7 DEF Conforms

(* A header name that is not blank is not empty: what the control API      *)
(* accepts, the gateway parses.                                            *)
LEMMA ValidIsParsed ==
  ASSUME NEW sets, NEW c \in Conditions, ValidatePolicyCondition(c, sets)
  PROVE  ParseCondition(c, sets)
<1> DEFINE T == {x \in Conditions : /\ ValidatePolicyCondition(x, sets)
                                    /\ ~ ParseCondition(x, sets)}
<1> SUFFICES ASSUME T # {} PROVE FALSE
  OBVIOUS
<1>1. PICK x \in T : \A y \in Children(x) : y \notin T
  BY LeastCondition
<1>2. /\ x \in Conditions /\ ValidatePolicyCondition(x, sets)
      /\ ~ ParseCondition(x, sets)
  BY <1>1
<1>3. /\ NodeConforms(x, sets, TrimSpace(HeaderName(x)))
      /\ \A i \in DOMAIN x.all : ValidatePolicyCondition(x.all[i], sets)
      /\ \A i \in DOMAIN x.any : ValidatePolicyCondition(x.any[i], sets)
  BY <1>2, ValidUnfolds
<1>4. NodeConforms(x, sets, HeaderName(x))
  <2>1. TrimSpace("") = ""
    BY DEF TrimSpace
  <2> QED
    BY <1>3, <2>1 DEF NodeConforms
<1>5. /\ \A i \in DOMAIN x.all : x.all[i] \in Conditions /\ x.all[i] \notin T
      /\ \A i \in DOMAIN x.any : x.any[i] \in Conditions /\ x.any[i] \notin T
  BY <1>1, <1>2, ChildrenAreConditions
<1>6. /\ \A i \in DOMAIN x.all : ParseCondition(x.all[i], sets)
      /\ \A i \in DOMAIN x.any : ParseCondition(x.any[i], sets)
  BY <1>3, <1>5
<1> QED
  BY <1>2, <1>4, <1>6, ParseUnfolds

(* all, else any, else a test of the node alone. *)
LEMMA FirstOperator ==
  ASSUME NEW L \in Tests
  PROVE  \E f \in Tests : \A x \in Conditions :
           f[x] = IF x.all # <<>> THEN \A i \in DOMAIN x.all : f[x.all[i]]
                  ELSE IF x.any # <<>> THEN \E i \in DOMAIN x.any : f[x.any[i]]
                  ELSE L[x]
<1> DEFINE body(x, g) ==
             IF x.all # <<>> THEN \A i \in DOMAIN x.all : g[x.all[i]]
             ELSE IF x.any # <<>> THEN \E i \in DOMAIN x.any : g[x.any[i]]
             ELSE L[x]
           S == [x \in Conditions |-> [g \in Tests |-> body(x, g)]]
<1>1. S \in [Conditions -> [Tests -> BOOLEAN]]
  BY DEF Tests
<1>2. ASSUME NEW x \in Conditions, NEW g \in Tests, NEW h \in Tests,
             \A y \in Children(x) : g[y] = h[y]
      PROVE  S[x][g] = S[x][h]
  <2>1. /\ \A i \in DOMAIN x.all : g[x.all[i]] = h[x.all[i]]
        /\ \A i \in DOMAIN x.any : g[x.any[i]] = h[x.any[i]]
    BY <1>2, ChildrenAreConditions
  <2> QED
    BY <2>1
<1>3. \A x \in Conditions : \A g \in Tests : S[x][g] = body(x, g)
  OBVIOUS
<1> HIDE DEF S
<1>4. IsStep(S)
  BY <1>1, <1>2 DEF IsStep
<1>5. PICK f \in Tests : \A x \in Conditions : f[x] = S[x][f]
  BY <1>4, ConditionRecursion
<1> HIDE DEF body
<1>6. \A x \in Conditions : f[x] = body(x, f)
  BY <1>3, <1>5
<1> QED
  BY <1>5, <1>6 DEF body

MatchNode(x, req, sets) ==
  \/ x.path # "" /\ req.path = x.path
  \/ /\ x.path = "" /\ x.header # <<>>
     /\ <<CanonicalHeaderName(x.header[1]), x.header[2]>> \in req.headers
  \/ /\ x.path = "" /\ x.header = <<>> /\ x.inSet # ""
     /\ req.address \in sets[x.inSet]
  \/ /\ x.path = "" /\ x.header = <<>> /\ x.inSet = "" /\ x.notInSet # ""
     /\ req.address \notin sets[x.notInSet]

LEMMA OperatorsOf ==
  ASSUME NEW x
  PROVE  /\ Operators(x) \subseteq {"all", "any", "path", "header", "inSet",
                                    "notInSet"}
         /\ "all" \in Operators(x) <=> x.all # <<>>
         /\ "any" \in Operators(x) <=> x.any # <<>>
         /\ "header" \in Operators(x) <=> x.header # <<>>
         /\ "path" \in Operators(x) <=> x.path # ""
         /\ "inSet" \in Operators(x) <=> x.inSet # ""
         /\ "notInSet" \in Operators(x) <=> x.notInSet # ""
BY DEF Operators

(* Condition.Match: the first operator present decides. *)
LEMMA MatchUnfolds ==
  ASSUME NEW req, NEW sets, NEW c \in Conditions
  PROVE  Match(c, req, sets) <=>
           IF c.all # <<>>
           THEN \A i \in DOMAIN c.all : Match(c.all[i], req, sets)
           ELSE IF c.any # <<>>
           THEN \E i \in DOMAIN c.any : Match(c.any[i], req, sets)
           ELSE MatchNode(c, req, sets)
<1> DEFINE L == [x \in Conditions |-> MatchNode(x, req, sets)]
           body(x, f) ==
             CASE x.all # <<>> -> \A i \in DOMAIN x.all : f[x.all[i]]
               [] x.all = <<>> /\ x.any # <<>> ->
                    \E i \in DOMAIN x.any : f[x.any[i]]
               [] x.all = <<>> /\ x.any = <<>> /\ x.path # "" ->
                    req.path = x.path
               [] Operators(x) # {}
                    /\ Operators(x) \subseteq {"header", "inSet", "notInSet"} ->
                    (CASE x.header # <<>> ->
                            <<CanonicalHeaderName(x.header[1]), x.header[2]>>
                              \in req.headers
                       [] x.header = <<>> /\ x.inSet # "" ->
                            req.address \in sets[x.inSet]
                       [] x.header = <<>> /\ x.inSet = "" ->
                            req.address \notin sets[x.notInSet])
               [] Operators(x) = {} -> FALSE
           short(x, f) ==
             IF x.all # <<>> THEN \A i \in DOMAIN x.all : f[x.all[i]]
             ELSE IF x.any # <<>> THEN \E i \in DOMAIN x.any : f[x.any[i]]
             ELSE MatchNode(x, req, sets)
           Def(f) == [x \in Conditions |-> body(x, f)]
           match == CHOOSE f : f = Def(f)
<1>1. \A x, f : body(x, f) = short(x, f)
  <2> SUFFICES ASSUME NEW x, NEW f PROVE body(x, f) = short(x, f)
    OBVIOUS
  <2>1. CASE x.all # <<>> \/ x.any # <<>> \/ x.path # ""
    <3>1. ~ (Operators(x) \subseteq {"header", "inSet", "notInSet"})
            /\ Operators(x) # {}
      <4>1. \/ "all" \in Operators(x) \/ "any" \in Operators(x)
            \/ "path" \in Operators(x)
        BY <2>1, OperatorsOf
      <4> QED
        BY <4>1
    <3> QED
      BY <2>1, <3>1 DEF MatchNode
  <2>2. CASE /\ x.all = <<>> /\ x.any = <<>> /\ x.path = ""
             /\ x.header # <<>> \/ x.inSet # "" \/ x.notInSet # ""
    <3>1. Operators(x) \subseteq {"header", "inSet", "notInSet"}
            /\ Operators(x) # {}
      BY <2>2 DEF Operators
    <3>2. CASE x.header # <<>>
      <4> DEFINE hit == <<CanonicalHeaderName(x.header[1]), x.header[2]>> \in req.headers
      <4>1. body(x, f) = hit
        BY <2>2, <3>1, <3>2
      <4>2. MatchNode(x, req, sets) <=> hit
        BY <2>2, <3>2 DEF MatchNode
      <4>3. MatchNode(x, req, sets) \in BOOLEAN
        BY DEF MatchNode
      <4> HIDE DEF body
      <4>4. short(x, f) = MatchNode(x, req, sets)
        BY <2>2
      <4> HIDE DEF short
      <4> QED
        BY <4>1, <4>2, <4>3, <4>4
    <3>3. CASE x.header = <<>> /\ x.inSet # ""
      <4> DEFINE hit == req.address \in sets[x.inSet]
      <4>1. body(x, f) = hit
        BY <2>2, <3>1, <3>3
      <4>2. MatchNode(x, req, sets) <=> hit
        BY <2>2, <3>3 DEF MatchNode
      <4>3. MatchNode(x, req, sets) \in BOOLEAN
        BY DEF MatchNode
      <4> HIDE DEF body
      <4>4. short(x, f) = MatchNode(x, req, sets)
        BY <2>2
      <4> HIDE DEF short
      <4> QED
        BY <4>1, <4>2, <4>3, <4>4
    <3>4. CASE x.header = <<>> /\ x.inSet = "" /\ x.notInSet # ""
      BY <2>2, <3>1, <3>4 DEF MatchNode
    <3> QED
      BY <2>2, <3>2, <3>3, <3>4
  <2>3. CASE /\ x.all = <<>> /\ x.any = <<>> /\ x.path = ""
             /\ x.header = <<>> /\ x.inSet = "" /\ x.notInSet = ""
    <3>1. Operators(x) = {}
      BY <2>3 DEF Operators
    <3> QED
      BY <2>3, <3>1 DEF MatchNode
  <2> QED
    BY <2>1, <2>2, <2>3
<1>2. \A x : Match(x, req, sets) = match[x]
  BY DEF Match
<1>3. L \in Tests
  <2>1. \A x : MatchNode(x, req, sets) \in BOOLEAN
    BY DEF MatchNode
  <2> QED
    BY <2>1 DEF Tests
<1>4. PICK f \in Tests : \A x \in Conditions :
        f[x] = IF x.all # <<>> THEN \A i \in DOMAIN x.all : f[x.all[i]]
               ELSE IF x.any # <<>> THEN \E i \in DOMAIN x.any : f[x.any[i]]
               ELSE L[x]
  BY <1>3, FirstOperator
<1>5. \A x \in Conditions : f[x] = short(x, f)
  BY <1>4
<1> HIDE DEF body, short
<1>6. f = Def(f)
  BY <1>1, <1>5 DEF Tests
<1>7. match = Def(match)
  BY <1>6
<1> HIDE DEF match
<1>8. match[c] = short(c, match)
  BY <1>1, <1>7
<1> QED
  BY <1>2, <1>8 DEF short

(* all and any and a test of the node. *)
LEMMA EveryOperator ==
  ASSUME NEW L \in Tests
  PROVE  \E f \in Tests : \A x \in Conditions :
           f[x] = (/\ x.all # <<>> => \A i \in DOMAIN x.all : f[x.all[i]]
                   /\ x.any # <<>> => \E i \in DOMAIN x.any : f[x.any[i]]
                   /\ L[x])
<1> DEFINE body(x, g) ==
             /\ x.all # <<>> => \A i \in DOMAIN x.all : g[x.all[i]]
             /\ x.any # <<>> => \E i \in DOMAIN x.any : g[x.any[i]]
             /\ L[x]
           S == [x \in Conditions |-> [g \in Tests |-> body(x, g)]]
<1>1. S \in [Conditions -> [Tests -> BOOLEAN]]
  BY DEF Tests
<1>2. ASSUME NEW x \in Conditions, NEW g \in Tests, NEW h \in Tests,
             \A y \in Children(x) : g[y] = h[y]
      PROVE  S[x][g] = S[x][h]
  <2>1. /\ \A i \in DOMAIN x.all : g[x.all[i]] = h[x.all[i]]
        /\ \A i \in DOMAIN x.any : g[x.any[i]] = h[x.any[i]]
    BY <1>2, ChildrenAreConditions
  <2> QED
    BY <2>1
<1>3. \A x \in Conditions : \A g \in Tests : S[x][g] = body(x, g)
  OBVIOUS
<1> HIDE DEF S
<1>4. IsStep(S)
  BY <1>1, <1>2 DEF IsStep
<1>5. PICK f \in Tests : \A x \in Conditions : f[x] = S[x][f]
  BY <1>4, ConditionRecursion
<1> HIDE DEF body
<1>6. \A x \in Conditions : f[x] = body(x, f)
  BY <1>3, <1>5
<1> QED
  BY <1>5, <1>6 DEF body

NodeHolds(x, req, sets) ==
  /\ x.path # "" => req.path = x.path
  /\ x.header # <<>> =>
       \E h \in req.headers : /\ h[1] = CanonicalHeaderName(x.header[1])
                              /\ h[2] = x.header[2]
  /\ x.inSet # "" => \E cidr \in sets[x.inSet] :
                       TrimSpace(cidr) = req.address
  /\ x.notInSet # "" => \A cidr \in sets[x.notInSet] :
                          TrimSpace(cidr) # req.address

LEMMA MeaningUnfolds ==
  ASSUME NEW req, NEW sets, NEW c \in Conditions
  PROVE  Meaning(c, req, sets) <=>
           (/\ c.all # <<>> =>
                 \A i \in DOMAIN c.all : Meaning(c.all[i], req, sets)
            /\ c.any # <<>> =>
                 \E i \in DOMAIN c.any : Meaning(c.any[i], req, sets)
            /\ NodeHolds(c, req, sets))
<1> DEFINE L == [x \in Conditions |-> NodeHolds(x, req, sets)]
           body(x, f) ==
             /\ x.all # <<>> => \A i \in DOMAIN x.all : f[x.all[i]]
             /\ x.any # <<>> => \E i \in DOMAIN x.any : f[x.any[i]]
             /\ x.path # "" => req.path = x.path
             /\ x.header # <<>> =>
                  \E h \in req.headers :
                    /\ h[1] = CanonicalHeaderName(x.header[1])
                    /\ h[2] = x.header[2]
             /\ x.inSet # "" => \E cidr \in sets[x.inSet] :
                                  TrimSpace(cidr) = req.address
             /\ x.notInSet # "" => \A cidr \in sets[x.notInSet] :
                                     TrimSpace(cidr) # req.address
           short(x, f) ==
             /\ x.all # <<>> => \A i \in DOMAIN x.all : f[x.all[i]]
             /\ x.any # <<>> => \E i \in DOMAIN x.any : f[x.any[i]]
             /\ NodeHolds(x, req, sets)
           Def(f) == [x \in Conditions |-> body(x, f)]
           holds == CHOOSE f : f = Def(f)
<1>1. \A x, f : body(x, f) = short(x, f)
  BY DEF NodeHolds
<1>2. \A x : Meaning(x, req, sets) = holds[x]
  BY DEF Meaning
<1>3. L \in Tests
  BY DEF Tests, NodeHolds
<1>4. PICK f \in Tests : \A x \in Conditions :
        f[x] = (/\ x.all # <<>> => \A i \in DOMAIN x.all : f[x.all[i]]
                /\ x.any # <<>> => \E i \in DOMAIN x.any : f[x.any[i]]
                /\ L[x])
  BY <1>3, EveryOperator
<1>5. \A x \in Conditions : f[x] = short(x, f)
  BY <1>4
<1> HIDE DEF body, short
<1>6. f = Def(f)
  BY <1>1, <1>5 DEF Tests
<1>7. holds = Def(holds)
  BY <1>6
<1> HIDE DEF holds
<1>8. holds[c] = short(c, holds)
  BY <1>1, <1>7
<1> QED
  BY <1>2, <1>8 DEF short

(* The sets of an app are the draft's, without the spaces. *)
Trimmed(sets) ==
  [name \in DOMAIN sets |-> {TrimSpace(cidr) : cidr \in sets[name]}]

(* A node that conforms has one operator: to look at the first one is to   *)
(* look at all of them.                                                    *)
LEMMA OneOperator ==
  ASSUME NEW sets, NEW x, NodeConforms(x, sets, HeaderName(x))
  PROVE  \E o : Operators(x) = {o}
<1> DEFINE All == {"all", "any", "path", "header", "inSet", "notInSet"}
<1>1. IsFiniteSet(All)
  <2>1. \A p : IsFiniteSet({p})
    BY FS_Singleton
  <2>2. ASSUME NEW p, NEW q PROVE IsFiniteSet({p, q})
    <3>1. {p, q} = {p} \cup {q}
      OBVIOUS
    <3>2. IsFiniteSet({p} \cup {q})
      BY <2>1, FS_Union
    <3> QED
      BY <3>1, <3>2
  <2>3. IsFiniteSet({"all", "any"} \cup {"path", "header"})
    BY <2>2, FS_Union
  <2>4. IsFiniteSet(({"all", "any"} \cup {"path", "header"})
                      \cup {"inSet", "notInSet"})
    BY <2>2, <2>3, FS_Union
  <2>5. All = ({"all", "any"} \cup {"path", "header"})
                \cup {"inSet", "notInSet"}
    OBVIOUS
  <2> QED
    BY <2>4, <2>5
<1>2. Operators(x) \in SUBSET All
  BY OperatorsOf
<1>3. IsFiniteSet(Operators(x)) /\ Cardinality(Operators(x)) = 1
  BY <1>1, <1>2, FS_Subset DEF NodeConforms
<1> QED
  BY <1>3, FS_Singleton

LEMMA NodeMatchIsMeaning ==
  ASSUME NEW sets, NEW x \in Conditions, NodeConforms(x, sets, HeaderName(x)),
         NEW req \in Requests
  PROVE  x.all = <<>> /\ x.any = <<>> =>
           (MatchNode(x, req, Trimmed(sets)) <=> NodeHolds(x, req, sets))
<1> SUFFICES ASSUME x.all = <<>>, x.any = <<>>
             PROVE  MatchNode(x, req, Trimmed(sets)) <=> NodeHolds(x, req, sets)
  OBVIOUS
<1>1. PICK o : Operators(x) = {o}
  BY OneOperator
<1>2. /\ Operators(x) \subseteq {"all", "any", "path", "header", "inSet",
                                 "notInSet"}
      /\ "all" \in Operators(x) <=> x.all # <<>>
      /\ "any" \in Operators(x) <=> x.any # <<>>
      /\ "header" \in Operators(x) <=> x.header # <<>>
      /\ "path" \in Operators(x) <=> x.path # ""
      /\ "inSet" \in Operators(x) <=> x.inSet # ""
      /\ "notInSet" \in Operators(x) <=> x.notInSet # ""
  BY OperatorsOf
<1>3. o \in {"path", "header", "inSet", "notInSet"}
  BY <1>1, <1>2
<1>4. ASSUME NEW name \in DOMAIN sets
      PROVE  Trimmed(sets)[name] = {TrimSpace(cidr) : cidr \in sets[name]}
  BY DEF Trimmed
<1>5. CASE o = "path"
  <2>1. x.path # "" /\ x.header = <<>> /\ x.inSet = "" /\ x.notInSet = ""
    BY <1>1, <1>2, <1>5
  <2> QED
    BY <2>1 DEF MatchNode, NodeHolds
<1>6. CASE o = "header"
  <2>1. x.path = "" /\ x.header # <<>> /\ x.inSet = "" /\ x.notInSet = ""
    BY <1>1, <1>2, <1>6
  <2> DEFINE a == CanonicalHeaderName(x.header[1])
             b == x.header[2]
  <2>2. req.headers \subseteq STRING \X STRING
    BY PolicyRulesAssumption
  <2>3. <<a, b>> \in req.headers <=> \E h \in req.headers : h[1] = a /\ h[2] = b
    BY <2>2
  <2> QED
    BY <2>1, <2>3 DEF MatchNode, NodeHolds
<1>7. CASE o = "inSet"
  <2>1. x.path = "" /\ x.header = <<>> /\ x.inSet # "" /\ x.notInSet = ""
    BY <1>1, <1>2, <1>7
  <2>2. x.inSet \in DOMAIN sets
    BY <2>1 DEF NodeConforms
  <2>3. req.address \in Trimmed(sets)[x.inSet] <=>
          \E cidr \in sets[x.inSet] : TrimSpace(cidr) = req.address
    BY <1>4, <2>2
  <2> QED
    BY <2>1, <2>3 DEF MatchNode, NodeHolds
<1>8. CASE o = "notInSet"
  <2>1. x.path = "" /\ x.header = <<>> /\ x.inSet = "" /\ x.notInSet # ""
    BY <1>1, <1>2, <1>8
  <2>2. x.notInSet \in DOMAIN sets
    BY <2>1 DEF NodeConforms
  <2>3. req.address \in Trimmed(sets)[x.notInSet] <=>
          \E cidr \in sets[x.notInSet] : TrimSpace(cidr) = req.address
    BY <1>4, <2>2
  <2> QED
    BY <2>1, <2>3 DEF MatchNode, NodeHolds
<1> QED
  BY <1>3, <1>5, <1>6, <1>7, <1>8

(* A condition that parses matches what it says. *)
LEMMA MatchIsMeaning ==
  ASSUME NEW sets, NEW c \in Conditions, ParseCondition(c, sets),
         NEW req \in Requests
  PROVE  Match(c, req, Trimmed(sets)) <=> Meaning(c, req, sets)
<1> DEFINE agree(x) == Match(x, req, Trimmed(sets)) <=> Meaning(x, req, sets)
           T == {x \in Conditions : ParseCondition(x, sets) /\ ~ agree(x)}
<1> SUFFICES ASSUME T # {} PROVE FALSE
  OBVIOUS
<1>1. PICK x \in T : \A y \in Children(x) : y \notin T
  BY LeastCondition
<1>2. x \in Conditions /\ ParseCondition(x, sets) /\ ~ agree(x)
  BY <1>1
<1>3. /\ NodeConforms(x, sets, HeaderName(x))
      /\ \A i \in DOMAIN x.all : ParseCondition(x.all[i], sets)
      /\ \A i \in DOMAIN x.any : ParseCondition(x.any[i], sets)
  BY <1>2, ParseUnfolds
<1>4. /\ \A i \in DOMAIN x.all : x.all[i] \in Conditions /\ x.all[i] \notin T
      /\ \A i \in DOMAIN x.any : x.any[i] \in Conditions /\ x.any[i] \notin T
  BY <1>1, <1>2, ChildrenAreConditions
<1>5. /\ \A i \in DOMAIN x.all : agree(x.all[i])
      /\ \A i \in DOMAIN x.any : agree(x.any[i])
  BY <1>3, <1>4
<1>6. PICK o : Operators(x) = {o}
  BY <1>3, OneOperator
<1>7. Match(x, req, Trimmed(sets)) <=>
        IF x.all # <<>>
        THEN \A i \in DOMAIN x.all : Match(x.all[i], req, Trimmed(sets))
        ELSE IF x.any # <<>>
        THEN \E i \in DOMAIN x.any : Match(x.any[i], req, Trimmed(sets))
        ELSE MatchNode(x, req, Trimmed(sets))
  BY <1>2, MatchUnfolds
<1>8. Meaning(x, req, sets) <=>
        (/\ x.all # <<>> =>
              \A i \in DOMAIN x.all : Meaning(x.all[i], req, sets)
         /\ x.any # <<>> =>
              \E i \in DOMAIN x.any : Meaning(x.any[i], req, sets)
         /\ NodeHolds(x, req, sets))
  BY <1>2, MeaningUnfolds
<1>9. x.all = <<>> /\ x.any = <<>> =>
        (MatchNode(x, req, Trimmed(sets)) <=> NodeHolds(x, req, sets))
  BY <1>2, <1>3, NodeMatchIsMeaning
<1>10. x.all # <<>> \/ x.any # <<>> =>
         /\ x.all = <<>> \/ x.any = <<>>
         /\ NodeHolds(x, req, sets)
  BY <1>6, OperatorsOf DEF NodeHolds
<1> QED
  BY <1>2, <1>5, <1>7, <1>8, <1>9, <1>10

-----------------------------------------------------------------------------
(* The stable sort. *)

(* p lists the places of the rules in (priority, position) order. *)
Sorts(rules, p) ==
  LET D == DOMAIN rules IN
  /\ p \in [D -> D]
  /\ SliceStable(rules) = [k \in D |-> rules[p[k]]]
  /\ \A i \in D : \E k \in D : p[k] = i
  /\ \A k, l \in D : k < l => Precedes(rules, p[k], p[l])

LEMMA PrecedesOrders ==
  ASSUME NEW rules, NEW n \in Nat, DOMAIN rules = 1 .. n,
         \A i \in 1 .. n : rules[i].priority \in Int
  PROVE  /\ \A i \in 1 .. n : ~ Precedes(rules, i, i)
         /\ \A i, j \in 1 .. n :
              i # j => Precedes(rules, i, j) \/ Precedes(rules, j, i)
         /\ \A i, j \in 1 .. n :
              Precedes(rules, i, j) => ~ Precedes(rules, j, i)
         /\ \A i, j, k \in 1 .. n :
              Precedes(rules, i, j) /\ Precedes(rules, j, k)
                => Precedes(rules, i, k)
BY DEF Precedes

LEMMA SortedByPlace ==
  ASSUME NEW rules, NEW n \in Nat, DOMAIN rules = 1 .. n,
         \A i \in 1 .. n : rules[i].priority \in Int
  PROVE  \E p : Sorts(rules, p)
<1> DEFINE D == 1 .. n
           before(i) == {j \in D : Precedes(rules, j, i)}
           rank(i) == 1 + Cardinality(before(i))
           r == [i \in D |-> rank(i)]
           p == [k \in D |-> CHOOSE i \in D : rank(i) = k]
<1>1. IsFiniteSet(D) /\ Cardinality(D) = n
  BY FS_Interval
<1>2. SliceStable(rules) = [k \in D |-> rules[p[k]]]
  BY DEF SliceStable, Precedes
<1>3. ASSUME NEW i \in D
      PROVE  /\ before(i) \in SUBSET D /\ i \notin before(i)
             /\ IsFiniteSet(before(i)) /\ Cardinality(before(i)) \in Nat
             /\ rank(i) \in D
  <2>1. before(i) \in SUBSET D /\ i \notin before(i)
    BY PrecedesOrders
  <2> HIDE DEF before
  <2>2. /\ IsFiniteSet(before(i)) /\ Cardinality(before(i)) \in Nat
        /\ Cardinality(before(i)) <= n
        /\ Cardinality(before(i)) # n
    BY <1>1, <2>1, FS_Subset, FS_CardinalityType
  <2> QED
    BY <2>1, <2>2
<1>4. ASSUME NEW i \in D, NEW j \in D, Precedes(rules, i, j)
      PROVE  rank(i) < rank(j)
  <2>1. before(i) \in SUBSET before(j) /\ i \in before(j) /\ i \notin before(i)
    BY <1>3, <1>4, PrecedesOrders
  <2>2. /\ IsFiniteSet(before(j)) /\ Cardinality(before(j)) \in Nat
        /\ Cardinality(before(i)) \in Nat
    BY <1>3
  <2> HIDE DEF before
  <2>3. /\ Cardinality(before(i)) <= Cardinality(before(j))
        /\ Cardinality(before(i)) # Cardinality(before(j))
    BY <2>1, <2>2, FS_Subset
  <2> QED
    BY <2>2, <2>3
<1>5. \A i \in D : rank(i) \in D
  BY <1>3
<1>6. \A i, j \in D : Precedes(rules, i, j) => rank(i) < rank(j)
  BY <1>4
<1> HIDE DEF rank
<1>7. ASSUME NEW i \in D, NEW j \in D, rank(i) = rank(j) PROVE i = j
  <2> SUFFICES ASSUME i # j PROVE FALSE
    OBVIOUS
  <2>1. Precedes(rules, i, j) \/ Precedes(rules, j, i)
    BY PrecedesOrders
  <2>2. rank(i) < rank(j) \/ rank(j) < rank(i)
    BY <1>6, <2>1
  <2>3. rank(i) \in Nat /\ rank(j) \in Nat
    BY <1>5
  <2> QED
    BY <1>7, <2>2, <2>3
<1>8. r \in Surjection(D, D)
  <2>1. r \in Injection(D, D)
    BY <1>5, <1>7 DEF Injection, IsInjective
  <2> QED
    BY <1>1, <2>1, FS_Injection
<1>9. \A k \in D : \E i \in D : rank(i) = k
  BY <1>8 DEF Surjection
<1>10. \A k \in D : p[k] \in D /\ rank(p[k]) = k
  BY <1>9
<1>11. p \in [D -> D]
  BY <1>10
<1>12. p = [k \in D |-> p[k]]
  OBVIOUS
<1>13. /\ DOMAIN rules = D
       /\ SliceStable(rules) = [k \in D |-> rules[p[k]]]
  BY <1>2 DEF rank
<1> HIDE DEF p, D
<1>14. ASSUME NEW i \in D PROVE \E k \in D : p[k] = i
  BY <1>5, <1>7, <1>10
<1>15. ASSUME NEW k \in D, NEW l \in D, k < l
       PROVE  Precedes(rules, p[k], p[l])
  <2>1. p[k] \in D /\ p[l] \in D /\ rank(p[k]) = k /\ rank(p[l]) = l
    BY <1>10
  <2>2. k \in Nat /\ l \in Nat
    BY DEF D
  <2>3. p[k] # p[l]
    BY <1>15, <2>1, <2>2
  <2>4. ~ Precedes(rules, p[l], p[k])
    <3> SUFFICES ASSUME Precedes(rules, p[l], p[k]) PROVE FALSE
      OBVIOUS
    <3>1. rank(p[l]) < rank(p[k])
      BY <1>6, <2>1
    <3> QED
      BY <1>15, <2>1, <2>2, <3>1
  <2> QED
    BY <2>1, <2>3, <2>4, PrecedesOrders DEF D
<1>16. Sorts(rules, p)
  BY <1>11, <1>13, <1>14, <1>15 DEF Sorts
<1> QED
  BY <1>16

-----------------------------------------------------------------------------
(* Limits. *)

LEMMA CheckedIsCounted ==
  ASSUME NEW limits \in Seq(LimitForms), NEW sets,
         RateLimitRulesParse(limits, sets), NEW req \in Requests,
         NEW p, Sorts(limits, p), NEW loaded,
         loaded.limits = SliceStable(limits), loaded.sets = Trimmed(sets)
  PROVE  LET counts == {i \in DOMAIN limits :
                          limits[i].enabled
                            /\ Meaning(limits[i].when, req, sets)}
         IN  CheckedLimits(loaded, req) = {k \in DOMAIN limits : p[k] \in counts}
<1> DEFINE D == DOMAIN limits
<1>1. /\ p \in [D -> D]
      /\ SliceStable(limits) = [k \in D |-> limits[p[k]]]
  BY DEF Sorts
<1>2. \A i \in D : limits[i] \in LimitForms
  OBVIOUS
<1>3. ASSUME NEW i \in D
      PROVE  (HasCondition(limits[i].when) =>
                Match(limits[i].when, req, Trimmed(sets)))
             <=> Meaning(limits[i].when, req, sets)
  <2>1. limits[i].when \in Conditions
    BY <1>2 DEF LimitForms
  <2>2. CASE HasCondition(limits[i].when)
    <3>1. ParseCondition(limits[i].when, sets)
      BY <2>2 DEF RateLimitRulesParse
    <3> QED
      BY <2>1, <2>2, <3>1, MatchIsMeaning
  <2>3. CASE ~ HasCondition(limits[i].when)
    <3> DEFINE x == limits[i].when
    <3>1. Operators(x) = {}
      BY <2>3 DEF HasCondition
    <3> HIDE DEF x
    <3>2. /\ x.all = <<>> /\ x.any = <<>> /\ x.header = <<>>
          /\ x.path = "" /\ x.inSet = "" /\ x.notInSet = ""
      BY <3>1, OperatorsOf
    <3>3. Meaning(x, req, sets)
      BY <2>1, <3>2, MeaningUnfolds DEF NodeHolds, x
    <3> QED
      BY <2>3, <3>3 DEF x
  <2> QED
    BY <2>2, <2>3
<1>4. DOMAIN loaded.limits = D /\ \A k \in D : loaded.limits[k] = limits[p[k]]
  BY <1>1
<1>5. \A k \in D : p[k] \in D
  BY <1>1
<1> HIDE DEF D
<1>6. \A k \in D : k \in CheckedLimits(loaded, req) <=>
        limits[p[k]].enabled /\ Meaning(limits[p[k]].when, req, sets)
  BY <1>3, <1>4, <1>5 DEF CheckedLimits
<1>7. CheckedLimits(loaded, req) \subseteq D
  BY <1>4 DEF CheckedLimits
<1> QED
  BY <1>5, <1>6, <1>7 DEF D

(* Places in sorted order and places in the draft. *)
LEMMA PlacesSorted ==
  ASSUME NEW rules, NEW n \in Nat, DOMAIN rules = 1 .. n,
         \A i \in 1 .. n : rules[i].priority \in Int, NEW p, Sorts(rules, p)
  PROVE  /\ \A k \in 1 .. n : p[k] \in 1 .. n
         /\ \A i \in 1 .. n : \E k \in 1 .. n : p[k] = i
         /\ \A k, l \in 1 .. n : p[k] = p[l] => k = l
         /\ \A k, l \in 1 .. n : Precedes(rules, p[k], p[l]) => k < l
<1> DEFINE D == 1 .. n
<1>1. /\ p \in [D -> D] /\ \A i \in D : \E k \in D : p[k] = i
      /\ \A k, l \in D : k < l => Precedes(rules, p[k], p[l])
  BY DEF Sorts
<1>2. \A k \in D : p[k] \in D /\ k \in Nat
  BY <1>1
<1>3. /\ \A i \in D : ~ Precedes(rules, i, i)
      /\ \A i, j \in D : Precedes(rules, i, j) => ~ Precedes(rules, j, i)
  BY PrecedesOrders
<1> HIDE DEF D
<1>4. ASSUME NEW k \in D, NEW l \in D, p[k] = p[l] PROVE k = l
  <2>1. ~ (k < l) /\ ~ (l < k)
    BY <1>1, <1>2, <1>3, <1>4
  <2>2. k \in Nat /\ l \in Nat
    BY <1>2
  <2> QED
    BY <2>1, <2>2
<1>5. ASSUME NEW k \in D, NEW l \in D, Precedes(rules, p[k], p[l])
      PROVE  k < l
  <2>1. ~ (l < k) /\ k # l
    BY <1>1, <1>2, <1>3, <1>5
  <2>2. k \in Nat /\ l \in Nat
    BY <1>2
  <2> QED
    BY <2>1, <2>2
<1> QED
  BY <1>1, <1>2, <1>4, <1>5 DEF D

(* The gateway checks as many limits as the draft has for the request, in  *)
(* the draft's order.                                                      *)
LEMMA LimitsInOrder ==
  ASSUME NEW d, d.limits \in Seq(LimitForms),
         RateLimitRulesParse(d.limits, d.sets), NEW req \in Requests, NEW loaded,
         loaded.limits = SliceStable(d.limits), loaded.sets = Trimmed(d.sets)
  PROVE  LimitsKept(loaded, d, req)
<1> DEFINE limits == d.limits
           sets == d.sets
           n == Len(limits)
           D == 1 .. n
           counts == {i \in DOMAIN limits :
                        limits[i].enabled
                          /\ Meaning(limits[i].when, req, sets)}
           checked == CheckedLimits(loaded, req)
<1>1. n \in Nat /\ DOMAIN limits = D /\ \A i \in D : limits[i] \in LimitForms
  OBVIOUS
<1>2. \A i \in D : limits[i].priority \in Int
  BY <1>1 DEF LimitForms
<1>3. PICK p : Sorts(limits, p)
  BY <1>1, <1>2, SortedByPlace
<1>4. /\ \A k \in D : p[k] \in D
      /\ \A i \in D : \E k \in D : p[k] = i
      /\ \A k, l \in D : p[k] = p[l] => k = l
      /\ \A k, l \in D : Precedes(limits, p[k], p[l]) => k < l
  BY <1>1, <1>2, <1>3, PlacesSorted
<1>5. \A k \in D : loaded.limits[k] = limits[p[k]]
  BY <1>1, <1>3 DEF Sorts
<1>6. checked = {k \in D : p[k] \in counts}
  BY <1>1, <1>3, CheckedIsCounted
<1>7. counts \subseteq D
  BY <1>1
<1> HIDE DEF checked, counts
<1>8. Cardinality(checked) = Cardinality(counts)
  <2> DEFINE at == [k \in checked |-> p[k]]
  <2>1. at \in [checked -> counts]
    BY <1>6
  <2>2. \A k, l \in checked : at[k] = at[l] => k = l
    BY <1>4, <1>6
  <2>3. \A i \in counts : \E k \in checked : at[k] = i
    BY <1>4, <1>6, <1>7
  <2> HIDE DEF at
  <2>4. at \in Bijection(checked, counts)
    BY <2>1, <2>2, <2>3 DEF Bijection, Injection, Surjection, IsInjective
  <2>5. IsFiniteSet(checked)
    <3>1. IsFiniteSet(D)
      BY <1>1, FS_Interval
    <3> QED
      BY <1>6, <3>1, FS_Subset
  <2> QED
    BY <2>4, <2>5, FS_Bijection DEF ExistsBijection
<1>9. ASSUME NEW i \in counts, NEW j \in counts, Precedes(limits, i, j)
      PROVE  \E m, l \in checked : /\ m < l
                                   /\ loaded.limits[m] = limits[i]
                                   /\ loaded.limits[l] = limits[j]
  <2>1. PICK m \in D, l \in D : p[m] = i /\ p[l] = j
    BY <1>4, <1>7
  <2>2. m \in checked /\ l \in checked
    BY <1>6, <2>1
  <2>3. m < l
    BY <1>4, <1>9, <2>1
  <2> QED
    BY <1>5, <2>1, <2>2, <2>3
<1> QED
  BY <1>8, <1>9 DEF checked, counts, LimitsKept

-----------------------------------------------------------------------------
(* Custom rules. *)

LEMMA FirstOf ==
  ASSUME NEW S, S \subseteq Nat, S # {}
  PROVE  First(S) \in S /\ \A j \in S : First(S) <= j
<1>1. PICK k \in S : \A j \in S : k <= j
  BY LeastNumber
<1>2. S \subseteq Int /\ k \in S
  BY <1>1
<1>3. First(S) = k
  BY <1>1, <1>2, FirstIs
<1> QED
  BY <1>1, <1>3

Places(rules, n, p) ==
  /\ DOMAIN rules = 1 .. n
  /\ \A i \in 1 .. n : rules[i].priority \in Int
  /\ Sorts(rules, p)

(* Where the rules in S are once they are sorted *)
At(p, n, S) == {k \in 1 .. n : p[k] \in S}

(* The first of these places is that of the earliest rule. *)
EarliestFirst(rules, n, p, S) ==
  /\ At(p, n, S) = {} <=> S = {}
  /\ S # {} => /\ First(At(p, n, S)) \in 1 .. n
               /\ p[First(At(p, n, S))] = Earliest(rules, S)

LEMMA FirstIsEarliest ==
  ASSUME NEW rules, NEW n \in Nat, NEW p, Places(rules, n, p),
         NEW S, S \subseteq 1 .. n
  PROVE  EarliestFirst(rules, n, p, S)
<1> DEFINE K == At(p, n, S)
<1>0. /\ DOMAIN rules = 1 .. n
      /\ \A i \in 1 .. n : rules[i].priority \in Int
      /\ Sorts(rules, p)
  BY DEF Places
<1> DEFINE D == 1 .. n
<1>1. /\ \A k \in D : p[k] \in D
      /\ \A i \in D : \E k \in D : p[k] = i
  BY <1>0, PlacesSorted
<1>a. K \subseteq D /\ \A k \in D : k \in K <=> p[k] \in S
  BY DEF At
<1>b. \A k \in D : k \in Nat
  OBVIOUS
<1> HIDE DEF K
<1>2. K = {} <=> S = {}
  BY <1>1, <1>a
<1>3. ASSUME S # {} PROVE First(K) \in D /\ p[First(K)] = Earliest(rules, S)
  <2> DEFINE k == First(K)
  <2>1. K # {} /\ K \subseteq Nat
    BY <1>2, <1>3, <1>a, <1>b
  <2>2. k \in K /\ \A l \in K : k <= l
    BY <2>1, FirstOf
  <2>3. k \in D /\ p[k] \in S /\ p[k] \in D
    BY <1>1, <1>a, <2>2
  <2> HIDE DEF k
  <2>4. ASSUME NEW j \in S \ {p[k]} PROVE Precedes(rules, p[k], j)
    <3>1. PICK l \in D : p[l] = j
      BY <1>1
    <3>2. l \in K /\ l # k
      BY <1>a, <3>1
    <3>3. k < l
      BY <2>2, <2>3, <3>1, <3>2
    <3> QED
      BY <1>0, <2>3, <3>1, <3>3 DEF Sorts
  <2>5. ASSUME NEW i \in S, \A j \in S \ {i} : Precedes(rules, i, j)
        PROVE  i = p[k]
    <3> SUFFICES ASSUME i # p[k] PROVE FALSE
      OBVIOUS
    <3>1. Precedes(rules, i, p[k]) /\ Precedes(rules, p[k], i)
      BY <2>3, <2>4, <2>5
    <3> QED
      BY <1>0, <2>3, <3>1, PrecedesOrders
  <2>6. Earliest(rules, S) = p[k]
    BY <2>3, <2>4, <2>5 DEF Earliest
  <2> QED
    BY <2>3, <2>6 DEF k
<1> QED
  BY <1>2, <1>3 DEF K, EarliestFirst

(* The empty text, by a name that the provers can take for a value like    *)
(* any other.                                                              *)
Blank == ""

NoRule == [action |-> "allow", rule |-> Blank]
Result(rule) == [action |-> rule.action, rule |-> rule.id]
Final(d) == d # NoRule /\ d.action # "count"

(* The rules of an app that apply to a request *)
Matching(loaded, req) ==
  {k \in DOMAIN loaded.custom :
     /\ loaded.custom[k].enabled
     /\ Match(loaded.custom[k].when, req, loaded.sets)}

(* What Gateway makes of the rules that match: the first decisive one,     *)
(* else the first that counts.                                             *)
Outcome(rules, matching) ==
  IF Hits(rules, matching) # {}
  THEN Result(rules[First(Hits(rules, matching))])
  ELSE IF Counts(rules, matching) # {}
  THEN Result(rules[First(Counts(rules, matching))])
  ELSE NoRule

After(matching, i) == {k \in matching : i <= k}

(* One round of the loop, given what the rules after rule i come to. *)
Round(rules, matching, i, rest) ==
  IF /\ i \in matching
     /\ Decisive(rules, i) \/ (rules[i].action = "count" /\ ~ Final(rest))
  THEN Result(rules[i])
  ELSE rest

(* What the walk relies on: rules have an id and an action. *)
Named(rules, n) ==
  \A k \in 1 .. n : /\ rules[k].id # Blank /\ rules[k].terminal \in BOOLEAN
                    /\ rules[k].action \in {"allow", "count", "block"}

LEMMA OutcomeRound ==
  ASSUME NEW n \in Nat, NEW rules, NEW M \in SUBSET (1 .. n), NEW i \in 1 .. n,
         Named(rules, n)
  PROVE  Outcome(rules, After(M, i)) =
           Round(rules, M, i, Outcome(rules, After(M, i + 1)))
<1> DEFINE A == After(M, i)
           B == After(M, i + 1)
<1>1. \A k \in M : k \in 1 .. n /\ k \in Nat
  OBVIOUS
<1>2. /\ A \subseteq M /\ B \subseteq M /\ \A k \in A : i <= k
      /\ \A k \in M : k \in A <=> k \in B \/ k = i
      /\ i \notin B
  BY <1>1 DEF After
<1> HIDE DEF A, B
<1>a. i \in M => i \in A
  BY <1>2
<1>b. i \notin M => A = B
  BY <1>2
<1>c. ASSUME NEW S, S \subseteq A \/ S \subseteq B
      PROVE  S \subseteq Nat /\ S \subseteq Int
  <2>1. S \subseteq M
    BY <1>2, <1>c
  <2>2. \A k \in S : k \in Nat
    BY <1>1, <2>1
  <2> QED
    BY <2>2
<1>3. /\ Hits(rules, A) \subseteq A /\ Counts(rules, A) \subseteq A
      /\ Hits(rules, B) \subseteq B /\ Counts(rules, B) \subseteq B
  BY DEF Hits, Counts
<1>4. ASSUME i \in Hits(rules, A)
      PROVE  Outcome(rules, A) = Result(rules[i])
  <2>1. First(Hits(rules, A)) = i
    <3>1. Hits(rules, A) \subseteq Int /\ \A k \in Hits(rules, A) : i <= k
      BY <1>2, <1>3, <1>c
    <3> QED
      BY <1>4, <3>1, FirstIs
  <2> QED
    BY <1>4, <2>1 DEF Outcome
<1>5. CASE i \notin M
  BY <1>b, <1>5 DEF Round, A, B
<1>6. CASE i \in M /\ Decisive(rules, i)
  <2>1. i \in Hits(rules, A)
    BY <1>a, <1>6 DEF Hits
  <2> QED
    <3>1. Outcome(rules, A) = Result(rules[i])
      BY <1>4, <2>1
    <3>2. Round(rules, M, i, Outcome(rules, B)) = Result(rules[i])
      BY <1>6 DEF Round
    <3> QED
      BY <3>1, <3>2 DEF A, B
<1>7. CASE i \in M /\ rules[i].action = "allow" /\ ~ rules[i].terminal
  <2>1. Hits(rules, A) = Hits(rules, B) /\ Counts(rules, A) = Counts(rules, B)
    <3>1. ~ Decisive(rules, i) /\ rules[i].action # "count"
      BY <1>7 DEF Decisive
    <3> QED
      BY <1>2, <3>1 DEF Hits, Counts
  <2>2. Outcome(rules, A) = Outcome(rules, B)
    BY <2>1 DEF Outcome
  <2> QED
    BY <1>7, <2>2 DEF Round, Decisive, A, B
<1>8. CASE i \in M /\ rules[i].action = "count"
  <2>1. Hits(rules, A) = Hits(rules, B) /\ i \in Counts(rules, A)
    <3>1. ~ Decisive(rules, i)
      BY <1>8 DEF Decisive
    <3> QED
      BY <1>a, <1>2, <1>8, <3>1 DEF Hits, Counts
  <2>2. First(Counts(rules, A)) = i
    <3>1. Counts(rules, A) \subseteq Int /\ \A k \in Counts(rules, A) : i <= k
      BY <1>2, <1>3, <1>c
    <3> QED
      BY <2>1, <3>1, FirstIs
  <2>3. CASE Hits(rules, B) # {}
    <3> DEFINE k == First(Hits(rules, B))
    <3>1. k \in Hits(rules, B)
      BY <1>3, <1>c, <2>3, FirstOf
    <3>2. k \in 1 .. n /\ Decisive(rules, k)
      BY <1>1, <1>2, <3>1 DEF Hits
    <3>3. Outcome(rules, B) = Result(rules[k]) /\ Outcome(rules, A) = Result(rules[k])
      BY <2>1, <2>3 DEF Outcome
    <3> HIDE DEF k
    <3>4. Final(Outcome(rules, B))
      <4>1. Result(rules[k]).rule # Blank /\ Result(rules[k]).action # "count"
        BY <3>2 DEF Result, Decisive, Named
      <4>2. NoRule.rule = Blank
        BY DEF NoRule
      <4> QED
        BY <3>3, <4>1, <4>2 DEF Final
    <3> QED
      BY <1>8, <3>3, <3>4 DEF Round, Decisive, A, B
  <2>4. CASE Hits(rules, B) = {}
    <3>1. Outcome(rules, A) = Result(rules[i])
      BY <2>1, <2>2, <2>4 DEF Outcome
    <3>2. ~ Final(Outcome(rules, B))
      <4>1. CASE Counts(rules, B) = {}
        BY <2>4, <4>1 DEF Outcome, Final
      <4>2. CASE Counts(rules, B) # {}
        <5> DEFINE k == First(Counts(rules, B))
        <5>1. k \in Counts(rules, B)
          BY <1>3, <1>c, <4>2, FirstOf
        <5>2. Outcome(rules, B) = Result(rules[k])
          BY <2>4, <4>2 DEF Outcome
        <5>3. rules[k].action = "count"
          BY <5>1 DEF Counts
        <5> HIDE DEF k
        <5> QED
          BY <5>2, <5>3 DEF Final, Result
      <4> QED
        BY <4>1, <4>2
    <3> QED
      BY <1>8, <3>1, <3>2 DEF Round, A, B
  <2> QED
    BY <2>3, <2>4
<1> QED
  BY <1>5, <1>6, <1>7, <1>8 DEF Decisive, Named

(* The loop of EvaluateCustomRules (store.go:259-296), which remembers the *)
(* first count while it looks for something final, comes to what the       *)
(* pipeline does with the set of rules that match: the first decisive one, *)
(* else the first that counts.                                             *)
THEOREM WalkIsFirst ==
  ASSUME NEW loaded, NEW req, loaded.custom \in Seq(RuleForms),
         \A k \in DOMAIN loaded.custom :
           /\ loaded.custom[k].id # Blank
           /\ loaded.custom[k].action \in {"allow", "count", "block"}
  PROVE  EvaluateCustomRules(loaded, req) =
           Outcome(loaded.custom, Matching(loaded, req))
<1> DEFINE rules == loaded.custom
           n == Len(rules)
           M == Matching(loaded, req)
           body(f, i) ==
             IF i > n THEN NoRule
             ELSE IF /\ rules[i].enabled
                     /\ Match(rules[i].when, req, loaded.sets)
                     /\ (\/ rules[i].action = "block"
                         \/ rules[i].action = "allow" /\ rules[i].terminal)
                          \/ (rules[i].action = "count" /\ ~ Final(f[i + 1]))
                  THEN Result(rules[i])
                  ELSE f[i + 1]
           Def(f) == [i \in 1 .. n + 1 |-> body(f, i)]
           walk == CHOOSE f : f = Def(f)
           g == [i \in 1 .. n + 1 |-> Outcome(rules, After(M, i))]
<1>1. EvaluateCustomRules(loaded, req) = walk[1]
  BY DEF EvaluateCustomRules, NoRule, Result, Final, Blank
<1>2. n \in Nat /\ DOMAIN rules = 1 .. n
  <2> HIDE DEF body
  <2> QED
    OBVIOUS
<1>3. Named(rules, n)
  <2>1. \A k \in 1 .. n : rules[k] \in RuleForms
    BY <1>2
  <2>2. \A k \in 1 .. n : rules[k].terminal \in BOOLEAN
    BY <2>1 DEF RuleForms
  <2> QED
    BY <1>2, <2>2 DEF Named
<1>4. M \in SUBSET (1 .. n)
  BY <1>2 DEF Matching
<1>5. \A f : \A i \in 1 .. n : body(f, i) = Round(rules, M, i, f[i + 1])
  <2> SUFFICES ASSUME NEW f, NEW i \in 1 .. n
               PROVE  body(f, i) = Round(rules, M, i, f[i + 1])
    OBVIOUS
  <2>1. ~ (i > n)
    BY <1>2
  <2>2. i \in M <=> /\ rules[i].enabled
                    /\ Match(rules[i].when, req, loaded.sets)
    BY <1>2 DEF Matching
  <2> HIDE DEF n, M
  <2> QED
    BY <2>1, <2>2 DEF Round, Decisive
<1>6. \A f : body(f, n + 1) = NoRule
  BY <1>2
<1> HIDE DEF rules, n, M, body
<1>7. Outcome(rules, After(M, n + 1)) = NoRule
  <2>1. \A k \in M : k \in 1 .. n
    BY <1>4
  <2>2. \A k \in 1 .. n : ~ (n + 1 <= k)
    BY <1>2
  <2>3. After(M, n + 1) = {}
    BY <2>1, <2>2 DEF After
  <2> QED
    BY <2>3 DEF Outcome, Hits, Counts
<1>8. \A i \in 1 .. n :
        Outcome(rules, After(M, i)) =
          Round(rules, M, i, Outcome(rules, After(M, i + 1)))
  BY <1>2, <1>3, <1>4, OutcomeRound
<1>9. \A i \in 1 .. n + 1 : i \in 1 .. n \/ i = n + 1
  BY <1>2
<1>10. \A i \in 1 .. n : i + 1 \in 1 .. n + 1
  BY <1>2
<1>11. g = Def(g)
  <2>1. \A i \in 1 .. n + 1 : g[i] = body(g, i)
    <3>1. \A i \in 1 .. n : g[i] = Round(rules, M, i, g[i + 1])
      <4>1. \A i \in 1 .. n + 1 : g[i] = Outcome(rules, After(M, i))
        OBVIOUS
      <4>2. \A i \in 1 .. n : i \in 1 .. n + 1
        BY <1>2
      <4> HIDE DEF g
      <4> QED
        BY <1>8, <1>10, <4>1, <4>2
    <3>2. g[n + 1] = NoRule
      <4>1. n + 1 \in 1 .. n + 1
        BY <1>2
      <4> QED
        BY <1>7, <4>1
    <3> HIDE DEF g
    <3> QED
      BY <1>5, <1>6, <1>9, <3>1, <3>2
  <2> QED
    BY <2>1
<1>12. walk = Def(walk)
  BY <1>11
<1> HIDE DEF walk
<1>13. \A i \in 1 .. n + 1 : walk[i] = body(walk, i)
  BY <1>12
<1>14. \A i \in 1 .. n + 1 : g[i] = body(g, i)
  <2> HIDE DEF g
  <2> QED
    BY <1>11
<1> DEFINE T == {j \in Nat : j <= n /\ walk[n + 1 - j] # g[n + 1 - j]}
<1> HIDE DEF g
<1>15. T = {}
  <2> SUFFICES ASSUME T # {} PROVE FALSE
    OBVIOUS
  <2>1. PICK j \in T : \A k \in T : j <= k
    BY LeastNumber
  <2>2. j \in Nat /\ j <= n /\ walk[n + 1 - j] # g[n + 1 - j]
    BY <2>1
  <2>3. j # 0
    <3>1. n + 1 - 0 = n + 1 /\ n + 1 \in 1 .. n + 1
      BY <1>2
    <3>2. walk[n + 1] = g[n + 1]
      BY <1>6, <1>13, <1>14, <3>1
    <3> QED
      BY <2>2, <3>1, <3>2
  <2>4. j - 1 \in Nat /\ j - 1 \notin T
    BY <2>1, <2>2, <2>3
  <2> DEFINE i == n + 1 - j
  <2>5. i \in 1 .. n /\ i \in 1 .. n + 1 /\ i + 1 = n + 1 - (j - 1)
    BY <1>2, <2>2, <2>3
  <2>6. walk[i + 1] = g[i + 1]
    BY <1>2, <2>2, <2>4, <2>5
  <2> HIDE DEF i
  <2>7. walk[i] = g[i]
    BY <1>5, <1>13, <1>14, <2>5, <2>6
  <2> QED
    BY <2>2, <2>7 DEF i
<1>16. walk[1] = g[1]
  <2>1. n \in Nat /\ n <= n /\ n + 1 - n = 1
    BY <1>2
  <2> QED
    BY <1>15, <2>1
<1>17. After(M, 1) = M
  <2>1. \A k \in M : k \in 1 .. n
    BY <1>4
  <2>2. \A k \in 1 .. n : 1 <= k
    BY <1>2
  <2> QED
    BY <2>1, <2>2 DEF After
<1>18. g[1] = Outcome(rules, M)
  BY <1>2, <1>17 DEF g
<1> QED
  BY <1>1, <1>16, <1>18 DEF rules, M

LEMMA RuleParsed ==
  ASSUME NEW rules, NEW sets, CustomRulesParse(rules, sets), NEW i \in DOMAIN rules
  PROVE  /\ rules[i].id # Blank
         /\ rules[i].action \in {"allow", "count", "block"}
         /\ ParseCondition(rules[i].when, sets)
<1>1. ParseCondition(rules[i].when, sets)
  BY Zenon DEF CustomRulesParse
<1>2. rules[i].action \in {"allow", "count", "block"}
  BY Zenon DEF CustomRulesParse
<1>3. TrimSpace(rules[i].id) # ""
  BY Zenon DEF CustomRulesParse
<1>4. TrimSpace("") = ""
  BY DEF TrimSpace
<1>5. rules[i].id # Blank
  BY Zenon, <1>3, <1>4 DEF Blank
<1> QED
  BY <1>1, <1>2, <1>5

(* A draft's rules decide every request at the gateway as its author was   *)
(* promised.                                                               *)
LEMMA RulesInOrder ==
  ASSUME NEW d, d.custom \in Seq(RuleForms), CustomRulesParse(d.custom, d.sets),
         NEW req \in Requests, NEW loaded,
         loaded.custom = SliceStable(d.custom), loaded.sets = Trimmed(d.sets)
  PROVE  EvaluateCustomRules(loaded, req) = Promised(d, req)
<1> DEFINE rules == d.custom
           n == Len(rules)
           D == 1 .. n
           sorted == loaded.custom
           M == Matching(loaded, req)
           applies == {i \in DOMAIN rules :
                         rules[i].enabled /\ Meaning(rules[i].when, req, d.sets)}
           final == {i \in applies :
                       \/ rules[i].action = "block"
                       \/ rules[i].action = "allow" /\ rules[i].terminal}
           counting == {i \in applies : rules[i].action = "count"}
<1>1. n \in Nat /\ DOMAIN rules = D /\ \A i \in D : rules[i] \in RuleForms
  OBVIOUS
<1>2. \A i \in D : rules[i].priority \in Int /\ rules[i].when \in Conditions
  BY <1>1 DEF RuleForms
<1>3. PICK p : Sorts(rules, p)
  BY <1>1, <1>2, SortedByPlace
<1>4. \A k \in D : p[k] \in D
  BY <1>1, <1>2, <1>3, PlacesSorted
<1>5. sorted = [k \in D |-> rules[p[k]]]
  BY <1>1, <1>3 DEF Sorts
<1>6. DOMAIN sorted = D /\ \A k \in D : sorted[k] = rules[p[k]]
  BY <1>5
<1>7. sorted \in Seq(RuleForms)
  <2>1. \A k \in D : rules[p[k]] \in RuleForms
    BY <1>1, <1>4
  <2> HIDE DEF rules, n
  <2> QED
    BY <1>1, <1>5, <2>1
<1>8. \A i \in D : /\ rules[i].id # Blank
                   /\ rules[i].action \in {"allow", "count", "block"}
                   /\ ParseCondition(rules[i].when, d.sets)
  BY <1>1, RuleParsed
<1>10. \A i \in D : Match(rules[i].when, req, loaded.sets)
                     <=> Meaning(rules[i].when, req, d.sets)
  BY <1>2, <1>8, MatchIsMeaning
<1>11. EvaluateCustomRules(loaded, req) = Outcome(sorted, M)
  <2>1. \A k \in DOMAIN sorted : /\ sorted[k].id # Blank
                                 /\ sorted[k].action \in {"allow", "count", "block"}
    BY <1>4, <1>6, <1>8
  <2> QED
    BY <1>7, <2>1, WalkIsFirst
<1>12. Promised(d, req) =
         LET chosen == IF final # {} THEN final ELSE counting
             rule == rules[Earliest(rules, chosen)]
         IN  IF chosen = {} THEN NoRule ELSE Result(rule)
  BY DEF Promised, NoRule, Result, Blank
<1>13. applies \subseteq D /\ final \subseteq applies /\ counting \subseteq applies
  BY <1>1
<1>14. M = {k \in D : p[k] \in applies}
  <2>1. \A k \in D : k \in M <=> p[k] \in applies
    BY <1>1, <1>4, <1>6, <1>10 DEF Matching
  <2>2. M \subseteq D
    BY <1>6 DEF Matching
  <2> HIDE DEF M, applies, D
  <2> QED
    BY <2>1, <2>2
<1>15. Hits(sorted, M) = At(p, n, final)
  <2>1. \A k \in D : Decisive(sorted, k) /\ p[k] \in applies <=> p[k] \in final
    BY <1>6 DEF Decisive
  <2> HIDE DEF M, applies, n, final
  <2> QED
    BY <1>13, <1>14, <2>1 DEF Hits, At
<1>16. Counts(sorted, M) = At(p, n, counting)
  <2>1. \A k \in D :
          sorted[k].action = "count" /\ p[k] \in applies <=> p[k] \in counting
    BY <1>6
  <2> HIDE DEF M, applies, n, counting
  <2> QED
    BY <1>13, <1>14, <2>1 DEF Counts, At
<1> HIDE DEF M, applies, final, counting, sorted, rules, n
<1>17. Places(rules, n, p)
  BY <1>1, <1>2, <1>3 DEF Places
<1>nat. n \in Nat
  BY <1>1
<1>18. /\ Hits(sorted, M) = {} <=> final = {}
       /\ final # {} =>
            sorted[First(Hits(sorted, M))] = rules[Earliest(rules, final)]
  <2>1. final \subseteq 1 .. n
    BY <1>13
  <2>2. EarliestFirst(rules, n, p, final)
    BY <1>17, <1>nat, <2>1, FirstIsEarliest
  <2> QED
    BY <1>6, <1>15, <2>2 DEF EarliestFirst
<1>19. /\ Counts(sorted, M) = {} <=> counting = {}
       /\ counting # {} =>
            sorted[First(Counts(sorted, M))] = rules[Earliest(rules, counting)]
  <2>1. counting \subseteq 1 .. n
    BY <1>13
  <2>2. EarliestFirst(rules, n, p, counting)
    BY <1>17, <1>nat, <2>1, FirstIsEarliest
  <2> QED
    BY <1>6, <1>16, <2>2 DEF EarliestFirst
<1>20. Outcome(sorted, M) =
         IF final # {} THEN Result(rules[Earliest(rules, final)])
         ELSE IF counting # {} THEN Result(rules[Earliest(rules, counting)])
         ELSE NoRule
  BY <1>18, <1>19 DEF Outcome
<1> QED
  BY <1>11, <1>12, <1>20

-----------------------------------------------------------------------------
(* The invariant of the rules' life. *)

LEMMA EmptyDraftChecked == Checked(EmptyDraft)
BY DEF Checked, EmptyDraft, ValidatePolicySnapshot

LEMMA WithDefaults ==
  ASSUME NEW a, IsFileApp(a), NEW m, NEW e, NEW l, NEW c
  PROVE  LET b == [a EXCEPT !.mode = m, !.default = e, !.limits = l, !.custom = c]
         IN  b.custom = c /\ b.limits = l /\ b.hosts = a.hosts
BY DEF IsFileApp

LEMMA DefaultText ==
  ASSUME NEW v \in Texts, NEW w \in Texts PROVE Default(v, w) \in Texts
BY DEF Default

LEMMA RuleWith ==
  ASSUME NEW r \in RuleForms
  PROVE  [r EXCEPT !.action = Default(@, "count"),
                   !.status = Status(@, 403)] \in RuleForms
<1> DEFINE v == Default(r.action, "count")
           w == Status(r.status, 403)
<1>1. r.action \in Texts /\ r.status \in Int
  BY DEF RuleForms
<1>2. v \in Texts
  <2>1. "count" \in Texts
    BY DEF Texts
  <2> QED
    BY Zenon, <1>1, <2>1, DefaultText
<1>3. w \in Int
  BY <1>1 DEF Status
<1> HIDE DEF v, w
<1>4. [r EXCEPT !.action = v, !.status = w] \in RuleForms
  BY <1>2, <1>3 DEF RuleForms
<1> QED
  BY Zenon, <1>4 DEF v, w

LEMMA LimitWith ==
  ASSUME NEW r \in LimitForms
  PROVE  [r EXCEPT !.id = Default(@, r.name), !.keyType = Default(@, "ip"),
                   !.action = Default(@, "count"),
                   !.status = Status(@, 429)] \in LimitForms
<1> DEFINE u == Default(r.id, r.name)
           k == Default(r.keyType, "ip")
           v == Default(r.action, "count")
           w == Status(r.status, 429)
<1>1. /\ r.action \in Texts /\ r.status \in Int /\ r.id \in Texts
      /\ r.name \in Texts /\ r.keyType \in Texts
  BY DEF LimitForms
<1>2. u \in Texts /\ k \in Texts /\ v \in Texts
  <2>1. "count" \in Texts /\ "ip" \in Texts
    BY DEF Texts
  <2> QED
    BY Zenon, <1>1, <2>1, DefaultText
<1>3. w \in Int
  BY <1>1 DEF Status
<1> HIDE DEF u, k, v, w
<1>4. [r EXCEPT !.id = u, !.keyType = k, !.action = v, !.status = w] \in LimitForms
  BY <1>2, <1>3 DEF LimitForms
<1> QED
  BY Zenon, <1>4 DEF u, k, v, w

LEMMA SequenceOf ==
  ASSUME NEW S, NEW s \in Seq(S), NEW f, DOMAIN f = DOMAIN s,
         f = [i \in DOMAIN f |-> f[i]], \A i \in DOMAIN f : f[i] \in S
  PROVE  f \in Seq(S)
<1>1. Len(s) \in Nat /\ DOMAIN f = 1 .. Len(s)
  OBVIOUS
<1>2. f = [i \in 1 .. Len(s) |-> f[i]]
  BY <1>1
<1> QED
  BY <1>1, <1>2

(* What applyDefaults makes of an app is an app still. *)
LEMMA DefaultsKeepForm ==
  ASSUME NEW a, IsFileApp(a)
  PROVE  /\ ApplyDefaults(a).custom \in Seq(RuleForms)
         /\ ApplyDefaults(a).limits \in Seq(LimitForms)
         /\ \A h \in ApplyDefaults(a).hosts : IsHost(h)
<1>3. \A i \in DOMAIN a.custom :
        [a.custom[i] EXCEPT !.action = Default(@, "count"),
                            !.status = Status(@, 403)] \in RuleForms
  <2>1. \A i \in DOMAIN a.custom : a.custom[i] \in RuleForms
    BY DEF IsFileApp
  <2> QED
    BY <2>1, RuleWith
<1>4. \A i \in DOMAIN a.limits :
        [a.limits[i] EXCEPT !.id = Default(@, a.limits[i].name),
                            !.keyType = Default(@, "ip"),
                            !.action = Default(@, "count"),
                            !.status = Status(@, 429)] \in LimitForms
  <2>1. \A i \in DOMAIN a.limits : a.limits[i] \in LimitForms
    BY DEF IsFileApp
  <2> QED
    BY <2>1, LimitWith
<1> DEFINE rules == [i \in DOMAIN a.custom |->
             [a.custom[i] EXCEPT !.action = Default(@, "count"),
                                 !.status = Status(@, 403)]]
           lims == [i \in DOMAIN a.limits |->
             [a.limits[i] EXCEPT !.id = Default(@, a.limits[i].name),
                                 !.keyType = Default(@, "ip"),
                                 !.action = Default(@, "count"),
                                 !.status = Status(@, 429)]]
<1>5. ApplyDefaults(a).custom = rules /\ ApplyDefaults(a).limits = lims
        /\ ApplyDefaults(a).hosts = a.hosts
  <2> DEFINE m == Default(a.mode, "count")
             e == Default(a.default, "allow")
             b == [a EXCEPT !.mode = m, !.default = e, !.limits = lims,
                            !.custom = rules]
  <2>1. ApplyDefaults(a) = b
    BY DEF ApplyDefaults
  <2> HIDE DEF m, e, rules, lims
  <2>2. b.custom = rules /\ b.limits = lims /\ b.hosts = a.hosts
    BY WithDefaults
  <2> HIDE DEF b
  <2> QED
    BY <2>1, <2>2
<1>6. rules \in Seq(RuleForms) /\ lims \in Seq(LimitForms)
  <2>1. /\ DOMAIN rules = DOMAIN a.custom /\ DOMAIN lims = DOMAIN a.limits
        /\ rules = [i \in DOMAIN rules |-> rules[i]]
        /\ lims = [i \in DOMAIN lims |-> lims[i]]
    OBVIOUS
  <2>2. a.custom \in Seq(RuleForms) /\ a.limits \in Seq(LimitForms)
    BY DEF IsFileApp
  <2> HIDE DEF rules, lims
  <2>3. rules \in Seq(RuleForms)
    BY <1>3, <2>1, <2>2, SequenceOf DEF rules
  <2>4. lims \in Seq(LimitForms)
    BY <1>4, <2>1, <2>2, SequenceOf DEF lims
  <2> QED
    BY <2>3, <2>4
<1> HIDE DEF rules, lims
<1> QED
  BY <1>5, <1>6 DEF IsFileApp

(* The store of a file that loads. *)
LEMMA FileIsParsed ==
  ASSUME NEW apps,
         \A i \in DOMAIN apps : /\ AppParses(apps[i])
                                /\ ValidateMode(apps[i].mode)
                                /\ apps[i].custom \in Seq(RuleForms)
                                /\ apps[i].limits \in Seq(LimitForms)
  PROVE  \A h \in DOMAIN ByHost(apps) :
           ParsedFrom(ByHost(apps)[h].app, ByHost(apps)[h].from)
<1> SUFFICES ASSUME NEW h \in DOMAIN ByHost(apps)
             PROVE  ParsedFrom(ByHost(apps)[h].app, ByHost(apps)[h].from)
  OBVIOUS
<1>1. h \in UNION {HostsOf(apps[i]) : i \in DOMAIN apps}
  BY DEF ByHost
<1> DEFINE k == CHOOSE i \in DOMAIN apps : h \in HostsOf(apps[i])
<1>2. k \in DOMAIN apps
  BY <1>1
<1>3. ByHost(apps)[h] = [app |-> NewApp(apps[k]), from |-> apps[k]]
  BY <1>1 DEF ByHost
<1> HIDE DEF k
<1> DEFINE a == apps[k]
<1>4. /\ a.custom \in Seq(RuleForms) /\ a.limits \in Seq(LimitForms)
      /\ CustomRulesParse(a.custom, a.sets)
      /\ RateLimitRulesParse(a.limits, a.sets)
      /\ ValidateMode(a.mode)
  BY <1>2 DEF AppParses
<1>5. ByHost(apps)[h].app = NewApp(a) /\ ByHost(apps)[h].from = a
  BY <1>3
<1> HIDE DEF a
<1>6. ParsedFrom(NewApp(a), a)
  BY <1>4 DEF ParsedFrom, NewApp
<1> QED
  BY <1>5, <1>6

LEMMA RulesInvInit == RulesInit => RulesInv
BY DEF RulesInit, RulesInv, RowIsChecked, VersionIsDraft, StoreIsParsed,
       StoreIsFile

LEMMA CreatePolicyKeeps ==
  ASSUME NEW mode, NEW d \in FirstDrafts \cup {EmptyDraft}
  PROVE  RulesInv /\ CreatePolicy(mode, d) => RulesInv'
<1> SUFFICES ASSUME RulesInv, CreatePolicy(mode, d) PROVE RulesInv'
  OBVIOUS
<1>1. Checked(d) /\ ValidateMode(Default(mode, "count"))
  BY EmptyDraftChecked, PolicyRulesAssumption
     DEF CreatePolicy, Checked, Default, ValidateMode
<1>2. /\ policy'.draft = d /\ policy'.mode = Default(mode, "count")
      /\ UNCHANGED <<published, gateway, file, store>>
  BY DEF CreatePolicy
<1> QED
  BY <1>1, <1>2 DEF RulesInv, RowIsChecked, VersionIsDraft, StoreIsParsed,
                    StoreIsFile

LEMMA PatchPolicyKeeps ==
  ASSUME NEW mode, NEW d \in Drafts \cup {Nothing}
  PROVE  RulesInv /\ PatchPolicy(mode, d) => RulesInv'
<1> SUFFICES ASSUME RulesInv, PatchPolicy(mode, d) PROVE RulesInv'
  OBVIOUS
<1>1. Checked(policy.draft) /\ ValidateMode(policy.mode)
  BY DEF PatchPolicy, RulesInv, RowIsChecked
<1>2. /\ d # Nothing => Checked(d)
      /\ mode # Nothing => ValidateMode(mode)
  BY PolicyRulesAssumption DEF PatchPolicy, ValidateUpdatePolicy, Checked
<1>3. /\ policy'.draft = IF d = Nothing THEN policy.draft ELSE d
      /\ policy'.mode = IF mode = Nothing THEN policy.mode ELSE mode
      /\ UNCHANGED <<published, gateway, file, store>>
  BY DEF PatchPolicy
<1> QED
  BY <1>1, <1>2, <1>3 DEF RulesInv, RowIsChecked, VersionIsDraft,
                          StoreIsParsed, StoreIsFile

LEMMA BeginPublishKeeps == RulesInv /\ BeginPublish => RulesInv'
BY DEF BeginPublish, RulesInv, RowIsChecked, VersionIsDraft, StoreIsParsed,
       StoreIsFile

LEMMA PublishKeeps == RulesInv /\ Publish => RulesInv'
<1> SUFFICES ASSUME RulesInv, Publish PROVE RulesInv'
  OBVIOUS
<1>1. Checked(policy.draft) /\ ValidateMode(policy.mode)
  BY DEF Publish, RulesInv, RowIsChecked
<1>2. /\ published' = [version |-> CompileGatewayPolicy(policy),
                       draft |-> policy.draft]
      /\ UNCHANGED <<policy, gateway, file, store>>
  BY DEF Publish
<1>3. VersionIsDraft'
  <2>1. policy.draft.mode # "" => ValidateMode(policy.draft.mode)
    BY <1>1 DEF Checked, ValidatePolicySnapshot
  <2> QED
    BY <1>1, <1>2, <2>1 DEF VersionIsDraft, CompileGatewayPolicy
<1>4. RowIsChecked'
  BY <1>1, <1>2 DEF RowIsChecked
<1> QED
  BY <1>2, <1>3, <1>4 DEF RulesInv, StoreIsParsed, StoreIsFile

LEMMA StartKeeps ==
  ASSUME NEW config \in Configs
  PROVE  RulesInv /\ Start(config) => RulesInv'
<1> SUFFICES ASSUME RulesInv, Start(config) PROVE RulesInv'
  OBVIOUS
<1> DEFINE apps == [i \in DOMAIN config.apps |-> ApplyDefaults(config.apps[i])]
           served == IF config.remote THEN <<>> ELSE apps
<1>1. UNCHANGED <<policy, publishing, published>>
  BY DEF Start
<1>2. RowIsChecked' /\ VersionIsDraft'
  BY <1>1 DEF RulesInv, RowIsChecked, VersionIsDraft
<1>3. \A i \in DOMAIN apps :
        /\ apps[i].custom \in Seq(RuleForms)
        /\ apps[i].limits \in Seq(LimitForms)
        /\ \A h \in apps[i].hosts : IsHost(h)
  BY PolicyRulesAssumption, DefaultsKeepForm
<1>4. /\ file' = served
      /\ \/ /\ Starts(config.remote, apps)
            /\ gateway' = IF config.remote THEN "remote" ELSE "static"
            /\ store' = ByHost(served)
         \/ /\ gateway' = "exited"
            /\ store' = store
  BY DEF Start
<1> HIDE DEF apps
<1>5. CASE gateway' = "exited" /\ store' = store
  BY <1>2, <1>5 DEF RulesInv, StoreIsParsed, StoreIsFile
<1>6. CASE /\ Starts(config.remote, apps)
           /\ gateway' = IF config.remote THEN "remote" ELSE "static"
           /\ store' = ByHost(served)
  <2>1. CASE config.remote
    <3>1. DOMAIN ByHost(<<>>) = {}
      BY DEF ByHost
    <3>2. DOMAIN store' = {} /\ gateway' = "remote"
      BY <1>6, <2>1, <3>1
    <3> QED
      BY <1>2, <3>2 DEF RulesInv, StoreIsParsed, StoreIsFile
  <2>2. CASE ~ config.remote
    <3>1. /\ \A i \in DOMAIN apps :
               AppParses(apps[i]) /\ ValidateMode(apps[i].mode)
          /\ HostsDistinct(apps)
      BY <1>6, <2>2 DEF Starts, ConfigValid
    <3>2. store' = ByHost(apps) /\ file' = apps
      BY <1>4, <1>6, <2>2
    <3>3. StoreIsParsed'
      BY <1>3, <3>1, <3>2, FileIsParsed DEF StoreIsParsed
    <3>4. StoreIsFile'
      BY <1>3, <3>1, <3>2 DEF StoreIsFile
    <3> QED
      BY <1>2, <3>3, <3>4 DEF RulesInv
  <2> QED
    BY <2>1, <2>2
<1> QED
  BY <1>4, <1>5, <1>6

LEMMA FetchKeeps ==
  ASSUME NEW h
  PROVE  RulesInv /\ Fetch(h) => RulesInv'
<1> SUFFICES ASSUME RulesInv, Fetch(h) PROVE RulesInv'
  OBVIOUS
<1> DEFINE host == NormalizeHost(h)
           v == published.version
           d == published.draft
<1>1. /\ UNCHANGED <<policy, publishing, published, gateway, file>>
      /\ gateway = "remote"
  BY DEF Fetch
<1>2. RowIsChecked' /\ VersionIsDraft' /\ StoreIsFile'
  BY <1>1 DEF RulesInv, RowIsChecked, VersionIsDraft, StoreIsFile
<1>3. CASE ~ ToAppSucceeds(v)
  <2>1. store' = store
    BY <1>3 DEF Fetch
  <2> QED
    BY <1>2, <2>1 DEF RulesInv, StoreIsParsed
<1>4. CASE ToAppSucceeds(v)
  <2>1. /\ Checked(d) /\ v.custom = d.custom /\ v.limits = d.limits
        /\ v.sets = d.sets
        /\ ValidateMode(v.mode) /\ (d.mode # "" => v.mode = d.mode)
    BY DEF Fetch, RulesInv, VersionIsDraft
  <2>2. /\ CustomRulesParse(d.custom, d.sets)
        /\ RateLimitRulesParse(d.limits, d.sets)
    BY <1>4, <2>1 DEF ToAppSucceeds, AppParses, RemoteConfig
  <2> DEFINE entry == [app |-> NewApp(RemoteConfig(v)), from |-> d]
  <2>3. ParsedFrom(entry.app, entry.from)
    BY <2>1, <2>2 DEF ParsedFrom, NewApp, RemoteConfig, Checked
  <2>4. store' = [x \in DOMAIN store \cup {host} |->
                    IF x # host THEN store[x] ELSE entry]
    BY <1>4 DEF Fetch
  <2> HIDE DEF entry, host
  <2>5. StoreIsParsed'
    BY <2>3, <2>4 DEF RulesInv, StoreIsParsed
  <2> QED
    BY <1>2, <2>5 DEF RulesInv
<1> QED
  BY <1>3, <1>4

LEMMA RulesInvStep == RulesInv /\ [RulesNext]_rulesVars => RulesInv'
<1> SUFFICES ASSUME RulesInv, [RulesNext]_rulesVars PROVE RulesInv'
  OBVIOUS
<1>1. ASSUME NEW mode \in {"", "block", "log"}, NEW d \in FirstDrafts \cup {EmptyDraft},
             CreatePolicy(mode, d)
      PROVE  RulesInv'
  BY <1>1, CreatePolicyKeeps
<1>2. ASSUME NEW mode \in {Nothing, "block", "log"}, NEW d \in Drafts \cup {Nothing},
             PatchPolicy(mode, d)
      PROVE  RulesInv'
  BY <1>2, PatchPolicyKeeps
<1>3. CASE BeginPublish
  BY <1>3, BeginPublishKeeps
<1>4. CASE Publish
  BY <1>4, PublishKeeps
<1>5. ASSUME NEW config \in Configs, Start(config) PROVE RulesInv'
  BY <1>5, StartKeeps
<1>6. ASSUME NEW h \in Spellings, Fetch(h) PROVE RulesInv'
  BY <1>6, FetchKeeps
<1>7. CASE UNCHANGED rulesVars
  BY <1>7 DEF rulesVars, RulesInv, RowIsChecked, VersionIsDraft,
              StoreIsParsed, StoreIsFile
<1> QED
  BY <1>1, <1>2, <1>3, <1>4, <1>5, <1>6, <1>7 DEF RulesNext

(* Rules are checked wherever they are: in the row, in the version made of *)
(* it, in the apps made of that, whichever order publishPolicy and         *)
(* patchPolicy take their steps in (server.go:275, db.go:378).             *)
THEOREM RulesStayChecked == RulesSpec => []RulesInv
BY RulesInvInit, RulesInvStep, PTL DEF RulesSpec

-----------------------------------------------------------------------------
(* What follows from the invariant. *)

LEMMA TrimmedTexts ==
  /\ \A s : TrimSpace(s) # "" => s # ""
  /\ \A s : ParsePrefix(s) => ParsePrefix(TrimSpace(s))
BY Zenon DEF TrimSpace, ParsePrefix

(* Both ends agree on a custom rule but for id, status and type ... *)
LEMMA CustomRulesAgree ==
  ASSUME NEW d, Checked(d)
  PROVE  CustomRulesParse(d.custom, d.sets) <=>
           \A i \in DOMAIN d.custom : /\ d.custom[i].id \notin Seen(d.custom, i)
                                      /\ ValidStatus(d.custom[i].status)
<1> DEFINE rules == d.custom
<1>1. ASSUME NEW i \in DOMAIN rules
      PROVE  /\ TrimSpace(rules[i].id) # ""
             /\ rules[i].name # ""
             /\ rules[i].action \in {"allow", "count", "block"}
             /\ ParseCondition(rules[i].when, d.sets)
  <2>1. ValidateCustomRule(rules[i], d.sets)
    BY Zenon DEF Checked, ValidatePolicySnapshot
  <2>2. /\ TrimSpace(rules[i].id) # "" /\ TrimSpace(rules[i].name) # ""
        /\ rules[i].action \in {"allow", "count", "block"}
        /\ ValidatePolicyCondition(rules[i].when, d.sets)
    BY Zenon, <2>1 DEF ValidateCustomRule
  <2>3. rules[i] \in RuleForms
    BY DEF Checked
  <2>4. rules[i].when \in Conditions
    BY <2>3 DEF RuleForms
  <2>5. ParseCondition(rules[i].when, d.sets)
    BY <2>2, <2>4, ValidIsParsed
  <2> QED
    BY Zenon, <2>2, <2>5, TrimmedTexts
<1> HIDE DEF rules
<1> DEFINE sound(i) == rules[i].id \notin Seen(rules, i)
           coded(i) == ValidStatus(rules[i].status)
<1>2. ASSUME CustomRulesParse(rules, d.sets), NEW i \in DOMAIN rules
      PROVE  sound(i) /\ coded(i)
  BY Zenon, <1>2 DEF CustomRulesParse
<1>3. ASSUME \A i \in DOMAIN rules : sound(i) /\ coded(i)
      PROVE  CustomRulesParse(rules, d.sets)
  <2> HIDE DEF sound, coded
  <2>1. ASSUME NEW i \in DOMAIN rules PROVE sound(i) /\ coded(i)
    BY Zenon, <1>3
  <2> QED
    BY Zenon, <1>1, <2>1 DEF CustomRulesParse, sound, coded
<1> QED
  BY Zenon, <1>2, <1>3 DEF rules

(* ... and so they do on a limit. *)
LEMMA LimitsAgree ==
  ASSUME NEW d, Checked(d)
  PROVE  RateLimitRulesParse(d.limits, d.sets) <=>
           \A i \in DOMAIN d.limits : /\ d.limits[i].id \notin Seen(d.limits, i)
                                      /\ ValidStatus(d.limits[i].status)
<1> DEFINE rules == d.limits
<1>1. ASSUME NEW i \in DOMAIN rules
      PROVE  /\ TrimSpace(rules[i].id) # ""
             /\ rules[i].name # ""
             /\ rules[i].limit > 0
             /\ rules[i].action \in {"count", "block"}
             /\ rules[i].keyType \in KeyTypes
             /\ rules[i].keyType = "header" => rules[i].keyHeader # ""
             /\ HasCondition(rules[i].when) =>
                  ParseCondition(rules[i].when, d.sets)
  <2>1. ValidateRateLimit(rules[i], d.sets)
    BY Zenon DEF Checked, ValidatePolicySnapshot
  <2>2. /\ TrimSpace(rules[i].id) # "" /\ TrimSpace(rules[i].name) # ""
        /\ rules[i].action \in {"count", "block"}
        /\ rules[i].limit > 0
        /\ rules[i].keyType \in KeyTypes
        /\ rules[i].keyType = "header" => TrimSpace(rules[i].keyHeader) # ""
        /\ HasCondition(rules[i].when) =>
             ValidatePolicyCondition(rules[i].when, d.sets)
    BY Zenon, <2>1 DEF ValidateRateLimit
  <2>3. rules[i] \in LimitForms
    BY DEF Checked
  <2>4. rules[i].when \in Conditions
    BY <2>3 DEF LimitForms
  <2>5. HasCondition(rules[i].when) => ParseCondition(rules[i].when, d.sets)
    BY <2>2, <2>4, ValidIsParsed
  <2> QED
    BY Zenon, <2>2, <2>5, TrimmedTexts
<1> HIDE DEF rules
<1> DEFINE sound(i) == rules[i].id \notin Seen(rules, i)
           coded(i) == ValidStatus(rules[i].status)
<1>2. ASSUME RateLimitRulesParse(rules, d.sets), NEW i \in DOMAIN rules
      PROVE  sound(i) /\ coded(i)
  BY Zenon, <1>2 DEF RateLimitRulesParse
<1>3. ASSUME \A i \in DOMAIN rules : sound(i) /\ coded(i)
      PROVE  RateLimitRulesParse(rules, d.sets)
  <2> HIDE DEF sound, coded
  <2>1. ASSUME NEW i \in DOMAIN rules PROVE sound(i) /\ coded(i)
    BY Zenon, <1>3
  <2> QED
    BY Zenon, <1>1, <2>1 DEF RateLimitRulesParse, sound, coded
<1> QED
  BY Zenon, <1>2, <1>3 DEF rules

LEMMA IPSetsAgree ==
  ASSUME NEW d, Checked(d)
  PROVE  IPSetsParse(d.sets) <=> \A name \in DOMAIN d.sets : TrimSpace(name) # ""
<1>1. \A name \in DOMAIN d.sets : \A cidr \in d.sets[name] : ParsePrefix(cidr)
  BY Zenon DEF Checked, ValidatePolicySnapshot
<1>2. \A name \in DOMAIN d.sets : PrefixesParse(d.sets[name])
  BY Zenon, <1>1, TrimmedTexts DEF PrefixesParse
<1> QED
  BY Zenon, <1>2 DEF IPSetsParse

LEMMA LoadsUnlessUnchecked ==
  ASSUME NEW d, Checked(d), NEW v,
         v.custom = d.custom, v.limits = d.limits, v.sets = d.sets
  PROVE  ToAppSucceeds(v) <=> ~ Unchecked(d)
<1> DEFINE good(rules) == \A i \in DOMAIN rules :
                            /\ rules[i].id \notin Seen(rules, i)
                            /\ ValidStatus(rules[i].status)
                            /\ rules[i].typed
           named == \A name \in DOMAIN d.sets : TrimSpace(name) # ""
<1>1. ~ Unchecked(d) <=> good(d.custom) /\ good(d.limits) /\ named
  <2> DEFINE bad(rules) == \E i \in DOMAIN rules :
                             \/ rules[i].id \in Seen(rules, i)
                             \/ ~ ValidStatus(rules[i].status)
                             \/ ~ rules[i].typed
  <2>1. \A rules : bad(rules) <=> ~ good(rules)
    BY Zenon
  <2>2. Unchecked(d) <=> (\E rules \in {d.custom, d.limits} : bad(rules))
                           \/ ~ named
    BY Zenon DEF Unchecked
  <2> HIDE DEF bad, good, named
  <2> QED
    BY Zenon, <2>1, <2>2
<1>2. AppParses(RemoteConfig(v)) <=> /\ IPSetsParse(d.sets)
                                     /\ CustomRulesParse(d.custom, d.sets)
                                     /\ RateLimitRulesParse(d.limits, d.sets)
  <2>1. /\ RemoteConfig(v).blocklist = {} /\ RemoteConfig(v).allowlist = {}
        /\ OriginParses(RemoteConfig(v).origin)
        /\ RemoteConfig(v).sets = d.sets
        /\ RemoteConfig(v).custom = d.custom /\ RemoteConfig(v).limits = d.limits
    BY DEF RemoteConfig, OriginParses
  <2>2. PrefixesParse({})
    BY DEF PrefixesParse
  <2> QED
    BY <2>1, <2>2 DEF AppParses
<1>3. Decodes(v) <=> /\ \A i \in DOMAIN d.custom : d.custom[i].typed
                     /\ \A i \in DOMAIN d.limits : d.limits[i].typed
  BY DEF Decodes
<1>4. /\ IPSetsParse(d.sets) <=> named
      /\ CustomRulesParse(d.custom, d.sets)
           <=> \A i \in DOMAIN d.custom :
                 /\ d.custom[i].id \notin Seen(d.custom, i)
                 /\ ValidStatus(d.custom[i].status)
      /\ RateLimitRulesParse(d.limits, d.sets)
           <=> \A i \in DOMAIN d.limits :
                 /\ d.limits[i].id \notin Seen(d.limits, i)
                 /\ ValidStatus(d.limits[i].status)
  BY Zenon, IPSetsAgree, CustomRulesAgree, LimitsAgree
<1>5. /\ good(d.custom) <=>
           /\ CustomRulesParse(d.custom, d.sets)
           /\ \A i \in DOMAIN d.custom : d.custom[i].typed
      /\ good(d.limits) <=>
           /\ RateLimitRulesParse(d.limits, d.sets)
           /\ \A i \in DOMAIN d.limits : d.limits[i].typed
  BY Zenon, <1>4
<1> HIDE DEF good, named
<1> QED
  BY <1>1, <1>2, <1>3, <1>4, <1>5 DEF ToAppSucceeds

LEMMA InvGivesLoads == RulesInv => PublishedLoads
<1> SUFFICES ASSUME RulesInv, published # Nothing
             PROVE  ToAppSucceeds(published.version)
                      <=> ~ Unchecked(published.draft)
  BY DEF PublishedLoads
<1>1. /\ Checked(published.draft)
      /\ published.version.custom = published.draft.custom
      /\ published.version.limits = published.draft.limits
      /\ published.version.sets = published.draft.sets
  BY DEF RulesInv, VersionIsDraft
<1> QED
  BY <1>1, LoadsUnlessUnchecked

LEMMA InvGivesModes == RulesInv => ModeApplies
<1> SUFFICES ASSUME RulesInv, NEW h \in DOMAIN store
             PROVE  /\ ValidateMode(store[h].app.mode)
                    /\ store[h].from.mode # "" =>
                         store[h].app.mode = store[h].from.mode
  BY DEF ModeApplies
<1>1. ParsedFrom(store[h].app, store[h].from)
  BY DEF RulesInv, StoreIsParsed
<1> QED
  BY Zenon, <1>1 DEF ParsedFrom

LEMMA InvGivesDrafted == RulesInv => AppliesAsDrafted
<1> SUFFICES ASSUME RulesInv, NEW h \in DOMAIN store, NEW req \in Requests
             PROVE  /\ EvaluateCustomRules(store[h].app, req) =
                         Promised(store[h].from, req)
                    /\ LimitsKept(store[h].app, store[h].from, req)
  BY InvGivesModes
     DEF AppliesAsDrafted, RulesApplyAsDrafted, LimitsApplyAsDrafted
<1> DEFINE d == store[h].from
           loaded == store[h].app
<1>1. ParsedFrom(loaded, d)
  BY DEF RulesInv, StoreIsParsed
<1> HIDE DEF d, loaded
<1>2. /\ d.custom \in Seq(RuleForms) /\ d.limits \in Seq(LimitForms)
      /\ CustomRulesParse(d.custom, d.sets)
      /\ RateLimitRulesParse(d.limits, d.sets)
      /\ loaded.custom = SliceStable(d.custom)
      /\ loaded.limits = SliceStable(d.limits)
      /\ loaded.sets = Trimmed(d.sets)
  BY <1>1 DEF ParsedFrom, Trimmed
<1>3. EvaluateCustomRules(loaded, req) = Promised(d, req)
  BY <1>2, RulesInOrder
<1>4. LimitsKept(loaded, d, req)
  BY <1>2, LimitsInOrder
<1> QED
  BY <1>3, <1>4 DEF d, loaded

LEMMA SpellingsAreOne ==
  ASSUME NEW h, IsHost(h), NEW u, NEW p
  PROVE  NormalizeHost([h EXCEPT !.upper = u, !.port = p]) = NormalizeHost(h)
BY DEF IsHost, NormalizeHost

LEMMA InvGivesRoutes == RulesInv => StaticHostsRoute
<1> SUFFICES ASSUME RulesInv, gateway = "static" PROVE StaticHostsRoute
  BY DEF StaticHostsRoute
<1>1. /\ store = ByHost(file) /\ HostsDistinct(file)
      /\ \A i \in DOMAIN file : \A h \in file[i].hosts : IsHost(h)
  BY DEF RulesInv, StoreIsFile
<1>2. DOMAIN store = UNION {HostsOf(file[i]) : i \in DOMAIN file}
  BY <1>1 DEF ByHost
<1>3. ASSUME NEW i \in DOMAIN file, NEW h \in file[i].hosts,
             NEW u \in BOOLEAN, NEW p \in BOOLEAN
      PROVE  store[NormalizeHost([h EXCEPT !.upper = u, !.port = p])].from
               = file[i]
  <2> DEFINE x == NormalizeHost(h)
             k == CHOOSE j \in DOMAIN file : x \in HostsOf(file[j])
  <2>1. NormalizeHost([h EXCEPT !.upper = u, !.port = p]) = x
    BY <1>1, SpellingsAreOne
  <2>2. x \in HostsOf(file[i])
    BY DEF HostsOf
  <2> HIDE DEF x
  <2>3. k \in DOMAIN file /\ x \in HostsOf(file[k])
    BY <2>2
  <2>4. store[x] = [app |-> NewApp(file[k]), from |-> file[k]]
    <3>1. x \in UNION {HostsOf(file[j]) : j \in DOMAIN file}
      BY <2>2
    <3> QED
      BY <1>1, <3>1 DEF ByHost
  <2> HIDE DEF k
  <2>5. k = i
    BY <1>1, <2>2, <2>3 DEF HostsDistinct
  <2> QED
    BY <2>1, <2>4, <2>5
<1> QED
  BY <1>2, <1>3 DEF StaticHostsRoute

(* A gateway loads a published version exactly when it has none of the     *)
(* faults the control API does not look for (server.go:526-607 against     *)
(* store.go:350-563), whatever edits came between validating and           *)
(* compiling.                                                              *)
THEOREM GatewayLoadsWhatIsPublished == RulesSpec => []PublishedLoads
BY RulesStayChecked, InvGivesLoads, PTL

(* Every app decides every request by its custom rules, counts it against  *)
(* its limits and has the mode, as the author of its draft or file was     *)
(* promised: any number of rules, any priorities, conditions of any depth  *)
(* (store.go:186-563, db.go:669-671).                                      *)
THEOREM RulesMeanWhatTheySay == RulesSpec => []AppliesAsDrafted
BY RulesStayChecked, InvGivesDrafted, PTL

(* A gateway on its file serves every spelling of every host of it with    *)
(* the one app that lists it (config.go:155-240, store.go:111-131).        *)
THEOREM EveryFileHostRoutes == RulesSpec => []StaticHostsRoute
BY RulesStayChecked, InvGivesRoutes, PTL

=============================================================================
