---------------------------- MODULE EventQueries ----------------------------
(***************************************************************************)
(* What the control API tells about audit events: the search, the detail   *)
(* and the simulation summary (httpapi/server.go, events/events.go), over  *)
(* the table waf_events, into which gateways write late and out of order   *)
(* and from which ClickHouse drops old rows.                               *)
(*                                                                         *)
(* Times in requests are counted in half milliseconds: the column holds    *)
(* whole ones.  Time 0 stands for a parameter left out and for Go's zero   *)
(* time, which the code does not tell apart, time -1 for one that is not   *)
(* RFC 3339, limit -1 for one left out.  host and action are filtered like *)
(* app_id and left out.                                                    *)
(***************************************************************************)
EXTENDS ApiRequest, Integers, SequencesExt

CONSTANTS Events,        \* the events gateways report
          Requests,      \* the requests clients send
          DefaultLimit,  \* events.DefaultLimit
          MaxLimit,      \* events.MaxLimit
          MaxSamples,    \* sample request ids per rule
          MaxPaths,      \* top paths per rule
          Unknown,       \* the rule id "unknown"
          ResponseBytes, \* of a ClickHouse response, as much is read
          MaxLine        \* of one line and its newline, as much is scanned

ASSUME EventQueriesAssumption ==
  /\ {DefaultLimit, MaxLimit, MaxSamples, MaxPaths, ResponseBytes, MaxLine}
       \subseteq Nat \ {0}
  /\ DefaultLimit <= MaxLimit
  /\ \A e, f \in Events : e.request_id = f.request_id => e = f

VARIABLES log,         \* the rows of waf_events
          columnFirst, \* ClickHouse runs with prefer_column_name_to_alias
          answer       \* to the last request, until the log changes

vars == <<log, columnFirst, answer>>

NoAnswer == [kind |-> "none", request |-> <<>>, status |-> 0,
             events |-> <<>>, rules |-> <<>>]

(* The setting is off unless somebody has set it. *)
Init ==
  /\ log = {}
  /\ columnFirst \in BOOLEAN
  /\ answer = NoAnswer

-----------------------------------------------------------------------------
(* The query. *)

Columns == {"tenant_id", "app_id", "policy_id", "client_ip",
            "matched_rule_id"}

Millis(time) == time \div 2

(* Mutant: timestamp < to *)
InRangeHalfOpen(e, f) ==
  /\ f.from # 0 => Millis(e.at) >= Millis(f.from)
  /\ f.to # 0 => Millis(e.at) < Millis(f.to)

(* timestamp >= from, timestamp <= to, all three cut to milliseconds. *)
InRange(e, f) ==
  /\ f.from # 0 => Millis(e.at) >= Millis(f.from)
  /\ f.to # 0 => Millis(e.at) <= Millis(f.to)

(* BuildSearchQuery: a filter that is blank is no filter. *)
Selects(f, e) ==
  /\ \A c \in Columns :
       TrimSpace(f.columns[c]) # 0 => e[c] = TrimSpace(f.columns[c])
  /\ InRange(e, f)

(* selectFields also gives the name timestamp to a text, and ClickHouse    *)
(* takes that one in WHERE unless it is told to prefer the column: a text  *)
(* is not comparable with a bound, the query fails.  In ORDER BY the texts *)
(* sort as the times do.                                                   *)
BoundsCompare(f) == f.from # 0 \/ f.to # 0 => columnFirst

(* `from must be before to', where they are given; the moment itself is    *)
(* a range too.                                                            *)
FromBeforeTo(f) == f.from # 0 /\ f.to # 0 => f.from <= f.to

Limit(f) == IF f.limit = 0 THEN DefaultLimit ELSE f.limit

QueryBuilds(f) == Limit(f) \in 1 .. MaxLimit /\ FromBeforeTo(f)

(* Mutant: ORDER BY timestamp *)
OldestFirst(e, f) == Millis(e.at) <= Millis(f.at)

(* ORDER BY timestamp DESC: rows of one millisecond come in any order. *)
Precedes(e, f) == Millis(e.at) >= Millis(f.at)

(* ... LIMIT n: what ClickHouse may answer about these rows. *)
Ordered(rows, n) ==
  LET size == IF Cardinality(rows) < n THEN Cardinality(rows) ELSE n
      top == {S \in kSubset(size, rows) :
                \A e \in S, f \in rows \ S : Precedes(e, f)}
      sorted(S) == {s \in SetToSeqs(S) :
                      \A i, j \in 1 .. size : i < j => Precedes(s[i], s[j])}
  IN  UNION {sorted(S) : S \in top}

(* The lengths of the lines, each with its newline. *)
Bytes(s) ==
  LET sum[i \in 0 .. Len(s)] == IF i = 0 THEN 0 ELSE sum[i - 1] + s[i].size
  IN  sum[Len(s)]

(* The last newline need not be read. *)
Whole(s) == Bytes(s) <= ResponseBytes + 1

(* What is read ends after these lines, or just before their last newline. *)
CutAfter(s) == Bytes(s) \in {ResponseBytes, ResponseBytes + 1}

(* HTTPStore.query reads no more than ResponseBytes: a line that is cut    *)
(* does not decode, one that is not there is not missed.                   *)
Received(s) ==
  {SubSeq(s, 1, k) : k \in {n \in 0 .. Len(s) :
     \/ n = Len(s) /\ Whole(s)
     \/ n < Len(s) /\ CutAfter(SubSeq(s, 1, n))}}

(* decodeEvents: bufio.Scanner gives up at a long line. *)
Decodes(s) == \A i \in 1 .. Len(s) : s[i].size <= MaxLine

(* The query succeeds with one of these answers, or fails. *)
Found(f, n) ==
  {s \in UNION {Received(rows) :
                  rows \in Ordered({e \in log : Selects(f, e)}, n)} :
     BoundsCompare(f) /\ Decodes(s)}

-----------------------------------------------------------------------------
(* The handlers. *)

Reply(r, status, events, rules) ==
  /\ answer' = [kind |-> r.kind, request |-> r, status |-> status,
                events |-> events, rules |-> rules]
  /\ UNCHANGED <<log, columnFirst>>

Filters(tenant, columns, r, limit) ==
  [columns |-> [c \in Columns |->
                  IF c = "tenant_id" THEN tenant ELSE columns[c]],
   from |-> r.from, to |-> r.to, limit |-> limit]

TimesParse(r) == r.from # -1 /\ r.to # -1 /\ FromBeforeTo(r)

(* parseEventFilters: requireTenant has compared the query's tenant when a *)
(* header came with it, here it is compared with the context.              *)
EventFiltersParse(r, tenant) ==
  /\ TrimSpace(r.query) \in {0, tenant}
  /\ r.limit # -1 => r.limit \in 1 .. MaxLimit
  /\ TimesParse(r)

EventFilters(r, tenant) ==
  Filters([text |-> tenant, padded |-> FALSE],
          [r.columns EXCEPT !["policy_id"] = [text |-> 0, padded |-> FALSE]],
          r, IF r.limit = -1 THEN DefaultLimit ELSE r.limit)

(* listEvents *)
ListEvents(r) ==
  LET tenant == TenantOf(r)
      f == EventFilters(r, tenant)
  IN
  /\ r.kind = "list"
  /\ \/ Refusal(r) # 0 /\ Reply(r, Refusal(r), <<>>, <<>>)
     \/ /\ Refusal(r) = 0
        /\ ~ EventFiltersParse(r, tenant) \/ ~ QueryBuilds(f)
        /\ Reply(r, 400, <<>>, <<>>)
     \/ /\ Refusal(r) = 0
        /\ EventFiltersParse(r, tenant)
        /\ QueryBuilds(f)
        /\ \/ Reply(r, 400, <<>>, <<>>)
           \/ \E s \in Found(f, Limit(f)) : Reply(r, 200, s, <<>>)

RequestID(r) == TrimSpace(r.id)

(* GetByRequestID: the row, if there is one. *)
GetByRequestID(tenant, id) ==
  {s \in UNION {Received(row) :
                  row \in Ordered({e \in log : e.tenant_id = tenant
                                                /\ e.request_id = id}, 1)} :
     Decodes(s)}

(* getEvent: 500 when the id is blank or the query fails. *)
GetEvent(r) ==
  /\ r.kind = "detail"
  /\ \/ Refusal(r) # 0 /\ Reply(r, Refusal(r), <<>>, <<>>)
     \/ Refusal(r) = 0 /\ Reply(r, 500, <<>>, <<>>)
     \/ /\ Refusal(r) = 0
        /\ RequestID(r) # 0
        /\ \E s \in GetByRequestID(TenantOf(r), RequestID(r)) :
             Reply(r, IF s = <<>> THEN 404 ELSE 200, s, <<>>)

-----------------------------------------------------------------------------
(* The simulation summary. *)

RuleID(e) == IF e.matched_rule_id = 0 THEN Unknown ELSE e.matched_rule_id

(* Most frequent first, then by name. *)
MostFirst(a, b) ==
  \/ a.count > b.count
  \/ a.count = b.count /\ a.key < b.key

(* sort.Slice by MostFirst: one order, as no two items share a key. *)
Ranked(items) ==
  {s \in SetToSeqs(items) :
     \A i, j \in DOMAIN s : i < j => MostFirst(s[i], s[j])}

(* topPaths of the events at these places; the empty path does not count.  *)
(* The order in which the paths are shown is left out.                     *)
TopPaths(s, places) ==
  LET paths == {s[i].path : i \in places} \ {0}
      items == {[key |-> p, count |-> Cardinality({i \in places :
                                                    s[i].path = p})] :
                  p \in paths}
      above(x) == {y \in items : MostFirst(y, x)}
  IN  {x.key : x \in {y \in items : Cardinality(above(y)) < MaxPaths}}

(* The first request ids that are not empty. *)
Samples(s, places) ==
  LET named == {i \in places : s[i].request_id # 0}
      before(i) == {j \in named : j < i}
  IN  {s[i].request_id : i \in {k \in named :
                                   Cardinality(before(k)) < MaxSamples}}

WouldBlock(s) == {i \in DOMAIN s : s[i].would_block}

(* One rule of the summary *)
RuleSummary(s, rule) ==
  LET own == {i \in WouldBlock(s) : RuleID(s[i]) = rule} IN
  [key |-> rule, count |-> Cardinality(own),
   ips |-> Cardinality({s[i].client_ip : i \in own} \ {0}),
   paths |-> TopPaths(s, own), samples |-> Samples(s, own)]

(* BuildSimulationSummary: one entry for each rule that would have blocked *)
(* one of these events.                                                    *)
BuildSimulationSummary(s) ==
  Ranked({RuleSummary(s, RuleID(s[i])) : i \in WouldBlock(s)})

(* Mutant: the summary is made of a page of the default size. *)
SummaryOfPage(r, tenant) ==
  Filters([text |-> tenant, padded |-> FALSE],
          [c \in Columns |-> IF c = "policy_id" THEN r.id
                             ELSE [text |-> 0, padded |-> FALSE]],
          r, 0)

(* parseSimulationFilters: of the columns, tenant and policy; the limit    *)
(* counts events of any kind.                                              *)
SimulationFilters(r, tenant) ==
  Filters([text |-> tenant, padded |-> FALSE],
          [c \in Columns |-> IF c = "policy_id" THEN r.id
                             ELSE [text |-> 0, padded |-> FALSE]],
          r, MaxLimit)

(* getPolicySimulationSummary *)
GetPolicySimulationSummary(r) ==
  LET f == SimulationFilters(r, TenantOf(r)) IN
  /\ r.kind = "summary"
  /\ \/ Refusal(r) # 0 /\ Reply(r, Refusal(r), <<>>, <<>>)
     \/ Refusal(r) = 0 /\ Reply(r, 400, <<>>, <<>>)
     \/ /\ Refusal(r) = 0
        /\ TrimSpace(r.id) # 0
        /\ TimesParse(r)
        /\ \E s \in Found(f, Limit(f)) :
             \E rules \in BuildSimulationSummary(s) :
               Reply(r, 200, <<>>, rules)

-----------------------------------------------------------------------------
(* The table. *)

(* A gateway's event arrives, whenever it happened. *)
Insert(e) ==
  /\ e \notin log
  /\ log' = log \cup {e}
  /\ answer' = NoAnswer
  /\ UNCHANGED columnFirst

(* TTL: ClickHouse drops rows that are old enough. *)
Expire(e) ==
  /\ e \in log
  /\ \A other \in log : Millis(e.at) <= Millis(other.at)
  /\ log' = log \ {e}
  /\ answer' = NoAnswer
  /\ UNCHANGED columnFirst

(* Handlers share nothing but the log: one answer at a time is looked at. *)
Next ==
  \/ \E e \in Events : Insert(e) \/ Expire(e)
  \/ /\ answer = NoAnswer
     /\ \E r \in Requests :
          ListEvents(r) \/ GetEvent(r) \/ GetPolicySimulationSummary(r)

Spec == Init /\ [][Next]_vars

-----------------------------------------------------------------------------
(* Properties. *)

Succeeded(kind) == answer.kind = kind /\ answer.status = 200

(* What the client of the last request is entitled to see. *)
Asked == {e \in log :
            LET named == {TrimSpace(answer.request.header),
                          TrimSpace(answer.request.query)}
            IN  e.tenant_id \in named /\ named \subseteq {0, e.tenant_id}
                  /\ answer.request.token = "admin"}

(* No request, whatever it leaves blank, is told about an event of another *)
(* tenant than the one it names (server.go:763, events.go:171-178).        *)
OwnEventsOnly ==
  /\ \A e \in Range(answer.events) : e \in Asked
  /\ \A rule \in Range(answer.rules) :
       rule.samples \subseteq {e.request_id : e \in Asked}

(* The events a search asks for, by the times at which they happened. *)
Wanted == {e \in Asked :
             /\ \A c \in Columns \ {"tenant_id", "policy_id"} :
                  TrimSpace(answer.request.columns[c]) \in {0, e[c]}
             /\ answer.request.from # 0 => e.at >= answer.request.from
             /\ answer.request.to # 0 => e.at <= answer.request.to}

(* A search that leaves out an event it was asked for has shown a whole    *)
(* page of events that are no older, unless the answer of ClickHouse was   *)
(* cut at the end of a line (server.go:404, events.go:158, 301).           *)
NothingNewerLeftOut ==
  Succeeded("list") =>
    \A e \in Wanted \ Range(answer.events) :
      /\ \/ Len(answer.events) = answer.request.limit
         \/ Len(answer.events) = DefaultLimit /\ answer.request.limit = -1
         \/ CutAfter(answer.events)
      /\ \A i \in 1 .. Len(answer.events) :
           Millis(answer.events[i].at) >= Millis(e.at)

(* These events are read in whatever order they come. *)
Fits(events) == \A s \in SetToSeqs(events) : Whole(s)

(* ... and decoded, if they are asked for in one page. *)
Readable(events) ==
  /\ Cardinality(events) <= MaxLimit
  /\ \A x \in events : x.size <= MaxLine
  /\ Fits(events)

(* A search by tenant and time. *)
SearchOf(tenant, from, to, limit) ==
  [columns |-> [c \in Columns |->
                  [text |-> IF c = "tenant_id" THEN tenant ELSE 0,
                   padded |-> FALSE]],
   from |-> from, to |-> to, limit |-> limit]

(* It is answered, and whatever the answer is, the event is in it. *)
Shows(f, e) ==
  /\ QueryBuilds(f)
  /\ Found(f, Limit(f)) # {}
  /\ \A s \in Found(f, Limit(f)) : e \in Range(s)

(* There is no way to page but by time and limit, and still every event of *)
(* a tenant can be found: by a search for as many events as the tenant has *)
(* that are no older, and, where ClickHouse compares the column, by one    *)
(* for the millisecond in which it was recorded, from its first moment to  *)
(* one before the next; unless these events are more than MaxLimit or      *)
(* cannot be read (server.go:443, events.go:165, 182-191).  A request to a *)
(* host without a policy leaves an event without a tenant.                 *)
EveryEventCanBeFound ==
  \A e \in {x \in log : x.tenant_id # 0} :
    LET newer == {x \in log : x.tenant_id = e.tenant_id /\ Precedes(x, e)}
        beside == {x \in newer : Millis(x.at) = Millis(e.at)}
        start == 2 * Millis(e.at)
    IN  /\ Readable(newer) =>
             Shows(SearchOf(e.tenant_id, 0, 0, Cardinality(newer)), e)
        /\ columnFirst /\ Readable(beside) =>
             Shows(SearchOf(e.tenant_id, start, start + 1, MaxLimit), e)

(* The events of the policy and the range a summary is asked for. *)
Simulated == {e \in Asked : e.policy_id = TrimSpace(answer.request.id)
                              /\ InRange(e, answer.request)}

Blocked(rule) == {e \in Simulated : e.would_block /\ RuleID(e) = rule}

(* What the summary says of a rule, compared with the events it would have *)
(* blocked.                                                                *)
CountsWithin(rule, events) ==
  /\ rule.count <= Cardinality(events)
  /\ rule.ips <= Cardinality({e.client_ip : e \in events})

CountsExactly(rule, events) ==
  /\ rule.count = Cardinality(events)
  /\ rule.ips = Cardinality({e.client_ip : e \in events} \ {0})

NewestSampled(rule, events) ==
  LET sampled == {e \in events : e.request_id \in rule.samples}
  IN  \A e \in sampled, x \in events \ sampled :
        Millis(x.at) <= Millis(e.at)

FrequentPathsListed(rule, events) ==
  LET hits(p) == Cardinality({e \in events : e.path = p})
  IN  \A p \in rule.paths, q \in {e.path : e \in events} \ rule.paths :
        q # 0 => hits(q) <= hits(p)

(* A summary counts, for every rule, the events it would have blocked and  *)
(* the clients concerned: exactly when the policy has at most MaxLimit     *)
(* events in the range, of any kind, and never more than there are         *)
(* (server.go:325, events.go:204-240).                                     *)
SummaryCounts ==
  Succeeded("summary") =>
    /\ \A rule \in Range(answer.rules) :
         CountsWithin(rule, Blocked(rule.key))
    /\ Cardinality(Simulated) <= MaxLimit /\ Fits(Simulated) =>
         /\ {rule.key : rule \in Range(answer.rules)}
              = {RuleID(e) : e \in {x \in Simulated : x.would_block}}
         /\ \A rule \in Range(answer.rules) :
              CountsExactly(rule, Blocked(rule.key))

(* A rule stands in a summary once, no rule with more events comes after   *)
(* it, its samples are the newest of its events, and a path that is listed *)
(* is at least as frequent as one that is not (events.go:241-280).         *)
SummaryRanked ==
  Succeeded("summary") =>
    \A i \in 1 .. Len(answer.rules) :
      LET rule == answer.rules[i]
          events == Blocked(rule.key)
      IN
      /\ \A j \in i + 1 .. Len(answer.rules) :
           /\ answer.rules[j].count <= rule.count
           /\ answer.rules[j].key # rule.key
      /\ NewestSampled(rule, events)
      /\ rule.count = Cardinality(events) =>
           FrequentPathsListed(rule, events)

(* A summary counts and ranks what the policy would have blocked.          *)
SummaryIsTrue == SummaryCounts /\ SummaryRanked

-----------------------------------------------------------------------------
(* The inductive invariant. *)

(* An id is drawn for every request, no event is of the zero time, and no  *)
(* line is only a newline.                                                 *)
EventForms ==
  [request_id : Nat \ {0}, at : Nat \ {0, 1}, tenant_id : Nat, app_id : Nat,
   policy_id : Nat, client_ip : Nat, matched_rule_id : Nat, path : Nat,
   would_block : BOOLEAN, size : Nat \ {0, 1}]

RequestForms ==
  [kind : {"list", "detail", "summary"}, token : Tokens, header : Raw(Nat),
   query : Raw(Nat), id : Raw(Nat), from : Int, to : Int, limit : Int,
   columns : [Columns -> Raw(Nat)]]

(* What events and requests look like. *)
ASSUME EventQueriesForms ==
  Events \subseteq EventForms /\ Requests \subseteq RequestForms

(* A table holds finitely many rows: a page that is not full is all there  *)
(* is.                                                                     *)
EventQueriesInv ==
  /\ log \subseteq Events /\ IsFiniteSet(log)
  /\ OwnEventsOnly
  /\ NothingNewerLeftOut
  /\ SummaryIsTrue

=============================================================================
