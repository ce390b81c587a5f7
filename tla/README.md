# BedemWAF in TLA+

A verification project for BedemWAF, a web application firewall: a gateway that
proxies HTTP traffic under policies, a control API that stores and publishes
those policies, a worker that registers managed rule sets, and a dashboard.
The modules model the code of `services/`; TLC checks them on small instances,
TLAPS proves their main properties for every value of the constants.
`PROJECT.json` holds the machine-readable part: which definition models which
lines, which run checks which property, how each property can be made to fail,
and where the code is hard to test.

## The system

| Component | State | Operations | Interacts with |
|---|---|---|---|
| policy provider (`gateway/internal/policyclient`) | cache of policies by host with expiry, a mutex per host, three counters | `Lookup`, `FetchPolicy` | called by every request goroutine; calls the control API over HTTP (3 s timeout) |
| request pipeline (`gateway/internal/proxy`, `decision`, `policy`) | local to one request | `ServeHTTP`: host, policy, body, IP lists, rate limits, body limit, custom rules, WAF, mode, proxy; deferred audit and recovery | provider, limiter, WAF engine, dispatcher, reverse proxy |
| rate limiter (`gateway/internal/ratelimit`) | a counter with expiry per key and window, in Redis | `Check`, one Lua script | shared by all gateways |
| audit dispatcher (`gateway/internal/audit`) | bounded channel, one worker, sinks, four counters | `Log`, `run`, `write`, `Shutdown` | request goroutines send, the worker receives, `main` closes |
| gateway process (`gateway/cmd/gateway`) | signal, ten-second deadline | drain the server, flush the audit queue, exit | `http.Server`, dispatcher |
| WAF engine (`gateway/internal/waf/coraza`) | compiled rules | `InspectRequest` | Coraza (library) |
| policy rules (`gateway/internal/policy`, `config`) | parsed policies, the map of hosts of a file | parse, sort, match, evaluate | provider, pipeline; the control API validates the same rules with code of its own |
| control API repository (`control-api/internal/db`) | PostgreSQL tables | create and update apps, create, update and publish policies, query by hostname | concurrent HTTP handlers; gateways poll it |
| control API handlers (`control-api/internal/httpapi`, `auth`) | none | authentication, tenant scope, validation, statuses | repository, event store |
| event queries (`control-api/internal/events`) | none; the table `waf_events` in ClickHouse | search, detail, simulation summary | gateways insert, rows expire |
| managed rules worker (`worker`) | PostgreSQL tables `managed_rule_sets`, `managed_rule_versions` | scan the directories and record what they hold, once at start | files others edit, other workers |
| redaction, metrics, dashboard | none of their own | string processing, rendering | - |

What is hard in this code, and what would make it correct:

* **Concurrent lookups.** Many requests miss at once; the answer of a fetch is
  stored long after it was given; a fetch may fail while a policy is being
  replaced or disabled. Correct: one fetch per host at a time, no request sees
  an older policy than an earlier request did, nothing is called current for
  longer than the TTL, every lookup returns.
* **Audit under load and shutdown.** Handlers send to a channel that `main`
  closes; the queue fills up; sinks fail or hang, one of them on the stream
  `main` logs to; drain and flush share one deadline. Correct: no send on the
  closed channel, `main` gets to its last line, a clean stop has lost nothing,
  the counters tell the truth.
* **Rate limits across gateways.** The window is fixed before a dial without a
  timeout, replies are lost, commands run after their check has given up,
  clocks differ. Correct: the limit is kept, nobody pays for another's traffic.
* **The order of the pipeline.** Six stages may object, three may only count,
  some branches answer on their own, the handler may panic. Correct: the first
  objection, in the order of the code, decides, what is denied is not forwarded, count mode denies
  nothing, every request leaves one event.
* **Concurrent administration.** Edits and publications of one policy race;
  timestamps are transaction start times; answers to COMMIT get lost. Correct:
  no lost update, versions without gaps, pointers that agree, publications that
  take effect in order.
* **Two validators.** The control API checks a draft when it is stored and when
  it is published, the gateway checks the version again when it parses it, and
  conditions are trees that four functions walk. Correct: what is published is
  valid and loads, and its custom rules, limits and mode mean at the gateway what
  the draft says.
* **Tenants.** Every statement names the tenant by hand, blank filters are
  dropped from queries, clients repeat requests. Correct: nothing another
  tenant has changes an answer, a request sent twice in a row takes effect once.
* **Partial work.** The worker reads files others change, records sets one by
  one and may be killed. Responses of ClickHouse are cut, pages end between
  events of one millisecond. Correct: no half-recorded set, no event that
  cannot be found, no count that is too high.

The list with one entry per line of code is `hazards` in `PROJECT.json`.

## Modules

Modules that end in `Proofs` hold theorems, modules that begin with `MC`
instantiate a specification for TLC. A definition whose comment begins with
"Mutant:" is a plausible bug that takes another definition's place to show
that a property can fail; no specification uses it.

### PolicyProvider (client.go)

One action per step of `Lookup` between two points where another goroutine may
run: `Begin` (normalise, read the clock), `CheckCache`, `LockHost`, `Recheck`,
`ControlAnswers` (the control API reads its database), `FetchSucceeds`,
`FetchFails` (any error, the timeout, or a body `toApp` rejects), `Return` (the
deferred unlock). `Tick`, `Publish` and `SetEnabled` are the environment: a
wall clock, a new version of the host's policy, a policy that is disabled (the
API answers 404, an error for the client) or enabled again. `until` and
`before` are history: when a version was last active, and which lookups had
returned when another began.

A host has one policy whose versions are numbered as they are published;
`ControlPlane` shows that this is how they are numbered. Switching a host
between two policies of one app is not modelled here.

### AuditTrail and AuditDispatcher (audit.go, main.go)

`AuditTrail` is the abstract promise: an event is accepted once or refused when
the queue is full, and accepted events are settled in order, each once.
`AuditDispatcher` is the code: `LogCount` and `LogSend` (the two halves of
`Log`), the worker's `Receive`, `WriteSink` per sink, `FinishWrite`,
`WorkerExit`, and `main`'s `Signal`, `DrainPoll`, `DrainAgain`, `DrainTimeout`,
`CloseQueue`, `FlushDone`, `FlushTimeout`. A handler whose event is dropped logs
a line (`Warn`) and so does `main` before it ends (`Report`); these lines go to
standard output, the stream of the first sink, and are steps of their own that
nothing obliges to happen. `ImplementsTrail` states the
refinement; the pending events of the trail are the event in the worker's hand
followed by the queue. `http.Server.Shutdown` is external: it returns nil only
when no handler runs and none can start any more.

### RateLimiter (ratelimit.go)

A check reads its gateway's clock (`Start`: key and window are fixed), dials
(`Send`, up to `MaxDial` seconds later: the dial has no timeout but the
kernel's), Redis runs the script (`Execute`: increment, and expiry on the first
count), and the check takes the reply before its deadline (`Reply`) or gives up
(`Fail`, open or closed). A sent command may run after its check has failed.
Time is in seconds of the slowest clock, the fastest being `Skew` ahead. Redis
does not lose its data.

### Gateway (gateway.go, store.go, decision.go, engine.go)

One request: one action per stage of `ServeHTTP`, and `Log` and `Recover` for
the deferred calls in the order Go runs them. Requests share only the
components above, so their answers are inputs: any lookup result, any set of
exceeded limits and matching rules, any report of Coraza. Statuses are numbers,
because one below 100 makes `WriteHeader` panic and one of 100 to 199 is followed
by a 200. The stages come in the order of the code: a custom rule that blocks
keeps the WAF from being asked.

### ControlPlane (db.go, server.go)

Calls of the repository as READ COMMITTED transactions. `UpdatePolicy` is
`ReadPolicy` (the client's GET), `BeginUpdate`, `CheckUpdate` or `RefuseUpdate`
under the row lock, `CommitUpdate`; `PublishPolicy` is `BeginPublish` (with the
handler's read for validation), `LockPublish`, `Compile`, `CommitPublish`;
`UpdateApp` is `ReadApp` and `WriteApp`. `Fail` rolls back at any point, and a
commit may succeed while its answer is lost. The content of a draft is the call
that wrote it. `now()` is the start of the transaction, and no two transactions
start in one microsecond. `GatewayPolicies(h)` is the answer to a gateway.

`PolicySource` is the abstract promise to gateways: for each policy a version
that goes up by one with each publication, and whether it is enabled.
`ImplementsSource` maps the tables to it; the environment of `PolicyProvider`
is an instance of it with one policy for each host. A gateway's answer also
changes when an app is disabled or its hostnames are edited; the mapping, which is
of policies, has these as stutters. `GatewayGetsLastPublished` of `ControlAPI`
takes them into account.

### PolicyRules (store.go, server.go, validation.go, db.go, client.go, config.go)

The way of a draft: `CreatePolicy` and `PatchPolicy` with the control API's
validation, `BeginPublish` and `Publish` (between which a patch may come),
`Fetch` with decoding, `toApp`, the gateway's parser and its stable sort; or
`Start` from a file, with defaults, the checks of ids, origins, hosts and modes,
and the map of hosts. Both validators,
`ParseCondition`, `Match`, `EvaluateCustomRules` and the order of limits are
operators that follow the code; `Meaning` and `Promised` say independently what
a draft means. Conditions are trees of one operator per kind: one on the
request's attributes (`path`), one with a name and a value (`header`), and
membership in an IP set. They nest to any depth; `Depth` says how deep one is,
since a JSON document is finite. `RulesInv` is the inductive invariant.

### ManagedRules (rules.go, postgres.go, worker main.go)

A run of a worker: `Begin`, `Connect`, `ReadMetadata` and `ChecksumDirectory`
for each directory, `Scanned`, then `UpsertSet` and `Commit` for each set under
the row lock PostgreSQL takes, `RecordedAll`. `Expire` is the deadline, `Fail`
an error of a statement, `ScanFails` one of the file system, `Exit` the end of
the process at any time. `EditDirectory` changes one file at any time.
`overtaken` is history: the workers since whose start a run that had begun
before the last change of the directories committed a set.
`CompletedRunMatchesDisk` needs it. Without it the property is false with three runs, which the attempt to
prove it showed: a slow worker may write what it read before the change over
what a later run has recorded.

### ApiRequest, ControlAPI (server.go, auth.go, validation.go, db.go)

`ApiRequest` is what happens before a handler: token, tenant in header or query.
`ControlAPI` has every other route of `Server.Routes` that reaches a table: a
handler is an operator from tables and request to tables and answer, so that
properties can compare what one request gets in two states, or twice. Statuses
are the code's: 400, 401, 404, 409, and 500 for a violated constraint or an id
that is no UUID.

### EventQueries (events.go, server.go, audit.go)

`ListEvents`, `GetEvent` and `GetPolicySimulationSummary` over the rows
gateways insert (`Insert`, in any order) and ClickHouse drops (`Expire`). The
query's filters, bounds truncated to milliseconds, arbitrary order among equal
times, the response cut at its limit, lines too long for the scanner, and the
summary's aggregation are operators. The rules of a summary are in the code's
order (most frequent first, then by name); of a rule's sample ids and top paths
the model keeps which ones they are, not the order they are shown in.

`selectFields` selects a text under the name `timestamp`, and ClickHouse puts
what is selected under a name in the place of that name in WHERE, unless it runs
with `prefer_column_name_to_alias`. `columnFirst` is that setting, either way.
Without it a text is compared with a time and the query fails (`BoundsCompare`):
every search and summary with `from` or `to` is answered 400. ORDER BY is the
same with both, for the texts sort like the times they are made of.

## What TLC checks

Bounds are in the `.cfg` files; every property has a mutant that breaks it. The
runs `provider`, `audit` and `rate_limit` also check `TypeOK`.

| Run | Bounds | What it shows |
|---|---|---|
| `provider` | 2 lookups, 1 host, 2 versions of which the gateway cannot parse the second, TTL 2, clock to 3 | `OneFetchPerHost`, `CurrentWithinTTL`, `MonotonicReads`, `CacheNeverRegresses`, `FillsSpacedByTTL`, `LookupsReturn` |
| `audit` | 3 requests, queue of 2, 2 sinks | `NoSendOnClosedQueue`, `CleanStopLosesNothing`, `CountersAgree` (`SentMeansWritten`, `CountersBalance`), `ImplementsTrail`; `ShutdownEnds`: `main` comes to its last log line although sinks, handlers and standard output may hang, and the process ends if that line is taken; `AcceptedIsSettled` if sinks return |
| `rate_limit` | 3 checks, 1 key, windows of 3 s, skew 1 s, dials of 1 s, clock from 2 to 8 | `LimitHolds` where all clocks agree on the window, `RefusalIsEarned`, `TwiceTheLimit` overall |
| `gateway_pipeline` | every policy with up to 2 custom rules and 1 limit, or 2 limits and 1 rule | `FirstObjectionDecides` in the order of the code, `DeniedIsNotForwarded`, `CountModeForwards`, `OneEventPerRequest` |
| `control_plane` | 3 calls on 2 policies of one app | `TablesAgree` (types, `PointersAgree`, `PublicationsDoNotCollide`), `NoLostUpdate`, `LaterPublicationWins`, `PublishesCurrentDraft`, `ImplementsSource` |
| `policy_rules` | families of drafts that vary one aspect each, conditions to depth 3, 2 edits; files of up to 2 apps | `PublishedLoads`, `AppliesAsDrafted` (`RulesApplyAsDrafted`, `LimitsApplyAsDrafted`, `ModeApplies`), `StaticHostsRoute` |
| `managed_rules` | 2 workers, 2 directories that may share a name, 1 edit, 2 runs | `NoSetWithoutVersion`, `CompletedRunMatchesDisk` for runs that are not overtaken, `RunsEnd` |
| `event_queries` | 9 events in 3 ms, of 2 tenants or of none, pages of 2 to 4, every set of them in the table, ClickHouse with and without `prefer_column_name_to_alias` | `OwnEventsOnly`, `NothingNewerLeftOut`, `EveryEventCanBeFound` (by the limit, or by time where bounds work), `SummaryIsTrue` (`SummaryCounts`, `SummaryRanked`) |
| `control_api` | 2 tenants with an app and a policy each, 3 writes, each followed by every request | `OtherTenantsDoNotMatter`, `RetryHasNoSecondEffect` for a retry at once, `GatewayGetsLastPublished` |

Why these bounds: two lookups are a fetching one and one that waits, or one
that returned before the other began; the proofs cover any number. A clock to 3
with a TTL of 2 lets an entry expire once. Three requests fill a queue of two
and leave one in the worker or dropped. Three checks with a limit of one are one
more than two lifetimes of a key admit, and second 8 is the first in which a
third lifetime could begin; the proofs cover any number of keys. Two rules of a kind are enough for "the
first one decides", because a stage stops there. Three calls are an update or
publication, one it races with, and one more to come in between (P, Q, then P
again). A validator looks at one rule, or at two for duplicate ids, so drafts
differ from a valid one in one rule or have a pair. Two runs of the worker
overlap, or one is killed and followed by another; one edit tears a scan or
comes between two. Pages of two to four cut nine events at every place. Three
writes create an app, a policy of it and publish it, or make a change stale. The
runs of limiter and control plane use symmetry of checks or calls, which
no property of theirs tells apart; runs with liveness use none.

Fairness. Lookups: goroutines are scheduled, `FetchPolicy` has a three-second
timeout, and `sync.Mutex` hands the lock over first-in first-out to a goroutine
that has waited a millisecond, hence strong fairness of `LockHost`. Audit: a
handler that logs is scheduled, `main` is scheduled, the deadline passes, and
the `select` in `http.Server.Shutdown` does not ignore an expired context for
ever. Nothing is assumed of whoever reads standard output: the log lines of
handlers and of `main` are steps without fairness, so that `ShutdownEnds` has two
parts, that a stop always reaches its last log line, and that the process ends
if that line is taken. Worker: files are read, the
deadline passes, and a statement whose context has expired returns; the database
need not answer. Nothing is assumed of clients, origins, operators, the control API or
sinks; `AcceptedIsSettled` names what it assumes of sinks (ClickHouse has a
client timeout, standard output blocks when its reader does).

Three runs show where the code and the repository's documents disagree; the
quotations are in `findings`:

| Run | What happens |
|---|---|
| `gateway_fail_open` | a lookup that fails open ends in an empty 200; the request is not forwarded |
| `gateway_limit_shadowed` | a rate limit of action count that is exceeded hides a later one of action block |
| `control_origin_patch` | a request that changes an app's origin always violates `UNIQUE (app_id, name)` and is rolled back |

Further disagreements that the models take as the code has them, without a run
of their own:

* custom rules are evaluated before the WAF inspects, and a rule that blocks
  keeps it from being asked; docs/request-flow.md:18-19 and 33-35,
  docs/data-plane.md:28-29, docs/architecture.md:225 and
  docs/policy-model.md:277-287 have the WAF first. Of a request both object to,
  status and reason are the rule's; `FirstObjectionDecides` is stated in the
  order of the code;
* a draft's `ip_blocklist` and `rules` are validated and then left out of the
  version that is compiled for gateways: what a draft blocks there is not
  blocked, and docs/openapi.yaml:1120 documents `rules`. `AppliesAsDrafted` is
  about a draft's custom rules, limits and mode, which do arrive;
* a search or summary with a `from` or a `to` is answered 400 by a ClickHouse
  with default settings, though docs/events.md:94-97 offers them (see
  `columnFirst` above);
* a search whose `from` equals its `to` is accepted (docs/events.md:97, and the
  code's own message: "`from` must be before `to`");
* the process does not end while the reader of standard output hangs: `main`
  logs to it before each of its ends. `ShutdownEnds` says that it comes as far
  as its last line;
* the status of an event is the one the handler wrote, where
  docs/event-schema.md:58 says "Response status returned to the client". They
  differ for rules whose status is below 100 or informational;
* an inspection error is answered 400 in count mode too (docs/data-plane.md:119:
  "Treat inspection errors as count-mode events");
* nothing keeps two apps from naming one host (docs/policy-model.md:81:
  "Hostnames must be unique across active apps"); the policy published last
  among them is served (`GatewayGetsLastPublished`);
* a hostname stored with a port or spaces passes validation and is never found
  by a gateway;
* recording a managed version again replaces its checksum
  (docs/database-schema.md:108: "Immutable version of a managed rule set");
* a published version may be one the gateway refuses (docs/policy-model.md:292:
  "Publishing validates the draft"): duplicate ids, a status out of range, a
  blank set name, a field of the wrong type; `PublishedLoads` says that there
  are no others;
* the simulation summary counts among the newest 1000 events of the policy, the
  allowed ones included (docs/safe-rollout.md:76 names no limit);
* a request is safe to send again only at once: a policy that is created,
  renamed and created again exists twice, a repeated patch moves the app's
  `updated_at`, and a publication is made twice (`RetryHasNoSecondEffect`);
* the policies of another tenant's app are an empty list with 200, where
  docs/tenant-model.md:42 speaks of 404.

## What is proved

All proofs are checked by TLAPS to the last leaf, for any number of requests,
hosts, checks, keys, transactions, workers, directories, tenants, rows,
events, rules and edits, conditions of any depth, and any TTL, queue size,
limit, window, skew, delay and page. Every invariant and action property of a
passing run is stated by a theorem; only liveness is not. Each theorem
`Spec => []Inv` goes through an inductive invariant that implies `Inv`; every
inductive invariant was an invariant of a TLC run before it was proved.

The assumptions are the ones stated with the constants, and TLC evaluates them
on every run: positive TTL, limit and window; sentinels that are not members of
the sets they stand outside of; and, for the modules whose inputs are sets of
records, the fields those records have (`ControlAPIForms`, `EventQueriesForms`,
`GatewayAssumption`, `ManagedRulesAssumption`, `PolicyRulesAssumption`). These say what JSON decoding, the
validators or the parser yield: ids and times are numbers, a status is one of
the words that are let through, rules are sequences. `ControlAPIForms` also says
that the tables to begin with satisfy their keys. `PolicyRulesAssumption` says
that a condition is deeper than its parts, and restricts neither what a draft or
a file says nor how many rules it has: most of them are invalid.

* **PolicyProviderProofs**: `ProviderCorrect`, and from it `TypeCorrect`,
  `FetchesExcluded`, `LookupsReadMonotonically`, `CurrentPoliciesAreRecent`,
  and the action properties `CacheIsMonotonic` and `FillsAreSpaced`. None of
  these is inductive. `LockInv` says who holds the mutex: without it an answer
  in flight could be stored over a newer one. `VersionInv` orders the versions
  in results, in the cache, in answers and at the control API; `ReadInv` carries
  monotonicity from the moment the result is known; `ExpiryInv` says that a
  lookup only fetches when the entry is stale at the time it read, which spaces
  the fills; `FreshInv` bounds how long ago each policy was active.
* **AuditDispatcherProofs**: `DispatcherCorrect`, and from it `TypeCorrect`,
  `QueueClosedAfterLastSend`, `CleanStop`, and `TrailImplemented`, the
  refinement: the initial state maps to an initial state, and each action to
  `Accept`, `Refuse`, `Settle` or a stutter. `StopInv` is the stop sequence (the
  queue is closed only when no handler is active), `PlaceInv` says that exactly
  the requests whose `Log` has sent or dropped their event have one somewhere,
  which is what makes an accepted event new to the trail. `CountersAlwaysAgree` needs
  `AccountInv` on top of it: `OnceInv` (an event is in one place, once),
  `SinkInv` (`sent` tells whether some sink has written the event in the
  worker's hand) and `BalanceInv`, the equation between
  the counters and the sizes of the queue and of the sets of events.
* **RateLimiterProofs**: `LimiterCorrect`, and from it `TypeCorrect`,
  `LimitIsKept` and `RefusalsAreEarned`. `ExpiryInv` says that a key does not
  expire before the first gateway leaves its window, so that within the window
  `NumberInv` can say that Redis gives every check a number of its own; at most
  `Limit` numbers are small enough to be admitted. `CountInv` bounds a count by
  the number of executed commands, which earns a refusal. For
  `TwiceTheLimitAtMost`, `DelayInv` bounds how late a command can run and
  `LifetimeInv` says that two commands with one number are of different
  lifetimes of the key, a lifetime apart: a third one would come too late. At
  most two checks then share each of the `Limit` admitted numbers.
* **GatewayProofs**: `GatewayCorrect`, and from it `ObjectionsDecideInOrder`,
  `DenialsHold`, `CountModeOnlyCounts` and `EveryRequestIsLogged`, for any
  number of rules, limits and lists of an app. `StageInv` says what has been
  ruled out by the time a stage is reached, `DecidingInv` and `VerdictInv` that
  the decision is the one of the first stage that objects, `ForwardInv` when a
  request may have reached the origin, `LogInv` that the deferred calls run once
  each, after a panic too.

  The second half is about the rules such a request meets. `RulesStayChecked`
  proves `RulesInv`: the row of a policy holds a validated draft in a validated
  mode, whatever edits came in between, because the version is compiled from the
  row as it is by then and not from the draft that was validated for the
  publication; and what a gateway serves is what it parsed from that version or
  file. From it follow `GatewayLoadsWhatIsPublished` (a version is refused only
  for one of the four named reasons), `RulesMeanWhatTheySay` (custom rules,
  limits and mode apply as the draft says, in order of priority, ties as written) and
  `EveryFileHostRoutes`. The argument has three parts. `Match`, `Meaning` and
  both validators recurse over conditions; each is shown to satisfy its equation
  (the functions on conditions up to a depth agree with each other, level by
  level), and statements about all conditions are proved from a counterexample of
  least depth. A condition the parser accepts has exactly one operator, so
  that `Match`, which asks the operators in turn, says the same as `Meaning`. The
  stable sort is a bijection that puts rules in the order `Precedes`, so that the
  first hit in sorted order is the hit no other precedes. `WalkIsFirst` joins the
  halves: the loop of `EvaluateCustomRules` comes to the rule that
  `CustomRulesStage` of the pipeline takes.
* **ControlPlaneProofs**: `ControlPlaneCorrect`, and from it
  `TablesAlwaysAgree`, `UpdatesAreNotLost`, `LaterWins`, `PublicationIsCurrent`,
  and `ControlPlaneIsASource`, the refinement of `PolicySource`. `LockInv` says
  who holds a row lock and `ReadInv` that what its holder has read is still in
  the row, which is what READ COMMITTED alone does not give; `RowsInv` relates
  versions, pointers and deployments, `StampInv` keeps the stamps distinct and in
  the past, `BasisInv` says that an unchanged stamp means an unchanged draft, and
  `DeployInv` that a deployment bears the stamp of the publication that made it,
  which is over.
* **ManagedRulesProofs**: `ManagedRulesCorrect`, and from it `SetsHaveVersions`
  and `CompletedRunsAreRecorded`. `Progress` says what a run in each phase has
  read and written, `FoundOnDisk` that a scan without a change since it began
  has found what is there, `StillRecorded` that what such a run has recorded
  stays recorded unless a run from before the change overtakes it.
* **ControlAPIProofs**: `ControlAPICorrect`, and from it `TenantsAreIsolated`,
  `RetriesAreHarmless` and `LastPublishedIsServed`. The handlers are functions
  of the tables, so these compare two answers, or the answer before and after,
  for any tables that satisfy the invariant; a retry is one that follows at
  once, and times of writing are not compared. `KeysHold` is what the schema's
  keys give: an id names one row and a policy is of its app's tenant, so that a
  name that is free among a tenant's policies is free. `StampsHold` says that
  stamps are of the past and deployment times distinct: a patch that is repeated
  is stale, and the newest deployment is one.
* **EventQueriesProofs**: `EventQueriesCorrect`, and from it
  `EventsStayWithTheirTenant` and `SearchesShowTheNewest`. The invariant adds
  that the table holds finitely many of the gateways' events; a page that is not
  full then holds every matching row, because a list of as many rows as there
  are, without repetition, leaves none out. `EveryEventIsWithinReach` (an event
  with a tenant is in the answer to a search without bounds for as many events
  as the tenant has that are no older and, where ClickHouse compares the column,
  in the answer to a search for its millisecond, unless these events are more than
  a page or more than can be read) and `SummariesAreTrue` (counts are
  those of the rows read, none too high, most frequent rule first) rest on lemmas
  about lists: the total size of a list of lines does not depend on its order and
  is smaller for a shorter list, and every finite set of rows has an order the
  database may answer with.

Induction over numbers, lists and conditions is done by hand: the prover cannot
instantiate the library's induction theorems, so each such lemma assumes a
counterexample, takes one of least size and contradicts it.

Checked by TLC only: `LookupsReturn`, `ShutdownEnds`, `AcceptedIsSettled` and
`RunsEnd`, liveness under fairness, which is outside the prover's reach; and the
three runs that end in a violation.

## What is not modelled

* Of start-up, the server's, Redis', ClickHouse's and the WAF's settings: single
  defaults and range checks. What they admit are the assumptions on the
  constants. The wiring in `main` and the HTTP server's timeouts.
* Character-level checks: host syntax (`ValidHost`, `validateDNSName`), URLs,
  slugs, trusted proxies and `X-Forwarded-For`. Requests carry the verdict.
* Coraza, net/http, the reverse proxy, Redis, PostgreSQL and ClickHouse beyond
  the contracts stated above; a Redis that restarts and loses its counters.
* A wall clock that is set back. `time.Now().UTC()` drops the monotonic reading,
  so cache entries would live longer by that amount.
* Files of a rule directory that change while they are hashed: a directory's
  files are read in one step, after its metadata.
* Health, readiness and metrics routes, CORS, security headers, request logging,
  redaction, the dashboard: no state of their own.
* Tables of the schema that no code writes, and the repository's `ListEvents`
  and `GetEvent`, which no route calls.

## Plan

**PolicyPropagation**: ControlPlane and PolicyProvider composed, several
policies per host; what a gateway uses after a publication, and when. The two
refinement theorems are the halves of it.
