--------------------------- MODULE PolicyProvider ---------------------------
(***************************************************************************)
(* The gateway's remote policy provider                                    *)
(* (services/gateway/internal/policyclient/client.go): an in-memory policy *)
(* cache with a TTL in front of the control API, filled under one mutex    *)
(* per hostname.  Every request of the gateway runs Lookup in a goroutine  *)
(* of its own, so lookups of one host interleave at the two cache checks,  *)
(* at the host lock and around the HTTP fetch.                             *)
(*                                                                         *)
(* A compiled policy is abstracted to its version number; 0 stands for "no *)
(* policy".  What the control API would answer for a host is the pair      *)
(* published[h], enabled[h]; operators publish, disable and re-enable      *)
(* policies at any time.                                                   *)
(***************************************************************************)
EXTENDS Integers

CONSTANTS Requests,      \* lookups, one goroutine each
          Names,         \* spellings of the Host header that clients send
          Hosts,         \* normalised hostnames
          NoHost,        \* the empty hostname
          NormalizeHost, \* what policy.NormalizeHost makes of each name
          NoRequest,     \* nobody holds a host lock
          TTL,           \* control_api.cache_ttl_seconds
          FailBehavior,  \* control_api.fail_behavior
          MaxVersion,    \* bound: policies published for a host
          Rejected,      \* published versions that toApp refuses to parse
          MaxClock       \* bound: ticks of the wall clock

Versions == 1 .. MaxVersion

ASSUME ConstantsAssumption ==
  /\ NoRequest \notin Requests
  /\ NoHost \notin Hosts
  /\ NormalizeHost \in [Names -> Hosts \cup {NoHost}]
  /\ TTL \in Nat \ {0}
  /\ FailBehavior \in {"fail_open", "fail_closed", "use_stale_then_fail_open"}
  /\ MaxVersion \in Nat
  /\ MaxClock \in Nat
  /\ Rejected \subseteq Versions

VARIABLES
  clock,      \* the wall clock p.now() reads
  published,  \* [Hosts -> Nat]: newest version the control API holds
  enabled,    \* [Hosts -> BOOLEAN]: the host's policy may be selected
  until,      \* history: when a version was last withdrawn or superseded
  cache,      \* Provider.cache; version 0 is an absent entry
  lock,       \* Provider.locks: the holder of each host's mutex
  pc,         \* where each lookup is in Lookup
  host,       \* Lookup's normalised host
  now,        \* Lookup's local variable now
  reply,      \* what the control API answered this lookup's fetch
  result,     \* policy.LookupResult, by the branch it was built in
  before,     \* history: the lookups that had returned when this one began
  metrics     \* Metrics: the three counters

controlVars == <<published, enabled, until>>
lookupVars  == <<pc, host, now, reply, result, before>>
vars == <<clock, controlVars, cache, lock, lookupVars, metrics>>

(* The places at which a lookup holds its host's mutex. *)
Critical == {"recheck", "fetch", "answered", "unlock"}
Places   == {"idle", "check", "lock", "done"} \cup Critical

NoEntry  == [version |-> 0, expiresAt |-> 0]
NoResult == [kind |-> "none", version |-> 0]

(* Kinds of LookupResult.  The first three carry an App (Found). *)
FoundKinds == {"cached", "fetched", "stale"}
Kinds == FoundKinds \cup {"none", "empty_host", "fail_open", "unavailable"}

(* policy_cache_hit_total, policy_cache_miss_total, policy_fetch_error_total *)
Counters == {"hit", "miss", "error"}

Init ==
  /\ clock = 0
  /\ published = [h \in Hosts |-> 0]
  /\ enabled = [h \in Hosts |-> TRUE]
  /\ until = [h \in Hosts |-> [v \in Versions |-> -1]]
  /\ cache = [h \in Hosts |-> NoEntry]
  /\ lock = [h \in Hosts |-> NoRequest]
  /\ pc = [r \in Requests |-> "idle"]
  /\ host = [r \in Requests |-> NoHost]
  /\ now = [r \in Requests |-> 0]
  /\ reply = [r \in Requests |-> 0]
  /\ result = [r \in Requests |-> NoResult]
  /\ before = [r \in Requests |-> {}]
  /\ metrics = [m \in Counters |-> 0]

-----------------------------------------------------------------------------
(* The environment: wall clock and control API. *)

Tick ==
  /\ clock < MaxClock
  /\ clock' = clock + 1
  /\ UNCHANGED <<controlVars, cache, lock, lookupVars, metrics>>

(* The version GET /v1/gateway/apps/{hostname}/policy answers with; 0 is   *)
(* its 404: nothing published, or the policy is disabled.                  *)
Active(h) == IF enabled[h] THEN published[h] ELSE 0

(* The current active version, if any, stops being active. *)
Withdrawn(h) ==
  IF Active(h) = 0 THEN until ELSE [until EXCEPT ![h][Active(h)] = clock]

Publish(h) ==
  /\ published[h] < MaxVersion
  /\ until' = Withdrawn(h)
  /\ published' = [published EXCEPT ![h] = @ + 1]
  /\ UNCHANGED <<clock, enabled, cache, lock, lookupVars, metrics>>

SetEnabled(h) ==
  /\ until' = Withdrawn(h)
  /\ enabled' = [enabled EXCEPT ![h] = ~ @]
  /\ UNCHANGED <<clock, published, cache, lock, lookupVars, metrics>>

-----------------------------------------------------------------------------
(* Lookup. *)

(* cached(host), and the test that its entry has not expired. *)
Fresh(h, t) == cache[h].version # 0 /\ t < cache[h].expiresAt

Count(m) == metrics' = [metrics EXCEPT ![m] = @ + 1]

(* Mutant: the host is used as the client spelled it. *)
BeginUnnormalized(r, name) ==
  /\ pc[r] = "idle"
  /\ host' = [host EXCEPT ![r] = name]
  /\ pc' = [pc EXCEPT ![r] = "check"]
  /\ now' = [now EXCEPT ![r] = clock]
  /\ before' = [before EXCEPT ![r] = {q \in Requests : pc[q] = "done"}]
  /\ UNCHANGED <<clock, controlVars, cache, lock, reply, result, metrics>>

(* Lookup is called; an empty host is answered without touching the cache, *)
(* any other reads the clock for the first check.                          *)
Begin(r, name) ==
  /\ pc[r] = "idle"
  /\ LET h == NormalizeHost[name]
         empty == h = NoHost
     IN  /\ host' = [host EXCEPT ![r] = h]
         /\ pc' = [pc EXCEPT ![r] = IF empty THEN "done" ELSE "check"]
         /\ result' = IF empty
                      THEN [result EXCEPT ![r] =
                             [kind |-> "empty_host", version |-> 0]]
                      ELSE result
         /\ now' = [now EXCEPT ![r] = clock]
         /\ before' = [before EXCEPT ![r] = {q \in Requests : pc[q] = "done"}]
  /\ UNCHANGED <<clock, controlVars, cache, lock, reply, metrics>>

(* The first cache check, without the host lock. *)
CheckCache(r) ==
  /\ pc[r] = "check"
  /\ LET h == host[r] IN
     \/ /\ Fresh(h, now[r])
        /\ Count("hit")
        /\ result' = [result EXCEPT
             ![r] = [kind |-> "cached", version |-> cache[h].version]]
        /\ pc' = [pc EXCEPT ![r] = "done"]
     \/ /\ ~ Fresh(h, now[r])
        /\ Count("miss")
        /\ pc' = [pc EXCEPT ![r] = "lock"]
        /\ UNCHANGED result
  /\ UNCHANGED <<clock, controlVars, cache, lock, host, now, reply, before>>

(* Mutant: the lookup does not wait for the host's mutex. *)
LockHostWithoutWaiting(r) ==
  /\ pc[r] = "lock"
  /\ lock' = [lock EXCEPT ![host[r]] = r]
  /\ now' = [now EXCEPT ![r] = clock]
  /\ pc' = [pc EXCEPT ![r] = "recheck"]
  /\ UNCHANGED <<clock, controlVars, cache, host, reply, result, before,
                 metrics>>

(* The whole critical section may begin with time passing between Lock and *)
(* p.now(); taking the lock later is the same behaviour, so one step does  *)
(* both.                                                                   *)
LockHost(r) ==
  /\ pc[r] = "lock"
  /\ lock[host[r]] = NoRequest
  /\ lock' = [lock EXCEPT ![host[r]] = r]
  /\ now' = [now EXCEPT ![r] = clock]
  /\ pc' = [pc EXCEPT ![r] = "recheck"]
  /\ UNCHANGED <<clock, controlVars, cache, host, reply, result, before,
                 metrics>>

(* Mutant: no second check under the lock. *)
RecheckSkipped(r) ==
  /\ pc[r] = "recheck"
  /\ pc' = [pc EXCEPT ![r] = "fetch"]
  /\ UNCHANGED <<clock, controlVars, cache, lock, host, now, reply, result,
                 before, metrics>>

(* The second cache check: another lookup may have filled the entry while  *)
(* this one waited for the lock.                                           *)
Recheck(r) ==
  /\ pc[r] = "recheck"
  /\ LET h == host[r] IN
     \/ /\ Fresh(h, now[r])
        /\ Count("hit")
        /\ result' = [result EXCEPT
             ![r] = [kind |-> "cached", version |-> cache[h].version]]
        /\ pc' = [pc EXCEPT ![r] = "unlock"]
     \/ /\ ~ Fresh(h, now[r])
        /\ pc' = [pc EXCEPT ![r] = "fetch"]
        /\ UNCHANGED <<result, metrics>>
  /\ UNCHANGED <<clock, controlVars, cache, lock, host, now, reply, before>>

(* The control API handles the fetch some time after it was sent. *)
ControlAnswers(r) ==
  /\ pc[r] = "fetch"
  /\ reply' = [reply EXCEPT ![r] = Active(host[r])]
  /\ pc' = [pc EXCEPT ![r] = "answered"]
  /\ UNCHANGED <<clock, controlVars, cache, lock, host, now, result, before,
                 metrics>>

(* The versions that toApp turns into an app: it fails for a bad origin    *)
(* and for rules the gateway's parsers reject.                             *)
Parsed == Versions \ Rejected

(* Mutant: the expiry is counted from the end of the fetch. *)
FetchSucceedsExpiryFromAnswer(r) ==
  /\ pc[r] = "answered"
  /\ reply[r] \in Parsed
  /\ cache' = [cache EXCEPT
       ![host[r]] = [version |-> reply[r], expiresAt |-> clock + TTL]]
  /\ result' = [result EXCEPT
       ![r] = [kind |-> "fetched", version |-> reply[r]]]
  /\ pc' = [pc EXCEPT ![r] = "unlock"]
  /\ UNCHANGED <<clock, controlVars, lock, host, now, reply, before, metrics>>

(* FetchPolicy returns an app: it is stored with an expiry counted from    *)
(* the time read before the fetch.                                         *)
FetchSucceeds(r) ==
  /\ pc[r] = "answered"
  /\ reply[r] \in Parsed
  /\ cache' = [cache EXCEPT
       ![host[r]] = [version |-> reply[r], expiresAt |-> now[r] + TTL]]
  /\ result' = [result EXCEPT
       ![r] = [kind |-> "fetched", version |-> reply[r]]]
  /\ pc' = [pc EXCEPT ![r] = "unlock"]
  /\ UNCHANGED <<clock, controlVars, lock, host, now, reply, before, metrics>>

(* Mutant: an expired entry is not used, fail_behavior decides at once. *)
FallbackWithoutStale(h) ==
  [kind |-> IF FailBehavior = "fail_closed" THEN "unavailable"
                                            ELSE "fail_open",
   version |-> 0]

(* What Lookup returns after a failed fetch: the entry whatever its age,   *)
(* else what fail_behavior asks for.                                       *)
Fallback(h) ==
  IF cache[h].version # 0
  THEN [kind |-> "stale", version |-> cache[h].version]
  ELSE [kind |-> IF FailBehavior = "fail_closed" THEN "unavailable"
                                                 ELSE "fail_open",
        version |-> 0]

(* Mutant: a failed fetch evicts the entry it falls back to. *)
FetchFailsEvicting(r) ==
  /\ pc[r] \in {"fetch", "answered"}
  /\ Count("error")
  /\ result' = [result EXCEPT ![r] = Fallback(host[r])]
  /\ cache' = [cache EXCEPT ![host[r]] = NoEntry]
  /\ pc' = [pc EXCEPT ![r] = "unlock"]
  /\ UNCHANGED <<clock, controlVars, lock, host, now, reply, before>>

(* FetchPolicy returns an error: no connection, a non-200 answer, a body   *)
(* toApp rejects, the three-second timeout or the client's disconnect      *)
(* (both possible before and after the control API has answered).          *)
FetchFails(r) ==
  /\ pc[r] \in {"fetch", "answered"}
  /\ Count("error")
  /\ result' = [result EXCEPT ![r] = Fallback(host[r])]
  /\ pc' = [pc EXCEPT ![r] = "unlock"]
  /\ UNCHANGED <<clock, controlVars, cache, lock, host, now, reply, before>>

(* Mutant: the error path returns without unlocking. *)
ReturnLockedAfterError(r) ==
  /\ pc[r] = "unlock"
  /\ lock' = [lock EXCEPT ![host[r]] =
       IF result[r].kind \in {"cached", "fetched"} THEN NoRequest ELSE @]
  /\ pc' = [pc EXCEPT ![r] = "done"]
  /\ UNCHANGED <<clock, controlVars, cache, host, now, reply, result, before,
                 metrics>>

(* The deferred Unlock, and the return to the caller. *)
Return(r) ==
  /\ pc[r] = "unlock"
  /\ lock' = [lock EXCEPT ![host[r]] = NoRequest]
  /\ pc' = [pc EXCEPT ![r] = "done"]
  /\ UNCHANGED <<clock, controlVars, cache, host, now, reply, result, before,
                 metrics>>

LookupStep(r) ==
  \/ CheckCache(r)
  \/ Recheck(r)
  \/ FetchSucceeds(r)
  \/ FetchFails(r)
  \/ Return(r)

Next ==
  \/ Tick
  \/ \E h \in Hosts : Publish(h) \/ SetEnabled(h)
  \/ \E r \in Requests :
       \/ \E name \in Names : Begin(r, name)
       \/ LockHost(r)
       \/ ControlAnswers(r)
       \/ LookupStep(r)

Spec == Init /\ [][Next]_vars

(* Goroutines are scheduled; a fetch ends because FetchPolicy sets a       *)
(* three-second timeout on its context; sync.Mutex hands the lock over     *)
(* FIFO to a goroutine that has waited for 1ms, so a waiter that finds the *)
(* lock free again and again gets it.  Clients, operators and the control  *)
(* API owe nothing.                                                        *)
Fairness ==
  \A r \in Requests : WF_vars(LookupStep(r)) /\ SF_vars(LockHost(r))

FairSpec == Spec /\ Fairness

-----------------------------------------------------------------------------
(* Properties. *)

Entry  == [version : 0 .. MaxVersion, expiresAt : Nat]
Result == [kind : Kinds, version : 0 .. MaxVersion]

(* Types of the provider's state, the lookups' locals and the counters     *)
(* (Provider, cacheEntry, Metrics in client.go).                           *)
TypeOK ==
  /\ clock \in 0 .. MaxClock
  /\ published \in [Hosts -> 0 .. MaxVersion]
  /\ enabled \in [Hosts -> BOOLEAN]
  /\ until \in [Hosts -> [Versions -> Int]]
  /\ cache \in [Hosts -> Entry]
  /\ lock \in [Hosts -> Requests \cup {NoRequest}]
  /\ pc \in [Requests -> Places]
  /\ host \in [Requests -> Hosts \cup {NoHost}]
  /\ now \in [Requests -> 0 .. MaxClock]
  /\ reply \in [Requests -> 0 .. MaxVersion]
  /\ result \in [Requests -> Result]
  /\ before \in [Requests -> SUBSET Requests]
  /\ metrics \in [Counters -> Nat]

Fetching(r) == pc[r] \in {"fetch", "answered"}
Found(r) == pc[r] = "done" /\ result[r].kind \in FoundKinds

(* v was the active version of h at time t or later. *)
ActiveSince(h, v, t) == v = Active(h) \/ until[h][v] >= t

(* The per-host lock "to avoid thundering-herd refreshes": of all lookups  *)
(* of one host, at most one is talking to the control API.                 *)
OneFetchPerHost ==
  \A r, q \in Requests :
    Fetching(r) /\ Fetching(q) /\ host[r] = host[q] => r = q

(* A policy that Lookup hands out as current (a cache hit or the answer of *)
(* its own fetch) was still the control API's active policy less than one  *)
(* TTL before the time the lookup read: a slow fetch, during which the     *)
(* policy is replaced or disabled, does not prolong its life.              *)
CurrentWithinTTL ==
  \A r \in Requests :
    Found(r) /\ result[r].kind # "stale" =>
      ActiveSince(host[r], result[r].version, now[r] - TTL + 1)

(* Lookups read monotonically: a lookup that began after another lookup of *)
(* the same host had returned a policy also returns a policy, and never an *)
(* older one, whatever fails in between and whatever fail_behavior says.   *)
MonotonicReads ==
  \A r \in Requests : \A q \in before[r] :
    /\ pc[r] = "done"
    /\ host[r] = host[q]
    /\ Found(q)
    => /\ Found(r)
       /\ result[q].version <= result[r].version

(* A cached policy is only ever replaced by one at least as new, although  *)
(* the control API's answers are stored some time after it gave them.      *)
CacheNeverRegresses ==
  [][\A h \in Hosts : cache'[h].version >= cache[h].version]_vars

(* Successful fetches of a host are at least a TTL apart: waiting lookups  *)
(* use the entry that was filled while they waited.                        *)
FillsSpacedByTTL ==
  [][\A h \in Hosts :
       cache'[h] # cache[h] /\ cache[h].version # 0 =>
         cache'[h].expiresAt >= cache[h].expiresAt + TTL]_vars

(* Every lookup returns, even when the control API never answers: the wait *)
(* for the host lock ends because every holder's fetch ends.               *)
LookupsReturn ==
  \A r \in Requests : pc[r] # "idle" ~> pc[r] = "done"

-----------------------------------------------------------------------------
(* The inductive invariant, in layers. *)

(* Between its first check and its return a lookup has a proper host and,  *)
(* inside the critical section, its host's mutex.                          *)
LockInv ==
  \A r \in Requests :
    /\ pc[r] \in {"check", "lock"} \cup Critical => host[r] \in Hosts
    /\ pc[r] \in Critical => lock[host[r]] = r

(* A lookup has a result exactly once it has left the fetch; a result that *)
(* carries an app belongs to a proper host.                                *)
ResultInv ==
  \A r \in Requests :
    /\ pc[r] \notin {"unlock", "done"} => result[r].version = 0
    /\ result[r].kind \in FoundKinds =>
         host[r] \in Hosts /\ result[r].version > 0

(* No version in flight is newer than the control API's, none in the hands *)
(* of a returned lookup is newer than the cache's, and the cache is never  *)
(* newer than the answer that is about to be stored in it.                 *)
VersionInv ==
  /\ \A h \in Hosts : cache[h].version <= published[h]
  /\ \A r \in Requests :
       /\ host[r] \in Hosts => result[r].version <= cache[host[r]].version
       /\ pc[r] = "answered" /\ reply[r] # 0 =>
            /\ cache[host[r]].version <= reply[r]
            /\ reply[r] <= published[host[r]]

(* MonotonicReads, already true when the result is known and the lock not  *)
(* yet released.                                                           *)
ReadInv ==
  \A r \in Requests : \A q \in before[r] :
    /\ pc[q] = "done"
    /\ /\ pc[r] \in {"unlock", "done"}
       /\ host[r] = host[q]
       /\ result[q].kind \in FoundKinds
       => /\ result[r].kind \in FoundKinds
          /\ result[q].version <= result[r].version

(* A lookup only fetches when the entry has expired at the time it read. *)
ExpiryInv ==
  \A r \in Requests : Fetching(r) => ~ Fresh(host[r], now[r])

(* What is handed out as current was active recently enough: the entry     *)
(* since the fetch that filled it began, an answer since its fetch began,  *)
(* a result within a TTL of the time its lookup read.                      *)
FreshInv ==
  /\ \A h \in Hosts : cache[h].version # 0 =>
       /\ cache[h].expiresAt - TTL <= clock
       /\ ActiveSince(h, cache[h].version, cache[h].expiresAt - TTL)
  /\ \A r \in Requests :
       /\ now[r] <= clock
       /\ pc[r] = "answered" /\ reply[r] # 0 =>
            ActiveSince(host[r], reply[r], now[r])
       /\ /\ pc[r] \in {"unlock", "done"}
          /\ result[r].kind \in {"cached", "fetched"}
          => ActiveSince(host[r], result[r].version, now[r] - TTL + 1)

(* The inductive invariant behind the safety properties of Lookup: who     *)
(* holds which host lock, how the versions held by the control API, by     *)
(* answers in flight, by the cache and by results are ordered, and how     *)
(* long ago each was active.  It implies all of them.                      *)
ProviderInv ==
  /\ TypeOK
  /\ LockInv
  /\ ResultInv
  /\ VersionInv
  /\ ReadInv
  /\ ExpiryInv
  /\ FreshInv

=============================================================================
