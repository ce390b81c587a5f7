------------------------ MODULE PolicyProviderProofs ------------------------
(***************************************************************************)
(* Proofs about PolicyProvider, for any number of lookups, hosts, versions *)
(* and ticks, any TTL and any fail_behavior.                               *)
(*                                                                         *)
(* The inductive invariant is built in layers, each proved from the ones   *)
(* before it: the types, who holds which host lock, and how the versions   *)
(* in flight relate to the cache and to the control API.                   *)
(***************************************************************************)
EXTENDS PolicyProvider, TLAPS

-----------------------------------------------------------------------------
(* The first layer: types and locks hold together, since a lookup indexes  *)
(* the cache and the lock table with its host.                             *)
TypeLockInv == TypeOK /\ LockInv

LEMMA TypeLockInit == Init => TypeLockInv
BY ConstantsAssumption
DEF Init, TypeLockInv, TypeOK, LockInv, Places, Critical, Entry, Result,
    Kinds, FoundKinds, NoEntry, NoResult, Versions, Counters

(* What Lookup returns after a failed fetch is a proper result. *)
LEMMA FallbackType ==
  ASSUME TypeOK, NEW h \in Hosts
  PROVE  Fallback(h) \in Result
BY ConstantsAssumption
DEF TypeOK, Fallback, Entry, Result, Kinds, FoundKinds

LEMMA HitType ==
  ASSUME TypeOK, NEW h \in Hosts
  PROVE  [kind |-> "cached", version |-> cache[h].version] \in Result
BY DEF TypeOK, Entry, Result, Kinds, FoundKinds

LEMMA WithdrawnType ==
  ASSUME TypeOK, NEW h \in Hosts
  PROVE  /\ Withdrawn(h) \in [Hosts -> [Versions -> Int]]
         /\ Active(h) \in 0 .. MaxVersion
BY ConstantsAssumption DEF TypeOK, Withdrawn, Active, Versions

(* Every step keeps the types and leaves each critical section to the      *)
(* holder of its host's mutex.                                             *)
LEMMA TypeLockStep == TypeLockInv /\ [Next]_vars => TypeLockInv'
<1> SUFFICES ASSUME TypeOK, LockInv, [Next]_vars PROVE TypeOK' /\ LockInv'
  BY DEF TypeLockInv
<1>1. CASE Tick
  BY <1>1, ConstantsAssumption
  DEF Tick, controlVars, lookupVars, TypeOK, LockInv
<1>2. ASSUME NEW h \in Hosts, Publish(h) PROVE TypeOK' /\ LockInv'
  <2>1. published' \in [Hosts -> 0 .. MaxVersion]
    BY <1>2, ConstantsAssumption DEF Publish, TypeOK
  <2> QED
    BY <1>2, <2>1, WithdrawnType DEF Publish, lookupVars, TypeOK, LockInv
<1>3. ASSUME NEW h \in Hosts, SetEnabled(h) PROVE TypeOK' /\ LockInv'
  BY <1>3, WithdrawnType DEF SetEnabled, lookupVars, TypeOK, LockInv
<1>4. ASSUME NEW r \in Requests, NEW name \in Names, Begin(r, name)
      PROVE  TypeOK' /\ LockInv'
  <2>1. TypeOK'
    BY <1>4, ConstantsAssumption
    DEF Begin, controlVars, TypeOK, Places, Critical, Result, Kinds
  <2>2. LockInv'
    BY <1>4, ConstantsAssumption
    DEF Begin, TypeOK, LockInv, Critical
  <2> QED
    BY <2>1, <2>2
<1>5. ASSUME NEW r \in Requests, LockHost(r) PROVE TypeOK' /\ LockInv'
  <2> host[r] \in Hosts
    BY <1>5 DEF LockHost, LockInv
  <2>1. TypeOK'
    BY <1>5 DEF LockHost, controlVars, TypeOK, Places, Critical
  <2>2. LockInv'
    BY <1>5, ConstantsAssumption DEF LockHost, TypeOK, LockInv, Critical
  <2> QED
    BY <2>1, <2>2
<1>6. ASSUME NEW r \in Requests, ControlAnswers(r) PROVE TypeOK' /\ LockInv'
  <2> host[r] \in Hosts
    BY <1>6 DEF ControlAnswers, LockInv, Critical
  <2>1. TypeOK'
    BY <1>6, WithdrawnType
    DEF ControlAnswers, controlVars, TypeOK, Places, Critical
  <2>2. LockInv'
    BY <1>6 DEF ControlAnswers, TypeOK, LockInv, Critical
  <2> QED
    BY <2>1, <2>2
<1>7. ASSUME NEW r \in Requests, CheckCache(r) PROVE TypeOK' /\ LockInv'
  <2> host[r] \in Hosts
    BY <1>7 DEF CheckCache, LockInv
  <2>1. TypeOK'
    <3>1. pc' \in [Requests -> Places]
      BY <1>7 DEF CheckCache, TypeOK, Places, Critical
    <3>2. result' \in [Requests -> Result]
      BY <1>7, HitType DEF CheckCache, TypeOK
    <3>3. metrics' \in [Counters -> Nat]
      BY <1>7 DEF CheckCache, Count, Counters, TypeOK
    <3> QED
      BY <1>7, <3>1, <3>2, <3>3 DEF CheckCache, controlVars, TypeOK
  <2>2. LockInv'
    BY <1>7 DEF CheckCache, TypeOK, LockInv, Critical
  <2> QED
    BY <2>1, <2>2
<1>8. ASSUME NEW r \in Requests, Recheck(r) PROVE TypeOK' /\ LockInv'
  <2> host[r] \in Hosts
    BY <1>8 DEF Recheck, LockInv, Critical
  <2>1. TypeOK'
    <3>1. pc' \in [Requests -> Places]
      BY <1>8 DEF Recheck, TypeOK, Places, Critical
    <3>2. result' \in [Requests -> Result]
      BY <1>8, HitType DEF Recheck, TypeOK
    <3>3. metrics' \in [Counters -> Nat]
      BY <1>8 DEF Recheck, Count, Counters, TypeOK
    <3> QED
      BY <1>8, <3>1, <3>2, <3>3 DEF Recheck, controlVars, TypeOK
  <2>2. LockInv'
    BY <1>8 DEF Recheck, TypeOK, LockInv, Critical
  <2> QED
    BY <2>1, <2>2
<1>9. ASSUME NEW r \in Requests, FetchSucceeds(r) PROVE TypeOK' /\ LockInv'
  <2> host[r] \in Hosts
    BY <1>9 DEF FetchSucceeds, Parsed, LockInv, Critical
  <2>1. TypeOK'
    BY <1>9, ConstantsAssumption
    DEF FetchSucceeds, Parsed, controlVars, TypeOK, Places, Critical, Entry,
        Result, Kinds, FoundKinds
  <2>2. LockInv'
    BY <1>9 DEF FetchSucceeds, Parsed, TypeOK, LockInv, Critical
  <2> QED
    BY <2>1, <2>2
<1>10. ASSUME NEW r \in Requests, FetchFails(r) PROVE TypeOK' /\ LockInv'
  <2> host[r] \in Hosts
    BY <1>10 DEF FetchFails, LockInv, Critical
  <2>1. TypeOK'
    BY <1>10, FallbackType
    DEF FetchFails, Count, Counters, controlVars, TypeOK, Places, Critical
  <2>2. LockInv'
    BY <1>10 DEF FetchFails, TypeOK, LockInv, Critical
  <2> QED
    BY <2>1, <2>2
<1>11. ASSUME NEW r \in Requests, Return(r) PROVE TypeOK' /\ LockInv'
  <2> host[r] \in Hosts
    BY <1>11 DEF Return, LockInv, Critical
  <2>1. TypeOK'
    BY <1>11 DEF Return, controlVars, TypeOK, Places, Critical
  <2>2. LockInv'
    BY <1>11 DEF Return, TypeOK, LockInv, Critical
  <2> QED
    BY <2>1, <2>2
<1>12. CASE UNCHANGED vars
  BY <1>12 DEF vars, controlVars, lookupVars, TypeOK, LockInv
<1> QED
  BY <1>1, <1>2, <1>3, <1>4, <1>5, <1>6, <1>7, <1>8, <1>9, <1>10, <1>11,
     <1>12
  DEF Next, LookupStep

(* The state of the provider and of every lookup keeps its type. *)
THEOREM TypeCorrect == Spec => []TypeOK
<1>1. TypeLockInv => TypeOK
  BY DEF TypeLockInv
<1> QED
  BY <1>1, TypeLockInit, TypeLockStep, PTL DEF Spec

(* Mutual exclusion: the per-host lock keeps the fetches of one host from  *)
(* overlapping.                                                            *)
THEOREM FetchesExcluded == Spec => []OneFetchPerHost
<1>1. TypeLockInv => OneFetchPerHost
  BY DEF TypeLockInv, LockInv, OneFetchPerHost, Fetching, Critical
<1> QED
  BY <1>1, TypeLockInit, TypeLockStep, PTL DEF Spec

(* Results carry a version only for a proper host and only once known. *)
LEMMA ResultStep == TypeLockInv /\ ResultInv /\ [Next]_vars => ResultInv'
<1> SUFFICES ASSUME TypeOK, LockInv, ResultInv, [Next]_vars PROVE ResultInv'
  BY DEF TypeLockInv
<1>1. CASE Tick
  BY <1>1
  DEF Tick, lookupVars, controlVars, ResultInv, TypeOK, LockInv, Critical,
      FoundKinds
<1>2. ASSUME NEW h \in Hosts, Publish(h) PROVE ResultInv'
  BY <1>2
  DEF Publish, lookupVars, ResultInv, TypeOK, LockInv, Critical, FoundKinds
<1>3. ASSUME NEW h \in Hosts, SetEnabled(h) PROVE ResultInv'
  BY <1>3
  DEF SetEnabled, lookupVars, ResultInv, TypeOK, LockInv, Critical, FoundKinds
<1>4. ASSUME NEW r \in Requests, NEW name \in Names, Begin(r, name)
      PROVE  ResultInv'
  BY <1>4, ConstantsAssumption
  DEF Begin, controlVars, ResultInv, TypeOK, LockInv, Critical, FoundKinds
<1>5. ASSUME NEW r \in Requests, LockHost(r) PROVE ResultInv'
  BY <1>5
  DEF LockHost, controlVars, ResultInv, TypeOK, LockInv, Critical, FoundKinds
<1>6. ASSUME NEW r \in Requests, ControlAnswers(r) PROVE ResultInv'
  BY <1>6
  DEF ControlAnswers, controlVars, ResultInv, TypeOK, LockInv, Critical,
      FoundKinds
<1>7. ASSUME NEW r \in Requests, CheckCache(r) PROVE ResultInv'
  BY <1>7
  DEF CheckCache, controlVars, ResultInv, TypeOK, LockInv, Critical,
      FoundKinds, Fresh, Entry
<1>8. ASSUME NEW r \in Requests, Recheck(r) PROVE ResultInv'
  BY <1>8
  DEF Recheck, controlVars, ResultInv, TypeOK, LockInv, Critical, FoundKinds,
      Fresh, Entry
<1>9. ASSUME NEW r \in Requests, FetchSucceeds(r) PROVE ResultInv'
  BY <1>9, ConstantsAssumption
  DEF FetchSucceeds, Parsed, controlVars, ResultInv, TypeOK, LockInv, Critical,
      FoundKinds, Versions
<1>10. ASSUME NEW r \in Requests, FetchFails(r) PROVE ResultInv'
  BY <1>10
  DEF FetchFails, controlVars, ResultInv, TypeOK, LockInv, Critical,
      FoundKinds, Fallback, Entry
<1>11. ASSUME NEW r \in Requests, Return(r) PROVE ResultInv'
  BY <1>11
  DEF Return, controlVars, ResultInv, TypeOK, LockInv, Critical, FoundKinds
<1>12. CASE UNCHANGED vars
  BY <1>12
  DEF vars, controlVars, lookupVars, ResultInv, TypeOK, LockInv, Critical,
      FoundKinds
<1> QED
  BY <1>1, <1>2, <1>3, <1>4, <1>5, <1>6, <1>7, <1>8, <1>9, <1>10, <1>11, <1>12
  DEF Next, LookupStep

(* The order of versions is kept: only the holder of the host lock stores. *)
LEMMA VersionStep ==
  TypeLockInv /\ ResultInv /\ VersionInv /\ [Next]_vars
  => VersionInv'
<1> SUFFICES ASSUME TypeOK, LockInv, ResultInv, VersionInv, [Next]_vars
             PROVE  VersionInv'
  BY DEF TypeLockInv
<1>1. CASE Tick
  BY <1>1
  DEF Tick, lookupVars, controlVars, VersionInv, TypeOK, LockInv, Critical
<1>2. ASSUME NEW h \in Hosts, Publish(h) PROVE VersionInv'
  <2>1. \A g \in Hosts : published[g] <= published'[g] /\ published'[g] \in Nat
    BY <1>2 DEF Publish, TypeOK
  <2> QED
    BY <1>2, <2>1
    DEF Publish, lookupVars, VersionInv, TypeOK, LockInv, Critical, Entry
<1>3. ASSUME NEW h \in Hosts, SetEnabled(h) PROVE VersionInv'
  BY <1>3
  DEF SetEnabled, lookupVars, VersionInv, TypeOK, LockInv, Critical
<1>4. ASSUME NEW r \in Requests, NEW name \in Names, Begin(r, name)
      PROVE  VersionInv'
  BY <1>4, ConstantsAssumption
  DEF Begin, controlVars, VersionInv, TypeOK, LockInv, Critical, Entry,
      ResultInv
<1>5. ASSUME NEW r \in Requests, LockHost(r) PROVE VersionInv'
  BY <1>5
  DEF LockHost, controlVars, VersionInv, TypeOK, LockInv, Critical
<1>6. ASSUME NEW r \in Requests, ControlAnswers(r) PROVE VersionInv'
  BY <1>6
  DEF ControlAnswers, controlVars, VersionInv, TypeOK, LockInv, Critical,
      Active, Entry
<1>7. ASSUME NEW r \in Requests, CheckCache(r) PROVE VersionInv'
  BY <1>7
  DEF CheckCache, controlVars, VersionInv, TypeOK, LockInv, Critical, Fresh,
      Entry, Result
<1>8. ASSUME NEW r \in Requests, Recheck(r) PROVE VersionInv'
  BY <1>8
  DEF Recheck, controlVars, VersionInv, TypeOK, LockInv, Critical, Fresh,
      Entry, Result
<1>9. ASSUME NEW r \in Requests, FetchSucceeds(r) PROVE VersionInv'
  <2>1. /\ host[r] \in Hosts
        /\ reply[r] # 0
        /\ pc[r] = "answered"
    BY <1>9 DEF FetchSucceeds, Parsed, LockInv, Critical, Versions
  <2>2. /\ cache'[host[r]].version = reply[r]
        /\ \A g \in Hosts \ {host[r]} : cache'[g] = cache[g]
    BY <1>9, <2>1 DEF FetchSucceeds, Parsed, TypeOK
  <2>3. \A g \in Hosts : cache'[g].version <= published'[g]
    BY <1>9, <2>1, <2>2
    DEF FetchSucceeds, Parsed, controlVars, VersionInv, TypeOK
  <2>4. \A g \in Hosts : /\ cache[g].version \in Int
                            /\ cache'[g].version \in Int
                            /\ cache[g].version <= cache'[g].version
    <3>1. \A g \in Hosts : cache[g].version \in Int
      BY DEF TypeOK, Entry
    <3>2. reply[r] \in Int /\ cache[host[r]].version <= reply[r]
      BY <2>1 DEF VersionInv, TypeOK
    <3> QED
      BY <2>1, <2>2, <3>1, <3>2
  <2>5. ASSUME NEW q \in Requests, host'[q] \in Hosts
        PROVE  result'[q].version <= cache'[host'[q]].version
    <3>1. CASE q = r
      BY <1>9, <3>1, <2>2 DEF FetchSucceeds, Parsed, TypeOK
    <3>2. CASE q # r
      <4>1. result'[q] = result[q] /\ host'[q] = host[q]
        BY <1>9, <3>2 DEF FetchSucceeds, Parsed, TypeOK
      <4>2. result[q].version <= cache[host[q]].version
        BY <4>1, <2>5 DEF VersionInv
      <4>3. result[q].version \in Int
        BY DEF TypeOK, Result
      <4> QED
        BY <4>1, <4>2, <4>3, <2>4, <2>5
    <3> QED
      BY <3>1, <3>2
  <2>6. ASSUME NEW q \in Requests, pc'[q] = "answered", reply'[q] # 0
        PROVE  /\ cache'[host'[q]].version <= reply'[q]
               /\ reply'[q] <= published'[host'[q]]
    <3>1. q # r /\ pc[q] = "answered"
      BY <1>9, <2>6 DEF FetchSucceeds, Parsed, TypeOK
    <3>2. host[q] \in Hosts /\ host[q] # host[r]
      BY <3>1, <2>1 DEF LockInv, Critical
    <3> QED
      BY <1>9, <2>2, <2>6, <3>1, <3>2
      DEF FetchSucceeds, Parsed, controlVars, VersionInv
  <2> QED
    BY <2>3, <2>5, <2>6 DEF VersionInv
<1>10. ASSUME NEW r \in Requests, FetchFails(r) PROVE VersionInv'
  BY <1>10
  DEF FetchFails, controlVars, VersionInv, TypeOK, LockInv, Critical,
      Fallback, Entry, Result
<1>11. ASSUME NEW r \in Requests, Return(r) PROVE VersionInv'
  BY <1>11
  DEF Return, controlVars, VersionInv, TypeOK, LockInv, Critical
<1>12. CASE UNCHANGED vars
  BY <1>12
  DEF vars, controlVars, lookupVars, VersionInv, TypeOK, LockInv, Critical
<1> QED
  BY <1>1, <1>2, <1>3, <1>4, <1>5, <1>6, <1>7, <1>8, <1>9, <1>10, <1>11, <1>12
  DEF Next, LookupStep

(* Monotonic reads are kept by every step. *)
LEMMA ReadStep ==
  TypeLockInv /\ ResultInv /\ VersionInv /\ ReadInv /\ [Next]_vars
  => ReadInv'
<1> SUFFICES ASSUME TypeOK, LockInv, ResultInv, VersionInv, ReadInv, [Next]_vars
             PROVE  ReadInv'
  BY DEF TypeLockInv
<1>1. CASE Tick
  BY <1>1
  DEF Tick, lookupVars, controlVars, ReadInv, TypeOK, LockInv, ResultInv,
      VersionInv, Critical, FoundKinds
<1>2. ASSUME NEW h \in Hosts, Publish(h) PROVE ReadInv'
  BY <1>2
  DEF Publish, lookupVars, ReadInv, TypeOK, LockInv, ResultInv, VersionInv,
      Critical, FoundKinds
<1>3. ASSUME NEW h \in Hosts, SetEnabled(h) PROVE ReadInv'
  BY <1>3
  DEF SetEnabled, lookupVars, ReadInv, TypeOK, LockInv, ResultInv, VersionInv,
      Critical, FoundKinds
<1>4. ASSUME NEW r \in Requests, NEW name \in Names, Begin(r, name)
      PROVE  ReadInv'
  <2>1. ASSUME NEW q \in Requests, result[q].kind \in FoundKinds
        PROVE  host[q] # NoHost
    BY <2>1, ConstantsAssumption DEF ResultInv
  <2>2. pc[r] = "idle" /\ \A x \in Requests \ {r} : pc'[x] = pc[x]
                                                 /\ host'[x] = host[x]
                                                 /\ result'[x] = result[x]
                                                 /\ before'[x] = before[x]
    BY <1>4 DEF Begin, TypeOK
  <2>3. before'[r] \in SUBSET (Requests \ {r})
        /\ \A q \in before'[r] : pc[q] = "done"
    BY <1>4, <2>2 DEF Begin, TypeOK
  <2>4. pc'[r] = "check" \/ (pc'[r] = "done" /\ host'[r] = NoHost)
    BY <1>4 DEF Begin, TypeOK
  <2>5. ASSUME NEW x \in Requests \ {r} PROVE r \notin before[x]
    BY <2>2 DEF ReadInv
  <2> QED
    BY <2>1, <2>2, <2>3, <2>4, <2>5 DEF ReadInv, TypeOK
<1>5. ASSUME NEW r \in Requests, LockHost(r) PROVE ReadInv'
  BY <1>5
  DEF LockHost, controlVars, ReadInv, TypeOK, LockInv, ResultInv, VersionInv,
      Critical, FoundKinds
<1>6. ASSUME NEW r \in Requests, ControlAnswers(r) PROVE ReadInv'
  BY <1>6
  DEF ControlAnswers, controlVars, ReadInv, TypeOK, LockInv, ResultInv,
      VersionInv, Critical, FoundKinds
<1>7. ASSUME NEW r \in Requests, CheckCache(r) PROVE ReadInv'
  <2>0. pc[r] # "done" /\ host[r] \in Hosts
    BY <1>7 DEF CheckCache, LockInv, Critical
  <2>1. \A q \in before[r] :
          host[r] = host[q] => result[q].version <= cache[host[r]].version
    BY <2>0 DEF VersionInv, TypeOK
  <2>2. /\ \A q \in Requests \ {r} : pc'[q] = pc[q] /\ result'[q] = result[q]
        /\ before' = before /\ host' = host
    BY <1>7 DEF CheckCache, TypeOK
  <2>3. \/ pc'[r] \notin {"unlock", "done"}
        \/ result'[r] = [kind |-> "cached", version |-> cache[host[r]].version]
    BY <1>7 DEF CheckCache, TypeOK
  <2>4. \A x \in Requests : before[x] \subseteq Requests \ {r}
    BY <2>0 DEF ReadInv, TypeOK
  <2> QED
    BY <2>1, <2>2, <2>3, <2>4 DEF ReadInv, FoundKinds
<1>8. ASSUME NEW r \in Requests, Recheck(r) PROVE ReadInv'
  <2>0. pc[r] # "done" /\ host[r] \in Hosts
    BY <1>8 DEF Recheck, LockInv, Critical
  <2>1. \A q \in before[r] :
          host[r] = host[q] => result[q].version <= cache[host[r]].version
    BY <2>0 DEF VersionInv, TypeOK
  <2>2. /\ \A q \in Requests \ {r} : pc'[q] = pc[q] /\ result'[q] = result[q]
        /\ before' = before /\ host' = host
    BY <1>8 DEF Recheck, TypeOK
  <2>3. \/ pc'[r] \notin {"unlock", "done"}
        \/ result'[r] = [kind |-> "cached", version |-> cache[host[r]].version]
    BY <1>8 DEF Recheck, TypeOK
  <2>4. \A x \in Requests : before[x] \subseteq Requests \ {r}
    BY <2>0 DEF ReadInv, TypeOK
  <2> QED
    BY <2>1, <2>2, <2>3, <2>4 DEF ReadInv, FoundKinds
<1>9. ASSUME NEW r \in Requests, FetchSucceeds(r) PROVE ReadInv'
  <2>0. pc[r] # "done" /\ host[r] \in Hosts /\ reply[r] # 0
    BY <1>9 DEF FetchSucceeds, Parsed, LockInv, Critical, Versions
  <2>1. \A q \in before[r] :
          host[r] = host[q] => result[q].version <= reply[r]
    BY <1>9, <2>0 DEF FetchSucceeds, Parsed, VersionInv, TypeOK, Entry, Result
  <2> QED
    BY <1>9, <2>0, <2>1 DEF FetchSucceeds, Parsed, ReadInv, TypeOK, FoundKinds
<1>10. ASSUME NEW r \in Requests, FetchFails(r) PROVE ReadInv'
  BY <1>10
  DEF FetchFails, controlVars, ReadInv, TypeOK, LockInv, ResultInv,
      VersionInv, Critical, FoundKinds, Fallback, Entry, Result
<1>11. ASSUME NEW r \in Requests, Return(r) PROVE ReadInv'
  BY <1>11
  DEF Return, controlVars, ReadInv, TypeOK, LockInv, ResultInv, VersionInv,
      Critical, FoundKinds
<1>12. CASE UNCHANGED vars
  BY <1>12
  DEF vars, controlVars, lookupVars, ReadInv, TypeOK, LockInv, ResultInv,
      VersionInv, Critical, FoundKinds
<1> QED
  BY <1>1, <1>2, <1>3, <1>4, <1>5, <1>6, <1>7, <1>8, <1>9, <1>10, <1>11, <1>12
  DEF Next, LookupStep

(* While a lookup fetches, nobody else renews its host's entry. *)
LEMMA ExpiryStep == TypeLockInv /\ ExpiryInv /\ [Next]_vars => ExpiryInv'
<1> SUFFICES ASSUME TypeOK, LockInv, ExpiryInv, [Next]_vars PROVE ExpiryInv'
  BY DEF TypeLockInv
<1>1. CASE Tick
  BY <1>1
  DEF Tick, lookupVars, controlVars, ExpiryInv, TypeOK, LockInv, Critical,
      Fetching, Fresh
<1>2. ASSUME NEW h \in Hosts, Publish(h) PROVE ExpiryInv'
  BY <1>2
  DEF Publish, lookupVars, ExpiryInv, TypeOK, LockInv, Critical, Fetching,
      Fresh
<1>3. ASSUME NEW h \in Hosts, SetEnabled(h) PROVE ExpiryInv'
  BY <1>3
  DEF SetEnabled, lookupVars, ExpiryInv, TypeOK, LockInv, Critical, Fetching,
      Fresh
<1>4. ASSUME NEW r \in Requests, NEW name \in Names, Begin(r, name)
      PROVE  ExpiryInv'
  BY <1>4
  DEF Begin, controlVars, ExpiryInv, TypeOK, LockInv, Critical, Fetching, Fresh
<1>5. ASSUME NEW r \in Requests, LockHost(r) PROVE ExpiryInv'
  BY <1>5
  DEF LockHost, controlVars, ExpiryInv, TypeOK, LockInv, Critical, Fetching,
      Fresh
<1>6. ASSUME NEW r \in Requests, ControlAnswers(r) PROVE ExpiryInv'
  BY <1>6
  DEF ControlAnswers, controlVars, ExpiryInv, TypeOK, LockInv, Critical,
      Fetching, Fresh
<1>7. ASSUME NEW r \in Requests, CheckCache(r) PROVE ExpiryInv'
  BY <1>7
  DEF CheckCache, controlVars, ExpiryInv, TypeOK, LockInv, Critical, Fetching,
      Fresh
<1>8. ASSUME NEW r \in Requests, Recheck(r) PROVE ExpiryInv'
  BY <1>8
  DEF Recheck, controlVars, ExpiryInv, TypeOK, LockInv, Critical, Fetching,
      Fresh
<1>9. ASSUME NEW r \in Requests, FetchSucceeds(r) PROVE ExpiryInv'
  BY <1>9
  DEF FetchSucceeds, Parsed, controlVars, ExpiryInv, TypeOK, LockInv, Critical,
      Fetching, Fresh
<1>10. ASSUME NEW r \in Requests, FetchFails(r) PROVE ExpiryInv'
  BY <1>10
  DEF FetchFails, controlVars, ExpiryInv, TypeOK, LockInv, Critical, Fetching,
      Fresh
<1>11. ASSUME NEW r \in Requests, Return(r) PROVE ExpiryInv'
  BY <1>11
  DEF Return, controlVars, ExpiryInv, TypeOK, LockInv, Critical, Fetching,
      Fresh
<1>12. CASE UNCHANGED vars
  BY <1>12
  DEF vars, controlVars, lookupVars, ExpiryInv, TypeOK, LockInv, Critical,
      Fetching, Fresh
<1> QED
  BY <1>1, <1>2, <1>3, <1>4, <1>5, <1>6, <1>7, <1>8, <1>9, <1>10, <1>11, <1>12
  DEF Next, LookupStep

(* A version active since t stays so when policies are published, disabled *)
(* or re-enabled: withdrawal records the time, which is not before t.      *)
LEMMA ActiveSinceKept ==
  ASSUME TypeOK, NEW h \in Hosts, Publish(h) \/ SetEnabled(h),
         NEW g \in Hosts, NEW v \in Versions, NEW t \in Int, t <= clock,
         ActiveSince(g, v, t)
  PROVE  ActiveSince(g, v, t)'
<1>1. until' = Withdrawn(h)
  BY DEF Publish, SetEnabled
<1>2. CASE g # h
  <2>1. published'[g] = published[g] /\ enabled'[g] = enabled[g]
    BY <1>2 DEF Publish, SetEnabled, TypeOK
  <2>2. until'[g] = until[g]
    BY <1>1, <1>2 DEF Withdrawn, TypeOK
  <2> QED
    BY <2>1, <2>2 DEF ActiveSince, Active
<1>3. CASE g = h /\ v = Active(h)
  <2>1. until' = [until EXCEPT ![h][v] = clock]
    BY <1>1, <1>3, ConstantsAssumption DEF Withdrawn, Versions
  <2>2. until'[h][v] = clock
    BY <2>1 DEF TypeOK
  <2> QED
    BY <1>3, <2>2 DEF ActiveSince
<1>4. CASE g = h /\ v # Active(h)
  <2>1. until'[h][v] = until[h][v]
    BY <1>1, <1>4 DEF Withdrawn, TypeOK
  <2> QED
    BY <1>4, <2>1 DEF ActiveSince
<1> QED
  BY <1>2, <1>3, <1>4

(* ... and so does the whole of FreshInv. *)
LEMMA FreshKeptByControl ==
  ASSUME TypeOK, LockInv, ResultInv, FreshInv,
         NEW h \in Hosts, Publish(h) \/ SetEnabled(h)
  PROVE  FreshInv'
<1>1. UNCHANGED <<clock, cache, pc, host, now, reply, result>>
  BY DEF Publish, SetEnabled, lookupVars
<1>2. ASSUME NEW g \in Hosts, cache[g].version # 0
      PROVE  ActiveSince(g, cache[g].version, cache[g].expiresAt - TTL)'
  <2>1. /\ cache[g].version \in Versions
        /\ cache[g].expiresAt - TTL \in Int
    BY <1>2, ConstantsAssumption DEF TypeOK, Entry, Versions
  <2>2. /\ cache[g].expiresAt - TTL <= clock
        /\ ActiveSince(g, cache[g].version, cache[g].expiresAt - TTL)
    BY <1>2 DEF FreshInv
  <2>3. ASSUME NEW v \in Versions, NEW t \in Int, t <= clock,
               ActiveSince(g, v, t)
        PROVE  ActiveSince(g, v, t)'
    BY <2>3, ActiveSinceKept
  <2> QED
    BY <2>1, <2>2, <2>3, <1>1 DEF ActiveSince, Active
<1>3. ASSUME NEW r \in Requests, pc[r] = "answered", reply[r] # 0
      PROVE  ActiveSince(host[r], reply[r], now[r])'
  <2>1. host[r] \in Hosts /\ reply[r] \in Versions /\ now[r] \in Int
    BY <1>3, ConstantsAssumption DEF TypeOK, LockInv, Critical, Versions
  <2>2. now[r] <= clock /\ ActiveSince(host[r], reply[r], now[r])
    BY <1>3 DEF FreshInv
  <2>3. ASSUME NEW g \in Hosts, NEW v \in Versions, NEW t \in Int,
               t <= clock, ActiveSince(g, v, t)
        PROVE  ActiveSince(g, v, t)'
    BY <2>3, ActiveSinceKept
  <2> QED
    BY <2>1, <2>2, <2>3, <1>1 DEF ActiveSince, Active
<1>4. ASSUME NEW r \in Requests, pc[r] \in {"unlock", "done"},
             result[r].kind \in {"cached", "fetched"}
      PROVE  ActiveSince(host[r], result[r].version, now[r] - TTL + 1)'
  <2>1. /\ host[r] \in Hosts
        /\ result[r].version \in Versions
        /\ now[r] - TTL + 1 \in Int
    BY <1>4, ConstantsAssumption
    DEF TypeOK, ResultInv, FoundKinds, Result, Versions
  <2>2. /\ now[r] - TTL + 1 <= clock
        /\ ActiveSince(host[r], result[r].version, now[r] - TTL + 1)
    BY <1>4, ConstantsAssumption DEF FreshInv, TypeOK
  <2>3. ASSUME NEW g \in Hosts, NEW v \in Versions, NEW t \in Int,
               t <= clock, ActiveSince(g, v, t)
        PROVE  ActiveSince(g, v, t)'
    BY <2>3, ActiveSinceKept
  <2> QED
    BY <2>1, <2>2, <2>3, <1>1 DEF ActiveSince, Active
<1> QED
  BY <1>1, <1>2, <1>3, <1>4 DEF FreshInv

(* Freshness is kept: expiry is counted from before the fetch. *)
LEMMA FreshStep ==
  TypeLockInv /\ ResultInv /\ FreshInv /\ [Next]_vars
  => FreshInv'
<1> SUFFICES ASSUME TypeOK, LockInv, ResultInv, FreshInv, [Next]_vars
             PROVE  FreshInv'
  BY DEF TypeLockInv
<1>1. CASE Tick
  <2>1. \A h \in Hosts : cache[h].expiresAt - TTL \in Int
    BY ConstantsAssumption DEF TypeOK, Entry
  <2>2. /\ UNCHANGED <<published, enabled, until, cache,
                       pc, host, now, reply, result>>
        /\ clock' = clock + 1
    BY <1>1 DEF Tick, controlVars, lookupVars
  <2>3. /\ clock \in Int
        /\ \A r \in Requests : now[r] \in Int
    BY DEF TypeOK
  <2> QED
    BY <2>1, <2>2, <2>3 DEF FreshInv, ActiveSince, Active
<1>2. ASSUME NEW h \in Hosts, Publish(h) PROVE FreshInv'
  BY <1>2, FreshKeptByControl
<1>3. ASSUME NEW h \in Hosts, SetEnabled(h) PROVE FreshInv'
  BY <1>3, FreshKeptByControl
<1>4. ASSUME NEW r \in Requests, NEW name \in Names, Begin(r, name)
      PROVE  FreshInv'
  <2>1. /\ UNCHANGED <<clock, published, enabled, until, cache, reply>>
        /\ now'[r] = clock /\ clock <= clock
        /\ \A q \in Requests \ {r} : /\ pc'[q] = pc[q]
                                     /\ now'[q] = now[q]
                                     /\ host'[q] = host[q]
                                     /\ result'[q] = result[q]
        /\ pc'[r] # "answered"
        /\ \/ pc'[r] \notin {"unlock", "done"}
           \/ result'[r].kind = "empty_host"
    BY <1>4 DEF Begin, controlVars, TypeOK
  <2>2. ASSUME NEW q \in Requests
        PROVE  /\ now'[q] <= clock'
               /\ pc'[q] = "answered" /\ reply'[q] # 0 =>
                    ActiveSince(host[q], reply[q], now[q])'
               /\ /\ pc'[q] \in {"unlock", "done"}
                  /\ result'[q].kind \in {"cached", "fetched"}
                  => ActiveSince(host[q], result[q].version, now[q] - TTL + 1)'
    <3>1. CASE q = r
      BY <2>1, <3>1 DEF ActiveSince, Active
    <3>2. CASE q # r
      BY <2>1, <3>2 DEF FreshInv, ActiveSince, Active
    <3> QED
      BY <3>1, <3>2
  <2>3. \A g \in Hosts : cache'[g].version # 0 =>
          /\ cache'[g].expiresAt - TTL <= clock'
          /\ ActiveSince(g, cache[g].version, cache[g].expiresAt - TTL)'
    BY <2>1 DEF FreshInv, ActiveSince, Active
  <2> QED
    BY <2>2, <2>3 DEF FreshInv
<1>5. ASSUME NEW r \in Requests, LockHost(r) PROVE FreshInv'
  <2>1. /\ UNCHANGED <<clock, published, enabled, until, cache, reply>>
        /\ now'[r] = clock /\ clock <= clock
        /\ \A q \in Requests \ {r} : /\ pc'[q] = pc[q]
                                     /\ now'[q] = now[q]
                                     /\ host'[q] = host[q]
                                     /\ result'[q] = result[q]
        /\ pc'[r] # "answered"
        /\ \/ pc'[r] \notin {"unlock", "done"}
           \/ result'[r].kind = "empty_host"
    BY <1>5 DEF LockHost, controlVars, TypeOK
  <2>2. ASSUME NEW q \in Requests
        PROVE  /\ now'[q] <= clock'
               /\ pc'[q] = "answered" /\ reply'[q] # 0 =>
                    ActiveSince(host[q], reply[q], now[q])'
               /\ /\ pc'[q] \in {"unlock", "done"}
                  /\ result'[q].kind \in {"cached", "fetched"}
                  => ActiveSince(host[q], result[q].version, now[q] - TTL + 1)'
    <3>1. CASE q = r
      BY <2>1, <3>1 DEF ActiveSince, Active
    <3>2. CASE q # r
      BY <2>1, <3>2 DEF FreshInv, ActiveSince, Active
    <3> QED
      BY <3>1, <3>2
  <2>3. \A g \in Hosts : cache'[g].version # 0 =>
          /\ cache'[g].expiresAt - TTL <= clock'
          /\ ActiveSince(g, cache[g].version, cache[g].expiresAt - TTL)'
    BY <2>1 DEF FreshInv, ActiveSince, Active
  <2> QED
    BY <2>2, <2>3 DEF FreshInv
<1>6. ASSUME NEW r \in Requests, ControlAnswers(r) PROVE FreshInv'
  BY <1>6
  DEF ControlAnswers, controlVars, FreshInv, TypeOK, ActiveSince, Active
<1>7. ASSUME NEW r \in Requests, CheckCache(r) PROVE FreshInv'
  <2>0. /\ pc[r] # "done" /\ host[r] \in Hosts
        /\ now[r] \in Int /\ clock \in Int
        /\ TTL \in Int /\ TTL >= 1
    BY <1>7, ConstantsAssumption DEF CheckCache, LockInv, Critical, TypeOK
  <2>1. /\ UNCHANGED <<clock, published, enabled, until,
                       cache, host, now, reply>>
        /\ \A q \in Requests \ {r} : pc'[q] = pc[q] /\ result'[q] = result[q]
    BY <1>7 DEF CheckCache, controlVars, TypeOK
  <2>2. /\ pc'[r] # "answered"
        /\ \/ pc'[r] \notin {"unlock", "done"}
           \/ /\ result'[r].version = cache[host[r]].version
              /\ cache[host[r]].version # 0
              /\ now[r] < cache[host[r]].expiresAt
    BY <1>7 DEF CheckCache, Fresh, TypeOK
  <2>3. cache[host[r]].expiresAt \in Int
    BY <2>0 DEF TypeOK, Entry
  <2>4. \/ pc'[r] \notin {"unlock", "done"}
        \/ ActiveSince(host[r], result'[r].version, now[r] - TTL + 1)
    <3>1. CASE cache[host[r]].version = Active(host[r])
      BY <3>1, <2>2 DEF ActiveSince
    <3>2. CASE cache[host[r]].version # Active(host[r])
      <4> SUFFICES ASSUME pc'[r] \in {"unlock", "done"}
                   PROVE  until[host[r]][result'[r].version] >= now[r] - TTL + 1
        BY DEF ActiveSince
      <4>1. until[host[r]][cache[host[r]].version]
              >= cache[host[r]].expiresAt - TTL
        BY <2>0, <2>2, <3>2 DEF FreshInv, ActiveSince
      <4>2. until[host[r]][cache[host[r]].version] \in Int
        BY <2>0, <2>2, ConstantsAssumption DEF TypeOK, Entry, Versions
      <4> QED
        BY <4>1, <4>2, <2>0, <2>2, <2>3
    <3> QED
      BY <3>1, <3>2
  <2> QED
    BY <2>1, <2>2, <2>4 DEF FreshInv, ActiveSince, Active
<1>8. ASSUME NEW r \in Requests, Recheck(r) PROVE FreshInv'
  <2>0. /\ pc[r] # "done" /\ host[r] \in Hosts
        /\ now[r] \in Int /\ clock \in Int
        /\ TTL \in Int /\ TTL >= 1
    BY <1>8, ConstantsAssumption DEF Recheck, LockInv, Critical, TypeOK
  <2>1. /\ UNCHANGED <<clock, published, enabled, until,
                       cache, host, now, reply>>
        /\ \A q \in Requests \ {r} : pc'[q] = pc[q] /\ result'[q] = result[q]
    BY <1>8 DEF Recheck, controlVars, TypeOK
  <2>2. /\ pc'[r] # "answered"
        /\ \/ pc'[r] \notin {"unlock", "done"}
           \/ /\ result'[r].version = cache[host[r]].version
              /\ cache[host[r]].version # 0
              /\ now[r] < cache[host[r]].expiresAt
    BY <1>8 DEF Recheck, Fresh, TypeOK
  <2>3. cache[host[r]].expiresAt \in Int
    BY <2>0 DEF TypeOK, Entry
  <2>4. \/ pc'[r] \notin {"unlock", "done"}
        \/ ActiveSince(host[r], result'[r].version, now[r] - TTL + 1)
    <3>1. CASE cache[host[r]].version = Active(host[r])
      BY <3>1, <2>2 DEF ActiveSince
    <3>2. CASE cache[host[r]].version # Active(host[r])
      <4> SUFFICES ASSUME pc'[r] \in {"unlock", "done"}
                   PROVE  until[host[r]][result'[r].version] >= now[r] - TTL + 1
        BY DEF ActiveSince
      <4>1. until[host[r]][cache[host[r]].version]
              >= cache[host[r]].expiresAt - TTL
        BY <2>0, <2>2, <3>2 DEF FreshInv, ActiveSince
      <4>2. until[host[r]][cache[host[r]].version] \in Int
        BY <2>0, <2>2, ConstantsAssumption DEF TypeOK, Entry, Versions
      <4> QED
        BY <4>1, <4>2, <2>0, <2>2, <2>3
    <3> QED
      BY <3>1, <3>2
  <2> QED
    BY <2>1, <2>2, <2>4 DEF FreshInv, ActiveSince, Active
<1>9. ASSUME NEW r \in Requests, FetchSucceeds(r) PROVE FreshInv'
  <2>0. /\ pc[r] = "answered" /\ reply[r] # 0
        /\ host[r] \in Hosts /\ reply[r] \in Versions
        /\ now[r] \in Int /\ clock \in Int
        /\ TTL \in Int /\ TTL >= 1
    BY <1>9, ConstantsAssumption
    DEF FetchSucceeds, Parsed, LockInv, Critical, TypeOK, Versions
  <2>1. /\ UNCHANGED <<clock, published, enabled, until, host, now, reply>>
        /\ \A q \in Requests \ {r} : pc'[q] = pc[q] /\ result'[q] = result[q]
        /\ \A g \in Hosts \ {host[r]} : cache'[g] = cache[g]
        /\ cache'[host[r]].version = reply[r]
        /\ cache'[host[r]].expiresAt = now[r] + TTL
        /\ pc'[r] = "unlock" /\ result'[r].version = reply[r]
    BY <1>9, <2>0 DEF FetchSucceeds, Parsed, controlVars, TypeOK
  <2>2. /\ now[r] <= clock
        /\ ActiveSince(host[r], reply[r], now[r])
        /\ ActiveSince(host[r], reply[r], now[r] - TTL + 1)
    <3>1. now[r] <= clock /\ ActiveSince(host[r], reply[r], now[r])
      BY <2>0 DEF FreshInv
    <3>2. until[host[r]][reply[r]] \in Int
      BY <2>0 DEF TypeOK
    <3> QED
      BY <2>0, <3>1, <3>2 DEF ActiveSince
  <2>3. cache'[host[r]].expiresAt - TTL = now[r]
    BY <2>0, <2>1
  <2> QED
    BY <2>0, <2>1, <2>2, <2>3 DEF FreshInv, ActiveSince, Active
<1>10. ASSUME NEW r \in Requests, FetchFails(r) PROVE FreshInv'
  BY <1>10
  DEF FetchFails, controlVars, FreshInv, TypeOK, Fallback, ActiveSince, Active
<1>11. ASSUME NEW r \in Requests, Return(r) PROVE FreshInv'
  BY <1>11
  DEF Return, controlVars, FreshInv, TypeOK, ActiveSince, Active
<1>12. CASE UNCHANGED vars
  BY <1>12
  DEF vars, controlVars, lookupVars, ActiveSince, Active, FreshInv, TypeOK
<1> QED
  BY <1>1, <1>2, <1>3, <1>4, <1>5, <1>6, <1>7, <1>8, <1>9, <1>10, <1>11, <1>12
  DEF Next, LookupStep

-----------------------------------------------------------------------------
(* The inductive invariant and what follows from it. *)

LEMMA ProviderInit == Init => ProviderInv
<1> SUFFICES ASSUME Init PROVE ProviderInv
  OBVIOUS
<1>1. TypeOK /\ LockInv
  BY TypeLockInit DEF TypeLockInv
<1>2. ResultInv /\ VersionInv /\ ReadInv /\ ExpiryInv /\ FreshInv
  BY ConstantsAssumption
  DEF Init, ResultInv, VersionInv, ReadInv, ExpiryInv, FreshInv, Fetching,
      NoResult, NoEntry, FoundKinds
<1> QED
  BY <1>1, <1>2 DEF ProviderInv

LEMMA ProviderStep == ProviderInv /\ [Next]_vars => ProviderInv'
BY TypeLockStep, ResultStep, VersionStep, ReadStep, ExpiryStep, FreshStep
DEF ProviderInv, TypeLockInv

(* ProviderInv is an invariant of the provider, whatever the number of     *)
(* concurrent lookups, hosts and published versions.                       *)
THEOREM ProviderCorrect == Spec => []ProviderInv
BY ProviderInit, ProviderStep, PTL DEF Spec

(* A lookup that begins after another of its host has returned a policy    *)
(* returns one too, and none older: the cache never goes back and a failed *)
(* fetch falls back to it.                                                 *)
THEOREM LookupsReadMonotonically == Spec => []MonotonicReads
<1>1. ProviderInv => MonotonicReads
  BY DEF ProviderInv, ReadInv, MonotonicReads, Found
<1> QED
  BY <1>1, ProviderCorrect, PTL

(* No policy is handed out as current that had been replaced or disabled a *)
(* TTL or more before the time the lookup read.                            *)
THEOREM CurrentPoliciesAreRecent == Spec => []CurrentWithinTTL
<1>1. ProviderInv => CurrentWithinTTL
  BY DEF ProviderInv, FreshInv, CurrentWithinTTL, Found, FoundKinds
<1> QED
  BY <1>1, ProviderCorrect, PTL

(* What a step does to a cached entry: only the holder of the host lock    *)
(* stores, an answer at least as new, a TTL after the entry it replaces.   *)
LEMMA CacheStep ==
  ASSUME ProviderInv, [Next]_vars, NEW h \in Hosts
  PROVE  /\ cache'[h].version >= cache[h].version
         /\ cache'[h] # cache[h] /\ cache[h].version # 0 =>
              cache'[h].expiresAt >= cache[h].expiresAt + TTL
<1> cache[h].version \in Int /\ cache[h].expiresAt \in Int
  BY DEF ProviderInv, TypeOK, Entry
<1>1. ASSUME NEW r \in Requests, FetchSucceeds(r), host[r] = h
      PROVE  /\ cache'[h].version >= cache[h].version
             /\ cache[h].version # 0 =>
                  cache'[h].expiresAt >= cache[h].expiresAt + TTL
  <2>1. /\ cache'[h].version = reply[r]
        /\ cache'[h].expiresAt = now[r] + TTL
        /\ pc[r] = "answered"
        /\ reply[r] # 0
    BY <1>1 DEF FetchSucceeds, Parsed, ProviderInv, TypeOK, Versions
  <2>2. reply[r] \in Int /\ now[r] \in Int /\ TTL \in Int
    BY ConstantsAssumption DEF ProviderInv, TypeOK
  <2>3. cache[h].version <= reply[r]
    BY <1>1, <2>1 DEF ProviderInv, VersionInv
  <2>4. cache[h].version # 0 => cache[h].expiresAt <= now[r]
    BY <1>1, <2>1, <2>2 DEF ProviderInv, ExpiryInv, Fetching, Fresh
  <2> QED
    BY <2>1, <2>2, <2>3, <2>4
<1>2. ASSUME NEW r \in Requests, FetchSucceeds(r), host[r] # h
      PROVE  cache'[h] = cache[h]
  BY <1>2 DEF FetchSucceeds, Parsed, ProviderInv, TypeOK
<1>3. ASSUME \A r \in Requests : ~ FetchSucceeds(r) PROVE cache' = cache
  BY <1>3
  DEF Next, LookupStep, Tick, Publish, SetEnabled, Begin, CheckCache,
      LockHost, Recheck, ControlAnswers, FetchFails, Return, vars
<1> QED
  BY <1>1, <1>2, <1>3

(* A cached policy is never replaced by an older one. *)
THEOREM CacheIsMonotonic == Spec => CacheNeverRegresses
<1>1. ProviderInv /\ [Next]_vars =>
        [\A h \in Hosts : cache'[h].version >= cache[h].version]_vars
  BY CacheStep
<1> QED
  BY <1>1, ProviderCorrect, PTL DEF Spec, CacheNeverRegresses

(* Two fills of a host's entry are at least one TTL apart. *)
THEOREM FillsAreSpaced == Spec => FillsSpacedByTTL
<1>1. ProviderInv /\ [Next]_vars =>
        [\A h \in Hosts :
           cache'[h] # cache[h] /\ cache[h].version # 0 =>
             cache'[h].expiresAt >= cache[h].expiresAt + TTL]_vars
  BY CacheStep
<1> QED
  BY <1>1, ProviderCorrect, PTL DEF Spec, FillsSpacedByTTL

=============================================================================
